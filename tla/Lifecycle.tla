------------------------------ MODULE Lifecycle -----------------------------
(***************************************************************************)
(* The life of a context: ctx_t::start builds the reaper and the I/O       *)
(* threads one after the other, host_init has the reaper plug the          *)
(* sessions, and ctx_t::terminate stops and deletes everything again while *)
(* the threads still work.                                                 *)
(*                                                                         *)
(* A mailbox is the FIFO queue of CommandChannel with the parts of         *)
(* mailbox_t that its destruction can meet: the mutex a sender holds, the  *)
(* byte it sends after giving the mutex back, and the moment the           *)
(* descriptors are closed and the memory is freed.  A thread is a loop     *)
(* that waits for the byte, drains its mailbox and leaves when it finds    *)
(* stopping set.                                                           *)
(***************************************************************************)
EXTENDS Integers, Sequences, FiniteSets

CONSTANTS
    NumThreads,   \* io_thread_count
    Sessions,     \* the links that are scanned
    MaxReports    \* bound: reports a session posts to the reaper

App == 0                           \* the application's thread, term_tid
Reaper == 1                        \* reaper_tid
IoThreads == 2 .. NumThreads + 1
Workers == {Reaper} \cup IoThreads
Threads == {App} \cup Workers
Nobody == -1

ASSUME ThreadsAssumption == NumThreads \in Nat \ {0}
ASSUME SessionsAssumption == IsFiniteSet(Sessions)
ASSUME BoundAssumption == MaxReports \in Nat

VARIABLES
    apc,        \* where the application is
    at,         \* the thread the application starts, stops or deletes next
    box,        \* life of each thread's mailbox
    queue,      \* the commands in it
    holder,     \* the thread that holds its mutex
    asleep,     \* its reader has found it empty
    byte,       \* the byte that wakes the reader is in the socket
    sending,    \* what each thread is sending
    loop,       \* where the loop of each thread is
    stopping,   \* epoll_t::stopping of each thread's poller
    toPlug,     \* sessions the reaper's process_plug has not reached
    sess,       \* life of each session object
    home,       \* its I/O thread
    reports,    \* reports the session has posted
    fault       \* the thread that used something deleted, if one did

appVars == <<apc, at>>
boxVars == <<box, queue, holder, asleep, byte>>
loopVars == <<loop, stopping>>
sessVars == <<toPlug, sess, home, reports>>
vars == <<appVars, boxVars, sending, loopVars, sessVars, fault>>

Idle == [pc |-> "idle"]
Cmd(type, h) == [type |-> type, session |-> h]
Stop == [type |-> "stop"]
PlugAll == [type |-> "plug"]

\* ctx_t::ctx_t
Init ==
    /\ apc = "start" /\ at = Reaper
    /\ box = [t \in Workers |-> "none"]
    /\ queue = [t \in Workers |-> <<>>]
    /\ holder = [t \in Workers |-> Nobody]
    /\ asleep = [t \in Workers |-> TRUE]
    /\ byte = [t \in Workers |-> FALSE]
    /\ sending = [t \in Threads |-> Idle]
    /\ loop = [t \in Workers |-> "unborn"]
    /\ stopping = [t \in Workers |-> FALSE]
    /\ toPlug = {}
    /\ sess = [h \in Sessions |-> "none"]
    /\ home = [h \in Sessions |-> Nobody]
    /\ reports = [h \in Sessions |-> 0]
    /\ fault = Nobody

-----------------------------------------------------------------------------
(* mailbox_t::send, in its three steps. *)

\* A mailbox that is not there is not to be touched.
Touch(s, t) == IF box[t] = "open" THEN fault ELSE s

\* ctx_t::send_command looks the mailbox up and calls send; both read the
\* destination, which may be gone.
Post(s, t, c) ==
    /\ sending[s] = Idle
    /\ sending' = [sending EXCEPT ![s] = [pc |-> "lock", to |-> t, cmd |-> c]]
    /\ fault' = Touch(s, t)

\* With the mutex held the command is written and flushed; flush tells the
\* sender whether the reader is asleep.
LockAndWrite(s) ==
    /\ sending[s].pc = "lock"
    /\ LET t == sending[s].to IN
        /\ holder[t] = Nobody
        /\ fault' = Touch(s, t)
        /\ holder' = [holder EXCEPT ![t] = s]
        /\ queue' = [queue EXCEPT ![t] = Append(@, sending[s].cmd)]
        /\ asleep' = [asleep EXCEPT ![t] = FALSE]
        /\ sending' = [sending EXCEPT ![s] =
                          [pc |-> "unlock", to |-> t, wake |-> asleep[t]]]
    /\ UNCHANGED <<appVars, box, byte, loopVars, sessVars>>

Unlock(s) ==
    /\ sending[s].pc = "unlock"
    /\ LET t == sending[s].to IN
        /\ fault' = Touch(s, t)
        /\ holder' = [holder EXCEPT ![t] = Nobody]
        /\ sending' = [sending EXCEPT ![s] =
                          IF sending[s].wake THEN [pc |-> "signal", to |-> t] ELSE Idle]
    /\ UNCHANGED <<appVars, box, queue, asleep, byte, loopVars, sessVars>>

\* signaler.send (), with the mutex already given back.
Signal(s) ==
    /\ sending[s].pc = "signal"
    /\ LET t == sending[s].to IN
        /\ fault' = Touch(s, t)
        /\ byte' = [byte EXCEPT ![t] = TRUE]
        /\ sending' = [sending EXCEPT ![s] = Idle]
    /\ UNCHANGED <<appVars, box, queue, holder, asleep, loopVars, sessVars>>

-----------------------------------------------------------------------------
(* The application: start, host_init, terminate. *)

\* The body of ctx_t::start for one thread: the object is created, its mailbox
\* entered in the slots and its loop launched.
StartThread ==
    /\ apc = "start"
    /\ box' = [box EXCEPT ![at] = "open"]
    /\ loop' = [loop EXCEPT ![at] = "polling"]
    /\ IF at = NumThreads + 1 THEN apc' = "load" /\ at' = Reaper
       ELSE apc' = "start" /\ at' = at + 1
    /\ UNCHANGED <<queue, holder, asleep, byte, sending, stopping, sessVars, fault>>

\* host_init reads the list; without one it returns and leaves the context up.
CreateLinkFails ==
    /\ apc = "load"
    /\ apc' = "up"
    /\ UNCHANGED <<at, boxVars, sending, loopVars, sessVars, fault>>

\* open_all_link
OpenAllLink ==
    /\ apc = "load"
    /\ Post(App, Reaper, PlugAll)
    /\ apc' = "up"
    /\ UNCHANGED <<at, boxVars, loopVars, sessVars>>

\* Fault: the I/O threads are stopped and deleted first.
TerminateIoFirst ==
    /\ apc = "up"
    /\ apc' = "stopIo" /\ at' = 2
    /\ UNCHANGED <<boxVars, sending, loopVars, sessVars, fault>>

\* The destructor asks the reaper to stop ...
Terminate ==
    /\ apc = "up"
    /\ Post(App, Reaper, Stop)
    /\ apc' = "join" /\ at' = Reaper
    /\ UNCHANGED <<boxVars, loopVars, sessVars>>

\* Fault: the object is deleted without waiting for its thread.
JoinNotWaiting ==
    /\ apc = "join" /\ sending[App] = Idle
    /\ apc' = "wait"
    /\ UNCHANGED <<at, boxVars, sending, loopVars, sessVars, fault>>

\* ... and deletes it: the poller's destructor waits for the thread, the
\* mailbox's for the mutex, then the mailbox is taken apart.
Join ==
    /\ apc = "join" /\ sending[App] = Idle
    /\ loop[at] = "exited"
    /\ apc' = "wait"
    /\ UNCHANGED <<at, boxVars, sending, loopVars, sessVars, fault>>

WaitForMutex ==
    /\ apc = "wait"
    /\ holder[at] = Nobody
    /\ apc' = "close"
    /\ UNCHANGED <<at, boxVars, sending, loopVars, sessVars, fault>>

\* A mutex that is locked again by now fails the assertion of its destructor.
\* The I/O threads are all asked to stop before the first one is deleted.
CloseBox ==
    /\ apc = "close"
    /\ box' = [box EXCEPT ![at] = "closed"]
    /\ fault' = holder[at]
    /\ apc' = CASE at = Reaper -> "stopIo" [] at = NumThreads + 1 -> "gone"
                [] OTHER -> "join"
    /\ at' = IF at = NumThreads + 1 THEN at ELSE at + 1
    /\ UNCHANGED <<queue, holder, asleep, byte, sending, loopVars, sessVars>>

\* Fault: the last I/O thread is not told to stop.
StopIoAllButLast ==
    /\ apc = "stopIo"
    /\ IF at = NumThreads + 1
       THEN apc' = "join" /\ at' = 2 /\ UNCHANGED <<sending, fault>>
       ELSE apc' = "stopIo" /\ at' = at + 1 /\ Post(App, at, Stop)
    /\ UNCHANGED <<boxVars, loopVars, sessVars>>

StopIo ==
    /\ apc = "stopIo"
    /\ Post(App, at, Stop)
    /\ IF at = NumThreads + 1 THEN apc' = "join" /\ at' = 2
       ELSE apc' = "stopIo" /\ at' = at + 1
    /\ UNCHANGED <<boxVars, loopVars, sessVars>>

-----------------------------------------------------------------------------
(* The loop of a thread. *)

\* epoll_wait returns with the mailbox readable.
WakeUp(t) ==
    /\ loop[t] = "polling" /\ ~stopping[t] /\ sending[t] = Idle
    /\ byte[t]
    /\ loop' = [loop EXCEPT ![t] = "draining"]
    /\ UNCHANGED <<appVars, boxVars, sending, stopping, sessVars, fault>>

\* recv finds nothing more: the byte is taken back and in_event returns.
FallAsleep(t) ==
    /\ loop[t] = "draining" /\ sending[t] = Idle
    /\ t = Reaper => toPlug = {}
    /\ queue[t] = <<>>
    /\ asleep' = [asleep EXCEPT ![t] = TRUE]
    /\ byte' = [byte EXCEPT ![t] = FALSE]
    /\ loop' = [loop EXCEPT ![t] = "polling"]
    /\ UNCHANGED <<appVars, box, queue, holder, sending, stopping, sessVars, fault>>

LeaveLoop(t) ==
    /\ loop[t] = "polling" /\ stopping[t]
    /\ loop' = [loop EXCEPT ![t] = "exited"]
    /\ UNCHANGED <<appVars, boxVars, sending, stopping, sessVars, fault>>

\* The thread takes the oldest command.
Receives(t, c) ==
    /\ loop[t] = "draining" /\ sending[t] = Idle
    /\ t = Reaper => toPlug = {}
    /\ queue[t] # <<>> /\ Head(queue[t]) = c
    /\ queue' = [queue EXCEPT ![t] = Tail(@)]
    /\ UNCHANGED <<appVars, box, holder, asleep, byte>>

\* process_stop of either kind of thread; in_event goes on draining.
ProcessStop(t) ==
    /\ Receives(t, Stop)
    /\ stopping' = [stopping EXCEPT ![t] = TRUE]
    /\ UNCHANGED <<sending, loop, sessVars, fault>>

\* reaper_t::process_plug starts, and creates and plugs one session a turn.
ReaperPlug ==
    /\ Receives(Reaper, PlugAll)
    /\ toPlug' = Sessions
    /\ UNCHANGED <<sending, loopVars, sess, home, reports, fault>>

PlugSession ==
    /\ loop[Reaper] = "draining"
    /\ \E h \in toPlug, t \in {t \in IoThreads : loop[t] # "unborn"} :
        /\ Post(Reaper, t, Cmd("plug", h))
        /\ toPlug' = toPlug \ {h}
        /\ sess' = [sess EXCEPT ![h] = "posted"]
        /\ home' = [home EXCEPT ![h] = t]
    /\ UNCHANGED <<appVars, boxVars, loopVars, reports>>

\* session_time_out only calls the application.
ReaperTimeOut ==
    /\ \E h \in Sessions : Receives(Reaper, Cmd("timeOut", h))
    /\ UNCHANGED <<sending, loopVars, sessVars, fault>>

\* session_leave sends the session its term command.
ReaperLeave ==
    /\ \E h \in Sessions :
        /\ Receives(Reaper, Cmd("leave", h))
        /\ Post(Reaper, home[h], Cmd("term", h))
    /\ UNCHANGED <<loopVars, sessVars>>

\* session_node::process_plug: the session runs, or has no socket and leaves.
SessionPlug(t) ==
    /\ \E h \in Sessions :
        /\ Receives(t, Cmd("plug", h))
        /\ \/ /\ sess' = [sess EXCEPT ![h] = "runs"]
              /\ UNCHANGED <<sending, fault>>
           \/ /\ sess' = [sess EXCEPT ![h] = "leaving"]
              /\ Post(t, Reaper, Cmd("leave", h))
    /\ UNCHANGED <<loopVars, toPlug, home, reports>>

SessionTerm(t) ==
    /\ \E h \in Sessions :
        /\ Receives(t, Cmd("term", h))
        /\ sess' = [sess EXCEPT ![h] = "deleted"]
    /\ UNCHANGED <<sending, loopVars, toPlug, home, reports, fault>>

\* A timer that finds its host silent, or a failed read, reports it.
SessionReports(t) ==
    /\ loop[t] = "polling" /\ ~stopping[t]
    /\ \E h \in Sessions :
        /\ sess[h] = "runs" /\ home[h] = t /\ reports[h] < MaxReports
        /\ Post(t, Reaper, Cmd("timeOut", h))
        /\ reports' = [reports EXCEPT ![h] = @ + 1]
    /\ UNCHANGED <<appVars, boxVars, loopVars, toPlug, sess, home>>

-----------------------------------------------------------------------------

Sends(s) == sending[s] # Idle /\ (LockAndWrite(s) \/ Unlock(s) \/ Signal(s))

AppStep ==
    \/ StartThread \/ CreateLinkFails \/ OpenAllLink
    \/ Join \/ WaitForMutex \/ CloseBox \/ StopIo
    \/ Sends(App)

ReaperStep ==
    \/ ReaperPlug \/ PlugSession \/ ReaperTimeOut \/ ReaperLeave

WorkerStep(t) ==
    \/ WakeUp(t) \/ FallAsleep(t) \/ LeaveLoop(t) \/ ProcessStop(t)
    \/ Sends(t)
    \/ t = Reaper /\ ReaperStep
    \/ t \in IoThreads /\ (SessionPlug(t) \/ SessionTerm(t))

\* What follows a use of deleted memory is not the program's any more.
Next ==
    /\ fault = Nobody
    /\ \/ AppStep
       \/ Terminate
       \/ \E t \in Workers : WorkerStep(t)
       \/ \E t \in IoThreads : SessionReports(t)

\* Threads run; whether the application ever terminates is its own choice, and
\* no report is owed.
Fairness ==
    /\ WF_vars(fault = Nobody /\ AppStep)
    /\ \A t \in Workers : WF_vars(fault = Nobody /\ WorkerStep(t))

Spec == Init /\ [][Next]_vars /\ Fairness

-----------------------------------------------------------------------------
(* Properties. *)

Commands == {Stop, PlugAll} \cup
    [type : {"plug", "term", "leave", "timeOut"}, session : Sessions]

\* What mailbox_t::send of a thread is doing.
Sendings ==
    {Idle} \cup [pc : {"lock"}, to : Workers, cmd : Commands]
           \cup [pc : {"unlock"}, to : Workers, wake : BOOLEAN]
           \cup [pc : {"signal"}, to : Workers]

\* The types of the variables.
TypeOK ==
    /\ apc \in {"start", "load", "up", "join", "wait", "close", "stopIo", "gone"}
    /\ at \in Workers
    /\ box \in [Workers -> {"none", "open", "closed"}]
    /\ queue \in [Workers -> Seq(Commands)]
    /\ holder \in [Workers -> Threads \cup {Nobody}]
    /\ asleep \in [Workers -> BOOLEAN] /\ byte \in [Workers -> BOOLEAN]
    /\ sending \in [Threads -> Sendings]
    /\ loop \in [Workers -> {"unborn", "polling", "draining", "exited"}]
    /\ stopping \in [Workers -> BOOLEAN]
    /\ toPlug \subseteq Sessions
    /\ sess \in [Sessions -> {"none", "posted", "runs", "leaving", "deleted"}]
    /\ home \in [Sessions -> IoThreads \cup {Nobody}]
    /\ reports \in [Sessions -> 0 .. MaxReports]
    /\ fault \in Threads \cup {Nobody}

\* The threads that have been deleted, and those that were told to stop, by
\* where the application is: it stops and deletes the reaper, then stops the
\* I/O threads, then deletes them in their order.
Deleting == {"join", "wait", "close"}

Gone(t) ==
    \/ apc = "gone"
    \/ apc = "stopIo" /\ t = Reaper
    \/ apc \in Deleting /\ t < at

Told(t) ==
    \/ apc = "gone"
    \/ apc = "stopIo" /\ (t = Reaper \/ t < at)
    \/ apc \in Deleting /\ (t = Reaper \/ at # Reaper)

Unborn(t) == apc = "start" /\ t >= at

\* A command is in the mailbox of t, or has been posted and will be.
Queued(t, c) == \E i \in 1 .. Len(queue[t]) : queue[t][i] = c
Posting(s, t) == sending[s].pc = "lock" /\ sending[s].to = t
OnTheWay(t, c) == Queued(t, c) \/ \E s \in Threads : Posting(s, t) /\ sending[s].cmd = c

\* Each thread is where the application's progress has brought it.
Staged ==
    /\ apc = "stopIo" => at # Reaper
    /\ \A t \in Workers :
        /\ box[t] = IF Unborn(t) THEN "none" ELSE IF Gone(t) THEN "closed" ELSE "open"
        /\ loop[t] = "unborn" <=> Unborn(t)
        /\ Gone(t) => loop[t] = "exited"
    /\ apc \in {"wait", "close"} => loop[at] = "exited"

\* Who may be inside of send, to whom, and what is still alive then.
AppSends ==
    /\ sending[App] # Idle => box[sending[App].to] = "open"
    /\ apc \in {"start", "load", "wait", "close", "gone"} => sending[App] = Idle
    /\ apc \in Deleting /\ at \notin {Reaper, 2} => sending[App] = Idle

ReaperSends ==
    sending[Reaper] # Idle =>
        /\ loop[Reaper] = "draining"
        /\ sending[Reaper].to \in IoThreads /\ loop[sending[Reaper].to] # "unborn"

IoSends ==
    \A t \in IoThreads : sending[t] # Idle =>
        /\ loop[t] = "draining" \/ (loop[t] = "polling" /\ ~stopping[t])
        /\ sending[t].to = Reaper
        /\ \E h \in Sessions : home[h] = t /\ sess[h] \in {"runs", "leaving"}

\* Only a thread inside of send has the mutex of a mailbox.
MutexHeld ==
    \A t \in Workers : holder[t] # Nobody =>
        sending[holder[t]].pc = "unlock" /\ sending[holder[t]].to = t

\* The sessions are plugged once, and a command about a session goes to the
\* thread it lives in.
Fresh == toPlug = {} /\ \A h \in Sessions : sess[h] = "none"

PluggedOnce ==
    /\ apc \in {"start", "load"} => Fresh /\ ~Queued(Reaper, PlugAll)
    /\ OnTheWay(Reaper, PlugAll) => Fresh
    /\ Posting(App, Reaper) /\ sending[App].cmd = PlugAll => ~Queued(Reaper, PlugAll)
    /\ \A s \in Workers : sending[s].pc = "lock" => sending[s].cmd # PlugAll
    /\ \A i, j \in 1 .. Len(queue[Reaper]) :
        queue[Reaper][i] = PlugAll /\ queue[Reaper][j] = PlugAll => i = j

AtHome ==
    \A h \in Sessions :
        /\ h \in toPlug => sess[h] = "none"
        /\ sess[h] # "none" => home[h] \in IoThreads /\ loop[home[h]] # "unborn"
        /\ OnTheWay(Reaper, Cmd("leave", h)) => sess[h] # "none"
        /\ \A t \in IoThreads :
            OnTheWay(t, Cmd("plug", h)) \/ OnTheWay(t, Cmd("term", h))
            => sess[h] # "none" /\ home[h] = t

\* Nothing follows the stop command into the mailbox of an I/O thread.
StopIsLast ==
    \A t \in IoThreads :
        /\ OnTheWay(t, Stop) \/ stopping[t] => Told(t)
        /\ Queued(t, Stop) \/ stopping[t] => ~Posting(App, t)
        /\ loop[t] = "exited" => stopping[t]
        /\ stopping[t] /\ loop[t] # "draining" => queue[t] = <<>>

\* A session that has left is on its way to be deleted.
Leaving ==
    \A h \in Sessions : sess[h] = "leaving" =>
        \/ OnTheWay(Reaper, Cmd("leave", h))
        \/ \E t \in IoThreads : OnTheWay(t, Cmd("term", h))

\* Waiting for the mutex keeps a mailbox alive for the threads that are still
\* in its send, as the comment in its destructor has it.
NoLateUse == fault = Nobody

\* Only a session can break the shutdown: a thread that uses something deleted
\* is an I/O thread with a session of its own to report, and what is deleted
\* is the reaper.
OnlySessionsReportLate ==
    fault # Nobody =>
        /\ box[Reaper] = "closed"
        /\ fault \in IoThreads
        /\ \E h \in Sessions : home[h] = fault /\ sess[h] \in {"runs", "leaving"}

\* When the mailbox of an I/O thread is deleted no thread is in its send any
\* more, with or without the mutex, and none enters it afterwards.
IoBoxesQuiet ==
    \A t \in IoThreads : box[t] = "closed" =>
        \A s \in Threads : sending[s] # Idle => sending[s].to # t

\* The inductive invariant.
Inductive ==
    /\ TypeOK /\ Staged /\ AppSends /\ ReaperSends /\ IoSends /\ MutexHeld
    /\ PluggedOnce /\ AtHome /\ StopIsLast /\ Leaving /\ OnlySessionsReportLate

\* A thread is joined before anything it uses is deleted, by the order the
\* invariant describes; only a report that comes after the reaper is gone
\* breaks that.
ShutdownSafe == Inductive /\ IoBoxesQuiet

\* An I/O thread leaves its loop with nothing left in its mailbox: every
\* session sent to it was plugged, every term carried out.
NothingUnread ==
    \A t \in IoThreads : loop[t] = "exited" => queue[t] = <<>>

\* A session that left because it has no socket is deleted even when the
\* shutdown starts meanwhile, unless its report came too late for the reaper.
LeaversDeleted ==
    apc = "gone" =>
        \A h \in Sessions : sess[h] = "leaving" =>
            \E i \in 1 .. Len(queue[Reaper]) : queue[Reaper][i] = Cmd("leave", h)

\* A command is carried out, or is one the reaper stopped before.
EveryCommandDone == NothingUnread /\ LeaversDeleted

\* The destructor does not hang: every thread gets its stop command, leaves
\* its loop and is joined, unless a late report ends the process first.
ShutdownCompletes == (apc = "join" /\ at = Reaper) ~> (apc = "gone" \/ fault # Nobody)

=============================================================================

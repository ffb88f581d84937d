------------------------------ MODULE HostScan ------------------------------
(***************************************************************************)
(* The scanner at work: the application's host_init, the reaper thread     *)
(* that creates and terminates the sessions, the I/O threads that run      *)
(* them, and the hosts that answer or stay silent.                         *)
(*                                                                         *)
(* A handler (of a command, of a timer, of a readable or writable socket)  *)
(* runs to its end on the thread that owns the object, so it is one step;  *)
(* threads meet only in their mailboxes, FIFO queues here (that is what    *)
(* Mailbox implements), and in the pollers' load counters.  Time advances  *)
(* in ticks; a tick is one second, the unit of m_scan_time and m_time_out. *)
(***************************************************************************)
EXTENDS Integers, Sequences, FiniteSets

CONSTANTS
    Links,          \* the configured links in the order of their node ids
    ScanTime,       \* m_scan_time of each link, 0 for one that is skipped
    TimeOut,        \* m_time_out of each link
    NumThreads,     \* io_thread_count
    PlugOutcomes,   \* what may happen when a session is plugged
    WrapTicks,      \* ticks until a 32-bit count of microseconds wraps
    KeepUp,         \* time waits for the I/O threads to handle what is due
    MaxReplies,     \* bound: echo replies per host
    MaxReadErrors   \* bound: failed reads per session

Hosts == {Links[i] : i \in 1 .. Len(Links)}
IoThreads == 1 .. NumThreads

ASSUME LinksAssumption ==
    /\ Links \in Seq(Hosts)
    /\ \A i, j \in 1 .. Len(Links) : Links[i] = Links[j] => i = j
ASSUME TimesAssumption == ScanTime \in [Hosts -> Nat] /\ TimeOut \in [Hosts -> Nat]
ASSUME ThreadsAssumption == NumThreads \in Nat \ {0}
ASSUME OutcomesAssumption == PlugOutcomes \subseteq {"ok", "noSocket", "unresolved"}
ASSUME BoundsAssumption ==
    /\ WrapTicks \in Nat /\ WrapTicks >= 2
    /\ KeepUp \in BOOLEAN
    /\ MaxReplies \in Nat /\ MaxReadErrors \in Nat

VARIABLES
    apc,        \* where host_init is
    outFun,     \* reaper_t::_out_func is set
    replayFun,  \* reaper_t::_recv_func is set
    reaperQ,    \* commands in the reaper's mailbox
    toPlug,     \* links the running process_plug of the reaper has not reached
    connecters, \* keys of reaper_t::_connecters
    ioQ,        \* commands in each I/O thread's mailbox
    load,       \* poller_base_t load of each I/O thread
    thread,     \* the I/O thread of each session
    sess,       \* life of the session object of each link
    polled,     \* sessions whose socket the poller watches
    pollout,    \* sessions that asked for EPOLLOUT
    timer,      \* ticks until the session's timer is due, Off when not armed
    age,        \* now - _last_check_tick, as the 32-bit value abs () is given
    hadReport,  \* sessionbase_t::had_report
    probed,     \* an echo request has been sent to the host
    inbox,      \* replies of the host in the session's socket
    crashed,    \* the process is gone
    silence,    \* history: true ticks since _last_check_tick (saturates)
    attempted,  \* history: a probe was attempted after the last accepted reply
    replies,    \* history: replies the host has sent
    readErrors, \* history: reads that failed
    accepted,   \* history: replies on_recv has accepted
    reports,    \* history: connect_time_out commands posted
    outCalls    \* history: calls of _out_func

appVars == <<apc, outFun, replayFun>>
reaperVars == <<toPlug, connecters>>
pollVars == <<polled, pollout, timer>>
clockVars == <<age, silence>>
netVars == <<probed, inbox, attempted, replies, readErrors, accepted>>
countVars == <<reports, outCalls>>
vars == <<appVars, reaperVars, pollVars, clockVars, netVars, countVars, reaperQ, ioQ,
          load, thread, sess, hadReport, crashed>>

Off == -1
NoThread == 0

\* m_scan_time <= 0 stands for one second.
Period(h) == IF ScanTime[h] <= 0 THEN 1 ELSE ScanTime[h]

\* abs () of the 32-bit difference: the half of the range that is negative is
\* mirrored, and the most negative value stays negative.
Elapsed(a) ==
    IF 2 * a < WrapTicks THEN a
    ELSE IF 2 * a = WrapTicks THEN -a
    ELSE WrapTicks - a

\* The history of a silence need not be counted any further than this.
SilenceCap(h) == TimeOut[h] + 2 * Period(h)

Cmd(type, h) == [type |-> type, session |-> h]
PlugAll == [type |-> "plug"]

-----------------------------------------------------------------------------
(* ctx_t::start has run: the threads are up, nothing is plugged.           *)

Init ==
    /\ apc = "createLink"
    /\ outFun = FALSE /\ replayFun = FALSE
    /\ reaperQ = <<>>
    /\ toPlug = <<>>
    /\ connecters = {}
    /\ ioQ = [t \in IoThreads |-> <<>>]
    /\ load = [t \in IoThreads |-> 1]       \* the mailbox of the thread itself
    /\ thread = [h \in Hosts |-> NoThread]
    /\ sess = [h \in Hosts |-> "none"]
    /\ polled = {} /\ pollout = {}
    /\ timer = [h \in Hosts |-> Off]
    /\ age = [h \in Hosts |-> 0]
    /\ hadReport = [h \in Hosts |-> FALSE]
    /\ probed = [h \in Hosts |-> FALSE]
    /\ inbox = [h \in Hosts |-> 0]
    /\ crashed = FALSE
    /\ silence = [h \in Hosts |-> 0]
    /\ attempted = [h \in Hosts |-> FALSE]
    /\ replies = [h \in Hosts |-> 0]
    /\ readErrors = [h \in Hosts |-> 0]
    /\ accepted = [h \in Hosts |-> 0]
    /\ reports = [h \in Hosts |-> 0]
    /\ outCalls = [h \in Hosts |-> 0]

-----------------------------------------------------------------------------
(* host_init, on the application's thread                                  *)

\* create_link reads the list; when it cannot, host_init returns false.
CreateLink ==
    /\ apc = "createLink"
    /\ apc' \in {"setLogoutFun", "failed"}
    /\ UNCHANGED <<outFun, replayFun, reaperVars, pollVars, clockVars, netVars, countVars,
                   reaperQ, ioQ, load, thread, sess, hadReport, crashed>>

\* Fault: host_init forgets the function.
SetLogoutFunForgotten ==
    /\ apc = "setLogoutFun"
    /\ apc' = "setReplayFun"
    /\ UNCHANGED <<outFun, replayFun, reaperVars, pollVars, clockVars, netVars, countVars,
                   reaperQ, ioQ, load, thread, sess, hadReport, crashed>>

SetLogoutFun ==
    /\ apc = "setLogoutFun"
    /\ outFun' = TRUE
    /\ apc' = "setReplayFun"
    /\ UNCHANGED <<replayFun, reaperVars, pollVars, clockVars, netVars, countVars,
                   reaperQ, ioQ, load, thread, sess, hadReport, crashed>>

SetReplayFun ==
    /\ apc = "setReplayFun"
    /\ replayFun' = TRUE
    /\ apc' = "openAllLink"
    /\ UNCHANGED <<outFun, reaperVars, pollVars, clockVars, netVars, countVars,
                   reaperQ, ioQ, load, thread, sess, hadReport, crashed>>

\* open_all_link: plug for the reaper itself.
OpenAllLink ==
    /\ apc = "openAllLink"
    /\ reaperQ' = Append(reaperQ, PlugAll)
    /\ apc' = "done"
    /\ UNCHANGED <<outFun, replayFun, reaperVars, pollVars, clockVars, netVars, countVars,
                   ioQ, load, thread, sess, hadReport, crashed>>

HostInit == CreateLink \/ SetLogoutFun \/ SetReplayFun \/ OpenAllLink

-----------------------------------------------------------------------------
(* The reaper thread                                                       *)

\* The reaper takes its next command only when it is not inside process_plug.
ReaperTakes(type) ==
    /\ toPlug = <<>>
    /\ reaperQ # <<>>
    /\ Head(reaperQ).type = type
    /\ reaperQ' = Tail(reaperQ)

\* process_plug starts its walk over the links, in the order of the map.
ReaperPlug ==
    /\ ReaperTakes("plug")
    /\ toPlug' = Links
    /\ UNCHANGED <<appVars, connecters, pollVars, clockVars, netVars, countVars,
                   ioQ, load, thread, sess, hadReport, crashed>>

\* choose_io_thread: the first thread with the least load.
Chosen(t) ==
    /\ \A u \in IoThreads : load[t] <= load[u]
    /\ \A u \in 1 .. (t - 1) : load[t] < load[u]

\* A round of process_plug for a link without a scan time.
SkipLink ==
    /\ toPlug # <<>>
    /\ ScanTime[Head(toPlug)] = 0
    /\ toPlug' = Tail(toPlug)
    /\ UNCHANGED <<appVars, connecters, pollVars, clockVars, netVars, countVars, reaperQ, ioQ,
                   load, thread, sess, hadReport, crashed>>

\* A round for any other link: create a session and plug it into its thread.
\* The I/O threads run meanwhile, and it is they who count their load.
PlugLink ==
    /\ toPlug # <<>>
    /\ ScanTime[Head(toPlug)] # 0
    /\ LET h == Head(toPlug)
       IN  \E t \in IoThreads :
             /\ Chosen(t)
             /\ thread' = [thread EXCEPT ![h] = t]
             /\ sess' = [sess EXCEPT ![h] = "created"]
             /\ connecters' = connecters \cup {h}
             /\ ioQ' = [ioQ EXCEPT ![t] = Append(@, Cmd("plug", h))]
    /\ toPlug' = Tail(toPlug)
    /\ UNCHANGED <<appVars, pollVars, clockVars, netVars, countVars, reaperQ, load,
                   hadReport, crashed>>

\* session_time_out: tell the application, if it gave a function.
SessionTimeOut ==
    /\ ReaperTakes("connectTimeOut")
    /\ LET h == Head(reaperQ).session
       IN  outCalls' = IF outFun THEN [outCalls EXCEPT ![h] = @ + 1] ELSE outCalls
    /\ UNCHANGED <<appVars, reaperVars, pollVars, clockVars, netVars, reports,
                   ioQ, load, thread, sess, hadReport, crashed>>

\* Fault: the session leaves the map and nobody terminates it.
SessionLeaveNoTerm ==
    /\ ReaperTakes("detachSession")
    /\ connecters' = connecters \ {Head(reaperQ).session}
    /\ UNCHANGED <<appVars, toPlug, pollVars, clockVars, netVars, countVars,
                   ioQ, load, thread, sess, hadReport, crashed>>

\* session_leave: forget the session and send it term.  Its call of _out_func
\* is commented out.
SessionLeave ==
    /\ ReaperTakes("detachSession")
    /\ LET h == Head(reaperQ).session
       IN  /\ connecters' = connecters \ {h}
           /\ ioQ' = [ioQ EXCEPT ![thread[h]] = Append(@, Cmd("term", h))]
    /\ UNCHANGED <<appVars, toPlug, pollVars, clockVars, netVars, countVars,
                   load, thread, sess, hadReport, crashed>>

Reaper == ReaperPlug \/ SkipLink \/ PlugLink \/ SessionTimeOut \/ SessionLeave

-----------------------------------------------------------------------------
(* The session of host h, on its I/O thread                                *)

IoTakes(type, h) ==
    /\ thread[h] # NoThread
    /\ ioQ[thread[h]] # <<>>
    /\ Head(ioQ[thread[h]]) = Cmd(type, h)
    /\ ioQ' = [ioQ EXCEPT ![thread[h]] = Tail(@)]

\* sessionbase_t::error
ReportTimeOut(h) ==
    /\ hadReport' = [hadReport EXCEPT ![h] = TRUE]
    /\ reports' = [reports EXCEPT ![h] = @ + 1]
    /\ reaperQ' = Append(reaperQ, Cmd("connectTimeOut", h))

\* session_node::process_plug with an address and a raw socket: the socket is
\* watched, the silence starts now, the timer is armed.
PlugOk(h) ==
    /\ "ok" \in PlugOutcomes
    /\ IoTakes("plug", h)
    /\ sess' = [sess EXCEPT ![h] = "live"]
    /\ polled' = polled \cup {h}
    /\ load' = [load EXCEPT ![thread[h]] = @ + 1]
    /\ age' = [age EXCEPT ![h] = 0]
    /\ silence' = [silence EXCEPT ![h] = 0]
    /\ timer' = [timer EXCEPT ![h] = Period(h)]
    /\ UNCHANGED <<appVars, reaperVars, pollout, netVars, countVars, reaperQ, thread,
                   hadReport, crashed>>

\* Fault: without the return after exit () the failed socket is watched.
PlugNoSocketFallsThrough(h) ==
    /\ "noSocket" \in PlugOutcomes
    /\ IoTakes("plug", h)
    /\ sess' = [sess EXCEPT ![h] = "exited"]
    /\ reaperQ' = Append(reaperQ, Cmd("detachSession", h))
    /\ polled' = polled \cup {h}
    /\ timer' = [timer EXCEPT ![h] = Period(h)]
    /\ UNCHANGED <<appVars, reaperVars, pollout, clockVars, netVars, countVars,
                   load, thread, hadReport, crashed>>

\* process_plug when socket () fails: exit () asks the reaper to detach it.
PlugNoSocket(h) ==
    /\ "noSocket" \in PlugOutcomes
    /\ IoTakes("plug", h)
    /\ sess' = [sess EXCEPT ![h] = "exited"]
    /\ reaperQ' = Append(reaperQ, Cmd("detachSession", h))
    /\ UNCHANGED <<appVars, reaperVars, pollVars, clockVars, netVars, countVars,
                   load, thread, hadReport, crashed>>

\* process_plug when the host has no address: exit () does not return from
\* process_plug, whose next statement reads through the null pointer.
PlugUnresolved(h) ==
    /\ "unresolved" \in PlugOutcomes
    /\ IoTakes("plug", h)
    /\ reaperQ' = Append(reaperQ, Cmd("detachSession", h))
    /\ crashed' = TRUE
    /\ UNCHANGED <<appVars, reaperVars, pollVars, clockVars, netVars, countVars,
                   load, thread, sess, hadReport>>

\* Fault: the load is given back for a socket that was never added.
TermUnloads(h) ==
    /\ IoTakes("term", h)
    /\ timer' = [timer EXCEPT ![h] = Off]
    /\ sess' = [sess EXCEPT ![h] = "deleted"]
    /\ load' = [load EXCEPT ![thread[h]] = @ - 1]
    /\ UNCHANGED <<appVars, reaperVars, polled, pollout, clockVars, netVars, countVars,
                   reaperQ, thread, hadReport, crashed>>

\* process_term: cancel the timer, close the socket, delete the session.  The
\* poller is not told.
Term(h) ==
    /\ IoTakes("term", h)
    /\ timer' = [timer EXCEPT ![h] = Off]
    /\ sess' = [sess EXCEPT ![h] = "deleted"]
    /\ UNCHANGED <<appVars, reaperVars, polled, pollout, clockVars, netVars, countVars,
                   reaperQ, load, thread, hadReport, crashed>>

\* What a timer event does besides its test of the silence.
ArmAgain(h) ==
    /\ pollout' = pollout \cup {h}
    /\ timer' = [timer EXCEPT ![h] = Period(h)]
    /\ UNCHANGED <<appVars, reaperVars, polled, clockVars, netVars, outCalls,
                   ioQ, load, thread, sess, crashed>>

ReportIf(overdue, h) ==
    IF overdue THEN ReportTimeOut(h) ELSE UNCHANGED <<hadReport, reports, reaperQ>>

\* Faults of timer_event: had_report is not looked at; the comparison is
\* strict; the timer is not armed again.
TimerEventUnlatched(h) ==
    timer[h] = 0 /\ ReportIf(Elapsed(age[h]) >= TimeOut[h], h) /\ ArmAgain(h)

TimerEventStrict(h) ==
    timer[h] = 0 /\ ReportIf(Elapsed(age[h]) > TimeOut[h] /\ ~hadReport[h], h) /\ ArmAgain(h)

TimerEventOnce(h) ==
    /\ timer[h] = 0
    /\ ReportIf(Elapsed(age[h]) >= TimeOut[h] /\ ~hadReport[h], h)
    /\ pollout' = pollout \cup {h}
    /\ timer' = [timer EXCEPT ![h] = Off]
    /\ UNCHANGED <<appVars, reaperVars, polled, clockVars, netVars, outCalls,
                   ioQ, load, thread, sess, crashed>>

\* timer_event: report a silence of m_time_out once, ask for EPOLLOUT, re-arm.
TimerEvent(h) ==
    /\ timer[h] = 0
    /\ ReportIf(Elapsed(age[h]) >= TimeOut[h] /\ ~hadReport[h], h)
    /\ ArmAgain(h)

\* out_event: one echo request (or none, when sendto fails and the result is
\* ignored), and no more EPOLLOUT.
OutEvent(h) ==
    /\ h \in polled /\ h \in pollout
    /\ attempted' = [attempted EXCEPT ![h] = TRUE]
    /\ \/ probed' = [probed EXCEPT ![h] = TRUE]
       \/ UNCHANGED probed
    /\ pollout' = pollout \ {h}
    /\ UNCHANGED <<appVars, reaperVars, polled, timer, clockVars, inbox, replies, readErrors,
                   accepted, countVars, reaperQ, ioQ, load, thread, sess, hadReport, crashed>>

\* Fault: on_recv forgets _last_check_tick.
InEventKeepsTick(h) ==
    /\ h \in polled
    /\ inbox[h] > 0
    /\ inbox' = [inbox EXCEPT ![h] = @ - 1]
    /\ hadReport' = [hadReport EXCEPT ![h] = FALSE]
    /\ silence' = [silence EXCEPT ![h] = 0]
    /\ attempted' = [attempted EXCEPT ![h] = FALSE]
    /\ accepted' = [accepted EXCEPT ![h] = @ + 1]
    /\ UNCHANGED <<appVars, reaperVars, pollVars, age, probed, replies, readErrors, countVars,
                   reaperQ, ioQ, load, thread, sess, crashed>>

\* in_event with a reply on_recv accepts: the silence and the report end.  What the
\* callback of the application throws makes on_recv call error (): that is this
\* step and ReadError after it.
InEvent(h) ==
    /\ h \in polled
    /\ inbox[h] > 0
    /\ inbox' = [inbox EXCEPT ![h] = @ - 1]
    /\ hadReport' = [hadReport EXCEPT ![h] = FALSE]
    /\ age' = [age EXCEPT ![h] = 0]
    /\ silence' = [silence EXCEPT ![h] = 0]
    /\ attempted' = [attempted EXCEPT ![h] = FALSE]
    /\ accepted' = [accepted EXCEPT ![h] = @ + 1]
    /\ UNCHANGED <<appVars, reaperVars, pollVars, probed, replies, readErrors, countVars,
                   reaperQ, ioQ, load, thread, sess, crashed>>

\* in_event when recvmsg fails or returns nothing, or on_recv caught what the
\* callback threw: error (), whatever has been reported before.
ReadError(h) ==
    /\ h \in polled
    /\ readErrors[h] < MaxReadErrors
    /\ readErrors' = [readErrors EXCEPT ![h] = @ + 1]
    /\ ReportTimeOut(h)
    /\ UNCHANGED <<appVars, reaperVars, pollVars, clockVars, probed, inbox, attempted, replies,
                   accepted, outCalls, ioQ, load, thread, sess, crashed>>

Session(h) ==
    \/ PlugOk(h) \/ PlugNoSocket(h) \/ PlugUnresolved(h) \/ Term(h)
    \/ TimerEvent(h) \/ OutEvent(h) \/ InEvent(h)

-----------------------------------------------------------------------------
(* The network and the clock                                               *)

\* A probed host answers, late, more than once, or never.
Reply(h) ==
    /\ probed[h]
    /\ h \in polled
    /\ replies[h] < MaxReplies
    /\ replies' = [replies EXCEPT ![h] = @ + 1]
    /\ inbox' = [inbox EXCEPT ![h] = @ + 1]
    /\ UNCHANGED <<appVars, reaperVars, pollVars, clockVars, probed, attempted, readErrors,
                   accepted, countVars, reaperQ, ioQ, load, thread, sess, hadReport, crashed>>

\* Nothing that is due on an I/O thread is left over.
CaughtUp == \A h \in Hosts : timer[h] # 0 /\ h \notin pollout /\ inbox[h] = 0

Tick ==
    /\ KeepUp => CaughtUp
    /\ timer' = [h \in Hosts |-> IF timer[h] > 0 THEN timer[h] - 1 ELSE timer[h]]
    /\ age' = [h \in Hosts |-> IF sess[h] = "live" THEN (age[h] + 1) % WrapTicks ELSE age[h]]
    /\ silence' = [h \in Hosts |->
                     IF sess[h] = "live" /\ silence[h] < SilenceCap(h)
                     THEN silence[h] + 1 ELSE silence[h]]
    /\ UNCHANGED <<appVars, reaperVars, polled, pollout, netVars, countVars,
                   reaperQ, ioQ, load, thread, sess, hadReport, crashed>>

Next ==
    /\ ~crashed
    /\ \/ HostInit
       \/ Reaper
       \/ \E h \in Hosts : Session(h) \/ ReadError(h) \/ Reply(h)
       \/ Tick

\* Every thread runs and time passes; a host need not answer and a read need
\* not fail.
Fairness ==
    /\ WF_vars(~crashed /\ HostInit)
    /\ WF_vars(~crashed /\ Reaper)
    /\ \A h \in Hosts : WF_vars(~crashed /\ Session(h))
    /\ WF_vars(~crashed /\ Tick)

Spec == Init /\ [][Next]_vars /\ Fairness

-----------------------------------------------------------------------------
(* Properties                                                              *)

Commands(type, h, q) == Cardinality({i \in 1 .. Len(q) : q[i] = Cmd(type, h)})

SessionStates == {"none", "created", "live", "exited", "deleted"}
ReaperCmds == {PlugAll} \cup {Cmd(type, h) : type \in {"connectTimeOut", "detachSession"}, h \in Hosts}
IoCmds == {Cmd(type, h) : type \in {"plug", "term"}, h \in Hosts}

TypeOK ==
    /\ apc \in {"createLink", "setLogoutFun", "setReplayFun", "openAllLink", "done", "failed"}
    /\ outFun \in BOOLEAN /\ replayFun \in BOOLEAN /\ crashed \in BOOLEAN
    /\ reaperQ \in Seq(ReaperCmds)
    /\ toPlug \in Seq(Hosts)
    /\ connecters \subseteq Hosts
    /\ ioQ \in [IoThreads -> Seq(IoCmds)]
    /\ load \in [IoThreads -> Nat]
    /\ thread \in [Hosts -> IoThreads \cup {NoThread}]
    /\ sess \in [Hosts -> SessionStates]
    /\ polled \subseteq Hosts /\ pollout \subseteq Hosts
    /\ timer \in [Hosts -> Nat \cup {Off}]
    /\ age \in [Hosts -> 0 .. WrapTicks - 1]
    /\ hadReport \in [Hosts -> BOOLEAN]
    /\ probed \in [Hosts -> BOOLEAN] /\ attempted \in [Hosts -> BOOLEAN]
    /\ inbox \in [Hosts -> Nat] /\ replies \in [Hosts -> Nat]
    /\ readErrors \in [Hosts -> Nat] /\ accepted \in [Hosts -> Nat]
    /\ reports \in [Hosts -> Nat] /\ outCalls \in [Hosts -> Nat]
    /\ silence \in [Hosts -> Nat]

\* Nothing refers to a session that has been deleted: no command to it or
\* about it is in a mailbox, no timer of it is armed, its socket is not in the
\* poller and _connecters does not hold it.
NoDanglingSession ==
    \A h \in Hosts : sess[h] = "deleted" =>
        /\ h \notin polled \cup pollout \cup connecters
        /\ timer[h] = Off
        /\ \A i \in 1 .. Len(reaperQ) : reaperQ[i] # PlugAll => reaperQ[i].session # h
        /\ \A t \in IoThreads : \A i \in 1 .. Len(ioQ[t]) : ioQ[t][i].session # h

\* While the I/O threads keep up with the clock, a silence is reported before
\* it is one period longer than m_time_out (at the first timer event, when
\* m_time_out is 0).
DetectedInTime ==
    KeepUp => \A h \in Hosts :
        sess[h] = "live" /\ ~hadReport[h] =>
            silence[h] < TimeOut[h] + Period(h) \/ silence[h] <= Period(h)

\* The timer never reports a silence shorter than m_time_out, nor a host it has
\* not tried to probe since its last reply (for links with m_time_out greater
\* than the period).
ReportedWithCause ==
    [][\A h \in Hosts :
          reports'[h] > reports[h] /\ readErrors'[h] = readErrors[h] =>
              silence[h] >= TimeOut[h] /\ attempted[h]]_vars

\* Every session the reaper is responsible for is in _connecters, and one that
\* has left it is deleted or has its term command on the way.
ConnectersComplete ==
    \A h \in Hosts :
        /\ sess[h] \in {"created", "live"} => h \in connecters
        /\ sess[h] = "exited" =>
             \/ h \in connecters /\ Commands("detachSession", h, reaperQ) = 1
             \/ h \notin connecters /\ Commands("term", h, ioQ[thread[h]]) = 1

(* The inductive invariant                                                 *)

CmdTypes == {"plug", "term", "connectTimeOut", "detachSession"}

\* q holds no command to or about the session of h.
Silent(q, h) == \A i \in 1 .. Len(q) : \A type \in CmdTypes : q[i] # Cmd(type, h)

\* q holds one command to or about it, of the given type.
Sole(q, type, h) ==
    \E i \in 1 .. Len(q) :
        /\ q[i] = Cmd(type, h)
        /\ \A j \in 1 .. Len(q) : \A other \in CmdTypes : j # i => q[j] # Cmd(other, h)

NothingPlugged == toPlug = <<>> /\ \A h \in Hosts : sess[h] = "none"

\* Nothing happens before the reaper takes the one plug of open_all_link, which
\* comes after the functions have been given.
StartsOnce ==
    /\ apc # "done" => reaperQ = <<>> /\ NothingPlugged
    /\ (\E i \in 1 .. Len(reaperQ) : reaperQ[i] = PlugAll) =>
           reaperQ = <<PlugAll>> /\ NothingPlugged
    /\ apc \in {"setReplayFun", "openAllLink", "done"} => outFun = TRUE

PlugsEachOnce ==
    \A i \in 1 .. Len(toPlug) :
        /\ sess[toPlug[i]] = "none"
        /\ \A j \in 1 .. Len(toPlug) : toPlug[i] = toPlug[j] => i = j

\* The life of a session, and which command of it is on the way meanwhile.
Phase(h) ==
    \/ sess[h] = "none" /\ thread[h] = NoThread /\ h \notin connecters /\ Silent(reaperQ, h)
    \/ /\ sess[h] = "created" /\ thread[h] \in IoThreads /\ h \in connecters
       /\ crashed \/ (Sole(ioQ[thread[h]], "plug", h) /\ Silent(reaperQ, h))
    \/ /\ sess[h] = "live" /\ thread[h] \in IoThreads /\ h \in connecters
       /\ Silent(ioQ[thread[h]], h)
       /\ \A i \in 1 .. Len(reaperQ) : reaperQ[i] # Cmd("detachSession", h)
    \/ /\ sess[h] = "exited" /\ thread[h] \in IoThreads /\ h \in connecters
       /\ Silent(ioQ[thread[h]], h) /\ Sole(reaperQ, "detachSession", h)
    \/ /\ sess[h] = "exited" /\ thread[h] \in IoThreads /\ h \notin connecters
       /\ Sole(ioQ[thread[h]], "term", h) /\ Silent(reaperQ, h)
    \/ /\ sess[h] = "deleted" /\ thread[h] \in IoThreads /\ h \notin connecters
       /\ Silent(ioQ[thread[h]], h) /\ Silent(reaperQ, h)

Phases == \A h \in Hosts : Phase(h)

\* A session has its commands in the mailbox of its own thread only.
OneThread == \A h \in Hosts : \A t \in IoThreads : t # thread[h] => Silent(ioQ[t], h)

\* The poller and the timers know the live sessions.
Watched ==
    /\ polled = {h \in Hosts : sess[h] = "live"}
    /\ pollout \subseteq polled
    /\ \A h \in Hosts : IF sess[h] = "live" THEN timer[h] \in 0 .. Period(h) ELSE timer[h] = Off

\* _last_check_tick never shows a longer silence than there was.
NeverOverstated ==
    \A h \in Hosts : sess[h] = "live" => silence[h] >= age[h] \/ silence[h] >= SilenceCap(h)

\* No silence that is to be reported reaches the half of the range of the
\* microsecond count.
WrapIsLate == \A h \in Hosts : 2 * (TimeOut[h] + Period(h)) < WrapTicks

\* What is left on the timer and the silence so far.
Timely ==
    KeepUp /\ WrapIsLate => \A h \in Hosts : sess[h] = "live" =>
        /\ timer[h] = 0 => h \notin pollout
        /\ ~hadReport[h] =>
              /\ age[h] = silence[h]
              /\ \/ silence[h] + timer[h] < TimeOut[h] + Period(h)
                 \/ silence[h] + timer[h] <= Period(h)
        /\ attempted[h] \/ h \in pollout \/ silence[h] + timer[h] <= Period(h)

Inductive ==
    /\ TypeOK /\ StartsOnce /\ PlugsEachOnce /\ Phases /\ OneThread /\ Watched
    /\ NeverOverstated /\ Timely

\* To the application all this is a monitor of hosts: what lies in the reaper's
\* mailbox are the silences it has not been told of yet, in their order.  Each
\* silence is noticed once, a new one only after an accepted reply, and no report
\* is swallowed, not even one that comes before the application's function.
Reported(q) ==
    LET hosts[i \in 0 .. Len(q)] ==
          IF i = 0 THEN <<>>
          ELSE IF q[i].type = "connectTimeOut" THEN Append(hosts[i - 1], q[i].session)
          ELSE hosts[i - 1]
    IN  hosts[Len(q)]
Monitor == INSTANCE HostMonitor WITH
    watched <- {h \in Hosts : sess[h] = "live"},
    overdue <- {h \in Hosts : hadReport[h]},
    notices <- Reported(reaperQ),
    failures <- readErrors, told <- outCalls
ImplementsMonitor == Monitor!Spec

=============================================================================

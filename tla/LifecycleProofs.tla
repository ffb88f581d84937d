--------------------------- MODULE LifecycleProofs --------------------------
(***************************************************************************)
(* Proofs about Lifecycle for any number of I/O threads and of sessions:   *)
(* what the shutdown deletes is not used any more, except by a session's   *)
(* late report, and no command to an I/O thread is left behind.            *)
(***************************************************************************)
EXTENDS Lifecycle, SequenceTheorems, TLAPS

-----------------------------------------------------------------------------
(* Threads, commands and what send does with them.                         *)

\* The threads are told apart by their numbers.
LEMMA ThreadIds ==
    /\ App \in Threads /\ Reaper \in Threads /\ Reaper \in Workers
    /\ App \notin Workers /\ Reaper \notin IoThreads /\ Nobody \notin Threads
    /\ Workers = 1 .. NumThreads + 1 /\ Threads = 0 .. NumThreads + 1
    /\ \A t \in IoThreads : t \in Workers /\ t \in Threads /\ t # App /\ t # Reaper
    /\ \A t \in Workers : t \in Threads /\ t # App /\ t \in Nat /\ (t = Reaper \/ t \in IoThreads)
    /\ \A t \in Threads : t = App \/ t = Reaper \/ t \in IoThreads
BY ThreadsAssumption DEF App, Reaper, Nobody, IoThreads, Workers, Threads

\* The commands are told apart by their types and by the sessions they name.
LEMMA CommandIds ==
    /\ Stop \in Commands /\ PlugAll \in Commands /\ Stop # PlugAll
    /\ \A type \in {"plug", "term", "leave", "timeOut"}, h \in Sessions :
        /\ Cmd(type, h) \in Commands
        /\ Cmd(type, h) # Stop /\ Cmd(type, h) # PlugAll
        /\ \A other \in {"plug", "term", "leave", "timeOut"}, g \in Sessions :
            Cmd(type, h) = Cmd(other, g) => type = other /\ h = g
<1>1. Stop # PlugAll
  BY DEF Stop, PlugAll
<1>2. ASSUME NEW type \in {"plug", "term", "leave", "timeOut"}, NEW h \in Sessions
      PROVE  /\ Cmd(type, h) \in Commands
             /\ Cmd(type, h) # Stop /\ Cmd(type, h) # PlugAll
  <2>1. "session" \in DOMAIN Cmd(type, h) /\ "session" \notin DOMAIN Stop
        /\ "session" \notin DOMAIN PlugAll
    BY DEF Cmd, Stop, PlugAll
  <2>2. Cmd(type, h) \in Commands
    BY DEF Cmd, Commands
  <2>. QED
    BY <2>1, <2>2
<1>3. ASSUME NEW type \in {"plug", "term", "leave", "timeOut"}, NEW h \in Sessions,
             NEW other \in {"plug", "term", "leave", "timeOut"}, NEW g \in Sessions,
             Cmd(type, h) = Cmd(other, g)
      PROVE  type = other /\ h = g
  <2>1. Cmd(type, h).type = type /\ Cmd(other, g).type = other
        /\ Cmd(type, h).session = h /\ Cmd(other, g).session = g
    BY DEF Cmd
  <2>. QED
    BY <1>3, <2>1
<1>. QED
  BY <1>1, <1>2, <1>3, ZenonT(60) DEF Commands

\* What send is doing is told by its place.
LEMMA SendingIs ==
    ASSUME TypeOK, NEW s \in Threads
    PROVE  /\ sending[s] = Idle <=> sending[s].pc = "idle"
           /\ sending[s].pc \in {"idle", "lock", "unlock", "signal"}
           /\ sending[s] # Idle => sending[s].to \in Workers
           /\ sending[s].pc = "lock" => sending[s].cmd \in Commands
           /\ sending[s].pc = "unlock" => sending[s].wake \in BOOLEAN
<1>1. sending[s] \in Sendings
  BY DEF TypeOK
<1>2. CASE sending[s] = Idle
  BY <1>2 DEF Idle
<1>3. CASE sending[s] \in [pc : {"lock"}, to : Workers, cmd : Commands]
  BY <1>3 DEF Idle
<1>4. CASE sending[s] \in [pc : {"unlock"}, to : Workers, wake : BOOLEAN]
  BY <1>4 DEF Idle
<1>5. CASE sending[s] \in [pc : {"signal"}, to : Workers]
  BY <1>5 DEF Idle
<1>. QED
  BY <1>1, <1>2, <1>3, <1>4, <1>5 DEF Sendings

\* A post only enters what the thread sends.
LEMMA PostDoes ==
    ASSUME TypeOK, NEW s \in Threads, NEW t \in Workers, NEW c \in Commands, Post(s, t, c)
    PROVE  /\ sending' \in [Threads -> Sendings]
           /\ sending[s] = Idle
           /\ sending'[s].pc = "lock" /\ sending'[s].to = t /\ sending'[s].cmd = c
           /\ \A r \in Threads : r # s => sending'[r] = sending[r]
           /\ fault' = IF box[t] = "open" THEN fault ELSE s
<1>1. sending'[s] = [pc |-> "lock", to |-> t, cmd |-> c]
  BY DEF Post, TypeOK
<1>2. [pc |-> "lock", to |-> t, cmd |-> c] \in Sendings
  BY DEF Sendings
<1>. QED
  BY <1>1, <1>2 DEF Post, TypeOK, Touch

LEMMA PostWay ==
    ASSUME TypeOK, NEW s \in Threads, NEW t \in Workers, NEW c \in Commands, Post(s, t, c)
    PROVE  \A r \in Threads, u \in Workers :
               /\ Posting(r, u)' <=> Posting(r, u) \/ (r = s /\ u = t)
               /\ Posting(r, u) => r # s /\ sending'[r].cmd = sending[r].cmd
<1>1. ~(sending[s].pc = "lock")
  BY PostDoes, SendingIs
<1>. QED
  BY <1>1, PostDoes DEF Posting

\* With the mutex held the command moves from the thread into the mailbox.
LEMMA WriteDoes ==
    ASSUME TypeOK, NEW s \in Threads, LockAndWrite(s)
    PROVE  LET t == sending[s].to
               c == sending[s].cmd
           IN  /\ t \in Workers /\ c \in Commands /\ Posting(s, t)
               /\ queue' \in [Workers -> Seq(Commands)]
               /\ queue'[t] = Append(queue[t], c)
               /\ \A u \in Workers : u # t => queue'[u] = queue[u]
               /\ sending' \in [Threads -> Sendings]
               /\ sending'[s].pc = "unlock" /\ sending'[s].to = t /\ sending'[s] # Idle
               /\ sending[s] # Idle
               /\ \A r \in Threads : r # s => sending'[r] = sending[r]
<1>. DEFINE t == sending[s].to
<1>. DEFINE c == sending[s].cmd
<1>1. sending[s].pc = "lock"
  BY DEF LockAndWrite
<1>2. t \in Workers /\ c \in Commands /\ sending[s] # Idle
  BY <1>1, SendingIs
<1>3. /\ queue' \in [Workers -> Seq(Commands)]
      /\ queue'[t] = Append(queue[t], c)
      /\ \A u \in Workers : u # t => queue'[u] = queue[u]
  BY <1>2 DEF LockAndWrite, TypeOK
<1>4. sending'[s] = [pc |-> "unlock", to |-> t, wake |-> asleep[t]]
  BY DEF LockAndWrite, TypeOK
<1>5. [pc |-> "unlock", to |-> t, wake |-> asleep[t]] \in Sendings
  BY <1>2 DEF Sendings, TypeOK
<1>6. sending' \in [Threads -> Sendings] /\ \A r \in Threads : r # s => sending'[r] = sending[r]
  BY <1>4, <1>5 DEF LockAndWrite, TypeOK
<1>. QED
  BY <1>1, <1>2, <1>3, <1>4, <1>6 DEF Posting, Idle

\* What is in a sequence after an item is appended, or its head taken.
LEMMA InAppended ==
    ASSUME NEW S, NEW q \in Seq(S), NEW c \in S, NEW d
    PROVE  (\E i \in 1 .. Len(Append(q, c)) : Append(q, c)[i] = d)
           <=> (\E i \in 1 .. Len(q) : q[i] = d) \/ d = c
<1>. DEFINE a == Append(q, c)
<1>1. /\ Len(q) \in Nat /\ Len(a) = Len(q) + 1 /\ a[Len(q) + 1] = c
      /\ \A i \in 1 .. Len(q) : a[i] = q[i]
  OBVIOUS
<1>2. \A i \in 1 .. Len(a) : i \in 1 .. Len(q) \/ i = Len(q) + 1
  BY <1>1
<1>3. Len(q) + 1 \in 1 .. Len(a) /\ \A i \in 1 .. Len(q) : i \in 1 .. Len(a)
  BY <1>1
<1>. HIDE DEF a
<1>4. (\E i \in 1 .. Len(a) : a[i] = d) <=> (\E i \in 1 .. Len(q) : q[i] = d) \/ d = c
  BY <1>1, <1>2, <1>3
<1>. QED
  BY <1>4 DEF a

LEMMA InTail ==
    ASSUME NEW S, NEW q \in Seq(S), q # <<>>, NEW d
    PROVE  /\ (\E i \in 1 .. Len(Tail(q)) : Tail(q)[i] = d) => \E i \in 1 .. Len(q) : q[i] = d
           /\ (\E i \in 1 .. Len(q) : q[i] = d) /\ d # Head(q)
              => \E i \in 1 .. Len(Tail(q)) : Tail(q)[i] = d
           /\ \E i \in 1 .. Len(q) : q[i] = Head(q)
<1>. DEFINE a == Tail(q)
<1>1. /\ Len(q) \in Nat /\ Len(q) >= 1 /\ Len(a) = Len(q) - 1 /\ q[1] = Head(q)
      /\ \A i \in 1 .. Len(a) : a[i] = q[i + 1]
  OBVIOUS
<1>2. /\ 1 \in 1 .. Len(q)
      /\ \A i \in 1 .. Len(a) : i + 1 \in 1 .. Len(q)
      /\ \A i \in 1 .. Len(q) : i = 1 \/ (i - 1 \in 1 .. Len(a) /\ (i - 1) + 1 = i)
  BY <1>1
<1>. HIDE DEF a
<1>3. (\E i \in 1 .. Len(a) : a[i] = d) => \E i \in 1 .. Len(q) : q[i] = d
  BY <1>1, <1>2
<1>4. (\E i \in 1 .. Len(q) : q[i] = d) /\ d # Head(q) => \E i \in 1 .. Len(a) : a[i] = d
  <2>. SUFFICES ASSUME NEW i \in 1 .. Len(q), q[i] = d, d # Head(q)
                PROVE  \E j \in 1 .. Len(a) : a[j] = d
    OBVIOUS
  <2>1. i - 1 \in 1 .. Len(a) /\ (i - 1) + 1 = i
    BY <1>1, <1>2
  <2>2. a[i - 1] = q[(i - 1) + 1]
    BY <1>1, <2>1
  <2>. QED
    BY <2>1, <2>2
<1>. QED
  BY <1>1, <1>2, <1>3, <1>4 DEF a

LEMMA WriteWay ==
    ASSUME TypeOK, NEW s \in Threads, LockAndWrite(s)
    PROVE  /\ \A u \in Workers, d \in Commands :
               /\ Queued(u, d)' <=> Queued(u, d) \/ (u = sending[s].to /\ d = sending[s].cmd)
               /\ OnTheWay(u, d)' <=> OnTheWay(u, d)
           /\ \A r \in Threads, u \in Workers :
               /\ Posting(r, u)' <=> Posting(r, u) /\ r # s
               /\ Posting(r, u)' => sending'[r] = sending[r]
<1>1. PICK t \in Workers, c \in Commands : t = sending[s].to /\ c = sending[s].cmd
  BY WriteDoes
<1>2. ASSUME NEW u \in Workers, NEW d \in Commands
      PROVE  Queued(u, d)' <=> Queued(u, d) \/ (u = t /\ d = c)
  <2>1. CASE u = t
    <3>1. queue[t] \in Seq(Commands) /\ queue'[t] = Append(queue[t], c)
      BY <1>1, WriteDoes DEF TypeOK
    <3>. QED
      BY <2>1, <3>1, InAppended DEF Queued
  <2>2. CASE u # t
    BY <1>1, <2>2, WriteDoes DEF Queued
  <2>. QED
    BY <2>1, <2>2
<1>3. \A r \in Threads, u \in Workers :
          /\ Posting(r, u)' <=> Posting(r, u) /\ r # s
          /\ Posting(r, u)' => sending'[r] = sending[r]
  BY WriteDoes DEF Posting
<1>4. \A u \in Workers : Posting(s, u) => u = t
  BY <1>1 DEF Posting
<1>5. Posting(s, t)
  BY <1>1, WriteDoes
<1>6. ASSUME NEW u \in Workers, NEW d \in Commands
      PROVE  OnTheWay(u, d)' <=> OnTheWay(u, d)
  <2>1. \A r \in Threads : Posting(r, u) /\ r # s => sending'[r] = sending[r]
    BY <1>3
  <2>2. ASSUME OnTheWay(u, d) PROVE OnTheWay(u, d)'
    BY <1>1, <1>2, <1>3, <1>4, <2>1, <2>2 DEF OnTheWay
  <2>3. ASSUME OnTheWay(u, d)' PROVE OnTheWay(u, d)
    BY <1>1, <1>2, <1>3, <1>5, <2>1, <2>3 DEF OnTheWay
  <2>. QED
    BY <2>2, <2>3
<1>. QED
  BY <1>1, <1>2, <1>3, <1>6

\* Giving the mutex back and sending the byte.
LEMMA AfterWriteDoes ==
    ASSUME TypeOK, NEW s \in Threads, Unlock(s) \/ Signal(s)
    PROVE  /\ sending' \in [Threads -> Sendings]
           /\ sending[s] # Idle
           /\ sending[s].pc \in {"unlock", "signal"} /\ sending'[s].pc \in {"idle", "signal"}
           /\ sending'[s] # Idle => sending'[s].to = sending[s].to
           /\ \A r \in Threads : r # s => sending'[r] = sending[r]
<1>1. sending[s].pc \in {"unlock", "signal"}
  BY DEF Unlock, Signal
<1>2. sending[s] # Idle /\ sending[s].to \in Workers
  BY <1>1, SendingIs
<1>3. [pc |-> "signal", to |-> sending[s].to] \in Sendings /\ Idle \in Sendings
  BY <1>2 DEF Sendings
<1>4. sending'[s] \in {Idle, [pc |-> "signal", to |-> sending[s].to]}
      /\ \A r \in Threads : r # s => sending'[r] = sending[r]
  BY DEF Unlock, Signal, TypeOK
<1>5. sending' \in [Threads -> Sendings]
  BY <1>3, <1>4 DEF Unlock, Signal, TypeOK
<1>. QED
  BY <1>1, <1>2, <1>4, <1>5 DEF Idle

LEMMA AfterWriteWay ==
    ASSUME TypeOK, NEW s \in Threads, Unlock(s) \/ Signal(s)
    PROVE  /\ \A r \in Threads, u \in Workers :
               /\ Posting(r, u)' <=> Posting(r, u)
               /\ Posting(r, u) => sending'[r] = sending[r]
           /\ \A u \in Workers, d \in Commands :
               (Queued(u, d)' <=> Queued(u, d)) /\ (OnTheWay(u, d)' <=> OnTheWay(u, d))
<1>1. \A r \in Threads, u \in Workers :
          /\ Posting(r, u)' <=> Posting(r, u)
          /\ Posting(r, u) => sending'[r] = sending[r]
  BY AfterWriteDoes DEF Posting
<1>2. queue' = queue
  BY DEF Unlock, Signal
<1>. QED
  BY <1>1, <1>2 DEF Queued, OnTheWay

\* A thread takes the oldest command.
LEMMA ReceiveDoes ==
    ASSUME TypeOK, NEW t \in Workers, NEW c \in Commands, Receives(t, c)
    PROVE  /\ queue' \in [Workers -> Seq(Commands)]
           /\ queue[t] # <<>> /\ queue[t] \in Seq(Commands) /\ Head(queue[t]) = c
           /\ queue'[t] = Tail(queue[t])
           /\ \A u \in Workers : u # t => queue'[u] = queue[u]
           /\ loop[t] = "draining" /\ sending[t] = Idle /\ Queued(t, c)
<1>1. queue[t] \in Seq(Commands) /\ queue[t] # <<>> /\ Head(queue[t]) = c
  BY DEF Receives, TypeOK
<1>2. Tail(queue[t]) \in Seq(Commands)
  BY <1>1
<1>3. Queued(t, c)
  BY <1>1, InTail DEF Queued
<1>. QED
  BY <1>1, <1>2, <1>3 DEF Receives, TypeOK

LEMMA ReceiveWay ==
    ASSUME TypeOK, NEW t \in Workers, NEW c \in Commands, Receives(t, c)
    PROVE  \A u \in Workers, d \in Commands :
               /\ Queued(u, d)' => Queued(u, d)
               /\ Queued(u, d) /\ ~(u = t /\ d = c) => Queued(u, d)'
<1>. SUFFICES ASSUME NEW u \in Workers, NEW d \in Commands
              PROVE  /\ Queued(u, d)' => Queued(u, d)
                     /\ Queued(u, d) /\ ~(u = t /\ d = c) => Queued(u, d)'
  OBVIOUS
<1>1. CASE u = t
  <2>1. PICK q \in Seq(Commands) : q = queue[t] /\ q # <<>> /\ Head(q) = c /\ queue'[t] = Tail(q)
    BY ReceiveDoes
  <2>2. /\ (\E i \in 1 .. Len(Tail(q)) : Tail(q)[i] = d) => \E i \in 1 .. Len(q) : q[i] = d
        /\ (\E i \in 1 .. Len(q) : q[i] = d) /\ d # Head(q)
           => \E i \in 1 .. Len(Tail(q)) : Tail(q)[i] = d
    BY <2>1, InTail
  <2>3. /\ Queued(u, d) <=> \E i \in 1 .. Len(q) : q[i] = d
        /\ Queued(u, d)' <=> \E i \in 1 .. Len(Tail(q)) : Tail(q)[i] = d
    BY <1>1, <2>1 DEF Queued
  <2>. QED
    BY <1>1, <2>1, <2>2, <2>3
<1>2. CASE u # t
  BY <1>2, ReceiveDoes DEF Queued
<1>. QED
  BY <1>1, <1>2

-----------------------------------------------------------------------------
(* The steps, and what is true while they are taken.                       *)

\* The steps about a session, with the session and its thread named.
Plugs(h, t) ==
    /\ loop[Reaper] = "draining" /\ h \in toPlug /\ loop[t] # "unborn"
    /\ Post(Reaper, t, Cmd("plug", h))
    /\ toPlug' = toPlug \ {h}
    /\ sess' = [sess EXCEPT ![h] = "posted"]
    /\ home' = [home EXCEPT ![h] = t]
    /\ UNCHANGED <<appVars, boxVars, loopVars, reports>>

TimesOut(h) ==
    /\ Receives(Reaper, Cmd("timeOut", h))
    /\ UNCHANGED <<sending, loopVars, sessVars, fault>>

Leaves(h) ==
    /\ Receives(Reaper, Cmd("leave", h))
    /\ home[h] \in IoThreads
    /\ Post(Reaper, home[h], Cmd("term", h))
    /\ UNCHANGED <<loopVars, sessVars>>

Runs(t, h) ==
    /\ Receives(t, Cmd("plug", h))
    /\ sess' = [sess EXCEPT ![h] = "runs"]
    /\ UNCHANGED <<sending, loopVars, toPlug, home, reports, fault>>

FindsNoSocket(t, h) ==
    /\ Receives(t, Cmd("plug", h))
    /\ sess' = [sess EXCEPT ![h] = "leaving"]
    /\ Post(t, Reaper, Cmd("leave", h))
    /\ UNCHANGED <<loopVars, toPlug, home, reports>>

Terms(t, h) ==
    /\ Receives(t, Cmd("term", h))
    /\ sess' = [sess EXCEPT ![h] = "deleted"]
    /\ UNCHANGED <<sending, loopVars, toPlug, home, reports, fault>>

ReportsOf(t, h) ==
    /\ loop[t] = "polling" /\ ~stopping[t]
    /\ sess[h] = "runs" /\ home[h] = t /\ reports[h] < MaxReports
    /\ Post(t, Reaper, Cmd("timeOut", h))
    /\ reports' = [reports EXCEPT ![h] = @ + 1]
    /\ UNCHANGED <<appVars, boxVars, loopVars, toPlug, sess, home>>

\* Every step is one of these.
LEMMA Steps ==
    ASSUME TypeOK, AtHome, Next
    PROVE  \/ StartThread \/ CreateLinkFails \/ OpenAllLink \/ Terminate
           \/ Join \/ WaitForMutex \/ CloseBox \/ StopIo
           \/ \E s \in Threads : LockAndWrite(s) \/ Unlock(s) \/ Signal(s)
           \/ \E t \in Workers : WakeUp(t) \/ FallAsleep(t) \/ LeaveLoop(t) \/ ProcessStop(t)
           \/ ReaperPlug
           \/ \E h \in Sessions : TimesOut(h) \/ Leaves(h)
           \/ \E t \in IoThreads, h \in Sessions :
               Plugs(h, t) \/ Runs(t, h) \/ FindsNoSocket(t, h) \/ Terms(t, h) \/ ReportsOf(t, h)
<1>1. \/ StartThread \/ CreateLinkFails \/ OpenAllLink \/ Terminate
      \/ Join \/ WaitForMutex \/ CloseBox \/ StopIo
      \/ \E s \in Threads : LockAndWrite(s) \/ Unlock(s) \/ Signal(s)
      \/ \E t \in Workers : WakeUp(t) \/ FallAsleep(t) \/ LeaveLoop(t) \/ ProcessStop(t)
      \/ ReaperPlug \/ PlugSession \/ ReaperTimeOut \/ ReaperLeave
      \/ \E t \in IoThreads : SessionPlug(t) \/ SessionTerm(t) \/ SessionReports(t)
  BY ThreadIds DEF Next, AppStep, WorkerStep, ReaperStep, Sends
<1>2. PlugSession => \E t \in IoThreads, h \in Sessions : Plugs(h, t)
  BY DEF PlugSession, Plugs, TypeOK
<1>3. ReaperTimeOut => \E h \in Sessions : TimesOut(h)
  BY DEF ReaperTimeOut, TimesOut
<1>4. ReaperLeave => \E h \in Sessions : Leaves(h)
  <2>. SUFFICES ASSUME NEW h \in Sessions, Receives(Reaper, Cmd("leave", h)) PROVE home[h] \in IoThreads
    BY DEF ReaperLeave, Leaves
  <2>1. Queued(Reaper, Cmd("leave", h))
    BY ReceiveDoes, ThreadIds, CommandIds
  <2>. QED
    BY <2>1 DEF AtHome, OnTheWay
<1>5. ASSUME NEW t \in IoThreads, SessionPlug(t)
      PROVE  \E h \in Sessions : Runs(t, h) \/ FindsNoSocket(t, h)
  <2>1. PICK h \in Sessions :
            /\ Receives(t, Cmd("plug", h))
            /\ \/ sess' = [sess EXCEPT ![h] = "runs"] /\ UNCHANGED <<sending, fault>>
               \/ sess' = [sess EXCEPT ![h] = "leaving"] /\ Post(t, Reaper, Cmd("leave", h))
    BY <1>5 DEF SessionPlug
  <2>. QED
    BY <1>5, <2>1 DEF SessionPlug, Runs, FindsNoSocket, loopVars
<1>6. ASSUME NEW t \in IoThreads, SessionTerm(t) PROVE \E h \in Sessions : Terms(t, h)
  BY <1>6 DEF SessionTerm, Terms
<1>7. ASSUME NEW t \in IoThreads, SessionReports(t) PROVE \E h \in Sessions : ReportsOf(t, h)
  BY <1>7 DEF SessionReports, ReportsOf
<1>. QED
  BY <1>1, <1>2, <1>3, <1>4, <1>5, <1>6, <1>7

\* The reaper is the first to be deleted, and a loop that runs is of a thread
\* that is there.
LEMMA Standing ==
    ASSUME TypeOK, Staged
    PROVE  /\ \A t \in Workers :
               /\ Gone(t) => Gone(Reaper) /\ loop[Reaper] = "exited"
               /\ loop[t] \in {"polling", "draining"} => box[t] = "open"
               /\ loop[Reaper] # "exited" /\ loop[t] # "unborn" => box[t] = "open"
           /\ box[Reaper] = "none" => \A t \in Workers : loop[t] = "unborn"
<1>1. \A t \in Workers : Gone(t) => Gone(Reaper)
  BY ThreadIds DEF Gone, TypeOK, Reaper, Deleting
<1>2. Unborn(Reaper) => \A t \in Workers : Unborn(t)
  BY ThreadIds DEF Unborn, TypeOK, Reaper
<1>. QED
  BY <1>1, <1>2, ThreadIds DEF Staged

\* The steps that post a command, and the steps that take one, with what they
\* do to the mailboxes and to what is sent.
PostStep(s, t, c) ==
    /\ Post(s, t, c) /\ UNCHANGED <<box, holder, asleep, byte, loopVars>>
    /\ \/ queue' = queue
       \/ \E d \in Commands : s \in Workers /\ Receives(s, d)

LEMMA Posts ==
    ASSUME TypeOK
    PROVE  /\ OpenAllLink => PostStep(App, Reaper, PlugAll)
           /\ Terminate => PostStep(App, Reaper, Stop)
           /\ StopIo => PostStep(App, at, Stop)
           /\ \A h \in Sessions, t \in IoThreads : Plugs(h, t) => PostStep(Reaper, t, Cmd("plug", h))
           /\ \A h \in Sessions : Leaves(h) => PostStep(Reaper, home[h], Cmd("term", h))
           /\ \A h \in Sessions, t \in IoThreads :
               /\ FindsNoSocket(t, h) => PostStep(t, Reaper, Cmd("leave", h))
               /\ ReportsOf(t, h) => PostStep(t, Reaper, Cmd("timeOut", h))
<1>. USE ThreadIds, CommandIds DEF PostStep, loopVars, boxVars
<1>1. OpenAllLink => PostStep(App, Reaper, PlugAll)
  BY DEF OpenAllLink
<1>2. Terminate => PostStep(App, Reaper, Stop)
  BY DEF Terminate
<1>3. StopIo => PostStep(App, at, Stop)
  BY DEF StopIo
<1>4. ASSUME NEW h \in Sessions, NEW t \in IoThreads, Plugs(h, t) PROVE PostStep(Reaper, t, Cmd("plug", h))
  BY <1>4 DEF Plugs
<1>5. ASSUME NEW h \in Sessions, Leaves(h) PROVE PostStep(Reaper, home[h], Cmd("term", h))
  BY <1>5 DEF Leaves, Receives
<1>6. ASSUME NEW h \in Sessions, NEW t \in IoThreads, FindsNoSocket(t, h)
      PROVE  PostStep(t, Reaper, Cmd("leave", h))
  BY <1>6 DEF FindsNoSocket, Receives
<1>7. ASSUME NEW h \in Sessions, NEW t \in IoThreads, ReportsOf(t, h)
      PROVE  PostStep(t, Reaper, Cmd("timeOut", h))
  BY <1>7 DEF ReportsOf
<1>. QED
  BY <1>1, <1>2, <1>3, <1>4, <1>5, <1>6, <1>7

\* The steps that only take a command.
TakeStep(t, c) ==
    Receives(t, c) /\ UNCHANGED <<sending, box, holder, asleep, byte, loop, fault, home, appVars>>

LEMMA Takes ==
    ASSUME TypeOK
    PROVE  /\ \A t \in Workers : ProcessStop(t) => TakeStep(t, Stop)
           /\ ReaperPlug => TakeStep(Reaper, PlugAll)
           /\ \A h \in Sessions : TimesOut(h) => TakeStep(Reaper, Cmd("timeOut", h))
           /\ \A h \in Sessions, t \in IoThreads :
               /\ Runs(t, h) => TakeStep(t, Cmd("plug", h))
               /\ Terms(t, h) => TakeStep(t, Cmd("term", h))
<1>. USE DEF TakeStep, loopVars, sessVars
<1>1. ASSUME NEW t \in Workers, ProcessStop(t) PROVE TakeStep(t, Stop)
  BY <1>1 DEF ProcessStop, Receives
<1>2. ReaperPlug => TakeStep(Reaper, PlugAll)
  BY DEF ReaperPlug, Receives
<1>3. ASSUME NEW h \in Sessions, TimesOut(h) PROVE TakeStep(Reaper, Cmd("timeOut", h))
  BY <1>3 DEF TimesOut, Receives
<1>4. ASSUME NEW h \in Sessions, NEW t \in IoThreads, Runs(t, h) PROVE TakeStep(t, Cmd("plug", h))
  BY <1>4 DEF Runs, Receives
<1>5. ASSUME NEW h \in Sessions, NEW t \in IoThreads, Terms(t, h) PROVE TakeStep(t, Cmd("term", h))
  BY <1>5 DEF Terms, Receives
<1>. QED
  BY <1>1, <1>2, <1>3, <1>4, <1>5

-----------------------------------------------------------------------------
(* The parts of the invariant, one by one.                                 *)

LEMMA PostTyped ==
    ASSUME TypeOK, NEW s \in Threads, NEW t \in Workers, NEW c \in Commands, PostStep(s, t, c)
    PROVE  /\ queue' \in [Workers -> Seq(Commands)]
           /\ sending' \in [Threads -> Sendings]
           /\ fault' \in Threads \cup {Nobody}
<1>1. queue' \in [Workers -> Seq(Commands)]
  <2>1. ASSUME NEW d \in Commands, s \in Workers, Receives(s, d) PROVE queue' \in [Workers -> Seq(Commands)]
    BY <2>1, ReceiveDoes
  <2>. QED
    BY <2>1 DEF PostStep, TypeOK
<1>2. Post(s, t, c)
  BY DEF PostStep
<1>3. sending' \in [Threads -> Sendings] /\ fault' \in {fault, s}
  BY <1>2, PostDoes
<1>. QED
  BY <1>1, <1>3 DEF TypeOK

\* The application goes from one thread to the next.
LEMMA NextThread ==
    /\ 2 \in Workers /\ 2 \in IoThreads /\ Reaper \in Workers
    /\ \A t \in Workers : t # NumThreads + 1 => t + 1 \in Workers /\ t + 1 \in IoThreads
BY ThreadIds, ThreadsAssumption DEF Reaper, IoThreads

LEMMA TypesKept == ASSUME TypeOK, AtHome, Next PROVE TypeOK'
<1>. USE ThreadIds DEF loopVars, sessVars, boxVars, appVars
<1>1. ASSUME queue' \in [Workers -> Seq(Commands)], sending' \in [Threads -> Sendings],
             fault' \in Threads \cup {Nobody}, UNCHANGED <<box, holder, asleep, byte, loopVars>>,
             UNCHANGED sessVars, apc' \in {"join", "up", "stopIo", apc}, at' \in Workers
      PROVE  TypeOK'
  BY <1>1 DEF TypeOK
<1>2. CASE OpenAllLink \/ Terminate \/ StopIo
  <2>1. \E t \in Workers, c \in Commands : PostStep(App, t, c)
    BY <1>2, Posts, CommandIds DEF TypeOK
  <2>2. apc' \in {"join", "up", "stopIo", apc} /\ at' \in Workers /\ UNCHANGED sessVars
        /\ UNCHANGED <<box, holder, asleep, byte, loopVars>>
    BY <1>2, NextThread DEF OpenAllLink, Terminate, StopIo, TypeOK
  <2>. QED
    BY <1>1, <2>1, <2>2, PostTyped
<1>3. ASSUME NEW h \in Sessions, Leaves(h) PROVE TypeOK'
  <2>1. home[h] \in Workers /\ PostStep(Reaper, home[h], Cmd("term", h))
    BY <1>3, Posts DEF Leaves
  <2>2. UNCHANGED <<box, holder, asleep, byte, loopVars, sessVars, appVars>>
    BY <1>3 DEF Leaves, Receives
  <2>. QED
    BY <1>1, <2>1, <2>2, PostTyped, CommandIds DEF TypeOK
<1>4. ASSUME NEW h \in Sessions, NEW t \in IoThreads, Plugs(h, t) \/ FindsNoSocket(t, h) \/ ReportsOf(t, h)
      PROVE  TypeOK'
  <2>1. \E s \in Threads, u \in Workers, c \in Commands : PostStep(s, u, c)
    BY <1>4, Posts, CommandIds
  <2>2. /\ queue' \in [Workers -> Seq(Commands)] /\ sending' \in [Threads -> Sendings]
        /\ fault' \in Threads \cup {Nobody} /\ UNCHANGED <<box, holder, asleep, byte, loopVars>>
    BY <2>1, PostTyped DEF PostStep
  <2>3. UNCHANGED appVars
    BY <1>4 DEF Plugs, FindsNoSocket, ReportsOf, Receives
  <2>4. toPlug' \subseteq Sessions /\ home' \in [Sessions -> IoThreads \cup {Nobody}]
        /\ sess' \in [Sessions -> {"none", "posted", "runs", "leaving", "deleted"}]
    BY <1>4, ZenonT(60) DEF Plugs, FindsNoSocket, ReportsOf, TypeOK
  <2>5. reports' \in [Sessions -> 0 .. MaxReports]
    <3>1. CASE ReportsOf(t, h)
      <4>1. reports[h] + 1 \in 0 .. MaxReports
        BY <3>1, BoundAssumption DEF ReportsOf, TypeOK
      <4>. QED
        BY <3>1, <4>1 DEF ReportsOf, TypeOK
    <3>2. CASE Plugs(h, t) \/ FindsNoSocket(t, h)
      BY <3>2 DEF Plugs, FindsNoSocket, TypeOK
    <3>. QED
      BY <1>4, <3>1, <3>2
  <2>. QED
    BY <2>2, <2>3, <2>4, <2>5 DEF TypeOK
<1>5. ASSUME NEW t \in Workers, NEW c \in Commands, TakeStep(t, c), UNCHANGED reports,
             stopping' \in [Workers -> BOOLEAN], toPlug' \subseteq Sessions,
             sess' \in [Sessions -> {"none", "posted", "runs", "leaving", "deleted"}]
      PROVE  TypeOK'
  BY <1>5, ReceiveDoes DEF TakeStep, TypeOK
<1>6. ASSUME NEW t \in Workers, ProcessStop(t) PROVE TypeOK'
  BY <1>5, <1>6, Takes, CommandIds DEF ProcessStop, TypeOK
<1>7. ASSUME NEW h \in Sessions, TimesOut(h) PROVE TypeOK'
  <2>1. TakeStep(Reaper, Cmd("timeOut", h)) /\ Cmd("timeOut", h) \in Commands
    BY <1>7, Takes, CommandIds
  <2>. QED
    BY <1>5, <1>7, <2>1 DEF TimesOut, TypeOK
<1>8. CASE ReaperPlug
  BY <1>5, <1>8, Takes, CommandIds DEF ReaperPlug, TypeOK
<1>9. ASSUME NEW h \in Sessions, NEW t \in IoThreads, Runs(t, h) \/ Terms(t, h) PROVE TypeOK'
  <2>1. \E c \in Commands : TakeStep(t, c)
    BY <1>9, Takes, CommandIds
  <2>2. /\ sess' \in [Sessions -> {"none", "posted", "runs", "leaving", "deleted"}]
        /\ UNCHANGED <<reports, stopping, toPlug>>
    BY <1>9 DEF Runs, Terms, TypeOK
  <2>. QED
    BY <1>5, <2>1, <2>2 DEF TypeOK
<1>10. ASSUME NEW s \in Threads, LockAndWrite(s) PROVE TypeOK'
  <2>1. sending[s].to \in Workers /\ queue' \in [Workers -> Seq(Commands)] /\ sending' \in [Threads -> Sendings]
    BY <1>10, WriteDoes
  <2>2. fault' \in Threads \cup {Nobody}
    BY <1>10 DEF LockAndWrite, Touch, TypeOK
  <2>. QED
    BY <1>10, <2>1, <2>2 DEF LockAndWrite, TypeOK
<1>11. ASSUME NEW s \in Threads, Unlock(s) \/ Signal(s) PROVE TypeOK'
  <2>1. sending' \in [Threads -> Sendings] /\ fault' \in Threads \cup {Nobody}
    <3>1. sending' \in [Threads -> Sendings]
      BY <1>11, AfterWriteDoes
    <3>2. fault' \in {fault, s}
      BY <1>11 DEF Unlock, Signal, Touch
    <3>. QED
      BY <3>1, <3>2 DEF TypeOK
  <2>. QED
    BY <1>11, <2>1, ZenonT(60) DEF Unlock, Signal, TypeOK
<1>12. ASSUME NEW t \in Workers, WakeUp(t) \/ FallAsleep(t) \/ LeaveLoop(t) PROVE TypeOK'
  BY <1>12, ZenonT(60) DEF WakeUp, FallAsleep, LeaveLoop, TypeOK
<1>13. CASE StartThread \/ CreateLinkFails \/ Join \/ WaitForMutex
  <2>1. at' \in Workers /\ apc' \in {"start", "load", "up", "wait", "close"}
    BY <1>13, NextThread DEF StartThread, CreateLinkFails, Join, WaitForMutex, TypeOK
  <2>. QED
    BY <1>13, <2>1, ZenonT(60) DEF StartThread, CreateLinkFails, Join, WaitForMutex, TypeOK
<1>14. CASE CloseBox
  <2>1. at' \in Workers /\ apc' \in {"stopIo", "gone", "join"} /\ fault' \in Threads \cup {Nobody}
    BY <1>14, NextThread DEF CloseBox, TypeOK
  <2>. QED
    BY <1>14, <2>1 DEF CloseBox, TypeOK
<1>. QED
  BY <1>2, <1>3, <1>4, <1>6, <1>7, <1>8, <1>9, <1>10, <1>11, <1>12, <1>13, <1>14, Steps

\* A step of a thread leaves the application and the mailboxes where they are.
LEMMA StagedFrame ==
    ASSUME TypeOK, Staged, UNCHANGED <<appVars, box>>, loop' \in [Workers -> {"unborn", "polling", "draining", "exited"}],
           \A t \in Workers : loop'[t] = "unborn" <=> loop[t] = "unborn",
           \A t \in Workers : loop[t] = "exited" => loop'[t] = "exited"
    PROVE  Staged'
BY DEF Staged, Unborn, Gone, appVars, TypeOK

LEMMA StagedKept == ASSUME TypeOK, AtHome, Staged, Next PROVE Staged'
<1>. USE DEF loopVars, boxVars, appVars
<1>1. \A t \in Workers : t \in Nat
  BY ThreadIds
<1>2. at \in Workers /\ Reaper = 1
  BY DEF TypeOK, Reaper
<1>3. CASE StartThread
  <2>1. \A t \in Workers : Unborn(t)' <=> Unborn(t) /\ t # at
    <3>1. CASE at = NumThreads + 1
      <4>1. apc' = "load" /\ apc = "start" /\ \A t \in Workers : t >= at => t = at
        BY <1>1, <1>2, <1>3, <3>1, ThreadIds DEF StartThread
      <4>. QED
        BY <4>1 DEF Unborn
    <3>2. CASE at # NumThreads + 1
      <4>1. apc' = "start" /\ apc = "start" /\ at' = at + 1
        BY <1>3, <3>2 DEF StartThread
      <4>2. \A t \in Workers : t >= at + 1 <=> t >= at /\ t # at
        BY <1>1, <1>2
      <4>. QED
        BY <4>1, <4>2 DEF Unborn
    <3>. QED
      BY <3>1, <3>2
  <2>2. \A t \in Workers : ~Gone(t) /\ ~Gone(t)'
    BY <1>3 DEF StartThread, Gone, Deleting
  <2>3. Unborn(at)
    BY <1>1, <1>2, <1>3 DEF StartThread, Unborn
  <2>4. /\ box'[at] = "open" /\ loop'[at] = "polling"
        /\ \A t \in Workers : t # at => box'[t] = box[t] /\ loop'[t] = loop[t]
    BY <1>2, <1>3 DEF StartThread, TypeOK
  <2>5. apc' \in {"start", "load"}
    BY <1>3 DEF StartThread
  <2>. QED
    BY <2>1, <2>2, <2>3, <2>4, <2>5 DEF Staged
<1>4. CASE CreateLinkFails \/ OpenAllLink
  <2>1. apc = "load" /\ apc' = "up" /\ UNCHANGED <<at, box, loop>>
    BY <1>4 DEF CreateLinkFails, OpenAllLink
  <2>. QED
    BY <2>1 DEF Staged, Unborn, Gone, Deleting
<1>5. CASE Terminate
  <2>1. apc = "up" /\ apc' = "join" /\ at' = Reaper /\ UNCHANGED <<box, loop>>
    BY <1>5 DEF Terminate
  <2>2. \A t \in Workers : ~(t < Reaper)
    BY <1>2, ThreadIds
  <2>. QED
    BY <2>1, <2>2 DEF Staged, Unborn, Gone, Deleting
<1>6. CASE Join \/ WaitForMutex
  <2>1. /\ apc \in Deleting /\ apc' \in {"wait", "close"} /\ UNCHANGED <<at, box, loop>>
        /\ loop[at] = "exited"
    BY <1>6 DEF Join, WaitForMutex, Staged, Deleting
  <2>. QED
    BY <2>1 DEF Staged, Unborn, Gone, Deleting
<1>7. CASE CloseBox
  <2>1. /\ apc = "close" /\ apc' \in {"stopIo", "gone", "join"} /\ loop' = loop /\ loop[at] = "exited"
        /\ box'[at] = "closed" /\ \A t \in Workers : t # at => box'[t] = box[t]
    BY <1>2, <1>7 DEF CloseBox, Staged, TypeOK
  <2>2. \A t \in Workers : ~Unborn(t) /\ ~Unborn(t)'
    BY <2>1 DEF Unborn
  <2>3. \A t \in Workers : Gone(t)' <=> Gone(t) \/ t = at
    <3>1. CASE at = Reaper
      <4>1. apc' = "stopIo" /\ \A t \in Workers : ~(t < at)
        BY <1>2, <1>7, <3>1, ThreadIds, ThreadsAssumption DEF CloseBox
      <4>. QED
        BY <2>1, <3>1, <4>1 DEF Gone, Deleting
    <3>2. CASE at # Reaper /\ at = NumThreads + 1
      <4>1. apc' = "gone" /\ \A t \in Workers : t < at \/ t = at
        BY <1>2, <1>7, <3>2, ThreadIds DEF CloseBox
      <4>. QED
        BY <2>1, <4>1 DEF Gone, Deleting
    <3>3. CASE at # Reaper /\ at # NumThreads + 1
      <4>1. apc' = "join" /\ at' = at + 1
        BY <1>7, <3>3 DEF CloseBox
      <4>2. \A t \in Workers : t < at + 1 <=> t < at \/ t = at
        BY <1>1, <1>2
      <4>. QED
        BY <2>1, <4>1, <4>2 DEF Gone, Deleting
    <3>. QED
      BY <3>1, <3>2, <3>3
  <2>4. apc' = "stopIo" => at' # Reaper
    BY <1>2, <1>7, ThreadsAssumption DEF CloseBox
  <2>. QED
    BY <2>1, <2>2, <2>3, <2>4 DEF Staged
<1>8. CASE StopIo
  <2>1. /\ apc = "stopIo" /\ apc' \in {"stopIo", "join"} /\ UNCHANGED <<box, loop>>
        /\ apc' = "join" => at' = 2
        /\ at' # Reaper
    BY <1>2, <1>8, NextThread, ThreadIds DEF StopIo
  <2>2. \A t \in Workers : t < 2 <=> t = Reaper
    BY <1>2, ThreadIds
  <2>. QED
    BY <2>1, <2>2 DEF Staged, Unborn, Gone, Deleting
<1>9. ASSUME NEW t \in Workers, WakeUp(t) \/ FallAsleep(t) \/ LeaveLoop(t) PROVE Staged'
  <2>1. UNCHANGED <<apc, at, box>> /\ loop[t] \in {"polling", "draining"}
    BY <1>9 DEF WakeUp, FallAsleep, LeaveLoop
  <2>2. \E l \in {"polling", "draining", "exited"} : loop' = [loop EXCEPT ![t] = l]
    BY <1>9 DEF WakeUp, FallAsleep, LeaveLoop
  <2>. QED
    BY <2>1, <2>2, StagedFrame DEF TypeOK
<1>10. CASE UNCHANGED <<apc, at, box, loop>>
  BY <1>10, StagedFrame DEF TypeOK
<1>11. ASSUME NEW s \in Threads, LockAndWrite(s) \/ Unlock(s) \/ Signal(s)
       PROVE  UNCHANGED <<apc, at, box, loop>>
  BY <1>11 DEF LockAndWrite, Unlock, Signal
<1>12. ASSUME NEW t \in Workers, ProcessStop(t) PROVE UNCHANGED <<apc, at, box, loop>>
  BY <1>12, Takes DEF TakeStep
<1>13. ReaperPlug => UNCHANGED <<apc, at, box, loop>>
  BY Takes DEF TakeStep
<1>14. ASSUME NEW h \in Sessions, TimesOut(h) \/ Leaves(h) PROVE UNCHANGED <<apc, at, box, loop>>
  BY <1>14 DEF TimesOut, Leaves, Receives
<1>15. ASSUME NEW t \in IoThreads, NEW h \in Sessions,
              Plugs(h, t) \/ Runs(t, h) \/ FindsNoSocket(t, h) \/ Terms(t, h) \/ ReportsOf(t, h)
       PROVE  UNCHANGED <<apc, at, box, loop>>
  BY <1>15 DEF Plugs, Runs, FindsNoSocket, Terms, ReportsOf, Receives
<1>. QED
  BY <1>3, <1>4, <1>5, <1>6, <1>7, <1>8, <1>9, <1>10, <1>11, <1>12, <1>13, <1>14, <1>15, Steps

\* A thread that is inside of send stays in its send of the same command.
LEMMA StillSends ==
    ASSUME TypeOK, NEW s \in Threads, LockAndWrite(s) \/ Unlock(s) \/ Signal(s)
    PROVE  /\ sending[s] # Idle
           /\ sending'[s] # Idle => sending'[s].to = sending[s].to
           /\ \A r \in Threads : r # s => sending'[r] = sending[r]
           /\ UNCHANGED <<appVars, box, loopVars, sessVars>>
<1>1. CASE LockAndWrite(s)
  BY <1>1, WriteDoes DEF LockAndWrite
<1>2. CASE Unlock(s) \/ Signal(s)
  BY <1>2, AfterWriteDoes DEF Unlock, Signal
<1>. QED
  BY <1>1, <1>2

LEMMA AppSendsKept == ASSUME TypeOK, AtHome, Staged, AppSends, Next PROVE AppSends'
<1>. USE ThreadIds DEF loopVars, boxVars, appVars
<1>1. at \in Workers /\ Reaper \in Workers
  BY DEF TypeOK
<1>2. CASE OpenAllLink \/ Terminate
  <2>1. box[Reaper] = "open"
    <3>1. ~Unborn(Reaper) /\ ~Gone(Reaper)
      BY <1>2 DEF OpenAllLink, Terminate, Unborn, Gone, Deleting
    <3>. QED
      BY <3>1 DEF Staged
  <2>2. \E c \in Commands : Post(App, Reaper, c)
    BY <1>2, CommandIds DEF OpenAllLink, Terminate
  <2>3. sending'[App].to = Reaper
    BY <2>2, PostDoes
  <2>4. box' = box /\ (apc' = "up" \/ (apc' = "join" /\ at' = Reaper))
    BY <1>2 DEF OpenAllLink, Terminate
  <2>. QED
    BY <2>1, <2>3, <2>4 DEF AppSends, Deleting
<1>3. CASE StopIo
  <2>1. box[at] = "open"
    <3>1. ~Unborn(at) /\ ~Gone(at)
      BY <1>3 DEF StopIo, Unborn, Gone, Deleting, Staged
    <3>. QED
      BY <1>1, <3>1 DEF Staged
  <2>2. sending'[App].to = at
    BY <1>1, <1>3, PostDoes, CommandIds DEF StopIo
  <2>3. box' = box /\ (apc' = "stopIo" \/ (apc' = "join" /\ at' = 2))
    BY <1>3 DEF StopIo
  <2>. QED
    BY <2>1, <2>2, <2>3 DEF AppSends, Deleting
<1>4. ASSUME UNCHANGED <<apc, at, box>>, sending'[App] = Idle \/ sending'[App] = sending[App]
      PROVE  AppSends'
  BY <1>4 DEF AppSends
<1>5. ASSUME NEW s \in Threads, LockAndWrite(s) \/ Unlock(s) \/ Signal(s)
      PROVE  AppSends'
  BY <1>5, StillSends DEF AppSends
<1>6. CASE StartThread
  <2>1. apc = "start" /\ sending' = sending
    BY <1>6 DEF StartThread
  <2>2. sending'[App] = Idle
    BY <2>1 DEF AppSends
  <2>. QED
    BY <2>2 DEF AppSends
<1>7. CASE CreateLinkFails \/ Join \/ WaitForMutex \/ CloseBox
  <2>1. sending[App] = Idle /\ sending' = sending
    BY <1>7 DEF CreateLinkFails, Join, WaitForMutex, CloseBox, AppSends
  <2>. QED
    BY <2>1 DEF AppSends
<1>8. ASSUME NEW t \in Workers, WakeUp(t) \/ FallAsleep(t) \/ LeaveLoop(t) \/ ProcessStop(t)
      PROVE  AppSends'
  BY <1>4, <1>8 DEF WakeUp, FallAsleep, LeaveLoop, ProcessStop, Receives
<1>9. ASSUME NEW t \in Workers, NEW c \in Commands, TakeStep(t, c)
      PROVE  AppSends'
  BY <1>4, <1>9 DEF TakeStep
<1>10. ASSUME NEW s \in Workers, NEW t \in Workers, NEW c \in Commands, PostStep(s, t, c), UNCHANGED <<apc, at>>
       PROVE  AppSends'
  <2>1. sending'[App] = sending[App]
    BY <1>10, PostDoes DEF PostStep
  <2>. QED
    BY <1>4, <1>10, <2>1 DEF PostStep
<1>11. ASSUME NEW h \in Sessions, Leaves(h) PROVE AppSends'
  BY <1>10, <1>11, Posts, CommandIds DEF Leaves, Receives
<1>12. ASSUME NEW h \in Sessions, NEW t \in IoThreads, Plugs(h, t) \/ FindsNoSocket(t, h) \/ ReportsOf(t, h)
       PROVE  AppSends'
  <2>1. UNCHANGED <<apc, at>>
    BY <1>12 DEF Plugs, FindsNoSocket, ReportsOf, Receives
  <2>. QED
    BY <1>10, <1>12, <2>1, Posts, CommandIds
<1>. QED
  BY <1>2, <1>3, <1>5, <1>6, <1>7, <1>8, <1>9, <1>11, <1>12, Steps, Takes, CommandIds

\* A loop that was launched stays launched.
LEMMA LoopsStay ==
    ASSUME TypeOK, NEW t \in Workers, NEW l \in {"polling", "draining", "exited"},
           loop' = [loop EXCEPT ![t] = l]
    PROVE  /\ \A u \in Workers : loop[u] # "unborn" => loop'[u] # "unborn"
           /\ loop'[t] = l /\ \A u \in Workers : u # t => loop'[u] = loop[u]
<1>1. \A u \in Workers : loop'[u] = IF u = t THEN l ELSE loop[u]
  BY DEF TypeOK
<1>. QED
  BY <1>1

LEMMA LoopStep ==
    ASSUME NEW t, WakeUp(t) \/ FallAsleep(t) \/ LeaveLoop(t)
    PROVE  \E l \in {"polling", "draining", "exited"} : loop' = [loop EXCEPT ![t] = l]
BY DEF WakeUp, FallAsleep, LeaveLoop

LEMMA ReaperSendsKept == ASSUME TypeOK, AtHome, Staged, ReaperSends, Next PROVE ReaperSends'
<1>. USE ThreadIds DEF loopVars, boxVars, appVars
<1>1. ASSUME sending'[Reaper] = Idle \/ sending'[Reaper] = sending[Reaper],
             loop'[Reaper] = loop[Reaper] \/ loop'[Reaper] = "draining",
             \A t \in Workers : loop[t] # "unborn" => loop'[t] # "unborn"
      PROVE  ReaperSends'
  BY <1>1 DEF ReaperSends
<1>2. CASE OpenAllLink \/ Terminate \/ StopIo
  <2>1. \E t \in Workers, c \in Commands : Post(App, t, c)
    BY <1>2, CommandIds DEF OpenAllLink, Terminate, StopIo, TypeOK
  <2>2. sending'[Reaper] = sending[Reaper]
    BY <2>1, PostDoes
  <2>. QED
    BY <1>1, <1>2, <2>2 DEF OpenAllLink, Terminate, StopIo
<1>3. ASSUME NEW h \in Sessions, Leaves(h) PROVE ReaperSends'
  <2>1. /\ loop[Reaper] = "draining" /\ loop' = loop /\ home[h] \in IoThreads
        /\ Post(Reaper, home[h], Cmd("term", h)) /\ Queued(Reaper, Cmd("leave", h))
    BY <1>3, ReceiveDoes, CommandIds DEF Leaves, Receives
  <2>3. loop[home[h]] # "unborn"
    BY <2>1 DEF AtHome, OnTheWay
  <2>2. sending'[Reaper].to = home[h]
    BY <2>1, PostDoes, CommandIds
  <2>. QED
    BY <2>1, <2>2, <2>3 DEF ReaperSends
<1>4. ASSUME NEW h \in Sessions, NEW t \in IoThreads, Plugs(h, t) PROVE ReaperSends'
  <2>1. /\ loop[Reaper] = "draining" /\ loop' = loop /\ loop[t] # "unborn"
        /\ Post(Reaper, t, Cmd("plug", h))
    BY <1>4 DEF Plugs
  <2>2. sending'[Reaper].to = t
    BY <2>1, PostDoes, CommandIds
  <2>. QED
    BY <2>1, <2>2 DEF ReaperSends
<1>5. ASSUME NEW h \in Sessions, NEW t \in IoThreads, FindsNoSocket(t, h) \/ ReportsOf(t, h)
      PROVE  ReaperSends'
  <2>1. \E c \in Commands : PostStep(t, Reaper, c)
    BY <1>5, Posts, CommandIds
  <2>2. sending'[Reaper] = sending[Reaper] /\ loop' = loop
    BY <2>1, PostDoes DEF PostStep
  <2>. QED
    BY <1>1, <2>2
<1>6. ASSUME NEW s \in Threads, LockAndWrite(s) \/ Unlock(s) \/ Signal(s) PROVE ReaperSends'
  BY <1>6, StillSends DEF ReaperSends
<1>7. ASSUME NEW t \in Workers, NEW c \in Commands, TakeStep(t, c) PROVE ReaperSends'
  BY <1>1, <1>7 DEF TakeStep
<1>8. CASE CreateLinkFails \/ Join \/ WaitForMutex \/ CloseBox
  BY <1>1, <1>8 DEF CreateLinkFails, Join, WaitForMutex, CloseBox
<1>9. CASE StartThread
  <2>1. /\ sending' = sending /\ (loop'[Reaper] = loop[Reaper] \/ loop[Reaper] = "unborn")
        /\ \A u \in Workers : loop[u] # "unborn" => loop'[u] # "unborn"
    <3>1. apc = "start" /\ at \in Workers /\ (at = Reaper => Unborn(Reaper))
      BY <1>9 DEF StartThread, TypeOK, Unborn
    <3>. QED
      BY <1>9, <3>1 DEF StartThread, Staged, TypeOK
  <2>. QED
    BY <2>1 DEF ReaperSends
<1>10. ASSUME NEW t \in Workers, WakeUp(t) \/ FallAsleep(t) \/ LeaveLoop(t) PROVE ReaperSends'
  <2>1. sending' = sending
    BY <1>10 DEF WakeUp, FallAsleep, LeaveLoop
  <2>2. CASE t = Reaper
    BY <1>10, <2>1, <2>2 DEF ReaperSends, WakeUp, FallAsleep, LeaveLoop, TypeOK
  <2>3. CASE t # Reaper
    <3>1. loop'[Reaper] = loop[Reaper] /\ \A u \in Workers : loop[u] # "unborn" => loop'[u] # "unborn"
      BY <1>10, <2>3, LoopStep, LoopsStay
    <3>. QED
      BY <1>1, <2>1, <3>1
  <2>. QED
    BY <2>2, <2>3
<1>. QED
  BY <1>2, <1>3, <1>4, <1>5, <1>6, <1>7, <1>8, <1>9, <1>10, Steps, Takes, CommandIds

\* A session is only moved or deleted while its thread is not sending.
LEMMA IoSendsKept == ASSUME TypeOK, AtHome, Staged, IoSends, Next PROVE IoSends'
<1>. USE ThreadIds DEF loopVars, boxVars, appVars, sessVars
<1>1. ASSUME NEW u \in IoThreads,
             sending'[u] = Idle \/ (sending[u] # Idle /\ sending'[u].to = sending[u].to),
             loop'[u] = loop[u] \/ loop'[u] = "draining",
             stopping'[u] = stopping[u] \/ loop[u] = "draining",
             \A h \in Sessions : home[h] = u /\ sess[h] \in {"runs", "leaving"} /\ sending[u] # Idle
                                 => home'[h] = u /\ sess'[h] \in {"runs", "leaving"}
      PROVE  sending'[u] # Idle =>
                 /\ loop'[u] = "draining" \/ (loop'[u] = "polling" /\ ~stopping'[u])
                 /\ sending'[u].to = Reaper
                 /\ \E h \in Sessions : home'[h] = u /\ sess'[h] \in {"runs", "leaving"}
  BY <1>1 DEF IoSends
<1>2. ASSUME \A u \in IoThreads : \/ sending'[u] = Idle
                                  \/ sending'[u] = sending[u]
                                  \/ sending[u] # Idle /\ sending'[u].to = sending[u].to,
             UNCHANGED <<home, sess, loop, stopping>>
      PROVE  IoSends'
  BY <1>1, <1>2 DEF IoSends
<1>3. CASE OpenAllLink \/ Terminate \/ StopIo
  <2>1. \E t \in Workers, c \in Commands : Post(App, t, c)
    BY <1>3, CommandIds DEF OpenAllLink, Terminate, StopIo, TypeOK
  <2>2. \A u \in IoThreads : sending'[u] = sending[u]
    BY <2>1, PostDoes
  <2>. QED
    BY <1>2, <1>3, <2>2 DEF OpenAllLink, Terminate, StopIo
<1>4. ASSUME NEW h \in Sessions, Leaves(h) PROVE IoSends'
  <2>1. \A u \in IoThreads : sending'[u] = sending[u]
    BY <1>4, PostDoes, CommandIds DEF Leaves
  <2>. QED
    BY <1>2, <1>4, <2>1 DEF Leaves
<1>5. ASSUME NEW h \in Sessions, NEW t \in IoThreads, Plugs(h, t) PROVE IoSends'
  <2>1. \A u \in IoThreads : sending'[u] = sending[u]
    BY <1>5, PostDoes, CommandIds DEF Plugs
  <2>2. sess[h] = "none"
    BY <1>5 DEF Plugs, AtHome
  <2>3. UNCHANGED <<loop, stopping>> /\ \A g \in Sessions : g # h => home'[g] = home[g] /\ sess'[g] = sess[g]
    BY <1>5 DEF Plugs, TypeOK
  <2>. QED
    BY <2>1, <2>2, <2>3 DEF IoSends
<1>6. ASSUME NEW h \in Sessions, NEW t \in IoThreads, FindsNoSocket(t, h) PROVE IoSends'
  <2>1. /\ sending[t] = Idle /\ sending'[t].to = Reaper /\ \A u \in IoThreads : u # t => sending'[u] = sending[u]
    BY <1>6, PostDoes, CommandIds DEF FindsNoSocket
  <2>2. Queued(t, Cmd("plug", h)) /\ loop[t] = "draining"
    BY <1>6, ReceiveDoes, CommandIds DEF FindsNoSocket
  <2>3. home[h] = t
    BY <2>2 DEF AtHome, OnTheWay
  <2>4. /\ UNCHANGED <<loop, stopping, home>> /\ sess'[h] = "leaving"
        /\ \A g \in Sessions : g # h => sess'[g] = sess[g]
    BY <1>6 DEF FindsNoSocket, TypeOK
  <2>. QED
    BY <2>1, <2>2, <2>3, <2>4 DEF IoSends
<1>7. ASSUME NEW h \in Sessions, NEW t \in IoThreads, ReportsOf(t, h) PROVE IoSends'
  <2>1. /\ sending'[t].to = Reaper /\ \A u \in IoThreads : u # t => sending'[u] = sending[u]
    BY <1>7, PostDoes, CommandIds DEF ReportsOf
  <2>2. /\ UNCHANGED <<loop, stopping, home, sess>> /\ sess[h] = "runs" /\ home[h] = t
        /\ loop[t] = "polling" /\ ~stopping[t]
    BY <1>7 DEF ReportsOf
  <2>. QED
    BY <2>1, <2>2 DEF IoSends
<1>8. ASSUME NEW h \in Sessions, NEW t \in IoThreads, Runs(t, h) \/ Terms(t, h) PROVE IoSends'
  <2>1. /\ Queued(t, Cmd("plug", h)) \/ Queued(t, Cmd("term", h))
        /\ sending[t] = Idle
    BY <1>8, ReceiveDoes, CommandIds DEF Runs, Terms
  <2>2. home[h] = t
    BY <2>1 DEF AtHome, OnTheWay
  <2>3. UNCHANGED <<sending, loop, stopping, home>> /\ \A g \in Sessions : g # h => sess'[g] = sess[g]
    BY <1>8 DEF Runs, Terms, TypeOK
  <2>. QED
    BY <2>1, <2>2, <2>3 DEF IoSends
<1>9. ASSUME NEW s \in Threads, LockAndWrite(s) \/ Unlock(s) \/ Signal(s) PROVE IoSends'
  BY <1>2, <1>9, StillSends
<1>10. ASSUME NEW t \in Workers, ProcessStop(t) PROVE IoSends'
  <2>1. loop[t] = "draining" /\ UNCHANGED <<sending, loop, home, sess>>
        /\ \A u \in Workers : u # t => stopping'[u] = stopping[u]
    BY <1>10 DEF ProcessStop, Receives, TypeOK
  <2>. QED
    BY <2>1 DEF IoSends
<1>11. CASE ReaperPlug \/ CreateLinkFails \/ Join \/ WaitForMutex \/ CloseBox \/ \E h \in Sessions : TimesOut(h)
  BY <1>2, <1>11 DEF ReaperPlug, CreateLinkFails, Join, WaitForMutex, CloseBox, TimesOut
<1>12. CASE StartThread
  <2>1. apc = "start" /\ at \in Workers /\ Unborn(at)
    BY <1>12 DEF StartThread, TypeOK, Unborn
  <2>2. loop[at] = "unborn" /\ UNCHANGED <<sending, stopping, home, sess>>
        /\ \A u \in Workers : u # at => loop'[u] = loop[u]
    BY <1>12, <2>1 DEF StartThread, TypeOK, Staged
  <2>. QED
    BY <2>2 DEF IoSends
<1>13. ASSUME NEW t \in Workers, WakeUp(t) \/ FallAsleep(t) \/ LeaveLoop(t) PROVE IoSends'
  <2>1. UNCHANGED <<sending, stopping, home, sess>> /\ \A u \in Workers : u # t => loop'[u] = loop[u]
    BY <1>13, ZenonT(60) DEF WakeUp, FallAsleep, LeaveLoop, TypeOK
  <2>2. sending[t] = Idle \/ (loop[t] = "polling" /\ stopping[t])
    BY <1>13 DEF WakeUp, FallAsleep, LeaveLoop
  <2>. QED
    BY <2>1, <2>2 DEF IoSends
<1>. QED
  BY <1>3, <1>4, <1>5, <1>6, <1>7, <1>8, <1>9, <1>10, <1>11, <1>12, <1>13, Steps

LEMMA MutexKept == ASSUME TypeOK, AtHome, MutexHeld, Next PROVE MutexHeld'
<1>. USE ThreadIds DEF boxVars
<1>0. \A t \in Workers : holder[t] # Nobody =>
          holder[t] \in Threads /\ sending[holder[t]].pc = "unlock" /\ sending[holder[t]].to = t
  BY DEF MutexHeld, TypeOK
<1>1. CASE UNCHANGED <<holder, sending>>
  BY <1>1 DEF MutexHeld
<1>2. ASSUME NEW s \in Threads, NEW t \in Workers, NEW c \in Commands, PostStep(s, t, c) PROVE MutexHeld'
  <2>1. /\ sending[s].pc = "idle" /\ holder' = holder
        /\ \A r \in Threads : r # s => sending'[r] = sending[r]
    BY <1>2, PostDoes, SendingIs DEF PostStep
  <2>2. \A u \in Workers : holder[u] # Nobody => holder[u] # s
    BY <1>0, <2>1
  <2>. QED
    BY <1>0, <2>1, <2>2 DEF MutexHeld
<1>3. ASSUME NEW s \in Threads, LockAndWrite(s) PROVE MutexHeld'
  <2>1. PICK t \in Workers : t = sending[s].to
    BY <1>3, WriteDoes
  <2>2. /\ holder' = [holder EXCEPT ![t] = s] /\ sending[s].pc = "lock"
        /\ sending'[s].pc = "unlock" /\ sending'[s].to = t
        /\ \A r \in Threads : r # s => sending'[r] = sending[r]
    BY <1>3, <2>1, WriteDoes DEF LockAndWrite
  <2>3. holder'[t] = s /\ \A u \in Workers : u # t => holder'[u] = holder[u]
    BY <2>2 DEF TypeOK
  <2>4. \A u \in Workers : holder[u] # Nobody => holder[u] # s
    BY <1>0, <2>2
  <2>5. ASSUME NEW u \in Workers, holder'[u] # Nobody
        PROVE  sending'[holder'[u]].pc = "unlock" /\ sending'[holder'[u]].to = u
    <3>1. CASE u = t
      BY <2>2, <2>3, <3>1
    <3>2. CASE u # t
      BY <1>0, <2>2, <2>3, <2>4, <2>5, <3>2
    <3>. QED
      BY <3>1, <3>2
  <2>. QED
    BY <2>5 DEF MutexHeld
<1>4. ASSUME NEW s \in Threads, Unlock(s) PROVE MutexHeld'
  <2>1. PICK t \in Workers : t = sending[s].to
    BY <1>4, AfterWriteDoes, SendingIs
  <2>2. /\ holder' = [holder EXCEPT ![t] = Nobody]
        /\ \A r \in Threads : r # s => sending'[r] = sending[r]
    BY <1>4, <2>1, AfterWriteDoes DEF Unlock
  <2>3. \A u \in Workers : holder'[u] # Nobody => u # t /\ holder'[u] = holder[u]
    BY <2>2 DEF TypeOK
  <2>4. \A u \in Workers : holder'[u] # Nobody => holder'[u] # s
    BY <1>0, <2>1, <2>3
  <2>. QED
    BY <1>0, <2>2, <2>3, <2>4 DEF MutexHeld
<1>5. ASSUME NEW s \in Threads, Signal(s) PROVE MutexHeld'
  <2>1. /\ holder' = holder /\ sending[s].pc = "signal"
        /\ \A r \in Threads : r # s => sending'[r] = sending[r]
    BY <1>5, AfterWriteDoes DEF Signal
  <2>2. \A u \in Workers : holder[u] # Nobody => holder[u] # s
    BY <1>0, <2>1
  <2>. QED
    BY <1>0, <2>1, <2>2 DEF MutexHeld
<1>6. ASSUME NEW t \in Workers, NEW c \in Commands, TakeStep(t, c) PROVE MutexHeld'
  BY <1>1, <1>6 DEF TakeStep
<1>7. CASE StartThread \/ CreateLinkFails \/ Join \/ WaitForMutex \/ CloseBox
  BY <1>1, <1>7 DEF StartThread, CreateLinkFails, Join, WaitForMutex, CloseBox
<1>8. ASSUME NEW t \in Workers, WakeUp(t) \/ FallAsleep(t) \/ LeaveLoop(t) PROVE MutexHeld'
  BY <1>1, <1>8 DEF WakeUp, FallAsleep, LeaveLoop
<1>9. ASSUME OpenAllLink \/ Terminate \/ StopIo PROVE MutexHeld'
  <2>1. \E t \in Workers, c \in Commands : PostStep(App, t, c)
    BY <1>9, Posts, CommandIds DEF TypeOK
  <2>. QED
    BY <1>2, <2>1
<1>10. ASSUME NEW h \in Sessions, Leaves(h) PROVE MutexHeld'
  BY <1>2, <1>10, Posts, CommandIds DEF Leaves
<1>11. ASSUME NEW h \in Sessions, NEW t \in IoThreads, Plugs(h, t) \/ FindsNoSocket(t, h) \/ ReportsOf(t, h)
       PROVE  MutexHeld'
  BY <1>2, <1>11, Posts, CommandIds
<1>. QED
  BY <1>3, <1>4, <1>5, <1>6, <1>7, <1>8, <1>9, <1>10, <1>11, Steps, Takes, CommandIds

-----------------------------------------------------------------------------
(* What is on its way to a thread, step by step.                           *)

LEMMA PostStepWay ==
    ASSUME TypeOK, NEW s \in Threads, NEW t \in Workers, NEW c \in Commands, PostStep(s, t, c)
    PROVE  /\ OnTheWay(t, c)'
           /\ \A u \in Workers, d \in Commands :
               /\ Queued(u, d)' => Queued(u, d)
               /\ OnTheWay(u, d)' => OnTheWay(u, d) \/ (u = t /\ d = c)
               /\ OnTheWay(u, d) /\ (Queued(u, d) => Queued(u, d)') => OnTheWay(u, d)'
           /\ \A r \in Threads, u \in Workers : Posting(r, u)' <=> Posting(r, u) \/ (r = s /\ u = t)
           /\ sending'[s].pc = "lock" /\ sending'[s].to = t /\ sending'[s].cmd = c
           /\ \A r \in Threads : r # s => sending'[r] = sending[r]
<1>1. Post(s, t, c)
  BY DEF PostStep
<1>2. /\ sending'[s].pc = "lock" /\ sending'[s].to = t /\ sending'[s].cmd = c
      /\ \A r \in Threads : r # s => sending'[r] = sending[r]
  BY <1>1, PostDoes
<1>3. \A r \in Threads, u \in Workers :
          /\ Posting(r, u)' <=> Posting(r, u) \/ (r = s /\ u = t)
          /\ Posting(r, u) => r # s /\ sending'[r].cmd = sending[r].cmd
  BY <1>1, PostWay
<1>4. \A u \in Workers, d \in Commands : Queued(u, d)' => Queued(u, d)
  <2>1. CASE queue' = queue
    BY <2>1 DEF Queued
  <2>2. ASSUME NEW d \in Commands, s \in Workers, Receives(s, d)
        PROVE  \A u \in Workers, e \in Commands : Queued(u, e)' => Queued(u, e)
    BY <2>2, ReceiveWay
  <2>. QED
    BY <2>1, <2>2 DEF PostStep
<1>5. ASSUME NEW u \in Workers, NEW d \in Commands
      PROVE  /\ OnTheWay(u, d)' => OnTheWay(u, d) \/ (u = t /\ d = c)
             /\ OnTheWay(u, d) /\ (Queued(u, d) => Queued(u, d)') => OnTheWay(u, d)'
  <2>1. ASSUME NEW r \in Threads, Posting(r, u)', sending'[r].cmd = d
        PROVE  OnTheWay(u, d) \/ (u = t /\ d = c)
    BY <1>2, <1>3, <2>1 DEF OnTheWay
  <2>2. ASSUME NEW r \in Threads, Posting(r, u), sending[r].cmd = d
        PROVE  Posting(r, u)' /\ sending'[r].cmd = d
    BY <1>3, <2>2
  <2>. QED
    BY <1>4, <2>1, <2>2 DEF OnTheWay
<1>6. OnTheWay(t, c)'
  BY <1>2, <1>3 DEF OnTheWay
<1>. QED
  BY <1>2, <1>3, <1>4, <1>5, <1>6

LEMMA TakeStepWay ==
    ASSUME TypeOK, NEW t \in Workers, NEW c \in Commands, TakeStep(t, c)
    PROVE  /\ Queued(t, c)
           /\ \A u \in Workers, d \in Commands :
               /\ Queued(u, d)' => Queued(u, d)
               /\ OnTheWay(u, d)' => OnTheWay(u, d)
               /\ OnTheWay(u, d) /\ ~(u = t /\ d = c) => OnTheWay(u, d)'
           /\ \A r \in Threads, u \in Workers : Posting(r, u)' <=> Posting(r, u)
<1>1. Receives(t, c) /\ sending' = sending
  BY DEF TakeStep
<1>2. \A u \in Workers, d \in Commands :
          /\ Queued(u, d)' => Queued(u, d)
          /\ Queued(u, d) /\ ~(u = t /\ d = c) => Queued(u, d)'
  BY <1>1, ReceiveWay
<1>3. \A r \in Threads, u \in Workers : Posting(r, u)' <=> Posting(r, u)
  BY <1>1 DEF Posting
<1>4. ASSUME NEW u \in Workers, NEW d \in Commands
      PROVE  /\ OnTheWay(u, d)' => OnTheWay(u, d)
             /\ OnTheWay(u, d) /\ ~(u = t /\ d = c) => OnTheWay(u, d)'
  BY <1>1, <1>2, <1>3 DEF OnTheWay
<1>. QED
  BY <1>1, <1>2, <1>3, <1>4, ReceiveDoes

\* The steps that neither post nor take.
QuietStep ==
    \/ StartThread \/ CreateLinkFails \/ Join \/ WaitForMutex \/ CloseBox
    \/ \E t \in Workers : WakeUp(t) \/ FallAsleep(t) \/ LeaveLoop(t)

LEMMA QuietWay ==
    ASSUME QuietStep
    PROVE  /\ UNCHANGED <<queue, sending, sessVars, stopping>>
           /\ \A u \in Workers, d \in Commands :
               (Queued(u, d)' <=> Queued(u, d)) /\ (OnTheWay(u, d)' <=> OnTheWay(u, d))
           /\ \A r \in Threads, u \in Workers : Posting(r, u)' <=> Posting(r, u)
<1>1. UNCHANGED <<queue, sending, sessVars, stopping>>
  BY DEF QuietStep, StartThread, CreateLinkFails, Join, WaitForMutex, CloseBox, WakeUp, FallAsleep,
     LeaveLoop, boxVars, loopVars
<1>. QED
  BY <1>1 DEF Queued, OnTheWay, Posting

-----------------------------------------------------------------------------
(* The sessions are plugged once.                                          *)

OnceIn(q, d) == \A i, j \in 1 .. Len(q) : q[i] = d /\ q[j] = d => i = j

LEMMA OnceAppended ==
    ASSUME NEW S, NEW q \in Seq(S), NEW c \in S, NEW d,
           OnceIn(q, d), c = d => ~\E i \in 1 .. Len(q) : q[i] = d
    PROVE  OnceIn(Append(q, c), d)
<1>1. /\ Len(q) \in Nat /\ Len(Append(q, c)) = Len(q) + 1 /\ Append(q, c)[Len(q) + 1] = c
      /\ \A i \in 1 .. Len(q) : Append(q, c)[i] = q[i]
  OBVIOUS
<1>2. \A i \in 1 .. Len(Append(q, c)) : i \in 1 .. Len(q) \/ i = Len(q) + 1
  BY <1>1
<1>. QED
  BY <1>1, <1>2 DEF OnceIn

LEMMA OnceInTail ==
    ASSUME NEW S, NEW q \in Seq(S), q # <<>>, NEW d, OnceIn(q, d)
    PROVE  /\ OnceIn(Tail(q), d)
           /\ Head(q) = d => ~\E i \in 1 .. Len(Tail(q)) : Tail(q)[i] = d
<1>1. /\ Len(q) \in Nat /\ Len(q) >= 1 /\ Len(Tail(q)) = Len(q) - 1 /\ q[1] = Head(q)
      /\ \A i \in 1 .. Len(Tail(q)) : Tail(q)[i] = q[i + 1]
  OBVIOUS
<1>2. /\ 1 \in 1 .. Len(q)
      /\ \A i \in 1 .. Len(Tail(q)) : i \in Nat /\ i + 1 \in 1 .. Len(q) /\ i + 1 # 1
  BY <1>1
<1>3. ASSUME NEW i \in 1 .. Len(Tail(q)), NEW j \in 1 .. Len(Tail(q)), Tail(q)[i] = d, Tail(q)[j] = d
      PROVE  i = j
  <2>1. q[i + 1] = d /\ q[j + 1] = d
    BY <1>1, <1>3
  <2>2. i + 1 = j + 1
    BY <1>2, <2>1 DEF OnceIn
  <2>. QED
    BY <1>2, <2>2
<1>4. ASSUME Head(q) = d, NEW i \in 1 .. Len(Tail(q)), Tail(q)[i] = d PROVE FALSE
  <2>1. q[i + 1] = d
    BY <1>1, <1>4
  <2>. QED
    BY <1>1, <1>2, <1>4, <2>1 DEF OnceIn
<1>. QED
  BY <1>3, <1>4 DEF OnceIn

\* Nothing is plugged before the command to plug is carried out.
LEMMA FreshKept ==
    ASSUME TypeOK, AtHome, Fresh, Next, ~ReaperPlug
    PROVE  Fresh'
<1>. USE ThreadIds DEF sessVars, loopVars
<1>1. ASSUME NEW h \in Sessions, NEW t \in IoThreads,
             Plugs(h, t) \/ Runs(t, h) \/ FindsNoSocket(t, h) \/ Terms(t, h)
      PROVE  FALSE
  <2>1. CASE Plugs(h, t)
    BY <2>1 DEF Plugs, Fresh
  <2>2. CASE Runs(t, h) \/ FindsNoSocket(t, h) \/ Terms(t, h)
    <3>1. Queued(t, Cmd("plug", h)) \/ Queued(t, Cmd("term", h))
      BY <2>2, ReceiveDoes, CommandIds DEF Runs, FindsNoSocket, Terms
    <3>. QED
      BY <3>1 DEF AtHome, OnTheWay, Fresh
  <2>. QED
    BY <1>1, <2>1, <2>2
<1>2. CASE UNCHANGED <<toPlug, sess>>
  BY <1>2 DEF Fresh
<1>3. StartThread \/ CreateLinkFails \/ OpenAllLink \/ Terminate \/ Join \/ WaitForMutex \/ CloseBox \/ StopIo
      => UNCHANGED <<toPlug, sess>>
  BY DEF StartThread, CreateLinkFails, OpenAllLink, Terminate, Join, WaitForMutex, CloseBox, StopIo
<1>4. ASSUME NEW s \in Threads, LockAndWrite(s) \/ Unlock(s) \/ Signal(s) PROVE UNCHANGED <<toPlug, sess>>
  BY <1>4 DEF LockAndWrite, Unlock, Signal
<1>5. ASSUME NEW t \in Workers, WakeUp(t) \/ FallAsleep(t) \/ LeaveLoop(t) \/ ProcessStop(t)
      PROVE  UNCHANGED <<toPlug, sess>>
  BY <1>5 DEF WakeUp, FallAsleep, LeaveLoop, ProcessStop
<1>6. ASSUME NEW h \in Sessions, TimesOut(h) \/ Leaves(h) PROVE UNCHANGED <<toPlug, sess>>
  BY <1>6 DEF TimesOut, Leaves
<1>7. ASSUME NEW h \in Sessions, NEW t \in IoThreads, ReportsOf(t, h) PROVE UNCHANGED <<toPlug, sess>>
  BY <1>7 DEF ReportsOf
<1>. QED
  BY <1>1, <1>2, <1>3, <1>4, <1>5, <1>6, <1>7, Steps

LEMMA PluggedOnceKept ==
    ASSUME TypeOK, AtHome, AppSends, PluggedOnce, Next
    PROVE  PluggedOnce'
<1>. USE ThreadIds, CommandIds
<1>1. /\ apc \in {"start", "load"} => Fresh /\ ~Queued(Reaper, PlugAll)
      /\ OnTheWay(Reaper, PlugAll) => Fresh
      /\ Posting(App, Reaper) /\ sending[App].cmd = PlugAll => ~Queued(Reaper, PlugAll)
      /\ \A s \in Workers : sending[s].pc = "lock" => sending[s].cmd # PlugAll
      /\ OnceIn(queue[Reaper], PlugAll)
      /\ queue[Reaper] \in Seq(Commands)
  BY DEF PluggedOnce, OnceIn, TypeOK
<1>2. ASSUME /\ apc' \in {"start", "load"} => Fresh' /\ ~Queued(Reaper, PlugAll)'
             /\ OnTheWay(Reaper, PlugAll)' => Fresh'
             /\ Posting(App, Reaper)' /\ sending'[App].cmd = PlugAll => ~Queued(Reaper, PlugAll)'
             /\ \A s \in Workers : sending'[s].pc = "lock" => sending'[s].cmd # PlugAll
             /\ OnceIn(queue'[Reaper], PlugAll)
      PROVE  PluggedOnce'
  BY <1>2 DEF PluggedOnce, OnceIn
<1>3. ~ReaperPlug => (Fresh => Fresh')
  BY FreshKept
<1>4. ASSUME NEW t \in Workers, NEW c \in Commands, Receives(t, c)
      PROVE  /\ OnceIn(queue'[Reaper], PlugAll)
             /\ t = Reaper /\ c = PlugAll => ~Queued(Reaper, PlugAll)'
  <2>1. CASE t = Reaper
    <3>1. queue[Reaper] # <<>> /\ Head(queue[Reaper]) = c /\ queue'[Reaper] = Tail(queue[Reaper])
      BY <1>4, <2>1, ReceiveDoes
    <3>. QED
      BY <1>1, <3>1, OnceInTail DEF Queued
  <2>2. CASE t # Reaper
    BY <1>1, <1>4, <2>2, ReceiveDoes
  <2>. QED
    BY <2>1, <2>2
<1>5. ASSUME NEW s \in Threads, NEW t \in Workers, NEW c \in Commands, PostStep(s, t, c), c # PlugAll,
             ~ReaperPlug, apc' \in {"start", "load"} => apc \in {"start", "load"}
      PROVE  PluggedOnce'
  <2>1. OnceIn(queue'[Reaper], PlugAll)
    BY <1>1, <1>4, <1>5 DEF PostStep
  <2>2. Queued(Reaper, PlugAll)' => Queued(Reaper, PlugAll)
    BY <1>5, PostStepWay
  <2>3. OnTheWay(Reaper, PlugAll)' => OnTheWay(Reaper, PlugAll)
    BY <1>5, PostStepWay
  <2>4. Posting(App, Reaper)' /\ sending'[App].cmd = PlugAll
        => Posting(App, Reaper) /\ sending[App].cmd = PlugAll
    BY <1>5, PostStepWay
  <2>5. \A r \in Workers : sending'[r].pc = "lock" => sending'[r].cmd # PlugAll
    BY <1>1, <1>5, PostStepWay
  <2>. QED
    BY <1>1, <1>2, <1>3, <1>5, <2>1, <2>2, <2>3, <2>4, <2>5
<1>6. ASSUME NEW t \in Workers, NEW c \in Commands, TakeStep(t, c), c # PlugAll, ~ReaperPlug
      PROVE  PluggedOnce'
  <2>1. OnceIn(queue'[Reaper], PlugAll) /\ sending' = sending /\ apc' = apc
    BY <1>4, <1>6 DEF TakeStep, appVars
  <2>2. /\ Queued(Reaper, PlugAll)' => Queued(Reaper, PlugAll)
        /\ OnTheWay(Reaper, PlugAll)' => OnTheWay(Reaper, PlugAll)
        /\ Posting(App, Reaper)' <=> Posting(App, Reaper)
    BY <1>6, TakeStepWay
  <2>. QED
    BY <1>1, <1>2, <1>3, <1>6, <2>1, <2>2
<1>7. CASE ReaperPlug
  <2>1. TakeStep(Reaper, PlugAll)
    BY <1>7, Takes
  <2>2. /\ OnceIn(queue'[Reaper], PlugAll) /\ ~Queued(Reaper, PlugAll)' /\ sending' = sending /\ apc' = apc
    BY <1>4, <2>1 DEF TakeStep, appVars
  <2>3. Queued(Reaper, PlugAll) /\ (Posting(App, Reaper)' <=> Posting(App, Reaper))
        /\ \A r \in Threads : Posting(r, Reaper)' <=> Posting(r, Reaper)
    BY <2>1, TakeStepWay
  <2>4. ~OnTheWay(Reaper, PlugAll)'
    BY <1>1, <2>2, <2>3 DEF OnTheWay, Posting
  <2>. QED
    BY <1>1, <1>2, <2>2, <2>3, <2>4
<1>8. CASE OpenAllLink
  <2>1. apc = "load" /\ apc' = "up" /\ queue' = queue /\ PostStep(App, Reaper, PlugAll)
    BY <1>8, Posts DEF OpenAllLink, boxVars
  <2>2. Fresh /\ ~Queued(Reaper, PlugAll) /\ ~ReaperPlug
    BY <1>1, <1>8, <2>1, ReceiveDoes DEF ReaperPlug
  <2>3. /\ ~Queued(Reaper, PlugAll)' /\ Fresh'
        /\ \A r \in Workers : sending'[r].pc = "lock" => sending'[r].cmd # PlugAll
    BY <1>1, <1>3, <2>1, <2>2, PostStepWay
  <2>. QED
    BY <1>1, <1>2, <2>1, <2>2, <2>3
<1>9. ASSUME NEW s \in Threads, LockAndWrite(s) PROVE PluggedOnce'
  <2>1. PICK t \in Workers, c \in Commands : t = sending[s].to /\ c = sending[s].cmd
    BY <1>9, WriteDoes
  <2>2. /\ Posting(s, t) /\ queue'[t] = Append(queue[t], c) /\ sending[s].pc = "lock" /\ sending[s] # Idle
        /\ \A u \in Workers : u # t => queue'[u] = queue[u]
        /\ sending'[s].pc = "unlock" /\ \A r \in Threads : r # s => sending'[r] = sending[r]
    BY <1>9, <2>1, WriteDoes DEF Posting
  <2>3. /\ Queued(Reaper, PlugAll)' <=> Queued(Reaper, PlugAll) \/ (Reaper = t /\ PlugAll = c)
        /\ OnTheWay(Reaper, PlugAll)' <=> OnTheWay(Reaper, PlugAll)
        /\ Posting(App, Reaper)' => Posting(App, Reaper) /\ App # s /\ sending'[App] = sending[App]
    BY <1>9, <2>1, WriteWay
  <2>4. c = PlugAll => s = App /\ (t = Reaper => ~Queued(Reaper, PlugAll))
    <3>1. s \in Workers => c # PlugAll
      BY <1>1, <2>1, <2>2
    <3>2. s = App \/ s \in Workers
      OBVIOUS
    <3>3. c = PlugAll /\ t = Reaper => Posting(App, Reaper) /\ sending[App].cmd = PlugAll
      BY <2>1, <2>2, <3>1, <3>2
    <3>. QED
      BY <1>1, <3>1, <3>2, <3>3
  <2>5. OnceIn(queue'[Reaper], PlugAll)
    <3>1. CASE t = Reaper
      <4>1. PlugAll = c => ~\E i \in 1 .. Len(queue[Reaper]) : queue[Reaper][i] = PlugAll
        BY <2>4, <3>1 DEF Queued
      <4>2. OnceIn(Append(queue[Reaper], c), PlugAll)
        BY <1>1, <4>1, OnceAppended
      <4>. QED
        BY <2>2, <3>1, <4>2
    <3>2. CASE t # Reaper
      BY <1>1, <2>2, <3>2
    <3>. QED
      BY <3>1, <3>2
  <2>6. apc' = apc /\ UNCHANGED <<toPlug, sess>>
    BY <1>9 DEF LockAndWrite, appVars, sessVars
  <2>7. apc \in {"start", "load"} => s # App
    BY <2>2 DEF AppSends
  <2>8. Fresh' <=> Fresh
    BY <2>6 DEF Fresh
  <2>. QED
    BY <1>1, <1>2, <2>2, <2>3, <2>4, <2>5, <2>6, <2>7, <2>8
<1>10. ASSUME NEW s \in Threads, Unlock(s) \/ Signal(s) PROVE PluggedOnce'
  <2>1. /\ apc' = apc /\ UNCHANGED <<toPlug, sess, queue>>
        /\ sending'[s].pc # "lock" /\ \A r \in Threads : r # s => sending'[r] = sending[r]
    BY <1>10, AfterWriteDoes DEF Unlock, Signal, appVars, sessVars
  <2>2. /\ Queued(Reaper, PlugAll)' <=> Queued(Reaper, PlugAll)
        /\ OnTheWay(Reaper, PlugAll)' <=> OnTheWay(Reaper, PlugAll)
        /\ Posting(App, Reaper)' => Posting(App, Reaper) /\ sending'[App] = sending[App]
    BY <1>10, AfterWriteWay
  <2>3. Fresh' <=> Fresh
    BY <2>1 DEF Fresh
  <2>. QED
    BY <1>1, <1>2, <2>1, <2>2, <2>3
<1>11. CASE QuietStep
  <2>1. UNCHANGED <<queue, sending, toPlug, sess>>
    BY <1>11, QuietWay DEF sessVars
  <2>2. /\ Queued(Reaper, PlugAll)' <=> Queued(Reaper, PlugAll)
        /\ OnTheWay(Reaper, PlugAll)' <=> OnTheWay(Reaper, PlugAll)
        /\ Posting(App, Reaper)' <=> Posting(App, Reaper)
    BY <1>11, QuietWay
  <2>3. apc' \in {"start", "load"} => apc \in {"start", "load"}
    BY <1>11 DEF QuietStep, StartThread, CreateLinkFails, Join, WaitForMutex, CloseBox, WakeUp, FallAsleep,
       LeaveLoop, appVars
  <2>4. Fresh' <=> Fresh
    BY <2>1 DEF Fresh
  <2>. QED
    BY <1>1, <1>2, <2>1, <2>2, <2>3, <2>4
<1>12. CASE Terminate \/ StopIo
  <2>1. /\ \E t \in Workers : PostStep(App, t, Stop)
        /\ apc' \notin {"start", "load"} /\ ~ReaperPlug
    BY <1>12, Posts DEF Terminate, StopIo, TypeOK, ReaperPlug, Receives, boxVars, loopVars, Post, sessVars
  <2>. QED
    BY <1>5, <2>1
<1>13. ASSUME NEW h \in Sessions, Leaves(h) PROVE PluggedOnce'
  <2>1. PostStep(Reaper, home[h], Cmd("term", h)) /\ home[h] \in Workers
    BY <1>13, Posts DEF Leaves
  <2>2. apc' = apc
    BY <1>13 DEF Leaves, Receives, appVars
  <2>. QED
    BY <1>5, <1>7, <2>1, <2>2
<1>14. ASSUME NEW h \in Sessions, NEW t \in IoThreads, Plugs(h, t) \/ FindsNoSocket(t, h) \/ ReportsOf(t, h)
       PROVE  PluggedOnce'
  <2>1. \E s \in Threads, u \in Workers, c \in Commands : PostStep(s, u, c) /\ c # PlugAll
    BY <1>14, Posts
  <2>2. apc' = apc
    BY <1>14 DEF Plugs, FindsNoSocket, ReportsOf, Receives, appVars
  <2>. QED
    BY <1>5, <1>7, <2>1, <2>2
<1>15. ASSUME NEW t \in Workers, ProcessStop(t) PROVE PluggedOnce'
  <2>1. TakeStep(t, Stop)
    BY <1>15, Takes
  <2>. QED
    BY <1>6, <1>7, <2>1
<1>16. ASSUME NEW h \in Sessions, TimesOut(h) PROVE PluggedOnce'
  <2>1. TakeStep(Reaper, Cmd("timeOut", h))
    BY <1>16, Takes
  <2>. QED
    BY <1>6, <1>7, <2>1
<1>17. ASSUME NEW h \in Sessions, NEW t \in IoThreads, Runs(t, h) \/ Terms(t, h) PROVE PluggedOnce'
  <2>1. \E c \in Commands : TakeStep(t, c) /\ c # PlugAll
    BY <1>17, Takes
  <2>. QED
    BY <1>6, <1>7, <2>1
<1>. QED
  BY <1>7, <1>8, <1>9, <1>10, <1>11, <1>12, <1>13, <1>14, <1>15, <1>16, <1>17, Steps DEF QuietStep

-----------------------------------------------------------------------------
(* A command about a session goes to the thread the session lives in.      *)

\* What a step may do without moving a session.
LEMMA AtHomeFrame ==
    ASSUME AtHome, UNCHANGED <<toPlug, home>>,
           \A h \in Sessions : sess'[h] = "none" <=> sess[h] = "none",
           \A t \in Workers : loop[t] # "unborn" => loop'[t] # "unborn",
           \A h \in Sessions : OnTheWay(Reaper, Cmd("leave", h))'
               => OnTheWay(Reaper, Cmd("leave", h)) \/ sess[h] # "none",
           \A h \in Sessions, t \in IoThreads :
               /\ OnTheWay(t, Cmd("plug", h))' => OnTheWay(t, Cmd("plug", h))
               /\ OnTheWay(t, Cmd("term", h))'
                  => OnTheWay(t, Cmd("term", h)) \/ (sess[h] # "none" /\ home[h] = t)
    PROVE  AtHome'
<1>. SUFFICES ASSUME NEW h \in Sessions
              PROVE  /\ h \in toPlug' => sess'[h] = "none"
                     /\ sess'[h] # "none" => home'[h] \in IoThreads /\ loop'[home'[h]] # "unborn"
                     /\ OnTheWay(Reaper, Cmd("leave", h))' => sess'[h] # "none"
                     /\ \A t \in IoThreads :
                         OnTheWay(t, Cmd("plug", h))' \/ OnTheWay(t, Cmd("term", h))'
                         => sess'[h] # "none" /\ home'[h] = t
  BY DEF AtHome
<1>1. /\ h \in toPlug => sess[h] = "none"
      /\ sess[h] # "none" => home[h] \in IoThreads /\ loop[home[h]] # "unborn"
      /\ OnTheWay(Reaper, Cmd("leave", h)) => sess[h] # "none"
      /\ \A t \in IoThreads :
          OnTheWay(t, Cmd("plug", h)) \/ OnTheWay(t, Cmd("term", h))
          => sess[h] # "none" /\ home[h] = t
  BY DEF AtHome
<1>. QED
  BY <1>1, ThreadIds

LEMMA AtHomeKept == ASSUME TypeOK, AtHome, Staged, PluggedOnce, Next PROVE AtHome'
<1>. USE ThreadIds, CommandIds DEF sessVars, loopVars, boxVars
<1>1. ASSUME NEW s \in Threads, NEW t \in Workers, NEW c \in Commands, PostStep(s, t, c),
             UNCHANGED <<toPlug, home>>, \A h \in Sessions : sess'[h] = "none" <=> sess[h] = "none",
             \A h \in Sessions :
                 /\ t \in IoThreads => c # Cmd("plug", h)
                 /\ t = Reaper /\ c = Cmd("leave", h) => sess[h] # "none"
                 /\ t \in IoThreads /\ c = Cmd("term", h) => sess[h] # "none" /\ home[h] = t
      PROVE  AtHome'
  <2>1. loop' = loop
    BY <1>1 DEF PostStep
  <2>2. \A u \in Workers, d \in Commands : OnTheWay(u, d)' => OnTheWay(u, d) \/ (u = t /\ d = c)
    BY <1>1, PostStepWay
  <2>3. \A h \in Sessions : OnTheWay(Reaper, Cmd("leave", h))'
               => OnTheWay(Reaper, Cmd("leave", h)) \/ sess[h] # "none"
    BY <1>1, <2>2
  <2>4. \A h \in Sessions, u \in IoThreads :
               /\ OnTheWay(u, Cmd("plug", h))' => OnTheWay(u, Cmd("plug", h))
               /\ OnTheWay(u, Cmd("term", h))'
                  => OnTheWay(u, Cmd("term", h)) \/ (sess[h] # "none" /\ home[h] = u)
    BY <1>1, <2>2
  <2>. QED
    BY <1>1, <2>1, <2>3, <2>4, AtHomeFrame
<1>2. ASSUME \A u \in Workers, d \in Commands : OnTheWay(u, d)' => OnTheWay(u, d),
             UNCHANGED <<toPlug, home>>, \A h \in Sessions : sess'[h] = "none" <=> sess[h] = "none",
             \A t \in Workers : loop[t] # "unborn" => loop'[t] # "unborn"
      PROVE  AtHome'
  <2>1. /\ \A h \in Sessions : OnTheWay(Reaper, Cmd("leave", h))' => OnTheWay(Reaper, Cmd("leave", h))
        /\ \A h \in Sessions, t \in IoThreads :
            /\ OnTheWay(t, Cmd("plug", h))' => OnTheWay(t, Cmd("plug", h))
            /\ OnTheWay(t, Cmd("term", h))' => OnTheWay(t, Cmd("term", h))
    BY <1>2
  <2>. QED
    BY <1>2, <2>1, AtHomeFrame
<1>3. CASE OpenAllLink \/ Terminate \/ StopIo
  <2>1. \E t \in Workers : PostStep(App, t, Stop) \/ PostStep(App, t, PlugAll)
    BY <1>3, Posts DEF TypeOK
  <2>2. UNCHANGED <<toPlug, home, sess>>
    BY <1>3 DEF OpenAllLink, Terminate, StopIo
  <2>. QED
    BY <1>1, <2>1, <2>2
<1>4. ASSUME NEW h \in Sessions, Leaves(h) PROVE AtHome'
  <2>1. PICK t \in IoThreads : t = home[h] /\ PostStep(Reaper, t, Cmd("term", h))
    BY <1>4, Posts DEF Leaves
  <2>2. Queued(Reaper, Cmd("leave", h))
    BY <1>4, ReceiveDoes DEF Leaves
  <2>3. sess[h] # "none"
    BY <2>2 DEF AtHome, OnTheWay
  <2>4. UNCHANGED <<toPlug, home, sess>>
    BY <1>4 DEF Leaves
  <2>. QED
    BY <1>1, <2>1, <2>3, <2>4
<1>5. ASSUME NEW h \in Sessions, NEW t \in IoThreads, FindsNoSocket(t, h) PROVE AtHome'
  <2>1. Queued(t, Cmd("plug", h))
    BY <1>5, ReceiveDoes DEF FindsNoSocket
  <2>2. sess[h] # "none"
    BY <2>1 DEF AtHome, OnTheWay
  <2>3. UNCHANGED <<toPlug, home>> /\ \A g \in Sessions : sess'[g] = "none" <=> sess[g] = "none"
    BY <1>5, <2>2 DEF FindsNoSocket, TypeOK
  <2>4. PostStep(t, Reaper, Cmd("leave", h))
    BY <1>5, Posts
  <2>. QED
    BY <1>1, <2>2, <2>3, <2>4
<1>6. ASSUME NEW h \in Sessions, NEW t \in IoThreads, ReportsOf(t, h) PROVE AtHome'
  <2>1. PostStep(t, Reaper, Cmd("timeOut", h)) /\ UNCHANGED <<toPlug, home, sess>>
    BY <1>6, Posts DEF ReportsOf
  <2>. QED
    BY <1>1, <2>1
<1>7. ASSUME NEW h \in Sessions, NEW t \in IoThreads, Plugs(h, t) PROVE AtHome'
  <2>1. PostStep(Reaper, t, Cmd("plug", h)) /\ sess[h] = "none"
    BY <1>7, Posts DEF Plugs, AtHome
  <2>2. \A u \in Workers, d \in Commands : OnTheWay(u, d)' => OnTheWay(u, d) \/ (u = t /\ d = Cmd("plug", h))
    BY <2>1, PostStepWay
  <2>3. /\ toPlug' = toPlug \ {h} /\ loop' = loop /\ sess'[h] = "posted" /\ home'[h] = t /\ loop[t] # "unborn"
        /\ \A g \in Sessions : g # h => sess'[g] = sess[g] /\ home'[g] = home[g]
    BY <1>7 DEF Plugs, TypeOK
  <2>4. \A u \in IoThreads : ~OnTheWay(u, Cmd("plug", h)) /\ ~OnTheWay(u, Cmd("term", h))
    BY <2>1 DEF AtHome
  <2>5. ASSUME NEW g \in Sessions
        PROVE  /\ g \in toPlug' => sess'[g] = "none"
               /\ sess'[g] # "none" => home'[g] \in IoThreads /\ loop'[home'[g]] # "unborn"
               /\ OnTheWay(Reaper, Cmd("leave", g))' => sess'[g] # "none"
    BY <2>2, <2>3 DEF AtHome
  <2>6. ASSUME NEW g \in Sessions, NEW u \in IoThreads,
               OnTheWay(u, Cmd("plug", g))' \/ OnTheWay(u, Cmd("term", g))'
        PROVE  sess'[g] # "none" /\ home'[g] = u
    <3>1. CASE g = h
      <4>1. ~OnTheWay(u, Cmd("term", g))' /\ (OnTheWay(u, Cmd("plug", g))' => u = t)
        BY <2>2, <2>4, <3>1
      <4>. QED
        BY <2>3, <2>6, <3>1, <4>1
    <3>2. CASE g # h
      <4>1. OnTheWay(u, Cmd("plug", g)) \/ OnTheWay(u, Cmd("term", g))
        BY <2>2, <2>6, <3>2
      <4>. QED
        BY <2>3, <3>2, <4>1 DEF AtHome
    <3>. QED
      BY <3>1, <3>2
  <2>. QED
    BY <2>5, <2>6 DEF AtHome
<1>8. CASE ReaperPlug
  <2>1. TakeStep(Reaper, PlugAll)
    BY <1>8, Takes
  <2>2. /\ Queued(Reaper, PlugAll)
        /\ \A u \in Workers, d \in Commands : OnTheWay(u, d)' => OnTheWay(u, d)
    BY <2>1, TakeStepWay
  <2>3. \A h \in Sessions : sess[h] = "none"
    BY <2>2 DEF PluggedOnce, OnTheWay, Fresh
  <2>4. UNCHANGED <<sess, home, loop>>
    BY <1>8 DEF ReaperPlug
  <2>5. ASSUME NEW h \in Sessions
        PROVE  /\ ~OnTheWay(Reaper, Cmd("leave", h))'
               /\ \A t \in IoThreads : ~OnTheWay(t, Cmd("plug", h))' /\ ~OnTheWay(t, Cmd("term", h))'
    BY <2>2, <2>3 DEF AtHome
  <2>. QED
    BY <2>3, <2>4, <2>5 DEF AtHome
<1>9. ASSUME NEW t \in Workers, NEW c \in Commands, TakeStep(t, c), UNCHANGED toPlug,
             \A h \in Sessions : sess'[h] = "none" <=> sess[h] = "none"
      PROVE  AtHome'
  <2>1. UNCHANGED <<home, loop>>
    BY <1>9 DEF TakeStep
  <2>. QED
    BY <1>2, <1>9, <2>1, TakeStepWay
<1>10. ASSUME NEW t \in Workers, ProcessStop(t) PROVE AtHome'
  BY <1>9, <1>10, Takes DEF ProcessStop
<1>11. ASSUME NEW h \in Sessions, TimesOut(h) PROVE AtHome'
  <2>1. TakeStep(Reaper, Cmd("timeOut", h)) /\ UNCHANGED <<toPlug, sess>>
    BY <1>11, Takes DEF TimesOut
  <2>. QED
    BY <1>9, <2>1
<1>12. ASSUME NEW h \in Sessions, NEW t \in IoThreads, Runs(t, h) \/ Terms(t, h) PROVE AtHome'
  <2>1. PICK c \in Commands : TakeStep(t, c) /\ c \in {Cmd("plug", h), Cmd("term", h)}
    BY <1>12, Takes
  <2>2. sess[h] # "none"
    BY <2>1, TakeStepWay DEF AtHome, OnTheWay
  <2>3. UNCHANGED toPlug /\ \A g \in Sessions : sess'[g] = "none" <=> sess[g] = "none"
    BY <1>12, <2>2 DEF Runs, Terms, TypeOK
  <2>. QED
    BY <1>9, <2>1, <2>3
<1>13. ASSUME NEW s \in Threads, LockAndWrite(s) PROVE AtHome'
  BY <1>2, <1>13, WriteWay DEF LockAndWrite
<1>14. ASSUME NEW s \in Threads, Unlock(s) \/ Signal(s) PROVE AtHome'
  BY <1>2, <1>14, AfterWriteWay DEF Unlock, Signal
<1>15. CASE QuietStep
  <2>1. UNCHANGED <<toPlug, home, sess>> /\ \A u \in Workers, d \in Commands : OnTheWay(u, d)' => OnTheWay(u, d)
    BY <1>15, QuietWay
  <2>2. \A t \in Workers : loop[t] # "unborn" => loop'[t] # "unborn"
    <3>1. CASE StartThread
      BY <3>1, LoopsStay DEF StartThread, TypeOK
    <3>2. ASSUME NEW t \in Workers, WakeUp(t) \/ FallAsleep(t) \/ LeaveLoop(t)
          PROVE  \A u \in Workers : loop[u] # "unborn" => loop'[u] # "unborn"
      BY <3>2, LoopStep, LoopsStay
    <3>3. CASE loop' = loop
      BY <3>3
    <3>. QED
      BY <1>15, <3>1, <3>2, <3>3 DEF QuietStep, CreateLinkFails, Join, WaitForMutex, CloseBox
  <2>. QED
    BY <1>2, <2>1, <2>2
<1>. QED
  BY <1>3, <1>4, <1>5, <1>6, <1>7, <1>8, <1>10, <1>11, <1>12, <1>13, <1>14, <1>15, Steps DEF QuietStep

-----------------------------------------------------------------------------
(* Nothing follows the stop command into the mailbox of an I/O thread.     *)

\* A thread that was told to stop stays told, and is told after the reaper is
\* deleted.
LEMMA ToldKept ==
    ASSUME TypeOK, AtHome, Staged, Next, NEW t \in IoThreads, Told(t)
    PROVE  Told(t)'
<1>. USE ThreadIds DEF loopVars, boxVars, appVars
<1>1. /\ at \in Workers /\ t \in Nat /\ t # Reaper /\ t <= NumThreads + 1 /\ NumThreads \in Nat
      /\ \A u \in Workers : u \in Nat
  BY ThreadsAssumption DEF TypeOK
<1>2. CASE UNCHANGED <<apc, at>>
  BY <1>2 DEF Told
<1>3. CASE StartThread \/ CreateLinkFails \/ OpenAllLink \/ Terminate
  BY <1>3 DEF StartThread, CreateLinkFails, OpenAllLink, Terminate, Told, Deleting
<1>4. CASE Join \/ WaitForMutex
  BY <1>4 DEF Join, WaitForMutex, Told, Deleting
<1>5. CASE CloseBox
  <2>1. apc = "close" /\ at # Reaper
    BY <1>1, <1>5 DEF CloseBox, Told
  <2>2. apc' = "gone" \/ (apc' = "join" /\ at' = at + 1 /\ at # NumThreads + 1)
    BY <1>5, <2>1 DEF CloseBox
  <2>3. at # NumThreads + 1 => at + 1 # Reaper
    BY <1>1, NextThread
  <2>. QED
    BY <2>2, <2>3 DEF Told, Deleting
<1>6. CASE StopIo
  <2>1. apc = "stopIo" /\ t < at
    BY <1>1, <1>6 DEF StopIo, Told, Deleting
  <2>2. (apc' = "join" /\ at' = 2) \/ (apc' = "stopIo" /\ at' = at + 1)
    BY <1>6 DEF StopIo
  <2>3. t < at + 1 /\ 2 # Reaper
    BY <1>1, <2>1, NextThread
  <2>. QED
    BY <2>2, <2>3 DEF Told, Deleting
<1>7. ASSUME NEW s \in Threads, LockAndWrite(s) \/ Unlock(s) \/ Signal(s) PROVE UNCHANGED <<apc, at>>
  BY <1>7 DEF LockAndWrite, Unlock, Signal
<1>8. ASSUME NEW u \in Workers, WakeUp(u) \/ FallAsleep(u) \/ LeaveLoop(u) PROVE UNCHANGED <<apc, at>>
  BY <1>8 DEF WakeUp, FallAsleep, LeaveLoop
<1>9. ASSUME NEW u \in Workers, NEW c, TakeStep(u, c) PROVE UNCHANGED <<apc, at>>
  BY <1>9 DEF TakeStep
<1>10. ASSUME NEW h \in Sessions, Leaves(h) PROVE UNCHANGED <<apc, at>>
  BY <1>10 DEF Leaves, Receives
<1>11. ASSUME NEW h \in Sessions, NEW u \in IoThreads, Plugs(h, u) \/ FindsNoSocket(u, h) \/ ReportsOf(u, h)
       PROVE  UNCHANGED <<apc, at>>
  BY <1>11 DEF Plugs, FindsNoSocket, ReportsOf, Receives
<1>. QED
  BY <1>2, <1>3, <1>4, <1>5, <1>6, <1>7, <1>8, <1>9, <1>10, <1>11, Steps, Takes, CommandIds

LEMMA ToldLast ==
    ASSUME TypeOK, Staged, ReaperSends, NEW t \in IoThreads, Told(t)
    PROVE  Gone(Reaper) /\ loop[Reaper] = "exited" /\ sending[Reaper] = Idle
<1>1. at \in Workers /\ \A u \in Workers : u # Reaper => Reaper < u
  BY ThreadIds DEF TypeOK, Reaper
<1>2. Gone(Reaper)
  BY <1>1, ThreadIds DEF Told, Gone
<1>. QED
  BY <1>2, ThreadIds DEF Staged, ReaperSends

LEMMA StopIsLastKept ==
    ASSUME TypeOK, AtHome, Staged, AppSends, ReaperSends, IoSends, StopIsLast, Next
    PROVE  StopIsLast'
<1>. USE ThreadIds, CommandIds DEF loopVars, boxVars
<1>1. ASSUME NEW t \in IoThreads,
             OnTheWay(t, Stop)' \/ stopping'[t] => OnTheWay(t, Stop) \/ stopping[t] \/ Told(t)',
             Queued(t, Stop)' \/ stopping'[t] => ~Posting(App, t)',
             loop'[t] = "exited" => stopping'[t],
             stopping'[t] /\ loop'[t] # "draining" => queue'[t] = <<>>
      PROVE  /\ OnTheWay(t, Stop)' \/ stopping'[t] => Told(t)'
             /\ Queued(t, Stop)' \/ stopping'[t] => ~Posting(App, t)'
             /\ loop'[t] = "exited" => stopping'[t]
             /\ stopping'[t] /\ loop'[t] # "draining" => queue'[t] = <<>>
  BY <1>1, ToldKept DEF StopIsLast
<1>2. ASSUME \A t \in IoThreads :
                 /\ OnTheWay(t, Stop)' \/ stopping'[t] => OnTheWay(t, Stop) \/ stopping[t] \/ Told(t)'
                 /\ Queued(t, Stop)' \/ stopping'[t] => ~Posting(App, t)'
                 /\ loop'[t] = "exited" => stopping'[t]
                 /\ stopping'[t] /\ loop'[t] # "draining" => queue'[t] = <<>>
      PROVE  StopIsLast'
  BY <1>1, <1>2 DEF StopIsLast
<1>3. \A t \in IoThreads :
          /\ OnTheWay(t, Stop) \/ stopping[t] => Told(t)
          /\ Queued(t, Stop) \/ stopping[t] => ~Posting(App, t)
          /\ loop[t] = "exited" => stopping[t]
          /\ stopping[t] /\ loop[t] # "draining" => queue[t] = <<>>
  BY DEF StopIsLast
\* A thread takes a command while its loop is draining.
<1>4. ASSUME NEW u \in Workers, NEW c \in Commands, Receives(u, c)
      PROVE  \A t \in IoThreads : loop[t] # "draining" => queue'[t] = queue[t]
  BY <1>4, ReceiveDoes
<1>5. ASSUME NEW s \in Workers, NEW u \in Workers, NEW c \in Commands, PostStep(s, u, c), c # Stop
      PROVE  StopIsLast'
  <2>1. UNCHANGED <<loop, stopping>>
    BY <1>5 DEF PostStep
  <2>2. \A t \in IoThreads :
            /\ OnTheWay(t, Stop)' => OnTheWay(t, Stop)
            /\ Queued(t, Stop)' => Queued(t, Stop)
            /\ Posting(App, t)' <=> Posting(App, t)
    BY <1>5, PostStepWay
  <2>3. \A t \in IoThreads : loop[t] # "draining" => queue'[t] = queue[t]
    BY <1>4, <1>5 DEF PostStep
  <2>. QED
    BY <1>2, <1>3, <2>1, <2>2, <2>3
<1>6. ASSUME NEW u \in Workers, NEW c \in Commands, TakeStep(u, c), UNCHANGED stopping
      PROVE  StopIsLast'
  <2>1. loop' = loop
    BY <1>6 DEF TakeStep
  <2>2. \A t \in IoThreads :
            /\ OnTheWay(t, Stop)' => OnTheWay(t, Stop)
            /\ Queued(t, Stop)' => Queued(t, Stop)
            /\ Posting(App, t)' <=> Posting(App, t)
    BY <1>6, TakeStepWay
  <2>3. \A t \in IoThreads : loop[t] # "draining" => queue'[t] = queue[t]
    BY <1>4, <1>6 DEF TakeStep
  <2>. QED
    BY <1>2, <1>3, <1>6, <2>1, <2>2, <2>3
<1>7. ASSUME NEW u \in Workers, ProcessStop(u) PROVE StopIsLast'
  <2>1. TakeStep(u, Stop) /\ loop[u] = "draining" /\ loop' = loop
    BY <1>7, Takes, ReceiveDoes DEF TakeStep
  <2>2. /\ Queued(u, Stop)
        /\ \A t \in IoThreads :
            /\ OnTheWay(t, Stop)' => OnTheWay(t, Stop)
            /\ Queued(t, Stop)' => Queued(t, Stop)
            /\ Posting(App, t)' <=> Posting(App, t)
    BY <2>1, TakeStepWay
  <2>3. \A t \in IoThreads : loop[t] # "draining" => queue'[t] = queue[t]
    BY <1>4, <2>1 DEF TakeStep
  <2>4. stopping'[u] = TRUE /\ \A t \in Workers : t # u => stopping'[t] = stopping[t]
    BY <1>7 DEF ProcessStop, TypeOK
  <2>. QED
    BY <1>2, <1>3, <2>1, <2>2, <2>3, <2>4 DEF OnTheWay
<1>8. ASSUME NEW s \in Threads, LockAndWrite(s) PROVE StopIsLast'
  <2>1. PICK u \in Workers, c \in Commands : u = sending[s].to /\ c = sending[s].cmd
    BY <1>8, WriteDoes
  <2>2. /\ Posting(s, u) /\ sending[s] # Idle
        /\ \A t \in Workers : t # u => queue'[t] = queue[t]
    BY <1>8, <2>1, WriteDoes
  <2>3. /\ \A t \in IoThreads :
            /\ Queued(t, Stop)' <=> Queued(t, Stop) \/ (t = u /\ Stop = c)
            /\ OnTheWay(t, Stop)' <=> OnTheWay(t, Stop)
            /\ Posting(App, t)' <=> Posting(App, t) /\ App # s
    BY <1>8, <2>1, WriteWay
  <2>4. UNCHANGED <<loop, stopping>>
    BY <1>8 DEF LockAndWrite
  \* Only the application is still sending to a thread that was told to stop.
  <2>5. u \in IoThreads /\ (stopping[u] \/ Stop = c) => s = App
    <3>1. s \in IoThreads => u = Reaper
      BY <2>1, <2>2 DEF IoSends
    <3>2. u \in IoThreads /\ (stopping[u] \/ Stop = c) => Told(u)
      BY <1>3, <2>1, <2>2 DEF OnTheWay
    <3>3. u \in IoThreads /\ (stopping[u] \/ Stop = c) => s # Reaper
      BY <2>2, <3>2, ToldLast
    <3>. QED
      BY <3>1, <3>3
  <2>6. \A t \in IoThreads : stopping[t] => queue'[t] = queue[t]
    BY <1>3, <2>2, <2>5
  <2>7. \A t \in IoThreads : Queued(t, Stop)' \/ stopping[t] => ~Posting(App, t)'
    BY <1>3, <2>3, <2>5
  <2>. QED
    BY <1>2, <1>3, <2>3, <2>4, <2>6, <2>7
<1>9. ASSUME NEW s \in Threads, Unlock(s) \/ Signal(s) PROVE StopIsLast'
  <2>1. \A t \in IoThreads :
            /\ Queued(t, Stop)' <=> Queued(t, Stop)
            /\ OnTheWay(t, Stop)' <=> OnTheWay(t, Stop)
            /\ Posting(App, t)' <=> Posting(App, t)
    BY <1>9, AfterWriteWay
  <2>2. UNCHANGED <<loop, stopping, queue>>
    BY <1>9 DEF Unlock, Signal
  <2>. QED
    BY <1>2, <1>3, <2>1, <2>2
<1>10. CASE OpenAllLink \/ Terminate
  <2>1. \E c \in Commands : PostStep(App, Reaper, c)
    BY <1>10, Posts
  <2>2. \A t \in IoThreads :
            /\ OnTheWay(t, Stop)' => OnTheWay(t, Stop)
            /\ Queued(t, Stop)' => Queued(t, Stop)
            /\ Posting(App, t)' <=> Posting(App, t)
    BY <2>1, PostStepWay
  <2>3. UNCHANGED <<loop, stopping, queue>>
    BY <1>10 DEF OpenAllLink, Terminate
  <2>. QED
    BY <1>2, <1>3, <2>2, <2>3
<1>11. CASE StopIo
  <2>1. PostStep(App, at, Stop) /\ at \in IoThreads
    BY <1>11, Posts DEF StopIo, Staged, TypeOK
  <2>2. \A t \in IoThreads :
            /\ OnTheWay(t, Stop)' => OnTheWay(t, Stop) \/ t = at
            /\ Queued(t, Stop)' => Queued(t, Stop)
            /\ Posting(App, t)' <=> Posting(App, t) \/ t = at
    BY <2>1, PostStepWay
  <2>3. UNCHANGED <<loop, stopping, queue>>
    BY <1>11 DEF StopIo
  <2>4. ~Told(at)
    BY <1>11, <2>1 DEF StopIo, Told, Deleting, IoThreads
  <2>5. \A t \in IoThreads : t = at => Told(t)'
    <3>1. CASE at = NumThreads + 1
      BY <1>11, <3>1, NextThread DEF StopIo, Told, Deleting
    <3>2. CASE at # NumThreads + 1
      <4>1. apc' = "stopIo" /\ at' = at + 1 /\ at < at + 1
        BY <1>11, <2>1, <3>2 DEF StopIo
      <4>. QED
        BY <4>1 DEF Told
    <3>. QED
      BY <3>1, <3>2
  <2>6. ~Queued(at, Stop) /\ ~stopping[at]
    BY <1>3, <2>1, <2>4 DEF OnTheWay
  <2>. QED
    BY <1>2, <1>3, <2>1, <2>2, <2>3, <2>5, <2>6
<1>12. CASE QuietStep
  <2>1. /\ UNCHANGED <<queue, stopping>>
        /\ \A t \in IoThreads :
            /\ Queued(t, Stop)' <=> Queued(t, Stop)
            /\ OnTheWay(t, Stop)' <=> OnTheWay(t, Stop)
            /\ Posting(App, t)' <=> Posting(App, t)
    BY <1>12, QuietWay
  <2>2. ASSUME NEW t \in IoThreads
        PROVE  /\ loop'[t] = "exited" => stopping[t]
               /\ stopping[t] /\ loop'[t] # "draining" => queue[t] = <<>>
    <3>1. CASE loop'[t] = loop[t]
      BY <1>3, <3>1
    <3>2. CASE StartThread
      <4>1. Unborn(at) /\ at \in Workers
        BY <3>2 DEF StartThread, Unborn, TypeOK
      <4>2. loop[at] = "unborn" /\ loop'[at] = "polling"
        BY <3>2, <4>1 DEF StartThread, TypeOK, Staged
      <4>3. t # at => loop'[t] = loop[t]
        BY <3>2, <4>1, LoopsStay DEF StartThread
      <4>. QED
        BY <1>3, <4>2, <4>3
    <3>3. ASSUME NEW u \in Workers, WakeUp(u) \/ FallAsleep(u) \/ LeaveLoop(u)
          PROVE  loop'[t] = loop[t] \/ t = u
      BY <3>3, LoopStep, LoopsStay
    <3>4. CASE WakeUp(t) \/ FallAsleep(t) \/ LeaveLoop(t)
      <4>1. CASE WakeUp(t)
        <5>1. loop'[t] = "draining"
          BY <4>1, LoopsStay DEF WakeUp
        <5>. QED
          BY <5>1
      <4>2. CASE FallAsleep(t)
        <5>1. loop'[t] = "polling" /\ queue[t] = <<>>
          BY <4>2, LoopsStay DEF FallAsleep
        <5>. QED
          BY <5>1
      <4>3. CASE LeaveLoop(t)
        <5>1. loop[t] = "polling" /\ stopping[t]
          BY <4>3 DEF LeaveLoop
        <5>. QED
          BY <1>3, <5>1
      <4>. QED
        BY <3>4, <4>1, <4>2, <4>3
    <3>. QED
      BY <1>12, <3>1, <3>2, <3>3, <3>4 DEF QuietStep, CreateLinkFails, Join, WaitForMutex, CloseBox
  <2>. QED
    BY <1>2, <1>3, <2>1, <2>2
<1>13. ASSUME NEW h \in Sessions, Leaves(h) PROVE StopIsLast'
  BY <1>5, <1>13, Posts DEF Leaves
<1>14. ASSUME NEW h \in Sessions, NEW t \in IoThreads, Plugs(h, t) \/ FindsNoSocket(t, h) \/ ReportsOf(t, h)
       PROVE  StopIsLast'
  BY <1>5, <1>14, Posts
<1>15. ReaperPlug => StopIsLast'
  BY <1>6, Takes DEF ReaperPlug
<1>16. ASSUME NEW h \in Sessions, TimesOut(h) PROVE StopIsLast'
  <2>1. TakeStep(Reaper, Cmd("timeOut", h)) /\ UNCHANGED stopping
    BY <1>16, Takes DEF TimesOut
  <2>. QED
    BY <1>6, <2>1
<1>17. ASSUME NEW h \in Sessions, NEW t \in IoThreads, Runs(t, h) \/ Terms(t, h) PROVE StopIsLast'
  <2>1. UNCHANGED stopping /\ \E c \in Commands : TakeStep(t, c)
    BY <1>17, Takes DEF Runs, Terms
  <2>. QED
    BY <1>6, <2>1
<1>. QED
  BY <1>7, <1>8, <1>9, <1>10, <1>11, <1>12, <1>13, <1>14, <1>15, <1>16, <1>17, Steps DEF QuietStep

-----------------------------------------------------------------------------
(* A session that has left is deleted or on its way to be.                 *)

LEMMA LeavingKept == ASSUME TypeOK, AtHome, Leaving, Next PROVE Leaving'
<1>. USE ThreadIds, CommandIds DEF loopVars, boxVars, sessVars
<1>1. ASSUME \A h \in Sessions : sess'[h] = "leaving" => sess[h] = "leaving",
             \A h \in Sessions : sess'[h] = "leaving" /\ OnTheWay(Reaper, Cmd("leave", h)) =>
                 \/ OnTheWay(Reaper, Cmd("leave", h))'
                 \/ \E t \in IoThreads : OnTheWay(t, Cmd("term", h))',
             \A h \in Sessions, t \in IoThreads : sess'[h] = "leaving" /\ OnTheWay(t, Cmd("term", h)) =>
                 OnTheWay(t, Cmd("term", h))'
      PROVE  Leaving'
  BY <1>1 DEF Leaving
<1>2. ASSUME \A h \in Sessions : sess'[h] = "leaving" => sess[h] = "leaving",
             \A u \in Workers, d \in Commands : OnTheWay(u, d) => OnTheWay(u, d)'
      PROVE  Leaving'
  <2>1. \A h \in Sessions : OnTheWay(Reaper, Cmd("leave", h)) => OnTheWay(Reaper, Cmd("leave", h))'
    BY <1>2
  <2>2. \A h \in Sessions, t \in IoThreads : OnTheWay(t, Cmd("term", h)) => OnTheWay(t, Cmd("term", h))'
    BY <1>2
  <2>. QED
    BY <1>1, <1>2, <2>1, <2>2
<1>3. ASSUME NEW s \in Threads, NEW u \in Workers, NEW c \in Commands, PostStep(s, u, c), queue' = queue,
             \A h \in Sessions : sess'[h] = "leaving" => sess[h] = "leaving"
      PROVE  Leaving'
  <2>1. \A t \in Workers, d \in Commands : Queued(t, d) => Queued(t, d)'
    BY <1>3 DEF Queued
  <2>2. \A t \in Workers, d \in Commands : OnTheWay(t, d) => OnTheWay(t, d)'
    BY <1>3, <2>1, PostStepWay
  <2>. QED
    BY <1>2, <1>3, <2>2
<1>4. CASE OpenAllLink \/ Terminate \/ StopIo
  <2>1. \E t \in Workers, c \in Commands : PostStep(App, t, c)
    BY <1>4, Posts DEF TypeOK
  <2>2. UNCHANGED <<queue, sess>>
    BY <1>4 DEF OpenAllLink, Terminate, StopIo
  <2>. QED
    BY <1>3, <2>1, <2>2
<1>5. ASSUME NEW h \in Sessions, NEW t \in IoThreads, Plugs(h, t) \/ ReportsOf(t, h) PROVE Leaving'
  <2>1. \E s \in Threads, u \in Workers, c \in Commands : PostStep(s, u, c)
    BY <1>5, Posts
  <2>2. queue' = queue /\ \A g \in Sessions : sess'[g] = "leaving" => sess[g] = "leaving"
    BY <1>5 DEF Plugs, ReportsOf, TypeOK
  <2>. QED
    BY <1>3, <2>1, <2>2
<1>6. ASSUME NEW h \in Sessions, Leaves(h) PROVE Leaving'
  <2>1. PICK t \in IoThreads : t = home[h] /\ PostStep(Reaper, t, Cmd("term", h))
    BY <1>6, Posts DEF Leaves
  <2>2. Receives(Reaper, Cmd("leave", h)) /\ sess' = sess
    BY <1>6 DEF Leaves
  <2>3. \A u \in Workers, d \in Commands : Queued(u, d) /\ ~(u = Reaper /\ d = Cmd("leave", h)) => Queued(u, d)'
    BY <2>2, ReceiveWay
  <2>4. \A u \in Workers, d \in Commands :
            OnTheWay(u, d) /\ ~(u = Reaper /\ d = Cmd("leave", h)) => OnTheWay(u, d)'
    BY <2>1, <2>3, PostStepWay
  <2>5. OnTheWay(t, Cmd("term", h))'
    BY <2>1, PostStepWay
  <2>6. \A g \in Sessions : OnTheWay(Reaper, Cmd("leave", g)) =>
            \/ OnTheWay(Reaper, Cmd("leave", g))'
            \/ \E u \in IoThreads : OnTheWay(u, Cmd("term", g))'
    BY <2>4, <2>5
  <2>7. \A g \in Sessions, u \in IoThreads : OnTheWay(u, Cmd("term", g)) => OnTheWay(u, Cmd("term", g))'
    BY <2>4
  <2>. QED
    BY <1>1, <2>2, <2>6, <2>7
<1>7. ASSUME NEW h \in Sessions, NEW t \in IoThreads, FindsNoSocket(t, h) PROVE Leaving'
  <2>1. PostStep(t, Reaper, Cmd("leave", h))
    BY <1>7, Posts
  <2>2. Receives(t, Cmd("plug", h)) /\ \A g \in Sessions : g # h => sess'[g] = sess[g]
    BY <1>7 DEF FindsNoSocket, TypeOK
  <2>3. \A u \in Workers, d \in Commands : Queued(u, d) /\ ~(u = t /\ d = Cmd("plug", h)) => Queued(u, d)'
    BY <2>2, ReceiveWay
  <2>4. \A u \in Workers, d \in Commands :
            OnTheWay(u, d) /\ ~(u = t /\ d = Cmd("plug", h)) => OnTheWay(u, d)'
    BY <2>1, <2>3, PostStepWay
  <2>5. OnTheWay(Reaper, Cmd("leave", h))'
    BY <2>1, PostStepWay
  <2>6. \A g \in Sessions : OnTheWay(Reaper, Cmd("leave", g)) => OnTheWay(Reaper, Cmd("leave", g))'
    BY <2>4
  <2>7. \A g \in Sessions, u \in IoThreads : OnTheWay(u, Cmd("term", g)) => OnTheWay(u, Cmd("term", g))'
    BY <2>4
  <2>. QED
    BY <2>2, <2>5, <2>6, <2>7 DEF Leaving
<1>8. ASSUME NEW u \in Workers, NEW c \in Commands, TakeStep(u, c),
             \A h \in Sessions : c # Cmd("leave", h),
             \A h \in Sessions : sess'[h] = "leaving" => sess[h] = "leaving" /\ c # Cmd("term", h)
      PROVE  Leaving'
  <2>1. \A t \in Workers, d \in Commands : OnTheWay(t, d) /\ d # c => OnTheWay(t, d)'
    BY <1>8, TakeStepWay
  <2>2. \A h \in Sessions : OnTheWay(Reaper, Cmd("leave", h)) => OnTheWay(Reaper, Cmd("leave", h))'
    BY <1>8, <2>1
  <2>3. \A h \in Sessions, t \in IoThreads : sess'[h] = "leaving" /\ OnTheWay(t, Cmd("term", h)) =>
            OnTheWay(t, Cmd("term", h))'
    BY <1>8, <2>1
  <2>. QED
    BY <1>1, <1>8, <2>2, <2>3
<1>9. ASSUME NEW t \in Workers, ProcessStop(t) PROVE Leaving'
  <2>1. TakeStep(t, Stop) /\ sess' = sess
    BY <1>9, Takes DEF ProcessStop
  <2>. QED
    BY <1>8, <2>1
<1>10. CASE ReaperPlug
  <2>1. TakeStep(Reaper, PlugAll) /\ sess' = sess
    BY <1>10, Takes DEF ReaperPlug
  <2>. QED
    BY <1>8, <2>1
<1>11. ASSUME NEW h \in Sessions, TimesOut(h) PROVE Leaving'
  <2>1. TakeStep(Reaper, Cmd("timeOut", h)) /\ sess' = sess
    BY <1>11, Takes DEF TimesOut
  <2>. QED
    BY <1>8, <2>1
<1>12. ASSUME NEW h \in Sessions, NEW t \in IoThreads, Runs(t, h) PROVE Leaving'
  <2>1. TakeStep(t, Cmd("plug", h))
    BY <1>12, Takes
  <2>2. \A g \in Sessions : sess'[g] = IF g = h THEN "runs" ELSE sess[g]
    BY <1>12 DEF Runs, TypeOK
  <2>3. \A g \in Sessions : sess'[g] = "leaving" => sess[g] = "leaving"
    BY <2>2
  <2>. QED
    BY <1>8, <2>1, <2>3
<1>13. ASSUME NEW h \in Sessions, NEW t \in IoThreads, Terms(t, h) PROVE Leaving'
  <2>1. TakeStep(t, Cmd("term", h))
    BY <1>13, Takes
  <2>2. \A g \in Sessions : sess'[g] = "leaving" => sess[g] = "leaving" /\ g # h
    BY <1>13 DEF Terms, TypeOK
  <2>. QED
    BY <1>8, <2>1, <2>2
<1>14. ASSUME NEW s \in Threads, LockAndWrite(s) PROVE Leaving'
  BY <1>2, <1>14, WriteWay DEF LockAndWrite
<1>15. ASSUME NEW s \in Threads, Unlock(s) \/ Signal(s) PROVE Leaving'
  BY <1>2, <1>15, AfterWriteWay DEF Unlock, Signal
<1>16. CASE QuietStep
  BY <1>2, <1>16, QuietWay
<1>. QED
  BY <1>4, <1>5, <1>6, <1>7, <1>9, <1>10, <1>11, <1>12, <1>13, <1>14, <1>15, <1>16, Steps DEF QuietStep

-----------------------------------------------------------------------------
(* Only a session's late report finds something deleted.                   *)

\* What an I/O thread sends to is the reaper's mailbox, which is open or closed.
LEMMA ReaperWasThere ==
    ASSUME TypeOK, Staged, NEW t \in IoThreads, loop[t] \in {"polling", "draining"}
    PROVE  box[Reaper] \in {"open", "closed"}
BY Standing, ThreadIds DEF TypeOK

LEMMA LateKept ==
    ASSUME TypeOK, AtHome, Staged, AppSends, ReaperSends, IoSends, MutexHeld, Next, AppSends'
    PROVE  OnlySessionsReportLate'
<1>. USE ThreadIds, CommandIds DEF loopVars, boxVars, sessVars, appVars
<1>1. CASE fault' = Nobody
  BY <1>1 DEF OnlySessionsReportLate
<1>2. fault = Nobody
  BY DEF Next
<1>3. ASSUME NEW s \in Threads, NEW t \in Workers, NEW c \in Commands, PostStep(s, t, c), box[t] = "open"
      PROVE  fault' = Nobody
  BY <1>2, <1>3, PostDoes DEF PostStep
<1>4. CASE OpenAllLink \/ Terminate \/ StopIo
  <2>1. PICK t \in Workers, c \in Commands : PostStep(App, t, c)
    BY <1>4, Posts DEF TypeOK
  <2>2. sending'[App].pc = "lock" /\ sending'[App].to = t /\ box' = box
    BY <2>1, PostStepWay DEF PostStep
  <2>3. sending'[App] # Idle
    BY <2>2 DEF Idle
  <2>4. box[t] = "open"
    BY <2>2, <2>3 DEF AppSends
  <2>. QED
    BY <1>1, <1>3, <2>1, <2>4
<1>5. ASSUME NEW h \in Sessions, Leaves(h) PROVE OnlySessionsReportLate'
  <2>1. PICK t \in IoThreads : t = home[h] /\ PostStep(Reaper, t, Cmd("term", h))
    BY <1>5, Posts DEF Leaves
  <2>2. Queued(Reaper, Cmd("leave", h)) /\ loop[Reaper] = "draining"
    BY <1>5, ReceiveDoes DEF Leaves
  <2>3. loop[t] # "unborn"
    BY <2>1, <2>2 DEF AtHome, OnTheWay
  <2>4. box[t] = "open"
    BY <2>2, <2>3, Standing
  <2>. QED
    BY <1>1, <1>3, <2>1, <2>4
<1>6. ASSUME NEW h \in Sessions, NEW t \in IoThreads, Plugs(h, t) PROVE OnlySessionsReportLate'
  <2>1. PostStep(Reaper, t, Cmd("plug", h)) /\ loop[Reaper] = "draining" /\ loop[t] # "unborn"
    BY <1>6, Posts DEF Plugs
  <2>2. box[t] = "open"
    BY <2>1, Standing
  <2>. QED
    BY <1>1, <1>3, <2>1, <2>2
<1>7. ASSUME NEW h \in Sessions, NEW t \in IoThreads, FindsNoSocket(t, h) \/ ReportsOf(t, h)
      PROVE  OnlySessionsReportLate'
  <2>1. PICK c \in Commands : PostStep(t, Reaper, c)
    BY <1>7, Posts
  <2>2. fault' = (IF box[Reaper] = "open" THEN fault ELSE t) /\ box' = box
    BY <2>1, PostDoes DEF PostStep
  <2>3. loop[t] \in {"polling", "draining"} /\ home' = home
    BY <1>7 DEF FindsNoSocket, ReportsOf, Receives
  <2>4. home[h] = t /\ sess'[h] \in {"runs", "leaving"}
    <3>1. CASE FindsNoSocket(t, h)
      <4>1. Queued(t, Cmd("plug", h)) /\ sess'[h] = "leaving"
        BY <3>1, ReceiveDoes DEF FindsNoSocket, TypeOK
      <4>. QED
        BY <4>1 DEF AtHome, OnTheWay
    <3>2. CASE ReportsOf(t, h)
      BY <3>2 DEF ReportsOf
    <3>. QED
      BY <1>7, <3>1, <3>2
  <2>5. box[Reaper] \in {"open", "closed"}
    BY <2>3, ReaperWasThere
  <2>. QED
    BY <1>2, <2>2, <2>3, <2>4, <2>5 DEF OnlySessionsReportLate
<1>8. ASSUME NEW s \in Threads, LockAndWrite(s) \/ Unlock(s) \/ Signal(s)
      PROVE  OnlySessionsReportLate'
  <2>1. PICK t \in Workers : t = sending[s].to
    BY <1>8, StillSends, SendingIs
  <2>2. /\ fault' = (IF box[t] = "open" THEN fault ELSE s) /\ UNCHANGED <<box, home, sess>>
        /\ sending[s] # Idle
    BY <1>8, <2>1, StillSends DEF LockAndWrite, Unlock, Signal, Touch
  <2>3. CASE s = App
    BY <1>1, <1>2, <2>1, <2>2, <2>3 DEF AppSends
  <2>4. CASE s = Reaper
    <3>1. loop[Reaper] = "draining" /\ loop[t] # "unborn"
      BY <2>1, <2>2, <2>4 DEF ReaperSends
    <3>2. box[t] = "open"
      BY <3>1, Standing
    <3>. QED
      BY <1>1, <1>2, <2>2, <3>2
  <2>5. CASE s \in IoThreads
    <3>1. /\ loop[s] \in {"polling", "draining"} /\ t = Reaper
          /\ \E h \in Sessions : home[h] = s /\ sess[h] \in {"runs", "leaving"}
      BY <2>1, <2>2, <2>5 DEF IoSends
    <3>2. box[Reaper] \in {"open", "closed"}
      BY <2>5, <3>1, ReaperWasThere
    <3>. QED
      BY <1>2, <2>2, <2>5, <3>1, <3>2 DEF OnlySessionsReportLate
  <2>. QED
    BY <2>3, <2>4, <2>5
<1>9. CASE CloseBox
  <2>1. /\ fault' = holder[at] /\ at \in Workers /\ UNCHANGED <<home, sess>> /\ box'[at] = "closed"
        /\ apc = "close" /\ sending[App] = Idle /\ loop[at] = "exited"
    BY <1>9 DEF CloseBox, AppSends, Staged, TypeOK
  <2>. SUFFICES ASSUME holder[at] # Nobody PROVE OnlySessionsReportLate'
    BY <1>1, <2>1
  <2>2. PICK s \in Threads : s = holder[at] /\ sending[s].pc = "unlock" /\ sending[s].to = at
    <3>1. holder[at] \in Threads
      BY <2>1 DEF TypeOK
    <3>. QED
      BY <2>1, <3>1 DEF MutexHeld
  <2>3. sending[s] # Idle /\ s # App
    BY <2>1, <2>2 DEF Idle
  <2>4. s # Reaper
    <3>. SUFFICES ASSUME s = Reaper PROVE FALSE
      OBVIOUS
    <3>1. at \in IoThreads /\ loop[Reaper] = "draining"
      BY <2>2, <2>3 DEF ReaperSends
    <3>2. Gone(Reaper)
      BY <2>1, <3>1 DEF Gone, Deleting, Reaper, IoThreads
    <3>. QED
      BY <3>1, <3>2 DEF Staged
  <2>5. s \in IoThreads
    BY <2>3, <2>4
  <2>6. at = Reaper /\ \E h \in Sessions : home[h] = s /\ sess[h] \in {"runs", "leaving"}
    BY <2>2, <2>3, <2>5 DEF IoSends
  <2>. QED
    BY <2>1, <2>2, <2>5, <2>6 DEF OnlySessionsReportLate
<1>10. ASSUME NEW t \in Workers, NEW c, TakeStep(t, c) PROVE OnlySessionsReportLate'
  BY <1>1, <1>2, <1>10 DEF TakeStep
<1>11. CASE StartThread \/ CreateLinkFails \/ Join \/ WaitForMutex
  BY <1>1, <1>2, <1>11 DEF StartThread, CreateLinkFails, Join, WaitForMutex
<1>12. ASSUME NEW t \in Workers, WakeUp(t) \/ FallAsleep(t) \/ LeaveLoop(t) PROVE OnlySessionsReportLate'
  BY <1>1, <1>2, <1>12 DEF WakeUp, FallAsleep, LeaveLoop
<1>. QED
  BY <1>4, <1>5, <1>6, <1>7, <1>8, <1>9, <1>10, <1>11, <1>12, Steps, Takes

-----------------------------------------------------------------------------
(* The theorems.                                                           *)

LEMMA InitInductive == Init => Inductive
<1>. SUFFICES ASSUME Init PROVE Inductive
  OBVIOUS
<1>. USE ThreadIds
<1>1. TypeOK
  BY BoundAssumption DEF Init, TypeOK, Sendings, Idle
<1>2. \A t \in Workers : Unborn(t) /\ ~Gone(t) /\ ~Told(t)
  BY DEF Init, Unborn, Gone, Told, Deleting, Reaper
<1>3. Staged
  BY <1>2 DEF Init, Staged
<1>4. \A s \in Threads : sending[s] = Idle /\ sending[s].pc = "idle"
  BY DEF Init, Idle
<1>5. \A t \in Workers : \A c : ~Queued(t, c) /\ ~OnTheWay(t, c)
  BY <1>4 DEF Init, Queued, OnTheWay, Posting
<1>6. AppSends /\ ReaperSends /\ IoSends /\ MutexHeld
  BY <1>4 DEF Init, AppSends, ReaperSends, IoSends, MutexHeld
<1>7. PluggedOnce
  BY <1>4, <1>5 DEF Init, PluggedOnce, Fresh, Posting
<1>8. AtHome /\ Leaving
  BY <1>5 DEF Init, AtHome, Leaving
<1>9. StopIsLast
  BY <1>5 DEF Init, StopIsLast
<1>10. OnlySessionsReportLate
  BY DEF Init, OnlySessionsReportLate
<1>. QED
  BY <1>1, <1>3, <1>6, <1>7, <1>8, <1>9, <1>10 DEF Inductive

LEMMA NextInductive == Inductive /\ [Next]_vars => Inductive'
<1>. SUFFICES ASSUME Inductive, [Next]_vars PROVE Inductive'
  OBVIOUS
<1>1. CASE Next
  BY <1>1, TypesKept, StagedKept, AppSendsKept, ReaperSendsKept, IoSendsKept, MutexKept, PluggedOnceKept,
     AtHomeKept, StopIsLastKept, LeavingKept, LateKept DEF Inductive
<1>2. CASE UNCHANGED vars
  <2>. USE <1>2 DEF vars, appVars, boxVars, loopVars, sessVars
  <2>1. TypeOK' /\ Staged'
    BY DEF Inductive, TypeOK, Staged, Unborn, Gone
  <2>2. AppSends' /\ ReaperSends' /\ IoSends' /\ MutexHeld'
    BY DEF Inductive, AppSends, ReaperSends, IoSends, MutexHeld
  <2>3. /\ \A u \in Workers, d \in Commands :
            (Queued(u, d)' <=> Queued(u, d)) /\ (OnTheWay(u, d)' <=> OnTheWay(u, d))
        /\ \A r \in Threads, u \in Workers : Posting(r, u)' <=> Posting(r, u)
        /\ \A u \in Workers : Told(u)' <=> Told(u)
    BY DEF Queued, OnTheWay, Posting, Told
  <2>4. PluggedOnce'
    BY <2>3, ThreadIds, CommandIds DEF Inductive, PluggedOnce, Fresh
  <2>5. AtHome' /\ Leaving'
    BY <2>3, ThreadIds, CommandIds DEF Inductive, AtHome, Leaving
  <2>6. StopIsLast'
    BY <2>3, ThreadIds, CommandIds DEF Inductive, StopIsLast
  <2>7. OnlySessionsReportLate'
    BY DEF Inductive, OnlySessionsReportLate
  <2>. QED
    BY <2>1, <2>2, <2>4, <2>5, <2>6, <2>7 DEF Inductive
<1>. QED
  BY <1>1, <1>2

\* The order of the start and of the shutdown, who may be sending to whom in
\* it, and which commands can be on their way.
THEOREM InductiveInvariant == Spec => []Inductive
BY InitInductive, NextInductive, PTL DEF Spec

LEMMA QuietWhenClosed == Inductive => IoBoxesQuiet
<1>. SUFFICES ASSUME Inductive, NEW t \in IoThreads, box[t] = "closed", NEW s \in Threads,
                     sending[s] # Idle
              PROVE  sending[s].to # t
  BY DEF IoBoxesQuiet
<1>. USE ThreadIds DEF Inductive
<1>1. Gone(t)
  BY DEF Staged
<1>2. s # Reaper
  BY <1>1, Standing DEF ReaperSends
<1>3. s # App
  <2>1. apc = "gone" \/ (apc \in Deleting /\ t < at)
    BY <1>1 DEF Gone
  <2>2. t < at => at \notin {Reaper, 2}
    BY DEF IoThreads, Reaper, TypeOK
  <2>. QED
    BY <2>1, <2>2 DEF AppSends
<1>. QED
  BY <1>2, <1>3 DEF IoSends

\* No thread uses what the shutdown has deleted, but for an I/O thread whose
\* session reports to the reaper too late; and when the mailbox of an I/O
\* thread is deleted nobody is in its send, nor will be.
THEOREM ShutdownIsSafe == Spec => []ShutdownSafe
<1>1. Inductive => ShutdownSafe
  BY QuietWhenClosed DEF ShutdownSafe
<1>. QED
  BY <1>1, InductiveInvariant, PTL

\* An I/O thread leaves its loop with nothing left in its mailbox, and a
\* session that left is deleted unless the reaper stopped before it heard.
THEOREM CommandsAreDone == Spec => []EveryCommandDone
<1>1. ASSUME Inductive PROVE NothingUnread
  BY <1>1 DEF Inductive, StopIsLast, NothingUnread
<1>2. ASSUME Inductive PROVE LeaversDeleted
  <2>. USE <1>2, ThreadIds, CommandIds DEF Inductive
  <2>. SUFFICES ASSUME apc = "gone", NEW h \in Sessions, sess[h] = "leaving"
                PROVE  Queued(Reaper, Cmd("leave", h))
    BY DEF LeaversDeleted, Queued
  <2>1. \A t \in Workers : loop[t] = "exited"
    BY DEF Staged, Gone
  <2>2. \A s \in Threads : sending[s] = Idle
    BY <2>1 DEF AppSends, ReaperSends, IoSends
  <2>3. \A s \in Threads, t \in Workers : ~Posting(s, t)
    BY <2>2 DEF Posting, Idle
  <2>4. \A t \in IoThreads : queue[t] = <<>>
    BY <1>1, <2>1 DEF NothingUnread
  <2>5. \A t \in IoThreads : ~OnTheWay(t, Cmd("term", h))
    BY <2>3, <2>4 DEF OnTheWay, Queued
  <2>. QED
    BY <2>3, <2>5 DEF Leaving, OnTheWay
<1>. QED
  BY <1>1, <1>2, InductiveInvariant, PTL DEF EveryCommandDone

=============================================================================

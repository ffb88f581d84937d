------------------------------ MODULE Mailbox ------------------------------
(***************************************************************************)
(* mailbox_t: the command queue every thread of the scanner owns.  It is a *)
(* lock-free pipe (ypipe_t) with one writer at a time, kept so by a mutex, *)
(* and one reader; when the reader finds the pipe empty it leaves NULL in  *)
(* the shared pointer c and goes to sleep on a socket pair (signaler_t);   *)
(* the writer whose flush meets that NULL owes the reader one byte, which  *)
(* it sends only AFTER it has given the mutex back.                        *)
(*                                                                         *)
(* A pointer into the queue is the number of elements pushed before it.    *)
(* The cells are kept whole in log, so that log[p + 1] is the command at   *)
(* position p; the chunks they live in are yqueue_t's business.  The steps *)
(* are the accesses to shared memory (c, the mutex, the socket); what a    *)
(* thread does between two of them it does on data of its own.             *)
(***************************************************************************)
EXTENDS Integers, Sequences

CONSTANTS
    Senders,        \* the threads that call mailbox_t::send
    MaxSends,       \* bound: commands one sender sends
    SocketCapacity  \* bytes the socket pair of the signaler can hold

ASSUME MaxSendsAssumption == MaxSends \in Nat
ASSUME CapacityAssumption == SocketCapacity \in Nat /\ SocketCapacity >= 2

VARIABLES
    log,      \* every command written to the queue, in order
    front,    \* &queue.front (): commands popped so far
    r,        \* first position the reader has not prefetched
    w,        \* first un-flushed position
    f,        \* position up to which the next flush publishes
    c,        \* the shared pointer: w, or Null when the reader sleeps
    owner,    \* mailbox_t::sync: the set of its holders, empty or one thread
    spc,      \* where each sender is inside mailbox_t::send
    sends,    \* commands each sender has written
    bytes,    \* bytes in the signaler's socket pair
    active,   \* mailbox_t::active
    rpc,      \* where the reader is inside mailbox_t::recv
    rcvd,     \* the commands recv returned, in order
    aborted   \* an assertion of the code has failed: the process is gone

pipeVars == <<log, front, r, w, f, c>>
senderVars == <<owner, spc, sends>>
readerVars == <<active, rpc, rcvd>>
vars == <<pipeVars, senderVars, readerVars, bytes, aborted>>

Null == -1

SenderPcs == {"idle", "flush", "set", "unlock", "unlockAsleep", "signal"}
ReaderPcs == {"poll", "recv", "drain", "read"}
InSend == {"flush", "set", "unlock", "unlockAsleep"}

Commands == Senders \X (1 .. MaxSends)

-----------------------------------------------------------------------------
(* The constructors: ypipe_t leaves every pointer at the terminator, and   *)
(* mailbox_t reads once, which puts Null into c.                           *)

Init ==
    /\ log = <<>>
    /\ front = 0 /\ r = 0 /\ w = 0 /\ f = 0
    /\ c = Null
    /\ owner = {}
    /\ spc = [s \in Senders |-> "idle"]
    /\ sends = [s \in Senders |-> 0]
    /\ bytes = 0
    /\ active = FALSE
    /\ rpc = "poll"
    /\ rcvd = <<>>
    /\ aborted = FALSE

-----------------------------------------------------------------------------
(* Faults: mistakes one could make in the definition each is named after.  *)
(* No specification uses them; a property that cannot tell them from the   *)
(* code would say nothing about it.                                        *)

\* The counter is stamped before it is incremented.
LockAndWriteStale(s) ==
    /\ spc[s] = "idle" /\ sends[s] < MaxSends /\ owner = {}
    /\ owner' = {s}
    /\ sends' = [sends EXCEPT ![s] = @ + 1]
    /\ log' = Append(log, <<s, sends[s]>>)
    /\ f' = Len(log) + 1
    /\ spc' = [spc EXCEPT ![s] = "flush"]
    /\ UNCHANGED <<front, r, w, c, bytes, readerVars, aborted>>

\* send writes without taking the mutex.
LockAndWriteUnlocked(s) ==
    /\ spc[s] = "idle" /\ sends[s] < MaxSends
    /\ owner' = owner \cup {s}
    /\ sends' = [sends EXCEPT ![s] = @ + 1]
    /\ log' = Append(log, <<s, sends[s] + 1>>)
    /\ f' = Len(log) + 1
    /\ spc' = [spc EXCEPT ![s] = "flush"]
    /\ UNCHANGED <<front, r, w, c, bytes, readerVars, aborted>>

\* flush returns true although it found the reader asleep.
FlushSetSilent(s) ==
    /\ spc[s] = "set"
    /\ c' = f /\ w' = f
    /\ spc' = [spc EXCEPT ![s] = "unlock"]
    /\ UNCHANGED <<log, front, r, f, owner, sends, bytes, readerVars, aborted>>

\* send signals whatever flush returned.
UnlockAlwaysSignals(s) ==
    /\ spc[s] \in {"unlock", "unlockAsleep"}
    /\ owner' = {}
    /\ spc' = [spc EXCEPT ![s] = "signal"]
    /\ UNCHANGED <<pipeVars, sends, bytes, readerVars, aborted>>

\* recv becomes passive without taking its byte back.
RecvSignalLeft ==
    /\ rpc = "drain" /\ rpc' = "recv"
    /\ UNCHANGED <<bytes, aborted, pipeVars, senderVars, active, rcvd>>

-----------------------------------------------------------------------------
(* mailbox_t::send                                                         *)

\* sync.lock () and ypipe_t::write: the cell, the new terminator and f are
\* the writer's alone until the flush.
LockAndWrite(s) ==
    /\ spc[s] = "idle"
    /\ sends[s] < MaxSends
    /\ owner = {}
    /\ owner' = {s}
    /\ sends' = [sends EXCEPT ![s] = @ + 1]
    /\ log' = Append(log, <<s, sends[s] + 1>>)
    /\ f' = Len(log) + 1
    /\ spc' = [spc EXCEPT ![s] = "flush"]
    /\ UNCHANGED <<front, r, w, c, bytes, readerVars, aborted>>

\* ypipe_t::flush, c.cas (w, f): publishes f unless c is Null.
FlushCas(s) ==
    /\ spc[s] = "flush"
    /\ IF c = w
       THEN c' = f /\ w' = f /\ spc' = [spc EXCEPT ![s] = "unlock"]
       ELSE spc' = [spc EXCEPT ![s] = "set"] /\ UNCHANGED <<c, w>>
    /\ UNCHANGED <<log, front, r, f, owner, sends, bytes, readerVars, aborted>>

\* The reader sleeps: c.set (f), and flush returns false.
FlushSet(s) ==
    /\ spc[s] = "set"
    /\ c' = f
    /\ w' = f
    /\ spc' = [spc EXCEPT ![s] = "unlockAsleep"]
    /\ UNCHANGED <<log, front, r, f, owner, sends, bytes, readerVars, aborted>>

Unlock(s) ==
    /\ spc[s] \in {"unlock", "unlockAsleep"}
    /\ owner' = {}
    /\ spc' = [spc EXCEPT ![s] = IF @ = "unlock" THEN "idle" ELSE "signal"]
    /\ UNCHANGED <<pipeVars, sends, bytes, readerVars, aborted>>

\* signaler_t::send, outside the mutex; it asserts that the byte was taken.
Signal(s) ==
    /\ spc[s] = "signal"
    /\ IF bytes < SocketCapacity
       THEN bytes' = bytes + 1 /\ UNCHANGED aborted
       ELSE aborted' = TRUE /\ UNCHANGED bytes
    /\ spc' = [spc EXCEPT ![s] = "idle"]
    /\ UNCHANGED <<pipeVars, owner, sends, readerVars>>

-----------------------------------------------------------------------------
(* mailbox_t::recv, called again and again by the reader's in_event until  *)
(* it returns -1; in_event itself runs when the socket is readable.        *)

Prefetched == r # front /\ r # Null

\* ypipe_t::check_read: the cas with front leaves Null in an empty pipe.
CheckRead ==
    IF Prefetched
    THEN UNCHANGED <<r, c>>
    ELSE r' = c /\ c' = IF c = front THEN Null ELSE c

HasItem == Prefetched \/ c \notin {front, Null}

\* Fault: read pops everything prefetched, not only the cell it copied.
ReadItemPopsAll ==
    /\ HasItem
    /\ CheckRead
    /\ rcvd' = Append(rcvd, log[front + 1])
    /\ front' = IF Prefetched THEN r ELSE c

\* ypipe_t::read with an item: prefetch, copy the front cell, pop it.
ReadItem ==
    /\ HasItem
    /\ CheckRead
    /\ rcvd' = Append(rcvd, log[front + 1])
    /\ front' = front + 1

\* The poller sees the socket readable and calls in_event.
PollIn ==
    /\ rpc = "poll"
    /\ bytes > 0
    /\ rpc' = "recv"
    /\ UNCHANGED <<pipeVars, senderVars, active, rcvd, bytes, aborted>>

\* recv in the active state, and a command is there: return 0, and in_event
\* calls recv again.
RecvActive ==
    /\ rpc = "recv" /\ active
    /\ ReadItem
    /\ UNCHANGED <<log, w, f, senderVars, active, rpc, bytes, aborted>>

\* recv in the active state on an empty pipe: become passive.
RecvEmpty ==
    /\ rpc = "recv" /\ active
    /\ ~HasItem
    /\ CheckRead
    /\ active' = FALSE
    /\ rpc' = "drain"
    /\ UNCHANGED <<log, front, w, f, senderVars, rcvd, bytes, aborted>>

\* signaler_t::recv takes the byte back; on an empty socket it would assert.
RecvSignal ==
    /\ rpc = "drain"
    /\ rpc' = "recv"
    /\ IF bytes > 0
       THEN bytes' = bytes - 1 /\ UNCHANGED aborted
       ELSE aborted' = TRUE /\ UNCHANGED bytes
    /\ UNCHANGED <<pipeVars, senderVars, active, rcvd>>

\* signaler_t::wait with timeout 0: no byte, recv returns -1 with EAGAIN and
\* in_event returns to the poller; a byte, recv becomes active.
Wait ==
    /\ rpc = "recv" /\ ~active
    /\ active' = (bytes > 0)
    /\ rpc' = IF bytes > 0 THEN "read" ELSE "poll"
    /\ UNCHANGED <<pipeVars, senderVars, rcvd, bytes, aborted>>

\* The read after the wait: net_assert (ok).
RecvWoken ==
    /\ rpc = "read"
    /\ rpc' = "recv"
    /\ IF HasItem
       THEN ReadItem /\ UNCHANGED aborted
       ELSE CheckRead /\ aborted' = TRUE /\ UNCHANGED <<front, rcvd>>
    /\ UNCHANGED <<log, w, f, senderVars, active, bytes>>

-----------------------------------------------------------------------------
SendStep(s) == FlushCas(s) \/ FlushSet(s) \/ Unlock(s) \/ Signal(s)

Recv == PollIn \/ RecvActive \/ RecvEmpty \/ RecvSignal \/ Wait \/ RecvWoken

\* After a failed assertion nothing runs.
Next ==
    /\ ~aborted
    /\ Recv \/ \E s \in Senders : LockAndWrite(s) \/ SendStep(s)

\* A thread inside send finishes it and the reader's thread keeps polling.
\* Nobody is obliged to send: LockAndWrite has no fairness.
Fairness == WF_vars(~aborted /\ Recv)
            /\ \A s \in Senders : WF_vars(~aborted /\ SendStep(s))

Spec == Init /\ [][Next]_vars /\ Fairness

-----------------------------------------------------------------------------
(* Properties                                                              *)

\* s has found the reader asleep and has not sent its byte yet.
Owes(s) == spc[s] \in {"unlockAsleep", "signal"}

TypeOK ==
    /\ log \in Seq(Commands)
    /\ front \in Nat /\ w \in Nat /\ f \in Nat
    /\ r \in Nat \cup {Null} /\ c \in Nat \cup {Null}
    /\ owner \in SUBSET Senders
    /\ spc \in [Senders -> SenderPcs]
    /\ sends \in [Senders -> 0 .. MaxSends]
    /\ bytes \in Nat
    /\ active \in BOOLEAN
    /\ rpc \in ReaderPcs
    /\ rcvd \in Seq(Commands)
    /\ aborted \in BOOLEAN

\* None of the assertions of mailbox_t::recv and of the signaler can fail:
\* a byte is always there when the reader takes it back, a command is always
\* there when a byte wakes the reader, and the socket pair is never full.
NeverAborts == ~aborted

\* No lost wake-up: while a published command is unread, the reader is in
\* the active state, or a byte is in the socket, or a sender that has left
\* the mutex is about to send one.
NoLostWakeup ==
    front < w =>
        \/ active
        \/ bytes > 0
        \/ \E s \in Senders : Owes(s)

\* However many threads send, the signaler never holds more than two bytes
\* (the second one only between the cas that puts the reader to sleep and the
\* signaler.recv that follows it), and two senders never owe a byte at once.
SignalsBounded ==
    /\ bytes <= IF rpc = "drain" THEN 2 ELSE 1
    /\ \A s, t \in Senders : Owes(s) /\ Owes(t) => s = t

\* The commands of a sender arrive once each and in the order it sent them,
\* whatever the interleaving with the other senders: before a command come
\* all the earlier ones of its sender, and no command comes twice.
PerSenderFifo ==
    /\ \A i \in 1 .. Len(rcvd) : \A k \in 1 .. (rcvd[i][2] - 1) :
          \E j \in 1 .. (i - 1) : rcvd[j] = <<rcvd[i][1], k>>
    /\ \A i, j \in 1 .. Len(rcvd) : rcvd[i] = rcvd[j] => i = j

\* The mailbox implements the FIFO channel: a command is posted when the flush
\* publishes it and taken when recv returns it.  With the fairness of Spec it
\* also keeps the channel's promise that every posted command is taken.
Channel == INSTANCE CommandChannel WITH
    posted <- [i \in 1 .. w |-> log[i]],
    taken <- rcvd

ImplementsChannel == Channel!Spec

-----------------------------------------------------------------------------
(* The inductive invariant behind the properties above, part by part.      *)

\* The pointers are in order, and r is never Null; c is w unless it is Null,
\* and it is Null only when everything published has been read.
PointersOrdered ==
    /\ f = Len(log)
    /\ front <= r /\ r <= w /\ w <= f /\ f <= w + 1
    /\ c \in {w, Null}
    /\ c = Null => front = w

\* One thread at a time is between the lock and the unlock, and it is there
\* that a written command is not yet published.
OneWriter ==
    /\ \A s \in Senders : spc[s] \in InSend <=> s \in owner
    /\ \A s, t \in owner : s = t
    /\ \A s \in Senders : spc[s] \in {"flush", "set"} => w < f
    /\ w < f => \E s \in Senders : spc[s] \in {"flush", "set"}
    /\ \A s \in Senders : spc[s] = "set" => c = Null

\* The reader is passive exactly when it waits; c is Null only then, and a
\* passive reader that has something in c has something to read.
ReaderMode ==
    /\ rpc \in {"poll", "drain"} => ~active
    /\ rpc = "read" => active
    /\ active => c # Null
    /\ ~active => r = front
    /\ c # Null /\ (~active \/ rpc = "read") => front < c

\* Every byte is accounted for: one for a non-Null c unless a sender still
\* owes it, and one that the reader is about to take back.
BytesAccounted ==
    /\ \A s, t \in Senders : Owes(s) /\ Owes(t) => s = t
    /\ (\E s \in Senders : Owes(s)) => c # Null /\ ~active
    /\ bytes = (IF rpc = "drain" THEN 1 ELSE 0)
              + (IF c # Null /\ ~(\E s \in Senders : Owes(s)) THEN 1 ELSE 0)

\* What recv has returned is the part of the log before front.
ReadsLog ==
    /\ Len(rcvd) = front
    /\ \A i \in 1 .. front : rcvd[i] = log[i]

\* The log holds the commands 1 .. sends[s] of each sender s, once each, each
\* after its predecessors.
LogInOrder ==
    /\ \A i \in 1 .. Len(log) : log[i][2] <= sends[log[i][1]]
    /\ \A s \in Senders : \A k \in 1 .. sends[s] : \E i \in 1 .. Len(log) : log[i] = <<s, k>>
    /\ \A i \in 1 .. Len(log) : \A k \in 1 .. (log[i][2] - 1) :
          \E j \in 1 .. (i - 1) : log[j] = <<log[i][1], k>>
    /\ \A i, j \in 1 .. Len(log) : log[i] = log[j] => i = j

Inductive ==
    /\ TypeOK
    /\ PointersOrdered
    /\ OneWriter
    /\ ReaderMode
    /\ BytesAccounted
    /\ ReadsLog
    /\ LogInOrder
    /\ ~aborted

=============================================================================

----------------------------- MODULE ReplyMatch -----------------------------
(***************************************************************************)
(* session_node::on_recv: whose echo reply is it?  Every raw ICMP socket   *)
(* gets a copy of every ICMP packet that reaches the machine, so each      *)
(* session must pick out its own.  It compares the sender's address, as    *)
(* text, with the address it probes, and the ICMP id with the process id.  *)
(* The text is in the static buffer of sock_ntop_host, which the I/O       *)
(* threads share without a lock; process_plug writes it too.               *)
(***************************************************************************)
EXTENDS Naturals, Sequences

CONSTANTS
    Hosts,       \* the probed hosts, one session each
    IoThreads,
    ThreadOf,    \* the I/O thread of each session
    Pids,        \* what getpid () may return, the ic_id of every session
    IdSpace,     \* values of the 16-bit icmp_id field
    OtherId,     \* the id in replies to another process of this machine
    Halfway,     \* texts a buffer that is being written may show to others
    MaxPackets   \* bound: packets that reach the machine

Torn == "torn"   \* a text that is no probed host's
Shown == Hosts \cup {Torn}   \* what a reader of the buffer may find

ASSUME ThreadOfAssumption == ThreadOf \in [Hosts -> IoThreads]
ASSUME HalfwayAssumption == Halfway \subseteq Shown /\ Torn \in Halfway
ASSUME IdAssumption ==
    /\ Pids \subseteq Nat /\ IdSpace \in Nat \ {0} /\ MaxPackets \in Nat
    /\ OtherId \in 0 .. IdSpace - 1 /\ \A p \in Pids : OtherId # p % IdSpace

VARIABLES
    pid,       \* the process id, which never changes
    str,       \* the static buffer of sock_ntop_host
    tpc,       \* where each I/O thread is inside on_recv or process_plug
    cur,       \* the session and the packet each thread is handling
    open,      \* the sessions whose socket is open
    inbox,     \* packets in each session's socket
    packets,   \* history: packets that have reached the machine
    disturbed, \* history: the threads in whose use of the buffer another wrote it
    credited,  \* history: the sessions that accepted a packet, with its sender
    missed,    \* history: the sessions that dropped a reply to their own probe
    told       \* history: the calls of _recv_func, with the address they name

records == <<credited, missed, told>>
vars == <<pid, str, tpc, cur, open, inbox, packets, disturbed, records>>

NoWork == [session |-> "none"]

\* The id a session's echo request carries: the int ic_id cut to the field.
ProbeId == pid % IdSpace

\* The packets of a host: echo replies and requests, with our id or another's,
\* of full length or too short to hold the time stamp.
Packets == [src : Hosts, type : {"reply", "request"}, id : {ProbeId, OtherId},
            full : BOOLEAN]

AnswersProbe(p, h) == p.src = h /\ p.type = "reply" /\ p.id = ProbeId /\ p.full

Init ==
    /\ pid \in Pids
    /\ str = Torn
    /\ tpc = [t \in IoThreads |-> "idle"]
    /\ cur = [t \in IoThreads |-> NoWork]
    /\ open = {}
    /\ inbox = [h \in Hosts |-> <<>>]
    /\ packets = 0
    /\ disturbed = {}
    /\ credited = {} /\ missed = {} /\ told = {}

-----------------------------------------------------------------------------
(* The buffer                                                              *)

\* Another thread is inside of sock_ntop_host, or still uses what it wrote.
Writing(t) == tpc[t] \in {"ntopDone", "plugDone"}
Using(t) == Writing(t) \/ tpc[t] \in {"match", "callback"}

Alone(t) == t \notin disturbed

\* sock_ntop_host begins to write: until it is done the buffer may show another
\* thread a text that is neither the old one nor the new one.
StartWriting(t) ==
    /\ str' \in Halfway
    /\ disturbed' = (disturbed \ {t})
                    \cup {u \in IoThreads \ {t} : Using(u)}
                    \cup IF \E u \in IoThreads \ {t} : Writing(u) THEN {t} ELSE {}

\* It is done: the text is there, unless another thread wrote at the same time.
FinishWriting(t, text) == str' = text \/ (~Alone(t) /\ str' \in Halfway)

-----------------------------------------------------------------------------
(* process_plug                                                            *)

\* process_plug of session h up to and into sock_ntop_host.
PlugStart(t, h) ==
    /\ tpc[t] = "idle" /\ ThreadOf[h] = t /\ h \notin open
    /\ StartWriting(t)
    /\ cur' = [cur EXCEPT ![t] = [session |-> h]]
    /\ tpc' = [tpc EXCEPT ![t] = "plugDone"]
    /\ UNCHANGED <<pid, open, inbox, packets, records>>

\* The rest of process_plug: the text is for a log only; the socket is opened.
PlugDone(t) ==
    /\ tpc[t] = "plugDone"
    /\ FinishWriting(t, cur[t].session)
    /\ open' = open \cup {cur[t].session}
    /\ cur' = [cur EXCEPT ![t] = NoWork]
    /\ tpc' = [tpc EXCEPT ![t] = "idle"]
    /\ UNCHANGED <<pid, inbox, packets, disturbed, records>>

-----------------------------------------------------------------------------
(* on_recv                                                                 *)

\* The kernel hands a packet to every raw socket that is open.
Arrive(p) ==
    /\ packets < MaxPackets
    /\ packets' = packets + 1
    /\ inbox' = [h \in Hosts |-> IF h \in open THEN Append(inbox[h], p) ELSE inbox[h]]
    /\ UNCHANGED <<pid, str, tpc, cur, open, disturbed, records>>

\* session_node::read, and on_recv up to the call of sock_ntop_host.
Read(t, h) ==
    /\ tpc[t] = "idle" /\ ThreadOf[h] = t
    /\ inbox[h] # <<>>
    /\ cur' = [cur EXCEPT ![t] = [session |-> h, packet |-> Head(inbox[h])]]
    /\ inbox' = [inbox EXCEPT ![h] = Tail(@)]
    /\ tpc' = [tpc EXCEPT ![t] = "ntop"]
    /\ UNCHANGED <<pid, str, open, packets, disturbed, records>>

NtopStart(t) ==
    /\ tpc[t] = "ntop"
    /\ StartWriting(t)
    /\ tpc' = [tpc EXCEPT ![t] = "ntopDone"]
    /\ UNCHANGED <<pid, cur, open, inbox, packets, records>>

NtopDone(t) ==
    /\ tpc[t] = "ntopDone"
    /\ FinishWriting(t, cur[t].packet.src)
    /\ tpc' = [tpc EXCEPT ![t] = "match"]
    /\ UNCHANGED <<pid, cur, open, inbox, packets, disturbed, records>>

\* Faults: the address is not compared; the id is compared as a byte.
MatchesAnyHost(p, h) == p.type = "reply" /\ p.id = pid /\ p.full

MatchesLowByte(p, h) == p.type = "reply" /\ str = h /\ p.id = pid % 256 /\ p.full

\* The tests of on_recv: type, text of the address, id, length.  The id of the
\* packet is compared with the whole process id.
Matches(p, h) ==
    /\ p.type = "reply"
    /\ str = h
    /\ p.id = pid
    /\ p.full

\* A packet that passes ends the silence of the session; another is dropped.
Match(t) ==
    LET h == cur[t].session
        p == cur[t].packet
    IN  /\ tpc[t] = "match"
        /\ IF Matches(p, h)
           THEN /\ tpc' = [tpc EXCEPT ![t] = "callback"]
                /\ credited' = credited \cup {[session |-> h, src |-> p.src, alone |-> Alone(t)]}
                /\ UNCHANGED <<cur, missed>>
           ELSE /\ tpc' = [tpc EXCEPT ![t] = "idle"]
                /\ cur' = [cur EXCEPT ![t] = NoWork]
                /\ missed' = IF AnswersProbe(p, h)
                             THEN missed \cup {[session |-> h, alone |-> Alone(t)]}
                             ELSE missed
                /\ UNCHANGED credited
        /\ UNCHANGED <<pid, str, open, inbox, packets, disturbed, told>>

\* The call of _recv_func, with the text copied out of the buffer again.
Callback(t) ==
    /\ tpc[t] = "callback"
    /\ told' = told \cup {[session |-> cur[t].session, ip |-> str, alone |-> Alone(t)]}
    /\ tpc' = [tpc EXCEPT ![t] = "idle"]
    /\ cur' = [cur EXCEPT ![t] = NoWork]
    /\ UNCHANGED <<pid, str, open, inbox, packets, disturbed, credited, missed>>

Thread(t) ==
    \/ \E h \in Hosts : PlugStart(t, h) \/ Read(t, h)
    \/ PlugDone(t)
    \/ NtopStart(t) \/ NtopDone(t) \/ Match(t) \/ Callback(t)

Next == (\E p \in Packets : Arrive(p)) \/ \E t \in IoThreads : Thread(t)

Spec == Init /\ [][Next]_vars

-----------------------------------------------------------------------------
(* Properties                                                              *)

TypeOK ==
    /\ pid \in Pids
    /\ str \in Shown
    /\ tpc \in [IoThreads -> {"idle", "plugDone", "ntop", "ntopDone", "match", "callback"}]
    /\ cur \in [IoThreads -> {NoWork} \cup [session : Hosts] \cup [session : Hosts, packet : Packets]]
    /\ open \subseteq Hosts
    /\ inbox \in [Hosts -> Seq(Packets)]
    /\ packets \in 0 .. MaxPackets
    /\ disturbed \subseteq IoThreads
    /\ credited \subseteq [session : Hosts, src : Hosts, alone : BOOLEAN]
    /\ missed \subseteq [session : Hosts, alone : BOOLEAN]
    /\ told \subseteq [session : Hosts, ip : Shown, alone : BOOLEAN]

\* A silence is ended only by the host itself: no session takes another host's
\* reply for its own.
CreditedToSender == \A c \in credited : c.session = c.src

\* Only the shared buffer lets sessions mistake one host for another: a reply
\* is credited to the session of its sender, and the callback names that host,
\* unless another thread wrote the buffer between the session's own
\* sock_ntop_host and its last use of the text.
RepliesSound ==
    /\ TypeOK
    /\ \A c \in credited : c.alone => c.session = c.src
    /\ \A c \in told : c.alone => c.ip = c.session

\* Only the shared buffer makes a session drop a complete reply to its own
\* probe, as long as the process id fits the icmp_id; when it does not, no
\* session ever accepts a reply, whatever the threads do.
OwnRepliesCount ==
    IF pid < IdSpace THEN \A m \in missed : ~m.alone ELSE credited = {}

=============================================================================

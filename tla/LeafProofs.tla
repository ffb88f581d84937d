----------------------------- MODULE LeafProofs -----------------------------
(***************************************************************************)
(* Proofs about the components that stand alone: what a session makes of   *)
(* the packets it reads (ReplyMatch), the arithmetic of the echo request   *)
(* (Packet), the options and the strings (Vendored).                       *)
(***************************************************************************)
EXTENDS ReplyMatch, Packet, Vendored, PrefixInduction, FiniteSetTheorems,
        SequenceTheorems, TLAPS

-----------------------------------------------------------------------------

(***************************************************************************)
(* Replies.  What a session makes of a packet is sound whenever no other   *)
(* thread wrote the buffer of sock_ntop_host while the session used it,    *)
(* for any number of threads and whatever a buffer half written may show.  *)
(***************************************************************************)

\* What a thread inside on_recv works on.
Work == [session : Hosts, packet : Packets]

\* A thread inside on_recv has a packet, one inside process_plug a session.
Handling ==
    \A t \in IoThreads :
        /\ tpc[t] \in {"ntop", "ntopDone", "match", "callback"} => cur[t] \in Work
        /\ tpc[t] = "plugDone" => cur[t] \in [session : Hosts]

\* While a thread uses the buffer undisturbed no other writes it; from the end of
\* sock_ntop_host to the callback the buffer holds the sender's address, and a
\* packet that was accepted is the host's own.
BufferHolds ==
    \A t \in IoThreads : Alone(t) =>
        /\ Using(t) => \A u \in IoThreads \ {t} : ~Writing(u)
        /\ tpc[t] \in {"match", "callback"} => str = cur[t].packet.src
        /\ tpc[t] = "callback" => cur[t].session = cur[t].packet.src

\* What was recorded undisturbed is right.
CreditsSound == \A c \in credited : c.alone => c.session = c.src
CallbacksSound == \A c \in told : c.alone => c.ip = c.session

-----------------------------------------------------------------------------

LEMMA WritingTypes ==
    ASSUME TypeOK, NEW t \in IoThreads
    PROVE  /\ StartWriting(t) => str' \in Shown /\ disturbed' \subseteq IoThreads
           /\ \A h \in Hosts : FinishWriting(t, h) => str' \in Shown
<1>1. Hosts \subseteq Shown /\ Halfway \subseteq Shown
  BY HalfwayAssumption DEF Shown
<1>. QED
  BY <1>1 DEF TypeOK, StartWriting, FinishWriting

\* The process id does not change, nor do the packets there can be.
LEMMA PidStays == ASSUME Next PROVE pid' = pid /\ Packets' = Packets /\ Work' = Work
<1>1. pid' = pid
  BY DEF Next, Thread, Arrive, PlugStart, PlugDone, Read, NtopStart, NtopDone, Match, Callback
<1>. QED
  BY <1>1 DEF Packets, ProbeId, Work

LEMMA TypesKept == ASSUME TypeOK, Handling, Next PROVE TypeOK' /\ Handling'
<1>. pid' = pid /\ Packets' = Packets /\ Work' = Work
  BY PidStays
<1>. USE DEF TypeOK, Handling
<1>1. ASSUME NEW p \in Packets, Arrive(p) PROVE TypeOK' /\ Handling'
  <2>1. packets' \in 0 .. MaxPackets
    BY <1>1, IdAssumption DEF Arrive
  <2>2. \A h \in Hosts : Append(inbox[h], p) \in Seq(Packets)
    OBVIOUS
  <2>. QED
    BY <1>1, <2>1, <2>2 DEF Arrive, records
<1>2. ASSUME NEW t \in IoThreads, Thread(t) PROVE TypeOK' /\ Handling'
  <2>1. ASSUME NEW h \in Hosts, PlugStart(t, h) PROVE TypeOK' /\ Handling'
    BY <2>1, WritingTypes DEF PlugStart, records, Work
  <2>2. CASE PlugDone(t)
    <3>1. cur[t].session \in Hosts
      BY <2>2 DEF PlugDone
    <3>2. str' \in Shown
      BY <2>2, <3>1, WritingTypes DEF PlugDone
    <3>. QED
      BY <2>2, <3>1, <3>2 DEF PlugDone, records, Work
  <2>3. ASSUME NEW h \in Hosts, Read(t, h) PROVE TypeOK' /\ Handling'
    <3>1. Head(inbox[h]) \in Packets /\ Tail(inbox[h]) \in Seq(Packets)
      BY <2>3 DEF Read
    <3>2. [session |-> h, packet |-> Head(inbox[h])] \in Work
      BY <3>1 DEF Work
    <3>. QED
      BY <2>3, <3>1, <3>2 DEF Read, Work, records
  <2>4. CASE NtopStart(t)
    BY <2>4, WritingTypes DEF NtopStart, records, Work
  <2>5. CASE NtopDone(t)
    <3>1. cur[t].packet.src \in Hosts
      BY <2>5 DEF NtopDone, Work, Packets
    <3>2. str' \in Shown
      BY <2>5, <3>1, WritingTypes DEF NtopDone
    <3>. QED
      BY <2>5, <3>2 DEF NtopDone, records, Work
  <2>6. CASE Match(t)
    <3>1. cur[t] \in Work
      BY <2>6 DEF Match
    <3>2. cur[t].session \in Hosts /\ cur[t].packet.src \in Hosts /\ Alone(t) \in BOOLEAN
      BY <3>1 DEF Work, Packets, Alone
    <3>3. /\ credited' \subseteq [session : Hosts, src : Hosts, alone : BOOLEAN]
          /\ missed' \subseteq [session : Hosts, alone : BOOLEAN]
      BY <2>6, <3>2 DEF Match
    <3>4. /\ tpc' \in [IoThreads -> {"idle", "plugDone", "ntop", "ntopDone", "match", "callback"}]
          /\ cur' \in [IoThreads -> {NoWork} \cup [session : Hosts] \cup Work]
          /\ Handling'
      BY <2>6, <3>1 DEF Match, Work
    <3>. QED
      BY <2>6, <3>3, <3>4 DEF Match, Work
  <2>7. CASE Callback(t)
    <3>1. cur[t].session \in Hosts /\ Alone(t) \in BOOLEAN
      BY <2>7 DEF Callback, Work, Alone
    <3>2. told' \subseteq [session : Hosts, ip : Shown, alone : BOOLEAN]
      BY <2>7, <3>1 DEF Callback
    <3>. QED
      BY <2>7, <3>2 DEF Callback, Work
  <2>. QED
    BY <1>2, <2>1, <2>2, <2>3, <2>4, <2>5, <2>6, <2>7 DEF Thread
<1>. QED
  BY <1>1, <1>2 DEF Next

\* No thread works on anything yet.
LEMMA TypesStart == Init => TypeOK /\ Handling
BY IdAssumption DEF Init, TypeOK, Handling, Shown

\* The types are right with any number of threads, and a thread inside of
\* on_recv has the packet it works on.
THEOREM TypeCorrect == Spec => [](TypeOK /\ Handling)
<1>1. TypeOK /\ Handling /\ UNCHANGED vars => (TypeOK /\ Handling)'
  BY DEF TypeOK, Handling, vars, records, Packets, ProbeId, Work
<1>2. TypeOK /\ Handling /\ [Next]_vars => (TypeOK /\ Handling)'
  BY <1>1, TypesKept
<1>. QED
  BY <1>2, TypesStart, PTL DEF Spec

-----------------------------------------------------------------------------

\* Beginning to write disturbs every other user, and is disturbed by a writer.
LEMMA StartDisturbs ==
    ASSUME BufferHolds, TypeOK, NEW t \in IoThreads, StartWriting(t),
           tpc[t] \in {"idle", "ntop"},
           NEW pc \in {"plugDone", "ntopDone"}, tpc' = [tpc EXCEPT ![t] = pc],
           \A u \in IoThreads \ {t} : cur'[u] = cur[u]
    PROVE  BufferHolds'
<1>1. ASSUME NEW u \in IoThreads \ {t}, Alone(u)' PROVE Alone(u) /\ ~Using(u) /\ ~Using(u)'
  <2>1. tpc'[u] = tpc[u]
    BY DEF TypeOK
  <2>2. u \notin disturbed /\ ~Using(u)
    BY <1>1 DEF StartWriting, Alone
  <2>. QED
    BY <2>1, <2>2 DEF Alone, Using, Writing
<1>2. Alone(t)' => \A u \in IoThreads \ {t} : ~Writing(u) /\ ~Writing(u)'
  BY DEF StartWriting, Alone, Writing, TypeOK
<1>3. tpc'[t] \notin {"match", "callback"}
  BY DEF TypeOK
<1>. QED
  BY <1>1, <1>2, <1>3 DEF BufferHolds, Using

\* The end of a write does not change the buffer of a thread that is alone.
LEMMA BufferKept ==
    ASSUME TypeOK, Handling, BufferHolds, Next
    PROVE  BufferHolds'
<1>1. ASSUME NEW p \in Packets, Arrive(p) PROVE BufferHolds'
  BY <1>1 DEF Arrive, BufferHolds, Alone, Using, Writing
<1>2. ASSUME NEW t \in IoThreads, Thread(t) PROVE BufferHolds'
  <2>. USE DEF TypeOK
  <2>1. ASSUME NEW h \in Hosts, PlugStart(t, h) PROVE BufferHolds'
    <3>1. /\ StartWriting(t) /\ tpc[t] \in {"idle", "ntop"}
          /\ tpc' = [tpc EXCEPT ![t] = "plugDone"]
          /\ \A u \in IoThreads \ {t} : cur'[u] = cur[u]
      BY <2>1 DEF PlugStart
    <3>. QED
      BY ONLY <3>1, BufferHolds, TypeOK, StartDisturbs
  <2>2. CASE NtopStart(t)
    <3>1. /\ StartWriting(t) /\ tpc[t] \in {"idle", "ntop"}
          /\ tpc' = [tpc EXCEPT ![t] = "ntopDone"]
          /\ \A u \in IoThreads \ {t} : cur'[u] = cur[u]
      BY <2>2 DEF NtopStart
    <3>. QED
      BY ONLY <3>1, BufferHolds, TypeOK, StartDisturbs
\* The other steps disturb nobody; a thread that ends a write is the only one
\* that an undisturbed user would see.
  <2>3. CASE \/ PlugDone(t) \/ (\E h \in Hosts : Read(t, h)) \/ NtopDone(t) \/ Match(t) \/ Callback(t)
    <3>1. /\ disturbed' = disturbed
          /\ \A u \in IoThreads \ {t} : tpc'[u] = tpc[u] /\ cur'[u] = cur[u]
          /\ tpc'[t] \in {"idle", "ntop", "match", "callback"}
          /\ str' # str => Writing(t)
      BY <2>3 DEF PlugDone, Read, NtopDone, Match, Callback, Writing
    <3>2. \A u \in IoThreads : Writing(u)' => Writing(u)
      BY <3>1 DEF Writing
    <3>3. ASSUME NEW u \in IoThreads, Alone(u)', Using(u)'
          PROVE  Alone(u) /\ Using(u) /\ \A v \in IoThreads \ {u} : ~Writing(v) /\ ~Writing(v)'
      <4>1. Alone(u)
        BY <3>1, <3>3 DEF Alone
      <4>2. CASE u # t
        BY <3>1, <3>2, <3>3, <4>1, <4>2 DEF BufferHolds, Using, Writing
      <4>3. CASE u = t
        <5>1. tpc'[t] \in {"match", "callback"}
          BY <3>1, <3>3, <4>3 DEF Using, Writing
        <5>2. NtopDone(t) \/ Match(t)
          BY <2>3, <5>1 DEF PlugDone, Read, Callback
        <5>3. Using(t)
          BY <5>2 DEF NtopDone, Match, Using, Writing
        <5>. QED
          BY <3>2, <4>1, <4>3, <5>3 DEF BufferHolds
      <4>. QED
        BY <4>2, <4>3
    <3>4. ASSUME NEW u \in IoThreads \ {t}, Alone(u)', tpc'[u] \in {"match", "callback"}
          PROVE  str' = cur'[u].packet.src /\ (tpc'[u] = "callback" => cur'[u].session = cur'[u].packet.src)
      <4>1. Alone(u) /\ ~Writing(t)
        BY <3>3, <3>4 DEF Using
      <4>. QED
        BY <3>1, <3>4, <4>1 DEF BufferHolds
    <3>5. ASSUME Alone(t)', tpc'[t] \in {"match", "callback"}
          PROVE  str' = cur'[t].packet.src /\ (tpc'[t] = "callback" => cur'[t].session = cur'[t].packet.src)
      <4>1. Alone(t)
        BY <3>1, <3>5 DEF Alone
      <4>2. CASE NtopDone(t)
        BY <4>1, <4>2 DEF NtopDone, FinishWriting
      <4>3. CASE Match(t)
        <5>1. str = cur[t].packet.src /\ str' = str
          BY <4>1, <4>3 DEF Match, BufferHolds
        <5>2. Matches(cur[t].packet, cur[t].session) /\ cur' = cur
          BY <3>5, <4>3 DEF Match
        <5>. QED
          BY <5>1, <5>2 DEF Matches
      <4>. QED
        BY <2>3, <3>5, <4>2, <4>3 DEF PlugDone, Read, Callback
    <3>. QED
      BY <3>3, <3>4, <3>5 DEF BufferHolds
  <2>. QED
    BY <1>2, <2>1, <2>2, <2>3 DEF Thread
<1>. QED
  BY <1>1, <1>2 DEF Next

\* A packet is credited and reported in the thread that has the buffer.
LEMMA CreditsKept ==
    ASSUME TypeOK, BufferHolds, CreditsSound, CallbacksSound, Next
    PROVE  CreditsSound' /\ CallbacksSound'
<1>. USE DEF CreditsSound, CallbacksSound
<1>1. CASE UNCHANGED <<credited, told>>
  BY <1>1
<1>2. ASSUME NEW t \in IoThreads, Match(t) PROVE CreditsSound' /\ CallbacksSound'
  <2>1. told' = told
    BY <1>2 DEF Match
  <2>2. CASE Matches(cur[t].packet, cur[t].session)
    <3>1. credited' = credited \cup {[session |-> cur[t].session, src |-> cur[t].packet.src,
                                      alone |-> Alone(t)]}
      BY <1>2, <2>2 DEF Match
    <3>2. Alone(t) => cur[t].session = cur[t].packet.src
      BY <1>2, <2>2 DEF Match, Matches, BufferHolds
    <3>. QED
      BY <2>1, <3>1, <3>2
  <2>3. CASE ~Matches(cur[t].packet, cur[t].session)
    BY <1>2, <2>1, <2>3 DEF Match
  <2>. QED
    BY <2>2, <2>3
<1>3. ASSUME NEW t \in IoThreads, Callback(t) PROVE CreditsSound' /\ CallbacksSound'
  <2>1. Alone(t) => str = cur[t].session
    BY <1>3 DEF Callback, BufferHolds
  <2>2. /\ credited' = credited
        /\ told' = told \cup {[session |-> cur[t].session, ip |-> str, alone |-> Alone(t)]}
    BY <1>3 DEF Callback
  <2>. QED
    BY <2>1, <2>2
<1>. QED
  BY <1>1, <1>2, <1>3 DEF Next, Thread, Arrive, PlugStart, PlugDone, Read, NtopStart, NtopDone, records

LEMMA BufferInvariant == Spec => [](TypeOK /\ Handling /\ BufferHolds)
<1>1. Init => BufferHolds
  BY DEF Init, BufferHolds, Using, Writing
<1>2. BufferHolds /\ UNCHANGED vars => BufferHolds'
  BY DEF BufferHolds, vars, Alone, Using, Writing
<1>3. TypeOK /\ Handling /\ BufferHolds /\ [Next]_vars => BufferHolds'
  BY <1>2, BufferKept
<1>. QED
  BY <1>1, <1>3, TypeCorrect, PTL DEF Spec

\* With any number of hosts and I/O threads, and whatever a half written buffer
\* shows: a session takes another host's reply for its own, or its callback
\* names another host, only if another thread wrote the static buffer between
\* the session's sock_ntop_host and its last use of the text.
THEOREM RepliesAreSound == Spec => []RepliesSound
<1>1. Init => CreditsSound /\ CallbacksSound
  BY DEF Init, CreditsSound, CallbacksSound
<1>2. CreditsSound /\ CallbacksSound /\ UNCHANGED vars => CreditsSound' /\ CallbacksSound'
  BY DEF CreditsSound, CallbacksSound, vars, records
<1>3. TypeOK /\ BufferHolds /\ CreditsSound /\ CallbacksSound /\ [Next]_vars
      => CreditsSound' /\ CallbacksSound'
  BY <1>2, CreditsKept
<1>4. TypeOK /\ CreditsSound /\ CallbacksSound => RepliesSound
  BY DEF RepliesSound, CreditsSound, CallbacksSound
<1>. QED
  BY <1>1, <1>3, <1>4, BufferInvariant, PTL DEF Spec

\* With a process id that fits icmp_id, a session drops a complete reply to its
\* own probe only if another thread wrote the buffer meanwhile; with one that
\* does not fit, no session ever accepts a reply.
THEOREM NoReplyMissed == Spec => []OwnRepliesCount
<1>1. Init => OwnRepliesCount
  BY DEF Init, OwnRepliesCount
<1>2. OwnRepliesCount /\ UNCHANGED vars => OwnRepliesCount'
  BY DEF OwnRepliesCount, vars, records
<1>3. ASSUME TypeOK, Handling, BufferHolds, OwnRepliesCount, Next
      PROVE  OwnRepliesCount'
  <2>. pid' = pid /\ pid \in Nat /\ IdSpace \in Nat \ {0}
    BY <1>3, PidStays, IdAssumption DEF TypeOK
  <2>1. ASSUME NEW t \in IoThreads, Match(t) PROVE OwnRepliesCount'
    <3>1. cur[t] \in Work
      BY <1>3, <2>1 DEF Match, Handling
    <3>2. CASE pid < IdSpace
      <4>1. ProbeId = pid
        BY <3>2 DEF ProbeId
      <4>2. Alone(t) /\ AnswersProbe(cur[t].packet, cur[t].session)
            => Matches(cur[t].packet, cur[t].session)
        BY <1>3, <2>1, <4>1 DEF BufferHolds, AnswersProbe, Matches, Match
      <4>3. \A m \in missed' : ~m.alone
        <5>1. CASE Alone(t)
          BY <1>3, <2>1, <3>2, <4>2, <5>1 DEF Match, OwnRepliesCount
        <5>2. CASE ~Alone(t)
          BY <1>3, <2>1, <3>2, <5>2 DEF Match, OwnRepliesCount
        <5>. QED
          BY <5>1, <5>2
      <4>. QED
        BY <3>2, <4>3 DEF OwnRepliesCount
    <3>3. CASE ~(pid < IdSpace)
      <4>1. cur[t].packet.id \in {ProbeId, OtherId}
        BY <3>1 DEF Work, Packets
      <4>2. ProbeId < IdSpace /\ OtherId < IdSpace /\ ProbeId \in Nat /\ OtherId \in Nat
        BY IdAssumption DEF ProbeId
      <4>3. cur[t].packet.id # pid
        BY <3>3, <4>1, <4>2
      <4>4. credited' = credited
        BY <2>1, <4>3 DEF Match, Matches
      <4>. QED
        BY <1>3, <3>3, <4>4 DEF OwnRepliesCount
    <3>. QED
      BY <3>2, <3>3
  <2>2. CASE UNCHANGED <<credited, missed>>
    BY <1>3, <2>2 DEF OwnRepliesCount
  <2>. QED
    BY <1>3, <2>1, <2>2 DEF Next, Thread, Arrive, PlugStart, PlugDone, Read, NtopStart, NtopDone,
       Callback, records
<1>4. TypeOK /\ Handling /\ BufferHolds /\ OwnRepliesCount /\ [Next]_vars => OwnRepliesCount'
  BY <1>2, <1>3
<1>. QED
  BY <1>1, <1>4, BufferInvariant, PTL DEF Spec

-----------------------------------------------------------------------------

(***************************************************************************)
(* The checksum and the round trip time.  The end-around carry makes the   *)
(* checksum arithmetic modulo one less than the values of a word; a packet *)
(* of at most one word more than a word has values cannot overflow the     *)
(* accumulator.                                                            *)
(***************************************************************************)

\* The values of a word.
Words == 0 .. WordValues - 1

\* The sums on the way to Accumulate.
Sums(words, f) ==
    /\ f \in [0 .. Len(words) -> Nat] /\ f[0] = 0
    /\ \A k \in 1 .. Len(words) :
          f[k] = (f[k - 1] + words[k]) % (WordValues * WordValues)

\* The accumulator has at least one value.
LEMMA SquarePositive == WordValues * WordValues \in Nat \ {0}
<1>1. \A w \in Nat \ {0} : w * w \in Nat \ {0}
  OBVIOUS
<1>. QED
  BY <1>1, WordAssumption

\* Accumulate is the last of such sums.
LEMMA AccumulateSums ==
    ASSUME NEW words \in Seq(Words)
    PROVE  \E f : Sums(words, f) /\ Accumulate(words) = f[Len(words)]
<1>1. PICK n \in Nat : n = Len(words)
  OBVIOUS
<1>2. PICK M \in Nat \ {0} : M = WordValues * WordValues
  BY SquarePositive
<1>. DEFINE Step(k, s) == (s + words[k]) % M
            Body(f) == [k \in 0 .. n |-> IF k = 0 THEN 0 ELSE (f[k - 1] + words[k]) % M]
            sum == CHOOSE f : f = Body(f)
<1>3. \A k \in 1 .. n : words[k] \in Nat
  BY <1>1, WordAssumption DEF Words
<1>4. \A k \in 1 .. n : \A s \in Nat : Step(k, s) \in Nat
  BY <1>3
<1>5. PICK f : f \in [0 .. n -> Nat] /\ f[0] = 0 /\ \A k \in 1 .. n : f[k] = Step(k, f[k - 1])
  <2>. DEFINE step == [p \in (1 .. n) \X Nat |-> Step(p[1], p[2])]
  <2>. HIDE DEF Step
  <2>1. IsStep(step, n, Nat)
    BY <1>4 DEF IsStep
  <2>2. \A k \in 1 .. n : \A s \in Nat : step[<<k, s>>] = Step(k, s)
    OBVIOUS
  <2>. HIDE DEF step
  <2>3. PICK f : Follows(f, step, n, Nat, 0)
    BY <2>1, StepByStep
  <2>4. \A k \in 1 .. n : f[k - 1] \in Nat
    BY <2>3 DEF Follows
  <2>5. \A k \in 1 .. n : f[k] = Step(k, f[k - 1])
    <3>1. \A k \in 1 .. n : f[k] = step[<<k, f[k - 1]>>]
      BY <2>3 DEF Follows
    <3>. QED
      BY <2>2, <2>4, <3>1
  <2>. QED
    BY <2>3, <2>5 DEF Follows
<1>6. f = Body(f)
  <2>1. f = [k \in 0 .. n |-> f[k]]
    BY <1>5
  <2>2. ASSUME NEW k \in 0 .. n PROVE f[k] = Body(f)[k]
    <3>1. CASE k = 0
      BY <1>5, <3>1
    <3>2. CASE k # 0
      <4>1. k \in 1 .. n
        BY <3>2
      <4>. QED
        BY <1>5, <4>1
    <3>. QED
      BY <3>1, <3>2
  <2>3. Body(f) = [k \in 0 .. n |-> Body(f)[k]]
    OBVIOUS
  <2>. HIDE DEF Body
  <2>. QED
    BY <2>1, <2>2, <2>3
<1>7. Accumulate(words) = sum[n]
  BY <1>1, <1>2 DEF Accumulate
<1>. HIDE DEF Body
<1>8. sum = Body(sum)
  BY <1>6
<1>. HIDE DEF sum
<1>9. sum[0] = 0 /\ \A k \in 1 .. n : sum[k] = Step(k, sum[k - 1])
  <2>1. \A k \in 0 .. n : sum[k] = Body(sum)[k]
    BY <1>8
  <2>. QED
    BY <2>1 DEF Body
<1>10. \A k \in 1 .. n : sum[k - 1] = f[k - 1] => sum[k] = f[k]
  BY <1>5, <1>9
<1>. HIDE DEF Step
<1>11. \A k \in 0 .. n : sum[k] = f[k]
  <2>1. sum[0] = f[0]
    BY <1>5, <1>9
  <2>. DEFINE T == {k \in 0 .. n : sum[k] = f[k]}
  <2>2. 0 \in T /\ \A k \in 1 .. n : k - 1 \in T => k \in T
    BY <1>10, <2>1
  <2>. HIDE DEF T
  <2>3. \A k \in 0 .. n : k \in T
    BY <2>2, UpTo
  <2>. QED
    BY <2>3 DEF T
<1>12. Sums(words, f)
  <2>1. \A k \in 1 .. n : f[k] = (f[k - 1] + words[k]) % M
    BY <1>5 DEF Step
  <2>. QED
    BY <1>1, <1>2, <1>5, <2>1 DEF Sums
<1>. QED
  BY <1>1, <1>7, <1>11, <1>12

\* As many words, whatever they are, as the accumulator has room for.
Fits(words) == words \in Seq(Words) /\ Len(words) <= WordValues + 1

\* Nothing is lost on the way, and no word is more than the sum.
LEMMA SumsBounded ==
    ASSUME NEW words, Fits(words), NEW f, Sums(words, f), NEW j \in 1 .. Len(words)
    PROVE  /\ \A k \in 1 .. Len(words) : f[k] = f[k - 1] + words[k]
           /\ f[Len(words)] \in words[j] .. (WordValues * WordValues - 1)
<1>1. PICK n \in Nat : n = Len(words) /\ n <= WordValues + 1
  BY DEF Fits
<1>2. PICK b \in Nat : b = WordValues - 1 /\ b >= 3
  BY WordAssumption
<1>3. \A k \in 1 .. n : words[k] \in 0 .. b
  BY <1>1, <1>2 DEF Fits, Words
<1>. DEFINE M == WordValues * WordValues
<1>4. \A k \in 0 .. n : k * b \in Nat /\ k * b <= M - 1
  <2>1. ASSUME NEW k \in 0 .. n PROVE k * b \in Nat /\ k * b <= (b + 1) * (b + 1) - 1
    <3>1. k <= b + 2 /\ k \in Nat
      BY <1>1, <1>2, WordAssumption
    <3>2. k * b <= (b + 2) * b
      BY <3>1
    <3>3. (b + 2) * b = (b + 1) * (b + 1) - 1
      BY <1>2
    <3>. QED
      BY <3>1, <3>2, <3>3
  <2>. QED
    BY <1>2, <2>1, WordAssumption
<1>5. M \in Nat \ {0}
  BY SquarePositive
<1>. HIDE DEF M
<1>. DEFINE T == {k \in 0 .. n : /\ f[k] <= k * b
                                 /\ j <= k => f[k] >= words[j]}
<1>6. 0 \in T
  BY <1>1, <1>2 DEF Sums
<1>7. \A k \in 1 .. n : k - 1 \in T => f[k] = f[k - 1] + words[k]
  <2>1. ASSUME NEW k \in 1 .. n, k - 1 \in T PROVE f[k] = f[k - 1] + words[k]
    <3>1. f[k - 1] \in Nat /\ words[k] \in 0 .. b /\ f[k - 1] <= (k - 1) * b
      BY <1>1, <1>3, <2>1 DEF Sums
    <3>2. (k - 1) * b + b = k * b
      BY <1>2
    <3>3. f[k - 1] + words[k] \in 0 .. M - 1
      <4>. DEFINE x == (k - 1) * b
                  y == k * b
      <4>1. x \in Nat /\ y \in Nat /\ y <= M - 1 /\ x + b = y /\ f[k - 1] <= x
        BY <1>2, <1>4, <3>1, <3>2
      <4>. HIDE DEF x, y
      <4>. QED
        BY <1>2, <1>5, <3>1, <4>1
    <3>4. f[k] = (f[k - 1] + words[k]) % M
      BY <1>1 DEF Sums, M
    <3>. QED
      BY <1>5, <3>3, <3>4
  <2>. QED
    BY <2>1
<1>8. \A k \in 1 .. n : k - 1 \in T => k \in T
  <2>1. ASSUME NEW k \in 1 .. n, k - 1 \in T PROVE k \in T
    <3>1. f[k - 1] \in Nat /\ words[k] \in 0 .. b /\ words[j] \in 0 .. b
      BY <1>1, <1>3 DEF Sums
    <3>2. (k - 1) * b + b = k * b
      BY <1>2
    <3>3. f[k] = f[k - 1] + words[k]
      BY <1>7, <2>1
    <3>4. f[k - 1] <= (k - 1) * b /\ (j <= k - 1 => f[k - 1] >= words[j])
      BY <2>1
    <3>5. f[k] <= k * b
      BY <1>2, <3>1, <3>2, <3>3, <3>4
    <3>6. j <= k => f[k] >= words[j]
      BY <3>1, <3>3, <3>4
    <3>. QED
      BY <3>5, <3>6
  <2>. QED
    BY <2>1
<1>. HIDE DEF T
<1>9. \A k \in 0 .. n : k \in T
  BY <1>6, <1>8, UpTo
<1>10. \A k \in 1 .. n : f[k] = f[k - 1] + words[k]
  BY <1>7, <1>9
<1>11. f[n] <= n * b /\ f[n] >= words[j] /\ f[n] \in Nat /\ words[j] \in Nat
  <2>1. n \in T /\ j <= n
    BY <1>1, <1>9
  <2>. QED
    BY <1>1, <1>3, <2>1 DEF T, Sums
<1>. QED
  BY <1>1, <1>4, <1>5, <1>10, <1>11 DEF M

\* Changing a word changes the sum by the difference.
LEMMA ChangedSum ==
    ASSUME NEW words, Fits(words), NEW j \in 1 .. Len(words), NEW v \in Words
    PROVE  /\ Fits([words EXCEPT ![j] = v])
           /\ Accumulate([words EXCEPT ![j] = v]) = Accumulate(words) - words[j] + v
           /\ Accumulate(words) \in words[j] .. (WordValues * WordValues - 1)
<1>1. PICK n \in Nat : n = Len(words)
  BY DEF Fits
<1>. DEFINE other == [words EXCEPT ![j] = v]
<1>2. /\ Fits(other) /\ Len(other) = n /\ other[j] = v
      /\ \A k \in 1 .. n : k # j => other[k] = words[k]
  BY <1>1 DEF Fits
<1>. HIDE DEF other
<1>3. PICK f : Sums(words, f) /\ Accumulate(words) = f[n]
  BY <1>1, AccumulateSums DEF Fits
<1>4. PICK g : Sums(other, g) /\ Accumulate(other) = g[n]
  BY <1>2, AccumulateSums DEF Fits
<1>5. \A k \in 1 .. n : f[k] = f[k - 1] + words[k]
  BY <1>1, <1>3, SumsBounded
<1>6. \A k \in 1 .. n : g[k] = g[k - 1] + other[k]
  BY <1>1, <1>2, <1>4, SumsBounded
<1>7. /\ \A k \in 0 .. n : f[k] \in Nat /\ g[k] \in Nat
      /\ \A k \in 1 .. n : words[k] \in Nat /\ other[k] \in Nat
      /\ f[0] = 0 /\ g[0] = 0
  <2>1. \A k \in 1 .. n : words[k] \in Words /\ other[k] \in Words
    BY <1>1, <1>2 DEF Fits
  <2>2. Words \subseteq Nat
    BY WordAssumption DEF Words
  <2>3. f \in [0 .. n -> Nat] /\ g \in [0 .. n -> Nat] /\ f[0] = 0 /\ g[0] = 0
    BY <1>1, <1>2, <1>3, <1>4 DEF Sums
  <2>. QED
    BY <2>1, <2>2, <2>3
<1>. DEFINE T == {k \in 0 .. n : g[k] = f[k] + (IF j <= k THEN v - words[j] ELSE 0)}
<1>8. 0 \in T
  BY <1>1, <1>7
<1>9. \A k \in 1 .. n : k - 1 \in T => k \in T
  <2>1. ASSUME NEW k \in 1 .. n, k - 1 \in T PROVE k \in T
    <3>1. k - 1 \in 0 .. n /\ g[k - 1] = f[k - 1] + (IF j <= k - 1 THEN v - words[j] ELSE 0)
      BY <2>1
    <3>4. /\ f[k] = f[k - 1] + words[k] /\ g[k] = g[k - 1] + other[k]
          /\ f[k - 1] \in Nat /\ g[k - 1] \in Nat /\ words[k] \in Nat /\ other[k] \in Nat
          /\ v \in Int /\ words[j] \in Int
      BY <1>1, <1>5, <1>6, <1>7, <3>1, WordAssumption DEF Words
    <3>2. CASE k = j
      <4>1. g[k - 1] = f[k - 1] /\ other[k] = v /\ words[k] = words[j]
        BY <1>1, <1>2, <3>1, <3>2, <3>4
      <4>. QED
        BY <3>2, <3>4, <4>1
    <3>3. CASE k # j
      <4>1. other[k] = words[k] /\ (j <= k <=> j <= k - 1)
        BY <1>1, <1>2, <3>3
      <4>. QED
        BY <3>1, <3>4, <4>1
    <3>. QED
      BY <3>2, <3>3
  <2>. QED
    BY <2>1
<1>. HIDE DEF T
<1>10. n \in T
  <2>1. \A k \in 0 .. n : k \in T
    BY ONLY n \in Nat, <1>8, <1>9, UpTo
  <2>2. n \in 0 .. n
    OBVIOUS
  <2>. QED
    BY <2>1, <2>2
<1>11. g[n] = f[n] + v - words[j]
  BY <1>1, <1>7, <1>10 DEF T, Words
<1>12. Accumulate(words) \in words[j] .. (WordValues * WordValues - 1)
  BY <1>1, <1>3, SumsBounded
<1>13. g[n] = f[n] - words[j] + v
  BY <1>1, <1>7, <1>11 DEF Words
<1>. QED
  BY <1>2, <1>3, <1>4, <1>12, <1>13 DEF other

\* The high word and the low one.
LEMMA Halves ==
    ASSUME NEW s \in 0 .. WordValues * WordValues - 1
    PROVE  \E h, l \in Words : /\ s = WordValues * h + l
                               /\ s \div WordValues = h /\ s % WordValues = l
<1>1. PICK w \in Nat : w = WordValues /\ w >= 4
  BY WordAssumption
<1>2. s \in Nat /\ s <= w * w - 1
  BY <1>1, SquarePositive
<1>. DEFINE h == s \div w
            l == s % w
<1>3. s = w * h + l /\ h \in Int /\ l \in 0 .. w - 1
  BY <1>1, <1>2
<1>. HIDE DEF h, l
<1>4. h >= 0
  <2>1. ASSUME h <= -1 PROVE w * h <= -w
    BY <1>1, <1>3, <2>1
  <2>. QED
    BY <1>1, <1>2, <1>3, <2>1
<1>5. h <= w - 1
  <2>1. ASSUME h >= w PROVE w * h >= w * w
    BY <1>1, <1>3, <2>1
  <2>2. w * w \in Nat /\ w * h \in Int
    BY <1>1, <1>3
  <2>. QED
    BY <1>1, <1>2, <1>3, <2>1, <2>2
<1>6. h \in Words /\ l \in Words
  BY <1>1, <1>3, <1>4, <1>5 DEF Words
<1>. QED
  BY <1>1, <1>3, <1>6 DEF h, l

\* Folding keeps the value modulo one less than a word's, and makes only zero zero.
LEMMA FoldKeepsValue ==
    ASSUME NEW s \in 0 .. WordValues * WordValues - 1
    PROVE  \E q \in Nat : /\ s = (Fold(s) % WordValues) + (WordValues - 1) * q
                          /\ Fold(s) % WordValues \in Words
                          /\ s > 0 => Fold(s) % WordValues > 0
<1>1. PICK w \in Nat : w = WordValues /\ w >= 4
  BY WordAssumption
<1>2. PICK h, l \in Words : s = w * h + l /\ s \div w = h /\ s % w = l
  BY <1>1, Halves
<1>3. h \in 0 .. w - 1 /\ l \in 0 .. w - 1 /\ w * h \in Nat /\ (w - 1) * h = w * h - h
  BY <1>1, <1>2 DEF Words
<1>. DEFINE once == h + l
            F == Fold(s) % w
<1>4. Fold(s) = once + (once \div w)
  BY <1>1, <1>2 DEF Fold
<1>5. CASE once < w
  <2>1. once \div w = 0 /\ once % w = once
    BY <1>1, <1>3, <1>5
  <2>2. F = h + l
    BY <1>1, <1>3, <1>4, <2>1
  <2>3. s = F + (w - 1) * h
    BY <1>1, <1>2, <1>3, <2>2
  <2>4. s > 0 => F > 0
    <3>1. h = 0 => w * h = 0
      BY <1>1
    <3>. QED
      BY <1>1, <1>2, <1>3, <2>2, <3>1
  <2>5. F \in Words /\ h \in Nat
    BY <1>1, <1>3, <1>5, <2>2 DEF Words
  <2>. QED
    BY <1>1, <2>3, <2>4, <2>5
<1>6. CASE once >= w
  <2>1. once \div w = 1 /\ (once + 1) % w = once + 1 - w
    BY <1>1, <1>3, <1>6
  <2>2. F = h + l + 1 - w
    BY <1>1, <1>3, <1>4, <2>1
  <2>3. s = F + (w - 1) * (h + 1)
    <3>1. (w - 1) * (h + 1) = (w - 1) * h + (w - 1)
      BY <1>1, <1>3
    <3>. QED
      BY <1>1, <1>2, <1>3, <2>2, <3>1
  <2>4. F > 0 /\ F \in Words /\ h + 1 \in Nat
    BY <1>1, <1>3, <1>6, <2>2 DEF Words
  <2>. QED
    BY <1>1, <2>3, <2>4
<1>. QED
  BY <1>1, <1>3, <1>5, <1>6

\* The only number from 1 to b that b divides.
LEMMA OneMultiple ==
    ASSUME NEW b \in Nat, b >= 1, NEW z \in Int, b * z >= 1, b * z <= b
    PROVE  b * z = b
<1>1. z <= 0 => b * z <= 0
  OBVIOUS
<1>2. z >= 2 => b * z >= 2 * b
  OBVIOUS
<1>3. z = 1
  BY <1>1, <1>2
<1>. QED
  BY <1>3

\* A sum verifies when it is not zero and a multiple of one less than a word's values.
LEMMA VerifiesIff ==
    ASSUME NEW words, Fits(words), words # <<>>, Accumulate(words) > 0
    PROVE  in_cksum(words) = 0
              <=> \E z \in Nat : Accumulate(words) = (WordValues - 1) * z
<1>1. PICK b \in Nat : b = WordValues - 1 /\ b >= 3
  BY WordAssumption
<1>2. PICK s : s = Accumulate(words) /\ s \in 0 .. WordValues * WordValues - 1 /\ s > 0
  <2>1. 1 \in 1 .. Len(words) /\ words[1] \in Words
    BY DEF Fits
  <2>2. Accumulate(words) \in words[1] .. (WordValues * WordValues - 1)
    BY <2>1, ChangedSum
  <2>. QED
    BY <2>1, <2>2, SquarePositive, WordAssumption DEF Words
<1>3. PICK F \in 0 .. b, q \in Nat : F = Fold(s) % WordValues /\ s = F + b * q /\ F > 0
  BY <1>1, <1>2, FoldKeepsValue DEF Words
<1>4. in_cksum(words) = b - F
  BY <1>1, <1>2, <1>3 DEF in_cksum
<1>5. ASSUME F = b PROVE \E z \in Nat : s = b * z
  <2>1. b * (q + 1) = b * q + b
    BY <1>1
  <2>2. s = b * (q + 1) /\ q + 1 \in Nat
    BY <1>1, <1>3, <1>5, <2>1
  <2>. QED
    BY <2>2
<1>6. ASSUME NEW z \in Nat, s = b * z PROVE F = b
  <2>1. b * (z - q) = b * z - b * q
    BY <1>1
  <2>2. b * (z - q) = F
    <3>. DEFINE bz == b * z
                bq == b * q
    <3>1. bq \in Nat
      BY <1>1
    <3>2. s = bz /\ s = F + bq /\ b * (z - q) = bz - bq
      BY <1>3, <1>6, <2>1, Zenon
    <3>. HIDE DEF bz, bq
    <3>. QED
      BY <3>1, <3>2
  <2>. QED
    BY <1>1, <1>3, <2>2, OneMultiple
<1>7. F = b <=> in_cksum(words) = 0
  BY <1>4
<1>8. (\E z \in Nat : s = b * z) <=> in_cksum(words) = 0
  BY <1>5, <1>6, <1>7
<1>. QED
  BY <1>1, <1>2, <1>8

\* Whatever the width of a word and the content of a packet that does not overflow the
\* accumulator, and wherever the checksum is: it verifies at the receiver, and
\* no more when one word is changed, but from one form of zero to the other.
THEOREM ChecksumVerifies ==
    ASSUME NEW words, Fits(words)
    PROVE  Verifies(words)
<1>1. PICK b \in Nat : b = WordValues - 1 /\ b >= 3
  BY WordAssumption
<1>. SUFFICES ASSUME NEW field \in 1 .. Len(words)
              PROVE  LET sent == [words EXCEPT ![field] = in_cksum([words EXCEPT ![field] = 0])]
                     IN /\ in_cksum(sent) = 0
                        /\ \A k \in DOMAIN words, word \in 0 .. WordValues - 1 :
                             in_cksum([sent EXCEPT ![k] = word]) = 0 =>
                                 word = sent[k] \/ {word, sent[k]} = {0, WordValues - 1}
  <2>1. DOMAIN words = 1 .. Len(words)
    BY DEF Fits
  <2>. QED
    BY <2>1 DEF Verifies
<1>. DEFINE blank == [words EXCEPT ![field] = 0]
            c == in_cksum(blank)
            sent == [words EXCEPT ![field] = c]
<1>2. 0 \in Words
  BY WordAssumption DEF Words
<1>3. /\ Fits(blank) /\ field \in 1 .. Len(blank) /\ blank[field] = 0
      /\ DOMAIN words = 1 .. Len(words)
  BY <1>2, ChangedSum DEF Fits
<1>4. PICK s : s = Accumulate(blank) /\ s \in 0 .. WordValues * WordValues - 1
  BY <1>2, <1>3, ChangedSum
<1>5. PICK F \in 0 .. b, q \in Nat : F = Fold(s) % WordValues /\ s = F + b * q
  BY <1>1, <1>4, FoldKeepsValue DEF Words
<1>6. c = b - F /\ c \in Words
  BY <1>1, <1>4, <1>5 DEF in_cksum, Words
<1>. HIDE DEF c
<1>7. sent = [blank EXCEPT ![field] = c]
  BY DEF Fits
<1>. HIDE DEF blank
<1>8. Fits(sent) /\ Len(sent) = Len(words) /\ sent # <<>>
  BY <1>6, ChangedSum DEF Fits
<1>9. Accumulate(sent) = b * (q + 1) /\ b * (q + 1) > 0
  <2>1. Accumulate(sent) = s - 0 + c
    BY <1>3, <1>4, <1>6, <1>7, ChangedSum
  <2>. DEFINE bq == b * q
  <2>2. b * (q + 1) = bq + b /\ bq \in Nat /\ s = F + bq
    BY <1>1, <1>5
  <2>. HIDE DEF bq
  <2>. QED
    BY <1>1, <1>6, <2>1, <2>2
<1>10. in_cksum(sent) = 0
  <2>1. q + 1 \in Nat /\ Accumulate(sent) > 0
    BY <1>9
  <2>2. \E z \in Nat : Accumulate(sent) = b * z
    BY <1>9, <2>1
  <2>. QED
    BY <1>1, <1>8, <2>1, <2>2, VerifiesIff
<1>. HIDE DEF sent
<1>11. ASSUME NEW k \in 1 .. Len(words), NEW word \in Words,
              in_cksum([sent EXCEPT ![k] = word]) = 0
       PROVE  word = sent[k] \/ {word, sent[k]} = {0, WordValues - 1}
  <2>. DEFINE other == [sent EXCEPT ![k] = word]
  <2>1. sent[k] \in 0 .. b /\ word \in 0 .. b /\ k \in 1 .. Len(sent)
    BY <1>1, <1>8 DEF Fits, Words
  <2>2. /\ Fits(other) /\ other # <<>>
        /\ Accumulate(other) = Accumulate(sent) - sent[k] + word
        /\ Accumulate(sent) >= sent[k]
    <3>1. /\ Fits(other) /\ Accumulate(other) = Accumulate(sent) - sent[k] + word
          /\ Accumulate(sent) \in sent[k] .. (WordValues * WordValues - 1)
      BY <1>8, <2>1, ChangedSum
    <3>2. other # <<>>
      BY <1>8, <2>1 DEF Fits
    <3>. QED
      BY <2>1, <3>1, <3>2
  <2>. HIDE DEF other
  <2>3. Accumulate(other) > 0
    <3>1. Accumulate(other) \in Int /\ Accumulate(other) >= 0
      BY <1>1, <1>9, <2>1, <2>2
    <3>2. CASE Accumulate(other) = 0
      <4>1. 1 \in 1 .. Len(other)
        BY <2>2 DEF Fits
      <4>2. Fold(0) % WordValues = 0
        BY WordAssumption DEF Fold
      <4>3. in_cksum(other) = b
        BY <1>1, <3>2, <4>2 DEF in_cksum
      <4>. QED
        BY <1>1, <1>11, <4>3 DEF other
    <3>. QED
      BY <3>1, <3>2
  <2>4. PICK z \in Nat : Accumulate(other) = b * z
    BY <1>1, <1>11, <2>2, <2>3, VerifiesIff DEF other
  <2>. DEFINE y == z - (q + 1)
  <2>5. b * y = b * z - b * (q + 1) /\ y \in Int
    BY <1>1
  <2>. HIDE DEF y
  <2>6. b * y = word - sent[k]
    <3>. DEFINE bz == b * z
                total == b * (q + 1)
                by == b * y
    <3>1. bz \in Int /\ total \in Int
      BY <1>1
    <3>2. by = bz - total /\ bz = total - sent[k] + word
      BY <1>9, <2>2, <2>4, <2>5, Zenon
    <3>. HIDE DEF bz, total, by
    <3>3. by = word - sent[k]
      BY <2>1, <3>1, <3>2
    <3>. QED
      BY <3>3 DEF by
  <2>7. CASE word = sent[k]
    BY <2>7
  <2>8. CASE word > sent[k]
    <3>1. word - sent[k] >= 1 /\ word - sent[k] <= b
      BY <2>1, <2>8
    <3>2. b * y = b
      <4>1. b * y >= 1 /\ b * y <= b
        BY <2>6, <3>1, Zenon
      <4>2. b >= 1 /\ y \in Int
        BY <1>1, <2>5
      <4>. QED
        BY <4>1, <4>2, OneMultiple, Zenon
    <3>3. word - sent[k] = b
      BY <2>6, <3>2
    <3>4. word = b /\ sent[k] = 0
      BY <1>1, <2>1, <3>3
    <3>. QED
      BY <1>1, <3>4
  <2>9. CASE word < sent[k]
    <3>1. b * (-y) = -(b * y) /\ -y \in Int
      BY <1>1, <2>5
    <3>2. b * (-y) = sent[k] - word
      BY <2>1, <2>6, <3>1
    <3>3. sent[k] - word >= 1 /\ sent[k] - word <= b
      BY <2>1, <2>9
    <3>4. b * (-y) = b
      BY <1>1, <3>1, <3>2, <3>3, OneMultiple
    <3>5. sent[k] - word = b
      BY <3>2, <3>4
    <3>6. sent[k] = b /\ word = 0
      BY <1>1, <2>1, <3>5
    <3>. QED
      BY <1>1, <3>6
  <2>. QED
    <3>1. word = sent[k] \/ word > sent[k] \/ word < sent[k]
      BY <2>1
    <3>. QED
      BY <2>7, <2>8, <2>9, <3>1
<1>. QED
  BY <1>3, <1>10, <1>11 DEF sent, c, blank, Words

\* Between any two times, whichever of the clocks is ahead, the difference is a
\* normalised time and the exact one.
THEOREM RoundTripTime ==
    ASSUME NEW out \in [sec : Int, usec : 0 .. Second - 1],
           NEW in \in [sec : Int, usec : 0 .. Second - 1]
    PROVE  Elapses(out, in)
<1>1. PICK u \in Nat : u = Second /\ u >= 1
  BY SecondAssumption
<1>2. PICK a, c \in Int, p, r \in 0 .. u - 1 :
         out.sec = a /\ in.sec = c /\ out.usec = p /\ in.usec = r
  BY <1>1
<1>3. (a - c) * u = a * u - c * u /\ (a - 1 - c) * u = a * u - c * u - u
  BY <1>1
<1>4. CASE p - r < 0
  BY <1>1, <1>2, <1>3, <1>4 DEF Elapses, tv_sub, Time
<1>5. CASE p - r >= 0
  BY <1>1, <1>2, <1>3, <1>5 DEF Elapses, tv_sub, Time
<1>. QED
  BY <1>1, <1>4, <1>5

-----------------------------------------------------------------------------

(***************************************************************************)
(* The options.  Their fields keep their types, and the mechanism is the one *)
(* the last of the three options that decide it asked for.                 *)
(***************************************************************************)

\* Which of the three options decided last, and what their fields say then.
Decided ==
    /\ opts.mechanism = IF asked = "nothing" THEN "NULL" ELSE "PLAIN"
    /\ asked = "server" => opts.as_server = 1
    /\ asked = "client" => opts.as_server = 0
    /\ asked \in {"nothing", "server", "client"}

\* The options are a record of these fields, of the right types.
Fields ==
    /\ opts = [ints |-> opts.ints, affinity |-> opts.affinity, maxmsgsize |-> opts.maxmsgsize,
               type |-> opts.type, identity |-> opts.identity, mechanism |-> opts.mechanism,
               as_server |-> opts.as_server, strings |-> opts.strings]
    /\ Opt!TypeOK

\* The inductive invariant of the options.
OptInv == Fields /\ Decided

\* What setsockopt is given is a size and a value, an integer if it has its size.
LEMMA ArgsTyped ==
    ASSUME NEW arg \in Opt!Args
    PROVE  /\ arg = Opt!Arg(arg.size, arg.value) /\ arg.size \in Nat
           /\ arg.size \in {Opt!IntSize, Opt!LongSize} => arg.value \in Int
           /\ arg.value \in {b.value : b \in Blobs} \cup Ints
BY BlobsAssumption DEF Opt!Args, Opt!Arg, Opt!IntSize, Opt!LongSize

\* The defaults.
LEMMA OptionsStart == Opt!Init => OptInv
<1>. SUFFICES ASSUME Opt!Init PROVE OptInv
  OBVIOUS
<1>1. Opt!Default \in [Opt!IntOptions -> Int]
  BY DEF Opt!Default
<1>2. Opt!Nothing \in [size : 0 .. 255, value : {b.value : b \in Blobs} \cup Ints \cup {NoValue}]
  BY DEF Opt!Nothing, Opt!Arg
<1>. QED
  BY <1>1, <1>2 DEF Opt!Init, OptInv, Fields, Decided, Opt!TypeOK

\* The field an option of an integer is in.
FieldOf(option) == IF option = "IPV4ONLY" THEN "IPV6" ELSE option

\* What an option shows depends on its own fields alone.
LEMMA ShownOfField ==
    ASSUME NEW option \in Opt!OptionNames,
           option \in Opt!IntOptions => opts.ints'[FieldOf(option)] = opts.ints[FieldOf(option)],
           option = "PLAIN_SERVER" =>
               opts.as_server' = opts.as_server /\ opts.mechanism' = opts.mechanism,
           option = "MECHANISM" => opts.mechanism' = opts.mechanism,
           option = "TYPE" => opts.type' = opts.type,
           option = "AFFINITY" => opts.affinity' = opts.affinity,
           option = "MAXMSGSIZE" => opts.maxmsgsize' = opts.maxmsgsize,
           option = "IDENTITY" => opts.identity' = opts.identity,
           option \in Opt!StringOptions => opts.strings'[option] = opts.strings[option]
    PROVE  Opt!Shown(option)' = Opt!Shown(option)
<1>. USE DEF Opt!Shown, Opt!getsockopt, FieldOf
<1>1. CASE option \in Opt!IntOptions
  BY <1>1 DEF Opt!GetInt, Opt!IntOptions, Opt!LongOptions, Opt!StringOptions, Opt!Credentials,
     Opt!NonNegative, Opt!Positive, Opt!FromMinusOne, Opt!Flags
<1>2. CASE option \in Opt!LongOptions
  BY <1>2 DEF Opt!GetLong, Opt!IntOptions, Opt!LongOptions, Opt!StringOptions,
     Opt!Credentials,
     Opt!NonNegative, Opt!Positive, Opt!FromMinusOne, Opt!Flags
<1>3. CASE option \in Opt!StringOptions
  BY <1>3 DEF Opt!GetString, Opt!IntOptions, Opt!LongOptions, Opt!StringOptions,
     Opt!Credentials,
     Opt!NonNegative, Opt!Positive, Opt!FromMinusOne, Opt!Flags
<1>4. CASE option \in {"IDENTITY", "TYPE", "MECHANISM", "PLAIN_SERVER", "TCP_ACCEPT_FILTER"}
  BY <1>4 DEF Opt!GetIdentity, Opt!GetInt, Opt!IntOptions, Opt!LongOptions,
     Opt!StringOptions, Opt!Credentials,
     Opt!NonNegative, Opt!Positive, Opt!FromMinusOne, Opt!Flags
<1>. QED
  BY <1>1, <1>2, <1>3, <1>4 DEF Opt!OptionNames, Opt!PlainOptions, Opt!StringOptions

\* What the options of an integer leave in a buffer.
LEMMA IntShown ==
    ASSUME NEW option \in Opt!IntOptions \cup {"PLAIN_SERVER", "TYPE", "MECHANISM"}, NEW size
    PROVE  /\ Opt!getsockopt(option, size)
                 = IF size = Opt!IntSize THEN Opt!Arg(Opt!IntSize, Opt!GetInt(option)) ELSE EINVAL
           /\ Opt!getsockopt(option, size)'
                 = IF size = Opt!IntSize THEN Opt!Arg(Opt!IntSize, Opt!GetInt(option)') ELSE EINVAL
<1>1. /\ option \notin Opt!LongOptions /\ option # "IDENTITY" /\ option \notin Opt!StringOptions
  BY DEF Opt!IntOptions, Opt!LongOptions, Opt!StringOptions, Opt!Credentials,
     Opt!NonNegative, Opt!Positive, Opt!FromMinusOne, Opt!Flags
<1>. QED
  BY <1>1 DEF Opt!getsockopt

\* What a call must do.
Kept == OptInv' /\ Opt!SetThenGet' /\ Opt!OthersShown

\* One lemma for each kind of call: an int,
LEMMA IntSet == ASSUME OptInv, Opt!SetInt PROVE Kept
<1>1. PICK option \in Opt!IntOptions, arg \in Opt!Args :
         /\ arg.size = Opt!IntSize /\ Opt!Accepts(option, arg.value)
         /\ Opt!Accepted(option, arg, Opt!WithInt(option, arg.value))
         /\ Opt!Other
  BY DEF Opt!SetInt
<1>2. arg = Opt!Arg(Opt!IntSize, arg.value) /\ arg.value \in Int
  BY <1>1, ArgsTyped
<1>. DEFINE value == IF option = "IPV4ONLY" THEN 1 - arg.value ELSE arg.value
<1>3. opts' = [opts EXCEPT !.ints[FieldOf(option)] = value]
  BY <1>1 DEF Opt!Accepted, Opt!WithInt, FieldOf
<1>4. FieldOf(option) \in Opt!IntOptions /\ value \in Int
  BY <1>2 DEF FieldOf, Opt!IntOptions, Opt!Flags
<1>5. /\ opts'.ints = [opts.ints EXCEPT ![FieldOf(option)] = value]
      /\ opts'.mechanism = opts.mechanism /\ opts'.as_server = opts.as_server
      /\ opts'.type = opts.type /\ opts'.identity = opts.identity
      /\ opts'.affinity = opts.affinity /\ opts'.maxmsgsize = opts.maxmsgsize
      /\ opts'.strings = opts.strings /\ Fields'
  BY <1>3, <1>4 DEF OptInv, Fields, Opt!TypeOK
<1>6. last' = [option |-> option, arg |-> arg, ok |-> TRUE] /\ asked' = asked
  BY <1>1 DEF Opt!Accepted, Opt!Other
<1>7. OptInv'
  BY <1>5, <1>6 DEF OptInv, Decided
<1>8. \A size : Opt!getsockopt(option, size)'
                  = IF size = Opt!IntSize THEN Opt!Arg(Opt!IntSize, arg.value) ELSE EINVAL
  <2>1. opts'.ints[FieldOf(option)] = value
    BY <1>4, <1>5 DEF OptInv, Fields, Opt!TypeOK
  <2>2. Opt!GetInt(option)' = arg.value
    BY <1>2, <2>1 DEF Opt!GetInt, FieldOf, Opt!IntOptions, Opt!LongOptions,
       Opt!StringOptions, Opt!Credentials, Opt!PlainOptions,
       Opt!NonNegative, Opt!Positive, Opt!FromMinusOne, Opt!Flags
  <2>. QED
    BY <1>1, <2>2, IntShown
<1>9. Opt!SetThenGet'
  <2>1. option \notin Opt!StringOptions
    BY DEF Opt!IntOptions, Opt!LongOptions, Opt!StringOptions, Opt!Credentials,
       Opt!PlainOptions,
       Opt!NonNegative, Opt!Positive, Opt!FromMinusOne, Opt!Flags
  <2>2. arg.size + 0 = Opt!IntSize
    BY <1>1 DEF Opt!IntSize
  <2>. QED
    BY <1>1, <1>6, <1>8, <2>1, <2>2 DEF Opt!SetThenGet
<1>10. ASSUME NEW o \in Opt!OptionNames, Opt!Shown(o)' # Opt!Shown(o)
       PROVE  o = option \/ {o, option} \subseteq {"IPV4ONLY", "IPV6"}
  <2>1. o \in Opt!IntOptions /\ opts'.ints[FieldOf(o)] # opts.ints[FieldOf(o)]
    BY <1>5, <1>10, ShownOfField
  <2>2. FieldOf(o) \in Opt!IntOptions
    BY <2>1 DEF FieldOf, Opt!IntOptions, Opt!Flags
  <2>3. FieldOf(o) = FieldOf(option)
    BY <1>5, <2>1, <2>2 DEF OptInv, Fields, Opt!TypeOK
  <2>. QED
    BY <2>3 DEF FieldOf
<1>11. Opt!OthersShown
  BY <1>6, <1>10 DEF Opt!OthersShown, Opt!SameFields
<1>. QED
  BY <1>7, <1>9, <1>11 DEF Kept

\* a 64-bit integer,
LEMMA LongSet == ASSUME OptInv, Opt!SetLong PROVE Kept
<1>1. PICK option \in {"AFFINITY", "MAXMSGSIZE"}, arg \in Opt!Args :
         /\ arg.size = Opt!LongSize
         /\ Opt!Accepted(option, arg, IF option = "AFFINITY" THEN [opts EXCEPT !.affinity = arg.value]
                                      ELSE [opts EXCEPT !.maxmsgsize = arg.value])
         /\ Opt!Other
  BY DEF Opt!SetLong
<1>2. arg = Opt!Arg(Opt!LongSize, arg.value)
  BY <1>1, ArgsTyped
<1>3. /\ last' = [option |-> option, arg |-> arg, ok |-> TRUE] /\ asked' = asked
      /\ option = "AFFINITY" => opts' = [opts EXCEPT !.affinity = arg.value]
      /\ option = "MAXMSGSIZE" => opts' = [opts EXCEPT !.maxmsgsize = arg.value]
  BY <1>1 DEF Opt!Accepted, Opt!Other
<1>4. /\ opts'.ints = opts.ints
      /\ opts'.mechanism = opts.mechanism /\ opts'.as_server = opts.as_server
      /\ opts'.type = opts.type /\ opts'.identity = opts.identity
      /\ opts'.affinity = (IF option = "AFFINITY" THEN arg.value ELSE opts.affinity)
      /\ opts'.maxmsgsize = (IF option = "MAXMSGSIZE" THEN arg.value ELSE opts.maxmsgsize)
      /\ opts'.strings = opts.strings /\ Fields'
  BY <1>3 DEF OptInv, Fields, Opt!TypeOK
<1>5. OptInv'
  BY <1>3, <1>4 DEF OptInv, Decided
<1>6. \A size : Opt!getsockopt(option, size)'
                  = IF size = Opt!LongSize THEN Opt!Arg(Opt!LongSize, arg.value) ELSE EINVAL
  <2>1. Opt!GetLong(option)' = arg.value
    BY <1>3, <1>4 DEF Opt!GetLong
  <2>. QED
    BY <1>3, <2>1 DEF Opt!getsockopt, Opt!IntOptions, Opt!LongOptions, Opt!StringOptions,
       Opt!Credentials, Opt!PlainOptions,
       Opt!NonNegative, Opt!Positive, Opt!FromMinusOne, Opt!Flags
<1>7. Opt!SetThenGet'
  <2>1. option \notin Opt!StringOptions
    BY <1>3 DEF Opt!IntOptions, Opt!LongOptions, Opt!StringOptions, Opt!Credentials,
       Opt!PlainOptions,
       Opt!NonNegative, Opt!Positive, Opt!FromMinusOne, Opt!Flags
  <2>2. arg.size + 0 = Opt!LongSize
    BY <1>1 DEF Opt!LongSize
  <2>. QED
    BY <1>1, <1>3, <1>6, <2>1, <2>2 DEF Opt!SetThenGet
<1>8. ASSUME NEW o \in Opt!OptionNames, Opt!Shown(o)' # Opt!Shown(o) PROVE o = option
  BY <1>3, <1>4, <1>8, ShownOfField
<1>9. Opt!OthersShown
  BY <1>3, <1>8 DEF Opt!OthersShown
<1>. QED
  BY <1>5, <1>7, <1>9 DEF Kept

\* the identity,
LEMMA IdentitySet == ASSUME OptInv, Opt!SetIdentity PROVE Kept
<1>1. PICK arg \in Opt!Args :
         /\ Opt!IsIdentity(arg)
         /\ Opt!Accepted("IDENTITY", arg, [opts EXCEPT !.identity = arg])
         /\ Opt!Other
  BY DEF Opt!SetIdentity
<1>2. arg = Opt!Arg(arg.size, arg.value) /\ arg.size \in Nat
  BY <1>1, ArgsTyped
<1>3. /\ last' = [option |-> "IDENTITY", arg |-> arg, ok |-> TRUE] /\ asked' = asked
      /\ opts' = [opts EXCEPT !.identity = arg]
  BY <1>1 DEF Opt!Accepted, Opt!Other
<1>4. /\ opts'.ints = opts.ints
      /\ opts'.mechanism = opts.mechanism /\ opts'.as_server = opts.as_server
      /\ opts'.type = opts.type /\ opts'.identity = arg
      /\ opts'.affinity = opts.affinity /\ opts'.maxmsgsize = opts.maxmsgsize
      /\ opts'.strings = opts.strings /\ Fields'
  BY <1>3 DEF OptInv, Fields, Opt!TypeOK
<1>5. OptInv'
  BY <1>3, <1>4 DEF OptInv, Decided
<1>6. \A size : Opt!getsockopt("IDENTITY", size)' = IF size >= arg.size THEN arg ELSE EINVAL
  BY <1>4 DEF Opt!getsockopt, Opt!GetIdentity, Opt!IntOptions, Opt!LongOptions,
     Opt!StringOptions, Opt!Credentials, Opt!PlainOptions,
       Opt!NonNegative, Opt!Positive, Opt!FromMinusOne, Opt!Flags
<1>7. Opt!SetThenGet'
  <2>1. "IDENTITY" \notin Opt!StringOptions
    BY DEF Opt!IntOptions, Opt!LongOptions, Opt!StringOptions, Opt!Credentials,
       Opt!PlainOptions,
       Opt!NonNegative, Opt!Positive, Opt!FromMinusOne, Opt!Flags
  <2>2. arg.size + 0 = arg.size /\ arg.size >= arg.size
    BY <1>2
  <2>. QED
    BY <1>2, <1>3, <1>6, <2>1, <2>2 DEF Opt!SetThenGet
<1>8. ASSUME NEW o \in Opt!OptionNames, Opt!Shown(o)' # Opt!Shown(o) PROVE o = "IDENTITY"
  BY <1>3, <1>4, <1>8, ShownOfField
<1>9. Opt!OthersShown
  BY <1>3, <1>8 DEF Opt!OthersShown
<1>. QED
  BY <1>5, <1>7, <1>9 DEF Kept

\* the role, which decides the mechanism,
LEMMA PlainServerSet == ASSUME OptInv, Opt!SetPlainServer PROVE Kept
<1>1. PICK arg \in Opt!Args :
         /\ arg.size = Opt!IntSize /\ arg.value \in {0, 1}
         /\ Opt!Accepted("PLAIN_SERVER", arg,
                         [opts EXCEPT !.as_server = arg.value,
                                      !.mechanism = IF arg.value = 1 THEN "PLAIN" ELSE "NULL"])
         /\ asked' = IF arg.value = 1 THEN "server" ELSE "nothing"
  BY DEF Opt!SetPlainServer
<1>2. arg = Opt!Arg(Opt!IntSize, arg.value)
  BY <1>1, ArgsTyped
<1>3. last' = [option |-> "PLAIN_SERVER", arg |-> arg, ok |-> TRUE]
  BY <1>1 DEF Opt!Accepted
<1>4. /\ opts'.ints = opts.ints
      /\ opts'.mechanism = (IF arg.value = 1 THEN "PLAIN" ELSE "NULL")
      /\ opts'.as_server = arg.value
      /\ opts'.type = opts.type /\ opts'.identity = opts.identity
      /\ opts'.affinity = opts.affinity /\ opts'.maxmsgsize = opts.maxmsgsize
      /\ opts'.strings = opts.strings /\ Fields'
  BY <1>1 DEF Opt!Accepted, OptInv, Fields, Opt!TypeOK
<1>5. OptInv'
  BY <1>1, <1>4 DEF OptInv, Decided
<1>6. \A size : Opt!getsockopt("PLAIN_SERVER", size)'
                  = IF size = Opt!IntSize THEN Opt!Arg(Opt!IntSize, arg.value) ELSE EINVAL
  <2>1. Opt!GetInt("PLAIN_SERVER")' = arg.value
    BY <1>1, <1>4 DEF Opt!GetInt
  <2>. QED
    BY <2>1, IntShown
<1>7. Opt!SetThenGet'
  <2>1. "PLAIN_SERVER" \notin Opt!StringOptions
    BY DEF Opt!IntOptions, Opt!LongOptions, Opt!StringOptions, Opt!Credentials,
       Opt!PlainOptions,
       Opt!NonNegative, Opt!Positive, Opt!FromMinusOne, Opt!Flags
  <2>2. arg.size + 0 = Opt!IntSize
    BY <1>1 DEF Opt!IntSize
  <2>. QED
    BY <1>1, <1>3, <1>6, <2>1, <2>2 DEF Opt!SetThenGet
<1>8. ASSUME NEW o \in Opt!OptionNames, Opt!Shown(o)' # Opt!Shown(o)
      PROVE  o \in {"PLAIN_SERVER", "MECHANISM"}
  BY <1>4, <1>8, ShownOfField
<1>9. Opt!OthersShown
  BY <1>3, <1>8 DEF Opt!OthersShown, Opt!SameFields, Opt!PlainOptions
<1>. QED
  BY <1>5, <1>7, <1>9 DEF Kept

\* A string option that is set shows what it was set to, with its terminating zero.
LEMMA StringShows ==
    ASSUME NEW option \in Opt!StringOptions, NEW arg, arg = Opt!Arg(arg.size, arg.value), arg.size \in Nat,
           last' = [option |-> option, arg |-> arg, ok |-> TRUE],
           opts'.strings[option] = arg
    PROVE  Opt!SetThenGet'
<1>1. \A size : Opt!getsockopt(option, size)'
                  = IF size >= arg.size + 1 THEN Opt!Arg(arg.size + 1, arg.value) ELSE EINVAL
  <2>1. [arg EXCEPT !.size = @ + 1] = Opt!Arg(arg.size + 1, arg.value)
    BY DEF Opt!Arg
  <2>. QED
    BY <2>1 DEF Opt!getsockopt, Opt!GetString, Opt!IntOptions, Opt!LongOptions,
       Opt!StringOptions, Opt!Credentials, Opt!PlainOptions,
       Opt!NonNegative, Opt!Positive, Opt!FromMinusOne, Opt!Flags
<1>2. arg.size + 1 >= arg.size + 1
  OBVIOUS
<1>. QED
  BY <1>1, <1>2 DEF Opt!SetThenGet

\* a user name or a password, which do too,
LEMMA CredentialSet == ASSUME OptInv, Opt!SetCredential PROVE Kept
<1>1. PICK option \in Opt!Credentials, arg \in Blobs :
         /\ Opt!IsCredential(arg)
         /\ Opt!Accepted(option, arg, [opts EXCEPT !.strings[option] = arg, !.as_server = 0,
                                              !.mechanism = "PLAIN"])
         /\ asked' = "client"
  BY DEF Opt!SetCredential
<1>2. arg = Opt!Arg(arg.size, arg.value) /\ arg.size \in 0 .. 255 /\ option \in Opt!StringOptions
  BY <1>1, BlobsAssumption DEF Opt!Arg, Opt!IsCredential, Opt!StringOptions
<1>3. last' = [option |-> option, arg |-> arg, ok |-> TRUE]
  BY <1>1 DEF Opt!Accepted
<1>4. /\ opts'.ints = opts.ints
      /\ opts'.mechanism = "PLAIN" /\ opts'.as_server = 0
      /\ opts'.type = opts.type /\ opts'.identity = opts.identity
      /\ opts'.affinity = opts.affinity /\ opts'.maxmsgsize = opts.maxmsgsize
      /\ opts'.strings = [opts.strings EXCEPT ![option] = arg]
      /\ opts' = [ints |-> opts'.ints, affinity |-> opts'.affinity, maxmsgsize |-> opts'.maxmsgsize,
                  type |-> opts'.type, identity |-> opts'.identity, mechanism |-> opts'.mechanism,
                  as_server |-> opts'.as_server, strings |-> opts'.strings]
  BY <1>1 DEF Opt!Accepted, OptInv, Fields
<1>5. OptInv'
  <2>1. arg \in [size : 0 .. 255, value : {b.value : b \in Blobs} \cup Ints \cup {NoValue}]
    BY <1>1, <1>2 DEF Opt!Arg
  <2>. QED
    BY <1>1, <1>2, <1>4, <2>1 DEF OptInv, Fields, Decided, Opt!TypeOK
<1>6. /\ opts'.strings[option] = arg
      /\ \A o \in Opt!StringOptions : o # option => opts'.strings[o] = opts.strings[o]
  BY <1>2, <1>4 DEF OptInv, Fields, Opt!TypeOK
<1>7. Opt!SetThenGet'
  BY <1>2, <1>3, <1>6, StringShows
<1>8. ASSUME NEW o \in Opt!OptionNames, Opt!Shown(o)' # Opt!Shown(o)
      PROVE  o \in {option, "PLAIN_SERVER", "MECHANISM"}
  BY <1>4, <1>6, <1>8, ShownOfField
<1>9. Opt!OthersShown
  BY <1>1, <1>3, <1>8 DEF Opt!OthersShown, Opt!SameFields, Opt!PlainOptions
<1>. QED
  BY <1>5, <1>7, <1>9 DEF Kept

\* one that is taken back,
LEMMA CredentialDropped == ASSUME OptInv, Opt!DropCredential PROVE Kept
<1>1. PICK option \in Opt!Credentials :
         /\ Opt!Accepted(option, Opt!Nothing, [opts EXCEPT !.mechanism = "NULL"])
         /\ asked' = "nothing"
  BY DEF Opt!DropCredential
<1>2. last' = [option |-> option, arg |-> Opt!Nothing, ok |-> TRUE]
  BY <1>1 DEF Opt!Accepted
<1>3. /\ opts'.ints = opts.ints
      /\ opts'.mechanism = "NULL" /\ opts'.as_server = opts.as_server
      /\ opts'.type = opts.type /\ opts'.identity = opts.identity
      /\ opts'.affinity = opts.affinity /\ opts'.maxmsgsize = opts.maxmsgsize
      /\ opts'.strings = opts.strings /\ Fields'
  BY <1>1 DEF Opt!Accepted, OptInv, Fields, Opt!TypeOK
<1>4. OptInv'
  BY <1>1, <1>3 DEF OptInv, Decided
<1>5. Opt!SetThenGet'
  BY <1>2 DEF Opt!SetThenGet
<1>6. ASSUME NEW o \in Opt!OptionNames, Opt!Shown(o)' # Opt!Shown(o)
      PROVE  o \in {"PLAIN_SERVER", "MECHANISM"}
  BY <1>3, <1>6, ShownOfField
<1>7. Opt!OthersShown
  BY <1>1, <1>2, <1>6 DEF Opt!OthersShown, Opt!SameFields, Opt!PlainOptions
<1>. QED
  BY <1>4, <1>5, <1>7 DEF Kept

\* the domain,
LEMMA ZapDomainSet == ASSUME OptInv, Opt!SetZapDomain PROVE Kept
<1>1. PICK arg \in Blobs :
         /\ arg.size < 256
         /\ Opt!Accepted("ZAP_DOMAIN", arg, [opts EXCEPT !.strings["ZAP_DOMAIN"] = arg])
         /\ Opt!Other
  BY DEF Opt!SetZapDomain
<1>2. arg = Opt!Arg(arg.size, arg.value) /\ arg.size \in 0 .. 255 /\ "ZAP_DOMAIN" \in Opt!StringOptions
  BY <1>1, BlobsAssumption DEF Opt!Arg, Opt!StringOptions
<1>3. last' = [option |-> "ZAP_DOMAIN", arg |-> arg, ok |-> TRUE] /\ asked' = asked
  BY <1>1 DEF Opt!Accepted, Opt!Other
<1>4. /\ opts'.ints = opts.ints
      /\ opts'.mechanism = opts.mechanism /\ opts'.as_server = opts.as_server
      /\ opts'.type = opts.type /\ opts'.identity = opts.identity
      /\ opts'.affinity = opts.affinity /\ opts'.maxmsgsize = opts.maxmsgsize
      /\ opts'.strings = [opts.strings EXCEPT !["ZAP_DOMAIN"] = arg]
      /\ opts' = [ints |-> opts'.ints, affinity |-> opts'.affinity, maxmsgsize |-> opts'.maxmsgsize,
                  type |-> opts'.type, identity |-> opts'.identity, mechanism |-> opts'.mechanism,
                  as_server |-> opts'.as_server, strings |-> opts'.strings]
  BY <1>1 DEF Opt!Accepted, OptInv, Fields
<1>5. OptInv'
  <2>1. arg \in [size : 0 .. 255, value : {b.value : b \in Blobs} \cup Ints \cup {NoValue}]
    BY <1>1, <1>2 DEF Opt!Arg
  <2>. QED
    BY <1>3, <1>2, <1>4, <2>1 DEF OptInv, Fields, Decided, Opt!TypeOK
<1>6. /\ opts'.strings["ZAP_DOMAIN"] = arg
      /\ \A o \in Opt!StringOptions : o # "ZAP_DOMAIN" => opts'.strings[o] = opts.strings[o]
  BY <1>2, <1>4 DEF OptInv, Fields, Opt!TypeOK
<1>7. Opt!SetThenGet'
  BY <1>2, <1>3, <1>6, StringShows
<1>8. ASSUME NEW o \in Opt!OptionNames, Opt!Shown(o)' # Opt!Shown(o)
      PROVE o = "ZAP_DOMAIN"
  BY <1>4, <1>6, <1>8, ShownOfField
<1>9. Opt!OthersShown
  BY <1>3, <1>8 DEF Opt!OthersShown
<1>. QED
  BY <1>5, <1>7, <1>9 DEF Kept

\* and a call that is refused, which changes nothing.
LEMMA CallRefused == ASSUME OptInv, Opt!Refuse PROVE Kept
<1>1. /\ opts' = opts /\ asked' = asked
      /\ last' = [option |-> "none", arg |-> Opt!Nothing, ok |-> FALSE]
  BY DEF Opt!Refuse
<1>2. OptInv'
  BY <1>1 DEF OptInv, Fields, Decided, Opt!TypeOK
<1>3. Opt!SetThenGet'
  BY <1>1 DEF Opt!SetThenGet
<1>4. Opt!OthersShown
  BY <1>1, ShownOfField DEF Opt!OthersShown
<1>. QED
  BY <1>2, <1>3, <1>4 DEF Kept

\* Which fields are what was last asked for shows.
LEMMA DecidedShows == OptInv => Opt!PlainAsAsked
<1>. SUFFICES ASSUME OptInv PROVE Opt!PlainAsAsked
  OBVIOUS
<1>1. /\ Opt!getsockopt("PLAIN_SERVER", Opt!IntSize) = Opt!Arg(Opt!IntSize, Opt!GetInt("PLAIN_SERVER"))
      /\ Opt!getsockopt("MECHANISM", Opt!IntSize) = Opt!Arg(Opt!IntSize, Opt!GetInt("MECHANISM"))
  BY IntShown
<1>2. Opt!GetInt("PLAIN_SERVER") = IF asked = "server" THEN 1 ELSE 0
  BY DEF OptInv, Fields, Decided, Opt!GetInt, Opt!TypeOK
<1>3. Opt!GetInt("MECHANISM") = IF asked = "nothing" THEN "NULL" ELSE "PLAIN"
  BY DEF OptInv, Decided, Opt!GetInt
<1>. QED
  BY <1>1, <1>2, <1>3 DEF Opt!PlainAsAsked, Opt!Arg

\* Whatever integers and byte strings options are given: a call that is accepted can be
\* read back by any buffer that is large enough, it changes what no other option
\* shows, and the mechanism and role are those last asked for.
THEOREM OptionsAreAsSet == Opt!Spec => OptionsAsSet
<1>1. OptInv /\ Opt!Next => Kept
  BY IntSet, LongSet, IdentitySet, PlainServerSet, CredentialSet, CredentialDropped,
     ZapDomainSet, CallRefused DEF Opt!Next
<1>2. OptInv /\ [Opt!Next]_<<opts, last, asked, others>> => OptInv'
  BY <1>1 DEF Kept, OptInv, Fields, Decided, Opt!TypeOK
<1>0. OptInv => Opt!TypeOK /\ Opt!PlainAsAsked
  BY DecidedShows DEF OptInv, Fields
<1>3. OptInv' => (Opt!TypeOK /\ Opt!PlainAsAsked)'
  BY <1>0, PTL
<1>4. OptInv /\ [Opt!Next]_<<opts, last, asked, others>> =>
        [/\ Opt!OthersShown
         /\ (Opt!TypeOK /\ Opt!SetThenGet /\ Opt!PlainAsAsked)']_<<opts, last, asked, others>>
  BY <1>1, <1>3 DEF Kept
<1>. QED
  BY <1>2, <1>4, OptionsStart, PTL DEF Opt!Spec, Opt!vars, OptionsAsSet

-----------------------------------------------------------------------------

(***************************************************************************)
(* The strings.  The memory is sound: every representation has one owner,  *)
(* room for its size and the end mark after it, and is in proportion.  Every *)
(* operation keeps it so, and gives its string the value it should have.   *)
(***************************************************************************)

\* What texts are made of, and what is in memory.
Letters == (UNION {{chars[k] : k \in DOMAIN chars} : chars \in Texts}) \ {Nul, Junk}
Bytes == Letters \cup {Nul, Junk}
Cells == [size : Nat, capacity : Nat, str : Seq(Bytes)]

\* A representation that holds a text.
Sound(c) ==
    /\ c \in Cells /\ c.size <= c.capacity /\ Len(c.str) = c.capacity + 1
    /\ c.str[c.size + 1] = Nul
    /\ \A k \in 1 .. c.size : c.str[k] \in Letters

\* The text of a representation.
TextOf(c) == SubSeq(c.str, 1, c.size)

\* The memory has the static representation, and only sound ones.
HeapSound(h) ==
    /\ h = [r \in DOMAIN h |-> h[r]]
    /\ NullRep \in DOMAIN h /\ DOMAIN h \subseteq Reps \cup {NullRep}
    /\ h[NullRep] = Str!StaticRep
    /\ \A r \in DOMAIN h : Sound(h[r])

\* Strings have representations of the memory, and each but the static one has
\* one string.
Owned(rp, h) ==
    /\ rp \in [DOMAIN rp -> DOMAIN h] /\ DOMAIN rp \subseteq Strings
    /\ \A r \in DOMAIN h \ {NullRep} : \E s \in DOMAIN rp : rp[s] = r
    /\ \A s, t \in DOMAIN rp : rp[s] = rp[t] /\ rp[s] # NullRep => s = t

\* The inductive invariant, of strings rp and a heap h.
Whole(rp, h) == HeapSound(h) /\ Owned(rp, h)

\* The texts of the strings.
ValuesOf(rp, h) == [s \in DOMAIN rp |-> TextOf(h[rp[s]])]

\* The function f, with b at a.
Put(f, a, b) == [f EXCEPT ![a] = b]

\* A representation in proportion to its text, or no larger than what was reserved.
Tight(c) == c.capacity <= 3 * (c.size + Slack) \/ c.capacity <= MaxReserve

-----------------------------------------------------------------------------

\* Texts have no end mark in them.
LEMMA TextsAreLetters == ASSUME NEW chars \in Texts PROVE chars \in Seq(Letters)
<1>1. {chars[k] : k \in DOMAIN chars} \ {Nul, Junk} \subseteq Letters
  BY DEF Letters
<1>2. chars \in Seq({chars[k] : k \in DOMAIN chars} \ {Nul, Junk})
  BY TextsAssumption
<1>. QED
  BY ONLY <1>1, <1>2, SeqMonotonic

\* Letters can be stored.
LEMMA LettersAreBytes == ASSUME NEW chars \in Seq(Letters) PROVE chars \in Seq(Bytes)
<1>1. Letters \subseteq Bytes
  BY DEF Bytes
<1>. QED
  BY ONLY <1>1, SeqMonotonic

\* The text of a sound representation is one of letters, as long as its size.
LEMMA TextTyped ==
    ASSUME NEW c, Sound(c)
    PROVE  /\ TextOf(c) \in Seq(Letters) /\ Len(TextOf(c)) = c.size
           /\ \A k \in 1 .. c.size : TextOf(c)[k] = c.str[k]
<1>1. c.size \in Nat /\ \A k \in 1 .. c.size : c.str[k] \in Letters
  BY DEF Sound, Cells
<1>2. /\ SubSeq(c.str, 1, c.size) \in Seq(Letters)
      /\ Len(SubSeq(c.str, 1, c.size)) = IF 1 <= c.size THEN c.size - 1 + 1 ELSE 0
      /\ \A k \in 1 .. c.size - 1 + 1 : SubSeq(c.str, 1, c.size)[k] = c.str[1 + k - 1]
  BY <1>1, SubSeqProperties
<1>. QED
  BY <1>1, <1>2 DEF TextOf

\* memcpy into the memory of c.
Copied(c, at, chars) ==
    SubSeq(c.str, 1, at) \o chars \o SubSeq(c.str, at + Len(chars) + 1, Len(c.str))

\* Every byte after memcpy.
LEMMA CopiedIs ==
    ASSUME NEW c \in Cells, NEW at \in Nat, NEW chars \in Seq(Letters),
           at + Len(chars) <= c.capacity, Len(c.str) = c.capacity + 1
    PROVE  /\ Copied(c, at, chars) \in Seq(Bytes)
           /\ Len(Copied(c, at, chars)) = Len(c.str)
           /\ \A k \in 1 .. Len(c.str) :
                Copied(c, at, chars)[k] = IF k <= at THEN c.str[k]
                                          ELSE IF k <= at + Len(chars) THEN chars[k - at]
                                          ELSE c.str[k]
<1>. DEFINE n == Len(chars)
            all == Len(c.str)
            a == SubSeq(c.str, 1, at)
            z == SubSeq(c.str, at + n + 1, all)
<1>1. c.str \in Seq(Bytes) /\ c.capacity \in Nat /\ chars \in Seq(Bytes)
  BY LettersAreBytes DEF Cells
<1>2. n \in Nat /\ all \in Nat /\ at + n + 1 <= all
  BY <1>1, LenProperties
<1>3. \A k \in 1 .. all : c.str[k] \in Bytes
  BY <1>1, ElementOfSeq
<1>. HIDE DEF n, all
<1>4. /\ a \in Seq(Bytes) /\ Len(a) = at /\ \A k \in 1 .. at : a[k] = c.str[k]
  <2>1. \A k \in 1 .. at : c.str[k] \in Bytes
    BY <1>2, <1>3
  <2>2. /\ a \in Seq(Bytes) /\ Len(a) = (IF 1 <= at THEN at - 1 + 1 ELSE 0)
        /\ \A k \in 1 .. at - 1 + 1 : a[k] = c.str[1 + k - 1]
    BY <2>1, SubSeqProperties
  <2>. QED
    BY <2>2
<1>5. /\ z \in Seq(Bytes) /\ Len(z) = all - at - n
      /\ \A k \in 1 .. all - at - n : z[k] = c.str[at + n + k]
  <2>1. \A k \in at + n + 1 .. all : c.str[k] \in Bytes
    BY <1>2, <1>3
  <2>2. /\ z \in Seq(Bytes)
        /\ Len(z) = (IF at + n + 1 <= all THEN all - (at + n + 1) + 1 ELSE 0)
        /\ \A k \in 1 .. all - (at + n + 1) + 1 : z[k] = c.str[at + n + 1 + k - 1]
    <3>. DEFINE m == at + n + 1
    <3>1. m \in Int /\ \A k \in m .. all : c.str[k] \in Bytes
      BY <1>2, <2>1
    <3>. HIDE DEF m
    <3>2. /\ SubSeq(c.str, m, all) \in Seq(Bytes)
          /\ Len(SubSeq(c.str, m, all)) = (IF m <= all THEN all - m + 1 ELSE 0)
          /\ \A k \in 1 .. all - m + 1 : SubSeq(c.str, m, all)[k] = c.str[m + k - 1]
      BY <1>2, <3>1, SubSeqProperties
    <3>. QED
      BY <3>2 DEF m
  <2>3. \A k \in Int : at + n + 1 + k - 1 = at + n + k
    BY <1>2
  <2>. QED
    BY <1>2, <2>2, <2>3
<1>. HIDE DEF a, z
<1>6. /\ a \o chars \in Seq(Bytes) /\ Len(a \o chars) = at + n
      /\ \A k \in 1 .. at + n : (a \o chars)[k] = IF k <= at THEN a[k] ELSE chars[k - at]
  BY <1>1, <1>4, ConcatProperties DEF n
<1>7. /\ a \o chars \o z \in Seq(Bytes) /\ Len(a \o chars \o z) = at + n + Len(z)
      /\ \A k \in 1 .. at + n + Len(z) :
           (a \o chars \o z)[k] = IF k <= at + n THEN (a \o chars)[k] ELSE z[k - (at + n)]
  <2>. DEFINE b == a \o chars
  <2>1. b \in Seq(Bytes) /\ Len(b) = at + n
    BY <1>6
  <2>. HIDE DEF b
  <2>2. /\ b \o z \in Seq(Bytes) /\ Len(b \o z) = at + n + Len(z)
        /\ \A k \in 1 .. at + n + Len(z) :
             (b \o z)[k] = IF k <= at + n THEN b[k] ELSE z[k - (at + n)]
    <3>1. /\ b \o z \in Seq(Bytes) /\ Len(b \o z) = Len(b) + Len(z)
          /\ \A k \in 1 .. Len(b) + Len(z) :
               (b \o z)[k] = IF k <= Len(b) THEN b[k] ELSE z[k - Len(b)]
      BY <1>5, <2>1, ConcatProperties
    <3>. QED
      BY <2>1, <3>1
  <2>. QED
    BY <2>2 DEF b
<1>8. Copied(c, at, chars) = a \o chars \o z
  BY DEF Copied, a, z, n, all
<1>9. at + n + Len(z) = all
  BY <1>2, <1>5
<1>10. ASSUME NEW k \in 1 .. all
       PROVE  (a \o chars \o z)[k] = IF k <= at THEN c.str[k]
                                     ELSE IF k <= at + n THEN chars[k - at] ELSE c.str[k]
  <2>1. CASE k <= at + n
    BY <1>2, <1>4, <1>6, <1>7, <1>9, <2>1
  <2>2. CASE k > at + n
    <3>1. k - (at + n) \in 1 .. all - at - n /\ at + n + (k - (at + n)) = k
      BY <1>2, <2>2
    <3>. QED
      BY <1>2, <1>5, <1>7, <1>9, <2>2, <3>1
  <2>3. k <= at + n \/ k > at + n
    BY <1>2
  <2>. QED
    BY <2>1, <2>2, <2>3, Zenon
<1>. QED
  BY <1>7, <1>8, <1>9, <1>10 DEF n, all

\* Every byte after memcpy to the beginning.
LEMMA CopiedFirst ==
    ASSUME NEW c \in Cells, NEW chars \in Seq(Letters),
           Len(chars) <= c.capacity, Len(c.str) = c.capacity + 1
    PROVE  /\ Copied(c, 0, chars) \in Seq(Bytes)
           /\ Len(Copied(c, 0, chars)) = Len(c.str)
           /\ \A k \in 1 .. Len(c.str) :
                Copied(c, 0, chars)[k] = IF k <= Len(chars) THEN chars[k] ELSE c.str[k]
<1>1. PICK at \in Nat : at = 0
  OBVIOUS
<1>2. Len(chars) \in Nat /\ Len(c.str) \in Nat
  BY LenProperties DEF Cells
<1>3. at + Len(chars) <= c.capacity
  BY <1>1, <1>2
<1>4. /\ Copied(c, at, chars) \in Seq(Bytes)
      /\ Len(Copied(c, at, chars)) = Len(c.str)
      /\ \A k \in 1 .. Len(c.str) :
           Copied(c, at, chars)[k] = IF k <= at THEN c.str[k]
                                     ELSE IF k <= at + Len(chars) THEN chars[k - at]
                                     ELSE c.str[k]
  BY <1>3, CopiedIs
<1>5. ASSUME NEW k \in 1 .. Len(c.str)
      PROVE  Copied(c, at, chars)[k] = IF k <= Len(chars) THEN chars[k] ELSE c.str[k]
  <2>1. ~(k <= at) /\ at + Len(chars) = Len(chars) /\ k - at = k
    BY <1>1, <1>2
  <2>. QED
    BY <1>4, <2>1
<1>6. Copied(c, at, chars) = Copied(c, 0, chars)
  BY <1>1
<1>. QED
  BY <1>4, <1>5, <1>6

\* What memcpy and set_size make of c.
Rewritten(c, at, chars) ==
    [size |-> at + Len(chars), capacity |-> c.capacity,
     str |-> [Copied(c, at, chars) EXCEPT ![at + Len(chars) + 1] = Nul]]

\* Where there is room the representation is sound, and its text the old one up
\* to there and the new one after it.
LEMMA RewrittenSound ==
    ASSUME NEW c, Sound(c), NEW at \in 0 .. c.size, NEW chars \in Seq(Letters),
           at + Len(chars) <= c.capacity
    PROVE  /\ Sound(Rewritten(c, at, chars))
           /\ TextOf(Rewritten(c, at, chars)) = SubSeq(c.str, 1, at) \o chars
<1>. DEFINE n == Len(chars)
            w == Copied(c, at, chars)
            d == Rewritten(c, at, chars)
<1>1. c \in Cells /\ c.size \in Nat /\ c.capacity \in Nat /\ at \in Nat /\ n \in Nat
  BY LenProperties DEF Sound, Cells
<1>2. /\ Len(c.str) = c.capacity + 1 /\ c.size <= c.capacity
      /\ \A k \in 1 .. c.size : c.str[k] \in Letters
  BY DEF Sound
<1>3. /\ w \in Seq(Bytes) /\ Len(w) = c.capacity + 1
      /\ \A k \in 1 .. c.capacity + 1 : w[k] = IF k <= at THEN c.str[k]
                                               ELSE IF k <= at + n THEN chars[k - at] ELSE c.str[k]
  BY <1>1, <1>2, CopiedIs
<1>4. \A k \in 1 .. n : chars[k] \in Letters
  BY ElementOfSeq
<1>. HIDE DEF n, w
<1>5. at + n + 1 \in 1 .. Len(w) /\ Nul \in Bytes /\ at + n <= c.capacity
  BY <1>1, <1>3 DEF Bytes, n
<1>6. /\ [w EXCEPT ![at + n + 1] = Nul] \in Seq(Bytes)
      /\ Len([w EXCEPT ![at + n + 1] = Nul]) = c.capacity + 1
      /\ \A k \in 1 .. c.capacity + 1 :
           [w EXCEPT ![at + n + 1] = Nul][k] = IF k = at + n + 1 THEN Nul ELSE w[k]
  BY <1>3, <1>5, ExceptSeq
<1>7. d = [size |-> at + n, capacity |-> c.capacity, str |-> [w EXCEPT ![at + n + 1] = Nul]]
  BY DEF Rewritten, n, w
<1>. HIDE DEF d
<1>8. /\ d.size = at + n /\ d.capacity = c.capacity
      /\ d.str = [w EXCEPT ![at + n + 1] = Nul] /\ d \in Cells
  BY <1>1, <1>6, <1>7 DEF Cells
<1>9. \A k \in 1 .. at + n : d.str[k] = (IF k <= at THEN c.str[k] ELSE chars[k - at])
  <2>. TAKE k \in 1 .. at + n
  <2>1. k \in 1 .. c.capacity + 1 /\ k # at + n + 1 /\ k <= at + n
    BY <1>1, <1>5
  <2>2. d.str[k] = w[k]
    BY <1>6, <1>8, <2>1
  <2>. QED
    BY <1>3, <2>1, <2>2
<1>10. \A k \in 1 .. at + n : d.str[k] \in Letters
  <2>. TAKE k \in 1 .. at + n
  <2>1. CASE k <= at
    <3>1. k \in 1 .. c.size /\ k <= at
      BY <1>1, <2>1
    <3>. QED
      BY <1>2, <1>9, <3>1
  <2>2. CASE k > at
    <3>1. k - at \in 1 .. n /\ ~(k <= at)
      BY <1>1, <2>2
    <3>. QED
      BY <1>4, <1>9, <3>1
  <2>. QED
    BY <1>1, <2>1, <2>2
<1>11. Sound(d)
  BY <1>1, <1>5, <1>6, <1>8, <1>10 DEF Sound
<1>12. /\ SubSeq(c.str, 1, at) \in Seq(Letters) /\ Len(SubSeq(c.str, 1, at)) = at
       /\ \A k \in 1 .. at : SubSeq(c.str, 1, at)[k] = c.str[k]
  <2>1. \A k \in 1 .. at : c.str[k] \in Letters
    BY <1>1, <1>2
  <2>2. /\ SubSeq(c.str, 1, at) \in Seq(Letters)
        /\ Len(SubSeq(c.str, 1, at)) = (IF 1 <= at THEN at - 1 + 1 ELSE 0)
        /\ \A k \in 1 .. at - 1 + 1 : SubSeq(c.str, 1, at)[k] = c.str[1 + k - 1]
    BY <1>1, <2>1, SubSeqProperties
  <2>. QED
    BY <1>1, <2>2
<1>13. /\ SubSeq(c.str, 1, at) \o chars \in Seq(Letters)
       /\ Len(SubSeq(c.str, 1, at) \o chars) = at + n
       /\ \A k \in 1 .. at + n : (SubSeq(c.str, 1, at) \o chars)[k]
                                   = IF k <= at THEN c.str[k] ELSE chars[k - at]
  <2>. DEFINE a == SubSeq(c.str, 1, at)
  <2>1. /\ a \o chars \in Seq(Letters) /\ Len(a \o chars) = Len(a) + n
        /\ \A k \in 1 .. Len(a) + n : (a \o chars)[k] = IF k <= Len(a) THEN a[k] ELSE chars[k - Len(a)]
    BY <1>12, ConcatProperties DEF n
  <2>. HIDE DEF a
  <2>2. Len(a) = at /\ \A k \in 1 .. at : a[k] = c.str[k]
    BY <1>12 DEF a
  <2>3. \A k \in 1 .. at + n : (a \o chars)[k] = IF k <= at THEN c.str[k] ELSE chars[k - at]
    BY <1>1, <2>1, <2>2
  <2>. QED
    BY <2>1, <2>2, <2>3 DEF a
<1>14. TextOf(d) = SubSeq(c.str, 1, at) \o chars
  <2>. DEFINE a == SubSeq(c.str, 1, at) \o chars
              b == TextOf(d)
  <2>1. b \in Seq(Letters) /\ Len(b) = at + n /\ \A k \in 1 .. at + n : b[k] = d.str[k]
    BY <1>8, <1>11, TextTyped
  <2>2. a \in Seq(Letters) /\ Len(a) = at + n
        /\ \A k \in 1 .. at + n : a[k] = IF k <= at THEN c.str[k] ELSE chars[k - at]
    BY <1>13
  <2>. HIDE DEF a, b
  <2>3. \A k \in 1 .. Len(b) : b[k] = a[k]
    BY <1>9, <2>1, <2>2
  <2>4. b = a
    BY <2>1, <2>2, <2>3, SeqEqual
  <2>. QED
    BY <2>4 DEF a, b
<1>. QED
  BY <1>11, <1>14 DEF d

-----------------------------------------------------------------------------

\* The static representation is sound and empty.
LEMMA StaticSound ==
    /\ Sound(Str!StaticRep) /\ TextOf(Str!StaticRep) = <<>>
    /\ Str!StaticRep.size = 0 /\ Str!StaticRep.capacity = 0
<1>1. /\ Str!StaticRep.size = 0 /\ Str!StaticRep.capacity = 0 /\ Str!StaticRep.str = <<Nul>>
      /\ Nul \in Bytes
  BY DEF Str!StaticRep, Bytes
<1>2. <<Nul>> \in Seq(Bytes) /\ Len(<<Nul>>) = 1 /\ <<Nul>>[1] = Nul
  BY <1>1
<1>3. Str!StaticRep \in Cells
  BY <1>1, <1>2 DEF Str!StaticRep, Cells
<1>4. Sound(Str!StaticRep)
  BY <1>1, <1>2, <1>3 DEF Sound
<1>5. SubSeq(<<Nul>>, 1, 0) = <<>>
  BY SubSeqEmpty
<1>. QED
  BY <1>1, <1>4, <1>5 DEF TextOf

\* Fill puts a sound representation of chars at r, or nothing for no capacity.
LEMMA Filled ==
    ASSUME NEW h, HeapSound(h), NEW r \in Reps \ DOMAIN h, NEW chars \in Seq(Letters),
           NEW cap \in Nat, Len(chars) <= cap
    PROVE  /\ cap = 0 => /\ Str!Fill(h, r, chars, cap) = h /\ Str!RepFor(r, cap) = NullRep
                         /\ chars = <<>>
           /\ cap > 0 => /\ Str!RepFor(r, cap) = r
                         /\ \E c : /\ Sound(c) /\ c.capacity = cap /\ c.size = Len(chars)
                                   /\ TextOf(c) = chars
                                   /\ Str!Fill(h, r, chars, cap) = Str!With(h, r, c)
<1>. DEFINE n == Len(chars)
<1>1. n \in Nat
  BY LenProperties
<1>2. ASSUME cap = 0
      PROVE  /\ Str!Fill(h, r, chars, cap) = h /\ Str!RepFor(r, cap) = NullRep /\ chars = <<>>
  <2>. DEFINE c == h[NullRep]
  <2>1. c = Str!StaticRep /\ NullRep \in DOMAIN h /\ h = [q \in DOMAIN h |-> h[q]]
    BY DEF HeapSound
  <2>2. n = 0 /\ chars = <<>>
    BY <1>1, <1>2, EmptySeq DEF n
  <2>3. c \in Cells /\ Len(c.str) = c.capacity + 1 /\ c.capacity = 0
    BY <2>1, StaticSound DEF Sound
  <2>4. /\ Copied(c, 0, chars) \in Seq(Bytes) /\ Len(Copied(c, 0, chars)) = Len(c.str)
        /\ \A k \in 1 .. Len(c.str) :
             Copied(c, 0, chars)[k] = IF k <= Len(chars) THEN chars[k] ELSE c.str[k]
    <3>. HIDE DEF c
    <3>1. Len(chars) <= c.capacity
      BY <2>2, <2>3
    <3>. QED
      BY <2>3, <3>1, CopiedFirst
  <2>5. c.str \in Seq(Bytes)
    BY <2>3 DEF Cells
  <2>. HIDE DEF c
  <2>6. \A k \in 1 .. Len(c.str) : Copied(c, 0, chars)[k] = c.str[k]
    BY <2>2, <2>3, <2>4
  <2>7. Copied(c, 0, chars) = c.str
    BY <2>4, <2>5, <2>6, SeqEqual
  <2>8. [c EXCEPT !.str = Copied(c, 0, chars)] = c
    BY <2>3, <2>7 DEF Cells
  <2>9. Str!CopyTo(h, NullRep, 0, chars) = [h EXCEPT ![NullRep] = [c EXCEPT !.str = Copied(c, 0, chars)]]
    BY <2>1 DEF Str!CopyTo, Copied, c
  <2>10. Str!CopyTo(h, NullRep, 0, chars) = h
    BY <2>1, <2>8, <2>9 DEF c
  <2>. QED
    BY <1>2, <2>2, <2>10 DEF Str!Fill, Str!Allocate, Str!RepFor
<1>3. ASSUME cap > 0
      PROVE  /\ Str!RepFor(r, cap) = r
             /\ \E c : /\ Sound(c) /\ c.capacity = cap /\ c.size = n /\ TextOf(c) = chars
                       /\ Str!Fill(h, r, chars, cap) = Str!With(h, r, c)
  <2>. DEFINE made == [k \in 1 .. cap + 1 |-> IF k = n + 1 THEN Nul ELSE Junk]
              a == [size |-> n, capacity |-> cap, str |-> made]
              w == Copied(a, 0, chars)
              c == [size |-> n, capacity |-> cap, str |-> w]
  <2>. HIDE DEF n
  <2>1. made \in Seq(Bytes) /\ Len(made) = cap + 1 /\ made[n + 1] = Nul
    <3>1. made \in [1 .. cap + 1 -> Bytes]
      BY DEF Bytes
    <3>2. cap + 1 \in Nat /\ n + 1 \in 1 .. cap + 1
      BY <1>1 DEF n
    <3>. QED
      BY <3>1, <3>2
  <2>. HIDE DEF made
  <2>2. a \in Cells /\ a.str = made /\ a.capacity = cap /\ a.size = n
    BY <1>1, <2>1 DEF Cells
  <2>. HIDE DEF a
  <2>3. /\ w \in Seq(Bytes) /\ Len(w) = cap + 1
        /\ \A k \in 1 .. cap + 1 : w[k] = IF k <= n THEN chars[k] ELSE made[k]
    <3>1. Len(chars) <= a.capacity /\ Len(a.str) = a.capacity + 1
      BY <1>1, <2>1, <2>2 DEF n
    <3>2. /\ w \in Seq(Bytes) /\ Len(w) = Len(a.str)
          /\ \A k \in 1 .. Len(a.str) : w[k] = IF k <= Len(chars) THEN chars[k] ELSE a.str[k]
      BY <2>2, <3>1, CopiedFirst
    <3>. QED
      BY <2>1, <2>2, <3>2 DEF n
  <2>. HIDE DEF w
  <2>4. \A k \in 1 .. n : w[k] = chars[k] /\ chars[k] \in Letters
    <3>1. \A k \in 1 .. n : chars[k] \in Letters
      BY ElementOfSeq DEF n
    <3>2. ASSUME NEW k \in 1 .. n PROVE w[k] = chars[k]
      <4>1. k \in 1 .. cap + 1 /\ k <= n
        BY <1>1 DEF n
      <4>. QED
        BY <2>3, <4>1
    <3>. QED
      BY <3>1, <3>2
  <2>5. w[n + 1] = Nul
    <3>1. n + 1 \in 1 .. cap + 1 /\ ~(n + 1 <= n)
      BY <1>1 DEF n
    <3>. QED
      BY <2>1, <2>3, <3>1
  <2>6. c.size = n /\ c.capacity = cap /\ c.str = w /\ c \in Cells
    BY <1>1, <2>3 DEF Cells
  <2>. HIDE DEF c
  <2>7. Sound(c)
    BY <1>1, <2>3, <2>4, <2>5, <2>6 DEF Sound, n
  <2>8. TextOf(c) = chars
    <3>. DEFINE b == TextOf(c)
    <3>1. b \in Seq(Letters) /\ Len(b) = n /\ \A k \in 1 .. n : b[k] = w[k]
      BY <2>6, <2>7, TextTyped
    <3>2. Len(chars) = n
      BY DEF n
    <3>. HIDE DEF b
    <3>3. \A k \in 1 .. Len(b) : b[k] = chars[k]
      BY <2>4, <3>1
    <3>4. b = chars
      BY <3>1, <3>2, <3>3, SeqEqual
    <3>. QED
      BY <3>4 DEF b
  <2>9. Str!Fill(h, r, chars, cap) = Str!With(h, r, c)
    <3>1. Str!Allocate(h, r, n, cap) = Str!With(h, r, a)
      BY <1>3 DEF Str!Allocate, a, made
    <3>2. Str!RepFor(r, cap) = r
      BY <1>3 DEF Str!RepFor
    <3>. DEFINE g == Str!With(h, r, a)
    <3>3. g[r] = a /\ r \in DOMAIN g
      BY DEF Str!With
    <3>4. Str!CopyTo(g, r, 0, chars) = [g EXCEPT ![r] = [a EXCEPT !.str = w]]
      <4>. HIDE DEF g
      <4>. QED
        BY <3>3 DEF Str!CopyTo, Copied, w
    <3>5. [a EXCEPT !.str = w] = c
      BY DEF a, c
    <3>6. [g EXCEPT ![r] = c] = Str!With(h, r, c)
      BY DEF Str!With
    <3>. QED
      BY <3>1, <3>2, <3>4, <3>5, <3>6 DEF Str!Fill, n
  <2>. QED
    BY <1>3, <2>6, <2>7, <2>8, <2>9 DEF Str!RepFor
<1>. QED
  BY <1>2, <1>3 DEF n

\* memcpy and set_size change the representation at r alone.
LEMMA RewritesOne ==
    ASSUME NEW h, HeapSound(h), NEW r \in DOMAIN h, NEW at \in Nat, NEW chars \in Seq(Letters)
    PROVE  Str!SetSize(Str!CopyTo(h, r, at, chars), r, at + Len(chars))
             = Put(h, r, Rewritten(h[r], at, chars))
<1>. DEFINE n == at + Len(chars)
            c == h[r]
            d == [c EXCEPT !.str = Copied(c, at, chars)]
<1>1. c \in Cells
  BY DEF HeapSound, Sound
<1>2. Str!CopyTo(h, r, at, chars) = [h EXCEPT ![r] = d]
  BY DEF Str!CopyTo, Copied
<1>. HIDE DEF n, c
<1>3. d = [size |-> c.size, capacity |-> c.capacity, str |-> Copied(c, at, chars)]
  BY <1>1 DEF Cells
<1>. HIDE DEF d
<1>4. d.str = Copied(c, at, chars)
  BY <1>3
<1>5. Str!SetSize([h EXCEPT ![r] = d], r, n)
        = [h EXCEPT ![r] = [d EXCEPT !.size = n, !.str[n + 1] = Nul]]
  BY DEF Str!SetSize
<1>6. [d EXCEPT !.size = n, !.str[n + 1] = Nul]
        = [size |-> n, capacity |-> c.capacity, str |-> [d.str EXCEPT ![n + 1] = Nul]]
  <2>1. [d EXCEPT !.size = n, !.str = [d.str EXCEPT ![n + 1] = Nul]]
          = [size |-> n, capacity |-> c.capacity, str |-> [d.str EXCEPT ![n + 1] = Nul]]
    <3>. DEFINE w == [d.str EXCEPT ![n + 1] = Nul]
    <3>. HIDE DEF w
    <3>1. [d EXCEPT !.size = n, !.str = w] = [size |-> n, capacity |-> c.capacity, str |-> w]
      <4>. DEFINE f == [d EXCEPT !.size = n, !.str = w]
      <4>1. DOMAIN d = {"size", "capacity", "str"} /\ d["capacity"] = c.capacity
        BY <1>3
      <4>2. /\ f = [x \in {"size", "capacity", "str"} |-> f[x]]
            /\ f["size"] = n /\ f["str"] = w /\ f["capacity"] = c.capacity
        BY <4>1
      <4>. HIDE DEF f
      <4>3. f = [size |-> n, capacity |-> c.capacity, str |-> w]
        BY <4>2
      <4>. QED
        BY <4>3 DEF f
    <3>. QED
      BY <3>1 DEF w
  <2>2. [d EXCEPT !.size = n, !.str[n + 1] = Nul]
          = [d EXCEPT !.size = n, !.str = [d.str EXCEPT ![n + 1] = Nul]]
    BY <1>3
  <2>. QED
    BY <2>1, <2>2
<1>. QED
  BY <1>2, <1>4, <1>5, <1>6 DEF Rewritten, Put, n, c

-----------------------------------------------------------------------------

\* There is memory no string has.
LEMMA FreeIsFree ==
    ASSUME NEW rp, NEW h, Whole(rp, h) PROVE \E r \in Reps : r \notin DOMAIN h
<1>. PICK q \in Reps : TRUE
  BY MemoryAssumption
<1>. DEFINE used == [s \in Strings |-> IF s \in DOMAIN rp /\ rp[s] \in Reps THEN rp[s] ELSE q]
<1>1. used \in [Strings -> Reps]
  OBVIOUS
<1>2. PICK r \in Reps : \A s \in Strings : used[s] # r
  BY <1>1, MemoryAssumption
<1>3. r # NullRep
  BY MemoryAssumption
<1>4. ASSUME r \in DOMAIN h PROVE FALSE
  <2>1. PICK s \in DOMAIN rp : rp[s] = r
    BY <1>3, <1>4 DEF Whole, Owned
  <2>2. s \in Strings
    BY DEF Whole, Owned
  <2>. QED
    BY <1>2, <2>1, <2>2
<1>. QED
  BY <1>4

\* A string gets a representation of its own and leaves the one it had.
LEMMA Moves ==
    ASSUME NEW rp, NEW h, Whole(rp, h), NEW s \in DOMAIN rp, NEW r \in Reps \ DOMAIN h,
           NEW c, Sound(c), NEW g, g = Str!Quit(Str!With(h, r, c), rp[s])
    PROVE  /\ Whole(Put(rp, s, r), g)
           /\ ValuesOf(Put(rp, s, r), g) = Put(ValuesOf(rp, h), s, TextOf(c))
           /\ r \in DOMAIN g /\ g[r] = c
           /\ \A q \in DOMAIN g : q # r => q \in DOMAIN h /\ g[q] = h[q]
<1>. DEFINE rq == Put(rp, s, r)
<1>0. r # NullRep /\ rp[s] \in DOMAIN h /\ rp[s] # r
  BY MemoryAssumption DEF Whole, Owned
<1>1. DOMAIN g = (DOMAIN h \cup {r}) \ ({rp[s]} \ {NullRep})
  BY <1>0 DEF Str!Quit, Str!With, Str!Restrict
<1>2. g = [q \in DOMAIN g |-> g[q]] /\ \A q \in DOMAIN g : g[q] = IF q = r THEN c ELSE h[q]
  BY DEF Str!Quit, Str!With, Str!Restrict
<1>3. DOMAIN rq = DOMAIN rp /\ rq[s] = r /\ \A t \in DOMAIN rp : t # s => rq[t] = rp[t]
  BY DEF Whole, Owned, Put
<1>. HIDE DEF rq
<1>4. HeapSound(g)
  BY <1>0, <1>1, <1>2, MemoryAssumption DEF Whole, HeapSound
<1>5. \A t \in DOMAIN rp : t # s => rp[t] \in DOMAIN g /\ rp[t] # r
  BY <1>0, <1>1 DEF Whole, Owned
<1>6. Owned(rq, g)
  <2>1. rq \in [DOMAIN rq -> DOMAIN g] /\ DOMAIN rq \subseteq Strings
    <3>1. rq = [t \in DOMAIN rp |-> rq[t]]
      BY DEF rq, Whole, Owned, Put
    <3>2. \A t \in DOMAIN rp : rq[t] \in DOMAIN g
      BY <1>0, <1>1, <1>3, <1>5
    <3>. QED
      BY <1>3, <3>1, <3>2 DEF Whole, Owned
  <2>2. ASSUME NEW q \in DOMAIN g \ {NullRep} PROVE \E t \in DOMAIN rq : rq[t] = q
    <3>1. CASE q = r
      BY <1>3, <3>1
    <3>2. CASE q # r
      <4>1. q \in DOMAIN h \ {NullRep} /\ q # rp[s]
        BY <1>1, <3>2
      <4>2. PICK t \in DOMAIN rp : rp[t] = q
        BY <4>1 DEF Whole, Owned
      <4>. QED
        BY <1>3, <4>1, <4>2
    <3>. QED
      BY <3>1, <3>2
  <2>3. ASSUME NEW t \in DOMAIN rq, NEW u \in DOMAIN rq, rq[t] = rq[u], rq[t] # NullRep
        PROVE t = u
    BY <1>3, <1>5, <2>3 DEF Whole, Owned
  <2>. QED
    BY <2>1, <2>2, <2>3 DEF Owned
<1>7. ValuesOf(rq, g) = Put(ValuesOf(rp, h), s, TextOf(c))
  <2>1. \A t \in DOMAIN rp : TextOf(g[rq[t]]) = IF t = s THEN TextOf(c) ELSE TextOf(h[rp[t]])
    BY <1>0, <1>1, <1>2, <1>3, <1>5
  <2>. QED
    BY <1>3, <2>1 DEF ValuesOf, Put
<1>. QED
  BY <1>0, <1>1, <1>2, <1>4, <1>6, <1>7 DEF Whole, rq

\* A string gets the static representation.
LEMMA Empties ==
    ASSUME NEW rp, NEW h, Whole(rp, h), NEW s \in DOMAIN rp, NEW g, g = Str!Quit(h, rp[s])
    PROVE  /\ Whole(Put(rp, s, NullRep), g)
           /\ ValuesOf(Put(rp, s, NullRep), g) = Put(ValuesOf(rp, h), s, <<>>)
           /\ \A q \in DOMAIN g : q \in DOMAIN h /\ g[q] = h[q]
<1>. DEFINE rq == Put(rp, s, NullRep)
<1>0. rp[s] \in DOMAIN h
  BY DEF Whole, Owned
<1>1. DOMAIN g = DOMAIN h \ ({rp[s]} \ {NullRep})
  BY <1>0 DEF Str!Quit, Str!Restrict
<1>2. g = [q \in DOMAIN g |-> g[q]] /\ \A q \in DOMAIN g : g[q] = h[q]
  BY DEF Str!Quit, Str!Restrict, Whole, HeapSound
<1>3. DOMAIN rq = DOMAIN rp /\ rq[s] = NullRep /\ \A t \in DOMAIN rp : t # s => rq[t] = rp[t]
  BY DEF Whole, Owned, Put
<1>. HIDE DEF rq
<1>4. HeapSound(g)
  BY <1>1, <1>2 DEF Whole, HeapSound
<1>5. \A t \in DOMAIN rp : t # s => rp[t] \in DOMAIN g
  BY <1>0, <1>1 DEF Whole, Owned
<1>6. NullRep \in DOMAIN g /\ g[NullRep] = Str!StaticRep
  BY <1>4 DEF HeapSound
<1>7. Owned(rq, g)
  <2>1. rq \in [DOMAIN rq -> DOMAIN g] /\ DOMAIN rq \subseteq Strings
    <3>1. rq = [t \in DOMAIN rp |-> rq[t]]
      BY DEF rq, Whole, Owned, Put
    <3>2. \A t \in DOMAIN rp : rq[t] \in DOMAIN g
      BY <1>3, <1>5, <1>6
    <3>. QED
      BY <1>3, <3>1, <3>2 DEF Whole, Owned
  <2>2. ASSUME NEW q \in DOMAIN g \ {NullRep} PROVE \E t \in DOMAIN rq : rq[t] = q
    <3>1. q \in DOMAIN h \ {NullRep} /\ q # rp[s]
      BY <1>1
    <3>2. PICK t \in DOMAIN rp : rp[t] = q
      BY <3>1 DEF Whole, Owned
    <3>. QED
      BY <1>3, <3>1, <3>2
  <2>3. ASSUME NEW t \in DOMAIN rq, NEW u \in DOMAIN rq, rq[t] = rq[u], rq[t] # NullRep
        PROVE t = u
    BY <1>3, <1>5, <2>3 DEF Whole, Owned
  <2>. QED
    BY <2>1, <2>2, <2>3 DEF Owned
<1>8. ValuesOf(rq, g) = Put(ValuesOf(rp, h), s, <<>>)
  <2>1. \A t \in DOMAIN rp : TextOf(g[rq[t]]) = IF t = s THEN <<>> ELSE TextOf(h[rp[t]])
    BY <1>2, <1>3, <1>5, <1>6, StaticSound
  <2>. QED
    BY <1>3, <2>1 DEF ValuesOf, Put
<1>. QED
  BY <1>1, <1>2, <1>4, <1>7, <1>8 DEF Whole, rq

\* A string's own representation is written.
LEMMA Writes ==
    ASSUME NEW rp, NEW h, Whole(rp, h), NEW s \in DOMAIN rp, NEW c, Sound(c),
           rp[s] = NullRep => c = Str!StaticRep, NEW g, g = Put(h, rp[s], c)
    PROVE  /\ Whole(rp, g)
           /\ ValuesOf(rp, g) = Put(ValuesOf(rp, h), s, TextOf(c))
           /\ \A q \in DOMAIN g : q \in DOMAIN h /\ g[q] = IF q = rp[s] THEN c ELSE h[q]
<1>1. rp[s] \in DOMAIN h /\ h = [q \in DOMAIN h |-> h[q]]
  BY DEF Whole, Owned, HeapSound
<1>2. /\ DOMAIN g = DOMAIN h /\ g = [q \in DOMAIN g |-> g[q]]
      /\ \A q \in DOMAIN g : g[q] = IF q = rp[s] THEN c ELSE h[q]
  BY <1>1 DEF Put
<1>3. HeapSound(g)
  BY <1>1, <1>2 DEF Whole, HeapSound
<1>4. Owned(rp, g)
  BY <1>2 DEF Whole, Owned
<1>5. ASSUME NEW t \in DOMAIN rp
      PROVE TextOf(g[rp[t]]) = IF t = s THEN TextOf(c) ELSE TextOf(h[rp[t]])
  <2>1. rp[t] \in DOMAIN h
    BY DEF Whole, Owned
  <2>2. CASE rp[t] # rp[s]
    BY <1>2, <2>1, <2>2
  <2>3. CASE rp[t] = rp[s] /\ rp[s] # NullRep
    <3>1. t = s
      BY <2>3 DEF Whole, Owned
    <3>. QED
      BY <1>1, <1>2, <3>1
  <2>4. CASE rp[t] = rp[s] /\ rp[s] = NullRep
    <3>1. h[rp[t]] = c /\ g[rp[t]] = c
      BY <1>1, <1>2, <2>4 DEF Whole, HeapSound
    <3>. QED
      BY <3>1
  <2>. QED
    BY <2>2, <2>3, <2>4
<1>6. ValuesOf(rp, g) = Put(ValuesOf(rp, h), s, TextOf(c))
  BY <1>5 DEF ValuesOf, Put
<1>. QED
  BY <1>1, <1>2, <1>3, <1>4, <1>6 DEF Whole

\* A new string, with a representation of its own or the static one.
LEMMA Makes ==
    ASSUME NEW rp, NEW h, Whole(rp, h), NEW s \in Strings \ DOMAIN rp, NEW r, NEW g, NEW c,
           \/ r \in Reps \ DOMAIN h /\ Sound(c) /\ g = Str!With(h, r, c)
           \/ r = NullRep /\ c = Str!StaticRep /\ g = h
    PROVE  /\ Whole(Str!With(rp, s, r), g)
           /\ ValuesOf(Str!With(rp, s, r), g) = Str!With(ValuesOf(rp, h), s, TextOf(c))
           /\ \A q \in DOMAIN g : g[q] = c \/ (q \in DOMAIN h /\ g[q] = h[q])
<1>. DEFINE rq == Str!With(rp, s, r)
<1>1. DOMAIN rq = DOMAIN rp \cup {s} /\ rq[s] = r /\ \A t \in DOMAIN rp : rq[t] = rp[t]
  BY DEF Str!With
<1>2. /\ g = [q \in DOMAIN g |-> g[q]] /\ DOMAIN g = DOMAIN h \cup {r}
      /\ \A q \in DOMAIN g : g[q] = IF q = r THEN c ELSE h[q]
  BY DEF Str!With, Whole, HeapSound
<1>3. /\ \A t \in DOMAIN rp : rp[t] \in DOMAIN h
      /\ r # NullRep => \A t \in DOMAIN rp : rp[t] # r
      /\ r \in Reps \cup {NullRep} /\ Sound(c)
  BY StaticSound DEF Whole, Owned, HeapSound
<1>4. HeapSound(g)
  BY <1>2, <1>3, MemoryAssumption DEF Whole, HeapSound
<1>5. Owned(rq, g)
  <2>1. rq \in [DOMAIN rq -> DOMAIN g] /\ DOMAIN rq \subseteq Strings
    <3>1. rq = [t \in DOMAIN rp \cup {s} |-> rq[t]]
      BY DEF Str!With
    <3>. HIDE DEF rq
    <3>. QED
      BY <1>1, <1>2, <1>3, <3>1 DEF Whole, Owned
  <2>. HIDE DEF rq
  <2>2. ASSUME NEW q \in DOMAIN g \ {NullRep} PROVE \E t \in DOMAIN rq : rq[t] = q
    <3>1. CASE q = r
      BY <1>1, <3>1
    <3>2. CASE q # r
      <4>1. PICK t \in DOMAIN rp : rp[t] = q
        BY <1>2, <3>2 DEF Whole, Owned
      <4>. QED
        BY <1>1, <4>1
    <3>. QED
      BY <3>1, <3>2
  <2>3. ASSUME NEW t \in DOMAIN rq, NEW u \in DOMAIN rq, rq[t] = rq[u], rq[t] # NullRep
        PROVE t = u
    BY <1>1, <1>3, <2>3 DEF Whole, Owned
  <2>. QED
    BY <2>1, <2>2, <2>3 DEF Owned
<1>6. ValuesOf(rq, g) = Str!With(ValuesOf(rp, h), s, TextOf(c))
  <2>. HIDE DEF rq
  <2>1. \A t \in DOMAIN rp : g[rp[t]] = h[rp[t]]
    BY <1>2, <1>3 DEF Whole, HeapSound
  <2>2. g[r] = c
    BY <1>2
  <2>. QED
    BY <1>1, <2>1, <2>2 DEF ValuesOf, Str!With
<1>. QED
  BY <1>2, <1>4, <1>5, <1>6 DEF Whole

\* A string goes with its representation.
LEMMA Removes ==
    ASSUME NEW rp, NEW h, Whole(rp, h), NEW s \in DOMAIN rp, NEW g, g = Str!Quit(h, rp[s])
    PROVE  /\ Whole(Str!Restrict(rp, DOMAIN rp \ {s}), g)
           /\ ValuesOf(Str!Restrict(rp, DOMAIN rp \ {s}), g)
                = Str!Restrict(ValuesOf(rp, h), DOMAIN rp \ {s})
           /\ \A q \in DOMAIN g : q \in DOMAIN h /\ g[q] = h[q]
<1>. DEFINE rq == Str!Restrict(rp, DOMAIN rp \ {s})
<1>0. rp[s] \in DOMAIN h
  BY DEF Whole, Owned
<1>1. DOMAIN g = DOMAIN h \ ({rp[s]} \ {NullRep})
  BY <1>0 DEF Str!Quit, Str!Restrict
<1>2. g = [q \in DOMAIN g |-> g[q]] /\ \A q \in DOMAIN g : g[q] = h[q]
  BY DEF Str!Quit, Str!Restrict, Whole, HeapSound
<1>3. /\ rq = [t \in DOMAIN rq |-> rq[t]] /\ DOMAIN rq = DOMAIN rp \ {s}
      /\ \A t \in DOMAIN rq : rq[t] = rp[t]
  BY DEF Str!Restrict
<1>4. HeapSound(g)
  BY <1>1, <1>2 DEF Whole, HeapSound
<1>5. \A t \in DOMAIN rq : rp[t] \in DOMAIN g
  BY <1>0, <1>1, <1>3 DEF Whole, Owned
<1>. HIDE DEF rq
<1>6. Owned(rq, g)
  <2>1. rq \in [DOMAIN rq -> DOMAIN g] /\ DOMAIN rq \subseteq Strings
    BY <1>3, <1>5 DEF Whole, Owned
  <2>2. ASSUME NEW q \in DOMAIN g \ {NullRep} PROVE \E t \in DOMAIN rq : rq[t] = q
    <3>1. q \in DOMAIN h \ {NullRep} /\ q # rp[s]
      BY <1>1
    <3>2. PICK t \in DOMAIN rp : rp[t] = q
      BY <3>1 DEF Whole, Owned
    <3>. QED
      BY <1>3, <3>1, <3>2
  <2>3. ASSUME NEW t \in DOMAIN rq, NEW u \in DOMAIN rq, rq[t] = rq[u], rq[t] # NullRep
        PROVE t = u
    BY <1>3, <2>3 DEF Whole, Owned
  <2>. QED
    BY <2>1, <2>2, <2>3 DEF Owned
<1>7. ValuesOf(rq, g) = Str!Restrict(ValuesOf(rp, h), DOMAIN rp \ {s})
  <2>1. \A t \in DOMAIN rq : TextOf(g[rq[t]]) = TextOf(h[rp[t]])
    BY <1>2, <1>3, <1>5
  <2>. QED
    BY <1>3, <2>1 DEF ValuesOf, Str!Restrict
<1>. QED
  BY <1>1, <1>2, <1>4, <1>6, <1>7 DEF Whole, rq

\* Two strings exchange their representations.
LEMMA Swaps ==
    ASSUME NEW rp, NEW h, Whole(rp, h), NEW s \in DOMAIN rp, NEW t \in DOMAIN rp
    PROVE  /\ Whole([rp EXCEPT ![s] = rp[t], ![t] = rp[s]], h)
           /\ ValuesOf([rp EXCEPT ![s] = rp[t], ![t] = rp[s]], h)
                = [ValuesOf(rp, h) EXCEPT ![s] = ValuesOf(rp, h)[t], ![t] = ValuesOf(rp, h)[s]]
<1>. DEFINE rq == [rp EXCEPT ![s] = rp[t], ![t] = rp[s]]
<1>1. /\ rq = [u \in DOMAIN rp |-> rq[u]] /\ DOMAIN rq = DOMAIN rp
      /\ \A u \in DOMAIN rp : rq[u] = IF u = t THEN rp[s] ELSE IF u = s THEN rp[t] ELSE rp[u]
  BY DEF Whole, Owned
<1>. HIDE DEF rq
<1>2. Owned(rq, h)
  <2>1. rq \in [DOMAIN rq -> DOMAIN h] /\ DOMAIN rq \subseteq Strings
    BY <1>1 DEF Whole, Owned
  <2>2. ASSUME NEW q \in DOMAIN h \ {NullRep} PROVE \E u \in DOMAIN rq : rq[u] = q
    <3>1. PICK u \in DOMAIN rp : rp[u] = q
      BY DEF Whole, Owned
    <3>. QED
      BY <1>1, <3>1
  <2>3. ASSUME NEW u \in DOMAIN rq, NEW v \in DOMAIN rq, rq[u] = rq[v], rq[u] # NullRep
        PROVE u = v
    BY <1>1, <2>3 DEF Whole, Owned
  <2>. QED
    BY <2>1, <2>2, <2>3 DEF Owned
<1>3. ValuesOf(rq, h)
        = [ValuesOf(rp, h) EXCEPT ![s] = ValuesOf(rp, h)[t], ![t] = ValuesOf(rp, h)[s]]
  BY <1>1 DEF ValuesOf
<1>. QED
  BY <1>2, <1>3 DEF Whole, rq

-----------------------------------------------------------------------------

\* The inductive invariant of the strings.
StrInv == Whole(rep, heap) /\ \A r \in DOMAIN heap : Tight(heap[r])

\* The values the strings hold.
Held == ValuesOf(rep, heap)

\* A step of the values the strings hold, or none.
ValueStep == Str!StringValue!Next \/ Held' = Held

\* The same in the terms of TinyString.
LEMMA HeldIs ==
    /\ [s \in Str!Live |-> Str!Value(s)] = Held
    /\ \A s \in Str!Live : Str!Value(s) = TextOf(heap[rep[s]]) /\ Held[s] = Str!Value(s)
    /\ DOMAIN Held = DOMAIN rep /\ Str!Live = DOMAIN rep
BY DEF Held, ValuesOf, TextOf, Str!Live, Str!Value

\* The bounds are numbers.
LEMMA SlackTyped == Slack \in Nat /\ MaxReserve \in Nat
BY TextsAssumption

\* operator new finds memory.
LEMMA FreeRepIs == StrInv => Str!FreeRep \in Reps \ DOMAIN heap
<1>. SUFFICES ASSUME StrInv PROVE Str!FreeRep \in Reps \ DOMAIN heap
  OBVIOUS
<1>1. \E r \in Reps : r \notin DOMAIN heap
  BY FreeIsFree DEF StrInv
<1>. QED
  BY <1>1 DEF Str!FreeRep

\* A string that exists has a sound representation.
LEMMA ValueTyped ==
    ASSUME StrInv, NEW s \in Str!Live
    PROVE  /\ rep[s] \in DOMAIN heap /\ Sound(heap[rep[s]]) /\ Tight(heap[rep[s]])
           /\ Str!Value(s) \in Seq(Letters) /\ Len(Str!Value(s)) = heap[rep[s]].size
           /\ heap[rep[s]].size \in Nat /\ heap[rep[s]].capacity \in Nat
<1>1. rep[s] \in DOMAIN heap /\ Sound(heap[rep[s]]) /\ Tight(heap[rep[s]])
  BY DEF StrInv, Whole, Owned, HeapSound, Str!Live
<1>. QED
  BY <1>1, TextTyped, HeldIs DEF Sound, Cells

\* What an operation is given is a text.
LEMMA GivenTyped ==
    ASSUME StrInv, NEW chars \in Texts \cup {<<>>} \cup {Str!Value(t) : t \in Str!Live}
    PROVE  chars \in Seq(Letters) /\ Len(chars) \in Nat
<1>1. chars \in Seq(Letters)
  BY TextsAreLetters, ValueTyped, EmptySeq
<1>. QED
  BY <1>1, LenProperties

\* Only the static representation has no capacity.
LEMMA OnlyStatic ==
    ASSUME NEW c, Sound(c), c.capacity = 0
    PROVE  c = Str!StaticRep /\ TextOf(c) = <<>>
<1>1. c.size = 0 /\ c.str \in Seq(Bytes) /\ Len(c.str) = 1 /\ c.str[1] = Nul
  BY DEF Sound, Cells
<1>2. <<Nul>> \in Seq(Bytes) /\ Len(<<Nul>>) = 1 /\ <<Nul>>[1] = Nul
  BY DEF Bytes
<1>3. \A k \in 1 .. Len(c.str) : c.str[k] = <<Nul>>[k]
  BY <1>1, <1>2
<1>4. c.str = <<Nul>>
  BY <1>1, <1>2, <1>3, SeqEqual
<1>5. c = Str!StaticRep
  BY <1>1, <1>4 DEF Sound, Cells, Str!StaticRep
<1>. QED
  BY <1>5, StaticSound

\* How steps of the strings map to steps of their values.
LEMMA Sets ==
    ASSUME NEW s \in DOMAIN rep, NEW v \in Texts \cup {<<>>} \cup {Str!Value(t) : t \in Str!Live},
           Held' = Put(Held, s, v)
    PROVE  ValueStep
<1>1. v \in Str!StringValue!Values \cup {<<>>}
  BY DEF Str!StringValue!Values, Str!StringValue!Range
<1>2. [t \in Str!Live |-> Str!Value(t)]' = Held'
  BY DEF Held, ValuesOf, TextOf, Str!Live, Str!Value
<1>. QED
  BY <1>1, <1>2, HeldIs DEF ValueStep, Str!StringValue!Next, Str!StringValue!Set, Put

\* append is a step Extend of the values,
LEMMA Extends ==
    ASSUME NEW s \in DOMAIN rep, NEW v \in Texts \cup {Str!Value(t) : t \in Str!Live},
           Held' = Put(Held, s, Held[s] \o v)
    PROVE  ValueStep
<1>1. v \in Str!StringValue!Values
  BY DEF Str!StringValue!Values, Str!StringValue!Range
<1>2. [t \in Str!Live |-> Str!Value(t)]' = Held'
  BY DEF Held, ValuesOf, TextOf, Str!Live, Str!Value
<1>. DEFINE V == [x \in Str!Live |-> Str!Value(x)]
<1>3. V = Held /\ V' = Held' /\ DOMAIN Held = DOMAIN rep
  BY <1>2, HeldIs
<1>4. s \in DOMAIN V /\ V' = [V EXCEPT ![s] = V[s] \o v]
  <2>. HIDE DEF V
  <2>. QED
    BY <1>3 DEF Put
<1>5. Str!StringValue!Extend
  BY <1>1, <1>4, Zenon DEF Str!StringValue!Extend
<1>. QED
  BY <1>5 DEF ValueStep, Str!StringValue!Next

\* A new string is a step Make of the values,
LEMMA MakesValue ==
    ASSUME NEW s \in Strings \ DOMAIN rep,
           NEW v \in Texts \cup {<<>>} \cup {Str!Value(t) : t \in Str!Live},
           Held' = Str!With(Held, s, v)
    PROVE  ValueStep
<1>1. v \in Str!StringValue!Values \cup {<<>>}
  BY DEF Str!StringValue!Values, Str!StringValue!Range
<1>2. [t \in Str!Live |-> Str!Value(t)]' = Held'
  BY DEF Held, ValuesOf, TextOf, Str!Live, Str!Value
<1>3. Str!StringValue!With(Held, s, v) = Str!With(Held, s, v)
  BY DEF Str!StringValue!With, Str!With
<1>. QED
  BY <1>1, <1>2, <1>3, HeldIs DEF ValueStep, Str!StringValue!Next, Str!StringValue!Make

\* of the value of two strings a step Join.
LEMMA JoinsValues ==
    ASSUME NEW s \in Strings \ DOMAIN rep, NEW t \in DOMAIN rep, NEW u \in DOMAIN rep,
           Held' = Str!With(Held, s, Str!Value(t) \o Str!Value(u))
    PROVE  ValueStep
<1>1. [x \in Str!Live |-> Str!Value(x)]' = Held'
  BY DEF Held, ValuesOf, TextOf, Str!Live, Str!Value
<1>2. Str!StringValue!With(Held, s, Held[t] \o Held[u]) = Str!With(Held, s, Held[t] \o Held[u])
  BY DEF Str!StringValue!With, Str!With
<1>. DEFINE V == [x \in Str!Live |-> Str!Value(x)]
<1>3. /\ V = Held /\ V' = Held' /\ DOMAIN Held = DOMAIN rep
      /\ Held[t] = Str!Value(t) /\ Held[u] = Str!Value(u)
  BY <1>1, HeldIs
<1>4. /\ s \in Strings \ DOMAIN V /\ t \in DOMAIN V /\ u \in DOMAIN V
      /\ V' = Str!StringValue!With(V, s, V[t] \o V[u])
  <2>. HIDE DEF V
  <2>. QED
    BY <1>2, <1>3
<1>5. Str!StringValue!Join
  BY <1>4, Zenon DEF Str!StringValue!Join
<1>. QED
  BY <1>5 DEF ValueStep, Str!StringValue!Next

\* What a step of the strings does.
Stepped == StrInv' /\ ValueStep

\* A string with a value it is given, in a new representation that fits or in none.
LEMMA NewString ==
    ASSUME StrInv, NEW s \in Strings \ DOMAIN rep, NEW chars \in Seq(Letters),
           heap' = Str!Fill(heap, Str!FreeRep, chars, Len(chars)),
           rep' = Str!With(rep, s, Str!RepFor(Str!FreeRep, Len(chars)))
    PROVE  StrInv' /\ Held' = Str!With(Held, s, chars)
<1>. DEFINE r == Str!FreeRep
            n == Len(chars)
            q == Str!RepFor(r, n)
<1>1. r \in Reps \ DOMAIN heap /\ n \in Nat /\ n <= n /\ HeapSound(heap) /\ Whole(rep, heap)
  BY FreeRepIs, LenProperties DEF StrInv, Whole
<1>2. PICK c : /\ Sound(c) /\ Tight(c) /\ TextOf(c) = chars
               /\ \/ q \in Reps \ DOMAIN heap /\ heap' = Str!With(heap, q, c)
                  \/ q = NullRep /\ c = Str!StaticRep /\ heap' = heap
  <2>. HIDE DEF r
  <2>1. CASE n = 0
    <3>1. heap' = heap /\ q = NullRep /\ chars = <<>>
      BY <1>1, <2>1, Filled DEF r
    <3>2. Tight(Str!StaticRep)
      BY StaticSound, SlackTyped DEF Tight
    <3>. QED
      BY <3>1, <3>2, StaticSound
  <2>2. CASE n > 0
    <3>1. PICK c : /\ Sound(c) /\ c.capacity = n /\ c.size = n /\ TextOf(c) = chars
                   /\ Str!Fill(heap, r, chars, n) = Str!With(heap, r, c)
      BY <1>1, <2>2, Filled
    <3>2. q = r
      BY <2>2 DEF Str!RepFor
    <3>3. Tight(c)
      BY <1>1, <3>1, SlackTyped DEF Tight
    <3>. QED
      BY <1>1, <3>1, <3>2, <3>3 DEF r
  <2>. QED
    BY <1>1, <2>1, <2>2
<1>. HIDE DEF q
<1>3. rep' = Str!With(rep, s, q)
  BY DEF q
<1>4. /\ Whole(Str!With(rep, s, q), heap')
      /\ ValuesOf(Str!With(rep, s, q), heap') = Str!With(ValuesOf(rep, heap), s, TextOf(c))
      /\ \A x \in DOMAIN heap' : heap'[x] = c \/ (x \in DOMAIN heap /\ heap'[x] = heap[x])
  BY <1>1, <1>2, Makes
<1>5. Whole(rep, heap)' /\ Held' = Str!With(Held, s, chars)
  BY <1>2, <1>3, <1>4 DEF Held
<1>6. \A x \in DOMAIN heap' : Tight(heap'[x])
  BY <1>2, <1>4 DEF StrInv
<1>. QED
  BY <1>5, <1>6 DEF StrInv

\* One lemma for each operation: constructors,
LEMMA ConstructSteps == ASSUME StrInv, Str!Construct PROVE Stepped
<1>1. PICK s \in Strings \ Str!Live, chars \in Texts \cup {<<>>} \cup {Str!Value(t) : t \in Str!Live} :
         /\ heap' = Str!Fill(heap, Str!FreeRep, chars, Len(chars))
         /\ rep' = Str!With(rep, s, Str!RepFor(Str!FreeRep, Len(chars)))
  BY DEF Str!Construct
<1>2. s \in Strings \ DOMAIN rep /\ chars \in Seq(Letters)
  BY <1>1, GivenTyped DEF Str!Live
<1>3. StrInv' /\ Held' = Str!With(Held, s, chars)
  BY <1>1, <1>2, NewString
<1>. QED
  BY <1>1, <1>2, <1>3, MakesValue DEF Stepped

\* operator +,
LEMMA ConcatenateSteps == ASSUME StrInv, Str!Concatenate PROVE Stepped
<1>1. PICK s \in Strings \ Str!Live, t \in Str!Live, u \in Str!Live :
         LET chars == Str!Value(t) \o Str!Value(u)
         IN /\ heap' = Str!Fill(heap, Str!FreeRep, chars, Len(chars))
            /\ rep' = Str!With(rep, s, Str!RepFor(Str!FreeRep, Len(chars)))
  BY DEF Str!Concatenate
<1>. DEFINE chars == Str!Value(t) \o Str!Value(u)
<1>2. s \in Strings \ DOMAIN rep /\ t \in DOMAIN rep /\ u \in DOMAIN rep /\ chars \in Seq(Letters)
  BY <1>1, ValueTyped, ConcatProperties DEF Str!Live
<1>3. StrInv' /\ Held' = Str!With(Held, s, chars)
  <2>1. /\ heap' = Str!Fill(heap, Str!FreeRep, chars, Len(chars))
        /\ rep' = Str!With(rep, s, Str!RepFor(Str!FreeRep, Len(chars)))
    BY <1>1
  <2>. HIDE DEF chars
  <2>. QED
    BY <1>2, <2>1, NewString
<1>. QED
  BY <1>2, <1>3, JoinsValues DEF Stepped

\* the destructor,
LEMMA DestroySteps == ASSUME StrInv, Str!Destroy PROVE Stepped
<1>1. PICK s \in DOMAIN rep :
         /\ heap' = Str!Quit(heap, rep[s])
         /\ rep' = Str!Restrict(rep, DOMAIN rep \ {s})
  BY DEF Str!Destroy, Str!Live
<1>2. Whole(rep, heap)
  BY DEF StrInv
<1>3. /\ Whole(Str!Restrict(rep, DOMAIN rep \ {s}), heap')
      /\ ValuesOf(Str!Restrict(rep, DOMAIN rep \ {s}), heap')
           = Str!Restrict(ValuesOf(rep, heap), DOMAIN rep \ {s})
      /\ \A q \in DOMAIN heap' : q \in DOMAIN heap /\ heap'[q] = heap[q]
  BY <1>1, <1>2, Removes
<1>4. StrInv' /\ Held' = Str!Restrict(Held, DOMAIN Held \ {s})
  BY <1>1, <1>3, HeldIs DEF StrInv, Held
<1>5. ValueStep
  <2>1. [x \in Str!Live |-> Str!Value(x)]' = Held'
    BY DEF Held, ValuesOf, TextOf, Str!Live, Str!Value
  <2>2. Str!StringValue!Restrict(Held, DOMAIN Held \ {s}) = Str!Restrict(Held, DOMAIN Held \ {s})
    BY DEF Str!StringValue!Restrict, Str!Restrict
  <2>. QED
    BY <1>1, <1>4, <2>1, <2>2, HeldIs DEF ValueStep, Str!StringValue!Next,
       Str!StringValue!Destroy
<1>. QED
  BY <1>4, <1>5 DEF Stepped

\* clear,
LEMMA ClearSteps == ASSUME StrInv, Str!Clear PROVE Stepped
<1>1. PICK s \in DOMAIN rep :
         heap' = Str!Quit(heap, rep[s]) /\ rep' = Put(rep, s, NullRep)
  BY DEF Str!Clear, Str!Live, Put
<1>2. Whole(rep, heap)
  BY DEF StrInv
<1>3. /\ Whole(Put(rep, s, NullRep), heap')
      /\ ValuesOf(Put(rep, s, NullRep), heap') = Put(ValuesOf(rep, heap), s, <<>>)
      /\ \A q \in DOMAIN heap' : q \in DOMAIN heap /\ heap'[q] = heap[q]
  BY <1>1, <1>2, Empties
<1>4. StrInv' /\ Held' = Put(Held, s, <<>>)
  BY <1>1, <1>3 DEF StrInv, Held
<1>. QED
  BY <1>4, Sets DEF Stepped

\* swap,
LEMMA SwapSteps == ASSUME StrInv, Str!Swap PROVE Stepped
<1>1. PICK s \in DOMAIN rep, t \in DOMAIN rep :
         rep' = [rep EXCEPT ![s] = rep[t], ![t] = rep[s]] /\ heap' = heap
  BY DEF Str!Swap, Str!Live
<1>2. Whole(rep, heap)
  BY DEF StrInv
<1>3. /\ Whole([rep EXCEPT ![s] = rep[t], ![t] = rep[s]], heap)
      /\ ValuesOf([rep EXCEPT ![s] = rep[t], ![t] = rep[s]], heap)
           = [ValuesOf(rep, heap) EXCEPT ![s] = ValuesOf(rep, heap)[t], ![t] = ValuesOf(rep, heap)[s]]
  BY <1>2, Swaps
<1>4. StrInv' /\ Held' = [Held EXCEPT ![s] = Held[t], ![t] = Held[s]]
  BY <1>1, <1>3 DEF StrInv, Held
<1>5. ValueStep
  <2>1. [x \in Str!Live |-> Str!Value(x)]' = Held'
    BY DEF Held, ValuesOf, TextOf, Str!Live, Str!Value
  <2>. DEFINE V == [x \in Str!Live |-> Str!Value(x)]
  <2>2. V = Held /\ V' = Held' /\ DOMAIN Held = DOMAIN rep
    BY <2>1, HeldIs
  <2>3. s \in DOMAIN V /\ t \in DOMAIN V /\ V' = [V EXCEPT ![s] = V[t], ![t] = V[s]]
    <3>. HIDE DEF V
    <3>. QED
      BY <1>4, <2>2
  <2>4. Str!StringValue!Exchange
    BY <2>3, Zenon DEF Str!StringValue!Exchange
  <2>. QED
    BY <2>4 DEF ValueStep, Str!StringValue!Next
<1>. QED
  BY <1>4, <1>5 DEF Stepped

\* Writing at the beginning of a string, or at its end, when there is room.
LEMMA RewrittenInPlace ==
    ASSUME StrInv, NEW s \in DOMAIN rep, NEW at \in Nat, at <= heap[rep[s]].size,
           NEW chars \in Seq(Letters), at + Len(chars) <= heap[rep[s]].capacity,
           heap' = Str!SetSize(Str!CopyTo(heap, rep[s], at, chars), rep[s], at + Len(chars)),
           rep' = rep,
           heap[rep[s]].capacity <= 3 * (at + Len(chars) + Slack)
               \/ heap[rep[s]].capacity <= MaxReserve
    PROVE  /\ StrInv'
           /\ Held' = Put(Held, s, SubSeq(heap[rep[s]].str, 1, at) \o chars)
<1>. DEFINE r == rep[s]
            c == heap[r]
            d == Rewritten(c, at, chars)
<1>1. /\ r \in DOMAIN heap /\ Sound(c) /\ c.size \in Nat /\ Whole(rep, heap) /\ HeapSound(heap)
      /\ r = NullRep => c = Str!StaticRep
  BY ValueTyped DEF StrInv, Whole, HeapSound, Str!Live
<1>2. heap' = Put(heap, r, d)
  BY <1>1, RewritesOne
<1>3. Sound(d) /\ TextOf(d) = SubSeq(c.str, 1, at) \o chars
  <2>1. at \in 0 .. c.size
    BY <1>1
  <2>. HIDE DEF c
  <2>. QED
    BY <1>1, <2>1, RewrittenSound DEF c
<1>4. d.size = at + Len(chars) /\ d.capacity = c.capacity
  BY DEF Rewritten
<1>5. r = NullRep => d = Str!StaticRep
  BY <1>1, <1>3, <1>4, StaticSound, OnlyStatic
<1>6. Tight(d)
  BY <1>4 DEF Tight
<1>. HIDE DEF d
<1>7. /\ Whole(rep, heap')
      /\ ValuesOf(rep, heap') = Put(ValuesOf(rep, heap), s, TextOf(d))
      /\ \A q \in DOMAIN heap' : q \in DOMAIN heap /\ heap'[q] = IF q = r THEN d ELSE heap[q]
  <2>1. /\ heap' = Put(heap, rep[s], d) /\ Sound(d) /\ Whole(rep, heap)
        /\ rep[s] = NullRep => d = Str!StaticRep
    BY <1>1, <1>2, <1>3, <1>5
  <2>2. /\ Whole(rep, heap')
        /\ ValuesOf(rep, heap') = Put(ValuesOf(rep, heap), s, TextOf(d))
        /\ \A q \in DOMAIN heap' : q \in DOMAIN heap /\ heap'[q] = IF q = rep[s] THEN d ELSE heap[q]
    BY ONLY <2>1, Writes, s \in DOMAIN rep
  <2>. QED
    BY <2>2
<1>8. \A q \in DOMAIN heap' : Tight(heap'[q])
  BY <1>6, <1>7 DEF StrInv
<1>. QED
  BY <1>3, <1>7, <1>8 DEF StrInv, Held

\* A string that moves to a new representation of the same text or another.
LEMMA FilledElsewhere ==
    ASSUME StrInv, NEW s \in DOMAIN rep, NEW chars \in Seq(Letters),
           NEW cap \in Nat, cap > 0, Len(chars) <= cap
    PROVE  \E c : /\ Sound(c) /\ c.capacity = cap /\ c.size = Len(chars) /\ TextOf(c) = chars
                  /\ LET g == Str!Quit(Str!Fill(heap, Str!FreeRep, chars, cap), rep[s])
                     IN /\ Whole(Put(rep, s, Str!FreeRep), g)
                        /\ ValuesOf(Put(rep, s, Str!FreeRep), g) = Put(Held, s, chars)
                        /\ Str!FreeRep \in DOMAIN g /\ g[Str!FreeRep] = c
                        /\ \A q \in DOMAIN g : q # Str!FreeRep => q \in DOMAIN heap /\ g[q] = heap[q]
<1>. DEFINE r == Str!FreeRep
            g == Str!Quit(Str!Fill(heap, r, chars, cap), rep[s])
<1>1. r \in Reps \ DOMAIN heap /\ Whole(rep, heap) /\ HeapSound(heap)
  BY FreeRepIs DEF StrInv, Whole
<1>. HIDE DEF r
<1>2. PICK c : /\ Sound(c) /\ c.capacity = cap /\ c.size = Len(chars) /\ TextOf(c) = chars
               /\ Str!Fill(heap, r, chars, cap) = Str!With(heap, r, c)
  BY <1>1, Filled
<1>3. g = Str!Quit(Str!With(heap, r, c), rep[s])
  BY <1>2
<1>. HIDE DEF g
<1>4. /\ Whole(Put(rep, s, r), g)
      /\ ValuesOf(Put(rep, s, r), g) = Put(ValuesOf(rep, heap), s, TextOf(c))
      /\ r \in DOMAIN g /\ g[r] = c
      /\ \A q \in DOMAIN g : q # r => q \in DOMAIN heap /\ g[q] = heap[q]
  BY <1>1, <1>2, <1>3, Moves
<1>. QED
  BY <1>2, <1>4 DEF Held, g, r

\* assign, which keeps the representation when it is neither too small nor too large,
LEMMA AssignSteps == ASSUME StrInv, Str!Assign PROVE Stepped
<1>1. PICK s \in Str!Live, chars \in Texts \cup {<<>>} \cup {Str!Value(t) : t \in Str!Live} :
         LET len == Len(chars)
             cap == heap[rep[s]].capacity
         IN IF len > cap \/ cap > 3 * (len + Slack)
            THEN /\ heap' = Str!Quit(Str!Fill(heap, Str!FreeRep, chars, len), rep[s])
                 /\ rep' = [rep EXCEPT ![s] = Str!RepFor(Str!FreeRep, len)]
            ELSE /\ heap' = Str!SetSize(Str!CopyTo(heap, rep[s], 0, chars), rep[s], len)
                 /\ UNCHANGED rep
  BY DEF Str!Assign
<1>. DEFINE len == Len(chars)
            cap == heap[rep[s]].capacity
<1>2. /\ chars \in Seq(Letters) /\ len \in Nat /\ s \in DOMAIN rep
      /\ Whole(rep, heap) /\ HeapSound(heap)
  BY GivenTyped DEF Str!Live, StrInv, Whole
<1>3. cap \in Nat /\ heap[rep[s]].size \in Nat /\ Sound(heap[rep[s]])
  BY ValueTyped
<1>4. StrInv' /\ Held' = Put(Held, s, chars)
  <2>1. CASE (len > cap \/ cap > 3 * (len + Slack)) /\ len = 0
    <3>1. Str!FreeRep \in Reps \ DOMAIN heap
      BY FreeRepIs
    <3>2. /\ Str!Fill(heap, Str!FreeRep, chars, len) = heap /\ Str!RepFor(Str!FreeRep, len) = NullRep
          /\ chars = <<>>
      <4>1. len <= len /\ len \in Nat
        BY <1>2
      <4>. QED
        BY <1>2, <2>1, <3>1, <4>1, Filled
    <3>3. heap' = Str!Quit(heap, rep[s]) /\ rep' = Put(rep, s, NullRep)
      BY <1>1, <2>1, <3>2 DEF Put
    <3>4. /\ Whole(Put(rep, s, NullRep), heap')
          /\ ValuesOf(Put(rep, s, NullRep), heap') = Put(ValuesOf(rep, heap), s, <<>>)
          /\ \A q \in DOMAIN heap' : q \in DOMAIN heap /\ heap'[q] = heap[q]
      BY <1>2, <3>3, Empties
    <3>. QED
      BY <3>2, <3>3, <3>4 DEF StrInv, Held
  <2>2. CASE (len > cap \/ cap > 3 * (len + Slack)) /\ len > 0
    <3>1. /\ heap' = Str!Quit(Str!Fill(heap, Str!FreeRep, chars, len), rep[s])
          /\ rep' = Put(rep, s, Str!FreeRep)
      <4>1. Str!RepFor(Str!FreeRep, len) = Str!FreeRep
        BY <2>2 DEF Str!RepFor
      <4>. QED
        BY <1>1, <2>2, <4>1 DEF Put
    <3>2. PICK c : /\ Sound(c) /\ c.capacity = len /\ c.size = Len(chars) /\ TextOf(c) = chars
                   /\ Whole(rep', heap') /\ ValuesOf(rep', heap') = Put(Held, s, chars)
                   /\ \A q \in DOMAIN heap' : \/ heap'[q] = c
                                              \/ q \in DOMAIN heap /\ heap'[q] = heap[q]
      <4>1. len <= len
        BY <1>2
      <4>. QED
        BY <1>2, <2>2, <3>1, <4>1, FilledElsewhere
    <3>3. Tight(c)
      BY <1>2, <3>2, SlackTyped DEF Tight
    <3>4. \A q \in DOMAIN heap' : Tight(heap'[q])
      BY <3>2, <3>3 DEF StrInv
    <3>. QED
      BY <3>2, <3>4 DEF StrInv, Held
  <2>3. CASE ~(len > cap \/ cap > 3 * (len + Slack))
    <3>1. PICK at \in Nat : at = 0
      OBVIOUS
    <3>2. at <= heap[rep[s]].size /\ at + Len(chars) = len
      BY <1>2, <1>3, <3>1
    <3>3. /\ heap' = Str!SetSize(Str!CopyTo(heap, rep[s], at, chars), rep[s], at + Len(chars))
          /\ rep' = rep
      BY <1>1, <2>3, <3>1, <3>2
    <3>4. at + Len(chars) <= cap /\ cap <= 3 * (at + Len(chars) + Slack)
      <4>1. len <= cap /\ cap <= 3 * (len + Slack)
        BY <1>2, <1>3, <2>3, SlackTyped
      <4>. QED
        BY <3>2, <4>1
    <3>5. StrInv' /\ Held' = Put(Held, s, SubSeq(heap[rep[s]].str, 1, at) \o chars)
      BY <1>2, <3>2, <3>3, <3>4, RewrittenInPlace
    <3>6. SubSeq(heap[rep[s]].str, 1, at) \o chars = chars
      BY <1>2, <3>1, SubSeqEmpty, ConcatEmptySeq
    <3>. QED
      BY <3>5, <3>6
  <2>. QED
    BY <1>2, <1>3, <2>1, <2>2, <2>3
<1>. QED
  BY <1>2, <1>4, Sets DEF Stepped

\* reserve, which never changes the value,
LEMMA ReserveSteps == ASSUME StrInv, Str!Reserve PROVE Stepped
<1>1. PICK s \in Str!Live, cap \in 1 .. MaxReserve :
         heap' = Str!Reserved(s, cap).heap /\ rep' = [rep EXCEPT ![s] = Str!Reserved(s, cap).rep]
  BY DEF Str!Reserve
<1>2. /\ s \in DOMAIN rep /\ Whole(rep, heap) /\ HeapSound(heap)
      /\ Str!Value(s) \in Seq(Letters) /\ Len(Str!Value(s)) = heap[rep[s]].size
      /\ heap[rep[s]].size \in Nat /\ heap[rep[s]].capacity \in Nat /\ Sound(heap[rep[s]])
  BY ValueTyped DEF Str!Live, StrInv, Whole
<1>3. cap \in Nat /\ cap > 0 /\ cap <= MaxReserve
  BY SlackTyped
<1>4. CASE cap > heap[rep[s]].capacity
  <2>1. /\ heap' = Str!Quit(Str!Fill(heap, Str!FreeRep, Str!Value(s), cap), rep[s])
        /\ rep' = Put(rep, s, Str!FreeRep)
    BY <1>1, <1>4 DEF Str!Reserved, Put
  <2>2. PICK c : /\ Sound(c) /\ c.capacity = cap
                 /\ Whole(rep', heap') /\ ValuesOf(rep', heap') = Put(Held, s, Str!Value(s))
                 /\ \A q \in DOMAIN heap' : \/ heap'[q] = c
                                            \/ q \in DOMAIN heap /\ heap'[q] = heap[q]
    <3>1. Len(Str!Value(s)) <= cap
      BY <1>2, <1>3, <1>4 DEF Sound
    <3>. QED
      BY <1>2, <1>3, <2>1, <3>1, FilledElsewhere
  <2>3. Tight(c)
    BY <1>3, <2>2 DEF Tight
  <2>4. \A q \in DOMAIN heap' : Tight(heap'[q])
    BY <2>2, <2>3 DEF StrInv
  <2>5. Put(Held, s, Str!Value(s)) = Held
    BY <1>2, HeldIs DEF Put, Held, ValuesOf
  <2>. QED
    BY <2>2, <2>4, <2>5 DEF StrInv, Held, Stepped, ValueStep
<1>5. CASE ~(cap > heap[rep[s]].capacity)
  <2>1. heap' = heap /\ rep' = rep
    BY <1>1, <1>2, <1>5 DEF Str!Reserved, Whole, Owned
  <2>. QED
    BY <2>1 DEF Stepped, StrInv, ValueStep, Held
<1>. QED
  BY <1>4, <1>5

\* What append writes at r, where there is room.
Appended(g, r, chars) ==
    Str!SetSize(Str!CopyTo(g, r, g[r].size, chars), r, g[r].size + Len(chars))

\* The text written after the one there was.
LEMMA AppendedWhole ==
    ASSUME NEW rp, NEW g, Whole(rp, g), NEW s \in DOMAIN rp, rp[s] # NullRep,
           NEW chars \in Seq(Letters), g[rp[s]].size + Len(chars) <= g[rp[s]].capacity
    PROVE  /\ Whole(rp, Appended(g, rp[s], chars))
           /\ ValuesOf(rp, Appended(g, rp[s], chars))
                = Put(ValuesOf(rp, g), s, TextOf(g[rp[s]]) \o chars)
           /\ DOMAIN Appended(g, rp[s], chars) = DOMAIN g
           /\ Appended(g, rp[s], chars)[rp[s]].capacity = g[rp[s]].capacity
           /\ Appended(g, rp[s], chars)[rp[s]].size = g[rp[s]].size + Len(chars)
           /\ \A q \in DOMAIN g : q # rp[s] => Appended(g, rp[s], chars)[q] = g[q]
<1>. DEFINE c == g[rp[s]]
            h == Appended(g, rp[s], chars)
            d == Rewritten(c, c.size, chars)
<1>1. HeapSound(g) /\ rp[s] \in DOMAIN g /\ c.size \in Nat /\ Sound(c)
  BY DEF Whole, Owned, HeapSound, Sound, Cells
<1>2. h = Put(g, rp[s], d)
  BY <1>1, RewritesOne DEF Appended
<1>. HIDE DEF c, h
<1>3. Sound(d) /\ TextOf(d) = TextOf(c) \o chars
  <2>1. c.size \in 0 .. c.size
    BY <1>1
  <2>2. c.size + Len(chars) <= c.capacity
    BY DEF c
  <2>. QED
    BY <1>1, <2>1, <2>2, RewrittenSound DEF TextOf
<1>4. d.size = c.size + Len(chars) /\ d.capacity = c.capacity
  BY DEF Rewritten
<1>. HIDE DEF d
<1>5. /\ Whole(rp, h)
      /\ ValuesOf(rp, h) = Put(ValuesOf(rp, g), s, TextOf(d))
      /\ \A q \in DOMAIN h : q \in DOMAIN g /\ h[q] = IF q = rp[s] THEN d ELSE g[q]
  <2>1. \A e : Sound(e) => /\ Whole(rp, Put(g, rp[s], e))
                           /\ ValuesOf(rp, Put(g, rp[s], e)) = Put(ValuesOf(rp, g), s, TextOf(e))
    BY Writes
  <2>2. Whole(rp, h) /\ ValuesOf(rp, h) = Put(ValuesOf(rp, g), s, TextOf(d))
    BY ONLY <1>2, <1>3, <2>1
  <2>3. \A q \in DOMAIN h : q \in DOMAIN g /\ h[q] = IF q = rp[s] THEN d ELSE g[q]
    BY <1>1, <1>2 DEF Put
  <2>. QED
    BY <2>2, <2>3
<1>6. DOMAIN h = DOMAIN g
  BY <1>2 DEF Put
<1>. QED
  BY <1>1, <1>3, <1>4, <1>5, <1>6 DEF c, h

\* and append, which reserves before it writes at the end.
LEMMA AppendSteps == ASSUME StrInv, Str!AppendChars PROVE Stepped
<1>1. PICK s \in Str!Live, chars \in Texts \cup {Str!Value(t) : t \in Str!Live} :
         LET size == heap[rep[s]].size
             cap == heap[rep[s]].capacity
             newsize == size + Len(chars)
             reserved == IF newsize > cap THEN Str!Reserved(s, newsize + cap)
                         ELSE [heap |-> heap, rep |-> rep[s]]
         IN /\ heap' = Str!SetSize(Str!CopyTo(reserved.heap, reserved.rep, size, chars),
                                   reserved.rep, newsize)
            /\ rep' = [rep EXCEPT ![s] = reserved.rep]
  <2>. DEFINE Step(s, chars) ==
         LET size == heap[rep[s]].size
             cap == heap[rep[s]].capacity
             newsize == size + Len(chars)
             reserved == IF newsize > cap THEN Str!Reserved(s, newsize + cap)
                         ELSE [heap |-> heap, rep |-> rep[s]]
         IN /\ heap' = Str!SetSize(Str!CopyTo(reserved.heap, reserved.rep, size, chars),
                                   reserved.rep, newsize)
            /\ rep' = [rep EXCEPT ![s] = reserved.rep]
  <2>1. PICK s \in Str!Live : \E chars \in Texts \cup {Str!Value(t) : t \in Str!Live \ {s}} :
                                Step(s, chars)
    BY DEF Str!AppendChars
  <2>. HIDE DEF Step
  <2>2. PICK chars \in Texts \cup {Str!Value(t) : t \in Str!Live \ {s}} : Step(s, chars)
    BY <2>1
  <2>3. \E u \in Str!Live, v \in Texts \cup {Str!Value(t) : t \in Str!Live} : Step(u, v)
    BY <2>2
  <2>. QED
    BY <2>3, Zenon DEF Step
<1>. DEFINE size == heap[rep[s]].size
            cap == heap[rep[s]].capacity
            newsize == size + Len(chars)
            old == Str!Value(s)
<1>2. /\ s \in DOMAIN rep /\ Whole(rep, heap) /\ HeapSound(heap)
      /\ old \in Seq(Letters) /\ Len(old) = size
      /\ size \in Nat /\ cap \in Nat /\ Sound(heap[rep[s]]) /\ Tight(heap[rep[s]])
  BY ValueTyped DEF Str!Live, StrInv, Whole
<1>3. chars \in Seq(Letters) /\ Len(chars) \in Nat
  BY GivenTyped
<1>4. newsize \in Nat /\ newsize >= size /\ size <= cap
  BY <1>2, <1>3 DEF Sound
<1>5. StrInv' /\ Held' = Put(Held, s, old \o chars)
  <2>1. CASE newsize <= cap
    <3>1. /\ heap' = Str!SetSize(Str!CopyTo(heap, rep[s], size, chars), rep[s], newsize)
          /\ rep' = rep
      <4>1. ~(newsize > cap)
        BY <1>2, <1>4, <2>1
      <4>. QED
        BY <1>1, <1>2, <4>1 DEF Whole, Owned
    <3>2. cap <= 3 * (newsize + Slack) \/ cap <= MaxReserve
      <4>. HIDE DEF newsize, size, cap
      <4>1. cap <= 3 * (size + Slack) \/ cap <= MaxReserve
        BY <1>2 DEF Tight, size, cap
      <4>. QED
        BY <1>2, <1>4, <4>1, SlackTyped
    <3>3. size <= size
      BY <1>2
    <3>4. StrInv' /\ Held' = Put(Held, s, SubSeq(heap[rep[s]].str, 1, size) \o chars)
      BY <1>2, <1>3, <2>1, <3>1, <3>2, <3>3, RewrittenInPlace
    <3>. QED
      BY <3>4 DEF Str!Value
  <2>2. CASE newsize > cap
    <3>. DEFINE r == Str!FreeRep
                more == newsize + cap
                rp == Put(rep, s, r)
                g == Str!Quit(Str!Fill(heap, r, old, more), rep[s])
    <3>1. more \in Nat /\ more > 0 /\ Len(old) <= more /\ more > cap /\ newsize <= more
      BY <1>2, <1>4, <2>2
    <3>2. Str!Reserved(s, more) = [heap |-> g, rep |-> r]
      BY <3>1 DEF Str!Reserved
    <3>3. heap' = Str!SetSize(Str!CopyTo(g, r, size, chars), r, newsize) /\ rep' = rp
      <4>. DEFINE reserved == Str!Reserved(s, more)
      <4>1. /\ heap' = Str!SetSize(Str!CopyTo(reserved.heap, reserved.rep, size, chars),
                                   reserved.rep, newsize)
            /\ rep' = Put(rep, s, reserved.rep)
        BY <1>1, <2>2 DEF Put
      <4>. HIDE DEF reserved
      <4>2. reserved.heap = g /\ reserved.rep = r
        BY <3>2 DEF reserved
      <4>. HIDE DEF g, r, size, newsize
      <4>. QED
        BY <4>1, <4>2
    <3>4. PICK c : /\ Sound(c) /\ c.capacity = more /\ c.size = Len(old) /\ TextOf(c) = old
                   /\ Whole(rp, g) /\ ValuesOf(rp, g) = Put(Held, s, old)
                   /\ r \in DOMAIN g /\ g[r] = c
                   /\ \A q \in DOMAIN g : q # r => q \in DOMAIN heap /\ g[q] = heap[q]
      <4>. HIDE DEF more, old
      <4>. QED
        BY <1>2, <3>1, FilledElsewhere
    <3>5. r \in Reps \ DOMAIN heap /\ r # NullRep
      BY FreeRepIs, MemoryAssumption
    <3>6. rp[s] = r /\ s \in DOMAIN rp
      BY <1>2 DEF Put, Whole, Owned
    <3>. HIDE DEF g, rp, r
    <3>7. /\ Whole(rp, heap')
          /\ ValuesOf(rp, heap') = Put(ValuesOf(rp, g), s, TextOf(c) \o chars)
          /\ DOMAIN heap' = DOMAIN g
          /\ heap'[rp[s]].capacity = c.capacity /\ heap'[rp[s]].size = c.size + Len(chars)
          /\ \A q \in DOMAIN heap' : q # rp[s] => heap'[q] = g[q]
      <4>1. c = g[rp[s]] /\ rp[s] # NullRep
        BY <3>4, <3>5, <3>6
      <4>2. g[rp[s]].size + Len(chars) <= g[rp[s]].capacity
        BY <1>2, <3>1, <3>4, <4>1
      <4>3. heap' = Appended(g, rp[s], chars)
        BY <1>2, <3>3, <3>4, <3>6, <4>1 DEF Appended
      <4>. QED
        <5>1. /\ Whole(rp, Appended(g, rp[s], chars))
              /\ ValuesOf(rp, Appended(g, rp[s], chars))
                   = Put(ValuesOf(rp, g), s, TextOf(g[rp[s]]) \o chars)
              /\ DOMAIN Appended(g, rp[s], chars) = DOMAIN g
              /\ Appended(g, rp[s], chars)[rp[s]].capacity = g[rp[s]].capacity
              /\ Appended(g, rp[s], chars)[rp[s]].size = g[rp[s]].size + Len(chars)
              /\ \A q \in DOMAIN g : q # rp[s] => Appended(g, rp[s], chars)[q] = g[q]
          <6>1. Whole(rp, g) /\ s \in DOMAIN rp /\ rp[s] # NullRep /\ chars \in Seq(Letters)
            BY <1>3, <3>4, <3>6, <4>1
          <6>. QED
            BY ONLY <6>1, <4>2, AppendedWhole
        <5>. QED
          BY ONLY <4>1, <4>3, <5>1
    <3>8. Tight(heap'[r])
      <4>1. heap'[r].capacity = newsize + cap /\ heap'[r].size = newsize
        BY <1>2, <3>4, <3>6, <3>7
      <4>2. newsize + cap <= 3 * (newsize + Slack)
        <5>. HIDE DEF newsize, cap
        <5>. QED
          BY <1>2, <1>4, <2>2, SlackTyped
      <4>. QED
        BY <4>1, <4>2 DEF Tight
    <3>9. \A q \in DOMAIN heap' : Tight(heap'[q])
      BY <3>4, <3>6, <3>7, <3>8 DEF StrInv
    <3>10. Put(Put(Held, s, old), s, old \o chars) = Put(Held, s, old \o chars)
      BY DEF Put, Held, ValuesOf
    <3>. QED
      BY <3>3, <3>4, <3>7, <3>9, <3>10 DEF StrInv, Held
  <2>. QED
    BY <1>2, <1>4, <2>1, <2>2
<1>6. old = Held[s]
  BY <1>2, HeldIs
<1>. QED
  BY <1>2, <1>5, <1>6, Extends DEF Stepped

-----------------------------------------------------------------------------

LEMMA StringsStart == Str!Init => StrInv
<1>. SUFFICES ASSUME Str!Init PROVE StrInv
  OBVIOUS
<1>1. /\ rep = [s \in {} |-> NullRep] /\ heap = [r \in {NullRep} |-> Str!StaticRep]
  BY DEF Str!Init
<1>2. HeapSound(heap)
  BY <1>1, StaticSound DEF HeapSound
<1>3. Owned(rep, heap)
  BY <1>1 DEF Owned
<1>4. Tight(Str!StaticRep)
  BY StaticSound, SlackTyped DEF Tight
<1>. QED
  BY <1>1, <1>2, <1>3, <1>4 DEF StrInv, Whole

LEMMA StringsStep == StrInv /\ [Str!Next]_<<rep, heap>> => Stepped
<1>. SUFFICES ASSUME StrInv, [Str!Next]_<<rep, heap>> PROVE Stepped
  OBVIOUS
<1>1. CASE UNCHANGED <<rep, heap>>
  BY <1>1 DEF Stepped, StrInv, ValueStep, Held
<1>2. CASE Str!Next
  BY <1>2, ConstructSteps, ConcatenateSteps, DestroySteps, AssignSteps, ReserveSteps,
     AppendSteps, ClearSteps, SwapSteps DEF Str!Next
<1>. QED
  BY <1>1, <1>2

LEMMA StrInvHolds == Str!Spec => []StrInv
<1>1. StrInv /\ [Str!Next]_<<rep, heap>> => StrInv'
  BY StringsStep DEF Stepped
<1>. QED
  BY <1>1, StringsStart, PTL DEF Str!Spec, Str!vars

\* Every representation is whole, of one string, and in proportion.
LEMMA StrInvWhole == StrInv => StringsWhole
<1>. SUFFICES ASSUME StrInv PROVE StringsWhole
  OBVIOUS
<1>1. Str!TypeOK
  <2>1. Str!Range(rep) \subseteq Reps \cup {NullRep}
    BY DEF Str!Range, StrInv, Whole, Owned, HeapSound
  <2>2. \A r \in DOMAIN heap : heap[r].size \in Nat /\ heap[r].capacity \in Nat
    BY DEF StrInv, Whole, HeapSound, Sound, Cells
  <2>. QED
    BY <2>1, <2>2 DEF Str!TypeOK, Str!Live, StrInv, Whole, Owned, HeapSound
<1>2. Str!OneOwner
  <2>1. Str!Range(rep) \subseteq DOMAIN heap
    BY DEF Str!Range, StrInv, Whole, Owned
  <2>2. ASSUME NEW r \in DOMAIN heap \ {NullRep}
        PROVE  Cardinality({s \in Str!Live : rep[s] = r}) = 1
    <3>1. PICK s \in DOMAIN rep : rep[s] = r
      BY DEF StrInv, Whole, Owned
    <3>2. {t \in Str!Live : rep[t] = r} = {s}
      BY <3>1 DEF StrInv, Whole, Owned, Str!Live
    <3>. QED
      BY <3>2, FS_Singleton
  <2>. QED
    BY <2>1, <2>2 DEF Str!OneOwner, Str!Cardinality, Cardinality
<1>3. Str!WithinBounds
  <2>1. \A r \in DOMAIN heap : Sound(heap[r])
    BY DEF StrInv, Whole, HeapSound
  <2>2. Junk \notin Letters
    BY DEF Letters
  <2>. QED
    BY <2>1, <2>2 DEF Str!WithinBounds, Sound
<1>4. Str!InProportion
  BY DEF StrInv, Tight, Str!InProportion
<1>. QED
  BY <1>1, <1>2, <1>3, <1>4 DEF StringsWhole

\* Whatever the strings, their number, the texts and the memory: no string shares its
\* representation, none is lost, nothing is written outside of what was allocated.
THEOREM StringsAreWhole == Str!Spec => []StringsWhole
BY StrInvHolds, StrInvWhole, PTL

\* The strings refine an assignment of values to strings: an operation changes the
\* value of the strings it names as it says, and reserving changes none.
THEOREM StringsAreValues == Str!Spec => ImplementsValues
<1>1. Str!Init => Str!StringValue!Init
  BY DEF Str!Init, Str!StringValue!Init, Str!Live
<1>2. StrInv /\ [Str!Next]_<<rep, heap>>
        => [Str!StringValue!Next]_([s \in Str!Live |-> Str!Value(s)])
  <2>1. [s \in Str!Live |-> Str!Value(s)]' = Held'
    BY DEF Held, ValuesOf, TextOf, Str!Live, Str!Value
  <2>. QED
    BY <2>1, StringsStep, HeldIs DEF Stepped, ValueStep
<1>. QED
  BY <1>1, <1>2, StrInvHolds, PTL
  DEF Str!Spec, Str!vars, ImplementsValues, Str!ImplementsValues, Str!StringValue!Spec

=============================================================================

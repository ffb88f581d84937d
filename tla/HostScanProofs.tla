--------------------------- MODULE HostScanProofs ---------------------------
(***************************************************************************)
(* Proofs about HostScan for any list of links, any times and any number   *)
(* of I/O threads.                                                         *)
(***************************************************************************)
EXTENDS HostScan, PrefixInduction, FiniteSetTheorems, SequenceTheorems, TLAPS

-----------------------------------------------------------------------------
(* Mailboxes, as seen from one session                                     *)

\* From q to r nothing changes for the session of h.
Kept(q, r, h) ==
    /\ Silent(q, h) => Silent(r, h)
    /\ \A type \in CmdTypes : Sole(q, type, h) => Sole(r, type, h)
    /\ \A type \in CmdTypes, i \in 1 .. Len(r) :
          r[i] = Cmd(type, h) => \E j \in 1 .. Len(q) : q[j] = Cmd(type, h)

\* A mailbox that is left alone is the same for every session.
LEMMA KeptSame ==
    ASSUME NEW q, NEW h
    PROVE  Kept(q, q, h)
BY DEF Kept

\* Commands about different sessions differ, and so do commands of different types.
LEMMA CmdsDiffer ==
    ASSUME NEW g, NEW h, NEW type, NEW other
    PROVE  /\ g # h \/ type # other => Cmd(type, g) # Cmd(other, h)
           /\ Cmd(type, g) # PlugAll
           /\ Cmd(type, g).type = type /\ Cmd(type, g).session = g
BY DEF Cmd, PlugAll

\* Putting a command that is not about h in a mailbox changes nothing for h.
LEMMA KeptAppend ==
    ASSUME NEW S, NEW q \in Seq(S), NEW c \in S, NEW h,
           \A type \in CmdTypes : c # Cmd(type, h)
    PROVE  Kept(q, Append(q, c), h)
<1>. DEFINE r == Append(q, c)
<1>1. /\ Len(q) \in Nat /\ Len(r) = Len(q) + 1 /\ r[Len(q) + 1] = c
      /\ \A i \in 1 .. Len(q) : r[i] = q[i]
  OBVIOUS
<1>. HIDE DEF r
<1>2. \A i \in 1 .. Len(r) : i \in 1 .. Len(q) \/ i = Len(q) + 1
  BY <1>1
<1>3. Silent(q, h) => Silent(r, h)
  BY <1>1, <1>2 DEF Silent
<1>4. ASSUME NEW type \in CmdTypes, Sole(q, type, h)
      PROVE  Sole(r, type, h)
  <2>1. PICK i \in 1 .. Len(q) :
          /\ q[i] = Cmd(type, h)
          /\ \A j \in 1 .. Len(q) : \A other \in CmdTypes : j # i => q[j] # Cmd(other, h)
    BY <1>4 DEF Sole
  <2>2. i \in 1 .. Len(r) /\ r[i] = Cmd(type, h)
    BY <1>1, <2>1
  <2>3. \A j \in 1 .. Len(r) : \A other \in CmdTypes : j # i => r[j] # Cmd(other, h)
    BY <1>1, <1>2, <2>1
  <2>. QED
    BY <2>2, <2>3 DEF Sole
<1>5. \A type \in CmdTypes, i \in 1 .. Len(r) :
        r[i] = Cmd(type, h) => \E j \in 1 .. Len(q) : q[j] = Cmd(type, h)
  BY <1>1, <1>2
<1>. QED
  BY <1>3, <1>4, <1>5 DEF Kept, r

\* Taking a command that is not about h out of a mailbox changes nothing for h.
LEMMA KeptTail ==
    ASSUME NEW S, NEW q \in Seq(S), q # <<>>, NEW h,
           \A type \in CmdTypes : Head(q) # Cmd(type, h)
    PROVE  Kept(q, Tail(q), h)
<1>. DEFINE r == Tail(q)
<1>1. /\ Len(q) \in Nat \ {0} /\ Len(r) = Len(q) - 1 /\ Head(q) = q[1]
      /\ \A i \in 1 .. Len(r) : r[i] = q[i + 1]
  OBVIOUS
<1>. HIDE DEF r
<1>2. \A i \in 1 .. Len(r) : i + 1 \in 1 .. Len(q)
  BY <1>1
<1>3. Silent(q, h) => Silent(r, h)
  BY <1>1, <1>2 DEF Silent
<1>4. ASSUME NEW type \in CmdTypes, Sole(q, type, h)
      PROVE  Sole(r, type, h)
  <2>1. PICK i \in 1 .. Len(q) :
          /\ q[i] = Cmd(type, h)
          /\ \A j \in 1 .. Len(q) : \A other \in CmdTypes : j # i => q[j] # Cmd(other, h)
    BY <1>4 DEF Sole
  <2>2. i # 1
    BY <1>1, <2>1
  <2>3. i - 1 \in 1 .. Len(r) /\ r[i - 1] = Cmd(type, h)
    BY <1>1, <2>1, <2>2
  <2>4. \A j \in 1 .. Len(r) : \A other \in CmdTypes : j # i - 1 => r[j] # Cmd(other, h)
    BY <1>1, <1>2, <2>1
  <2>. QED
    BY <2>3, <2>4 DEF Sole
<1>5. \A type \in CmdTypes, i \in 1 .. Len(r) :
        r[i] = Cmd(type, h) => \E j \in 1 .. Len(q) : q[j] = Cmd(type, h)
  BY <1>1, <1>2
<1>. QED
  BY <1>3, <1>4, <1>5 DEF Kept, r

\* The first command about h is the only one.
LEMMA SoleAppend ==
    ASSUME NEW S, NEW q \in Seq(S), NEW type \in CmdTypes, NEW h, Silent(q, h),
           Cmd(type, h) \in S
    PROVE  Sole(Append(q, Cmd(type, h)), type, h)
<1>. DEFINE r == Append(q, Cmd(type, h))
<1>1. /\ Len(q) \in Nat /\ Len(r) = Len(q) + 1 /\ r[Len(q) + 1] = Cmd(type, h)
      /\ \A i \in 1 .. Len(q) : r[i] = q[i]
  OBVIOUS
<1>. HIDE DEF r
<1>2. \A i \in 1 .. Len(r) : i \in 1 .. Len(q) \/ i = Len(q) + 1
  BY <1>1
<1>3. Len(q) + 1 \in 1 .. Len(r)
  BY <1>1
<1>4. Sole(r, type, h)
  BY <1>1, <1>2, <1>3 DEF Sole, Silent
<1>. QED
  BY <1>4 DEF r

\* Taking the only command about h leaves none.
LEMMA SilentTail ==
    ASSUME NEW S, NEW q \in Seq(S), q # <<>>, NEW type \in CmdTypes, NEW h,
           Sole(q, type, h), NEW other \in CmdTypes, Head(q) = Cmd(other, h)
    PROVE  type = other /\ Silent(Tail(q), h)
<1>. DEFINE r == Tail(q)
<1>1. /\ Len(q) \in Nat \ {0} /\ Len(r) = Len(q) - 1 /\ Head(q) = q[1]
      /\ \A i \in 1 .. Len(r) : r[i] = q[i + 1]
  OBVIOUS
<1>. HIDE DEF r
<1>2. PICK i \in 1 .. Len(q) :
        /\ q[i] = Cmd(type, h)
        /\ \A j \in 1 .. Len(q) : \A ty \in CmdTypes : j # i => q[j] # Cmd(ty, h)
  BY DEF Sole
<1>3. i = 1
  BY <1>1, <1>2
<1>4. type = other
  BY <1>1, <1>2, <1>3, CmdsDiffer
<1>5. Silent(r, h)
  BY <1>1, <1>2, <1>3 DEF Silent
<1>. QED
  BY <1>4, <1>5 DEF r

\* A mailbox with nothing about h has nothing about h at its head.
LEMMA SilentHead ==
    ASSUME NEW S, NEW q \in Seq(S), q # <<>>, NEW h, Silent(q, h)
    PROVE  \A type \in CmdTypes : Head(q) # Cmd(type, h)
<1>1. 1 \in 1 .. Len(q) /\ Head(q) = q[1]
  OBVIOUS
<1>. QED
  BY <1>1 DEF Silent

-----------------------------------------------------------------------------
(* One session's phase                                                     *)

\* A step that leaves the fields and the commands of a session alone leaves its
\* phase alone.
LEMMA PhaseKept ==
    ASSUME NEW h, Phase(h),
           sess'[h] = sess[h], thread'[h] = thread[h],
           h \in connecters' <=> h \in connecters, crashed => crashed',
           Kept(reaperQ, reaperQ', h),
           thread[h] \in IoThreads => Kept(ioQ[thread[h]], ioQ'[thread[h]], h)
    PROVE  Phase(h)'
<1>. DEFINE q == ioQ[thread[h]]
            r == ioQ'[thread'[h]]
<1>1. {"plug", "term", "detachSession"} \subseteq CmdTypes
  BY DEF CmdTypes
<1>2. /\ Silent(reaperQ, h) => Silent(reaperQ', h)
      /\ Sole(reaperQ, "detachSession", h) => Sole(reaperQ', "detachSession", h)
      /\ (\A i \in 1 .. Len(reaperQ) : reaperQ[i] # Cmd("detachSession", h)) =>
           \A i \in 1 .. Len(reaperQ') : reaperQ'[i] # Cmd("detachSession", h)
  BY <1>1 DEF Kept
<1>3. thread[h] \in IoThreads =>
        /\ Silent(q, h) => Silent(r, h)
        /\ Sole(q, "plug", h) => Sole(r, "plug", h)
        /\ Sole(q, "term", h) => Sole(r, "term", h)
  BY <1>1 DEF Kept
<1>. QED
  BY <1>2, <1>3 DEF Phase

-----------------------------------------------------------------------------
(* What the steps do to the mailboxes                                      *)

\* The types of the variables the mailbox lemmas speak of.
QueuesOK ==
    /\ reaperQ \in Seq(ReaperCmds)
    /\ ioQ \in [IoThreads -> Seq(IoCmds)]
    /\ thread \in [Hosts -> IoThreads \cup {NoThread}]

\* The commands of a session are commands of the mailboxes they are put in.
LEMMA CmdsTyped ==
    ASSUME NEW h \in Hosts
    PROVE  /\ \A type \in {"plug", "term"} : Cmd(type, h) \in IoCmds
           /\ \A type \in {"connectTimeOut", "detachSession"} : Cmd(type, h) \in ReaperCmds
BY DEF IoCmds, ReaperCmds

\* An I/O thread takes a command of h from its mailbox: other sessions and other
\* mailboxes do not notice, and if it was the only one about h none is left.
LEMMA IoTakesEffect ==
    ASSUME QueuesOK, NEW h \in Hosts, NEW type \in {"plug", "term"}, IoTakes(type, h)
    PROVE  /\ thread[h] \in IoThreads
           /\ ioQ' \in [IoThreads -> Seq(IoCmds)]
           /\ \A t \in IoThreads : t # thread[h] => ioQ'[t] = ioQ[t]
           /\ \A g \in Hosts, t \in IoThreads : g # h => Kept(ioQ[t], ioQ'[t], g)
           /\ \A t \in IoThreads : Silent(ioQ[t], h) => t # thread[h] /\ Silent(ioQ'[t], h)
           /\ \A other \in CmdTypes : Sole(ioQ[thread[h]], other, h) =>
                 other = type /\ Silent(ioQ'[thread[h]], h)
<1>. DEFINE u == thread[h]
            q == ioQ[u]
<1>1. /\ u \in IoThreads /\ q \in Seq(IoCmds) /\ q # <<>> /\ Head(q) = Cmd(type, h)
      /\ ioQ' = [ioQ EXCEPT ![u] = Tail(q)]
  BY DEF QueuesOK, IoTakes
<1>2. /\ ioQ' \in [IoThreads -> Seq(IoCmds)]
      /\ ioQ'[u] = Tail(q)
      /\ \A t \in IoThreads : t # u => ioQ'[t] = ioQ[t]
  BY <1>1 DEF QueuesOK
<1>. HIDE DEF q, u
<1>3. type \in CmdTypes
  BY DEF CmdTypes
<1>4. ASSUME NEW g \in Hosts, g # h, NEW t \in IoThreads
      PROVE  Kept(ioQ[t], ioQ'[t], g)
  <2>1. \A ty \in CmdTypes : Head(q) # Cmd(ty, g)
    BY <1>1, <1>4, CmdsDiffer
  <2>2. Kept(q, Tail(q), g)
    BY <1>1, <2>1, KeptTail
  <2>. QED
    BY <1>2, <2>2, KeptSame DEF q
<1>5. ~Silent(q, h)
  BY <1>1, <1>3, SilentHead
<1>6. ASSUME NEW other \in CmdTypes, Sole(q, other, h)
      PROVE  other = type /\ Silent(ioQ'[u], h)
  BY <1>1, <1>2, <1>3, <1>6, SilentTail
<1>7. ASSUME NEW t \in IoThreads, Silent(ioQ[t], h)
      PROVE  t # u /\ Silent(ioQ'[t], h)
  BY <1>2, <1>5, <1>7 DEF q
<1>. QED
  BY <1>1, <1>2, <1>4, <1>6, <1>7 DEF q, u

\* Someone puts a command about h in the mailbox of thread u.
LEMMA IoAppendEffect ==
    ASSUME QueuesOK, NEW h \in Hosts, NEW type \in {"plug", "term"}, NEW u \in IoThreads,
           ioQ' = [ioQ EXCEPT ![u] = Append(@, Cmd(type, h))]
    PROVE  /\ ioQ' \in [IoThreads -> Seq(IoCmds)]
           /\ \A t \in IoThreads : t # u => ioQ'[t] = ioQ[t]
           /\ \A g \in Hosts, t \in IoThreads : g # h => Kept(ioQ[t], ioQ'[t], g)
           /\ Silent(ioQ[u], h) => Sole(ioQ'[u], type, h)
<1>. DEFINE q == ioQ[u]
<1>1. q \in Seq(IoCmds) /\ Cmd(type, h) \in IoCmds
  BY CmdsTyped DEF QueuesOK
<1>2. /\ ioQ' \in [IoThreads -> Seq(IoCmds)]
      /\ ioQ'[u] = Append(q, Cmd(type, h))
      /\ \A t \in IoThreads : t # u => ioQ'[t] = ioQ[t]
  BY <1>1 DEF QueuesOK
<1>. HIDE DEF q
<1>3. ASSUME NEW g \in Hosts, g # h, NEW t \in IoThreads
      PROVE  Kept(ioQ[t], ioQ'[t], g)
  <2>1. \A ty \in CmdTypes : Cmd(type, h) # Cmd(ty, g)
    BY <1>3, CmdsDiffer
  <2>2. Kept(q, Append(q, Cmd(type, h)), g)
    BY <1>1, <2>1, KeptAppend
  <2>. QED
    BY <1>2, <2>2, KeptSame DEF q
<1>4. type \in CmdTypes
  BY DEF CmdTypes
<1>5. Silent(q, h) => Sole(ioQ'[u], type, h)
  BY <1>1, <1>2, <1>4, SoleAppend
<1>. QED
  BY <1>2, <1>3, <1>5 DEF q

\* The reaper takes a command of a session: other sessions do not notice.
LEMMA ReaperTakesEffect ==
    ASSUME QueuesOK, NEW type \in {"connectTimeOut", "detachSession"}, ReaperTakes(type)
    PROVE  /\ reaperQ' \in Seq(ReaperCmds)
           /\ Head(reaperQ).session \in Hosts
           /\ Head(reaperQ) = Cmd(type, Head(reaperQ).session)
           /\ \A g \in Hosts : g # Head(reaperQ).session => Kept(reaperQ, reaperQ', g)
           /\ \A g \in Hosts : Silent(reaperQ, g) => Kept(reaperQ, reaperQ', g)
           /\ \A g \in Hosts : \A other \in CmdTypes :
                 g = Head(reaperQ).session /\ Sole(reaperQ, other, g) =>
                     other = type /\ Silent(reaperQ', g)
           /\ \A i \in 1 .. Len(reaperQ') : \E j \in 1 .. Len(reaperQ) : reaperQ'[i] = reaperQ[j]
<1>. DEFINE c == Head(reaperQ)
<1>1. /\ reaperQ # <<>> /\ reaperQ \in Seq(ReaperCmds) /\ c \in ReaperCmds /\ c.type = type
      /\ reaperQ' = Tail(reaperQ) /\ reaperQ' \in Seq(ReaperCmds)
  BY DEF QueuesOK, ReaperTakes
<1>2. PICK g \in Hosts : c = Cmd(type, g)
  BY <1>1 DEF ReaperCmds, PlugAll, Cmd
<1>3. c.session = g
  BY <1>2, CmdsDiffer
<1>4. type \in CmdTypes
  BY DEF CmdTypes
<1>5. \A i \in 1 .. Len(reaperQ') : \E j \in 1 .. Len(reaperQ) : reaperQ'[i] = reaperQ[j]
  <2>1. \A i \in 1 .. Len(reaperQ') : i + 1 \in 1 .. Len(reaperQ) /\ reaperQ'[i] = reaperQ[i + 1]
    BY <1>1
  <2>. QED
    BY <2>1
<1>. HIDE DEF c
<1>6. ASSUME NEW k \in Hosts, k # g \/ Silent(reaperQ, k)
      PROVE  Kept(reaperQ, reaperQ', k)
  <2>1. \A ty \in CmdTypes : c # Cmd(ty, k)
    BY <1>1, <1>2, <1>6, CmdsDiffer, SilentHead DEF c
  <2>. QED
    BY <1>1, <2>1, KeptTail DEF c
<1>7. ASSUME NEW other \in CmdTypes, Sole(reaperQ, other, g)
      PROVE  other = type /\ Silent(reaperQ', g)
  BY <1>1, <1>2, <1>4, <1>7, SilentTail DEF c
<1>. QED
  BY <1>1, <1>2, <1>3, <1>5, <1>6, <1>7 DEF c

\* A session tells the reaper something: other sessions do not notice.
LEMMA ReaperAppendEffect ==
    ASSUME QueuesOK, NEW h \in Hosts, NEW type \in {"connectTimeOut", "detachSession"},
           reaperQ' = Append(reaperQ, Cmd(type, h))
    PROVE  /\ reaperQ' \in Seq(ReaperCmds)
           /\ \A g \in Hosts : g # h => Kept(reaperQ, reaperQ', g)
           /\ Silent(reaperQ, h) => Sole(reaperQ', type, h)
           /\ \A i \in 1 .. Len(reaperQ') :
                 reaperQ'[i] = Cmd(type, h) \/ \E j \in 1 .. Len(reaperQ) : reaperQ'[i] = reaperQ[j]
<1>1. reaperQ \in Seq(ReaperCmds) /\ Cmd(type, h) \in ReaperCmds
  BY CmdsTyped DEF QueuesOK
<1>2. type \in CmdTypes
  BY DEF CmdTypes
<1>3. \A g \in Hosts : g # h => Kept(reaperQ, reaperQ', g)
  BY <1>1, CmdsDiffer, KeptAppend
<1>4. Silent(reaperQ, h) => Sole(reaperQ', type, h)
  BY <1>1, <1>2, SoleAppend
<1>. QED
  BY <1>1, <1>3, <1>4

-----------------------------------------------------------------------------
(* Types                                                                   *)

\* The links are distinct and the periods are positive.
LEMMA PeriodPositive ==
    ASSUME NEW h \in Hosts
    PROVE  /\ Period(h) \in Nat /\ Period(h) >= 1
           /\ TimeOut[h] \in Nat /\ SilenceCap(h) \in Nat
           /\ SilenceCap(h) >= TimeOut[h] + Period(h) + 1
BY TimesAssumption DEF Period, SilenceCap

\* The initial state is typed.
LEMMA InitTyped == Init => TypeOK
<1>. SUFFICES ASSUME Init PROVE TypeOK
  OBVIOUS
<1>1. reaperQ \in Seq(ReaperCmds) /\ toPlug \in Seq(Hosts) /\ ioQ \in [IoThreads -> Seq(IoCmds)]
  BY DEF Init
<1>2. /\ inbox \in [Hosts -> Nat] /\ replies \in [Hosts -> Nat] /\ readErrors \in [Hosts -> Nat]
      /\ accepted \in [Hosts -> Nat] /\ reports \in [Hosts -> Nat] /\ outCalls \in [Hosts -> Nat]
  BY DEF Init
<1>3. age \in [Hosts -> 0 .. WrapTicks - 1]
  BY BoundsAssumption DEF Init
<1>4. thread \in [Hosts -> IoThreads \cup {NoThread}] /\ sess \in [Hosts -> SessionStates]
  BY DEF Init, SessionStates
<1>. QED
  BY <1>1, <1>2, <1>3, <1>4 DEF Init, TypeOK, Off

\* The types of the mailboxes, as their lemmas want them.
LEMMA TypedQueues == TypeOK => QueuesOK
BY DEF TypeOK, QueuesOK

\* Telling the reaper of a silence keeps the types.
LEMMA ReportTyped ==
    ASSUME TypeOK, NEW h \in Hosts, ReportTimeOut(h)
    PROVE  /\ reaperQ' \in Seq(ReaperCmds)
           /\ hadReport' \in [Hosts -> BOOLEAN] /\ reports' \in [Hosts -> Nat]
<1>1. reaperQ' \in Seq(ReaperCmds)
  BY TypedQueues, ReaperAppendEffect DEF ReportTimeOut
<1>. QED
  BY <1>1 DEF ReportTimeOut, TypeOK

\* Every step keeps the types.
LEMMA StepTyped == TypeOK /\ [Next]_vars => TypeOK'
<1>. SUFFICES ASSUME TypeOK, [Next]_vars PROVE TypeOK'
  OBVIOUS
<1>. USE DEF appVars, reaperVars, pollVars, clockVars, netVars, countVars
<1>q. QueuesOK
  BY TypedQueues
<1>1. CASE HostInit
  <2>1. PlugAll \in ReaperCmds
    BY DEF ReaperCmds
  <2>2. CASE OpenAllLink
    <3>1. reaperQ' \in Seq(ReaperCmds)
      BY <2>1, <2>2 DEF OpenAllLink, TypeOK
    <3>. QED
      BY <2>2, <3>1 DEF OpenAllLink, TypeOK
  <2>. QED
    BY <1>1, <2>2 DEF HostInit, CreateLink, SetLogoutFun, SetReplayFun, TypeOK
<1>2. CASE ReaperPlug
  <2>1. reaperQ' \in Seq(ReaperCmds)
    BY <1>2 DEF ReaperPlug, ReaperTakes, TypeOK
  <2>. QED
    BY <1>2, <2>1, LinksAssumption DEF ReaperPlug, TypeOK
<1>3. CASE SkipLink
  <2>1. toPlug' \in Seq(Hosts)
    BY <1>3 DEF SkipLink, TypeOK
  <2>. QED
    BY <1>3, <2>1 DEF SkipLink, TypeOK
<1>4. CASE PlugLink
  <2>1. Head(toPlug) \in Hosts /\ toPlug' \in Seq(Hosts)
    BY <1>4 DEF PlugLink, TypeOK
  <2>2. PICK t \in IoThreads :
          /\ thread' = [thread EXCEPT ![Head(toPlug)] = t]
          /\ sess' = [sess EXCEPT ![Head(toPlug)] = "created"]
          /\ connecters' = connecters \cup {Head(toPlug)}
          /\ ioQ' = [ioQ EXCEPT ![t] = Append(@, Cmd("plug", Head(toPlug)))]
    BY <1>4 DEF PlugLink
  <2>3. ioQ' \in [IoThreads -> Seq(IoCmds)]
    BY <1>q, <2>1, <2>2, IoAppendEffect
  <2>. QED
    BY <1>4, <2>1, <2>2, <2>3 DEF PlugLink, TypeOK, SessionStates
<1>5. CASE SessionTimeOut
  <2>1. reaperQ' \in Seq(ReaperCmds) /\ Head(reaperQ).session \in Hosts
    BY <1>5, <1>q, ReaperTakesEffect DEF SessionTimeOut
  <2>2. PICK h \in Hosts : h = Head(reaperQ).session
    BY <2>1
  <2>3. outCalls' = [outCalls EXCEPT ![h] = @ + 1] \/ outCalls' = outCalls
    BY <1>5, <2>2 DEF SessionTimeOut
  <2>4. outCalls \in [Hosts -> Nat]
    BY DEF TypeOK
  <2>5. outCalls' \in [Hosts -> Nat]
    BY <2>3, <2>4
  <2>. QED
    BY <1>5, <2>1, <2>5 DEF SessionTimeOut, TypeOK
<1>6. CASE SessionLeave
  <2>. DEFINE h == Head(reaperQ).session
  <2>1. reaperQ' \in Seq(ReaperCmds) /\ h \in Hosts
    BY <1>6, <1>q, ReaperTakesEffect DEF SessionLeave
  <2>2. ioQ' \in [IoThreads -> Seq(IoCmds)]
    <3>1. CASE thread[h] \in IoThreads
      BY <1>6, <1>q, <2>1, <3>1, IoAppendEffect DEF SessionLeave
    <3>2. CASE thread[h] \notin IoThreads
      BY <1>6, <3>2 DEF SessionLeave, TypeOK
    <3>. QED
      BY <3>1, <3>2
  <2>. QED
    BY <1>6, <2>1, <2>2 DEF SessionLeave, TypeOK
<1>7. ASSUME NEW h \in Hosts, PlugOk(h) \/ PlugNoSocket(h) \/ PlugUnresolved(h) \/ Term(h)
      PROVE  TypeOK'
  <2>1. ioQ' \in [IoThreads -> Seq(IoCmds)] /\ thread[h] \in IoThreads
    BY <1>7, <1>q, IoTakesEffect DEF PlugOk, PlugNoSocket, PlugUnresolved, Term
  <2>2. CASE PlugOk(h)
    <3>1. sess' \in [Hosts -> SessionStates] /\ polled' \subseteq Hosts
      BY <2>2 DEF PlugOk, TypeOK, SessionStates
    <3>2. load' \in [IoThreads -> Nat] /\ silence' \in [Hosts -> Nat]
      BY <2>1, <2>2 DEF PlugOk, TypeOK
    <3>3. age' \in [Hosts -> 0 .. WrapTicks - 1] /\ timer' \in [Hosts -> Nat \cup {Off}]
      BY <2>2, PeriodPositive, BoundsAssumption DEF PlugOk, TypeOK
    <3>. QED
      BY <2>1, <2>2, <3>1, <3>2, <3>3 DEF PlugOk, TypeOK
  <2>3. CASE PlugNoSocket(h) \/ PlugUnresolved(h)
    <3>1. reaperQ' \in Seq(ReaperCmds)
      BY <1>q, <2>3, ReaperAppendEffect DEF PlugNoSocket, PlugUnresolved
    <3>. QED
      BY <2>1, <2>3, <3>1 DEF PlugNoSocket, PlugUnresolved, TypeOK, SessionStates
  <2>4. CASE Term(h)
    BY <2>1, <2>4 DEF Term, TypeOK, SessionStates
  <2>. QED
    BY <1>7, <2>2, <2>3, <2>4
<1>8. ASSUME NEW h \in Hosts, TimerEvent(h)
      PROVE  TypeOK'
  <2>1. /\ reaperQ' \in Seq(ReaperCmds)
        /\ hadReport' \in [Hosts -> BOOLEAN] /\ reports' \in [Hosts -> Nat]
    BY <1>8, ReportTyped DEF TimerEvent, ReportIf, TypeOK
  <2>. QED
    BY <1>8, <2>1, PeriodPositive DEF TimerEvent, ArmAgain, TypeOK
<1>9. ASSUME NEW h \in Hosts, OutEvent(h)
      PROVE  TypeOK'
  BY <1>9 DEF OutEvent, TypeOK
<1>10. ASSUME NEW h \in Hosts, InEvent(h)
       PROVE  TypeOK'
  <2>1. inbox' \in [Hosts -> Nat]
    BY <1>10 DEF InEvent, TypeOK
  <2>4. accepted' \in [Hosts -> Nat] /\ silence' \in [Hosts -> Nat]
    BY <1>10 DEF InEvent, TypeOK
  <2>2. hadReport' \in [Hosts -> BOOLEAN] /\ attempted' \in [Hosts -> BOOLEAN]
    BY <1>10 DEF InEvent, TypeOK
  <2>3. age' \in [Hosts -> 0 .. WrapTicks - 1]
    BY <1>10, BoundsAssumption DEF InEvent, TypeOK
  <2>. QED
    BY <1>10, <2>1, <2>2, <2>3, <2>4 DEF InEvent, TypeOK
<1>11. ASSUME NEW h \in Hosts, ReadError(h)
       PROVE  TypeOK'
  <2>1. /\ reaperQ' \in Seq(ReaperCmds)
        /\ hadReport' \in [Hosts -> BOOLEAN] /\ reports' \in [Hosts -> Nat]
    BY <1>11, ReportTyped DEF ReadError
  <2>2. readErrors' \in [Hosts -> Nat]
    BY <1>11 DEF ReadError, TypeOK
  <2>. QED
    BY <1>11, <2>1, <2>2 DEF ReadError, TypeOK
<1>12. ASSUME NEW h \in Hosts, Reply(h)
       PROVE  TypeOK'
  <2>1. replies' \in [Hosts -> Nat]
    BY <1>12 DEF Reply, TypeOK
  <2>2. inbox' \in [Hosts -> Nat]
    BY <1>12 DEF Reply, TypeOK
  <2>. QED
    BY <1>12, <2>1, <2>2 DEF Reply, TypeOK
<1>13. CASE Tick
  <2>1. timer' \in [Hosts -> Nat \cup {Off}]
    BY <1>13 DEF Tick, TypeOK, Off
  <2>2. age' \in [Hosts -> 0 .. WrapTicks - 1]
    BY <1>13, BoundsAssumption DEF Tick, TypeOK
  <2>3. silence' \in [Hosts -> Nat]
    BY <1>13 DEF Tick, TypeOK
  <2>. QED
    BY <1>13, <2>1, <2>2, <2>3 DEF Tick, TypeOK
<1>14. CASE UNCHANGED vars
  BY <1>14 DEF vars, TypeOK
<1>. QED
  BY <1>1, <1>2, <1>3, <1>4, <1>5, <1>6, <1>7, <1>8, <1>9, <1>10, <1>11, <1>12, <1>13, <1>14
     DEF Next, Reaper, Session

-----------------------------------------------------------------------------
(* The start                                                               *)

\* What a step may leave in the reaper's mailbox: what was there, and commands
\* of sessions.  Only open_all_link puts its plug there.
LEMMA ReaperMail ==
    ASSUME TypeOK, [Next]_vars, ~OpenAllLink, NEW i \in 1 .. Len(reaperQ'), reaperQ'[i] = PlugAll
    PROVE  \E j \in 1 .. Len(reaperQ) : reaperQ[j] = PlugAll
<1>q. QueuesOK
  BY TypedQueues
<1>. USE DEF appVars, reaperVars, pollVars, clockVars, netVars, countVars
<1>1. CASE reaperQ' = reaperQ
  BY <1>1
<1>2. CASE SessionTimeOut \/ SessionLeave
  BY <1>2, <1>q, ReaperTakesEffect DEF SessionTimeOut, SessionLeave
<1>3. CASE ReaperPlug
  <2>1. 1 \in 1 .. Len(reaperQ) /\ Head(reaperQ) = reaperQ[1] /\ reaperQ[1] \in ReaperCmds
    BY <1>3 DEF ReaperPlug, ReaperTakes, TypeOK
  <2>2. reaperQ[1].type = "plug"
    BY <1>3, <2>1 DEF ReaperPlug, ReaperTakes
  <2>3. reaperQ[1] = PlugAll
    BY <2>1, <2>2 DEF ReaperCmds, Cmd
  <2>. QED
    BY <2>1, <2>3
<1>4. ASSUME NEW h \in Hosts, NEW type \in {"connectTimeOut", "detachSession"},
             reaperQ' = Append(reaperQ, Cmd(type, h))
      PROVE  \E j \in 1 .. Len(reaperQ) : reaperQ[j] = PlugAll
  BY <1>4, <1>q, ReaperAppendEffect, CmdsDiffer
<1>5. ASSUME NEW h \in Hosts, Session(h) \/ ReadError(h) \/ Reply(h)
      PROVE  \E j \in 1 .. Len(reaperQ) : reaperQ[j] = PlugAll
  <2>1. CASE PlugNoSocket(h) \/ PlugUnresolved(h)
    BY <1>4, <2>1 DEF PlugNoSocket, PlugUnresolved
  <2>2. CASE TimerEvent(h) \/ ReadError(h)
    BY <1>1, <1>4, <2>2 DEF TimerEvent, ReadError, ReportIf, ReportTimeOut
  <2>3. CASE PlugOk(h) \/ Term(h) \/ OutEvent(h) \/ InEvent(h) \/ Reply(h)
    BY <1>1, <2>3 DEF PlugOk, Term, OutEvent, InEvent, Reply
  <2>. QED
    BY <1>5, <2>1, <2>2, <2>3 DEF Session
<1>6. CASE HostInit \/ SkipLink \/ PlugLink \/ Tick \/ UNCHANGED vars
  BY <1>1, <1>6 DEF HostInit, CreateLink, SetLogoutFun, SetReplayFun, SkipLink, PlugLink, Tick, vars
<1>. QED
  BY <1>2, <1>3, <1>5, <1>6 DEF Next, Reaper

\* Before anything is plugged no session, and no round of process_plug, can step.
LEMMA Idle ==
    ASSUME TypeOK, Phases, Watched, NothingPlugged
    PROVE  /\ ~SkipLink /\ ~PlugLink
           /\ \A h \in Hosts : ~Session(h) /\ ~ReadError(h) /\ ~Reply(h)
<1>1. ~SkipLink /\ ~PlugLink
  BY DEF NothingPlugged, SkipLink, PlugLink
<1>2. \A h \in Hosts : thread[h] = NoThread /\ h \notin polled /\ timer[h] = Off
  BY DEF NothingPlugged, Phases, Phase, Watched
<1>3. \A h \in Hosts : ~ReadError(h) /\ ~Reply(h)
  BY <1>2 DEF ReadError, Reply
<1>4. \A h \in Hosts : ~OutEvent(h) /\ ~InEvent(h) /\ ~TimerEvent(h)
  BY <1>2 DEF OutEvent, InEvent, TimerEvent, Off
<1>5. \A h \in Hosts : ~PlugOk(h) /\ ~PlugNoSocket(h) /\ ~PlugUnresolved(h) /\ ~Term(h)
  BY <1>2 DEF PlugOk, PlugNoSocket, PlugUnresolved, Term, IoTakes
<1>. QED
  BY <1>1, <1>3, <1>4, <1>5 DEF Session

\* The reaper takes only the plug of open_all_link as a plug.
LEMMA PlugTaken ==
    ASSUME TypeOK, StartsOnce, ReaperPlug
    PROVE  reaperQ = <<PlugAll>> /\ NothingPlugged /\ apc = "done" /\ reaperQ' = <<>>
<1>1. reaperQ \in Seq(ReaperCmds) /\ reaperQ # <<>>
  BY DEF TypeOK, ReaperPlug, ReaperTakes
<1>2. 1 \in 1 .. Len(reaperQ) /\ Head(reaperQ) = reaperQ[1] /\ reaperQ[1] \in ReaperCmds
  BY <1>1
<1>3. reaperQ[1].type = "plug"
  BY <1>2 DEF ReaperPlug, ReaperTakes
<1>4. reaperQ[1] = PlugAll
  BY <1>2, <1>3 DEF ReaperCmds, Cmd
<1>5. reaperQ = <<PlugAll>> /\ NothingPlugged /\ apc = "done"
  BY <1>1, <1>2, <1>4 DEF StartsOnce
<1>6. reaperQ' = Tail(reaperQ)
  BY DEF ReaperPlug, ReaperTakes
<1>. QED
  BY <1>5, <1>6

\* Every step keeps the start in order.
LEMMA StepStartsOnce ==
    ASSUME TypeOK, StartsOnce, Phases, Watched, [Next]_vars
    PROVE  StartsOnce'
<1>. USE DEF appVars, reaperVars, pollVars, clockVars, netVars, countVars
<1>1. CASE HostInit
  <2>1. CASE OpenAllLink
    <3>1. reaperQ = <<>> /\ NothingPlugged /\ outFun = TRUE
      BY <2>1 DEF OpenAllLink, StartsOnce
    <3>2. reaperQ' = <<PlugAll>> /\ NothingPlugged' /\ apc' = "done" /\ outFun' = TRUE
      BY <2>1, <3>1 DEF OpenAllLink, NothingPlugged
    <3>. QED
      BY <3>2 DEF StartsOnce
  <2>2. CASE CreateLink \/ SetLogoutFun \/ SetReplayFun
    <3>1. /\ apc # "done" /\ apc' # "done" /\ reaperQ' = reaperQ
          /\ toPlug' = toPlug /\ sess' = sess
      BY <2>2 DEF CreateLink, SetLogoutFun, SetReplayFun
    <3>2. reaperQ = <<>> /\ NothingPlugged
      BY <3>1 DEF StartsOnce
    <3>3. NothingPlugged'
      BY <3>1, <3>2 DEF NothingPlugged
    <3>4. apc' \in {"setReplayFun", "openAllLink", "done"} => outFun' = TRUE
      BY <2>2 DEF CreateLink, SetLogoutFun, SetReplayFun, StartsOnce
    <3>. QED
      BY <3>1, <3>2, <3>3, <3>4 DEF StartsOnce
  <2>. QED
    BY <1>1, <2>1, <2>2 DEF HostInit
<1>2. CASE Tick \/ UNCHANGED vars
  BY <1>2 DEF Tick, vars, StartsOnce, NothingPlugged
<1>3. CASE ReaperPlug
  <2>1. apc = "done" /\ reaperQ' = <<>> /\ apc' = apc /\ outFun' = outFun
    BY <1>3, PlugTaken DEF ReaperPlug
  <2>. QED
    BY <2>1 DEF StartsOnce
<1>4. CASE \/ SkipLink \/ PlugLink \/ SessionTimeOut \/ SessionLeave
           \/ \E h \in Hosts : Session(h) \/ ReadError(h) \/ Reply(h)
  <2>1. apc' = apc /\ outFun' = outFun
    BY <1>4 DEF SkipLink, PlugLink, SessionTimeOut, SessionLeave, Session, ReadError, Reply,
                PlugOk, PlugNoSocket, PlugUnresolved, Term, TimerEvent, ArmAgain, OutEvent, InEvent
  <2>2. \A i \in 1 .. Len(reaperQ) : reaperQ[i] # PlugAll
    <3>1. CASE SessionTimeOut \/ SessionLeave
      <4>1. /\ reaperQ # <<>>
            /\ \E type \in {"connectTimeOut", "detachSession"} :
                  Head(reaperQ) = Cmd(type, Head(reaperQ).session)
        BY <3>1, TypedQueues, ReaperTakesEffect DEF SessionTimeOut, SessionLeave, ReaperTakes
      <4>2. reaperQ # <<PlugAll>>
        BY <4>1, CmdsDiffer
      <4>. QED
        BY <4>2 DEF StartsOnce
    <3>2. CASE ~NothingPlugged
      BY <3>2 DEF StartsOnce
    <3>. QED
      BY <1>4, <3>1, <3>2, Idle
  <2>3. \A i \in 1 .. Len(reaperQ') : reaperQ'[i] # PlugAll
    <3>1. ~OpenAllLink
      BY <2>1 DEF OpenAllLink
    <3>. QED
      BY <2>2, <3>1, ReaperMail
  <2>4. apc = "done"
    <3>1. CASE SessionTimeOut \/ SessionLeave
      BY <3>1 DEF SessionTimeOut, SessionLeave, ReaperTakes, StartsOnce
    <3>2. CASE ~NothingPlugged
      BY <3>2 DEF StartsOnce
    <3>. QED
      BY <1>4, <3>1, <3>2, Idle
  <2>. QED
    BY <2>1, <2>3, <2>4 DEF StartsOnce
<1>. QED
  BY <1>1, <1>2, <1>3, <1>4 DEF Next, Reaper

-----------------------------------------------------------------------------
(* The walk over the links, and the mailbox each session uses              *)

\* The session an I/O thread takes a command for has been created.
LEMMA TakerCreated ==
    ASSUME Phases, NEW h \in Hosts, NEW type \in {"plug", "term"}, IoTakes(type, h)
    PROVE  sess[h] # "none"
BY DEF Phases, Phase, IoTakes

\* What a round of process_plug does.
LEMMA PlugLinkEffect ==
    ASSUME TypeOK, PlugsEachOnce, PlugLink
    PROVE  \E h \in Hosts, t \in IoThreads :
             /\ h = toPlug[1] /\ h = Head(toPlug) /\ sess[h] = "none"
             /\ thread' = [thread EXCEPT ![h] = t]
             /\ sess' = [sess EXCEPT ![h] = "created"]
             /\ connecters' = connecters \cup {h}
             /\ ioQ' = [ioQ EXCEPT ![t] = Append(@, Cmd("plug", h))]
             /\ \A i \in 1 .. Len(toPlug') : i + 1 \in 1 .. Len(toPlug) /\ toPlug'[i] = toPlug[i + 1]
             /\ \A i \in 1 .. Len(toPlug') : toPlug'[i] # h
<1>1. toPlug \in Seq(Hosts) /\ toPlug # <<>> /\ toPlug' = Tail(toPlug)
  BY DEF TypeOK, PlugLink
<1>2. /\ 1 \in 1 .. Len(toPlug) /\ Head(toPlug) = toPlug[1] /\ toPlug[1] \in Hosts
      /\ \A i \in 1 .. Len(toPlug') : i + 1 \in 1 .. Len(toPlug) /\ toPlug'[i] = toPlug[i + 1]
  BY <1>1
<1>3. \A i \in 1 .. Len(toPlug') : toPlug'[i] # toPlug[1]
  BY <1>2 DEF PlugsEachOnce
<1>4. sess[toPlug[1]] = "none"
  BY <1>2 DEF PlugsEachOnce
<1>5. PICK t \in IoThreads :
        /\ thread' = [thread EXCEPT ![toPlug[1]] = t]
        /\ sess' = [sess EXCEPT ![toPlug[1]] = "created"]
        /\ connecters' = connecters \cup {toPlug[1]}
        /\ ioQ' = [ioQ EXCEPT ![t] = Append(@, Cmd("plug", toPlug[1]))]
  BY <1>2 DEF PlugLink
<1>. QED
  BY <1>2, <1>3, <1>4, <1>5

\* Only a round of process_plug creates a session.
LEMMA NoneStays ==
    ASSUME TypeOK, Phases, [Next]_vars, ~PlugLink, NEW h \in Hosts, sess[h] = "none"
    PROVE  sess'[h] = "none"
<1>1. ASSUME NEW g \in Hosts, Session(g)
      PROVE  sess'[h] = "none"
  <2>1. CASE PlugOk(g) \/ PlugNoSocket(g) \/ Term(g)
    <3>1. g # h
      BY <2>1, TakerCreated DEF PlugOk, PlugNoSocket, Term
    <3>. QED
      BY <2>1, <3>1 DEF PlugOk, PlugNoSocket, Term, TypeOK
  <2>2. CASE PlugUnresolved(g) \/ TimerEvent(g) \/ OutEvent(g) \/ InEvent(g)
    BY <2>2 DEF PlugUnresolved, TimerEvent, ArmAgain, OutEvent, InEvent
  <2>. QED
    BY <1>1, <2>1, <2>2 DEF Session
<1>2. CASE \/ HostInit \/ ReaperPlug \/ SkipLink \/ SessionTimeOut \/ SessionLeave \/ Tick
           \/ UNCHANGED vars \/ \E g \in Hosts : ReadError(g) \/ Reply(g)
  BY <1>2 DEF HostInit, CreateLink, SetLogoutFun, SetReplayFun, OpenAllLink, ReaperPlug, SkipLink,
              SessionTimeOut, SessionLeave, Tick, vars, ReadError, Reply
<1>. QED
  BY <1>1, <1>2 DEF Next, Reaper

\* Every step leaves the walk over distinct links without a session.
LEMMA StepPlugsEachOnce ==
    ASSUME TypeOK, StartsOnce, PlugsEachOnce, Phases, [Next]_vars
    PROVE  PlugsEachOnce'
<1>. USE DEF reaperVars
<1>1. CASE ReaperPlug
  <2>1. \A h \in Hosts : sess[h] = "none"
    BY <1>1, PlugTaken DEF NothingPlugged
  <2>2. toPlug' = Links /\ sess' = sess
    BY <1>1 DEF ReaperPlug
  <2>. QED
    BY <2>1, <2>2, LinksAssumption DEF PlugsEachOnce
<1>2. CASE SkipLink
  <2>1. toPlug \in Seq(Hosts) /\ toPlug # <<>> /\ toPlug' = Tail(toPlug) /\ sess' = sess
    BY <1>2 DEF SkipLink, TypeOK
  <2>2. \A i \in 1 .. Len(toPlug') : i + 1 \in 1 .. Len(toPlug) /\ toPlug'[i] = toPlug[i + 1]
    BY <2>1
  <2>. QED
    BY <2>1, <2>2 DEF PlugsEachOnce
<1>3. CASE PlugLink
  <2>1. PICK h \in Hosts :
          /\ sess' = [sess EXCEPT ![h] = "created"]
          /\ \A i \in 1 .. Len(toPlug') : i + 1 \in 1 .. Len(toPlug) /\ toPlug'[i] = toPlug[i + 1]
          /\ \A i \in 1 .. Len(toPlug') : toPlug'[i] # h
    BY <1>3, PlugLinkEffect
  <2>2. \A i \in 1 .. Len(toPlug) : toPlug[i] \in Hosts
    BY DEF TypeOK
  <2>3. \A g \in Hosts : g # h => sess'[g] = sess[g]
    BY <2>1 DEF TypeOK
  <2>4. \A i \in 1 .. Len(toPlug') : sess'[toPlug'[i]] = sess[toPlug'[i]] /\ toPlug'[i] \in Hosts
    BY <2>1, <2>2, <2>3
  <2>. QED
    BY <2>1, <2>4 DEF PlugsEachOnce
<1>4. CASE ~ReaperPlug /\ ~SkipLink /\ ~PlugLink
  <2>1. toPlug' = toPlug
    BY <1>4 DEF Next, HostInit, CreateLink, SetLogoutFun, SetReplayFun, OpenAllLink, Reaper,
                SessionTimeOut, SessionLeave, Session, PlugOk, PlugNoSocket, PlugUnresolved, Term,
                TimerEvent, ArmAgain, OutEvent, InEvent, ReadError, Reply, Tick, vars
  <2>2. \A i \in 1 .. Len(toPlug) : toPlug[i] \in Hosts
    BY DEF TypeOK
  <2>. QED
    BY <1>4, <2>1, <2>2, NoneStays DEF PlugsEachOnce
<1>. QED
  BY <1>1, <1>2, <1>3, <1>4

\* Every step leaves the commands of a session in the mailbox of its thread.
LEMMA StepOneThread ==
    ASSUME TypeOK, PlugsEachOnce, Phases, OneThread, [Next]_vars
    PROVE  OneThread'
<1>q. QueuesOK
  BY TypedQueues
<1>1. CASE PlugLink
  <2>1. PICK h \in Hosts, u \in IoThreads :
          /\ sess[h] = "none"
          /\ thread' = [thread EXCEPT ![h] = u]
          /\ ioQ' = [ioQ EXCEPT ![u] = Append(@, Cmd("plug", h))]
    BY <1>1, PlugLinkEffect
  <2>2. thread[h] = NoThread /\ NoThread \notin IoThreads
    BY <2>1 DEF Phases, Phase, NoThread, IoThreads
  <2>3. /\ \A t \in IoThreads : t # u => ioQ'[t] = ioQ[t]
        /\ \A g \in Hosts, t \in IoThreads : g # h => Kept(ioQ[t], ioQ'[t], g)
    BY <1>q, <2>1, IoAppendEffect
  <2>4. \A t \in IoThreads : Silent(ioQ[t], h)
    BY <2>2 DEF OneThread
  <2>5. ASSUME NEW g \in Hosts, NEW t \in IoThreads, t # thread'[g]
        PROVE  Silent(ioQ'[t], g)
    <3>1. CASE g = h
      BY <2>1, <2>3, <2>4, <2>5, <3>1 DEF TypeOK
    <3>2. CASE g # h
      BY <2>1, <2>3, <2>5, <3>2 DEF TypeOK, OneThread, Kept
    <3>. QED
      BY <3>1, <3>2
  <2>. QED
    BY <2>5 DEF OneThread, Silent
<1>2. CASE SessionLeave
  <2>. DEFINE h == Head(reaperQ).session
  <2>1. h \in Hosts /\ thread' = thread /\ ioQ' = [ioQ EXCEPT ![thread[h]] = Append(@, Cmd("term", h))]
    BY <1>2, <1>q, ReaperTakesEffect DEF SessionLeave
  <2>. HIDE DEF h
  <2>2. CASE thread[h] \in IoThreads
    <3>1. /\ \A t \in IoThreads : t # thread[h] => ioQ'[t] = ioQ[t]
          /\ \A g \in Hosts, t \in IoThreads : g # h => Kept(ioQ[t], ioQ'[t], g)
      BY <1>q, <2>1, <2>2, IoAppendEffect
    <3>2. ASSUME NEW g \in Hosts, NEW t \in IoThreads, t # thread'[g]
          PROVE  Silent(ioQ'[t], g)
      BY <2>1, <3>1, <3>2 DEF OneThread, Kept
    <3>. QED
      BY <3>2 DEF OneThread, Silent
  <2>3. CASE thread[h] \notin IoThreads
    <3>1. ioQ' = ioQ
      BY <2>1, <2>3 DEF TypeOK
    <3>. QED
      BY <2>1, <3>1 DEF OneThread, Silent
  <2>. QED
    BY <2>2, <2>3
<1>3. ASSUME NEW h \in Hosts, PlugOk(h) \/ PlugNoSocket(h) \/ PlugUnresolved(h) \/ Term(h)
      PROVE  OneThread'
  <2>1. PICK type \in {"plug", "term"} : IoTakes(type, h) /\ thread' = thread
    BY <1>3 DEF PlugOk, PlugNoSocket, PlugUnresolved, Term
  <2>2. /\ \A t \in IoThreads : t # thread[h] => ioQ'[t] = ioQ[t]
        /\ \A g \in Hosts, t \in IoThreads : g # h => Kept(ioQ[t], ioQ'[t], g)
    BY <1>q, <2>1, IoTakesEffect
  <2>3. ASSUME NEW g \in Hosts, NEW t \in IoThreads, t # thread'[g]
        PROVE  Silent(ioQ'[t], g)
    BY <2>1, <2>2, <2>3 DEF OneThread, Kept
  <2>. QED
    BY <2>3 DEF OneThread, Silent
<1>4. CASE ioQ' = ioQ /\ thread' = thread
  BY <1>4 DEF OneThread, Silent
<1>5. CASE \/ HostInit \/ ReaperPlug \/ SkipLink \/ SessionTimeOut \/ Tick \/ UNCHANGED vars
           \/ \E h \in Hosts : TimerEvent(h) \/ OutEvent(h) \/ InEvent(h) \/ ReadError(h) \/ Reply(h)
  BY <1>4, <1>5
     DEF HostInit, CreateLink, SetLogoutFun, SetReplayFun, OpenAllLink, ReaperPlug, SkipLink,
         SessionTimeOut, Tick, vars, TimerEvent, ArmAgain, OutEvent, InEvent, ReadError, Reply
<1>. QED
  BY <1>1, <1>2, <1>3, <1>5 DEF Next, Reaper, Session

-----------------------------------------------------------------------------
(* The life of a session                                                   *)

\* A step about the session of h leaves the phases of the others.
LEMMA OthersKeepPhase ==
    ASSUME TypeOK, Phases, NEW h \in Hosts, NEW g \in Hosts, g # h,
           sess'[g] = sess[g], thread'[g] = thread[g], g \in connecters' <=> g \in connecters,
           crashed => crashed',
           Kept(reaperQ, reaperQ', g), \A t \in IoThreads : Kept(ioQ[t], ioQ'[t], g)
    PROVE  Phase(g)'
<1>1. Phase(g)
  BY DEF Phases
<1>. QED
  BY <1>1, PhaseKept

\* The reaper's silence notice moves nothing.
LEMMA PhasesTimeOut ==
    ASSUME TypeOK, StartsOnce, Phases, SessionTimeOut
    PROVE  Phases'
<1>. USE DEF appVars, reaperVars, pollVars, clockVars, netVars, countVars
<1>0. PICK h \in Hosts : h = Head(reaperQ).session
  BY TypedQueues, ReaperTakesEffect DEF SessionTimeOut
<1>1. /\ Head(reaperQ) = Cmd("connectTimeOut", h)
      /\ \A g \in Hosts : g # h => Kept(reaperQ, reaperQ', g)
      /\ \A i \in 1 .. Len(reaperQ') : \E j \in 1 .. Len(reaperQ) : reaperQ'[i] = reaperQ[j]
      /\ \A other \in CmdTypes : Sole(reaperQ, other, h) => other = "connectTimeOut"
      /\ ~Silent(reaperQ, h)
  <2>1. /\ QueuesOK /\ ReaperTakes("connectTimeOut") /\ "connectTimeOut" \in CmdTypes
        /\ reaperQ \in Seq(ReaperCmds) /\ reaperQ # <<>>
    BY TypedQueues DEF SessionTimeOut, CmdTypes, ReaperTakes, TypeOK
  <2>2. Head(reaperQ) = Cmd("connectTimeOut", h) => ~Silent(reaperQ, h)
    BY <2>1, SilentHead
  <2>. QED
    BY <1>0, <2>1, <2>2, ReaperTakesEffect
<1>2. /\ sess' = sess /\ thread' = thread /\ connecters' = connecters /\ crashed' = crashed
      /\ ioQ' = ioQ
  BY DEF SessionTimeOut
<1>3. \A g \in Hosts : g # h => Phase(g)'
  BY <1>1, <1>2, OthersKeepPhase, KeptSame
<1>4. Phase(h)'
  <2>1. Phase(h)
    BY <1>1 DEF Phases
  <2>2. ~Sole(reaperQ, "detachSession", h)
    BY <1>1 DEF CmdTypes
  <2>3. CASE sess[h] = "created" /\ crashed
    BY <1>2, <2>1, <2>3 DEF Phase
  <2>4. CASE sess[h] = "live"
    BY <1>1, <1>2, <2>1, <2>4 DEF Phase, Silent
  <2>. QED
    BY <1>1, <2>1, <2>2, <2>3, <2>4 DEF Phase
<1>. QED
  BY <1>3, <1>4 DEF Phases

\* A round of process_plug: the session is created with its command on the way.
LEMMA PhasesPlugLink ==
    ASSUME TypeOK, PlugsEachOnce, Phases, OneThread, PlugLink
    PROVE  Phases'
<1>1. PICK h \in Hosts, u \in IoThreads :
        /\ sess[h] = "none"
        /\ thread' = [thread EXCEPT ![h] = u]
        /\ sess' = [sess EXCEPT ![h] = "created"]
        /\ connecters' = connecters \cup {h}
        /\ ioQ' = [ioQ EXCEPT ![u] = Append(@, Cmd("plug", h))]
  BY PlugLinkEffect
<1>2. reaperQ' = reaperQ /\ crashed' = crashed
  BY DEF PlugLink
<1>3. thread[h] = NoThread /\ NoThread \notin IoThreads /\ Silent(reaperQ, h)
  BY <1>1 DEF Phases, Phase, NoThread, IoThreads
<1>4. Silent(ioQ[u], h)
  BY <1>3 DEF OneThread
<1>5. /\ \A g \in Hosts, t \in IoThreads : g # h => Kept(ioQ[t], ioQ'[t], g)
      /\ Sole(ioQ'[u], "plug", h)
  BY <1>1, <1>4, TypedQueues, IoAppendEffect
<1>6. ASSUME NEW g \in Hosts, g # h
      PROVE  Phase(g)'
  <2>1. sess'[g] = sess[g] /\ thread'[g] = thread[g] /\ (g \in connecters' <=> g \in connecters)
    BY <1>1, <1>6 DEF TypeOK
  <2>. QED
    BY <1>2, <1>5, <1>6, <2>1, OthersKeepPhase, KeptSame
<1>7. Phase(h)'
  <2>1. sess'[h] = "created" /\ thread'[h] = u /\ h \in connecters'
    BY <1>1 DEF TypeOK
  <2>. QED
    BY <1>2, <1>3, <1>5, <2>1 DEF Phase
<1>. QED
  BY <1>6, <1>7 DEF Phases

\* session_leave: the reaper forgets an exited session and its term is on the way.
LEMMA PhasesLeave ==
    ASSUME TypeOK, Phases, ~crashed, SessionLeave
    PROVE  Phases'
<1>. USE DEF appVars, reaperVars, pollVars, clockVars, netVars, countVars
<1>0. PICK h \in Hosts : h = Head(reaperQ).session
  BY TypedQueues, ReaperTakesEffect DEF SessionLeave
<1>1. /\ Head(reaperQ) = Cmd("detachSession", h)
      /\ \A g \in Hosts : g # h => Kept(reaperQ, reaperQ', g)
      /\ Sole(reaperQ, "detachSession", h) => Silent(reaperQ', h)
      /\ ~Silent(reaperQ, h)
      /\ 1 \in 1 .. Len(reaperQ) /\ reaperQ[1] = Cmd("detachSession", h)
  <2>1. /\ QueuesOK /\ ReaperTakes("detachSession") /\ "detachSession" \in CmdTypes
        /\ reaperQ \in Seq(ReaperCmds) /\ reaperQ # <<>>
    BY TypedQueues DEF SessionLeave, CmdTypes, ReaperTakes, TypeOK
  <2>2. Head(reaperQ) = Cmd("detachSession", h) => ~Silent(reaperQ, h)
    BY <2>1, SilentHead
  <2>3. 1 \in 1 .. Len(reaperQ) /\ Head(reaperQ) = reaperQ[1]
    BY <2>1
  <2>. QED
    BY <1>0, <2>1, <2>2, <2>3, ReaperTakesEffect
<1>2. /\ sess' = sess /\ thread' = thread /\ crashed' = crashed
      /\ connecters' = connecters \ {h}
      /\ ioQ' = [ioQ EXCEPT ![thread[h]] = Append(@, Cmd("term", h))]
  BY <1>0 DEF SessionLeave
<1>3. /\ sess[h] = "exited" /\ thread[h] \in IoThreads
      /\ Silent(ioQ[thread[h]], h) /\ Sole(reaperQ, "detachSession", h)
  BY <1>1 DEF Phases, Phase
<1>4. /\ \A g \in Hosts, t \in IoThreads : g # h => Kept(ioQ[t], ioQ'[t], g)
      /\ Sole(ioQ'[thread[h]], "term", h)
  BY <1>1, <1>2, <1>3, TypedQueues, IoAppendEffect
<1>5. ASSUME NEW g \in Hosts, g # h
      PROVE  Phase(g)'
  BY <1>1, <1>2, <1>4, <1>5, OthersKeepPhase
<1>6. Phase(h)'
  BY <1>1, <1>2, <1>3, <1>4 DEF Phase
<1>. QED
  BY <1>5, <1>6 DEF Phases

\* The session takes its plug or its term: it goes on to its next phase.
LEMMA PhasesTaken ==
    ASSUME TypeOK, Phases, ~crashed, NEW h \in Hosts,
           PlugOk(h) \/ PlugNoSocket(h) \/ PlugUnresolved(h) \/ Term(h)
    PROVE  Phases'
<1>. USE DEF appVars, reaperVars, pollVars, clockVars, netVars, countVars
<1>q. QueuesOK
  BY TypedQueues
<1>1. PICK type \in {"plug", "term"} :
        /\ IoTakes(type, h)
        /\ Term(h) => type = "term"
        /\ ~Term(h) => type = "plug"
  BY DEF PlugOk, PlugNoSocket, PlugUnresolved, Term
<1>2. /\ thread[h] \in IoThreads /\ ~Silent(ioQ[thread[h]], h)
      /\ \A g \in Hosts, t \in IoThreads : g # h => Kept(ioQ[t], ioQ'[t], g)
      /\ \A other \in CmdTypes : Sole(ioQ[thread[h]], other, h) =>
            other = type /\ Silent(ioQ'[thread[h]], h)
  BY <1>q, <1>1, IoTakesEffect
<1>3. /\ thread' = thread /\ connecters' = connecters
      /\ \A g \in Hosts : g # h => sess'[g] = sess[g]
  BY DEF PlugOk, PlugNoSocket, PlugUnresolved, Term, TypeOK
<1>4. {"plug", "term"} \subseteq CmdTypes
  BY DEF CmdTypes
<1>5. /\ type = "plug" => sess[h] = "created" /\ h \in connecters
      /\ type = "term" => sess[h] = "exited" /\ h \notin connecters
      /\ Silent(ioQ'[thread[h]], h) /\ Silent(reaperQ, h)
  <2>1. /\ Sole(ioQ[thread[h]], "plug", h) => type = "plug" /\ Silent(ioQ'[thread[h]], h)
        /\ Sole(ioQ[thread[h]], "term", h) => type = "term" /\ Silent(ioQ'[thread[h]], h)
    BY <1>2, <1>4
  <2>2. Phase(h) /\ ~Silent(ioQ[thread[h]], h) /\ thread[h] \in IoThreads
    BY <1>2 DEF Phases
  <2>3. /\ Silent(reaperQ, h)
        /\ \/ sess[h] = "created" /\ h \in connecters /\ Sole(ioQ[thread[h]], "plug", h)
           \/ sess[h] = "exited" /\ h \notin connecters /\ Sole(ioQ[thread[h]], "term", h)
    BY <2>2 DEF Phase, NoThread, IoThreads
  <2>. QED
    BY <2>1, <2>3
<1>6. \A g \in Hosts : g # h => Kept(reaperQ, reaperQ', g)
  BY <1>q, ReaperAppendEffect, KeptSame DEF PlugOk, PlugNoSocket, PlugUnresolved, Term
<1>7. ASSUME NEW g \in Hosts, g # h
      PROVE  Phase(g)'
  BY <1>2, <1>3, <1>6, <1>7, OthersKeepPhase
<1>8. Phase(h)'
  <2>1. CASE PlugOk(h)
    <3>1. sess'[h] = "live" /\ reaperQ' = reaperQ /\ type = "plug"
      BY <1>1, <2>1 DEF PlugOk, Term, IoTakes, TypeOK, Cmd
    <3>2. \A i \in 1 .. Len(reaperQ) : reaperQ[i] # Cmd("detachSession", h)
      BY <1>5 DEF Silent, CmdTypes
    <3>. QED
      BY <1>2, <1>3, <1>5, <3>1, <3>2 DEF Phase
  <2>2. CASE PlugNoSocket(h)
    <3>1. /\ sess'[h] = "exited" /\ type = "plug"
          /\ reaperQ' = Append(reaperQ, Cmd("detachSession", h))
      BY <1>1, <2>2 DEF PlugNoSocket, Term, IoTakes, TypeOK, Cmd
    <3>2. Sole(reaperQ', "detachSession", h)
      BY <1>q, <1>5, <3>1, ReaperAppendEffect
    <3>. QED
      BY <1>2, <1>3, <1>5, <3>1, <3>2 DEF Phase
  <2>3. CASE PlugUnresolved(h)
    <3>1. sess'[h] = sess[h] /\ type = "plug" /\ crashed'
      BY <1>1, <2>3 DEF PlugUnresolved, Term, IoTakes, TypeOK, Cmd
    <3>. QED
      BY <1>2, <1>3, <1>5, <3>1 DEF Phase
  <2>4. CASE Term(h)
    <3>1. sess'[h] = "deleted" /\ reaperQ' = reaperQ /\ type = "term"
      BY <1>1, <2>4 DEF Term, TypeOK
    <3>. QED
      BY <1>2, <1>3, <1>5, <3>1 DEF Phase
  <2>. QED
    BY <2>1, <2>2, <2>3, <2>4
<1>. QED
  BY <1>7, <1>8 DEF Phases

\* A live session reports a silence: its phase stays what it is.
LEMMA PhasesReport ==
    ASSUME TypeOK, Phases, Watched, NEW h \in Hosts, sess[h] = "live",
           reaperQ' = Append(reaperQ, Cmd("connectTimeOut", h)),
           UNCHANGED <<sess, thread, connecters, ioQ, crashed>>
    PROVE  Phases'
<1>1. /\ \A g \in Hosts : g # h => Kept(reaperQ, reaperQ', g)
      /\ \A i \in 1 .. Len(reaperQ') :
            \/ reaperQ'[i] = Cmd("connectTimeOut", h)
            \/ \E j \in 1 .. Len(reaperQ) : reaperQ'[i] = reaperQ[j]
  BY TypedQueues, ReaperAppendEffect
<1>2. \A g \in Hosts : g # h => Phase(g)'
  BY <1>1, OthersKeepPhase, KeptSame
<1>3. \A i \in 1 .. Len(reaperQ') : reaperQ'[i] # Cmd("detachSession", h)
  BY <1>1, CmdsDiffer DEF Phases, Phase
<1>4. Phase(h)'
  BY <1>3 DEF Phases, Phase, Silent
<1>. QED
  BY <1>2, <1>4 DEF Phases

\* A step that leaves sessions and mailboxes alone leaves the phases alone.
LEMMA PhasesSame ==
    ASSUME Phases, UNCHANGED <<sess, thread, connecters, ioQ, reaperQ, crashed>>
    PROVE  Phases'
BY PhaseKept, KeptSame DEF Phases

\* Every step leaves every session in a phase.
LEMMA StepPhases ==
    ASSUME TypeOK, StartsOnce, PlugsEachOnce, Phases, OneThread, Watched, [Next]_vars
    PROVE  Phases'
<1>. USE DEF appVars, reaperVars, pollVars, clockVars, netVars, countVars
<1>1. CASE HostInit
  <2>1. CASE OpenAllLink
    <3>1. reaperQ = <<>> /\ NothingPlugged /\ reaperQ' = <<PlugAll>>
      BY <2>1 DEF OpenAllLink, StartsOnce
    <3>2. \A h \in Hosts : Silent(reaperQ', h)
      <4>1. Len(reaperQ') = 1 /\ reaperQ'[1] = PlugAll
        BY <3>1
      <4>. QED
        BY <4>1, CmdsDiffer DEF Silent
    <3>3. \A h \in Hosts : sess'[h] = "none" /\ thread'[h] = NoThread /\ h \notin connecters'
      BY <2>1, <3>1 DEF OpenAllLink, NothingPlugged, Phases, Phase
    <3>. QED
      BY <3>2, <3>3 DEF Phases, Phase
  <2>2. CASE CreateLink \/ SetLogoutFun \/ SetReplayFun
    BY <2>2, PhasesSame DEF CreateLink, SetLogoutFun, SetReplayFun
  <2>. QED
    BY <1>1, <2>1, <2>2 DEF HostInit
<1>2. CASE ReaperPlug
  <2>1. NothingPlugged /\ reaperQ' = <<>>
    BY <1>2, PlugTaken
  <2>2. \A h \in Hosts : Silent(reaperQ', h)
    BY <2>1 DEF Silent
  <2>3. \A h \in Hosts : sess'[h] = "none" /\ thread'[h] = NoThread /\ h \notin connecters'
    BY <1>2, <2>1 DEF ReaperPlug, NothingPlugged, Phases, Phase
  <2>. QED
    BY <2>2, <2>3 DEF Phases, Phase
<1>3. CASE PlugLink
  BY <1>3, PhasesPlugLink
<1>4. CASE SessionTimeOut
  BY <1>4, PhasesTimeOut
<1>5. CASE ~crashed /\ SessionLeave
  BY <1>5, PhasesLeave
<1>6. ASSUME NEW h \in Hosts, ~crashed, Session(h) \/ ReadError(h)
      PROVE  Phases'
  <2>1. CASE PlugOk(h) \/ PlugNoSocket(h) \/ PlugUnresolved(h) \/ Term(h)
    BY <1>6, <2>1, PhasesTaken
  <2>2. CASE TimerEvent(h)
    <3>1. sess[h] = "live"
      BY <2>2 DEF TimerEvent, Watched, Off
    <3>2. \/ reaperQ' = Append(reaperQ, Cmd("connectTimeOut", h))
          \/ reaperQ' = reaperQ
      BY <2>2 DEF TimerEvent, ReportIf, ReportTimeOut
    <3>. QED
      BY <2>2, <3>1, <3>2, PhasesReport, PhasesSame DEF TimerEvent, ArmAgain
  <2>3. CASE ReadError(h)
    <3>1. sess[h] = "live"
      BY <2>3 DEF ReadError, Watched
    <3>. QED
      BY <2>3, <3>1, PhasesReport DEF ReadError, ReportTimeOut
  <2>4. CASE OutEvent(h) \/ InEvent(h)
    BY <2>4, PhasesSame DEF OutEvent, InEvent
  <2>. QED
    BY <1>6, <2>1, <2>2, <2>3, <2>4 DEF Session
<1>7. CASE SkipLink \/ Tick \/ UNCHANGED vars \/ \E h \in Hosts : Reply(h)
  BY <1>7, PhasesSame DEF SkipLink, Tick, vars, Reply
<1>. QED
  BY <1>1, <1>2, <1>3, <1>4, <1>5, <1>6, <1>7 DEF Next, Reaper

-----------------------------------------------------------------------------
(* The poller, the timers and the clock                                    *)

\* A session comes to life only in process_plug with a socket, and stays alive.
LEMMA SameLive ==
    ASSUME TypeOK, PlugsEachOnce, Phases,
           PlugLink \/ \E h \in Hosts : PlugNoSocket(h) \/ Term(h)
    PROVE  \A g \in Hosts : sess'[g] = "live" <=> sess[g] = "live"
<1>1. CASE PlugLink
  BY <1>1, PlugLinkEffect DEF TypeOK
<1>2. ASSUME NEW h \in Hosts, PlugNoSocket(h) \/ Term(h)
      PROVE  \A g \in Hosts : sess'[g] = "live" <=> sess[g] = "live"
  <2>1. sess[h] # "live"
    <3>1. PICK type \in {"plug", "term"} : IoTakes(type, h)
      BY <1>2 DEF PlugNoSocket, Term
    <3>2. thread[h] \in IoThreads /\ ~Silent(ioQ[thread[h]], h)
      BY <3>1, TypedQueues, IoTakesEffect
    <3>. QED
      BY <3>2 DEF Phases, Phase
  <2>. QED
    BY <1>2, <2>1 DEF PlugNoSocket, Term, TypeOK
<1>. QED
  BY <1>1, <1>2

\* The steps of a session on its I/O thread other than those of its commands
\* are steps of a live one.
LEMMA LiveSteps ==
    ASSUME Watched, NEW h \in Hosts,
           TimerEvent(h) \/ OutEvent(h) \/ InEvent(h) \/ ReadError(h) \/ Reply(h)
    PROVE  sess[h] = "live"
BY DEF Watched, Off, TimerEvent, OutEvent, InEvent, ReadError, Reply

\* Every step keeps the poller and the timers in line with the live sessions.
LEMMA StepWatched ==
    ASSUME TypeOK, PlugsEachOnce, Phases, Watched, [Next]_vars
    PROVE  Watched'
<1>. USE DEF pollVars
<1>1. CASE UNCHANGED <<sess, pollVars>>
  BY <1>1 DEF Watched
<1>2. ASSUME NEW h \in Hosts, PlugOk(h)
      PROVE  Watched'
  <2>1. /\ sess' = [sess EXCEPT ![h] = "live"] /\ polled' = polled \cup {h}
        /\ timer' = [timer EXCEPT ![h] = Period(h)] /\ pollout' = pollout
    BY <1>2 DEF PlugOk
  <2>2. \A g \in Hosts : g # h => sess'[g] = sess[g] /\ timer'[g] = timer[g]
    BY <2>1 DEF TypeOK
  <2>3. sess'[h] = "live" /\ timer'[h] = Period(h)
    BY <2>1 DEF TypeOK
  <2>4. Period(h) \in 0 .. Period(h)
    BY PeriodPositive
  <2>. QED
    BY <2>1, <2>2, <2>3, <2>4 DEF Watched
<1>3. CASE PlugLink \/ \E h \in Hosts : PlugNoSocket(h) \/ Term(h)
  <2>1. /\ \A g \in Hosts : sess'[g] = "live" <=> sess[g] = "live"
        /\ polled' = polled /\ pollout' = pollout
    BY <1>3, SameLive DEF PlugNoSocket, Term, PlugLink
  <2>2. timer' = timer \/ \E h \in Hosts : Term(h) /\ timer' = [timer EXCEPT ![h] = Off]
    BY <1>3 DEF PlugNoSocket, Term, PlugLink
  <2>3. \A h \in Hosts : Term(h) => sess[h] # "live"
    <3>1. \A h \in Hosts : Term(h) => sess'[h] # "live"
      BY DEF Term, TypeOK
    <3>. QED
      BY <2>1, <3>1
  <2>4. \A g \in Hosts :
          IF sess'[g] = "live" THEN timer'[g] \in 0 .. Period(g) ELSE timer'[g] = Off
    BY <2>1, <2>2, <2>3 DEF Watched, TypeOK
  <2>. QED
    BY <2>1, <2>4 DEF Watched
<1>4. ASSUME NEW h \in Hosts, TimerEvent(h)
      PROVE  Watched'
  <2>1. sess[h] = "live" /\ h \in polled
    BY <1>4, LiveSteps DEF Watched
  <2>2. sess' = sess /\ polled' = polled /\ pollout' = pollout \cup {h}
        /\ timer' = [timer EXCEPT ![h] = Period(h)]
    BY <1>4 DEF TimerEvent, ArmAgain
  <2>3. Period(h) \in 0 .. Period(h)
    BY PeriodPositive
  <2>. QED
    BY <2>1, <2>2, <2>3 DEF Watched, TypeOK
<1>5. ASSUME NEW h \in Hosts, OutEvent(h)
      PROVE  Watched'
  BY <1>5 DEF OutEvent, Watched
<1>6. CASE Tick
  <2>1. \A h \in Hosts :
          IF sess[h] = "live" THEN timer'[h] \in 0 .. Period(h) ELSE timer'[h] = Off
    BY <1>6, PeriodPositive DEF Tick, Watched, Off
  <2>. QED
    BY <1>6, <2>1 DEF Tick, Watched
<1>7. CASE \/ HostInit \/ ReaperPlug \/ SkipLink \/ SessionTimeOut \/ SessionLeave
           \/ UNCHANGED vars
           \/ \E h \in Hosts : PlugUnresolved(h) \/ InEvent(h) \/ ReadError(h) \/ Reply(h)
  BY <1>1, <1>7
     DEF HostInit, CreateLink, SetLogoutFun, SetReplayFun, OpenAllLink, ReaperPlug, SkipLink,
         SessionTimeOut, SessionLeave, vars, PlugUnresolved, InEvent, ReadError, Reply
<1>. QED
  BY <1>2, <1>3, <1>4, <1>5, <1>6, <1>7 DEF Next, Reaper, Session

\* Every step keeps _last_check_tick from overstating the silence.
LEMMA StepNeverOverstated ==
    ASSUME TypeOK, PlugsEachOnce, Phases, Watched, NeverOverstated, [Next]_vars
    PROVE  NeverOverstated'
<1>. USE DEF clockVars
<1>1. CASE UNCHANGED <<sess, clockVars>>
  BY <1>1 DEF NeverOverstated
<1>2. ASSUME NEW h \in Hosts, PlugOk(h) \/ InEvent(h)
      PROVE  NeverOverstated'
  <2>1. /\ age' = [age EXCEPT ![h] = 0] /\ silence' = [silence EXCEPT ![h] = 0]
        /\ \A g \in Hosts : g # h => sess'[g] = sess[g]
    BY <1>2 DEF PlugOk, InEvent, TypeOK
  <2>. QED
    BY <2>1, SMTT(30) DEF NeverOverstated, TypeOK
<1>3. CASE PlugLink \/ \E h \in Hosts : PlugNoSocket(h) \/ Term(h)
  <2>1. \A g \in Hosts : sess'[g] = "live" => sess[g] = "live"
    BY <1>3, SameLive
  <2>. QED
    BY <1>3, <2>1 DEF PlugNoSocket, Term, PlugLink, NeverOverstated
<1>4. CASE Tick
  <2>1. ASSUME NEW h \in Hosts, sess'[h] = "live"
        PROVE  silence'[h] >= age'[h] \/ silence'[h] >= SilenceCap(h)
    <3>1. /\ sess[h] = "live"
          /\ age'[h] = (age[h] + 1) % WrapTicks
          /\ silence'[h] = IF silence[h] < SilenceCap(h) THEN silence[h] + 1 ELSE silence[h]
      BY <1>4, <2>1 DEF Tick
    <3>2. /\ age[h] \in Nat /\ silence[h] \in Nat /\ SilenceCap(h) \in Nat
          /\ age[h] < WrapTicks /\ WrapTicks \in Nat
      BY PeriodPositive, BoundsAssumption DEF TypeOK
    <3>3. (age[h] + 1) % WrapTicks <= age[h] + 1 /\ (age[h] + 1) % WrapTicks \in Nat
      <4>1. CASE age[h] + 1 < WrapTicks
        BY <3>2, <4>1
      <4>2. CASE age[h] + 1 = WrapTicks
        BY <3>2, <4>2, BoundsAssumption
      <4>. QED
        BY <3>2, <4>1, <4>2
    <3>. QED
      BY <3>1, <3>2, <3>3 DEF NeverOverstated
  <2>. QED
    BY <2>1 DEF NeverOverstated, SilenceCap, Period
<1>5. CASE \/ HostInit \/ ReaperPlug \/ SkipLink \/ SessionTimeOut \/ SessionLeave
           \/ UNCHANGED vars
           \/ \E h \in Hosts : PlugUnresolved(h) \/ TimerEvent(h) \/ OutEvent(h) \/ ReadError(h)
                               \/ Reply(h)
  BY <1>1, <1>5
     DEF HostInit, CreateLink, SetLogoutFun, SetReplayFun, OpenAllLink, ReaperPlug, SkipLink,
         SessionTimeOut, SessionLeave, vars, PlugUnresolved, TimerEvent, ArmAgain, OutEvent,
         ReadError, Reply
<1>. QED
  BY <1>2, <1>3, <1>4, <1>5 DEF Next, Reaper, Session

\* What Timely says of one session.
TimelyOf(h) ==
    /\ timer[h] = 0 => h \notin pollout
    /\ ~hadReport[h] =>
          /\ age[h] = silence[h]
          /\ \/ silence[h] + timer[h] < TimeOut[h] + Period(h)
             \/ silence[h] + timer[h] <= Period(h)
    /\ attempted[h] \/ h \in pollout \/ silence[h] + timer[h] <= Period(h)

\* While no silence reaches the half of the range, abs () leaves it as it is.
LEMMA ElapsedIsSilence ==
    ASSUME WrapIsLate, NEW h \in Hosts, NEW a \in Nat, a <= TimeOut[h] + Period(h)
    PROVE  Elapsed(a) = a /\ a + 1 < WrapTicks
BY PeriodPositive, BoundsAssumption DEF WrapIsLate, Elapsed

\* A timer event re-arms the timer of a session whose silence is not yet due.
LEMMA TimelyTimer ==
    ASSUME TypeOK, Watched, WrapIsLate, NEW h \in Hosts, TimerEvent(h), TimelyOf(h)
    PROVE  TimelyOf(h)'
<1>1. /\ timer'[h] = Period(h) /\ h \in pollout' /\ age' = age /\ silence' = silence
      /\ timer[h] = 0 /\ attempted' = attempted
  BY DEF TimerEvent, ArmAgain, clockVars, netVars, TypeOK
<1>2. Period(h) \in Nat /\ Period(h) >= 1 /\ TimeOut[h] \in Nat /\ silence[h] \in Nat
  BY PeriodPositive DEF TypeOK
<1>3. ASSUME ~hadReport'[h]
      PROVE  ~hadReport[h] /\ ~(Elapsed(age[h]) >= TimeOut[h])
  BY <1>3 DEF TimerEvent, ReportIf, ReportTimeOut, TypeOK
<1>4. ASSUME ~hadReport'[h]
      PROVE  age[h] = silence[h] /\ silence[h] < TimeOut[h]
  <2>1. age[h] = silence[h] /\ silence[h] <= TimeOut[h] + Period(h)
    BY <1>1, <1>2, <1>3, <1>4 DEF TimelyOf
  <2>. QED
    BY <1>2, <1>3, <1>4, <2>1, ElapsedIsSilence
<1>. QED
  BY <1>1, <1>2, <1>4 DEF TimelyOf

\* A tick that waits for what is due takes as much from the timer as it adds to
\* the silence.
LEMMA TimelyTick ==
    ASSUME TypeOK, Watched, WrapIsLate, KeepUp, NEW h \in Hosts, sess[h] = "live", Tick,
           TimelyOf(h)
    PROVE  TimelyOf(h)'
<1>1. timer[h] \in Nat \ {0} /\ h \notin pollout
  BY DEF Tick, CaughtUp, Watched
<1>2. /\ timer'[h] = timer[h] - 1 /\ pollout' = pollout /\ hadReport' = hadReport
      /\ attempted' = attempted
      /\ age'[h] = (age[h] + 1) % WrapTicks
      /\ silence'[h] = IF silence[h] < SilenceCap(h) THEN silence[h] + 1 ELSE silence[h]
  BY <1>1 DEF Tick, netVars
<1>3. /\ Period(h) \in Nat /\ TimeOut[h] \in Nat /\ silence[h] \in Nat /\ SilenceCap(h) \in Nat
      /\ SilenceCap(h) >= TimeOut[h] + Period(h) + 1
      /\ WrapTicks \in Nat /\ WrapTicks >= 2
  BY PeriodPositive, BoundsAssumption DEF TypeOK
<1>4. ASSUME ~hadReport[h]
      PROVE  age'[h] = silence'[h] /\ silence'[h] + timer'[h] = silence[h] + timer[h]
  <2>1. age[h] = silence[h] /\ silence[h] <= TimeOut[h] + Period(h)
    BY <1>1, <1>3, <1>4 DEF TimelyOf
  <2>2. silence'[h] = silence[h] + 1
    BY <1>2, <1>3, <2>1
  <2>3. age[h] + 1 < WrapTicks
    BY <1>3, <2>1, ElapsedIsSilence
  <2>4. (age[h] + 1) % WrapTicks = age[h] + 1
    BY <1>3, <2>1, <2>3
  <2>. QED
    BY <1>1, <1>2, <1>3, <2>1, <2>2, <2>4
<1>5. silence'[h] + timer'[h] <= silence[h] + timer[h]
  BY <1>1, <1>2, <1>3
<1>6. silence[h] + timer[h] \in Nat /\ silence'[h] + timer'[h] \in Nat
  BY <1>1, <1>2, <1>3
<1>7. timer'[h] = 0 => h \notin pollout'
  BY <1>1, <1>2
<1>8. attempted'[h] \/ h \in pollout' \/ silence'[h] + timer'[h] <= Period(h)
  BY <1>1, <1>2, <1>3, <1>5, <1>6 DEF TimelyOf
<1>. QED
  BY <1>2, <1>4, <1>7, <1>8 DEF TimelyOf

\* Every step keeps the silences and the timers in time.
LEMMA StepTimely ==
    ASSUME TypeOK, PlugsEachOnce, Phases, Watched, Timely, [Next]_vars
    PROVE  Timely'
<1>. SUFFICES ASSUME KeepUp, WrapIsLate, NEW h \in Hosts, sess'[h] = "live"
              PROVE  TimelyOf(h)'
  BY DEF Timely, TimelyOf, WrapIsLate, Period
<1>. USE DEF pollVars, clockVars, netVars
<1>1. sess[h] = "live" => TimelyOf(h)
  BY DEF Timely, TimelyOf
<1>2. CASE /\ sess[h] = "live" /\ timer'[h] = timer[h] /\ (h \in pollout' => h \in pollout)
           /\ (h \in pollout => h \in pollout' \/ attempted'[h])
           /\ age'[h] = age[h] /\ silence'[h] = silence[h]
           /\ (attempted[h] => attempted'[h])
           /\ (hadReport[h] => hadReport'[h])
  BY <1>1, <1>2 DEF TimelyOf
<1>3. Period(h) \in Nat /\ Period(h) >= 1 /\ TimeOut[h] \in Nat
  BY PeriodPositive
<1>4. ASSUME NEW g \in Hosts, PlugOk(g)
      PROVE  TimelyOf(h)'
  <2>1. CASE g = h
    <3>1. /\ timer'[h] = Period(h) /\ age'[h] = 0 /\ silence'[h] = 0
      BY <1>4, <2>1 DEF PlugOk, TypeOK
    <3>. QED
      BY <1>3, <3>1 DEF TimelyOf
  <2>2. CASE g # h
    <3>1. /\ sess[h] = "live" /\ timer'[h] = timer[h] /\ pollout' = pollout /\ age'[h] = age[h]
          /\ silence'[h] = silence[h] /\ attempted' = attempted /\ hadReport' = hadReport
      BY <1>4, <2>2 DEF PlugOk, TypeOK
    <3>. QED
      BY <1>2, <3>1
  <2>. QED
    BY <2>1, <2>2
<1>5. CASE PlugLink \/ \E g \in Hosts : PlugNoSocket(g) \/ Term(g)
  <2>1. sess[h] = "live"
    BY <1>5, SameLive
  <2>2. pollout' = pollout /\ age' = age /\ silence' = silence
        /\ attempted' = attempted /\ hadReport' = hadReport
    BY <1>5 DEF PlugLink, PlugNoSocket, Term
  <2>3. timer'[h] = timer[h]
    <3>1. \A g \in Hosts : Term(g) => sess'[g] # "live"
      BY DEF Term, TypeOK
    <3>. QED
      BY <1>5, <3>1 DEF PlugLink, PlugNoSocket, Term, TypeOK
  <2>. QED
    BY <1>2, <2>1, <2>2, <2>3
<1>6. ASSUME NEW g \in Hosts, TimerEvent(g)
      PROVE  TimelyOf(h)'
  <2>1. sess[h] = "live"
    BY <1>6 DEF TimerEvent, ArmAgain
  <2>2. CASE g = h
    BY <1>1, <1>6, <2>1, <2>2, TimelyTimer
  <2>3. CASE g # h
    <3>1. /\ timer'[h] = timer[h] /\ (h \in pollout' <=> h \in pollout) /\ age' = age
          /\ silence' = silence /\ attempted' = attempted
      BY <1>6, <2>3 DEF TimerEvent, ArmAgain, TypeOK
    <3>2. hadReport'[h] = hadReport[h]
      BY <1>6, <2>3 DEF TimerEvent, ReportIf, ReportTimeOut, TypeOK
    <3>. QED
      BY <1>2, <2>1, <3>1, <3>2
  <2>. QED
    BY <2>2, <2>3
<1>7. ASSUME NEW g \in Hosts, OutEvent(g)
      PROVE  TimelyOf(h)'
  BY <1>2, <1>7 DEF OutEvent, TypeOK
<1>8. ASSUME NEW g \in Hosts, InEvent(g)
      PROVE  TimelyOf(h)'
  <2>1. sess[h] = "live" /\ timer' = timer /\ pollout' = pollout
    BY <1>8 DEF InEvent
  <2>2. CASE g = h
    <3>1. age'[h] = 0 /\ silence'[h] = 0 /\ timer[h] \in 0 .. Period(h)
      BY <1>8, <2>1, <2>2 DEF InEvent, TypeOK, Watched
    <3>. QED
      BY <1>1, <1>3, <2>1, <3>1 DEF TimelyOf
  <2>3. CASE g # h
    <3>1. /\ age'[h] = age[h] /\ silence'[h] = silence[h]
          /\ attempted'[h] = attempted[h] /\ hadReport'[h] = hadReport[h]
      BY <1>8, <2>3 DEF InEvent, TypeOK
    <3>. QED
      BY <1>2, <2>1, <3>1
  <2>. QED
    BY <2>2, <2>3
<1>9. ASSUME NEW g \in Hosts, ReadError(g)
      PROVE  TimelyOf(h)'
  <2>1. hadReport[h] => hadReport'[h]
    BY <1>9 DEF ReadError, ReportTimeOut, TypeOK
  <2>. QED
    BY <1>2, <1>9, <2>1 DEF ReadError
<1>10. CASE Tick
  <2>1. sess[h] = "live"
    BY <1>10 DEF Tick
  <2>. QED
    BY <1>1, <1>10, <2>1, TimelyTick
<1>11. CASE \/ HostInit \/ ReaperPlug \/ SkipLink \/ SessionTimeOut \/ SessionLeave
            \/ UNCHANGED vars \/ \E g \in Hosts : PlugUnresolved(g) \/ Reply(g)
  <2>1. UNCHANGED <<sess, pollVars, clockVars, attempted, hadReport>>
    BY <1>11
       DEF HostInit, CreateLink, SetLogoutFun, SetReplayFun, OpenAllLink, ReaperPlug, SkipLink,
           SessionTimeOut, SessionLeave, vars, PlugUnresolved, Reply
  <2>. QED
    BY <1>2, <2>1
<1>. QED
  BY <1>4, <1>5, <1>6, <1>7, <1>8, <1>9, <1>10, <1>11 DEF Next, Reaper, Session

-----------------------------------------------------------------------------
(* The theorems                                                            *)

\* ctx_t::start establishes the inductive invariant.
LEMMA InitInductive == Init => Inductive
<1>. SUFFICES ASSUME Init PROVE Inductive
  OBVIOUS
<1>1. StartsOnce /\ PlugsEachOnce
  BY DEF Init, StartsOnce, NothingPlugged, PlugsEachOnce
<1>2. \A h \in Hosts : Silent(reaperQ, h)
  BY DEF Init, Silent
<1>3. \A t \in IoThreads, h \in Hosts : Silent(ioQ[t], h)
  BY DEF Init, Silent
<1>4. Phases
  BY <1>2 DEF Init, Phases, Phase
<1>5. OneThread
  BY <1>3 DEF OneThread
<1>6. Watched /\ NeverOverstated /\ Timely
  BY DEF Init, Watched, NeverOverstated, Timely
<1>. QED
  BY <1>1, <1>4, <1>5, <1>6, InitTyped DEF Inductive

\* Every step preserves the inductive invariant.
LEMMA StepInductive == Inductive /\ [Next]_vars => Inductive'
BY StepTyped, StepStartsOnce, StepPlugsEachOnce, StepPhases, StepOneThread, StepWatched,
   StepNeverOverstated, StepTimely
   DEF Inductive

\* The inductive invariant holds for any list of links, whatever their times,
\* any number of I/O threads, and whether or not the threads keep up.
THEOREM InductiveInvariant == Spec => []Inductive
<1>1. Init => Inductive
  BY InitInductive
<1>2. Inductive /\ [Next]_vars => Inductive'
  BY StepInductive
<1>. QED
  BY <1>1, <1>2, PTL DEF Spec

\* Every variable of the scanner keeps its type; no load is ever negative.
THEOREM TypeCorrect == Spec => []TypeOK
<1>1. Inductive => TypeOK
  BY DEF Inductive
<1>. QED
  BY <1>1, InductiveInvariant, PTL

\* Nothing refers to a session that process_term has deleted: no command in any
\* mailbox, no timer, no socket of the poller and no entry of _connecters.
THEOREM DeletedIsForgotten == Spec => []NoDanglingSession
<1>1. Inductive => NoDanglingSession
  <2>. SUFFICES ASSUME Inductive, NEW h \in Hosts, sess[h] = "deleted"
                PROVE  /\ h \notin polled \cup pollout \cup connecters
                       /\ timer[h] = Off
                       /\ \A i \in 1 .. Len(reaperQ) :
                             reaperQ[i] # PlugAll => reaperQ[i].session # h
                       /\ \A t \in IoThreads : \A i \in 1 .. Len(ioQ[t]) : ioQ[t][i].session # h
    BY DEF NoDanglingSession
  <2>1. h \notin connecters /\ Silent(reaperQ, h) /\ Silent(ioQ[thread[h]], h)
    BY DEF Inductive, Phases, Phase
  <2>2. h \notin polled /\ h \notin pollout /\ timer[h] = Off
    BY DEF Inductive, Watched
  <2>3. ASSUME NEW i \in 1 .. Len(reaperQ), reaperQ[i] # PlugAll
        PROVE  reaperQ[i].session # h
    <3>1. reaperQ[i] \in ReaperCmds
      BY DEF Inductive, TypeOK
    <3>2. PICK type \in {"connectTimeOut", "detachSession"}, g \in Hosts : reaperQ[i] = Cmd(type, g)
      BY <2>3, <3>1 DEF ReaperCmds
    <3>3. type \in CmdTypes
      BY DEF CmdTypes
    <3>. QED
      BY <2>1, <3>2, <3>3, CmdsDiffer DEF Silent
  <2>4. ASSUME NEW t \in IoThreads, NEW i \in 1 .. Len(ioQ[t])
        PROVE  ioQ[t][i].session # h
    <3>1. ioQ[t][i] \in IoCmds
      BY DEF Inductive, TypeOK
    <3>2. PICK type \in {"plug", "term"}, g \in Hosts : ioQ[t][i] = Cmd(type, g)
      BY <3>1 DEF IoCmds
    <3>3. type \in CmdTypes
      BY DEF CmdTypes
    <3>4. Silent(ioQ[t], h)
      BY <2>1 DEF Inductive, OneThread
    <3>. QED
      BY <3>2, <3>3, <3>4, CmdsDiffer DEF Silent
  <2>. QED
    BY <2>1, <2>2, <2>3, <2>4
<1>. QED
  BY <1>1, InductiveInvariant, PTL

\* A command that is the only one about its session is counted once.
LEMMA SoleCounted ==
    ASSUME NEW q, NEW type \in CmdTypes, NEW h, Sole(q, type, h)
    PROVE  Commands(type, h, q) = 1
<1>1. PICK i \in 1 .. Len(q) :
        /\ q[i] = Cmd(type, h)
        /\ \A j \in 1 .. Len(q) : \A other \in CmdTypes : j # i => q[j] # Cmd(other, h)
  BY DEF Sole
<1>2. {j \in 1 .. Len(q) : q[j] = Cmd(type, h)} = {i}
  BY <1>1
<1>. QED
  BY <1>2, FS_Singleton DEF Commands

\* The reaper keeps every session in _connecters until it sends it term, and no
\* exited session is without its detach or its term command, once.
THEOREM NoSessionLost == Spec => []ConnectersComplete
<1>1. Inductive => ConnectersComplete
  <2>. SUFFICES ASSUME Inductive, NEW h \in Hosts
                PROVE  /\ sess[h] \in {"created", "live"} => h \in connecters
                       /\ sess[h] = "exited" =>
                            \/ /\ h \in connecters
                               /\ Commands("detachSession", h, reaperQ) = 1
                            \/ /\ h \notin connecters
                               /\ Commands("term", h, ioQ[thread[h]]) = 1
    BY DEF ConnectersComplete
  <2>1. Phase(h)
    BY DEF Inductive, Phases
  <2>2. {"term", "detachSession"} \subseteq CmdTypes
    BY DEF CmdTypes
  <2>3. /\ Sole(reaperQ, "detachSession", h) => Commands("detachSession", h, reaperQ) = 1
        /\ Sole(ioQ[thread[h]], "term", h) => Commands("term", h, ioQ[thread[h]]) = 1
    BY <2>2, SoleCounted
  <2>. QED
    BY <2>1, <2>3 DEF Phase
<1>. QED
  BY <1>1, InductiveInvariant, PTL

\* When the I/O threads keep up with the clock and no link is to be reported as
\* late as half the range of the microsecond count, every silence is reported
\* before it is a period longer than m_time_out.
THEOREM SilenceDetected ==
    ASSUME WrapIsLate
    PROVE  Spec => []DetectedInTime
<1>1. Inductive => DetectedInTime
  <2>. SUFFICES ASSUME Inductive, KeepUp, NEW h \in Hosts, sess[h] = "live", ~hadReport[h]
                PROVE  silence[h] < TimeOut[h] + Period(h) \/ silence[h] <= Period(h)
    BY DEF DetectedInTime
  <2>1. \/ silence[h] + timer[h] < TimeOut[h] + Period(h)
        \/ silence[h] + timer[h] <= Period(h)
    BY WrapIsLate DEF Inductive, Timely
  <2>2. silence[h] \in Nat /\ timer[h] \in Nat /\ Period(h) \in Nat /\ TimeOut[h] \in Nat
    BY PeriodPositive DEF Inductive, TypeOK, Watched
  <2>. QED
    BY <2>1, <2>2
<1>. QED
  BY <1>1, InductiveInvariant, PTL

\* A report that is not of a failed read is that of a timer event that found the
\* silence long enough and not yet reported.
LEMMA ReportIsTimers ==
    ASSUME TypeOK, [Next]_vars, NEW h \in Hosts,
           reports'[h] > reports[h], readErrors'[h] = readErrors[h]
    PROVE  TimerEvent(h) /\ Elapsed(age[h]) >= TimeOut[h] /\ ~hadReport[h]
<1>. USE DEF countVars, netVars
<1>1. reports' # reports
  BY DEF TypeOK
<1>2. PICK g \in Hosts : TimerEvent(g) \/ ReadError(g)
  BY <1>1
     DEF Next, HostInit, CreateLink, SetLogoutFun, SetReplayFun, OpenAllLink, Reaper, ReaperPlug,
         SkipLink, PlugLink, SessionTimeOut, SessionLeave, Session, PlugOk, PlugNoSocket,
         PlugUnresolved, Term, OutEvent, InEvent, Reply, Tick, vars
<1>3. CASE TimerEvent(g)
  <2>1. Elapsed(age[g]) >= TimeOut[g] /\ ~hadReport[g]
    BY <1>1, <1>3 DEF TimerEvent, ReportIf
  <2>2. reports' = [reports EXCEPT ![g] = @ + 1]
    BY <1>3, <2>1 DEF TimerEvent, ReportIf, ReportTimeOut
  <2>3. g = h
    BY <2>2, SMTT(30) DEF TypeOK
  <2>. QED
    BY <1>3, <2>1, <2>3
<1>4. CASE ReadError(g)
  <2>1. /\ reports' = [reports EXCEPT ![g] = @ + 1]
        /\ readErrors' = [readErrors EXCEPT ![g] = @ + 1]
    BY <1>4 DEF ReadError, ReportTimeOut
  <2>. QED
    BY <2>1, SMTT(30) DEF TypeOK
<1>. QED
  BY <1>2, <1>3, <1>4

\* A timer event that reports finds a silence of m_time_out or more.
LEMMA ReportedSilence ==
    ASSUME Inductive, NEW h \in Hosts, sess[h] = "live", Elapsed(age[h]) >= TimeOut[h]
    PROVE  silence[h] >= TimeOut[h]
<1>1. /\ age[h] \in Nat /\ silence[h] \in Nat /\ TimeOut[h] \in Nat /\ WrapTicks \in Nat
      /\ SilenceCap(h) \in Nat /\ SilenceCap(h) >= TimeOut[h] + Period(h) + 1 /\ Period(h) \in Nat
  BY PeriodPositive, BoundsAssumption DEF Inductive, TypeOK
<1>2. Elapsed(age[h]) <= age[h]
  BY <1>1 DEF Elapsed
<1>3. Elapsed(age[h]) \in Int
  BY <1>1 DEF Elapsed
<1>4. silence[h] >= age[h] \/ silence[h] >= SilenceCap(h)
  BY DEF Inductive, NeverOverstated
<1>. QED
  BY <1>1, <1>2, <1>3, <1>4

\* The timer never reports a silence shorter than m_time_out, even when the
\* threads fall behind and the microsecond count wraps.
NeverReportedEarly ==
    [][\A h \in Hosts :
          reports'[h] > reports[h] /\ readErrors'[h] = readErrors[h] =>
              silence[h] >= TimeOut[h]]_vars

THEOREM ReportsNeverEarly == Spec => NeverReportedEarly
<1>1. ASSUME Inductive, [Next]_vars, NEW h \in Hosts,
             reports'[h] > reports[h], readErrors'[h] = readErrors[h]
      PROVE  silence[h] >= TimeOut[h]
  <2>1. TimerEvent(h) /\ Elapsed(age[h]) >= TimeOut[h]
    BY <1>1, ReportIsTimers DEF Inductive
  <2>2. sess[h] = "live"
    BY <1>1, <2>1, LiveSteps DEF Inductive
  <2>. QED
    BY <1>1, <2>1, <2>2, ReportedSilence
<1>2. Inductive /\ [Next]_vars =>
        [\A h \in Hosts :
            reports'[h] > reports[h] /\ readErrors'[h] = readErrors[h] =>
                silence[h] >= TimeOut[h]]_vars
  BY <1>1
<1>. QED
  BY <1>2, InductiveInvariant, PTL DEF Spec, NeverReportedEarly

\* When the I/O threads keep up with the clock, no link is to be reported as late
\* as half the range of the microsecond count, and every m_time_out is longer
\* than the period, the timer reports no host that it has not tried to probe
\* since the host's last reply.
THEOREM ReportsHaveCause ==
    ASSUME KeepUp, WrapIsLate, \A h \in Hosts : TimeOut[h] > Period(h)
    PROVE  Spec => ReportedWithCause
<1>1. ASSUME Inductive, [Next]_vars, NEW h \in Hosts,
             reports'[h] > reports[h], readErrors'[h] = readErrors[h]
      PROVE  silence[h] >= TimeOut[h] /\ attempted[h]
  <2>1. TimerEvent(h) /\ Elapsed(age[h]) >= TimeOut[h]
    BY <1>1, ReportIsTimers DEF Inductive
  <2>2. sess[h] = "live" /\ timer[h] = 0
    BY <1>1, <2>1, LiveSteps DEF Inductive, TimerEvent
  <2>3. silence[h] >= TimeOut[h]
    BY <1>1, <2>1, <2>2, ReportedSilence
  <2>4. attempted[h] \/ silence[h] + timer[h] <= Period(h)
    BY <1>1, <2>2 DEF Inductive, Timely
  <2>5. silence[h] \in Nat /\ TimeOut[h] \in Nat /\ Period(h) \in Nat
    BY <1>1, PeriodPositive DEF Inductive, TypeOK
  <2>. QED
    BY <2>2, <2>3, <2>4, <2>5
<1>2. Inductive /\ [Next]_vars =>
        [\A h \in Hosts :
            reports'[h] > reports[h] /\ readErrors'[h] = readErrors[h] =>
                silence[h] >= TimeOut[h] /\ attempted[h]]_vars
  BY <1>1
<1>. QED
  BY <1>2, InductiveInvariant, PTL DEF Spec, ReportedWithCause

-----------------------------------------------------------------------------
(* What the reaper's mailbox tells the application                         *)

\* The hosts reported by the first i commands of q.
ReportsSoFar(q, f) ==
    /\ f[0] = <<>>
    /\ \A i \in 1 .. Len(q) :
          f[i] = IF q[i].type = "connectTimeOut" THEN Append(f[i - 1], q[i].session) ELSE f[i - 1]

\* Reported is the last value of a function that goes through the mailbox.
LEMMA ReportedSteps ==
    ASSUME NEW q \in Seq(ReaperCmds)
    PROVE  \E f \in [0 .. Len(q) -> Seq(Hosts)] : ReportsSoFar(q, f) /\ Reported(q) = f[Len(q)]
<1>1. PICK n \in Nat : n = Len(q)
  OBVIOUS
<1>. DEFINE Step(i, s) == IF q[i].type = "connectTimeOut" THEN Append(s, q[i].session) ELSE s
            Body(f) == [i \in 0 .. Len(q) |->
                          IF i = 0 THEN <<>>
                          ELSE IF q[i].type = "connectTimeOut" THEN Append(f[i - 1], q[i].session)
                          ELSE f[i - 1]]
            hosts == CHOOSE f : f = Body(f)
<1>2. ASSUME NEW i \in 1 .. n, q[i].type = "connectTimeOut"
      PROVE  q[i].session \in Hosts
  <2>1. q[i] \in ReaperCmds
    BY <1>1
  <2>. QED
    BY <1>2, <2>1, CmdsDiffer DEF ReaperCmds, PlugAll
<1>3. \A i \in 1 .. n : \A s \in Seq(Hosts) : Step(i, s) \in Seq(Hosts)
  BY <1>2
<1>4. PICK f : /\ f \in [0 .. n -> Seq(Hosts)] /\ f[0] = <<>>
               /\ \A i \in 1 .. n : f[i] = Step(i, f[i - 1])
  <2>. DEFINE step == [p \in (1 .. n) \X Seq(Hosts) |-> Step(p[1], p[2])]
  <2>. HIDE DEF Step
  <2>1. IsStep(step, n, Seq(Hosts))
    BY <1>3 DEF IsStep
  <2>2. \A i \in 1 .. n : \A s \in Seq(Hosts) : step[<<i, s>>] = Step(i, s)
    OBVIOUS
  <2>3. <<>> \in Seq(Hosts)
    OBVIOUS
  <2>. HIDE DEF step
  <2>4. PICK f : Follows(f, step, n, Seq(Hosts), <<>>)
    BY <2>1, <2>3, StepByStep
  <2>5. \A i \in 1 .. n : f[i - 1] \in Seq(Hosts)
    BY <2>4 DEF Follows
  <2>. QED
    BY <2>2, <2>4, <2>5, ZenonT(60) DEF Follows
<1>5. f = Body(f)
  <2>1. f = [i \in 0 .. n |-> f[i]]
    BY <1>4
  <2>2. ASSUME NEW i \in 0 .. n
        PROVE  f[i] = Body(f)[i]
    <3>1. CASE i = 0
      BY <1>1, <1>4, <3>1
    <3>2. CASE i # 0
      <4>1. i \in 1 .. n
        BY <3>2
      <4>. QED
        BY <1>1, <1>4, <3>2, <4>1
    <3>. QED
      BY <3>1, <3>2
  <2>3. Body(f) = [i \in 0 .. n |-> Body(f)[i]]
    BY <1>1
  <2>. HIDE DEF Body
  <2>. QED
    BY <2>1, <2>2, <2>3
<1>6. Reported(q) = hosts[n]
  BY <1>1 DEF Reported
<1>. HIDE DEF Body
<1>7. hosts = Body(hosts)
  BY <1>5
<1>. HIDE DEF hosts
<1>8. hosts[0] = <<>> /\ \A i \in 1 .. n : hosts[i] = Step(i, hosts[i - 1])
  <2>1. \A i \in 0 .. n : hosts[i] = Body(hosts)[i]
    BY <1>7
  <2>. QED
    BY <1>1, <2>1 DEF Body
<1>9. \A i \in 1 .. n : hosts[i - 1] = f[i - 1] => hosts[i] = f[i]
  BY <1>4, <1>8
<1>10. hosts[0] = f[0]
  BY <1>4, <1>8
<1>11. \A i \in 0 .. n : hosts[i] = f[i]
  BY <1>9, <1>10, SameSteps, SMTT(30)
<1>12. Reported(q) = f[n]
  BY <1>1, <1>6, <1>11
<1>13. ReportsSoFar(q, f)
  BY <1>1, <1>4 DEF ReportsSoFar
<1>. QED
  BY <1>1, <1>4, <1>12, <1>13

\* An empty mailbox reports nothing.
LEMMA ReportedEmpty == Reported(<<>>) = <<>>
<1>1. <<>> \in Seq(ReaperCmds) /\ Len(<<>>) = 0
  OBVIOUS
<1>2. PICK f : ReportsSoFar(<<>>, f) /\ Reported(<<>>) = f[Len(<<>>)]
  BY <1>1, ReportedSteps
<1>. QED
  BY <1>1, <1>2 DEF ReportsSoFar

\* A new command comes last in what is reported.
LEMMA ReportedAppend ==
    ASSUME NEW q \in Seq(ReaperCmds), NEW c \in ReaperCmds
    PROVE  /\ Reported(q) \in Seq(Hosts)
           /\ Reported(Append(q, c)) =
                 IF c.type = "connectTimeOut" THEN Append(Reported(q), c.session) ELSE Reported(q)
<1>1. PICK n \in Nat, r \in Seq(ReaperCmds) :
        /\ n = Len(q) /\ r = Append(q, c) /\ Len(r) = n + 1 /\ r[n + 1] = c
        /\ \A i \in 1 .. n : r[i] = q[i]
  <2>1. Append(q, c) \in Seq(ReaperCmds) /\ Len(q) \in Nat
    OBVIOUS
  <2>2. /\ Len(Append(q, c)) = Len(q) + 1 /\ Append(q, c)[Len(q) + 1] = c
        /\ \A i \in 1 .. Len(q) : Append(q, c)[i] = q[i]
    OBVIOUS
  <2>. QED
    BY <2>1, <2>2
<1>2. PICK f : f \in [0 .. n -> Seq(Hosts)] /\ ReportsSoFar(q, f) /\ Reported(q) = f[n]
  BY <1>1, ReportedSteps
<1>3. PICK g : g \in [0 .. n + 1 -> Seq(Hosts)] /\ ReportsSoFar(r, g) /\ Reported(r) = g[n + 1]
  BY <1>1, ReportedSteps
<1>4. /\ f[0] = <<>>
      /\ \A i \in 1 .. n :
            f[i] = IF q[i].type = "connectTimeOut" THEN Append(f[i - 1], q[i].session) ELSE f[i - 1]
  BY <1>1, <1>2 DEF ReportsSoFar
<1>5. /\ g[0] = <<>>
      /\ \A i \in 1 .. n + 1 :
            g[i] = IF r[i].type = "connectTimeOut" THEN Append(g[i - 1], r[i].session) ELSE g[i - 1]
  BY <1>1, <1>3 DEF ReportsSoFar
<1>6. \A i \in 1 .. n : f[i - 1] = g[i - 1] => f[i] = g[i]
  <2>. SUFFICES ASSUME NEW i \in 1 .. n, f[i - 1] = g[i - 1]
                PROVE  f[i] = g[i]
    OBVIOUS
  <2>1. i \in 1 .. n + 1 /\ r[i] = q[i]
    BY <1>1
  <2>. QED
    BY <1>4, <1>5, <2>1
<1>7. f[0] = g[0]
  BY <1>4, <1>5
<1>8. \A i \in 0 .. n : f[i] = g[i]
  BY <1>6, <1>7, SameSteps, ZenonT(60)
<1>9. f[n] = g[n] /\ n + 1 \in 1 .. n + 1 /\ n + 1 - 1 = n
  BY <1>8
<1>10. g[n + 1] = IF c.type = "connectTimeOut" THEN Append(g[n], c.session) ELSE g[n]
  BY <1>1, <1>5, <1>9
<1>. QED
  BY <1>1, <1>2, <1>3, <1>9, <1>10

\* A list s is the list t with the host of the report c, if it is one, in front.
Fronts(s, c, t) ==
    IF c.type = "connectTimeOut"
      THEN /\ Len(s) = Len(t) + 1 /\ s[1] = c.session
           /\ \A i \in 1 .. Len(t) : s[i + 1] = t[i]
      ELSE s = t

LEMMA FrontsHead ==
    ASSUME NEW s \in Seq(Hosts), NEW t \in Seq(Hosts), NEW c,
           c.type = "connectTimeOut", Fronts(s, c, t)
    PROVE  s # <<>> /\ Head(s) = c.session /\ Tail(s) = t
<1>1. Len(s) = Len(t) + 1 /\ s[1] = c.session /\ \A i \in 1 .. Len(t) : s[i + 1] = t[i]
  BY DEF Fronts
<1>2. s # <<>> /\ Tail(s) \in Seq(Hosts) /\ Head(s) = s[1] /\ Len(Tail(s)) = Len(t)
  BY <1>1
<1>3. \A i \in 1 .. Len(t) : Tail(s)[i] = t[i]
  BY <1>1, <1>2
<1>4. Tail(s) = t
  BY <1>2, <1>3, SeqEqual
<1>. QED
  BY <1>1, <1>2, <1>4

LEMMA FrontsAppend ==
    ASSUME NEW s \in Seq(Hosts), NEW t \in Seq(Hosts), NEW c, NEW h \in Hosts, Fronts(s, c, t)
    PROVE  Fronts(Append(s, h), c, Append(t, h))
<1>1. CASE c.type = "connectTimeOut"
  <2>1. Len(s) = Len(t) + 1 /\ s[1] = c.session /\ \A i \in 1 .. Len(t) : s[i + 1] = t[i]
    BY <1>1 DEF Fronts
  <2>2. Len(Append(s, h)) = Len(Append(t, h)) + 1 /\ Append(s, h)[1] = c.session
    BY <2>1
  <2>3. ASSUME NEW i \in 1 .. Len(Append(t, h))
        PROVE  Append(s, h)[i + 1] = Append(t, h)[i]
    <3>1. CASE i \in 1 .. Len(t)
      BY <2>1, <3>1
    <3>2. CASE i = Len(t) + 1
      BY <2>1, <3>2
    <3>3. i \in 1 .. Len(t) + 1 /\ Len(t) \in Nat
      OBVIOUS
    <3>4. i \in 1 .. Len(t) \/ i = Len(t) + 1
      BY <3>3
    <3>. QED
      BY <3>1, <3>2, <3>4
  <2>. QED
    BY <1>1, <2>2, <2>3 DEF Fronts
<1>2. CASE c.type # "connectTimeOut"
  BY <1>2 DEF Fronts
<1>. QED
  BY <1>1, <1>2

\* The command at the head comes first in what is reported.
LEMMA ReportedTail ==
    ASSUME NEW q \in Seq(ReaperCmds), q # <<>>
    PROVE  Fronts(Reported(q), Head(q), Reported(Tail(q)))
<1>1. PICK n \in Nat, r \in Seq(ReaperCmds), c \in ReaperCmds :
        /\ n + 1 = Len(q) /\ r = Tail(q) /\ Len(r) = n /\ c = q[1] /\ c = Head(q)
        /\ \A i \in 1 .. n : r[i] = q[i + 1]
  <2>1. /\ Tail(q) \in Seq(ReaperCmds) /\ Len(Tail(q)) \in Nat /\ Head(q) \in ReaperCmds
        /\ Len(q) = Len(Tail(q)) + 1 /\ Head(q) = q[1]
    OBVIOUS
  <2>2. \A i \in 1 .. Len(Tail(q)) : Tail(q)[i] = q[i + 1]
    OBVIOUS
  <2>. QED
    BY <2>1, <2>2
<1>2. PICK f : /\ f \in [0 .. n + 1 -> Seq(Hosts)]
               /\ ReportsSoFar(q, f) /\ Reported(q) = f[n + 1]
  BY <1>1, ReportedSteps
<1>3. PICK g : g \in [0 .. n -> Seq(Hosts)] /\ ReportsSoFar(r, g) /\ Reported(r) = g[n]
  BY <1>1, ReportedSteps
<1>4. /\ f[0] = <<>>
      /\ \A i \in 1 .. n + 1 :
            f[i] = IF q[i].type = "connectTimeOut" THEN Append(f[i - 1], q[i].session) ELSE f[i - 1]
  BY <1>1, <1>2 DEF ReportsSoFar
<1>5. /\ g[0] = <<>>
      /\ \A i \in 1 .. n :
            g[i] = IF r[i].type = "connectTimeOut" THEN Append(g[i - 1], r[i].session) ELSE g[i - 1]
  BY <1>1, <1>3 DEF ReportsSoFar
<1>6. \A d \in ReaperCmds : d.type = "connectTimeOut" => d.session \in Hosts
  BY CmdsDiffer DEF ReaperCmds, PlugAll
<1>7. Fronts(f[1], c, g[0])
  <2>1. 1 \in 1 .. n + 1 /\ 1 - 1 = 0
    OBVIOUS
  <2>2. f[1] = IF c.type = "connectTimeOut" THEN Append(f[0], c.session) ELSE f[0]
    BY <1>1, <1>4, <2>1
  <2>3. \A s \in Hosts : Append(<<>>, s) = <<s>> /\ Len(<<s>>) = 1 /\ <<s>>[1] = s
    OBVIOUS
  <2>. QED
    BY <1>4, <1>5, <1>6, <2>2, <2>3 DEF Fronts
<1>8. ASSUME NEW i \in 1 .. n, Fronts(f[i], c, g[i - 1])
      PROVE  Fronts(f[i + 1], c, g[i])
  <2>1. /\ i + 1 \in 1 .. n + 1 /\ (i + 1) - 1 = i
        /\ r[i] = q[i + 1] /\ r[i] \in ReaperCmds
    BY <1>1
  <2>2. f[i + 1] = IF r[i].type = "connectTimeOut" THEN Append(f[i], r[i].session) ELSE f[i]
    BY <1>4, <2>1
  <2>3. g[i] = IF r[i].type = "connectTimeOut" THEN Append(g[i - 1], r[i].session) ELSE g[i - 1]
    BY <1>5
  <2>4. f[i] \in Seq(Hosts) /\ g[i - 1] \in Seq(Hosts)
    <3>1. i \in 0 .. n + 1 /\ i - 1 \in 0 .. n
      OBVIOUS
    <3>. QED
      BY <1>2, <1>3, <3>1
  <2>5. CASE r[i].type = "connectTimeOut"
    <3>1. r[i].session \in Hosts
      BY <1>6, <2>1, <2>5
    <3>2. Fronts(Append(f[i], r[i].session), c, Append(g[i - 1], r[i].session))
      BY <1>8, <2>4, <3>1, FrontsAppend
    <3>. QED
      BY <2>2, <2>3, <2>5, <3>2
  <2>6. CASE r[i].type # "connectTimeOut"
    BY <1>8, <2>2, <2>3, <2>6
  <2>. QED
    BY <2>5, <2>6
<1>. DEFINE T == {i \in 0 .. n : Fronts(f[i + 1], c, g[i])}
<1>9. 0 \in T
  BY <1>7
<1>10. \A i \in 1 .. n : i - 1 \in T => i \in T
  <2>. SUFFICES ASSUME NEW i \in 1 .. n, i - 1 \in T
                PROVE  i \in T
    OBVIOUS
  <2>1. i \in 0 .. n /\ (i - 1) + 1 = i
    OBVIOUS
  <2>2. Fronts(f[i], c, g[i - 1])
    BY <2>1
  <2>3. Fronts(f[i + 1], c, g[i])
    BY <1>8, <2>2
  <2>. QED
    BY <2>1, <2>3
<1>. HIDE DEF T
<1>11. n \in T
  <2>1. \A i \in 0 .. n : i \in T
    BY <1>9, <1>10, UpTo
  <2>. QED
    BY <2>1
<1>. QED
  BY <1>1, <1>2, <1>3, <1>11 DEF T

\* A step that leaves what the monitor is made of leaves the monitor.
LEMMA MonitorRests ==
    ASSUME \A h \in Hosts : sess'[h] = "live" <=> sess[h] = "live",
           hadReport' = hadReport, Reported(reaperQ') = Reported(reaperQ),
           readErrors' = readErrors, outCalls' = outCalls
    PROVE  UNCHANGED Monitor!vars
<1>1. {h \in Hosts : sess'[h] = "live"} = {h \in Hosts : sess[h] = "live"}
  OBVIOUS
<1>2. {h \in Hosts : hadReport'[h]} = {h \in Hosts : hadReport[h]}
  OBVIOUS
<1>. QED
  BY <1>1, <1>2 DEF Monitor!vars

LEMMA MonitorStarts == Init => Monitor!Init
BY ReportedEmpty DEF Init, Monitor!Init

\* The reaper takes a command that tells the application of nothing.
LEMMA NoReportTaken ==
    ASSUME reaperQ \in Seq(ReaperCmds), NEW type, type # "connectTimeOut", ReaperTakes(type)
    PROVE  Reported(reaperQ') = Reported(reaperQ)
<1>1. reaperQ # <<>> /\ Head(reaperQ).type # "connectTimeOut" /\ reaperQ' = Tail(reaperQ)
  BY DEF ReaperTakes
<1>2. Fronts(Reported(reaperQ), Head(reaperQ), Reported(Tail(reaperQ)))
  BY <1>1, ReportedTail
<1>. QED
  BY <1>1, <1>2 DEF Fronts

\* session_time_out tells the application, whose function was given before
\* anything was plugged.
LEMMA MonitorTells ==
    ASSUME TypeOK, StartsOnce, SessionTimeOut
    PROVE  Monitor!Tell
<1>. USE DEF appVars, reaperVars, pollVars, clockVars, netVars
<1>1. /\ reaperQ \in Seq(ReaperCmds) /\ reaperQ # <<>> /\ reaperQ' = Tail(reaperQ)
      /\ Head(reaperQ).type = "connectTimeOut"
  BY DEF TypeOK, SessionTimeOut, ReaperTakes
<1>2. Head(reaperQ) \in ReaperCmds /\ Tail(reaperQ) \in Seq(ReaperCmds)
  BY <1>1
<1>3. Reported(reaperQ) \in Seq(Hosts) /\ Reported(Tail(reaperQ)) \in Seq(Hosts)
  BY <1>1, <1>2, ReportedAppend
<1>4. /\ Reported(reaperQ) # <<>> /\ Head(Reported(reaperQ)) = Head(reaperQ).session
      /\ Tail(Reported(reaperQ)) = Reported(reaperQ')
  <2>1. Fronts(Reported(reaperQ), Head(reaperQ), Reported(Tail(reaperQ)))
    BY <1>1, ReportedTail
  <2>. QED
    BY <1>1, <1>3, <2>1, FrontsHead
<1>5. outFun = TRUE
  BY <1>1 DEF StartsOnce
<1>6. /\ outCalls' = [outCalls EXCEPT ![Head(Reported(reaperQ))] = @ + 1]
      /\ sess' = sess /\ hadReport' = hadReport /\ readErrors' = readErrors
  BY <1>4, <1>5 DEF SessionTimeOut
<1>. QED
  BY <1>4, <1>6 DEF Monitor!Tell

\* A report of the session of h comes last in what the application will be told.
LEMMA ReportAppended ==
    ASSUME TypeOK, NEW h \in Hosts, ReportTimeOut(h)
    PROVE  /\ Reported(reaperQ') = Append(Reported(reaperQ), h)
           /\ {g \in Hosts : hadReport'[g]} = {g \in Hosts : hadReport[g]} \cup {h}
<1>1. reaperQ \in Seq(ReaperCmds) /\ Cmd("connectTimeOut", h) \in ReaperCmds
  BY CmdsTyped DEF TypeOK
<1>2. Reported(reaperQ') = Append(Reported(reaperQ), h)
  BY <1>1, ReportedAppend DEF ReportTimeOut, Cmd
<1>3. hadReport \in [Hosts -> BOOLEAN] /\ hadReport' = [hadReport EXCEPT ![h] = TRUE]
  BY DEF ReportTimeOut, TypeOK
<1>4. \A g \in Hosts : hadReport'[g] <=> hadReport[g] \/ g = h
  BY <1>3
<1>. QED
  BY <1>2, <1>4

\* A step of the session of h is one of the monitor about h, or none.
LEMMA MonitorOfSession ==
    ASSUME Inductive, NEW h \in Hosts, Session(h) \/ ReadError(h) \/ Reply(h)
    PROVE  Monitor!Next \/ UNCHANGED Monitor!vars
<1>. USE DEF appVars, reaperVars, pollVars, clockVars, netVars, countVars
<1>t. TypeOK /\ PlugsEachOnce /\ Phases /\ Watched
  BY DEF Inductive
<1>1. CASE PlugOk(h)
  <2>1. sess[h] # "live"
    <3>1. IoTakes("plug", h) /\ "plug" \in {"plug", "term"}
      BY <1>1 DEF PlugOk
    <3>2. thread[h] \in IoThreads /\ ~Silent(ioQ[thread[h]], h)
      BY <1>t, <3>1, TypedQueues, IoTakesEffect
    <3>. QED
      BY <1>t, <3>2 DEF Phases, Phase
  <2>2. /\ {g \in Hosts : sess'[g] = "live"} = {g \in Hosts : sess[g] = "live"} \cup {h}
        /\ hadReport' = hadReport /\ readErrors' = readErrors /\ outCalls' = outCalls
        /\ reaperQ' = reaperQ
    BY <1>1, <1>t DEF PlugOk, TypeOK
  <2>3. Monitor!Watch(h)
    BY <2>1, <2>2 DEF Monitor!Watch
  <2>. QED
    BY <2>3 DEF Monitor!Next
<1>2. CASE PlugNoSocket(h) \/ PlugUnresolved(h)
  <2>1. /\ reaperQ' = Append(reaperQ, Cmd("detachSession", h)) /\ hadReport' = hadReport
        /\ readErrors' = readErrors /\ outCalls' = outCalls
    BY <1>2 DEF PlugNoSocket, PlugUnresolved
  <2>2. Reported(reaperQ') = Reported(reaperQ)
    BY <1>t, <2>1, CmdsTyped, ReportedAppend DEF TypeOK, Cmd
  <2>3. \A g \in Hosts : sess'[g] = "live" <=> sess[g] = "live"
    BY <1>2, <1>t, SameLive DEF PlugUnresolved
  <2>. QED
    BY <2>1, <2>2, <2>3, MonitorRests
<1>3. CASE Term(h)
  <2>1. \A g \in Hosts : sess'[g] = "live" <=> sess[g] = "live"
    BY <1>3, <1>t, SameLive
  <2>. QED
    BY <1>3, <2>1, MonitorRests DEF Term
<1>4. CASE OutEvent(h) \/ Reply(h)
  BY <1>4, MonitorRests DEF OutEvent, Reply
<1>5. CASE TimerEvent(h)
  <2>1. sess[h] = "live"
    BY <1>5, <1>t, LiveSteps
  <2>2. sess' = sess /\ readErrors' = readErrors /\ outCalls' = outCalls
    BY <1>5 DEF TimerEvent, ArmAgain
  <2>3. CASE Elapsed(age[h]) >= TimeOut[h] /\ ~hadReport[h]
    <3>1. ReportTimeOut(h)
      BY <1>5, <2>3 DEF TimerEvent, ReportIf
    <3>2. /\ Reported(reaperQ') = Append(Reported(reaperQ), h)
          /\ {g \in Hosts : hadReport'[g]} = {g \in Hosts : hadReport[g]} \cup {h}
      BY <1>t, <3>1, ReportAppended
    <3>3. Monitor!Notice(h)
      BY <2>1, <2>2, <2>3, <3>2 DEF Monitor!Notice
    <3>. QED
      BY <3>3 DEF Monitor!Next
  <2>4. CASE ~(Elapsed(age[h]) >= TimeOut[h] /\ ~hadReport[h])
    <3>1. hadReport' = hadReport /\ reaperQ' = reaperQ
      BY <1>5, <2>4 DEF TimerEvent, ReportIf
    <3>. QED
      BY <2>2, <3>1, MonitorRests
  <2>. QED
    BY <2>3, <2>4
<1>6. CASE InEvent(h)
  <2>1. sess[h] = "live"
    BY <1>6, <1>t, LiveSteps
  <2>2. /\ sess' = sess /\ readErrors' = readErrors /\ outCalls' = outCalls /\ reaperQ' = reaperQ
        /\ {g \in Hosts : hadReport'[g]} = {g \in Hosts : hadReport[g]} \ {h}
    BY <1>6, <1>t DEF InEvent, TypeOK
  <2>3. Monitor!Answer(h)
    BY <2>1, <2>2 DEF Monitor!Answer
  <2>. QED
    BY <2>3 DEF Monitor!Next
<1>7. CASE ReadError(h)
  <2>1. sess[h] = "live"
    BY <1>7, <1>t, LiveSteps
  <2>2. /\ Reported(reaperQ') = Append(Reported(reaperQ), h)
        /\ {g \in Hosts : hadReport'[g]} = {g \in Hosts : hadReport[g]} \cup {h}
    BY <1>7, <1>t, ReportAppended DEF ReadError
  <2>3. /\ sess' = sess /\ outCalls' = outCalls
        /\ readErrors' = [readErrors EXCEPT ![h] = @ + 1]
    BY <1>7 DEF ReadError
  <2>4. Monitor!Fail(h)
    BY <2>1, <2>2, <2>3 DEF Monitor!Fail
  <2>. QED
    BY <2>4 DEF Monitor!Next
<1>. QED
  BY <1>1, <1>2, <1>3, <1>4, <1>5, <1>6, <1>7 DEF Session

\* Every step of the scanner is a step of the monitor, or none.
LEMMA MonitorStep == Inductive /\ [Next]_vars => [Monitor!Next]_(Monitor!vars)
<1>. SUFFICES ASSUME Inductive, [Next]_vars
              PROVE  Monitor!Next \/ UNCHANGED Monitor!vars
  OBVIOUS
<1>. USE DEF appVars, reaperVars, pollVars, clockVars, netVars, countVars
<1>t. TypeOK /\ StartsOnce /\ PlugsEachOnce /\ Phases
  BY DEF Inductive
<1>1. CASE SessionTimeOut
  BY <1>1, <1>t, MonitorTells DEF Monitor!Next
<1>2. CASE ReaperPlug \/ SessionLeave
  <2>1. Reported(reaperQ') = Reported(reaperQ)
    BY <1>2, <1>t, NoReportTaken DEF ReaperPlug, SessionLeave, TypeOK
  <2>. QED
    BY <1>2, <2>1, MonitorRests DEF ReaperPlug, SessionLeave
<1>3. CASE PlugLink
  <2>1. \A g \in Hosts : sess'[g] = "live" <=> sess[g] = "live"
    BY <1>3, <1>t, SameLive
  <2>. QED
    BY <1>3, <2>1, MonitorRests DEF PlugLink
<1>4. CASE OpenAllLink
  <2>1. Reported(reaperQ') = Reported(reaperQ)
    <3>1. PlugAll \in ReaperCmds /\ PlugAll.type # "connectTimeOut"
      BY DEF ReaperCmds, PlugAll
    <3>2. reaperQ \in Seq(ReaperCmds) /\ reaperQ' = Append(reaperQ, PlugAll)
      BY <1>4, <1>t DEF OpenAllLink, TypeOK
    <3>. QED
      BY <3>1, <3>2, ReportedAppend
  <2>. QED
    BY <1>4, <2>1, MonitorRests DEF OpenAllLink
<1>5. CASE CreateLink \/ SetLogoutFun \/ SetReplayFun \/ SkipLink \/ Tick \/ UNCHANGED vars
  BY <1>5, MonitorRests DEF CreateLink, SetLogoutFun, SetReplayFun, SkipLink, Tick, vars
<1>6. ASSUME NEW h \in Hosts, Session(h) \/ ReadError(h) \/ Reply(h)
      PROVE  Monitor!Next \/ UNCHANGED Monitor!vars
  BY <1>6, MonitorOfSession
<1>. QED
  BY <1>1, <1>2, <1>3, <1>4, <1>5, <1>6 DEF Next, HostInit, Reaper

\* The scanner implements the monitor: every silence is noticed once, a new one
\* only after an accepted reply, and the application is told of each in order.
THEOREM MonitorImplemented == Spec => ImplementsMonitor
<1>1. Init => Monitor!Init
  BY MonitorStarts
<1>2. Inductive /\ [Next]_vars => [Monitor!Next]_(Monitor!vars)
  BY MonitorStep
<1>. QED
  BY <1>1, <1>2, InductiveInvariant, PTL DEF Spec, ImplementsMonitor, Monitor!Spec

=============================================================================

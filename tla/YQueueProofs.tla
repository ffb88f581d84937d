----------------------------- MODULE YQueueProofs ---------------------------
(***************************************************************************)
(* Proofs about YQueue for any memory, any chunk size and any interleaving *)
(* of the writer, the reader and the destructor.                           *)
(***************************************************************************)
EXTENDS YQueue, PrefixInduction, FiniteSetTheorems, SequenceTheorems, TLAPS

At(f, lo, hi) == TypeOK /\ Places /\ ~fault /\ Layout(f, lo, hi)
Inductive == \E f \in [Nat -> Chunks], lo \in Nat, hi \in Nat : At(f, lo, hi)

-----------------------------------------------------------------------------
(* Where the ends of the queue are                                         *)

\* The chunk of a cell does not come after the chunk of a later one.
LEMMA ChunkOrder ==
    ASSUME NEW a \in Nat, NEW b \in Nat, a * N < b * N + N
    PROVE  a <= b
<1>. SUFFICES ASSUME a >= b + 1 PROVE FALSE
  OBVIOUS
<1>1. PICK d \in Nat : a = b + 1 + d
  <2>1. a - b - 1 \in Nat /\ a = b + 1 + (a - b - 1)
    OBVIOUS
  <2>. QED
    BY <2>1
<1>2. a * N = b * N + N + d * N
  BY <1>1, NAssumption
<1>3. d * N \in Nat /\ b * N \in Nat /\ N \in Nat
  BY NAssumption
<1>. QED
  BY <1>2, <1>3

\* The chunk of the back cell.
BackOf(hi) == IF endPos = 0 THEN hi - 1 ELSE hi

LEMMA Ends ==
    ASSUME NEW f \in [Nat -> Chunks], NEW lo \in Nat, NEW hi \in Nat, At(f, lo, hi),
           phase = "live"
    PROVE  /\ lo <= BackOf(hi) /\ BackOf(hi) <= hi /\ BackOf(hi) \in Nat /\ back = f[BackOf(hi)]
           /\ written = BackOf(hi) * N + backPos
           /\ rpc = "step" => lo < hi
           /\ flushed < written /\ endPos = 0 => lo < hi
           /\ flushed < written /\ backPos = 0 => lo < BackOf(hi)
<1>1. /\ removed \in Nat /\ written \in Nat /\ flushed \in Nat /\ beginPos \in 0 .. N
      /\ endPos \in 0 .. N /\ backPos \in 0 .. N - 1 /\ N \in Nat /\ N >= 2
  BY NAssumption, BoundAssumption DEF At, TypeOK
<1>2. /\ lo <= hi /\ removed = lo * N + beginPos /\ written + 1 = hi * N + endPos
      /\ removed <= flushed /\ flushed <= written
      /\ IF endPos = 0 THEN back = f[hi - 1] /\ backPos = N - 1
                       ELSE back = f[hi] /\ backPos = endPos - 1
  BY DEF At, Layout, Chained, Positioned
<1>3. lo * N \in Nat /\ hi * N \in Nat
  BY <1>1
<1>4. hi # 0 \/ endPos # 0
  BY <1>1, <1>2
<1>5. BackOf(hi) \in Nat /\ BackOf(hi) <= hi /\ back = f[BackOf(hi)]
  BY <1>2, <1>4 DEF BackOf
<1>6. written = BackOf(hi) * N + backPos
  <2>1. CASE endPos = 0
    <3>1. BackOf(hi) * N = hi * N - N
      BY <1>1, <2>1 DEF BackOf
    <3>. QED
      BY <1>1, <1>2, <1>3, <2>1, <3>1
  <2>2. CASE endPos # 0
    BY <1>1, <1>2, <1>3, <2>2 DEF BackOf
  <2>. QED
    BY <2>1, <2>2
<1>7. BackOf(hi) * N \in Nat
  BY <1>1, <1>5
<1>. DEFINE b == BackOf(hi)
<1>. HIDE DEF b
<1>8. lo <= b
  <2>1. lo * N < b * N + N
    BY <1>1, <1>2, <1>3, <1>6, <1>7 DEF b
  <2>. QED
    BY <1>5, <2>1, ChunkOrder DEF b
<1>9. (lo + 1) * N = lo * N + N
  BY <1>1
<1>10. ASSUME lo * N + N <= written
       PROVE  lo < b
  <2>1. (lo + 1) * N < b * N + N
    BY <1>1, <1>3, <1>6, <1>7, <1>9, <1>10 DEF b
  <2>2. lo + 1 <= b
    BY <1>5, <2>1, ChunkOrder DEF b
  <2>. QED
    BY <1>5, <2>2 DEF b
<1>11. rpc = "step" => lo < hi
  <2>. SUFFICES ASSUME rpc = "step" PROVE lo < hi
    OBVIOUS
  <2>1. beginPos = N
    BY DEF At, Places
  <2>2. lo < b
    BY <1>1, <1>2, <1>3, <1>10, <2>1
  <2>. QED
    BY <1>5, <2>2 DEF b
<1>12. flushed < written /\ endPos = 0 => lo < hi
  BY <1>2, <1>5, <1>8 DEF b, BackOf
<1>13. flushed < written /\ backPos = 0 => lo < b
  <2>. SUFFICES ASSUME flushed < written, backPos = 0 PROVE lo < b
    OBVIOUS
  <2>1. lo # b
    BY <1>1, <1>2, <1>3, <1>6 DEF b
  <2>. QED
    BY <1>5, <1>8, <2>1 DEF b
<1>. QED
  BY <1>5, <1>6, <1>8, <1>11, <1>12, <1>13 DEF b

-----------------------------------------------------------------------------
(* The chunks of the queue are allocated                                   *)

LEMMA Allocated ==
    ASSUME NEW f \in [Nat -> Chunks], NEW lo \in Nat, NEW hi \in Nat, At(f, lo, hi)
    PROVE  /\ phase \in {"live", "chain"} => \A i \in lo .. hi : f[i] \in alloc
           /\ \A p \in OffChain : p = Null \/ p \in alloc
BY DEF At, Layout, Owned

\* The queue before it is used: one chunk, and the back cell is its first.
LEMMA InitAt == Init => Inductive
<1>. SUFFICES ASSUME Init PROVE Inductive
  OBVIOUS
<1>1. PICK c \in Chunks :
        /\ alloc = {c} /\ begin = c /\ back = c /\ end = c
  BY DEF Init
<1>2. /\ beginPos = 0 /\ backPos = 0 /\ endPos = 1 /\ spare = Null /\ taken = Null
      /\ left = Null /\ cast = Null /\ written = 0 /\ flushed = 0 /\ removed = 0
      /\ wpc = "idle" /\ rpc = "idle" /\ phase = "live" /\ fault = FALSE
      /\ next = [k \in Chunks |-> Garbage] /\ prev = [k \in Chunks |-> Garbage]
      /\ values = [k \in Chunks |-> [i \in 0 .. N - 1 |-> 0]]
  BY DEF Init
<1>3. TypeOK
  <2>1. values \in [Chunks -> [0 .. N - 1 -> 0 .. MaxWrites]] /\ 0 \in 0 .. MaxWrites
    BY <1>2, BoundAssumption
  <2>2. 0 \in 0 .. N /\ 0 \in 0 .. N - 1 /\ 1 \in 0 .. N
    BY NAssumption
  <2>. QED
    BY <1>1, <1>2, <2>1, <2>2 DEF TypeOK, Pointers
<1>4. Places
  BY <1>2, NAssumption DEF Places
<1>. DEFINE f == [i \in Nat |-> c]
<1>5. Chained(f, 0, 0)
  BY <1>1 DEF Chained
<1>6. Positioned(f, 0, 0)
  BY <1>1, <1>2, NAssumption DEF Positioned
<1>7. Filled(f, 0, 0)
  BY <1>2, NAssumption DEF Filled
<1>8. Owned(f, 0, 0)
  BY <1>1, <1>2, NullAssumption DEF Owned, OffChain, CutOff
<1>9. At(f, 0, 0)
  BY <1>2, <1>3, <1>4, <1>5, <1>6, <1>7, <1>8 DEF At, Layout
<1>10. f \in [Nat -> Chunks] /\ 0 \in Nat
  OBVIOUS
<1>. HIDE DEF f
<1>. QED
  BY <1>9, <1>10 DEF Inductive

-----------------------------------------------------------------------------
(* The writer                                                              *)

\* A cell is written into the chunk of the back.
LEMMA WriteAt ==
    ASSUME NEW f \in [Nat -> Chunks], NEW lo \in Nat, NEW hi \in Nat, At(f, lo, hi), Write
    PROVE  At(f, lo, hi)'
<1>. USE DEF readerVars, heapVars, countVars, writerVars
<1>1. TypeOK /\ Places /\ ~fault /\ Layout(f, lo, hi) /\ phase = "live" /\ N \in Nat /\ N >= 2
  BY NAssumption DEF At, Write
<1>. DEFINE b == BackOf(hi)
<1>2. /\ lo <= b /\ b <= hi /\ b \in Nat /\ back = f[b] /\ written = b * N + backPos
  BY <1>1, Ends
<1>3. back \in alloc /\ back \in Chunks
  <2>1. b \in lo .. hi
    BY <1>2
  <2>2. f[b] \in alloc /\ f[b] \in Chunks
    BY <1>1, <1>2, <2>1, Allocated
  <2>. QED
    BY <1>2, <2>2
<1>4. ~fault'
  BY <1>1, <1>3 DEF Write, Touches, Faulty
<1>5. endPos \in 0 .. N - 1 /\ wpc = "idle"
  BY <1>1 DEF Write, Places, TypeOK
<1>6. /\ backPos' = endPos /\ endPos' = endPos + 1 /\ back' = end /\ written' = written + 1
      /\ wpc' = IF endPos + 1 = N THEN "exchange" ELSE "idle"
      /\ values' = [values EXCEPT ![back] = [@ EXCEPT ![backPos] = written + 1]]
      /\ written < MaxWrites
  BY DEF Write
<1>7. /\ UNCHANGED <<end, taken, begin, beginPos, rpc, left, cast, alloc, next, prev, flushed,
                     removed, spare, phase>>
  BY DEF Write
<1>8. TypeOK'
  <2>1. values' \in [Chunks -> [0 .. N - 1 -> 0 .. MaxWrites]] /\ written' \in 0 .. MaxWrites
    <3>1. written + 1 \in 0 .. MaxWrites
      BY <1>1, <1>6, BoundAssumption DEF TypeOK
    <3>. QED
      BY <1>1, <1>6, <3>1 DEF TypeOK
  <2>2. backPos' \in 0 .. N - 1 /\ endPos' \in 0 .. N /\ fault' \in BOOLEAN
    BY <1>1, <1>4, <1>5, <1>6 DEF Write, Touches, TypeOK
  <2>. QED
    BY <1>1, <1>6, <1>7, <2>1, <2>2 DEF TypeOK
<1>9. Places'
  BY <1>1, <1>5, <1>6, <1>7 DEF Places, CutOff
<1>10. Chained(f, lo, hi)'
  BY <1>1, <1>7 DEF Layout, Chained
<1>11. Positioned(f, lo, hi)'
  <2>1. written \in Nat /\ flushed \in Nat /\ hi * N \in Nat /\ written + 1 = hi * N + endPos
    BY <1>1 DEF TypeOK, Layout, Positioned
  <2>2. end = f[hi] /\ f[hi] \in Chunks
    BY <1>1 DEF Layout, Chained
  <2>. QED
    BY <1>1, <1>5, <1>6, <1>7, <2>1, <2>2 DEF Layout, Positioned
<1>12. Filled(f, lo, hi)'
  <2>. SUFFICES ASSUME NEW i \in lo .. hi, NEW p \in 0 .. N - 1,
                       removed <= i * N + p, i * N + p < written + 1
                PROVE  values'[f[i]][p] = i * N + p + 1
    BY <1>6, <1>7 DEF Filled
  <2>1. i * N \in Nat /\ b * N \in Nat /\ written \in Nat /\ backPos \in 0 .. N - 1
    <3>. HIDE DEF b
    <3>1. i \in Nat
      OBVIOUS
    <3>. QED
      BY <1>1, <1>2, <3>1 DEF TypeOK
  <2>2. CASE i * N + p < written
    <3>1. values[f[i]][p] = i * N + p + 1
      BY <1>1, <2>2 DEF Layout, Filled
    <3>2. f[i] = back => p # backPos
      <4>. SUFFICES ASSUME f[i] = f[b] PROVE p # backPos
        BY <1>2
      <4>1. i = b
        BY <1>1, <1>2 DEF Layout, Chained
      <4>. QED
        BY <1>2, <2>1, <2>2, <4>1
    <3>3. CASE f[i] = back
      <4>1. /\ values[back] \in [0 .. N - 1 -> 0 .. MaxWrites]
            /\ values' = [values EXCEPT ![back] = [values[back] EXCEPT ![backPos] = written + 1]]
        BY <1>1, <1>3, <1>6 DEF TypeOK
      <4>2. values'[back] = [values[back] EXCEPT ![backPos] = written + 1]
        BY <1>1, <1>3, <4>1 DEF TypeOK
      <4>. QED
        BY <3>1, <3>2, <3>3, <4>1, <4>2
    <3>4. CASE f[i] # back
      <4>1. i \in Nat /\ f[i] \in Chunks
        OBVIOUS
      <4>2. values'[f[i]] = values[f[i]]
        BY <1>1, <1>6, <3>4, <4>1 DEF TypeOK
      <4>. QED
        BY <3>1, <4>2
    <3>. QED
      BY <3>3, <3>4
  <2>3. CASE i * N + p = written
    <3>1. i <= b
      <4>1. i * N < b * N + N
        BY <1>1, <1>2, <2>1, <2>3
      <4>. QED
        BY <1>2, <4>1, ChunkOrder
    <3>2. b <= i
      <4>1. b * N < i * N + N
        BY <1>1, <1>2, <2>1, <2>3
      <4>. QED
        BY <1>2, <4>1, ChunkOrder
    <3>3. i = b
      BY <1>2, <3>1, <3>2
    <3>4. p = backPos
      BY <1>2, <2>1, <2>3, <3>3
    <3>. QED
      BY <1>1, <1>2, <1>3, <1>6, <2>3, <3>3, <3>4 DEF TypeOK
  <2>. QED
    BY <2>1, <2>2, <2>3
<1>13. Owned(f, lo, hi)'
  BY <1>1, <1>5, <1>6, <1>7 DEF Layout, Owned, OffChain, CutOff
<1>. QED
  BY <1>4, <1>8, <1>9, <1>10, <1>11, <1>12, <1>13 DEF At, Layout

\* The spare chunk goes from the queue into the writer's hands.
LEMMA TakeSpareAt ==
    ASSUME NEW f \in [Nat -> Chunks], NEW lo \in Nat, NEW hi \in Nat, At(f, lo, hi), TakeSpare
    PROVE  At(f, lo, hi)'
<1>. USE DEF readerVars, heapVars, countVars, writerVars
<1>1. TypeOK /\ Places /\ ~fault /\ Layout(f, lo, hi) /\ wpc = "exchange"
  BY DEF At, TakeSpare
<1>2. /\ taken' = spare /\ spare' = Null /\ wpc' = "link"
      /\ UNCHANGED <<back, backPos, end, endPos, begin, beginPos, rpc, left, cast, alloc, next,
                     prev, values, written, flushed, removed, phase, fault>>
  BY DEF TakeSpare
<1>3. TypeOK'
  BY <1>1, <1>2 DEF TypeOK, Pointers
<1>4. Places'
  BY <1>1, <1>2 DEF Places, CutOff
<1>5. (Chained(f, lo, hi) /\ Positioned(f, lo, hi) /\ Filled(f, lo, hi))'
  BY <1>1, <1>2 DEF Layout, Chained, Positioned, Filled
<1>6. Owned(f, lo, hi)'
  <2>1. taken = Null /\ CutOff = Null /\ CutOff' = Null
    BY <1>1, <1>2 DEF Places, CutOff
  <2>2. OffChain' = OffChain
    BY <1>2, <2>1 DEF OffChain
  <2>. QED
    BY <1>1, <1>2, <2>1, <2>2 DEF Layout, Owned
<1>. QED
  BY <1>1, <1>2, <1>3, <1>4, <1>5, <1>6 DEF At, Layout

\* A chunk that is in no other place is linked behind the last one.
LEMMA LinkAt ==
    ASSUME NEW f \in [Nat -> Chunks], NEW lo \in Nat, NEW hi \in Nat, At(f, lo, hi),
           wpc = "link", NEW c \in Chunks, LinkTo(c), alloc' = alloc \cup {c}, ~fault',
           fault' \in BOOLEAN, (c \notin alloc /\ taken = Null) \/ c = taken
    PROVE  At([f EXCEPT ![hi + 1] = c], lo, hi + 1)'
<1>. USE DEF readerVars, heapVars, countVars, writerVars
<1>1. TypeOK /\ Places /\ ~fault /\ Layout(f, lo, hi) /\ N \in Nat /\ N >= 2
  BY NAssumption DEF At
<1>2. phase = "live" /\ endPos = N
  BY <1>1 DEF Places
<1>3. /\ next' = [next EXCEPT ![end] = c] /\ prev' = [prev EXCEPT ![c] = end]
      /\ end' = c /\ endPos' = 0 /\ wpc' = "idle" /\ taken' = Null
      /\ UNCHANGED <<back, backPos, values, begin, beginPos, rpc, left, cast, written, flushed,
                     removed, spare, phase>>
  BY DEF LinkTo
<1>4. /\ lo <= hi /\ begin = f[lo] /\ end = f[hi]
      /\ \A i \in lo .. hi - 1 : next[f[i]] = f[i + 1] /\ prev[f[i + 1]] = f[i]
      /\ \A i, j \in lo .. hi : f[i] = f[j] => i = j
  BY <1>1, <1>2 DEF Layout, Chained, Positioned
<1>5. CutOff = Null /\ CutOff' = Null
  BY <1>3 DEF CutOff
<1>6. \A i \in lo .. hi : f[i] # c
  <2>1. c \in alloc => c \in OffChain
    BY DEF OffChain
  <2>. QED
    BY <1>1, <1>2, <2>1 DEF Layout, Owned
<1>. DEFINE g == [f EXCEPT ![hi + 1] = c]
<1>7. g \in [Nat -> Chunks] /\ g[hi + 1] = c /\ \A i \in lo .. hi : g[i] = f[i]
  BY <1>4
<1>. HIDE DEF g
<1>8. TypeOK'
  <2>1. end \in Pointers /\ c \in Pointers /\ Null \in Pointers /\ 0 \in 0 .. N
    BY <1>1 DEF TypeOK, Pointers
  <2>2. next' \in [Chunks -> Pointers] /\ prev' \in [Chunks -> Pointers]
    BY <1>1, <1>3, <2>1 DEF TypeOK
  <2>3. alloc' \subseteq Chunks
    BY <1>1 DEF TypeOK
  <2>. QED
    BY <1>1, <1>3, <2>1, <2>2, <2>3 DEF TypeOK
<1>9. Places'
  BY <1>1, <1>2, <1>3, <1>5 DEF Places
<1>10. Chained(g, lo, hi + 1)'
  <2>1. \A i \in lo .. (hi + 1) - 1 : next'[g[i]] = g[i + 1]
    <3>. SUFFICES ASSUME NEW i \in lo .. hi PROVE next'[g[i]] = g[i + 1]
      BY <1>4
    <3>1. CASE i = hi
      BY <1>1, <1>3, <1>4, <1>7, <3>1 DEF TypeOK
    <3>2. CASE i # hi
      <4>1. /\ i \in lo .. hi - 1 /\ i + 1 \in lo .. hi /\ hi \in lo .. hi /\ i \in Nat
        BY <1>4, <3>2
      <4>2. f[i] # end /\ next[f[i]] = f[i + 1] /\ f[i] \in Chunks
        BY <1>4, <3>2, <4>1
      <4>3. next'[f[i]] = next[f[i]]
        BY <1>1, <1>3, <4>2 DEF TypeOK
      <4>. QED
        BY <1>7, <4>1, <4>2, <4>3
    <3>. QED
      BY <3>1, <3>2
  <2>2. \A i, j \in lo .. hi + 1 : g[i] = g[j] => i = j
    <3>1. \A i \in lo .. hi + 1 : i = hi + 1 \/ i \in lo .. hi
      BY <1>4
    <3>. QED
      BY <1>4, <1>6, <1>7, <3>1
  <2>3. g[lo] = begin /\ lo <= hi + 1
    BY <1>4, <1>7
  <2>. QED
    BY <1>2, <1>3, <1>7, <2>1, <2>2, <2>3 DEF Chained
<1>11. Positioned(g, lo, hi + 1)'
  <2>1. \A i \in lo .. (hi + 1) - 1 : prev'[g[i + 1]] = g[i]
    <3>. SUFFICES ASSUME NEW i \in lo .. hi PROVE prev'[g[i + 1]] = g[i]
      BY <1>4
    <3>1. CASE i = hi
      BY <1>1, <1>3, <1>4, <1>7, <3>1 DEF TypeOK
    <3>2. CASE i # hi
      <4>1. /\ i \in lo .. hi - 1 /\ i + 1 \in lo .. hi /\ i + 1 \in Nat
        BY <1>4, <3>2
      <4>2. f[i + 1] # c /\ prev[f[i + 1]] = f[i] /\ f[i + 1] \in Chunks
        BY <1>4, <1>6, <4>1
      <4>3. prev'[f[i + 1]] = prev[f[i + 1]]
        BY <1>1, <1>3, <4>2 DEF TypeOK
      <4>. QED
        BY <1>7, <4>1, <4>2, <4>3
    <3>. QED
      BY <3>1, <3>2
  <2>2. (hi + 1) * N = hi * N + N /\ hi * N \in Nat
    BY <1>1
  <2>3. /\ removed = lo * N + beginPos /\ written + 1 = hi * N + N
        /\ removed <= flushed /\ flushed <= written
        /\ back = f[hi] /\ backPos = N - 1
    BY <1>1, <1>2 DEF Layout, Positioned
  <2>4. written + 1 = (hi + 1) * N + 0
    <3>1. \A m, n \in Nat : m = n => m = n + 0
      OBVIOUS
    <3>. QED
      BY <1>1, <2>2, <2>3, <3>1
  <2>5. back = g[(hi + 1) - 1]
    BY <1>4, <1>7, <2>3
  <2>. QED
    BY <1>3, <2>1, <2>3, <2>4, <2>5 DEF Positioned
<1>12. Filled(g, lo, hi + 1)'
  <2>. SUFFICES ASSUME NEW i \in lo .. hi + 1, NEW p \in 0 .. N - 1,
                       removed <= i * N + p, i * N + p < written
                PROVE  values[g[i]][p] = i * N + p + 1
    BY <1>3 DEF Filled
  <2>1. written + 1 = hi * N + N /\ hi * N \in Nat /\ written \in Nat /\ (hi + 1) * N = hi * N + N
    BY <1>1, <1>2 DEF Layout, Positioned, TypeOK
  <2>2. i # hi + 1
    <3>. SUFFICES ASSUME i = hi + 1 PROVE FALSE
      OBVIOUS
    <3>1. i * N = hi * N + N
      BY <2>1
    <3>. QED
      BY <1>1, <2>1, <3>1
  <2>3. i \in lo .. hi
    BY <2>2
  <2>. QED
    BY <1>1, <1>2, <1>7, <2>3 DEF Layout, Filled
<1>13. Owned(g, lo, hi + 1)'
  <2>1. /\ OffChain' = {spare, Null, left, cast} /\ OffChain = {spare, taken, left, cast, Null}
    BY <1>3, <1>5 DEF OffChain
  <2>2. \A x \in Chunks : (\E i \in lo .. hi + 1 : x = g[i]) <=> x = c \/ \E i \in lo .. hi : x = f[i]
    <3>1. \A i \in lo .. hi + 1 : i = hi + 1 \/ i \in lo .. hi
      BY <1>4
    <3>2. hi + 1 \in lo .. hi + 1 /\ \A i \in lo .. hi : i \in lo .. hi + 1
      BY <1>4
    <3>. QED
      BY <1>7, <3>1, <3>2
  <2>3. c \notin OffChain'
    <3>1. c # Null /\ (c \in alloc => c = taken /\ taken # Null)
      BY NullAssumption
    <3>. QED
      BY <1>1, <1>2, <2>1, <3>1 DEF Layout, Owned
  <2>4. \A x \in Chunks : x \in alloc' <=> x \in OffChain' \/ \E i \in lo .. hi + 1 : x = g[i]
    BY <1>1, <1>2, <2>1, <2>2, <2>3, NullAssumption DEF Layout, Owned
  <2>5. \A i \in lo .. hi + 1 : g[i] \notin OffChain'
    <3>1. \A i \in lo .. hi + 1 : i = hi + 1 \/ i \in lo .. hi
      BY <1>4
    <3>2. \A i \in lo .. hi : f[i] \notin OffChain'
      <4>1. Null \in OffChain /\ OffChain' \subseteq OffChain
        BY <2>1
      <4>. QED
        BY <1>1, <1>2, <4>1 DEF Layout, Owned
    <3>. QED
      BY <1>7, <2>3, <3>1, <3>2
  <2>. QED
    BY <1>1, <1>2, <1>3, <1>5, <2>1, <2>4, <2>5 DEF Layout, Owned
<1>. QED
  BY <1>8, <1>9, <1>10, <1>11, <1>12, <1>13 DEF At, Layout, g

LEMMA LinkSpareAt ==
    ASSUME NEW f \in [Nat -> Chunks], NEW lo \in Nat, NEW hi \in Nat, At(f, lo, hi), LinkSpare
    PROVE  Inductive'
<1>1. /\ wpc = "link" /\ taken # Null /\ alloc' = alloc /\ LinkTo(taken)
      /\ fault' = (fault \/ Faulty(end) \/ Faulty(taken))
  BY DEF LinkSpare
<1>2. phase = "live" /\ ~fault
  BY <1>1 DEF At, Places
<1>3. lo <= hi /\ end = f[hi]
  BY <1>2 DEF At, Layout, Chained
<1>4. end \in alloc /\ taken \in alloc /\ taken \in Chunks
  <2>1. hi \in lo .. hi
    BY <1>3
  <2>2. taken \in OffChain /\ OffChain \subseteq Chunks \cup {Null}
    BY DEF OffChain, At, Layout, Owned
  <2>. QED
    BY <1>1, <1>2, <1>3, <2>1, <2>2, Allocated
<1>5. ~fault' /\ fault' \in BOOLEAN
  BY <1>1, <1>2, <1>4 DEF Faulty
<1>6. PICK c \in Chunks : c = taken
  BY <1>4
<1>7. alloc' = alloc \cup {c} /\ LinkTo(c)
  BY <1>1, <1>4, <1>6
<1>8. At([f EXCEPT ![hi + 1] = c], lo, hi + 1)'
  BY <1>1, <1>5, <1>6, <1>7, LinkAt
<1>9. [f EXCEPT ![hi + 1] = c] \in [Nat -> Chunks] /\ hi + 1 \in Nat
  OBVIOUS
<1>. QED
  BY <1>8, <1>9 DEF Inductive

LEMMA LinkNewAt ==
    ASSUME NEW f \in [Nat -> Chunks], NEW lo \in Nat, NEW hi \in Nat, At(f, lo, hi), LinkNew
    PROVE  Inductive'
<1>1. PICK c \in Chunks \ alloc : alloc' = alloc \cup {c} /\ LinkTo(c)
  BY DEF LinkNew
<1>2. wpc = "link" /\ taken = Null /\ fault' = (fault \/ Faulty(end))
  BY DEF LinkNew, Touches
<1>3. phase = "live" /\ ~fault
  BY <1>2 DEF At, Places
<1>4. lo <= hi /\ end = f[hi]
  BY <1>3 DEF At, Layout, Chained
<1>5. end \in alloc
  <2>1. hi \in lo .. hi
    BY <1>4
  <2>. QED
    BY <1>3, <1>4, <2>1, Allocated
<1>6. ~fault' /\ fault' \in BOOLEAN
  BY <1>2, <1>3, <1>5 DEF Faulty
<1>7. At([f EXCEPT ![hi + 1] = c], lo, hi + 1)'
  BY <1>1, <1>2, <1>6, LinkAt
<1>8. [f EXCEPT ![hi + 1] = c] \in [Nat -> Chunks] /\ hi + 1 \in Nat
  BY <1>1
<1>. QED
  BY <1>7, <1>8 DEF Inductive

\* What is written becomes visible.
LEMMA FlushAt ==
    ASSUME NEW f \in [Nat -> Chunks], NEW lo \in Nat, NEW hi \in Nat, At(f, lo, hi), Flush
    PROVE  At(f, lo, hi)'
<1>. USE DEF readerVars, heapVars, countVars, writerVars
<1>1. /\ flushed' = written /\ flushed < written
      /\ UNCHANGED <<back, backPos, end, endPos, wpc, taken, begin, beginPos, rpc, left, cast,
                     alloc, next, prev, values, written, removed, spare, phase, fault>>
  BY DEF Flush
<1>2. TypeOK /\ Places /\ ~fault /\ Layout(f, lo, hi)
  BY DEF At
<1>3. TypeOK'
  BY <1>1, <1>2 DEF TypeOK
<1>4. Places'
  BY <1>1, <1>2 DEF Places, CutOff
<1>5. Positioned(f, lo, hi)'
  <2>1. written \in Nat /\ flushed \in Nat /\ removed \in Nat
    BY <1>2 DEF TypeOK
  <2>. QED
    BY <1>1, <1>2, <2>1 DEF Layout, Positioned
<1>6. (Chained(f, lo, hi) /\ Filled(f, lo, hi))'
  BY <1>1, <1>2 DEF Layout, Chained, Filled
<1>7. Owned(f, lo, hi)'
  BY <1>1, <1>2 DEF Layout, Owned, OffChain, CutOff
<1>. QED
  BY <1>1, <1>2, <1>3, <1>4, <1>5, <1>6, <1>7 DEF At, Layout

\* The last cell is taken back; the last chunk, if it is not needed any more, is
\* no longer part of the queue.
LEMMA UnwriteAt ==
    ASSUME NEW f \in [Nat -> Chunks], NEW lo \in Nat, NEW hi \in Nat, At(f, lo, hi), Unwrite
    PROVE  \E b \in Nat : At(f, lo, b)'
<1>. USE DEF readerVars, heapVars, countVars, writerVars
<1>1. TypeOK /\ Places /\ ~fault /\ Layout(f, lo, hi) /\ phase = "live" /\ N \in Nat /\ N >= 2
  BY NAssumption DEF At, Unwrite
<1>2. PICK b \in Nat : b = BackOf(hi)
  BY <1>1, Ends
<1>3. /\ flushed < written /\ wpc = "idle"
      /\ fault' = (fault \/ (backPos = 0 /\ Faulty(back)) \/ (endPos = 0 /\ Faulty(end)))
      /\ back' = IF backPos = 0 THEN prev[back] ELSE back
      /\ backPos' = IF backPos = 0 THEN N - 1 ELSE backPos - 1
      /\ end' = IF endPos = 0 THEN prev[end] ELSE end
      /\ endPos' = IF endPos = 0 THEN N - 1 ELSE endPos - 1
      /\ written' = written - 1
      /\ wpc' = IF endPos = 0 THEN "cut" ELSE "idle"
      /\ UNCHANGED <<taken, begin, beginPos, rpc, left, cast, alloc, next, prev, values, flushed,
                     removed, spare, phase>>
  BY DEF Unwrite
<1>4. /\ lo <= b /\ b <= hi /\ back = f[b] /\ written = b * N + backPos
      /\ endPos = 0 => lo < hi /\ b = hi - 1
      /\ endPos # 0 => b = hi
      /\ backPos = 0 => lo < b
  <2>1. b = IF endPos = 0 THEN hi - 1 ELSE hi
    BY <1>2 DEF BackOf
  <2>. QED
    BY <1>1, <1>2, <1>3, <2>1, Ends
<1>5. /\ begin = f[lo] /\ end = f[hi]
      /\ \A i \in lo .. hi - 1 : next[f[i]] = f[i + 1] /\ prev[f[i + 1]] = f[i]
      /\ \A i, j \in lo .. hi : f[i] = f[j] => i = j
      /\ removed = lo * N + beginPos /\ written + 1 = hi * N + endPos
      /\ removed <= flushed
  BY <1>1 DEF Layout, Chained, Positioned
<1>6. /\ written \in Nat /\ flushed \in Nat /\ removed \in Nat /\ endPos \in 0 .. N - 1
      /\ backPos \in 0 .. N - 1 /\ b * N \in Nat /\ hi * N \in Nat
  BY <1>1, <1>3 DEF TypeOK, Places
<1>7. end' = f[b]
  <2>1. CASE endPos = 0
    <3>1. hi - 1 \in lo .. hi - 1 /\ (hi - 1) + 1 = hi
      BY <1>4, <2>1
    <3>. QED
      BY <1>3, <1>4, <1>5, <2>1, <3>1
  <2>2. CASE endPos # 0
    BY <1>3, <1>4, <1>5, <2>2
  <2>. QED
    BY <2>1, <2>2
<1>8. back' = IF backPos = 0 THEN f[b - 1] ELSE f[b]
  <2>1. CASE backPos = 0
    <3>1. b - 1 \in lo .. hi - 1 /\ (b - 1) + 1 = b
      BY <1>4, <2>1
    <3>. QED
      BY <1>3, <1>4, <1>5, <2>1, <3>1
  <2>2. CASE backPos # 0
    BY <1>3, <1>4, <2>2
  <2>. QED
    BY <2>1, <2>2
<1>9. endPos' = backPos
  <2>1. CASE endPos = 0
    BY <1>1, <1>3, <2>1 DEF Layout, Positioned
  <2>2. CASE endPos # 0
    BY <1>1, <1>3, <2>2 DEF Layout, Positioned
  <2>. QED
    BY <2>1, <2>2
<1>10. ~fault' /\ fault' \in BOOLEAN
  <2>1. b \in lo .. hi /\ hi \in lo .. hi
    BY <1>4
  <2>2. back \in alloc /\ end \in alloc
    BY <1>1, <1>4, <1>5, <2>1, Allocated
  <2>. QED
    BY <1>1, <1>3, <2>2 DEF Faulty
<1>11. TypeOK'
  <2>1. back' \in Pointers /\ end' \in Pointers
    <3>1. b \in Nat /\ (backPos = 0 => b - 1 \in Nat)
      BY <1>4
    <3>. QED
      BY <1>7, <1>8, <3>1 DEF Pointers
  <2>2. written' \in 0 .. MaxWrites
    BY <1>1, <1>3, <1>6, BoundAssumption DEF TypeOK
  <2>3. backPos' \in 0 .. N - 1 /\ endPos' \in 0 .. N
    BY <1>1, <1>3, <1>6, <1>9
  <2>. QED
    BY <1>1, <1>3, <1>10, <2>1, <2>2, <2>3 DEF TypeOK
<1>12. endPos = 0 => next'[end'] = end /\ end \in Chunks
  <2>. SUFFICES ASSUME endPos = 0 PROVE next'[end'] = end /\ end \in Chunks
    OBVIOUS
  <2>1. b \in lo .. hi - 1 /\ b + 1 = hi
    BY <1>4
  <2>. QED
    BY <1>3, <1>5, <1>7, <2>1
<1>13. Places'
  BY <1>1, <1>3, <1>6, <1>12, NullAssumption DEF Places, CutOff
<1>14. Chained(f, lo, b)'
  <2>1. /\ \A i \in lo .. b - 1 : i \in lo .. hi - 1
        /\ \A i \in lo .. b : i \in lo .. hi
    BY <1>4
  <2>. QED
    BY <1>3, <1>4, <1>5, <1>7, <2>1 DEF Chained
<1>15. Positioned(f, lo, b)'
  <2>1. \A i \in lo .. b - 1 : i \in lo .. hi - 1
    BY <1>4
  <2>2. \A i \in lo .. b - 1 : prev'[f[i + 1]] = f[i]
    BY <1>3, <1>5, <2>1
  <2>3. written' + 1 = b * N + endPos'
    BY <1>3, <1>4, <1>6, <1>9
  <2>4. removed' <= flushed' /\ flushed' <= written' /\ removed' = lo * N + beginPos'
    BY <1>3, <1>5, <1>6
  <2>5. IF endPos' = 0 THEN back' = f[b - 1] /\ backPos' = N - 1
                       ELSE back' = f[b] /\ backPos' = endPos' - 1
    BY <1>3, <1>6, <1>8, <1>9
  <2>. QED
    BY <2>2, <2>3, <2>4, <2>5 DEF Positioned
<1>16. Filled(f, lo, b)'
  <2>. SUFFICES ASSUME NEW i \in lo .. b, NEW p \in 0 .. N - 1,
                       removed <= i * N + p, i * N + p < written - 1
                PROVE  values[f[i]][p] = i * N + p + 1
    BY <1>3 DEF Filled
  <2>1. i \in lo .. hi /\ i * N \in Nat
    BY <1>1, <1>4
  <2>2. i * N + p < written
    BY <1>1, <1>6, <2>1
  <2>. QED
    BY <1>1, <2>1, <2>2 DEF Layout, Filled
<1>17. Owned(f, lo, b)'
  <2>1. CutOff = Null
    BY <1>3 DEF CutOff
  <2>2. CASE endPos = 0
    <3>1. CutOff' = end /\ end = f[hi] /\ b = hi - 1 /\ end \in Chunks /\ end # Null
      BY <1>3, <1>4, <1>5, <1>12, <2>2, NullAssumption DEF CutOff
    <3>2. OffChain' = {spare, taken, left, cast, end} /\ OffChain = {spare, taken, left, cast, Null}
      BY <1>3, <2>1, <3>1 DEF OffChain
    <3>3. \A x \in Chunks : (\E i \in lo .. hi : x = f[i]) <=> x = end \/ \E i \in lo .. b : x = f[i]
      <4>1. \A i \in lo .. hi : i = hi \/ i \in lo .. b
        BY <3>1
      <4>2. hi \in lo .. hi /\ \A i \in lo .. b : i \in lo .. hi
        BY <1>4
      <4>. QED
        BY <3>1, <4>1, <4>2
    <3>4. \A i \in lo .. b : f[i] # end /\ i \in lo .. hi
      <4>1. \A i \in lo .. b : i \in lo .. hi /\ i # hi /\ hi \in lo .. hi
        BY <1>4, <3>1
      <4>. QED
        BY <1>5, <4>1
    <3>5. end \notin {spare, taken, left, cast}
      <4>1. hi \in lo .. hi
        BY <1>4
      <4>2. end \notin OffChain
        BY <1>1, <1>5, <4>1 DEF Layout, Owned
      <4>. QED
        BY <4>2 DEF OffChain
    <3>6. \A x \in Chunks : x \in alloc' <=> x \in OffChain' \/ \E i \in lo .. b : x = f[i]
      BY <1>1, <1>3, <3>2, <3>3, NullAssumption DEF Layout, Owned
    <3>7. \A i \in lo .. b : f[i] \notin OffChain'
      BY <1>1, <3>2, <3>4 DEF Layout, Owned
    <3>. QED
      BY <1>1, <1>3, <2>1, <3>1, <3>2, <3>5, <3>6, <3>7 DEF Layout, Owned
  <2>3. CASE endPos # 0
    <3>1. b = hi /\ CutOff' = Null
      BY <1>3, <1>4, <2>3 DEF CutOff
    <3>2. OffChain' = OffChain
      BY <1>3, <2>1, <3>1 DEF OffChain
    <3>. QED
      BY <1>1, <1>3, <2>1, <3>1, <3>2 DEF Layout, Owned
  <2>. QED
    BY <2>2, <2>3
<1>18. At(f, lo, b)'
  BY <1>10, <1>11, <1>13, <1>14, <1>15, <1>16, <1>17 DEF At, Layout
<1>. QED
  BY <1>18

\* The chunk cut off is freed.
LEMMA CutEndAt ==
    ASSUME NEW f \in [Nat -> Chunks], NEW lo \in Nat, NEW hi \in Nat, At(f, lo, hi), CutEnd
    PROVE  At(f, lo, hi)'
<1>. USE DEF readerVars, heapVars, countVars, writerVars
<1>1. TypeOK /\ Places /\ ~fault /\ Layout(f, lo, hi) /\ wpc = "cut" /\ N \in Nat /\ N >= 2
  BY NAssumption DEF At, CutEnd
<1>2. phase = "live" /\ endPos = N - 1 /\ CutOff = next[end] /\ CutOff # Null
  BY <1>1 DEF Places, CutOff
<1>3. PICK c : c = next[end]
  OBVIOUS
<1>4. c \in OffChain /\ c \in Chunks /\ c \in alloc
  BY <1>1, <1>2, <1>3 DEF Layout, Owned, OffChain
<1>5. /\ alloc' = alloc \ {c}
      /\ fault' = (fault \/ Faulty(end) \/ Faulty(c))
      /\ next' = [x \in Chunks |-> IF x = end THEN Null ELSE IF x = c THEN Garbage ELSE next[x]]
      /\ prev' = [x \in Chunks |-> IF x = c THEN Garbage ELSE prev[x]]
      /\ values' = [x \in Chunks |-> IF x = c THEN [i \in 0 .. N - 1 |-> 0] ELSE values[x]]
      /\ wpc' = "idle"
      /\ UNCHANGED <<back, backPos, end, endPos, taken, begin, beginPos, rpc, left, cast,
                     written, flushed, removed, spare, phase>>
  BY <1>3 DEF CutEnd
<1>6. /\ lo <= hi /\ begin = f[lo] /\ end = f[hi]
      /\ \A i \in lo .. hi - 1 : next[f[i]] = f[i + 1] /\ prev[f[i + 1]] = f[i]
      /\ \A i, j \in lo .. hi : f[i] = f[j] => i = j
  BY <1>1, <1>2 DEF Layout, Chained, Positioned
<1>7. \A i \in lo .. hi : f[i] # c /\ f[i] \in Chunks
  BY <1>1, <1>2, <1>4 DEF Layout, Owned
<1>8. hi \in lo .. hi /\ end # c /\ end \in alloc
  BY <1>1, <1>2, <1>6, <1>7, Allocated
<1>9. ~fault' /\ fault' \in BOOLEAN
  BY <1>1, <1>4, <1>5, <1>8 DEF Faulty
<1>10. TypeOK'
  <2>1. next' \in [Chunks -> Pointers] /\ prev' \in [Chunks -> Pointers]
    BY <1>1, <1>5 DEF TypeOK, Pointers
  <2>2. values' \in [Chunks -> [0 .. N - 1 -> 0 .. MaxWrites]]
    <3>1. [i \in 0 .. N - 1 |-> 0] \in [0 .. N - 1 -> 0 .. MaxWrites]
      BY BoundAssumption
    <3>2. \A x \in Chunks : values[x] \in [0 .. N - 1 -> 0 .. MaxWrites]
      BY <1>1 DEF TypeOK
    <3>. QED
      BY <1>5, <3>1, <3>2
  <2>. QED
    BY <1>1, <1>5, <1>9, <2>1, <2>2 DEF TypeOK
<1>11. Places'
  BY <1>1, <1>2, <1>5 DEF Places, CutOff
<1>12. Chained(f, lo, hi)'
  <2>1. \A i \in lo .. hi - 1 : next'[f[i]] = f[i + 1]
    <3>. SUFFICES ASSUME NEW i \in lo .. hi - 1 PROVE next'[f[i]] = f[i + 1]
      OBVIOUS
    <3>1. i \in lo .. hi /\ i # hi
      OBVIOUS
    <3>2. f[i] # end /\ f[i] # c /\ f[i] \in Chunks
      BY <1>6, <1>7, <1>8, <3>1
    <3>. QED
      BY <1>5, <1>6, <3>2
  <2>. QED
    BY <1>5, <1>6, <2>1 DEF Chained
<1>13. Positioned(f, lo, hi)'
  <2>1. \A i \in lo .. hi - 1 : prev'[f[i + 1]] = f[i]
    <3>. SUFFICES ASSUME NEW i \in lo .. hi - 1 PROVE prev'[f[i + 1]] = f[i]
      OBVIOUS
    <3>1. i + 1 \in lo .. hi
      OBVIOUS
    <3>2. f[i + 1] # c /\ f[i + 1] \in Chunks
      BY <1>7, <3>1
    <3>. QED
      BY <1>5, <1>6, <3>2
  <2>. QED
    BY <1>1, <1>2, <1>5, <2>1 DEF Layout, Positioned
<1>14. Filled(f, lo, hi)'
  <2>1. \A i \in lo .. hi : values'[f[i]] = values[f[i]]
    BY <1>5, <1>7
  <2>. QED
    BY <1>1, <1>2, <1>5, <2>1, ZenonT(60) DEF Layout, Filled
<1>15. Owned(f, lo, hi)'
  <2>1. OffChain = {spare, taken, left, cast, c} /\ OffChain' = {spare, taken, left, cast, Null}
    BY <1>2, <1>3, <1>5 DEF OffChain, CutOff
  <2>2. c \notin {spare, taken, left, cast}
    BY <1>1, <1>2, <1>3, <1>4, NullAssumption DEF Layout, Owned
  <2>3. \A x \in Chunks : x \in alloc' <=> x \in OffChain' \/ \E i \in lo .. hi : x = f[i]
    BY <1>1, <1>2, <1>5, <1>7, <2>1, <2>2, NullAssumption DEF Layout, Owned
  <2>4. \A i \in lo .. hi : f[i] \notin OffChain'
    BY <1>1, <1>2, <1>7, <2>1, NullAssumption DEF Layout, Owned
  <2>5. CutOff' = Null
    BY <1>5 DEF CutOff
  <2>. QED
    BY <1>1, <1>2, <1>5, <2>1, <2>3, <2>4, <2>5 DEF Layout, Owned
<1>. QED
  BY <1>9, <1>10, <1>11, <1>12, <1>13, <1>14, <1>15 DEF At, Layout

-----------------------------------------------------------------------------
(* The reader                                                              *)

LEMMA ReadAt ==
    ASSUME NEW f \in [Nat -> Chunks], NEW lo \in Nat, NEW hi \in Nat, At(f, lo, hi), Read
    PROVE  At(f, lo, hi)'
<1>. USE DEF readerVars, heapVars, countVars, writerVars
<1>1. TypeOK /\ Places /\ ~fault /\ Layout(f, lo, hi) /\ phase = "live" /\ N \in Nat /\ N >= 2
  BY NAssumption DEF At, Read
<1>2. /\ rpc = "idle" /\ removed < flushed /\ fault' = (fault \/ Faulty(begin))
      /\ removed' = removed + 1 /\ beginPos' = beginPos + 1
      /\ rpc' = IF beginPos + 1 = N THEN "step" ELSE "idle"
      /\ UNCHANGED <<begin, left, cast, back, backPos, end, endPos, wpc, taken, alloc, next, prev,
                     values, written, flushed, spare, phase>>
  BY DEF Read, Touches
<1>3. /\ removed \in Nat /\ flushed \in 0 .. MaxWrites /\ beginPos \in 0 .. N - 1
      /\ lo * N \in Nat
  BY <1>1, <1>2 DEF TypeOK, Places
<1>4. ~fault' /\ fault' \in BOOLEAN
  <2>1. lo \in lo .. hi /\ begin = f[lo]
    BY <1>1 DEF Layout, Chained
  <2>. QED
    BY <1>1, <1>2, <2>1, Allocated DEF Faulty
<1>5. TypeOK'
  <2>1. removed' \in 0 .. MaxWrites /\ beginPos' \in 0 .. N
    BY <1>1, <1>2, <1>3, BoundAssumption
  <2>. QED
    BY <1>1, <1>2, <1>4, <2>1 DEF TypeOK
<1>6. Places'
  BY <1>1, <1>2, <1>3 DEF Places, CutOff
<1>7. Chained(f, lo, hi)'
  BY <1>1, <1>2 DEF Layout, Chained
<1>8. Positioned(f, lo, hi)'
  <2>1. removed' = lo * N + beginPos'
    BY <1>1, <1>2, <1>3 DEF Layout, Positioned
  <2>2. removed' <= flushed'
    BY <1>2, <1>3
  <2>. QED
    BY <1>1, <1>2, <2>1, <2>2 DEF Layout, Positioned
<1>9. Filled(f, lo, hi)'
  <2>. SUFFICES ASSUME NEW i \in lo .. hi, NEW p \in 0 .. N - 1,
                       removed + 1 <= i * N + p, i * N + p < written
                PROVE  values[f[i]][p] = i * N + p + 1
    BY <1>2 DEF Filled
  <2>1. i * N \in Nat
    BY <1>1
  <2>2. removed <= i * N + p
    BY <1>3, <2>1
  <2>. QED
    BY <1>1, <2>2 DEF Layout, Filled
<1>10. Owned(f, lo, hi)'
  BY <1>1, <1>2 DEF Layout, Owned, OffChain, CutOff
<1>. QED
  BY <1>4, <1>5, <1>6, <1>7, <1>8, <1>9, <1>10 DEF At, Layout

\* The reader leaves a chunk: there is a next one.
LEMMA StepOverAt ==
    ASSUME NEW f \in [Nat -> Chunks], NEW lo \in Nat, NEW hi \in Nat, At(f, lo, hi), StepOver
    PROVE  At(f, lo + 1, hi)'
<1>. USE DEF readerVars, heapVars, countVars, writerVars
<1>1. /\ TypeOK /\ Places /\ ~fault /\ Layout(f, lo, hi) /\ N \in Nat /\ N >= 2
      /\ rpc = "step"
  BY NAssumption DEF At, StepOver
<1>2. phase = "live" /\ beginPos = N /\ left = Null
  BY <1>1 DEF Places
<1>3. /\ fault' = (fault \/ Faulty(begin))
      /\ left' = begin /\ begin' = next[begin] /\ beginPos' = 0 /\ rpc' = "detach"
      /\ UNCHANGED <<cast, back, backPos, end, endPos, wpc, taken, alloc, next, prev, values,
                     written, flushed, removed, spare, phase>>
  BY DEF StepOver, Touches
<1>4. lo < hi
  BY <1>1, <1>2, Ends
<1>5. /\ begin = f[lo] /\ end = f[hi]
      /\ \A i \in lo .. hi - 1 : next[f[i]] = f[i + 1] /\ prev[f[i + 1]] = f[i]
      /\ \A i, j \in lo .. hi : f[i] = f[j] => i = j
  BY <1>1, <1>2 DEF Layout, Chained, Positioned
<1>6. lo \in lo .. hi - 1 /\ lo \in lo .. hi /\ lo + 1 \in Nat /\ \A i \in lo + 1 .. hi : i \in lo .. hi
  BY <1>4
<1>7. begin' = f[lo + 1] /\ begin' \in Chunks /\ begin \in Chunks /\ begin \in alloc
  BY <1>1, <1>2, <1>3, <1>5, <1>6, Allocated
<1>8. ~fault' /\ fault' \in BOOLEAN
  BY <1>1, <1>3, <1>7 DEF Faulty
<1>9. TypeOK'
  <2>1. begin' \in Pointers /\ left' \in Pointers /\ 0 \in 0 .. N
    BY <1>1, <1>3, <1>7 DEF Pointers
  <2>. QED
    BY <1>1, <1>3, <1>8, <2>1 DEF TypeOK
<1>10. Places'
  BY <1>1, <1>2, <1>3, <1>7, NullAssumption DEF Places, CutOff
<1>11. Chained(f, lo + 1, hi)'
  <2>1. \A i \in lo + 1 .. hi - 1 : i \in lo .. hi - 1
    OBVIOUS
  <2>. QED
    BY <1>3, <1>4, <1>5, <1>6, <1>7, <2>1 DEF Chained
<1>12. Positioned(f, lo + 1, hi)'
  <2>1. \A i \in lo + 1 .. hi - 1 : i \in lo .. hi - 1
    OBVIOUS
  <2>2. removed = (lo + 1) * N + 0
    <3>1. (lo + 1) * N = lo * N + N /\ lo * N \in Nat
      BY <1>1
    <3>2. removed = lo * N + N
      BY <1>1, <1>2 DEF Layout, Positioned
    <3>. QED
      BY <1>1, <3>1, <3>2
  <2>3. \A i \in lo + 1 .. hi - 1 : prev'[f[i + 1]] = f[i]
    BY <1>3, <1>5, <2>1
  <2>4. removed' = (lo + 1) * N + beginPos'
    BY <1>3, <2>2
  <2>. QED
    BY <1>1, <1>2, <1>3, <2>3, <2>4 DEF Layout, Positioned
<1>13. Filled(f, lo + 1, hi)'
  BY <1>1, <1>3, <1>6 DEF Layout, Filled
<1>14. Owned(f, lo + 1, hi)'
  <2>1. /\ OffChain = {spare, taken, Null, cast, CutOff}
        /\ OffChain' = {spare, taken, begin, cast, CutOff}
        /\ CutOff' = CutOff
    BY <1>2, <1>3 DEF OffChain, CutOff
  <2>2. begin \notin {spare, taken, cast, CutOff}
    BY <1>1, <1>2, <1>5, <1>6, <2>1 DEF Layout, Owned
  <2>3. \A i \in lo + 1 .. hi : f[i] # begin
    <3>1. \A i \in lo + 1 .. hi : i # lo
      OBVIOUS
    <3>. QED
      BY <1>5, <1>6, <3>1
  <2>4. \A x \in Chunks : (\E i \in lo .. hi : x = f[i]) <=> x = begin \/ \E i \in lo + 1 .. hi : x = f[i]
    <3>1. \A i \in lo .. hi : i = lo \/ i \in lo + 1 .. hi
      OBVIOUS
    <3>. QED
      BY <1>5, <1>6, <3>1
  <2>5. \A x \in Chunks : x \in alloc' <=> x \in OffChain' \/ \E i \in lo + 1 .. hi : x = f[i]
    BY <1>1, <1>2, <1>3, <2>1, <2>4, NullAssumption DEF Layout, Owned
  <2>6. \A i \in lo + 1 .. hi : f[i] \notin OffChain'
    BY <1>1, <1>2, <1>6, <2>1, <2>3 DEF Layout, Owned
  <2>7. OffChain' \subseteq Chunks \cup {Null}
    BY <1>1, <1>7, <2>1 DEF Layout, Owned
  <2>8. /\ spare # Null => spare \notin {taken, begin, cast, CutOff}
        /\ taken # Null => taken \notin {begin, cast, CutOff}
        /\ cast # Null => cast # CutOff
    BY <1>1, <2>2 DEF Layout, Owned
  <2>. QED
    BY <1>2, <1>3, <2>1, <2>2, <2>5, <2>6, <2>7, <2>8 DEF Owned
<1>. QED
  BY <1>8, <1>9, <1>10, <1>11, <1>12, <1>13, <1>14 DEF At, Layout

\* The new front chunk has no previous one.
LEMMA DetachAt ==
    ASSUME NEW f \in [Nat -> Chunks], NEW lo \in Nat, NEW hi \in Nat, At(f, lo, hi), Detach
    PROVE  At(f, lo, hi)'
<1>. USE DEF readerVars, heapVars, countVars, writerVars
<1>1. TypeOK /\ Places /\ ~fault /\ Layout(f, lo, hi) /\ rpc = "detach"
  BY DEF At, Detach
<1>2. phase = "live" /\ beginPos = 0
  BY <1>1 DEF Places
<1>3. /\ fault' = (fault \/ Faulty(begin)) /\ prev' = [prev EXCEPT ![begin] = Null]
      /\ rpc' = "give"
      /\ UNCHANGED <<begin, beginPos, left, cast, back, backPos, end, endPos, wpc, taken, alloc,
                     next, values, written, flushed, removed, spare, phase>>
  BY DEF Detach, Touches
<1>4. /\ lo <= hi /\ begin = f[lo]
      /\ \A i \in lo .. hi - 1 : prev[f[i + 1]] = f[i]
      /\ \A i, j \in lo .. hi : f[i] = f[j] => i = j
  BY <1>1, <1>2 DEF Layout, Chained, Positioned
<1>5. lo \in lo .. hi /\ begin \in alloc /\ begin \in Chunks
  BY <1>1, <1>2, <1>4, Allocated
<1>6. ~fault' /\ fault' \in BOOLEAN
  BY <1>1, <1>3, <1>5 DEF Faulty
<1>7. TypeOK'
  BY <1>1, <1>3, <1>5, <1>6 DEF TypeOK, Pointers
<1>8. Places'
  BY <1>1, <1>2, <1>3 DEF Places, CutOff
<1>9. Positioned(f, lo, hi)'
  <2>. SUFFICES \A i \in lo .. hi - 1 : prev'[f[i + 1]] = f[i]
    BY <1>1, <1>2, <1>3 DEF Layout, Positioned
  <2>. SUFFICES ASSUME NEW i \in lo .. hi - 1 PROVE prev'[f[i + 1]] = f[i]
    OBVIOUS
  <2>1. i + 1 \in lo .. hi /\ i + 1 # lo
    OBVIOUS
  <2>2. f[i + 1] # begin /\ f[i + 1] \in Chunks
    BY <1>4, <1>5, <2>1
  <2>. QED
    BY <1>1, <1>3, <1>4, <2>2 DEF TypeOK
<1>10. (Chained(f, lo, hi) /\ Filled(f, lo, hi))'
  BY <1>1, <1>3 DEF Layout, Chained, Filled
<1>11. Owned(f, lo, hi)'
  BY <1>1, <1>3 DEF Layout, Owned, OffChain, CutOff
<1>. QED
  BY <1>6, <1>7, <1>8, <1>9, <1>10, <1>11 DEF At, Layout

\* The chunk left behind becomes the spare one, and the spare one the reader's.
LEMMA GiveSpareAt ==
    ASSUME NEW f \in [Nat -> Chunks], NEW lo \in Nat, NEW hi \in Nat, At(f, lo, hi), GiveSpare
    PROVE  At(f, lo, hi)'
<1>. USE DEF readerVars, heapVars, countVars, writerVars
<1>1. TypeOK /\ Places /\ ~fault /\ Layout(f, lo, hi) /\ rpc = "give"
  BY DEF At, GiveSpare
<1>2. phase = "live" /\ beginPos = 0 /\ cast = Null
  BY <1>1 DEF Places
<1>3. /\ cast' = spare /\ spare' = left /\ left' = Null /\ rpc' = "free"
      /\ UNCHANGED <<begin, beginPos, back, backPos, end, endPos, wpc, taken, alloc, next, prev,
                     values, written, flushed, removed, phase, fault>>
  BY DEF GiveSpare
<1>4. TypeOK'
  BY <1>1, <1>3 DEF TypeOK, Pointers
<1>5. Places'
  BY <1>1, <1>2, <1>3 DEF Places, CutOff
<1>6. (Chained(f, lo, hi) /\ Positioned(f, lo, hi) /\ Filled(f, lo, hi))'
  BY <1>1, <1>3 DEF Layout, Chained, Positioned, Filled
<1>7. Owned(f, lo, hi)'
  <2>1. /\ OffChain' = OffChain /\ CutOff' = CutOff
    BY <1>2, <1>3 DEF OffChain, CutOff
  <2>. QED
    BY <1>1, <1>2, <1>3, <2>1 DEF Layout, Owned
<1>. QED
  BY <1>1, <1>3, <1>4, <1>5, <1>6, <1>7 DEF At, Layout

-----------------------------------------------------------------------------
(* What is freed                                                           *)

LEMMA FreeEffect ==
    ASSUME TypeOK, ~fault, NEW c \in Chunks \cup {Null}, c # Null => c \in alloc, Free(c)
    PROVE  /\ alloc' = alloc \ {c} /\ alloc' \subseteq Chunks
           /\ ~fault' /\ fault' \in BOOLEAN
           /\ next' \in [Chunks -> Pointers] /\ prev' \in [Chunks -> Pointers]
           /\ values' \in [Chunks -> [0 .. N - 1 -> 0 .. MaxWrites]]
           /\ \A x \in Chunks : x # c =>
                 next'[x] = next[x] /\ prev'[x] = prev[x] /\ values'[x] = values[x]
<1>1. alloc' = alloc \ {c} /\ alloc' \subseteq Chunks /\ ~fault' /\ fault' \in BOOLEAN
  BY DEF Free, Faulty, TypeOK
<1>2. next' \in [Chunks -> Pointers] /\ prev' \in [Chunks -> Pointers]
  BY DEF Free, TypeOK, Pointers
<1>3. values' \in [Chunks -> [0 .. N - 1 -> 0 .. MaxWrites]]
  <2>1. [i \in 0 .. N - 1 |-> 0] \in [0 .. N - 1 -> 0 .. MaxWrites]
    BY BoundAssumption
  <2>2. \A x \in Chunks : values[x] \in [0 .. N - 1 -> 0 .. MaxWrites]
    BY DEF TypeOK
  <2>. QED
    BY <2>1, <2>2 DEF Free
<1>. QED
  BY <1>1, <1>2, <1>3 DEF Free

\* The reader frees the chunk it got back, if it got one.
LEMMA FreeCastAt ==
    ASSUME NEW f \in [Nat -> Chunks], NEW lo \in Nat, NEW hi \in Nat, At(f, lo, hi), FreeCast
    PROVE  At(f, lo, hi)'
<1>. USE DEF readerVars, countVars, writerVars
<1>1. TypeOK /\ Places /\ ~fault /\ Layout(f, lo, hi) /\ rpc = "free"
  BY DEF At, FreeCast
<1>2. phase = "live" /\ beginPos = 0 /\ left = Null
  BY <1>1 DEF Places
<1>3. PICK c : c = cast
  OBVIOUS
<1>4. c \in OffChain /\ c \in Chunks \cup {Null} /\ (c # Null => c \in alloc)
  <2>1. cast \in OffChain /\ OffChain \subseteq Chunks \cup {Null}
    BY <1>1 DEF Layout, Owned, OffChain
  <2>. QED
    BY <1>3, <2>1, Allocated
<1>5. /\ Free(c) /\ cast' = Null /\ rpc' = "idle"
      /\ UNCHANGED <<begin, beginPos, left, back, backPos, end, endPos, wpc, taken,
                     written, flushed, removed, spare, phase>>
  BY <1>3 DEF FreeCast
<1>6. /\ alloc' = alloc \ {c} /\ alloc' \subseteq Chunks
      /\ ~fault' /\ fault' \in BOOLEAN
      /\ next' \in [Chunks -> Pointers] /\ prev' \in [Chunks -> Pointers]
      /\ values' \in [Chunks -> [0 .. N - 1 -> 0 .. MaxWrites]]
      /\ \A x \in Chunks : x # c =>
            next'[x] = next[x] /\ prev'[x] = prev[x] /\ values'[x] = values[x]
  BY <1>1, <1>4, <1>5, FreeEffect
<1>7. \A i \in lo .. hi : f[i] # c /\ f[i] \in Chunks
  BY <1>1, <1>2, <1>4 DEF Layout, Owned
<1>8. TypeOK'
  BY <1>1, <1>5, <1>6 DEF TypeOK, Pointers
<1>9. lo <= hi /\ end = f[hi] /\ hi \in lo .. hi
  BY <1>1, <1>2 DEF Layout, Chained
<1>10. CutOff' = CutOff
  BY <1>5, <1>6, <1>7, <1>9 DEF CutOff
<1>11. Places'
  BY <1>1, <1>2, <1>5, <1>10, NAssumption DEF Places
<1>12. \A i \in lo .. hi - 1 : i \in lo .. hi /\ i + 1 \in lo .. hi
  OBVIOUS
<1>13. (Chained(f, lo, hi) /\ Positioned(f, lo, hi))'
  BY <1>1, <1>2, <1>5, <1>6, <1>7, <1>12 DEF Layout, Chained, Positioned
<1>14. Filled(f, lo, hi)'
  BY <1>1, <1>2, <1>5, <1>6, <1>7 DEF Layout, Filled
<1>15. Owned(f, lo, hi)'
  <2>1. OffChain = {spare, taken, left, c, CutOff} /\ OffChain' = {spare, taken, left, Null, CutOff}
    BY <1>3, <1>5, <1>10 DEF OffChain
  <2>2. c # Null => c \notin {spare, taken, left, CutOff}
    BY <1>1, <1>3 DEF Layout, Owned
  <2>3. \A x \in Chunks : x \in alloc' <=> x \in OffChain' \/ \E i \in lo .. hi : x = f[i]
    BY <1>1, <1>2, <1>6, <1>7, <2>1, <2>2, NullAssumption DEF Layout, Owned
  <2>4. \A i \in lo .. hi : f[i] \notin OffChain'
    BY <1>1, <1>2, <1>7, <2>1, NullAssumption DEF Layout, Owned
  <2>. QED
    BY <1>1, <1>2, <1>5, <1>10, <2>1, <2>3, <2>4 DEF Layout, Owned
<1>. QED
  BY <1>6, <1>8, <1>11, <1>13, <1>14, <1>15 DEF At, Layout

-----------------------------------------------------------------------------
(* The destructor                                                          *)

LEMMA DestroyAt ==
    ASSUME NEW f \in [Nat -> Chunks], NEW lo \in Nat, NEW hi \in Nat, At(f, lo, hi), Destroy
    PROVE  At(f, lo, hi)'
<1>. USE DEF readerVars, heapVars, countVars, writerVars
<1>1. TypeOK /\ Places /\ ~fault /\ Layout(f, lo, hi)
  BY DEF At
<1>2. /\ phase = "live" /\ phase' = "chain" /\ wpc = "idle" /\ rpc = "idle"
      /\ UNCHANGED <<begin, beginPos, rpc, left, cast, back, backPos, end, endPos, wpc, taken,
                     alloc, next, prev, values, written, flushed, removed, spare, fault>>
  BY DEF Destroy
<1>3. TypeOK'
  BY <1>1, <1>2 DEF TypeOK
<1>4. Places'
  BY <1>1, <1>2 DEF Places, CutOff
<1>5. Chained(f, lo, hi)'
  BY <1>1, <1>2 DEF Layout, Chained
<1>6. (Positioned(f, lo, hi) /\ Filled(f, lo, hi))'
  BY <1>2 DEF Positioned, Filled
<1>7. Owned(f, lo, hi)'
  BY <1>1, <1>2 DEF Layout, Owned, OffChain, CutOff
<1>. QED
  BY <1>1, <1>2, <1>3, <1>4, <1>5, <1>6, <1>7 DEF At, Layout

\* The loop frees the front chunk, until it has freed the last one.
LEMMA FreeChainAt ==
    ASSUME NEW f \in [Nat -> Chunks], NEW lo \in Nat, NEW hi \in Nat, At(f, lo, hi), FreeChain
    PROVE  At(f, lo + 1, hi)'
<1>. USE DEF readerVars, countVars, writerVars
<1>1. TypeOK /\ Places /\ ~fault /\ Layout(f, lo, hi) /\ phase = "chain"
  BY DEF At, FreeChain
<1>2. /\ lo <= hi /\ begin = f[lo] /\ end = f[hi]
      /\ \A i \in lo .. hi - 1 : next[f[i]] = f[i + 1]
      /\ \A i, j \in lo .. hi : f[i] = f[j] => i = j
  BY <1>1 DEF Layout, Chained
<1>3. PICK c \in Chunks : c = begin
  BY <1>2
<1>4. lo \in lo .. hi /\ hi \in lo .. hi /\ c \in alloc /\ (c = end <=> lo = hi)
  BY <1>1, <1>2, <1>3, Allocated
<1>5. /\ Free(c) /\ begin' = (IF c = end THEN begin ELSE next[begin])
      /\ phase' = (IF c = end THEN "spare" ELSE "chain")
      /\ UNCHANGED <<beginPos, rpc, left, cast, back, backPos, end, endPos, wpc, taken,
                     written, flushed, removed, spare>>
  BY <1>3 DEF FreeChain
<1>6. /\ alloc' = alloc \ {c} /\ alloc' \subseteq Chunks
      /\ ~fault' /\ fault' \in BOOLEAN
      /\ next' \in [Chunks -> Pointers] /\ prev' \in [Chunks -> Pointers]
      /\ values' \in [Chunks -> [0 .. N - 1 -> 0 .. MaxWrites]]
      /\ \A x \in Chunks : x # c =>
            next'[x] = next[x] /\ prev'[x] = prev[x] /\ values'[x] = values[x]
  BY <1>1, <1>4, <1>5, FreeEffect
<1>7. wpc = "idle" /\ rpc = "idle" /\ CutOff = Null /\ CutOff' = Null
  BY <1>1, <1>5 DEF Places, CutOff
<1>8. TypeOK'
  <2>1. begin' \in Pointers
    BY <1>1, <1>3, <1>5 DEF TypeOK
  <2>2. phase' \in {"live", "chain", "spare", "gone"}
    BY <1>5
  <2>. QED
    BY <1>1, <1>5, <1>6, <2>1, <2>2 DEF TypeOK
<1>9. Places'
  BY <1>1, <1>5, <1>7 DEF Places
<1>10. \A i \in lo + 1 .. hi : f[i] # c /\ i \in lo .. hi /\ f[i] \in Chunks
  <2>1. \A i \in lo + 1 .. hi : i \in lo .. hi /\ i # lo /\ i \in Nat
    OBVIOUS
  <2>. QED
    BY <1>2, <1>3, <1>4, <2>1
<1>11. Chained(f, lo + 1, hi)'
  <2>. SUFFICES ASSUME lo # hi PROVE Chained(f, lo + 1, hi)'
    BY <1>4, <1>5 DEF Chained
  <2>1. lo \in lo .. hi - 1 /\ lo + 1 <= hi
    BY <1>2
  <2>2. begin' = f[lo + 1]
    BY <1>2, <1>3, <1>4, <1>5, <2>1
  <2>3. \A i \in lo + 1 .. hi - 1 : i \in lo + 1 .. hi /\ i \in lo .. hi - 1
    OBVIOUS
  <2>4. \A i \in lo + 1 .. hi - 1 : next'[f[i]] = f[i + 1]
    BY <1>2, <1>6, <1>10, <2>3
  <2>. QED
    BY <1>2, <1>5, <1>10, <2>1, <2>2, <2>4 DEF Chained
<1>12. (Positioned(f, lo + 1, hi) /\ Filled(f, lo + 1, hi))'
  BY <1>5 DEF Positioned, Filled
<1>13. Owned(f, lo + 1, hi)'
  <2>1. OffChain' = OffChain
    BY <1>5, <1>7 DEF OffChain
  <2>2. c \notin OffChain
    BY <1>1, <1>2, <1>3, <1>4 DEF Layout, Owned
  <2>3. \A x \in Chunks : (\E i \in lo .. hi : x = f[i]) <=> x = c \/ \E i \in lo + 1 .. hi : x = f[i]
    <3>1. \A i \in lo .. hi : i = lo \/ i \in lo + 1 .. hi
      OBVIOUS
    <3>. QED
      BY <1>2, <1>3, <1>4, <1>10, <3>1
  <2>4. \A x \in Chunks : x \in alloc' <=> x \in OffChain \/ \E i \in lo + 1 .. hi : x = f[i]
    BY <1>1, <1>6, <1>10, <2>2, <2>3 DEF Layout, Owned
  <2>5. lo = hi => \A x \in Chunks : ~(\E i \in lo + 1 .. hi : x = f[i])
    OBVIOUS
  <2>6. \A x \in Chunks : x \in alloc' <=>
           x \in OffChain' \/ (phase' \in {"live", "chain"} /\ \E i \in lo + 1 .. hi : x = f[i])
    BY <1>4, <1>5, <2>1, <2>4, <2>5
  <2>7. \A i \in lo + 1 .. hi : f[i] \notin OffChain'
    BY <1>1, <1>10, <2>1 DEF Layout, Owned
  <2>. QED
    BY <1>1, <1>5, <1>7, <2>1, <2>6, <2>7 DEF Layout, Owned
<1>. QED
  BY <1>6, <1>8, <1>9, <1>11, <1>12, <1>13 DEF At, Layout

\* At last the spare chunk is freed.
LEMMA FreeSpareAt ==
    ASSUME NEW f \in [Nat -> Chunks], NEW lo \in Nat, NEW hi \in Nat, At(f, lo, hi), FreeSpare
    PROVE  At(f, lo, hi)'
<1>. USE DEF readerVars, countVars, writerVars
<1>1. TypeOK /\ Places /\ ~fault /\ Layout(f, lo, hi) /\ phase = "spare"
  BY DEF At, FreeSpare
<1>2. wpc = "idle" /\ rpc = "idle" /\ CutOff = Null /\ left = Null /\ taken = Null /\ cast = Null
  BY <1>1 DEF Places, CutOff
<1>3. PICK c : c = spare
  OBVIOUS
<1>4. c \in Chunks \cup {Null} /\ (c # Null => c \in alloc)
  <2>1. spare \in OffChain /\ OffChain \subseteq Chunks \cup {Null}
    BY <1>1 DEF Layout, Owned, OffChain
  <2>. QED
    BY <1>3, <2>1, Allocated
<1>5. /\ Free(c) /\ spare' = Null /\ phase' = "gone"
      /\ UNCHANGED <<begin, beginPos, rpc, left, cast, back, backPos, end, endPos, wpc, taken,
                     written, flushed, removed>>
  BY <1>3 DEF FreeSpare
<1>6. /\ alloc' = alloc \ {c} /\ alloc' \subseteq Chunks
      /\ ~fault' /\ fault' \in BOOLEAN
      /\ next' \in [Chunks -> Pointers] /\ prev' \in [Chunks -> Pointers]
      /\ values' \in [Chunks -> [0 .. N - 1 -> 0 .. MaxWrites]]
  BY <1>1, <1>4, <1>5, FreeEffect
<1>7. CutOff' = Null
  BY <1>2, <1>5 DEF CutOff
<1>8. TypeOK'
  BY <1>1, <1>5, <1>6 DEF TypeOK, Pointers
<1>9. Places'
  BY <1>1, <1>2, <1>5, <1>7 DEF Places
<1>10. (Chained(f, lo, hi) /\ Positioned(f, lo, hi) /\ Filled(f, lo, hi))'
  BY <1>5 DEF Chained, Positioned, Filled
<1>11. Owned(f, lo, hi)'
  <2>1. OffChain = {c, Null} /\ OffChain' = {Null}
    BY <1>2, <1>3, <1>5, <1>7 DEF OffChain
  <2>. QED
    BY <1>1, <1>2, <1>5, <1>6, <1>7, <2>1, NullAssumption DEF Layout, Owned
<1>. QED
  BY <1>6, <1>8, <1>9, <1>10, <1>11 DEF At, Layout

-----------------------------------------------------------------------------
(* The invariants                                                          *)

LEMMA StepAt == Inductive /\ [Next]_vars => Inductive'
<1>. SUFFICES ASSUME Inductive, [Next]_vars PROVE Inductive'
  OBVIOUS
<1>1. PICK f \in [Nat -> Chunks], lo \in Nat, hi \in Nat : At(f, lo, hi)
  BY DEF Inductive
<1>2. CASE Write \/ TakeSpare \/ Flush \/ CutEnd \/ Read \/ Detach \/ GiveSpare \/ FreeCast
           \/ Destroy \/ FreeSpare
  <2>1. At(f, lo, hi)'
    BY <1>1, <1>2, WriteAt, TakeSpareAt, FlushAt, CutEndAt, ReadAt, DetachAt, GiveSpareAt,
       FreeCastAt, DestroyAt, FreeSpareAt
  <2>. QED
    BY <2>1 DEF Inductive
<1>3. CASE LinkSpare \/ LinkNew
  BY <1>1, <1>3, LinkSpareAt, LinkNewAt
<1>4. CASE StepOver \/ FreeChain
  <2>1. At(f, lo + 1, hi)' /\ lo + 1 \in Nat
    BY <1>1, <1>4, StepOverAt, FreeChainAt
  <2>. QED
    BY <2>1 DEF Inductive
<1>5. CASE Unwrite
  BY <1>1, <1>5, UnwriteAt DEF Inductive
<1>6. CASE UNCHANGED vars
  <2>1. At(f, lo, hi)'
    BY <1>1, <1>6 DEF vars, writerVars, readerVars, heapVars, countVars, At, TypeOK, Places, Layout,
       Chained, Positioned, Filled, Owned, OffChain, CutOff
  <2>. QED
    BY <2>1 DEF Inductive
<1>. QED
  BY <1>2, <1>3, <1>4, <1>5, <1>6 DEF Next, Writer, Reader, Owner

\* The chunks that have been linked can always be numbered so that the chain is
\* an interval of them and every cell has the place of its number.
THEOREM LayoutInvariant == Spec => []Inductive
<1>1. Inductive /\ [Next]_vars => Inductive'
  BY StepAt
<1>. QED
  BY <1>1, InitAt, PTL DEF Spec

\* No thread frees a chunk twice, uses one that was freed, or follows a pointer
\* nobody wrote, whatever the size of a chunk and however the threads interleave.
THEOREM AccessesAreGood == Spec => []NoBadAccess
<1>1. Inductive => NoBadAccess
  BY DEF Inductive, At, NoBadAccess
<1>. QED
  BY <1>1, LayoutInvariant, PTL

-----------------------------------------------------------------------------
(* The chain that the next pointers make                                   *)

\* chain follows the next pointers from the front chunk.
LEMMA ChainSteps ==
    ASSUME TypeOK
    PROVE  /\ chain[0] = begin
           /\ \A k \in 1 .. Cardinality(Chunks) :
                 chain[k] = IF chain[k - 1] \in Chunks THEN next[chain[k - 1]] ELSE Null
<1>1. PICK n \in Nat : n = Cardinality(Chunks)
  BY MemoryAssumption, FS_CardinalityType
<1>. DEFINE Body(f) == [k \in 0 .. Cardinality(Chunks) |->
                          IF k = 0 THEN begin
                          ELSE IF f[k - 1] \in Chunks THEN next[f[k - 1]] ELSE Null]
            step == [p \in (1 .. n) \X Pointers |-> IF p[2] \in Chunks THEN next[p[2]] ELSE Null]
<1>2. IsStep(step, n, Pointers)
  <2>1. \A s \in Pointers : (IF s \in Chunks THEN next[s] ELSE Null) \in Pointers
    BY DEF TypeOK, Pointers
  <2>. QED
    BY <2>1 DEF IsStep
<1>3. \A i \in 1 .. n : \A s \in Pointers :
        step[<<i, s>>] = IF s \in Chunks THEN next[s] ELSE Null
  OBVIOUS
<1>4. begin \in Pointers
  BY DEF TypeOK
<1>. HIDE DEF step
<1>5. PICK f : Follows(f, step, n, Pointers, begin)
  BY <1>2, <1>4, StepByStep
<1>6. /\ f \in [0 .. n -> Pointers] /\ f[0] = begin
      /\ \A i \in 1 .. n : f[i] = IF f[i - 1] \in Chunks THEN next[f[i - 1]] ELSE Null
  <2>1. f \in [0 .. n -> Pointers] /\ f[0] = begin /\ \A i \in 1 .. n : f[i] = step[<<i, f[i - 1]>>]
    BY <1>5 DEF Follows
  <2>2. \A i \in 1 .. n : f[i - 1] \in Pointers
    BY <2>1
  <2>. QED
    BY <1>3, <2>1, <2>2
<1>7. f = Body(f)
  <2>1. f = [k \in 0 .. n |-> f[k]]
    BY <1>6
  <2>2. ASSUME NEW k \in 0 .. n
        PROVE  f[k] = Body(f)[k]
    <3>1. CASE k = 0
      BY <1>1, <1>6, <3>1
    <3>2. CASE k # 0
      <4>1. k \in 1 .. n
        BY <3>2
      <4>. QED
        BY <1>1, <1>6, <3>2, <4>1
    <3>. QED
      BY <3>1, <3>2
  <2>3. Body(f) = [k \in 0 .. n |-> Body(f)[k]]
    BY <1>1
  <2>. HIDE DEF Body
  <2>. QED
    BY <2>1, <2>2, <2>3
<1>8. chain = CHOOSE g : g = Body(g)
  BY DEF chain
<1>. HIDE DEF Body
<1>9. chain = Body(chain)
  BY <1>7, <1>8
<1>10. \A k \in 0 .. n : chain[k] = Body(chain)[k]
  BY <1>9
<1>. QED
  BY <1>1, <1>10 DEF Body

\* As many chunks as are linked there are at least.
LEMMA ChainFits ==
    ASSUME NEW f \in [Nat -> Chunks], NEW lo \in Nat, NEW hi \in Nat, At(f, lo, hi),
           phase \in {"live", "chain"}
    PROVE  /\ Cardinality(Chunks) \in Nat /\ hi - lo < Cardinality(Chunks)
           /\ IsFiniteSet({f[i] : i \in lo .. hi}) /\ Cardinality({f[i] : i \in lo .. hi}) = hi - lo + 1
<1>. DEFINE S == {f[i] : i \in lo .. hi}
            g == [i \in lo .. hi |-> f[i]]
<1>1. lo <= hi /\ \A i, j \in lo .. hi : f[i] = f[j] => i = j
  BY DEF At, Layout, Chained
<1>2. S \subseteq Chunks
  OBVIOUS
<1>3. IsFiniteSet(S) /\ Cardinality(S) <= Cardinality(Chunks) /\ Cardinality(Chunks) \in Nat
  BY <1>2, MemoryAssumption, FS_Subset, FS_CardinalityType
<1>4. g \in Injection(lo .. hi, S) /\ g \in Surjection(lo .. hi, S)
  <2>1. g \in [lo .. hi -> S]
    OBVIOUS
  <2>2. \A i, j \in lo .. hi : g[i] = g[j] => i = j
    BY <1>1
  <2>3. \A x \in S : \E i \in lo .. hi : g[i] = x
    OBVIOUS
  <2>. QED
    BY <2>1, <2>2, <2>3 DEF Injection, IsInjective, Surjection
<1>. HIDE DEF g, S
<1>5. Cardinality(S) = Cardinality(lo .. hi)
  BY <1>3, <1>4, FS_Injection
<1>6. Cardinality(lo .. hi) = hi - lo + 1
  BY <1>1, FS_Interval
<1>. QED
  BY <1>3, <1>5, <1>6 DEF S

LEMMA ChainNumbered ==
    ASSUME NEW f \in [Nat -> Chunks], NEW lo \in Nat, NEW hi \in Nat, At(f, lo, hi),
           phase \in {"live", "chain"}
    PROVE  \A k \in 0 .. hi - lo : chain[k] = f[lo + k]
<1>1. PICK n \in Nat : n = hi - lo
  BY DEF At, Layout, Chained
<1>2. n \in Nat /\ n < Cardinality(Chunks) /\ Cardinality(Chunks) \in Nat
  BY <1>1, ChainFits
<1>3. /\ chain[0] = begin
      /\ \A k \in 1 .. n : chain[k] = IF chain[k - 1] \in Chunks THEN next[chain[k - 1]] ELSE Null
  BY <1>2, ChainSteps DEF At
<1>4. begin = f[lo] /\ \A i \in lo .. hi - 1 : next[f[i]] = f[i + 1]
  BY DEF At, Layout, Chained
<1>. DEFINE T == {k \in 0 .. n : chain[k] = f[lo + k]}
<1>5. 0 \in T
  BY <1>3, <1>4
<1>6. \A k \in 1 .. n : k - 1 \in T => k \in T
  <2>. SUFFICES ASSUME NEW k \in 1 .. n, k - 1 \in T
                PROVE  k \in T
    OBVIOUS
  <2>1. lo + (k - 1) \in lo .. hi - 1 /\ (lo + (k - 1)) + 1 = lo + k /\ lo + (k - 1) \in Nat
    BY <1>1
  <2>2. chain[k - 1] = f[lo + (k - 1)] /\ f[lo + (k - 1)] \in Chunks
    BY <2>1
  <2>3. chain[k] = next[f[lo + (k - 1)]]
    BY <1>3, <2>2
  <2>4. chain[k] = f[lo + k]
    BY <1>4, <2>1, <2>3
  <2>. QED
    BY <2>4
<1>. HIDE DEF T
<1>7. \A k \in 0 .. n : k \in T
  BY <1>5, <1>6, UpTo
<1>. QED
  BY <1>1, <1>7 DEF T

\* How far a linked chunk is from the front one.
LEMMA DepthOf ==
    ASSUME NEW f \in [Nat -> Chunks], NEW lo \in Nat, NEW hi \in Nat, At(f, lo, hi),
           phase \in {"live", "chain"}, NEW i \in lo .. hi
    PROVE  Depth(f[i]) = i - lo
<1>1. \A k \in 0 .. hi - lo : chain[k] = f[lo + k]
  BY ChainNumbered
<1>2. i - lo \in 0 .. hi - lo /\ lo + (i - lo) = i
  OBVIOUS
<1>3. 0 .. hi - lo \subseteq 0 .. Cardinality(Chunks)
  <2>1. Cardinality(Chunks) \in Nat /\ hi - lo < Cardinality(Chunks)
    BY ChainFits
  <2>. QED
    BY <2>1
<1>4. \A m, n \in lo .. hi : f[m] = f[n] => m = n
  BY DEF At, Layout, Chained
<1>5. Reaches(f[i], i - lo)
  <2>1. chain[i - lo] = f[i]
    BY <1>1, <1>2
  <2>2. ASSUME NEW j \in 0 .. (i - lo) - 1
        PROVE  chain[j] # f[i]
    <3>1. j \in 0 .. hi - lo /\ lo + j \in lo .. hi /\ lo + j # i
      BY <1>2
    <3>. QED
      BY <1>1, <1>4, <3>1
  <2>. QED
    BY <2>1, <2>2 DEF Reaches
<1>6. ASSUME NEW k \in 0 .. Cardinality(Chunks), Reaches(f[i], k)
      PROVE  k = i - lo
  <2>1. Cardinality(Chunks) \in Nat
    BY ChainFits
  <2>2. ~(k > i - lo)
    <3>. SUFFICES ASSUME k > i - lo PROVE FALSE
      OBVIOUS
    <3>1. i - lo \in 0 .. k - 1
      BY <1>2, <2>1
    <3>2. chain[i - lo] = f[i]
      BY <1>1, <1>2
    <3>. QED
      BY <1>6, <3>1, <3>2 DEF Reaches
  <2>3. ~(k < i - lo)
    <3>. SUFFICES ASSUME k < i - lo PROVE FALSE
      OBVIOUS
    <3>1. k \in 0 .. (i - lo) - 1
      BY <2>1
    <3>. QED
      BY <1>5, <1>6, <3>1 DEF Reaches
  <2>. QED
    BY <1>2, <2>1, <2>2, <2>3
<1>7. i - lo \in 0 .. Cardinality(Chunks)
  BY <1>2, <1>3
<1>. QED
  BY <1>5, <1>6, <1>7 DEF Depth

LEMMA ChainSetIs ==
    ASSUME NEW f \in [Nat -> Chunks], NEW lo \in Nat, NEW hi \in Nat, At(f, lo, hi),
           phase \in {"live", "chain"}
    PROVE  ChainSet = {f[i] : i \in lo .. hi}
<1>1. hi \in lo .. hi /\ end = f[hi]
  BY DEF At, Layout, Chained
<1>2. Depth(end) = hi - lo
  BY <1>1, DepthOf
<1>3. \A k \in 0 .. hi - lo : chain[k] = f[lo + k]
  BY ChainNumbered
<1>4. ChainSet = {f[lo + k] : k \in 0 .. hi - lo}
  BY <1>2, <1>3 DEF ChainSet
<1>5. /\ \A i \in lo .. hi : i - lo \in 0 .. hi - lo /\ i = lo + (i - lo)
      /\ \A k \in 0 .. hi - lo : lo + k \in lo .. hi
  OBVIOUS
<1>. QED
  BY <1>4, <1>5

\* Every allocated chunk is in the chain, the spare one, or in the hands of one
\* thread: none is leaked or held twice at any moment, in a memory of any size.
THEOREM ChunksNeverLeak == Spec => []ChunksAccounted
<1>1. ASSUME NEW f \in [Nat -> Chunks], NEW lo \in Nat, NEW hi \in Nat, At(f, lo, hi)
      PROVE  ChunksAccounted
  <2>. DEFINE cut == IF wpc = "cut" THEN {next[end]} ELSE {}
              linked == IF phase \in {"live", "chain"} THEN ChainSet ELSE {}
              places == <<linked, {spare}, {taken}, {left}, {cast}, cut>>
              held(i) == places[i] \ {Null}
  <2>1. phase \in {"live", "chain"} => ChainSet = {f[i] : i \in lo .. hi}
    BY <1>1, ChainSetIs
  <2>2. cut \ {Null} = {CutOff} \ {Null}
    BY DEF CutOff
  <2>3. linked \subseteq Chunks /\ linked \ {Null} = linked
    BY <2>1, NullAssumption
  <2>4. \A c \in linked : c \notin OffChain
    BY <1>1, <2>1 DEF At, Layout, Owned
  <2>5. \A c \in Chunks : c \in alloc <=> c \in OffChain \/ c \in linked
    BY <1>1, <2>1 DEF At, Layout, Owned
  <2>6. alloc \subseteq Chunks /\ OffChain \subseteq Chunks \cup {Null}
    BY <1>1 DEF At, TypeOK, Layout, Owned
  <2>7. /\ held(1) = linked /\ held(2) = {spare} \ {Null} /\ held(3) = {taken} \ {Null}
        /\ held(4) = {left} \ {Null} /\ held(5) = {cast} \ {Null} /\ held(6) = {CutOff} \ {Null}
    BY <2>2, <2>3
  <2>8. 1 .. 6 = {1, 2, 3, 4, 5, 6}
    OBVIOUS
  <2>. HIDE DEF held, linked, cut
  <2>9. alloc = UNION {held(i) : i \in 1 .. 6}
    <3>1. UNION {held(i) : i \in 1 .. 6}
            = held(1) \cup held(2) \cup held(3) \cup held(4) \cup held(5) \cup held(6)
      BY <2>8
    <3>2. alloc = linked \cup (OffChain \ {Null})
      BY <2>3, <2>5, <2>6, NullAssumption
    <3>. QED
      BY <2>7, <3>1, <3>2 DEF OffChain
  <2>10. /\ \A i \in 2 .. 6 : held(1) \cap held(i) = {}
         /\ \A i \in 3 .. 6 : held(2) \cap held(i) = {}
         /\ \A i \in 4 .. 6 : held(3) \cap held(i) = {}
         /\ \A i \in 5 .. 6 : held(4) \cap held(i) = {}
         /\ held(5) \cap held(6) = {}
    <3>1. 2 .. 6 = {2, 3, 4, 5, 6} /\ 3 .. 6 = {3, 4, 5, 6} /\ 4 .. 6 = {4, 5, 6} /\ 5 .. 6 = {5, 6}
      OBVIOUS
    <3>2. /\ spare # Null => spare \notin {taken, left, cast, CutOff}
          /\ taken # Null => taken \notin {left, cast, CutOff}
          /\ left # Null => left \notin {cast, CutOff}
          /\ cast # Null => cast # CutOff
      BY <1>1 DEF At, Layout, Owned
    <3>3. \A i \in 2 .. 6 : held(1) \cap held(i) = {}
      BY <2>4, <2>7, <3>1 DEF OffChain
    <3>. QED
      BY <2>7, <3>1, <3>2, <3>3
  <2>11. \A i, j \in 1 .. 6 : i # j => held(i) \cap held(j) = {}
    BY <2>8, <2>10
  <2>. QED
    BY <2>9, <2>11 DEF ChunksAccounted, held, linked, cut
<1>2. Inductive => ChunksAccounted
  BY <1>1 DEF Inductive
<1>. QED
  BY <1>2, LayoutInvariant, PTL

-----------------------------------------------------------------------------
(* How much memory the queue keeps                                         *)

LEMMA AddedElement ==
    ASSUME NEW S, IsFiniteSet(S), NEW x
    PROVE  /\ IsFiniteSet(S \cup {x}) /\ Cardinality(S) \in Nat
           /\ Cardinality(S \cup {x}) \in Nat /\ Cardinality(S \cup {x}) <= Cardinality(S) + 1
BY FS_AddElement, FS_CardinalityType

\* What is out of the chain: the spare chunk, at most one that the writer links
\* or cuts off, and at most one that the reader carries to and from the spare.
LEMMA AllocatedCount ==
    ASSUME NEW f \in [Nat -> Chunks], NEW lo \in Nat, NEW hi \in Nat, At(f, lo, hi), phase = "live"
    PROVE  /\ Cardinality(alloc) \in Nat
           /\ Cardinality(alloc) <= (hi - lo + 1) + 3
           /\ wpc \notin {"link", "cut"} => Cardinality(alloc) <= (hi - lo + 1) + 2
           /\ rpc \in {"idle", "step"} => Cardinality(alloc) <= (hi - lo + 1) + 2
           /\ wpc \notin {"link", "cut"} /\ rpc \in {"idle", "step"} =>
                 Cardinality(alloc) <= (hi - lo + 1) + 1
<1>. DEFINE S == {f[i] : i \in lo .. hi}
            w == IF wpc = "link" THEN taken ELSE CutOff
            r == IF rpc \in {"detach", "give"} THEN left ELSE cast
<1>1. IsFiniteSet(S) /\ Cardinality(S) = hi - lo + 1
  BY ChainFits
<1>2. \A x \in alloc : x \in S \/ x = spare \/ (x = w /\ x # Null) \/ (x = r /\ x # Null)
  <2>1. \A x \in alloc : x \in Chunks /\ x # Null
    BY NullAssumption DEF At, TypeOK
  <2>2. \A x \in alloc : x \in S \/ x \in OffChain
    BY <2>1 DEF At, Layout, Owned
  <2>3. wpc = "link" \/ taken = Null
    BY DEF At, Places
  <2>4. rpc \in {"detach", "give"} => cast = Null
    BY DEF At, Places
  <2>5. rpc \notin {"detach", "give"} => left = Null
    BY DEF At, Places
  <2>6. wpc = "link" => CutOff = Null
    BY DEF CutOff
  <2>. QED
    BY <2>1, <2>2, <2>3, <2>4, <2>5, <2>6 DEF OffChain
<1>3. wpc \notin {"link", "cut"} => w = Null
  BY DEF CutOff
<1>4. rpc \in {"idle", "step"} => r = Null
  BY DEF At, Places
<1>5. IsFiniteSet(alloc)
  BY MemoryAssumption, FS_Subset DEF At, TypeOK
<1>. HIDE DEF S, w, r
<1>. DEFINE A == S \cup {spare}
            B == A \cup {w}
            C == A \cup {r}
            D == B \cup {r}
<1>6. /\ IsFiniteSet(A) /\ Cardinality(A) \in Nat /\ Cardinality(A) <= (hi - lo + 1) + 1
  BY <1>1, AddedElement
<1>. HIDE DEF A
<1>7. /\ IsFiniteSet(B) /\ Cardinality(B) \in Nat /\ Cardinality(B) <= (hi - lo + 1) + 2
  <2>1. IsFiniteSet(B) /\ Cardinality(B) \in Nat /\ Cardinality(B) <= Cardinality(A) + 1
    BY <1>6, AddedElement
  <2>. HIDE DEF B
  <2>. QED
    BY <1>6, <2>1
<1>8. /\ IsFiniteSet(C) /\ Cardinality(C) \in Nat /\ Cardinality(C) <= (hi - lo + 1) + 2
  <2>1. IsFiniteSet(C) /\ Cardinality(C) \in Nat /\ Cardinality(C) <= Cardinality(A) + 1
    BY <1>6, AddedElement
  <2>. HIDE DEF C
  <2>. QED
    BY <1>6, <2>1
<1>. HIDE DEF B
<1>9. /\ IsFiniteSet(D) /\ Cardinality(D) \in Nat /\ Cardinality(D) <= (hi - lo + 1) + 3
  <2>1. IsFiniteSet(D) /\ Cardinality(D) \in Nat /\ Cardinality(D) <= Cardinality(B) + 1
    BY <1>7, AddedElement
  <2>. HIDE DEF D
  <2>. QED
    BY <1>7, <2>1
<1>. HIDE DEF C, D
<1>10. Cardinality(alloc) \in Nat
  BY <1>5, FS_CardinalityType
<1>11. ASSUME NEW E, IsFiniteSet(E), alloc \subseteq E
       PROVE  Cardinality(alloc) <= Cardinality(E)
  BY <1>11, FS_Subset
<1>12. Cardinality(alloc) <= (hi - lo + 1) + 3
  <2>1. alloc \subseteq D
    BY <1>2 DEF A, B, D
  <2>2. Cardinality(alloc) <= Cardinality(D)
    BY <1>9, <1>11, <2>1
  <2>. QED
    BY <1>9, <1>10, <2>2
<1>13. wpc \notin {"link", "cut"} => Cardinality(alloc) <= (hi - lo + 1) + 2
  <2>. SUFFICES ASSUME wpc \notin {"link", "cut"} PROVE Cardinality(alloc) <= (hi - lo + 1) + 2
    OBVIOUS
  <2>1. alloc \subseteq C
    BY <1>2, <1>3 DEF A, C
  <2>2. Cardinality(alloc) <= Cardinality(C)
    BY <1>8, <1>11, <2>1
  <2>. QED
    BY <1>8, <1>10, <2>2
<1>14. rpc \in {"idle", "step"} => Cardinality(alloc) <= (hi - lo + 1) + 2
  <2>. SUFFICES ASSUME rpc \in {"idle", "step"} PROVE Cardinality(alloc) <= (hi - lo + 1) + 2
    OBVIOUS
  <2>1. alloc \subseteq B
    BY <1>2, <1>4 DEF A, B
  <2>2. Cardinality(alloc) <= Cardinality(B)
    BY <1>7, <1>11, <2>1
  <2>. QED
    BY <1>7, <1>10, <2>2
<1>15. wpc \notin {"link", "cut"} /\ rpc \in {"idle", "step"} =>
          Cardinality(alloc) <= (hi - lo + 1) + 1
  <2>. SUFFICES ASSUME wpc \notin {"link", "cut"}, rpc \in {"idle", "step"}
                PROVE  Cardinality(alloc) <= (hi - lo + 1) + 1
    OBVIOUS
  <2>1. alloc \subseteq A
    BY <1>2, <1>3, <1>4 DEF A
  <2>2. Cardinality(alloc) <= Cardinality(A)
    BY <1>6, <1>11, <2>1
  <2>. QED
    BY <1>6, <1>10, <2>2
<1>. QED
  BY <1>10, <1>12, <1>13, <1>14, <1>15

\* Memory follows the contents: beside the chunks its cells would fill there are
\* at most four, whatever was in the queue before and whatever a chunk holds.
THEOREM MemoryFollowsContents == Spec => []MemoryBounded
<1>1. ASSUME NEW f \in [Nat -> Chunks], NEW lo \in Nat, NEW hi \in Nat, At(f, lo, hi),
             phase = "live"
      PROVE  Cardinality(alloc) * N <= written - removed + 4 * N
  <2>1. /\ removed = lo * N + beginPos /\ written + 1 = hi * N + endPos /\ lo <= hi
        /\ removed \in Nat /\ written \in Nat /\ beginPos \in 0 .. N /\ endPos \in 0 .. N
        /\ N \in Nat /\ N >= 2 /\ lo * N \in Nat /\ hi * N \in Nat
    BY <1>1, NAssumption DEF At, TypeOK, Layout, Chained, Positioned
  <2>2. PICK k \in Nat : k = hi - lo + 1
    BY <2>1
  <2>3. k * N = hi * N - lo * N + N
    BY <2>1, <2>2
  <2>4. k * N = written - removed + 1 + N - endPos + beginPos
    BY <2>1, <2>3
  <2>5. PICK m \in Nat : m = Cardinality(alloc)
    BY <1>1, AllocatedCount
  <2>6. ASSUME NEW d \in Nat, m <= k + d
        PROVE  m * N <= k * N + d * N
    <3>1. PICK e \in Nat : k + d = m + e
      <4>1. k + d - m \in Nat /\ k + d = m + (k + d - m)
        BY <2>6
      <4>. QED
        BY <4>1
    <3>2. (k + d) * N = k * N + d * N /\ (m + e) * N = m * N + e * N /\ e * N \in Nat
      BY <2>1
    <3>3. m * N \in Nat /\ k * N \in Nat /\ d * N \in Nat
      BY <2>1
    <3>. QED
      BY <3>1, <3>2, <3>3
  <2>7. m * N \in Nat /\ k * N \in Nat
    BY <2>1
  <2>8. /\ wpc \in {"link", "cut"} => endPos >= N - 1
        /\ rpc \notin {"idle", "step"} => beginPos = 0
    <3>1. wpc \in {"link", "cut"} => endPos = N \/ endPos = N - 1
      BY <1>1 DEF At, Places
    <3>2. rpc \notin {"idle", "step"} => beginPos = 0
      BY <1>1 DEF At, Places
    <3>. QED
      BY <2>1, <3>1, <3>2
  <2>9. CASE wpc \in {"link", "cut"} /\ rpc \notin {"idle", "step"}
    <3>1. m * N <= k * N + 3 * N
      BY <1>1, <2>2, <2>5, <2>6, AllocatedCount
    <3>. QED
      BY <2>1, <2>4, <2>5, <2>7, <2>8, <2>9, <3>1
  <2>10. CASE wpc \notin {"link", "cut"} /\ rpc \notin {"idle", "step"}
    <3>1. m * N <= k * N + 2 * N
      BY <1>1, <2>2, <2>5, <2>6, <2>10, AllocatedCount
    <3>. QED
      BY <2>1, <2>4, <2>5, <2>7, <2>8, <2>10, <3>1
  <2>11. CASE wpc \in {"link", "cut"} /\ rpc \in {"idle", "step"}
    <3>1. m * N <= k * N + 2 * N
      BY <1>1, <2>2, <2>5, <2>6, <2>11, AllocatedCount
    <3>. QED
      BY <2>1, <2>4, <2>5, <2>7, <2>8, <2>11, <3>1
  <2>12. CASE wpc \notin {"link", "cut"} /\ rpc \in {"idle", "step"}
    <3>1. m * N <= k * N + 1 * N
      BY <1>1, <2>2, <2>5, <2>6, <2>12, AllocatedCount
    <3>. QED
      BY <2>1, <2>4, <2>5, <2>7, <2>12, <3>1
  <2>. QED
    BY <2>9, <2>10, <2>11, <2>12
<1>2. Inductive => MemoryBounded
  BY <1>1 DEF Inductive, MemoryBounded
<1>. QED
  BY <1>2, LayoutInvariant, PTL

-----------------------------------------------------------------------------
(* The queue of cells                                                      *)

\* N is not zero, so a number is its quotient and remainder by it.
LEMMA QuotientAndRest ==
    ASSUME NEW z \in Nat
    PROVE  z \div N \in Nat /\ z % N \in 0 .. N - 1 /\ z = (z \div N) * N + (z % N)
BY NAssumption

\* The numbers after m up to n.
Run(m, n) == [i \in 1 .. n - m |-> m + i]

\* What the pipe sees of the chunks: the numbers of the cells written and not removed.
LEMMA ContentsIs ==
    ASSUME NEW f \in [Nat -> Chunks], NEW lo \in Nat, NEW hi \in Nat, At(f, lo, hi), phase = "live"
    PROVE  Contents = Run(removed, written)
<1>1. /\ N \in Nat /\ N >= 2 /\ removed \in Nat /\ written \in Nat /\ beginPos \in 0 .. N
      /\ backPos \in 0 .. N - 1
  BY NAssumption DEF At, TypeOK
<1>2. PICK b \in Nat :
        /\ b = BackOf(hi) /\ lo <= b /\ b <= hi /\ back = f[b] /\ written = b * N + backPos
  BY Ends
<1>3. removed = lo * N + beginPos /\ lo * N \in Nat /\ b * N \in Nat
  BY <1>1 DEF At, Layout, Positioned
<1>4. Held = written - removed
  <2>1. b \in lo .. hi
    BY <1>2
  <2>2. Depth(back) = b - lo
    BY <1>2, <2>1, DepthOf
  <2>3. (b - lo) * N = b * N - lo * N
    BY <1>1
  <2>4. Held = (b - lo) * N + backPos - beginPos
    BY <2>2 DEF Held
  <2>. QED
    BY <1>1, <1>2, <1>3, <2>3, <2>4
<1>5. ASSUME NEW i \in 1 .. written - removed
      PROVE  Cell(i - 1) = removed + i
  <2>1. PICK z \in Nat : z = beginPos + (i - 1)
    BY <1>1
  <2>2. PICK q \in Nat, p \in 0 .. N - 1 : q = z \div N /\ p = z % N /\ z = q * N + p
    BY QuotientAndRest
  <2>3. q * N \in Nat /\ (lo + q) * N = lo * N + q * N
    BY <1>1
  <2>4. (lo + q) * N + p = removed + i - 1
    BY <1>1, <1>3, <2>1, <2>2, <2>3
  <2>5. removed <= (lo + q) * N + p /\ (lo + q) * N + p < written
    BY <1>1, <2>4
  <2>6. lo + q <= b
    <3>1. (lo + q) * N < b * N + N
      BY <1>1, <1>2, <1>3, <2>3, <2>5
    <3>. QED
      BY <1>2, <3>1, ChunkOrder
  <2>7. q \in 0 .. hi - lo /\ lo + q \in lo .. hi
    BY <1>2, <2>6
  <2>8. chain[q] = f[lo + q]
    BY <2>7, ChainNumbered
  <2>9. values[f[lo + q]][p] = (lo + q) * N + p + 1
    BY <2>5, <2>7 DEF At, Layout, Filled
  <2>10. Cell(i - 1) = values[chain[q]][p]
    BY <2>1, <2>2 DEF Cell
  <2>. QED
    BY <1>1, <2>3, <2>4, <2>8, <2>9, <2>10
<1>6. Contents = [i \in 1 .. Held |-> Cell(i - 1)]
  BY DEF Contents
<1>. QED
  BY <1>4, <1>5, <1>6 DEF Run

\* The same of any state, the next one too.
Numbers == IF phase = "live" THEN Run(removed, written) ELSE <<>>

LEMMA ContentsNumbered == Inductive => Contents = Numbers
BY ContentsIs DEF Inductive, Contents, Numbers

\* What a push, an unpush and a pop make of a run of numbers.
LEMMA RunOfNumbers ==
    ASSUME NEW r \in Nat, NEW w \in Nat, r <= w
    PROVE  /\ Run(r, w + 1) = Append(Run(r, w), w + 1)
           /\ r < w => /\ Run(r, w) # <<>>
                       /\ Run(r, w - 1) = SubSeq(Run(r, w), 1, Len(Run(r, w)) - 1)
                       /\ Run(r + 1, w) = Tail(Run(r, w))
<1>1. ASSUME NEW m \in Nat, NEW n \in Nat, m <= n
      PROVE  Run(m, n) \in Seq(Nat) /\ Len(Run(m, n)) = n - m /\ \A i \in 1 .. n - m : Run(m, n)[i] = m + i
  <2>1. n - m \in Nat
    BY <1>1
  <2>. QED
    BY <2>1 DEF Run
<1>2. Run(r, w + 1) = Append(Run(r, w), w + 1)
  <2>1. Run(r, w) \in Seq(Nat) /\ Len(Run(r, w)) = w - r /\ \A i \in 1 .. w - r : Run(r, w)[i] = r + i
    BY <1>1
  <2>2. /\ Run(r, w + 1) \in Seq(Nat) /\ Len(Run(r, w + 1)) = w + 1 - r
        /\ \A i \in 1 .. w + 1 - r : Run(r, w + 1)[i] = r + i
    BY <1>1
  <2>3. Append(Run(r, w), w + 1) \in Seq(Nat) /\ Len(Append(Run(r, w), w + 1)) = w + 1 - r
    BY <2>1
  <2>4. \A i \in 1 .. w + 1 - r : Append(Run(r, w), w + 1)[i] = r + i
    <3>. SUFFICES ASSUME NEW i \in 1 .. w + 1 - r
                  PROVE  Append(Run(r, w), w + 1)[i] = r + i
      OBVIOUS
    <3>1. i \in 1 .. w - r \/ i = w - r + 1
      OBVIOUS
    <3>. QED
      BY <2>1, <3>1, SMTT(30)
  <2>. QED
    BY <2>2, <2>3, <2>4, SeqEqual, SMTT(30)
<1>3. ASSUME r < w
      PROVE  /\ Run(r, w) # <<>>
             /\ Run(r, w - 1) = SubSeq(Run(r, w), 1, Len(Run(r, w)) - 1)
             /\ Run(r + 1, w) = Tail(Run(r, w))
  <2>1. Run(r, w) \in Seq(Nat) /\ Len(Run(r, w)) = w - r /\ \A i \in 1 .. w - r : Run(r, w)[i] = r + i
    BY <1>1
  <2>2. /\ Run(r, w - 1) \in Seq(Nat) /\ Len(Run(r, w - 1)) = w - 1 - r
        /\ \A i \in 1 .. w - 1 - r : Run(r, w - 1)[i] = r + i
    <3>1. w - 1 \in Nat /\ r <= w - 1
      BY <1>3
    <3>. QED
      BY <1>1, <3>1
  <2>3. /\ Run(r + 1, w) \in Seq(Nat) /\ Len(Run(r + 1, w)) = w - r - 1
        /\ \A i \in 1 .. w - r - 1 : Run(r + 1, w)[i] = r + 1 + i
    <3>1. r + 1 \in Nat /\ r + 1 <= w /\ w - (r + 1) = w - r - 1
      BY <1>3
    <3>. QED
      BY <1>1, <3>1
  <2>4. Run(r, w) # <<>>
    BY <1>3, <2>1
  <2>5. Run(r + 1, w) = Tail(Run(r, w))
    <3>1. /\ Tail(Run(r, w)) \in Seq(Nat) /\ Len(Tail(Run(r, w))) = w - r - 1
          /\ \A i \in 1 .. w - r - 1 : Tail(Run(r, w))[i] = Run(r, w)[i + 1]
      BY <2>1, <2>4
    <3>2. \A i \in 1 .. w - r - 1 : i + 1 \in 1 .. w - r
      BY <1>3
    <3>3. \A i \in 1 .. w - r - 1 : Tail(Run(r, w))[i] = Run(r + 1, w)[i]
      BY <2>1, <2>3, <3>1, <3>2
    <3>. QED
      BY <2>3, <3>1, <3>3, SeqEqual
  <2>6. Run(r, w - 1) = SubSeq(Run(r, w), 1, Len(Run(r, w)) - 1)
    <3>. DEFINE s == SubSeq(Run(r, w), 1, w - r - 1)
    <3>1. \A i \in 1 .. w - r - 1 : i \in 1 .. w - r /\ Run(r, w)[i] = r + i /\ r + i \in Nat
      BY <2>1
    <3>2. /\ s \in Seq(Nat) /\ Len(s) = w - r - 1
          /\ \A i \in 1 .. w - r - 1 : s[i] = Run(r, w)[i]
      BY <1>3, <3>1, SubSeqProperties
    <3>. HIDE DEF s
    <3>3. s = Run(r, w - 1)
      BY <2>2, <3>1, <3>2, SeqEqual
    <3>. QED
      BY <2>1, <3>3 DEF s
  <2>. QED
    BY <2>4, <2>5, <2>6
<1>. QED
  BY <1>2, <1>3

\* A step that writes, takes back or removes no cell does not change the numbers.
LEMMA NumbersRest ==
    ASSUME written' = written, removed' = removed, phase' = phase
    PROVE  Numbers' = Numbers
BY DEF Numbers

\* Every step is one of the queue of cells, or none.
LEMMA CellsStep ==
    ASSUME Inductive, [Next]_vars
    PROVE  \/ \E v \in 1 .. MaxWrites : Numbers' = Append(Numbers, v)
           \/ Numbers # <<>> /\ Numbers' = SubSeq(Numbers, 1, Len(Numbers) - 1)
           \/ Numbers # <<>> /\ Numbers' = Tail(Numbers)
           \/ Numbers' = <<>>
           \/ Numbers' = Numbers
<1>. USE DEF writerVars, readerVars, heapVars, countVars
<1>1. PICK f \in [Nat -> Chunks], lo \in Nat, hi \in Nat : At(f, lo, hi)
  BY DEF Inductive
<1>2. /\ written \in Nat /\ removed \in Nat /\ flushed \in Nat
      /\ phase = "live" => removed <= flushed /\ flushed <= written
  BY <1>1 DEF At, TypeOK, Layout, Positioned
<1>0. /\ phase = "live" => Run(removed, written + 1) = Append(Run(removed, written), written + 1)
      /\ phase = "live" /\ removed < written =>
            /\ Run(removed, written) # <<>>
            /\ Run(removed, written - 1) = SubSeq(Run(removed, written), 1, Len(Run(removed, written)) - 1)
            /\ Run(removed + 1, written) = Tail(Run(removed, written))
  <2>. SUFFICES ASSUME phase = "live"
                PROVE  /\ Run(removed, written + 1) = Append(Run(removed, written), written + 1)
                       /\ removed < written =>
                             /\ Run(removed, written) # <<>>
                             /\ Run(removed, written - 1) = SubSeq(Run(removed, written), 1, Len(Run(removed, written)) - 1)
                             /\ Run(removed + 1, written) = Tail(Run(removed, written))
    OBVIOUS
  <2>1. PICK r \in Nat, w \in Nat : r = removed /\ w = written /\ r <= w
    BY <1>2
  <2>2. /\ Run(r, w + 1) = Append(Run(r, w), w + 1)
        /\ r < w => /\ Run(r, w) # <<>>
                    /\ Run(r, w - 1) = SubSeq(Run(r, w), 1, Len(Run(r, w)) - 1)
                    /\ Run(r + 1, w) = Tail(Run(r, w))
    BY <2>1, RunOfNumbers
  <2>. QED
    BY <2>1, <2>2
<1>3. CASE Write
  <2>1. phase = "live" /\ written' = written + 1 /\ removed' = removed /\ phase' = phase
    BY <1>3 DEF Write
  <2>2. Numbers = Run(removed, written) /\ Numbers' = Run(removed, written + 1)
    BY <2>1 DEF Numbers
  <2>3. Numbers' = Append(Numbers, written + 1)
    BY <1>0, <2>1, <2>2
  <2>4. written + 1 \in 1 .. MaxWrites
    BY <1>2, <1>3, BoundAssumption DEF Write
  <2>. QED
    BY <2>3, <2>4
<1>4. CASE Unwrite
  <2>1. /\ phase = "live" /\ written' = written - 1 /\ removed' = removed /\ phase' = phase
        /\ removed < written
    BY <1>2, <1>4 DEF Unwrite
  <2>2. Numbers = Run(removed, written) /\ Numbers' = Run(removed, written - 1)
    BY <2>1 DEF Numbers
  <2>. QED
    BY <1>0, <2>1, <2>2
<1>5. CASE Read
  <2>1. /\ phase = "live" /\ written' = written /\ removed' = removed + 1 /\ phase' = phase
        /\ removed < written
    BY <1>2, <1>5 DEF Read
  <2>2. Numbers = Run(removed, written) /\ Numbers' = Run(removed + 1, written)
    BY <2>1 DEF Numbers
  <2>. QED
    BY <1>0, <2>1, <2>2
<1>6. CASE Destroy \/ FreeChain \/ FreeSpare
  BY <1>6 DEF Destroy, FreeChain, FreeSpare, Numbers
<1>7. CASE TakeSpare \/ LinkSpare \/ LinkNew \/ Flush \/ CutEnd \/ StepOver \/ Detach \/ GiveSpare
           \/ FreeCast \/ UNCHANGED vars
  BY <1>7, NumbersRest DEF TakeSpare, LinkSpare, LinkNew, LinkTo, Flush, CutEnd, StepOver, Detach,
     GiveSpare, FreeCast, vars
<1>. QED
  BY <1>3, <1>4, <1>5, <1>6, <1>7 DEF Next, Writer, Reader, Owner

\* The chunks hold the queue the pipe is written against: what is written is
\* read in its order, what is taken back is the last, and nothing else changes it.
THEOREM CellsImplemented == Spec => ImplementsCells
<1>1. Init => Contents = <<>>
  <2>1. Init => Inductive
    BY InitAt
  <2>2. Init => Numbers = <<>>
    BY DEF Init, Numbers, Run
  <2>. QED
    BY <2>1, <2>2, ContentsNumbered
<1>2. Init => Cells!Init
  BY <1>1 DEF Cells!Init
<1>3. (Inductive => Contents = Numbers)'
  BY ContentsNumbered, PTL
<1>4. Inductive /\ Inductive' /\ [Next]_vars => [Cells!Next]_Contents
  BY <1>3, ContentsNumbered, CellsStep
     DEF Cells!Next, Cells!Write, Cells!Unwrite, Cells!Read, Cells!Drop
<1>. QED
  BY <1>2, <1>4, LayoutInvariant, PTL DEF Spec, ImplementsCells, Cells!Spec

=============================================================================

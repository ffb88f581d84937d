-------------------------- MODULE SendQueueProofs --------------------------
(* Proofs about SendQueue: for items of any sizes and any number of them, and *)
(* with memory refused at any time, the ring of data_queue_t keeps the order  *)
(* and fails no assertion but two, each for its cause, until an item is put   *)
(* behind a full lap.                                                         *)
EXTENDS SendQueue, TLAPS

\* What every step preserves.  Accounted describes the block only while the
\* process runs; an assertion that fails stops it in the middle of an operation.
Inductive == Accounted /\ FifoOrder /\ FailuresKnown

-----------------------------------------------------------------------------
(* Facts about the operators                                               *)

\* An item is never empty, and its bytes without the head are less than it.
LEMMA ItemSizesAre ==
    ASSUME NEW n \in Lengths, n > 0, n <= MaxPackLen
    PROVE  n + MsgHeader + DataHead \in ItemSizes
BY DEF ItemSizes

LEMMA SizesAreNat ==
    ASSUME NEW len \in ItemSizes
    PROVE  len \in Nat /\ len > DataHead /\ len > 0
BY LengthsAssumption, SizesAssumption DEF ItemSizes

\* The larger block has room for all that was in the old one and the item.
LEMMA GrownIsEnough ==
    ASSUME TypeOK, NEW len \in ItemSizes
    PROVE  GrownSize(len) \in Nat /\ GrownSize(len) >= bufferSize + len
<1>1. len \in Nat /\ GrowItems \in Nat /\ GrowItems >= 1 /\ bufferSize \in Nat
  BY SizesAreNat, SizesAssumption, SMTT(30) DEF TypeOK
<1>2. len * GrowItems \in Nat /\ len * GrowItems >= len
  BY <1>1
<1>3. bufferSize \div 2 \in Nat
  BY <1>1
<1>. QED
  BY <1>1, <1>2, <1>3 DEF GrownSize, Larger

\* In a block that is laid out, each cell lies within the unread bytes.
LEMMA CellsAreWithin ==
    ASSUME TypeOK, Straight \/ Wrapped, OneCellEach, NEW x \in cells
    PROVE  /\ x.pos \in Nat /\ x.len \in Nat /\ x.len > 0 /\ x.id \in Nat
           /\ x = [pos |-> x.pos, len |-> x.len, id |-> x.id]
           /\ Offset(x) \in Nat /\ Offset(x) + x.len <= dataSize
           /\ InPieceOne(x) => Offset(x) = x.pos - queryPos
           /\ InPieceTwo(x) => x.pos < queryPos /\ Offset(x) = x.pos + PartOne
<1>1. /\ x.pos \in Nat /\ x.len \in ItemSizes /\ x.id \in 1 .. sent
      /\ x = [pos |-> x.pos, len |-> x.len, id |-> x.id]
  BY DEF TypeOK
<1>2. x.len \in Nat /\ x.len > 0
  BY <1>1, SizesAreNat
<1>3. InPieceOne(x) \/ InPieceTwo(x)
  BY DEF OneCellEach
<1>4. insertPos \in Nat /\ terminalPos \in Nat /\ queryPos \in Nat /\ insertPos <= terminalPos /\ dataSize \in Nat
  BY DEF TypeOK
<1>5. sent \in Nat
  BY SizesAssumption DEF TypeOK
<1>6. CASE InPieceOne(x)
  BY <1>1, <1>2, <1>4, <1>5, <1>6 DEF InPieceOne, InPieceTwo, Straight, Wrapped, Offset, PartOne
<1>7. CASE InPieceTwo(x)
  BY <1>1, <1>2, <1>4, <1>5, <1>7 DEF InPieceOne, InPieceTwo, Straight, Wrapped, Offset, PartOne
<1>. QED
  BY <1>3, <1>6, <1>7

\* The ring of a laid out block in which items are unread.
LEMMA FirstCell ==
    ASSUME TypeOK, Layout, packetCount > 0
    PROVE  \E x \in cells : /\ x.id = Len(fetched) + 1 /\ Offset(x) = 0
                            /\ CellAt(ReadPos) = {x}
                            /\ \A y \in cells : y # x => x.id < y.id
<1>0. packetCount \in Nat /\ Len(fetched) \in Nat /\ sent \in Nat
  BY SizesAssumption DEF TypeOK
<1>1. Len(fetched) + 1 \in Len(fetched) + 1 .. sent
  BY <1>0 DEF Layout, Counted
<1>2. PICK x \in cells : x.id = Len(fetched) + 1
  BY <1>1 DEF Layout, OneCellEach
<1>3. Offset(x) = 0
  BY <1>2 DEF Layout, Tiled
<1>4. ASSUME NEW y \in cells, y # x PROVE x.id < y.id
  <2>1. y.id # x.id
    BY <1>4 DEF Layout, Tiled
  <2>2. Len(fetched) < y.id /\ y.id \in Nat
    BY <1>4, CellsAreWithin DEF Layout, OneCellEach
  <2>. QED
    BY <1>0, <1>2, <2>1, <2>2
<1>5. x.pos = ReadPos
  <2>1. InPieceOne(x) \/ InPieceTwo(x)
    BY DEF Layout, OneCellEach
  <2>2. /\ x.pos \in Nat /\ x.len \in Nat /\ x.len > 0
        /\ InPieceOne(x) => Offset(x) = x.pos - queryPos
        /\ InPieceTwo(x) => x.pos < queryPos /\ Offset(x) = x.pos + PartOne
    BY CellsAreWithin DEF Layout
  <2>3. queryPos \in Nat /\ terminalPos \in Nat
    BY DEF TypeOK
  <2>4. CASE InPieceOne(x)
    BY <1>3, <2>2, <2>3, <2>4 DEF InPieceOne, ReadPos, AtTerminal
  <2>5. CASE InPieceTwo(x)
    <3>1. x.pos + (terminalPos - queryPos) = 0 /\ queryPos <= terminalPos
      BY <1>3, <2>2, <2>5 DEF PartOne, InPieceTwo, Wrapped
    <3>. QED
      BY <2>2, <2>3, <3>1 DEF ReadPos, AtTerminal
  <2>. QED
    BY <2>1, <2>4, <2>5
<1>6. ASSUME NEW y \in cells, y.pos = ReadPos PROVE y = x
  <2>1. SUFFICES ASSUME y # x PROVE FALSE
    OBVIOUS
  <2>2. Offset(x) + x.len <= Offset(y)
    BY <1>4, <2>1 DEF Layout, Tiled
  <2>3. Offset(y) = Offset(x)
    BY <1>5, <1>6 DEF Offset
  <2>. QED
    BY <1>3, <2>2, <2>3, CellsAreWithin DEF Layout
<1>. QED
  BY <1>2, <1>3, <1>4, <1>5, <1>6 DEF CellAt

-----------------------------------------------------------------------------
(* Types                                                                   *)

\* The place push_item chooses without growing is free and inside of the block.
PlaceFor(len) == IF AtTheEnd(len) THEN 0 ELSE insertPos

LEMMA PlaceIsInside ==
    ASSUME TypeOK, NEW len \in ItemSizes, ~MustGrow(len)
    PROVE  /\ len \in Nat /\ len > 0
           /\ PlaceFor(len) \in Nat /\ PlaceFor(len) + len <= bufferSize
           /\ dataSize + len <= bufferSize
<1>1. len \in Nat /\ len > 0
  BY SizesAreNat
<1>2. /\ insertPos \in Nat /\ terminalPos \in Nat /\ queryPos \in Nat /\ insertPos <= terminalPos
      /\ dataSize \in Nat /\ bufferSize \in Nat /\ queryPos <= bufferSize
  BY DEF TypeOK
<1>3. dataSize + len <= bufferSize
  BY <1>1, <1>2 DEF MustGrow, NoRoomAtAll
<1>4. CASE AtTheEnd(len)
  BY <1>1, <1>2, <1>3, <1>4 DEF MustGrow, PlaceFor
<1>5. CASE ~AtTheEnd(len)
  <2>1. insertPos + len <= bufferSize
    BY <1>1, <1>2, <1>5 DEF MustGrow, NoRoomBefore, AtTheEnd
  <2>. QED
    BY <1>1, <1>2, <1>3, <1>5, <2>1 DEF PlaceFor
<1>. QED
  BY <1>4, <1>5

\* The cells that are copied are old ones at other places, none behind the data.
LEMMA CopiedCells ==
    ASSUME TypeOK, GrowAsserts, NEW x \in Copied
    PROVE  /\ x \in [pos : Nat, len : ItemSizes, id : 1 .. sent]
           /\ x.pos + x.len <= bufferSize
<1>1. /\ insertPos \in Nat /\ terminalPos \in Nat /\ queryPos \in Nat /\ dataSize \in Nat
      /\ bufferSize \in Nat /\ terminalPos <= bufferSize /\ dataSize <= bufferSize
  BY DEF TypeOK
<1>2. PICK y \in cells :
        \/ /\ queryPos <= y.pos /\ y.pos + y.len <= terminalPos
           /\ x = [y EXCEPT !.pos = @ - queryPos]
        \/ /\ dataSize > PartOne /\ 0 <= y.pos /\ y.pos + y.len <= insertPos
           /\ x = [y EXCEPT !.pos = @ + PartOne]
  BY DEF Copied, Within
<1>3. y \in [pos : Nat, len : ItemSizes, id : 1 .. sent] /\ y.pos + y.len <= bufferSize
  BY DEF TypeOK
<1>4. y.len \in Nat /\ y.len > 0 /\ y.pos \in Nat
  BY <1>3, SizesAreNat
<1>5. bufferSize > 0
  BY <1>1, <1>3, <1>4
<1>6. terminalPos >= queryPos /\ (dataSize > PartOne => insertPos + PartOne = dataSize)
  BY <1>5 DEF GrowAsserts
<1>7. CASE /\ queryPos <= y.pos /\ y.pos + y.len <= terminalPos
           /\ x = [y EXCEPT !.pos = @ - queryPos]
  <2>1. y.pos - queryPos \in Nat /\ y.pos - queryPos + y.len <= bufferSize
    BY <1>1, <1>4, <1>7
  <2>. QED
    BY <1>3, <1>7, <2>1
<1>8. CASE /\ dataSize > PartOne /\ 0 <= y.pos /\ y.pos + y.len <= insertPos
           /\ x = [y EXCEPT !.pos = @ + PartOne]
  <2>1. y.pos + PartOne \in Nat /\ y.pos + PartOne + y.len <= bufferSize
    BY <1>1, <1>4, <1>6, <1>8 DEF PartOne
  <2>. QED
    BY <1>3, <1>8, <2>1
<1>. QED
  BY <1>2, <1>7, <1>8

LEMMA TypesInit == Init => TypeOK
<1>1. SUFFICES ASSUME Init PROVE TypeOK
  OBVIOUS
<1>2. MaxSends \in Nat /\ 0 \in 0 .. 0 /\ 0 \in 0 .. MaxSends
  BY SizesAssumption
<1>3. cells = {} /\ fetched \in Seq(1 .. sent)
  BY <1>1 DEF Init
<1>4. bufferSize \in Nat /\ {terminalPos, queryPos, dataSize} \subseteq 0 .. bufferSize
      /\ insertPos \in 0 .. terminalPos
  BY <1>1, <1>2 DEF Init
<1>5. cells \subseteq [pos : Nat, len : ItemSizes, id : 1 .. sent]
      /\ \A x \in cells : x.pos + x.len <= bufferSize
  BY <1>3
<1>6. {packetCount, fetches} \subseteq Nat
  BY <1>1 DEF Init
<1>7. {sent, lost} \subseteq 0 .. MaxSends /\ sent + lost <= MaxSends
  BY <1>1, <1>2 DEF Init
<1>8. confused \in BOOLEAN
      /\ failed \in {"none", "growth", "garbage", "empty", "workbuffer", "block", "size"}
  BY <1>1 DEF Init
<1>. QED
  BY <1>3, <1>4, <1>5, <1>6, <1>7, <1>8 DEF TypeOK

\* host_asyn_send keeps the types.
LEMMA TypesSend ==
    ASSUME TypeOK, failed = "none", NEW n \in Lengths, HostAsynSend(n)
    PROVE  TypeOK'
<1> DEFINE len == n + MsgHeader + DataHead
<1>1. /\ insertPos \in Nat /\ terminalPos \in Nat /\ queryPos \in Nat /\ dataSize \in Nat
      /\ bufferSize \in Nat /\ terminalPos <= bufferSize /\ dataSize <= bufferSize
      /\ queryPos <= bufferSize /\ insertPos <= terminalPos
      /\ packetCount \in Nat /\ fetches \in Nat /\ sent \in Nat /\ lost \in Nat
      /\ MaxSends \in Nat
  BY SizesAssumption DEF TypeOK
<1>2. len \in ItemSizes /\ sent + lost < MaxSends /\ fetched' = fetched
  BY ItemSizesAre DEF HostAsynSend
<1>. HIDE DEF len
<1>3. len \in Nat /\ len > 0
  BY <1>2, SizesAreNat
<1>4. CASE PushAsserting(len) /\ UNCHANGED fetches
  <2>1. failed' = "growth" /\ UNCHANGED <<posVars, sizeVars, cells, fetches, confused, sent, lost, fetched>>
    BY <1>2, <1>4 DEF PushAsserting
  <2>. QED
    BY <2>1 DEF TypeOK, posVars, sizeVars
<1>5. CASE PushFailing(len) /\ fetches' = fetches + 1
  <2>1. lost' = lost + 1 /\ UNCHANGED <<posVars, sizeVars, cells, confused, sent, failed, fetched>>
    BY <1>2, <1>5 DEF PushFailing
  <2>2. {sent', lost'} \subseteq 0 .. MaxSends /\ sent' + lost' <= MaxSends /\ fetches' \in Nat
    BY <1>1, <1>2, <1>5, <2>1
  <2>. QED
    BY <2>1, <2>2 DEF TypeOK, posVars, sizeVars
<1>6. CASE Push(len) /\ fetches' = fetches + 1
  <2>1. /\ packetCount' \in Nat /\ fetches' \in Nat /\ sent' = sent + 1
        /\ {sent', lost'} \subseteq 0 .. MaxSends /\ sent' + lost' <= MaxSends
        /\ failed' = failed /\ fetched' \in Seq(1 .. sent')
    <3>1. packetCount' = packetCount + 1 /\ sent' = sent + 1 /\ lost' = lost /\ failed' = failed
      BY <1>6 DEF Push, PushInPlace, PushGrowing, Put
    <3>2. fetched \in Seq(1 .. sent + 1)
      <4>1. \A i \in 1 .. Len(fetched) : fetched[i] \in 1 .. sent + 1
        BY <1>1 DEF TypeOK
      <4>. QED
        BY <4>1 DEF TypeOK
    <3>3. {sent', lost'} \subseteq 0 .. MaxSends /\ sent' + lost' <= MaxSends
      BY <1>1, <1>2, <3>1
    <3>. QED
      BY <1>1, <1>2, <1>6, <3>1, <3>2, <3>3
  <2>2. PICK memory, pos, size :
          /\ cells' = Stored(memory, pos, len) /\ insertPos' = pos + len
          /\ dataSize' = dataSize + len /\ bufferSize' = size /\ size \in Nat /\ pos \in Nat
          /\ pos + len <= size /\ dataSize + len <= size
          /\ terminalPos' \in Nat /\ pos + len <= terminalPos' /\ terminalPos' <= size
          /\ queryPos' \in Nat /\ queryPos' <= size
          /\ confused' \in BOOLEAN
          /\ \A x \in memory : /\ x \in [pos : Nat, len : ItemSizes, id : 1 .. sent]
                               /\ x.pos + x.len <= size
    <3>1. CASE PushInPlace(len)
      <4>1. /\ cells' = Stored(cells, PlaceFor(len), len) /\ insertPos' = PlaceFor(len) + len
            /\ dataSize' = dataSize + len /\ bufferSize' = bufferSize /\ queryPos' = queryPos
            /\ terminalPos' = Larger(terminalPos, PlaceFor(len) + len)
            /\ ~MustGrow(len) /\ confused' \in BOOLEAN
        BY <3>1 DEF PushInPlace, Put, PlaceFor, TypeOK
      <4>2. \A x \in cells : /\ x \in [pos : Nat, len : ItemSizes, id : 1 .. sent]
                             /\ x.pos + x.len <= bufferSize
        BY DEF TypeOK
      <4>3. PlaceFor(len) \in Nat /\ PlaceFor(len) + len <= bufferSize /\ dataSize + len <= bufferSize
        BY <1>2, <4>1, PlaceIsInside
      <4>4. /\ terminalPos' \in Nat /\ PlaceFor(len) + len <= terminalPos' /\ terminalPos' <= bufferSize
        BY <1>1, <1>3, <4>1, <4>3 DEF Larger
      <4>. QED
        BY <1>1, <4>1, <4>2, <4>3, <4>4
    <3>2. CASE PushGrowing(len)
      <4>1. /\ cells' = Stored(Copied, dataSize, len) /\ insertPos' = dataSize + len
            /\ dataSize' = dataSize + len /\ bufferSize' = GrownSize(len) /\ queryPos' = 0
            /\ terminalPos' = dataSize + len /\ GrowAsserts /\ confused' \in BOOLEAN
        BY <3>2 DEF PushGrowing, Put, TypeOK
      <4>2. GrownSize(len) \in Nat /\ GrownSize(len) >= bufferSize + len
        BY <1>2, GrownIsEnough
      <4>3. \A x \in Copied : /\ x \in [pos : Nat, len : ItemSizes, id : 1 .. sent]
                              /\ x.pos + x.len <= GrownSize(len)
        <5>1. TAKE x \in Copied
        <5>2. /\ x \in [pos : Nat, len : ItemSizes, id : 1 .. sent]
              /\ x.pos + x.len <= bufferSize
          BY <4>1, CopiedCells
        <5>3. x.len \in Nat
          BY <5>2, SizesAreNat
        <5>. QED
          BY <1>1, <1>3, <4>2, <5>2, <5>3
      <4>. QED
        BY <1>1, <1>3, <4>1, <4>2, <4>3
    <3>. QED
      BY <1>6, <3>1, <3>2 DEF Push
  <2>3. cells' \subseteq [pos : Nat, len : ItemSizes, id : 1 .. sent']
        /\ \A x \in cells' : x.pos + x.len <= bufferSize'
    <3>1. SUFFICES ASSUME NEW x \in cells'
                   PROVE  x \in [pos : Nat, len : ItemSizes, id : 1 .. sent'] /\ x.pos + x.len <= bufferSize'
      OBVIOUS
    <3>2. x \in memory \/ x = [pos |-> pos, len |-> len, id |-> sent + 1]
      BY <2>2 DEF Stored
    <3>3. \A i \in 1 .. sent : i \in 1 .. sent'
      BY <1>1, <2>1
    <3>4. sent + 1 \in 1 .. sent'
      BY <1>1, <2>1
    <3>5. CASE x \in memory
      BY <2>2, <3>3, <3>5
    <3>6. CASE x = [pos |-> pos, len |-> len, id |-> sent + 1]
      BY <1>2, <2>2, <3>4, <3>6
    <3>. QED
      BY <3>2, <3>5, <3>6
  <2>4. bufferSize' \in Nat /\ terminalPos' \in 0 .. bufferSize' /\ queryPos' \in 0 .. bufferSize'
        /\ dataSize' \in 0 .. bufferSize' /\ insertPos' \in 0 .. terminalPos'
    BY <1>1, <1>3, <2>2
  <2>5. failed' = "none" /\ confused' \in BOOLEAN
    BY <2>1, <2>2
  <2>. QED
    BY <2>1, <2>3, <2>4, <2>5 DEF TypeOK
<1>. QED
  BY <1>4, <1>5, <1>6 DEF HostAsynSend, AddQueueItem, len

\* process_fetch_buf keeps the types.
LEMMA TypesFetch ==
    ASSUME TypeOK, failed = "none", ProcessFetchBuf
    PROVE  TypeOK'
<1>1. /\ insertPos \in Nat /\ terminalPos \in Nat /\ queryPos \in Nat /\ dataSize \in Nat
      /\ bufferSize \in Nat /\ terminalPos <= bufferSize /\ dataSize <= bufferSize
      /\ queryPos <= bufferSize /\ insertPos <= terminalPos
      /\ packetCount \in Nat /\ fetches \in Nat /\ sent \in Nat
  BY SizesAssumption DEF TypeOK
<1>2. fetches' \in Nat /\ UNCHANGED <<confused, sent, lost>>
  BY <1>1 DEF ProcessFetchBuf
<1>3. CASE UNCHANGED <<posVars, sizeVars, cells, fetched>>
  <2>1. failed' \in {"none", "growth", "garbage", "empty", "workbuffer", "block", "size"}
    BY DEF ProcessFetchBuf, PopAsserts
  <2>. QED
    BY <1>2, <1>3, <2>1 DEF TypeOK, posVars, sizeVars
<1>4. CASE packetCount # 0 /\ \E x \in cells : PopAsserts(x) = "none" /\ Pop(x) /\ failed' = "none"
  <2>1. PICK x \in cells : PopAsserts(x) = "none" /\ Pop(x) /\ failed' = "none"
    BY <1>4
  <2>2. x.len \in Nat /\ x.len > 0 /\ x.id \in 1 .. sent
    BY SizesAreNat DEF TypeOK
  <2>3. packetCount # 0 /\ x.len <= dataSize /\ ReadPos + x.len <= bufferSize
    BY <1>1, <1>4, <2>1, <2>2 DEF PopAsserts, ReadPos
  <2>4. /\ packetCount' \in Nat /\ dataSize' \in 0 .. bufferSize /\ bufferSize' = bufferSize
        /\ queryPos' \in 0 .. bufferSize
    BY <1>1, <2>1, <2>2, <2>3 DEF Pop, ReadPos
  <2>5. terminalPos' \in 0 .. bufferSize /\ insertPos' \in 0 .. terminalPos'
    BY <1>1, <2>1 DEF Pop
  <2>6. cells' \subseteq cells /\ fetched' \in Seq(1 .. sent)
    BY <2>1, <2>2 DEF Pop, TypeOK
  <2>. QED
    BY <1>2, <2>1, <2>4, <2>5, <2>6 DEF TypeOK
<1>. QED
  <2>1. CASE failed' = "none"
    <3> DEFINE x == CHOOSE y \in CellAt(ReadPos) : TRUE
    <3>1. packetCount # 0 /\ CellAt(ReadPos) # {} /\ PopAsserts(x) = "none" /\ Pop(x)
      BY <2>1 DEF ProcessFetchBuf
    <3>2. x \in cells
      BY <3>1 DEF CellAt
    <3>. QED
      BY <1>4, <2>1, <3>1, <3>2
  <2>2. CASE failed' # "none"
    BY <1>3, <2>2 DEF ProcessFetchBuf
  <2>. QED
    BY <2>1, <2>2

LEMMA TypesKept == TypeOK /\ [Next]_vars => TypeOK'
<1>1. ASSUME TypeOK, UNCHANGED vars PROVE TypeOK'
  BY <1>1 DEF TypeOK, vars, posVars, sizeVars
<1>. QED
  BY <1>1, TypesSend, TypesFetch DEF Next

-----------------------------------------------------------------------------
(* The layout of the block                                                 *)

\* Where an item that is put behind the data stands after a push: m tells where
\* each old cell is now, and the new one is at pos.
LEMMA PushedBehind ==
    ASSUME TypeOK, TypeOK', Layout, NEW len \in ItemSizes, NEW pos \in Nat, NEW m,
           \A x \in cells : /\ m[x].id = x.id /\ m[x].len = x.len
                            /\ (Offset(m[x]))' = Offset(x)
                            /\ (InPieceOne(m[x]) \/ InPieceTwo(m[x]))',
           NEW new, new = [pos |-> pos, len |-> len, id |-> sent + 1],
           cells' = {m[x] : x \in cells} \cup {new},
           (Offset(new))' = dataSize, (InPieceOne(new) \/ InPieceTwo(new))',
           dataSize' = dataSize + len, sent' = sent + 1, fetched' = fetched
    PROVE  OneCellEach' /\ Tiled'
<1>1. /\ sent \in Nat /\ Len(fetched) \in Nat /\ dataSize \in Nat /\ len \in Nat /\ len > 0
      /\ Len(fetched) <= sent
  <2>1. /\ sent \in Nat /\ Len(fetched) \in Nat /\ dataSize \in Nat /\ packetCount \in Nat
    BY SizesAssumption DEF TypeOK
  <2>2. packetCount = sent - Len(fetched)
    BY DEF Layout, Counted
  <2>3. len \in Nat /\ len > 0
    BY SizesAreNat
  <2>. QED
    BY <2>1, <2>2, <2>3
<1>2. \A x \in cells : /\ x.id \in 1 .. sent /\ x.len \in Nat /\ x.len > 0
                       /\ Offset(x) \in Nat /\ Offset(x) + x.len <= dataSize
  BY CellsAreWithin DEF Layout, TypeOK
<1>3. new \in cells' /\ new.id = sent + 1 /\ new.len = len
  OBVIOUS
<1>4. \A y \in cells' : y = new \/ \E x \in cells : y = m[x]
  OBVIOUS
<1>5. OneCellEach'
  <2>1. ASSUME NEW y \in cells'
        PROVE  Len(fetched') < y.id /\ (InPieceOne(y) \/ InPieceTwo(y))'
    <3>1. CASE y = new
      BY <1>1, <1>3, <3>1
    <3>2. ASSUME NEW x \in cells, y = m[x]
          PROVE  Len(fetched') < y.id /\ (InPieceOne(y) \/ InPieceTwo(y))'
      BY <3>2 DEF Layout, OneCellEach
    <3>. QED
      BY <1>4, <3>1, <3>2
  <2>2. ASSUME NEW k \in Len(fetched') + 1 .. sent'
        PROVE  \E y \in cells' : y.id = k
    <3>1. CASE k = sent + 1
      BY <1>3, <3>1
    <3>2. CASE k # sent + 1
      <4>1. k \in Len(fetched) + 1 .. sent
        BY <1>1, <3>2
      <4>2. PICK x \in cells : x.id = k
        BY <4>1 DEF Layout, OneCellEach
      <4>. QED
        BY <4>2
    <3>. QED
      BY <3>1, <3>2
  <2>. QED
    BY <2>1, <2>2 DEF OneCellEach
<1>6. Tiled'
  <2>1. ASSUME NEW y \in cells', NEW z \in cells'
        PROVE  /\ y.id < z.id => (Offset(y))' + y.len <= (Offset(z))'
               /\ y.id = z.id => y = z
               /\ z.id = y.id + 1 => (Offset(z))' = (Offset(y))' + y.len
    <3>1. ASSUME NEW a \in cells, NEW b \in cells, y = m[a], z = m[b]
          PROVE  /\ y.id < z.id => (Offset(y))' + y.len <= (Offset(z))'
                 /\ y.id = z.id => y = z
                 /\ z.id = y.id + 1 => (Offset(z))' = (Offset(y))' + y.len
      <4>1. /\ a.id < b.id => Offset(a) + a.len <= Offset(b)
            /\ a.id = b.id => a = b
            /\ b.id = a.id + 1 => Offset(b) = Offset(a) + a.len
        BY DEF Layout, Tiled
      <4>. QED
        BY <3>1, <4>1
    <3>2. ASSUME NEW a \in cells, y = m[a], z = new
          PROVE  /\ y.id < z.id => (Offset(y))' + y.len <= (Offset(z))'
                 /\ y.id = z.id => y = z
                 /\ z.id = y.id + 1 => (Offset(z))' = (Offset(y))' + y.len
      <4>1. a.id = sent => Offset(a) + a.len = dataSize
        BY DEF Layout, Tiled
      <4>. QED
        BY <1>1, <1>2, <1>3, <3>2, <4>1
    <3>3. ASSUME y = new, NEW b \in cells, z = m[b]
          PROVE  ~(y.id < z.id) /\ y.id # z.id /\ z.id # y.id + 1
      BY <1>1, <1>2, <1>3, <3>3
    <3>4. CASE y = new /\ z = new
      BY <1>1, <1>3, <3>4
    <3>. QED
      BY <1>4, <3>1, <3>2, <3>3, <3>4
  <2>2. ASSUME NEW y \in cells', y.id = Len(fetched') + 1
        PROVE  (Offset(y))' = 0
    <3>1. CASE y = new
      BY <1>1, <1>3, <2>2, <3>1 DEF Layout, Tiled
    <3>2. ASSUME NEW x \in cells, y = m[x]
          PROVE  (Offset(y))' = 0
      BY <2>2, <3>2 DEF Layout, Tiled
    <3>. QED
      BY <1>4, <3>1, <3>2
  <2>3. ASSUME NEW y \in cells', y.id = sent'
        PROVE  (Offset(y))' + y.len = dataSize'
    <3>1. y = new
      BY <1>1, <1>2, <1>3, <1>4, <2>3
    <3>. QED
      BY <1>3, <3>1
  <2>4. sent' # Len(fetched')
    BY <1>1
  <2>. QED
    BY <2>1, <2>2, <2>3, <2>4 DEF Tiled
<1>. QED
  BY <1>5, <1>6

\* An item put where no cell is, while those that were there stay.
LEMMA PutKeepsOrder ==
    ASSUME TypeOK, TypeOK', Layout, NEW len \in ItemSizes, NEW pos \in Nat,
           NEW new, new = [pos |-> pos, len |-> len, id |-> sent + 1],
           cells' = {x \in cells : x.pos + x.len <= pos \/ pos + len <= x.pos} \cup {new},
           \A x \in cells : /\ x.pos + x.len <= pos \/ pos + len <= x.pos
                            /\ (Offset(x))' = Offset(x)
                            /\ (InPieceOne(x) \/ InPieceTwo(x))',
           (Offset(new))' = dataSize, (InPieceOne(new) \/ InPieceTwo(new))',
           dataSize' = dataSize + len, sent' = sent + 1, fetched' = fetched
    PROVE  OneCellEach' /\ Tiled'
<1>1. PICK m : m = [x \in cells |-> x]
  OBVIOUS
<1>2. cells' = {m[x] : x \in cells} \cup {new}
  BY <1>1
<1>3. \A x \in cells : m[x] = x
  BY <1>1
<1>4. ASSUME NEW x \in cells
      PROVE  /\ m[x].id = x.id /\ m[x].len = x.len
             /\ (Offset(m[x]))' = Offset(x)
             /\ (InPieceOne(m[x]) \/ InPieceTwo(m[x]))'
  BY <1>3
<1>. QED
  BY <1>2, <1>4, PushedBehind

\* An item that is put into the block as it is, unless behind a full lap.
LEMMA InPlaceKeepsLayout ==
    ASSUME TypeOK, TypeOK', Layout, NEW len \in ItemSizes, PushInPlace(len), ~confused',
           sent' = sent + 1, fetched' = fetched
    PROVE  (Straight \/ Wrapped)' /\ OneCellEach' /\ Tiled'
<1>1. /\ insertPos \in Nat /\ terminalPos \in Nat /\ queryPos \in Nat /\ dataSize \in Nat
      /\ bufferSize \in Nat /\ terminalPos <= bufferSize /\ dataSize <= bufferSize
      /\ queryPos <= bufferSize /\ insertPos <= terminalPos
  BY DEF TypeOK
<1>2. PICK pos \in Nat : pos = PlaceFor(len)
  BY PlaceIsInside DEF PushInPlace
<1>3. PICK new : new = [pos |-> pos, len |-> len, id |-> sent + 1]
  OBVIOUS
<1>4. len \in Nat /\ len > 0 /\ pos + len <= bufferSize
  BY <1>2, PlaceIsInside DEF PushInPlace
<1>5. /\ cells' = {x \in cells : x.pos + x.len <= pos \/ pos + len <= x.pos} \cup {new}
      /\ insertPos' = pos + len
      /\ dataSize' = dataSize + len /\ terminalPos' = Larger(terminalPos, pos + len)
      /\ queryPos' = queryPos /\ ~MustGrow(len) /\ ~FullLap
  BY <1>2, <1>3 DEF PushInPlace, Put, PlaceFor, Stored
<1>6. new.pos = pos /\ new.len = len
  BY <1>3
<1> DEFINE Behind == Straight /\ pos = insertPos
           Before == Straight /\ pos = 0 /\ len <= queryPos
           Between == /\ Wrapped /\ pos = insertPos /\ insertPos < terminalPos
                      /\ insertPos + len <= queryPos
\* The three ways: behind a block in one piece, before it, and between the two pieces.
<1>7. Behind \/ Before \/ Between
  <2>1. CASE Straight
    <3>1. AtTheEnd(len) => len <= queryPos
      BY <1>1, <1>4, <1>5 DEF MustGrow
    <3>. QED
      BY <1>2, <2>1, <3>1 DEF PlaceFor
  <2>2. CASE Wrapped
    <3>1. insertPos < terminalPos
      BY <1>1, <1>5, <2>2 DEF Wrapped, FullLap, PartOne
    <3>2. ~AtTheEnd(len)
      BY <1>1, <3>1 DEF AtTheEnd
    <3>3. insertPos + len <= queryPos
      BY <1>1, <1>4, <1>5, <3>1, <3>2 DEF MustGrow, NoRoomBefore
    <3>. QED
      BY <1>2, <2>2, <3>1, <3>2, <3>3 DEF PlaceFor
  <2>. QED
    BY <2>1, <2>2 DEF Layout
<1>8. CASE Behind
  <2>1. Straight' /\ terminalPos' = terminalPos + len
    BY <1>1, <1>4, <1>5, <1>8 DEF Straight, PartOne, Larger
  <2>2. (Offset(new))' = dataSize /\ InPieceOne(new)'
    BY <1>1, <1>4, <1>5, <1>6, <1>8, <2>1 DEF Straight, InPieceOne, PartOne, Offset
  <2>3. ASSUME NEW x \in cells
        PROVE  /\ x.pos + x.len <= pos
               /\ (Offset(x))' = Offset(x) /\ InPieceOne(x)'
    <3>1. x.pos \in Nat /\ x.len \in Nat /\ x.len > 0 /\ (InPieceOne(x) \/ InPieceTwo(x))
      BY CellsAreWithin DEF Layout, OneCellEach
    <3>2. InPieceOne(x)
      BY <1>1, <1>8, <3>1 DEF InPieceOne, InPieceTwo, Straight, Wrapped, PartOne
    <3>. QED
      BY <1>1, <1>4, <1>5, <1>8, <2>1, <3>1, <3>2 DEF InPieceOne, Straight, Offset
  <2>. QED
    BY <1>3, <1>5, <1>8, <2>1, <2>2, <2>3, PutKeepsOrder
<1>9. CASE Before
  <2>1. Wrapped' /\ terminalPos' = terminalPos
    BY <1>1, <1>4, <1>5, <1>9 DEF Straight, Wrapped, PartOne, Larger
  <2>2. (Offset(new))' = dataSize /\ InPieceTwo(new)'
    BY <1>1, <1>4, <1>5, <1>6, <1>9, <2>1 DEF Straight, InPieceTwo, PartOne, Offset
  <2>3. ASSUME NEW x \in cells
        PROVE  /\ pos + len <= x.pos
               /\ (Offset(x))' = Offset(x) /\ InPieceOne(x)'
    <3>1. x.pos \in Nat /\ x.len \in Nat /\ x.len > 0 /\ (InPieceOne(x) \/ InPieceTwo(x))
      BY CellsAreWithin DEF Layout, OneCellEach
    <3>2. InPieceOne(x)
      BY <1>1, <1>9, <3>1 DEF InPieceOne, InPieceTwo, Straight, Wrapped, PartOne
    <3>. QED
      BY <1>1, <1>4, <1>5, <1>9, <2>1, <3>1, <3>2 DEF InPieceOne, Straight, Offset
  <2>. QED
    BY <1>3, <1>5, <1>9, <2>1, <2>2, <2>3, PutKeepsOrder
<1>10. CASE Between
  <2>1. terminalPos' = terminalPos /\ insertPos' = insertPos + len
    BY <1>1, <1>4, <1>5, <1>10 DEF Wrapped, Larger
  <2>2. PartOne' = PartOne
    BY <1>5, <2>1 DEF PartOne
  <2>3. Wrapped'
    <3>1. dataSize = PartOne + insertPos /\ 0 < insertPos /\ insertPos <= queryPos /\ queryPos <= terminalPos
      BY <1>10 DEF Wrapped
    <3>2. PartOne \in Int
      BY <1>1 DEF PartOne
    <3>3. dataSize' = PartOne' + insertPos'
      BY <1>1, <1>4, <1>5, <2>1, <2>2, <3>1, <3>2
    <3>. QED
      BY <1>1, <1>4, <1>5, <1>10, <2>1, <3>1, <3>3 DEF Wrapped
  <2>4. (Offset(new))' = dataSize /\ InPieceTwo(new)'
    BY <1>1, <1>4, <1>5, <1>6, <1>10, <2>1, <2>3 DEF Wrapped, InPieceTwo, PartOne, Offset
  <2>5. ASSUME NEW x \in cells
        PROVE  /\ x.pos + x.len <= pos \/ pos + len <= x.pos
               /\ (Offset(x))' = Offset(x) /\ (InPieceOne(x) \/ InPieceTwo(x))'
    <3>1. x.pos \in Nat /\ x.len \in Nat /\ x.len > 0 /\ (InPieceOne(x) \/ InPieceTwo(x))
      BY CellsAreWithin DEF Layout, OneCellEach
    <3>2. (Offset(x))' = Offset(x)
      BY <1>5, <2>2 DEF Offset
    <3>3. CASE InPieceOne(x)
      BY <1>1, <1>4, <1>5, <1>10, <2>1, <3>1, <3>2, <3>3 DEF InPieceOne
    <3>4. CASE InPieceTwo(x)
      BY <1>1, <1>4, <1>5, <1>10, <2>1, <2>3, <3>1, <3>2, <3>4 DEF InPieceTwo
    <3>. QED
      BY <3>1, <3>3, <3>4
  <2>. QED
    BY <1>3, <1>5, <1>10, <2>3, <2>4, <2>5, PutKeepsOrder
<1>. QED
  BY <1>7, <1>8, <1>9, <1>10

\* When a block that is laid out grows, its two parts are all there is.
LEMMA GrowthAsserts ==
    ASSUME TypeOK, Layout
    PROVE  GrowAsserts /\ (dataSize > PartOne <=> Wrapped)
<1>1. /\ insertPos \in Nat /\ terminalPos \in Nat /\ queryPos \in Nat /\ dataSize \in Nat
      /\ insertPos <= terminalPos
  BY DEF TypeOK
<1>2. CASE Straight
  BY <1>1, <1>2 DEF Straight, Wrapped, GrowAsserts, PartOne
<1>3. CASE Wrapped
  BY <1>1, <1>3 DEF Wrapped, GrowAsserts, PartOne
<1>. QED
  BY <1>2, <1>3 DEF Layout

\* The copy puts each cell where it stands among the unread bytes.
LEMMA CopiedIsOffset ==
    ASSUME TypeOK, Layout
    PROVE  Copied = {[x EXCEPT !.pos = Offset(x)] : x \in cells}
<1>1. /\ insertPos \in Nat /\ terminalPos \in Nat /\ queryPos \in Nat
      /\ (Wrapped => insertPos <= queryPos)
  BY DEF TypeOK, Wrapped
<1>2. ASSUME NEW x \in cells
      PROVE  /\ x.pos \in Nat /\ x.len \in Nat /\ x.len > 0
             /\ InPieceOne(x) \/ InPieceTwo(x)
             /\ InPieceOne(x) => Offset(x) = x.pos - queryPos
             /\ InPieceTwo(x) => x.pos < queryPos /\ Offset(x) = x.pos + PartOne
  BY CellsAreWithin DEF Layout, OneCellEach
<1>3. Within(queryPos, terminalPos) = {x \in cells : InPieceOne(x)}
  BY DEF Within, InPieceOne
<1>4. (IF dataSize > PartOne
       THEN {[x EXCEPT !.pos = @ + PartOne] : x \in Within(0, insertPos)}
       ELSE {}) = {[x EXCEPT !.pos = @ + PartOne] : x \in {y \in cells : InPieceTwo(y)}}
  <2>1. CASE Wrapped
    <3>1. Within(0, insertPos) = {y \in cells : InPieceTwo(y)}
      BY <1>2, <2>1 DEF Within, InPieceTwo
    <3>. QED
      BY <2>1, <3>1, GrowthAsserts
  <2>2. CASE ~Wrapped
    <3>1. {y \in cells : InPieceTwo(y)} = {}
      BY <2>2 DEF InPieceTwo
    <3>. QED
      BY <2>2, <3>1, GrowthAsserts
  <2>. QED
    BY <2>1, <2>2
<1>5. \A x \in cells : InPieceOne(x) => [x EXCEPT !.pos = @ - queryPos] = [x EXCEPT !.pos = Offset(x)]
  BY <1>2
<1>6. \A x \in cells : InPieceTwo(x) => [x EXCEPT !.pos = @ + PartOne] = [x EXCEPT !.pos = Offset(x)]
  BY <1>2
<1>7. Copied = {[x EXCEPT !.pos = @ - queryPos] : x \in {y \in cells : InPieceOne(y)}}
               \cup {[x EXCEPT !.pos = @ + PartOne] : x \in {y \in cells : InPieceTwo(y)}}
  BY <1>3, <1>4 DEF Copied
<1>8. ASSUME NEW z
      PROVE  z \in Copied <=> z \in {[x EXCEPT !.pos = Offset(x)] : x \in cells}
  <2>1. z \in Copied <=>
          \/ \E x \in cells : InPieceOne(x) /\ z = [x EXCEPT !.pos = @ - queryPos]
          \/ \E x \in cells : InPieceTwo(x) /\ z = [x EXCEPT !.pos = @ + PartOne]
    BY <1>7
  <2>. QED
    BY <1>2, <1>5, <1>6, <2>1
<1>. QED
  BY <1>8

\* An item for which the block grows.
LEMMA GrowingKeepsLayout ==
    ASSUME TypeOK, TypeOK', Layout, NEW len \in ItemSizes, PushGrowing(len),
           sent' = sent + 1, fetched' = fetched
    PROVE  (Straight \/ Wrapped)' /\ OneCellEach' /\ Tiled'
<1>1. PICK pos \in Nat : pos = dataSize
  BY DEF TypeOK
<1>2. PICK new : new = [pos |-> pos, len |-> len, id |-> sent + 1]
  OBVIOUS
<1>3. dataSize \in Nat /\ len \in Nat /\ len > 0
  BY SizesAreNat DEF TypeOK
<1>4. /\ cells' = Stored(Copied, dataSize, len) /\ insertPos' = dataSize + len
      /\ dataSize' = dataSize + len /\ terminalPos' = dataSize + len /\ queryPos' = 0
  BY DEF PushGrowing, Put
<1>5. Straight'
  BY <1>3, <1>4 DEF Straight, PartOne
<1>6. PICK m : m = [x \in cells |-> [x EXCEPT !.pos = Offset(x)]]
  OBVIOUS
<1>7. ASSUME NEW x \in cells
      PROVE  /\ m[x].id = x.id /\ m[x].len = x.len /\ m[x].pos = Offset(x)
             /\ m[x].pos + m[x].len <= dataSize
             /\ (Offset(m[x]))' = Offset(x)
             /\ (InPieceOne(m[x]) \/ InPieceTwo(m[x]))'
  <2>1. /\ x = [pos |-> x.pos, len |-> x.len, id |-> x.id]
        /\ Offset(x) \in Nat /\ x.len \in Nat /\ Offset(x) + x.len <= dataSize
    BY CellsAreWithin DEF Layout
  <2>2. m[x].id = x.id /\ m[x].len = x.len /\ m[x].pos = Offset(x)
    BY <1>6, <2>1
  <2>3. (Offset(m[x]))' = Offset(x)
    <3>1. (Offset(m[x]))' = IF m[x].pos >= 0 THEN m[x].pos - 0 ELSE m[x].pos + PartOne'
      BY <1>4 DEF Offset
    <3>. QED
      BY <2>1, <2>2, <3>1
  <2>4. InPieceOne(m[x])'
    BY <1>3, <1>4, <2>1, <2>2 DEF InPieceOne
  <2>. QED
    BY <2>1, <2>2, <2>3, <2>4
<1>8. cells' = {m[x] : x \in cells} \cup {new}
  <2>1. Copied = {m[x] : x \in cells}
    BY <1>6, CopiedIsOffset
  <2>2. {x \in Copied : x.pos + x.len <= dataSize \/ dataSize + len <= x.pos} = Copied
    BY <1>7, <2>1
  <2>. QED
    BY <1>1, <1>4, <1>2, <2>1, <2>2 DEF Stored
<1>9. (Offset(new))' = dataSize /\ (InPieceOne(new) \/ InPieceTwo(new))'
  <2>1. new.pos = dataSize /\ new.len = len
    BY <1>1, <1>2
  <2>2. (Offset(new))' = IF new.pos >= 0 THEN new.pos - 0 ELSE new.pos + PartOne'
    BY <1>4 DEF Offset
  <2>3. InPieceOne(new)'
    BY <1>3, <1>4, <2>1 DEF InPieceOne
  <2>. QED
    BY <1>3, <2>1, <2>2, <2>3
<1>10. OneCellEach' /\ Tiled'
  BY <1>4, <1>7, <1>8, <1>2, <1>9, PushedBehind
<1>. QED
  BY <1>5, <1>10

\* Taking the first item out moves the places of the others down by its length.
LEMMA PopKeepsOrder ==
    ASSUME TypeOK, TypeOK', Layout, NEW x \in cells,
           x.id = Len(fetched) + 1, Offset(x) = 0,
           \A y \in cells : y # x => x.id < y.id,
           cells' = cells \ {x}, sent' = sent, dataSize' = dataSize - x.len,
           fetched' = Append(fetched, x.id),
           \A y \in cells : y # x => /\ (InPieceOne(y) \/ InPieceTwo(y))'
                                     /\ (Offset(y))' = Offset(y) - x.len
    PROVE  OneCellEach' /\ Tiled' /\ (FifoOrder /\ confused' = confused => FifoOrder')
<1>1. /\ dataSize \in Nat /\ Len(fetched) \in Nat /\ sent \in Nat /\ fetched \in Seq(1 .. sent)
      /\ x.id \in 1 .. sent
  BY SizesAssumption DEF TypeOK
<1>2. /\ Len(fetched') = Len(fetched) + 1
      /\ \A i \in 1 .. Len(fetched') : fetched'[i] = IF i = Len(fetched) + 1 THEN x.id ELSE fetched[i]
  BY <1>1
<1>3. \A y \in cells : /\ y.len \in Nat /\ y.len > 0 /\ y.id \in Nat
                       /\ Offset(y) \in Nat /\ Offset(y) + y.len <= dataSize
  BY CellsAreWithin DEF Layout
<1>4. OneCellEach'
  <2>1. ASSUME NEW y \in cells'
        PROVE  Len(fetched') < y.id /\ (InPieceOne(y) \/ InPieceTwo(y))'
    BY <1>2
  <2>2. ASSUME NEW k \in Len(fetched') + 1 .. sent'
        PROVE  \E y \in cells' : y.id = k
    <3>1. k \in Len(fetched) + 1 .. sent /\ k # x.id
      BY <1>1, <1>2
    <3>2. PICK y \in cells : y.id = k
      BY <3>1 DEF Layout, OneCellEach
    <3>. QED
      BY <3>1, <3>2
  <2>. QED
    BY <2>1, <2>2 DEF OneCellEach
<1>5. Tiled'
  <2>1. ASSUME NEW y \in cells', NEW z \in cells'
        PROVE  /\ y.id < z.id => (Offset(y))' + y.len <= (Offset(z))'
               /\ y.id = z.id => y = z
               /\ z.id = y.id + 1 => (Offset(z))' = (Offset(y))' + y.len
    <3>1. /\ y.id < z.id => Offset(y) + y.len <= Offset(z)
          /\ y.id = z.id => y = z
          /\ z.id = y.id + 1 => Offset(z) = Offset(y) + y.len
      BY DEF Layout, Tiled
    <3>2. (Offset(y))' = Offset(y) - x.len /\ (Offset(z))' = Offset(z) - x.len
      OBVIOUS
    <3>3. /\ Offset(y) \in Nat /\ Offset(z) \in Nat /\ x.len \in Nat /\ y.len \in Nat
      BY <1>3
    <3>. QED
      BY <3>1, <3>2, <3>3
  <2>2. ASSUME NEW y \in cells', y.id = Len(fetched') + 1
        PROVE  (Offset(y))' = 0
    <3>1. y.id = x.id + 1
      BY <1>2, <2>2
    <3>2. Offset(y) = Offset(x) + x.len
      BY <3>1 DEF Layout, Tiled
    <3>. QED
      BY <1>3, <3>2
  <2>3. ASSUME NEW y \in cells', y.id = sent'
        PROVE  (Offset(y))' + y.len = dataSize'
    <3>1. Offset(y) + y.len = dataSize /\ (Offset(y))' = Offset(y) - x.len
      BY <2>3 DEF Layout, Tiled
    <3>. QED
      BY <1>1, <1>3, <3>1
  <2>4. ASSUME sent' = Len(fetched')
        PROVE  dataSize' = 0
    <3>1. Offset(x) + x.len = dataSize
      BY <1>2, <2>4 DEF Layout, Tiled
    <3>. QED
      BY <1>1, <1>3, <3>1
  <2>. QED
    BY <2>1, <2>2, <2>3, <2>4 DEF Tiled
<1>6. FifoOrder /\ confused' = confused => FifoOrder'
  BY <1>1, <1>2 DEF FifoOrder
<1>. QED
  BY <1>4, <1>5, <1>6

\* Taking the first item out of a block that is laid out.
LEMMA PopKeepsLayout ==
    ASSUME TypeOK, TypeOK', Layout, NEW x \in cells, Pop(x),
           x.id = Len(fetched) + 1, Offset(x) = 0,
           \A y \in cells : y # x => x.id < y.id,
           fetches' = fetches - 1, sent' = sent, lost' = lost, confused' = confused
    PROVE  Layout' /\ (FifoOrder => FifoOrder')
<1>1. /\ insertPos \in Nat /\ terminalPos \in Nat /\ queryPos \in Nat /\ dataSize \in Nat
      /\ insertPos <= terminalPos /\ packetCount \in Nat /\ fetches \in Nat /\ lost \in Nat
      /\ Len(fetched) \in Nat /\ sent \in Nat /\ fetched \in Seq(1 .. sent)
  BY SizesAssumption DEF TypeOK
<1>2. ASSUME NEW y \in cells
      PROVE  /\ y.pos \in Nat /\ y.len \in Nat /\ y.len > 0 /\ y.id \in Nat
             /\ Offset(y) \in Nat /\ Offset(y) + y.len <= dataSize
             /\ InPieceOne(y) \/ InPieceTwo(y)
             /\ InPieceOne(y) => Offset(y) = y.pos - queryPos
             /\ InPieceTwo(y) => y.pos < queryPos /\ Offset(y) = y.pos + PartOne
             /\ y # x => x.len <= Offset(y)
  BY CellsAreWithin DEF Layout, OneCellEach, Tiled
<1>3. /\ packetCount' = packetCount - 1 /\ dataSize' = dataSize - x.len
      /\ queryPos' = ReadPos + x.len /\ insertPos' = insertPos
      /\ terminalPos' = (IF AtTerminal THEN insertPos ELSE terminalPos)
      /\ cells' = cells \ {x} /\ fetched' = Append(fetched, x.id)
  BY DEF Pop
<1>4. Len(fetched') = Len(fetched) + 1
  BY <1>1, <1>3
<1>5. Counted'
  <2>1. fetches = packetCount + lost /\ packetCount = sent - Len(fetched)
    BY DEF Layout, Counted
  <2>2. fetches' = packetCount' + lost' /\ packetCount' = sent' - Len(fetched')
    BY <1>1, <1>3, <1>4, <2>1
  <2>. QED
    BY <2>2 DEF Counted
\* The unread bytes begin with the item: in the first piece, or, when that one is
\* read, in the second, which becomes the only one.
<1>6. CASE ~AtTerminal
  <2>1. queryPos < terminalPos
    BY <1>1, <1>6 DEF AtTerminal, Layout, Straight, Wrapped
  <2>2. InPieceOne(x) /\ x.pos = queryPos
    BY <1>1, <1>2, <2>1 DEF PartOne
  <2>3. queryPos' = queryPos + x.len /\ terminalPos' = terminalPos /\ queryPos' <= terminalPos
    BY <1>1, <1>3, <1>6, <2>2 DEF ReadPos, InPieceOne
  <2>4. PartOne' = PartOne - x.len /\ PartOne \in Int
    BY <1>1, <1>2, <2>3 DEF PartOne
  <2>5. (Straight => Straight') /\ (Wrapped => Wrapped')
    <3>1. ASSUME Straight PROVE Straight'
      BY <1>1, <1>2, <1>3, <2>3, <2>4, <3>1 DEF Straight
    <3>2. ASSUME Wrapped PROVE Wrapped'
      <4>1. /\ x.len \in Nat /\ insertPos \in Nat /\ 0 < insertPos /\ insertPos <= queryPos
            /\ dataSize = PartOne + insertPos /\ queryPos \in Nat
        BY <1>1, <1>2, <3>2 DEF Wrapped
      <4>2. dataSize' = dataSize - x.len /\ insertPos' = insertPos
        BY <1>3
      <4>3. dataSize' = PartOne' + insertPos'
        BY <1>1, <2>4, <4>1, <4>2
      <4>4. insertPos' <= queryPos' /\ queryPos' <= terminalPos'
        BY <2>3, <4>1, <4>2
      <4>. QED
        BY <4>1, <4>2, <4>3, <4>4 DEF Wrapped
    <3>. QED
      BY <3>1, <3>2
  <2>6. ASSUME NEW y \in cells, y # x
        PROVE  (InPieceOne(y) \/ InPieceTwo(y))' /\ (Offset(y))' = Offset(y) - x.len
    <3>1. /\ y.pos \in Nat /\ y.len \in Nat /\ x.len \in Nat /\ x.len <= Offset(y)
          /\ InPieceOne(y) => Offset(y) = y.pos - queryPos
          /\ InPieceTwo(y) => y.pos < queryPos /\ Offset(y) = y.pos + PartOne
      BY <1>2, <2>6
    <3>2. CASE InPieceOne(y)
      <4>1. Offset(y) = y.pos - queryPos
        BY <3>1, <3>2
      <4>2. queryPos' <= y.pos
        BY <1>1, <2>3, <3>1, <4>1
      <4>3. (Offset(y))' = y.pos - queryPos'
        BY <4>2 DEF Offset
      <4>4. InPieceOne(y)'
        BY <2>3, <3>2, <4>2 DEF InPieceOne
      <4>. QED
        BY <1>1, <2>3, <3>1, <4>1, <4>3, <4>4
    <3>3. CASE InPieceTwo(y)
      <4>1. Offset(y) = y.pos + PartOne /\ y.pos < queryPos
        BY <3>1, <3>3
      <4>2. ~(y.pos >= queryPos') /\ (Offset(y))' = y.pos + PartOne'
        <5>1. ~(y.pos >= queryPos')
          BY <1>1, <2>3, <3>1, <4>1
        <5>. QED
          BY <5>1 DEF Offset
      <4>3. InPieceTwo(y)'
        BY <1>3, <2>5, <3>3 DEF InPieceTwo
      <4>. QED
        BY <2>4, <3>1, <4>1, <4>2, <4>3
    <3>. QED
      BY <1>2, <3>2, <3>3
  <2>. QED
    BY <1>3, <1>4, <1>5, <2>5, <2>6, PopKeepsOrder DEF Layout
<1>7. CASE AtTerminal
  <2>1. Wrapped /\ PartOne = 0 /\ InPieceTwo(x) /\ x.pos = 0 /\ queryPos = terminalPos
    <3>1. queryPos = terminalPos /\ PartOne = 0
      BY <1>1, <1>7 DEF AtTerminal, PartOne
    <3>2. ~InPieceOne(x)
      BY <1>1, <1>2, <3>1 DEF InPieceOne
    <3>3. InPieceTwo(x) /\ Wrapped
      BY <1>2, <3>2 DEF InPieceTwo
    <3>. QED
      BY <1>2, <3>1, <3>3
  <2>2. queryPos' = x.len /\ terminalPos' = insertPos /\ insertPos' = insertPos
    BY <1>2, <1>3, <1>7 DEF ReadPos
  <2>3. dataSize = insertPos
    BY <1>1, <2>1 DEF Wrapped
  <2>4. Straight'
    BY <1>1, <1>2, <1>3, <2>2, <2>3 DEF Straight, PartOne
  <2>5. ASSUME NEW y \in cells, y # x
        PROVE  InPieceOne(y)' /\ (Offset(y))' = Offset(y) - x.len
    <3>1. y.pos \in Nat /\ y.len \in Nat /\ y.len > 0 /\ x.len \in Nat /\ x.len <= Offset(y)
      BY <1>2, <2>5
    <3>2. InPieceTwo(y)
      <4>1. ~InPieceOne(y)
        BY <1>1, <2>1, <3>1 DEF InPieceOne
      <4>. QED
        BY <1>2, <4>1
    <3>3. Offset(y) = y.pos /\ y.pos + y.len <= insertPos
      BY <1>2, <2>1, <3>1, <3>2 DEF InPieceTwo
    <3>. QED
      BY <2>2, <3>1, <3>3 DEF InPieceOne, Offset
  <2>. QED
    BY <1>3, <1>4, <1>5, <2>4, <2>5, PopKeepsOrder DEF Layout
<1>. QED
  BY <1>6, <1>7

-----------------------------------------------------------------------------
(* The invariant                                                           *)

LEMMA InductiveInit == Init => Inductive
<1>1. ASSUME Init PROVE Layout /\ FifoOrder /\ FailuresKnown
  <2>1. Straight /\ cells = {} /\ dataSize = 0
    BY <1>1 DEF Init, Straight, PartOne
  <2>2. Len(fetched) = 0 /\ sent = 0 /\ packetCount = 0 /\ fetches = 0 /\ lost = 0
    BY <1>1 DEF Init
  <2>3. OneCellEach /\ Tiled /\ Counted
    BY <2>1, <2>2 DEF OneCellEach, Tiled, Counted
  <2>. QED
    BY <1>1, <2>1, <2>2, <2>3 DEF Init, Layout, FifoOrder, FailuresKnown
<1>. QED
  BY <1>1, TypesInit DEF Inductive, Accounted

\* A layout, its order and its counters do not depend on anything else.
LEMMA LayoutUnchanged ==
    ASSUME Layout, UNCHANGED <<posVars, sizeVars, cells, sent, fetched>>,
           fetches' = packetCount + lost'
    PROVE  Layout'
<1>1. UNCHANGED <<insertPos, terminalPos, queryPos, dataSize, packetCount, cells, sent, fetched>>
  BY DEF posVars, sizeVars
<1>2. Counted'
  BY <1>1 DEF Layout, Counted
<1>. QED
  BY <1>1, <1>2 DEF Layout, Straight, Wrapped, OneCellEach, Tiled, Offset, PartOne,
                    InPieceOne, InPieceTwo

LEMMA SendKeeps ==
    ASSUME Inductive, TypeOK', failed = "none", NEW n \in Lengths, HostAsynSend(n)
    PROVE  Inductive'
<1>1. PICK len \in ItemSizes : len = n + MsgHeader + DataHead
  BY ItemSizesAre DEF HostAsynSend
<1>2. fetched' = fetched /\ AddQueueItem(len)
  BY <1>1 DEF HostAsynSend
<1>3. CASE confused
  <2>1. confused'
    BY <1>2, <1>3 DEF AddQueueItem, Push, PushInPlace, PushGrowing, PushFailing, PushAsserting
  <2>. QED
    BY <2>1 DEF Inductive, Accounted, FifoOrder, FailuresKnown
<1>4. CASE ~confused
  <2>1. TypeOK /\ Layout /\ FifoOrder
    BY <1>4 DEF Inductive, Accounted
  <2>2. GrowAsserts
    BY <2>1, GrowthAsserts
  <2>3. FifoOrder'
    BY <1>2, <1>4, <2>1 DEF FifoOrder
  <2>4. /\ fetches' = fetches + 1 /\ failed' = "none"
        /\ Push(len) \/ PushFailing(len)
    BY <1>2, <2>2 DEF AddQueueItem, Push, PushFailing, PushAsserting
  <2>5. /\ fetches = packetCount + lost /\ packetCount = sent - Len(fetched)
        /\ packetCount \in Nat /\ sent \in Nat /\ Len(fetched) \in Nat /\ lost \in Nat
    BY <2>1, SizesAssumption DEF Layout, Counted, TypeOK
  <2>6. CASE PushFailing(len)
    <3>1. Layout'
      <4>1. fetches' = packetCount + lost'
        BY <2>4, <2>5, <2>6 DEF PushFailing
      <4>. QED
        BY <1>2, <2>1, <2>6, <4>1, LayoutUnchanged DEF PushFailing
    <3>. QED
      BY <2>3, <2>4, <3>1 DEF Inductive, Accounted, FailuresKnown
  <2>7. CASE Push(len)
    <3>1. sent' = sent + 1 /\ lost' = lost /\ packetCount' = packetCount + 1
      BY <2>7 DEF Push, PushInPlace, PushGrowing, Put
    <3>2. Counted'
      BY <1>2, <2>4, <2>5, <3>1 DEF Counted
    <3>3. ~confused' => (Straight \/ Wrapped)' /\ OneCellEach' /\ Tiled'
      <4>1. CASE PushInPlace(len)
        BY <1>2, <2>1, <3>1, <4>1, InPlaceKeepsLayout
      <4>2. CASE PushGrowing(len)
        BY <1>2, <2>1, <3>1, <4>2, GrowingKeepsLayout
      <4>. QED
        BY <2>7, <4>1, <4>2 DEF Push
    <3>. QED
      BY <2>3, <2>4, <3>2, <3>3 DEF Inductive, Accounted, Layout, FailuresKnown
  <2>. QED
    BY <2>4, <2>6, <2>7
<1>. QED
  BY <1>3, <1>4

\* The first cell passes every assertion of pop_item but that on the work buffer.
LEMMA FirstCellPops ==
    ASSUME TypeOK, Layout, NEW x \in cells, Offset(x) = 0, x.pos = ReadPos
    PROVE  /\ PopAsserts(x) = (IF WorkBuffer < x.len - DataHead THEN "workbuffer" ELSE "none")
           /\ dataSize # 0
<1>1. /\ x.len \in Nat /\ x.len > 0 /\ x.len <= dataSize /\ x.pos + x.len <= bufferSize
      /\ dataSize \in Nat /\ x.pos \in Nat /\ bufferSize \in Nat
  BY CellsAreWithin DEF Layout, TypeOK
<1>2. ~(ReadPos + x.len > bufferSize) /\ ~(x.len > dataSize)
  BY <1>1
<1>. QED
  BY <1>1, <1>2 DEF PopAsserts

LEMMA FetchKeeps ==
    ASSUME Inductive, TypeOK', failed = "none", ProcessFetchBuf
    PROVE  Inductive'
<1>1. CASE confused
  <2>1. confused'
    BY <1>1 DEF ProcessFetchBuf
  <2>. QED
    BY <2>1 DEF Inductive, Accounted, FifoOrder, FailuresKnown
<1>2. CASE ~confused
  <2>1. TypeOK /\ Layout /\ FifoOrder /\ fetches > 0 /\ UNCHANGED <<confused, sent, lost>>
        /\ fetches' = fetches - 1
    BY <1>2 DEF Inductive, Accounted, ProcessFetchBuf
  <2>2. /\ fetches = packetCount + lost /\ packetCount = sent - Len(fetched)
        /\ packetCount \in Nat /\ sent \in Nat /\ Len(fetched) \in Nat /\ lost \in Nat
    BY <2>1, SizesAssumption DEF Layout, Counted, TypeOK
  <2>3. ASSUME UNCHANGED <<posVars, sizeVars, cells, fetched>>, failed' # "none", FailuresKnown'
        PROVE  Inductive'
    <3>1. FifoOrder'
      BY <2>1, <2>3 DEF FifoOrder
    <3>. QED
      BY <2>3, <3>1 DEF Inductive, Accounted
\* A command too many: an item was lost, and all the others are fetched.
  <2>4. CASE packetCount = 0
    <3>1. failed' = "empty" /\ UNCHANGED <<posVars, sizeVars, cells, fetched>>
      BY <2>4 DEF ProcessFetchBuf
    <3>2. lost' > 0 /\ Len(fetched') = sent'
      BY <2>1, <2>2, <2>4, <3>1
    <3>. QED
      BY <2>3, <3>1, <3>2 DEF FailuresKnown
  <2>5. CASE packetCount # 0
    <3>1. PICK x \in cells : /\ x.id = Len(fetched) + 1 /\ Offset(x) = 0
                             /\ CellAt(ReadPos) = {x}
                             /\ \A y \in cells : y # x => x.id < y.id
      BY <2>1, <2>2, <2>5, FirstCell
    <3>2. (CHOOSE y \in CellAt(ReadPos) : TRUE) = x /\ x.pos = ReadPos
      BY <3>1 DEF CellAt
    <3>3. /\ PopAsserts(x) = (IF WorkBuffer < x.len - DataHead THEN "workbuffer" ELSE "none")
          /\ dataSize # 0
      BY <2>1, <3>1, <3>2, FirstCellPops
    <3>4. /\ failed' = PopAsserts(x)
          /\ IF failed' = "none" THEN Pop(x) ELSE UNCHANGED <<posVars, sizeVars, cells, fetched>>
      BY <2>5, <3>1, <3>2, <3>3 DEF ProcessFetchBuf
    <3>5. CASE WorkBuffer < x.len - DataHead
      <4>1. failed' = "workbuffer" /\ UNCHANGED <<posVars, sizeVars, cells, fetched>>
        BY <3>3, <3>4, <3>5
      <4>2. x.len - DataHead > WorkBuffer
        BY <3>5, SizesAreNat, SizesAssumption DEF TypeOK
      <4>3. FailuresKnown'
        BY <3>1, <4>1, <4>2 DEF FailuresKnown
      <4>. QED
        BY <2>3, <4>1, <4>3
    <3>6. CASE ~(WorkBuffer < x.len - DataHead)
      <4>1. failed' = "none" /\ Pop(x)
        BY <3>3, <3>4, <3>6
      <4>2. Layout' /\ FifoOrder'
        BY <2>1, <3>1, <4>1, PopKeepsLayout
      <4>. QED
        BY <4>1, <4>2 DEF Inductive, Accounted, FailuresKnown
    <3>. QED
      BY <3>5, <3>6
  <2>. QED
    BY <2>4, <2>5
<1>. QED
  BY <1>1, <1>2

LEMMA InductiveNext == Inductive /\ [Next]_vars => Inductive'
<1>1. ASSUME Inductive, UNCHANGED vars PROVE Inductive'
  <2>1. UNCHANGED <<posVars, sizeVars, cells, fetches, failed, confused, sent, lost, fetched>>
    BY <1>1 DEF vars
  <2>2. TypeOK'
    BY <1>1, TypesKept DEF Inductive, Accounted
  <2>3. Layout => Layout'
    BY <2>1, LayoutUnchanged DEF Layout, Counted
  <2>. QED
    BY <1>1, <2>1, <2>2, <2>3 DEF Inductive, Accounted, FifoOrder, FailuresKnown
<1>2. ASSUME Inductive, Next PROVE Inductive'
  <2>1. TypeOK'
    BY <1>2, TypesKept DEF Inductive, Accounted
  <2>. QED
    BY <1>2, <2>1, SendKeeps, FetchKeeps DEF Next
<1>. QED
  BY <1>1, <1>2

LEMMA Invariance == Spec => []Inductive
BY InductiveInit, InductiveNext, PTL DEF Spec

-----------------------------------------------------------------------------
(* Theorems                                                                *)

\* Until an item is put behind a full lap, the unread bytes of the ring are
\* exactly the items queued and not fetched, in order and none over another, and
\* the counters of data_queue_t and the commands of the reaper count them.
THEOREM RingIsAccounted == Spec => []Accounted
<1>1. Inductive => Accounted
  BY DEF Inductive
<1>. QED
  BY <1>1, Invariance, PTL

\* Until then the reaper gets the items in the order host_asyn_send queued them,
\* with none lost and none twice.
THEOREM ItemsInOrder == Spec => []FifoOrder
<1>1. Inductive => FifoOrder
  BY DEF Inductive
<1>. QED
  BY <1>1, Invariance, PTL

\* Until then an assertion fails for two reasons only, whatever the lengths and
\* wherever memory is refused: pop_item's on the work buffer, at an item longer
\* than it, and the one on an empty queue, after every item push_item took has
\* been fetched and at least one was lost.  Those on growth, on the block and on
\* the sizes never fail, and no head that is read was written over.
THEOREM AssertionsThatFail == Spec => []FailuresKnown
<1>1. Inductive => FailuresKnown
  BY DEF Inductive
<1>. QED
  BY <1>1, Invariance, PTL

=============================================================================

------------------------------ MODULE SendQueue ------------------------------
(***************************************************************************)
(* The path of host_asyn_send: the application's threads put a buffer into *)
(* the reaper's data_queue_t and send it fetch_buf; for each fetch_buf the *)
(* reaper takes one item out into its work buffer.  sync_queue makes both  *)
(* sides atomic, and the command is sent before it is given back.          *)
(*                                                                         *)
(* data_queue_t is one block of memory used as a ring: items are laid one  *)
(* after the other up to a terminal position, then again from 0 while the  *)
(* query position leaves room, and the block is replaced by a larger one   *)
(* when there is no room.  Positions and sizes are the code's, in bytes;   *)
(* the bytes of an item are kept as one cell with its place and its number *)
(* and a cell that is written over in part is gone.  The larger block may  *)
(* be refused: push_item returns false, nobody looks, fetch_buf is sent.   *)
(***************************************************************************)
EXTENDS Integers, Sequences

CONSTANTS
    Lengths,     \* the nLength arguments of host_asyn_send
    MaxPackLen,  \* MAX_NET_PACK_LEN
    WorkBuffer,  \* sizeof (workbuffer), NET_MAX_ASYNCHRONISM_DATA
    MsgHeader,   \* sizeof (queue_msg_header)
    DataHead,    \* sizeof (tagDataHead)
    GrowItems,   \* items the block grows by, at least
    MaxSends     \* bound: calls of host_asyn_send

ASSUME LengthsAssumption == Lengths \subseteq Int
ASSUME SizesAssumption ==
    /\ {MaxPackLen, WorkBuffer, MsgHeader, DataHead, GrowItems, MaxSends} \subseteq Nat \ {0}
    /\ MaxPackLen + MsgHeader + DataHead < 65536  \* wDataSize and wPacketSize are of 16 bits

VARIABLES
    insertPos, terminalPos, queryPos,   \* m_dwInsertPos, m_dwTerminalPos, m_dwDataQueryPos
    dataSize, packetCount, bufferSize,  \* m_dwDataSize, m_dwDataPacketCount, m_dwBufferSize
    cells,      \* the items in the block: [pos, len, id], len with the head
    fetches,    \* fetch_buf commands in the reaper's mailbox
    failed,     \* the assertion that stopped the process, or "none"
    confused,   \* history: an item was put behind a full lap (see FullLap)
    sent,       \* history: items queued so far; the number of an item
    lost,       \* history: items push_item had no memory for
    fetched     \* history: the numbers the reaper has taken out, in order

posVars == <<insertPos, terminalPos, queryPos>>
sizeVars == <<dataSize, packetCount, bufferSize>>
vars == <<posVars, sizeVars, cells, fetches, failed, confused, sent, lost, fetched>>

Larger(m, n) == IF m >= n THEN m ELSE n

Init ==
    /\ insertPos = 0 /\ terminalPos = 0 /\ queryPos = 0
    /\ dataSize = 0 /\ packetCount = 0 /\ bufferSize = 0
    /\ cells = {}
    /\ fetches = 0
    /\ failed = "none"
    /\ confused = FALSE
    /\ sent = 0 /\ lost = 0
    /\ fetched = <<>>

-----------------------------------------------------------------------------
(* push_item                                                               *)

\* The three conditions of the check, in the code's order.  len is the size of
\* the item with its head.
NoRoomAtAll(len) == dataSize + len > bufferSize
AtTheEnd(len) == insertPos = terminalPos /\ insertPos + len > bufferSize
NoRoomBefore(len) == insertPos < terminalPos /\ insertPos + len > queryPos

\* Fault: the unread items before the query position are not looked at.
MustGrowOverwrites(len) == NoRoomAtAll(len) \/ (AtTheEnd(len) /\ queryPos < len)

MustGrow(len) ==
    \/ NoRoomAtAll(len)
    \/ AtTheEnd(len) /\ queryPos < len
    \/ ~AtTheEnd(len) /\ NoRoomBefore(len)

GrownSize(len) == bufferSize + Larger(bufferSize \div 2, len * GrowItems)

\* The copy into the larger block: what lies between the query and the terminal
\* position first, then what lies before the insert position.
PartOne == terminalPos - queryPos

GrowAsserts ==
    bufferSize > 0 =>
        /\ terminalPos >= dataSize
        /\ terminalPos >= queryPos
        /\ dataSize > PartOne => insertPos + PartOne = dataSize

Within(low, high) == {x \in cells : low <= x.pos /\ x.pos + x.len <= high}

\* Fault: the block is copied from its start, not from the query position.
CopiedFromStart == Within(0, insertPos)

Copied ==
    {[x EXCEPT !.pos = @ - queryPos] : x \in Within(queryPos, terminalPos)}
    \cup IF dataSize > PartOne
         THEN {[x EXCEPT !.pos = @ + PartOne] : x \in Within(0, insertPos)}
         ELSE {}

\* Store the item at pos in the block memory; whatever it overlaps is lost.
Stored(memory, pos, len) ==
    {x \in memory : x.pos + x.len <= pos \/ pos + len <= x.pos}
    \cup {[pos |-> pos, len |-> len, id |-> sent + 1]}

Put(memory, pos, len) ==
    /\ cells' = Stored(memory, pos, len)
    /\ insertPos' = pos + len
    /\ dataSize' = dataSize + len
    /\ packetCount' = packetCount + 1

\* Everything up to the terminal position has been read, and the items written
\* again from 0 end exactly there: the three positions are those of an empty
\* block that has not wrapped.
FullLap == dataSize > 0 /\ insertPos = terminalPos /\ queryPos = terminalPos

PushInPlace(len) ==
    LET pos == IF AtTheEnd(len) THEN 0 ELSE insertPos
    IN  /\ ~MustGrow(len)
        /\ Put(cells, pos, len)
        /\ terminalPos' = Larger(terminalPos, pos + len)
        /\ confused' = (confused \/ FullLap)
        /\ UNCHANGED <<queryPos, bufferSize>>

PushGrowing(len) ==
    /\ MustGrow(len)
    /\ GrowAsserts
    /\ Put(Copied, dataSize, len)
    /\ terminalPos' = dataSize + len
    /\ queryPos' = 0
    /\ bufferSize' = GrownSize(len)
    /\ UNCHANGED confused

\* push_item returns true.
Push(len) ==
    /\ PushInPlace(len) \/ PushGrowing(len)
    /\ sent' = sent + 1
    /\ UNCHANGED <<lost, failed>>

\* Fault: the positions are moved before the memory is asked for.
PushFailingMoved(len) ==
    /\ MustGrow(len)
    /\ lost' = lost + 1
    /\ queryPos' = 0 /\ insertPos' = dataSize /\ terminalPos' = dataSize
    /\ UNCHANGED <<sizeVars, cells, confused, sent, failed>>

\* push_item returns false: new throws before anything has changed.
PushFailing(len) ==
    /\ MustGrow(len)
    /\ lost' = lost + 1
    /\ UNCHANGED <<posVars, sizeVars, cells, confused, sent, failed>>

\* push_item stops the process: the copy into the new block asserts.
PushAsserting(len) ==
    /\ MustGrow(len) /\ ~GrowAsserts
    /\ failed' = "growth"
    /\ UNCHANGED <<posVars, sizeVars, cells, confused, sent, lost>>

\* Fault: the reaper is told only when the queue was empty.
AddQueueItemWhenEmpty(len) ==
    \/ /\ Push(len) \/ PushFailing(len)
       /\ fetches' = IF packetCount = 0 THEN fetches + 1 ELSE fetches
    \/ PushAsserting(len) /\ UNCHANGED fetches

\* reaper_t::add_queue_item does not look at the result of push_item: fetch_buf
\* is sent for a lost item too.
AddQueueItem(len) ==
    \/ (Push(len) \/ PushFailing(len)) /\ fetches' = fetches + 1
    \/ PushAsserting(len) /\ UNCHANGED fetches

\* host_asyn_send of n bytes: a bad length is dropped, anything else is queued
\* behind a header and announced.
HostAsynSend(n) ==
    /\ sent + lost < MaxSends
    /\ n > 0 /\ n <= MaxPackLen
    /\ AddQueueItem(n + MsgHeader + DataHead)
    /\ UNCHANGED fetched

-----------------------------------------------------------------------------
(* pop_item                                                                *)

\* Where pop_item reads: at the terminal position it starts again from 0.
AtTerminal == queryPos = terminalPos
ReadPos == IF AtTerminal THEN 0 ELSE queryPos

\* The cell whose head is at pos; a head that was written over reads as
\* anything, so the pop has no defined outcome.
CellAt(pos) == {x \in cells : x.pos = pos}

PopAsserts(x) ==
    IF WorkBuffer < x.len - DataHead THEN "workbuffer"
    ELSE IF ReadPos + x.len > bufferSize THEN "block"
    ELSE IF x.len > dataSize THEN "size"
    ELSE "none"

Pop(x) ==
    /\ packetCount' = packetCount - 1
    /\ dataSize' = dataSize - x.len
    /\ queryPos' = ReadPos + x.len
    /\ terminalPos' = IF AtTerminal THEN insertPos ELSE terminalPos
    /\ cells' = cells \ {x}
    /\ fetched' = Append(fetched, x.id)
    /\ UNCHANGED <<insertPos, bufferSize>>

\* process_fetch_buf; what it does with the item is commented out.
ProcessFetchBuf ==
    LET x == CHOOSE y \in CellAt(ReadPos) : TRUE
    IN  /\ fetches > 0
        /\ fetches' = fetches - 1
        /\ failed' = IF dataSize = 0 \/ packetCount = 0 THEN "empty"
                     ELSE IF CellAt(ReadPos) = {} THEN "garbage"
                     ELSE PopAsserts(x)
        /\ IF failed' = "none" THEN Pop(x)
           ELSE UNCHANGED <<posVars, sizeVars, cells, fetched>>
        /\ UNCHANGED <<confused, sent, lost>>

\* A failed assertion ends the process.
Next ==
    /\ failed = "none"
    /\ ProcessFetchBuf \/ \E n \in Lengths : HostAsynSend(n)

Spec == Init /\ [][Next]_vars /\ WF_vars(failed = "none" /\ ProcessFetchBuf)

-----------------------------------------------------------------------------
(* Properties                                                              *)

\* The sizes an item can have in the block.
ItemSizes == {n + MsgHeader + DataHead : n \in {l \in Lengths : l > 0 /\ l <= MaxPackLen}}

TypeOK ==
    /\ bufferSize \in Nat
    /\ {terminalPos, queryPos, dataSize} \subseteq 0 .. bufferSize
    /\ insertPos \in 0 .. terminalPos
    /\ {packetCount, fetches} \subseteq Nat
    /\ cells \subseteq [pos : Nat, len : ItemSizes, id : 1 .. sent]
    /\ \A x \in cells : x.pos + x.len <= bufferSize
    /\ failed \in {"none", "growth", "garbage", "empty", "workbuffer", "block", "size"}
    /\ confused \in BOOLEAN
    /\ {sent, lost} \subseteq 0 .. MaxSends /\ sent + lost <= MaxSends
    /\ fetched \in Seq(1 .. sent)

\* The code keeps its promises until an item is put behind a full lap, and only
\* that breaks them: each property below is about the behaviours without it.

\* The reaper gets the items push_item took in the order they were queued, none
\* is left out and none comes twice.
FifoOrder == ~confused => \A i \in 1 .. Len(fetched) : fetched[i] = i

\* The assertions that can fail, each with its cause: process_fetch_buf finds
\* nothing when an item was lost for want of memory and all the others are
\* fetched; pop_item finds its buffer too small for the item that is next, as
\* the limit on the length leaves out the header.  The parts of the ring add up
\* whenever it grows, no head is written over, no item leaves the block.
FailuresKnown ==
    ~confused =>
        \/ failed = "none"
        \/ failed = "empty" /\ lost > 0 /\ Len(fetched) = sent
        \/ /\ failed = "workbuffer"
           /\ \E x \in cells : x.id = Len(fetched) + 1 /\ x.len - DataHead > WorkBuffer

\* Where the item x stands among the unread bytes: those from the query
\* position on come first, those from 0 after them.
Offset(x) == IF x.pos >= queryPos THEN x.pos - queryPos ELSE x.pos + PartOne

\* The two shapes of the ring: the unread bytes lie in one piece, or up to the
\* terminal position and then again from 0.
Straight == insertPos = terminalPos /\ queryPos <= terminalPos /\ dataSize = PartOne
Wrapped ==
    /\ 0 < insertPos /\ insertPos <= queryPos /\ queryPos <= terminalPos
    /\ dataSize = PartOne + insertPos

InPieceOne(x) == queryPos <= x.pos /\ x.pos + x.len <= terminalPos
InPieceTwo(x) == Wrapped /\ x.pos + x.len <= insertPos

\* Each item that was sent and not fetched has one cell, in one of the pieces.
OneCellEach ==
    /\ \A x \in cells : Len(fetched) < x.id /\ (InPieceOne(x) \/ InPieceTwo(x))
    /\ \A k \in Len(fetched) + 1 .. sent : \E x \in cells : x.id = k

\* The cells follow each other in the order they were sent, without a gap, from
\* the place that is read next to the end of the data.
Tiled ==
    /\ \A x, y \in cells : x.id < y.id => Offset(x) + x.len <= Offset(y)
    /\ \A x, y \in cells : x.id = y.id => x = y
    /\ \A x, y \in cells : y.id = x.id + 1 => Offset(y) = Offset(x) + x.len
    /\ \A x \in cells : x.id = Len(fetched) + 1 => Offset(x) = 0
    /\ \A x \in cells : x.id = sent => Offset(x) + x.len = dataSize
    /\ sent = Len(fetched) => dataSize = 0

Counted == packetCount = sent - Len(fetched) /\ fetches = packetCount + lost

\* The positions stay inside of the block, and with the counters they describe
\* it: a packet and a command for each item sent and not yet fetched, a command
\* too many for each item lost, and the items that are not fetched fill exactly
\* the unread bytes, in order, none over another.
Layout == (Straight \/ Wrapped) /\ OneCellEach /\ Tiled /\ Counted
Accounted == TypeOK /\ (~confused /\ failed = "none" => Layout)

\* Everything push_item takes is eventually fetched, whatever was lost before or
\* after, unless an item that is too long for the work buffer stops the process.
AllFetched ==
    \A k \in 1 .. MaxSends :
        sent >= k ~> Len(fetched) >= k \/ confused \/ failed = "workbuffer"

\* data_queue.cpp:88: when the block grows, the part before the insert
\* position and the part up to the terminal position are all there is.
GrowthAssertHolds == failed # "growth"

=============================================================================

------------------------------- MODULE YQueue -------------------------------
(***************************************************************************)
(* yqueue_t: the chunked queue behind every pipe.  The writer appends      *)
(* cells and links a new chunk when the last one is full; the reader       *)
(* removes cells and, when it leaves a chunk, exchanges that chunk with    *)
(* the spare one, which the writer may take instead of calling malloc.     *)
(* The spare pointer is the only word both threads write; everything else  *)
(* rests on neither thread touching memory the other has given up.         *)
(*                                                                         *)
(* Chunks are pieces of memory: alloc is the set malloc has handed out and *)
(* free has not taken back, and a pointer field of a chunk that was never  *)
(* written holds Garbage.  fault records a free or a dereference of        *)
(* anything that is not allocated.  The calls follow the use ypipe_t makes *)
(* of the class: a cell is written before push (), the reader removes only *)
(* what was flushed, and unpush () undoes only what was not.               *)
(***************************************************************************)
EXTENDS Naturals, Sequences, FiniteSets

CONSTANTS
    Chunks,      \* the pieces of memory malloc can return
    N,           \* cells of a chunk (command_pipe_granularity, 256)
    Null,        \* the null pointer
    Garbage,     \* the value of a pointer field nobody has written
    MaxWrites    \* bound: cells written and not taken back

ASSUME NAssumption == N \in Nat /\ N >= 2
ASSUME MemoryAssumption == IsFiniteSet(Chunks)
ASSUME NullAssumption == Null \notin Chunks
ASSUME GarbageAssumption == Garbage \notin Chunks \cup {Null}
ASSUME BoundAssumption == MaxWrites \in Nat

VARIABLES
    begin, beginPos,      \* the reader's: the oldest cell
    back, backPos,        \* the writer's: the last cell pushed
    end, endPos,          \* the writer's: the cell the next push () takes
    spare,                \* spare_chunk, exchanged atomically
    alloc, next, prev, values,   \* the memory
    written, flushed, removed,   \* cells written, visible and removed
    wpc, taken,           \* the writer's place, and its local sc
    rpc, left, cast,      \* the reader's place, and its locals o and cs
    phase,                \* "live", "chain", "spare" (of the destructor), "gone"
    fault

writerVars == <<back, backPos, end, endPos, wpc, taken>>
readerVars == <<begin, beginPos, rpc, left, cast>>
heapVars == <<alloc, next, prev, values>>
countVars == <<written, flushed, removed>>
vars == <<writerVars, readerVars, heapVars, countVars, spare, phase, fault>>

Pointers == Chunks \cup {Null, Garbage}

-----------------------------------------------------------------------------
(* The memory. *)

Faulty(p) == p \notin alloc

\* Whether a thread that dereferences or frees p does something undefined.
Touches(p) == fault' = (fault \/ Faulty(p))

\* free () takes null pointers; what a chunk held is lost with it.
Free(p) ==
    /\ alloc' = alloc \ {p}
    /\ next' = [c \in Chunks |-> IF c = p THEN Garbage ELSE next[c]]
    /\ prev' = [c \in Chunks |-> IF c = p THEN Garbage ELSE prev[c]]
    /\ values' = [c \in Chunks |-> IF c = p THEN [i \in 0 .. N - 1 |-> 0] ELSE values[c]]
    /\ fault' = (fault \/ (p # Null /\ Faulty(p)))

\* The ctor of the queue followed by the push () of the pipe's ctor.
Init ==
    \E c \in Chunks :
        /\ alloc = {c}
        /\ begin = c /\ beginPos = 0
        /\ back = c /\ backPos = 0
        /\ end = c /\ endPos = 1
        /\ spare = Null
        /\ next = [k \in Chunks |-> Garbage]
        /\ prev = [k \in Chunks |-> Garbage]
        /\ values = [k \in Chunks |-> [i \in 0 .. N - 1 |-> 0]]
        /\ written = 0 /\ flushed = 0 /\ removed = 0
        /\ wpc = "idle" /\ taken = Null
        /\ rpc = "idle" /\ left = Null /\ cast = Null
        /\ phase = "live"
        /\ fault = FALSE

-----------------------------------------------------------------------------
(* The writer. *)

\* ypipe_t::write: the value goes into the back cell, push () makes the end
\* cell the back one and steps over it.  Only a full chunk needs more.
Write ==
    /\ phase = "live" /\ wpc = "idle" /\ written < MaxWrites
    /\ Touches(back)
    /\ values' = [values EXCEPT ![back] = [@ EXCEPT ![backPos] = written + 1]]
    /\ back' = end
    /\ backPos' = endPos
    /\ endPos' = endPos + 1
    /\ written' = written + 1
    /\ wpc' = IF endPos + 1 = N THEN "exchange" ELSE "idle"
    /\ UNCHANGED <<end, taken, readerVars, alloc, next, prev, flushed, removed,
                   spare, phase>>

\* sc = spare_chunk.xchg (NULL)
TakeSpare ==
    /\ wpc = "exchange"
    /\ taken' = spare
    /\ spare' = Null
    /\ wpc' = "link"
    /\ UNCHANGED <<back, backPos, end, endPos, readerVars, heapVars, countVars,
                   phase, fault>>

\* The new chunk is linked behind the end chunk and becomes it; its next
\* field stays as it was found.
LinkTo(c) ==
    /\ next' = [next EXCEPT ![end] = c]
    /\ prev' = [prev EXCEPT ![c] = end]
    /\ end' = c
    /\ endPos' = 0
    /\ wpc' = "idle"
    /\ taken' = Null
    /\ UNCHANGED <<back, backPos, values, readerVars, countVars, spare, phase>>

LinkSpare ==
    /\ wpc = "link" /\ taken # Null
    /\ fault' = (fault \/ Faulty(end) \/ Faulty(taken))
    /\ LinkTo(taken)
    /\ UNCHANGED alloc

LinkNew ==
    /\ wpc = "link" /\ taken = Null
    /\ Touches(end)
    /\ \E c \in Chunks \ alloc : alloc' = alloc \cup {c} /\ LinkTo(c)

\* ypipe_t::flush makes what is written visible to the reader.
Flush ==
    /\ phase = "live" /\ wpc = "idle" /\ flushed < written
    /\ flushed' = written
    /\ UNCHANGED <<writerVars, readerVars, heapVars, written, removed, spare,
                   phase, fault>>

\* Fault: moving back over the edge of a chunk lands on its first cell.
UnwriteToFirst ==
    /\ phase = "live" /\ wpc = "idle" /\ flushed < written
    /\ fault' = (fault \/ (backPos = 0 /\ Faulty(back))
                       \/ (endPos = 0 /\ Faulty(end)))
    /\ back' = IF backPos = 0 THEN prev[back] ELSE back
    /\ backPos' = IF backPos = 0 THEN 0 ELSE backPos - 1
    /\ end' = IF endPos = 0 THEN prev[end] ELSE end
    /\ endPos' = IF endPos = 0 THEN N - 1 ELSE endPos - 1
    /\ written' = written - 1
    /\ wpc' = IF endPos = 0 THEN "cut" ELSE "idle"
    /\ UNCHANGED <<taken, readerVars, heapVars, flushed, removed, spare, phase>>

\* ypipe_t::unwrite on an item that is not flushed: unpush () moves back and
\* then end one cell backwards, each over the edge of its chunk if need be.
Unwrite ==
    /\ phase = "live" /\ wpc = "idle" /\ flushed < written
    /\ fault' = (fault \/ (backPos = 0 /\ Faulty(back))
                       \/ (endPos = 0 /\ Faulty(end)))
    /\ back' = IF backPos = 0 THEN prev[back] ELSE back
    /\ backPos' = IF backPos = 0 THEN N - 1 ELSE backPos - 1
    /\ end' = IF endPos = 0 THEN prev[end] ELSE end
    /\ endPos' = IF endPos = 0 THEN N - 1 ELSE endPos - 1
    /\ written' = written - 1
    /\ wpc' = IF endPos = 0 THEN "cut" ELSE "idle"
    /\ UNCHANGED <<taken, readerVars, heapVars, flushed, removed, spare, phase>>

\* The chunk that is no longer needed is freed at once.
CutEnd ==
    /\ wpc = "cut"
    /\ alloc' = alloc \ {next[end]}
    /\ fault' = (fault \/ Faulty(end) \/ Faulty(next[end]))
    /\ next' = [c \in Chunks |-> IF c = end THEN Null
                                ELSE IF c = next[end] THEN Garbage ELSE next[c]]
    /\ prev' = [c \in Chunks |-> IF c = next[end] THEN Garbage ELSE prev[c]]
    /\ values' = [c \in Chunks |-> IF c = next[end] THEN [i \in 0 .. N - 1 |-> 0]
                                  ELSE values[c]]
    /\ wpc' = "idle"
    /\ UNCHANGED <<back, backPos, end, endPos, taken, readerVars,
                   countVars, spare, phase>>

-----------------------------------------------------------------------------
(* The reader. *)

\* ypipe_t::read of a flushed item: front () is copied and pop () steps on.
Read ==
    /\ phase = "live" /\ rpc = "idle" /\ removed < flushed
    /\ Touches(begin)
    /\ removed' = removed + 1
    /\ beginPos' = beginPos + 1
    /\ rpc' = IF beginPos + 1 = N THEN "step" ELSE "idle"
    /\ UNCHANGED <<begin, left, cast, writerVars, heapVars, written, flushed,
                   spare, phase>>

\* At the end of a chunk the reader steps to the next one.
StepOver ==
    /\ rpc = "step"
    /\ Touches(begin)
    /\ left' = begin
    /\ begin' = next[begin]
    /\ beginPos' = 0
    /\ rpc' = "detach"
    /\ UNCHANGED <<cast, writerVars, heapVars, countVars, spare, phase>>

\* begin_chunk->prev = NULL
Detach ==
    /\ rpc = "detach"
    /\ Touches(begin)
    /\ prev' = [prev EXCEPT ![begin] = Null]
    /\ rpc' = "give"
    /\ UNCHANGED <<begin, beginPos, left, cast, writerVars, alloc, next, values,
                   countVars, spare, phase>>

\* Fault: the chunk handed over is freed instead of the one got back.
GiveSpareSwapped ==
    /\ rpc = "give"
    /\ cast' = left
    /\ spare' = left
    /\ left' = Null
    /\ rpc' = "free"
    /\ UNCHANGED <<begin, beginPos, writerVars, heapVars, countVars, phase, fault>>

\* cs = spare_chunk.xchg (o)
GiveSpare ==
    /\ rpc = "give"
    /\ cast' = spare
    /\ spare' = left
    /\ left' = Null
    /\ rpc' = "free"
    /\ UNCHANGED <<begin, beginPos, writerVars, heapVars, countVars, phase, fault>>

\* Fault: the chunk got back is not freed.
FreeCastForgotten ==
    /\ rpc = "free"
    /\ cast' = Null
    /\ rpc' = "idle"
    /\ UNCHANGED <<begin, beginPos, left, writerVars, heapVars, countVars, spare,
                   phase, fault>>

FreeCast ==
    /\ rpc = "free"
    /\ Free(cast)
    /\ cast' = Null
    /\ rpc' = "idle"
    /\ UNCHANGED <<begin, beginPos, left, writerVars, countVars, spare, phase>>

-----------------------------------------------------------------------------
(* The destructor, when both threads are done with the queue. *)

Destroy ==
    /\ phase = "live" /\ wpc = "idle" /\ rpc = "idle"
    /\ phase' = "chain"
    /\ UNCHANGED <<writerVars, readerVars, heapVars, countVars, spare, fault>>

\* One turn of the loop: the chunk at the front is freed, the last one ends it.
FreeChain ==
    /\ phase = "chain"
    /\ Free(begin)
    /\ begin' = IF begin = end THEN begin ELSE next[begin]
    /\ phase' = IF begin = end THEN "spare" ELSE "chain"
    /\ UNCHANGED <<beginPos, rpc, left, cast, writerVars, countVars, spare>>

FreeSpare ==
    /\ phase = "spare"
    /\ Free(spare)
    /\ spare' = Null
    /\ phase' = "gone"
    /\ UNCHANGED <<writerVars, readerVars, countVars>>

Writer == Write \/ TakeSpare \/ LinkSpare \/ LinkNew \/ Flush \/ Unwrite \/ CutEnd
Reader == Read \/ StepOver \/ Detach \/ GiveSpare \/ FreeCast
Owner == Destroy \/ FreeChain \/ FreeSpare

Next == Writer \/ Reader \/ Owner

Spec == Init /\ [][Next]_vars

-----------------------------------------------------------------------------
(* Properties. *)

\* The chunks in the order the next pointers give them, from the front one.
chain[k \in 0 .. Cardinality(Chunks)] ==
    IF k = 0 THEN begin
    ELSE IF chain[k - 1] \in Chunks THEN next[chain[k - 1]] ELSE Null

Reaches(p, k) == chain[k] = p /\ \A j \in 0 .. k - 1 : chain[j] # p
Linked == \E k \in 0 .. Cardinality(Chunks) : Reaches(end, k)
Depth(p) == CHOOSE k \in 0 .. Cardinality(Chunks) : Reaches(p, k)
ChainSet == {chain[k] : k \in 0 .. Depth(end)}

\* The cell i places behind the oldest one, and the cells up to the back.
Cell(i) == values[chain[(beginPos + i) \div N]][(beginPos + i) % N]
Held == Depth(back) * N + backPos - beginPos
Contents == IF phase = "live" THEN [i \in 1 .. Held |-> Cell(i - 1)] ELSE <<>>

\* The types of the variables.
TypeOK ==
    /\ begin \in Pointers /\ back \in Pointers /\ end \in Pointers
    /\ spare \in Pointers /\ taken \in Pointers
    /\ left \in Pointers /\ cast \in Pointers
    /\ beginPos \in 0 .. N /\ backPos \in 0 .. N - 1 /\ endPos \in 0 .. N
    /\ alloc \subseteq Chunks
    /\ next \in [Chunks -> Pointers] /\ prev \in [Chunks -> Pointers]
    /\ values \in [Chunks -> [0 .. N - 1 -> 0 .. MaxWrites]]
    /\ written \in 0 .. MaxWrites /\ flushed \in 0 .. MaxWrites
    /\ removed \in 0 .. MaxWrites
    /\ wpc \in {"idle", "exchange", "link", "cut"}
    /\ rpc \in {"idle", "step", "detach", "give", "free"}
    /\ phase \in {"live", "chain", "spare", "gone"}
    /\ fault \in BOOLEAN

(* The inductive invariant: f[i] is the i-th chunk of the queue since it was  *)
(* made, the chain is chunks lo to hi, and the n-th cell written since then is *)
(* cell n % N of chunk n \div N.                                              *)

\* The chunk unpush () has cut off and not freed yet.
CutOff == IF wpc = "cut" THEN next[end] ELSE Null
OffChain == {spare, taken, left, cast, CutOff}

Chained(f, lo, hi) ==
    phase \in {"live", "chain"} =>
        /\ lo <= hi /\ begin = f[lo] /\ end = f[hi]
        /\ \A i \in lo .. hi - 1 : next[f[i]] = f[i + 1]
        /\ \A i, j \in lo .. hi : f[i] = f[j] => i = j

\* Where the ends of the queue are, and what is in its cells.
Positioned(f, lo, hi) ==
    phase = "live" =>
        /\ removed = lo * N + beginPos /\ written + 1 = hi * N + endPos
        /\ removed <= flushed /\ flushed <= written
        /\ IF endPos = 0 THEN back = f[hi - 1] /\ backPos = N - 1
                         ELSE back = f[hi] /\ backPos = endPos - 1
        /\ \A i \in lo .. hi - 1 : prev[f[i + 1]] = f[i]

Filled(f, lo, hi) ==
    phase = "live" =>
        \A i \in lo .. hi, p \in 0 .. N - 1 :
            removed <= i * N + p /\ i * N + p < written => values[f[i]][p] = i * N + p + 1

\* A chunk is allocated as long as it is in one place, and it is in one only.
Owned(f, lo, hi) ==
    LET linked == phase \in {"live", "chain"}
    IN  /\ \A c \in Chunks :
              c \in alloc <=> c \in OffChain \/ (linked /\ \E i \in lo .. hi : c = f[i])
        /\ OffChain \subseteq Chunks \cup {Null}
        /\ linked => \A i \in lo .. hi : f[i] \notin OffChain
        /\ spare # Null => spare \notin {taken, left, cast, CutOff}
        /\ taken # Null => taken \notin {left, cast, CutOff}
        /\ left # Null => left \notin {cast, CutOff}
        /\ cast # Null => cast # CutOff

Places ==
    /\ IF wpc = "idle" THEN endPos < N ELSE IF wpc = "cut" THEN endPos = N - 1 ELSE endPos = N
    /\ IF rpc = "idle" THEN beginPos < N ELSE IF rpc = "step" THEN beginPos = N ELSE beginPos = 0
    /\ taken # Null => wpc = "link"
    /\ left # Null <=> rpc \in {"detach", "give"}
    /\ cast # Null => rpc = "free"
    /\ phase # "live" => wpc = "idle" /\ rpc = "idle"
    /\ wpc = "cut" => CutOff # Null

Layout(f, lo, hi) ==
    Chained(f, lo, hi) /\ Positioned(f, lo, hi) /\ Filled(f, lo, hi) /\ Owned(f, lo, hi)

\* No thread frees a chunk twice, uses one that was freed, or follows a
\* pointer nobody wrote, however the reader's and the writer's steps over a
\* chunk's edge interleave.
NoBadAccess == TypeOK /\ ~fault

\* Every allocated chunk is in the chain, is the spare one, or is in the hands
\* of exactly one thread: none is leaked, none is in two places, and when the
\* destructor is through none is left.
ChunksAccounted ==
    LET cut == IF wpc = "cut" THEN {next[end]} ELSE {}
        places == <<IF phase \in {"live", "chain"} THEN ChainSet ELSE {}, {spare},
                    {taken}, {left}, {cast}, cut>>
        held(i) == places[i] \ {Null}
    IN /\ alloc = UNION {held(i) : i \in 1 .. 6}
       /\ \A i, j \in 1 .. 6 : i # j => held(i) \cap held(j) = {}

\* Memory follows the contents, whatever was in the queue before: beside the
\* chunks its cells would fill there are at most four, the two the ends of the
\* queue use in part, the spare one and one on its way.
MemoryBounded ==
    phase = "live" => Cardinality(alloc) * N <= written - removed + 4 * N

\* The chunks hold the queue of cells the pipe is written against.
Cells == INSTANCE CellQueue WITH queue <- Contents
ImplementsCells == Cells!Spec

=============================================================================

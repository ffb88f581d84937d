----------------------------- MODULE EpollProofs -----------------------------
(***************************************************************************)
(* Proofs about the loop of an I/O thread, for any number of objects,      *)
(* descriptors and entries: what the buffer of epoll_wait says of an entry *)
(* stays true until the entry is retired, and an entry is freed only when  *)
(* the buffer is empty.  From that follow the safety of the entries, that  *)
(* no handler blocks and that the loop implements EventLoop.               *)
(***************************************************************************)
EXTENDS Epoll, FiniteSetTheorems, TLAPS

-----------------------------------------------------------------------------
(* The parts of the invariant, action by action.                           *)

\* The registered objects and the entries they have, as a set of its own.
LEMMA EntryOfObject ==
    ASSUME EntriesSafe, NEW o \in Registered
    PROVE  /\ o \in Objects /\ handle[o] \in heap \ retired /\ handle[o] \in Entries
           /\ FdOf(o) \in Fds /\ FdOf(o) # Retired
           /\ watched[FdOf(o)] = handle[o] /\ entry[handle[o]].object = o
<1>1. o \in Objects /\ handle[o] # Retired
  BY DEF Registered
<1>2. handle[o] \in heap /\ handle[o] \in Entries
  BY <1>1 DEF EntriesSafe, TypeOK
<1>3. handle[o] \notin retired
  BY <1>1 DEF EntriesSafe, EntriesAccounted
<1>. QED
  BY <1>1, <1>2, <1>3, KernelAssumption DEF EntriesSafe, KernelAgrees

\* An entry in use that is not retired is that of a registered object.
LEMMA LiveEntry ==
    ASSUME EntriesSafe, NEW e \in heap, entry[e].fd # Retired
    PROVE  \E o \in Registered : handle[o] = e
<1>1. e \notin retired
  BY DEF EntriesSafe, KernelAgrees
<1>. QED
  BY <1>1 DEF EntriesSafe, EntriesAccounted

\* Registered objects can be counted.
LEMMA Countable ==
    ASSUME NEW S \in SUBSET Objects
    PROVE  IsFiniteSet(S) /\ Cardinality(S) \in 0 .. Cardinality(Objects)
<1>1. IsFiniteSet(S) /\ Cardinality(S) <= Cardinality(Objects)
  BY ObjectsAssumption, FS_Subset
<1>2. Cardinality(S) \in Nat /\ Cardinality(Objects) \in Nat
  BY <1>1, ObjectsAssumption, FS_CardinalityType
<1>. QED
  BY <1>1, <1>2

\* What the buffer holds when the entries it may name are those of H.
Slots(H) == [ptr : H, events : SUBSET Events, owner : Objects]

\* A sequence over a set is one over a larger set.
LEMMA SeqOfMore ==
    ASSUME NEW S, NEW T, S \subseteq T, NEW q \in Seq(S)
    PROVE  q \in Seq(T)
OBVIOUS

\* The elements of a sequence over a set belong to it.
LEMMA SeqElement ==
    ASSUME NEW S, NEW q \in Seq(S), NEW k \in 1 .. Len(q)
    PROVE  q[k] \in S
OBVIOUS

\* More entries in use leave the buffer well formed.
LEMMA BufferTyped ==
    ASSUME EntriesSafe, heap \subseteq heap', buffer' = buffer
    PROVE  buffer' \in Seq([ptr : heap', events : SUBSET Events, owner : Objects])
<1>1. buffer \in Seq(Slots(heap))
  BY DEF EntriesSafe, TypeOK, Slots
<1>2. Slots(heap) \subseteq Slots(heap')
  BY DEF Slots
<1>3. buffer \in Seq(Slots(heap'))
  BY <1>1, <1>2, SeqOfMore
<1>. QED
  BY <1>3 DEF Slots

\* An element of the buffer.
LEMMA BufferElement ==
    ASSUME EntriesSafe, NEW k \in 1 .. Len(buffer)
    PROVE  /\ buffer[k] \in [ptr : heap, events : SUBSET Events, owner : Objects]
           /\ buffer[k].ptr \in heap /\ buffer[k].ptr \in Entries
<1>1. buffer \in Seq(Slots(heap)) /\ heap \subseteq Entries
  BY DEF EntriesSafe, TypeOK, Slots
<1>2. buffer[k] \in Slots(heap)
  BY <1>1, SeqElement
<1>. QED
  BY <1>1, <1>2 DEF Slots

\* add_fd takes memory and a descriptor that nothing in the buffer names.
LEMMA AddFdKept == ASSUME EntriesSafe, NEW o \in Objects, AddFd(o) PROVE EntriesSafe'
<1>1. PICK e \in Entries \ heap, f \in {f \in Fds : watched[f] = Retired} :
        /\ heap' = heap \cup {e}
        /\ entry' = [entry EXCEPT ![e] = [fd |-> f, events |-> {}, object |-> o]]
        /\ handle' = [handle EXCEPT ![o] = e]
        /\ watched' = [watched EXCEPT ![f] = e]
        /\ soError' = soError \ {f}
        /\ data' = [data EXCEPT ![f] = 0]
  BY DEF AddFd
<1>2. /\ handle[o] = Retired /\ calls' = calls + 1 /\ calls < MaxCalls /\ load' = load + 1
      /\ calling # NoObject
      /\ UNCHANGED <<retired, buffer, test, pc, calling, stopping, fault, blocked>>
  BY ObjectsAssumption DEF AddFd, MayCall, bufferVars
<1>3. e # Retired /\ f # Retired
  BY <1>1, KernelAssumption
<1>4. /\ entry'[e] = [fd |-> f, events |-> {}, object |-> o]
      /\ \A d \in heap : entry'[d] = entry[d]
      /\ handle'[o] = e /\ \A p \in Objects : p # o => handle'[p] = handle[p]
      /\ watched'[f] = e /\ \A g \in Fds : g # f => watched'[g] = watched[g]
      /\ \A g \in Fds : g # f => data'[g] = data[g]
  BY <1>1 DEF EntriesSafe, TypeOK
<1>5. Registered' = Registered \cup {o} /\ o \notin Registered
  BY <1>2, <1>3, <1>4 DEF Registered
<1>6. load' = Cardinality(Registered')
  <2>1. Registered \in SUBSET Objects
    BY DEF Registered
  <2>2. IsFiniteSet(Registered) /\ load = Cardinality(Registered)
    BY <2>1, Countable DEF EntriesSafe, EntriesAccounted
  <2>. QED
    BY <1>2, <1>5, <2>2, FS_AddElement
<1>7. TypeOK'
  <2>1. /\ heap' \subseteq Entries /\ retired' \subseteq heap'
        /\ handle' \in [Objects -> heap' \cup {Retired}]
    BY <1>1, <1>2 DEF EntriesSafe, TypeOK
  <2>2. entry' \in [Entries -> [fd : Fds \cup {Retired}, events : SUBSET {"in", "out"},
                                object : Objects \cup {NoObject}]]
    BY <1>1 DEF EntriesSafe, TypeOK
  <2>3. watched' \in [Fds -> Entries \cup {Retired}] /\ soError' \subseteq Fds
    BY <1>1 DEF EntriesSafe, TypeOK
  <2>4. data' \in [Fds -> 0 .. MaxData]
    BY <1>1, BoundsAssumption DEF EntriesSafe, TypeOK
  <2>5. buffer' \in Seq([ptr : heap', events : SUBSET Events, owner : Objects])
    BY <1>1, <1>2, BufferTyped
  <2>6. calls' \in 0 .. MaxCalls
    BY <1>2, BoundsAssumption DEF EntriesSafe, TypeOK
  <2>7. load' \in 0 .. Cardinality(Objects)
    <3>1. Registered' \in SUBSET Objects
      BY DEF Registered
    <3>. QED
      BY <1>6, <3>1, Countable
  <2>. QED
    BY <1>2, <2>1, <2>2, <2>3, <2>4, <2>5, <2>6, <2>7 DEF EntriesSafe, TypeOK
<1>8. \A p \in Registered : handle'[p] = handle[p] /\ handle[p] \in heap
  BY <1>4, <1>5, EntryOfObject
<1>9. EntriesAccounted'
  <2>1. {handle[p] : p \in Registered}' = {handle[p] : p \in Registered} \cup {e}
    BY <1>4, <1>5, <1>8
  <2>2. retired \subseteq heap /\ e \notin heap
    BY <1>1 DEF EntriesSafe, TypeOK
  <2>3. pc # "left"
    BY <1>2 DEF EntriesSafe, EntriesAccounted
  <2>4. \A p, q \in Registered' : handle'[p] = handle'[q] => p = q
    BY <1>1, <1>4, <1>5, <1>8 DEF EntriesSafe, EntriesAccounted
  <2>. QED
    BY <1>1, <1>2, <1>6, <2>1, <2>2, <2>3, <2>4 DEF EntriesSafe, EntriesAccounted
<1>10. KernelAgrees'
  <2>1. \A p \in Registered : FdOf(p)' = FdOf(p) /\ FdOf(p) # f /\ FdOf(p) \in Fds
    BY <1>1, <1>3, <1>4, <1>8, EntryOfObject, KernelAssumption DEF FdOf
  <2>2. FdOf(o)' = f
    BY <1>4 DEF FdOf
  <2>3. \A p \in Registered' : FdOf(p)' \in Fds /\ watched'[FdOf(p)'] = handle'[p]
                               /\ entry'[handle'[p]].object = p
    BY <1>4, <1>5, <1>8, <2>1, <2>2, EntryOfObject
  <2>4. \A g \in Fds : watched'[g] # Retired =>
            \E p \in Registered' : handle'[p] = watched'[g] /\ FdOf(p)' = g
    BY <1>4, <1>5, <1>8, <2>1, <2>2 DEF EntriesSafe, KernelAgrees
  <2>5. \A d \in retired' : entry'[d].fd = Retired
    BY <1>2, <1>4 DEF EntriesSafe, TypeOK, KernelAgrees
  <2>. QED
    BY <2>3, <2>4, <2>5 DEF KernelAgrees
<1>11. BufferAgrees'
  <2>1. \A k \in 1 .. Len(buffer) : entry'[buffer[k].ptr] = entry[buffer[k].ptr]
    BY <1>4, BufferElement
  <2>2. ASSUME NEW k \in 1 .. Len(buffer), entry[buffer[k].ptr].fd # Retired
        PROVE  entry[buffer[k].ptr].fd \in Fds /\ entry[buffer[k].ptr].fd # f
    <3>1. buffer[k].ptr \in heap
      BY BufferElement
    <3>2. PICK p \in Registered : handle[p] = buffer[k].ptr
      BY <2>2, <3>1, LiveEntry
    <3>3. FdOf(p) \in Fds /\ watched[FdOf(p)] # Retired
      BY EntryOfObject, KernelAssumption
    <3>. QED
      BY <1>1, <3>2, <3>3 DEF FdOf
  <2>3. \A k \in 1 .. Len(buffer) : entry[buffer[k].ptr].fd # Retired =>
            /\ entry[buffer[k].ptr].fd \in soError <=> entry[buffer[k].ptr].fd \in soError'
            /\ data'[entry[buffer[k].ptr].fd] = data[entry[buffer[k].ptr].fd]
    BY <1>1, <1>4, <2>2
  <2>. QED
    BY <1>2, <2>1, <2>3 DEF EntriesSafe, BufferAgrees
<1>. QED
  BY <1>2, <1>7, <1>9, <1>10, <1>11 DEF EntriesSafe, NoFreedEntry

\* rm_fd keeps the entry, without a descriptor, for the events that name it.
LEMMA RmFdKept == ASSUME EntriesSafe, NEW o \in Objects, RmFd(o) PROVE EntriesSafe'
<1>. DEFINE e == handle[o]
<1>1. /\ handle[o] # Retired /\ calls' = calls + 1 /\ calls < MaxCalls /\ load' = load - 1
      /\ fault' = (fault \/ e \notin heap)
      /\ watched' = [watched EXCEPT ![entry[e].fd] = Retired]
      /\ entry' = [entry EXCEPT ![e].fd = Retired]
      /\ retired' = retired \cup {e}
      /\ handle' = [handle EXCEPT ![o] = Retired]
      /\ calling # NoObject
      /\ UNCHANGED <<heap, soError, data, buffer, test, pc, calling, stopping, blocked>>
  BY ObjectsAssumption DEF RmFd, MayCall, bufferVars
<1>2. /\ o \in Registered /\ e \in heap \ retired /\ e \in Entries /\ entry[e].object = o
      /\ entry[e].fd \in Fds /\ watched[entry[e].fd] = e
  <2>1. o \in Registered
    BY <1>1 DEF Registered
  <2>. QED
    BY <2>1, EntryOfObject DEF FdOf
<1>3. /\ entry'[e].fd = Retired /\ entry'[e].object = o
      /\ \A d \in Entries : d # e => entry'[d] = entry[d]
      /\ handle'[o] = Retired /\ \A p \in Objects : p # o => handle'[p] = handle[p]
      /\ watched'[entry[e].fd] = Retired
      /\ \A g \in Fds : g # entry[e].fd => watched'[g] = watched[g]
  <2>1. entry[e] \in [fd : Fds \cup {Retired}, events : SUBSET {"in", "out"},
                      object : Objects \cup {NoObject}]
    BY <1>2 DEF EntriesSafe, TypeOK
  <2>2. entry'[e] = [entry[e] EXCEPT !.fd = Retired]
    BY <1>1, <1>2 DEF EntriesSafe, TypeOK
  <2>3. entry'[e].fd = Retired /\ entry'[e].object = entry[e].object
    BY <2>1, <2>2
  <2>. QED
    BY <1>1, <1>2, <2>3 DEF EntriesSafe, TypeOK
<1>4. Registered' = Registered \ {o}
  BY <1>3 DEF Registered
<1>5. load' = Cardinality(Registered')
  <2>1. Registered \in SUBSET Objects
    BY DEF Registered
  <2>2. IsFiniteSet(Registered) /\ load = Cardinality(Registered)
    BY <2>1, Countable DEF EntriesSafe, EntriesAccounted
  <2>. QED
    BY <1>1, <1>2, <1>4, <2>2, FS_RemoveElement
<1>6. \A p \in Registered' : p \in Registered /\ p \in Objects /\ p # o /\ handle'[p] = handle[p] /\ handle[p] # e
  <2>1. \A p \in Registered' : p \in Registered /\ p \in Objects /\ p # o /\ handle'[p] = handle[p]
    BY <1>3, <1>4 DEF Registered
  <2>2. \A p \in Registered : handle[p] = e => p = o
    BY <1>2 DEF EntriesSafe, EntriesAccounted
  <2>. QED
    BY <2>1, <2>2
<1>7. TypeOK'
  <2>1. /\ heap' \subseteq Entries /\ retired' \subseteq heap'
        /\ handle' \in [Objects -> heap' \cup {Retired}]
    BY <1>1, <1>2 DEF EntriesSafe, TypeOK
  <2>2. entry' \in [Entries -> [fd : Fds \cup {Retired}, events : SUBSET {"in", "out"},
                                object : Objects \cup {NoObject}]]
    BY <1>1, ZenonT(60) DEF EntriesSafe, TypeOK
  <2>3. watched' \in [Fds -> Entries \cup {Retired}] /\ soError' \subseteq Fds
        /\ data' \in [Fds -> 0 .. MaxData]
    BY <1>1 DEF EntriesSafe, TypeOK
  <2>4. buffer' \in Seq([ptr : heap', events : SUBSET Events, owner : Objects])
    BY <1>1, BufferTyped
  <2>5. calls' \in 0 .. MaxCalls
    BY <1>1, BoundsAssumption DEF EntriesSafe, TypeOK
  <2>6. load' \in 0 .. Cardinality(Objects)
    <3>1. Registered' \in SUBSET Objects
      BY DEF Registered
    <3>. QED
      BY <1>5, <3>1, Countable
  <2>. QED
    BY <1>1, <2>1, <2>2, <2>3, <2>4, <2>5, <2>6 DEF EntriesSafe, TypeOK
<1>8. EntriesAccounted'
  <2>1. {handle[p] : p \in Registered}' = {handle[p] : p \in Registered} \ {e}
    BY <1>2, <1>3, <1>4, <1>6
  <2>2. pc # "left"
    BY <1>1 DEF EntriesSafe, EntriesAccounted
  <2>3. \A p, q \in Registered' : handle'[p] = handle'[q] => p = q
    BY <1>6 DEF EntriesSafe, EntriesAccounted
  <2>4. heap = {handle[p] : p \in Registered} \cup retired
        /\ {handle[p] : p \in Registered} \cap retired = {}
    BY DEF EntriesSafe, EntriesAccounted
  <2>. QED
    BY <1>1, <1>2, <1>5, <2>1, <2>2, <2>3, <2>4 DEF EntriesAccounted
<1>9. KernelAgrees'
  <2>1. \A p \in Registered' : FdOf(p)' = FdOf(p) /\ FdOf(p) # entry[e].fd /\ FdOf(p) \in Fds
                               /\ handle[p] \in Entries
    BY <1>2, <1>3, <1>6, EntryOfObject DEF FdOf
  <2>2. \A p \in Registered' : FdOf(p)' \in Fds /\ watched'[FdOf(p)'] = handle'[p]
                               /\ entry'[handle'[p]].object = p
    BY <1>3, <1>6, <2>1, EntryOfObject
  <2>3. ASSUME NEW g \in Fds, watched'[g] # Retired
        PROVE  \E p \in Registered' : handle'[p] = watched'[g] /\ FdOf(p)' = g
    <3>1. g # entry[e].fd /\ watched[g] # Retired /\ watched'[g] = watched[g]
      BY <1>3, <2>3
    <3>2. PICK p \in Registered : handle[p] = watched[g] /\ FdOf(p) = g
      BY <3>1 DEF EntriesSafe, KernelAgrees
    <3>3. p \in Registered'
      BY <1>4, <3>1, <3>2 DEF FdOf
    <3>. QED
      BY <1>6, <2>1, <3>1, <3>2, <3>3
  <2>4. \A d \in retired' : entry'[d].fd = Retired
    BY <1>1, <1>3 DEF EntriesSafe, TypeOK, KernelAgrees
  <2>. QED
    BY <2>2, <2>3, <2>4 DEF KernelAgrees
<1>10. BufferAgrees'
  <2>1. \A k \in 1 .. Len(buffer) : entry'[buffer[k].ptr].object = entry[buffer[k].ptr].object
    BY <1>2, <1>3, BufferElement
  <2>2. \A k \in 1 .. Len(buffer) : entry'[buffer[k].ptr].fd # Retired =>
            entry'[buffer[k].ptr].fd = entry[buffer[k].ptr].fd
    BY <1>3, BufferElement
  <2>. QED
    BY <1>1, <2>1, <2>2 DEF EntriesSafe, BufferAgrees
<1>. QED
  BY <1>1, <1>2, <1>7, <1>8, <1>9, <1>10 DEF EntriesSafe, NoFreedEntry

\* What is asked for is of no matter to the events that have been returned.
LEMMA SetPollKept ==
    ASSUME EntriesSafe, NEW o \in Objects, NEW event \in {"in", "out"}, SetPoll(o, event)
    PROVE  EntriesSafe'
<1>. DEFINE e == handle[o]
<1>1. /\ handle[o] # Retired /\ calls' = calls + 1 /\ calls < MaxCalls
      /\ entry' = [entry EXCEPT ![e].events = SymDiff(@, {event})]
      /\ fault' = (fault \/ e \notin heap)
      /\ UNCHANGED <<heap, handle, watched, soError, data, retired, buffer, test, pc, calling,
                     stopping, load, blocked>>
  BY DEF SetPoll, MayCall, bufferVars, kernelVars
<1>2. e \in heap /\ e \in Entries
  <2>1. o \in Registered
    BY <1>1 DEF Registered
  <2>. QED
    BY <2>1, EntryOfObject
<1>3. entry' \in [Entries -> [fd : Fds \cup {Retired}, events : SUBSET {"in", "out"},
                              object : Objects \cup {NoObject}]]
  BY <1>1, ZenonT(60) DEF EntriesSafe, TypeOK, SymDiff
<1>4. \A d \in Entries : entry'[d].fd = entry[d].fd /\ entry'[d].object = entry[d].object
  BY <1>1, <1>2 DEF EntriesSafe, TypeOK
<1>5. TypeOK'
  <2>1. calls' \in 0 .. MaxCalls
    BY <1>1, BoundsAssumption DEF EntriesSafe, TypeOK
  <2>2. buffer' \in Seq([ptr : heap', events : SUBSET Events, owner : Objects])
    BY <1>1, BufferTyped
  <2>. QED
    BY <1>1, <1>3, <2>1, <2>2 DEF EntriesSafe, TypeOK
<1>6. Registered' = Registered
  BY <1>1 DEF Registered
<1>7. EntriesAccounted'
  BY <1>1, <1>6 DEF EntriesSafe, EntriesAccounted
<1>8. KernelAgrees'
  <2>1. \A p \in Registered : FdOf(p)' = FdOf(p) /\ entry'[handle[p]].object = entry[handle[p]].object
    BY <1>1, <1>4, EntryOfObject DEF FdOf
  <2>2. \A d \in retired : entry'[d].fd = Retired
    BY <1>4 DEF EntriesSafe, TypeOK, KernelAgrees
  <2>3. \A p \in Registered : FdOf(p)' \in Fds /\ watched[FdOf(p)'] = handle[p] /\ entry'[handle[p]].object = p
    BY <2>1, EntryOfObject
  <2>4. \A f \in Fds : watched[f] # Retired => \E p \in Registered : handle[p] = watched[f] /\ FdOf(p)' = f
    BY <2>1 DEF EntriesSafe, KernelAgrees
  <2>. QED
    BY <1>1, <1>6, <2>2, <2>3, <2>4 DEF KernelAgrees
<1>9. BufferAgrees'
  <2>1. \A k \in 1 .. Len(buffer) : entry'[buffer[k].ptr].fd = entry[buffer[k].ptr].fd
            /\ entry'[buffer[k].ptr].object = entry[buffer[k].ptr].object
    BY <1>4, BufferElement
  <2>. QED
    BY <1>1, <2>1 DEF EntriesSafe, BufferAgrees
<1>. QED
  BY <1>1, <1>2, <1>5, <1>7, <1>8, <1>9 DEF EntriesSafe, NoFreedEntry

\* A set in some order is a sequence without repetitions.
LEMMA Arrangement ==
    ASSUME NEW S, IsFiniteSet(S), NEW q \in SetToSeqs(S)
    PROVE  /\ q \in Seq(S) /\ Len(q) = Cardinality(S)
           /\ \A i, j \in 1 .. Len(q) : i # j => q[i] # q[j]
<1>1. Cardinality(S) \in Nat
  BY FS_CardinalityType
<1>2. q \in [1 .. Cardinality(S) -> S] /\ \A i, j \in 1 .. Cardinality(S) : i # j => q[i] # q[j]
  BY DEF SetToSeqs
<1>3. q \in Seq(S) /\ Len(q) = Cardinality(S)
  BY <1>1, <1>2
<1>. QED
  BY <1>2, <1>3

\* A watched descriptor has the entry of its own object.
LEMMA WatchedEntry ==
    ASSUME EntriesSafe, NEW f \in Fds, watched[f] # Retired
    PROVE  /\ watched[f] \in heap /\ entry[watched[f]].fd = f /\ entry[watched[f]].object \in Registered
           /\ handle[entry[watched[f]].object] = watched[f]
<1>1. PICK o \in Registered : handle[o] = watched[f] /\ FdOf(o) = f
  BY DEF EntriesSafe, KernelAgrees
<1>. QED
  BY <1>1, EntryOfObject DEF FdOf

\* epoll_wait fills the buffer with what is true when it returns.
LEMMA EpollWaitKept == ASSUME EntriesSafe, EpollWait PROVE EntriesSafe'
<1>0. PICK fds \in SUBSET Fds : Fills(fds) /\ \E fs \in SetToSeqs(fds) :
        buffer' = [k \in 1 .. Len(fs) |->
                      [ptr |-> watched[fs[k]], events |-> EventsOf(fs[k]),
                       owner |-> entry[watched[fs[k]]].object]]
  BY DEF EpollWait
<1>1. PICK fs \in SetToSeqs(fds) :
        buffer' = [k \in 1 .. Len(fs) |->
                      [ptr |-> watched[fs[k]], events |-> EventsOf(fs[k]),
                       owner |-> entry[watched[fs[k]]].object]]
  BY <1>0
<1>2. /\ pc = "timers" /\ pc' = "events"
      /\ UNCHANGED <<heap, entry, handle, watched, soError, data, retired, test, calling, calls, stopping,
                     load, fault, blocked>>
  BY DEF EpollWait, entryVars, kernelVars, callVars
<1>3. test = "err"
  BY <1>2 DEF EntriesSafe, BufferAgrees
<1>4. /\ fs \in Seq(fds) /\ Len(fs) = Cardinality(fds) /\ Len(fs) \in Nat /\ Len(fs) <= MaxEvents
      /\ \A i, j \in 1 .. Len(fs) : i # j => fs[i] # fs[j]
  <2>1. IsFiniteSet(fds)
    BY KernelAssumption, FS_Subset
  <2>. QED
    BY <1>0, <2>1, Arrangement DEF Fills
<1>5. \A k \in 1 .. Len(fs) :
        /\ fs[k] \in fds /\ fs[k] \in Fds /\ watched[fs[k]] # Retired
        /\ watched[fs[k]] \in heap /\ entry[watched[fs[k]]].fd = fs[k]
        /\ entry[watched[fs[k]]].object \in Objects
  <2>1. \A k \in 1 .. Len(fs) : fs[k] \in fds
    BY <1>4, SeqElement
  <2>2. fds \subseteq Fds /\ \A f \in fds : watched[f] # Retired
    BY <1>0 DEF Fills, Ready
  <2>. QED
    BY <2>1, <2>2, WatchedEntry DEF Registered
<1>6. Len(buffer') = Len(fs) /\ \A k \in 1 .. Len(fs) :
        /\ buffer'[k].ptr = watched[fs[k]] /\ buffer'[k].owner = entry[watched[fs[k]]].object
        /\ buffer'[k].events = EventsOf(fs[k])
        /\ buffer'[k] \in Slots(heap)
  <2>1. \A k \in 1 .. Len(fs) : EventsOf(fs[k]) \in SUBSET Events
    <3>1. \A k \in 1 .. Len(fs) : entry[watched[fs[k]]].events \in SUBSET {"in", "out"}
      BY <1>5 DEF EntriesSafe, TypeOK
    <3>. QED
      BY <3>1 DEF EventsOf, Events
  <2>2. DOMAIN buffer' = 1 .. Len(fs) /\ \A k \in 1 .. Len(fs) : buffer'[k] =
            [ptr |-> watched[fs[k]], events |-> EventsOf(fs[k]), owner |-> entry[watched[fs[k]]].object]
    BY <1>1
  <2>3. Len(buffer') = Len(fs)
    BY <1>1, <1>4
  <2>4. \A k \in 1 .. Len(fs) :
          [ptr |-> watched[fs[k]], events |-> EventsOf(fs[k]), owner |-> entry[watched[fs[k]]].object]
              \in Slots(heap)
    BY <1>5, <2>1 DEF Slots
  <2>. QED
    BY <2>2, <2>3, <2>4
<1>7. TypeOK'
  <2>1. buffer' \in Seq(Slots(heap))
    <3>1. \A k \in 1 .. Len(fs) :
            [ptr |-> watched[fs[k]], events |-> EventsOf(fs[k]), owner |-> entry[watched[fs[k]]].object]
                \in Slots(heap)
      BY <1>1, <1>6
    <3>. QED
      BY <1>1, <1>4, <3>1
  <2>. QED
    BY <1>2, <1>4, <1>6, <2>1 DEF EntriesSafe, TypeOK, Slots
<1>8. Registered' = Registered
  BY <1>2 DEF Registered
<1>9. EntriesAccounted'
  BY <1>2, <1>8 DEF EntriesSafe, EntriesAccounted
<1>10. KernelAgrees'
  BY <1>2, <1>8 DEF EntriesSafe, KernelAgrees, FdOf
<1>11. BufferAgrees'
  <2>1. \A i, j \in 1 .. Len(fs) : buffer'[i].ptr = buffer'[j].ptr => i = j
    BY <1>4, <1>5, <1>6
  <2>2. \A k \in 1 .. Len(fs) :
          /\ entry[buffer'[k].ptr].object = buffer'[k].owner /\ entry[buffer'[k].ptr].fd = fs[k]
          /\ "err" \in buffer'[k].events => fs[k] \in soError
          /\ "in" \in buffer'[k].events => data[fs[k]] > 0
    BY <1>5, <1>6 DEF EventsOf
  <2>. QED
    BY <1>2, <1>3, <1>6, <2>1, <2>2 DEF BufferAgrees
<1>. QED
  BY <1>2, <1>7, <1>9, <1>10, <1>11 DEF EntriesSafe, NoFreedEntry

\* The entries are freed when the buffer names none of them.
LEMMA FreeRetiredKept == ASSUME EntriesSafe, FreeRetired PROVE EntriesSafe'
<1>1. /\ pc = "events" /\ calling = NoObject /\ buffer = <<>>
      /\ heap' = heap \ retired /\ fault' = (fault \/ ~(retired \subseteq heap)) /\ retired' = {}
      /\ pc' = IF stopping THEN "left" ELSE "timers"
      /\ UNCHANGED <<entry, handle, watched, soError, data, buffer, test, calling, calls, stopping, load,
                     blocked>>
  BY DEF FreeRetired, kernelVars, bufferVars, callVars
<1>2. Registered' = Registered
  BY <1>1 DEF Registered
<1>3. TypeOK'
  <2>1. \A o \in Objects : handle[o] \in heap \ retired \/ handle[o] = Retired
    BY EntryOfObject DEF Registered
  <2>2. handle' \in [Objects -> heap' \cup {Retired}]
    BY <1>1, <2>1 DEF EntriesSafe, TypeOK
  <2>3. buffer' \in Seq([ptr : heap', events : SUBSET Events, owner : Objects])
    BY <1>1
  <2>. QED
    BY <1>1, <2>2, <2>3 DEF EntriesSafe, TypeOK
<1>4. EntriesAccounted'
  BY <1>1, <1>2 DEF EntriesSafe, EntriesAccounted
<1>5. KernelAgrees'
  BY <1>1, <1>2 DEF EntriesSafe, KernelAgrees, FdOf
<1>6. BufferAgrees'
  BY <1>1 DEF EntriesSafe, BufferAgrees
<1>. QED
  BY <1>1, <1>3, <1>4, <1>5, <1>6 DEF EntriesSafe, NoFreedEntry, TypeOK

\* A step that leaves the entries, the descriptors' entries and the buffer alone,
\* and at most adds errors and data, keeps the invariant.
LEMMA QuietKept ==
    ASSUME EntriesSafe, UNCHANGED <<heap, entry, handle, watched, retired, buffer, test, pc, load, fault>>,
           soError \subseteq soError', soError' \subseteq Fds,
           data' \in [Fds -> 0 .. MaxData], \A f \in Fds : data'[f] >= data[f],
           calling' \in Objects \cup {NoObject}, calls' \in 0 .. MaxCalls, stopping' \in BOOLEAN,
           pc = "left" => calling' = NoObject
    PROVE  EntriesSafe'
<1>1. Registered' = Registered
  BY DEF Registered
<1>2. TypeOK'
  BY BufferTyped DEF EntriesSafe, TypeOK
<1>3. EntriesAccounted'
  BY <1>1 DEF EntriesSafe, EntriesAccounted
<1>4. KernelAgrees'
  BY <1>1 DEF EntriesSafe, KernelAgrees, FdOf
<1>5. BufferAgrees'
  <2>1. \A k \in 1 .. Len(buffer) : entry[buffer[k].ptr].fd # Retired => entry[buffer[k].ptr].fd \in Fds
    BY BufferElement DEF EntriesSafe, TypeOK
  <2>2. \A f \in Fds : data[f] \in Nat /\ data'[f] \in Nat
    BY BoundsAssumption DEF EntriesSafe, TypeOK
  <2>3. \A f \in Fds : data[f] > 0 => data'[f] > 0
    BY <2>2
  <2>. QED
    BY <2>1, <2>3 DEF EntriesSafe, BufferAgrees
<1>. QED
  BY <1>2, <1>3, <1>4, <1>5 DEF EntriesSafe, NoFreedEntry

\* The first event of the buffer: its entry has not been freed, and if it has
\* not been retired either its object is registered and what it says is true.
LEMMA FirstEvent ==
    ASSUME EntriesSafe, buffer # <<>>
    PROVE  /\ 1 \in 1 .. Len(buffer) /\ Head(buffer) = buffer[1]
           /\ Head(buffer) \in Slots(heap)
           /\ Head(buffer).ptr \in heap /\ Head(buffer).ptr \in Entries
           /\ entry[Head(buffer).ptr].object = Head(buffer).owner
           /\ LET f == entry[Head(buffer).ptr].fd
              IN f # Retired =>
                   /\ f \in Fds /\ watched[f] = Head(buffer).ptr /\ Head(buffer).owner \in Registered
                   /\ Due(Head(buffer).events) /\ test = "err" => f \in soError
                   /\ Due(Head(buffer).events) /\ test = "in" => data[f] > 0
<1>1. 1 \in 1 .. Len(buffer) /\ Head(buffer) = buffer[1]
  BY DEF EntriesSafe, TypeOK
<1>2. Head(buffer) \in Slots(heap) /\ Head(buffer).ptr \in heap /\ Head(buffer).ptr \in Entries
  BY <1>1, BufferElement DEF Slots
<1>3. entry[Head(buffer).ptr].object = Head(buffer).owner
  BY <1>1 DEF EntriesSafe, BufferAgrees
<1>4. ASSUME entry[Head(buffer).ptr].fd # Retired
      PROVE  LET f == entry[Head(buffer).ptr].fd
             IN  /\ f \in Fds /\ watched[f] = Head(buffer).ptr /\ Head(buffer).owner \in Registered
                 /\ Due(Head(buffer).events) /\ test = "err" => f \in soError
                 /\ Due(Head(buffer).events) /\ test = "in" => data[f] > 0
  <2>1. PICK o \in Registered : handle[o] = Head(buffer).ptr
    BY <1>2, <1>4, LiveEntry
  <2>2. entry[Head(buffer).ptr].fd \in Fds /\ watched[entry[Head(buffer).ptr].fd] = Head(buffer).ptr
        /\ Head(buffer).owner = o
    BY <1>3, <2>1, EntryOfObject DEF FdOf
  <2>3. /\ "err" \in Head(buffer).events /\ test = "err" => entry[Head(buffer).ptr].fd \in soError
        /\ "in" \in Head(buffer).events => data[entry[Head(buffer).ptr].fd] > 0
    BY <1>1, <1>4 DEF EntriesSafe, BufferAgrees
  <2>. QED
    BY <2>2, <2>3 DEF Due
<1>. QED
  BY <1>1, <1>2, <1>3, <1>4

\* What a test does to the socket of the first event.
LEMMA SocketRead ==
    ASSUME EntriesSafe, HandleEvent
    PROVE  /\ ~blocked => ~blocked'
           /\ soError' \subseteq Fds /\ data' \in [Fds -> 0 .. MaxData]
           /\ \A f \in Fds : f # entry[Head(buffer).ptr].fd =>
                (f \in soError' <=> f \in soError) /\ data'[f] = data[f]
           /\ test # "in" => data' = data
<1>. DEFINE e == Head(buffer).ptr  f == entry[e].fd
            due == ~Skips(e) /\ Due(Head(buffer).events)
<1>1. CASE due /\ test \in {"err", "in"} /\ f # Retired
  <2>1. ReadSocket(f) /\ buffer # <<>>
    BY <1>1 DEF HandleEvent
  <2>2. f \in Fds /\ (test = "err" => f \in soError) /\ (test = "in" => data[f] > 0)
    BY <1>1, <2>1, FirstEvent
  <2>3. data[f] \in Nat /\ data[f] <= MaxData
    BY <2>2, BoundsAssumption DEF EntriesSafe, TypeOK
  <2>4. ~blocked => ~blocked'
    <3>1. f \in soError \/ ~(data[f] = 0)
      BY <1>1, <2>2, <2>3
    <3>. QED
      BY <2>1, <3>1, Zenon DEF ReadSocket
  <2>5. soError' = soError \ {f} /\ data' \in [Fds -> 0 .. MaxData]
        /\ \A g \in Fds : g # f => data'[g] = data[g]
    <3>1. data \in [Fds -> 0 .. MaxData]
      BY DEF EntriesSafe, TypeOK
    <3>. HIDE DEF f
    <3>2. /\ soError' = soError \ {f}
          /\ data' = data \/ (data[f] > 0 /\ data' = [data EXCEPT ![f] = @ - 1])
      BY <2>1 DEF ReadSocket
    <3>3. data[f] > 0 => data[f] - 1 \in 0 .. MaxData
      BY <2>3, BoundsAssumption
    <3>4. CASE data' = data
      BY <3>1, <3>2, <3>4
    <3>5. CASE data[f] > 0 /\ data' = [data EXCEPT ![f] = @ - 1]
      BY <2>2, <3>1, <3>2, <3>3, <3>5
    <3>. QED
      BY <3>2, <3>4, <3>5
  <2>6. test # "in" => data' = data
    BY <1>1, <2>1, <2>2 DEF ReadSocket
  <2>. QED
    BY <2>4, <2>5, <2>6 DEF EntriesSafe, TypeOK
<1>2. CASE ~(due /\ test \in {"err", "in"} /\ f # Retired)
  <2>1. UNCHANGED <<soError, data, blocked>>
    BY <1>2 DEF HandleEvent
  <2>. QED
    BY <2>1 DEF EntriesSafe, TypeOK
<1>. QED
  BY <1>1, <1>2

\* A test takes nothing but what the event it belongs to has told.
LEMMA HandleEventKept == ASSUME EntriesSafe, HandleEvent PROVE EntriesSafe'
<1>. DEFINE e == Head(buffer).ptr  f == entry[e].fd
            due == ~Skips(e) /\ Due(Head(buffer).events)
<1>1. /\ pc = "events" /\ calling = NoObject /\ buffer # <<>>
      /\ fault' = (fault \/ e \notin heap)
      /\ UNCHANGED <<heap, entry, handle, watched, retired, pc, stopping, load>>
      /\ IF due THEN calling' = entry[e].object /\ calls' = 0 ELSE UNCHANGED callVars
      /\ IF Skips(e) \/ test = "in" THEN buffer' = Tail(buffer) /\ test' = "err"
         ELSE buffer' = buffer /\ test' = NextTest
  BY DEF HandleEvent, entryVars
<1>2. /\ 1 \in 1 .. Len(buffer) /\ Head(buffer) = buffer[1] /\ Head(buffer) \in Slots(heap)
      /\ e \in heap /\ e \in Entries /\ entry[e].object = Head(buffer).owner
  BY <1>1, FirstEvent
<1>3. ~fault'
  BY <1>1, <1>2 DEF EntriesSafe, NoFreedEntry
<1>4. Registered' = Registered
  BY <1>1 DEF Registered
<1>5. calling' \in Objects \cup {NoObject} /\ calls' \in 0 .. MaxCalls
  BY <1>1, <1>2, BoundsAssumption DEF Slots, EntriesSafe, TypeOK, callVars
<1>6. buffer \in Seq(Slots(heap)) /\ Len(buffer) <= MaxEvents /\ test \in Events
  BY DEF EntriesSafe, TypeOK, Slots
<1>7. /\ Tail(buffer) \in Seq(Slots(heap)) /\ Len(Tail(buffer)) = Len(buffer) - 1
      /\ \A k \in 1 .. Len(Tail(buffer)) : k + 1 \in 1 .. Len(buffer) /\ Tail(buffer)[k] = buffer[k + 1]
  BY <1>1, <1>6
<1>8. TypeOK'
  <2>1. buffer' \in Seq(Slots(heap)) /\ Len(buffer') <= MaxEvents /\ test' \in Events
    BY <1>1, <1>6, <1>7, BoundsAssumption DEF NextTest, Events
  <2>. QED
    BY <1>1, <1>5, <2>1, SocketRead DEF EntriesSafe, TypeOK, Slots
<1>9. EntriesAccounted'
  BY <1>1, <1>4 DEF EntriesSafe, EntriesAccounted
<1>10. KernelAgrees'
  BY <1>1, <1>4 DEF EntriesSafe, KernelAgrees, FdOf
<1>11. \A k \in 1 .. Len(buffer) : k # 1 /\ entry[buffer[k].ptr].fd # Retired =>
          entry[buffer[k].ptr].fd \in Fds /\ entry[buffer[k].ptr].fd # f
  <2>1. SUFFICES ASSUME NEW k \in 1 .. Len(buffer), k # 1, entry[buffer[k].ptr].fd # Retired
                 PROVE  entry[buffer[k].ptr].fd \in Fds /\ entry[buffer[k].ptr].fd # f
    OBVIOUS
  <2>2. buffer[k].ptr # e
    BY <1>2, <2>1 DEF EntriesSafe, BufferAgrees
  <2>3. PICK o \in Registered : handle[o] = buffer[k].ptr
    BY <2>1, BufferElement, LiveEntry
  <2>4. entry[buffer[k].ptr].fd \in Fds /\ watched[entry[buffer[k].ptr].fd] = buffer[k].ptr
    BY <2>3, EntryOfObject DEF FdOf
  <2>5. f # Retired => watched[f] = e
    BY <1>1, FirstEvent
  <2>. QED
    BY <2>1, <2>2, <2>4, <2>5
<1>12. \A k \in 1 .. Len(buffer) : k # 1 /\ entry[buffer[k].ptr].fd # Retired =>
          /\ "err" \in buffer[k].events => entry[buffer[k].ptr].fd \in soError'
          /\ "in" \in buffer[k].events => data'[entry[buffer[k].ptr].fd] > 0
  <2>1. \A k \in 1 .. Len(buffer) : k # 1 /\ entry[buffer[k].ptr].fd # Retired =>
          /\ "err" \in buffer[k].events => entry[buffer[k].ptr].fd \in soError
          /\ "in" \in buffer[k].events => data[entry[buffer[k].ptr].fd] > 0
    BY DEF EntriesSafe, BufferAgrees
  <2>. QED
    BY <1>11, <2>1, SocketRead
<1>13. BufferAgrees'
  <2>1. CASE Skips(e) \/ test = "in"
    <3>1. buffer' = Tail(buffer) /\ test' = "err"
      BY <1>1, <2>1
    <3>2. \A i, j \in 1 .. Len(buffer') : buffer'[i].ptr = buffer'[j].ptr => i = j
      <4>1. \A i, j \in 1 .. Len(buffer) : buffer[i].ptr = buffer[j].ptr => i = j
        BY DEF EntriesSafe, BufferAgrees
      <4>2. \A i \in 1 .. Len(buffer') : i \in Nat /\ i + 1 \in 1 .. Len(buffer) /\ buffer'[i] = buffer[i + 1]
        BY <1>7, <3>1
      <4>3. ASSUME NEW i \in 1 .. Len(buffer'), NEW j \in 1 .. Len(buffer'), buffer'[i].ptr = buffer'[j].ptr
            PROVE  i = j
        <5>1. buffer[i + 1].ptr = buffer[j + 1].ptr /\ i + 1 \in 1 .. Len(buffer) /\ j + 1 \in 1 .. Len(buffer)
          BY <4>2, <4>3
        <5>2. i + 1 = j + 1
          BY <4>1, <5>1
        <5>. QED
          BY <5>2
      <4>. QED
        BY <4>3
    <3>3. \A k \in 1 .. Len(buffer') :
            /\ entry[buffer'[k].ptr].object = buffer'[k].owner
            /\ entry[buffer'[k].ptr].fd # Retired /\ "err" \in buffer'[k].events =>
                 entry[buffer'[k].ptr].fd \in soError'
            /\ entry[buffer'[k].ptr].fd # Retired /\ "in" \in buffer'[k].events =>
                 data'[entry[buffer'[k].ptr].fd] > 0
      <4>1. \A k \in 1 .. Len(buffer) : entry[buffer[k].ptr].object = buffer[k].owner
        BY DEF EntriesSafe, BufferAgrees
      <4>2. \A i \in 1 .. Len(buffer') : i + 1 \in 1 .. Len(buffer) /\ i + 1 # 1 /\ buffer'[i] = buffer[i + 1]
        BY <1>7, <3>1
      <4>. QED
        BY <1>12, <4>1, <4>2
    <3>. QED
      BY <1>1, <3>1, <3>2, <3>3 DEF BufferAgrees
  <2>2. CASE ~(Skips(e) \/ test = "in")
    <3>1. buffer' = buffer /\ test' # "err" /\ data' = data
      BY <1>1, <2>2, SocketRead DEF NextTest
    <3>2. \A k \in 1 .. Len(buffer) :
            /\ entry[buffer[k].ptr].object = buffer[k].owner
            /\ entry[buffer[k].ptr].fd # Retired /\ "in" \in buffer[k].events =>
                 data[entry[buffer[k].ptr].fd] > 0
      BY DEF EntriesSafe, BufferAgrees
    <3>3. \A i, j \in 1 .. Len(buffer) : buffer[i].ptr = buffer[j].ptr => i = j
      BY DEF EntriesSafe, BufferAgrees
    <3>. QED
      BY <1>1, <1>12, <3>1, <3>2, <3>3 DEF BufferAgrees
  <2>. QED
    BY <2>1, <2>2
<1>. QED
  BY <1>3, <1>8, <1>9, <1>10, <1>13 DEF EntriesSafe, NoFreedEntry

-----------------------------------------------------------------------------
(* The invariant.                                                          *)

\* The thread starts with the entry of its mailbox, and nothing else.
LEMMA InitSafe == Init => EntriesSafe /\ ~blocked
<1>. SUFFICES ASSUME Init PROVE EntriesSafe /\ ~blocked
  OBVIOUS
<1>1. PICK e \in Entries, f \in Fds :
        /\ heap = {e}
        /\ entry = [k \in Entries |->
                      IF k = e THEN [fd |-> f, events |-> {"in"}, object |-> Mailbox]
                      ELSE Blank]
        /\ handle = [o \in Objects |-> IF o = Mailbox THEN e ELSE Retired]
        /\ watched = [k \in Fds |-> IF k = f THEN e ELSE Retired]
        /\ soError = {} /\ data = [k \in Fds |-> 0]
        /\ retired = {}
        /\ buffer = <<>> /\ test = "err"
        /\ pc = "timers"
        /\ calling = NoObject /\ calls = 0
        /\ stopping = FALSE /\ load = 1 /\ adds = 0
        /\ fault = FALSE /\ blocked = FALSE
  BY DEF Init
<1>2. e # Retired /\ f # Retired
  BY KernelAssumption
<1>3. Registered = {Mailbox}
  BY <1>1, <1>2, ObjectsAssumption DEF Registered
<1>4. load = Cardinality(Registered) /\ Cardinality(Registered) \in 0 .. Cardinality(Objects)
  BY <1>1, <1>3, ObjectsAssumption, Countable, FS_Singleton
<1>5. TypeOK
  <2>1. /\ heap \subseteq Entries /\ retired \subseteq heap
        /\ entry \in [Entries -> [fd : Fds \cup {Retired}, events : SUBSET {"in", "out"},
                                  object : Objects \cup {NoObject}]]
        /\ handle \in [Objects -> heap \cup {Retired}]
        /\ watched \in [Fds -> Entries \cup {Retired}]
    BY <1>1, ObjectsAssumption DEF Blank
  <2>2. soError \subseteq Fds /\ data \in [Fds -> 0 .. MaxData] /\ calls \in 0 .. MaxCalls
    BY <1>1, BoundsAssumption
  <2>3. buffer \in Seq([ptr : heap, events : SUBSET Events, owner : Objects]) /\ Len(buffer) <= MaxEvents
    BY <1>1, BoundsAssumption
  <2>. QED
    BY <1>1, <1>4, <2>1, <2>2, <2>3 DEF TypeOK, Events
<1>6. EntriesAccounted
  BY <1>1, <1>3, <1>4, ObjectsAssumption DEF EntriesAccounted
<1>7. KernelAgrees
  BY <1>1, <1>2, <1>3, ObjectsAssumption DEF KernelAgrees, FdOf
<1>8. BufferAgrees
  BY <1>1 DEF BufferAgrees
<1>. QED
  BY <1>1, <1>5, <1>6, <1>7, <1>8 DEF EntriesSafe, NoFreedEntry

\* No step of the loop, of a handler or of the network breaks the invariant, and
\* none blocks.
LEMMA StepSafe == EntriesSafe /\ ~blocked /\ [Next]_vars => EntriesSafe' /\ ~blocked'
<1>. SUFFICES ASSUME EntriesSafe, ~blocked, [Next]_vars PROVE EntriesSafe' /\ ~blocked'
  OBVIOUS
<1>1. ASSUME NEW o \in Objects, AddFd(o) PROVE EntriesSafe' /\ ~blocked'
  BY <1>1, AddFdKept DEF AddFd
<1>2. ASSUME NEW o \in Objects, RmFd(o) PROVE EntriesSafe' /\ ~blocked'
  BY <1>2, RmFdKept DEF RmFd
<1>3. ASSUME NEW o \in Objects, NEW event \in {"in", "out"}, SetPoll(o, event) PROVE EntriesSafe' /\ ~blocked'
  BY <1>3, SetPollKept DEF SetPoll
<1>4. CASE EpollWait
  BY <1>4, EpollWaitKept DEF EpollWait
<1>5. CASE HandleEvent
  BY <1>5, HandleEventKept, SocketRead
<1>6. CASE FreeRetired
  BY <1>6, FreeRetiredKept DEF FreeRetired
<1>7. /\ soError \subseteq Fds /\ data \in [Fds -> 0 .. MaxData] /\ calling \in Objects \cup {NoObject}
      /\ calls \in 0 .. MaxCalls /\ stopping \in BOOLEAN /\ 0 \in 0 .. MaxCalls
      /\ \A f \in Fds : data[f] >= data[f]
      /\ pc = "left" => calling = NoObject
  BY BoundsAssumption DEF EntriesSafe, TypeOK, EntriesAccounted
<1>8. ASSUME NEW o \in Objects, TimerEvent(o) PROVE EntriesSafe' /\ ~blocked'
  BY <1>7, <1>8, QuietKept DEF TimerEvent, entryVars, kernelVars, bufferVars
<1>9. CASE Stop
  <2>1. calls' \in 0 .. MaxCalls
    BY <1>7, <1>9, BoundsAssumption DEF Stop, MayCall
  <2>. QED
    BY <1>7, <1>9, <2>1, QuietKept DEF Stop, entryVars, kernelVars, bufferVars
<1>10. CASE Return
  BY <1>7, <1>10, QuietKept DEF Return, entryVars, kernelVars, bufferVars
<1>11. ASSUME NEW f \in Fds, Datagram(f) PROVE EntriesSafe' /\ ~blocked'
  <2>1. data' \in [Fds -> 0 .. MaxData] /\ \A g \in Fds : data'[g] >= data[g]
    BY <1>7, <1>11, BoundsAssumption DEF Datagram
  <2>. QED
    BY <1>7, <1>11, <2>1, QuietKept DEF Datagram, entryVars, bufferVars, callVars
<1>12. ASSUME NEW f \in Fds, SocketError(f) PROVE EntriesSafe' /\ ~blocked'
  BY <1>7, <1>12, QuietKept DEF SocketError, entryVars, bufferVars, callVars
<1>13. CASE UNCHANGED vars
  BY <1>7, <1>13, QuietKept DEF vars, entryVars, kernelVars, bufferVars, callVars
<1>. QED
  BY <1>1, <1>2, <1>3, <1>4, <1>5, <1>6, <1>8, <1>9, <1>10, <1>11, <1>12, <1>13 DEF Next

-----------------------------------------------------------------------------
(* The theorems.                                                           *)

LEMMA Invariance == Spec => [](EntriesSafe /\ ~blocked)
<1>1. Init => EntriesSafe /\ ~blocked
  BY InitSafe
<1>2. (EntriesSafe /\ ~blocked) /\ [Next]_vars => (EntriesSafe /\ ~blocked)'
  BY StepSafe
<1>. QED
  BY <1>1, <1>2, PTL DEF Spec

\* Whatever the handlers of a thread register and remove while events wait in
\* the buffer, and whatever is used again, an entry is read and freed only while
\* it is allocated, every entry belongs to an object or waits to be freed, and
\* the kernel and the buffer agree with them.  For any number of objects,
\* descriptors and entries and a buffer of any length.
THEOREM EntriesAreSafe == Spec => []EntriesSafe
BY Invariance, PTL

\* No recvmsg of a session finds its blocking socket empty, also not the second
\* one of an event that brings an error together with data.
THEOREM ReadsNeverBlock == Spec => []NeverBlocks
<1>1. EntriesSafe /\ ~blocked => NeverBlocks
  BY DEF NeverBlocks
<1>. QED
  BY <1>1, Invariance, PTL

\* A handler is called for an event only on the object that was watched when
\* epoll_wait returned it, however often its descriptor and its memory have been
\* used again.
THEOREM EventsReachTheirObject == Spec => NoStaleEvent
<1>1. EntriesSafe /\ [Next]_vars =>
        [pc = "events" /\ calling = NoObject /\ calling' # NoObject => calling' = Head(buffer).owner]_vars
  <2>. SUFFICES ASSUME EntriesSafe, Next, pc = "events", calling = NoObject, calling' # NoObject
                PROVE  calling' = Head(buffer).owner
    BY DEF vars
  <2>1. HandleEvent
    BY ObjectsAssumption DEF Next, AddFd, RmFd, TimerEvent, SetPoll, Stop, MayCall, EpollWait, Return, FreeRetired,
       Datagram, SocketError, callVars
  <2>2. buffer # <<>> /\ calling' = entry[Head(buffer).ptr].object
    BY <2>1 DEF HandleEvent, callVars
  <2>. QED
    BY <2>2, FirstEvent
<1>. QED
  BY <1>1, EntriesAreSafe, PTL DEF Spec, NoStaleEvent

\* To its objects the loop is the poller of EventLoop: a handler is only called
\* while its object is registered, one at a time, and the load counts the
\* registered objects.
THEOREM LoopImplemented == Spec => ImplementsLoop
<1>1. Init => Loop!Init
  <2>. SUFFICES ASSUME Init PROVE Loop!Init
    OBVIOUS
  <2>1. Registered \in SUBSET Objects /\ load = Cardinality(Registered)
    BY InitSafe DEF EntriesSafe, EntriesAccounted, Registered
  <2>. QED
    BY <2>1 DEF Init, Loop!Init, Loop!Cardinality, Loop!IsFiniteSet, Cardinality, IsFiniteSet
<1>2. EntriesSafe /\ [Next]_vars => [Loop!Next]_(Loop!vars)
  <2>. SUFFICES ASSUME EntriesSafe, [Next]_vars PROVE Loop!Next \/ UNCHANGED Loop!vars
    OBVIOUS
  <2>1. ASSUME NEW o \in Objects, AddFd(o) PROVE Loop!Register(o)
    <3>1. PICK e \in Entries \ heap : handle' = [handle EXCEPT ![o] = e]
      BY <2>1 DEF AddFd
    <3>2. handle[o] = Retired /\ e # Retired /\ load' = load + 1 /\ calling' = calling
      BY <2>1, <3>1, KernelAssumption DEF AddFd
    <3>3. Registered' = Registered \cup {o} /\ o \notin Registered
      BY <3>1, <3>2 DEF Registered, EntriesSafe, TypeOK
    <3>. QED
      BY <3>2, <3>3 DEF Loop!Register
  <2>2. ASSUME NEW o \in Objects, RmFd(o) PROVE Loop!Remove(o)
    <3>1. handle[o] # Retired /\ handle' = [handle EXCEPT ![o] = Retired] /\ load' = load - 1 /\ calling' = calling
      BY <2>2 DEF RmFd
    <3>2. Registered' = Registered \ {o} /\ o \in Registered
      BY <3>1 DEF Registered, EntriesSafe, TypeOK
    <3>. QED
      BY <3>1, <3>2 DEF Loop!Remove
  <2>3. ASSUME NEW o \in Objects, TimerEvent(o) PROVE Loop!Call(o)
    BY <2>3 DEF TimerEvent, entryVars, Registered, Loop!Call
  <2>4. CASE HandleEvent
    <3>1. handle' = handle /\ load' = load /\ Registered' = Registered /\ calling = NoObject /\ buffer # <<>>
      BY <2>4 DEF HandleEvent, entryVars, Registered
    <3>2. CASE calling' = calling
      BY <3>1, <3>2 DEF Loop!vars
    <3>3. CASE calling' # calling
      <4>1. calling' = entry[Head(buffer).ptr].object /\ entry[Head(buffer).ptr].fd # Retired
        BY <2>4, <3>3 DEF HandleEvent, callVars, Skips
      <4>2. calling' \in Registered
        BY <3>1, <4>1, FirstEvent
      <4>3. Loop!Call(calling') /\ calling' \in Objects
        BY <3>1, <4>2 DEF Loop!Call, Registered
      <4>. QED
        BY <4>3 DEF Loop!Next
    <3>. QED
      BY <3>2, <3>3
  <2>5. CASE Return
    BY <2>5 DEF Return, entryVars, Registered, Loop!Return, Loop!Next
  <2>6. CASE Stop \/ EpollWait \/ FreeRetired \/ UNCHANGED vars
            \/ (\E o \in Objects, event \in {"in", "out"} : SetPoll(o, event))
            \/ (\E f \in Fds : Datagram(f) \/ SocketError(f))
    <3>1. handle' = handle /\ load' = load /\ calling' = calling
      BY <2>6 DEF Stop, EpollWait, FreeRetired, SetPoll, Datagram, SocketError, vars, entryVars, callVars
    <3>. QED
      BY <3>1 DEF Registered, Loop!vars
  <2>. QED
    BY <2>1, <2>2, <2>3, <2>4, <2>5, <2>6 DEF Next, Loop!Next
<1>. QED
  BY <1>1, <1>2, EntriesAreSafe, PTL DEF Spec, ImplementsLoop, Loop!Spec

=============================================================================

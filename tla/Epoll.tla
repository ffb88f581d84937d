-------------------------------- MODULE Epoll -------------------------------
(***************************************************************************)
(* epoll_t: the loop of an I/O thread.  epoll_wait fills a buffer with     *)
(* pointers to poll entries; the handlers called for the first of them may *)
(* remove the objects of the later ones, close their descriptors and have  *)
(* the numbers and the memory used again, so an entry is only marked as    *)
(* retired and freed when the buffer has been worked through.              *)
(*                                                                         *)
(* The kernel side is what the code relies on: a watched descriptor, the   *)
(* pointer registered with it, data to read and a pending error.  Reading  *)
(* takes the error first, then the data, and blocks when there is neither: *)
(* the raw sockets of the sessions are never made non-blocking.            *)
(***************************************************************************)
EXTENDS Naturals, Sequences, FiniteSets, SequencesExt, FiniteSetsExt

CONSTANTS
    Objects,     \* the i_poll_events objects of the thread
    NoObject,
    Mailbox,     \* the one its constructor registers, which never blocks
    Entries,     \* the memory a poll_entry_t can be put in
    Fds,         \* the descriptors the process can be given
    Retired,     \* retired_fd
    MaxEvents,   \* max_io_events, the length of ev_buf
    MaxAdds,     \* bound: calls of add_fd by the handlers
    MaxCalls,    \* bound: poller calls of one handler
    MaxData      \* bound: datagrams in a socket

ASSUME ObjectsAssumption ==
    IsFiniteSet(Objects) /\ Mailbox \in Objects /\ NoObject \notin Objects
ASSUME KernelAssumption ==
    IsFiniteSet(Fds) /\ Retired \notin Fds \cup Entries
ASSUME BoundsAssumption ==
    MaxEvents \in Nat \ {0} /\ MaxAdds \in Nat /\ MaxCalls \in Nat /\ MaxData \in Nat

VARIABLES
    heap,        \* the entries that are allocated
    entry,       \* their fields
    handle,      \* the entry of each object, or Retired
    watched,     \* the kernel's set: the entry registered for a descriptor
    soError,     \* the descriptors with a pending error
    data,        \* what each descriptor has to read
    retired,     \* epoll_t::retired
    buffer,      \* what is left of ev_buf: entries, events and (history) owners
    test,        \* the next of the three tests of its first event
    pc,          \* where loop () is
    calling,     \* the object whose handler runs
    calls,       \* poller calls it has made
    stopping,
    load,
    adds,        \* history: calls of add_fd
    fault,       \* freed memory was used
    blocked      \* recvmsg found nothing to return

entryVars == <<heap, entry, handle>>
kernelVars == <<watched, soError, data>>
bufferVars == <<buffer, test>>
callVars == <<calling, calls>>
vars == <<entryVars, kernelVars, retired, bufferVars, pc, callVars, stopping, load,
          adds, fault, blocked>>

Registered == {o \in Objects : handle[o] # Retired}
FdOf(o) == entry[handle[o]].fd
Blank == [fd |-> Retired, events |-> {}, object |-> NoObject]

\* io_thread_t::io_thread_t has registered the mailbox for reading.
Init ==
    \E e \in Entries, f \in Fds :
        /\ heap = {e}
        /\ entry = [k \in Entries |->
                      IF k = e THEN [fd |-> f, events |-> {"in"}, object |-> Mailbox]
                      ELSE Blank]
        /\ handle = [o \in Objects |-> IF o = Mailbox THEN e ELSE Retired]
        /\ watched = [k \in Fds |-> IF k = f THEN e ELSE Retired]
        /\ soError = {} /\ data = [k \in Fds |-> 0]
        /\ retired = {}
        /\ buffer = <<>> /\ test = "err"
        /\ pc = "timers"
        /\ calling = NoObject /\ calls = 0
        /\ stopping = FALSE /\ load = 1 /\ adds = 0
        /\ fault = FALSE /\ blocked = FALSE

-----------------------------------------------------------------------------
(* The calls an object makes from its handlers.                            *)

\* An object's handlers act on the object; the thread's own act on any, by the
\* commands they process.
MayCall(o) ==
    /\ calling \in {o, Mailbox}
    /\ calls < MaxCalls /\ calls' = calls + 1

\* A descriptor is opened and watched for errors only.
AddFd(o) ==
    /\ MayCall(o)
    /\ o # Mailbox /\ handle[o] = Retired /\ adds < MaxAdds
    /\ \E e \in Entries \ heap, f \in {f \in Fds : watched[f] = Retired} :
        /\ heap' = heap \cup {e}
        /\ entry' = [entry EXCEPT ![e] = [fd |-> f, events |-> {}, object |-> o]]
        /\ handle' = [handle EXCEPT ![o] = e]
        /\ watched' = [watched EXCEPT ![f] = e]
        /\ soError' = soError \ {f}
        /\ data' = [data EXCEPT ![f] = 0]
    /\ load' = load + 1
    /\ adds' = adds + 1
    /\ UNCHANGED <<retired, bufferVars, pc, calling, stopping, fault, blocked>>

\* Fault: the entry is freed where it is removed.
RmFdFrees(o) ==
    /\ MayCall(o)
    /\ handle[o] # Retired
    /\ LET e == handle[o] IN
        /\ fault' = (fault \/ e \notin heap)
        /\ watched' = [watched EXCEPT ![entry[e].fd] = Retired]
        /\ heap' = heap \ {e}
    /\ handle' = [handle EXCEPT ![o] = Retired]
    /\ load' = load - 1
    /\ UNCHANGED <<entry, soError, data, retired, bufferVars, pc, calling,
                   stopping, adds, blocked>>

\* The object closes its descriptor and is deleted right after.
RmFd(o) ==
    /\ MayCall(o)
    /\ handle[o] # Retired
    /\ LET e == handle[o] IN
        /\ fault' = (fault \/ e \notin heap)
        /\ watched' = [watched EXCEPT ![entry[e].fd] = Retired]
        /\ entry' = [entry EXCEPT ![e].fd = Retired]
        /\ retired' = retired \cup {e}
    /\ handle' = [handle EXCEPT ![o] = Retired]
    /\ load' = load - 1
    /\ UNCHANGED <<heap, soError, data, bufferVars, pc, calling, stopping, adds, blocked>>

\* set_pollin, set_pollout, reset_pollin and reset_pollout: what is asked for
\* gains or loses one event.
SetPoll(o, event) ==
    /\ MayCall(o) /\ o # Mailbox
    /\ handle[o] # Retired
    /\ entry' = [entry EXCEPT ![handle[o]].events = SymDiff(@, {event})]
    /\ fault' = (fault \/ handle[o] \notin heap)
    /\ UNCHANGED <<heap, handle, kernelVars, retired, bufferVars, pc, calling,
                   stopping, load, adds, blocked>>

Stop ==
    /\ MayCall(Mailbox)
    /\ stopping' = TRUE
    /\ UNCHANGED <<entryVars, kernelVars, retired, bufferVars, pc, calling, load,
                   adds, fault, blocked>>

-----------------------------------------------------------------------------
(* loop () *)

\* execute_timers calls the objects whose timers are due.
TimerEvent(o) ==
    /\ pc = "timers" /\ calling = NoObject /\ ~stopping
    /\ handle[o] # Retired /\ o # Mailbox
    /\ calling' = o /\ calls' = 0
    /\ UNCHANGED <<entryVars, kernelVars, retired, bufferVars, pc, stopping, load,
                   adds, fault, blocked>>

\* What a watched descriptor has to tell: its error in any case, readiness
\* for what was asked.  A descriptor can always be written to.
EventsOf(f) ==
    LET asked == entry[watched[f]].events
    IN (IF f \in soError THEN {"err"} ELSE {})
       \cup (IF "in" \in asked /\ data[f] > 0 THEN {"in"} ELSE {})
       \cup (asked \cap {"out"})

Ready == {f \in Fds : watched[f] # Retired /\ EventsOf(f) # {}}

\* epoll_wait returns in any order what is ready, as much as the buffer holds,
\* or with nothing when the time to the next timer is over.
Fills(fds) ==
    /\ fds \subseteq Ready /\ Cardinality(fds) <= MaxEvents
    /\ fds = Ready \/ Cardinality(fds) = MaxEvents

EpollWait ==
    /\ pc = "timers" /\ calling = NoObject /\ ~stopping
    /\ \E fds \in SUBSET Fds : Fills(fds) /\ \E fs \in SetToSeqs(fds) :
        buffer' = [k \in 1 .. Len(fs) |->
                      [ptr |-> watched[fs[k]], events |-> EventsOf(fs[k]),
                       owner |-> entry[watched[fs[k]]].object]]
    /\ pc' = "events"
    /\ UNCHANGED <<entryVars, kernelVars, retired, test, callVars, stopping, load, adds,
                   fault, blocked>>

\* Fault: only the first test looks whether the entry is retired.
SkipsFirstOnly(e) == test = "err" /\ entry[e].fd = Retired

\* Each of the three tests looks first whether the entry is retired.
Skips(e) == entry[e].fd = Retired

\* Fault: a readable entry is handled by the first test too.
DueReadableTwice(events) == test \in events \/ (test = "err" /\ "in" \in events)

Due(events) == test \in events

NextTest == IF test = "err" THEN "out" ELSE "in"

\* The socket gives its error, then its data; with neither the thread blocks.
ReadSocket(f) ==
    /\ blocked' = (blocked \/ (watched[f] # handle[Mailbox] /\ f \notin soError /\ data[f] = 0))
    /\ soError' = soError \ {f}
    /\ data' = IF f \notin soError /\ data[f] > 0 THEN [data EXCEPT ![f] = @ - 1] ELSE data

\* One test of one event: the entry is read, and the handler called if it is
\* not retired and has the event.
HandleEvent ==
    /\ pc = "events" /\ calling = NoObject
    /\ buffer # <<>>
    /\ LET e == Head(buffer).ptr
           due == ~Skips(e) /\ Due(Head(buffer).events)
       IN /\ fault' = (fault \/ e \notin heap)
          /\ IF due THEN calling' = entry[e].object /\ calls' = 0
             ELSE UNCHANGED callVars
          /\ IF due /\ test \in {"err", "in"} /\ entry[e].fd # Retired
             THEN ReadSocket(entry[e].fd)
             ELSE UNCHANGED <<soError, data, blocked>>
          /\ IF Skips(e) \/ test = "in" THEN buffer' = Tail(buffer) /\ test' = "err"
             ELSE buffer' = buffer /\ test' = NextTest
    /\ UNCHANGED <<entryVars, watched, retired, pc, stopping, load, adds>>

\* The handler returns.
Return ==
    /\ calling # NoObject
    /\ calling' = NoObject /\ calls' = 0
    /\ UNCHANGED <<entryVars, kernelVars, retired, bufferVars, pc, stopping, load,
                   adds, fault, blocked>>

\* Fault: the list is cleared, its entries are not freed.
FreeRetiredClears ==
    /\ pc = "events" /\ calling = NoObject
    /\ buffer = <<>>
    /\ retired' = {}
    /\ pc' = IF stopping THEN "left" ELSE "timers"
    /\ UNCHANGED <<heap, entry, handle, kernelVars, bufferVars, callVars, stopping, load,
                   adds, fault, blocked>>

\* The retired entries are freed when no event can name them any more; then the
\* loop test looks at stopping, which only the mailbox's handler sets, so the
\* destructor finds no retired entry.
FreeRetired ==
    /\ pc = "events" /\ calling = NoObject
    /\ buffer = <<>>
    /\ heap' = heap \ retired
    /\ fault' = (fault \/ ~(retired \subseteq heap))
    /\ retired' = {}
    /\ pc' = IF stopping THEN "left" ELSE "timers"
    /\ UNCHANGED <<entry, handle, kernelVars, bufferVars, callVars, stopping, load, adds,
                   blocked>>

-----------------------------------------------------------------------------
(* The network.  What arrives while events are handled waits for the next   *)
(* epoll_wait, or is read instead of what was there: it arrives here before. *)

Datagram(f) ==
    /\ pc = "timers" /\ calling = NoObject /\ ~stopping
    /\ watched[f] # Retired /\ data[f] < MaxData
    /\ data' = [data EXCEPT ![f] = @ + 1]
    /\ UNCHANGED <<entryVars, watched, soError, retired, bufferVars, pc, callVars,
                   stopping, load, adds, fault, blocked>>

SocketError(f) ==
    /\ pc = "timers" /\ calling = NoObject /\ ~stopping
    /\ watched[f] \notin {Retired, handle[Mailbox]} /\ f \notin soError
    /\ soError' = soError \cup {f}
    /\ UNCHANGED <<entryVars, watched, data, retired, bufferVars, pc, callVars,
                   stopping, load, adds, fault, blocked>>

Next ==
    \/ \E o \in Objects :
        \/ AddFd(o) \/ RmFd(o) \/ TimerEvent(o)
        \/ \E event \in {"in", "out"} : SetPoll(o, event)
    \/ Stop
    \/ EpollWait \/ HandleEvent \/ Return \/ FreeRetired
    \/ \E f \in Fds : Datagram(f) \/ SocketError(f)

Spec == Init /\ [][Next]_vars

-----------------------------------------------------------------------------
(* Properties. *)

Events == {"err", "out", "in"}

\* The types of the variables.
TypeOK ==
    /\ heap \subseteq Entries /\ retired \subseteq heap
    /\ entry \in [Entries -> [fd : Fds \cup {Retired}, events : SUBSET {"in", "out"},
                              object : Objects \cup {NoObject}]]
    /\ handle \in [Objects -> heap \cup {Retired}]
    /\ watched \in [Fds -> Entries \cup {Retired}]
    /\ soError \subseteq Fds /\ data \in [Fds -> 0 .. MaxData]
    /\ buffer \in Seq([ptr : heap, events : SUBSET Events, owner : Objects])
    /\ Len(buffer) <= MaxEvents /\ test \in Events
    /\ pc \in {"timers", "events", "left"}
    /\ calling \in Objects \cup {NoObject} /\ calls \in 0 .. MaxCalls
    /\ load \in 0 .. Cardinality(Objects) /\ stopping \in BOOLEAN

\* No event is looked up in an entry that has been freed, none is freed twice,
\* although handlers of earlier events remove the objects of later ones.
NoFreedEntry == ~fault

\* Every allocated entry belongs to a registered object or waits to be freed,
\* the load counts the former, and when the loop has been left no other remains.
EntriesAccounted ==
    LET inUse == {handle[o] : o \in Registered}
    IN /\ heap = inUse \cup retired /\ inUse \cap retired = {}
       /\ pc = "left" => retired = {} /\ calling = NoObject
       /\ \A o, p \in Registered : handle[o] = handle[p] => o = p
       /\ load = Cardinality(Registered)

\* The kernel watches the descriptors of the registered objects, each with the
\* entry of its object.
KernelAgrees ==
    /\ \A o \in Registered :
        /\ FdOf(o) \in Fds /\ watched[FdOf(o)] = handle[o]
        /\ entry[handle[o]].object = o
    /\ \A f \in Fds : watched[f] # Retired =>
        \E o \in Registered : handle[o] = watched[f] /\ FdOf(o) = f
    /\ \A e \in retired : entry[e].fd = Retired

\* What the buffer says of an entry that has not been retired is still true,
\* but for the error that its first test has taken.
BufferAgrees ==
    /\ pc # "events" => buffer = <<>>
    /\ buffer = <<>> => test = "err"
    /\ \A i, j \in 1 .. Len(buffer) : buffer[i].ptr = buffer[j].ptr => i = j
    /\ \A k \in 1 .. Len(buffer) :
        LET event == buffer[k] f == entry[event.ptr].fd
        IN /\ entry[event.ptr].object = event.owner
           /\ f # Retired /\ "err" \in event.events /\ (k = 1 => test = "err") => f \in soError
           /\ f # Retired /\ "in" \in event.events => data[f] > 0

\* The entries of the loop are those of its objects and those to be freed,
\* nothing else is touched, and the kernel and the buffer name no other.
EntriesSafe == TypeOK /\ NoFreedEntry /\ EntriesAccounted /\ KernelAgrees /\ BufferAgrees

\* An event reaches the object that was watched when it happened, never one
\* that was registered later with the same descriptor or the same memory.
NoStaleEvent ==
    [][pc = "events" /\ calling = NoObject /\ calling' # NoObject
        => calling' = Head(buffer).owner]_vars

\* A session reads its raw socket only when recvmsg has something to return:
\* the two calls of in_event that an error and data cause together never leave
\* the thread waiting in the second one.
NeverBlocks == ~blocked

\* The loop is the poller its objects are written against.
Loop == INSTANCE EventLoop WITH registered <- Registered
ImplementsLoop == Loop!Spec

=============================================================================

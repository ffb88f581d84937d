------------------------------ MODULE EventLoop -----------------------------
(***************************************************************************)
(* The "poller" concept the objects of a thread are written against: an    *)
(* object registers, its handler is called while it is registered and only *)
(* one handler runs at a time, a handler may register and remove objects   *)
(* (itself too), and the load is the number of registered ones.            *)
(***************************************************************************)
EXTENDS Naturals, FiniteSets

CONSTANTS Objects, NoObject

VARIABLES
    registered,   \* the objects whose events are watched
    calling,      \* the object whose handler runs, or NoObject
    load

vars == <<registered, calling, load>>

\* The thread starts with some objects registered.
Init ==
    /\ registered \in SUBSET Objects /\ load = Cardinality(registered)
    /\ calling = NoObject

Register(o) ==
    /\ o \notin registered
    /\ registered' = registered \cup {o}
    /\ load' = load + 1
    /\ UNCHANGED calling

Remove(o) ==
    /\ o \in registered
    /\ registered' = registered \ {o}
    /\ load' = load - 1
    /\ UNCHANGED calling

Call(o) ==
    /\ calling = NoObject /\ o \in registered
    /\ calling' = o
    /\ UNCHANGED <<registered, load>>

Return ==
    /\ calling # NoObject
    /\ calling' = NoObject
    /\ UNCHANGED <<registered, load>>

Next == Return \/ \E o \in Objects : Register(o) \/ Remove(o) \/ Call(o)

Spec == Init /\ [][Next]_vars

=============================================================================

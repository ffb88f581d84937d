----------------------------- MODULE TinyString -----------------------------
(***************************************************************************)
(* TiXmlString, the string class of TinyXML: each string points to a       *)
(* representation (size, capacity and the characters with their end mark), *)
(* which is allocated, grown, shrunk and freed as the operations need; the *)
(* empty ones share a static representation that is never freed.           *)
(*                                                                         *)
(* Appending a string to itself is left out: the code never does, and the  *)
(* representation it reads would be freed before when it has to grow.      *)
(***************************************************************************)
EXTENDS Naturals, Sequences, Functions, FiniteSets

CONSTANTS
    Strings,       \* string objects
    Reps,          \* the memory representations can be put in
    NullRep,       \* nullrep_
    Nul,           \* the end mark
    Junk,          \* memory not written yet
    Texts,         \* the char arrays strings are made of
    Slack,         \* the 8 of assign
    MaxLength,     \* bound: of a string
    MaxReserve     \* bound: of what is reserved at once

VARIABLES
    rep,      \* rep_ of the strings there are
    heap      \* size, capacity and str of the representations there are

vars == <<rep, heap>>

Live == DOMAIN rep

\* The function f, and b at a.
With(f, a, b) == [x \in DOMAIN f \cup {a} |-> IF x = a THEN b ELSE f[x]]

\* operator new: which free memory it gives makes no difference.
FreeRep == CHOOSE r \in Reps : r \notin DOMAIN heap

StaticRep == [size |-> 0, capacity |-> 0, str |-> <<Nul>>]

Init == rep = [s \in {} |-> NullRep] /\ heap = [r \in {NullRep} |-> StaticRep]

Value(s) == SubSeq(heap[rep[s]].str, 1, heap[rep[s]].size)

-----------------------------------------------------------------------------
(* What the operations are made of: each maps a heap to a heap. *)

\* init (sz, cap): the representation is r, or the static one for cap = 0.
RepFor(r, cap) == IF cap > 0 THEN r ELSE NullRep
Allocate(h, r, sz, cap) ==
    IF cap = 0 THEN h
    ELSE With(h, r, [size |-> sz, capacity |-> cap,
                     str |-> [k \in 1 .. cap + 1 |-> IF k = sz + 1 THEN Nul ELSE Junk]])

\* memcpy and memmove of chars to str + at.
CopyTo(h, r, at, chars) ==
    [h EXCEPT ![r].str = SubSeq(@, 1, at) \o chars
                         \o SubSeq(@, at + Len(chars) + 1, Len(@))]

\* set_size
SetSize(h, r, sz) == [h EXCEPT ![r].size = sz, ![r].str[sz + 1] = Nul]

\* quit
Quit(h, r) == IF r = NullRep THEN h ELSE Restrict(h, DOMAIN h \ {r})

\* A string of its own for chars, with room for cap.
Fill(h, r, chars, cap) == CopyTo(Allocate(h, r, Len(chars), cap), RepFor(r, cap), 0, chars)

-----------------------------------------------------------------------------
(* The operations. *)

\* The constructors from nothing, from chars and from another string.
Construct ==
    \E s \in Strings \ Live :
        \E chars \in Texts \cup {<<>>} \cup {Value(t) : t \in Live} :
            /\ heap' = Fill(heap, FreeRep, chars, Len(chars))
            /\ rep' = With(rep, s, RepFor(FreeRep, Len(chars)))

\* operator +: room for both is reserved before they are appended.
Concatenate ==
    \E s \in Strings \ Live, t, u \in Live :
        LET chars == Value(t) \o Value(u)
        IN /\ Len(chars) <= MaxLength
           /\ heap' = Fill(heap, FreeRep, chars, Len(chars))
           /\ rep' = With(rep, s, RepFor(FreeRep, Len(chars)))

Destroy ==
    \E s \in Live :
        /\ heap' = Quit(heap, rep[s])
        /\ rep' = Restrict(rep, Live \ {s})

\* assign: another representation when this one is too small, or far too big.
\* The chars may be those of any string, this one included.
Assign ==
    \E s \in Live :
        \E chars \in Texts \cup {<<>>} \cup {Value(t) : t \in Live} :
            LET len == Len(chars)
                cap == heap[rep[s]].capacity
            IN IF len > cap \/ cap > 3 * (len + Slack)
               THEN /\ heap' = Quit(Fill(heap, FreeRep, chars, len), rep[s])
                    /\ rep' = [rep EXCEPT ![s] = RepFor(FreeRep, len)]
               ELSE /\ heap' = SetSize(CopyTo(heap, rep[s], 0, chars), rep[s], len)
                    /\ UNCHANGED rep

\* Fault: what the string holds is not moved to the larger representation.
ReservedNotMoved(s, cap) ==
    IF cap > heap[rep[s]].capacity
    THEN [heap |-> Quit(Allocate(heap, FreeRep, heap[rep[s]].size, cap), rep[s]),
          rep |-> FreeRep]
    ELSE [heap |-> heap, rep |-> rep[s]]

\* reserve: the string in a representation with at least that capacity.
Reserved(s, cap) ==
    IF cap > heap[rep[s]].capacity
    THEN [heap |-> Quit(Fill(heap, FreeRep, Value(s), cap), rep[s]), rep |-> FreeRep]
    ELSE [heap |-> heap, rep |-> rep[s]]

Reserve ==
    \E s \in Live, cap \in 1 .. MaxReserve :
        LET reserved == Reserved(s, cap)
        IN heap' = reserved.heap /\ rep' = [rep EXCEPT ![s] = reserved.rep]

\* Fault: the room is that of the chars alone.
AppendTooSmall ==
    \E s \in Live :
        \E chars \in Texts \cup {Value(t) : t \in Live \ {s}} :
            LET size == heap[rep[s]].size
                newsize == size + Len(chars)
                reserved == IF newsize > heap[rep[s]].capacity THEN Reserved(s, Len(chars))
                            ELSE [heap |-> heap, rep |-> rep[s]]
            IN /\ newsize <= MaxLength
               /\ heap' = SetSize(CopyTo(reserved.heap, reserved.rep, size, chars),
                                  reserved.rep, newsize)
               /\ rep' = [rep EXCEPT ![s] = reserved.rep]

\* append: when there is no room, as much again is reserved as there was.
AppendChars ==
    \E s \in Live :
        \E chars \in Texts \cup {Value(t) : t \in Live \ {s}} :
            LET size == heap[rep[s]].size
                cap == heap[rep[s]].capacity
                newsize == size + Len(chars)
                reserved == IF newsize > cap THEN Reserved(s, newsize + cap)
                            ELSE [heap |-> heap, rep |-> rep[s]]
            IN /\ newsize <= MaxLength
               /\ heap' = SetSize(CopyTo(reserved.heap, reserved.rep, size, chars),
                                  reserved.rep, newsize)
               /\ rep' = [rep EXCEPT ![s] = reserved.rep]

Clear ==
    \E s \in Live :
        /\ heap' = Quit(heap, rep[s])
        /\ rep' = [rep EXCEPT ![s] = NullRep]

Swap ==
    \E s, t \in Live :
        rep' = [rep EXCEPT ![s] = rep[t], ![t] = rep[s]] /\ UNCHANGED heap

Next ==
    \/ Construct \/ Concatenate \/ Destroy \/ Assign \/ Reserve \/ AppendChars
    \/ Clear \/ Swap

Spec == Init /\ [][Next]_vars

-----------------------------------------------------------------------------
(* Properties. *)

\* The types of the fields; and the static representation is as it was made.
TypeOK ==
    /\ NullRep \in DOMAIN heap /\ DOMAIN heap \subseteq Reps \cup {NullRep}
    /\ heap[NullRep] = StaticRep
    /\ Live \subseteq Strings /\ Range(rep) \subseteq Reps \cup {NullRep}
    /\ \A r \in DOMAIN heap : heap[r].size \in Nat /\ heap[r].capacity \in Nat

\* Every string has a representation, none but the static one is of two, and
\* none is left that no string has.
OneOwner ==
    /\ Range(rep) \subseteq DOMAIN heap
    /\ \A r \in DOMAIN heap \ {NullRep} : Cardinality({s \in Live : rep[s] = r}) = 1

\* Nothing is written outside of what was allocated, the end mark is where the
\* size says, and what is before it has been written.
WithinBounds ==
    \A r \in DOMAIN heap :
        /\ Len(heap[r].str) = heap[r].capacity + 1
        /\ heap[r].size <= heap[r].capacity
        /\ heap[r].str[heap[r].size + 1] = Nul
        /\ \A k \in 1 .. heap[r].size : heap[r].str[k] # Junk

\* A string holds no more memory than three times what it needs, but for what
\* has been reserved.
InProportion ==
    \A r \in DOMAIN heap :
        heap[r].capacity <= 3 * (heap[r].size + Slack) \/ heap[r].capacity <= MaxReserve

\* All of it together is an assignment of values to strings.
StringValue == INSTANCE StringValues WITH value <- [s \in Live |-> Value(s)]
ImplementsValues == StringValue!Spec

=============================================================================

------------------------------ MODULE Vendored ------------------------------
(***************************************************************************)
(* The strings of TinyXML and the options of the messaging library side by *)
(* side, with what is promised of each, for any values of their constants. *)
(***************************************************************************)
EXTENDS Integers, Sequences

CONSTANTS
    Strings, Reps, NullRep, Nul, Junk, Texts, Slack, MaxLength, MaxReserve,   \* of TinyString
    Ints, Blobs, NoValue, EINVAL, BufferSizes, MaxOthers                      \* of Options

VARIABLES rep, heap, opts, last, asked, others

Str == INSTANCE TinyString
Opt == INSTANCE Options

\* The characters of a text are neither the end mark nor memory not written.
ASSUME TextsAssumption ==
    /\ \A chars \in Texts : chars \in Seq({chars[k] : k \in DOMAIN chars} \ {Nul, Junk})
    /\ Slack \in Nat /\ MaxLength \in Nat /\ MaxReserve \in Nat

\* operator new does not fail: whatever memory the strings have, there is more.
ASSUME MemoryAssumption ==
    /\ NullRep \notin Reps /\ Reps # {}
    /\ \A used \in [Strings -> Reps] : \E r \in Reps : \A s \in Strings : used[s] # r

\* Byte strings of the size of an integer are passed as the integer they hold.
ASSUME BlobsAssumption ==
    /\ Ints \subseteq Int /\ MaxOthers \in Nat
    /\ \A b \in Blobs : /\ b = [size |-> b.size, value |-> b.value] /\ b.size \in Nat
                        /\ b.size \in {Opt!IntSize, Opt!LongSize} => b.value \in Ints

-----------------------------------------------------------------------------

\* Representations have one owner each, nothing is written outside of them, and
\* they are in proportion to what they hold.
StringsWhole == Str!TypeOK /\ Str!OneOwner /\ Str!WithinBounds /\ Str!InProportion

\* The strings hold the values the operations gave them.
ImplementsValues == Str!ImplementsValues

\* After every call what was set is read back, nothing else has changed, and the
\* mechanism is the one last asked for.
OptionsAsSet ==
    [][/\ Opt!OthersShown
       /\ (Opt!TypeOK /\ Opt!SetThenGet /\ Opt!PlainAsAsked)']_<<opts, last, asked, others>>

=============================================================================

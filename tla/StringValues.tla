---------------------------- MODULE StringValues ----------------------------
(***************************************************************************)
(* What a string class promises: every string there is has a value of its  *)
(* own, and an operation changes that of the strings it names.             *)
(***************************************************************************)
EXTENDS Naturals, Sequences, Functions

CONSTANTS Strings, Texts

VARIABLE value      \* of the strings there are

Init == value = [s \in {} |-> <<>>]

\* The function f, and b at a.
With(f, a, b) == [x \in DOMAIN f \cup {a} |-> IF x = a THEN b ELSE f[x]]

Values == Texts \cup Range(value)

Make == \E s \in Strings \ DOMAIN value : \E v \in Values \cup {<<>>} : value' = With(value, s, v)
Join ==
    \E s \in Strings \ DOMAIN value, t, u \in DOMAIN value :
        value' = With(value, s, value[t] \o value[u])
Set == \E s \in DOMAIN value, v \in Values \cup {<<>>} : value' = [value EXCEPT ![s] = v]
Extend == \E s \in DOMAIN value, v \in Values : value' = [value EXCEPT ![s] = @ \o v]
Exchange == \E s, t \in DOMAIN value : value' = [value EXCEPT ![s] = value[t], ![t] = value[s]]
Destroy == \E s \in DOMAIN value : value' = Restrict(value, DOMAIN value \ {s})

Next == Make \/ Join \/ Set \/ Extend \/ Exchange \/ Destroy

Spec == Init /\ [][Next]_value

=============================================================================

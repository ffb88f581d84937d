--------------------------- MODULE PrefixInduction ---------------------------
(***************************************************************************)
(* Induction and recursion over the prefixes of a finite sequence, stated  *)
(* with sets and functions: a predicate is the set of numbers it holds of, *)
(* so that the lemmas can be cited for any predicate.                      *)
(***************************************************************************)
EXTENDS Integers, WellFoundedInduction, TLAPS

\* A non-empty set of natural numbers has a least element.
LEMMA LeastNumber ==
    ASSUME NEW T, T \subseteq Nat, T # {}
    PROVE  \E n \in T : \A m \in T : n <= m
<1>1. IsWellFoundedOn(OpToRel(<, Nat), Nat)
  BY NatLessThanWellFounded
<1>2. PICK n \in T : \A m \in T : ~(<<m, n>> \in OpToRel(<, Nat))
  BY <1>1, WFMin
<1>3. \A m \in T : m \in Nat /\ n \in Nat /\ ~(m < n)
  BY <1>2 DEF OpToRel
<1>. QED
  BY <1>3

\* Induction up to n: T has 0, and every number up to n whose predecessor it has.
LEMMA UpTo ==
    ASSUME NEW n \in Nat, NEW T, 0 \in T,
           \A i \in 1 .. n : i - 1 \in T => i \in T
    PROVE  \A i \in 0 .. n : i \in T
<1>. DEFINE B == 0 .. n \ T
<1>. SUFFICES ASSUME B # {} PROVE FALSE
  OBVIOUS
<1>. HIDE DEF B
<1>1. B \subseteq Nat
  BY DEF B
<1>2. PICK k \in B : \A m \in B : k <= m
  BY <1>1, LeastNumber
<1>3. k \in 1 .. n /\ k \notin T
  BY <1>2 DEF B
<1>4. k - 1 \in 0 .. n /\ ~(k <= k - 1)
  BY <1>3
<1>5. k - 1 \in T
  BY <1>2, <1>4 DEF B
<1>. QED
  BY <1>3, <1>5

\* Two functions that begin alike and go on alike are alike.
LEMMA SameSteps ==
    ASSUME NEW n \in Nat, NEW f, NEW g, f[0] = g[0],
           \A i \in 1 .. n : f[i - 1] = g[i - 1] => f[i] = g[i]
    PROVE  \A i \in 0 .. n : f[i] = g[i]
<1>. DEFINE T == {i \in 0 .. n : f[i] = g[i]}
<1>1. 0 \in T /\ \A i \in 1 .. n : i - 1 \in T => i \in T
  OBVIOUS
<1>. HIDE DEF T
<1>2. \A i \in 0 .. n : i \in T
  BY <1>1, UpTo
<1>. QED
  BY <1>2 DEF T

\* step takes a number up to n and a value of S to a value of S, and f goes
\* through its values from a on.
IsStep(step, n, S) == step \in [(1 .. n) \X S -> S]
Follows(f, step, n, S, a) ==
    /\ f \in [0 .. n -> S] /\ f[0] = a
    /\ \A i \in 1 .. n : f[i] = step[<<i, f[i - 1]>>]

\* A recursion that takes one step for each of 1 .. n defines a function.
LEMMA StepByStep ==
    ASSUME NEW n \in Nat, NEW S, NEW a \in S, NEW step, IsStep(step, n, S)
    PROVE  \E f : Follows(f, step, n, S, a)
<1>. USE DEF IsStep, Follows
<1>. DEFINE Solves(f, k) ==
              /\ f \in [0 .. k -> S] /\ f[0] = a
              /\ \A i \in 1 .. k : f[i] = step[<<i, f[i - 1]>>]
            T == {k \in 0 .. n : \E f : Solves(f, k)}
<1>1. 0 \in T
  <2>1. Solves([i \in 0 .. 0 |-> a], 0)
    OBVIOUS
  <2>. HIDE DEF Solves
  <2>2. \E f : Solves(f, 0)
    BY <2>1
  <2>. QED
    BY <2>2
<1>2. ASSUME NEW k \in 1 .. n, k - 1 \in T
      PROVE  k \in T
  <2>1. PICK f : Solves(f, k - 1)
    BY <1>2
  <2>. DEFINE b == step[<<k, f[k - 1]>>]
              g == [i \in 0 .. k |-> IF i = k THEN b ELSE f[i]]
  <2>2. k - 1 \in 0 .. k - 1 /\ f[k - 1] \in S
    BY <2>1
  <2>3. b \in S
    <3>1. <<k, f[k - 1]>> \in (1 .. n) \X S
      BY <2>2
    <3>. QED
      BY <3>1
  <2>. HIDE DEF b
  <2>4. \A i \in 0 .. k - 1 : g[i] = f[i] /\ f[i] \in S
    BY <2>1
  <2>5. g[k] = b /\ g \in [0 .. k -> S]
    BY <2>1, <2>3
  <2>6. g[0] = a
    BY <2>1, <2>4
  <2>7. ASSUME NEW i \in 1 .. k
        PROVE  g[i] = step[<<i, g[i - 1]>>]
    <3>1. CASE i = k
      <4>1. g[i - 1] = f[k - 1]
        BY <2>2, <2>4, <3>1
      <4>. QED
        BY <2>5, <3>1, <4>1 DEF b
    <3>2. CASE i # k
      <4>1. i \in 1 .. k - 1 /\ i - 1 \in 0 .. k - 1 /\ i \in 0 .. k - 1
        BY <3>2
      <4>2. g[i] = f[i] /\ g[i - 1] = f[i - 1]
        BY <2>4, <4>1
      <4>. QED
        BY <2>1, <4>1, <4>2
    <3>. QED
      BY <3>1, <3>2
  <2>. HIDE DEF g
  <2>8. Solves(g, k)
    BY <2>5, <2>6, <2>7
  <2>. HIDE DEF Solves
  <2>9. \E h : Solves(h, k)
    BY <2>8
  <2>. QED
    BY <2>9
<1>. HIDE DEF T
<1>3. n \in T
  BY <1>1, <1>2, UpTo
<1>. QED
  BY <1>3 DEF T

=============================================================================

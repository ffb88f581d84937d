------------------------------ MODULE XmlForest -----------------------------
(***************************************************************************)
(* What TinyXML's tree operations promise: every node has a list of        *)
(* children, and an operation inserts, replaces or removes exactly what it *)
(* names.  A node that is in no list is the root of a tree of its own.     *)
(***************************************************************************)
EXTENDS Naturals, Sequences, SequencesExt, Functions

CONSTANTS Nodes, Doc

VARIABLE children     \* the children of every node there is, in order

Init == children = (Doc :> <<>>)

RECURSIVE Below(_)
Below(n) == {n} \cup UNION {Below(c) : c \in ToSet(children[n])}

Roots == {n \in DOMAIN children : \A m \in DOMAIN children : n \notin ToSet(children[m])}

\* A tree of fresh nodes with the shape of the one below n.
Copies(n) ==
    LET old == Below(n)
    IN {[x \in {f[m] : m \in old} |->
            LET m == CHOOSE m \in old : f[m] = x
            IN [k \in DOMAIN children[m] |-> f[children[m][k]]]] :
         f \in Injection(old, Nodes \ DOMAIN children)}

RootOf(tree) == CHOOSE n \in DOMAIN tree : \A m \in DOMAIN tree : n \notin ToSet(tree[m])

New == \E n \in Nodes \ DOMAIN children : children' = children @@ (n :> <<>>)

\* A root becomes a child, at the end.
Attach ==
    \E n \in Roots \ {Doc} : \E p \in DOMAIN children \ Below(n) :
        children' = [children EXCEPT ![p] = Append(@, n)]

\* A copy of a tree becomes a child, at any place.
InsertCopy ==
    \E a \in DOMAIN children \ {Doc}, p \in DOMAIN children :
        \E tree \in Copies(a), k \in 1 .. Len(children[p]) + 1 :
            children' = [children EXCEPT ![p] = InsertAt(@, k, RootOf(tree))] @@ tree

\* A copy of a tree takes the place of a child, which is deleted.
ReplaceByCopy ==
    \E a \in DOMAIN children \ {Doc}, p \in DOMAIN children :
        \E tree \in Copies(a), k \in DOMAIN children[p] :
            LET after == [children EXCEPT ![p][k] = RootOf(tree)] @@ tree
            IN children' = Restrict(after, DOMAIN after \ Below(children[p][k]))

\* A node is deleted with all below it.
Delete ==
    \E n \in DOMAIN children \ {Doc} :
        children' = [m \in DOMAIN children \ Below(n) |->
                        SelectSeq(children[m], LAMBDA c : c # n)]

\* All children of a node are deleted.
DeleteChildren ==
    \E p \in DOMAIN children :
        children' = [m \in (DOMAIN children \ Below(p)) \cup {p} |->
                        IF m = p THEN <<>> ELSE children[m]]

Next == New \/ Attach \/ InsertCopy \/ ReplaceByCopy \/ Delete \/ DeleteChildren

Spec == Init /\ [][Next]_children

=============================================================================

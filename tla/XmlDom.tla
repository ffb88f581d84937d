------------------------------- MODULE XmlDom -------------------------------
(***************************************************************************)
(* TinyXML's document tree: nodes with a parent, two links to siblings and *)
(* two to children, edited by the application, written and read back by    *)
(* the operators of XmlText, and read by reaper_t::create_link.            *)
(*                                                                         *)
(* A node that is added belongs to its parent; what is inserted or takes   *)
(* the place of another is first cloned with all below it.  The set of     *)
(* attributes of an element, a list of its own, is the sequence `attrs'.   *)
(***************************************************************************)
EXTENDS XmlText, Functions, FiniteSets

CONSTANTS
    Nodes,       \* the memory nodes can be put in
    Doc,         \* the TiXmlDocument
    Null,
    Payloads,    \* the nodes an application creates: kind, value, attributes
    Settings     \* the attributes it sets

VARIABLE dom     \* the fields of every node there is

Fields(payload) ==
    [what |-> payload, parent |-> Null, firstChild |-> Null, lastChild |-> Null,
     prev |-> Null, next |-> Null]

Payload(kind, value, attrs) == [kind |-> kind, value |-> value, attrs |-> attrs]

Init == dom = (Doc :> Fields(Payload("document", <<>>, <<>>)))

\* From a node to the last of its siblings, and back to the first.
RECURSIVE Forward(_, _, _), Backward(_, _, _)
Forward(d, n, seen) ==
    IF n = Null \/ n \in seen THEN <<>>
    ELSE <<n>> \o Forward(d, d[n].next, seen \cup {n})
Backward(d, n, seen) ==
    IF n = Null \/ n \in seen THEN <<>>
    ELSE Backward(d, d[n].prev, seen \cup {n}) \o <<n>>

Children(d, n) == Forward(d, d[n].firstChild, {})

RECURSIVE Below(_, _)
Below(d, n) == {n} \cup UNION {Below(d, c) : c \in ToSet(Children(d, n))}

Fresh == Nodes \ DOMAIN dom
Parents == {n \in DOMAIN dom : dom[n].what.kind \in {"document", "element"}}

-----------------------------------------------------------------------------
(* The operations. *)

\* Fault: the last child is not looked at when a node takes its place.
PlaceNotLast(d, p, x, l, r) ==
    LET own == [d EXCEPT ![x].parent = p, ![x].prev = l, ![x].next = r]
        left == IF l # Null THEN [own EXCEPT ![l].next = x]
                ELSE [own EXCEPT ![p].firstChild = x]
    IN IF r # Null THEN [left EXCEPT ![r].prev = x] ELSE left

\* Fault: the child to the right is not linked back.
PlaceOneWay(d, p, x, l, r) ==
    LET own == [d EXCEPT ![x].parent = p, ![x].prev = l, ![x].next = r]
        left == IF l # Null THEN [own EXCEPT ![l].next = x]
                ELSE [own EXCEPT ![p].firstChild = x]
    IN IF r # Null THEN left ELSE [left EXCEPT ![p].lastChild = x]

\* x becomes a child of p between the neighbours l and r.
Place(d, p, x, l, r) ==
    LET own == [d EXCEPT ![x].parent = p, ![x].prev = l, ![x].next = r]
        left == IF l # Null THEN [own EXCEPT ![l].next = x]
                ELSE [own EXCEPT ![p].firstChild = x]
    IN IF r # Null THEN [left EXCEPT ![r].prev = x]
       ELSE [left EXCEPT ![p].lastChild = x]

\* The destructor deletes all children.
Delete(d, n) == Restrict(d, DOMAIN d \ Below(d, n))

\* Clone: the payloads are copied and the children linked at the end, one by
\* one, so that a copy has the links of what it copies.
Clones(a) ==
    LET old == Below(dom, a)
    IN {[x \in {f[m] : m \in old} |->
            LET m == CHOOSE m \in old : f[m] = x
                Copy(q) == IF q \in old THEN f[q] ELSE Null
            IN [what |-> dom[m].what,
                parent |-> Copy(dom[m].parent),
                firstChild |-> Copy(dom[m].firstChild),
                lastChild |-> Copy(dom[m].lastChild),
                prev |-> IF m = a THEN Null ELSE Copy(dom[m].prev),
                next |-> IF m = a THEN Null ELSE Copy(dom[m].next)]] :
         f \in Injection(old, Fresh)}

TopOf(clone) == CHOOSE n \in DOMAIN clone : clone[n].parent = Null

New == \E n \in Fresh, w \in Payloads : dom' = dom @@ (n :> Fields(w))

\* The node is the root of another tree, and belongs to the parent from now on.
LinkEndChild ==
    \E p \in Parents, n \in DOMAIN dom \ {Doc} :
        /\ dom[n].parent = Null
        /\ p \notin Below(dom, n)
        /\ dom' = Place(dom, p, n, dom[p].lastChild, Null)

\* A document is refused by all insertions.
InsertEndChild ==
    \E p \in Parents, a \in DOMAIN dom \ {Doc} : \E clone \in Clones(a) :
        dom' = Place(dom @@ clone, p, TopOf(clone), dom[p].lastChild, Null)

InsertBeforeChild ==
    \E p \in Parents, a \in DOMAIN dom \ {Doc} :
        \E b \in ToSet(Children(dom, p)), clone \in Clones(a) :
            dom' = Place(dom @@ clone, p, TopOf(clone), dom[b].prev, b)

InsertAfterChild ==
    \E p \in Parents, a \in DOMAIN dom \ {Doc} :
        \E b \in ToSet(Children(dom, p)), clone \in Clones(a) :
            dom' = Place(dom @@ clone, p, TopOf(clone), b, dom[b].next)

\* What is replaced may hold what replaces it: the copy is made first.
ReplaceChild ==
    \E p \in Parents, a \in DOMAIN dom \ {Doc} :
        \E c \in ToSet(Children(dom, p)), clone \in Clones(a) :
            LET placed == Place(dom @@ clone, p, TopOf(clone), dom[c].prev, dom[c].next)
            IN dom' = Delete(placed, c)

RemoveChild ==
    \E p \in Parents : \E c \in ToSet(Children(dom, p)) :
        LET l == dom[c].prev
            r == dom[c].next
            right == IF r # Null THEN [dom EXCEPT ![r].prev = l]
                     ELSE [dom EXCEPT ![p].lastChild = l]
            left == IF l # Null THEN [right EXCEPT ![l].next = r]
                    ELSE [right EXCEPT ![p].firstChild = r]
        IN dom' = Delete(left, c)

Clear ==
    \E p \in Parents :
        dom' = [Restrict(dom, (DOMAIN dom \ Below(dom, p)) \cup {p})
                  EXCEPT ![p].firstChild = Null, ![p].lastChild = Null]

\* The application deletes a tree it has not added anywhere.
DeleteTree ==
    \E n \in DOMAIN dom \ {Doc} :
        dom[n].parent = Null /\ dom' = Delete(dom, n)

\* TiXmlAttributeSet: Find, Add at the end, Remove.
FindName(attrs, name) == {k \in DOMAIN attrs : attrs[k].name = name}
AddLast(attrs, a) == Append(attrs, a)
RemoveName(attrs, name) == SelectSeq(attrs, LAMBDA a : a.name # name)

Elements == {n \in DOMAIN dom : dom[n].what.kind = "element"}

\* An attribute that is there gets the new value, another is added.
SetAttribute ==
    \E n \in Elements, a \in Settings :
        LET found == FindName(dom[n].what.attrs, a.name)
        IN dom' = [dom EXCEPT ![n].what.attrs =
                     IF found = {} THEN AddLast(@, a)
                     ELSE [k \in DOMAIN @ |-> IF k \in found THEN a ELSE @[k]]]

RemoveAttribute ==
    \E n \in Elements, a \in Settings :
        dom' = [dom EXCEPT ![n].what.attrs = RemoveName(@, a.name)]

Next ==
    \/ New \/ LinkEndChild \/ InsertEndChild \/ InsertBeforeChild \/ InsertAfterChild
    \/ ReplaceChild \/ RemoveChild \/ Clear \/ DeleteTree
    \/ SetAttribute \/ RemoveAttribute

Spec == Init /\ [][Next]_dom

-----------------------------------------------------------------------------
(* What is read from the tree. *)

\* The tree below a node as a value.
RECURSIVE Tree(_, _)
Tree(d, n) ==
    LET c == Children(d, n)
    IN Node(d[n].what.kind, d[n].what.value, d[n].what.attrs,
            [k \in DOMAIN c |-> Tree(d, c[k])])

Document == Tree(dom, Doc)

\* The file SaveFile leaves.
SaveFile == PrintNode(Document, 0)

\* The first node with the value (any, if Null) from n on, following a link.
RECURSIVE Seek(_, _, _)
Seek(n, value, link) ==
    IF n = Null \/ value = Null \/ dom[n].what.value = value THEN n
    ELSE Seek(dom[n][link], value, link)

FirstChild(p, value) == Seek(dom[p].firstChild, value, "next")
LastChild(p, value) == Seek(dom[p].lastChild, value, "prev")
NextSibling(n, value) == Seek(dom[n].next, value, "next")
PreviousSibling(n, value) == Seek(dom[n].prev, value, "prev")

\* IterateChildren, asked again and again: the children with a value.
RECURSIVE IterateChildren(_, _)
IterateChildren(value, previous) ==
    IF previous = Null THEN <<>>
    ELSE <<previous>> \o IterateChildren(value, NextSibling(previous, value))

RECURSIVE IterateBack(_, _)
IterateBack(value, previous) ==
    IF previous = Null THEN <<>>
    ELSE IterateBack(value, PreviousSibling(previous, value)) \o <<previous>>

\* The search of the functions for elements: on to the next node with the value
\* until one is an element.
RECURSIVE ElementFrom(_, _)
ElementFrom(n, value) ==
    IF n = Null \/ n \in Elements THEN n ELSE ElementFrom(NextSibling(n, value), value)

FirstChildElement(p, value) == ElementFrom(FirstChild(p, value), value)
NextSiblingElement(n, value) == ElementFrom(NextSibling(n, value), value)

\* TiXmlHandle::Child and ChildElement: count steps from the first one.
RECURSIVE Step(_, _, _, _)
Step(n, value, elements, count) ==
    IF n = Null \/ count = 0 THEN n
    ELSE Step(IF elements THEN NextSiblingElement(n, value) ELSE NextSibling(n, value),
              value, elements, count - 1)

HandleChild(p, value, elements, count) ==
    Step(IF elements THEN FirstChildElement(p, value) ELSE FirstChild(p, value),
         value, elements, count)

\* The document above a node, or Null.
RECURSIVE GetDocument(_)
GetDocument(n) ==
    IF n = Null \/ dom[n].what.kind = "document" THEN n ELSE GetDocument(dom[n].parent)

\* Attribute (name): its value, or Null.
Attribute(n, name) ==
    LET found == FindName(dom[n].what.attrs, name)
    IN IF found = {} THEN Null ELSE dom[n].what.attrs[CHOOSE k \in found : TRUE].value

\* The element's fields; one that is missing stays as the constructor left it.
LinkOf(n) ==
    [ip |-> Attribute(n, "m_node_ip"), scanTime |-> Attribute(n, "m_scan_time"),
     timeOut |-> Attribute(n, "m_time_out")]

\* An element without an id is passed over, one with the id of an earlier one
\* takes its place.
AddLink(links, n) ==
    LET id == Attribute(n, "m_node_id")
    IN IF id = Null THEN links ELSE (id :> LinkOf(n)) @@ links

RECURSIVE LinkLoop(_, _)
LinkLoop(n, links) ==
    IF n = Null THEN links ELSE LinkLoop(NextSiblingElement(n, Null), AddLink(links, n))

\* The links of the document, or Null when create_link returns false.
CreateLink ==
    LET root == FirstChildElement(Doc, Null)
        first == IF root = Null THEN Null ELSE FirstChildElement(root, Null)
    IN IF first = Null THEN Null ELSE LinkLoop(first, [id \in {} |-> Null])

-----------------------------------------------------------------------------
(* Properties. *)

\* The types of the fields.
TypeOK ==
    /\ Doc \in DOMAIN dom /\ DOMAIN dom \subseteq Nodes
    /\ \A n \in DOMAIN dom :
        /\ {dom[n].parent, dom[n].firstChild, dom[n].lastChild, dom[n].prev, dom[n].next}
              \subseteq DOMAIN dom \cup {Null}
        /\ \A k, l \in DOMAIN dom[n].what.attrs :
              dom[n].what.attrs[k].name = dom[n].what.attrs[l].name => k = l

\* Following the links back from the last child meets the same children as
\* following them from the first, and they are the nodes with that parent.
ListsTwoWay ==
    \A p \in DOMAIN dom :
        LET list == Children(dom, p)
        IN /\ Backward(dom, dom[p].lastChild, {}) = list
           /\ ToSet(list) = {n \in DOMAIN dom : dom[n].parent = p}

\* Every node belongs to one tree: that of the document or one the application
\* still holds.  None is left that nobody can delete.
OwnedOnce ==
    LET roots == {n \in DOMAIN dom : dom[n].parent = Null}
    IN /\ UNION {Below(dom, r) : r \in roots} = DOMAIN dom
       /\ \A r, q \in roots : r # q => Below(dom, r) \cap Below(dom, q) = {}

\* What a document keeps when it is written and read: texts next to each other
\* become one, with what the writer puts between them, their white space is
\* condensed, and those with nothing but white space go.
MergeTexts(nodes, between) ==
    FoldLeft(LAMBDA done, n :
               IF n.kind = "text" /\ done # <<>> /\ Last(done).kind = "text"
               THEN Append(Front(done),
                           Node("text", Last(done).value \o between \o n.value, <<>>, <<>>))
               ELSE Append(done, n),
             <<>>, nodes)

Condensed(value) ==
    LET words == {k \in DOMAIN value : value[k] # " "}
        Before(k) == IF k > 1 /\ value[k - 1] = " " /\ \E l \in words : l < k
                     THEN <<" ">> ELSE <<>>
    IN FlattenSeq([k \in DOMAIN value |->
                     IF k \in words THEN Before(k) \o <<value[k]>> ELSE <<>>])

\* References are read as the characters they stand for.  Closed: each "&#x" of a
\* value begins one.
Reference(value, k) ==
    k + 2 <= Len(value) /\ value[k] = "&#x" /\ value[k + 2] = ";"
    /\ \E n \in Numbers : n[1] = value[k + 1]
Closed(value) == \A k \in DOMAIN value : value[k] = "&#x" => Reference(value, k)

Decoded(value) ==
    FlattenSeq([k \in DOMAIN value |->
        IF Reference(value, k) THEN <<(CHOOSE n \in Numbers : n[1] = value[k + 1])[2]>>
        ELSE IF \E l \in {k - 1, k - 2} \cap DOMAIN value : Reference(value, l) THEN <<>>
        ELSE <<value[k]>>])

RECURSIVE Normal(_, _)
Normal(node, between) ==
    LET Keep(n) == n.kind # "text" \/ ~Blank(n.value)
        Inner(n) == IF n.kind = "text"
                    THEN Node("text", Condensed(Decoded(n.value)), <<>>, <<>>)
                    ELSE Normal(n, between)
        merged == MergeTexts(node.children, between)
    IN Node(node.kind, node.value,
            [k \in DOMAIN node.attrs |->
                Attr(node.attrs[k].name, Decoded(node.attrs[k].value))],
            SelectSeq([k \in DOMAIN merged |-> Inner(merged[k])], Keep))

\* The references in the texts and attributes of the document are closed.
AllClosed ==
    \A n \in Below(dom, Doc) :
        /\ dom[n].what.kind = "text" => Closed(dom[n].what.value)
        /\ \A a \in ToSet(dom[n].what.attrs) : Closed(a.value)

\* A text outside of the elements ends what is read of a document.
NoTextOnTop == \A c \in ToSet(Children(dom, Doc)) : dom[c].what.kind # "text"

\* What SaveFile writes, LoadFile reads without an error as the same document, up
\* to the white space of its texts: no character of a value is taken for markup
\* or the other way round, and indentation never becomes text.  That is so exactly
\* when the values that hold "&#x", which is passed through, hold whole references:
\* after any other the reader stops with an error, or goes on behind a later ';'.
RoundTrip ==
    \A file \in {SaveFile} :
        NoTextOnTop /\ Document.children # <<>> =>
            (LoadFile(file) = [doc |-> Normal(Document, <<>>), error |-> NoError]
               <=> AllClosed)

\* So it is for TiXmlPrinter, with its indent and line breaks or without: the
\* white space between two texts next to each other becomes one space.
PrinterRoundTrip ==
    NoTextOnTop /\ Document.children # <<>> =>
        \A style \in {[indent |-> <<" ">>, lineBreak |-> <<"\n">>],
                      [indent |-> <<>>, lineBreak |-> <<>>]} :
            \A text \in {Accept(Document, 0, FALSE, style)} :
                Parse(text) = [doc |-> Normal(Document, style.indent), error |-> NoError]
                  <=> AllClosed

\* A file means the same however its lines end, inside of values too.
LineEndsDontMatter ==
    \A s \in {SaveFile}, ends \in {<<"\r">>, <<"\r", "\n">>} :
        \A other \in {FlattenSeq([k \in DOMAIN s |-> IF s[k] = "\n" THEN ends ELSE <<s[k]>>])} :
            LoadFile(other) = LoadFile(s)

\* A file cut short is accepted only when every element begun in it has ended: in
\* all others the reader reports an error, except that in a quoted value, a comment
\* or a CDATA section it runs past the end, and that an assertion fails behind
\* the white space of a declaration.
TruncationReported ==
    \A s \in {SaveFile} :
        NoTextOnTop /\ AllClosed =>
            \A k \in 1 .. Len(s) - 1 :
                LET Count(P(_)) == Cardinality({l \in 1 .. k : P(l)})
                    Started(l) == l < k /\ s[l] = "<" /\ s[l + 1] \in Names
                    Finished(l) == s[l] = "/>" \/ (l + 2 <= k /\ s[l] = "</")
                    Quote(l) == s[l] \in {"\"", "'"}
                    Since(begin, ends) ==
                        \E j \in 1 .. k : s[j] = begin /\ \A l \in j .. k : s[l] \notin ends
                    inside == \/ Since("<!--", {"-->"}) \/ Since("<![CDATA[", {"]]>"})
                              \/ Count(Quote) % 2 = 1 /\ ~Since("&#x", {";"})
                    declaring == Since("<?xml", {">"}) /\ s[k] \in White /\ ~inside
                IN \A error \in {Parse(SubSeq(s, 1, k)).error} :
                    /\ error = Overrun <=> inside
                    /\ error = Asserts <=> declaring
                    /\ error = NoError <=> /\ Count(Started) = Count(Finished)
                                           /\ ~inside /\ ~declaring
                                           /\ ~Blank(SubSeq(s, 1, k))

\* A walk by value finds the nodes with that value, in order, from either end;
\* a handle's child is the one so many nodes or elements further; and from every
\* node the way up ends at the document exactly when it is part of it.
WalksAgree ==
    /\ \A p \in DOMAIN dom : \A value \in {dom[n].what.value : n \in DOMAIN dom} \cup {Null} :
        LET with == SelectSeq(Children(dom, p),
                              LAMBDA n : value \in {Null, dom[n].what.value})
            elements == SelectSeq(with, LAMBDA n : n \in Elements)
            Nth(list, k) == IF k < Len(list) THEN list[k + 1] ELSE Null
        IN /\ IterateChildren(value, FirstChild(p, value)) = with
           /\ IterateBack(value, LastChild(p, value)) = with
           /\ \A k \in 0 .. Cardinality(Nodes) :
                /\ HandleChild(p, value, FALSE, k) = Nth(with, k)
                /\ HandleChild(p, value, TRUE, k) = Nth(elements, k)
    /\ \A n \in DOMAIN dom :
        GetDocument(n) = IF n \in Below(dom, Doc) THEN Doc ELSE Null

\* create_link finds a link for every id an element below the root names, made
\* of the last such element alone, and fails when there is no such element.
LinksAsWritten ==
    LET root == SelectSeq(Document.children, LAMBDA n : n.kind = "element")
        items == IF root = <<>> THEN <<>>
                 ELSE SelectSeq(root[1].children, LAMBDA n : n.kind = "element")
        Says(k, name) == {a.value : a \in {b \in ToSet(items[k].attrs) : b.name = name}}
        Value(k, name) == IF Says(k, name) = {} THEN Null
                          ELSE CHOOSE v \in Says(k, name) : TRUE
        ids == UNION {Says(k, "m_node_id") : k \in DOMAIN items}
        LastWith(id) == CHOOSE k \in DOMAIN items :
                            /\ id \in Says(k, "m_node_id")
                            /\ \A l \in DOMAIN items : l > k => id \notin Says(l, "m_node_id")
    IN CreateLink =
         IF items = <<>> THEN Null
         ELSE [id \in ids |-> LET k == LastWith(id)
                              IN [ip |-> Value(k, "m_node_ip"),
                                  scanTime |-> Value(k, "m_scan_time"),
                                  timeOut |-> Value(k, "m_time_out")]]

\* The links are those lists of children the operations speak of.
Forest == INSTANCE XmlForest WITH
    children <- [n \in DOMAIN dom |-> Children(dom, n)]
ImplementsForest == Forest!Spec

=============================================================================

------------------------------ MODULE XmlText -------------------------------
(***************************************************************************)
(* TinyXML's text: how a document is written (Print and TiXmlPrinter) and  *)
(* how a text is read back (the Parse functions).                          *)
(*                                                                         *)
(* A text is a sequence of atoms: the markup the reader compares with      *)
(* ("<", "</", "<!--", ...), names, entities and the characters of values. *)
(* A node is a record of its kind, value, attributes and children.  In a   *)
(* reader's result position 0 is a null pointer, Len(s) + 1 the end of the *)
(* text; the first error is kept.  White space is condensed, the default.  *)
(* A text may end anywhere between two atoms.  In a comment, a CDATA       *)
(* section or a quoted value the reader then steps over an end mark that   *)
(* is not there and looks at what is behind the text: the error is Overrun *)
(* and nothing is said of what follows.                                    *)
(***************************************************************************)
EXTENDS Naturals, Sequences, SequencesExt

CONSTANT Names     \* of elements and attributes

NoError == "no error"
Overrun == "overrun"             \* undefined: the memory behind the text is read
Asserts == "assertion failed"
Node(kind, value, attrs, children) ==
    [kind |-> kind, value |-> value, attrs |-> attrs, children |-> children]
Attr(name, value) == [name |-> name, value |-> value]

White == {" ", "\n"}

\* The five entities, and the reference a character below 32 is written as.
\* Other references in hexadecimal are three atoms: "&#x", a number, ";".
Entities == {<<"&", "&amp;">>, <<"<", "&lt;">>, <<">", "&gt;">>, <<"\"", "&quot;">>,
             <<"'", "&apos;">>, <<"\n", "&#x0A;">>}

Numbers == {<<"41", "A">>}

-----------------------------------------------------------------------------
(* Writing. *)

\* From "&#x" up to the next ";" a value is written as it is; where there is
\* none, up to its last character, which is written like any other.
PassedThrough(value, k) ==
    /\ k < Len(value)
    /\ \E j \in 1 .. k : value[j] = "&#x" /\ \A l \in j .. k : value[l] # ";"

\* Fault: an ampersand is written as it is.
EncodeNoAmp(value) ==
    [k \in DOMAIN value |->
        IF ~PassedThrough(value, k) /\ \E e \in Entities : e[1] = value[k] /\ e[1] # "&"
        THEN (CHOOSE e \in Entities : e[1] = value[k])[2]
        ELSE value[k]]

EncodeString(value) ==
    [k \in DOMAIN value |->
        IF ~PassedThrough(value, k) /\ \E e \in Entities : e[1] = value[k]
        THEN (CHOOSE e \in Entities : e[1] = value[k])[2]
        ELSE value[k]]

\* A value with a double quote is put between single ones.
PrintAttribute(a) ==
    LET quote == IF "\"" \in ToSet(a.value) THEN "'" ELSE "\""
    IN <<a.name, "=", quote>> \o EncodeString(a.value) \o <<quote>>

PrintAttributes(attrs) ==
    FlattenSeq([k \in DOMAIN attrs |-> <<" ">> \o PrintAttribute(attrs[k])])

\* The values of a declaration are written without any encoding.
PrintDeclaration(attrs) ==
    <<"<?xml", " ">>
    \o FlattenSeq([k \in DOMAIN attrs |->
                     <<attrs[k].name, "=", "\"">> \o attrs[k].value \o <<"\"", " ">>])
    \o <<"?", ">">>

Indent(depth) == [k \in 1 .. depth |-> " "]

IsText(node) == node.kind \in {"text", "cdata"}

PrintText(node, depth) ==
    IF node.kind = "text" THEN EncodeString(node.value)
    ELSE <<"\n">> \o Indent(depth) \o <<"<![CDATA[">> \o node.value \o <<"]]>", "\n">>

PrintComment(node, depth) == Indent(depth) \o <<"<!--">> \o node.value \o <<"-->">>

PrintUnknown(node, depth) == Indent(depth) \o <<"<">> \o node.value \o <<">">>

\* Print (FILE*, depth) of every kind of node.
RECURSIVE PrintNode(_, _)

\* An element with a single text is written on one line, so that no white
\* space is added to the text.
PrintElement(node, depth) ==
    LET children == node.children
        OnLines(k) == (IF IsText(children[k]) THEN <<>> ELSE <<"\n">>)
                      \o PrintNode(children[k], depth + 1)
    IN Indent(depth) \o <<"<">> \o node.value \o PrintAttributes(node.attrs)
       \o IF children = <<>> THEN <<" ", "/>">>
          ELSE <<">">>
               \o (IF Len(children) = 1 /\ IsText(children[1])
                   THEN PrintNode(children[1], depth + 1)
                   ELSE FlattenSeq([k \in DOMAIN children |-> OnLines(k)])
                        \o <<"\n">> \o Indent(depth))
               \o <<"</">> \o node.value \o <<">">>

PrintDocument(node, depth) ==
    FlattenSeq([k \in DOMAIN node.children |->
                  PrintNode(node.children[k], depth) \o <<"\n">>])

PrintNode(node, depth) ==
    CASE node.kind = "document" -> PrintDocument(node, depth)
      [] node.kind = "element" -> PrintElement(node, depth)
      [] node.kind = "comment" -> PrintComment(node, depth)
      [] node.kind = "unknown" -> PrintUnknown(node, depth)
      [] node.kind = "declaration" -> PrintDeclaration(node.attrs)
      [] OTHER -> PrintText(node, depth)

\* TiXmlPrinter: a visitor with an indent and a line break (empty both after
\* SetStreamPrinting) that keeps the depth and whether the element it is in has
\* a single text, simpleTextPrint.
DoIndent(style, depth) == FlattenSeq([k \in 1 .. depth |-> style.indent])
Line(style, depth, atoms) == DoIndent(style, depth) \o atoms \o style.lineBreak

VisitText(node, depth, simpleTextPrint, style) ==
    IF node.kind = "cdata"
    THEN Line(style, depth, <<"<![CDATA[">> \o node.value \o <<"]]>">>)
    ELSE IF simpleTextPrint THEN EncodeString(node.value)
    ELSE Line(style, depth, EncodeString(node.value))

VisitComment(node, depth, style) ==
    Line(style, depth, <<"<!--">> \o node.value \o <<"-->">>)

VisitUnknown(node, depth, style) == Line(style, depth, <<"<">> \o node.value \o <<">">>)

\* Accept: the children are visited between VisitEnter and VisitExit.
RECURSIVE Accept(_, _, _, _)

VisitElement(node, depth, style) ==
    LET children == node.children
        simple == Len(children) = 1 /\ children[1].kind = "text"
        start == <<"<">> \o node.value \o PrintAttributes(node.attrs)
        inside == FlattenSeq([k \in DOMAIN children |->
                                Accept(children[k], depth + 1, simple, style)])
        end == <<"</">> \o node.value \o <<">">>
    IN IF children = <<>> THEN Line(style, depth, start \o <<" ", "/>">>)
       ELSE DoIndent(style, depth) \o start \o <<">">>
            \o (IF simple THEN inside
                ELSE style.lineBreak \o inside \o DoIndent(style, depth))
            \o end \o style.lineBreak

Accept(node, depth, simpleTextPrint, style) ==
    CASE node.kind = "document" ->
           FlattenSeq([k \in DOMAIN node.children |->
                         Accept(node.children[k], depth, simpleTextPrint, style)])
      [] node.kind = "element" -> VisitElement(node, depth, style)
      [] node.kind = "comment" -> VisitComment(node, depth, style)
      [] node.kind = "unknown" -> VisitUnknown(node, depth, style)
      [] node.kind = "declaration" -> Line(style, depth, PrintDeclaration(node.attrs))
      [] OTHER -> VisitText(node, depth, simpleTextPrint, style)

-----------------------------------------------------------------------------
(* Reading. *)

\* if (!p || !*p)
Ended(s, p) == p = 0 \/ p > Len(s)

\* What StringEqual and the tests of single characters look at.
At(s, p) == IF Ended(s, p) THEN "" ELSE s[p]

\* ReadName finds a name there.
NameAt(s, p) == At(s, p) \in Names

\* The first position from p on of one of the atoms, or the end.
SeekIn(s, p, atoms) ==
    LET found == {k \in p .. Len(s) : s[k] \in atoms}
    IN IF found = {} THEN Len(s) + 1 ELSE CHOOSE k \in found : \A l \in found : k <= l

SkipWhiteSpace(s, p) ==
    IF Ended(s, p) THEN 0 ELSE SeekIn(s, p, ToSet(s) \ White)

\* The atoms that begin with '<'.
Opening == {"<", "</", "<!--", "<![CDATA[", "<?xml"}

\* An entity is read as the character it stands for; an ampersand that begins
\* none has length 0.
GetEntity(a) ==
    IF \E e \in Entities : e[2] = a THEN <<(CHOOSE e \in Entities : e[2] = a)[1]>>
    ELSE <<>>

GetChar(a) == IF a = "&" \/ \E e \in Entities : e[2] = a THEN GetEntity(a) ELSE <<a>>

\* White space between two words becomes a space, around them it is dropped.
Condense(raw) ==
    LET first == SeekIn(raw, 1, ToSet(raw) \ White)
    IN FlattenSeq([k \in DOMAIN raw |->
        IF raw[k] \in White THEN <<>>
        ELSE (IF k > first /\ raw[k - 1] \in White THEN <<" ">> ELSE <<>>)
             \o GetChar(raw[k])])

\* GetEntity at "&#x": the number before the next ';' of all the text, whatever
\* is in between, read backwards to an 'x'.  Without one there is no position to
\* go on from, and no character.
GetReference(s, p) ==
    LET semicolon == SeekIn(s, p, {";"} \cup {e[2] : e \in Entities})
    IN IF At(s, semicolon) = "&#x0A;" THEN [pos |-> semicolon + 1, char |-> "&#x0A;"]
       ELSE IF /\ At(s, semicolon) = ";"
               /\ \E n \in Numbers : n[1] = s[semicolon - 1]
               /\ s[semicolon - 2] \in {"&#x", "x"}
       THEN [pos |-> semicolon + 1,
             char |-> (CHOOSE n \in Numbers : n[1] = s[semicolon - 1])[2]]
       ELSE [pos |-> 0, char |-> "&"]

\* The atoms before the next one of `ends', with references read.
RECURSIVE Span(_, _, _)
Span(s, p, ends) ==
    LET e == SeekIn(s, p, ends \cup {"&#x"})
        reference == GetReference(s, e)
        rest == Span(s, reference.pos, ends)
    IN IF p = 0 THEN [pos |-> 0, raw |-> <<>>]
       ELSE IF At(s, e) # "&#x" THEN [pos |-> e, raw |-> SubSeq(s, p, e - 1)]
       ELSE [pos |-> rest.pos, raw |-> SubSeq(s, p, e - 1) \o <<reference.char>> \o rest.raw]

\* What is before the next atom of `ends', and the position of that atom.
ReadText(s, p, trimWhiteSpace, ends) ==
    LET span == Span(s, p, ends)
    IN [pos |-> span.pos,
        text |-> IF trimWhiteSpace THEN Condense(span.raw)
                 ELSE FlattenSeq([k \in DOMAIN span.raw |-> GetChar(span.raw[k])])]

Blank(value) == ToSet(value) \subseteq White

\* p += strlen (endTag), and what is wrong with that at the end of the text.
After(p) == IF p = 0 THEN 0 ELSE p + 1
EndMissing(s, p) == IF p = Len(s) + 1 THEN Overrun ELSE NoError

\* name = "value"; without quotes the value ends with white space or the tag.
ParseAttribute(s, p) ==
    LET equals == SkipWhiteSpace(s, p + 1)
        v == SkipWhiteSpace(s, equals + 1)
        quoted == ReadText(s, v + 1, FALSE, {At(s, v)})
        bareEnd == SeekIn(s, v, White \cup {"/>", ">", "\"", "'"})
    IN IF ~NameAt(s, p) \/ At(s, equals) # "=" \/ Ended(s, v)
       THEN [pos |-> 0, attr |-> Attr("", <<>>), error |-> "reading attributes"]
       ELSE IF s[v] \in {"\"", "'"}
       THEN [pos |-> After(quoted.pos), attr |-> Attr(s[p], quoted.text),
             error |-> EndMissing(s, quoted.pos)]
       ELSE IF At(s, bareEnd) \in {"\"", "'"}
       THEN [pos |-> 0, attr |-> Attr("", <<>>), error |-> "reading attributes"]
       ELSE [pos |-> bareEnd, attr |-> Attr(s[p], SubSeq(s, v, bareEnd - 1)),
             error |-> NoError]

\* SetError keeps the first error.
FirstError(e, f) == IF e # NoError THEN e ELSE f

\* The attributes of a tag, up to its ">" or "/>".  A name that is there
\* already gets the new value, and reading ends with neither an error nor a
\* position to go on from.
RECURSIVE ReadAttributes(_, _, _)
ReadAttributes(s, p, attrs) ==
    LET q == SkipWhiteSpace(s, p)
        a == ParseAttribute(s, q)
        twice == {k \in DOMAIN attrs : attrs[k].name = a.attr.name}
    IN CASE Ended(s, q) -> [pos |-> 0, attrs |-> attrs, error |-> "reading attributes"]
         [] At(s, q) \in {"/>", ">"} -> [pos |-> q, attrs |-> attrs, error |-> NoError]
         [] OTHER ->
              IF Ended(s, a.pos)
              THEN [pos |-> 0, attrs |-> attrs,
                    error |-> FirstError(a.error, "parsing element")]
              ELSE IF twice # {}
              THEN [pos |-> 0, error |-> NoError,
                    attrs |-> [k \in DOMAIN attrs |->
                                 IF k \in twice THEN a.attr ELSE attrs[k]]]
              ELSE ReadAttributes(s, a.pos, Append(attrs, a.attr))

Result(pos, node, error) == [pos |-> pos, node |-> node, error |-> error]

\* A leaf whose value goes from p to the next `end', as it is written.
ParseLeaf(s, p, kind, end) ==
    LET e == SeekIn(s, p, {end})
    IN Result(e + 1, Node(kind, SubSeq(s, p, e - 1), <<>>, <<>>), EndMissing(s, e))

ParseComment(s, p) == ParseLeaf(s, p + 1, "comment", "-->")
ParseCData(s, p) == ParseLeaf(s, p + 1, "cdata", "]]>")

\* It may end with the text as well.
ParseUnknown(s, p) ==
    LET e == SeekIn(s, p + 1, {">"})
    IN Result(IF Ended(s, e) THEN e ELSE e + 1,
              Node("unknown", SubSeq(s, p + 1, e - 1), <<>>, <<>>), NoError)

\* A text goes on to the next thing that begins with '<', and is kept unless
\* it is blank.
ParseText(s, p, children) ==
    LET text == ReadText(s, p, TRUE, Opening)
    IN [pos |-> text.pos,
        children |-> IF Blank(text.text) THEN children
                     ELSE Append(children, Node("text", text.text, <<>>, <<>>))]

\* TiXmlDeclaration::Parse: what is no attribute is passed over, and the errors of
\* attributes reach no document.  A text may end in it, but not after white space.
RECURSIVE ParseDeclaration(_, _, _)
ParseDeclaration(s, p, attrs) ==
    LET q == SkipWhiteSpace(s, p)
        a == ParseAttribute(s, q)
        Declaration(pos, error) == Result(pos, Node("declaration", <<>>, attrs, <<>>), error)
    IN CASE Ended(s, p) -> Declaration(0, NoError)
         [] ~Ended(s, p) /\ Ended(s, q) -> Declaration(0, Asserts)
         [] At(s, q) = ">" -> Declaration(q + 1, NoError)
         [] NameAt(s, q) ->
              IF a.error = Overrun THEN Declaration(0, Overrun)
              ELSE ParseDeclaration(s, a.pos, IF a.attr.value = <<>> THEN attrs
                                              ELSE Append(attrs, a.attr))
         [] OTHER -> ParseDeclaration(s, SeekIn(s, q, White \cup {">"}), attrs)

RECURSIVE ParseNode(_, _), ReadValue(_, _, _, _)

\* ReadValue: texts and nodes in any order, up to the end tag.
ReadValue(s, p, children, error) ==
    LET q == SkipWhiteSpace(s, p)
        text == ParseText(s, q, children)
        node == ParseNode(s, q)
    IN CASE q = 0 ->
              [pos |-> 0, children |-> children,
               error |-> FirstError(error, "reading element value")]
         [] q > Len(s) \/ At(s, q) = "</" ->
              [pos |-> q, children |-> children, error |-> error]
         [] At(s, q) \notin Opening /\ ~Ended(s, q) ->
              ReadValue(s, text.pos, text.children, error)
         [] OTHER ->
              ReadValue(s, node.pos, Append(children, node.node),
                        FirstError(error, node.error))

\* An element without children ends with its tag; otherwise its end tag must
\* follow what is in it.
ParseElement(s, p) ==
    LET name == At(s, p + 1)
        tag == ReadAttributes(s, p + 2, <<>>)
        inside == ReadValue(s, tag.pos + 1, <<>>, tag.error)
        closed == /\ inside.pos + 2 <= Len(s)
                  /\ SubSeq(s, inside.pos, inside.pos + 2) = <<"</", name, ">">>
        Element(children) == Node("element", <<name>>, tag.attrs, children)
    IN CASE Ended(s, p + 2) ->
              Result(0, Node("element", <<name>>, <<>>, <<>>), "failed to read element name")
         [] ~Ended(s, p + 2) /\ tag.pos = 0 -> Result(0, Element(<<>>), tag.error)
         [] At(s, tag.pos) = "/>" -> Result(tag.pos + 1, Element(<<>>), NoError)
         [] OTHER ->
              IF ~Ended(s, inside.pos) /\ closed
              THEN Result(inside.pos + 3, Element(inside.children), inside.error)
              ELSE Result(0, Element(inside.children),
                          FirstError(inside.error, "reading end tag"))

\* Identify chooses the kind of node by the atom, then the node parses itself.
ParseNode(s, p) ==
    CASE At(s, p) = "<?xml" -> ParseDeclaration(s, p + 1, <<>>)
      [] At(s, p) = "<!--" -> ParseComment(s, p)
      [] At(s, p) = "<![CDATA[" -> ParseCData(s, p)
      [] At(s, p) = "<" /\ NameAt(s, p + 1) -> ParseElement(s, p)
      [] OTHER -> ParseUnknown(s, p)

\* TiXmlDocument::Parse: nodes up to the end of the text, or to the first
\* thing that is none; a document without nodes is an error.
RECURSIVE ReadDocument(_, _, _, _)
ReadDocument(s, p, children, error) ==
    LET node == ParseNode(s, p)
    IN IF Ended(s, p) \/ At(s, p) \notin Opening
       THEN [children |-> children,
             error |-> IF children = <<>> THEN FirstError(error, "document empty") ELSE error]
       ELSE ReadDocument(s, SkipWhiteSpace(s, node.pos), Append(children, node.node),
                         FirstError(error, node.error))

Parse(s) ==
    LET read == ReadDocument(s, SkipWhiteSpace(s, 1), <<>>, NoError)
    IN [doc |-> Node("document", <<>>, <<>>, read.children), error |-> read.error]

\* LoadFile makes every end of line, CR, LF or both, the one character LF.
NormalizeLines(file) ==
    FlattenSeq([k \in DOMAIN file |->
        IF file[k] = "\r" THEN <<"\n">>
        ELSE IF file[k] = "\n" /\ k > 1 /\ file[k - 1] = "\r" THEN <<>>
        ELSE <<file[k]>>])

LoadFile(file) ==
    IF file = <<>> THEN [doc |-> Node("document", <<>>, <<>>, <<>>), error |-> "document empty"]
    ELSE Parse(NormalizeLines(file))

=============================================================================

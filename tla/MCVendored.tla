----------------------------- MODULE MCVendored -----------------------------
(***************************************************************************)
(* One TLC instance for the code the scanner was built on: TinyXML's tree  *)
(* and text (XmlDom), its strings (TinyString), characters (Utf8) and      *)
(* cursor (XmlCursor), the options left from the messaging library         *)
(* (Options) and the checksum and time of network programming (Packet).    *)
(* They share nothing: a behaviour begins by choosing the one it is about. *)
(***************************************************************************)
EXTENDS XmlDom, XmlCursor, Packet, Vendored, TLC

CONSTANTS d, n1, n2, n3, s, t, x, y

VARIABLES part, code, text

MCStrings == {s, t}
MCTexts == {<<x>>, <<y, y, x>>}
MCInts == {-2, -1, 0, 1, 2}
MCBlobs == {[size |-> 0, value |-> NoValue], [size |-> 255, value |-> x],
            [size |-> 256, value |-> x]}

Chars == INSTANCE Utf8

\* Around the ends of the lengths of UTF-8, and around what is written as a
\* reference.
Codes == (1 .. 40) \cup (120 .. 135) \cup (2040 .. 2055) \cup (65530 .. 65545)
         \cup (1114100 .. 1114111)

\* What the text of a part is made of, and up to which length: every kind of line
\* end; the words of a packet, enough for two carries; two times.
Atoms ==
    CASE part = "cursor" -> {"x", "\t", "\r", "\n", "mark"}
      [] part = "packet" -> 0 .. WordValues - 1
      [] part = "clock" -> [sec : 0 .. 2, usec : 0 .. Second - 1]

Grow ==
    /\ part \in {"cursor", "packet", "clock"}
    /\ Len(text) < IF part = "clock" THEN 2 ELSE 5
    /\ \E atom \in Atoms : text' = Append(text, atom)

\* Nodes are exchangeable, and strings.
Symmetry == Permutations(Nodes \ {Doc}) \cup Permutations(Strings)

MCNames == {"item", "m_node_id", "m_node_ip", "version"}

\* The kinds of nodes, with values that look like markup, with references, whole
\* and cut, and with white space.
MCPayloads ==
    {Payload("element", <<"item">>, <<>>),
     Payload("text", <<" ", "x", " ", " ", "&", "<", "&#x", "41", ";">>, <<>>),
     Payload("text", <<"&#x", "<", "x">>, <<>>),
     Payload("text", <<"\n">>, <<>>),
     Payload("cdata", <<"\n", "&", "<">>, <<>>),
     Payload("comment", <<" ", ">", "&lt;">>, <<>>),
     Payload("unknown", <<"!", "x">>, <<>>),
     Payload("declaration", <<>>, <<Attr("version", <<"x">>)>>)}

MCSettings ==
    {Attr("m_node_id", <<"1">>), Attr("m_node_ip", <<"\"", " ", "'", "&", "&#x", "41", ";">>)}

stringVars == <<rep, heap>>
optionVars == <<opts, last, asked, others>>
charVars == <<code, text>>

MCInit ==
    /\ Init /\ Str!Init /\ Opt!Init
    /\ part \in {"tree", "strings", "options", "chars", "cursor", "packet", "clock"}
    /\ text = <<>>
    /\ code = IF part = "chars" THEN 1 ELSE 0

\* The application saves the document, and edits it no more.
Save == part = "tree" /\ part' = "saved" /\ UNCHANGED dom

MCNext ==
    \/ part = "tree" /\ Next /\ UNCHANGED <<part, stringVars, optionVars, charVars>>
    \/ Save /\ UNCHANGED <<stringVars, optionVars, charVars>>
    \/ part = "strings" /\ Str!Next /\ UNCHANGED <<part, dom, optionVars, charVars>>
    \/ part = "options" /\ Opt!Next /\ UNCHANGED <<part, dom, stringVars, charVars>>
    \/ part = "chars" /\ code' \in Codes /\ UNCHANGED <<part, dom, stringVars, optionVars, text>>
    \/ Grow /\ UNCHANGED <<part, dom, stringVars, optionVars, code>>

MCSpec == MCInit /\ [][MCNext]_<<part, dom, stringVars, optionVars, charVars>>

-----------------------------------------------------------------------------
(* The properties of the parts. *)

\* However a document was edited, its links agree in both directions, no node is
\* in two places, walks by name and by index find the same children from either
\* end, and create_link makes the links its elements say.
DocumentWhole == TypeOK /\ ListsTwoWay /\ OwnedOnce /\ WalksAgree /\ LinksAsWritten

\* What is saved is read back as the same document, as it was written by Print
\* or by a printer, with any ends of lines, exactly when the references in its
\* values are whole; a file cut short is reported, but where the reader runs past
\* its end.
SavedIsRead ==
    [][part' = "saved" /\ part # part' =>
        RoundTrip /\ PrinterRoundTrip /\ LineEndsDontMatter /\ TruncationReported]_<<part, dom>>

\* Characters are read as they are written, an error has the row and column of
\* the line it is in, checksums verify at the receiver, and a round trip takes the
\* time between its ends.
BytesAndCountsAgree ==
    /\ part = "chars" => \A following \in Codes : Chars!CharReadBack(code, following)
    /\ part = "cursor" => CursorSurvivesLoading(text) /\ ColumnsCounted(text)
    /\ part = "packet" => Verifies(text)
    /\ part = "clock" /\ Len(text) = 2 => Elapses(text[1], text[2])

=============================================================================

------------------------------ MODULE XmlCursor -----------------------------
(***************************************************************************)
(* TiXmlParsingData: the row and the column at which an error is reported. *)
(* A text is a sequence of atoms: line ends, tabs, marks of no width and   *)
(* characters, each one column wide however many bytes it has.             *)
(***************************************************************************)
EXTENDS XmlText, FiniteSets

CONSTANT TabSize     \* of the document, four by default

\* The cursor after the atom it is at: CR LF and LF CR end one line.
Advance(s, c) ==
    CASE s[c.stamp] \in {"\r", "\n"} ->
           [row |-> c.row + 1, col |-> 0,
            stamp |-> IF {s[c.stamp], At(s, c.stamp + 1)} = {"\r", "\n"} THEN c.stamp + 2
                      ELSE c.stamp + 1]
      [] s[c.stamp] = "\t" ->
           [c EXCEPT !.col = (c.col \div TabSize + 1) * TabSize, !.stamp = @ + 1]
      [] s[c.stamp] = "mark" -> [c EXCEPT !.stamp = @ + 1]
      [] OTHER -> [c EXCEPT !.col = @ + 1, !.stamp = @ + 1]

\* Stamp: the cursor goes on from where it was last left.
RECURSIVE Stamp(_, _, _)
Stamp(s, c, now) == IF c.stamp >= now THEN c ELSE Stamp(s, Advance(s, c), now)

Start == [row |-> 0, col |-> 0, stamp |-> 1]

-----------------------------------------------------------------------------

\* The same place of a text has the same row and column whether the text was
\* loaded, which makes its line ends the same, or parsed as it is; but for LF CR,
\* which loading makes two ends of lines.
CursorSurvivesLoading(s) ==
    (\A k \in 1 .. Len(s) - 1 : <<s[k], s[k + 1]>> # <<"\n", "\r">>) =>
        \A k \in 1 .. Len(s) + 1 :
            LET loaded == NormalizeLines(SubSeq(s, 1, k - 1))
                inText == Stamp(s, Start, k)
                inFile == Stamp(loaded, Start, Len(loaded) + 1)
            IN inText.row = inFile.row /\ inText.col = inFile.col

\* In a line without tabs the column is the number of its characters; with tabs it is
\* not less, and after a tab it is a multiple of their size.
ColumnsCounted(s) ==
    LET c == Stamp(s, Start, Len(s) + 1)
        ends == {k \in DOMAIN s : s[k] \in {"\r", "\n"}}
        line == {k \in DOMAIN s : s[k] # "mark" /\ \A e \in ends : e < k}
        tabs == {k \in line : s[k] = "\t"}
    IN /\ c.col >= Cardinality(line)
       /\ tabs = {} => c.col = Cardinality(line)
       /\ \A t \in tabs : (\A k \in line : k <= t) => c.col % TabSize = 0

=============================================================================

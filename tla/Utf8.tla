-------------------------------- MODULE Utf8 --------------------------------
(***************************************************************************)
(* How TinyXML writes and reads single characters: references by number,   *)
(* UTF-8 sequences, and the table of their lengths.                        *)
(***************************************************************************)
EXTENDS Naturals, Sequences, SequencesExt

\* utf8ByteTable: the length of the sequence a byte leads.
ByteTable(byte) ==
    CASE byte \in 194 .. 223 -> 2
      [] byte \in 224 .. 239 -> 3
      [] byte \in 240 .. 244 -> 4
      [] OTHER -> 1

\* FIRST_BYTE_MARK
FirstByteMark == <<0, 192, 224, 240>>

LengthOf(code) ==
    CASE code < 128 -> 1 [] code < 2048 -> 2 [] code < 65536 -> 3 [] code < 2097152 -> 4
      [] OTHER -> 0

\* ConvertUTF32ToUTF8, from the last byte to the first: the lowest six bits with
\* the mark of a following byte, then the first byte with its own.
Convert(code) ==
    LET length == LengthOf(code)
        Shifted(k) == code \div (64 ^ (length - k))
    IN [k \in 1 .. length |->
          IF k = 1 THEN FirstByteMark[length] + Shifted(1) ELSE 128 + (Shifted(k) % 64)]

\* GetEntity: a number from its digits, from the last to the first.
Reference(digits, base) ==
    FoldRight(LAMBDA digit, done : [ucs |-> done.ucs + done.mult * digit, mult |-> done.mult * base],
              digits, [ucs |-> 0, mult |-> 1]).ucs

\* EncodeString writes a character below 32 as two hexadecimal digits.
ControlDigits(code) == <<code \div 16, code % 16>>

\* GetChar: the bytes of the character at p.
GetBytes(text, p) == SubSeq(text, p, p + ByteTable(text[p]) - 1)

-----------------------------------------------------------------------------
(* The reference definition and the property. *)

\* The least code point of each length, and the code point of a sequence.
Least == <<0, 128, 2048, 65536>>
Decode(bytes) ==
    FoldLeft(LAMBDA code, byte : code * 64 + byte - 128, bytes[1] - FirstByteMark[Len(bytes)],
             Tail(bytes))

RECURSIVE Digits(_, _)
Digits(n, base) == IF n < base THEN <<n>> ELSE Append(Digits(n \div base, base), n % base)

\* A character is written in the shortest form of UTF-8, two in a row are told
\* apart by the table, and its reference by number is read as the character.
CharReadBack(code, following) ==
    LET bytes == Convert(code)
        text == bytes \o Convert(following)
    IN /\ Decode(bytes) = code
       /\ \A n \in DOMAIN Least : Len(bytes) >= n <=> code >= Least[n]
       /\ GetBytes(text, 1) = bytes
       /\ GetBytes(text, Len(bytes) + 1) = Convert(following)
       /\ \A base \in {10, 16} : Reference(Digits(code, base), base) = code
       /\ code < 32 => Reference(ControlDigits(code), 16) = code

=============================================================================

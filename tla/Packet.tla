------------------------------- MODULE Packet -------------------------------
(***************************************************************************)
(* The arithmetic of an echo request and its reply: the checksum session_  *)
(* node::write puts into the header, and the time on_recv takes from the   *)
(* stamp that comes back.  A word has WordValues values, 2^16 in the code; *)
(* a second has Second microseconds, 10^6 in the code.                     *)
(***************************************************************************)
EXTENDS Integers, Sequences

CONSTANTS WordValues, Second

ASSUME WordAssumption == WordValues \in Nat /\ WordValues >= 4
ASSUME SecondAssumption == Second \in Nat \ {0}

\* The words are added in an accumulator of twice their width.
Accumulate(words) ==
    LET sum[k \in 0 .. Len(words)] ==
            IF k = 0 THEN 0 ELSE (sum[k - 1] + words[k]) % (WordValues * WordValues)
    IN sum[Len(words)]

\* Fault: the carry of the folding is dropped.
FoldOnce(sum) == (sum \div WordValues) + (sum % WordValues)

\* The high word is added to the low one, and the carry of that.
Fold(sum) ==
    LET once == (sum \div WordValues) + (sum % WordValues)
    IN once + (once \div WordValues)

in_cksum(words) == WordValues - 1 - (Fold(Accumulate(words)) % WordValues)

Time(sec, usec) == [sec |-> sec, usec |-> usec]

tv_sub(out, in) ==
    LET usec == out.usec - in.usec
    IN IF usec < 0 THEN Time(out.sec - 1 - in.sec, usec + Second)
       ELSE Time(out.sec - in.sec, usec)

-----------------------------------------------------------------------------

\* A packet whose checksum was computed with the field at zero and then filled
\* in adds up to nothing at the receiver, wherever the field is; and no longer
\* when one word of it is changed, unless between the two forms of zero.
Verifies(words) ==
    \A field \in DOMAIN words :
        LET sent == [words EXCEPT ![field] = in_cksum([words EXCEPT ![field] = 0])]
        IN /\ in_cksum(sent) = 0
           /\ \A k \in DOMAIN words, word \in 0 .. WordValues - 1 :
                in_cksum([sent EXCEPT ![k] = word]) = 0 =>
                    word = sent[k] \/ {word, sent[k]} = {0, WordValues - 1}

\* The time from the stamp to the reply is the difference of the two, in
\* seconds and a part of one, also when the clock was set back in between.
Elapses(out, in) ==
    LET rtt == tv_sub(out, in)
    IN /\ rtt.usec \in 0 .. Second - 1
       /\ rtt.sec * Second + rtt.usec
            = (out.sec * Second + out.usec) - (in.sec * Second + in.usec)

=============================================================================

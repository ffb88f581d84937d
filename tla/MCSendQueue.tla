---------------------------- MODULE MCSendQueue ----------------------------
(* TLC instances of SendQueue; the sizes are those of the code.            *)
EXTENDS SendQueue

\* Items of 17 and of 136 bytes.
MixedLengths == {1, 120}

\* The same, the largest item that fits the work buffer behind its header, the
\* longest that is let through, and two lengths that are refused.
AllLengths == {0, 1, 120, 8308, 8320, 8321}

=============================================================================

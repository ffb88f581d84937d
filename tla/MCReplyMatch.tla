---------------------------- MODULE MCReplyMatch ----------------------------
(* TLC instances of ReplyMatch: two hosts on two I/O threads.              *)
EXTENDS ReplyMatch

CONSTANTS a, b

TwoThreads == [h \in Hosts |-> IF h = a THEN 1 ELSE 2]

\* In the worst case a buffer that is being written shows any text; at best it
\* shows one that is no host's.
AnyText == Shown
NoHost == {Torn}

=============================================================================

------------------------------ MODULE MCYQueue ------------------------------
(* TLC instance of YQueue.                                                 *)
EXTENDS YQueue, TLC

CONSTANTS c1, c2, c3, c4, c5, c6

MCChunks == {c1, c2, c3, c4, c5, c6}

\* Chunks are interchangeable; no property of the run depends on which is which.
Symmetry == Permutations(MCChunks)

=============================================================================

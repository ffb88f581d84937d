------------------------------ MODULE CellQueue -----------------------------
(***************************************************************************)
(* What yqueue_t promises the pipe built on it: a queue of cells that one  *)
(* thread extends and takes back at its end while another removes cells    *)
(* from its front, and that its owner destroys when both are done.         *)
(***************************************************************************)
EXTENDS Naturals, Sequences

CONSTANT MaxWrites   \* bound: cells in use or removed at any time

VARIABLE queue

Init == queue = <<>>

\* The writer fills the cell behind the last one; cells are told apart by a
\* number.
Write == \E v \in 1 .. MaxWrites : queue' = Append(queue, v)

\* The writer takes its last cell back.
Unwrite == queue # <<>> /\ queue' = SubSeq(queue, 1, Len(queue) - 1)

\* The reader removes the oldest cell.
Read == queue # <<>> /\ queue' = Tail(queue)

\* The owner destroys the queue with whatever is in it.
Drop == queue' = <<>>

Next == Write \/ Unwrite \/ Read \/ Drop

Spec == Init /\ [][Next]_queue

=============================================================================

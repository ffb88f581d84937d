--------------------------- MODULE CommandChannel ---------------------------
(***************************************************************************)
(* What a mailbox promises the objects that use it (object_t::send_command *)
(* on one side, io_thread_t::in_event and reaper_t::in_event on the        *)
(* other): a reliable FIFO queue of commands from many senders to one      *)
(* reader.  A command is the pair <<sender, k>>, the k-th one of its       *)
(* sender.                                                                 *)
(***************************************************************************)
EXTENDS Naturals, Sequences

CONSTANTS
    Senders,   \* the threads that post commands
    MaxSends   \* bound: commands one sender posts

VARIABLES
    posted,    \* the commands posted so far, oldest first
    taken      \* the commands the reader has taken, in order

chVars == <<posted, taken>>

IsPosted(m) == \E i \in 1 .. Len(posted) : posted[i] = m

Init == posted = <<>> /\ taken = <<>>

\* A sender posts its commands in order, each one once.
Post(s, k) ==
    /\ ~IsPosted(<<s, k>>)
    /\ \A j \in 1 .. (k - 1) : IsPosted(<<s, j>>)
    /\ posted' = Append(posted, <<s, k>>)
    /\ UNCHANGED taken

\* The reader takes the oldest command it has not taken.
Take ==
    /\ Len(taken) < Len(posted)
    /\ taken' = Append(taken, posted[Len(taken) + 1])
    /\ UNCHANGED posted

Next == Take \/ \E s \in Senders, k \in 1 .. MaxSends : Post(s, k)

\* The reader never stops taking while a command is left.
Spec == Init /\ [][Next]_chVars /\ WF_chVars(Take)

=============================================================================

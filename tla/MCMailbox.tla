----------------------------- MODULE MCMailbox -----------------------------
(* TLC instance of Mailbox: a few senders that each send a few commands.   *)
EXTENDS Mailbox

CONSTANTS s1, s2, s3

ThreeSenders == {s1, s2, s3}

=============================================================================

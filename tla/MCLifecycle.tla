----------------------------- MODULE MCLifecycle ----------------------------
(* TLC instances of Lifecycle.                                             *)
EXTENDS Lifecycle

CONSTANTS a, b

=============================================================================

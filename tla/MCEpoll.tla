------------------------------- MODULE MCEpoll ------------------------------
EXTENDS Epoll, TLC
CONSTANTS m, a, b, none, e1, e2, e3, f1, f2, f3

\* The constants of one kind can be exchanged for each other.
Symmetry ==
    Permutations({a, b}) \cup Permutations(Entries) \cup Permutations(Fds)
=============================================================================

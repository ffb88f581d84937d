----------------------------- MODULE HostMonitor ----------------------------
(***************************************************************************)
(* What the scanner promises the application that gave it a list of hosts: *)
(* it is told of every silence of a host it watches, once for each silence *)
(* and in the order the silences were noticed, besides being told of       *)
(* failures to read, and never of a host it has not asked about.           *)
(***************************************************************************)
EXTENDS Naturals, Sequences

CONSTANT Hosts

VARIABLES
    watched,    \* the hosts being watched
    overdue,    \* those whose present silence has been noticed
    notices,    \* noticed, and not told yet
    failures,   \* failures to read, of each host
    told        \* how often the application has been told of it

vars == <<watched, overdue, notices, failures, told>>

Init ==
    /\ watched = {} /\ overdue = {}
    /\ notices = <<>>
    /\ failures = [h \in Hosts |-> 0]
    /\ told = [h \in Hosts |-> 0]

Watch(h) ==
    /\ h \notin watched
    /\ watched' = watched \cup {h}
    /\ UNCHANGED <<overdue, notices, failures, told>>

\* A silence that has lasted is noticed once.
Notice(h) ==
    /\ h \in watched \ overdue
    /\ overdue' = overdue \cup {h}
    /\ notices' = Append(notices, h)
    /\ UNCHANGED <<watched, failures, told>>

\* A failure to read counts as a silence, one that has been noticed too.
Fail(h) ==
    /\ h \in watched
    /\ overdue' = overdue \cup {h}
    /\ notices' = Append(notices, h)
    /\ failures' = [failures EXCEPT ![h] = @ + 1]
    /\ UNCHANGED <<watched, told>>

\* The host answers: the next silence begins.
Answer(h) ==
    /\ h \in watched
    /\ overdue' = overdue \ {h}
    /\ UNCHANGED <<watched, notices, failures, told>>

Tell ==
    /\ notices # <<>>
    /\ told' = [told EXCEPT ![Head(notices)] = @ + 1]
    /\ notices' = Tail(notices)
    /\ UNCHANGED <<watched, overdue, failures>>

Next == Tell \/ \E h \in Hosts : Watch(h) \/ Notice(h) \/ Fail(h) \/ Answer(h)

Spec == Init /\ [][Next]_vars

=============================================================================

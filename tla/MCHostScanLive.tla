--------------------------- MODULE MCHostScanLive ---------------------------
(***************************************************************************)
(* A single host over all time: a behaviour either keeps up with the clock *)
(* and is fair, or it is late: its I/O thread lags behind at will, the     *)
(* 32-bit difference wraps, reads fail more often, and the host may have   *)
(* no address, which ends the process.                                     *)
(***************************************************************************)
EXTENDS HostScan

CONSTANT a

VARIABLE late

OneLink == <<a>>
MCScanTime == [h \in Hosts |-> 1]
MCTimeOut == [h \in Hosts |-> 2]

Late == INSTANCE HostScan WITH
    PlugOutcomes <- {"ok", "noSocket", "unresolved"}, WrapTicks <- 8, KeepUp <- FALSE,
    MaxReadErrors <- 2

MCNext ==
    /\ UNCHANGED late
    /\ \/ late /\ Late!Next
       \/ ~late /\ Next

\* The fairness of HostScan, when it is not late.
MCFairness ==
    /\ WF_vars(~late /\ ~crashed /\ HostInit)
    /\ WF_vars(~late /\ ~crashed /\ Reaper)
    /\ \A h \in Hosts : WF_vars(~late /\ ~crashed /\ Session(h))
    /\ WF_vars(~late /\ ~crashed /\ Tick)

MCSpec == Init /\ late \in BOOLEAN /\ [][MCNext]_<<vars, late>> /\ MCFairness

-----------------------------------------------------------------------------

\* While a host stays silent its session ends up reported, and every report
\* ends up with the application.
EverySilenceReported ==
    \A h \in Hosts :
        ~late /\ sess[h] = "live" /\ ~hadReport[h] ~> hadReport[h] /\ outCalls[h] = reports[h]

\* A session that could not open its socket is eventually deleted.
ExitedSessionsDeleted == \A h \in Hosts : ~late /\ sess[h] = "exited" ~> sess[h] = "deleted"

=============================================================================

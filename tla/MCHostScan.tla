----------------------------- MODULE MCHostScan -----------------------------
(* TLC instance of HostScan.                                              *)
EXTENDS HostScan

CONSTANTS a, b, skipped

TwoLinks == <<a, skipped, b>>

\* Periods of one and two ticks; the link without a scan time is skipped.
MCScanTime == [h \in Hosts |-> IF h = a THEN 1 ELSE IF h = b THEN 2 ELSE 0]
MCTimeOut == [h \in Hosts |-> IF h = a THEN 2 ELSE 3]

=============================================================================

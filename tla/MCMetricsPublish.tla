---------------------------- MODULE MCMetricsPublish ----------------------------
(***************************************************************************)
(* Four campaigns, two of which get the pid of another: a pid can be used  *)
(* again while a campaign with another pid races for the path.             *)
(***************************************************************************)
EXTENDS MetricsPublish

CONSTANTS p1, p2, p3, p4, d1, d2

MCProcs == {p1, p2, p3, p4}
MCPids == {d1, d2}
MCPid == [p \in MCProcs |-> IF p \in {p1, p2} THEN d1 ELSE d2]
=============================================================================

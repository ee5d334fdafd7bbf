--------------------------- MODULE MCProcessScan ---------------------------
(***************************************************************************)
(* Instances of ProcessScan: three pids for three processes besides this   *)
(* program's own, read in batches of at most two names.                    *)
(***************************************************************************)
EXTENDS ProcessScan, TLC

CONSTANTS me, p1, p2, p3

MCPids == {1, 2, 3}
MCProcesses == {me, p1, p2, p3}
=============================================================================

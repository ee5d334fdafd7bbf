---------------------------- MODULE MCSyncBridge ----------------------------
(***************************************************************************)
(* Instances of SyncBridge: two callers and another task, on runtimes with *)
(* too few, just enough and plenty of threads.                             *)
(***************************************************************************)
EXTENDS SyncBridge

CONSTANTS c1, c2, other, w1, w2

MCCallers == {c1, c2}
MCOthers == {other}
MCWorkers == {w1, w2}
MCLimits == 1..4
=============================================================================

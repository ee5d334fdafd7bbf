-------------------------- MODULE MCProcessHandle --------------------------
(***************************************************************************)
(* Instances of ProcessHandle: two pids for two processes besides this     *)
(* program's own, so that one of them gets the pid of the other while      *)
(* handles are held.  One of the two is bare.                              *)
(***************************************************************************)
EXTENDS ProcParsers

CONSTANTS c1, c2, me, p1, p2

MCClients == {c1, c2}
MCPids == {1, 2}
MCProcesses == {me, p1, p2}
MCBare == {p2}
MCCalls ==
  (c1 :> {"stat", "set_oom_score_adj"}) @@
  (c2 :> {"oom_score", "environ", "cmdline", "coredump_filter", "uid"})
MCReads == [c \in MCClients |-> {"stat"}]
=============================================================================

------------------------------ MODULE MCTasks ------------------------------
(***************************************************************************)
(* Instances of Tasks: a main thread and three others over three tids, so  *)
(* that a thread ends inside, behind and ahead of a batch, and its tid     *)
(* comes back while it is listed or held.                                  *)
(***************************************************************************)
EXTENDS Tasks

MCTids == {1, 2, 3}
=============================================================================

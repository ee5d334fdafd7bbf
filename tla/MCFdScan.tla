------------------------------ MODULE MCFdScan ------------------------------
(***************************************************************************)
(* Instances of FdScan: two descriptors, a file to read, a file to write   *)
(* and a file whose name is not UTF-8.                                     *)
(***************************************************************************)
EXTENDS FdScan, TLC

CONSTANTS input, log, latin1

MCFds == {0, 1}
MCFiles == {input, log, latin1}
MCMode == (input :> "r") @@ (log :> "w") @@ (latin1 :> "rw")
MCNameable == {input, log}
=============================================================================

----------------------------- MODULE ProcResult -----------------------------
(***************************************************************************)
(* The outcome of a library call: ProcResult<T> = Result<T, ProcError>.    *)
(* An outcome is a one-field record, so that outcomes of different kinds   *)
(* are always comparable.  Error texts are abstracted to the class that    *)
(* the callers in this crate tell apart.                                   *)
(***************************************************************************)

Ok(v) == [ok |-> v]
Err(e) == [err |-> e]

\* No call has finished yet, or the future of the last one was dropped.
Pending == [pending |-> TRUE]

IsOk(r) == "ok" \in DOMAIN r
IsErr(r) == "err" \in DOMAIN r

ResultOf(T, E) == [ok : T] \cup [err : E]
=============================================================================

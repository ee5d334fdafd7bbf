---------------------------- MODULE VersionOracle ----------------------------
(***************************************************************************)
(* What Version::cached (src/sys/kernel/mod.rs) promises to its callers,   *)
(* with no cache, no file and no concurrency in sight: a caller is told    *)
(* the version of a kernel whose release file can be parsed, and from its  *)
(* first answer on the caller is never refused again, whatever happens to  *)
(* the file afterwards.                                                    *)
(***************************************************************************)
EXTENDS ProcResult

CONSTANTS
  Callers,    \* tasks that ask
  Kernels,    \* the versions an answer may name
  Failures    \* the classes of error

VARIABLES
  known,      \* known[c]: caller c has had an answer
  answer      \* answer[c]: the outcome of c's last finished call

oracleVars == <<known, answer>>

Init ==
  /\ known = [c \in Callers |-> FALSE]
  /\ answer = [c \in Callers |-> Pending]

Learn(c) ==
  /\ \E v \in Kernels : answer' = [answer EXCEPT ![c] = Ok(v)]
  /\ known' = [known EXCEPT ![c] = TRUE]

Refuse(c) ==
  /\ ~known[c]
  /\ \E e \in Failures : answer' = [answer EXCEPT ![c] = Err(e)]
  /\ UNCHANGED known

\* The caller drops its future before it resolves.
Drop(c) ==
  /\ ~known[c]
  /\ answer' = [answer EXCEPT ![c] = Pending]
  /\ UNCHANGED known

Next == \E c \in Callers : Learn(c) \/ Refuse(c) \/ Drop(c)

Spec == Init /\ [][Next]_oracleVars
=============================================================================

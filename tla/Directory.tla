----------------------------- MODULE Directory -----------------------------
(***************************************************************************)
(* External: getdents.  The entries of a directory that is read have an    *)
(* order, and are numbered by it; one read returns the first of those that *)
(* are left, as many as fit into its buffer.                               *)
(***************************************************************************)
EXTENDS Integers, Sequences

\* b has the lowest members of S and no others, in increasing order.
Leads(b, S) ==
  /\ \A j, k \in 1..Len(b) : j < k => b[j] < b[k]
  /\ \A n \in S : n <= b[Len(b)] => \E k \in 1..Len(b) : b[k] = n

\* What one read may return if the entries S are left and `most` of them fit.
Batches(S, most) == {b \in UNION {[1..n -> S] : n \in 1..most} : Leads(b, S)}
=============================================================================

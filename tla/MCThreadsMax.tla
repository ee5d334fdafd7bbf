---------------------------- MODULE MCThreadsMax ----------------------------
(***************************************************************************)
(* Instances of ThreadsMax.  Limits are the two ends of the range and the  *)
(* two numbers next to them.                                               *)
(***************************************************************************)
EXTENDS ThreadsMax, TLC

CONSTANTS c1, c2, rootA, rootB

MCCallers == {c1, c2}
MCRoots == {rootA, rootB}
MCLimits == {THREADS_MIN - 1, THREADS_MIN, THREADS_MAX + 1}

\* A kernel that does not bound the limit although its minor number is above
\* 1, and one that does.
MCMixed == (rootA :> <<2, 6, 32>>) @@ (rootB :> <<6, 1, 4660>>)

\* A kernel that bounds the limit and whose minor number is 0.
MCMinorZero == (rootA :> <<5, 0, 8>>) @@ (rootB :> <<5, 0, 8>>)

MCSymmetry == Permutations(MCCallers)
=============================================================================

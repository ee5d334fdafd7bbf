--------------------------- MODULE MCVersionCache ---------------------------
(***************************************************************************)
(* Instances of VersionCache: a machine with two procfs roots of different *)
(* kernels (an old one, a new one with a large patch level) and a root     *)
(* whose release text does not fit the fields of Version.                  *)
(***************************************************************************)
EXTENDS VersionCache, TLC

CONSTANTS c1, c2, c3, oldRoot, newRoot, badRoot

MCCallers == {c1, c2, c3}
MCRoots == {oldRoot, newRoot, badRoot}
MCOsRelease ==
  (oldRoot :> <<2, 6, 32, 71>>) @@ (newRoot :> <<6, 1, 4660>>)
    @@ (badRoot :> <<4, 300, 1>>)
=============================================================================

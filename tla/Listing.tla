------------------------------ MODULE Listing ------------------------------
(***************************************************************************)
(* What a stream over a directory promises (all_processes and fds,         *)
(* src/process/mod.rs): it tells of entries that were in the directory     *)
(* while it ran, of no name twice, and a listing that is complete has told *)
(* of every entry that stayed in the directory from its start to its end.  *)
(* Entries come and go at any time.  There are no batches, cursors or      *)
(* opens here, so what happens between a name and its open cannot show.    *)
(***************************************************************************)
CONSTANTS
  Names,      \* the names a directory can have
  Things      \* what a name can be of: a process, a file

VARIABLES
  there,      \* the entries of the directory
  stayed,     \* those that have been there from the start of the listing
  met,        \* the entry the stream has looked at and not told of, if any
  told,       \* the entries the consumer was told of
  status      \* the listing: none, open, complete, or broken off

listingVars == <<there, stayed, met, told, status>>

Entries == Names \X Things

ListingInit ==
  /\ there \subseteq Entries
  /\ stayed = {}
  /\ met = {}
  /\ told = {}
  /\ status = "none"

\* Entries come and go.
Change ==
  /\ there' \subseteq Entries
  /\ stayed' = stayed \cap there'
  /\ UNCHANGED <<met, told, status>>

\* The listing starts, or fails to.
Start ==
  /\ status = "none"
  /\ status' \in {"open", "broken"}
  /\ stayed' = there
  /\ UNCHANGED <<there, met, told>>

\* The stream looks at an entry, or lets the last one go.
Look ==
  /\ status = "open"
  /\ \/ met' = {}
     \/ \E e \in there : met' = {e}
  /\ UNCHANGED <<there, stayed, told, status>>

Tell ==
  /\ status = "open"
  /\ \E e \in there \cup met :
       /\ \A x \in told : x[1] # e[1]
       /\ told' = told \cup {e}
  /\ met' = {}
  /\ UNCHANGED <<there, stayed, status>>

Complete ==
  /\ status = "open"
  /\ stayed \subseteq told
  /\ status' = "complete"
  /\ met' = {}
  /\ UNCHANGED <<there, stayed, told>>

\* An error, the consumer's drop, or a want of files.
BreakOff ==
  /\ status = "open"
  /\ status' = "broken"
  /\ met' = {}
  /\ UNCHANGED <<there, stayed, told>>

ListingNext == Change \/ Start \/ Look \/ Tell \/ Complete \/ BreakOff

ListingSpec == ListingInit /\ [][ListingNext]_listingVars
=============================================================================

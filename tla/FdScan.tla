------------------------------- MODULE FdScan -------------------------------
(***************************************************************************)
(* Process::fds, Process::fd_count and FDInfo::from_process_at             *)
(* (src/process/mod.rs): one call that lists, or counts, the descriptors   *)
(* of another process while that process opens and closes files, and while *)
(* other tasks fill the cache of kernel versions through other roots.      *)
(*                                                                         *)
(* The stream reads names of /proc/<pid>/fd in batches and, for each,      *)
(* runs FDInfo::from_process_at: ask Version::cached how old the kernel    *)
(* is, open the link itself, read it, take its metadata. What fails is     *)
(* skipped. fd_count takes the size of the directory where the kernel      *)
(* gives one (6.2), and otherwise counts the items of the stream.          *)
(*                                                                         *)
(* External: the descriptor table, and what the three operations see of    *)
(* it.  The mode is the one of the file at the time of the open, the       *)
(* target the one of the file at the time of the read.  Opening a link     *)
(* with O_NOFOLLOW and without O_PATH fails; before Linux 3.6 there are no *)
(* metadata of a file opened with O_PATH.                                  *)
(***************************************************************************)
EXTENDS Integers, FiniteSets, ProcResult, Directory

CONSTANTS
  Fds,          \* descriptor numbers the process uses
  Files,        \* files it opens
  Closed,       \* the descriptor is not open
  Mode,         \* Mode[f]: the permission bits of a descriptor open on f
  Nameable,     \* the files whose link is UTF-8 and an FDTarget
  Batch,        \* most names one read of the directory returns
  SpareFiles    \* files this program may open besides those it holds

ASSUME FdsAssumption == Fds \subseteq Nat /\ IsFiniteSet(Fds)
ASSUME FilesAssumption == Closed \notin Files /\ Nameable \subseteq Files
ASSUME FdBatchAssumption == Batch \in Nat \ {0} /\ SpareFiles \in Nat

VARIABLES
  table,      \* table[n]: the file that descriptor n of the process is open on
  kernel,     \* what the kernel can do: sized directories (6.2), O_PATH metadata (3.6)
  cached,     \* the age in the static cache, as this task loads it: none, old, new
  op,         \* the call: fds or fd_count
  phase,      \* where the call is
  cursor,     \* the last name read
  batch,      \* names read and not yet looked at
  fd,         \* the descriptor FDInfo::from_process_at is working on
  path,       \* it opens the link with O_PATH
  info,       \* the mode and the target it has so far
  items,      \* what the stream has yielded
  outcome,    \* the result of fd_count, or of the opening of the stream
  steady,     \* history: the descriptors whose file is the one they had at the call
  misled      \* history: the descriptors opened for a kernel of another age

ageVars == <<cached, path, misled>>
fdVars == <<kernel, op, phase, cursor, batch, fd, info, items, outcome,
                 ageVars>>
vars == <<table, steady, fdVars>>

Open == {n \in Fds : table[n] # Closed}

\* The stream holds the directory open; FDInfo needs one file more.
DirOpens == SpareFiles >= 1
LinkOpens == SpareFiles >= 2

NoInfo == [mode |-> Closed, target |-> Closed]
NoFd == -1

FdInit ==
  /\ table \in [Fds -> Files \cup {Closed}]
  /\ steady = Fds
  /\ kernel \in {k \in [sized : BOOLEAN, pathStat : BOOLEAN] : k.sized => k.pathStat}
  /\ cached \in {"none", "old", "new"}
  /\ op \in {"fds", "fd_count"}
  /\ phase = "none"
  /\ cursor = NoFd
  /\ batch = <<>>
  /\ fd = NoFd
  /\ path = FALSE
  /\ info = NoInfo
  /\ items = <<>>
  /\ outcome = Pending
  /\ misled = {}

-----------------------------------------------------------------------------
\* The process opens a file, closes one, or puts another in its place (dup2).
\* All descriptors close at once when it exits.
Redirect(n, f) ==
  /\ table' = [table EXCEPT ![n] = f]
  /\ steady' = steady \ {n}
  /\ table[n] # f
  /\ UNCHANGED fdVars

ProcessExits ==
  /\ table' = [n \in Fds |-> Closed]
  /\ steady' = steady \ Open
  /\ Open # {}
  /\ UNCHANGED fdVars

-----------------------------------------------------------------------------
\* Another task stores the version of the kernel under its root, which need not
\* be the one this process is of; or its store becomes visible here.
CacheFills(age) ==
  /\ cached # age
  /\ cached' = age
  /\ UNCHANGED <<table, steady, kernel, op, phase, cursor, batch, fd, path, info, items,
                 outcome, misled>>

-----------------------------------------------------------------------------
Return(r) ==
  /\ outcome' = r
  /\ phase' = "returned"

\* fd_count asks for the size of the directory.
CountFast ==
  /\ phase = "none"
  /\ steady' = Fds
  /\ op = "fd_count"
  /\ \/ kernel.sized /\ Open # {} /\ Return(Ok(Cardinality(Open)))
     \/ Return(Err("Io"))
  /\ UNCHANGED <<table, kernel, op, cursor, batch, fd, info, items, ageVars>>

\* A size of 0 sends it to the stream.
CountSlow ==
  /\ phase = "none"
  /\ steady' = Fds
  /\ op = "fd_count"
  /\ kernel.sized => Open = {}
  /\ phase' = "opening"
  /\ UNCHANGED <<table, kernel, op, cursor, batch, fd, info, items, outcome,
                 ageVars>>

BeginList ==
  /\ phase = "none"
  /\ steady' = Fds
  /\ op = "fds"
  /\ phase' = "opening"
  /\ UNCHANGED <<table, kernel, op, cursor, batch, fd, info, items, outcome,
                 ageVars>>

\* The directory is opened, or fds() fails.
OpenDir ==
  /\ phase = "opening"
  /\ \/ DirOpens /\ phase' = "listing" /\ UNCHANGED outcome
     \/ Return(Err("Io"))
  /\ UNCHANGED <<table, steady, kernel, op, cursor, batch, fd, info, items, ageVars>>

NamesLeft == {n \in Open : n > cursor}

ReadNames ==
  /\ phase = "listing"
  /\ batch = <<>>
  /\ \E names \in Batches(NamesLeft, Batch) :
       /\ batch' = names
       /\ cursor' = names[Len(names)]
  /\ UNCHANGED <<table, steady, kernel, op, phase, fd, info, items, outcome,
                 ageVars>>

\* What fd_count returns when the stream has ended after the items `all`.
Counted(all) == IF op = "fd_count" THEN Ok(Len(all)) ELSE outcome

\* Mutant: the stream ends where a batch does.
NamesEndEarly ==
  /\ phase = "listing"
  /\ batch = <<>>
  /\ Return(Counted(items))
  /\ UNCHANGED <<table, steady, kernel, op, cursor, batch, fd, info, items, ageVars>>

NamesEnd ==
  /\ phase = "listing"
  /\ batch = <<>>
  /\ NamesLeft = {}
  /\ Return(Counted(items))
  /\ UNCHANGED <<table, steady, kernel, op, cursor, batch, fd, info, items, ageVars>>

\* `entry?` yields the error, which is an item like any other, and ends.
ReadNamesFails ==
  /\ phase = "listing"
  /\ batch = <<>>
  /\ items' = Append(items, Err("Io"))
  /\ Return(Counted(items'))
  /\ UNCHANGED <<table, steady, kernel, op, cursor, batch, fd, info, ageVars>>

TakeFd ==
  /\ phase = "listing"
  /\ batch # <<>>
  /\ batch' = Tail(batch)
  /\ fd' = Head(batch)
  /\ info' = NoInfo
  /\ phase' = "version"
  /\ UNCHANGED <<table, steady, kernel, op, cursor, items, outcome,
                 ageVars>>

-----------------------------------------------------------------------------
(***************************************************************************)
(* FDInfo::from_process_at(fd).                                            *)
(***************************************************************************)
\* The age of the kernel itself: older than 3.6 or not.
Age == IF kernel.pathStat THEN "new" ELSE "old"

\* Version::cached loads the cache.  What it finds decides about O_PATH,
\* whatever the age of the kernel that the process is of.
LoadVersion ==
  /\ phase = "version"
  /\ IF cached = "none"
     THEN phase' = "fetching" /\ UNCHANGED <<path, misled>>
     ELSE /\ phase' = "linking"
          /\ path' = (cached = "new")
          /\ misled' = IF cached = Age THEN misled ELSE misled \cup {fd}
  /\ UNCHANGED <<table, steady, kernel, cached, op, cursor, batch, fd, info, items,
                 outcome>>

\* With an empty cache it reads the version and stores it.  It may fail, which
\* counts as a kernel of 3.6 or later.
FetchVersion ==
  /\ phase = "fetching"
  /\ \/ cached' = Age /\ path' = kernel.pathStat
     \/ path' = TRUE /\ UNCHANGED cached
  /\ phase' = "linking"
  /\ UNCHANGED <<table, steady, kernel, op, cursor, batch, fd, info, items, outcome,
                 misled>>

CanOpenLink == LinkOpens /\ path /\ table[fd] # Closed

OpenLink ==
  /\ phase = "linking"
  /\ CanOpenLink
  /\ info' = [info EXCEPT !.mode = Mode[table[fd]]]
  /\ phase' = "reading"
  /\ UNCHANGED <<table, steady, kernel, op, cursor, batch, fd, items, outcome,
                 ageVars>>

ReadLink ==
  /\ phase = "reading"
  /\ table[fd] # Closed
  /\ info' = [info EXCEPT !.target = table[fd]]
  /\ phase' = "statting"
  /\ UNCHANGED <<table, steady, kernel, op, cursor, batch, fd, items, outcome,
                 ageVars>>

\* Mutant: the target is not checked.
YieldsAnyTarget ==
  /\ phase = "statting"
  /\ kernel.pathStat
  /\ items' = Append(items, Ok([fd |-> fd, mode |-> info.mode, target |-> info.target]))
  /\ phase' = "listing"
  /\ UNCHANGED <<table, steady, kernel, op, cursor, batch, fd, info, outcome, ageVars>>

\* The metadata are there and the target can be expressed: an item.
YieldInfo ==
  /\ phase = "statting"
  /\ kernel.pathStat
  /\ info.target \in Nameable
  /\ items' = Append(items, Ok([fd |-> fd, mode |-> info.mode, target |-> info.target]))
  /\ phase' = "listing"
  /\ UNCHANGED <<table, steady, kernel, op, cursor, batch, fd, info, outcome, ageVars>>

\* Any step of FDInfo fails.
InfoFails ==
  \/ phase = "linking" /\ ~CanOpenLink
  \/ phase = "reading" /\ table[fd] = Closed
  \/ phase = "statting" /\ ~(kernel.pathStat /\ info.target \in Nameable)

\* Mutant: the first descriptor without information ends the stream.
SkipEnds ==
  /\ InfoFails
  /\ Return(Counted(items))
  /\ UNCHANGED <<table, steady, kernel, op, cursor, batch, fd, info, items, ageVars>>

\* Mutant: FDInfo is tried again until it succeeds.
SkipRetries ==
  /\ InfoFails
  /\ phase' = "version"
  /\ UNCHANGED <<table, steady, kernel, op, cursor, batch, fd, info, items, outcome,
                 ageVars>>

\* Mutant: the directory is read again from its start.
SkipRewinds ==
  /\ InfoFails
  /\ phase' = "listing"
  /\ cursor' = NoFd
  /\ batch' = <<>>
  /\ UNCHANGED <<table, steady, kernel, op, fd, info, items, outcome,
                 ageVars>>

\* `let Ok(info)` drops the error and the stream goes on.
SkipFd ==
  /\ InfoFails
  /\ phase' = "listing"
  /\ UNCHANGED <<table, steady, kernel, op, cursor, batch, fd, info, items, outcome,
                 ageVars>>

CallStep ==
  \/ CountFast \/ CountSlow \/ BeginList \/ OpenDir
  \/ ReadNames \/ NamesEnd \/ ReadNamesFails \/ TakeFd
  \/ LoadVersion \/ FetchVersion \/ OpenLink \/ ReadLink \/ YieldInfo \/ SkipFd

FdNext ==
  \/ \E n \in Fds, f \in Files \cup {Closed} : Redirect(n, f)
  \/ ProcessExits
  \/ \E age \in {"old", "new"} : CacheFills(age)
  \/ CallStep

FdSpec == FdInit /\ [][FdNext]_vars

\* The call is polled and its I/O completes; the process may do as it likes.
FairFdSpec == FdSpec /\ WF_vars(CallStep)

-----------------------------------------------------------------------------
(***************************************************************************)
(* Properties.                                                             *)
(***************************************************************************)
Info == [fd : Fds, mode : {Mode[f] : f \in Files}, target : Nameable]

\* Type invariant.
FdTypeOK ==
  /\ table \in [Fds -> Files \cup {Closed}]
  /\ steady \subseteq Fds /\ misled \subseteq Fds
  /\ cached \in {"none", "old", "new"} /\ path \in BOOLEAN
  /\ phase \in {"none", "opening", "listing", "version", "fetching", "linking", "reading",
                "statting", "returned"}
  /\ cursor \in Fds \cup {NoFd}
  /\ batch \in Seq(Fds)
  /\ fd \in Fds \cup {NoFd}
  /\ items \in Seq(ResultOf(Info, {"Io"}))
  /\ IsOk(outcome) => outcome.ok \in 0..(Cardinality(Fds) + 1)

Listed == {items[k].ok : k \in {j \in 1..Len(items) : IsOk(items[j])}}

Complete ==
  /\ phase = "returned" /\ ~IsErr(outcome)
  /\ ~(kernel.sized /\ op = "fd_count")
  /\ \A k \in 1..Len(items) : IsOk(items[k])

\* The entry that a listing should have for n.
Entry(n) == [fd |-> n, mode |-> Mode[table[n]], target |-> table[n]]

\* A listing that comes to its end has, for every descriptor that kept its
\* file from start to end, an entry with that file and that file's mode, on
\* every kernel that has the metadata, if the program has the files it needs.
\* Only a version of another root excuses it, at the descriptors it was used for.
FdNoneMissed ==
  Complete /\ kernel.pathStat /\ LinkOpens =>
    \A n \in steady \ misled : table[n] \in Nameable => Entry(n) \in Listed

\* No descriptor is listed twice, though it be closed and opened again.
FdNoneTwice ==
  \A j, k \in 1..Len(items) :
    j # k /\ IsOk(items[j]) /\ IsOk(items[k]) => items[j].ok.fd # items[k].ok.fd

\* The entries of the descriptors of S, as far as an FDInfo can tell of them.
EntriesOf(S) == {<<n, table[n]>> : n \in {m \in S : table[m] \in Nameable}}

Met ==
  IF phase = "statting" /\ info.target \in Nameable THEN {<<fd, info.target>>} ELSE {}

Told == {<<e.fd, e.target>> : e \in Listed}

Status ==
  IF phase = "none" THEN "none"
  ELSE IF phase # "returned" THEN "open"
  ELSE IF Complete /\ kernel.pathStat /\ LinkOpens /\ misled = {}
       THEN "complete" ELSE "broken"

Promise == INSTANCE Listing WITH
  Names <- Fds,
  Things <- Nameable,
  there <- EntriesOf(Fds),
  stayed <- IF phase = "none" THEN {} ELSE EntriesOf(steady),
  met <- Met,
  told <- Told,
  status <- Status

\* fds, and fd_count where it counts the items, keep the promise of a listing:
\* an FDInfo tells of a file that its descriptor had while the listing ran, no
\* descriptor is told of twice, and a listing that comes to its end with files
\* enough, and no version but its own kernel's, has told of all that kept theirs.
ImplementsListing == Promise!ListingSpec

\* The call ends, whatever the process does to its descriptors meanwhile.
FdCallEnds == <>(phase = "returned")

\* The documentation of fd_count: it gets the number of open descriptors.  So
\* while the process changes none, a count that is returned is that number.
CountExact ==
  steady = Fds /\ IsOk(outcome) => outcome.ok = Cardinality(Open)
=============================================================================

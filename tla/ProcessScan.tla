---------------------------- MODULE ProcessScan ----------------------------
(***************************************************************************)
(* all_processes (src/process/mod.rs): a stream over the directory of the  *)
(* procfs root.  It reads names in batches, and for each name that is a    *)
(* pid awaits Process::new; a Process that cannot be made is skipped.      *)
(* Processes start, end and have their pids reused between any two awaits, *)
(* and every Process the consumer keeps holds a file open.                 *)
(*                                                                         *)
(* The directory is external: a batch lists the names above the last one   *)
(* read, in order, as they are when the batch is read.  All names that are *)
(* not numbers are one name, OtherName, before the pids.                   *)
(***************************************************************************)
EXTENDS ProcWorld, ProcResult, Directory

CONSTANTS
  Batch,       \* most names one read of the directory returns
  MaxFiles     \* files this program may have open at once

ASSUME BatchAssumption == Batch \in Nat \ {0}
ASSUME ScanFilesAssumption == MaxFiles \in Nat

VARIABLES
  phase,      \* the stream: none, listing, making a Process, ended early, or done
  cursor,     \* the last name read from the directory
  batch,      \* names read and not yet looked at
  current,    \* the pid whose Process is being made
  items,      \* what the stream has yielded
  kept,       \* positions in items of the Processes the consumer still holds
  present,    \* history: the processes listed when the directory was opened
  taken,      \* history: how many pids the stream has looked at
  starved     \* history: a Process could not be made for want of files

scanVars ==
  <<phase, cursor, batch, current, items, kept, present, taken, starved>>
vars == <<worldVars, scanVars>>

OtherName == 0
Names == Pids \cup {OtherName}

Streaming == phase \in {"listing", "making"}

OpenFiles == Cardinality(kept) + (IF Streaming THEN 1 ELSE 0)
CanOpen == OpenFiles < MaxFiles

ScanInit ==
  /\ WorldInit
  /\ phase = "none"
  /\ cursor = OtherName - 1
  /\ batch = <<>>
  /\ current = OtherName
  /\ items = <<>>
  /\ kept = {}
  /\ present = {}
  /\ taken = 0
  /\ starved = FALSE

\* The directory is opened; a failure is the result of all_processes itself.
Begin ==
  /\ phase = "none"
  /\ \/ CanOpen /\ phase' = "listing"
     \/ phase' = "ended"
  /\ present' = {i \in Processes : Listed(i)}
  /\ UNCHANGED <<worldVars, cursor, batch, current, items, kept, taken, starved>>

\* The names above the cursor.
NamesLeft == {n \in Names : n > cursor /\ (n = OtherName \/ Occupant(n) # {})}

ReadNames ==
  /\ phase = "listing"
  /\ batch = <<>>
  /\ \E names \in Batches(NamesLeft, Batch) :
       /\ batch' = names
       /\ cursor' = names[Len(names)]
  /\ UNCHANGED <<worldVars, phase, current, items, kept, present, taken, starved>>

\* The directory has no more names: the stream ends and closes it.
Done ==
  /\ phase = "listing"
  /\ batch = <<>>
  /\ NamesLeft = {}
  /\ phase' = "done"
  /\ UNCHANGED <<worldVars, cursor, batch, current, items, kept, present, taken,
                 starved>>

\* Reading the directory fails: `entry?` yields the error and ends the stream.
ReadNamesFails ==
  /\ phase = "listing"
  /\ batch = <<>>
  /\ items' = Append(items, Err("Io"))
  /\ phase' = "ended"
  /\ UNCHANGED <<worldVars, cursor, batch, current, kept, present, taken, starved>>

\* i32::from_str refuses the name.
SkipName ==
  /\ phase = "listing"
  /\ batch # <<>>
  /\ Head(batch) = OtherName
  /\ batch' = Tail(batch)
  /\ UNCHANGED <<worldVars, phase, cursor, current, items, kept, present, taken,
                 starved>>

\* The name is a pid: Process::new is called and awaited.
TakePid ==
  /\ phase = "listing"
  /\ batch # <<>>
  /\ Head(batch) # OtherName
  /\ batch' = Tail(batch)
  /\ current' = Head(batch)
  /\ taken' = taken + 1
  /\ phase' = "making"
  /\ UNCHANGED <<worldVars, cursor, items, kept, present, starved>>

\* Mutant: the Process is made of its pid, without opening its directory.
YieldUnopened ==
  /\ phase = "making"
  /\ CanOpen
  /\ \E i \in Processes :
       /\ pidOf[i] = current
       /\ items' = Append(items, Ok([pid |-> current, process |-> i]))
  /\ kept' = kept \cup {Len(items) + 1}
  /\ phase' = "listing"
  /\ UNCHANGED <<worldVars, cursor, batch, current, present, taken, starved>>

\* Process::new succeeds for whatever process has the pid now.
Yield ==
  /\ phase = "making"
  /\ CanOpen
  /\ \E i \in Occupant(current) :
       items' = Append(items, Ok([pid |-> current, process |-> i]))
  /\ kept' = kept \cup {Len(items) + 1}
  /\ phase' = "listing"
  /\ UNCHANGED <<worldVars, cursor, batch, current, present, taken, starved>>

Unmakeable == phase = "making" /\ (~CanOpen \/ Occupant(current) = {})

\* Mutant: the first Process that cannot be made ends the stream.
SkipEnds ==
  /\ Unmakeable
  /\ starved' = (starved \/ ~CanOpen)
  /\ phase' = "done"
  /\ UNCHANGED <<worldVars, cursor, batch, current, items, kept, present, taken>>

\* Mutant: the directory is read again from its start.
SkipRewinds ==
  /\ Unmakeable
  /\ starved' = (starved \/ ~CanOpen)
  /\ phase' = "listing"
  /\ cursor' = OtherName
  /\ batch' = <<>>
  /\ UNCHANGED <<worldVars, current, items, kept, present, taken>>

\* Mutant: the same pid is tried again.
SkipRetries ==
  /\ Unmakeable
  /\ starved' = (starved \/ ~CanOpen)
  /\ UNCHANGED <<worldVars, phase, cursor, batch, current, items, kept, present,
                 taken>>

\* Process::new fails: `if let Ok(process)` drops the error, and the stream
\* goes on with the next name.
Skip ==
  /\ Unmakeable
  /\ starved' = (starved \/ ~CanOpen)
  /\ phase' = "listing"
  /\ UNCHANGED <<worldVars, cursor, batch, current, items, kept, present, taken>>

\* The consumer drops a Process, or the stream itself.
DropItem(k) ==
  /\ k \in kept
  /\ kept' = kept \ {k}
  /\ UNCHANGED <<worldVars, phase, cursor, batch, current, items, present, taken,
                 starved>>

DropStream ==
  /\ Streaming
  /\ phase' = "ended"
  /\ UNCHANGED <<worldVars, cursor, batch, current, items, kept, present, taken,
                 starved>>

StreamStep ==
  ReadNames \/ Done \/ ReadNamesFails \/ SkipName \/ TakePid \/ Yield \/ Skip

ScanNext ==
  \/ WorldNext /\ UNCHANGED scanVars
  \/ Begin
  \/ StreamStep
  \/ \E k \in kept : DropItem(k)
  \/ DropStream

ScanSpec == ScanInit /\ [][ScanNext]_vars

\* The consumer goes on polling, and I/O completes; it need not drop anything.
FairScanSpec == ScanSpec /\ WF_vars(StreamStep)

-----------------------------------------------------------------------------
(***************************************************************************)
(* Properties.                                                             *)
(***************************************************************************)
Item == [pid : Pids, process : Processes]

\* Type invariant.
ScanTypeOK ==
  /\ phase \in {"none", "listing", "making", "ended", "done"}
  /\ cursor \in Names \cup {OtherName - 1}
  /\ batch \in Seq(Names)
  /\ current \in Names
  /\ items \in Seq(ResultOf(Item, {"Io"}))
  /\ kept \subseteq {k \in 1..Len(items) : IsOk(items[k])}
  /\ present \subseteq Processes
  /\ taken \in Nat
  /\ starved \in BOOLEAN

Yielded == {k \in 1..Len(items) : IsOk(items[k])}

WholeAtEnd ==
  phase = "done" /\ ~starved =>
    \A i \in present :
      Listed(i) => \E k \in Yielded : items[k].ok.process = i

\* An error is the last item of a stream that has ended.
ErrorsLast ==
  \A k \in 1..Len(items) : IsErr(items[k]) => k = Len(items) /\ phase = "ended"

\* A scan that comes to its end without an error has yielded every process that
\* was there from its start to its end, whatever started, ended or could not be
\* opened meanwhile, unless the program ran out of files.  A scan whose directory
\* could not be read to its end never looks like one: an error is its last item.
NoneMissed == WholeAtEnd /\ ErrorsLast

\* No process is yielded twice, and no pid: not even one that was reused by a
\* later process while the scan went on.
NoneTwice ==
  \A j, k \in Yielded :
    j # k => /\ items[j].ok.pid # items[k].ok.pid
             /\ items[j].ok.process # items[k].ok.process

\* The entries that the directory has for the processes of S.
EntriesOf(S) == {<<pidOf[i], i>> : i \in {j \in S : Listed(j)}}

Told == {<<items[k].ok.pid, items[k].ok.process>> : k \in Yielded}

Status ==
  IF phase = "none" THEN "none"
  ELSE IF Streaming THEN "open"
  ELSE IF phase = "done" /\ ~starved THEN "complete" ELSE "broken"

Promise == INSTANCE Listing WITH
  Names <- Pids,
  Things <- Processes,
  there <- EntriesOf(Processes),
  stayed <- EntriesOf(present),
  met <- {},
  told <- Told,
  status <- Status

\* all_processes keeps the promise of a listing: each Process it yields has its
\* pid at that moment, no pid is yielded twice, and where it comes to its end
\* with files enough, every process that stayed has been yielded.
ImplementsListing == Promise!ListingSpec

\* A stream that is polled ends, even if the consumer keeps every Process it
\* is given and the program runs out of files.
ScanEnds == phase = "listing" ~> phase \in {"done", "ended"}

\* The documentation of all_processes: a process that cannot be constructed
\* is returned as an Err.  So each pid the scan looked at has an item.
FailuresReported == phase = "done" => Len(items) = taken
=============================================================================

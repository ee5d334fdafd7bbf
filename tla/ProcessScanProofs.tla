-------------------------- MODULE ProcessScanProofs --------------------------
(***************************************************************************)
(* Proofs about ProcessScan: what all_processes yields while processes     *)
(* come and go, for any processes, any pids, any size of a batch and any   *)
(* limit on files.                                                         *)
(***************************************************************************)
EXTENDS ProcessScan, SequenceProofs

USE DEF OtherName

\* A process that has been born has a pid, and no two in /proc have the same.
WorldOK ==
  /\ life \in [Processes -> LifeStates]
  /\ pidOf \in [Processes -> Pids \cup {0}]
  /\ \A i \in Processes : life[i] # "unborn" => pidOf[i] \in Pids
  /\ \A i, j \in Processes : Listed(i) /\ Listed(j) /\ pidOf[i] = pidOf[j] => i = j

Born(i) == life[i] # "unborn"

\* A yielded Process was made of a process that had its pid.
ItemsBorn ==
  \A k \in Yielded : Born(items[k].ok.process) /\ pidOf[items[k].ok.process] = items[k].ok.pid

PresentBorn == \A i \in present : Born(i)

\* The pids of what has been yielded, of the Process that is being made, of the
\* names read, and of those still to be read, come in this order.
Order ==
  /\ \A j, k \in 1..Len(batch) : j < k => batch[j] < batch[k]
  /\ \A j \in 1..Len(batch) : batch[j] <= cursor
  /\ phase = "making" =>
       /\ current \in Pids /\ current <= cursor
       /\ \A j \in 1..Len(batch) : current < batch[j]
  /\ \A k \in Yielded :
       /\ items[k].ok.pid <= cursor
       /\ phase = "making" => items[k].ok.pid < current
       /\ \A j \in 1..Len(batch) : items[k].ok.pid < batch[j]
  /\ \A j, k \in Yielded : j < k => items[j].ok.pid < items[k].ok.pid

\* The scan has not passed pid p.
Ahead(p) ==
  \/ p > cursor
  \/ \E j \in 1..Len(batch) : batch[j] = p
  \/ phase = "making" /\ current = p

IsYielded(i) == \E k \in Yielded : items[k].ok.process = i

\* A process that was there at the start and still is has been yielded or will
\* be met.
NoneLost ==
  Streaming /\ ~starved =>
    \A i \in present : Listed(i) => Ahead(pidOf[i]) \/ IsYielded(i)

Fresh == phase = "none" => cursor = OtherName - 1

ScanInv ==
  /\ WorldOK
  /\ ScanTypeOK
  /\ ItemsBorn
  /\ PresentBorn
  /\ Fresh
  /\ Order
  /\ NoneLost
  /\ WholeAtEnd

-----------------------------------------------------------------------------
(* The world.                                                              *)

LEMMA PidsArePositive ==
  /\ \A p \in Pids : p \in Int /\ p > 0
  /\ \A n \in Names : n \in Int /\ n >= 0
  /\ \A n \in Names : n # OtherName => n \in Pids
BY PidsAssumption DEF Names

\* A step of the world: what has been born stays born and keeps its pid, and
\* does not come back to /proc.
LEMMA WorldStep ==
  ASSUME WorldOK, [WorldNext]_worldVars
  PROVE  /\ WorldOK'
         /\ \A i \in Processes :
              Born(i) => Born(i)' /\ pidOf'[i] = pidOf[i] /\ (Listed(i)' => Listed(i))
<1> USE DEF WorldOK, Born, Listed, LifeStates
<1>1. CASE UNCHANGED worldVars
  BY <1>1 DEF worldVars
<1>2. ASSUME NEW i \in Processes, NEW p \in Pids, Spawn(i, p)
      PROVE  /\ WorldOK'
             /\ \A j \in Processes :
                  Born(j) => Born(j)' /\ pidOf'[j] = pidOf[j] /\ (Listed(j)' => Listed(j))
  <2>1. \A j \in Processes : ~(Listed(j) /\ pidOf[j] = p)
    BY <1>2 DEF Spawn, Occupant
  <2> QED
    BY <1>2, <2>1 DEF Spawn
<1>3. ASSUME NEW i \in Processes, Exit(i) \/ Reap(i)
      PROVE  /\ WorldOK'
             /\ \A j \in Processes :
                  Born(j) => Born(j)' /\ pidOf'[j] = pidOf[j] /\ (Listed(j)' => Listed(j))
  BY <1>3 DEF Exit, Reap
<1> QED
  BY <1>1, <1>2, <1>3 DEF WorldNext

\* Only one process can be met under a pid.
LEMMA OneOccupant ==
  ASSUME WorldOK, NEW p, NEW i \in Occupant(p), NEW j \in Occupant(p)
  PROVE  i = j
BY DEF WorldOK, Occupant

-----------------------------------------------------------------------------
(* The items.                                                              *)

\* An item is added, and is one of those yielded if it is a Process.
LEMMA ItemAdded ==
  ASSUME ScanTypeOK, NEW r, items' = Append(items, r)
  PROVE  /\ Len(items) \in Nat /\ Len(items') = Len(items) + 1
         /\ \A k \in 1..Len(items) : items'[k] = items[k]
         /\ items'[Len(items) + 1] = r
         /\ IsOk(r) => Yielded' = Yielded \cup {Len(items) + 1}
         /\ ~IsOk(r) => Yielded' = Yielded
         /\ r \in ResultOf(Item, {"Io"}) => items' \in Seq(ResultOf(Item, {"Io"}))
<1>1. items \in Seq(ResultOf(Item, {"Io"}))
  BY DEF ScanTypeOK
<1>2. /\ Len(items) \in Nat /\ Len(items') = Len(items) + 1
      /\ \A k \in 1..Len(items) : items'[k] = items[k]
      /\ items'[Len(items) + 1] = r
      /\ \A k : k \in 1..Len(items') <=> k \in 1..Len(items) \/ k = Len(items) + 1
      /\ r \in ResultOf(Item, {"Io"}) => items' \in Seq(ResultOf(Item, {"Io"}))
  BY <1>1, AppendFacts
<1> QED
  BY <1>2 DEF Yielded

LEMMA YieldedItem ==
  ASSUME ScanTypeOK, NEW k \in Yielded
  PROVE  /\ k \in 1..Len(items)
         /\ items[k].ok.pid \in Pids /\ items[k].ok.pid \in Int
         /\ items[k].ok.process \in Processes
<1>1. k \in 1..Len(items) /\ IsOk(items[k]) /\ items[k] \in ResultOf(Item, {"Io"})
  BY DEF ScanTypeOK, Yielded
<1>2. items[k] \in [ok : Item]
  BY <1>1 DEF ResultOf, IsOk
<1> QED
  BY <1>1, <1>2, PidsArePositive DEF Item

\* A name is taken off the batch: the others still increase, and are above it.
LEMMA TailIncreases ==
  ASSUME ScanTypeOK, batch # <<>>, batch' = Tail(batch),
         \A j, k \in 1..Len(batch) : j < k => batch[j] < batch[k]
  PROVE  /\ \A j, k \in 1..Len(batch') : j < k => batch'[j] < batch'[k]
         /\ \A j \in 1..Len(batch') : Head(batch) < batch'[j]
<1>1. batch \in Seq(Names) /\ Names \in SUBSET Int
  BY PidsArePositive DEF ScanTypeOK
<1> QED
  BY <1>1, IncreasingTail

-----------------------------------------------------------------------------
(* The invariant, step by step.                                            *)

LEMMA ScanInitOK == ScanInit => ScanInv
<1> SUFFICES ASSUME ScanInit PROVE ScanInv
  OBVIOUS
<1> USE DEF ScanInit
<1>1. WorldOK
  BY MyselfAssumption DEF WorldInit, WorldOK, LifeStates, Listed
<1>2. ScanTypeOK
  <2>1. batch \in Seq(Names) /\ items \in Seq(ResultOf(Item, {"Io"}))
    OBVIOUS
  <2> QED
    BY <2>1 DEF ScanTypeOK, Names
<1>3. Yielded = {}
  BY DEF Yielded
<1>4. Order
  BY <1>3 DEF Order
<1> QED
  BY <1>1, <1>2, <1>3, <1>4
  DEF ScanInv, ItemsBorn, PresentBorn, Fresh, NoneLost, WholeAtEnd, Streaming

LEMMA WorldStepOK ==
  ASSUME ScanInv, WorldNext, UNCHANGED scanVars
  PROVE  ScanInv'
<1> USE DEF ScanInv
<1>1. /\ WorldOK'
      /\ \A i \in Processes :
           Born(i) => Born(i)' /\ pidOf'[i] = pidOf[i] /\ (Listed(i)' => Listed(i))
  BY WorldStep
<1>2. ScanTypeOK' /\ Yielded' = Yielded /\ Fresh' /\ Order'
  BY DEF scanVars, ScanTypeOK, Yielded, Fresh, Order
<1>3. ItemsBorn'
  BY <1>1, <1>2, YieldedItem DEF ItemsBorn, scanVars
<1>4. PresentBorn'
  BY <1>1 DEF PresentBorn, ScanTypeOK, scanVars
<1>5. \A i \in present : i \in Processes /\ Born(i)
  BY DEF PresentBorn, ScanTypeOK
<1>6. \A i \in present : Listed(i)' => Listed(i) /\ pidOf'[i] = pidOf[i]
  BY <1>1, <1>5
<1>7. NoneLost'
  BY <1>2, <1>6 DEF NoneLost, Streaming, Ahead, IsYielded, scanVars
<1>8. WholeAtEnd'
  BY <1>2, <1>6 DEF WholeAtEnd, scanVars
<1> QED
  BY <1>1, <1>2, <1>3, <1>4, <1>7, <1>8

\* The stream changes nothing of the world.
LEMMA WorldKept ==
  ASSUME ScanInv, UNCHANGED worldVars
  PROVE  WorldOK' /\ \A i : (Born(i)' <=> Born(i)) /\ (Listed(i)' <=> Listed(i))
BY DEF worldVars, ScanInv, WorldOK, Born, Listed

LEMMA ItemsBornKept ==
  ASSUME ScanInv, UNCHANGED worldVars, UNCHANGED items
  PROVE  Yielded' = Yielded /\ ItemsBorn'
BY WorldKept DEF ScanInv, ItemsBorn, Yielded, worldVars

\* The stream is opened, and nothing has been passed.
LEMMA BeginOK ==
  ASSUME ScanInv, Begin
  PROVE  ScanInv'
<1> USE DEF ScanInv
<1>1. /\ UNCHANGED <<worldVars, cursor, batch, current, items, kept, taken, starved>>
      /\ phase = "none" /\ phase' \in {"listing", "ended"}
      /\ present' = {i \in Processes : Listed(i)}
  BY DEF Begin
<1>2. WorldOK' /\ ItemsBorn' /\ Yielded' = Yielded
  BY <1>1, WorldKept, ItemsBornKept
<1>3. PresentBorn'
  BY <1>1, WorldKept DEF PresentBorn, Listed, Born
<1>4. Order'
  BY <1>1, <1>2 DEF Order
<1>5. ScanTypeOK' /\ Fresh' /\ WholeAtEnd'
  BY <1>1 DEF ScanTypeOK, Fresh, WholeAtEnd
<1>6. NoneLost'
  <2>1. cursor' = OtherName - 1
    BY <1>1 DEF Fresh
  <2>2. \A i \in present' : pidOf'[i] > cursor'
    BY <1>1, <2>1, PidsArePositive DEF WorldOK, Listed, worldVars
  <2> QED
    BY <2>2 DEF NoneLost, Ahead
<1> QED
  BY <1>2, <1>3, <1>4, <1>5, <1>6

\* The names of a batch are taken from those above the cursor; what is passed
\* over was not listed.
LEMMA ReadNamesOK ==
  ASSUME ScanInv, ReadNames
  PROVE  ScanInv'
<1> USE DEF ScanInv
<1>1. PICK b \in Batches(NamesLeft, Batch) : batch' = b /\ cursor' = b[Len(b)]
  BY DEF ReadNames
<1>2. /\ UNCHANGED <<worldVars, phase, current, items, kept, present, taken, starved>>
      /\ phase = "listing" /\ batch = <<>>
  BY DEF ReadNames
<1>3. NamesLeft \subseteq Int /\ NamesLeft \subseteq Names /\ \A n \in NamesLeft : n > cursor
  BY PidsArePositive DEF NamesLeft
<1>4. /\ b \in Seq(NamesLeft) /\ b[Len(b)] \in NamesLeft /\ b[Len(b)] \in Int
      /\ \A j, k \in 1..Len(b) : j < k => b[j] < b[k]
      /\ \A j \in 1..Len(b) : b[j] \in NamesLeft /\ b[j] \in Int /\ b[j] <= b[Len(b)]
      /\ \A n \in NamesLeft : n > b[Len(b)] \/ \E j \in 1..Len(b) : b[j] = n
  BY <1>3, BatchFacts, BatchAssumption
<1>5. WorldOK' /\ ItemsBorn' /\ Yielded' = Yielded
  BY <1>2, WorldKept, ItemsBornKept
<1>6. ScanTypeOK'
  <2>1. batch' \in Seq(Names) /\ cursor' \in Names
    BY <1>1, <1>3, <1>4
  <2> QED
    BY <1>2, <2>1 DEF ScanTypeOK
<1>7. PresentBorn' /\ Fresh' /\ WholeAtEnd'
  BY <1>2, WorldKept DEF PresentBorn, Fresh, WholeAtEnd
<1>8. Order'
  <2>1. cursor \in Int
    BY PidsArePositive DEF ScanTypeOK
  <2>2. \A k \in Yielded : items[k].ok.pid <= cursor /\ items[k].ok.pid \in Int
    BY YieldedItem DEF Order
  <2>3. \A k \in Yielded : \A n \in NamesLeft : items[k].ok.pid < n /\ items[k].ok.pid <= n
    <3> SUFFICES ASSUME NEW k \in Yielded, NEW n \in NamesLeft
                 PROVE  items[k].ok.pid < n
      BY <1>3, <2>2
    <3>1. n \in Int /\ n > cursor
      BY <1>3
    <3> QED
      BY <2>1, <2>2, <3>1
  <2>4. \A j \in 1..Len(b) : b[j] <= cursor'
    BY <1>1, <1>4
  <2> QED
    BY <1>1, <1>2, <1>4, <1>5, <2>3, <2>4 DEF Order
<1>9. NoneLost'
  <2> SUFFICES ASSUME ~starved, NEW i \in present, Listed(i),
                      ~IsYielded(i)
               PROVE  Ahead(pidOf[i])'
    BY <1>2, <1>5, WorldKept DEF NoneLost, IsYielded, Streaming, worldVars
  <2>1. i \in Processes /\ pidOf[i] \in Pids /\ pidOf[i] \in Int
    BY PidsArePositive DEF ScanTypeOK, WorldOK, Listed
  <2>2. pidOf[i] > cursor
    BY <1>2 DEF NoneLost, Streaming, Ahead
  <2>3. pidOf[i] \in NamesLeft
    BY <2>1, <2>2 DEF NamesLeft, Names, Occupant
  <2>4. pidOf' = pidOf
    BY <1>2 DEF worldVars
  <2> QED
    BY <1>1, <1>4, <2>3, <2>4 DEF Ahead
<1> QED
  BY <1>5, <1>6, <1>7, <1>8, <1>9

\* At its end a scan has passed every process.
LEMMA DoneOK ==
  ASSUME ScanInv, Done
  PROVE  ScanInv'
<1> USE DEF ScanInv
<1>1. /\ UNCHANGED <<worldVars, cursor, batch, current, items, kept, present, taken, starved>>
      /\ phase = "listing" /\ phase' = "done" /\ batch = <<>> /\ NamesLeft = {}
  BY DEF Done
<1>2. WorldOK' /\ ItemsBorn' /\ Yielded' = Yielded
  BY <1>1, WorldKept, ItemsBornKept
<1>3. Order'
  BY <1>1, <1>2 DEF Order
<1>4. ScanTypeOK' /\ Fresh' /\ PresentBorn' /\ NoneLost'
  BY <1>1, WorldKept DEF ScanTypeOK, Fresh, PresentBorn, NoneLost, Streaming
<1>5. ASSUME ~starved, NEW i \in present, Listed(i)
      PROVE  IsYielded(i)
  <2>1. i \in Processes /\ pidOf[i] \in Pids
    BY <1>5 DEF ScanTypeOK, WorldOK, Listed
  <2>2. ~(pidOf[i] > cursor)
    BY <1>1, <1>5, <2>1 DEF NamesLeft, Names, Occupant
  <2> QED
    BY <1>1, <1>5, <2>2 DEF NoneLost, Ahead, Streaming
<1>6. WholeAtEnd'
  BY <1>1, <1>2, <1>5, WorldKept DEF WholeAtEnd, IsYielded
<1> QED
  BY <1>2, <1>3, <1>4, <1>6

\* A stream that was given up promises nothing more.
LEMMA EndedOK ==
  ASSUME ScanInv, phase' = "ended",
         UNCHANGED <<worldVars, cursor, batch, current, kept, present, taken, starved>>,
         UNCHANGED items \/ items' = Append(items, Err("Io"))
  PROVE  ScanInv'
<1> USE DEF ScanInv
<1>1. ~IsOk(Err("Io")) /\ Err("Io") \in ResultOf(Item, {"Io"})
  BY DEF IsOk, Err, ResultOf
<1>2. /\ Yielded' = Yielded /\ Len(items') >= Len(items)
      /\ items' \in Seq(ResultOf(Item, {"Io"}))
      /\ \A k \in 1..Len(items) : items'[k] = items[k]
      /\ Len(items) \in Nat /\ Len(items') \in Nat
  <2>1. CASE UNCHANGED items
    BY <2>1 DEF ScanTypeOK, Yielded
  <2>2. CASE items' = Append(items, Err("Io"))
    BY <1>1, <2>2, ItemAdded
  <2> QED
    BY <2>1, <2>2
<1>3. \A k \in Yielded : items'[k] = items[k]
  BY <1>2 DEF Yielded
<1>4. WorldOK' /\ ItemsBorn'
  BY <1>2, <1>3, WorldKept DEF ItemsBorn, worldVars
<1>5. ScanTypeOK'
  <2>1. kept \subseteq {k \in 1..Len(items') : IsOk(items'[k])}
    BY <1>2 DEF ScanTypeOK
  <2> QED
    BY <1>2, <2>1 DEF ScanTypeOK
<1>6. Order'
  BY <1>2, <1>3 DEF Order
<1> QED
  BY <1>4, <1>5, <1>6, WorldKept DEF PresentBorn, Fresh, NoneLost, WholeAtEnd, Streaming

\* A name that is no pid is taken off the batch.
LEMMA SkipNameOK ==
  ASSUME ScanInv, SkipName
  PROVE  ScanInv'
<1> USE DEF ScanInv
<1>1. /\ UNCHANGED <<worldVars, phase, cursor, current, items, kept, present, taken, starved>>
      /\ phase = "listing" /\ batch # <<>> /\ Head(batch) = OtherName
      /\ batch' = Tail(batch)
  BY DEF SkipName
<1>2. batch \in Seq(Names)
  BY DEF ScanTypeOK
<1>3. WorldOK' /\ ItemsBorn' /\ Yielded' = Yielded
  BY <1>1, WorldKept, ItemsBornKept
<1>4. /\ batch' \in Seq(Names) /\ Head(batch) = batch[1]
      /\ \A j \in 1..Len(batch') : batch'[j] = batch[j + 1] /\ j + 1 \in 1..Len(batch)
      /\ \A j \in 2..Len(batch) : batch'[j - 1] = batch[j] /\ j - 1 \in 1..Len(batch')
  BY <1>1, <1>2, TailFacts
<1>5. ScanTypeOK'
  BY <1>1, <1>4 DEF ScanTypeOK
<1>6. PresentBorn' /\ Fresh' /\ WholeAtEnd'
  BY <1>1, WorldKept DEF PresentBorn, Fresh, WholeAtEnd
<1>7. Order'
  BY <1>1, <1>2, <1>3, <1>4, TailIncreases DEF Order
<1>8. NoneLost'
  <2> SUFFICES ASSUME ~starved, NEW i \in present, Listed(i), ~IsYielded(i)
               PROVE  Ahead(pidOf[i])'
    BY <1>1, <1>3, WorldKept DEF NoneLost, IsYielded, Streaming, worldVars
  <2>1. pidOf[i] \in Pids /\ pidOf[i] # OtherName
    BY PidsArePositive DEF ScanTypeOK, WorldOK, Listed
  <2>2. pidOf[i] > cursor \/ \E j \in 1..Len(batch) : batch[j] = pidOf[i]
    BY <1>1 DEF NoneLost, Streaming, Ahead
  <2>3. CASE pidOf[i] > cursor
    BY <1>1, <2>3 DEF Ahead, worldVars
  <2>4. ASSUME NEW j \in 1..Len(batch), batch[j] = pidOf[i]
        PROVE  Ahead(pidOf[i])'
    <3>1. j \in 2..Len(batch)
      BY <1>1, <1>4, <2>1, <2>4
    <3>2. batch'[j - 1] = pidOf[i] /\ j - 1 \in 1..Len(batch')
      BY <1>4, <2>4, <3>1
    <3> QED
      BY <1>1, <3>2 DEF Ahead, worldVars
  <2> QED
    BY <2>2, <2>3, <2>4
<1> QED
  BY <1>3, <1>5, <1>6, <1>7, <1>8

\* A pid is taken off the batch to be made a Process of.
LEMMA TakePidOK ==
  ASSUME ScanInv, TakePid
  PROVE  ScanInv'
<1> USE DEF ScanInv
<1>1. /\ UNCHANGED <<worldVars, cursor, items, kept, present, starved>>
      /\ phase = "listing" /\ phase' = "making"
      /\ batch # <<>> /\ Head(batch) # OtherName
      /\ batch' = Tail(batch) /\ current' = Head(batch) /\ taken' = taken + 1
  BY DEF TakePid
<1>2. batch \in Seq(Names)
  BY DEF ScanTypeOK
<1>3. WorldOK' /\ ItemsBorn' /\ Yielded' = Yielded
  BY <1>1, WorldKept, ItemsBornKept
<1>4. /\ batch' \in Seq(Names) /\ Head(batch) \in Names
      /\ Head(batch) = batch[1] /\ 1 \in 1..Len(batch)
      /\ \A j \in 1..Len(batch') : batch'[j] = batch[j + 1] /\ j + 1 \in 1..Len(batch)
      /\ \A j \in 2..Len(batch) : batch'[j - 1] = batch[j] /\ j - 1 \in 1..Len(batch')
  BY <1>1, <1>2, TailFacts
<1>5. Head(batch) \in Pids
  BY <1>1, <1>4, PidsArePositive
<1>6. ScanTypeOK'
  BY <1>1, <1>4 DEF ScanTypeOK
<1>7. PresentBorn' /\ Fresh' /\ WholeAtEnd'
  BY <1>1, WorldKept DEF PresentBorn, Fresh, WholeAtEnd
<1>8. Order'
  BY <1>1, <1>2, <1>3, <1>4, <1>5, TailIncreases DEF Order
<1>9. NoneLost'
  <2> SUFFICES ASSUME ~starved, NEW i \in present, Listed(i), ~IsYielded(i)
               PROVE  Ahead(pidOf[i])'
    BY <1>1, <1>3, WorldKept DEF NoneLost, IsYielded, Streaming, worldVars
  <2>1. pidOf[i] > cursor \/ \E j \in 1..Len(batch) : batch[j] = pidOf[i]
    BY <1>1 DEF NoneLost, Streaming, Ahead
  <2>2. CASE pidOf[i] > cursor
    BY <1>1, <2>2 DEF Ahead, worldVars
  <2>3. ASSUME NEW j \in 1..Len(batch), batch[j] = pidOf[i]
        PROVE  Ahead(pidOf[i])'
    <3>1. CASE j = 1
      BY <1>1, <1>4, <2>3, <3>1 DEF Ahead, worldVars
    <3>2. CASE j \in 2..Len(batch)
      <4>1. batch'[j - 1] = pidOf[i] /\ j - 1 \in 1..Len(batch')
        BY <1>4, <2>3, <3>2
      <4> QED
        BY <1>1, <4>1 DEF Ahead, worldVars
    <3> QED
      BY <3>1, <3>2
  <2> QED
    BY <2>1, <2>2, <2>3
<1> QED
  BY <1>3, <1>6, <1>7, <1>8, <1>9

\* The Process is yielded: its pid is above all that were yielded before.
LEMMA YieldOK ==
  ASSUME ScanInv, Yield
  PROVE  ScanInv'
<1> USE DEF ScanInv
<1>1. PICK i \in Occupant(current) :
        items' = Append(items, Ok([pid |-> current, process |-> i]))
  BY DEF Yield
<1> DEFINE new == Len(items) + 1
           item == [pid |-> current, process |-> i]
<1>2. /\ UNCHANGED <<worldVars, cursor, batch, current, present, taken, starved>>
      /\ phase = "making" /\ phase' = "listing" /\ kept' = kept \cup {new}
  BY DEF Yield
<1>3. /\ current \in Pids /\ current <= cursor
      /\ \A j \in 1..Len(batch) : current < batch[j]
      /\ \A k \in Yielded : items[k].ok.pid < current
  BY <1>2 DEF Order
<1>4. i \in Processes /\ Born(i) /\ Listed(i) /\ pidOf[i] = current
  BY DEF Occupant, Born, Listed
<1>5. item \in Item /\ IsOk(Ok(item)) /\ Ok(item) \in ResultOf(Item, {"Io"})
  BY <1>3, <1>4 DEF Item, Ok, IsOk, ResultOf
<1>6. /\ Len(items) \in Nat /\ Len(items') = new
      /\ \A k \in 1..Len(items) : items'[k] = items[k]
      /\ items'[new] = Ok(item)
      /\ Yielded' = Yielded \cup {new}
      /\ items' \in Seq(ResultOf(Item, {"Io"}))
  BY <1>1, <1>5, ItemAdded
<1>7. /\ \A k \in Yielded : k < new /\ items'[k] = items[k]
      /\ items'[new].ok.pid = current /\ items'[new].ok.process = i
  BY <1>6 DEF Ok, Yielded
<1>8. WorldOK' /\ PresentBorn' /\ Fresh' /\ WholeAtEnd'
  BY <1>2, WorldKept DEF PresentBorn, Fresh, WholeAtEnd
<1>9. ItemsBorn'
  BY <1>2, <1>4, <1>6, <1>7, WorldKept DEF ItemsBorn, worldVars
<1>10. ScanTypeOK'
  <2>1. ASSUME NEW k \in kept'
        PROVE  k \in 1..Len(items') /\ IsOk(items'[k])
    <3>1. CASE k = new
      BY <1>5, <1>6, <3>1
    <3>2. CASE k \in kept
      <4>1. k \in 1..Len(items) /\ IsOk(items[k])
        BY <3>2 DEF ScanTypeOK
      <4> QED
        BY <1>6, <4>1
    <3> QED
      BY <1>2, <3>1, <3>2
  <2> QED
    BY <1>2, <1>6, <2>1 DEF ScanTypeOK
<1>11. Order'
  <2>1. \A k \in Yielded' :
          /\ items'[k].ok.pid <= cursor
          /\ \A j \in 1..Len(batch) : items'[k].ok.pid < batch[j]
    BY <1>3, <1>6, <1>7 DEF Order
  <2>2. \A j, k \in Yielded' : j < k => items'[j].ok.pid < items'[k].ok.pid
    <3> SUFFICES ASSUME NEW j \in Yielded', NEW k \in Yielded', j < k
                 PROVE  items'[j].ok.pid < items'[k].ok.pid
      OBVIOUS
    <3>1. j \in Yielded
      BY <1>6, <1>7 DEF Yielded
    <3>2. CASE k \in Yielded
      BY <1>7, <3>1, <3>2 DEF Order
    <3>3. CASE k = new
      BY <1>3, <1>7, <3>1, <3>3
    <3> QED
      BY <1>6, <3>2, <3>3
  <2> QED
    BY <1>2, <2>1, <2>2 DEF Order
<1>12. NoneLost'
  <2> SUFFICES ASSUME ~starved, NEW p \in present, Listed(p), ~IsYielded(p)'
               PROVE  Ahead(pidOf[p])'
    BY <1>2, WorldKept DEF NoneLost, worldVars
  <2>1. p # i
    BY <1>6, <1>7 DEF IsYielded
  <2>2. ~IsYielded(p)
    BY <1>6, <1>7 DEF IsYielded
  <2>3. pidOf[p] # current
    BY <1>4, <2>1 DEF WorldOK, ScanTypeOK
  <2> QED
    BY <1>2, <2>2, <2>3 DEF NoneLost, Ahead, Streaming, worldVars
<1> QED
  BY <1>8, <1>9, <1>10, <1>11, <1>12

\* A Process that cannot be made is passed over: if files are not the reason,
\* no process has the pid.
LEMMA SkipOK ==
  ASSUME ScanInv, Skip
  PROVE  ScanInv'
<1> USE DEF ScanInv
<1>1. /\ UNCHANGED <<worldVars, cursor, batch, current, items, kept, present, taken>>
      /\ phase = "making" /\ phase' = "listing" /\ starved' = (starved \/ ~CanOpen)
      /\ ~CanOpen \/ Occupant(current) = {}
  BY DEF Skip, Unmakeable
<1>2. WorldOK' /\ ItemsBorn' /\ Yielded' = Yielded
  BY <1>1, WorldKept, ItemsBornKept
<1>3. ScanTypeOK'
  BY <1>1 DEF ScanTypeOK
<1>4. PresentBorn' /\ Fresh' /\ WholeAtEnd'
  BY <1>1, WorldKept DEF PresentBorn, Fresh, WholeAtEnd
<1>5. Order'
  BY <1>1, <1>2 DEF Order
<1>6. NoneLost'
  <2> SUFFICES ASSUME ~starved', NEW i \in present, Listed(i), ~IsYielded(i)
               PROVE  Ahead(pidOf[i])'
    BY <1>1, <1>2, WorldKept DEF NoneLost, IsYielded, worldVars
  <2>1. ~starved /\ Occupant(current) = {}
    BY <1>1
  <2>2. pidOf[i] # current
    BY <2>1 DEF Occupant, ScanTypeOK
  <2> QED
    BY <1>1, <2>1, <2>2 DEF NoneLost, Ahead, Streaming, worldVars
<1> QED
  BY <1>2, <1>3, <1>4, <1>5, <1>6

\* The consumer lets go of a Process.
LEMMA DropItemOK ==
  ASSUME ScanInv, NEW k \in kept, DropItem(k)
  PROVE  ScanInv'
<1> USE DEF ScanInv
<1>1. /\ UNCHANGED <<worldVars, phase, cursor, batch, current, items, present, taken, starved>>
      /\ kept' \subseteq kept
  BY DEF DropItem
<1>2. WorldOK' /\ ItemsBorn' /\ Yielded' = Yielded
  BY <1>1, WorldKept, ItemsBornKept
<1>3. ScanTypeOK' /\ Order'
  BY <1>1, <1>2 DEF ScanTypeOK, Order
<1>4. PresentBorn' /\ Fresh' /\ WholeAtEnd' /\ NoneLost'
  BY <1>1, <1>2, WorldKept
  DEF PresentBorn, Fresh, WholeAtEnd, NoneLost, Streaming, Ahead, IsYielded, worldVars
<1> QED
  BY <1>2, <1>3, <1>4

LEMMA ScanNextOK == ScanInv /\ [ScanNext]_vars => ScanInv'
<1> SUFFICES ASSUME ScanInv, [ScanNext]_vars PROVE ScanInv'
  OBVIOUS
<1>1. CASE UNCHANGED vars
  <2>1. UNCHANGED worldVars /\ UNCHANGED scanVars
    BY <1>1 DEF vars
  <2>2. WorldOK' /\ ItemsBorn' /\ Yielded' = Yielded
    BY <2>1, WorldKept, ItemsBornKept DEF scanVars
  <2> QED
    BY <2>1, <2>2, WorldKept
    DEF ScanInv, ScanTypeOK, Order, PresentBorn, Fresh, WholeAtEnd, NoneLost, Streaming,
        Ahead, IsYielded, scanVars, worldVars
<1>2. CASE WorldNext /\ UNCHANGED scanVars
  BY <1>2, WorldStepOK
<1>3. CASE Begin
  BY <1>3, BeginOK
<1>4. CASE ReadNames
  BY <1>4, ReadNamesOK
<1>5. CASE Done
  BY <1>5, DoneOK
<1>6. CASE ReadNamesFails
  BY <1>6, EndedOK DEF ReadNamesFails
<1>7. CASE SkipName
  BY <1>7, SkipNameOK
<1>8. CASE TakePid
  BY <1>8, TakePidOK
<1>9. CASE Yield
  BY <1>9, YieldOK
<1>10. CASE Skip
  BY <1>10, SkipOK
<1>11. CASE \E k \in kept : DropItem(k)
  BY <1>11, DropItemOK
<1>12. CASE DropStream
  BY <1>12, EndedOK DEF DropStream
<1> QED
  BY <1>1, <1>2, <1>3, <1>4, <1>5, <1>6, <1>7, <1>8, <1>9, <1>10, <1>11, <1>12
  DEF ScanNext, StreamStep

\* all_processes and the processes it meets keep the invariant.
THEOREM ScanInvariance == ScanSpec => []ScanInv
BY ScanInitOK, ScanNextOK, PTL DEF ScanSpec

-----------------------------------------------------------------------------
(* What follows from the invariant.                                        *)

\* The stream's cursor, its batch, the items it yielded and the Processes the
\* consumer keeps are what all_processes makes them.
THEOREM ScanTypeCorrect == ScanSpec => []ScanTypeOK
<1>1. ScanInv => ScanTypeOK
  BY DEF ScanInv
<1> QED
  BY <1>1, ScanInvariance, PTL

\* After an error the stream yields nothing more.
LEMMA ErrorsLastOK ==
  ASSUME ScanInv, ErrorsLast, [ScanNext]_vars
  PROVE  ErrorsLast'
<1>1. ASSUME UNCHANGED items, phase # "ended" \/ UNCHANGED phase
      PROVE  ErrorsLast'
  BY <1>1 DEF ErrorsLast
<1>2. ASSUME NEW r, items' = Append(items, r), phase # "ended",
             ~IsErr(r) \/ phase' = "ended"
      PROVE  ErrorsLast'
  <2>1. /\ Len(items) \in Nat /\ Len(items') = Len(items) + 1
        /\ \A k \in 1..Len(items) : items'[k] = items[k]
        /\ items'[Len(items) + 1] = r
    BY <1>2, ItemAdded DEF ScanInv
  <2>2. \A k \in 1..Len(items) : ~IsErr(items'[k])
    BY <1>2, <2>1 DEF ErrorsLast
  <2>3. \A k \in 1..Len(items') : k \in 1..Len(items) \/ k = Len(items')
    BY <2>1
  <2> QED
    BY <1>2, <2>1, <2>2, <2>3 DEF ErrorsLast
<1>3. CASE ReadNamesFails
  BY <1>2, <1>3 DEF ReadNamesFails
<1>4. CASE Yield
  <2>1. PICK i : items' = Append(items, Ok([pid |-> current, process |-> i]))
    BY <1>4 DEF Yield
  <2>2. ~IsErr(Ok([pid |-> current, process |-> i]))
    BY DEF IsErr, Ok
  <2> QED
    BY <1>2, <1>4, <2>1, <2>2 DEF Yield
<1> QED
  BY <1>1, <1>3, <1>4
  DEF ScanNext, StreamStep, Begin, ReadNames, Done, SkipName, TakePid, Skip, Unmakeable,
      DropItem, DropStream, Streaming, vars, scanVars

\* A scan of all_processes that comes to its end has yielded every process
\* that was there from its start to its end, unless files ran out; a failed
\* read of the directory is the last thing it yields.
THEOREM NoneMissedCorrect == ScanSpec => []NoneMissed
<1>1. ScanInit => ErrorsLast
  BY DEF ScanInit, ErrorsLast
<1>2. ScanInv /\ NoneMissed /\ [ScanNext]_vars /\ ScanInv' => NoneMissed'
  BY ErrorsLastOK DEF ScanInv, NoneMissed
<1>3. ScanInit => NoneMissed
  BY <1>1, ScanInitOK DEF ScanInv, NoneMissed
<1> QED
  BY <1>2, <1>3, ScanInvariance, PTL DEF ScanSpec

\* all_processes yields no process twice, and no pid.
THEOREM NoneTwiceCorrect == ScanSpec => []NoneTwice
<1>1. ScanInv => NoneTwice
  <2> SUFFICES ASSUME ScanInv, NEW j \in Yielded, NEW k \in Yielded, j # k
               PROVE  /\ items[j].ok.pid # items[k].ok.pid
                      /\ items[j].ok.process # items[k].ok.process
    BY DEF NoneTwice
  <2>1. ScanTypeOK /\ Order /\ ItemsBorn
    BY DEF ScanInv
  <2>2. /\ j \in 1..Len(items) /\ k \in 1..Len(items)
        /\ items[j].ok.pid \in Int /\ items[k].ok.pid \in Int
    BY <2>1, YieldedItem
  <2>3. j < k \/ k < j
    BY <2>2 DEF Yielded
  <2>4. items[j].ok.pid # items[k].ok.pid
    BY <2>1, <2>2, <2>3 DEF Order
  <2>5. items[j].ok.process # items[k].ok.process
    BY <2>1, <2>4 DEF ItemsBorn
  <2> QED
    BY <2>4, <2>5
<1> QED
  BY <1>1, ScanInvariance, PTL

-----------------------------------------------------------------------------
(* The refinement: the scan is a listing.                                  *)

USE DEF EntriesOf

\* The entries are entries of the abstract listing.
LEMMA EntriesAreThere ==
  ASSUME ScanInv
  PROVE  EntriesOf(Processes) \subseteq Promise!Entries
BY DEF ScanInv, WorldOK, Listed, Promise!Entries

LEMMA ScanRefinesInit == ScanInit => Promise!ListingInit
<1> SUFFICES ASSUME ScanInit PROVE Promise!ListingInit
  OBVIOUS
<1>1. EntriesOf(Processes) \subseteq Promise!Entries
  BY ScanInitOK, EntriesAreThere
<1>2. EntriesOf(present) = {} /\ Told = {} /\ Status = "none"
  BY DEF ScanInit, Told, Yielded, Status
<1> QED
  BY <1>1, <1>2, Zenon DEF Promise!ListingInit

\* What the listing tells of grows by an entry with a Process, and by nothing
\* with an error.
LEMMA ToldGrows ==
  ASSUME ScanTypeOK, NEW r, items' = Append(items, r)
  PROVE  /\ IsOk(r) => Told' = Told \cup {<<r.ok.pid, r.ok.process>>}
         /\ ~IsOk(r) => Told' = Told
<1>1. /\ \A k \in Yielded : items'[k] = items[k]
      /\ items'[Len(items) + 1] = r
      /\ IsOk(r) => Yielded' = Yielded \cup {Len(items) + 1}
      /\ ~IsOk(r) => Yielded' = Yielded
  BY ItemAdded DEF Yielded
<1> QED
  BY <1>1 DEF Told

\* Processes come and go: of those of the start, the entries that are left are
\* those that were there, though pids are used again.
LEMMA WorldChanges ==
  ASSUME ScanInv, ScanInv', WorldNext, UNCHANGED scanVars
  PROVE  Promise!Change
<1>1. EntriesOf(Processes)' \subseteq Promise!Entries
  <2>1. \A i \in Processes : Listed(i)' => pidOf'[i] \in Pids
    BY DEF ScanInv, WorldOK, Listed
  <2> QED
    BY <2>1 DEF Promise!Entries
<1>2. EntriesOf(present)' = EntriesOf(present) \cap EntriesOf(Processes)'
  <2>1. /\ present' = present /\ present \subseteq Processes
        /\ \A i \in present : pidOf'[i] = pidOf[i] /\ (Listed(i)' => Listed(i))
    BY WorldStep DEF ScanInv, PresentBorn, ScanTypeOK, scanVars
  <2>2. EntriesOf(present)' = {<<pidOf[i], i>> : i \in {j \in present : Listed(j)'}}
    BY <2>1
  <2>3. EntriesOf(Processes)' = {<<pidOf'[i], i>> : i \in {j \in Processes : Listed(j)'}}
    OBVIOUS
  <2> QED
    BY <2>1, <2>2, <2>3
<1>3. Told' = Told /\ Status' = Status
  BY DEF scanVars, Told, Yielded, Status, Streaming
<1> QED
  BY <1>1, <1>2, <1>3, Zenon DEF Promise!Change

\* The step for which the invariant is needed: at the end nothing that stayed
\* is left untold.
LEMMA DoneCompletes ==
  ASSUME ScanInv, ScanInv', Done
  PROVE  Promise!Complete \/ Promise!BreakOff
<1>1. /\ UNCHANGED <<worldVars, items, present, starved>>
      /\ phase = "listing" /\ phase' = "done"
  BY DEF Done
<1>2. /\ UNCHANGED <<EntriesOf(Processes), EntriesOf(present), Told>>
      /\ Status = "open" /\ Status' = IF starved THEN "broken" ELSE "complete"
  BY <1>1 DEF worldVars, Told, Yielded, Listed, Status, Streaming, ScanInv, ScanTypeOK
<1>3. CASE starved
  BY <1>2, <1>3, Zenon DEF Promise!BreakOff
<1>4. CASE ~starved
  <2>1. EntriesOf(present) \subseteq Told
    <3> SUFFICES ASSUME NEW i \in present, Listed(i)
                 PROVE  <<pidOf[i], i>> \in Told
      OBVIOUS
    <3>1. PICK k \in Yielded : items[k].ok.process = i
      BY <1>1, <1>4 DEF ScanInv, WholeAtEnd, Yielded, Listed, worldVars
    <3>2. items[k].ok.pid = pidOf[i]
      BY <3>1 DEF ScanInv, ItemsBorn
    <3> QED
      BY <3>1, <3>2 DEF Told
  <2> QED
    BY <1>2, <1>4, <2>1, Zenon DEF Promise!Complete
<1> QED
  BY <1>3, <1>4

\* A Process is made of whatever process has the pid, which has not been told.
LEMMA YieldTells ==
  ASSUME ScanInv, Yield
  PROVE  Promise!Tell
<1>1. PICK i \in Occupant(current) :
        items' = Append(items, Ok([pid |-> current, process |-> i]))
  BY DEF Yield
<1>2. UNCHANGED <<worldVars, present>> /\ phase = "making" /\ phase' = "listing"
  BY DEF Yield
<1>3. Told' = Told \cup {<<current, i>>}
  BY <1>1, ToldGrows DEF ScanInv, IsOk, Ok
<1>4. <<current, i>> \in EntriesOf(Processes)
  BY DEF Occupant
<1>5. ASSUME NEW x \in Told PROVE x[1] # current
  <2>1. PICK k \in Yielded : x = <<items[k].ok.pid, items[k].ok.process>>
    BY DEF Told
  <2>2. items[k].ok.pid < current /\ items[k].ok.pid \in Int /\ current \in Int
    BY <1>2, YieldedItem, PidsArePositive DEF ScanInv, Order
  <2> QED
    BY <2>1, <2>2
<1>6. UNCHANGED <<EntriesOf(Processes), EntriesOf(present)>>
  BY <1>2 DEF worldVars, Listed
<1>7. Status = "open" /\ Status' = Status
  BY <1>2 DEF Status, Streaming
<1>8. \A x \in Told : x[1] # <<current, i>>[1]
  BY <1>5
<1> QED
  BY <1>3, <1>4, <1>6, <1>7, <1>8, Zenon DEF Promise!Tell

LEMMA ScanRefinesNext ==
  ScanInv /\ ScanInv' /\ [ScanNext]_vars => [Promise!ListingNext]_Promise!listingVars
<1> SUFFICES ASSUME ScanInv, ScanInv', [ScanNext]_vars
             PROVE  Promise!ListingNext \/ UNCHANGED Promise!listingVars
  BY DEF Promise!listingVars
<1> DEFINE Same == UNCHANGED <<EntriesOf(Processes), EntriesOf(present), Told, Status>>
<1>1. ASSUME UNCHANGED <<worldVars, items, present>>, Status' = Status
      PROVE  UNCHANGED Promise!listingVars
  <2>1. Same
    BY <1>1 DEF worldVars, Told, Yielded, Listed
  <2> QED
    BY <2>1, Zenon DEF Promise!listingVars
<1>2. ASSUME UNCHANGED <<worldVars, present>>, Told' = Told, Streaming, phase' = "ended"
      PROVE  Promise!BreakOff
  <2>1. UNCHANGED <<EntriesOf(Processes), EntriesOf(present), Told>>
    BY <1>2 DEF worldVars, Listed
  <2>2. Status = "open" /\ Status' = "broken"
    BY <1>2 DEF Status, Streaming
  <2> QED
    BY <2>1, <2>2, Zenon DEF Promise!BreakOff
<1>3. CASE UNCHANGED vars
  BY <1>1, <1>3 DEF vars, scanVars, Status, Streaming
<1>4. CASE WorldNext /\ UNCHANGED scanVars
  BY <1>4, WorldChanges DEF Promise!ListingNext
<1>5. CASE Begin
  <2>1. /\ UNCHANGED <<worldVars, items>> /\ present' = {i \in Processes : Listed(i)}
        /\ phase = "none" /\ phase' \in {"listing", "ended"}
    BY <1>5 DEF Begin
  <2>2. UNCHANGED <<EntriesOf(Processes), Told>> /\ EntriesOf(present)' = EntriesOf(Processes)
    BY <2>1 DEF worldVars, Told, Yielded, Listed
  <2>3. Status = "none" /\ Status' \in {"open", "broken"}
    BY <2>1 DEF Status, Streaming
  <2>4. Promise!Start
    BY <2>2, <2>3, Zenon DEF Promise!Start
  <2> QED
    BY <2>4 DEF Promise!ListingNext
<1>6. CASE ReadNames
  BY <1>1, <1>6 DEF ReadNames, Status, Streaming
<1>7. CASE Done
  BY <1>7, DoneCompletes DEF Promise!ListingNext
<1>8. CASE ReadNamesFails
  <2>1. Told' = Told
    BY <1>8, ToldGrows DEF ReadNamesFails, ScanInv, IsOk, Err
  <2> QED
    BY <1>2, <1>8, <2>1 DEF ReadNamesFails, Streaming, Promise!ListingNext
<1>9. CASE SkipName
  BY <1>1, <1>9 DEF SkipName, Status, Streaming
<1>10. CASE TakePid
  BY <1>1, <1>10 DEF TakePid, Status, Streaming
<1>11. CASE Yield
  BY <1>11, YieldTells DEF Promise!ListingNext
<1>12. CASE Skip
  BY <1>1, <1>12 DEF Skip, Unmakeable, Status, Streaming
<1>13. CASE \E k \in kept : DropItem(k)
  BY <1>1, <1>13 DEF DropItem, Status, Streaming
<1>14. CASE DropStream
  <2>1. Told' = Told
    BY <1>14 DEF DropStream, Told, Yielded
  <2> QED
    BY <1>2, <1>14, <2>1 DEF DropStream, Promise!ListingNext
<1> QED
  BY <1>3, <1>4, <1>5, <1>6, <1>7, <1>8, <1>9, <1>10, <1>11, <1>12, <1>13, <1>14
  DEF ScanNext, StreamStep

\* all_processes implements the abstract listing: each step of the stream tells
\* of one entry, completes it, breaks it off, or is invisible.
THEOREM ScanRefinement == ScanSpec => ImplementsListing
<1> QED
  BY ScanRefinesInit, ScanRefinesNext, ScanInvariance, PTL
  DEF ScanSpec, ImplementsListing, Promise!ListingSpec
=============================================================================

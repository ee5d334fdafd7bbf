---------------------------- MODULE FdScanProofs ----------------------------
(***************************************************************************)
(* Proofs about FdScan: what fds lists, and fd_count returns, while the    *)
(* process changes its descriptors, for any descriptors and files, any     *)
(* size of a batch and any number of spare files.                          *)
(***************************************************************************)
EXTENDS FdScan, SequenceProofs, FiniteSetTheorems

USE DEF NoFd, ageVars

Yielded == {k \in 1..Len(items) : IsOk(items[k])}

Modes == {Mode[f] : f \in Files}

\* FDInfo::from_process_at is at work on fd.
Making == phase \in {"version", "fetching", "linking", "reading", "statting"}

\* FdTypeOK, and what it leaves out: the kernel, the call, and what is known
\* of the descriptor being looked at.
CallOK ==
  /\ FdTypeOK
  /\ kernel \in [sized : BOOLEAN, pathStat : BOOLEAN]
  /\ op \in {"fds", "fd_count"}
  /\ info \in [mode : Modes \cup {Closed}, target : Files \cup {Closed}]
  /\ Making => fd \in Fds
  /\ phase \in {"reading", "statting"} => info.mode \in Modes
  /\ phase = "linking" /\ kernel.pathStat /\ fd \notin misled => path

\* An error is the last item of a stream, and ends it.
AllOk == phase # "returned" => \A k \in 1..Len(items) : IsOk(items[k])

\* What has been listed, the descriptor being looked at, the names read, and
\* those still to be read, come in this order.
Order ==
  /\ \A j, k \in 1..Len(batch) : j < k => batch[j] < batch[k]
  /\ \A j \in 1..Len(batch) : batch[j] <= cursor
  /\ Making => fd <= cursor /\ \A j \in 1..Len(batch) : fd < batch[j]
  /\ \A k \in Yielded :
       /\ items[k].ok.fd <= cursor
       /\ Making => items[k].ok.fd < fd
       /\ \A j \in 1..Len(batch) : items[k].ok.fd < batch[j]
  /\ \A j, k \in Yielded : j < k => items[j].ok.fd < items[k].ok.fd

\* What FDInfo has seen of a descriptor that kept its file is that file's.
InfoOfFile ==
  fd \in steady =>
    /\ phase \in {"reading", "statting"} /\ table[fd] # Closed =>
         info.mode = Mode[table[fd]]
    /\ phase = "statting" /\ table[fd] # Closed => info.target = table[fd]

Ahead(n) ==
  \/ n > cursor
  \/ \E j \in 1..Len(batch) : batch[j] = n
  \/ Making /\ fd = n

IsListed(e) == \E k \in Yielded : items[k].ok = e

\* A descriptor that kept its file is listed, or will be met, or was opened for
\* the kernel of another root.
NoneLost ==
  phase # "returned" /\ kernel.pathStat /\ LinkOpens =>
    \A n \in steady \ misled : table[n] \in Nameable => Ahead(n) \/ IsListed(Entry(n))

\* Nothing has been read of the directory before the call.
Fresh == phase = "none" => cursor = NoFd

FdInv ==
  /\ CallOK
  /\ Fresh
  /\ AllOk
  /\ Order
  /\ InfoOfFile
  /\ NoneLost
  /\ FdNoneMissed

-----------------------------------------------------------------------------
(* Descriptors and items.                                                  *)

LEMMA FdsAreNumbers ==
  /\ \A n \in Fds : n \in Int /\ n >= 0 /\ n > NoFd
  /\ Fds \in SUBSET Int
  /\ \A f \in Nameable : f \in Files /\ f # Closed
BY FdsAssumption, FilesAssumption

\* An item is added, and is one of those listed if it is an FDInfo.
LEMMA ItemAdded ==
  ASSUME CallOK, NEW r, items' = Append(items, r)
  PROVE  /\ Len(items) \in Nat /\ Len(items') = Len(items) + 1
         /\ \A k \in 1..Len(items) : items'[k] = items[k]
         /\ items'[Len(items) + 1] = r
         /\ \A k : k \in 1..Len(items') <=> k \in 1..Len(items) \/ k = Len(items) + 1
         /\ IsOk(r) => Yielded' = Yielded \cup {Len(items) + 1}
         /\ ~IsOk(r) => Yielded' = Yielded
         /\ r \in ResultOf(Info, {"Io"}) => items' \in Seq(ResultOf(Info, {"Io"}))
<1>1. items \in Seq(ResultOf(Info, {"Io"}))
  BY DEF CallOK, FdTypeOK
<1>2. /\ Len(items) \in Nat /\ Len(items') = Len(items) + 1
      /\ \A k \in 1..Len(items) : items'[k] = items[k]
      /\ items'[Len(items) + 1] = r
      /\ \A k : k \in 1..Len(items') <=> k \in 1..Len(items) \/ k = Len(items) + 1
      /\ r \in ResultOf(Info, {"Io"}) => items' \in Seq(ResultOf(Info, {"Io"}))
  BY <1>1, AppendFacts
<1> QED
  BY <1>2 DEF Yielded

LEMMA YieldedItem ==
  ASSUME CallOK, NEW k \in Yielded
  PROVE  /\ k \in 1..Len(items) /\ items[k].ok \in Info
         /\ items[k].ok.fd \in Fds /\ items[k].ok.fd \in Int
<1>1. k \in 1..Len(items) /\ IsOk(items[k]) /\ items[k] \in ResultOf(Info, {"Io"})
  BY DEF CallOK, FdTypeOK, Yielded
<1>2. items[k] \in [ok : Info]
  BY <1>1 DEF ResultOf, IsOk
<1> QED
  BY <1>1, <1>2, FdsAreNumbers DEF Info

\* While the call runs there are no more items than descriptors: the items are
\* FDInfos, of different descriptors.
LEMMA FewItems ==
  ASSUME CallOK, AllOk, Order, phase # "returned"
  PROVE  Len(items) \in Nat /\ Len(items) <= Cardinality(Fds) /\ Cardinality(Fds) \in Nat
<1>1. Len(items) \in Nat /\ Yielded = 1..Len(items)
  BY DEF CallOK, FdTypeOK, AllOk, Yielded
<1> DEFINE fdOf == [k \in 1..Len(items) |-> items[k].ok.fd]
<1>2. \A k \in 1..Len(items) : items[k].ok.fd \in Fds /\ items[k].ok.fd \in Int
  BY <1>1, YieldedItem
<1>3. ASSUME NEW j \in 1..Len(items), NEW k \in 1..Len(items), j # k
      PROVE  items[j].ok.fd # items[k].ok.fd
  <2>1. j < k \/ k < j
    BY <1>1, <1>3
  <2> QED
    BY <1>1, <1>2, <2>1 DEF Order
<1>4. fdOf \in Injection(1..Len(items), Fds)
  BY <1>2, <1>3 DEF Injection, IsInjective
<1>5. IsFiniteSet(1..Len(items)) /\ Cardinality(1..Len(items)) = Len(items)
  <2>1. 1 \in Int /\ Len(items) \in Int
    BY <1>1
  <2>2. /\ IsFiniteSet(1..Len(items))
        /\ Cardinality(1..Len(items)) = IF 1 > Len(items) THEN 0 ELSE Len(items) - 1 + 1
    BY <2>1, FS_Interval
  <2> QED
    BY <1>1, <2>2
<1>6. IsFiniteSet(Fds) /\ Cardinality(Fds) \in Nat
  BY FdsAssumption, FS_CardinalityType
<1> QED
  BY <1>1, <1>4, <1>5, <1>6, FS_Injection

-----------------------------------------------------------------------------
(* The invariant, step by step.                                            *)

LEMMA FdInitOK == FdInit => FdInv
<1> SUFFICES ASSUME FdInit PROVE FdInv
  OBVIOUS
<1> USE DEF FdInit
<1>1. batch \in Seq(Fds) /\ items \in Seq(ResultOf(Info, {"Io"})) /\ ~IsOk(outcome)
  BY DEF Pending, IsOk
<1>2. FdTypeOK
  BY <1>1 DEF FdTypeOK
<1>3. CallOK
  BY <1>2 DEF CallOK, Making, NoInfo
<1>4. Yielded = {}
  BY DEF Yielded
<1>5. AllOk /\ Order /\ InfoOfFile
  BY <1>4 DEF AllOk, Order, InfoOfFile, Making
<1>6. Fresh /\ NoneLost /\ FdNoneMissed
  BY FdsAreNumbers DEF Fresh, NoneLost, Ahead, FdNoneMissed, Complete
<1> QED
  BY <1>3, <1>5, <1>6 DEF FdInv

\* The process changes descriptors: those that are still steady keep their
\* files or, if all have closed, have none.
LEMMA TableOK ==
  ASSUME FdInv, UNCHANGED fdVars,
         table' \in [Fds -> Files \cup {Closed}], steady' \subseteq steady,
         \A n \in steady' : table'[n] = table[n] \/ table'[n] = Closed
  PROVE  FdInv'
<1> USE DEF FdInv
<1>1. UNCHANGED <<kernel, op, phase, cursor, batch, fd, info, items, outcome, ageVars>>
  BY DEF fdVars
<1>2. CallOK' /\ Fresh' /\ AllOk' /\ Order' /\ Yielded' = Yielded
  BY <1>1 DEF CallOK, FdTypeOK, Fresh, AllOk, Order, Making, Yielded
<1>3. InfoOfFile'
  BY <1>1 DEF InfoOfFile
<1>4. \A n \in steady' : table'[n] \in Nameable => n \in steady /\ table'[n] = table[n]
  BY FdsAreNumbers
<1>5. NoneLost'
  BY <1>1, <1>2, <1>4 DEF NoneLost, LinkOpens, Ahead, Making, IsListed, Entry
<1>6. FdNoneMissed'
  BY <1>1, <1>4 DEF FdNoneMissed, Complete, Listed, LinkOpens, Entry
<1> QED
  BY <1>2, <1>3, <1>5, <1>6

LEMMA RedirectOK ==
  ASSUME FdInv, NEW n \in Fds, NEW f \in Files \cup {Closed}, Redirect(n, f)
  PROVE  FdInv'
<1>1. table \in [Fds -> Files \cup {Closed}] /\ steady \subseteq Fds
  BY DEF FdInv, CallOK, FdTypeOK
<1>2. /\ table' \in [Fds -> Files \cup {Closed}] /\ steady' \subseteq steady
      /\ \A m \in steady' : table'[m] = table[m]
      /\ UNCHANGED fdVars
  BY <1>1 DEF Redirect
<1> QED
  BY <1>2, TableOK

LEMMA ProcessExitsOK ==
  ASSUME FdInv, ProcessExits
  PROVE  FdInv'
<1>1. steady \subseteq Fds
  BY DEF FdInv, CallOK, FdTypeOK
<1>2. /\ table' \in [Fds -> Files \cup {Closed}] /\ steady' \subseteq steady
      /\ \A n \in steady' : table'[n] = Closed
      /\ UNCHANGED fdVars
  BY <1>1 DEF ProcessExits
<1> QED
  BY <1>2, TableOK

\* The call goes on to the directory: nothing has been read of it.  Where the
\* call begins, every descriptor is steady.
LEMMA PhaseOK ==
  ASSUME FdInv, phase \in {"none", "opening"}, phase' \in {"opening", "listing"},
         UNCHANGED <<table, kernel, op, cursor, batch, fd, info, items, outcome>>,
         UNCHANGED ageVars, UNCHANGED steady \/ (phase = "none" /\ steady' = Fds)
  PROVE  FdInv'
<1> USE DEF FdInv
<1>1. ~Making /\ ~Making' /\ Yielded' = Yielded
  BY DEF Making, Yielded
<1>2. CallOK' /\ Fresh' /\ AllOk' /\ Order' /\ FdNoneMissed'
  BY <1>1 DEF CallOK, FdTypeOK, Fresh, AllOk, Order, FdNoneMissed, Complete
<1>3. InfoOfFile'
  BY DEF InfoOfFile
<1>4. NoneLost'
  <2>1. CASE UNCHANGED steady
    BY <1>1, <2>1 DEF NoneLost, LinkOpens, Ahead, IsListed, Entry
  <2>2. CASE phase = "none" /\ steady' = Fds
    BY <2>2, FdsAreNumbers DEF Fresh, NoneLost, Ahead
  <2> QED
    BY <2>1, <2>2
<1> QED
  BY <1>2, <1>3, <1>4

\* The call returns r; the items are those it had, or one error more.
LEMMA ReturnOK ==
  ASSUME FdInv, phase' = "returned", UNCHANGED steady \/ steady' = Fds,
         UNCHANGED <<table, kernel, op, cursor, batch, fd, info, ageVars>>,
         UNCHANGED items \/ items' = Append(items, Err("Io")),
         IsOk(outcome') => outcome'.ok \in 0..(Cardinality(Fds) + 1),
         FdNoneMissed'
  PROVE  FdInv'
<1> USE DEF FdInv
<1>1. ~IsOk(Err("Io")) /\ Err("Io") \in ResultOf(Info, {"Io"})
  BY DEF IsOk, Err, ResultOf
<1>2. /\ Yielded' = Yielded /\ items' \in Seq(ResultOf(Info, {"Io"}))
      /\ \A k \in 1..Len(items) : items'[k] = items[k]
  <2>1. CASE UNCHANGED items
    BY <2>1 DEF CallOK, FdTypeOK, Yielded
  <2>2. CASE items' = Append(items, Err("Io"))
    BY <1>1, <2>2, ItemAdded
  <2> QED
    BY <2>1, <2>2
<1>3. \A k \in Yielded : items'[k] = items[k]
  BY <1>2 DEF Yielded
<1>4. CallOK'
  BY <1>2 DEF CallOK, FdTypeOK, Making
<1>5. Order'
  BY <1>2, <1>3 DEF Order, Making
<1>6. Fresh' /\ AllOk' /\ InfoOfFile' /\ NoneLost'
  BY DEF Fresh, AllOk, InfoOfFile, NoneLost
<1> QED
  BY <1>4, <1>5, <1>6

LEMMA CountFastOK ==
  ASSUME FdInv, CountFast
  PROVE  FdInv'
<1>1. /\ UNCHANGED <<table, kernel, op, cursor, batch, fd, info, items, ageVars>>
      /\ phase' = "returned" /\ op = "fd_count" /\ steady' = Fds
      /\ \/ kernel.sized /\ outcome' = Ok(Cardinality(Open))
         \/ outcome' = Err("Io")
  BY DEF CountFast, Return
<1>2. IsOk(outcome') => outcome'.ok \in 0..(Cardinality(Fds) + 1)
  <2>1. Open \in SUBSET Fds
    BY DEF Open
  <2>2. /\ Cardinality(Open) \in Nat /\ Cardinality(Fds) \in Nat
        /\ Cardinality(Open) <= Cardinality(Fds)
    BY <2>1, FdsAssumption, FS_Subset, FS_CardinalityType
  <2> QED
    BY <1>1, <2>2 DEF Ok, Err, IsOk
<1>3. FdNoneMissed'
  BY <1>1 DEF FdNoneMissed, Complete, IsErr, Err
<1> QED
  BY <1>1, <1>2, <1>3, ReturnOK

LEMMA OpenDirOK ==
  ASSUME FdInv, OpenDir
  PROVE  FdInv'
<1>1. /\ UNCHANGED <<table, steady, kernel, op, cursor, batch, fd, info, items, ageVars>>
      /\ phase = "opening"
      /\ \/ phase' = "listing" /\ UNCHANGED outcome
         \/ phase' = "returned" /\ outcome' = Err("Io")
  BY DEF OpenDir, Return
<1>2. CASE phase' = "listing" /\ UNCHANGED outcome
  BY <1>1, <1>2, PhaseOK
<1>3. CASE phase' = "returned" /\ outcome' = Err("Io")
  <2>1. ~IsOk(outcome') /\ FdNoneMissed'
    BY <1>3 DEF FdNoneMissed, Complete, IsErr, IsOk, Err
  <2> QED
    BY <1>1, <1>3, <2>1, ReturnOK
<1> QED
  BY <1>1, <1>2, <1>3

\* What fd_count counts is at most one error more than there are descriptors.
LEMMA CountedOK ==
  ASSUME FdInv, phase # "returned", NEW n \in {Len(items), Len(items) + 1},
         NEW all, Len(all) = n, IsOk(Counted(all))
  PROVE  Counted(all).ok \in 0..(Cardinality(Fds) + 1)
<1>1. Len(items) \in Nat /\ Len(items) <= Cardinality(Fds) /\ Cardinality(Fds) \in Nat
  BY FewItems DEF FdInv
<1>2. CASE op = "fd_count"
  BY <1>1, <1>2 DEF Counted, Ok
<1>3. CASE op # "fd_count"
  BY <1>3 DEF Counted, FdInv, CallOK, FdTypeOK
<1> QED
  BY <1>2, <1>3

\* At the end of the names every descriptor has been passed.
LEMMA NamesEndOK ==
  ASSUME FdInv, NamesEnd
  PROVE  FdInv'
<1>1. /\ UNCHANGED <<table, steady, kernel, op, cursor, batch, fd, info, items, ageVars>>
      /\ phase = "listing" /\ phase' = "returned" /\ outcome' = Counted(items)
      /\ batch = <<>> /\ NamesLeft = {}
  BY DEF NamesEnd, Return
<1>2. IsOk(outcome') => outcome'.ok \in 0..(Cardinality(Fds) + 1)
  BY <1>1, CountedOK
<1>3. FdNoneMissed'
  <2> SUFFICES ASSUME kernel.pathStat, LinkOpens,
                      NEW n \in steady \ misled, table[n] \in Nameable
               PROVE  Entry(n) \in Listed'
    BY <1>1 DEF FdNoneMissed, Entry
  <2>1. n \in NamesLeft \/ ~(n > cursor)
    BY FdsAreNumbers DEF NamesLeft, Open, FdInv, CallOK, FdTypeOK
  <2>2. IsListed(Entry(n))
    BY <1>1, <2>1 DEF FdInv, NoneLost, Ahead, Making
  <2> QED
    BY <1>1, <2>2 DEF IsListed, Listed, Yielded
<1> QED
  BY <1>1, <1>2, <1>3, ReturnOK

LEMMA ReadNamesFailsOK ==
  ASSUME FdInv, ReadNamesFails
  PROVE  FdInv'
<1>1. /\ UNCHANGED <<table, steady, kernel, op, cursor, batch, fd, info, ageVars>>
      /\ phase = "listing" /\ phase' = "returned" /\ outcome' = Counted(items')
      /\ items' = Append(items, Err("Io"))
  BY DEF ReadNamesFails, Return
<1>2. /\ Len(items) \in Nat /\ Len(items') = Len(items) + 1
      /\ items'[Len(items) + 1] = Err("Io")
  BY <1>1, ItemAdded DEF FdInv
<1>3. IsOk(outcome') => outcome'.ok \in 0..(Cardinality(Fds) + 1)
  BY <1>1, <1>2, CountedOK
<1>4. FdNoneMissed'
  <2>1. Len(items) + 1 \in 1..Len(items') /\ ~IsOk(items'[Len(items) + 1])
    BY <1>2 DEF IsOk, Err
  <2> QED
    BY <2>1 DEF FdNoneMissed, Complete
<1> QED
  BY <1>1, <1>3, <1>4, ReturnOK

\* The names of a batch are taken from those above the cursor; what is passed
\* over was not open.
LEMMA ReadNamesOK ==
  ASSUME FdInv, ReadNames
  PROVE  FdInv'
<1> USE DEF FdInv
<1>1. PICK b \in Batches(NamesLeft, Batch) : batch' = b /\ cursor' = b[Len(b)]
  BY DEF ReadNames
<1>2. /\ UNCHANGED <<table, steady, kernel, op, phase, fd, info, items, outcome, ageVars>>
      /\ phase = "listing" /\ batch = <<>>
  BY DEF ReadNames
<1>3. NamesLeft \subseteq Fds /\ NamesLeft \in SUBSET Int /\ \A n \in NamesLeft : n > cursor
  BY FdsAreNumbers DEF NamesLeft, Open
<1>4. /\ b \in Seq(NamesLeft) /\ b[Len(b)] \in NamesLeft /\ b[Len(b)] \in Int
      /\ \A j, k \in 1..Len(b) : j < k => b[j] < b[k]
      /\ \A j \in 1..Len(b) : b[j] \in NamesLeft /\ b[j] \in Int /\ b[j] <= b[Len(b)]
      /\ \A n \in NamesLeft : n > b[Len(b)] \/ \E j \in 1..Len(b) : b[j] = n
  BY <1>3, BatchFacts, FdBatchAssumption
<1>5. Yielded' = Yielded /\ ~Making /\ ~Making'
  BY <1>2 DEF Yielded, Making
<1>6. CallOK'
  <2>1. batch' \in Seq(Fds) /\ cursor' \in Fds
    BY <1>1, <1>3, <1>4
  <2> QED
    BY <1>2, <1>5, <2>1 DEF CallOK, FdTypeOK
<1>7. Fresh' /\ AllOk' /\ InfoOfFile' /\ FdNoneMissed'
  BY <1>2 DEF Fresh, AllOk, InfoOfFile, FdNoneMissed, Complete
<1>8. Order'
  <2>1. cursor \in Int
    BY FdsAreNumbers DEF CallOK, FdTypeOK
  <2>2. \A k \in Yielded : items[k].ok.fd <= cursor /\ items[k].ok.fd \in Int
    BY YieldedItem DEF Order
  <2>3. \A k \in Yielded : \A n \in NamesLeft : items[k].ok.fd < n /\ items[k].ok.fd <= n
    <3> SUFFICES ASSUME NEW k \in Yielded, NEW n \in NamesLeft
                 PROVE  items[k].ok.fd < n
      BY <1>3, <2>2
    <3>1. n \in Int /\ n > cursor
      BY <1>3
    <3> QED
      BY <2>1, <2>2, <3>1
  <2>4. \A j \in 1..Len(b) : b[j] <= cursor'
    BY <1>1, <1>4
  <2> QED
    BY <1>1, <1>2, <1>4, <1>5, <2>3, <2>4 DEF Order
<1>9. NoneLost'
  <2> SUFFICES ASSUME kernel.pathStat, LinkOpens,
                      NEW n \in steady \ misled, table[n] \in Nameable,
                      ~IsListed(Entry(n))
               PROVE  Ahead(n)'
    BY <1>2, <1>5 DEF NoneLost, IsListed, Entry
  <2>1. n > cursor
    BY <1>2, <1>5 DEF NoneLost, Ahead
  <2>2. n \in NamesLeft
    BY <2>1, FdsAreNumbers DEF NamesLeft, Open, CallOK, FdTypeOK
  <2> QED
    BY <1>1, <1>4, <2>2 DEF Ahead
<1> QED
  BY <1>6, <1>7, <1>8, <1>9

\* A descriptor is taken off the batch to be looked at.
LEMMA TakeFdOK ==
  ASSUME FdInv, TakeFd
  PROVE  FdInv'
<1> USE DEF FdInv
<1>1. /\ UNCHANGED <<table, steady, kernel, op, cursor, items, outcome, ageVars>>
      /\ phase = "listing" /\ phase' = "version" /\ info' = NoInfo
      /\ batch # <<>> /\ batch' = Tail(batch) /\ fd' = Head(batch)
  BY DEF TakeFd
<1>2. batch \in Seq(Fds)
  BY DEF CallOK, FdTypeOK
<1>3. Making' /\ ~Making /\ Yielded' = Yielded
  BY <1>1 DEF Making, Yielded
<1>4. /\ batch' \in Seq(Fds) /\ Head(batch) \in Fds
      /\ Head(batch) = batch[1] /\ 1 \in 1..Len(batch)
      /\ \A j \in 1..Len(batch') : batch'[j] = batch[j + 1] /\ j + 1 \in 1..Len(batch)
      /\ \A j \in 2..Len(batch) : batch'[j - 1] = batch[j] /\ j - 1 \in 1..Len(batch')
  BY <1>1, <1>2, TailFacts
<1>5. /\ \A j, k \in 1..Len(batch') : j < k => batch'[j] < batch'[k]
      /\ \A j \in 1..Len(batch') : Head(batch) < batch'[j]
  BY <1>1, <1>2, FdsAreNumbers, IncreasingTail DEF Order
<1>6. CallOK'
  BY <1>1, <1>3, <1>4 DEF CallOK, FdTypeOK, NoInfo
<1>7. Fresh' /\ AllOk' /\ InfoOfFile' /\ FdNoneMissed'
  BY <1>1 DEF Fresh, AllOk, InfoOfFile, FdNoneMissed, Complete
<1>8. Order'
  BY <1>1, <1>3, <1>4, <1>5 DEF Order
<1>9. NoneLost'
  <2> SUFFICES ASSUME kernel.pathStat, LinkOpens,
                      NEW n \in steady \ misled, table[n] \in Nameable,
                      ~IsListed(Entry(n))
               PROVE  Ahead(n)'
    BY <1>1, <1>3 DEF NoneLost, IsListed, Entry
  <2>1. n > cursor \/ \E j \in 1..Len(batch) : batch[j] = n
    BY <1>1, <1>3 DEF NoneLost, Ahead
  <2>2. CASE n > cursor
    BY <1>1, <2>2 DEF Ahead
  <2>3. ASSUME NEW j \in 1..Len(batch), batch[j] = n
        PROVE  Ahead(n)'
    <3>1. CASE j = 1
      BY <1>1, <1>3, <1>4, <2>3, <3>1 DEF Ahead
    <3>2. CASE j \in 2..Len(batch)
      <4>1. batch'[j - 1] = n /\ j - 1 \in 1..Len(batch')
        BY <1>4, <2>3, <3>2
      <4> QED
        BY <4>1 DEF Ahead
    <3> QED
      BY <3>1, <3>2
  <2> QED
    BY <2>1, <2>2, <2>3
<1> QED
  BY <1>6, <1>7, <1>8, <1>9

\* A step inside FDInfo: the stream stays where it is.
LEMMA LookOK ==
  ASSUME FdInv, Making, Making', CallOK', InfoOfFile',
         UNCHANGED <<table, steady, kernel, op, cursor, batch, fd, items, outcome>>,
         misled \subseteq misled'
  PROVE  FdInv'
<1> USE DEF FdInv
<1>1. phase # "returned" /\ phase' \notin {"none", "returned"} /\ Yielded' = Yielded
  BY DEF Making, Yielded
<1>2. Fresh' /\ AllOk' /\ Order' /\ FdNoneMissed'
  BY <1>1 DEF Fresh, AllOk, Order, FdNoneMissed, Complete
<1>3. NoneLost'
  BY <1>1 DEF NoneLost, LinkOpens, Ahead, IsListed, Entry
<1> QED
  BY <1>2, <1>3

\* The cache says how old the kernel is, rightly or wrongly.
LEMMA LoadVersionOK ==
  ASSUME FdInv, LoadVersion
  PROVE  FdInv'
<1>1. /\ UNCHANGED <<table, steady, kernel, op, cursor, batch, fd, info, items, outcome, cached>>
      /\ phase = "version" /\ phase' \in {"fetching", "linking"}
      /\ \/ phase' = "fetching" /\ UNCHANGED <<path, misled>>
         \/ /\ path' = (cached = "new")
            /\ misled' = IF cached = Age THEN misled ELSE misled \cup {fd}
  BY DEF LoadVersion
<1>2. CallOK /\ fd \in Fds
  BY <1>1 DEF FdInv, CallOK, Making
<1>3. /\ misled \subseteq misled' /\ misled' \subseteq Fds /\ path' \in BOOLEAN
      /\ phase' = "linking" /\ kernel.pathStat /\ fd \notin misled' => path'
  BY <1>1, <1>2 DEF CallOK, FdTypeOK, Age
<1>4. Making /\ Making' /\ InfoOfFile'
  BY <1>1 DEF Making, InfoOfFile
<1>5. CallOK'
  BY <1>1, <1>2, <1>3 DEF CallOK, FdTypeOK, Modes
<1> QED
  BY <1>1, <1>3, <1>4, <1>5, LookOK

LEMMA FetchVersionOK ==
  ASSUME FdInv, FetchVersion
  PROVE  FdInv'
<1>1. /\ UNCHANGED <<table, steady, kernel, op, cursor, batch, fd, info, items, outcome, misled>>
      /\ phase = "fetching" /\ phase' = "linking"
      /\ \/ cached' = Age /\ path' = kernel.pathStat
         \/ path' = TRUE /\ UNCHANGED cached
  BY DEF FetchVersion
<1>2. CallOK /\ fd \in Fds
  BY <1>1 DEF FdInv, CallOK, Making
<1>3. Making /\ Making' /\ InfoOfFile'
  BY <1>1 DEF Making, InfoOfFile
<1>4. CallOK'
  BY <1>1, <1>2 DEF CallOK, FdTypeOK, Modes, Age
<1> QED
  BY <1>1, <1>3, <1>4, LookOK

\* The store of another task is seen: the call goes on from where it was.
LEMMA CacheFillsOK ==
  ASSUME FdInv, NEW age \in {"old", "new"}, CacheFills(age)
  PROVE  FdInv'
<1> USE DEF FdInv
<1>1. /\ UNCHANGED <<table, steady, kernel, op, phase, cursor, batch, fd, path, info, items,
                     outcome, misled>>
      /\ cached' = age
  BY DEF CacheFills
<1>2. CallOK' /\ Fresh' /\ AllOk' /\ Order' /\ Yielded' = Yielded
  BY <1>1 DEF CallOK, FdTypeOK, Fresh, AllOk, Order, Making, Yielded
<1>3. InfoOfFile' /\ FdNoneMissed'
  BY <1>1 DEF InfoOfFile, FdNoneMissed, Complete, Listed, LinkOpens, Entry
<1>4. NoneLost'
  BY <1>1, <1>2 DEF NoneLost, LinkOpens, Ahead, Making, IsListed, Entry
<1> QED
  BY <1>2, <1>3, <1>4

LEMMA OpenLinkOK ==
  ASSUME FdInv, OpenLink
  PROVE  FdInv'
<1>1. /\ UNCHANGED <<table, steady, kernel, op, cursor, batch, fd, items, outcome, ageVars>>
      /\ phase = "linking" /\ phase' = "reading" /\ table[fd] # Closed
      /\ info' = [info EXCEPT !.mode = Mode[table[fd]]]
  BY DEF OpenLink, CanOpenLink
<1>2. CallOK /\ fd \in Fds /\ table[fd] \in Files
  BY <1>1 DEF FdInv, CallOK, FdTypeOK, Making
<1>3. info' \in [mode : Modes \cup {Closed}, target : Files \cup {Closed}]
      /\ info'.mode = Mode[table[fd]] /\ info'.mode \in Modes
  BY <1>1, <1>2 DEF CallOK, Modes
<1>4. Making /\ Making' /\ InfoOfFile'
  BY <1>1, <1>3 DEF Making, InfoOfFile
<1>5. CallOK'
  BY <1>1, <1>2, <1>3 DEF CallOK, FdTypeOK, Modes
<1> QED
  BY <1>1, <1>4, <1>5, LookOK

LEMMA ReadLinkOK ==
  ASSUME FdInv, ReadLink
  PROVE  FdInv'
<1>1. /\ UNCHANGED <<table, steady, kernel, op, cursor, batch, fd, items, outcome, ageVars>>
      /\ phase = "reading" /\ phase' = "statting" /\ table[fd] # Closed
      /\ info' = [info EXCEPT !.target = table[fd]]
  BY DEF ReadLink
<1>2. CallOK /\ InfoOfFile /\ fd \in Fds /\ table[fd] \in Files
  BY <1>1 DEF FdInv, CallOK, FdTypeOK, Making
<1>3. info' \in [mode : Modes \cup {Closed}, target : Files \cup {Closed}]
      /\ info'.mode = info.mode /\ info'.target = table[fd]
  BY <1>1, <1>2 DEF CallOK
<1>4. Making /\ Making' /\ InfoOfFile'
  BY <1>1, <1>2, <1>3 DEF Making, InfoOfFile
<1>5. CallOK'
  BY <1>1, <1>2, <1>3 DEF CallOK, FdTypeOK, Modes
<1> QED
  BY <1>1, <1>4, <1>5, LookOK

\* An FDInfo is listed: its descriptor is above all that were listed before.
LEMMA YieldInfoOK ==
  ASSUME FdInv, YieldInfo
  PROVE  FdInv'
<1> USE DEF FdInv
<1> DEFINE new == Len(items) + 1
           item == [fd |-> fd, mode |-> info.mode, target |-> info.target]
<1>1. /\ UNCHANGED <<table, steady, kernel, op, cursor, batch, fd, info, outcome, ageVars>>
      /\ phase = "statting" /\ phase' = "listing" /\ info.target \in Nameable
      /\ items' = Append(items, Ok(item))
  BY DEF YieldInfo
<1>2. Making /\ ~Making' /\ fd \in Fds /\ info.mode \in Modes
  BY <1>1 DEF Making, CallOK
<1>3. item \in Info /\ IsOk(Ok(item)) /\ Ok(item) \in ResultOf(Info, {"Io"})
  BY <1>1, <1>2 DEF Info, Modes, Ok, IsOk, ResultOf
<1>4. /\ Len(items) \in Nat /\ Len(items') = new
      /\ \A k \in 1..Len(items) : items'[k] = items[k]
      /\ items'[new] = Ok(item)
      /\ \A k : k \in 1..Len(items') <=> k \in 1..Len(items) \/ k = new
      /\ Yielded' = Yielded \cup {new}
      /\ items' \in Seq(ResultOf(Info, {"Io"}))
  BY <1>1, <1>3, ItemAdded
<1>5. /\ \A k \in Yielded : k < new /\ items'[k] = items[k]
      /\ items'[new].ok = item /\ item.fd = fd
  BY <1>4 DEF Ok, Yielded
<1>6. CallOK'
  BY <1>1, <1>2, <1>4 DEF CallOK, FdTypeOK
<1>7. Fresh' /\ InfoOfFile' /\ FdNoneMissed'
  BY <1>1 DEF Fresh, InfoOfFile, FdNoneMissed, Complete
<1>8. AllOk'
  BY <1>1, <1>3, <1>4 DEF AllOk
<1>9. Order'
  <2>1. \A k \in Yielded' :
          /\ items'[k].ok.fd <= cursor
          /\ \A j \in 1..Len(batch) : items'[k].ok.fd < batch[j]
    BY <1>2, <1>4, <1>5 DEF Order
  <2>2. \A j, k \in Yielded' : j < k => items'[j].ok.fd < items'[k].ok.fd
    <3> SUFFICES ASSUME NEW j \in Yielded', NEW k \in Yielded', j < k
                 PROVE  items'[j].ok.fd < items'[k].ok.fd
      OBVIOUS
    <3>1. j \in Yielded
      BY <1>4, <1>5 DEF Yielded
    <3>2. CASE k \in Yielded
      BY <1>5, <3>1, <3>2 DEF Order
    <3>3. CASE k = new
      BY <1>2, <1>5, <3>1, <3>3 DEF Order
    <3> QED
      BY <1>4, <3>2, <3>3
  <2> QED
    BY <1>1, <1>2, <2>1, <2>2 DEF Order
<1>10. NoneLost'
  <2> SUFFICES ASSUME kernel.pathStat, LinkOpens,
                      NEW n \in steady \ misled, table[n] \in Nameable
               PROVE  Ahead(n)' \/ IsListed(Entry(n))'
    BY <1>1 DEF NoneLost
  <2>1. CASE n = fd
    <3>1. Entry(n) = item
      BY <1>1, <2>1, FdsAreNumbers DEF Entry, InfoOfFile
    <3>2. IsListed(item)'
      BY <1>1, <1>4, <1>5 DEF IsListed
    <3> QED
      BY <1>1, <1>4, <1>5, <3>1 DEF IsListed, Entry
  <2>2. CASE IsListed(Entry(n))
    BY <1>1, <1>4, <1>5, <2>2 DEF IsListed, Entry
  <2>3. CASE n # fd /\ ~IsListed(Entry(n))
    <3>1. Ahead(n)
      BY <1>1, <2>3 DEF NoneLost
    <3> QED
      BY <1>1, <2>3, <3>1 DEF Ahead
  <2> QED
    BY <2>1, <2>2, <2>3
<1> QED
  BY <1>6, <1>7, <1>8, <1>9, <1>10

\* A descriptor is passed over: if the kernel has the metadata and files are not
\* the reason, it was closed, or is not one a listing can express.
LEMMA SkipFdOK ==
  ASSUME FdInv, SkipFd
  PROVE  FdInv'
<1> USE DEF FdInv
<1>1. /\ UNCHANGED <<table, steady, kernel, op, cursor, batch, fd, info, items, outcome, ageVars>>
      /\ InfoFails /\ phase' = "listing"
  BY DEF SkipFd
<1>2. Making /\ ~Making' /\ Yielded' = Yielded /\ phase # "returned"
  BY <1>1 DEF InfoFails, Making, Yielded
<1>3. CallOK' /\ Fresh' /\ AllOk' /\ Order' /\ InfoOfFile' /\ FdNoneMissed'
  BY <1>1, <1>2 DEF CallOK, FdTypeOK, Fresh, AllOk, Order, InfoOfFile, FdNoneMissed, Complete
<1>4. NoneLost'
  <2> SUFFICES ASSUME kernel.pathStat, LinkOpens,
                      NEW n \in steady \ misled, table[n] \in Nameable,
                      ~IsListed(Entry(n))
               PROVE  Ahead(n)'
    BY <1>1, <1>2 DEF NoneLost, IsListed, Entry
  <2>1. Ahead(n)
    BY <1>2 DEF NoneLost
  <2>2. n # fd
    <3> SUFFICES ASSUME n = fd PROVE FALSE
      OBVIOUS
    <3>1. table[fd] # Closed /\ (phase = "linking" => path)
      BY FdsAreNumbers DEF CallOK
    <3>2. phase = "statting" /\ info.target \notin Nameable
      BY <1>1, <3>1 DEF InfoFails, CanOpenLink
    <3> QED
      BY <3>1, <3>2 DEF InfoOfFile
  <2> QED
    BY <1>1, <2>1, <2>2 DEF Ahead
<1> QED
  BY <1>3, <1>4

LEMMA FdNextOK == FdInv /\ [FdNext]_vars => FdInv'
<1> SUFFICES ASSUME FdInv, [FdNext]_vars PROVE FdInv'
  OBVIOUS
<1>1. CASE UNCHANGED vars
  <2>1. UNCHANGED fdVars /\ UNCHANGED <<table, steady>>
    BY <1>1 DEF vars
  <2> QED
    BY <2>1, TableOK DEF FdInv, CallOK, FdTypeOK
<1>2. CASE \E n \in Fds, f \in Files \cup {Closed} : Redirect(n, f)
  BY <1>2, RedirectOK
<1>3. CASE ProcessExits
  BY <1>3, ProcessExitsOK
<1>4. CASE CountFast
  BY <1>4, CountFastOK
<1>5. CASE CountSlow
  BY <1>5, PhaseOK DEF CountSlow
<1>6. CASE BeginList
  BY <1>6, PhaseOK DEF BeginList
<1>7. CASE OpenDir
  BY <1>7, OpenDirOK
<1>8. CASE ReadNames
  BY <1>8, ReadNamesOK
<1>9. CASE NamesEnd
  BY <1>9, NamesEndOK
<1>10. CASE ReadNamesFails
  BY <1>10, ReadNamesFailsOK
<1>11. CASE TakeFd
  BY <1>11, TakeFdOK
<1>12. CASE OpenLink
  BY <1>12, OpenLinkOK
<1>13. CASE ReadLink
  BY <1>13, ReadLinkOK
<1>14. CASE YieldInfo
  BY <1>14, YieldInfoOK
<1>15. CASE SkipFd
  BY <1>15, SkipFdOK
<1>16. CASE \E age \in {"old", "new"} : CacheFills(age)
  BY <1>16, CacheFillsOK
<1>17. CASE LoadVersion
  BY <1>17, LoadVersionOK
<1>18. CASE FetchVersion
  BY <1>18, FetchVersionOK
<1> QED
  BY <1>1, <1>2, <1>3, <1>4, <1>5, <1>6, <1>7, <1>8, <1>9, <1>10, <1>11, <1>12,
     <1>13, <1>14, <1>15, <1>16, <1>17, <1>18
  DEF FdNext, CallStep

\* fds and fd_count keep the invariant, whatever the process does.
THEOREM FdInvariance == FdSpec => []FdInv
BY FdInitOK, FdNextOK, PTL DEF FdSpec

-----------------------------------------------------------------------------
(* What follows from the invariant.                                        *)

\* The stream of fds and the call of fd_count are what the code makes them,
\* and fd_count never exceeds the descriptors by more than one error.
THEOREM FdTypeCorrect == FdSpec => []FdTypeOK
<1>1. FdInv => FdTypeOK
  BY DEF FdInv, CallOK
<1> QED
  BY <1>1, FdInvariance, PTL

\* A complete listing of fds has every descriptor that kept its file from start
\* to end, with that file and its mode, where the kernel has the metadata, unless
\* its link was opened for the age of another root's kernel.
THEOREM FdNoneMissedCorrect == FdSpec => []FdNoneMissed
<1>1. FdInv => FdNoneMissed
  BY DEF FdInv
<1> QED
  BY <1>1, FdInvariance, PTL

\* fds lists no descriptor twice.
THEOREM FdNoneTwiceCorrect == FdSpec => []FdNoneTwice
<1>1. FdInv => FdNoneTwice
  <2> SUFFICES ASSUME FdInv, NEW j \in Yielded, NEW k \in Yielded, j # k
               PROVE  items[j].ok.fd # items[k].ok.fd
    BY DEF FdNoneTwice, Yielded
  <2>1. CallOK /\ Order
    BY DEF FdInv
  <2>2. /\ j \in 1..Len(items) /\ k \in 1..Len(items)
        /\ items[j].ok.fd \in Int /\ items[k].ok.fd \in Int
    BY <2>1, YieldedItem
  <2>3. j < k \/ k < j
    BY <2>2 DEF Yielded
  <2> QED
    BY <2>1, <2>2, <2>3 DEF Order
<1> QED
  BY <1>1, FdInvariance, PTL

-----------------------------------------------------------------------------
(* The refinement: fds is a listing.                                       *)

USE DEF EntriesOf

LEMMA FdRefinesInit == FdInit => Promise!ListingInit
<1> SUFFICES ASSUME FdInit PROVE Promise!ListingInit
  OBVIOUS
<1>1. EntriesOf(Fds) \subseteq Promise!Entries
  BY DEF Promise!Entries
<1>2. phase = "none" /\ Met = {} /\ Told = {} /\ Status = "none"
  BY DEF FdInit, Met, Told, Listed, Status
<1> QED
  BY <1>1, <1>2, Zenon DEF Promise!ListingInit

\* What the listing tells of grows by a descriptor and its file with an FDInfo,
\* and by nothing with an error.
LEMMA ToldGrows ==
  ASSUME CallOK, NEW r, items' = Append(items, r)
  PROVE  /\ IsOk(r) => Told' = Told \cup {<<r.ok.fd, r.ok.target>>}
         /\ ~IsOk(r) => Told' = Told
<1>1. /\ \A k \in Yielded : items'[k] = items[k]
      /\ items'[Len(items) + 1] = r
      /\ IsOk(r) => Yielded' = Yielded \cup {Len(items) + 1}
      /\ ~IsOk(r) => Yielded' = Yielded
  BY ItemAdded DEF Yielded
<1>2. Listed = {items[k].ok : k \in Yielded}
  BY DEF Listed, Yielded
<1>3. Listed' = {items'[k].ok : k \in Yielded'}
  BY DEF Listed, Yielded
<1>4. Listed = {items'[k].ok : k \in Yielded}
  BY <1>1, <1>2
<1>5. ~IsOk(r) => Listed' = Listed
  BY <1>1, <1>3, <1>4
<1>6. IsOk(r) => Listed' = Listed \cup {r.ok}
  <2> SUFFICES ASSUME IsOk(r) PROVE Listed' = Listed \cup {r.ok}
    OBVIOUS
  <2>1. Yielded' = Yielded \cup {Len(items) + 1} /\ items'[Len(items) + 1].ok = r.ok
    BY <1>1
  <2> QED
    BY <1>3, <1>4, <2>1
<1> QED
  BY <1>5, <1>6 DEF Told

\* Descriptors change: the entries that are left of those of the start are
\* those of the descriptors that are still steady.
LEMMA TableChanges ==
  ASSUME FdInv, UNCHANGED fdVars,
         table' \in [Fds -> Files \cup {Closed}], steady' \subseteq steady,
         \A n \in steady' : table'[n] = table[n] \/ table'[n] = Closed,
         \A n \in steady \ steady' : table'[n] # table[n] \/ table'[n] = Closed
  PROVE  Promise!Change
<1>1. EntriesOf(Fds)' \subseteq Promise!Entries
  BY DEF Promise!Entries
<1>2. EntriesOf(steady)' = EntriesOf(steady) \cap EntriesOf(Fds)'
  <2>1. steady \subseteq Fds /\ Closed \notin Nameable
    BY FilesAssumption DEF FdInv, CallOK, FdTypeOK
  <2>2. EntriesOf(Fds)' = {<<n, table'[n]>> : n \in {m \in Fds : table'[m] \in Nameable}}
    OBVIOUS
  <2>3. EntriesOf(steady)' = {<<n, table'[n]>> : n \in {m \in steady' : table'[m] \in Nameable}}
    OBVIOUS
  <2> QED
    BY <2>1, <2>2, <2>3
<1>3. phase' = phase /\ Met' = Met /\ Told' = Told /\ Status' = Status
  BY DEF fdVars, Met, Told, Listed, Status, Complete, LinkOpens
<1> QED
  BY <1>1, <1>2, <1>3, Zenon DEF Promise!Change

\* A step that reads, or looks at, names only: no entry is told of.
LEMMA LooksOn ==
  ASSUME UNCHANGED <<table, steady, items>>,
         phase \notin {"none", "returned"}, phase' \notin {"none", "returned"}
  PROVE  /\ UNCHANGED <<EntriesOf(Fds), EntriesOf(steady), Told>>
         /\ Status = "open" /\ Status' = "open"
BY DEF Told, Listed, Status

\* The link is read: its target is what the descriptor has at that moment.
LEMMA ReadLinkLooks ==
  ASSUME FdInv, ReadLink
  PROVE  Promise!Look
<1>1. /\ UNCHANGED <<table, steady, items, fd>>
      /\ phase = "reading" /\ phase' = "statting"
      /\ info' = [info EXCEPT !.target = table[fd]]
  BY DEF ReadLink
<1>2. CallOK /\ fd \in Fds
  BY <1>1 DEF FdInv, CallOK, Making
<1>3. info'.target = table[fd]
  BY <1>1, <1>2 DEF CallOK
<1>4. Met' = {} \/ (Met' = {<<fd, table[fd]>>} /\ <<fd, table[fd]>> \in EntriesOf(Fds))
  BY <1>1, <1>2, <1>3 DEF Met
<1> QED
  BY <1>1, <1>4, LooksOn, Zenon DEF Promise!Look

\* An FDInfo is made of what has been read, and its descriptor is a new one.
LEMMA YieldInfoTells ==
  ASSUME FdInv, YieldInfo
  PROVE  Promise!Tell
<1> DEFINE item == [fd |-> fd, mode |-> info.mode, target |-> info.target]
           e == <<fd, info.target>>
<1>1. /\ UNCHANGED <<table, steady, fd, info>>
      /\ phase = "statting" /\ phase' = "listing" /\ info.target \in Nameable
      /\ items' = Append(items, Ok(item))
  BY DEF YieldInfo
<1>2. Told' = Told \cup {e}
  <2>1. CallOK /\ IsOk(Ok(item)) /\ Ok(item).ok = item
    BY DEF FdInv, IsOk, Ok
  <2> QED
    BY <1>1, <2>1, ToldGrows
<1>3. e \in Met /\ Met' = {}
  BY <1>1 DEF Met
<1>4. \A x \in Told : x[1] # e[1]
  <2> SUFFICES ASSUME NEW x \in Told PROVE x[1] # fd
    OBVIOUS
  <2>1. PICK k \in Yielded : x = <<items[k].ok.fd, items[k].ok.target>>
    BY DEF Told, Listed, Yielded
  <2>2. Making /\ CallOK /\ Order /\ fd \in Int
    BY <1>1, FdsAreNumbers DEF Making, FdInv, CallOK
  <2>3. items[k].ok.fd < fd /\ items[k].ok.fd \in Int
    BY <2>2, YieldedItem DEF Order
  <2> QED
    BY <2>1, <2>2, <2>3
<1>5. UNCHANGED <<EntriesOf(Fds), EntriesOf(steady)>>
  BY <1>1
<1>6. Status = "open" /\ Status' = "open"
  BY <1>1 DEF Status
<1> HIDE DEF e
<1> QED
  BY <1>1, <1>2, <1>3, <1>4, <1>5, <1>6, Zenon DEF Promise!Tell

\* The call returns while it lists: what it then says it has listed is complete.
LEMMA ReturnEnds ==
  ASSUME FdInv, FdInv', phase \notin {"none", "returned"}, phase' = "returned",
         UNCHANGED <<table, steady, kernel>>, Told' = Told
  PROVE  Promise!Complete \/ Promise!BreakOff
<1>1. UNCHANGED <<EntriesOf(Fds), EntriesOf(steady)>> /\ Status = "open" /\ Met' = {}
  BY DEF Status, Met
<1>2. CASE Status' = "broken"
  BY <1>1, <1>2, Zenon DEF Promise!BreakOff
<1>3. CASE Status' = "complete"
  <2>1. (Complete /\ kernel.pathStat /\ LinkOpens /\ misled = {})'
    BY <1>3 DEF Status
  <2>2. EntriesOf(steady) \subseteq Told
    <3> SUFFICES ASSUME NEW n \in steady, table[n] \in Nameable
                 PROVE  <<n, table[n]>> \in Told
      OBVIOUS
    <3>1. [fd |-> n, mode |-> Mode[table[n]], target |-> table[n]] \in Listed'
      BY <2>1 DEF FdInv, FdNoneMissed, Entry
    <3>2. \A e \in Listed' : <<e.fd, e.target>> \in Told'
      BY DEF Told
    <3>3. <<n, table[n]>> \in Told'
      BY <3>1, <3>2
    <3> QED
      BY <3>3
  <2> QED
    BY <1>1, <1>3, <2>2, Zenon DEF Promise!Complete
<1> QED
  BY <1>2, <1>3 DEF Status

\* The call begins: every descriptor is steady.
LEMMA CallStarts ==
  ASSUME phase = "none", phase' \in {"opening", "returned"},
         UNCHANGED <<table, items>>, steady' = Fds, Met' = Met,
         Status' # "complete"
  PROVE  Promise!Start
<1>1. EntriesOf(Fds)' = EntriesOf(Fds) /\ EntriesOf(steady)' = EntriesOf(Fds)
  OBVIOUS
<1>2. Told' = Told /\ Status = "none" /\ Status' \in {"open", "broken"}
  BY DEF Told, Listed, Status
<1> QED
  BY <1>1, <1>2, Zenon DEF Promise!Start

LEMMA FdRefinesNext ==
  FdInv /\ FdInv' /\ [FdNext]_vars => [Promise!ListingNext]_Promise!listingVars
<1> SUFFICES ASSUME FdInv, FdInv', [FdNext]_vars
             PROVE  Promise!ListingNext \/ UNCHANGED Promise!listingVars
  BY DEF Promise!listingVars
<1>1. ASSUME UNCHANGED <<table, steady, items>>, Met' = Met,
             phase \notin {"none", "returned"}, phase' \notin {"none", "returned"}
      PROVE  UNCHANGED Promise!listingVars
  BY <1>1, LooksOn, Zenon DEF Promise!listingVars
<1>2. CASE UNCHANGED vars
  <2>1. UNCHANGED <<EntriesOf(Fds), EntriesOf(steady), Met, Told, Status, phase>>
    BY <1>2 DEF vars, fdVars, Met, Told, Listed, Status, Complete, LinkOpens
  <2> QED
    BY <2>1, Zenon DEF Promise!listingVars
<1>3. ASSUME NEW n \in Fds, NEW f \in Files \cup {Closed}, Redirect(n, f)
      PROVE  Promise!Change
  <2>1. table \in [Fds -> Files \cup {Closed}] /\ steady \subseteq Fds
    BY DEF FdInv, CallOK, FdTypeOK
  <2>2. /\ table' \in [Fds -> Files \cup {Closed}] /\ steady' = steady \ {n}
        /\ \A m \in Fds \ {n} : table'[m] = table[m]
        /\ table'[n] # table[n] /\ UNCHANGED fdVars
    BY <1>3, <2>1 DEF Redirect
  <2> QED
    BY <2>1, <2>2, TableChanges
<1>4. CASE ProcessExits
  <2>1. /\ table' \in [Fds -> Files \cup {Closed}] /\ steady' \subseteq steady
        /\ \A n \in Fds : table'[n] = Closed
        /\ steady \subseteq Fds /\ UNCHANGED fdVars
    BY <1>4 DEF ProcessExits, FdInv, CallOK, FdTypeOK
  <2> QED
    BY <2>1, TableChanges DEF Promise!ListingNext
<1>5. CASE CountFast
  <2>1. /\ UNCHANGED <<table, items>> /\ steady' = Fds /\ phase = "none" /\ phase' = "returned"
        /\ kernel' = kernel /\ op' = "fd_count"
        /\ kernel.sized \/ IsErr(outcome')
    BY <1>5 DEF CountFast, Return, IsErr, Err
  <2>2. Status' # "complete" /\ Met' = Met
    BY <2>1 DEF Status, Complete, Met
  <2> QED
    BY <2>1, <2>2, CallStarts DEF Promise!ListingNext
<1>6. CASE CountSlow \/ BeginList
  <2>1. /\ UNCHANGED <<table, items>> /\ steady' = Fds /\ phase = "none" /\ phase' = "opening"
    BY <1>6 DEF CountSlow, BeginList
  <2>2. Status' # "complete" /\ Met' = Met
    BY <2>1 DEF Status, Met
  <2> QED
    BY <2>1, <2>2, CallStarts DEF Promise!ListingNext
<1>7. CASE OpenDir
  <2>1. /\ UNCHANGED <<table, steady, kernel, items>> /\ phase = "opening"
        /\ phase' \in {"listing", "returned"}
    BY <1>7 DEF OpenDir, Return
  <2>2. Told' = Told
    BY <2>1 DEF Told, Listed
  <2>3. CASE phase' = "listing"
    BY <1>1, <2>1, <2>3 DEF Met
  <2>4. CASE phase' = "returned"
    BY <2>1, <2>2, <2>4, ReturnEnds DEF Promise!ListingNext
  <2> QED
    BY <2>1, <2>3, <2>4
<1>8. CASE ReadNames
  BY <1>1, <1>8 DEF ReadNames, Met
<1>9. CASE NamesEnd
  <2>1. Told' = Told
    BY <1>9 DEF NamesEnd, Told, Listed
  <2> QED
    BY <1>9, <2>1, ReturnEnds DEF NamesEnd, Return, Promise!ListingNext
<1>10. CASE ReadNamesFails
  <2>1. Told' = Told
    BY <1>10, ToldGrows DEF ReadNamesFails, FdInv, IsOk, Err
  <2> QED
    BY <1>10, <2>1, ReturnEnds DEF ReadNamesFails, Return, Promise!ListingNext
<1>11. CASE TakeFd
  BY <1>1, <1>11 DEF TakeFd, Met
<1>12. CASE OpenLink
  BY <1>1, <1>12 DEF OpenLink, Met
<1>13. CASE ReadLink
  BY <1>13, ReadLinkLooks DEF Promise!ListingNext
<1>14. CASE YieldInfo
  BY <1>14, YieldInfoTells DEF Promise!ListingNext
<1>15. CASE SkipFd
  <2>1. /\ UNCHANGED <<table, steady, items>>
        /\ phase \notin {"none", "returned"} /\ phase' = "listing"
    BY <1>15 DEF SkipFd, InfoFails
  <2>2. Met' = {}
    BY <2>1 DEF Met
  <2>3. Promise!Look
    BY <2>1, <2>2, LooksOn, Zenon DEF Promise!Look
  <2> QED
    BY <2>3 DEF Promise!ListingNext
<1>16. ASSUME NEW age, CacheFills(age)
       PROVE  UNCHANGED Promise!listingVars
  <2>1. UNCHANGED <<EntriesOf(Fds), EntriesOf(steady), Met, Told, Status, phase>>
    BY <1>16 DEF CacheFills, Met, Told, Listed, Status, Complete, LinkOpens
  <2> QED
    BY <2>1, Zenon DEF Promise!listingVars
<1>17. CASE LoadVersion \/ FetchVersion
  BY <1>1, <1>17 DEF LoadVersion, FetchVersion, Met
<1> QED
  BY <1>2, <1>3, <1>4, <1>5, <1>6, <1>7, <1>8, <1>9, <1>10, <1>11, <1>12, <1>13, <1>14,
     <1>15, <1>16, <1>17
  DEF FdNext, CallStep, Promise!ListingNext

\* fds, and fd_count where it counts items, implement the abstract listing: each
\* step of the call tells of one entry, looks at one, ends it, or is invisible.
THEOREM FdRefinement == FdSpec => ImplementsListing
<1> QED
  BY FdRefinesInit, FdRefinesNext, FdInvariance, PTL
  DEF FdSpec, ImplementsListing, Promise!ListingSpec
=============================================================================

---------------------------- MODULE TasksProofs ----------------------------
(***************************************************************************)
(* Proofs about Tasks, for any tids, any number of threads and any size of *)
(* a batch: a Task is of a thread of its process and stays with it, and a  *)
(* listing misses no thread and, unless a tid is used again, yields none   *)
(* twice.                                                                  *)
(***************************************************************************)
EXTENDS Tasks, SequenceProofs, FiniteSetTheorems

USE DEF Leader, Stranger

\* Threads are born one after the other, and the first has the pid.
Births ==
  /\ tid \in Seq(Tids)
  /\ Len(tid) >= 1
  /\ tid[Leader] = Pid
  /\ live \subseteq 1..Len(tid)

\* While the process has a thread its main thread is there.
LeaderLast == live # {} => Leader \in live

\* No other thread has ever had the pid for a tid.
PidOnce == \A t \in 1..Len(tid) : tid[t] = Pid => t = Leader

Errors == {"NotFound", "Io"}
ItemsShape == items \in Seq(ResultOf([tid : Tids, thread : Nat], Errors))

\* The thread of a Task has been born, under the Task's tid.
ItemsBorn ==
  \A k \in Yielded :
    /\ items[k].ok.thread \in 1..Len(tid)
    /\ tid[items[k].ok.thread] = items[k].ok.tid

\* A reader that is under way has not been answered.
CallShape ==
  \/ call = NoCall
  \/ call \in [op : Readers, step : {"opening", "reading"}] /\ answer = Pending

TasksInv == Births /\ LeaderLast /\ PidOnce /\ ItemsShape /\ ItemsBorn /\ CallShape

-----------------------------------------------------------------------------
\* A list of items that grows by one keeps what holds of its items, if it
\* holds of the new one.
LEMMA AppendItem ==
  ASSUME ItemsShape, ItemsBorn, NEW r \in ResultOf([tid : Tids, thread : Nat], Errors),
         items' = Append(items, r), tid' = tid,
         IsOk(r) => r.ok.thread \in 1..Len(tid) /\ tid[r.ok.thread] = r.ok.tid
  PROVE  ItemsShape' /\ ItemsBorn'
<1> DEFINE R == ResultOf([tid : Tids, thread : Nat], Errors)
<1>1. items \in Seq(R) /\ items' \in Seq(R) /\ Len(items') = Len(items) + 1
  BY DEF ItemsShape
<1>2. \A k \in 1..Len(items) : items'[k] = items[k]
  BY <1>1
<1>3. items'[Len(items')] = r
  BY <1>1
<1>4. ASSUME NEW k \in Yielded'
      PROVE  /\ items'[k].ok.thread \in 1..Len(tid)
             /\ tid[items'[k].ok.thread] = items'[k].ok.tid
  <2>1. k \in 1..Len(items') /\ IsOk(items'[k])
    BY <1>4 DEF Yielded
  <2>2. CASE k \in 1..Len(items)
    BY <2>1, <2>2, <1>2 DEF ItemsBorn, Yielded
  <2>3. CASE k = Len(items')
    BY <2>1, <2>3, <1>3
  <2> QED
    BY <2>1, <2>2, <2>3, <1>1
<1> QED
  BY <1>1, <1>4 DEF ItemsShape, ItemsBorn

\* The consumer's own steps change no thread and no call.
LEMMA IdleStep ==
  ASSUME TasksInv, Idle
  PROVE  Births' /\ LeaderLast' /\ PidOnce' /\ CallShape'
BY DEF TasksInv, Idle, threadVars, Births, LeaderLast, PidOnce, CallShape

\* Steps that leave the items alone.
LEMMA ItemsKept ==
  ASSUME TasksInv, items' = items, tid' = tid
  PROVE  ItemsShape' /\ ItemsBorn'
BY DEF TasksInv, ItemsShape, ItemsBorn, Yielded

LEMMA CloneStep ==
  ASSUME TasksInv, NEW n \in Tids, Clone(n)
  PROVE  TasksInv'
<1> USE DEF TasksInv
<1>1. /\ tid' = Append(tid, n) /\ live' = live \cup {Len(tid) + 1}
      /\ items' = items /\ call' = call /\ answer' = answer
      /\ Leader \in live /\ Holder(n) = {}
  BY DEF Clone, listVars, callVars, LeaderLast
<1>2. /\ tid' \in Seq(Tids) /\ Len(tid') = Len(tid) + 1 /\ tid'[Len(tid')] = n
      /\ \A t \in 1..Len(tid) : tid'[t] = tid[t]
  BY <1>1 DEF Births
<1>3. n # Pid
  BY <1>1 DEF Births, Holder
<1>4. Births'
  <2>1. tid'[Leader] = Pid /\ Len(tid') >= 1
    BY <1>2 DEF Births
  <2>2. Len(tid) \in Nat /\ live \subseteq 1..Len(tid)
    BY DEF Births
  <2>3. \A t \in live' : t \in 1..Len(tid')
    BY <1>1, <1>2, <2>2
  <2> QED
    BY <1>2, <2>1, <2>3 DEF Births
<1>5. LeaderLast'
  BY <1>1 DEF LeaderLast
<1>6. PidOnce'
  BY <1>2, <1>3 DEF PidOnce, Births
<1>7. ItemsShape' /\ ItemsBorn'
  BY <1>1, <1>2 DEF ItemsShape, ItemsBorn, Yielded, Births
<1>8. CallShape'
  BY <1>1 DEF CallShape
<1> QED
  BY <1>4, <1>5, <1>6, <1>7, <1>8

\* A thread ends: by itself, or while the directory is read.
LEMMA EndStep ==
  ASSUME TasksInv, NEW t, CanEnd(t), live' = live \ {t}, tid' = tid
  PROVE  Births' /\ LeaderLast' /\ PidOnce'
BY DEF TasksInv, CanEnd, Births, LeaderLast, PidOnce

LEMMA OpenTaskStep ==
  ASSUME TasksInv, OpenTask
  PROVE  TasksInv'
<1>1. PICK t \in Holder(Head(batch)) :
        items' = Append(items, Ok([tid |-> Head(batch), thread |-> t]))
  BY DEF OpenTask
<1>2. t \in 1..Len(tid) /\ t \in Nat /\ tid[t] = Head(batch) /\ Head(batch) \in Tids
  BY <1>1 DEF Holder, TasksInv, Births
<1> DEFINE r == Ok([tid |-> Head(batch), thread |-> t])
<1>3. r \in ResultOf([tid : Tids, thread : Nat], Errors)
  BY <1>2 DEF Ok, ResultOf
<1>4. r.ok.thread = t /\ r.ok.tid = Head(batch)
  BY DEF Ok
<1>5. Idle /\ tid' = tid
  BY DEF OpenTask, Idle, threadVars
<1>6. ItemsShape' /\ ItemsBorn'
  BY <1>1, <1>2, <1>3, <1>4, <1>5, AppendItem DEF TasksInv
<1> QED
  BY <1>5, <1>6, IdleStep DEF TasksInv

\* An error is an item that no property is about.
LEMMA ErrorItem ==
  ASSUME TasksInv, Idle, NEW e \in Errors, items' = Append(items, Err(e))
  PROVE  TasksInv'
<1>1. Err(e) \in ResultOf([tid : Tids, thread : Nat], Errors) /\ ~IsOk(Err(e))
  BY DEF Err, ResultOf, IsOk
<1>2. tid' = tid
  BY DEF Idle, threadVars
<1> QED
  BY <1>1, <1>2, AppendItem, IdleStep DEF TasksInv

LEMMA TasksInitOK == TasksInit => TasksInv
<1> SUFFICES ASSUME TasksInit PROVE TasksInv
  OBVIOUS
<1>1. tid = <<Pid>> /\ live = {Leader} /\ items = <<>> /\ call = NoCall
  BY DEF TasksInit
<1>2. Births /\ LeaderLast /\ PidOnce
  BY <1>1, TidsAssumption DEF Births, LeaderLast, PidOnce
<1>3. ItemsShape /\ ItemsBorn
  BY <1>1 DEF ItemsShape, ItemsBorn, Yielded
<1> QED
  BY <1>1, <1>2, <1>3 DEF TasksInv, CallShape

\* The steps of the listing, but for those that add an item.
LEMMA QuietStep ==
  ASSUME TasksInv, Idle, items' = items
  PROVE  TasksInv'
<1>1. tid' = tid
  BY DEF Idle, threadVars
<1> QED
  BY <1>1, ItemsKept, IdleStep DEF TasksInv

LEMMA ListStepOK ==
  ASSUME TasksInv, ListStep
  PROVE  TasksInv'
<1>1. CASE OpenDir
  <2>1. Idle
    BY <1>1 DEF OpenDir
  <2>2. CASE items' = items
    BY <2>1, <2>2, QuietStep
  <2>3. ASSUME NEW e \in Errors, items' = <<Err(e)>>
        PROVE  TasksInv'
    <3>1. Err(e) \in ResultOf([tid : Tids, thread : Nat], Errors) /\ ~IsOk(Err(e))
      BY DEF Err, ResultOf, IsOk
    <3>2. ItemsShape' /\ ItemsBorn'
      BY <2>3, <3>1 DEF ItemsShape, ItemsBorn, Yielded
    <3> QED
      BY <2>1, <3>2, IdleStep DEF TasksInv
  <2>4. items' = items \/ \E e \in Errors : items' = <<Err(e)>>
    BY <1>1 DEF OpenDir, Errors
  <2> QED
    BY <2>2, <2>3, <2>4
<1>2. CASE ReadTids
  <2>1. /\ items' = items /\ tid' = tid /\ call' = call
        /\ call = NoCall
    BY <1>2 DEF ReadTids
  <2>2. CASE live' = live
    BY <2>1, <2>2 DEF TasksInv, Births, LeaderLast, PidOnce, ItemsShape, ItemsBorn, Yielded, CallShape
  <2>3. ASSUME NEW t, CanEnd(t), live' = live \ {t}
        PROVE  TasksInv'
    BY <2>1, <2>3, EndStep, ItemsKept DEF TasksInv, CallShape
  <2>4. live' = live \/ \E t \in live : CanEnd(t) /\ live' = live \ {t}
    BY <1>2 DEF ReadTids, CanEnd
  <2> QED
    BY <2>2, <2>3, <2>4
<1>3. CASE TidsEnd \/ SkipName \/ SkipTask
  <2>1. Idle /\ items' = items
    BY <1>3 DEF TidsEnd, SkipName, SkipTask
  <2> QED
    BY <2>1, QuietStep
<1>4. CASE ReadTidsFails
  <2>1. Idle /\ \E e \in Errors : items' = Append(items, Err(e))
    BY <1>4 DEF ReadTidsFails, Errors
  <2> QED
    BY <2>1, ErrorItem
<1>5. CASE OpenTask
  BY <1>5, OpenTaskStep
<1>6. CASE LookupFails
  <2>1. Idle /\ \E e \in Errors : items' = Append(items, Err(e))
    BY <1>6 DEF LookupFails, OpenErrors, Errors
  <2> QED
    BY <2>1, ErrorItem
<1> QED
  BY <1>1, <1>2, <1>3, <1>4, <1>5, <1>6 DEF ListStep

\* Starting, carrying out and giving up a reader.
LEMMA CallStepOK ==
  ASSUME TasksInv, (\E o \in Readers : Call(o)) \/ ReadStep \/ Cancel
  PROVE  TasksInv'
<1>1. UNCHANGED <<threadVars, listVars>>
  BY DEF Call, ReadStep, OpenFile, ReadFile, ReadAfterEnd, Cancel
<1>2. Births' /\ LeaderLast' /\ PidOnce'
  BY <1>1 DEF TasksInv, threadVars, Births, LeaderLast, PidOnce
<1>3. ItemsShape' /\ ItemsBorn'
  BY <1>1, ItemsKept DEF threadVars, listVars
<1>4. CallShape'
  <2>1. CASE \E o \in Readers : Call(o)
    BY <2>1 DEF Call, CallShape
  <2>2. CASE OpenFile
    <3>1. CASE call' = NoCall
      BY <3>1 DEF CallShape
    <3>2. CASE call' = [call EXCEPT !.step = "reading"] /\ answer' = answer
      <4>1. call # NoCall
        BY <2>2 DEF OpenFile, NoCall
      <4>2. call \in [op : Readers, step : {"opening", "reading"}] /\ answer = Pending
        BY <4>1 DEF TasksInv, CallShape
      <4> QED
        BY <3>2, <4>2 DEF CallShape
    <3> QED
      BY <2>2, <3>1, <3>2 DEF OpenFile, Finish
  <2>3. CASE ReadFile \/ ReadAfterEnd \/ Cancel
    BY <2>3 DEF ReadFile, ReadAfterEnd, Cancel, Finish, CallShape
  <2> QED
    BY <2>1, <2>2, <2>3 DEF ReadStep
<1> QED
  BY <1>2, <1>3, <1>4 DEF TasksInv

LEMMA TasksNextOK ==
  ASSUME TasksInv, [TasksNext]_vars
  PROVE  TasksInv'
<1>1. CASE UNCHANGED vars
  BY <1>1 DEF vars, threadVars, listVars, callVars, TasksInv, Births, LeaderLast, PidOnce,
              ItemsShape, ItemsBorn, Yielded, CallShape
<1>2. ASSUME NEW n \in Tids, Clone(n) PROVE TasksInv'
  BY <1>2, CloneStep
<1>3. ASSUME NEW t \in live, End(t) PROVE TasksInv'
  <2>1. /\ CanEnd(t) /\ live' = live \ {t} /\ tid' = tid
        /\ items' = items /\ call' = call /\ answer' = answer
    BY <1>3 DEF End, listVars, callVars
  <2>2. CallShape'
    BY <2>1 DEF TasksInv, CallShape
  <2> QED
    BY <2>1, <2>2, EndStep, ItemsKept DEF TasksInv
<1>4. CASE Tasks \/ DropStream \/ \E n \in Tids : TaskFromTid(n)
  <2>1. Idle /\ items' = items
    BY <1>4 DEF Tasks, DropStream, TaskFromTid
  <2> QED
    BY <2>1, QuietStep
<1> QED
  BY <1>1, <1>2, <1>3, <1>4, ListStepOK, CallStepOK DEF TasksNext

\* The inductive invariant of the handles and the calls holds throughout.
THEOREM TasksInvCorrect == TasksSpec => []TasksInv
BY TasksInitOK, TasksNextOK, PTL DEF TasksSpec

\* Every Task is of a thread of the process it was asked from, of the one that
\* had its tid when it was opened, and with the pid for a tid it is the main
\* thread (Task::from_process_at, task_main_thread).
THEOREM TasksOfProcessCorrect == TasksSpec => []TasksOfProcess
<1>1. TasksInv => TasksOfProcess
  BY DEF TasksInv, PidOnce, ItemsBorn, TasksOfProcess
<1> QED
  BY <1>1, TasksInvCorrect, PTL

\* A reader of a Task answers for the Task's own thread and no other, with a
\* list of no children at most where it has ended, and NotFound only then
\* (Task::read_with_cursor, children).
THEOREM TaskReadsCorrect == TasksSpec => TaskReadsOwn
<1> DEFINE A(o) ==
      call.op = o /\ answer' # Pending /\ call.step # "none" =>
        \/ answer' = Ok([thread |-> Subject.thread]) /\ Subject.thread \in live
        \/ answer' = Err("NotFound") /\ Subject.thread \notin live
        \/ answer' = Err("Io") /\ call.step = "opening"
        \/ answer' = Ok(NoChildren) /\ o = "children"
<1>1. ASSUME TasksInv, [TasksNext]_vars, NEW o \in Readers
      PROVE  A(o)
  <2> SUFFICES ASSUME call.op = o, answer' # Pending, call.step # "none"
               PROVE  A(o)
    OBVIOUS
  <2>1. call # NoCall /\ answer = Pending
    BY <1>1 DEF TasksInv, CallShape, NoCall
  <2>2. ~Idle /\ answer' # answer
    BY <2>1 DEF Idle
  <2>3. OpenFile \/ ReadFile \/ ReadAfterEnd
    <3>1. ~(\E n \in Tids : Clone(n)) /\ ~(\E t \in live : End(t)) /\ ~UNCHANGED vars
      BY <2>2 DEF Clone, End, vars, callVars
    <3>2. ~Tasks /\ ~DropStream /\ ~(\E n \in Tids : TaskFromTid(n)) /\ ~ListStep
      BY <2>1, <2>2 DEF Tasks, DropStream, TaskFromTid, ListStep, OpenDir, ReadTids, TidsEnd,
                        ReadTidsFails, SkipName, OpenTask, SkipTask, LookupFails
    <3>3. ~(\E r \in Readers : Call(r)) /\ ~Cancel
      BY DEF Call, Cancel, Finish
    <3> QED
      BY <1>1, <3>1, <3>2, <3>3 DEF TasksNext, ReadStep
  <2>4. CASE OpenFile
    BY <2>2, <2>4 DEF OpenFile, Finish
  <2>5. CASE ReadFile
    BY <2>5 DEF ReadFile, Finish
  <2>6. CASE ReadAfterEnd
    <3>1. answer' = AfterEnd(o) /\ Subject.thread \notin live
      BY <2>6 DEF ReadAfterEnd, Finish
    <3> QED
      BY <3>1 DEF AfterEnd, Readers
  <2> QED
    BY <2>3, <2>4, <2>5, <2>6
<1>2. TasksInv /\ [TasksNext]_vars => [\A o \in Readers : A(o)]_vars
  BY <1>1
<1> QED
  BY <1>2, TasksInvCorrect, PTL DEF TasksSpec, TaskReadsOwn
-----------------------------------------------------------------------------
(***************************************************************************)
(* The listing.  TasksInv is about each Task; ListInv is about which       *)
(* threads a listing names, and takes TasksInv for granted.                *)
(***************************************************************************)
\* TasksTypeOK, without what TasksInv says already.
ListTypeOK ==
  /\ Len(tid) <= MaxThreads
  /\ phase \in {"none", "opening", "listing", "looking", "done", "ended"}
  /\ resume \in Tids \cup {NoTid}
  /\ pos \in Nat
  /\ batch \in Seq(Tids \cup {Dot})
  /\ present \subseteq 1..Len(tid) /\ named \subseteq 1..Len(tid)

\* No two live threads have the same tid, and the tid to go on at is one that
\* a thread has had.
TidsOK ==
  /\ \A t, u \in live : tid[t] = tid[u] => t = u
  /\ resume # NoTid => \E t \in 1..Len(tid) : tid[t] = resume

\* Nothing has been listed yet.
Fresh ==
  phase \in {"none", "opening", "looking"} =>
    /\ items = <<>> /\ pos = 0 /\ resume = NoTid /\ named = {}
    /\ batch = <<>> \/ (phase = "looking" /\ Len(batch) = 1)

\* A thread that is named and still live has been yielded or will be opened.
NamedMet ==
  phase = "listing" /\ ~starved =>
    \A t \in named \cap live :
      t \in YieldedThreads \/ \E j \in 1..Len(batch) : batch[j] = tid[t]

\* If no thread of those at the start has ended, the directory goes on at the
\* first of them that it has not named.
PresentMet ==
  phase = "listing" =>
    /\ \A t \in live \ present : \A p \in present : p < t
    /\ present \subseteq live =>
         \/ present \subseteq named
         \/ pos = 0
         \/ pos > 0 /\ \E p \in present : /\ resume = tid[p]
                                          /\ \A q \in present : q < p => q \in named

\* The live threads that a listing must not name any more.
Passed == {u \in live : \E m \in named : u <= m}

\* As long as no tid was used again: both ways to go on in the directory lead
\* past all threads that were named, ...
GoesOn ==
  /\ Cardinality(Passed) <= pos
  /\ \A h \in Holder(resume) :
       /\ \A m \in named : m < h
       /\ \A u \in live : u < h => u \in Passed

\* ... and what is read, looked at and yielded are different threads.
Once ==
  /\ phase = "listing" => YieldedThreads \subseteq named
  /\ phase = "listing" =>
       \A j \in 1..Len(batch) : batch[j] # Dot => \E m \in named : tid[m] = batch[j]
  /\ phase \in {"listing", "looking"} =>
       /\ \A j, k \in 1..Len(batch) : j # k => batch[j] # batch[k]
       /\ \A j \in 1..Len(batch) : \A k \in Yielded : batch[j] # items[k].ok.tid

ListInv ==
  /\ ListTypeOK
  /\ TidsOK
  /\ Fresh
  /\ NamedMet
  /\ PresentMet
  /\ TasksNoneMissed
  /\ ~Reused => (phase = "listing" => GoesOn) /\ Once
  /\ TasksNoneTwice

-----------------------------------------------------------------------------
(* Threads and their ranks in the directory.                               *)

LEMMA LiveFinite ==
  ASSUME Births
  PROVE  /\ Len(tid) \in Nat /\ \A t \in 1..Len(tid) : t \in Int /\ tid[t] \in Tids
         /\ live \in SUBSET Int /\ live \subseteq 1..Len(tid)
         /\ \A S \in SUBSET live : IsFiniteSet(S) /\ Cardinality(S) \in Nat
<1>1. Len(tid) \in Nat /\ \A t \in 1..Len(tid) : t \in Int /\ tid[t] \in Tids
  BY DEF Births
<1>2. live \in SUBSET Int /\ live \subseteq 1..Len(tid)
  BY DEF Births
<1>3. 1 \in Int /\ Len(tid) \in Int
  BY <1>1
<1>4. IsFiniteSet(1..Len(tid))
  BY <1>3, FS_Interval
<1>5. \A S \in SUBSET live : IsFiniteSet(S)
  BY <1>2, <1>4, FS_Subset
<1> QED
  BY <1>1, <1>2, <1>5, FS_CardinalityType

\* NoTid is no thread's tid, and Dot is none.
LEMMA NoTidIsNone ==
  /\ \A n \in Tids : n # NoTid /\ n # Dot
  /\ Births => Holder(NoTid) = {}
<1>1. \A n \in Tids : n # NoTid /\ n # Dot
  BY TidsAssumption DEF NoTid, Dot
<1> QED
  BY <1>1, LiveFinite DEF Holder

LEMMA RankFacts ==
  ASSUME Births
  PROVE  /\ \A u \in live : Rank(u) \in Nat
         /\ \A u, v \in live : u < v => Rank(u) < Rank(v)
<1>1. \A u \in live : Rank(u) \in Nat
  BY LiveFinite DEF Rank
<1>2. ASSUME NEW u \in live, NEW v \in live, u < v
      PROVE  Rank(u) < Rank(v)
  <2> DEFINE U == {w \in live : w < u}
             V == {w \in live : w < v}
  <2>1. u \notin U /\ U \in SUBSET live /\ V \in SUBSET live
    BY LiveFinite
  <2>2. U \cup {u} \in SUBSET V
    BY <1>2, LiveFinite
  <2>3. Cardinality(U \cup {u}) = Cardinality(U) + 1
    BY <2>1, LiveFinite, FS_AddElement
  <2>4. Cardinality(U \cup {u}) <= Cardinality(V)
    BY <2>1, <2>2, LiveFinite, FS_Subset
  <2>5. Cardinality(U) \in Nat /\ Cardinality(V) \in Nat
    BY <2>1, LiveFinite
  <2> QED
    BY <2>3, <2>4, <2>5 DEF Rank
<1> QED
  BY <1>1, <1>2

\* There are no more threads of a rank below n than n.
LEMMA LowRanks ==
  ASSUME Births, NEW n \in Nat
  PROVE  Cardinality({u \in live : Rank(u) < n}) <= n
<1> DEFINE Low == {u \in live : Rank(u) < n}
           rank == [u \in Low |-> Rank(u)]
<1>1. \A u \in Low : Rank(u) \in 0..(n - 1)
  BY RankFacts
<1>2. ASSUME NEW u \in Low, NEW v \in Low, u # v
      PROVE  Rank(u) # Rank(v)
  <2>1. u < v \/ v < u
    BY <1>2, LiveFinite
  <2> QED
    BY <2>1, RankFacts
<1>3. rank \in Injection(Low, 0..(n - 1))
  BY <1>1, <1>2 DEF Injection, IsInjective
<1>4. IsFiniteSet(0..(n - 1)) /\ Cardinality(0..(n - 1)) = n
  <2>1. 0 \in Int /\ n - 1 \in Int
    OBVIOUS
  <2>2. /\ IsFiniteSet(0..(n - 1))
        /\ Cardinality(0..(n - 1)) = IF 0 > n - 1 THEN 0 ELSE n - 1 - 0 + 1
    BY <2>1, FS_Interval
  <2> QED
    BY <2>2
<1> QED
  BY <1>3, <1>4, FS_Injection

\* A read names the threads from one on: those of Rest, and all after them.
LEMMA RestFacts ==
  ASSUME Births, pos \in Nat
  PROVE  /\ Rest \in SUBSET live /\ Rest \in SUBSET Int
         /\ \A r \in Rest, u \in live : u >= r => u \in Rest
<1>1. Rest \in SUBSET live /\ Rest \in SUBSET Int
  BY LiveFinite DEF Rest
<1>2. ASSUME NEW r \in Rest, NEW u \in live, u >= r
      PROVE  u \in Rest
  <2>1. r \in live /\ r \in Int /\ u \in Int
    BY <1>1, LiveFinite
  <2>2. CASE pos > 0 /\ Holder(resume) # {}
    <3>1. PICK h \in Holder(resume) : r >= h
      BY <2>2 DEF Rest
    <3>2. h \in Int
      BY LiveFinite DEF Holder
    <3> QED
      BY <1>2, <2>1, <2>2, <3>1, <3>2 DEF Rest
  <2>3. CASE ~(pos > 0 /\ Holder(resume) # {})
    <3>1. Rank(r) >= pos
      BY <2>3 DEF Rest
    <3>2. u = r \/ Rank(r) < Rank(u)
      BY <1>2, <2>1, RankFacts
    <3>3. Rank(u) \in Nat /\ Rank(r) \in Nat
      BY <2>1, RankFacts
    <3>4. Rank(u) >= pos
      BY <3>1, <3>2, <3>3
    <3> QED
      BY <2>3, <3>4 DEF Rest
  <2> QED
    BY <2>2, <2>3
<1> QED
  BY <1>1, <1>2

\* As long as no tid was used again, a read names only threads after those that
\* were named; and no more live threads than were named are passed.
LEMMA RestIsNew ==
  ASSUME Births, ListTypeOK, GoesOn
  PROVE  /\ \A r \in Rest, m \in named : m < r
         /\ Cardinality(live \ Rest) <= pos
<1>1. /\ Passed \in SUBSET live /\ IsFiniteSet(Passed) /\ Cardinality(Passed) \in Nat
      /\ Cardinality(Passed) <= pos /\ pos \in Nat
      /\ \A m \in named : m \in Int
      /\ \A r \in live : r \in Int /\ Rank(r) \in Nat
  BY LiveFinite, RankFacts DEF Passed, GoesOn, ListTypeOK
<1>2. CASE pos > 0 /\ Holder(resume) # {}
  <2>1. Rest = {t \in live : \E h \in Holder(resume) : t >= h}
    BY <1>2 DEF Rest
  <2>2. ASSUME NEW r \in Rest, NEW m \in named PROVE m < r
    <3>1. PICK h \in Holder(resume) : r >= h
      BY <2>1
    <3>2. m < h /\ h \in Int /\ r \in Int /\ m \in Int
      BY <1>1, <2>1 DEF GoesOn, Holder
    <3> QED
      BY <3>1, <3>2
  <2>3. live \ Rest \in SUBSET Passed
    <3>1. PICK h : h \in Holder(resume)
      BY <1>2
    <3>2. \A u \in live \ Rest : u < h
      BY <1>1, <2>1, <3>1 DEF Holder
    <3> QED
      BY <3>1, <3>2 DEF GoesOn
  <2>4. Cardinality(live \ Rest) <= Cardinality(Passed) /\ Cardinality(live \ Rest) \in Nat
    BY <1>1, <2>3, FS_Subset, LiveFinite
  <2> QED
    BY <1>1, <2>2, <2>4
<1>3. CASE ~(pos > 0 /\ Holder(resume) # {})
  <2>1. Rest = {t \in live : Rank(t) >= pos}
    BY <1>3 DEF Rest
  <2>2. ASSUME NEW r \in Rest, NEW m \in named, r <= m PROVE FALSE
    <3>1. r \in Passed /\ r \in live /\ r \in Int
      BY <1>1, <2>1, <2>2 DEF Passed
    <3> DEFINE R == {w \in live : w < r}
    <3>2. R \cup {r} \in SUBSET Passed
      <4>1. \A w \in R : w \in live /\ w \in Int /\ w <= m
        BY <1>1, <2>2, <3>1
      <4> QED
        BY <3>1, <4>1 DEF Passed
    <3>3. r \notin R /\ R \in SUBSET live
      BY <3>1
    <3>4. Cardinality(R \cup {r}) = Cardinality(R) + 1 /\ Cardinality(R) \in Nat
      BY <3>3, LiveFinite, FS_AddElement
    <3>5. Cardinality(R \cup {r}) <= Cardinality(Passed)
      BY <1>1, <3>2, FS_Subset
    <3>6. Rank(r) = Cardinality(R)
      BY DEF Rank
    <3>7. Rank(r) >= pos
      BY <2>1
    <3> QED
      BY <1>1, <3>4, <3>5, <3>6, <3>7
  <2>3. \A r \in Rest, m \in named : m < r
    BY <1>1, <2>1, <2>2
  <2>4. live \ Rest = {u \in live : Rank(u) < pos}
    BY <1>1, <2>1
  <2> QED
    BY <1>1, <2>3, <2>4, LowRanks
<1> QED
  BY <1>2, <1>3

\* A batch has no more threads than names.
LEMMA BatchSize ==
  ASSUME NEW S, NEW b \in Seq(S)
  PROVE  IsFiniteSet(ToSet(b)) /\ Cardinality(ToSet(b)) <= Len(b)
         /\ ToSet(b) = {b[k] : k \in 1..Len(b)} /\ ToSet(b) \subseteq S
         /\ Cardinality(ToSet(b)) \in Nat
<1>1. Len(b) \in Nat /\ ToSet(b) = {b[k] : k \in 1..Len(b)} /\ ToSet(b) \subseteq S
  BY DEF ToSet
<1>2. 1 \in Int /\ Len(b) \in Int
  BY <1>1
<1>3. /\ IsFiniteSet(1..Len(b))
      /\ Cardinality(1..Len(b)) = IF 1 > Len(b) THEN 0 ELSE Len(b) - 1 + 1
  BY <1>2, FS_Interval
<1>4. b \in Surjection(1..Len(b), ToSet(b))
  BY <1>1 DEF Surjection
<1>5. IsFiniteSet(ToSet(b)) /\ Cardinality(ToSet(b)) <= Cardinality(1..Len(b))
  BY <1>3, <1>4, FS_Surjection
<1>6. Cardinality(ToSet(b)) \in Nat
  BY <1>5, FS_CardinalityType
<1> QED
  BY <1>1, <1>3, <1>5, <1>6

-----------------------------------------------------------------------------
(* The items.                                                              *)

LEMMA ListItemAdded ==
  ASSUME TasksInv, NEW r, items' = Append(items, r)
  PROVE  /\ Len(items) \in Nat /\ Len(items') = Len(items) + 1
         /\ \A k \in 1..Len(items) : items'[k] = items[k]
         /\ items'[Len(items) + 1] = r
         /\ \A k \in Yielded : k \in 1..Len(items) /\ items'[k] = items[k]
         /\ IsOk(r) => Yielded' = Yielded \cup {Len(items) + 1}
         /\ ~IsOk(r) => Yielded' = Yielded
<1>1. items \in Seq(ResultOf([tid : Tids, thread : Nat], Errors))
  BY DEF TasksInv, ItemsShape
<1>2. /\ Len(items) \in Nat /\ Len(items') = Len(items) + 1
      /\ \A k \in 1..Len(items) : items'[k] = items[k]
      /\ items'[Len(items) + 1] = r
      /\ \A k : k \in 1..Len(items') <=> k \in 1..Len(items) \/ k = Len(items) + 1
  BY <1>1, AppendFacts
<1> QED
  BY <1>2 DEF Yielded

LEMMA NoItems ==
  ASSUME items = <<>>
  PROVE  Len(items) = 0 /\ Yielded = {} /\ YieldedThreads = {}
BY DEF Yielded, YieldedThreads

\* What a step that leaves the items alone leaves of what was yielded.
LEMMA SameItems ==
  ASSUME UNCHANGED items
  PROVE  Yielded' = Yielded /\ YieldedThreads' = YieldedThreads
BY DEF Yielded, YieldedThreads

\* As long as no tid was used again, the tid tells the thread; and what was
\* used again stays so.
LEMMA ReusedKept ==
  ASSUME UNCHANGED tid
  PROVE  /\ Reused' <=> Reused
         /\ ~Reused => \A t, u \in 1..Len(tid) : tid[t] = tid[u] => t = u
BY DEF Reused

-----------------------------------------------------------------------------
(* ListInv, step by step.                                                  *)

LEMMA ListInitOK == TasksInit => ListInv
<1> SUFFICES ASSUME TasksInit PROVE ListInv
  OBVIOUS
<1> USE DEF TasksInit
<1>1. ListTypeOK
  BY TaskBoundsAssumption DEF ListTypeOK
<1>2. TidsOK
  BY DEF TidsOK
<1>3. Fresh /\ NamedMet /\ PresentMet /\ TasksNoneMissed /\ Once /\ TasksNoneTwice
  BY NoItems DEF Fresh, NamedMet, PresentMet, TasksNoneMissed, Once, TasksNoneTwice
<1> QED
  BY <1>1, <1>2, <1>3 DEF ListInv

\* A thread is born: it is none of those that were named, and the directory
\* does not go on at it unless its tid was used again.
LEMMA CloneListOK ==
  ASSUME TasksInv, ListInv, NEW n \in Tids, Clone(n)
  PROVE  ListInv'
<1> USE DEF TasksInv, ListInv
<1> DEFINE new == Len(tid) + 1
<1>1. /\ tid' = Append(tid, n) /\ live' = live \cup {new} /\ Len(tid) < MaxThreads
      /\ Holder(n) = {}
      /\ UNCHANGED <<phase, resume, pos, batch, items, present, named, starved, call, answer>>
  BY DEF Clone, listVars, callVars
<1>2. /\ Len(tid) \in Nat /\ live \subseteq 1..Len(tid)
      /\ \A t \in 1..Len(tid) : t \in Int /\ t < new
      /\ named \subseteq 1..Len(tid) /\ present \subseteq 1..Len(tid)
  BY LiveFinite DEF ListTypeOK
<1>3. /\ tid' \in Seq(Tids) /\ Len(tid') = new /\ tid'[new] = n
      /\ \A t \in 1..Len(tid) : t \in 1..Len(tid') /\ tid'[t] = tid[t]
      /\ new \in 1..Len(tid') /\ new \notin 1..Len(tid)
      /\ 1..Len(tid') = 1..Len(tid) \cup {new}
  BY <1>1, <1>2 DEF Births
<1>4. Yielded' = Yielded /\ YieldedThreads' = YieldedThreads
  BY <1>1, SameItems
<1>5. ListTypeOK'
  BY <1>1, <1>2, <1>3, TaskBoundsAssumption DEF ListTypeOK
<1>6. TidsOK'
  <2>1. ASSUME NEW t \in live', NEW u \in live', tid'[t] = tid'[u]
        PROVE  t = u
    <3>1. \A w \in live : tid'[w] = tid[w] /\ tid[w] # n
      BY <1>1, <1>2, <1>3 DEF Holder
    <3>2. CASE t \in live /\ u \in live
      BY <2>1, <3>1, <3>2 DEF TidsOK
    <3>3. CASE t = new \/ u = new
      BY <1>1, <1>3, <2>1, <3>1, <3>3
    <3> QED
      BY <1>1, <3>2, <3>3
  <2> QED
    BY <1>1, <1>3, <2>1 DEF TidsOK
<1>7. Fresh'
  BY <1>1 DEF Fresh
<1>8. \A t \in live' : t \in named \/ t \in present => t \in live
  BY <1>1, <1>2, <1>3
<1>9. NamedMet'
  BY <1>1, <1>2, <1>3, <1>4, <1>8 DEF NamedMet
<1>10. TasksNoneMissed'
  BY <1>1, <1>4, <1>8 DEF TasksNoneMissed
<1>11. PresentMet'
  <2> SUFFICES ASSUME phase = "listing" PROVE PresentMet'
    BY <1>1 DEF PresentMet
  <2>1. \A t \in live' \ present : \A p \in present : p < t
    BY <1>1, <1>2 DEF PresentMet
  <2>2. present \subseteq live' => present \subseteq live
    BY <1>8
  <2>3. \A p \in present : tid'[p] = tid[p]
    BY <1>2, <1>3
  <2> QED
    BY <1>1, <2>1, <2>2, <2>3 DEF PresentMet
<1>12. ASSUME ~Reused' PROVE ((phase = "listing" => GoesOn) /\ Once)'
  <2>1. ~Reused /\ \A t \in 1..Len(tid) : tid[t] # n
    BY <1>2, <1>3, <1>12 DEF Reused
  <2>2. Passed' = Passed
    BY <1>1, <1>2 DEF Passed
  <2>3. resume # n
    BY <2>1, NoTidIsNone DEF TidsOK
  <2>4. Holder(resume)' = Holder(resume)
    BY <1>1, <1>2, <1>3, <2>3 DEF Holder
  <2>5. phase = "listing" => GoesOn'
    <3> SUFFICES ASSUME phase = "listing" PROVE GoesOn'
      OBVIOUS
    <3>1. \A h \in Holder(resume) : h \in 1..Len(tid)
      BY <1>2 DEF Holder
    <3>2. \A h \in Holder(resume) : ~(new < h)
      BY <1>2, <3>1
    <3> QED
      BY <1>1, <2>1, <2>2, <2>4, <3>2 DEF GoesOn
  <2>6. Once'
    <3>1. \A m \in named : tid'[m] = tid[m]
      BY <1>2, <1>3
    <3>2. Once
      BY <2>1
    <3>3. phase = "listing" =>
            \A j \in 1..Len(batch) : batch[j] # Dot => \E m \in named : tid'[m] = batch[j]
      BY <3>1, <3>2 DEF Once
    <3> QED
      BY <1>1, <1>4, <3>2, <3>3 DEF Once
  <2> QED
    BY <1>1, <2>5, <2>6
<1>13. TasksNoneTwice'
  <2>1. ~Reused' => ~Reused
    BY <1>2, <1>3 DEF Reused
  <2> QED
    BY <1>1, <1>4, <2>1 DEF TasksNoneTwice
<1> QED
  BY <1>5, <1>6, <1>7, <1>9, <1>10, <1>11, <1>12, <1>13

\* A thread ends.
LEMMA EndListOK ==
  ASSUME TasksInv, ListInv, NEW t \in live, live' = live \ {t},
         UNCHANGED <<tid, listVars>>
  PROVE  ListInv'
<1> USE DEF TasksInv, ListInv
<1>1. UNCHANGED <<phase, resume, pos, batch, items, present, named, starved>>
  BY DEF listVars
<1>2. /\ Yielded' = Yielded /\ YieldedThreads' = YieldedThreads /\ (Reused' <=> Reused)
  BY <1>1, SameItems, ReusedKept
<1>3. ListTypeOK' /\ TidsOK' /\ Fresh' /\ TasksNoneTwice'
  BY <1>1, <1>2 DEF ListTypeOK, TidsOK, Fresh, TasksNoneTwice
<1>4. NamedMet' /\ PresentMet' /\ TasksNoneMissed'
  BY <1>1, <1>2 DEF NamedMet, PresentMet, TasksNoneMissed
<1>5. GoesOn => GoesOn'
  <2> SUFFICES ASSUME GoesOn PROVE GoesOn'
    OBVIOUS
  <2>1. Passed' \in SUBSET Passed /\ Passed \in SUBSET live
    BY <1>1 DEF Passed
  <2>2. Cardinality(Passed') <= Cardinality(Passed) /\ Cardinality(Passed') \in Nat
        /\ Cardinality(Passed) \in Nat
    BY <2>1, LiveFinite, FS_Subset
  <2>3. Cardinality(Passed') <= pos'
    BY <1>1, <2>2 DEF GoesOn, ListTypeOK
  <2>4. \A h \in Holder(resume)' : h \in Holder(resume)
    BY <1>1 DEF Holder
  <2>5. \A u \in live' : u \in Passed => u \in Passed'
    BY <1>1 DEF Passed
  <2> QED
    BY <1>1, <2>3, <2>4, <2>5 DEF GoesOn
<1>6. Once => Once'
  BY <1>1, <1>2 DEF Once
<1> QED
  BY <1>1, <1>2, <1>3, <1>4, <1>5, <1>6

\* The listing has not begun: it is asked for.
LEMMA BeginListOK ==
  ASSUME TasksInv, ListInv, Tasks \/ \E n \in Tids : TaskFromTid(n)
  PROVE  ListInv'
<1> USE DEF TasksInv, ListInv
<1>1. /\ phase = "none" /\ phase' \in {"opening", "looking"}
      /\ UNCHANGED <<live, tid, resume, pos, items, present, named, starved>>
      /\ \/ phase' = "opening" /\ batch' = batch
         \/ phase' = "looking" /\ \E n \in Tids : batch' = <<n>>
  BY DEF Tasks, TaskFromTid, Idle, threadVars
<1>2. batch = <<>> /\ items = <<>>
  BY <1>1 DEF Fresh
<1>3. /\ Yielded = {} /\ Yielded' = {} /\ (Reused' <=> Reused)
  BY <1>1, <1>2, NoItems, SameItems, ReusedKept
<1>4. batch' \in Seq(Tids \cup {Dot}) /\ (phase' = "looking" => Len(batch') = 1)
  <2>1. CASE phase' = "opening" /\ batch' = batch
    BY <2>1 DEF ListTypeOK
  <2>2. ASSUME NEW n \in Tids, batch' = <<n>>
        PROVE  batch' \in Seq(Tids \cup {Dot}) /\ Len(batch') = 1
    BY <2>2
  <2> QED
    BY <1>1, <2>1, <2>2
<1>5. ListTypeOK' /\ TidsOK' /\ Fresh' /\ TasksNoneTwice'
  BY <1>1, <1>2, <1>3, <1>4 DEF ListTypeOK, TidsOK, Fresh, TasksNoneTwice
<1>6. NamedMet' /\ PresentMet' /\ TasksNoneMissed'
  BY <1>1 DEF NamedMet, PresentMet, TasksNoneMissed
<1>7. Once'
  BY <1>1, <1>3, <1>4 DEF Once
<1> QED
  BY <1>1, <1>5, <1>6, <1>7

\* The listing or the lookup is over: it may have added an item.
LEMMA EndedOK ==
  ASSUME TasksInv, ListInv, phase' = "ended",
         UNCHANGED <<live, tid, resume, pos, named>>,
         batch' \in Seq(Tids \cup {Dot}), present' \subseteq 1..Len(tid),
         \/ UNCHANGED items
         \/ \E r : items' = Append(items, r) /\ (IsOk(r) => items = <<>>)
  PROVE  ListInv'
<1> USE DEF TasksInv, ListInv
<1>1. ListTypeOK' /\ TidsOK' /\ Fresh'
  BY DEF ListTypeOK, TidsOK, Fresh
<1>2. NamedMet' /\ PresentMet' /\ TasksNoneMissed' /\ Once' /\ ~(phase = "listing")'
  BY DEF NamedMet, PresentMet, TasksNoneMissed, Once
<1>3. TasksNoneTwice'
  <2>1. CASE UNCHANGED items
    BY <2>1, SameItems, ReusedKept DEF TasksNoneTwice
  <2>2. ASSUME NEW r, items' = Append(items, r), IsOk(r) => items = <<>>
        PROVE  TasksNoneTwice'
    <3>1. /\ \A k \in Yielded : items'[k] = items[k]
          /\ IsOk(r) => Yielded' = Yielded \cup {Len(items) + 1}
          /\ ~IsOk(r) => Yielded' = Yielded
      BY <2>2, ListItemAdded
    <3>2. CASE IsOk(r)
      BY <2>2, <3>1, <3>2, NoItems DEF TasksNoneTwice
    <3>3. CASE ~IsOk(r)
      BY <3>1, <3>3, ReusedKept DEF TasksNoneTwice
    <3> QED
      BY <3>2, <3>3
  <2> QED
    BY <2>1, <2>2
<1> QED
  BY <1>1, <1>2, <1>3

LEMMA OpenDirListOK ==
  ASSUME TasksInv, ListInv, OpenDir
  PROVE  ListInv'
<1> USE DEF TasksInv, ListInv
<1>1. /\ UNCHANGED <<live, tid, resume, pos, batch, named, starved>>
      /\ phase = "opening" /\ present' = live
  BY DEF OpenDir, Idle, threadVars
<1>2. batch = <<>> /\ items = <<>> /\ pos = 0 /\ named = {} /\ resume = NoTid
  BY <1>1 DEF Fresh
<1>3. live \subseteq 1..Len(tid) /\ batch \in Seq(Tids \cup {Dot})
  BY LiveFinite DEF ListTypeOK
<1>4. CASE phase' = "listing" /\ UNCHANGED items
  <2>1. Yielded = {} /\ Yielded' = {} /\ YieldedThreads' = {} /\ (Reused' <=> Reused)
    BY <1>1, <1>2, <1>4, NoItems, SameItems, ReusedKept
  <2>2. ListTypeOK' /\ TidsOK' /\ Fresh' /\ TasksNoneTwice'
    BY <1>1, <1>3, <1>4, <2>1 DEF ListTypeOK, TidsOK, Fresh, TasksNoneTwice
  <2>3. NamedMet' /\ PresentMet' /\ TasksNoneMissed'
    BY <1>1, <1>2, <1>4 DEF NamedMet, PresentMet, TasksNoneMissed
  <2>4. GoesOn'
    <3>1. Passed' = {} /\ Holder(resume)' = {}
      BY <1>1, <1>2, NoTidIsNone DEF Passed, Holder
    <3> QED
      BY <1>1, <1>2, <3>1, FS_EmptySet DEF GoesOn
  <2>5. Once'
    BY <1>1, <1>2, <2>1 DEF Once
  <2> QED
    BY <2>2, <2>3, <2>4, <2>5
<1>5. CASE phase' = "ended" /\ \E e \in {"Io", "NotFound"} : items' = <<Err(e)>>
  <2>1. PICK e \in {"Io", "NotFound"} : items' = <<Err(e)>>
    BY <1>5
  <2>2. items' = Append(items, Err(e)) /\ ~IsOk(Err(e))
    BY <1>2, <2>1 DEF IsOk, Err
  <2> QED
    BY <1>1, <1>3, <1>5, <2>2, EndedOK
<1> QED
  BY <1>4, <1>5 DEF OpenDir

\* The directory has no more threads to name.
LEMMA TidsEndListOK ==
  ASSUME TasksInv, ListInv, TidsEnd
  PROVE  ListInv'
<1> USE DEF TasksInv, ListInv
<1>1. /\ UNCHANGED <<live, tid, resume, pos, batch, items, present, named, starved>>
      /\ phase = "listing" /\ phase' = "done" /\ batch = <<>> /\ live # {} /\ Rest = {}
  BY DEF TidsEnd, Idle, threadVars
<1>2. /\ Yielded' = Yielded /\ YieldedThreads' = YieldedThreads /\ (Reused' <=> Reused)
  BY <1>1, SameItems, ReusedKept
<1>3. ListTypeOK' /\ TidsOK' /\ Fresh' /\ TasksNoneTwice'
  BY <1>1, <1>2 DEF ListTypeOK, TidsOK, Fresh, TasksNoneTwice
<1>4. NamedMet' /\ PresentMet' /\ Once'
  BY <1>1 DEF NamedMet, PresentMet, Once
<1>5. ASSUME present \subseteq live PROVE present \subseteq named
  <2>1. pos # 0
    <3>1. pos = 0 => Rest = live
      BY RankFacts DEF Rest
    <3> QED
      BY <1>1, <3>1
  <2>2. ASSUME NEW p \in present, resume = tid[p], pos > 0 PROVE FALSE
    <3>1. p \in Holder(resume) /\ p \in Int
      BY <1>5, <2>2, LiveFinite DEF Holder
    <3>2. p \in Rest
      BY <1>5, <2>2, <3>1 DEF Rest
    <3> QED
      BY <1>1, <3>2
  <2> QED
    BY <1>1, <1>5, <2>1, <2>2 DEF PresentMet
<1>6. TasksNoneMissed'
  <2>1. ~starved => named \cap live \subseteq YieldedThreads
    BY <1>1 DEF NamedMet
  <2> QED
    BY <1>1, <1>2, <1>5, <2>1 DEF TasksNoneMissed
<1> QED
  BY <1>1, <1>3, <1>4, <1>6

\* A batch is read: it names the threads that come first of those left.
LEMMA ReadTidsListOK ==
  ASSUME TasksInv, ListInv, ReadTids
  PROVE  ListInv'
<1> USE DEF TasksInv, ListInv
<1>1. PICK b \in Batches(Rest, Batch) :
        /\ batch' = (IF pos = 0 THEN <<Dot>> ELSE <<>>) \o [k \in 1..Len(b) |-> tid[b[k]]]
        /\ pos' = pos + Len(b)
        /\ named' = named \cup ToSet(b)
        /\ \/ /\ \/ {t \in Rest : t > b[Len(b)]} = {} /\ resume' = NoTid
                 \/ \E t \in {w \in Rest : w > b[Len(b)]} :
                      /\ \A u \in {w \in Rest : w > b[Len(b)]} : t <= u
                      /\ resume' = tid[t]
              /\ UNCHANGED live
           \/ /\ CanEnd(b[Len(b)]) /\ resume' = NoTid
              /\ live' = live \ {b[Len(b)]}
  BY DEF ReadTids
<1> DEFINE last == b[Len(b)]
           later == {t \in Rest : t > last}
           names == [k \in 1..Len(b) |-> tid[b[k]]]
<1>2. /\ phase = "listing" /\ batch = <<>>
      /\ UNCHANGED <<tid, phase, items, present, starved, call>>
  BY DEF ReadTids
<1>3. /\ Len(tid) \in Nat /\ \A t \in 1..Len(tid) : t \in Int /\ tid[t] \in Tids
      /\ live \in SUBSET Int /\ live \subseteq 1..Len(tid) /\ pos \in Nat
      /\ present \subseteq 1..Len(tid) /\ named \subseteq 1..Len(tid)
  BY LiveFinite DEF ListTypeOK
<1>4. /\ Rest \in SUBSET live /\ Rest \in SUBSET Int
      /\ \A r \in Rest, u \in live : u >= r => u \in Rest
  BY <1>3, RestFacts
<1>5. /\ b \in Seq(Rest) /\ Len(b) \in Nat /\ Len(b) >= 1 /\ last \in Rest /\ last \in Int
      /\ \A j, k \in 1..Len(b) : j < k => b[j] < b[k]
      /\ \A j \in 1..Len(b) : b[j] \in Rest /\ b[j] \in Int /\ b[j] <= last
      /\ \A n \in Rest : n > last \/ \E j \in 1..Len(b) : b[j] = n
  BY <1>4, BatchFacts, TaskBoundsAssumption
<1>6. /\ ToSet(b) = {b[k] : k \in 1..Len(b)} /\ ToSet(b) \subseteq Rest
      /\ IsFiniteSet(ToSet(b)) /\ Cardinality(ToSet(b)) <= Len(b)
      /\ Cardinality(ToSet(b)) \in Nat
  BY <1>5, BatchSize
<1>0. pos' = pos + Len(b) /\ named' = named \cup ToSet(b)
  BY <1>1
<1>7. \A n \in Rest : n <= last => n \in named'
  <2> SUFFICES ASSUME NEW n \in Rest, n <= last PROVE n \in ToSet(b)
    BY <1>0
  <2>1. ~(n > last)
    BY <1>4, <1>5
  <2>2. PICK j \in 1..Len(b) : b[j] = n
    BY <1>5, <2>1
  <2> QED
    BY <1>6, <2>2
<1>8. live' \subseteq live /\ (UNCHANGED live \/ live' = live \ {last})
  BY <1>1
<1>9. Yielded' = Yielded /\ YieldedThreads' = YieldedThreads /\ (Reused' <=> Reused)
  BY <1>2, SameItems, ReusedKept
<1>10. /\ names \in Seq(Tids) /\ Len(names) = Len(b)
       /\ \A k \in 1..Len(b) : names[k] = tid[b[k]] /\ names[k] \in Tids /\ names[k] # Dot
  BY <1>3, <1>4, <1>5, NoTidIsNone
<1>11. \/ /\ batch' = names
       \/ /\ batch' = <<Dot>> \o names
  <2>1. pos # 0 => batch' = names
    BY <1>1, <1>10
  <2> QED
    BY <1>1, <2>1
\* Where the names are in the batch.
<1>12. /\ batch' \in Seq(Tids \cup {Dot}) /\ Len(batch') \in Nat
       /\ \A j \in 1..Len(batch') :
            \/ batch'[j] = Dot /\ j = 1
            \/ \E k \in 1..Len(b) : /\ batch'[j] = tid[b[k]]
                                    /\ j = k \/ (j = k + 1 /\ batch'[1] = Dot)
       /\ \A k \in 1..Len(b) : \E j \in 1..Len(batch') : batch'[j] = tid[b[k]]
  <2>1. CASE batch' = names
    BY <1>10, <2>1
  <2>2. CASE batch' = <<Dot>> \o names
    <3>1. /\ batch' \in Seq(Tids \cup {Dot}) /\ Len(batch') = Len(b) + 1
          /\ batch'[1] = Dot
      BY <1>10, <2>2
    <3>2. \A j \in 2..Len(batch') : batch'[j] = names[j - 1] /\ j - 1 \in 1..Len(b)
      BY <1>10, <2>2, <3>1
    <3>3. \A k \in 1..Len(b) : batch'[k + 1] = names[k] /\ k + 1 \in 1..Len(batch')
      BY <1>10, <2>2, <3>1
    <3>4. ASSUME NEW j \in 1..Len(batch')
          PROVE  \/ batch'[j] = Dot /\ j = 1
                 \/ \E k \in 1..Len(b) : /\ batch'[j] = tid[b[k]]
                                         /\ j = k \/ (j = k + 1 /\ batch'[1] = Dot)
      <4>1. CASE j = 1
        BY <3>1, <4>1
      <4>2. CASE j # 1
        <5>1. j \in 2..Len(batch')
          BY <1>5, <3>1, <4>2
        <5>2. j - 1 \in 1..Len(b) /\ batch'[j] = names[j - 1]
          BY <3>2, <5>1
        <5>3. batch'[j] = tid[b[j - 1]]
          BY <5>2
        <5>4. j = (j - 1) + 1
          OBVIOUS
        <5> QED
          BY <3>1, <5>2, <5>3, <5>4
      <4> QED
        BY <4>1, <4>2
    <3>5. ASSUME NEW k \in 1..Len(b)
          PROVE  \E j \in 1..Len(batch') : batch'[j] = tid[b[k]]
      BY <1>10, <3>3
    <3>6. Len(batch') \in Nat
      BY <1>5, <3>1
    <3> QED
      BY <3>1, <3>4, <3>5, <3>6
  <2> QED
    BY <1>11, <2>1, <2>2
<1>13. ListTypeOK'
  <2>1. pos' \in Nat
    BY <1>0, <1>3, <1>5
  <2>3. named' \subseteq 1..Len(tid)
    BY <1>0, <1>3, <1>4, <1>6
  <2>2. resume' \in Tids \cup {NoTid}
    BY <1>1, <1>3, <1>4
  <2> QED
    BY <1>2, <1>12, <2>1, <2>2, <2>3 DEF ListTypeOK
<1>14. TidsOK' /\ Fresh'
  BY <1>1, <1>2, <1>3, <1>4, <1>8 DEF TidsOK, Fresh
<1>15. NamedMet'
  <2> SUFFICES ASSUME ~starved, NEW t \in named', t \in live'
               PROVE  t \in YieldedThreads \/ \E j \in 1..Len(batch') : batch'[j] = tid[t]
    BY <1>2, <1>9 DEF NamedMet
  <2>1. CASE t \in named
    BY <1>2, <1>8, <2>1 DEF NamedMet
  <2>2. CASE t \in ToSet(b)
    BY <1>6, <1>12, <2>2
  <2> QED
    BY <1>1, <2>1, <2>2
<1>16. PresentMet'
  <2>1. \A t \in live' \ present : \A p \in present : p < t
    BY <1>2, <1>8 DEF PresentMet
  <2>2. ASSUME present \subseteq live', ~(present \subseteq named')
        PROVE  pos' > 0 /\ \E p \in present : /\ resume' = tid[p]
                                              /\ \A q \in present : q < p => q \in named'
    <3>1. present \subseteq live /\ ~(present \subseteq named)
      BY <1>1, <1>8, <2>2
    \* Those of the start that were not named are still to be named.
    <3>2. \A q \in present : q \in named \/ q \in Rest
      <4>1. CASE pos = 0
        BY <1>3, <3>1, <4>1, RankFacts DEF Rest
      <4>2. ASSUME NEW p \in present, resume = tid[p], pos > 0,
                   \A q \in present : q < p => q \in named
            PROVE  \A q \in present : q \in named \/ q \in Rest
        <5>1. p \in Holder(resume)
          BY <3>1, <4>2 DEF Holder
        <5>2. \A q \in present : q >= p => q \in Rest
          BY <3>1, <4>2, <5>1 DEF Rest
        <5> QED
          BY <1>3, <4>2, <5>2
      <4> QED
        BY <1>2, <3>1, <4>1, <4>2 DEF PresentMet
    <3>3. PICK p \in present : p \notin named'
      BY <2>2
    <3>4. p \in Rest /\ p \in Int /\ p > last
      <4>1. p \in Rest
        BY <1>0, <3>2, <3>3
      <4>2. ~(p <= last)
        BY <1>7, <3>3, <4>1
      <4> QED
        BY <1>4, <1>5, <4>1, <4>2
    \* The directory goes on at one of those of the start.
    <3>5. UNCHANGED live
      <4> SUFFICES ASSUME live' = live \ {last} PROVE FALSE
        BY <1>8
      <4>1. last \in live /\ last \notin present
        BY <1>4, <1>5, <2>2
      <4>2. p < last
        BY <1>2, <4>1 DEF PresentMet
      <4> QED
        BY <1>5, <3>4, <4>2
    <3>6. p \in later
      BY <3>4
    <3>7. PICK t \in later : (\A u \in later : t <= u) /\ resume' = tid[t]
      <4>1. last \in live
        BY <1>4, <1>5
      <4> QED
        BY <1>1, <3>5, <3>6, <4>1
    <3>8. t \in Int /\ t \in live /\ t <= p
      BY <1>4, <3>6, <3>7
    <3>9. t \in present
      <4> SUFFICES ASSUME t \notin present PROVE FALSE
        OBVIOUS
      <4>1. p < t
        BY <1>2, <3>8 DEF PresentMet
      <4> QED
        BY <3>4, <3>8, <4>1
    <3>10. ASSUME NEW q \in present, q < t PROVE q \in named'
      <4>1. q \in named \/ q \in Rest
        BY <3>2
      <4>2. CASE q \in Rest
        <5>1. q \in Int /\ q \notin later
          BY <1>4, <3>7, <3>8, <3>10, <4>2
        <5> QED
          BY <1>5, <1>7, <4>2, <5>1
      <4> QED
        BY <1>1, <4>1, <4>2
    <3> QED
      BY <1>1, <1>3, <1>5, <3>7, <3>9, <3>10
  <2> QED
    BY <1>2, <2>1, <2>2 DEF PresentMet
<1>17. TasksNoneMissed' /\ TasksNoneTwice'
  BY <1>2, <1>9 DEF TasksNoneMissed, TasksNoneTwice
<1>18. ASSUME ~Reused PROVE GoesOn' /\ Once'
  <2>1. GoesOn /\ Once
    BY <1>2, <1>18
  <2>2. /\ \A r \in Rest, m \in named : m < r
        /\ Cardinality(live \ Rest) <= pos
    BY <2>1, RestIsNew
  <2>3. \A t, u \in 1..Len(tid) : tid[t] = tid[u] => t = u
    BY <1>18 DEF Reused
  <2>4. \A k \in 1..Len(b) : b[k] \in 1..Len(tid) /\ b[k] \notin named
    BY <1>3, <1>4, <1>5, <2>2
  <2>5. Cardinality(Passed') <= pos'
    <3>1. \A u \in Passed' : u \in live /\ u \in Int /\ \E m \in named' : u <= m
      BY <1>3, <1>8 DEF Passed
    <3>2. ASSUME NEW u \in Passed', u \in Rest PROVE u \in ToSet(b)
      <4>1. PICK m \in named' : u <= m
        BY <3>1
      <4>2. m \notin named
        <5> SUFFICES ASSUME m \in named PROVE FALSE
          OBVIOUS
        <5>1. m < u
          BY <2>2, <3>2
        <5>2. m \in Int /\ u \in Int
          BY <1>3, <3>1
        <5> QED
          BY <4>1, <5>1, <5>2
      <4>3. m \in ToSet(b) /\ m \in Int /\ m <= last
        BY <1>0, <1>4, <1>5, <1>6, <4>1, <4>2
      <4> QED
        BY <1>5, <1>6, <3>1, <3>2, <4>1, <4>3
    <3>3. Passed' \in SUBSET ((live \ Rest) \cup ToSet(b))
      BY <3>1, <3>2
    <3>4. IsFiniteSet(live \ Rest) /\ Cardinality(live \ Rest) \in Nat
      BY LiveFinite
    <3>5. /\ IsFiniteSet((live \ Rest) \cup ToSet(b))
          /\ Cardinality((live \ Rest) \cup ToSet(b)) =
               Cardinality(live \ Rest) + Cardinality(ToSet(b))
                 - Cardinality((live \ Rest) \cap ToSet(b))
      BY <1>6, <3>4, FS_Union
    <3>6. Cardinality((live \ Rest) \cap ToSet(b)) \in Nat
      BY LiveFinite
    <3>7. /\ Cardinality(Passed') <= Cardinality((live \ Rest) \cup ToSet(b))
          /\ Cardinality(Passed') \in Nat
      BY <3>3, <3>5, FS_Subset, FS_CardinalityType
    <3> QED
      BY <1>1, <1>3, <1>5, <1>6, <2>2, <3>4, <3>5, <3>6, <3>7
  <2>6. ASSUME NEW h \in Holder(resume)'
        PROVE  /\ \A m \in named' : m < h
               /\ \A u \in live' : u < h => u \in Passed'
    <3>1. h \in live' /\ tid[h] = resume' /\ h \in 1..Len(tid) /\ resume' # NoTid
      BY <1>2, <1>3, <1>8, NoTidIsNone DEF Holder
    <3>2. PICK t \in later : (\A u \in later : t <= u) /\ resume' = tid[t]
      BY <1>1, <3>1
    <3>3. h = t /\ h \in later /\ h \in Rest /\ h \in Int
      BY <1>3, <1>4, <2>3, <3>1, <3>2
    <3>4. \A m \in named' : m < h
      <4>1. \A m \in ToSet(b) : m < h
        BY <1>5, <1>6, <3>3
      <4> QED
        BY <1>1, <2>2, <3>3, <4>1
    <3>5. ASSUME NEW u \in live', u < h PROVE u \in Passed'
      <4>1. u \in live /\ u \in Int
        BY <1>3, <1>8
      <4>2. u <= last
        <5> SUFFICES ASSUME u > last PROVE FALSE
          BY <1>5, <4>1
        <5>1. u \in later
          BY <1>4, <1>5, <4>1
        <5> QED
          BY <3>2, <3>3, <3>5, <4>1, <5>1
      <4>3. last \in named'
        BY <1>5, <1>7
      <4> QED
        BY <3>5, <4>2, <4>3 DEF Passed
    <3> QED
      BY <3>4, <3>5
  <2>7. Once'
    <3>1. YieldedThreads \subseteq named'
      BY <1>1, <1>2, <2>1 DEF Once
    <3>2. \A j \in 1..Len(batch') : batch'[j] # Dot => \E m \in named' : tid[m] = batch'[j]
      BY <1>1, <1>6, <1>12
    <3>3. ASSUME NEW j \in 1..Len(batch'), NEW k \in 1..Len(batch'), j # k,
                 batch'[j] = batch'[k]
          PROVE  FALSE
      <4>1. ASSUME NEW m \in 1..Len(b), NEW n \in 1..Len(b), names[m] = names[n]
            PROVE  m = n
        <5>1. b[m] = b[n]
          BY <1>10, <2>3, <2>4, <4>1
        <5>2. ~(m < n) /\ ~(n < m)
          BY <1>5, <5>1
        <5> QED
          BY <5>2
      <4>2. CASE batch' = names
        BY <1>10, <3>3, <4>1, <4>2
      <4>3. CASE batch' = <<Dot>> \o names
        <5>1. /\ Len(batch') = Len(b) + 1 /\ batch'[1] = Dot
              /\ \A i \in 1..Len(batch') :
                   i # 1 => i - 1 \in 1..Len(b) /\ batch'[i] = names[i - 1]
          BY <1>5, <1>10, <4>3
        <5>2. j # 1 /\ k # 1
          BY <1>10, <3>3, <5>1
        <5>3. /\ j - 1 \in 1..Len(b) /\ k - 1 \in 1..Len(b)
              /\ names[j - 1] = names[k - 1]
          BY <3>3, <5>1, <5>2
        <5>4. j - 1 = k - 1
          BY ONLY <4>1, <5>3
        <5>5. j \in Int /\ k \in Int
          OBVIOUS
        <5> QED
          BY <3>3, <5>4, <5>5
      <4> QED
        BY <1>11, <4>2, <4>3
    <3>4. ASSUME NEW j \in 1..Len(batch'), NEW k \in Yielded, batch'[j] = items[k].ok.tid
          PROVE  FALSE
      <4>1. /\ items[k].ok.thread \in 1..Len(tid) /\ items[k].ok.thread \in named
            /\ tid[items[k].ok.thread] = items[k].ok.tid
        BY <1>2, <2>1 DEF ItemsBorn, Once, YieldedThreads
      <4>2. batch'[j] # Dot
        BY <1>3, <3>4, <4>1, NoTidIsNone
      <4>3. PICK m \in 1..Len(b) : batch'[j] = tid[b[m]]
        BY <1>12, <4>2
      <4> QED
        BY <2>3, <2>4, <3>4, <4>1, <4>3
    <3> QED
      BY <1>2, <1>9, <3>1, <3>2, <3>3, <3>4 DEF Once
  <2> QED
    BY <2>5, <2>6, <2>7 DEF GoesOn
<1> QED
  BY <1>9, <1>13, <1>14, <1>15, <1>16, <1>17, <1>18

\* The next name is looked at: the others stay, and are not of the same thread.
LEMMA NextName ==
  ASSUME TasksInv, ListInv, phase = "listing", batch # <<>>, batch' = Tail(batch),
         UNCHANGED <<live, tid, phase, resume, pos, present, named>>
  PROVE  /\ ListTypeOK' /\ TidsOK' /\ Fresh' /\ PresentMet' /\ TasksNoneMissed'
         /\ Reused' <=> Reused
         /\ \A j \in 1..Len(batch) :
              batch[j] = Head(batch) \/ \E k \in 1..Len(batch') : batch'[k] = batch[j]
         /\ ~Reused =>
              /\ GoesOn' /\ Once
              /\ Head(batch) # Dot => \E m \in named : tid[m] = Head(batch)
              /\ \A k \in Yielded : Head(batch) # items[k].ok.tid
              /\ \A j \in 1..Len(batch') :
                   /\ batch'[j] # Head(batch)
                   /\ batch'[j] # Dot => \E m \in named : tid[m] = batch'[j]
                   /\ \A k \in 1..Len(batch') : j # k => batch'[j] # batch'[k]
                   /\ \A k \in Yielded : batch'[j] # items[k].ok.tid
<1> USE DEF TasksInv, ListInv
<1>1. batch \in Seq(Tids \cup {Dot})
  BY DEF ListTypeOK
<1>2. /\ batch' \in Seq(Tids \cup {Dot}) /\ Len(batch) \in Nat /\ Len(batch) >= 1
      /\ Head(batch) = batch[1] /\ 1 \in 1..Len(batch) /\ Len(batch') = Len(batch) - 1
      /\ \A j \in 1..Len(batch') : batch'[j] = batch[j + 1] /\ j + 1 \in 1..Len(batch)
      /\ \A j \in 2..Len(batch) : batch'[j - 1] = batch[j] /\ j - 1 \in 1..Len(batch')
  BY <1>1, TailFacts
<1>3. ListTypeOK' /\ TidsOK' /\ Fresh' /\ PresentMet' /\ TasksNoneMissed'
  BY <1>2 DEF ListTypeOK, TidsOK, Fresh, PresentMet, TasksNoneMissed
<1>4. Reused' <=> Reused
  BY ReusedKept
<1>5. ASSUME NEW j \in 1..Len(batch)
      PROVE  batch[j] = Head(batch) \/ \E k \in 1..Len(batch') : batch'[k] = batch[j]
  <2>1. CASE j = 1
    BY <1>2, <2>1
  <2>2. CASE j # 1
    <3>1. j \in 2..Len(batch)
      BY <1>2, <2>2
    <3> QED
      BY <1>2, <3>1
  <2> QED
    BY <2>1, <2>2
<1>6. ASSUME ~Reused
      PROVE  /\ GoesOn' /\ Once
             /\ Head(batch) # Dot => \E m \in named : tid[m] = Head(batch)
             /\ \A k \in Yielded : Head(batch) # items[k].ok.tid
  <2>1. GoesOn /\ Once
    BY <1>6
  <2>2. GoesOn'
    BY <2>1 DEF GoesOn, Passed, Holder
  <2> QED
    BY <1>2, <2>1, <2>2 DEF Once
<1>7. ASSUME ~Reused, NEW j \in 1..Len(batch')
      PROVE  /\ batch'[j] # Head(batch)
             /\ batch'[j] # Dot => \E m \in named : tid[m] = batch'[j]
             /\ \A k \in 1..Len(batch') : j # k => batch'[j] # batch'[k]
             /\ \A k \in Yielded : batch'[j] # items[k].ok.tid
  <2>1. Once
    BY <1>7
  <2>2. batch'[j] = batch[j + 1] /\ j + 1 \in 1..Len(batch) /\ j + 1 # 1
    BY <1>2
  <2>3. batch'[j] # Head(batch)
    BY <1>2, <2>1, <2>2 DEF Once
  <2>4. ASSUME NEW k \in 1..Len(batch'), j # k PROVE batch'[j] # batch'[k]
    <3>1. batch'[k] = batch[k + 1] /\ k + 1 \in 1..Len(batch) /\ j + 1 # k + 1
      BY <1>2, <2>4
    <3> QED
      BY <2>1, <2>2, <3>1 DEF Once
  <2> QED
    BY <2>1, <2>2, <2>3, <2>4 DEF Once
<1> QED
  BY <1>3, <1>4, <1>5, <1>6, <1>7

\* A name gives no Task, and either it was none of a live thread or the open
\* failed for want of files.
LEMMA SkippedListOK ==
  ASSUME TasksInv, ListInv, phase = "listing", batch # <<>>, batch' = Tail(batch),
         UNCHANGED <<live, tid, phase, resume, pos, items, present, named>>,
         starved => starved', starved' \/ Holder(Head(batch)) = {}
  PROVE  ListInv'
<1> USE DEF TasksInv, ListInv
<1>1. /\ ListTypeOK' /\ TidsOK' /\ Fresh' /\ PresentMet' /\ TasksNoneMissed'
      /\ Reused' <=> Reused
  BY NextName
<1>2. Yielded' = Yielded /\ YieldedThreads' = YieldedThreads
  BY SameItems
<1>3. TasksNoneTwice'
  BY <1>1, <1>2 DEF TasksNoneTwice
<1>4. NamedMet'
  <2> SUFFICES ASSUME ~starved', NEW t \in named, t \in live
               PROVE  t \in YieldedThreads \/ \E j \in 1..Len(batch') : batch'[j] = tid[t]
    BY <1>2 DEF NamedMet
  <2>1. t \in YieldedThreads \/ \E j \in 1..Len(batch) : batch[j] = tid[t]
    BY DEF NamedMet
  <2>2. tid[t] # Head(batch)
    BY DEF Holder
  <2> QED
    BY <2>1, <2>2, NextName
<1>5. ASSUME ~Reused PROVE GoesOn' /\ Once'
  <2>1. GoesOn' /\ Once
    BY <1>5, NextName
  <2>2. \A j \in 1..Len(batch') :
          /\ batch'[j] # Dot => \E m \in named : tid[m] = batch'[j]
          /\ \A k \in 1..Len(batch') : j # k => batch'[j] # batch'[k]
          /\ \A k \in Yielded : batch'[j] # items[k].ok.tid
    BY <1>5, NextName
  <2> QED
    BY <1>2, <2>1, <2>2 DEF Once
<1> QED
  BY <1>1, <1>3, <1>4, <1>5

LEMMA SkipNameListOK ==
  ASSUME TasksInv, ListInv, SkipName
  PROVE  ListInv'
<1>1. /\ phase = "listing" /\ batch # <<>> /\ Head(batch) = Dot /\ batch' = Tail(batch)
      /\ UNCHANGED <<live, tid, phase, resume, pos, items, present, named, starved>>
  BY DEF SkipName, Idle, threadVars
<1>2. Holder(Dot) = {}
  BY NoTidIsNone DEF TasksInv, Dot, NoTid
<1> QED
  BY <1>1, <1>2, SkippedListOK

LEMMA SkipTaskListOK ==
  ASSUME TasksInv, ListInv, SkipTask
  PROVE  ListInv'
<1>1. /\ phase = "listing" /\ batch # <<>> /\ batch' = Tail(batch)
      /\ UNCHANGED <<live, tid, phase, resume, pos, items, present, named>>
  BY DEF SkipTask, Continue, Opening, Idle, threadVars
<1>2. PICK e \in OpenErrors : starved' = (starved \/ e = "Io")
  BY DEF SkipTask
<1>3. e # "Io" => Holder(Head(batch)) = {}
  BY DEF OpenErrors
<1> QED
  BY <1>1, <1>2, <1>3, SkippedListOK

\* A Task is opened: of a thread that no Task was of, unless a tid was used
\* again.
LEMMA OpenTaskListOK ==
  ASSUME TasksInv, ListInv, OpenTask
  PROVE  ListInv'
<1> USE DEF TasksInv, ListInv
<1>1. PICK t \in Holder(Head(batch)) :
        items' = Append(items, Ok([tid |-> Head(batch), thread |-> t]))
  BY DEF OpenTask
<1>2. /\ phase \in {"listing", "looking"} /\ batch # <<>> /\ batch' = Tail(batch)
      /\ phase' = (IF phase = "listing" THEN "listing" ELSE "ended")
      /\ Head(batch) # Dot
      /\ UNCHANGED <<live, tid, resume, pos, present, named, starved>>
  BY DEF OpenTask, Opening, Continue, Idle, threadVars
<1> DEFINE r == Ok([tid |-> Head(batch), thread |-> t])
           new == Len(items) + 1
<1>3. IsOk(r) /\ r.ok.tid = Head(batch) /\ r.ok.thread = t
  BY DEF Ok, IsOk
<1>4. t \in live /\ tid[t] = Head(batch) /\ t \in 1..Len(tid)
  BY <1>1, LiveFinite DEF Holder
<1>5. /\ \A k \in Yielded : k \in 1..Len(items) /\ items'[k] = items[k]
      /\ items'[new] = r /\ Yielded' = Yielded \cup {new}
  BY <1>1, <1>3, ListItemAdded
<1>6. YieldedThreads' = YieldedThreads \cup {t}
  BY <1>3, <1>5 DEF YieldedThreads
<1>7. CASE phase = "looking"
  <2>1. items = <<>> /\ phase' = "ended" /\ present' \subseteq 1..Len(tid)
    BY <1>2, <1>7 DEF Fresh, ListTypeOK
  <2>2. batch' \in Seq(Tids \cup {Dot})
    BY <1>2, TailFacts DEF ListTypeOK
  <2> QED
    BY <1>1, <1>2, <2>1, <2>2, EndedOK
<1>8. CASE phase = "listing"
  <2>1. UNCHANGED <<live, tid, phase, resume, pos, present, named>>
    BY <1>2, <1>8
  <2>2. /\ ListTypeOK' /\ TidsOK' /\ Fresh' /\ PresentMet' /\ TasksNoneMissed'
        /\ Reused' <=> Reused
        /\ \A j \in 1..Len(batch) :
             batch[j] = Head(batch) \/ \E k \in 1..Len(batch') : batch'[k] = batch[j]
    BY <1>2, <1>8, <2>1, NextName
  <2>3. NamedMet'
    <3> SUFFICES ASSUME ~starved, NEW u \in named, u \in live
                 PROVE  \/ u \in YieldedThreads \cup {t}
                        \/ \E j \in 1..Len(batch') : batch'[j] = tid[u]
      BY <1>2, <1>6 DEF NamedMet
    <3>1. u \in YieldedThreads \/ \E j \in 1..Len(batch) : batch[j] = tid[u]
      BY <1>8 DEF NamedMet
    <3>2. tid[u] = Head(batch) => u = t
      BY <1>4 DEF TidsOK
    <3> QED
      BY <2>2, <3>1, <3>2
  <2>4. ASSUME ~Reused
        PROVE  /\ GoesOn' /\ Once /\ t \in named
               /\ \A k \in Yielded : t # items[k].ok.thread
               /\ \A j \in 1..Len(batch') :
                    /\ batch'[j] # Head(batch)
                    /\ batch'[j] # Dot => \E m \in named : tid[m] = batch'[j]
                    /\ \A k \in 1..Len(batch') : j # k => batch'[j] # batch'[k]
                    /\ \A k \in Yielded : batch'[j] # items[k].ok.tid
    <3>1. /\ GoesOn' /\ Once
          /\ \E m \in named : tid[m] = Head(batch)
          /\ \A k \in Yielded : Head(batch) # items[k].ok.tid
          /\ \A j \in 1..Len(batch') :
               /\ batch'[j] # Head(batch)
               /\ batch'[j] # Dot => \E m \in named : tid[m] = batch'[j]
               /\ \A k \in 1..Len(batch') : j # k => batch'[j] # batch'[k]
               /\ \A k \in Yielded : batch'[j] # items[k].ok.tid
      BY <1>2, <1>8, <2>1, <2>4, NextName
    <3>2. t \in named
      BY <1>4, <2>4, <3>1, ReusedKept DEF ListTypeOK, Reused
    <3>3. \A k \in Yielded : t # items[k].ok.thread
      BY <1>4, <3>1 DEF ItemsBorn
    <3> QED
      BY <3>1, <3>2, <3>3
  <2>5. ASSUME ~Reused PROVE Once'
    <3>1. YieldedThreads' \subseteq named'
      BY <1>2, <1>6, <1>8, <2>4, <2>5 DEF Once
    <3>2. \A j \in 1..Len(batch') : \A k \in Yielded' : batch'[j] # items'[k].ok.tid
      BY <1>3, <1>5, <2>4, <2>5
    <3> QED
      BY <1>2, <2>4, <2>5, <3>1, <3>2 DEF Once
  <2>6. TasksNoneTwice'
    <3> SUFFICES ASSUME ~Reused, NEW j \in Yielded', NEW k \in Yielded', j # k
                 PROVE  items'[j].ok.thread # items'[k].ok.thread
      BY <2>2 DEF TasksNoneTwice
    <3>1. \A i \in Yielded : items'[i].ok.thread # t
      BY <1>5, <2>4
    <3>2. j \in Yielded /\ k \in Yielded => items'[j].ok.thread # items'[k].ok.thread
      BY <1>5 DEF TasksNoneTwice
    <3>3. items'[new].ok.thread = t
      BY <1>3, <1>5
    <3> QED
      BY <1>5, <3>1, <3>2, <3>3
  <2> QED
    BY <2>2, <2>3, <2>4, <2>5, <2>6
<1> QED
  BY <1>2, <1>7, <1>8

\* The listing, or the lookup, ends with an error, or the consumer drops it.
LEMMA BrokenOffListOK ==
  ASSUME TasksInv, ListInv, ReadTidsFails \/ LookupFails \/ DropStream
  PROVE  ListInv'
<1> USE DEF TasksInv, ListInv
<1>1. /\ phase' = "ended" /\ present' \subseteq 1..Len(tid)
      /\ UNCHANGED <<live, tid, resume, pos, named>>
  BY DEF ReadTidsFails, LookupFails, DropStream, Opening, Continue, Idle, threadVars, ListTypeOK
<1>2. batch' \in Seq(Tids \cup {Dot})
  <2>1. CASE ReadTidsFails \/ DropStream
    BY <2>1 DEF ReadTidsFails, DropStream, ListTypeOK
  <2>2. CASE LookupFails
    <3>1. batch # <<>> /\ batch' = Tail(batch)
      BY <2>2 DEF LookupFails, Opening, Continue
    <3> QED
      BY <3>1, TailFacts DEF ListTypeOK
  <2> QED
    BY <2>1, <2>2
<1>3. UNCHANGED items \/ \E e : items' = Append(items, Err(e))
  BY DEF ReadTidsFails, LookupFails, DropStream
<1>4. \A e : ~IsOk(Err(e))
  BY DEF IsOk, Err
<1> QED
  BY <1>1, <1>2, <1>3, <1>4, EndedOK

\* The readers of a Task change nothing that the listing depends on.
LEMMA ReadersListOK ==
  ASSUME TasksInv, ListInv, UNCHANGED <<threadVars, listVars>>
  PROVE  ListInv'
<1> USE DEF TasksInv, ListInv
<1>1. UNCHANGED <<live, tid, phase, resume, pos, batch, items, present, named, starved>>
  BY DEF threadVars, listVars
<1>2. Yielded' = Yielded /\ YieldedThreads' = YieldedThreads /\ (Reused' <=> Reused)
  BY <1>1, SameItems, ReusedKept
<1>3. ListTypeOK' /\ TidsOK' /\ Fresh' /\ NamedMet' /\ PresentMet'
  BY <1>1, <1>2 DEF ListTypeOK, TidsOK, Fresh, NamedMet, PresentMet
<1>4. TasksNoneMissed' /\ TasksNoneTwice'
  BY <1>1, <1>2 DEF TasksNoneMissed, TasksNoneTwice
<1>5. (GoesOn => GoesOn') /\ (Once => Once')
  BY <1>1, <1>2 DEF GoesOn, Passed, Holder, Once
<1> QED
  BY <1>1, <1>2, <1>3, <1>4, <1>5

LEMMA ListNextOK ==
  ASSUME TasksInv, ListInv, [TasksNext]_vars
  PROVE  ListInv'
<1>1. CASE UNCHANGED vars \/ (\E o \in Readers : Call(o)) \/ ReadStep \/ Cancel
  <2>1. UNCHANGED <<threadVars, listVars>>
    BY <1>1 DEF vars, Call, ReadStep, OpenFile, ReadFile, ReadAfterEnd, Cancel
  <2> QED
    BY <2>1, ReadersListOK
<1>2. ASSUME NEW n \in Tids, Clone(n) PROVE ListInv'
  BY <1>2, CloneListOK
<1>3. ASSUME NEW t \in live, End(t) PROVE ListInv'
  BY <1>3, EndListOK DEF End
<1>4. CASE Tasks \/ \E n \in Tids : TaskFromTid(n)
  BY <1>4, BeginListOK
<1>5. CASE ListStep \/ DropStream
  BY <1>5, OpenDirListOK, ReadTidsListOK, TidsEndListOK, SkipNameListOK, OpenTaskListOK,
     SkipTaskListOK, BrokenOffListOK DEF ListStep
<1> QED
  BY <1>1, <1>2, <1>3, <1>4, <1>5 DEF TasksNext

\* What a listing keeps to: where the directory goes on, what was named and what
\* is still to be opened (Process::tasks).
THEOREM ListInvariance == TasksSpec => []ListInv
<1>1. TasksInit => ListInv
  BY ListInitOK
<1>2. TasksInv /\ ListInv /\ [TasksNext]_vars => ListInv'
  BY ListNextOK
<1> QED
  BY <1>1, <1>2, TasksInvCorrect, PTL DEF TasksSpec

\* The types of Tasks, for any number of threads: a Task's thread is one that
\* has been born, within the bound, and its tid a tid (tasks, task_from_tid).
THEOREM TasksTypeCorrect == TasksSpec => []TasksTypeOK
<1>1. ASSUME TasksInv, ListInv
      PROVE  TasksTypeOK
  <2> USE <1>1 DEF TasksInv, ListInv
  <2>1. /\ live \subseteq 1..Len(tid) /\ tid \in Seq(Tids) /\ Len(tid) \in Nat
        /\ Len(tid) <= MaxThreads
    BY DEF Births, ListTypeOK
  <2>2. ASSUME NEW k \in 1..Len(items)
        PROVE  items[k] \in ResultOf(Item, {"NotFound", "Io"})
    <3>1. items[k] \in ResultOf([tid : Tids, thread : Nat], {"NotFound", "Io"})
      BY DEF ItemsShape, Errors
    <3>2. CASE IsOk(items[k])
      <4>1. items[k].ok.thread \in 1..Len(tid)
        BY <3>2 DEF ItemsBorn, Yielded
      <4>2. items[k].ok.thread \in 1..MaxThreads
        BY <2>1, <4>1, TaskBoundsAssumption
      <4>3. items[k].ok \in Item
        BY <3>1, <3>2, <4>2 DEF ResultOf, IsOk, Item
      <4> QED
        BY <3>1, <3>2, <4>3 DEF ResultOf, IsOk
    <3>3. CASE ~IsOk(items[k])
      BY <3>1, <3>3 DEF ResultOf, IsOk
    <3> QED
      BY <3>2, <3>3
  <2>3. call \in {NoCall} \cup [op : Readers, step : {"opening", "reading"}]
    BY DEF CallShape
  <2> QED
    BY <2>1, <2>2, <2>3 DEF TasksTypeOK, ListTypeOK
<1> QED
  BY <1>1, ListInvariance, TasksInvCorrect, PTL

\* A listing that comes to its end with files enough has met every thread that
\* was named and is still live, and all of those at its start if none has ended,
\* for any number of threads and any size of a batch (Process::tasks).
THEOREM TasksNoneMissedCorrect == TasksSpec => []TasksNoneMissed
BY ListInvariance, PTL DEF ListInv

\* No thread is yielded twice, unless a tid was used again in the process:
\* though threads end while the directory is read, and the position that it goes
\* on at is then a count of those that were named (Process::tasks).
THEOREM TasksNoneTwiceCorrect == TasksSpec => []TasksNoneTwice
BY ListInvariance, PTL DEF ListInv

=============================================================================

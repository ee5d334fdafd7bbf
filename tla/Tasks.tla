------------------------------- MODULE Tasks -------------------------------
(***************************************************************************)
(* Process::tasks, task_from_tid and task_main_thread                      *)
(* (src/process/mod.rs) and struct Task (src/process/task.rs): a consumer  *)
(* that lists the threads of the process it holds, or looks one up, and    *)
(* reads files of the Task it was given last, while threads start and end  *)
(* and their tids pass to other threads.                                   *)
(*                                                                         *)
(* A Task is a directory opened under the one of its Process; it stays     *)
(* bound to the thread it was opened on.                                   *)
(*                                                                         *)
(* External: the threads, numbered in the order of their birth, which is   *)
(* the order of /proc/<pid>/task.  Thread 1 leads the group and is listed  *)
(* until all others have ended.  A read of the directory goes on at the    *)
(* thread whose tid did not fit into the batch before it or, if no thread  *)
(* of the group has that tid, at the position after as many threads as     *)
(* have been named.                                                        *)
(***************************************************************************)
EXTENDS Integers, FiniteSets, ProcResult, Directory, SequencesExt

CONSTANTS
  Tids,           \* the tids the kernel hands out
  Pid,            \* the one that is the process's pid
  MaxThreads,     \* bound: how many threads the process has in its life
  Batch           \* most names one read of the directory returns

ASSUME TidsAssumption == Tids \subseteq Nat \ {0} /\ Pid \in Tids
ASSUME TaskBoundsAssumption == MaxThreads \in Nat \ {0} /\ Batch \in Nat \ {0}

Leader == 1
Stranger == 0       \* any thread of another process
NoTid == 0
Dot == 0            \* the names "." and "..", which come before the tids
Readers == {"stat", "children"}

VARIABLES
  live,       \* the threads that have not ended
  tid,        \* tid[t]: the tid of thread t; its length is the number of births
  phase,      \* where tasks() or task_from_tid() is
  resume,     \* the tid that did not fit into the last batch
  pos,        \* how many threads the directory has named
  batch,      \* names read and not yet looked at, or the one looked up
  items,      \* the Tasks, or errors, the consumer was given
  call,       \* the reader that the consumer has called on its last Task
  answer,     \* the result of that call
  present,    \* history: the threads that were live when the listing began
  named,      \* history: the threads the directory has named
  starved     \* history: an open failed for want of files

threadVars == <<live, tid>>
listVars == <<phase, resume, pos, batch, items, present, named, starved>>
callVars == <<call, answer>>
vars == <<threadVars, listVars, callVars>>

NoCall == [op |-> "none", step |-> "none"]

\* The live thread of this process that has the tid: a set of at most one.
Holder(n) == {t \in live : tid[t] = n}

TasksInit ==
  /\ live = {Leader}
  /\ tid = <<Pid>>
  /\ phase = "none"
  /\ resume = NoTid
  /\ pos = 0
  /\ batch = <<>>
  /\ items = <<>>
  /\ call = NoCall
  /\ answer = Pending
  /\ present = {}
  /\ named = {}
  /\ starved = FALSE

-----------------------------------------------------------------------------
\* clone: the new thread gets any tid that no thread of the process has.
Clone(n) ==
  /\ live # {}
  /\ Len(tid) < MaxThreads
  /\ Holder(n) = {}
  /\ live' = live \cup {Len(tid) + 1}
  /\ tid' = Append(tid, n)
  /\ UNCHANGED <<listVars, callVars>>

CanEnd(t) == t \in live /\ (t = Leader => live = {Leader})

End(t) ==
  /\ CanEnd(t)
  /\ live' = live \ {t}
  /\ UNCHANGED <<tid, listVars, callVars>>

-----------------------------------------------------------------------------
(***************************************************************************)
(* tasks().                                                                *)
(***************************************************************************)
\* The consumer is not waiting for a reader; it forgets the last answer.
Idle == call = NoCall /\ answer' = Pending /\ UNCHANGED <<threadVars, call>>

Tasks ==
  /\ phase = "none"
  /\ phase' = "opening"
  /\ UNCHANGED <<resume, pos, batch, items, present, named, starved>>
  /\ Idle

\* The directory is opened, or tasks() fails.
OpenDir ==
  /\ phase = "opening"
  /\ \/ live # {} /\ phase' = "listing" /\ UNCHANGED items
     \/ /\ \E e \in {"Io"} \cup (IF live = {} THEN {"NotFound"} ELSE {}) :
             items' = <<Err(e)>>
        /\ phase' = "ended"
  /\ present' = live
  /\ UNCHANGED <<resume, pos, batch, named, starved>>
  /\ Idle

\* How many threads the directory shows before t.
Rank(t) == Cardinality({u \in live : u < t})

\* The threads a read of the directory still has to name.
Rest ==
  IF pos > 0 /\ Holder(resume) # {}
  THEN {t \in live : \E h \in Holder(resume) : t >= h}
  ELSE {t \in live : Rank(t) >= pos}

\* A batch.  It ends where the buffer is full, or because the thread it just
\* named ends before the next one is found: then no tid is remembered.
ReadTids ==
  /\ phase = "listing"
  /\ batch = <<>>
  /\ \E b \in Batches(Rest, Batch) :
       LET last == b[Len(b)]
           later == {t \in Rest : t > last}
       IN  /\ batch' = (IF pos = 0 THEN <<Dot>> ELSE <<>>) \o [k \in 1..Len(b) |-> tid[b[k]]]
           /\ pos' = pos + Len(b)
           /\ named' = named \cup ToSet(b)
           /\ \/ /\ \/ later = {} /\ resume' = NoTid
                    \/ \E t \in later : (\A u \in later : t <= u) /\ resume' = tid[t]
                 /\ UNCHANGED live
              \/ /\ CanEnd(last)
                 /\ resume' = NoTid
                 /\ live' = live \ {last}
  /\ call = NoCall
  /\ answer' = Pending
  /\ UNCHANGED <<tid, phase, items, present, starved, call>>

TidsEnd ==
  /\ phase = "listing"
  /\ batch = <<>>
  /\ live # {} /\ Rest = {}
  /\ phase' = "done"
  /\ UNCHANGED <<resume, pos, batch, items, present, named, starved>>
  /\ Idle

\* `entry?` yields the error and ends the stream; a process that is gone has
\* no directory to read any more.
ReadTidsFails ==
  /\ phase = "listing"
  /\ batch = <<>>
  /\ items' = Append(items, Err(IF live = {} THEN "NotFound" ELSE "Io"))
  /\ phase' = "ended"
  /\ UNCHANGED <<resume, pos, batch, present, named, starved>>
  /\ Idle

\* i32::from_str refuses the name.
SkipName ==
  /\ phase = "listing"
  /\ batch # <<>> /\ Head(batch) = Dot
  /\ batch' = Tail(batch)
  /\ UNCHANGED <<phase, resume, pos, items, present, named, starved>>
  /\ Idle

\* The consumer drops the stream.
DropStream ==
  /\ phase \in {"opening", "listing"}
  /\ phase' = "ended"
  /\ UNCHANGED <<resume, pos, batch, items, present, named, starved>>
  /\ Idle

-----------------------------------------------------------------------------
(***************************************************************************)
(* Task::from_process_at, for the next name of the directory or for the    *)
(* tid that task_from_tid was called with.                                 *)
(***************************************************************************)
\* task_from_tid; task_main_thread calls it with the pid.
TaskFromTid(n) ==
  /\ phase = "none"
  /\ phase' = "looking"
  /\ batch' = <<n>>
  /\ UNCHANGED <<resume, pos, items, present, named, starved>>
  /\ Idle

Opening == phase \in {"listing", "looking"} /\ batch # <<>> /\ Head(batch) # Dot

\* Where from_process_at goes on: in the stream or back at the caller.
Continue ==
  /\ batch' = Tail(batch)
  /\ phase' = IF phase = "listing" THEN "listing" ELSE "ended"

\* Mutant: the directory is looked up under the root, not under the process.
OpenUnderRoot ==
  /\ Opening
  /\ \E t \in IF Holder(Head(batch)) = {} THEN {Stranger} ELSE Holder(Head(batch)) :
       items' = Append(items, Ok([tid |-> Head(batch), thread |-> t]))
  /\ Continue
  /\ UNCHANGED <<resume, pos, present, named, starved>>
  /\ Idle

\* The directory of whatever thread of the process has the tid now.
OpenTask ==
  /\ Opening
  /\ \E t \in Holder(Head(batch)) :
       items' = Append(items, Ok([tid |-> Head(batch), thread |-> t]))
  /\ Continue
  /\ UNCHANGED <<resume, pos, present, named, starved>>
  /\ Idle

\* The open fails: no thread has the tid any more, or the program is out of
\* files.
OpenErrors ==
  {"Io"} \cup (IF Opening /\ Holder(Head(batch)) = {} THEN {"NotFound"} ELSE {})

\* Mutant: the first thread without a Task ends the stream.
SkipEnds ==
  /\ Opening /\ phase = "listing"
  /\ \E e \in OpenErrors : starved' = (starved \/ e = "Io")
  /\ batch' = <<>>
  /\ phase' = "done"
  /\ UNCHANGED <<resume, pos, items, present, named>>
  /\ Idle

\* Mutant: the directory is read again from its start.
SkipRewinds ==
  /\ Opening /\ phase = "listing"
  /\ \E e \in OpenErrors : starved' = (starved \/ e = "Io")
  /\ batch' = <<>>
  /\ pos' = 0
  /\ UNCHANGED <<phase, resume, items, present, named>>
  /\ Idle

\* Mutant: the open is tried again.
SkipRetries ==
  /\ Opening /\ phase = "listing"
  /\ \E e \in OpenErrors : starved' = (starved \/ e = "Io")
  /\ UNCHANGED <<phase, batch, resume, pos, items, present, named>>
  /\ Idle

\* `let Ok(task)` drops the error, and the stream goes on.
SkipTask ==
  /\ Opening /\ phase = "listing"
  /\ \E e \in OpenErrors : starved' = (starved \/ e = "Io")
  /\ Continue
  /\ UNCHANGED <<resume, pos, items, present, named>>
  /\ Idle

\* task_from_tid returns the error.
LookupFails ==
  /\ Opening /\ phase = "looking"
  /\ \E e \in OpenErrors : items' = Append(items, Err(e))
  /\ Continue
  /\ UNCHANGED <<resume, pos, present, named, starved>>
  /\ Idle

-----------------------------------------------------------------------------
(***************************************************************************)
(* Readers of the last Task.                                               *)
(***************************************************************************)
HasTask == items # <<>> /\ IsOk(Last(items))
Subject == Last(items).ok

Call(o) ==
  /\ call = NoCall
  /\ HasTask
  /\ call' = [op |-> o, step |-> "opening"]
  /\ answer' = Pending
  /\ UNCHANGED <<threadVars, listVars>>

Finish(r) == call' = NoCall /\ answer' = r

OpenFile ==
  /\ call.step = "opening"
  /\ \/ Subject.thread \in live /\ call' = [call EXCEPT !.step = "reading"] /\ UNCHANGED answer
     \/ Subject.thread \notin live /\ Finish(Err("NotFound"))
     \/ Finish(Err("Io"))
  /\ UNCHANGED <<threadVars, listVars>>

\* Mutant: the file is read of the thread that has the tid now.
ReadByTid ==
  /\ call.step = "reading"
  /\ \E t \in Holder(Subject.tid) : Finish(Ok([thread |-> t]))
  /\ UNCHANGED <<threadVars, listVars>>

\* The text of children, of a thread that has none.
NoChildren == [children |-> {}]

ReadFile ==
  /\ call.step = "reading"
  /\ Subject.thread \in live
  /\ \/ Finish(Ok([thread |-> Subject.thread]))
     \/ call.op = "children" /\ Finish(Ok(NoChildren))
  /\ UNCHANGED <<threadVars, listVars>>

\* What a file says that was opened before its thread ended.  A read of stat
\* fails with ESRCH, and wrap_io_error makes it NotFound; children is empty.
AfterEnd(o) == IF o = "stat" THEN Err("NotFound") ELSE Ok(NoChildren)

ReadAfterEnd ==
  /\ call.step = "reading"
  /\ Subject.thread \notin live
  /\ Finish(AfterEnd(call.op))
  /\ UNCHANGED <<threadVars, listVars>>

Cancel ==
  /\ call # NoCall
  /\ Finish(Pending)
  /\ UNCHANGED <<threadVars, listVars>>

-----------------------------------------------------------------------------
ListStep ==
  \/ OpenDir \/ ReadTids \/ TidsEnd \/ ReadTidsFails \/ SkipName
  \/ OpenTask \/ SkipTask \/ LookupFails

ReadStep == OpenFile \/ ReadFile \/ ReadAfterEnd

TasksNext ==
  \/ \E n \in Tids : Clone(n)
  \/ \E t \in live : End(t)
  \/ Tasks
  \/ \E n \in Tids : TaskFromTid(n)
  \/ ListStep
  \/ DropStream
  \/ \E o \in Readers : Call(o)
  \/ ReadStep
  \/ Cancel

TasksSpec == TasksInit /\ [][TasksNext]_vars

\* The consumer polls the stream whenever it is not waiting for a reader, and
\* I/O completes.  It may call readers again and again, but not for ever.
FairTasksSpec == TasksSpec /\ SF_vars(ListStep) /\ WF_vars(ReadStep)

-----------------------------------------------------------------------------
(***************************************************************************)
(* Properties.                                                             *)
(***************************************************************************)
Item == [tid : Tids, thread : 1..MaxThreads]

\* Type invariant.
TasksTypeOK ==
  /\ live \subseteq 1..Len(tid)
  /\ tid \in Seq(Tids)
  /\ phase \in {"none", "opening", "listing", "looking", "done", "ended"}
  /\ resume \in Tids \cup {NoTid}
  /\ pos \in Nat
  /\ batch \in Seq(Tids \cup {Dot})
  /\ \A k \in 1..Len(items) : items[k] \in ResultOf(Item, {"NotFound", "Io"})
  /\ call \in {NoCall} \cup [op : Readers, step : {"opening", "reading"}]
  /\ present \cup named \subseteq 1..Len(tid)

Yielded == {k \in 1..Len(items) : IsOk(items[k])}
YieldedThreads == {items[k].ok.thread : k \in Yielded}

\* Every Task is of a thread of the process it was asked from, of the thread
\* that had its tid when it was opened, and with the pid for a tid it is the
\* main thread: though tids pass to other processes and to other threads.
TasksOfProcess ==
  \A k \in Yielded :
    LET t == items[k].ok.thread
    IN  t # Stranger /\ tid[t] = items[k].ok.tid /\ (tid[t] = Pid => t = Leader)

\* A listing that comes to its end with files enough has a Task for every
\* thread that was named and is still live, whatever ended in between; and
\* for all threads that were there at the start, if none of them has ended.
TasksNoneMissed ==
  phase = "done" /\ ~starved =>
    /\ named \cap live \subseteq YieldedThreads
    /\ present \subseteq live => present \subseteq YieldedThreads

\* A tid of the process has passed from one of its threads to another.
Reused == \E t, u \in 1..Len(tid) : t # u /\ tid[t] = tid[u]

\* No thread is yielded twice, unless a tid was used again in the process.
TasksNoneTwice ==
  ~Reused =>
    \A j, k \in Yielded : j # k => items[j].ok.thread # items[k].ok.thread

\* A reader of a Task tells of that Task's thread, and only while it lives:
\* never of a thread that has taken over its tid.  After its end stat() is
\* NotFound and nothing else, children() is that or a list of none, as of a
\* live thread without children; and NotFound is never said of a live thread.
TaskReadsOwn ==
  [][\A o \in Readers :
       call.op = o /\ answer' # Pending /\ call.step # "none" =>
         \/ answer' = Ok([thread |-> Subject.thread]) /\ Subject.thread \in live
         \/ answer' = Err("NotFound") /\ Subject.thread \notin live
         \/ answer' = Err("Io") /\ call.step = "opening"
         \/ answer' = Ok(NoChildren) /\ o = "children"]_vars

\* A listing that is polled ends, with finitely many threads in the process.
TasksEnd == phase \in {"opening", "listing"} ~> phase \in {"done", "ended"}
=============================================================================

----------------------------- MODULE SyncBridge -----------------------------
(***************************************************************************)
(* execute_future_from_sync (src/runtime.rs) and the one future the crate  *)
(* drives with it: boot_time_secs (src/system_info.rs), which opens        *)
(* /proc/stat, reads it to the end and parses it (AsyncCurrentSI,          *)
(* src/lib.rs).  A call blocks its thread until that future has resolved.  *)
(*                                                                         *)
(* External: tokio.  A multi-thread runtime has a pool of threads; a       *)
(* worker is a job that keeps one of them, file I/O is a job that keeps    *)
(* one until it is done, and jobs wait in a queue while all are busy.      *)
(* block_in_place leaves the worker's core for another thread and queues   *)
(* that thread's job; if no thread has taken the core when the call ends,  *)
(* the caller takes it back.  A current-thread runtime has one worker, on  *)
(* the thread that runs it; a runtime of a flavour that the code does not  *)
(* know is taken to be like it.  Where io_uring is used I/O needs no       *)
(* thread.  A panic ends the task or the thread that made the call, not    *)
(* the worker.                                                             *)
(***************************************************************************)
EXTENDS Integers, FiniteSets, ProcResult, Sequences

CONSTANTS
  Callers,      \* tasks, or threads, that make one blocking call each
  Others,       \* tasks of the same runtime, each waiting for one turn
  Workers,      \* the workers of a multi-thread runtime
  Sole,         \* the worker of a current-thread runtime
  Limits        \* the values of max_blocking_threads

ASSUME BridgeAssumption ==
  /\ IsFiniteSet(Callers) /\ IsFiniteSet(Workers)
  /\ Sole \in Workers /\ Callers \cap Workers = {}
  /\ Limits \subseteq Nat

VARIABLES
  flavor,     \* RuntimeFlavor of the runtime the callers run in, one unknown, or "none"
  limit,      \* its max_blocking_threads
  ring,       \* file I/O goes through io_uring
  core,       \* core[w]: worker w is up on a thread, blocked in a call, in its slot, or absent
  queue,      \* jobs that wait for a thread of the pool: workers and I/O of callers
  running,    \* the callers whose I/O keeps a thread of the pool
  pc,         \* where c's call is
  file,       \* file[c]: /proc/stat is open
  at,         \* at[c]: the worker c's task called from
  outcome,    \* outcome[c]: the result of the call
  waits       \* the other tasks that have not had their turn

settings == <<flavor, limit, ring>>
poolVars == <<core, queue, running>>
callVars == <<pc, file, at, outcome>>
vars == <<settings, poolVars, callVars, waits>>

Panic == [panic |-> TRUE]

InCall(c) == pc[c] \in {"building", "polling", "waiting", "returning"}

\* A caller keeps its own thread while it waits, which is one of the pool if
\* the call came from a worker of a multi-thread runtime.
Busy ==
  Cardinality({w \in Workers : core[w] = "up"})
    + Cardinality({c \in Callers : InCall(c)})
    + Cardinality(running)

BridgeInit ==
  /\ flavor \in {"current_thread", "multi_thread", "other", "none"}
  /\ limit \in Limits
  /\ ring \in BOOLEAN
  /\ core = [w \in Workers |->
       IF flavor = "multi_thread" \/ (flavor # "none" /\ w = Sole)
       THEN "up" ELSE "absent"]
  /\ queue = <<>>
  /\ running = {}
  /\ pc = [c \in Callers |-> "ready"]
  /\ file = [c \in Callers |-> FALSE]
  /\ at = [c \in Callers |-> Sole]
  /\ outcome = [c \in Callers |-> Pending]
  /\ waits = Others

-----------------------------------------------------------------------------
\* External: a worker that is up gives another task its turn.
Turn(o) ==
  /\ o \in waits
  /\ \E w \in Workers : core[w] = "up"
  /\ waits' = waits \ {o}
  /\ UNCHANGED <<settings, poolVars, callVars>>

\* External: a free thread of the pool takes a job.  A worker's job that finds
\* the core taken back ends at once.
TakeJob ==
  /\ queue # <<>>
  /\ Busy < Cardinality(Workers) + limit
  /\ queue' = Tail(queue)
  /\ LET j == Head(queue) IN
       \/ /\ j \in Workers
          /\ core' = IF core[j] = "slot" THEN [core EXCEPT ![j] = "up"] ELSE core
          /\ UNCHANGED running
       \/ /\ j \in Callers
          /\ running' = running \cup {j}
          /\ UNCHANGED core
  /\ UNCHANGED <<settings, callVars, waits>>

-----------------------------------------------------------------------------
(***************************************************************************)
(* execute_future_from_sync, one action for each arm.                      *)
(***************************************************************************)
\* Handle::try_current() fails: the caller is a thread of its own.
CallOutside(c) ==
  /\ flavor = "none"
  /\ pc[c] = "ready"
  /\ pc' = [pc EXCEPT ![c] = "building"]
  /\ UNCHANGED <<settings, poolVars, file, at, outcome, waits>>

\* A scoped thread is spawned and joined: the only worker is blocked.
CallOnOnlyWorker(c) ==
  /\ flavor = "current_thread"
  /\ pc[c] = "ready"
  /\ core[Sole] = "up"
  /\ core' = [core EXCEPT ![Sole] = "blocked"]
  /\ pc' = [pc EXCEPT ![c] = "building"]
  /\ UNCHANGED <<settings, queue, running, file, at, outcome, waits>>

\* Mutant: handle.block_on(future) without block_in_place.
CallKeepsWorker(c) ==
  /\ flavor = "multi_thread"
  /\ pc[c] = "ready"
  /\ \E w \in Workers :
       /\ core[w] = "up"
       /\ core' = [core EXCEPT ![w] = "blocked"]
       /\ at' = [at EXCEPT ![c] = w]
  /\ pc' = [pc EXCEPT ![c] = "polling"]
  /\ UNCHANGED <<settings, queue, running, file, outcome, waits>>

\* block_in_place hands the core over; handle.block_on drives the future on
\* the caller's thread.
CallInPlace(c) ==
  /\ flavor = "multi_thread"
  /\ pc[c] = "ready"
  /\ \E w \in Workers :
       /\ core[w] = "up"
       /\ core' = [core EXCEPT ![w] = "slot"]
       /\ queue' = Append(queue, w)
       /\ at' = [at EXCEPT ![c] = w]
  /\ pc' = [pc EXCEPT ![c] = "polling"]
  /\ UNCHANGED <<settings, running, file, outcome, waits>>

\* unreachable!: nothing is driven.
CallUnsupported(c) ==
  /\ flavor = "other"
  /\ pc[c] = "ready"
  /\ core[Sole] = "up"
  /\ pc' = [pc EXCEPT ![c] = "done"]
  /\ outcome' = [outcome EXCEPT ![c] = Panic]
  /\ UNCHANGED <<settings, poolVars, file, at, waits>>

Resolve(c, r) ==
  /\ pc' = [pc EXCEPT ![c] = "returning"]
  /\ file' = [file EXCEPT ![c] = FALSE]
  /\ outcome' = [outcome EXCEPT ![c] = r]

\* Builder::build: a runtime of the call's own.  It takes files, and a failure
\* is a panic, in the spawned thread too: its join() is expected to succeed.
Build(c) ==
  /\ pc[c] = "building"
  /\ \/ pc' = [pc EXCEPT ![c] = "polling"] /\ UNCHANGED <<file, outcome>>
     \/ Resolve(c, Panic)
  /\ UNCHANGED <<settings, poolVars, at, waits>>

\* Mutant: the future is spawned on the caller's runtime and waited for.
DrivenByRuntime == \E w \in Workers : core[w] = "up"

\* The thread that drives the future is blocked in block_on and does nothing
\* else: it polls the future whenever it can go on.
Driven == TRUE

\* The runtime whose pool does the file I/O: the caller's, or the backup one,
\* which has no other use and so a thread to spare.
OnCallersPool == flavor = "multi_thread" /\ ~ring

\* The future is polled and submits its next operation: the open of stat, or
\* the read.
PollFuture(c) ==
  /\ pc[c] = "polling"
  /\ Driven
  /\ pc' = [pc EXCEPT ![c] = "waiting"]
  /\ queue' = IF OnCallersPool THEN Append(queue, c) ELSE queue
  /\ UNCHANGED <<settings, core, running, file, at, outcome, waits>>

\* Mutant: the result of the open is unwrapped.
IoDoneUnwraps(c) ==
  /\ pc[c] = "waiting"
  /\ OnCallersPool => c \in running
  /\ running' = running \ {c}
  /\ \/ /\ ~file[c]
        /\ \/ /\ file' = [file EXCEPT ![c] = TRUE]
              /\ pc' = [pc EXCEPT ![c] = "polling"]
              /\ UNCHANGED outcome
           \/ Resolve(c, Panic)
     \/ /\ file[c]
        /\ \/ Resolve(c, Ok("btime"))
           \/ \E e \in {"Io", "Other"} : Resolve(c, Err(e))
  /\ UNCHANGED <<settings, core, queue, at, waits>>

\* The operation completes and the future is polled with its result: after
\* the open comes the read, after the read the text is parsed.  An open that
\* fails has its error wrapped, a read that fails has not (`?`).
IoDone(c) ==
  /\ pc[c] = "waiting"
  /\ OnCallersPool => c \in running
  /\ running' = running \ {c}
  /\ \/ /\ ~file[c]
        /\ \/ /\ file' = [file EXCEPT ![c] = TRUE]
              /\ pc' = [pc EXCEPT ![c] = "polling"]
              /\ UNCHANGED outcome
           \/ \E e \in {"NotFound", "Io"} : Resolve(c, Err(e))
     \/ /\ file[c]
        /\ \/ Resolve(c, Ok("btime"))
           \/ \E e \in {"Io", "Other"} : Resolve(c, Err(e))
  /\ UNCHANGED <<settings, core, queue, at, waits>>

\* Mutant: the core is not taken back, though nobody has taken it.
ReturnForgetsCore(c) ==
  /\ pc[c] = "returning"
  /\ pc' = [pc EXCEPT ![c] = "done"]
  /\ UNCHANGED <<settings, poolVars, file, at, outcome, waits>>

\* The thread is joined, or block_in_place ends and takes the core back if no
\* thread has it; a backup runtime is dropped.  The caller's task goes on.
Return(c) ==
  /\ pc[c] = "returning"
  /\ pc' = [pc EXCEPT ![c] = "done"]
  /\ core' = IF flavor # "none" /\ core[at[c]] \in {"blocked", "slot"}
             THEN [core EXCEPT ![at[c]] = "up"] ELSE core
  /\ UNCHANGED <<settings, queue, running, file, at, outcome, waits>>

-----------------------------------------------------------------------------
CallStep(c) == Build(c) \/ PollFuture(c) \/ Return(c)

BridgeNext ==
  \/ \E o \in Others : Turn(o)
  \/ TakeJob
  \/ \E c \in Callers :
       \/ CallOutside(c) \/ CallOnOnlyWorker(c) \/ CallInPlace(c) \/ CallUnsupported(c)
       \/ CallStep(c) \/ IoDone(c)

BridgeSpec == BridgeInit /\ [][BridgeNext]_vars

\* Threads run, and a worker that is up gives every task its turn.  Nothing is
\* assumed of I/O here.
FairBridgeSpec ==
  /\ BridgeSpec
  /\ WF_vars(TakeJob)
  /\ \A o \in Others : WF_vars(Turn(o))
  /\ \A c \in Callers : WF_vars(CallStep(c))

-----------------------------------------------------------------------------
(***************************************************************************)
(* Properties.                                                             *)
(***************************************************************************)
\* Type invariant.  The pool never has more threads than it may, and a core is
\* never lost: it is up, in a call, or in its slot with a thread to come.
BridgeTypeOK ==
  /\ pc \in [Callers -> {"ready", "building", "polling", "waiting", "returning", "done"}]
  /\ at \in [Callers -> Workers]
  /\ outcome \in [Callers -> ResultOf({"btime"}, {"NotFound", "Io", "Other"}) \cup {Pending, Panic}]
  /\ running \subseteq {c \in Callers : pc[c] = "waiting"}
  /\ flavor = "multi_thread" => Busy <= Cardinality(Workers) + limit
  /\ \A w \in Workers :
       /\ core[w] \in {"up", "blocked", "slot", "absent"}
       /\ core[w] = "slot" => \E k \in 1..Len(queue) : queue[k] = w
       /\ core[w] = "blocked" => \E c \in Callers : InCall(c) /\ at[c] = w

IoCompletes == \A c \in Callers : WF_vars(IoDone(c))

\* The pool has a thread for every caller, and one more, besides its workers.
ThreadForIo == OnCallersPool => limit > Cardinality(Callers)

\* A call ends, on every flavour, if its I/O does: on a multi-thread runtime
\* whose file I/O needs threads, if max_blocking_threads is above the number
\* of callers.
BridgeEnds ==
  ThreadForIo /\ IoCompletes => \A c \in Callers : InCall(c) ~> pc[c] = "done"

\* A call panics only before its future is first polled, where no runtime could
\* be built or the flavour is unknown, and never on a multi-thread runtime.
\* Whatever becomes of its I/O, a future that is driven resolves to a result.
PanicsOnlyUndriven ==
  [][\A c \in Callers :
       outcome[c] # Panic /\ outcome'[c] = Panic =>
         flavor # "multi_thread" /\ pc[c] \in {"ready", "building"}]_vars

\* Callers keep a thread each and, without io_uring, their I/O one more.  A
\* worker's job is in the queue before the I/O of the call that queued it.
ThreadForWorker ==
  Cardinality(Workers) + limit >=
    IF ring THEN Cardinality(Callers) + 1 ELSE 2 * Cardinality(Callers)

\* The other tasks of a multi-thread runtime have their turns although the I/O
\* that callers wait for never completes, if there are threads for the callers,
\* their I/O and a worker.  Those of a current-thread runtime have theirs when
\* the I/O completes, although a call may panic for want of a backup runtime.
OthersRun ==
  /\ flavor = "multi_thread" /\ ThreadForWorker => \A o \in Others : <>(o \notin waits)
  /\ flavor = "current_thread" /\ IoCompletes => \A o \in Others : <>(o \notin waits)
=============================================================================

-------------------------- MODULE SyncBridgeProofs --------------------------
(***************************************************************************)
(* Proofs about SyncBridge: whatever the flavour of the runtime and the    *)
(* size of its pool, and however many tasks make blocking calls, no worker *)
(* is lost and the pool is never larger than it may be.                    *)
(***************************************************************************)
EXTENDS SyncBridge, FiniteSetTheorems, TLAPS

Steps == {"ready", "building", "polling", "waiting", "returning", "done"}
Outcomes == ResultOf({"btime"}, {"NotFound", "Io", "Other"}) \cup {Pending, Panic}

Shapes ==
  /\ flavor \in {"current_thread", "multi_thread", "other", "none"}
  /\ limit \in Limits
  /\ core \in [Workers -> {"up", "blocked", "slot", "absent"}]
  /\ queue \in Seq(Workers \cup Callers)
  /\ pc \in [Callers -> Steps]
  /\ file \in [Callers -> BOOLEAN]
  /\ at \in [Callers -> Workers]
  /\ outcome \in [Callers -> Outcomes]
  /\ running \subseteq {c \in Callers : pc[c] = "waiting"}

\* What the flavour rules out: only block_in_place leaves a core in its slot,
\* only a call from the sole worker blocks one, and that one is the call's; no
\* call from a multi-thread runtime builds one.
Flavours ==
  /\ flavor # "multi_thread" => \A c \in Callers : at[c] = Sole
  /\ flavor = "none" => \A w \in Workers : core[w] = "absent"
  /\ \A w \in Workers : core[w] = "blocked" => flavor = "current_thread"
  /\ \A c \in Callers : pc[c] = "building" => flavor # "multi_thread"

\* The job of an operation is in the queue once, while its caller waits and has
\* no thread for it yet.
Queued ==
  \A j \in 1..Len(queue) : queue[j] \in Callers =>
    /\ OnCallersPool /\ pc[queue[j]] = "waiting" /\ queue[j] \notin running
    /\ \A k \in 1..Len(queue) : queue[k] = queue[j] => k = j

\* A core in its slot has a job in the queue; a blocked one a call to end it.
CoreKept ==
  \A w \in Workers :
    /\ core[w] = "slot" => \E k \in 1..Len(queue) : queue[k] = w
    /\ core[w] = "blocked" => \E c \in Callers : InCall(c) /\ at[c] = w

PoolBound == flavor = "multi_thread" => Busy <= Cardinality(Workers) + limit

BridgeInv == Shapes /\ Flavours /\ Queued /\ CoreKept /\ PoolBound

-----------------------------------------------------------------------------
(* Threads of the pool.                                                    *)

Up == {w \in Workers : core[w] = "up"}
Inside == {c \in Callers : InCall(c)}

LEMMA Counts ==
  ASSUME running \subseteq Callers
  PROVE  /\ IsFiniteSet(Up) /\ IsFiniteSet(Inside) /\ IsFiniteSet(running)
         /\ Cardinality(Up) \in Nat /\ Cardinality(Inside) \in Nat
         /\ Cardinality(running) \in Nat /\ Cardinality(Workers) \in Nat
         /\ Busy = Cardinality(Up) + Cardinality(Inside) + Cardinality(running)
<1>1. IsFiniteSet(Up) /\ IsFiniteSet(Inside) /\ IsFiniteSet(running)
  BY BridgeAssumption, FS_Subset DEF Up, Inside
<1> QED
  BY <1>1, BridgeAssumption, FS_CardinalityType DEF Busy, Up, Inside

LEMMA Distinct ==
  /\ \A w \in Workers : w \notin Callers
  /\ Sole \in Workers
  /\ limit \in Limits => limit \in Nat
BY BridgeAssumption

\* Nothing that the invariant is about changes.
LEMMA Still ==
  ASSUME BridgeInv, UNCHANGED <<settings, poolVars, callVars>>
  PROVE  BridgeInv'
BY DEF BridgeInv, settings, poolVars, callVars, Shapes, Flavours, Queued, OnCallersPool,
       CoreKept, InCall, PoolBound, Busy

-----------------------------------------------------------------------------
(* The inductive invariant, action by action.                              *)

LEMMA BridgeInitOK == BridgeInit => BridgeInv
<1> SUFFICES ASSUME BridgeInit PROVE BridgeInv
  OBVIOUS
<1> USE DEF BridgeInit
<1>1. Shapes
  BY Distinct DEF Shapes, Steps, Outcomes
<1>2. Flavours /\ Queued /\ CoreKept
  BY DEF Flavours, Queued, CoreKept
<1>3. PoolBound
  <2> SUFFICES ASSUME flavor = "multi_thread" PROVE Busy <= Cardinality(Workers) + limit
    BY DEF PoolBound
  <2>1. Up = Workers /\ Inside = {} /\ running = {}
    BY DEF Up, Inside, InCall
  <2>2. Cardinality(Inside) = 0 /\ Cardinality(running) = 0
    BY <2>1, FS_EmptySet
  <2> QED
    BY <2>1, <2>2, Counts, Distinct
<1> QED
  BY <1>1, <1>2, <1>3 DEF BridgeInv

\* The queue loses its first job: the others keep their order.
LEMMA QueueTail ==
  ASSUME Shapes, queue # <<>>, queue' = Tail(queue)
  PROVE  /\ queue' \in Seq(Workers \cup Callers) /\ Head(queue) = queue[1]
         /\ Len(queue) \in Nat /\ 1 \in 1..Len(queue)
         /\ \A j \in 1..Len(queue') : /\ j + 1 \in 1..Len(queue) /\ j + 1 # 1
                                      /\ queue'[j] = queue[j + 1]
         /\ \A j \in 1..Len(queue) : j # 1 => /\ j - 1 \in 1..Len(queue')
                                              /\ queue'[j - 1] = queue[j]
<1>1. queue \in Seq(Workers \cup Callers)
  BY DEF Shapes
<1>2. Len(queue) \in Nat /\ Len(queue) # 0 /\ Len(queue') = Len(queue) - 1
  BY <1>1
<1> QED
  BY <1>1, <1>2

\* A job is added at the end.
LEMMA QueueAppend ==
  ASSUME Shapes, NEW x \in Workers \cup Callers, queue' = Append(queue, x)
  PROVE  /\ queue' \in Seq(Workers \cup Callers)
         /\ Len(queue) \in Nat /\ Len(queue') = Len(queue) + 1
         /\ queue'[Len(queue')] = x /\ Len(queue') \in 1..Len(queue')
         /\ \A j \in 1..Len(queue) : j \in 1..Len(queue') /\ queue'[j] = queue[j]
         /\ \A j \in 1..Len(queue') : j \in 1..Len(queue) \/ j = Len(queue')
BY DEF Shapes

\* A thread of the pool takes a job: there is room for it.
LEMMA TakeJobOK ==
  ASSUME BridgeInv, TakeJob
  PROVE  BridgeInv'
<1> USE DEF BridgeInv
<1> DEFINE job == Head(queue)
<1>1. /\ queue # <<>> /\ queue' = Tail(queue) /\ Busy < Cardinality(Workers) + limit
      /\ UNCHANGED <<flavor, limit, ring, pc, file, at, outcome>>
  BY DEF TakeJob, settings, callVars
<1>2. \/ /\ job \in Workers /\ UNCHANGED running
         /\ core' = IF core[job] = "slot" THEN [core EXCEPT ![job] = "up"] ELSE core
      \/ /\ job \in Callers /\ UNCHANGED core
         /\ running' = running \cup {job}
  BY DEF TakeJob
<1>3. /\ queue' \in Seq(Workers \cup Callers) /\ job = queue[1] /\ 1 \in 1..Len(queue)
      /\ \A j \in 1..Len(queue') : /\ j + 1 \in 1..Len(queue) /\ j + 1 # 1
                                   /\ queue'[j] = queue[j + 1]
      /\ \A j \in 1..Len(queue) : j # 1 => /\ j - 1 \in 1..Len(queue')
                                           /\ queue'[j - 1] = queue[j]
  BY <1>1, QueueTail
<1>4. running \subseteq Callers /\ limit \in Nat
  BY Distinct DEF Shapes
<1>5. job \in Callers => pc[job] = "waiting" /\ job \notin running
  BY <1>3 DEF Queued
<1>6. /\ core' \in [Workers -> {"up", "blocked", "slot", "absent"}]
      /\ running' \subseteq {c \in Callers : pc[c] = "waiting"}
  BY <1>2, <1>5 DEF Shapes
<1>7. Shapes'
  BY <1>1, <1>3, <1>6 DEF Shapes
<1>8. \A w \in Workers : core'[w] # core[w] => w = job /\ core[w] = "slot" /\ core'[w] = "up"
  BY <1>2 DEF Shapes
<1>9. Flavours'
  BY <1>1, <1>8 DEF Flavours
<1>10. Queued'
  <2> SUFFICES ASSUME NEW j \in 1..Len(queue'), queue'[j] \in Callers
               PROVE  /\ OnCallersPool /\ pc[queue'[j]] = "waiting" /\ queue'[j] \notin running'
                      /\ \A k \in 1..Len(queue') : queue'[k] = queue'[j] => k = j
    BY <1>1 DEF Queued, OnCallersPool
  <2>1. queue'[j] = queue[j + 1] /\ j + 1 \in 1..Len(queue) /\ j + 1 # 1
    BY <1>3
  <2>2. /\ OnCallersPool /\ pc[queue'[j]] = "waiting" /\ queue'[j] \notin running
        /\ \A k \in 1..Len(queue) : queue[k] = queue'[j] => k = j + 1
    BY <2>1 DEF Queued
  <2>3. queue'[j] # job
    BY <1>3, <2>1, <2>2
  <2>4. \A k \in 1..Len(queue') : queue'[k] = queue'[j] => k + 1 = j + 1
    BY <1>3, <2>2
  <2> QED
    BY <1>2, <2>2, <2>3, <2>4
<1>11. CoreKept'
  <2> SUFFICES ASSUME NEW w \in Workers
               PROVE  /\ core'[w] = "slot" => \E k \in 1..Len(queue') : queue'[k] = w
                      /\ core'[w] = "blocked" => \E c \in Callers : InCall(c) /\ at[c] = w
    BY <1>1 DEF CoreKept, InCall
  <2>1. ASSUME core'[w] = "slot" PROVE \E k \in 1..Len(queue') : queue'[k] = w
    <3>1. core[w] = "slot" /\ w # job
      BY <1>2, <1>8, <2>1, Distinct DEF Shapes
    <3>2. PICK k \in 1..Len(queue) : queue[k] = w
      BY <3>1 DEF CoreKept
    <3> QED
      BY <1>3, <3>1, <3>2
  <2>2. core'[w] = "blocked" => \E c \in Callers : InCall(c) /\ at[c] = w
    BY <1>8 DEF CoreKept
  <2> QED
    BY <2>1, <2>2
<1>12. PoolBound'
  <2>1. Inside' = Inside /\ running' \subseteq Callers
    BY <1>1, <1>6 DEF Inside, InCall
  <2>2. Cardinality(Up') + Cardinality(running') <= Cardinality(Up) + Cardinality(running) + 1
    <3>1. CASE UNCHANGED core
      <4>1. Up' = Up
        BY <3>1 DEF Up
      <4>2. Cardinality(running') <= Cardinality(running) + 1
        <5>1. CASE UNCHANGED running
          BY <1>4, <5>1, Counts
        <5>2. CASE job \in Callers /\ running' = running \cup {job}
          <6>1. Cardinality(running \cup {job}) = Cardinality(running) + 1
            BY <1>4, <1>5, <5>2, Counts, FS_AddElement
          <6> QED
            BY <1>4, <5>2, <6>1, Counts
        <5> QED
          BY <1>2, <5>1, <5>2
      <4>3. Cardinality(running') \in Nat
        BY <2>1, BridgeAssumption, FS_Subset, FS_CardinalityType
      <4> QED
        BY <1>4, <4>1, <4>2, <4>3, Counts
    <3>2. CASE core' = [core EXCEPT ![job] = "up"] /\ core[job] = "slot" /\ job \in Workers
      <4>1. Up' = Up \cup {job} /\ job \notin Up
        BY <3>2 DEF Up, Shapes
      <4>2. Cardinality(Up') = Cardinality(Up) + 1
        BY <1>4, <4>1, Counts, FS_AddElement
      <4>3. UNCHANGED running
        BY <1>2, <3>2, Distinct
      <4> QED
        BY <1>4, <4>2, <4>3, Counts
    <3> QED
      BY <1>2, <3>1, <3>2
  <2>3. /\ Busy' = Cardinality(Up') + Cardinality(Inside) + Cardinality(running')
        /\ Cardinality(Up') \in Nat /\ Cardinality(running') \in Nat
    BY <2>1, Counts, BridgeAssumption, FS_Subset, FS_CardinalityType DEF Busy, Up, Inside
  <2>4. Busy' <= Busy + 1 /\ Busy \in Nat /\ Busy' \in Nat
    BY <1>4, <2>2, <2>3, Counts
  <2> QED
    BY <1>1, <1>4, <2>4, Counts DEF PoolBound
<1> QED
  BY <1>7, <1>9, <1>10, <1>11, <1>12

\* A call begins where there is no pool of workers, or on the only worker.
LEMMA CallAloneOK ==
  ASSUME BridgeInv, NEW c \in Callers, CallOutside(c) \/ CallOnOnlyWorker(c)
  PROVE  BridgeInv'
<1> USE DEF BridgeInv
<1>1. /\ flavor # "multi_thread" /\ pc[c] = "ready" /\ pc' = [pc EXCEPT ![c] = "building"]
      /\ UNCHANGED <<flavor, limit, ring, queue, running, file, at, outcome>>
      /\ \/ UNCHANGED core
         \/ flavor = "current_thread" /\ core' = [core EXCEPT ![Sole] = "blocked"]
  BY DEF CallOutside, CallOnOnlyWorker, settings, poolVars
<1>2. \A d \in Callers : pc'[d] = pc[d] \/ (d = c /\ pc[d] = "ready" /\ pc'[d] = "building")
  BY <1>1 DEF Shapes
<1>3. \A d \in Callers : pc[d] = "waiting" => pc'[d] = "waiting"
  BY <1>2
<1>4. Shapes'
  <2>1. core' \in [Workers -> {"up", "blocked", "slot", "absent"}]
    BY <1>1 DEF Shapes
  <2>2. pc' \in [Callers -> Steps]
    BY <1>1 DEF Shapes, Steps
  <2>3. running \subseteq {d \in Callers : pc'[d] = "waiting"}
    BY <1>3 DEF Shapes
  <2> QED
    BY <1>1, <2>1, <2>2, <2>3 DEF Shapes
<1>5. Flavours' /\ PoolBound'
  BY <1>1 DEF Flavours, PoolBound, Shapes
<1>6. Queued'
  <2>1. OnCallersPool' = OnCallersPool
    BY <1>1 DEF OnCallersPool
  <2> QED
    BY <1>1, <1>3, <2>1 DEF Queued
<1>7. CoreKept'
  <2>1. \A d \in Callers : InCall(d) => InCall(d)'
    BY <1>2 DEF InCall
  <2>2. InCall(c)'
    BY <1>1 DEF InCall, Shapes
  <2>3. ASSUME NEW w \in Workers
        PROVE  /\ core'[w] = "slot" => \E k \in 1..Len(queue) : queue[k] = w
               /\ core'[w] = "blocked" => \E d \in Callers : InCall(d)' /\ at[d] = w
    <3>1. CASE core'[w] = core[w]
      BY <2>1, <3>1 DEF CoreKept
    <3>2. CASE core'[w] # core[w]
      <4>1. w = Sole /\ core'[w] = "blocked"
        BY <1>1, <3>2 DEF Shapes
      <4>2. at[c] = Sole
        BY <1>1 DEF Flavours
      <4> QED
        BY <2>2, <4>1, <4>2
    <3> QED
      BY <3>1, <3>2
  <2> QED
    BY <1>1, <2>3 DEF CoreKept
<1> QED
  BY <1>4, <1>5, <1>6, <1>7

\* A call from a runtime of an unknown flavour panics.
LEMMA CallUnsupportedOK ==
  ASSUME BridgeInv, NEW c \in Callers, CallUnsupported(c)
  PROVE  BridgeInv'
<1> USE DEF BridgeInv
<1>1. /\ flavor = "other" /\ pc[c] = "ready" /\ pc' = [pc EXCEPT ![c] = "done"]
      /\ outcome' = [outcome EXCEPT ![c] = Panic]
      /\ UNCHANGED <<flavor, limit, ring, core, queue, running, file, at>>
  BY DEF CallUnsupported, settings, poolVars
<1>2. \A d \in Callers : pc'[d] = IF d = c THEN "done" ELSE pc[d]
  BY <1>1 DEF Shapes
<1>3. \A d \in Callers : pc[d] = "waiting" => pc'[d] = "waiting"
  BY <1>1, <1>2
<1>4. Shapes'
  <2>1. pc' \in [Callers -> Steps] /\ outcome' \in [Callers -> Outcomes]
    BY <1>1 DEF Shapes, Steps, Outcomes
  <2>2. running \subseteq {d \in Callers : pc'[d] = "waiting"}
    BY <1>3 DEF Shapes
  <2> QED
    BY <1>1, <2>1, <2>2 DEF Shapes
<1>5. Flavours' /\ PoolBound'
  BY <1>1 DEF Flavours, PoolBound
<1>6. Queued'
  <2>1. OnCallersPool' = OnCallersPool
    BY <1>1 DEF OnCallersPool
  <2> QED
    BY <1>1, <1>3, <2>1 DEF Queued
<1>7. CoreKept'
  <2>1. \A d \in Callers : InCall(d) => InCall(d)'
    BY <1>1, <1>2 DEF InCall
  <2> QED
    BY <1>1, <2>1 DEF CoreKept
<1> QED
  BY <1>4, <1>5, <1>6, <1>7

\* A call begins on a worker of a pool: its thread leaves the core for another.
LEMMA CallInPlaceOK ==
  ASSUME BridgeInv, NEW c \in Callers, CallInPlace(c)
  PROVE  BridgeInv'
<1> USE DEF BridgeInv
<1>1. /\ flavor = "multi_thread" /\ pc[c] = "ready" /\ pc' = [pc EXCEPT ![c] = "polling"]
      /\ UNCHANGED <<flavor, limit, ring, running, file, outcome>>
  BY DEF CallInPlace, settings
<1>2. PICK w \in Workers : /\ core[w] = "up" /\ core' = [core EXCEPT ![w] = "slot"]
                           /\ queue' = Append(queue, w) /\ at' = [at EXCEPT ![c] = w]
  BY DEF CallInPlace
<1>3. \A d \in Callers : pc[d] = "waiting" => pc'[d] = "waiting"
  BY <1>1 DEF Shapes
<1>4. /\ queue' \in Seq(Workers \cup Callers)
      /\ queue'[Len(queue')] = w /\ Len(queue') \in 1..Len(queue')
      /\ \A j \in 1..Len(queue) : j \in 1..Len(queue') /\ queue'[j] = queue[j]
      /\ \A j \in 1..Len(queue') : j \in 1..Len(queue) \/ j = Len(queue')
  BY <1>2, QueueAppend
<1>5. Shapes'
  <2>1. core' \in [Workers -> {"up", "blocked", "slot", "absent"}] /\ at' \in [Callers -> Workers]
    BY <1>2 DEF Shapes
  <2>2. pc' \in [Callers -> Steps]
    BY <1>1 DEF Shapes, Steps
  <2>3. running \subseteq {d \in Callers : pc'[d] = "waiting"}
    BY <1>3 DEF Shapes
  <2> QED
    BY <1>1, <1>4, <2>1, <2>2, <2>3 DEF Shapes
<1>6. Flavours'
  BY <1>1, <1>2 DEF Flavours, Shapes
<1>7. Queued'
  <2>1. OnCallersPool' = OnCallersPool
    BY <1>1 DEF OnCallersPool
  <2>2. \A j \in 1..Len(queue') : queue'[j] \in Callers =>
          j \in 1..Len(queue) /\ queue'[j] = queue[j]
    BY <1>4, Distinct
  <2> QED
    BY <1>1, <1>3, <2>1, <2>2 DEF Queued
<1>8. CoreKept'
  <2>1. \A v \in Workers : core'[v] # "blocked"
    BY <1>1, <1>2 DEF Flavours, Shapes
  <2>2. \A v \in Workers : core'[v] = "slot" => v = w \/ core[v] = "slot"
    BY <1>2 DEF Shapes
  <2>3. \A v \in Workers : core'[v] = "slot" => \E k \in 1..Len(queue') : queue'[k] = v
    BY <1>4, <2>2 DEF CoreKept
  <2> QED
    BY <2>1, <2>3 DEF CoreKept
<1>9. PoolBound'
  <2>1. Up' = Up \ {w} /\ w \in Up
    BY <1>2 DEF Up, Shapes
  <2>2. Inside' = Inside \cup {c} /\ c \notin Inside
    BY <1>1 DEF Inside, InCall, Shapes
  <2>3. running \subseteq Callers
    BY DEF Shapes
  <2>4. Cardinality(Up') = Cardinality(Up) - 1
    BY <2>1, <2>3, Counts, FS_RemoveElement
  <2>5. Cardinality(Inside') = Cardinality(Inside) + 1
    BY <2>2, <2>3, Counts, FS_AddElement
  <2>6. Busy' = Cardinality(Up') + Cardinality(Inside') + Cardinality(running)
    BY <1>1 DEF Busy, Up, Inside
  <2>7. Busy' = Busy
    BY <2>3, <2>4, <2>5, <2>6, Counts
  <2> QED
    BY <1>1, <2>7 DEF PoolBound
<1> QED
  BY <1>5, <1>6, <1>7, <1>8, <1>9

\* A step within a call leaves the workers and the call's place alone.
LEMMA WithinCall ==
  ASSUME BridgeInv, NEW c \in Callers, InCall(c),
         NEW s \in {"polling", "waiting", "returning"}, pc' = [pc EXCEPT ![c] = s],
         UNCHANGED <<settings, core, at>>
  PROVE  /\ \A d \in Callers : pc'[d] = IF d = c THEN s ELSE pc[d]
         /\ pc' \in [Callers -> Steps] /\ Flavours'
         /\ OnCallersPool' = OnCallersPool
         /\ \A w \in Workers : core'[w] = "blocked" => \E d \in Callers : InCall(d)' /\ at'[d] = w
         /\ running' \subseteq running => PoolBound'
<1> USE DEF BridgeInv, settings
<1>1. \A d \in Callers : pc'[d] = IF d = c THEN s ELSE pc[d]
  BY DEF Shapes
<1>2. pc' \in [Callers -> Steps] /\ Flavours' /\ OnCallersPool' = OnCallersPool
  BY DEF Shapes, Steps, Flavours, OnCallersPool
<1>3. \A d \in Callers : InCall(d)' <=> InCall(d)
  BY <1>1 DEF InCall
<1>4. \A w \in Workers : core'[w] = "blocked" => \E d \in Callers : InCall(d)' /\ at'[d] = w
  BY <1>3 DEF CoreKept
<1>5. ASSUME running' \subseteq running, flavor = "multi_thread"
      PROVE  Busy' <= Cardinality(Workers) + limit
  <2>1. running \subseteq Callers
    BY DEF Shapes
  <2>2. Up' = Up /\ Inside' = Inside
    BY <1>3 DEF Up, Inside
  <2>3. Cardinality(running') <= Cardinality(running) /\ Cardinality(running') \in Nat
    BY <1>5, <2>1, Counts, FS_Subset, FS_CardinalityType
  <2>4. Busy' = Cardinality(Up) + Cardinality(Inside) + Cardinality(running')
    BY <2>2 DEF Busy, Up, Inside
  <2>5. Busy' <= Busy /\ Busy' \in Nat /\ Busy \in Nat
    BY <2>1, <2>3, <2>4, Counts
  <2>6. limit \in Nat
    BY Distinct DEF Shapes
  <2> QED
    BY <1>5, <2>1, <2>5, <2>6, Counts DEF PoolBound
<1> QED
  BY <1>1, <1>2, <1>4, <1>5 DEF PoolBound

\* The future is polled and hands its operation to the pool.
LEMMA PollFutureOK ==
  ASSUME BridgeInv, NEW c \in Callers, PollFuture(c)
  PROVE  BridgeInv'
<1> USE DEF BridgeInv
<1>1. /\ pc[c] = "polling" /\ pc' = [pc EXCEPT ![c] = "waiting"] /\ InCall(c)
      /\ queue' = IF OnCallersPool THEN Append(queue, c) ELSE queue
      /\ UNCHANGED <<settings, flavor, limit, core, running, file, at, outcome>>
  BY DEF PollFuture, settings, InCall
<1>2. /\ \A d \in Callers : pc'[d] = IF d = c THEN "waiting" ELSE pc[d]
      /\ pc' \in [Callers -> Steps] /\ Flavours' /\ OnCallersPool' = OnCallersPool
      /\ \A w \in Workers : core'[w] = "blocked" => \E d \in Callers : InCall(d)' /\ at'[d] = w
      /\ PoolBound'
  BY <1>1, WithinCall
<1>3. c \notin running /\ running \subseteq {d \in Callers : pc'[d] = "waiting"}
  BY <1>1, <1>2 DEF Shapes
<1>4. \A k \in 1..Len(queue) : queue[k] # c
  BY <1>1 DEF Queued
<1>5. CASE ~OnCallersPool
  <2>1. queue' = queue
    BY <1>1, <1>5
  <2>2. Shapes'
    BY <1>1, <1>2, <1>3, <2>1 DEF Shapes
  <2>3. Queued'
    BY <1>2, <1>5, <2>1 DEF Queued
  <2>4. CoreKept'
    BY <1>1, <1>2, <2>1 DEF CoreKept
  <2> QED
    BY <1>2, <2>2, <2>3, <2>4
<1>6. CASE OnCallersPool
  <2>1. queue' = Append(queue, c)
    BY <1>1, <1>6
  <2>2. /\ queue' \in Seq(Workers \cup Callers)
        /\ queue'[Len(queue')] = c
        /\ \A j \in 1..Len(queue) : j \in 1..Len(queue') /\ queue'[j] = queue[j]
        /\ \A j \in 1..Len(queue') : j \in 1..Len(queue) \/ j = Len(queue')
    BY <2>1, QueueAppend
  <2>3. Shapes'
    BY <1>1, <1>2, <1>3, <2>2 DEF Shapes
  <2>4. Queued'
    <3> SUFFICES ASSUME NEW j \in 1..Len(queue'), queue'[j] \in Callers
                 PROVE  /\ pc'[queue'[j]] = "waiting" /\ queue'[j] \notin running
                        /\ \A k \in 1..Len(queue') : queue'[k] = queue'[j] => k = j
      BY <1>1, <1>2, <1>6 DEF Queued
    <3>1. CASE j = Len(queue')
      BY <1>2, <1>3, <1>4, <2>2, <3>1
    <3>2. CASE j \in 1..Len(queue)
      <4>1. queue'[j] = queue[j] /\ queue[j] # c
        BY <1>4, <2>2, <3>2
      <4> QED
        BY <1>2, <2>2, <3>2, <4>1 DEF Queued
    <3> QED
      BY <2>2, <3>1, <3>2
  <2>5. CoreKept'
    <3>1. \A w \in Workers : core'[w] = "slot" => \E k \in 1..Len(queue') : queue'[k] = w
      BY <1>1, <2>2 DEF CoreKept
    <3> QED
      BY <1>2, <3>1 DEF CoreKept
  <2> QED
    BY <1>2, <2>3, <2>4, <2>5
<1> QED
  BY <1>5, <1>6

\* A runtime is built, or an operation completes.
LEMMA GoOnOK ==
  ASSUME BridgeInv, NEW c \in Callers, Build(c) \/ IoDone(c)
  PROVE  BridgeInv'
<1> USE DEF BridgeInv
<1>1. /\ pc[c] \in {"building", "waiting"} /\ InCall(c)
      /\ running' = running \ {c}
      /\ pc[c] = "waiting" /\ OnCallersPool => c \in running
      /\ UNCHANGED <<settings, flavor, limit, core, queue, at>>
  BY DEF Build, IoDone, settings, poolVars, InCall, Shapes
<1>2. PICK s \in {"polling", "returning"} : pc' = [pc EXCEPT ![c] = s]
  BY DEF Build, IoDone, Resolve
<1>3. file' \in [Callers -> BOOLEAN] /\ outcome' \in [Callers -> Outcomes]
  <2>1. file' = file \/ \E b \in BOOLEAN : file' = [file EXCEPT ![c] = b]
    BY DEF Build, IoDone, Resolve
  <2>2. outcome' = outcome \/ \E r \in Outcomes : outcome' = [outcome EXCEPT ![c] = r]
    BY DEF Build, IoDone, Resolve, Outcomes, ResultOf, Ok, Err
  <2> QED
    BY <2>1, <2>2 DEF Shapes
<1>4. /\ \A d \in Callers : pc'[d] = IF d = c THEN s ELSE pc[d]
      /\ pc' \in [Callers -> Steps] /\ Flavours' /\ OnCallersPool' = OnCallersPool
      /\ \A w \in Workers : core'[w] = "blocked" => \E d \in Callers : InCall(d)' /\ at'[d] = w
      /\ PoolBound'
  BY <1>1, <1>2, WithinCall
<1>5. running' \subseteq {d \in Callers : pc'[d] = "waiting"}
  BY <1>1, <1>4 DEF Shapes
<1>6. Shapes'
  BY <1>1, <1>3, <1>4, <1>5 DEF Shapes
<1>7. Queued'
  <2>1. \A j \in 1..Len(queue) : queue[j] # c
    BY <1>1 DEF Queued
  <2> QED
    BY <1>1, <1>4, <2>1 DEF Queued
<1>8. CoreKept'
  BY <1>1, <1>4 DEF CoreKept
<1> QED
  BY <1>4, <1>6, <1>7, <1>8

\* The call returns: its thread is a worker's again, or of no worker.
LEMMA ReturnOK ==
  ASSUME BridgeInv, NEW c \in Callers, Return(c)
  PROVE  BridgeInv'
<1> USE DEF BridgeInv
<1> DEFINE w == at[c]
<1>1. /\ pc[c] = "returning" /\ pc' = [pc EXCEPT ![c] = "done"]
      /\ UNCHANGED <<flavor, limit, ring, queue, running, file, at, outcome>>
      /\ core' = IF flavor # "none" /\ core[w] \in {"blocked", "slot"}
                 THEN [core EXCEPT ![w] = "up"] ELSE core
  BY DEF Return, settings
<1>2. /\ w \in Workers
      /\ \A d \in Callers : pc'[d] = IF d = c THEN "done" ELSE pc[d]
      /\ \A v \in Workers : core'[v] = core[v] \/ (v = w /\ core'[v] = "up")
  BY <1>1 DEF Shapes
<1>3. core'[w] # "blocked"
  BY <1>1, <1>2 DEF Shapes, Flavours
<1>4. Shapes'
  <2>1. core' \in [Workers -> {"up", "blocked", "slot", "absent"}]
    BY <1>1 DEF Shapes
  <2>2. pc' \in [Callers -> Steps]
    BY <1>1 DEF Shapes, Steps
  <2>3. running \subseteq {d \in Callers : pc'[d] = "waiting"}
    BY <1>1, <1>2 DEF Shapes
  <2> QED
    BY <1>1, <2>1, <2>2, <2>3 DEF Shapes
<1>5. Flavours'
  BY <1>1, <1>2 DEF Flavours
<1>6. Queued'
  <2>1. OnCallersPool' = OnCallersPool
    BY <1>1 DEF OnCallersPool
  <2>2. \A d \in Callers : pc[d] = "waiting" => pc'[d] = "waiting"
    BY <1>1, <1>2
  <2> QED
    BY <1>1, <2>1, <2>2 DEF Queued
<1>7. CoreKept'
  <2>1. \A v \in Workers : core'[v] = "slot" => \E k \in 1..Len(queue) : queue[k] = v
    BY <1>2 DEF CoreKept
  <2>2. ASSUME NEW v \in Workers, core'[v] = "blocked"
        PROVE  \E d \in Callers : InCall(d)' /\ at[d] = v
    <3>1. v # w /\ core[v] = "blocked"
      BY <1>2, <1>3, <2>2
    <3>2. PICK d \in Callers : InCall(d) /\ at[d] = v
      BY <3>1 DEF CoreKept
    <3>3. InCall(d)'
      BY <1>2, <3>1, <3>2 DEF InCall
    <3> QED
      BY <3>2, <3>3
  <2> QED
    BY <1>1, <2>1, <2>2 DEF CoreKept
<1>8. PoolBound'
  <2> SUFFICES ASSUME flavor = "multi_thread" PROVE Busy' <= Cardinality(Workers) + limit
    BY <1>1 DEF PoolBound
  <2>1. running \subseteq Callers /\ limit \in Nat
    BY Distinct DEF Shapes
  <2>2. Inside' = Inside \ {c} /\ c \in Inside
    BY <1>1, <1>2 DEF Inside, InCall
  <2>3. Cardinality(Inside') = Cardinality(Inside) - 1
    BY <2>1, <2>2, Counts, FS_RemoveElement
  <2>4. Cardinality(Up') <= Cardinality(Up) + 1 /\ Cardinality(Up') \in Nat
    <3>1. CASE core' = core
      <4>1. Up' = Up
        BY <3>1 DEF Up
      <4> QED
        BY <2>1, <4>1, Counts
    <3>2. CASE core' = [core EXCEPT ![w] = "up"] /\ core[w] # "up"
      <4>1. Up' = Up \cup {w} /\ w \notin Up
        BY <1>2, <3>2 DEF Up, Shapes
      <4>2. Cardinality(Up') = Cardinality(Up) + 1
        BY <2>1, <4>1, Counts, FS_AddElement
      <4> QED
        BY <2>1, <4>2, Counts
    <3> QED
      BY <1>1, <3>1, <3>2
  <2>5. Busy' = Cardinality(Up') + Cardinality(Inside') + Cardinality(running)
    BY <1>1 DEF Busy, Up, Inside
  <2>6. Busy' <= Busy /\ Busy' \in Int /\ Busy \in Nat
    BY <2>1, <2>3, <2>4, <2>5, Counts
  <2> QED
    BY <2>1, <2>6, Counts DEF PoolBound
<1> QED
  BY <1>4, <1>5, <1>6, <1>7, <1>8

LEMMA BridgeNextOK ==
  ASSUME BridgeInv, [BridgeNext]_vars
  PROVE  BridgeInv'
<1>1. ASSUME UNCHANGED vars \/ \E o \in Others : Turn(o)
      PROVE  BridgeInv'
  BY <1>1, Still DEF vars, Turn
<1>2. CASE TakeJob
  BY <1>2, TakeJobOK
<1>3. ASSUME NEW c \in Callers,
             \/ CallOutside(c) \/ CallOnOnlyWorker(c) \/ CallInPlace(c)
             \/ CallUnsupported(c) \/ CallStep(c) \/ IoDone(c)
      PROVE  BridgeInv'
  BY <1>3, CallAloneOK, CallInPlaceOK, CallUnsupportedOK, PollFutureOK, GoOnOK, ReturnOK DEF CallStep
<1> QED
  BY <1>1, <1>2, <1>3 DEF BridgeNext

-----------------------------------------------------------------------------
(* Theorems.                                                               *)

\* What the runtime and its pool keep to while calls block their threads
\* (execute_future_from_sync).
THEOREM BridgeInvariance == BridgeSpec => []BridgeInv
BY BridgeInitOK, BridgeNextOK, PTL DEF BridgeSpec

\* However many tasks call execute_future_from_sync at once, the pool never has
\* more threads than it may, and no worker is lost: it is up, kept by a call
\* that will return, or in its slot with a thread on its way.
THEOREM BridgeTypeCorrect == BridgeSpec => []BridgeTypeOK
<1>1. BridgeInv => BridgeTypeOK
  BY DEF BridgeInv, Shapes, Steps, Outcomes, CoreKept, PoolBound, BridgeTypeOK
<1> QED
  BY <1>1, BridgeInvariance, PTL

\* A call of execute_future_from_sync that has polled its future ends with a
\* result, whatever becomes of the I/O; one from a multi-thread runtime always
\* does.
THEOREM PanicsOnlyUndrivenCorrect == BridgeSpec => PanicsOnlyUndriven
<1>1. ASSUME BridgeInv, [BridgeNext]_vars, NEW c \in Callers,
             outcome[c] # Panic, outcome'[c] = Panic
      PROVE  flavor # "multi_thread" /\ pc[c] \in {"ready", "building"}
  <2> USE DEF BridgeInv
  <2>1. outcome' # outcome
    BY <1>1
  <2>2. \A r : Ok(r) # Panic /\ Err(r) # Panic
    BY DEF Ok, Err, Panic
  <2>3. \A d \in Callers : \A r : outcome' = [outcome EXCEPT ![d] = r] => d = c /\ r = Panic
    BY <1>1 DEF Shapes
  <2>4. ASSUME NEW d \in Callers, IoDone(d) PROVE FALSE
    <3>1. outcome' = outcome \/ \E e : \/ outcome' = [outcome EXCEPT ![d] = Ok(e)]
                                       \/ outcome' = [outcome EXCEPT ![d] = Err(e)]
      BY <2>4 DEF IoDone, Resolve
    <3> QED
      BY <2>1, <2>2, <2>3, <3>1
  <2>5. PICK d \in Callers : CallUnsupported(d) \/ Build(d)
    <3>1. ~(\E o \in Others : Turn(o)) /\ ~TakeJob /\ vars' # vars
      BY <2>1 DEF Turn, TakeJob, vars, callVars
    <3>2. \A d \in Callers :
            /\ ~CallOutside(d) /\ ~CallOnOnlyWorker(d) /\ ~CallInPlace(d)
            /\ ~PollFuture(d) /\ ~Return(d)
      BY <2>1 DEF CallOutside, CallOnOnlyWorker, CallInPlace, PollFuture, Return
    <3> QED
      BY <1>1, <2>4, <3>1, <3>2 DEF BridgeNext, CallStep
  <2>6. CASE CallUnsupported(d)
    BY <2>3, <2>6 DEF CallUnsupported
  <2>7. CASE Build(d)
    <3>1. pc[d] = "building" /\ outcome' = [outcome EXCEPT ![d] = Panic]
      BY <2>1, <2>7 DEF Build, Resolve
    <3>2. d = c
      BY <2>3, <3>1, Zenon
    <3> QED
      BY <1>1, <3>1, <3>2 DEF Flavours
  <2> QED
    BY <2>5, <2>6, <2>7
<1>2. BridgeInv /\ [BridgeNext]_vars =>
        [\A c \in Callers :
           outcome[c] # Panic /\ outcome'[c] = Panic =>
             flavor # "multi_thread" /\ pc[c] \in {"ready", "building"}]_vars
  BY <1>1
<1> QED
  BY <1>2, BridgeInvariance, PTL DEF BridgeSpec, PanicsOnlyUndriven
=============================================================================

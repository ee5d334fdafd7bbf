----------------------------- MODULE ProcWorld -----------------------------
(***************************************************************************)
(* External: the kernel's process table, as far as /proc/<pid> shows it.   *)
(* A process is one run of a program; a pid names at most one process at a *)
(* time and is reused.  An open file under /proc/<pid> stays bound to the  *)
(* process it was opened on, not to the pid.                               *)
(***************************************************************************)
EXTENDS Integers, FiniteSets

CONSTANTS
  Processes,    \* every process that may ever run
  Pids,         \* the pids the kernel hands out, in directory order
  Myself        \* the process this program runs in; it does not end

ASSUME PidsAssumption == Pids \subseteq Nat \ {0}
ASSUME MyselfAssumption == Myself \in Processes /\ Pids # {}

VARIABLES
  life,     \* life[i]: unborn, running, zombie (Z), dead (X) or gone
  pidOf     \* pidOf[i]: the pid of process i, 0 before it is born

worldVars == <<life, pidOf>>

LifeStates == {"unborn", "running", "zombie", "dead", "gone"}

\* The process has an entry in /proc.
Listed(i) == life[i] \in {"running", "zombie", "dead"}

\* The process named by pid p: a set of at most one.
Occupant(p) == {i \in Processes : Listed(i) /\ pidOf[i] = p}

WorldInit ==
  /\ life = [i \in Processes |-> IF i = Myself THEN "running" ELSE "unborn"]
  /\ \E p \in Pids : pidOf = [i \in Processes |-> IF i = Myself THEN p ELSE 0]

Spawn(i, p) ==
  /\ life[i] = "unborn"
  /\ Occupant(p) = {}
  /\ life' = [life EXCEPT ![i] = "running"]
  /\ pidOf' = [pidOf EXCEPT ![i] = p]

\* The process exits and waits for its parent, or is being removed already.
Exit(i) ==
  /\ i # Myself
  /\ \/ life[i] = "running" /\ life' = [life EXCEPT ![i] = "zombie"]
     \/ /\ life[i] \in {"running", "zombie"}
        /\ life' = [life EXCEPT ![i] = "dead"]
  /\ UNCHANGED pidOf

\* The entry disappears and the pid may be used again.
Reap(i) ==
  /\ life[i] = "dead"
  /\ life' = [life EXCEPT ![i] = "gone"]
  /\ UNCHANGED pidOf

WorldNext ==
  \E i \in Processes : (\E p \in Pids : Spawn(i, p)) \/ Exit(i) \/ Reap(i)
=============================================================================

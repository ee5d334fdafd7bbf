----------------------------- MODULE ProcessRef -----------------------------
(***************************************************************************)
(* What a Process value (src/process/mod.rs) promises: it denotes one      *)
(* process for as long as it is held.  A question about it is answered in  *)
(* one atomic step with the state the process has at that moment; once the *)
(* process is gone the only answers are errors and answers that say        *)
(* nothing of it, which it may have given before if it is a bare one.  A setting changes of that process and of no other.      *)
(* There are no pids, no files and no steps of a call here, so reuse of a  *)
(* pid cannot show.                                                        *)
(***************************************************************************)
EXTENDS ProcResult

CONSTANTS
  Clients,      \* tasks that hold a Process
  Processes,    \* every process that may ever run
  Bare,         \* those of which there may be nothing to say while they run
  Nothing,      \* the client holds no Process
  Failures      \* the classes of error

VARIABLES
  life,       \* life[i]: the state of process i
  denotes,    \* denotes[c]: the process that c's Process is about
  answer,     \* answer[c]: the answer to c's last question
  adjusted    \* the processes whose setting was changed

refVars == <<life, denotes, answer, adjusted>>

\* The states of a process that /proc can show, and the order they come in.
Shown == {"running", "zombie", "dead"}
Ages ==
  {<<"unborn", "running">>, <<"running", "zombie">>, <<"running", "dead">>,
   <<"zombie", "dead">>, <<"dead", "gone">>}

RefInit ==
  /\ life \in [Processes -> {"unborn", "running"}]
  /\ denotes = [c \in Clients |-> Nothing]
  /\ answer = [c \in Clients |-> Pending]
  /\ adjusted = {}

Age(i) ==
  /\ \E s \in Shown \cup {"gone"} :
       <<life[i], s>> \in Ages /\ life' = [life EXCEPT ![i] = s]
  /\ UNCHANGED <<denotes, answer, adjusted>>

\* A Process is made for a process that exists, or cannot be made.
Take(c, i) ==
  /\ denotes[c] = Nothing
  /\ life[i] \in Shown
  /\ denotes' = [denotes EXCEPT ![c] = i]
  /\ UNCHANGED <<life, answer, adjusted>>

Release(c) ==
  /\ denotes' = [denotes EXCEPT ![c] = Nothing]
  /\ answer' = [answer EXCEPT ![c] = Pending]
  /\ UNCHANGED <<life, adjusted>>

\* The last answer is forgotten: a new question starts or is given up.
Forget(c) ==
  /\ answer' = [answer EXCEPT ![c] = Pending]
  /\ UNCHANGED <<life, denotes, adjusted>>

Tell(c) ==
  /\ denotes[c] # Nothing
  /\ life[denotes[c]] \in Shown
  /\ answer' = [answer EXCEPT
       ![c] = Ok([process |-> denotes[c], state |-> life[denotes[c]]])]
  /\ UNCHANGED <<life, denotes, adjusted>>

\* An answer that says nothing of the process, which is bare or does not run.
TellNothing(c) ==
  /\ denotes[c] # Nothing
  /\ life[denotes[c]] = "running" => denotes[c] \in Bare
  /\ answer' = [answer EXCEPT ![c] = Ok([process |-> Nothing, state |-> "gone"])]
  /\ UNCHANGED <<life, denotes, adjusted>>

\* The setting of the process is changed.  The client is told, or has given up
\* and is not.
Adjust(c) ==
  /\ denotes[c] # Nothing
  /\ life[denotes[c]] \in Shown
  /\ adjusted' = adjusted \cup {denotes[c]}
  /\ \E r \in {Ok([process |-> denotes[c], state |-> life[denotes[c]]]), Pending} :
       answer' = [answer EXCEPT ![c] = r]
  /\ UNCHANGED <<life, denotes>>

\* "NotFound" is only said of a process that is gone, or that was not found.
Deny(c) ==
  /\ \E e \in Failures :
       /\ e = "NotFound" /\ denotes[c] # Nothing => life[denotes[c]] = "gone"
       /\ answer' = [answer EXCEPT ![c] = Err(e)]
  /\ UNCHANGED <<life, denotes, adjusted>>

RefNext ==
  \/ \E i \in Processes : Age(i)
  \/ \E c \in Clients :
       \/ \E i \in Processes : Take(c, i)
       \/ Release(c)
       \/ Forget(c)
       \/ Tell(c)
       \/ TellNothing(c)
       \/ Adjust(c)
       \/ Deny(c)

RefSpec == RefInit /\ [][RefNext]_refVars
=============================================================================

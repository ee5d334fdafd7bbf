--------------------------- MODULE ProcessHandle ---------------------------
(***************************************************************************)
(* struct Process (src/process/mod.rs): Process::new, Process::myself, the *)
(* readers and the writers of one file under the handle, uid, and          *)
(* is_alive, which is stat() and a look at the state letter.               *)
(*                                                                         *)
(* Every reader and writer has the same two awaits: open_at under the      *)
(* handle's directory file, then a read to the end or a write; uid asks    *)
(* the metadata of the directory itself.  Between any two awaits processes *)
(* exit, are reaped and have their pids reused; the future may be dropped  *)
(* at an await. Six operations stand for all. stat and cmdline wrap a      *)
(* failed read, as read_with_cursor does. oom_score returns it with a bare *)
(* `?`, like wchan, loginuid and oom_score_adj; so do environ and          *)
(* coredump_filter. What environ, cmdline and coredump_filter read is of   *)
(* the memory of the process: a process that has ended, or a kernel's own, *)
(* has none, and they then read nothing. set_oom_score_adj writes, like    *)
(* clear_refs.                                                             *)
(*                                                                         *)
(* Version::cached, which only chooses the open flags of a new handle, is  *)
(* one of the waits before OpenProcess here and is modelled in             *)
(* VersionCache.                                                           *)
(***************************************************************************)
EXTENDS ProcWorld, ProcResult

CONSTANTS
  Clients,     \* tasks, each holding at most one Process
  NoHandle,    \* the client holds no Process
  Bare,        \* the processes without memory of their own, which belong to root
  MaxFiles,    \* files this program may have open at once
  Calls        \* bound: Calls[c], the operations that c calls

ASSUME MaxFilesAssumption == MaxFiles \in Nat
ASSUME NoHandleAssumption == NoHandle \notin Processes
ASSUME BareAssumption == Bare \subseteq Processes \ {Myself}

VARIABLES
  handle,     \* handle[c]: the Process c holds: its fd field, as the process the directory is bound to
  pid,        \* pid[c]: the pid field of that Process, and the pid it is being made for
  pc,         \* where c's call is
  op,         \* op[c]: the operation c called last on its Process
  outcome,    \* outcome[c]: the result of c's last call
  adjusted    \* the processes whose oom_score_adj this program has set

handleVars == <<handle, pid, pc, op, outcome, adjusted>>
vars == <<worldVars, handleVars>>

SelfLink == 0       \* Process::myself is called with no pid
MemoryReaders == {"environ", "cmdline", "coredump_filter"}
Readers == {"stat", "oom_score"} \cup MemoryReaders
Writers == {"set_oom_score_adj"}
Ops == Readers \cup Writers \cup {"uid"}

ASSUME CallsAssumption == Calls \in [Clients -> SUBSET Ops]

OpenErrors == {"NotFound", "Io"}

\* The number of files this program holds: one per Process, one per read or
\* write in progress, one while Process::myself resolves the self link.
OpenFiles ==
  Cardinality({c \in Clients : handle[c] # NoHandle})
    + Cardinality({c \in Clients : pc[c] \in {"reading", "linking"}})

CanOpen == OpenFiles < MaxFiles

HandleInit ==
  /\ WorldInit
  /\ handle = [c \in Clients |-> NoHandle]
  /\ pid = [c \in Clients |-> SelfLink]
  /\ pc = [c \in Clients |-> "idle"]
  /\ op = [c \in Clients |-> "none"]
  /\ outcome = [c \in Clients |-> Pending]
  /\ adjusted = {}

Finish(c, r) ==
  /\ pc' = [pc EXCEPT ![c] = "idle"]
  /\ outcome' = [outcome EXCEPT ![c] = r]

\* An answer about process i: what its file says, its owner, or that its
\* setting was made.  Or the answer says nothing of a process: no variables, no
\* arguments, no filter, or root's uid.
About(i) == [process |-> i, state |-> life[i]]
Blank == [process |-> NoHandle, state |-> "gone"]

-----------------------------------------------------------------------------
(***************************************************************************)
(* Making and dropping a Process.                                          *)
(***************************************************************************)
\* Process::new(pid), or Process::myself for SelfLink.
New(c, t) ==
  /\ pc[c] = "idle"
  /\ handle[c] = NoHandle
  /\ pc' = [pc EXCEPT ![c] = "opening"]
  /\ pid' = [pid EXCEPT ![c] = t]
  /\ outcome' = [outcome EXCEPT ![c] = Pending]
  /\ UNCHANGED <<worldVars, handle, op, adjusted>>

\* What open_at finds under the name: the pid's process, or this program's.
Resolve(t) == IF t = SelfLink THEN {Myself} ELSE Occupant(t)

\* The directory is open.  A name that is a pid gives the pid field at once;
\* for the self link one more await reads where it leads.
OpenProcess(c) ==
  /\ pc[c] = "opening"
  /\ CanOpen
  /\ \E i \in Resolve(pid[c]) :
       \/ /\ pid[c] = SelfLink
          /\ pc' = [pc EXCEPT ![c] = "linking"]
          /\ UNCHANGED handle
       \/ /\ pid[c] # SelfLink
          /\ handle' = [handle EXCEPT ![c] = i]
          /\ pc' = [pc EXCEPT ![c] = "idle"]
  /\ UNCHANGED <<worldVars, pid, op, outcome, adjusted>>

\* No Process is made.
Unmade(c, r) ==
  /\ Finish(c, r)
  /\ pid' = [pid EXCEPT ![c] = SelfLink]

OpenProcessFails(c) ==
  /\ pc[c] = "opening"
  /\ \/ ~CanOpen /\ Unmade(c, Err("Io"))
     \/ CanOpen /\ Resolve(pid[c]) = {} /\ Unmade(c, Err("NotFound"))
  /\ UNCHANGED <<worldVars, handle, op, adjusted>>

\* Mutant: the name is taken for the pid without looking where it leads.
SelfUnresolved(c) ==
  /\ pc[c] = "linking"
  /\ handle' = [handle EXCEPT ![c] = Myself]
  /\ pc' = [pc EXCEPT ![c] = "idle"]
  /\ UNCHANGED <<worldVars, pid, op, outcome, adjusted>>

ResolveSelf(c) ==
  /\ pc[c] = "linking"
  /\ handle' = [handle EXCEPT ![c] = Myself]
  /\ pid' = [pid EXCEPT ![c] = pidOf[Myself]]
  /\ pc' = [pc EXCEPT ![c] = "idle"]
  /\ UNCHANGED <<worldVars, op, outcome, adjusted>>

\* The link cannot be read, or is not a number: `.ok()` drops the reason.
ResolveSelfFails(c) ==
  /\ pc[c] = "linking"
  /\ Unmade(c, Err("NotFound"))
  /\ UNCHANGED <<worldVars, handle, op, adjusted>>

DropProcess(c) ==
  /\ pc[c] = "idle"
  /\ handle[c] # NoHandle
  /\ handle' = [handle EXCEPT ![c] = NoHandle]
  /\ pid' = [pid EXCEPT ![c] = SelfLink]
  /\ op' = [op EXCEPT ![c] = "none"]
  /\ outcome' = [outcome EXCEPT ![c] = Pending]
  /\ UNCHANGED <<worldVars, pc, adjusted>>

-----------------------------------------------------------------------------
(***************************************************************************)
(* Reading and writing a file under the handle.                            *)
(***************************************************************************)
\* Every operation but uid opens a file first.
Call(c, o) ==
  /\ pc[c] = "idle"
  /\ handle[c] # NoHandle
  /\ pc' = [pc EXCEPT ![c] = IF o = "uid" THEN "asking" ELSE "calling"]
  /\ op' = [op EXCEPT ![c] = o]
  /\ outcome' = [outcome EXCEPT ![c] = Pending]
  /\ UNCHANGED <<worldVars, handle, pid, adjusted>>

OpenFile(c) ==
  /\ pc[c] = "calling"
  /\ CanOpen
  /\ Listed(handle[c])
  /\ pc' = [pc EXCEPT ![c] = "reading"]
  /\ UNCHANGED <<worldVars, handle, pid, op, outcome, adjusted>>

\* Mutant: an open that fails for want of files is tried again for ever.
OpenFileRetries(c) ==
  /\ pc[c] = "calling"
  /\ CanOpen /\ ~Listed(handle[c]) /\ Finish(c, Err("NotFound"))
  /\ UNCHANGED <<worldVars, handle, pid, op, adjusted>>

OpenFileFails(c) ==
  /\ pc[c] = "calling"
  /\ \/ ~CanOpen /\ Finish(c, Err("Io"))
     \/ CanOpen /\ ~Listed(handle[c]) /\ Finish(c, Err("NotFound"))
  /\ UNCHANGED <<worldVars, handle, pid, op, adjusted>>

\* Mutant: the file is looked up by pid, as a path-based library would.
ReadByPid(c) ==
  /\ pc[c] = "reading" /\ op[c] \in Readers
  /\ \E i \in Occupant(pid[c]) : Finish(c, Ok(About(i)))
  /\ UNCHANGED <<worldVars, handle, pid, op, adjusted>>

\* The memory of a process is there while it runs, the rest of its files
\* until it is reaped.
HasContents(i, o) ==
  IF o \in MemoryReaders THEN life[i] = "running" /\ i \notin Bare ELSE Listed(i)

Read(c) ==
  /\ pc[c] = "reading" /\ op[c] \in Readers
  /\ HasContents(handle[c], op[c])
  /\ Finish(c, Ok(About(handle[c])))
  /\ UNCHANGED <<worldVars, handle, pid, op, adjusted>>

\* An environ file stays bound to the memory, and reads as empty once that is
\* gone; the other files look for the process at each read.
Readable(i, o) == Listed(i) \/ o = "environ"

\* Nothing is read, which is an answer: no variables, no arguments, Ok(None).
ReadNothing(c) ==
  /\ pc[c] = "reading" /\ op[c] \in MemoryReaders
  /\ Readable(handle[c], op[c])
  /\ ~HasContents(handle[c], op[c])
  /\ Finish(c, Ok(Blank))
  /\ UNCHANGED <<worldVars, handle, pid, op, adjusted>>

\* Mutant: no reader names the path.
NeverWrapped(o) == "Io"

\* How an operation reports ESRCH: wrap_io_error names the path, and
\* procfs-core turns an ESRCH with a path into NotFound; without a path it is
\* an Io error.
ReadError(o) == IF o \in {"stat", "cmdline"} THEN "NotFound" ELSE "Io"

\* The process was reaped after the file was opened.
ReadFails(c) ==
  /\ pc[c] = "reading" /\ op[c] \in Readers
  /\ ~Readable(handle[c], op[c])
  /\ Finish(c, Err(ReadError(op[c])))
  /\ UNCHANGED <<worldVars, handle, pid, op, adjusted>>

\* write_value_to: one write, which the kernel carries out or refuses.
Write(c) ==
  /\ pc[c] = "reading" /\ op[c] \in Writers
  /\ Listed(handle[c])
  /\ adjusted' = adjusted \cup {handle[c]}
  /\ Finish(c, Ok(About(handle[c])))
  /\ UNCHANGED <<worldVars, handle, pid, op>>

WriteFails(c) ==
  /\ pc[c] = "reading" /\ op[c] \in Writers
  /\ Finish(c, Err("Io"))
  /\ UNCHANGED <<worldVars, handle, pid, op, adjusted>>

\* uid: the owner of the handle's directory, which is not opened again.  The
\* kernel gives the directory of a process that is gone to root, as those of
\* root's processes.
TellOwner(c) ==
  /\ pc[c] = "asking"
  /\ Finish(c, Ok(IF Listed(handle[c]) /\ handle[c] \notin Bare
                  THEN About(handle[c]) ELSE Blank))
  /\ UNCHANGED <<worldVars, handle, pid, op, adjusted>>

\* Mutant: the comparison with the state letters is inverted.
AliveInverted(r) == IsOk(r) /\ r.ok.state \in {"zombie", "dead"}

\* Mutant: every process whose stat can be read counts as alive.
AliveIfReadable(r) == IsOk(r)

\* Process::is_alive, as a function of what its stat() returned.
IsAlive(r) == IsOk(r) /\ r.ok.state \notin {"zombie", "dead"}

\* The caller drops the future at an await; a write may be carried out.
Cancel(c) ==
  /\ \/ pc[c] \in {"opening", "linking"} /\ Unmade(c, Pending) /\ UNCHANGED adjusted
     \/ /\ pc[c] \in {"calling", "reading", "asking"}
        /\ Finish(c, Pending)
        /\ \/ UNCHANGED adjusted
           \/ /\ pc[c] = "reading" /\ op[c] \in Writers /\ Listed(handle[c])
              /\ adjusted' = adjusted \cup {handle[c]}
        /\ UNCHANGED pid
  /\ UNCHANGED <<worldVars, handle, op>>

-----------------------------------------------------------------------------
ClientNext(c) ==
  \/ \E t \in Pids \cup {SelfLink} : New(c, t)
  \/ OpenProcess(c)
  \/ OpenProcessFails(c)
  \/ ResolveSelf(c)
  \/ ResolveSelfFails(c)
  \/ DropProcess(c)
  \/ \E o \in Calls[c] : Call(c, o)
  \/ OpenFile(c)
  \/ OpenFileFails(c)
  \/ Read(c)
  \/ ReadNothing(c)
  \/ ReadFails(c)
  \/ Write(c)
  \/ WriteFails(c)
  \/ TellOwner(c)
  \/ Cancel(c)

HandleNext ==
  \/ WorldNext /\ UNCHANGED handleVars
  \/ \E c \in Clients : ClientNext(c)

HandleSpec == HandleInit /\ [][HandleNext]_vars

\* Each I/O operation of a started call completes.
HandleFairness ==
  \A c \in Clients :
    /\ WF_vars(OpenProcess(c) \/ OpenProcessFails(c))
    /\ WF_vars(ResolveSelf(c) \/ ResolveSelfFails(c))
    /\ WF_vars(OpenFile(c) \/ OpenFileFails(c))
    /\ WF_vars(Read(c) \/ ReadNothing(c) \/ ReadFails(c) \/ Write(c) \/ WriteFails(c))
    /\ WF_vars(TellOwner(c))

FairHandleSpec == HandleSpec /\ HandleFairness

-----------------------------------------------------------------------------
(***************************************************************************)
(* Properties.                                                             *)
(***************************************************************************)
Answers == [process : Processes, state : LifeStates] \cup {Blank}

\* Type invariant; the pid field of a Process that is held is a pid, also for
\* the one made from the self link.
HandleTypeOK ==
  /\ life \in [Processes -> LifeStates]
  /\ pidOf \in [Processes -> Pids \cup {0}]
  /\ handle \in [Clients -> Processes \cup {NoHandle}]
  /\ pid \in [Clients -> Pids \cup {SelfLink}]
  /\ \A c \in Clients : handle[c] # NoHandle => pid[c] \in Pids
  /\ pc \in [Clients -> {"idle", "opening", "linking", "calling", "reading", "asking"}]
  /\ op \in [Clients -> Ops \cup {"none"}]
  /\ outcome \in [Clients -> ResultOf(Answers, OpenErrors) \cup {Pending}]
  /\ adjusted \subseteq Processes

\* A client that asked stat(), and so is_alive, through a handle it holds.
Asked(c) == handle[c] # NoHandle /\ op[c] = "stat" /\ outcome[c] # Pending

\* The documentation of is_alive: false is the answer for a zombie, a dead or
\* a gone process.  Once true of the process it stays true.
NotAliveMeansDead ==
  \A c \in Clients :
    Asked(c) /\ ~IsAlive(outcome[c]) => life[handle[c]] # "running"

\* is_alive() = false means that the process is dead and stays so, unless the
\* program was out of files when it asked.
DeadOrNoFiles ==
  \A c \in Clients :
    Asked(c) /\ ~IsAlive(outcome[c]) =>
      life[handle[c]] # "running" \/ outcome[c] = Err("Io")

\* is_alive() = true says that the handle's own process, not one that has its
\* pid now, is running at the moment its stat is read.
AliveMeansRunning ==
  [][\A c \in Clients :
       /\ op[c] = "stat" /\ pc[c] # "idle"
       /\ outcome'[c] # Pending /\ IsAlive(outcome'[c])
       => life[handle[c]] = "running"]_vars

\* If the program has files, a reader fails only because its process is gone,
\* and tells so however the exit falls between its two awaits: as NotFound, but
\* for the readers with a bare `?`, from which an end after the open is Io.
DeathIsNotFound ==
  [][\A c \in Clients :
       /\ op[c] \in Readers /\ pc[c] \in {"calling", "reading"}
       /\ CanOpen \/ pc[c] = "reading"
       /\ IsErr(outcome'[c])
       => /\ life[handle[c]] = "gone"
          /\ outcome'[c].err =
               IF pc[c] = "reading" /\ op[c] \in {"oom_score", "environ", "coredump_filter"}
               THEN "Io" ELSE "NotFound"]_vars

\* A Process denotes one process, whatever happens to its pid.  The
\* refinement of ProcessRef.
Ref == INSTANCE ProcessRef WITH
  Nothing <- NoHandle,
  Failures <- OpenErrors,
  denotes <- handle,
  answer <- outcome

ImplementsRef == Ref!RefSpec

\* Every call ends.
CallsEnd == \A c \in Clients : pc[c] # "idle" ~> pc[c] = "idle"
=============================================================================

------------------------ MODULE ProcessHandleProofs ------------------------
(***************************************************************************)
(* Proofs about ProcessHandle, for any number of tasks, processes and pids *)
(* and any limit on open files.                                            *)
(***************************************************************************)
EXTENDS ProcParsers, SequenceProofs, FiniteSetTheorems

-----------------------------------------------------------------------------
(* The inductive invariant.                                                *)

\* This program is running and has a pid.
MyselfRuns == life[Myself] = "running" /\ pidOf[Myself] \in Pids

\* A Process denotes a process that has been born.
HandleBorn ==
  \A c \in Clients : handle[c] # NoHandle => life[handle[c]] # "unborn"

\* Where a call is tells whether a Process is held, and there is no outcome
\* before its end.
CallShape ==
  \A c \in Clients :
    /\ pc[c] \in {"opening", "linking"} => handle[c] = NoHandle
    /\ pc[c] \in {"calling", "reading", "asking"} => handle[c] # NoHandle
    /\ pc[c] = "asking" => op[c] = "uid"
    /\ pc[c] # "idle" => outcome[c] = Pending

HandleInv == HandleTypeOK /\ MyselfRuns /\ HandleBorn /\ CallShape

\* The three classes of outcome have their types.
LEMMA OutcomeType ==
  /\ \A i \in Processes, s \in LifeStates :
       Ok([process |-> i, state |-> s]) \in ResultOf(Answers, OpenErrors)
  /\ Ok(Blank) \in ResultOf(Answers, OpenErrors)
  /\ \A e \in OpenErrors : Err(e) \in ResultOf(Answers, OpenErrors)
BY DEF Ok, Err, ResultOf, Answers

LEMMA HandleInvInit == HandleInit => HandleInv
<1> SUFFICES ASSUME HandleInit PROVE HandleInv
  OBVIOUS
<1> USE DEF HandleInit, WorldInit
<1>1. PICK p \in Pids : pidOf = [i \in Processes |-> IF i = Myself THEN p ELSE 0]
  OBVIOUS
<1>2. HandleTypeOK
  BY <1>1 DEF HandleTypeOK, LifeStates, SelfLink
<1>3. MyselfRuns
  BY <1>1, MyselfAssumption DEF MyselfRuns
<1>4. HandleBorn /\ CallShape
  BY DEF HandleBorn, CallShape
<1> QED BY <1>2, <1>3, <1>4 DEF HandleInv

\* A process gets older; the Processes held by the clients do not notice.
LEMMA WorldStep ==
  ASSUME HandleInv, WorldNext, UNCHANGED handleVars
  PROVE  HandleInv'
<1> USE DEF HandleInv
<1>1. ASSUME NEW i \in Processes, NEW p \in Pids, Spawn(i, p)
      PROVE  /\ life' \in [Processes -> LifeStates]
             /\ pidOf' \in [Processes -> Pids \cup {0}]
             /\ MyselfRuns'
             /\ \A j \in Processes : life[j] # "unborn" => life'[j] # "unborn"
  BY <1>1, MyselfAssumption DEF Spawn, HandleTypeOK, LifeStates, MyselfRuns
<1>2. ASSUME NEW i \in Processes, Exit(i)
      PROVE  /\ life' \in [Processes -> LifeStates]
             /\ pidOf' \in [Processes -> Pids \cup {0}]
             /\ MyselfRuns'
             /\ \A j \in Processes : life[j] # "unborn" => life'[j] # "unborn"
  BY <1>2, MyselfAssumption DEF Exit, HandleTypeOK, LifeStates, MyselfRuns
<1>3. ASSUME NEW i \in Processes, Reap(i)
      PROVE  /\ life' \in [Processes -> LifeStates]
             /\ pidOf' \in [Processes -> Pids \cup {0}]
             /\ MyselfRuns'
             /\ \A j \in Processes : life[j] # "unborn" => life'[j] # "unborn"
  BY <1>3, MyselfAssumption DEF Reap, HandleTypeOK, LifeStates, MyselfRuns
<1>4. /\ life' \in [Processes -> LifeStates]
      /\ pidOf' \in [Processes -> Pids \cup {0}]
      /\ MyselfRuns'
      /\ \A j \in Processes : life[j] # "unborn" => life'[j] # "unborn"
  BY <1>1, <1>2, <1>3 DEF WorldNext
<1>5. HandleTypeOK'
  BY <1>4 DEF HandleTypeOK, handleVars
<1>6. HandleBorn'
  BY <1>4 DEF HandleTypeOK, HandleBorn, handleVars
<1>7. CallShape'
  BY DEF CallShape, handleVars
<1> QED BY <1>4, <1>5, <1>6, <1>7

\* A step of one client's call.
LEMMA ClientStep ==
  ASSUME HandleInv, NEW c \in Clients, ClientNext(c)
  PROVE  HandleInv'
<1> USE DEF HandleInv, HandleTypeOK, MyselfRuns, HandleBorn, CallShape, worldVars
<1>1. ASSUME NEW t \in Pids \cup {SelfLink}, New(c, t)
      PROVE  HandleInv'
  BY <1>1 DEF New
<1>2. CASE OpenProcess(c)
  <2>1. PICK i \in Resolve(pid[c]) :
          \/ /\ pid[c] = SelfLink
             /\ pc' = [pc EXCEPT ![c] = "linking"]
             /\ UNCHANGED handle
          \/ /\ pid[c] # SelfLink
             /\ handle' = [handle EXCEPT ![c] = i]
             /\ pc' = [pc EXCEPT ![c] = "idle"]
    BY <1>2 DEF OpenProcess
  <2>2. /\ pc[c] = "opening"
        /\ UNCHANGED <<life, pidOf, pid, op, outcome, adjusted>>
    BY <1>2 DEF OpenProcess
  <2>3. CASE pid[c] = SelfLink
    BY <2>1, <2>2, <2>3
  <2>4. CASE pid[c] # SelfLink
    <3>1. i \in Processes /\ life[i] # "unborn" /\ pid[c] \in Pids
      BY <2>4 DEF Resolve, Occupant, Listed
    <3> QED BY <2>1, <2>2, <2>4, <3>1, NoHandleAssumption
  <2> QED BY <2>3, <2>4
<1>3. CASE OpenProcessFails(c)
  BY <1>3, OutcomeType DEF OpenProcessFails, Unmade, Finish, OpenErrors
<1>4. CASE ResolveSelf(c)
  BY <1>4, MyselfAssumption, NoHandleAssumption DEF ResolveSelf
<1>5. CASE ResolveSelfFails(c)
  BY <1>5, OutcomeType DEF ResolveSelfFails, Unmade, Finish, OpenErrors
<1>6. CASE DropProcess(c)
  BY <1>6 DEF DropProcess
<1>7. ASSUME NEW o \in Calls[c], Call(c, o)
      PROVE  HandleInv'
  <2>1. o \in Ops
    BY CallsAssumption
  <2> QED BY <1>7, <2>1 DEF Call
<1>8. CASE OpenFile(c)
  BY <1>8 DEF OpenFile
<1>9. CASE OpenFileFails(c)
  BY <1>9, OutcomeType DEF OpenFileFails, Finish, OpenErrors
<1>10. CASE Read(c)
  <2>1. Ok(About(handle[c])) \in ResultOf(Answers, OpenErrors)
    BY <1>10, OutcomeType DEF Read, About
  <2> QED BY <1>10, <2>1 DEF Read, Finish
<1>11. CASE ReadFails(c)
  <2>1. Err(ReadError(op[c])) \in ResultOf(Answers, OpenErrors)
    BY OutcomeType DEF ReadError, OpenErrors
  <2> QED BY <1>11, <2>1, OutcomeType DEF ReadFails, Finish
<1>16. CASE ReadNothing(c)
  BY <1>16, OutcomeType DEF ReadNothing, Finish
<1>12. CASE Write(c)
  <2>1. handle[c] \in Processes /\ Ok(About(handle[c])) \in ResultOf(Answers, OpenErrors)
    BY <1>12, OutcomeType DEF Write, About
  <2> QED BY <1>12, <2>1 DEF Write, Finish
<1>13. CASE WriteFails(c)
  BY <1>13, OutcomeType DEF WriteFails, Finish, OpenErrors
<1>14. CASE TellOwner(c)
  <2>1. Ok(IF Listed(handle[c]) /\ handle[c] \notin Bare THEN About(handle[c]) ELSE Blank)
          \in ResultOf(Answers, OpenErrors)
    BY <1>14, OutcomeType DEF TellOwner, About
  <2> QED BY <1>14, <2>1 DEF TellOwner, Finish
<1>15. CASE Cancel(c)
  <2>1. CASE pc[c] \in {"opening", "linking"}
    BY <1>15, <2>1 DEF Cancel, Unmade, Finish
  <2>2. CASE pc[c] \in {"calling", "reading", "asking"}
    BY <1>15, <2>2 DEF Cancel, Finish
  <2> QED BY <1>15, <2>1, <2>2 DEF Cancel
<1> QED BY <1>1, <1>2, <1>3, <1>4, <1>5, <1>6, <1>7, <1>8, <1>9, <1>10, <1>11,
           <1>12, <1>13, <1>14, <1>15, <1>16 DEF ClientNext

LEMMA HandleInvStep == HandleInv /\ [HandleNext]_vars => HandleInv'
<1> SUFFICES ASSUME HandleInv, [HandleNext]_vars PROVE HandleInv'
  OBVIOUS
<1>1. CASE UNCHANGED vars
  BY <1>1 DEF vars, worldVars, handleVars, HandleInv, HandleTypeOK, MyselfRuns,
              HandleBorn, CallShape
<1>2. CASE WorldNext /\ UNCHANGED handleVars
  BY <1>2, WorldStep
<1> QED BY <1>1, <1>2, ClientStep DEF HandleNext

\* What one client does is not seen by another, but for the settings.
LEMMA OtherClients ==
  ASSUME HandleInv, NEW c \in Clients, NEW d \in Clients, d # c, ClientNext(d)
  PROVE  /\ life' = life
         /\ handle'[c] = handle[c] /\ op'[c] = op[c]
         /\ pc'[c] = pc[c] /\ outcome'[c] = outcome[c]
BY DEF ClientNext, New, OpenProcess, OpenProcessFails, ResolveSelf, ResolveSelfFails,
       DropProcess, Call, OpenFile, OpenFileFails, Read, ReadNothing, ReadFails, Write,
       WriteFails, TellOwner, Cancel, Finish, Unmade, HandleInv, HandleTypeOK, worldVars

LEMMA HandleInvariance == HandleSpec => []HandleInv
BY HandleInvInit, HandleInvStep, PTL DEF HandleSpec

-----------------------------------------------------------------------------
(* Theorems.                                                               *)

\* The handles, the calls and their outcomes always have their types.
THEOREM HandleTypeCorrect == HandleSpec => []HandleTypeOK
BY HandleInvariance, PTL DEF HandleInv

\* The program may have so many files open that no client is ever short of one.
EnoughFiles == IsFiniteSet(Clients) /\ MaxFiles > 2 * Cardinality(Clients)

LEMMA AlwaysCanOpen ==
  ASSUME EnoughFiles
  PROVE  CanOpen
<1> DEFINE Held == {c \in Clients : handle[c] # NoHandle}
           Busy == {c \in Clients : pc[c] \in {"reading", "linking"}}
<1>1. Held \subseteq Clients /\ Busy \subseteq Clients
  OBVIOUS
<1>2. /\ IsFiniteSet(Held) /\ IsFiniteSet(Busy)
      /\ Cardinality(Held) <= Cardinality(Clients)
      /\ Cardinality(Busy) <= Cardinality(Clients)
  BY <1>1, FS_Subset DEF EnoughFiles
<1>3. /\ Cardinality(Clients) \in Nat
      /\ Cardinality(Held) \in Nat
      /\ Cardinality(Busy) \in Nat
  BY <1>2, FS_CardinalityType DEF EnoughFiles
<1>4. OpenFiles = Cardinality(Held) + Cardinality(Busy)
  BY DEF OpenFiles
<1> HIDE DEF Held, Busy
<1> QED BY <1>2, <1>3, <1>4, MaxFilesAssumption DEF CanOpen, EnoughFiles

\* A process that does not run and has been born never runs again.
LEMMA NeverRunsAgain ==
  ASSUME HandleInv, WorldNext, NEW i \in Processes,
         life[i] # "running", life[i] # "unborn"
  PROVE  life'[i] # "running"
BY DEF HandleInv, HandleTypeOK, WorldNext, Spawn, Exit, Reap

\* What a reader that fails, for another reason than a want of files, knows.
LEMMA UnlistedIsGone ==
  ASSUME HandleInv, NEW c \in Clients, handle[c] # NoHandle, ~ Listed(handle[c])
  PROVE  life[handle[c]] = "gone"
BY DEF HandleInv, HandleTypeOK, HandleBorn, Listed, LifeStates

\* is_alive() = false is the truth and stays it, whatever the process, its
\* parent and its pid do between the awaits of the call, unless the program was
\* out of files.
THEOREM IsAliveHonest == HandleSpec => []DeadOrNoFiles
<1>1. HandleInit => DeadOrNoFiles
  BY DEF HandleInit, DeadOrNoFiles, Asked
<1>2. HandleInv /\ DeadOrNoFiles /\ [HandleNext]_vars => DeadOrNoFiles'
  <2> SUFFICES ASSUME HandleInv, DeadOrNoFiles, [HandleNext]_vars,
                      NEW c \in Clients, Asked(c)', ~ IsAlive(outcome[c])',
                      outcome'[c] # Err("Io")
               PROVE  life'[handle'[c]] # "running"
    BY DEF DeadOrNoFiles
  <2>1. /\ handle' \in [Clients -> Processes \cup {NoHandle}]
        /\ handle \in [Clients -> Processes \cup {NoHandle}]
        /\ outcome \in [Clients -> ResultOf(Answers, OpenErrors) \cup {Pending}]
    BY HandleInvStep DEF HandleInv, HandleTypeOK
  <2>2. Asked(c) /\ ~ IsAlive(outcome[c]) /\ outcome[c] # Err("Io") =>
          handle[c] \in Processes /\ life[handle[c]] \notin {"running", "unborn"}
    BY <2>1 DEF HandleInv, HandleBorn, DeadOrNoFiles, Asked
  <2>3. CASE UNCHANGED vars
    BY <2>2, <2>3 DEF vars, worldVars, handleVars, Asked, IsAlive
  <2>4. CASE WorldNext /\ UNCHANGED handleVars
    <3>1. /\ Asked(c) /\ ~ IsAlive(outcome[c]) /\ outcome[c] # Err("Io")
          /\ handle'[c] = handle[c]
      BY <2>4 DEF handleVars, Asked, IsAlive
    <3> QED BY <2>2, <2>4, <3>1, NeverRunsAgain
  <2>5. ASSUME NEW d \in Clients, ClientNext(d), d # c
        PROVE  life'[handle'[c]] # "running"
    BY <2>2, <2>5, OtherClients DEF Asked, IsAlive
  <2>6. ASSUME ClientNext(c)
        PROVE  life'[handle'[c]] # "running"
    <3> USE DEF HandleInv, HandleTypeOK, CallShape, Asked, worldVars
    <3>1. ASSUME NEW t \in Pids \cup {SelfLink}, New(c, t)
          PROVE  FALSE
      BY <3>1 DEF New
    <3>2. CASE OpenProcess(c)
      BY <3>2 DEF OpenProcess
    <3>3. CASE OpenProcessFails(c)
      BY <3>3 DEF OpenProcessFails
    <3>4. CASE ResolveSelf(c)
      BY <3>4 DEF ResolveSelf
    <3>5. CASE ResolveSelfFails(c)
      BY <3>5 DEF ResolveSelfFails
    <3>6. CASE DropProcess(c)
      BY <3>6 DEF DropProcess
    <3>7. ASSUME NEW o \in Calls[c], Call(c, o)
          PROVE  FALSE
      BY <3>7 DEF Call
    <3>8. CASE OpenFile(c)
      BY <3>8 DEF OpenFile
    <3>9. CASE OpenFileFails(c)
      <4>1. handle[c] # NoHandle /\ ~ Listed(handle[c])
        BY <3>9 DEF OpenFileFails, Finish
      <4>2. life' = life /\ handle' = handle
        BY <3>9 DEF OpenFileFails
      <4> QED BY <4>1, <4>2, UnlistedIsGone
    <3>10. CASE Read(c)
      <4>1. /\ outcome'[c] = Ok([process |-> handle[c], state |-> life[handle[c]]])
            /\ life' = life /\ handle' = handle
        BY <3>10 DEF Read, Finish, About
      <4>2. life[handle[c]] \in {"zombie", "dead"}
        BY <4>1 DEF IsAlive, IsOk, Ok
      <4> QED BY <4>1, <4>2
    <3>11. CASE ReadFails(c)
      <4>1. handle[c] # NoHandle /\ ~ Listed(handle[c])
        BY <3>11 DEF ReadFails, Readable
      <4>2. life' = life /\ handle' = handle
        BY <3>11 DEF ReadFails
      <4> QED BY <4>1, <4>2, UnlistedIsGone
    <3>12. CASE ReadNothing(c) \/ Write(c) \/ WriteFails(c) \/ TellOwner(c)
      BY <3>12 DEF ReadNothing, Write, WriteFails, TellOwner, Writers, MemoryReaders
    <3>13. CASE Cancel(c)
      BY <3>13 DEF Cancel, Unmade, Finish
    <3> QED BY <2>6, <3>1, <3>2, <3>3, <3>4, <3>5, <3>6, <3>7, <3>8, <3>9,
               <3>10, <3>11, <3>12, <3>13 DEF ClientNext
  <2> QED BY <2>3, <2>4, <2>5, <2>6 DEF HandleNext
<1> QED BY <1>1, <1>2, HandleInvariance, PTL DEF HandleSpec

\* With files enough for every client, stat() of a held process never fails
\* for another reason than its end.
NeverOut == \A c \in Clients : Asked(c) => outcome[c] # Err("Io")

\* Then is_alive() = false is the truth without exception.
THEOREM IsAliveCorrect ==
  ASSUME EnoughFiles
  PROVE  HandleSpec => []NotAliveMeansDead
<1>1. HandleInit => NeverOut
  BY DEF HandleInit, NeverOut, Asked
<1>2. HandleInv /\ NeverOut /\ [HandleNext]_vars => NeverOut'
  <2> SUFFICES ASSUME HandleInv, NeverOut, [HandleNext]_vars,
                      NEW c \in Clients, Asked(c)', outcome'[c] = Err("Io")
               PROVE  FALSE
    BY DEF NeverOut
  <2> USE DEF HandleInv, HandleTypeOK, CallShape, Asked, worldVars
  <2>1. ~ Asked(c) \/ outcome[c] # Err("Io")
    BY DEF NeverOut
  <2>2. CASE UNCHANGED vars \/ (WorldNext /\ UNCHANGED handleVars)
    BY <2>1, <2>2 DEF vars, handleVars
  <2>3. ASSUME NEW d \in Clients, ClientNext(d), d # c
        PROVE  FALSE
    BY <2>1, <2>3, OtherClients
  <2>4. ASSUME ClientNext(c)
        PROVE  FALSE
    <3>1. Err("Io") # Pending /\ \A v : Err("Io") # Ok(v)
      BY DEF Err, Pending, Ok
    <3>2. ~ OpenFileFails(c)
      <4>1. SUFFICES ASSUME OpenFileFails(c) PROVE FALSE
        OBVIOUS
      <4>2. outcome'[c] = Err("NotFound")
        BY <4>1, AlwaysCanOpen DEF OpenFileFails, Finish
      <4> QED BY <4>2 DEF Err
    <3>3. ~ ReadFails(c)
      <4>1. SUFFICES ASSUME ReadFails(c) PROVE FALSE
        OBVIOUS
      <4>2. op[c] = "stat" /\ outcome'[c] = Err("NotFound")
        BY <4>1 DEF ReadFails, Finish, ReadError
      <4> QED BY <4>2 DEF Err
    <3>4. ~ ReadNothing(c) /\ ~ Write(c) /\ ~ WriteFails(c) /\ ~ TellOwner(c)
      BY DEF ReadNothing, Write, WriteFails, TellOwner, Writers, MemoryReaders
    <3> QED BY <2>1, <2>4, <3>1, <3>2, <3>3, <3>4
      DEF ClientNext, New, OpenProcess, OpenProcessFails, ResolveSelf, ResolveSelfFails,
          DropProcess, Call, OpenFile, Read, Cancel, Unmade, Finish
  <2> QED BY <2>2, <2>3, <2>4 DEF HandleNext
<1>3. DeadOrNoFiles /\ NeverOut => NotAliveMeansDead
  BY DEF DeadOrNoFiles, NeverOut, NotAliveMeansDead
<1> QED BY <1>1, <1>2, <1>3, HandleInvariance, IsAliveHonest, PTL DEF HandleSpec

\* is_alive() = true is the truth about the handle's own process.
THEOREM AliveCorrect == HandleSpec => AliveMeansRunning
<1> DEFINE Good(c) ==
      /\ op[c] = "stat" /\ pc[c] # "idle"
      /\ outcome'[c] # Pending /\ IsAlive(outcome'[c])
      => life[handle[c]] = "running"
<1>1. HandleInv /\ [HandleNext]_vars => [\A c \in Clients : Good(c)]_vars
  <2> SUFFICES ASSUME HandleInv, HandleNext, NEW c \in Clients,
                      op[c] = "stat", pc[c] # "idle",
                      IsAlive(outcome'[c]), outcome'[c] # Pending
               PROVE  life[handle[c]] = "running"
    BY DEF vars
  <2> USE DEF HandleInv, HandleTypeOK, CallShape, worldVars
  <2>1. outcome[c] = Pending
    OBVIOUS
  <2>2. ClientNext(c)
    <3>1. ~ (WorldNext /\ UNCHANGED handleVars)
      BY <2>1 DEF handleVars
    <3>2. \A d \in Clients : ClientNext(d) /\ d # c => outcome'[c] = outcome[c]
      BY OtherClients
    <3> QED BY <2>1, <3>1, <3>2 DEF HandleNext
  <2>3. Read(c)
    <3>1. \A e \in OpenErrors : ~ IsAlive(Err(e))
      BY DEF IsAlive, IsOk, Err
    <3>2. ReadError(op[c]) \in OpenErrors
      BY DEF ReadError, OpenErrors
    <3>3. ~ ReadNothing(c) /\ ~ Write(c) /\ ~ WriteFails(c) /\ ~ TellOwner(c)
      BY DEF ReadNothing, Write, WriteFails, TellOwner, Writers, MemoryReaders
    <3> QED BY <2>1, <2>2, <3>1, <3>2, <3>3
      DEF ClientNext, New, OpenProcess, OpenProcessFails, ResolveSelf,
          ResolveSelfFails, DropProcess, Call, OpenFile, OpenFileFails,
          ReadFails, Cancel, Unmade, Finish, OpenErrors
  <2>4. /\ outcome'[c] = Ok([process |-> handle[c], state |-> life[handle[c]]])
        /\ Listed(handle[c])
    BY <2>3 DEF Read, Finish, About, HasContents, MemoryReaders
  <2> QED BY <2>4 DEF IsAlive, Ok, Listed
<1> QED BY <1>1, HandleInvariance, PTL DEF HandleSpec, AliveMeansRunning

\* However the exit of the process falls between the awaits of a reader, the
\* reader fails only because the process is gone, and says NotFound, or Io of a
\* read that does not name its path.
THEOREM DeathReported == HandleSpec => DeathIsNotFound
<1> DEFINE Told(c) ==
      /\ life[handle[c]] = "gone"
      /\ outcome'[c].err =
           IF pc[c] = "reading" /\ op[c] \in {"oom_score", "environ", "coredump_filter"}
           THEN "Io" ELSE "NotFound"
    Good(c) ==
      /\ op[c] \in Readers /\ pc[c] \in {"calling", "reading"}
      /\ CanOpen \/ pc[c] = "reading"
      /\ IsErr(outcome'[c])
      => Told(c)
<1>1. HandleInv /\ [HandleNext]_vars => [\A c \in Clients : Good(c)]_vars
  <2> SUFFICES ASSUME HandleInv, HandleNext, NEW c \in Clients,
                      op[c] \in Readers, pc[c] \in {"calling", "reading"},
                      CanOpen \/ pc[c] = "reading",
                      IsErr(outcome'[c])
               PROVE  Told(c)
    BY DEF vars
  <2> USE DEF HandleInv, HandleTypeOK, CallShape, worldVars
  <2>1. ClientNext(c)
    <3>1. outcome'[c] # outcome[c]
      BY DEF IsErr, Pending
    <3>2. ~ (WorldNext /\ UNCHANGED handleVars)
      BY <3>1 DEF handleVars
    <3>3. \A d \in Clients : ClientNext(d) /\ d # c => outcome'[c] = outcome[c]
      BY OtherClients
    <3> QED BY <3>1, <3>2, <3>3 DEF HandleNext
  <2>2. OpenFileFails(c) \/ ReadFails(c)
    <3>1. ~ IsErr(Pending) /\ \A v : ~ IsErr(Ok(v))
      BY DEF IsErr, Pending, Ok
    <3> QED BY <2>1, <3>1
      DEF ClientNext, New, OpenProcess, OpenProcessFails, ResolveSelf, ResolveSelfFails,
          DropProcess, Call, OpenFile, Read, ReadNothing, Write, WriteFails, TellOwner,
          Cancel, Unmade, Finish, Writers, Readers, MemoryReaders
  <2>3. CASE OpenFileFails(c)
    <3>1. pc[c] = "calling" /\ outcome'[c] = Err("NotFound") /\ ~ Listed(handle[c])
      BY <2>3 DEF OpenFileFails, Finish
    <3> QED BY <3>1, UnlistedIsGone DEF Err
  <2>4. CASE ReadFails(c)
    <3>1. pc[c] = "reading" /\ outcome'[c] = Err(ReadError(op[c])) /\ ~ Listed(handle[c])
      BY <2>4 DEF ReadFails, Readable, Finish
    <3>2. op[c] \in {"stat", "cmdline", "oom_score", "environ", "coredump_filter"}
      BY DEF Readers, MemoryReaders
    <3> QED BY <3>1, <3>2, UnlistedIsGone DEF Err, ReadError
  <2> QED BY <2>2, <2>3, <2>4
<1> QED BY <1>1, HandleInvariance, PTL DEF HandleSpec, DeathIsNotFound

\* A Process implements the reference: reuse of its pid, and the steps of the
\* calls made on it, cannot be seen in what it answers.
THEOREM HandleRefinement == HandleSpec => ImplementsRef
<1>1. HandleInit => Ref!RefInit
  <2>1. Ref!Pending = Pending
    BY DEF Pending, Ref!Pending
  <2> QED BY <2>1 DEF HandleInit, WorldInit, Ref!RefInit
<1>2. HandleInv /\ [HandleNext]_vars => [Ref!RefNext]_(Ref!refVars)
  <2> SUFFICES ASSUME HandleInv, [HandleNext]_vars
               PROVE  [Ref!RefNext]_(Ref!refVars)
    OBVIOUS
  <2> USE DEF HandleInv, HandleTypeOK, MyselfRuns, HandleBorn, CallShape, worldVars
  <2>1. CASE UNCHANGED vars
    BY <2>1 DEF vars, handleVars, Ref!refVars
  <2>2. CASE WorldNext /\ UNCHANGED handleVars
    <3>1. PICK i \in Processes :
            \E s \in Ref!Shown \cup {"gone"} :
              <<life[i], s>> \in Ref!Ages /\ life' = [life EXCEPT ![i] = s]
      BY <2>2 DEF WorldNext, Spawn, Exit, Reap, Ref!Shown, Ref!Ages
    <3>2. Ref!Age(i)
      BY <2>2, <3>1 DEF handleVars, Ref!Age
    <3> QED BY <3>2 DEF Ref!RefNext
  <2>3. ASSUME NEW c \in Clients, ClientNext(c)
        PROVE  [Ref!RefNext]_(Ref!refVars)
    <3>1. ASSUME UNCHANGED <<life, handle, adjusted>>,
                 outcome' = [outcome EXCEPT ![c] = Pending]
          PROVE  Ref!RefNext
      BY <3>1 DEF Ref!RefNext, Ref!Forget, Pending, Ref!Pending
    <3>2. ASSUME UNCHANGED <<life, handle, adjusted>>, NEW e \in OpenErrors,
                 outcome' = [outcome EXCEPT ![c] = Err(e)],
                 e = "NotFound" /\ handle[c] # NoHandle => life[handle[c]] = "gone"
          PROVE  Ref!RefNext
      BY <3>2 DEF Ref!RefNext, Ref!Deny, Err, Ref!Err
    <3>3. ASSUME UNCHANGED <<life, handle, adjusted>>,
                 handle[c] # NoHandle, Listed(handle[c]),
                 outcome' = [outcome EXCEPT ![c] = Ok(About(handle[c]))]
          PROVE  Ref!RefNext
      BY <3>3 DEF Ref!RefNext, Ref!Tell, Ref!Shown, Listed, About, Ok, Ref!Ok
    <3>4. ASSUME UNCHANGED <<life, handle, adjusted>>,
                 handle[c] # NoHandle, life[handle[c]] = "running" => handle[c] \in Bare,
                 outcome' = [outcome EXCEPT ![c] = Ok(Blank)]
          PROVE  Ref!RefNext
      BY <3>4 DEF Ref!RefNext, Ref!TellNothing, Blank, Ok, Ref!Ok
    <3>5. ASSUME UNCHANGED <<life, handle>>, handle[c] # NoHandle, Listed(handle[c]),
                 adjusted' = adjusted \cup {handle[c]},
                 NEW r \in {Ok(About(handle[c])), Pending},
                 outcome' = [outcome EXCEPT ![c] = r]
          PROVE  Ref!RefNext
      <4>1. r \in {Ref!Ok([process |-> handle[c], state |-> life[handle[c]]]), Ref!Pending}
        BY DEF About, Ok, Ref!Ok, Pending, Ref!Pending
      <4>2. Ref!Adjust(c)
        BY <3>5, <4>1 DEF Ref!Adjust, Ref!Shown, Listed
      <4> QED BY <4>2 DEF Ref!RefNext
    <3>6. ASSUME NEW t \in Pids \cup {SelfLink}, New(c, t)
          PROVE  Ref!RefNext
      BY <3>1, <3>6 DEF New
    <3>7. CASE OpenProcess(c)
      <4>1. CASE pid[c] = SelfLink
        BY <3>7, <4>1 DEF OpenProcess, Ref!refVars
      <4>2. CASE pid[c] # SelfLink
        <5>1. PICK i \in Resolve(pid[c]) :
                handle' = [handle EXCEPT ![c] = i]
          BY <3>7, <4>2 DEF OpenProcess
        <5>2. i \in Processes /\ life[i] \in Ref!Shown /\ handle[c] = NoHandle
          BY <3>7, <4>2 DEF OpenProcess, Resolve, Occupant, Listed, Ref!Shown
        <5>3. Ref!Take(c, i)
          BY <3>7, <5>1, <5>2 DEF OpenProcess, Ref!Take
        <5> QED BY <5>2, <5>3 DEF Ref!RefNext
      <4> QED BY <4>1, <4>2
    <3>8. CASE OpenProcessFails(c)
      BY <3>2, <3>8 DEF OpenProcessFails, Unmade, Finish, OpenErrors
    <3>9. CASE ResolveSelf(c)
      <4>1. Ref!Take(c, Myself)
        BY <3>9 DEF ResolveSelf, Ref!Take, Ref!Shown
      <4> QED BY <4>1, MyselfAssumption DEF Ref!RefNext
    <3>10. CASE ResolveSelfFails(c)
      BY <3>2, <3>10 DEF ResolveSelfFails, Unmade, Finish, OpenErrors
    <3>11. CASE DropProcess(c)
      BY <3>11 DEF DropProcess, Ref!RefNext, Ref!Release, Pending, Ref!Pending
    <3>12. ASSUME NEW o \in Calls[c], Call(c, o)
          PROVE  Ref!RefNext
      BY <3>1, <3>12 DEF Call
    <3>13. CASE OpenFile(c)
      BY <3>13 DEF OpenFile, Ref!refVars
    <3>14. CASE OpenFileFails(c)
      BY <3>2, <3>14, UnlistedIsGone DEF OpenFileFails, Finish, OpenErrors
    <3>15. CASE Read(c)
      BY <3>3, <3>15 DEF Read, HasContents, Listed, Finish
    <3>16. CASE ReadFails(c)
      BY <3>2, <3>16, UnlistedIsGone DEF ReadFails, Readable, ReadError, Finish, OpenErrors
    <3>21. CASE ReadNothing(c)
      BY <3>4, <3>21 DEF ReadNothing, HasContents, Finish
    <3>17. CASE Write(c)
      BY <3>5, <3>17 DEF Write, Finish
    <3>18. CASE WriteFails(c)
      BY <3>2, <3>18 DEF WriteFails, Finish, OpenErrors
    <3>19. CASE TellOwner(c)
      <4>1. CASE Listed(handle[c]) /\ handle[c] \notin Bare
        BY <3>3, <3>19, <4>1 DEF TellOwner, Finish
      <4>2. CASE ~ Listed(handle[c]) \/ handle[c] \in Bare
        BY <3>4, <3>19, <4>2 DEF TellOwner, Listed, Finish
      <4> QED BY <4>1, <4>2
    <3>20. CASE Cancel(c)
      <4>1. /\ UNCHANGED <<life, handle>>
            /\ outcome' = [outcome EXCEPT ![c] = Pending]
        BY <3>20 DEF Cancel, Unmade, Finish
      <4>2. CASE UNCHANGED adjusted
        BY <3>1, <4>1, <4>2
      <4>3. CASE ~ UNCHANGED adjusted
        BY <3>5, <3>20, <4>1, <4>3 DEF Cancel
      <4> QED BY <4>2, <4>3
    <3> QED BY <2>3, <3>6, <3>7, <3>8, <3>9, <3>10, <3>11, <3>12, <3>13, <3>14, <3>15,
               <3>16, <3>17, <3>18, <3>19, <3>20, <3>21 DEF ClientNext
  <2> QED BY <2>1, <2>2, <2>3 DEF HandleNext
<1> QED BY <1>1, <1>2, HandleInvariance, PTL DEF HandleSpec, ImplementsRef,
           Ref!RefSpec

-----------------------------------------------------------------------------
(* What FlattenSeq and NulEnded are of one sequence more.                  *)

\* The loop of FlattenSeq is any loop that puts the sequences one behind the other.
LEMMA FlattenLoop ==
  ASSUME NEW W, NEW s \in Seq(Seq(W)), NEW g \in [0..Len(s) -> Seq(W)], g[0] = <<>>,
         \A n \in 1..Len(s) : g[n] = g[n - 1] \o s[n]
  PROVE  FlattenSeq(s) = g[Len(s)]
<1> DEFINE N == Len(s)
    f == CHOOSE f : f = [i \in 1..Len(s) |-> IF i = 1 THEN s[i] ELSE f[i-1] \o s[i]]
<1>1. N \in Nat
  OBVIOUS
<1>2. CASE N = 0
  <2>1. s = <<>>
    BY <1>2
  <2>2. FlattenSeq(s) = s
    BY <1>2, Zenon DEF FlattenSeq
  <2> QED
    BY <1>2, <2>1, <2>2
<1>3. CASE N # 0
  <2> DEFINE Step(h, i) == IF i = 1 THEN s[i] ELSE h[i - 1] \o s[i]
  <2>1. FlattenSeq(s) = f[N]
    BY <1>3, Zenon DEF FlattenSeq
  <2>2. N \in 1..N /\ 1 \in 1..N /\ s[1] \in Seq(W)
    BY <1>1, <1>3
  <2>3. g[1] = s[1]
    <3>1. g[1] = g[1 - 1] \o s[1]
      BY <2>2, Zenon
    <3>2. <<>> \o s[1] = s[1]
      BY <2>2
    <3>3. 1 - 1 = 0
      OBVIOUS
    <3> QED
      BY <3>1, <3>2, <3>3, Zenon
  <2>4. \E h : h = [i \in 1..N |-> Step(h, i)]
    <3> DEFINE h == [i \in 1..N |-> g[i]]
    <3>1. ASSUME NEW i \in 1..N PROVE g[i] = Step(h, i)
      <4>1. CASE i = 1
        BY <2>3, <4>1
      <4>2. CASE i # 1
        <5>1. i - 1 \in 1..N
          BY <1>1, <4>2
        <5> QED
          BY <4>2, <5>1
      <4> QED
        BY <4>1, <4>2
    <3>2. h = [i \in 1..N |-> Step(h, i)]
      <4> HIDE DEF Step
      <4> QED
        BY <3>1
    <3> QED
      BY <3>2
  <2>5. f = [i \in 1..N |-> Step(f, i)]
    BY <2>4, Zenon
  <2> HIDE DEF f
  <2> DEFINE e == [n \in 0..N |-> IF n = 0 THEN <<>> ELSE f[n]]
  <2>6. e[0] = g[0] /\ e[N] = f[N]
    BY <1>1, <1>3
  <2>7. ASSUME NEW n \in 1..N, e[n - 1] = g[n - 1] PROVE e[n] = g[n]
    <3>1. e[n] = Step(f, n)
      <4>1. n \in 0..N /\ n # 0
        BY <1>1
      <4>2. e[n] = f[n]
        BY <4>1 DEF e
      <4> HIDE DEF Step
      <4>3. f[n] = Step(f, n)
        BY <2>5
      <4> QED
        BY <4>2, <4>3
    <3>2. CASE n = 1
      BY <2>3, <3>1, <3>2
    <3>3. CASE n # 1
      <4>1. e[n - 1] = f[n - 1]
        BY <1>1, <3>3 DEF e
      <4> QED
        BY <2>7, <3>1, <3>3, <4>1
    <3> QED
      BY <3>2, <3>3
  <2> HIDE DEF e
  <2>8. e[N] = g[N]
    BY <1>1, <2>6, <2>7, SameLoop, Zenon
  <2> QED
    BY <2>1, <2>6, <2>8
<1> QED
  BY <1>2, <1>3

\* One sequence more comes behind the others.
LEMMA FlattenAppend ==
  ASSUME NEW W, NEW s \in Seq(Seq(W)), NEW t \in Seq(W)
  PROVE  /\ FlattenSeq(<<>>) = <<>> /\ FlattenSeq(s) \in Seq(W)
         /\ FlattenSeq(Append(s, t)) = FlattenSeq(s) \o t
<1> DEFINE u == Append(s, t)
    N == Len(u)
    step == [n \in 1..N |-> [x \in Seq(W) |-> x \o u[n]]]
<1>1. /\ u \in Seq(Seq(W)) /\ Len(s) \in Nat /\ N = Len(s) + 1 /\ N \in Nat /\ u[N] = t
      /\ \A n \in 1..Len(s) : u[n] = s[n]
  OBVIOUS
<1> HIDE DEF u
<1>2. ASSUME NEW n \in 1..N, NEW x \in Seq(W)
      PROVE  step[n][x] = x \o u[n] /\ step[n][x] \in Seq(W)
  <2>1. u[n] \in Seq(W)
    BY <1>1
  <2> QED
    BY <2>1
<1>3. \E g : IsLoop(g, N, Seq(W), <<>>, step)
  <2> DEFINE none == <<>>
  <2>1. none \in Seq(W) /\ N \in Nat
    BY <1>1
  <2>2. Steps(N, Seq(W), step)
    BY <1>2 DEF Steps
  <2> HIDE DEF none, step, u
  <2>3. \E g : IsLoop(g, N, Seq(W), none, step)
    BY <2>1, <2>2, LoopExists, Zenon
  <2> QED
    BY <2>3, Zenon DEF none
<1> HIDE DEF step
<1>5. PICK g \in [0..N -> Seq(W)] : g[0] = <<>> /\ \A n \in 1..N : g[n] = step[n][g[n - 1]]
  BY <1>3 DEF IsLoop
<1>6. \A n \in 1..N : g[n] = g[n - 1] \o u[n]
  <2>1. \A n \in 1..N : g[n - 1] \in Seq(W)
    BY <1>1
  <2> QED
    BY <1>2, <1>5, <2>1
<1>7. FlattenSeq(u) = g[N]
  BY <1>1, <1>5, <1>6, FlattenLoop
<1>8. FlattenSeq(s) = g[Len(s)]
  <2> DEFINE h == [n \in 0..Len(s) |-> g[n]]
  <2>1. \A n \in 0..Len(s) : n \in 0..N
    BY <1>1
  <2>2. h \in [0..Len(s) -> Seq(W)] /\ h[0] = <<>> /\ h[Len(s)] = g[Len(s)]
    BY <1>1, <1>5, <2>1
  <2>3. ASSUME NEW n \in 1..Len(s) PROVE h[n] = h[n - 1] \o s[n]
    <3>1. n \in 1..N /\ n \in 0..Len(s) /\ n - 1 \in 0..Len(s) /\ u[n] = s[n]
      BY <1>1
    <3> QED
      BY <1>6, <3>1
  <2> HIDE DEF h
  <2>4. FlattenSeq(s) = h[Len(s)]
    BY <2>2, <2>3, FlattenLoop, Zenon
  <2> QED
    BY <2>2, <2>4
<1>9. FlattenSeq(<<>>) = <<>>
  BY Zenon DEF FlattenSeq
<1>10. FlattenSeq(s) \in Seq(W)
  BY <1>1, <1>8
<1>11. FlattenSeq(u) = FlattenSeq(s) \o t
  <2>1. N \in 1..N /\ N - 1 = Len(s)
    BY <1>1
  <2> QED
    BY <2>1, <1>1, <1>6, <1>7, <1>8
<1> QED
  BY <1>9, <1>10, <1>11 DEF u

\* One string more comes behind the others, and a Nul behind it.
LEMMA NulEndedAppend ==
  ASSUME NEW A, Nul \in A, NEW ss \in Seq(Seq(A)), NEW s \in Seq(A)
  PROVE  /\ NulEnded(<<>>) = <<>> /\ NulEnded(ss) \in Seq(A)
         /\ NulEnded(Append(ss, s)) = Append(NulEnded(ss) \o s, Nul)
<1> DEFINE End(u) == [k \in 1..Len(u) |-> Append(u[k], Nul)]
    us == Append(ss, s)
    t == Append(s, Nul)
<1>1. End(ss) \in Seq(Seq(A)) /\ t \in Seq(A) /\ End(us) = Append(End(ss), t)
  <2>1. /\ us \in Seq(Seq(A)) /\ Len(ss) \in Nat /\ Len(us) = Len(ss) + 1
        /\ us[Len(us)] = s /\ \A k \in 1..Len(ss) : us[k] = ss[k]
    OBVIOUS
  <2>2. \A k \in 1..Len(ss) : Append(ss[k], Nul) \in Seq(A)
    OBVIOUS
  <2>3. End(ss) \in Seq(Seq(A)) /\ Len(End(ss)) = Len(ss) /\ t \in Seq(A)
    BY <2>1, <2>2
  <2> DEFINE e == Append(End(ss), t)
  <2>4. e \in Seq(Seq(A)) /\ Len(e) = Len(us)
    BY <2>1, <2>3
  <2>5. \A k \in 1..Len(us) : e[k] = Append(us[k], Nul)
    BY <2>1, <2>3
  <2>6. e = [k \in 1..Len(us) |-> e[k]]
    BY <2>4
  <2> HIDE DEF e, us
  <2>7. e = End(us)
    BY <2>5, <2>6
  <2> QED
    BY <2>3, <2>7 DEF e
<1>2. End(<<>>) = <<>>
  OBVIOUS
<1> DEFINE ends == End(ss)
<1>3. /\ FlattenSeq(<<>>) = <<>> /\ FlattenSeq(ends) \in Seq(A)
      /\ FlattenSeq(Append(ends, t)) = FlattenSeq(ends) \o t
  <2>1. ends \in Seq(Seq(A)) /\ t \in Seq(A)
    BY <1>1
  <2> HIDE DEF ends, t
  <2> QED
    BY <2>1, FlattenAppend
<1>4. \A u : NulEnded(u) = FlattenSeq(End(u))
  BY Zenon DEF NulEnded
<1> HIDE DEF ends
<1>5. FlattenSeq(ends) \o t = Append(FlattenSeq(ends) \o s, Nul)
  BY <1>3
<1> HIDE DEF End, us, t
<1>6. NulEnded(us) = FlattenSeq(Append(ends, t)) /\ NulEnded(ss) = FlattenSeq(ends)
  BY <1>1, <1>4, Zenon DEF ends
<1>7. NulEnded(<<>>) = <<>>
  BY <1>2, <1>3, <1>4, Zenon
<1> QED
  BY <1>3, <1>5, <1>6, <1>7 DEF us

-----------------------------------------------------------------------------
(* What SplitAtNul makes of one byte more.                                 *)

WithByte(x, b) ==
  IF b = Nul THEN Append(x, <<>>) ELSE [x EXCEPT ![Len(x)] = Append(@, b)]

\* The loop of SplitAtNul is any loop that takes the bytes one by one.
LEMMA SplitLoop ==
  ASSUME NEW buf, Len(buf) \in Nat, NEW g, g[0] = <<<<>>>>,
         \A n \in 1..Len(buf) : g[n] = WithByte(g[n - 1], buf[n])
  PROVE  SplitAtNul(buf) = g[Len(buf)]
<1> DEFINE N == Len(buf)
    f == CHOOSE f : f = [n \in 0..Len(buf) |->
           IF n = 0 THEN <<<<>>>>
           ELSE IF buf[n] = Nul THEN Append(f[n - 1], <<>>)
           ELSE [f[n - 1] EXCEPT ![Len(f[n - 1])] = Append(@, buf[n])]]
<1>1. SplitAtNul(buf) = f[N]
  BY Zenon DEF SplitAtNul
<1>2. f = CHOOSE h : h = [n \in 0..N |-> IF n = 0 THEN <<<<>>>> ELSE WithByte(h[n - 1], buf[n])]
  BY Zenon DEF WithByte
<1> HIDE DEF f
<1>3. \E h : h = [n \in 0..N |-> IF n = 0 THEN <<<<>>>> ELSE WithByte(h[n - 1], buf[n])]
  <2> DEFINE h == [n \in 0..N |-> g[n]]
  <2>1. h = [n \in 0..N |-> IF n = 0 THEN <<<<>>>> ELSE WithByte(h[n - 1], buf[n])]
    OBVIOUS
  <2> QED
    BY <2>1
<1>4. f = [n \in 0..N |-> IF n = 0 THEN <<<<>>>> ELSE WithByte(f[n - 1], buf[n])]
  BY <1>2, <1>3, Zenon
<1>5. f[0] = g[0] /\ \A n \in 1..N : f[n - 1] = g[n - 1] => f[n] = g[n]
  BY <1>4
<1>6. f[N] = g[N]
  BY <1>5, SameLoop, Zenon
<1> QED
  BY <1>1, <1>6, Zenon

\* At least one slice.
Slices(A) == {x \in Seq(Seq(A)) : Len(x) >= 1}

\* There stays at least one slice.
LEMMA WithByteType ==
  ASSUME NEW A, NEW x \in Slices(A), NEW b \in A
  PROVE  WithByte(x, b) \in Slices(A)
<1>1. x \in Seq(Seq(A)) /\ Len(x) \in Nat /\ Len(x) >= 1 /\ x[Len(x)] \in Seq(A)
  BY DEF Slices
<1>2. CASE b = Nul
  <2>1. <<>> \in Seq(A)
    OBVIOUS
  <2> DEFINE e == <<>>
  <2> HIDE DEF e
  <2>2. ASSUME NEW e1 \in Seq(A) PROVE Append(x, e1) \in Seq(Seq(A)) /\ Len(Append(x, e1)) >= 1
    BY <1>1
  <2>3. Append(x, <<>>) \in Seq(Seq(A)) /\ Len(Append(x, <<>>)) >= 1
    BY <2>1, <2>2, Zenon
  <2>4. Append(x, <<>>) \in Slices(A)
    BY <2>3 DEF Slices
  <2> QED
    BY <1>2, <2>4, Zenon DEF WithByte
<1>3. CASE b # Nul
  <2> DEFINE y == [x EXCEPT ![Len(x)] = Append(@, b)]
  <2>1. y \in Seq(Seq(A)) /\ Len(y) = Len(x)
    BY <1>1
  <2>2. y \in Slices(A)
    BY <1>1, <2>1 DEF Slices
  <2>3. WithByte(x, b) = y
    BY <1>3, Zenon DEF WithByte
  <2> QED
    BY <2>2, <2>3
<1> QED
  BY <1>2, <1>3

\* What SplitAtNul returns of one byte more.
LEMMA SplitByte ==
  ASSUME NEW A, NEW buf \in Seq(A), NEW b \in A
  PROVE  /\ SplitAtNul(<<>>) = <<<<>>>> /\ SplitAtNul(buf) \in Slices(A)
         /\ SplitAtNul(Append(buf, b)) = WithByte(SplitAtNul(buf), b)
<1> DEFINE u == Append(buf, b)
    N == Len(u)
    first == <<<<>>>>
    step == [n \in 1..N |-> [x \in Slices(A) |-> WithByte(x, u[n])]]
<1>1. /\ u \in Seq(A) /\ Len(buf) \in Nat /\ N = Len(buf) + 1 /\ N \in Nat /\ u[N] = b
      /\ \A n \in 1..Len(buf) : u[n] = buf[n]
      /\ \A n \in 1..N : u[n] \in A
  OBVIOUS
<1>2. first \in Slices(A) /\ first[1] = <<>>
  BY DEF Slices
<1> HIDE DEF u
<1>3. ASSUME NEW n \in 1..N, NEW x \in Slices(A)
      PROVE  step[n][x] = WithByte(x, u[n]) /\ step[n][x] \in Slices(A)
  BY <1>1, WithByteType
<1> HIDE DEF step, first
<1>4. \E g : IsLoop(g, N, Slices(A), first, step)
  <2>1. Steps(N, Slices(A), step)
    BY <1>3 DEF Steps
  <2>2. N \in Nat
    BY <1>1
  <2> QED
    BY <1>2, <2>1, <2>2, LoopExists, Zenon
<1>5. PICK g : /\ g \in [0..N -> Slices(A)] /\ g[0] = first
               /\ \A n \in 1..N : g[n] = step[n][g[n - 1]]
  BY <1>4 DEF IsLoop
<1>6. ASSUME NEW n \in 1..N PROVE g[n] = WithByte(g[n - 1], u[n])
  <2>1. g[n - 1] \in Slices(A)
    BY <1>1, <1>5
  <2> QED
    BY <1>3, <1>5, <2>1
<1>7. SplitAtNul(u) = g[N]
  BY <1>1, <1>5, <1>6, SplitLoop, Zenon DEF first
<1>8. SplitAtNul(buf) = g[Len(buf)]
  <2>1. \A n \in 1..Len(buf) : g[n] = WithByte(g[n - 1], buf[n])
    BY <1>1, <1>6
  <2> QED
    BY <1>1, <1>5, <2>1, SplitLoop, Zenon DEF first
<1>9. SplitAtNul(<<>>) = <<<<>>>>
  <2> DEFINE e == <<>>
      h == [n \in 0..0 |-> <<<<>>>>]
  <2>1. Len(e) \in Nat /\ Len(e) = 0 /\ h[0] = <<<<>>>> /\ \A n \in 1..Len(e) : FALSE
    OBVIOUS
  <2> HIDE DEF e, h
  <2>2. SplitAtNul(e) = h[Len(e)]
    BY <2>1, SplitLoop, Zenon
  <2> QED
    BY <2>1, <2>2, Zenon DEF e
<1>10. g[Len(buf)] \in Slices(A) /\ g[N] = WithByte(g[Len(buf)], b)
  <2>1. N \in 1..N /\ N - 1 = Len(buf) /\ Len(buf) \in 0..N
    BY <1>1
  <2> QED
    BY <2>1, <1>1, <1>5, <1>6
<1> QED
  BY <1>7, <1>8, <1>9, <1>10, Zenon DEF u

\* A string that holds no Nul goes on the last slice, whole.
LEMMA SplitString ==
  ASSUME NEW A, NEW buf \in Seq(A), NEW L \in Seq(Seq(A)), NEW s \in Seq(A \ {Nul}),
         SplitAtNul(buf) = Append(L, <<>>)
  PROVE  SplitAtNul(buf \o s) = Append(L, s)
<1> DEFINE N == Len(s)
    P(n) == SubSeq(s, 1, n)
    T == {n \in 0..N : SplitAtNul(buf \o P(n)) = Append(L, P(n))}
<1>1. N \in Nat /\ s \in Seq(A) /\ \A n \in 1..N : s[n] \in A /\ s[n] # Nul
  OBVIOUS
<1>2. /\ P(0) = <<>> /\ P(N) = s
      /\ \A n \in 0..N : P(n) \in Seq(A)
      /\ \A n \in 1..N : P(n) = Append(P(n - 1), s[n])
  BY <1>1, PrefixFacts, Zenon
<1> HIDE DEF P
<1>3. 0 \in T
  <2>1. buf \o <<>> = buf /\ 0 \in 0..N
    BY <1>1
  <2> QED
    BY <1>2, <2>1
<1>4. ASSUME NEW n \in 1..N, n - 1 \in T PROVE n \in T
  <2>1. n \in 0..N /\ n - 1 \in 0..N
    BY <1>1
  <2> DEFINE p == P(n - 1)
      x == Append(L, p)
      b == s[n]
  <2>2. p \in Seq(A) /\ P(n) = Append(p, b) /\ b \in A /\ b # Nul
    BY <1>1, <1>2, <2>1
  <2>3. SplitAtNul(buf \o p) = x
    BY <1>4
  <2> HIDE DEF p, b
  <2>4. buf \o Append(p, b) = Append(buf \o p, b) /\ buf \o p \in Seq(A)
    BY <2>2
  <2>5. SplitAtNul(Append(buf \o p, b)) = WithByte(x, b)
    BY <2>2, <2>3, <2>4, SplitByte
  <2>6. WithByte(x, b) = [x EXCEPT ![Len(x)] = Append(@, b)]
    BY <2>2, Zenon DEF WithByte
  <2>7. [x EXCEPT ![Len(x)] = Append(@, b)] = Append(L, Append(p, b))
    <3>1. Append(p, b) \in Seq(A)
      BY <2>2
    <3> DEFINE q == Append(p, b)
        y == [x EXCEPT ![Len(x)] = q]
        z == Append(L, q)
    <3>2. /\ x \in Seq(Seq(A)) /\ Len(x) = Len(L) + 1 /\ x[Len(x)] = p
          /\ \A i \in 1..Len(L) : x[i] = L[i]
      BY <2>2
    <3> HIDE DEF q, x
    <3>3. /\ y \in Seq(Seq(A)) /\ Len(y) = Len(L) + 1
          /\ \A i \in 1..(Len(L) + 1) : y[i] = IF i = Len(L) + 1 THEN q ELSE L[i]
      <4>1. q \in Seq(A)
        BY <3>1 DEF q
      <4>2. Len(L) \in Nat /\ DOMAIN x = 1..(Len(L) + 1)
        BY <3>2
      <4>3. DOMAIN y = 1..(Len(L) + 1) /\ y = [i \in 1..(Len(L) + 1) |-> y[i]]
        BY <3>2, <4>2
      <4>4. ASSUME NEW i \in 1..(Len(L) + 1)
            PROVE  y[i] = IF i = Len(L) + 1 THEN q ELSE L[i]
        <5>1. i = Len(L) + 1 \/ (i \in 1..Len(L) /\ i # Len(x) /\ i # Len(L) + 1)
          BY <3>2, <4>2
        <5>2. i \in DOMAIN x /\ Len(x) \in DOMAIN x
          BY <3>2, <4>2
        <5> QED
          BY <3>2, <5>1, <5>2
      <4> HIDE DEF y
      <4>5. \A i \in 1..(Len(L) + 1) : y[i] \in Seq(A)
        BY <4>1, <4>2, <4>4
      <4> QED
        BY <4>2, <4>3, <4>4, <4>5
    <3>4. /\ z \in Seq(Seq(A)) /\ Len(z) = Len(L) + 1
          /\ \A i \in 1..(Len(L) + 1) : z[i] = IF i = Len(L) + 1 THEN q ELSE L[i]
      BY <3>1 DEF q
    <3> HIDE DEF y, z
    <3>5. /\ y = [i \in 1..(Len(L) + 1) |-> y[i]]
          /\ z = [i \in 1..(Len(L) + 1) |-> z[i]]
      BY <3>3, <3>4
    <3>6. \A i \in 1..(Len(L) + 1) : y[i] = z[i]
      BY <3>3, <3>4
    <3>7. y = z
      BY <3>5, <3>6
    <3> QED
      BY <3>2, <3>7 DEF q, y, z
  <2> QED
    BY <2>1, <2>2, <2>4, <2>5, <2>6, <2>7
<1>5. N \in 0..N
  BY <1>1
<1> HIDE DEF T
<1>6. N \in T
  BY <1>1, <1>3, <1>4, <1>5, SetInduction
<1> QED
  BY <1>2, <1>6 DEF T

\* No strings are no bytes.
LEMMA NulEndedEmpty == NulEnded(<<>>) = <<>>
<1> DEFINE A == {Nul}
    none == <<>>
<1>1. none \in Seq(Seq(A)) /\ none \in Seq(A) /\ Nul \in A
  OBVIOUS
<1> HIDE DEF none, A
<1> QED
  BY <1>1, NulEndedAppend, Zenon

\* Strings that hold no Nul are the slices, and behind the last Nul is an empty one.
THEOREM SplitInvertsNulEnded ==
  ASSUME NEW A, Nul \in A, NEW ss \in Seq(Seq(A \ {Nul}))
  PROVE  NulEnded(ss) \in Seq(A) /\ SplitAtNul(NulEnded(ss)) = Append(ss, <<>>)
<1> DEFINE N == Len(ss)
    P(n) == SubSeq(ss, 1, n)
    T == {n \in 0..N : SplitAtNul(NulEnded(P(n))) = Append(P(n), <<>>)}
<1>1. /\ N \in Nat /\ Seq(A \ {Nul}) \subseteq Seq(A) /\ ss \in Seq(Seq(A))
      /\ \A n \in 1..N : ss[n] \in Seq(A \ {Nul})
  OBVIOUS
<1>2. /\ P(0) = <<>> /\ P(N) = ss
      /\ \A n \in 0..N : P(n) \in Seq(Seq(A))
      /\ \A n \in 1..N : P(n) = Append(P(n - 1), ss[n])
  BY <1>1, PrefixFacts, Zenon
<1> HIDE DEF P
<1>3. 0 \in T
  <2>1. NulEnded(<<>>) = <<>>
    BY NulEndedEmpty
  <2>2. SplitAtNul(<<>>) = <<<<>>>> /\ Append(<<>>, <<>>) = <<<<>>>>
    BY SplitByte, <1>1
  <2>3. 0 \in 0..N
    BY <1>1
  <2> QED
    BY <1>2, <2>1, <2>2, <2>3
<1>4. ASSUME NEW n \in 1..N, n - 1 \in T PROVE n \in T
  <2>1. n \in 0..N /\ n - 1 \in 0..N
    BY <1>1
  <2> DEFINE p == P(n - 1)
      s == ss[n]
      buf == NulEnded(p)
  <2>2. p \in Seq(Seq(A)) /\ P(n) = Append(p, s) /\ s \in Seq(A \ {Nul}) /\ s \in Seq(A)
    BY <1>1, <1>2, <2>1
  <2>3. SplitAtNul(buf) = Append(p, <<>>)
    BY <1>4
  <2> HIDE DEF p, s
  <2>4. buf \in Seq(A) /\ NulEnded(Append(p, s)) = Append(buf \o s, Nul)
    BY <2>2, NulEndedAppend, Zenon
  <2> HIDE DEF buf
  <2>5. SplitAtNul(buf \o s) = Append(p, s)
    BY <2>2, <2>3, <2>4, SplitString, Zenon
  <2>6. buf \o s \in Seq(A)
    BY <2>2, <2>4
  <2>7. SplitAtNul(Append(buf \o s, Nul)) = WithByte(Append(p, s), Nul)
    BY <2>5, <2>6, SplitByte, Zenon
  <2>8. WithByte(Append(p, s), Nul) = Append(Append(p, s), <<>>)
    BY Zenon DEF WithByte
  <2>9. SplitAtNul(NulEnded(P(n))) = Append(P(n), <<>>)
    BY <2>2, <2>4, <2>7, <2>8, Zenon
  <2> QED
    BY <2>1, <2>9
<1>5. N \in 0..N
  BY <1>1
<1>6. NulEnded(ss) \in Seq(A)
  BY <1>1, NulEndedAppend
<1> HIDE DEF T
<1>7. N \in T
  BY <1>1, <1>3, <1>4, <1>5, SetInduction
<1> QED
  BY <1>2, <1>6, <1>7 DEF T

\* An empty string behind the others changes nothing of those that are not empty.
LEMMA NonEmptyAppend ==
  ASSUME NEW A, NEW ss \in Seq(Seq(A))
  PROVE  NonEmpty(<<>>) = <<>> /\ NonEmpty(Append(ss, <<>>)) = NonEmpty(ss)
<1> DEFINE Kept(u) == [k \in 1..Len(u) |-> IF u[k] = <<>> THEN <<>> ELSE <<u[k]>>]
    us == Append(ss, <<>>)
    W == Seq(A)
    none == <<>>
<1>1. /\ us \in Seq(W) /\ Len(ss) \in Nat /\ Len(us) = Len(ss) + 1
      /\ us[Len(us)] = <<>> /\ \A k \in 1..Len(ss) : us[k] = ss[k]
  <2>1. none \in W
    OBVIOUS
  <2> HIDE DEF none
  <2>2. /\ Append(ss, none) \in Seq(W) /\ Len(ss) \in Nat /\ Len(Append(ss, none)) = Len(ss) + 1
        /\ Append(ss, none)[Len(Append(ss, none))] = none
        /\ \A k \in 1..Len(ss) : Append(ss, none)[k] = ss[k]
    BY <2>1
  <2> QED
    BY <2>2 DEF none
<1>2. Kept(ss) \in Seq(Seq(W)) /\ Len(Kept(ss)) = Len(ss) /\ none \in Seq(W)
  <2>1. ASSUME NEW k \in 1..Len(ss)
        PROVE  (IF ss[k] = <<>> THEN <<>> ELSE <<ss[k]>>) \in Seq(W)
    <3>1. ss[k] \in W
      OBVIOUS
    <3> HIDE DEF W
    <3> QED
      BY <3>1
  <2> HIDE DEF W
  <2>2. Len(ss) \in Nat
    BY <1>1
  <2> QED
    BY <2>1, <2>2
<1>3. Kept(us) = Append(Kept(ss), none)
  <2> DEFINE e == Append(Kept(ss), none)
  <2>1. e \in Seq(Seq(W)) /\ Len(e) = Len(us)
    <3> HIDE DEF none, Kept, us
    <3> QED
      BY <1>1, <1>2
  <2>2. ASSUME NEW k \in 1..Len(us)
        PROVE  e[k] = (IF us[k] = <<>> THEN <<>> ELSE <<us[k]>>)
    <3>1. k \in 1..Len(ss) \/ k = Len(ss) + 1
      BY <1>1
    <3>2. CASE k \in 1..Len(ss)
      <4>1. e[k] = Kept(ss)[k]
        <5> HIDE DEF none, Kept, us
        <5> QED
          BY <1>1, <1>2, <3>2
      <4> QED
        BY <1>1, <3>2, <4>1
    <3>3. CASE k = Len(ss) + 1
      <4>1. e[k] = none
        <5> HIDE DEF none, Kept, us
        <5> QED
          BY <1>1, <1>2, <3>3
      <4> QED
        BY <1>1, <3>3, <4>1
    <3> QED
      BY <3>1, <3>2, <3>3
  <2>3. e = [k \in 1..Len(us) |-> e[k]]
    <3> HIDE DEF e, us
    <3> QED
      BY <2>1
  <2> HIDE DEF e, us
  <2>4. e = Kept(us)
    BY <2>2, <2>3
  <2> QED
    BY <2>4 DEF e
<1>4. \A u : NonEmpty(u) = FlattenSeq(Kept(u))
  BY Zenon DEF NonEmpty
<1>5. Kept(<<>>) = <<>>
  OBVIOUS
<1> DEFINE ks == Kept(ss)
<1>6. ks \in Seq(Seq(W)) /\ Kept(us) = Append(ks, none)
  BY <1>2, <1>3
<1> HIDE DEF ks, Kept, W, us
<1>7. /\ FlattenSeq(<<>>) = <<>> /\ FlattenSeq(ks) \in Seq(W)
      /\ FlattenSeq(Append(ks, none)) = FlattenSeq(ks) \o none
  <2> HIDE DEF none
  <2> QED
    BY <1>2, <1>6, FlattenAppend
<1>8. FlattenSeq(ks) \o none = FlattenSeq(ks)
  BY <1>7
<1>9. NonEmpty(us) = NonEmpty(ss)
  <2> HIDE DEF none
  <2> QED
    BY <1>4, <1>6, <1>7, <1>8, Zenon DEF ks
<1> QED
  BY <1>4, <1>5, <1>7, <1>9, Zenon DEF us

\* A byte other than Nul is among those of the strings if it is in one of them.
LEMMA NulEndedBytes ==
  ASSUME NEW A, Nul \in A, NEW ss \in Seq(Seq(A)), NEW b, b # Nul
  PROVE  b \in ToSet(NulEnded(ss)) <=> \E k \in 1..Len(ss) : b \in ToSet(ss[k])
<1> DEFINE N == Len(ss)
    P(n) == SubSeq(ss, 1, n)
    Has(n) == b \in ToSet(NulEnded(P(n)))
    One(n) == \E k \in 1..n : b \in ToSet(ss[k])
    T == {n \in 0..N : Has(n) <=> One(n)}
<1>1. N \in Nat /\ \A n \in 1..N : ss[n] \in Seq(A)
  OBVIOUS
<1>2. /\ P(0) = <<>> /\ P(N) = ss
      /\ \A n \in 0..N : P(n) \in Seq(Seq(A))
      /\ \A n \in 1..N : P(n) = Append(P(n - 1), ss[n])
  BY <1>1, PrefixFacts, Zenon
<1> HIDE DEF P
<1>3. 0 \in T
  <2>1. NulEnded(P(0)) = <<>>
    BY <1>2, NulEndedEmpty, Zenon
  <2>2. ~ Has(0)
    <3>1. ToSet(<<>>) = {}
      BY DEF ToSet
    <3> QED
      BY <2>1, <3>1
  <2>3. ~ One(0)
    OBVIOUS
  <2>4. 0 \in 0..N
    BY <1>1
  <2> HIDE DEF Has, One
  <2> QED
    BY <2>2, <2>3, <2>4
<1>4. ASSUME NEW n \in 1..N, n - 1 \in T PROVE n \in T
  <2>1. n \in 0..N /\ n - 1 \in 0..N
    BY <1>1
  <2> DEFINE p == P(n - 1)
      s == ss[n]
      buf == NulEnded(p)
  <2>2. p \in Seq(Seq(A)) /\ P(n) = Append(p, s) /\ s \in Seq(A)
    BY <1>1, <1>2, <2>1
  <2>3. Has(n - 1) <=> One(n - 1)
    BY <1>4
  <2>4. One(n) <=> One(n - 1) \/ b \in ToSet(s)
    BY <1>1
  <2> HIDE DEF p, s, One
  <2>5. buf \in Seq(A) /\ NulEnded(Append(p, s)) = Append(buf \o s, Nul)
    BY <2>2, NulEndedAppend, Zenon
  <2> HIDE DEF buf
  <2> DEFINE all == Append(buf \o s, Nul)
  <2>6. b \in ToSet(all) <=> b \in ToSet(buf) \/ b \in ToSet(s)
    <3>1. /\ all \in Seq(A) /\ Len(buf) \in Nat /\ Len(s) \in Nat
          /\ DOMAIN all = 1..(Len(buf) + Len(s) + 1)
          /\ DOMAIN buf = 1..Len(buf) /\ DOMAIN s = 1..Len(s)
          /\ \A i \in 1..Len(buf) : all[i] = buf[i]
          /\ \A i \in 1..Len(s) : all[Len(buf) + i] = s[i]
          /\ all[Len(buf) + Len(s) + 1] = Nul
      BY <2>2, <2>5
    <3> HIDE DEF all
    <3>2. ASSUME NEW i \in DOMAIN all, all[i] = b PROVE b \in ToSet(buf) \/ b \in ToSet(s)
      <4>1. i \in 1..Len(buf) \/ i = Len(buf) + Len(s) + 1 \/ i - Len(buf) \in 1..Len(s)
        <5>1. ASSUME NEW x \in Nat, NEW y \in Nat, NEW j \in 1..(x + y + 1)
              PROVE  j \in 1..x \/ j = x + y + 1 \/ j - x \in 1..y
          OBVIOUS
        <5>2. i \in 1..(Len(buf) + Len(s) + 1)
          BY <3>1, Zenon
        <5> QED
          BY <3>1, <5>1, <5>2, Zenon
      <4>2. CASE i \in 1..Len(buf)
        BY <3>1, <3>2, <4>2 DEF ToSet
      <4>3. CASE i - Len(buf) \in 1..Len(s)
        <5>1. all[Len(buf) + (i - Len(buf))] = s[i - Len(buf)]
          BY <3>1, <4>3
        <5>2. Len(buf) + (i - Len(buf)) = i
          BY <3>1
        <5> QED
          BY <3>1, <3>2, <4>3, <5>1, <5>2 DEF ToSet
      <4> QED
        BY <3>1, <3>2, <4>1, <4>2, <4>3
    <3>3. ASSUME NEW i \in DOMAIN buf, buf[i] = b PROVE b \in ToSet(all)
      <4>1. i \in DOMAIN all /\ all[i] = b
        BY <3>1, <3>3
      <4> QED
        BY <4>1 DEF ToSet
    <3>4. ASSUME NEW i \in DOMAIN s, s[i] = b PROVE b \in ToSet(all)
      <4>1. Len(buf) + i \in DOMAIN all /\ all[Len(buf) + i] = b
        <5>1. ASSUME NEW x \in Nat, NEW y \in Nat, NEW j \in 1..y
              PROVE  x + j \in 1..(x + y + 1)
          OBVIOUS
        <5>2. i \in 1..Len(s) /\ all[Len(buf) + i] = s[i]
          BY <3>1, Zenon
        <5>3. Len(buf) + i \in DOMAIN all
          BY <3>1, <5>1, <5>2, Zenon
        <5> QED
          BY <3>4, <5>2, <5>3, Zenon
      <4> QED
        BY <4>1 DEF ToSet
    <3> QED
      BY <3>2, <3>3, <3>4, Zenon DEF ToSet
  <2>7. Has(n) <=> One(n)
    <3> HIDE DEF all
    <3> QED
      BY <2>2, <2>3, <2>4, <2>5, <2>6, Zenon DEF buf, all, p
  <2> HIDE DEF Has
  <2> QED
    BY <2>1, <2>7
<1>5. N \in 0..N
  BY <1>1
<1> HIDE DEF T
<1>6. N \in T
  BY <1>1, <1>3, <1>4, <1>5, SetInduction
<1> QED
  BY <1>2, <1>6 DEF T

\* What cmdline makes of any strings that hold no Nul, of any length and in any
\* number, with a Nul behind each: an error if one of them holds a byte that
\* is not UTF-8, else those that are not empty, in their order.
THEOREM CmdlineReads ==
  ASSUME NEW A, Nul \in A, NEW args \in Seq(Seq(A \ {Nul}))
  PROVE  Cmdline(NulEnded(args)) =
           IF \E k \in 1..Len(args) : Latin \in ToSet(args[k])
           THEN Err("Io") ELSE Ok(NonEmpty(args))
<1>1. args \in Seq(Seq(A)) /\ Latin # Nul
  BY DEF Latin, Nul
<1>2. Latin \in ToSet(NulEnded(args)) <=> \E k \in 1..Len(args) : Latin \in ToSet(args[k])
  BY <1>1, NulEndedBytes
<1>3. SplitAtNul(NulEnded(args)) = Append(args, <<>>)
  BY SplitInvertsNulEnded
<1>4. NonEmpty(Append(args, <<>>)) = NonEmpty(args)
  BY <1>1, NonEmptyAppend, Zenon
<1> QED
  BY <1>2, <1>3, <1>4, Zenon DEF Cmdline

\* The strings of the instance are strings of its bytes.
LEMMA StringsType == ASSUME NEW B, NEW s \in Strings(B) PROVE s \in Seq(B)
<1>1. PICK n \in 0..2 : s \in [1..n -> B]
  BY DEF Strings
<1>2. n \in Nat
  OBVIOUS
<1> QED
  BY <1>1, <1>2

-----------------------------------------------------------------------------
(* The map that a sequence of keys and values stands for, pair by pair.    *)

\* A key of the sequence has a last place, and only one.
LEMMA LastFacts ==
  ASSUME NEW s, Len(s) \in Nat, NEW i \in 1..Len(s)
  PROVE  LET k == LastOf(s[i][1], s)
         IN  k \in 1..Len(s) /\ s[k][1] = s[i][1] /\ \A j \in (k + 1)..Len(s) : s[j][1] # s[i][1]
<1> DEFINE N == Len(s)
    x == s[i][1]
    IsLast(k) == s[k][1] = x /\ \A j \in (k + 1)..N : s[j][1] # x
    M == {m \in 0..N : \E k \in 1..N : s[k][1] = x /\ m = N - k}
<1>1. N - i \in M /\ M \subseteq Nat
  OBVIOUS
<1>2. PICK m \in M : \A y \in M : ~(<<y, m>> \in OpToRel(<, Nat))
  BY <1>1, WFMin, NatLessThanWellFounded
<1>3. PICK k \in 1..N : s[k][1] = x /\ m = N - k
  BY <1>2
<1>4. ASSUME NEW j \in (k + 1)..N, s[j][1] = x PROVE FALSE
  <2>1. j \in 1..N /\ N - j \in 0..N /\ N - j < m /\ N - j \in Nat /\ m \in Nat
    BY <1>3
  <2>2. N - j \in M
    BY <1>4, <2>1
  <2>3. <<N - j, m>> \in OpToRel(<, Nat)
    BY <2>1 DEF OpToRel
  <2> QED
    BY <1>2, <2>2, <2>3
<1>5. IsLast(k)
  BY <1>3, <1>4
<1>6. LastOf(x, s) = CHOOSE j \in 1..N : IsLast(j)
  BY Zenon DEF LastOf
<1> HIDE DEF IsLast
<1>7. LastOf(x, s) \in 1..N /\ IsLast(LastOf(x, s))
  BY <1>5, <1>6, Zenon
<1> QED
  BY <1>7, Zenon DEF IsLast

\* A place behind which its key does not occur is the last of it.
LEMMA LastUnique ==
  ASSUME NEW s, Len(s) \in Nat, NEW k \in 1..Len(s), \A j \in (k + 1)..Len(s) : s[j][1] # s[k][1]
  PROVE  LastOf(s[k][1], s) = k
<1> DEFINE l == LastOf(s[k][1], s)
<1>1. l \in 1..Len(s) /\ s[l][1] = s[k][1] /\ \A j \in (l + 1)..Len(s) : s[j][1] # s[k][1]
  BY LastFacts, Zenon
<1> HIDE DEF l
<1>2. ~(l < k) /\ ~(k < l)
  <2>1. l \in Nat /\ k \in Nat
    BY <1>1
  <2>2. ASSUME l < k PROVE FALSE
    <3>1. k \in (l + 1)..Len(s)
      BY <2>1, <2>2
    <3> QED
      BY <1>1, <3>1
  <2>3. ASSUME k < l PROVE FALSE
    <3>1. l \in (k + 1)..Len(s)
      BY <1>1, <2>1, <2>3
    <3> QED
      BY <1>1, <3>1
  <2> QED
    BY <2>2, <2>3
<1>3. l = k
  BY <1>1, <1>2
<1> QED
  BY <1>3 DEF l

\* One pair more is one insertion.
LEMMA MapOfAppend ==
  ASSUME NEW W, NEW s \in Seq(W), NEW t \in W
  PROVE  MapOf(<<>>) = <<>> /\ MapOf(Append(s, t)) = Put(MapOf(s), t[1], t[2])
<1> DEFINE u == Append(s, t)
    N == Len(s)
    Keys(v) == {v[k][1] : k \in 1..Len(v)}
    Val(v) == [x \in Keys(v) |-> v[LastOf(x, v)][2]]
<1>0. \A v : MapOf(v) = Val(v)
  BY Zenon DEF MapOf
<1>1. /\ u \in Seq(W) /\ N \in Nat /\ Len(u) = N + 1 /\ u[N + 1] = t
      /\ \A k \in 1..N : u[k] = s[k]
  OBVIOUS
<1>2. MapOf(<<>>) = <<>>
  <2>1. Keys(<<>>) = {}
    OBVIOUS
  <2> HIDE DEF Keys
  <2>2. Val(<<>>) = <<>>
    BY <2>1
  <2> QED
    BY <1>0, <2>2, Zenon
<1> HIDE DEF u
<1>3. Keys(u) = Keys(s) \cup {t[1]}
  <2>1. ASSUME NEW k \in 1..Len(u) PROVE u[k][1] \in Keys(s) \cup {t[1]}
    <3>1. k \in 1..N \/ k = N + 1
      BY <1>1
    <3> QED
      BY <1>1, <3>1
  <2>2. ASSUME NEW k \in 1..N PROVE s[k][1] \in Keys(u)
    <3>1. k \in 1..Len(u) /\ u[k][1] = s[k][1]
      BY <1>1
    <3> QED
      BY <3>1
  <2>3. t[1] \in Keys(u)
    <3>1. N + 1 \in 1..Len(u) /\ u[N + 1][1] = t[1]
      BY <1>1
    <3> QED
      BY <3>1
  <2> QED
    BY <2>1, <2>2, <2>3
<1>4. ASSUME NEW x \in Keys(u) PROVE u[LastOf(x, u)][2] = IF x = t[1] THEN t[2] ELSE Val(s)[x]
  <2>1. CASE x = t[1]
    <3>1. N + 1 \in 1..Len(u) /\ u[N + 1][1] = t[1] /\ Len(u) \in Nat
      BY <1>1
    <3>2. \A j \in (N + 1 + 1)..Len(u) : FALSE
      BY <1>1
    <3>3. LastOf(u[N + 1][1], u) = N + 1
      BY <3>1, <3>2, LastUnique
    <3> QED
      BY <1>1, <2>1, <3>1, <3>3, Zenon
  <2>2. CASE x # t[1]
    <3>1. x \in Keys(s)
      BY <1>3, <2>2
    <3>2. PICK i \in 1..N : x = s[i][1]
      BY <3>1
    <3> DEFINE k == LastOf(x, s)
    <3>3. k \in 1..N /\ s[k][1] = x /\ \A j \in (k + 1)..N : s[j][1] # x
      BY <1>1, <3>2, LastFacts, Zenon
    <3> HIDE DEF k
    <3>4. k \in 1..Len(u) /\ u[k] = s[k] /\ Len(u) \in Nat
      BY <1>1, <3>3
    <3>5. ASSUME NEW j \in (k + 1)..Len(u) PROVE u[j][1] # u[k][1]
      <4>1. j \in (k + 1)..N \/ j = N + 1
        BY <1>1, <3>3
      <4>2. CASE j \in (k + 1)..N
        <5>1. j \in 1..N
          BY <1>1, <3>3, <4>2
        <5>2. u[j] = s[j] /\ s[j][1] # x
          BY <1>1, <3>3, <4>2, <5>1, Zenon
        <5> QED
          BY <3>3, <3>4, <5>2, Zenon
      <4>3. CASE j = N + 1
        BY <1>1, <2>2, <3>3, <3>4, <4>3, Zenon
      <4> QED
        BY <4>1, <4>2, <4>3
    <3>6. LastOf(u[k][1], u) = k
      BY <3>4, <3>5, LastUnique
    <3>7. LastOf(x, u) = k
      BY <3>3, <3>4, <3>6, Zenon
    <3>8. Val(s)[x] = s[k][2]
      BY <3>1 DEF k
    <3> QED
      BY <2>2, <3>4, <3>7, <3>8, Zenon
  <2> QED
    BY <2>1, <2>2
<1>5. DOMAIN Val(s) = Keys(s)
  OBVIOUS
<1>6. Val(u) = Put(Val(s), t[1], t[2])
  <2> HIDE DEF Keys
  <2>1. Put(Val(s), t[1], t[2]) =
          [x \in Keys(s) \cup {t[1]} |-> IF x = t[1] THEN t[2] ELSE Val(s)[x]]
    BY <1>5, Zenon DEF Put
  <2>2. Val(u) = [x \in Keys(u) |-> u[LastOf(x, u)][2]]
    BY Zenon
  <2> DEFINE R(x) == IF x = t[1] THEN t[2] ELSE Val(s)[x]
  <2>3. \A x \in Keys(u) : u[LastOf(x, u)][2] = R(x)
    BY <1>4, Zenon
  <2>4. Put(Val(s), t[1], t[2]) = [x \in Keys(s) \cup {t[1]} |-> R(x)]
    BY <2>1, Zenon
  <2> HIDE DEF R, Val
  <2> QED
    BY <1>3, <2>2, <2>3, <2>4
<1> QED
  BY <1>0, <1>2, <1>6, Zenon DEF u

-----------------------------------------------------------------------------
(* The words of a sequence of pairs, and what auxv makes of them.          *)

\* Two sequences, one behind the other.
LEMMA ConcatFacts ==
  ASSUME NEW W, NEW x \in Seq(W), NEW y \in Seq(W)
  PROVE  /\ Len(x \o y) = Len(x) + Len(y)
         /\ \A i \in 1..Len(x) : (x \o y)[i] = x[i]
         /\ \A i \in 1..Len(y) : (x \o y)[Len(x) + i] = y[i]
OBVIOUS

\* The words of a pair are at an odd place and at the even one behind it.
LEMMA WordsOfPairs ==
  ASSUME NEW W, NEW w \in Seq(W \X W)
  PROVE  /\ FlattenSeq(w) \in Seq(W) /\ Len(FlattenSeq(w)) = 2 * Len(w)
         /\ \A k \in 1..Len(w) :
              FlattenSeq(w)[2 * k - 1] = w[k][1] /\ FlattenSeq(w)[2 * k] = w[k][2]
<1> DEFINE N == Len(w)
    P(n) == SubSeq(w, 1, n)
    F(n) == FlattenSeq(P(n))
    Good(n) == /\ Len(F(n)) = 2 * n
               /\ \A k \in 1..n : F(n)[2 * k - 1] = w[k][1] /\ F(n)[2 * k] = w[k][2]
    T == {n \in 0..N : Good(n)}
<1>0. ASSUME NEW x \in W \X W PROVE x \in Seq(W) /\ Len(x) = 2
  <2>1. x = <<x[1], x[2]>> /\ x[1] \in W /\ x[2] \in W
    OBVIOUS
  <2>2. ASSUME NEW a \in W, NEW b \in W PROVE <<a, b>> \in Seq(W) /\ Len(<<a, b>>) = 2
    OBVIOUS
  <2> QED
    BY <2>1, <2>2, Zenon
<1>1. N \in Nat /\ w \in Seq(Seq(W)) /\ \A n \in 1..N : w[n] \in Seq(W) /\ Len(w[n]) = 2
  <2>1. W \X W \subseteq Seq(W)
    BY <1>0
  <2>2. \A n \in 1..N : w[n] \in W \X W
    OBVIOUS
  <2>3. ASSUME NEW X, NEW Y, X \subseteq Y, NEW z \in Seq(X) PROVE z \in Seq(Y)
    BY <2>3
  <2>4. w \in Seq(Seq(W))
    BY <2>1, <2>3, Zenon
  <2> QED
    BY <1>0, <2>2, <2>4
<1>2. /\ P(0) = <<>> /\ P(N) = w
      /\ \A n \in 0..N : P(n) \in Seq(Seq(W))
      /\ \A n \in 1..N : P(n) = Append(P(n - 1), w[n])
  BY <1>1, PrefixFacts, Zenon
<1> HIDE DEF P
<1>3. 0 \in T
  <2> DEFINE none == <<>>
  <2>1. none \in Seq(Seq(W)) /\ none \in Seq(W) /\ Len(none) = 0
    OBVIOUS
  <2> HIDE DEF none
  <2>2. FlattenSeq(<<>>) = <<>>
    BY <2>1, FlattenAppend, Zenon
  <2>3. F(0) = none
    BY <1>2, <2>2, Zenon DEF none
  <2> HIDE DEF F
  <2>4. Good(0) /\ 0 \in 0..N
    BY <1>1, <2>1, <2>3
  <2> QED
    BY <2>4
<1>4. ASSUME NEW n \in 1..N, n - 1 \in T PROVE n \in T
  <2>1. n \in 0..N /\ n - 1 \in 0..N /\ n \in Nat /\ n >= 1
    BY <1>1
  <2> DEFINE f == F(n - 1)
      t == w[n]
      g == F(n)
  <2>2. Good(n - 1)
    BY <1>4
  <2>3. f \in Seq(W) /\ g = f \o t
    <3> DEFINE p == P(n - 1)
    <3>1. p \in Seq(Seq(W)) /\ t \in Seq(W) /\ P(n) = Append(p, t)
      BY <1>1, <1>2, <2>1
    <3> HIDE DEF p, t
    <3>2. FlattenSeq(p) \in Seq(W) /\ FlattenSeq(Append(p, t)) = FlattenSeq(p) \o t
      BY <3>1, FlattenAppend, Zenon
    <3> QED
      BY <3>1, <3>2, Zenon DEF p
  <2>4. t \in Seq(W) /\ Len(t) = 2
    BY <1>1
  <2>5. /\ Len(f) = 2 * (n - 1)
        /\ \A k \in 1..(n - 1) : f[2 * k - 1] = w[k][1] /\ f[2 * k] = w[k][2]
    BY <2>2
  <2> HIDE DEF f, t, F
  <2>6. /\ Len(g) = 2 * n /\ g[2 * n - 1] = t[1] /\ g[2 * n] = t[2]
        /\ \A i \in 1..(2 * (n - 1)) : g[i] = f[i]
    <3> DEFINE m == 2 * (n - 1)
    <3>1. m \in Nat /\ 2 * n = m + 2 /\ 2 * n - 1 = m + 1 /\ Len(f) = m
      BY <2>1, <2>5
    <3> HIDE DEF m, g
    <3>2. /\ Len(g) = m + 2 /\ g[m + 1] = t[1] /\ g[m + 2] = t[2]
          /\ \A i \in 1..m : g[i] = f[i]
      <4>1. t \in Seq(W)
        BY <2>4
      <4>2. /\ Len(f \o t) = Len(f) + Len(t)
            /\ \A i \in 1..Len(f) : (f \o t)[i] = f[i]
            /\ \A i \in 1..Len(t) : (f \o t)[Len(f) + i] = t[i]
        <5>1. f \in Seq(W)
          BY <2>3
        <5> HIDE DEF t, f
        <5> QED
          BY <4>1, <5>1, ConcatFacts
      <4>3. 1 \in 1..Len(t) /\ 2 \in 1..Len(t)
        BY <2>4
      <4>4. g = f \o t
        BY <2>3
      <4> HIDE DEF t, f
      <4> QED
        BY <2>4, <3>1, <4>2, <4>3, <4>4, Zenon
    <3> QED
      BY <3>1, <3>2, Zenon DEF m
  <2>7. ASSUME NEW k \in 1..n PROVE g[2 * k - 1] = w[k][1] /\ g[2 * k] = w[k][2]
    <3>1. CASE k = n
      BY <2>6, <3>1 DEF t
    <3>2. CASE k # n
      <4>1. k \in 1..(n - 1) /\ 2 * k - 1 \in 1..(2 * (n - 1)) /\ 2 * k \in 1..(2 * (n - 1))
        BY <2>1, <3>2
      <4> HIDE DEF g
      <4> QED
        BY <2>5, <2>6, <4>1
    <3> QED
      BY <3>1, <3>2
  <2> QED
    BY <2>1, <2>6, <2>7
<1>5. N \in 0..N
  BY <1>1
<1> HIDE DEF T
<1>6. N \in T
  BY <1>1, <1>3, <1>4, <1>5, SetInduction
<1>7. Good(N)
  BY <1>6 DEF T
<1>8. FlattenSeq(w) \in Seq(W)
  BY <1>1, FlattenAppend
<1> HIDE DEF N
<1> QED
  BY <1>2, <1>7, <1>8 DEF N

TakePair(x, key, value) ==
  IF x.ended THEN x
  ELSE IF EndsAuxv(key, value) THEN [x EXCEPT !.ended = TRUE]
  ELSE [x EXCEPT !.map = Put(@, key, value)]

\* The loop of Auxv is any loop that takes the pairs one by one.
LEMMA AuxvLoop ==
  ASSUME NEW words, Len(words) \in Nat, NEW pairs \in Nat, pairs = Len(words) \div 2,
         NEW g, g[0] = [map |-> <<>>, ended |-> FALSE],
         \A n \in 1..pairs : g[n] = TakePair(g[n - 1], words[2 * n - 1], words[2 * n])
  PROVE  Auxv(words) =
           IF words = <<>> \/ g[pairs].ended THEN Ok(g[pairs].map) ELSE Err("Io")
<1> DEFINE f == CHOOSE f : f = [n \in 0..(Len(words) \div 2) |->
           LET key == words[2 * n - 1]
               value == words[2 * n]
           IN  IF n = 0 THEN [map |-> <<>>, ended |-> FALSE]
               ELSE IF f[n - 1].ended THEN f[n - 1]
               ELSE IF EndsAuxv(key, value) THEN [f[n - 1] EXCEPT !.ended = TRUE]
               ELSE [f[n - 1] EXCEPT !.map = Put(@, key, value)]]
    start == [map |-> <<>>, ended |-> FALSE]
<1>1. Auxv(words) = IF words = <<>> \/ f[pairs].ended THEN Ok(f[pairs].map) ELSE Err("Io")
  BY DEF Auxv
<1>2. f = CHOOSE h : h = [n \in 0..pairs |->
            IF n = 0 THEN start ELSE TakePair(h[n - 1], words[2 * n - 1], words[2 * n])]
  BY Zenon DEF TakePair
<1> HIDE DEF f
<1>3. \E h : h = [n \in 0..pairs |->
            IF n = 0 THEN start ELSE TakePair(h[n - 1], words[2 * n - 1], words[2 * n])]
  <2> DEFINE h == [n \in 0..pairs |-> g[n]]
  <2>0. g[0] = start
    OBVIOUS
  <2> HIDE DEF start
  <2>1. h = [n \in 0..pairs |->
            IF n = 0 THEN start ELSE TakePair(h[n - 1], words[2 * n - 1], words[2 * n])]
    BY <2>0
  <2> QED
    BY <2>1
<1>0. g[0] = start
  OBVIOUS
<1> HIDE DEF start
<1>4. f = [n \in 0..pairs |->
            IF n = 0 THEN start ELSE TakePair(f[n - 1], words[2 * n - 1], words[2 * n])]
  BY <1>2, <1>3, Zenon
<1>5. f[0] = g[0] /\ \A n \in 1..pairs : f[n - 1] = g[n - 1] => f[n] = g[n]
  BY <1>0, <1>4
<1>6. f[pairs] = g[pairs]
  BY <1>5, SameLoop, Zenon
<1> QED
  BY <1>1, <1>6, Zenon

\* What one pair does to a loop that has not ended.
LEMMA TakePairFacts ==
  ASSUME NEW m, NEW key, NEW value
  PROVE  LET x == [map |-> m, ended |-> FALSE]
         IN  /\ EndsAuxv(key, value) => TakePair(x, key, value) = [map |-> m, ended |-> TRUE]
             /\ ~ EndsAuxv(key, value) =>
                  TakePair(x, key, value) = [map |-> Put(m, key, value), ended |-> FALSE]
BY DEF TakePair

\* What auxv makes of the words of any vector, of any length and with any keys
\* and values but the pair that ends it: the whole vector, and an error for
\* every other number of words than all of them.
THEOREM AuxvReads ==
  ASSUME NEW W, 0 \in W, NEW v \in Seq(W \X W), \A k \in 1..Len(v) : v[k] # <<0, 0>>,
         NEW words, words = FlattenSeq(Append(v, <<0, 0>>)), NEW n \in 1..Len(words)
  PROVE  Auxv(SubSeq(words, 1, n)) = IF n < Len(words) THEN Err("Io") ELSE Ok(MapOf(v))
<1> DEFINE L == Len(v)
    u == Append(v, <<0, 0>>)
    cut == SubSeq(words, 1, n)
    pairs == n \div 2
    P(m) == SubSeq(v, 1, m)
    Open(m) == [map |-> MapOf(P(m)), ended |-> FALSE]
    g == [m \in 0..(L + 1) |-> IF m = L + 1 THEN [map |-> MapOf(v), ended |-> TRUE] ELSE Open(m)]
<1>1. /\ L \in Nat /\ u \in Seq(W \X W) /\ Len(u) = L + 1 /\ u[L + 1] = <<0, 0>>
      /\ \A k \in 1..L : u[k] = v[k] /\ v[k] \in W \X W
  <2> DEFINE e == <<0, 0>>
  <2>1. e \in W \X W
    OBVIOUS
  <2> HIDE DEF e
  <2>2. /\ Append(v, e) \in Seq(W \X W) /\ Len(v) \in Nat /\ Len(Append(v, e)) = Len(v) + 1
        /\ Append(v, e)[Len(v) + 1] = e
        /\ \A k \in 1..Len(v) : Append(v, e)[k] = v[k] /\ v[k] \in W \X W
    BY <2>1
  <2> QED
    BY <2>2, Zenon DEF e
<1>2. /\ words \in Seq(W) /\ Len(words) = 2 * (L + 1)
      /\ \A k \in 1..(L + 1) : words[2 * k - 1] = u[k][1] /\ words[2 * k] = u[k][2]
  <2>1. words = FlattenSeq(u)
    OBVIOUS
  <2>2. /\ FlattenSeq(u) \in Seq(W) /\ Len(FlattenSeq(u)) = 2 * Len(u)
        /\ \A k \in 1..Len(u) :
             FlattenSeq(u)[2 * k - 1] = u[k][1] /\ FlattenSeq(u)[2 * k] = u[k][2]
    <3> HIDE DEF u
    <3> QED
      BY <1>1, WordsOfPairs, Zenon
  <2> HIDE DEF u, L
  <2> QED
    BY <1>1, <2>1, <2>2, Zenon
<1>3. cut # <<>> /\ Len(cut) = n /\ \A i \in 1..n : cut[i] = words[i]
  <2>1. Len(words) \in Nat /\ n \in 0..Len(words)
    BY <1>2
  <2>2. cut \in Seq(W) /\ Len(cut) = n /\ \A i \in 1..n : cut[i] = words[i]
    BY <1>2, <2>1
  <2>3. n # 0
    OBVIOUS
  <2> HIDE DEF cut
  <2> QED
    BY <2>2, <2>3
<1>4. /\ pairs \in Nat /\ pairs <= L + 1 /\ n \in Nat
      /\ n < Len(words) => pairs <= L
      /\ ~(n < Len(words)) => pairs = L + 1
      /\ \A m \in 1..pairs : 2 * m - 1 \in 1..n /\ 2 * m \in 1..n
  <2>1. n \in Nat /\ n >= 1 /\ n <= 2 * (L + 1)
    BY <1>1, <1>2
  <2>2. pairs \in Nat /\ 2 * pairs <= n /\ n <= 2 * pairs + 1
    BY <2>1
  <2> HIDE DEF pairs, L
  <2> QED
    BY <1>1, <1>2, <2>1, <2>2
<1>5. /\ P(0) = <<>> /\ P(L) = v
      /\ \A m \in 0..L : P(m) \in Seq(W \X W)
      /\ \A m \in 1..L : P(m) = Append(P(m - 1), v[m])
  BY <1>1, PrefixFacts, Zenon
<1>6. MapOf(<<>>) = <<>>
  <2> DEFINE none == <<>>
  <2>1. none \in Seq(W) /\ 0 \in W
    OBVIOUS
  <2> HIDE DEF none
  <2> QED
    BY <2>1, MapOfAppend, Zenon
<1>7. ASSUME NEW m \in 1..(L + 1) PROVE g[m] = TakePair(g[m - 1], u[m][1], u[m][2])
  <2>1. m \in 0..(L + 1) /\ m - 1 \in 0..(L + 1) /\ m - 1 # L + 1 /\ m - 1 \in 0..L
    BY <1>1
  <2>2. g[m - 1] = Open(m - 1)
    BY <2>1
  <2>3. CASE m = L + 1
    <3>1. g[m] = [map |-> MapOf(v), ended |-> TRUE]
      BY <2>1, <2>3
    <3>2. m - 1 = L
      BY <1>1, <2>3
    <3>3. g[m - 1] = [map |-> MapOf(v), ended |-> FALSE]
      BY <1>5, <2>2, <3>2, Zenon
    <3>4. EndsAuxv(u[m][1], u[m][2])
      BY <1>1, <2>3 DEF EndsAuxv
    <3> HIDE DEF g, u
    <3> QED
      BY <3>1, <3>3, <3>4, TakePairFacts, Zenon
  <2>4. CASE m # L + 1
    <3>1. m \in 1..L
      BY <1>1, <2>4
    <3>2. g[m] = Open(m)
      BY <2>1, <2>4
    <3>3. ~ EndsAuxv(u[m][1], u[m][2])
      <4>1. v[m] \in W \X W /\ v[m] # <<0, 0>> /\ u[m] = v[m]
        BY <1>1, <3>1
      <4>2. v[m] = <<v[m][1], v[m][2]>>
        BY <4>1
      <4> QED
        BY <4>1, <4>2 DEF EndsAuxv
    <3>4. MapOf(P(m)) = Put(MapOf(P(m - 1)), u[m][1], u[m][2])
      <4> DEFINE p == P(m - 1)
      <4>1. /\ v[m] \in W \X W /\ u[m] = v[m] /\ P(m) = Append(p, v[m])
            /\ p \in Seq(W \X W)
        BY <1>1, <1>5, <2>1, <3>1
      <4> HIDE DEF p, P
      <4>2. MapOf(Append(p, v[m])) = Put(MapOf(p), v[m][1], v[m][2])
        BY <4>1, MapOfAppend, Zenon
      <4> QED
        BY <4>1, <4>2, Zenon DEF p
    <3> DEFINE before == MapOf(P(m - 1))
    <3>5. g[m - 1] = [map |-> before, ended |-> FALSE]
      BY <2>2, Zenon
    <3>6. g[m] = [map |-> Put(before, u[m][1], u[m][2]), ended |-> FALSE]
      BY <3>2, <3>4, Zenon
    <3> HIDE DEF g, u, P, before
    <3> QED
      BY <3>3, <3>5, <3>6, TakePairFacts, Zenon
  <2> QED
    BY <2>3, <2>4
<1>8. g[0] = [map |-> <<>>, ended |-> FALSE]
  <2>1. 0 \in 0..(L + 1) /\ 0 # L + 1
    BY <1>1
  <2>2. g[0] = Open(0)
    BY <2>1
  <2> QED
    BY <1>5, <1>6, <2>2, Zenon
<1>9. ASSUME NEW m \in 1..pairs PROVE g[m] = TakePair(g[m - 1], cut[2 * m - 1], cut[2 * m])
  <2>1. m \in 1..(L + 1)
    BY <1>1, <1>4
  <2>2. 2 * m - 1 \in 1..n /\ 2 * m \in 1..n
    BY <1>4
  <2> HIDE DEF g, cut, u, pairs
  <2>3. cut[2 * m - 1] = u[m][1] /\ cut[2 * m] = u[m][2]
    BY <1>2, <1>3, <2>1, <2>2, Zenon
  <2>4. g[m] = TakePair(g[m - 1], u[m][1], u[m][2])
    BY <1>7, <2>1, Zenon
  <2> QED
    BY <2>3, <2>4, Zenon
<1>10. Auxv(cut) = IF cut = <<>> \/ g[pairs].ended THEN Ok(g[pairs].map) ELSE Err("Io")
  <2>1. pairs = Len(cut) \div 2 /\ Len(cut) \in Nat
    BY <1>3, <1>4
  <2> HIDE DEF g, cut, pairs
  <2> QED
    BY <1>4, <1>8, <1>9, <2>1, AuxvLoop
<1>11. CASE n < Len(words)
  <2>1. pairs \in 0..(L + 1) /\ pairs # L + 1
    BY <1>1, <1>4, <1>11
  <2> HIDE DEF pairs
  <2>2. g[pairs] = Open(pairs)
    BY <2>1
  <2>3. ~ g[pairs].ended
    BY <2>2
  <2> HIDE DEF g, cut
  <2> QED
    BY <1>3, <1>10, <1>11, <2>3, Zenon DEF cut
<1>12. CASE ~(n < Len(words))
  <2>1. pairs \in 0..(L + 1) /\ pairs = L + 1
    BY <1>1, <1>4, <1>12
  <2> HIDE DEF pairs
  <2>2. g[pairs] = [map |-> MapOf(v), ended |-> TRUE]
    BY <2>1
  <2>3. g[pairs].ended /\ g[pairs].map = MapOf(v)
    BY <2>2
  <2> HIDE DEF g, cut
  <2> QED
    BY <1>3, <1>10, <1>12, <2>3, Zenon DEF cut
<1> QED
  BY <1>11, <1>12

\* Nothing read is no vector.
LEMMA AuxvEmpty == Auxv(<<>>) = Ok(<<>>)
<1> DEFINE none == <<>>
    g == [n \in 0..0 |-> [map |-> <<>>, ended |-> FALSE]]
    pairs == 0
<1>1. /\ Len(none) \in Nat /\ pairs \in Nat /\ pairs = Len(none) \div 2
      /\ g[pairs] = [map |-> <<>>, ended |-> FALSE]
      /\ \A n \in 1..pairs : FALSE
  OBVIOUS
<1> HIDE DEF g, none
<1>2. Auxv(none) = IF none = <<>> \/ g[pairs].ended THEN Ok(g[pairs].map) ELSE Err("Io")
  BY <1>1, AuxvLoop
<1>3. g[pairs].map = <<>>
  BY <1>1
<1> QED
  BY <1>2, <1>3, Zenon DEF none

\* The vectors of the instance are such vectors.
LEMMA NoAuxvCutShort == AuxvCutShort = {}
<1> SUFFICES ASSUME NEW v \in Vectors PROVE v \notin AuxvCutShort
  BY DEF AuxvCutShort
<1> DEFINE W == {0, 1, 2, 7}
<1>1. PICK n \in 0..3 : v \in [1..n -> {1, 2} \X {0, 7}]
  BY DEF Vectors
<1>2. v \in Seq(W \X W) /\ 0 \in W /\ \A k \in 1..Len(v) : v[k] # <<0, 0>>
  <2> DEFINE X == {1, 2} \X {0, 7}
      Y == W \X W
  <2>1. X \subseteq Y /\ \A x \in X : x # <<0, 0>>
    OBVIOUS
  <2> HIDE DEF X, Y
  <2>2. v \in [1..n -> X] /\ n \in Nat
    BY <1>1 DEF X
  <2>3. v \in Seq(Y) /\ \A k \in 1..Len(v) : v[k] \in X
    BY <2>1, <2>2
  <2> QED
    BY <2>1, <2>3 DEF Y
<1> HIDE DEF W
<1>3. LET words == FlattenSeq(Append(v, <<0, 0>>))
      IN  \A m \in 1..Len(words) :
            Auxv(SubSeq(words, 1, m)) = IF m < Len(words) THEN Err("Io") ELSE Ok(MapOf(v))
  BY <1>2, AuxvReads, Zenon
<1> QED
  BY <1>3, Zenon DEF AuxvCutShort

\* Whatever has been read, cut, or not read of an auxiliary vector, auxv
\* returns the whole vector, an error, or nothing for nothing.
THEOREM AuxvWholeCorrect == HandleSpec => []AuxvWhole
<1>1. AuxvWhole
  BY AuxvEmpty, NoAuxvCutShort, Zenon DEF AuxvWhole
<1> QED
  BY <1>1, PTL

-----------------------------------------------------------------------------
(* What environ makes of one slice, and of all of them.                    *)

\* The string of a variable: its name, which holds no `=`, and its value.
IsVariable(s, key, value) == Equals \notin ToSet(key) /\ s = key \o <<Equals>> \o value

\* The string of a variable, byte by byte.
LEMMA VariableFacts ==
  ASSUME NEW A, Equals \in A, NEW key \in Seq(A), NEW value \in Seq(A), NEW e,
         IsVariable(e, key, value)
  PROVE  /\ e \in Seq(A) /\ Len(key) \in Nat /\ Len(value) \in Nat
         /\ Len(e) = Len(key) + 1 + Len(value)
         /\ \A i \in 1..Len(key) : e[i] = key[i]
         /\ e[Len(key) + 1] = Equals
         /\ \A i \in 1..Len(value) : e[Len(key) + 1 + i] = value[i]
<1> DEFINE t == key \o <<Equals>>
    s == t \o value
    L == Len(key)
<1>1. t = Append(key, Equals)
  OBVIOUS
<1>2. /\ t \in Seq(A) /\ L \in Nat /\ Len(t) = L + 1 /\ t[L + 1] = Equals
      /\ \A i \in 1..L : t[i] = key[i]
  <2> HIDE DEF t
  <2> QED
    BY <1>1
<1> HIDE DEF t
<1>3. /\ Len(t \o value) = Len(t) + Len(value)
      /\ \A i \in 1..Len(t) : (t \o value)[i] = t[i]
      /\ \A i \in 1..Len(value) : (t \o value)[Len(t) + i] = value[i]
  <2>1. t \in Seq(A)
    BY <1>2
  <2> QED
    BY <2>1, ConcatFacts
<1>4. s \in Seq(A)
  BY <1>2
<1>5. \A i \in 1..(L + 1) : s[i] = t[i]
  BY <1>2, <1>3
<1>6. s[L + 1] = Equals /\ \A i \in 1..L : s[i] = key[i]
  <2>1. L + 1 \in 1..(L + 1) /\ \A i \in 1..L : i \in 1..(L + 1)
    BY <1>2
  <2> HIDE DEF s
  <2> QED
    BY <1>2, <1>5, <2>1, Zenon
<1> HIDE DEF s
<1>7. Len(s) = L + 1 + Len(value) /\ \A i \in 1..Len(value) : s[L + 1 + i] = value[i]
  BY <1>2, <1>3, Zenon DEF s
<1>8. e = s
  BY Zenon DEF IsVariable, s, t
<1>9. Len(value) \in Nat
  OBVIOUS
<1> QED
  BY <1>2, <1>4, <1>6, <1>7, <1>8, <1>9, Zenon

\* The name of a variable is what is before the first `=`, and its value is
\* all that is behind it.
LEMMA InsertVariable ==
  ASSUME NEW A, Equals \in A, NEW key \in Seq(A), NEW value \in Seq(A), NEW s, NEW map,
         IsVariable(s, key, value)
  PROVE  Insert(map, s) = Put(map, key, value)
<1> DEFINE L == Len(key)
    First(k) == s[k] = Equals /\ \A j \in 1..(k - 1) : s[j] # Equals
    c == CHOOSE k \in 1..Len(s) : First(k)
<1>1. /\ s \in Seq(A) /\ L \in Nat /\ Len(value) \in Nat /\ Len(s) = L + 1 + Len(value)
      /\ \A i \in 1..L : s[i] = key[i]
      /\ s[L + 1] = Equals
      /\ \A i \in 1..Len(value) : s[L + 1 + i] = value[i]
  BY VariableFacts
<1>2. \A i \in 1..L : key[i] # Equals
  BY <1>1 DEF IsVariable, ToSet
<1>3. L + 1 \in 1..Len(s) /\ First(L + 1)
  <2>1. L + 1 \in 1..Len(s) /\ L + 1 - 1 = L
    BY <1>1
  <2> QED
    BY <1>1, <1>2, <2>1
<1>4. c = L + 1
  <2>1. c \in 1..Len(s) /\ First(c)
    <3> HIDE DEF First
    <3> QED
      BY <1>3, Zenon
  <2>2. c \in Int
    BY <1>1, <2>1
  <2> HIDE DEF c
  <2>3. ASSUME c < L + 1 PROVE FALSE
    <3>1. c \in 1..L
      BY <1>1, <2>1, <2>3
    <3> QED
      BY <1>1, <1>2, <2>1, <3>1
  <2>4. ASSUME c > L + 1 PROVE FALSE
    <3>1. L + 1 \in 1..(c - 1)
      BY <1>1, <2>2, <2>4
    <3> QED
      BY <1>1, <2>1, <3>1
  <2> QED
    BY <1>1, <2>2, <2>3, <2>4
<1>5. Equals \in ToSet(s)
  <2>1. L + 1 \in DOMAIN s
    BY <1>1, <1>3
  <2> QED
    BY <1>1, <2>1 DEF ToSet
<1>6. Insert(map, s) = Put(map, SubSeq(s, 1, c - 1), SubSeq(s, c + 1, Len(s)))
  BY <1>5, Zenon DEF Insert
<1> HIDE DEF c, L
<1>7. SubSeq(s, 1, c - 1) = key
  <2> DEFINE p == SubSeq(s, 1, L)
  <2>1. c - 1 = L /\ L \in 0..Len(s) /\ L <= Len(s)
    BY <1>1, <1>4
  <2>2. p \in Seq(A) /\ Len(p) = L /\ \A i \in 1..L : p[i] = s[i]
    BY <1>1, <2>1
  <2>3. key \in Seq(A) /\ Len(key) = L
    BY DEF L
  <2> HIDE DEF p
  <2>4. p = key
    BY <1>1, <2>2, <2>3
  <2> QED
    BY <2>1, <2>4 DEF p
<1>8. SubSeq(s, c + 1, Len(s)) = value
  <2> DEFINE q == SubSeq(s, L + 2, L + 1 + Len(value))
  <2>1. c + 1 = L + 2 /\ Len(s) = L + 1 + Len(value)
    BY <1>1, <1>4
  <2>2. \A i \in 1..Len(value) : L + 2 + i - 1 = L + 1 + i /\ L + 1 + i \in 1..Len(s)
    BY <1>1
  <2>3. q \in Seq(A) /\ Len(q) = Len(value) /\ \A i \in 1..Len(value) : q[i] = s[L + 1 + i]
    BY <1>1, <2>2
  <2> HIDE DEF q
  <2>4. q = value
    BY <1>1, <2>3
  <2> QED
    BY <2>1, <2>4 DEF q
<1> QED
  BY <1>6, <1>7, <1>8, Zenon

\* A slice without `=` changes nothing.
LEMMA InsertOther == ASSUME NEW map, NEW s, Equals \notin ToSet(s) PROVE Insert(map, s) = map
BY Zenon DEF Insert

\* The loop of Environ is any loop that takes the slices one by one.
LEMMA EnvironLoop ==
  ASSUME NEW buf, NEW slices, slices = SplitAtNul(buf), Len(slices) \in Nat, NEW g, g[0] = <<>>,
         \A n \in 1..Len(slices) : g[n] = Insert(g[n - 1], slices[n])
  PROVE  Environ(buf) = g[Len(slices)]
<1> DEFINE N == Len(slices)
    f == CHOOSE f : f = [n \in 0..Len(SplitAtNul(buf)) |->
           IF n = 0 THEN <<>> ELSE Insert(f[n - 1], SplitAtNul(buf)[n])]
<1>1. Environ(buf) = f[Len(SplitAtNul(buf))]
  BY Zenon DEF Environ
<1>2. f = CHOOSE h : h = [n \in 0..N |-> IF n = 0 THEN <<>> ELSE Insert(h[n - 1], slices[n])]
  BY Zenon
<1> HIDE DEF f
<1>3. \E h : h = [n \in 0..N |-> IF n = 0 THEN <<>> ELSE Insert(h[n - 1], slices[n])]
  <2> DEFINE h == [n \in 0..N |-> g[n]]
  <2>1. h = [n \in 0..N |-> IF n = 0 THEN <<>> ELSE Insert(h[n - 1], slices[n])]
    OBVIOUS
  <2> QED
    BY <2>1
<1>4. f = [n \in 0..N |-> IF n = 0 THEN <<>> ELSE Insert(f[n - 1], slices[n])]
  BY <1>2, <1>3, Zenon
<1>5. f[0] = g[0] /\ \A n \in 1..N : f[n - 1] = g[n - 1] => f[n] = g[n]
  BY <1>4
<1>6. f[N] = g[N]
  BY <1>5, SameLoop, Zenon
<1> QED
  BY <1>1, <1>6, Zenon

\* found says of each of the strings, which hold no Nul, the variable that it
\* is, or nothing if no `=` is in it.
VariablesOf(A, text, found) ==
  /\ text \in Seq(Seq(A \ {Nul})) /\ found \in Seq(Seq(Seq(A) \X Seq(A)))
  /\ Len(found) = Len(text)
  /\ \A k \in 1..Len(text) :
       \/ found[k] = <<>> /\ Equals \notin ToSet(text[k])
       \/ \E x \in Seq(A) \X Seq(A) : found[k] = <<x>> /\ IsVariable(text[k], x[1], x[2])

\* What environ makes of any strings, of any length and in any number, with a
\* Nul behind each: the variables among them come back with their values,
\* whatever bytes these have, and of the values of one name the last.
THEOREM EnvironReads ==
  ASSUME NEW A, Nul \in A, Equals \in A, NEW text, NEW found, VariablesOf(A, text, found)
  PROVE  Environ(NulEnded(text)) = MapOf(FlattenSeq(found))
<1> DEFINE N == Len(text)
    W == Seq(A) \X Seq(A)
    slices == SplitAtNul(NulEnded(text))
    P(n) == SubSeq(found, 1, n)
    g == [n \in 0..(N + 1) |-> IF n = N + 1 THEN MapOf(FlattenSeq(found))
                                            ELSE MapOf(FlattenSeq(P(n)))]
<1>0. text \in Seq(Seq(A \ {Nul})) /\ found \in Seq(Seq(W))
  BY DEF VariablesOf
<1>1. N \in Nat /\ Len(found) = N
  BY <1>0 DEF VariablesOf
<1>2. /\ Len(slices) = N + 1 /\ slices[N + 1] = <<>>
      /\ \A n \in 1..N : slices[n] = text[n]
  <2> DEFINE none == <<>>
      S == Seq(A)
  <2>1. slices = Append(text, none)
    BY <1>0, SplitInvertsNulEnded
  <2>2. text \in Seq(S) /\ none \in S
    BY <1>0
  <2> HIDE DEF slices, none, S, W
  <2>3. /\ Len(Append(text, none)) = N + 1 /\ Append(text, none)[N + 1] = none
        /\ \A n \in 1..N : Append(text, none)[n] = text[n]
    BY <2>2
  <2> QED
    BY <2>1, <2>3, Zenon DEF none
<1> HIDE DEF slices
<1>3. /\ P(0) = <<>> /\ P(N) = found
      /\ \A n \in 0..N : P(n) \in Seq(Seq(W))
      /\ \A n \in 1..N : P(n) = Append(P(n - 1), found[n])
  <2> HIDE DEF W
  <2> QED
    BY <1>0, <1>1, PrefixFacts, Zenon
<1>4. g[0] = <<>>
  <2>1. g[0] = MapOf(FlattenSeq(P(0)))
    BY <1>1
  <2> DEFINE none == <<>>
  <2>2. none \in Seq(Seq(A)) /\ none \in Seq(A) /\ none \in Seq(W)
    OBVIOUS
  <2> HIDE DEF g, W, none
  <2>3. FlattenSeq(<<>>) = <<>>
    BY <2>2, FlattenAppend, Zenon
  <2>4. MapOf(<<>>) = <<>>
    BY <2>2, MapOfAppend, Zenon
  <2> QED
    BY <1>3, <2>1, <2>3, <2>4, Zenon
<1>5. ASSUME NEW n \in 1..N PROVE g[n] = Insert(g[n - 1], slices[n])
  <2>1. n \in 0..(N + 1) /\ n - 1 \in 0..(N + 1) /\ n # N + 1 /\ n - 1 # N + 1 /\ n - 1 \in 0..N
    BY <1>1
  <2> DEFINE p == P(n - 1)
      t == found[n]
      f == FlattenSeq(p)
  <2>2. p \in Seq(Seq(W)) /\ t \in Seq(W) /\ P(n) = Append(p, t) /\ slices[n] = text[n]
    BY <1>1, <1>2, <1>3, <2>1
  <2>3. g[n] = MapOf(FlattenSeq(P(n))) /\ g[n - 1] = MapOf(FlattenSeq(P(n - 1)))
    BY <2>1
  <2>4. \/ t = <<>> /\ Equals \notin ToSet(text[n])
        \/ \E x \in W : t = <<x>> /\ IsVariable(text[n], x[1], x[2])
    BY DEF VariablesOf
  <2> HIDE DEF g, p, t, W
  <2>5. f \in Seq(W) /\ FlattenSeq(Append(p, t)) = f \o t
    BY <2>2, FlattenAppend, Zenon
  <2> HIDE DEF f
  <2>6. g[n] = MapOf(f \o t) /\ g[n - 1] = MapOf(f)
    BY <2>2, <2>3, <2>5, Zenon DEF f, p
  <2>7. CASE t = <<>> /\ Equals \notin ToSet(text[n])
    <3>1. f \o <<>> = f
      BY <2>5
    <3> QED
      BY <2>2, <2>6, <2>7, <3>1, InsertOther, Zenon
  <2>8. ASSUME NEW x \in W, t = <<x>>, IsVariable(text[n], x[1], x[2])
        PROVE  g[n] = Insert(g[n - 1], slices[n])
    <3>1. f \o <<x>> = Append(f, x)
      BY <2>5
    <3>2. MapOf(Append(f, x)) = Put(MapOf(f), x[1], x[2])
      <4>1. f \in Seq(W) /\ x \in W
        BY <2>5, <2>8
      <4> QED
        BY <4>1, MapOfAppend
    <3>3. x[1] \in Seq(A) /\ x[2] \in Seq(A)
      BY DEF W
    <3>4. Insert(MapOf(f), text[n]) = Put(MapOf(f), x[1], x[2])
      <4>1. IsVariable(text[n], x[1], x[2])
        BY <2>8
      <4> QED
        BY <3>3, <4>1, InsertVariable
    <3> QED
      BY <2>2, <2>6, <2>8, <3>1, <3>2, <3>4, Zenon
  <2> QED
    BY <2>4, <2>7, <2>8, Zenon
<1>6. g[N + 1] = Insert(g[N], slices[N + 1])
  <2>1. g[N + 1] = MapOf(FlattenSeq(found)) /\ g[N] = MapOf(FlattenSeq(P(N)))
    BY <1>1
  <2>2. g[N + 1] = g[N]
    BY <1>3, <2>1, Zenon
  <2> HIDE DEF g
  <2>3. Equals \notin ToSet(<<>>)
    BY DEF ToSet
  <2>4. Insert(g[N], <<>>) = g[N]
    BY <2>3, InsertOther, Zenon
  <2> QED
    BY <1>2, <2>2, <2>4, Zenon
<1>7. g[N + 1] = MapOf(FlattenSeq(found))
  BY <1>1
<1> HIDE DEF g
<1>8. \A n \in 1..(N + 1) : g[n] = Insert(g[n - 1], slices[n])
  <2> SUFFICES ASSUME NEW n \in 1..(N + 1) PROVE g[n] = Insert(g[n - 1], slices[n])
    OBVIOUS
  <2>1. n \in 1..N \/ (n = N + 1 /\ n - 1 = N)
    BY <1>1
  <2> QED
    BY <1>5, <1>6, <2>1, Zenon
<1>9. Environ(NulEnded(text)) = g[Len(slices)]
  <2>1. Len(slices) \in Nat /\ slices = SplitAtNul(NulEnded(text))
    BY <1>1, <1>2 DEF slices
  <2> HIDE DEF N
  <2> QED
    BY <1>2, <1>4, <1>8, <2>1, EnvironLoop, Zenon
<1> QED
  BY <1>2, <1>7, <1>9, Zenon

\* Nothing read is no variables.
LEMMA EnvironEmpty == Environ(<<>>) = <<>>
<1> DEFINE A == {Nul, Equals}
    none == <<>>
<1>1. /\ Nul \in A /\ Equals \in A /\ none \in Seq(Seq(A \ {Nul})) /\ none \in Seq(Seq(A))
      /\ none \in Seq(A) /\ none \in Seq(Seq(Seq(A) \X Seq(A))) /\ \A k \in 1..Len(none) : FALSE
  OBVIOUS
<1> HIDE DEF A, none
<1>2. Environ(NulEnded(none)) = MapOf(FlattenSeq(none))
  <2>1. VariablesOf(A, none, none)
    BY <1>1, Zenon DEF VariablesOf
  <2> QED
    BY <1>1, <2>1, EnvironReads, Zenon
<1>3. NulEnded(<<>>) = <<>>
  BY NulEndedEmpty
<1>4. FlattenSeq(<<>>) = <<>>
  BY <1>1, FlattenAppend, Zenon
<1>5. MapOf(<<>>) = <<>>
  BY <1>1, MapOfAppend, Zenon
<1> QED
  BY <1>2, <1>3, <1>4, <1>5, Zenon DEF none

Cat(a, b) == a \o b

LEMMA CatAssociates == \A W : \A a, b, c \in Seq(W) : Cat(Cat(a, b), c) = Cat(a, Cat(b, c))
BY DEF Cat

\* Two sequences of sequences, one behind the other.
LEMMA FlattenConcat ==
  ASSUME NEW W, NEW s \in Seq(Seq(W)), NEW t \in Seq(Seq(W))
  PROVE  FlattenSeq(s \o t) = FlattenSeq(s) \o FlattenSeq(t)
<1> DEFINE N == Len(t)
    P(n) == SubSeq(t, 1, n)
    fs == FlattenSeq(s)
    T == {n \in 0..N : FlattenSeq(s \o P(n)) = fs \o FlattenSeq(P(n))}
<1>1. N \in Nat /\ fs \in Seq(W) /\ \A n \in 1..N : t[n] \in Seq(W)
  <2>1. fs \in Seq(W)
    BY FlattenAppend
  <2> QED
    BY <2>1
<1>2. /\ P(0) = <<>> /\ P(N) = t
      /\ \A n \in 0..N : P(n) \in Seq(Seq(W))
      /\ \A n \in 1..N : P(n) = Append(P(n - 1), t[n])
  BY PrefixFacts, Zenon
<1> HIDE DEF P
<1>3. 0 \in T
  <2> DEFINE none == <<>>
  <2>1. none \in Seq(W) /\ none \in Seq(Seq(W)) /\ s \o none = s /\ fs \o none = fs /\ 0 \in 0..N
    <3>1. s \o <<>> = s /\ none \in Seq(W) /\ none \in Seq(Seq(W))
      OBVIOUS
    <3> HIDE DEF fs
    <3>2. fs \o <<>> = fs
      BY <1>1
    <3>3. 0 \in 0..N
      BY <1>1
    <3> QED
      BY <3>1, <3>2, <3>3
  <2> HIDE DEF none, fs
  <2>2. FlattenSeq(<<>>) = <<>>
    BY <2>1, FlattenAppend, Zenon
  <2>3. FlattenSeq(s \o P(0)) = fs \o FlattenSeq(P(0))
    BY <1>2, <2>1, <2>2, Zenon DEF none, fs
  <2> QED
    BY <2>1, <2>3
<1>4. ASSUME NEW n \in 1..N, n - 1 \in T PROVE n \in T
  <2>1. n \in 0..N /\ n - 1 \in 0..N
    BY <1>1
  <2> DEFINE p == P(n - 1)
      x == t[n]
      fp == FlattenSeq(p)
  <2>2. p \in Seq(Seq(W)) /\ P(n) = Append(p, x) /\ x \in Seq(W)
    BY <1>1, <1>2, <2>1
  <2>3. FlattenSeq(s \o p) = fs \o fp
    BY <1>4
  <2> HIDE DEF p, x, fs
  <2>4. s \o Append(p, x) = Append(s \o p, x) /\ s \o p \in Seq(Seq(W))
    <3> DEFINE V == Seq(W)
    <3> HIDE DEF V
    <3>1. s \in Seq(V) /\ p \in Seq(V) /\ x \in V
      BY <2>2 DEF V
    <3>2. s \o Append(p, x) = Append(s \o p, x) /\ s \o p \in Seq(V)
      BY <3>1
    <3> QED
      BY <3>2 DEF V
  <2>5. FlattenSeq(Append(s \o p, x)) = (fs \o fp) \o x
    <3> DEFINE sp == s \o p
    <3>1. sp \in Seq(Seq(W)) /\ x \in Seq(W)
      BY <2>2, <2>4
    <3>2. FlattenSeq(sp) = fs \o fp
      BY <2>3
    <3> HIDE DEF sp, fp
    <3>3. FlattenSeq(Append(sp, x)) = FlattenSeq(sp) \o x
      BY <3>1, FlattenAppend, Zenon
    <3> QED
      BY <3>2, <3>3, Zenon DEF sp
  <2>6. FlattenSeq(Append(p, x)) = fp \o x /\ fp \in Seq(W)
    BY <2>2, FlattenAppend, Zenon
  <2> HIDE DEF fp
  <2>7. (fs \o fp) \o x = fs \o (fp \o x)
    <3>1. fs \in Seq(W) /\ fp \in Seq(W) /\ x \in Seq(W)
      BY <1>1, <2>2, <2>6
    <3>2. Cat(Cat(fs, fp), x) = Cat(fs, Cat(fp, x))
      BY <3>1, CatAssociates
    <3> QED
      BY <3>2 DEF Cat
  <2>8. FlattenSeq(s \o P(n)) = fs \o FlattenSeq(P(n))
    BY <2>2, <2>4, <2>5, <2>6, <2>7, Zenon
  <2> QED
    BY <2>1, <2>8
<1>5. N \in 0..N
  BY <1>1
<1> HIDE DEF T
<1>6. N \in T
  BY <1>1, <1>3, <1>4, <1>5, SetInduction
<1> QED
  BY <1>2, <1>6 DEF T

\* A sequence is its elements, one behind the other.
LEMMA FlattenSingles ==
  ASSUME NEW W, NEW s \in Seq(W)
  PROVE  FlattenSeq([k \in 1..Len(s) |-> <<s[k]>>]) = s
<1> DEFINE N == Len(s)
    P(n) == SubSeq(s, 1, n)
    Single(n) == [k \in 1..n |-> <<s[k]>>]
    T == {n \in 0..N : FlattenSeq(Single(n)) = P(n)}
<1>1. N \in Nat /\ \A n \in 1..N : s[n] \in W
  OBVIOUS
<1>2. /\ P(0) = <<>> /\ P(N) = s
      /\ \A n \in 0..N : P(n) \in Seq(W)
      /\ \A n \in 1..N : P(n) = Append(P(n - 1), s[n])
  BY PrefixFacts, Zenon
<1> HIDE DEF P
<1>3. 0 \in T
  <2> DEFINE none == <<>>
  <2>1. none \in Seq(W) /\ none \in Seq(Seq(W)) /\ Single(0) = <<>> /\ 0 \in 0..N
    BY <1>1
  <2> HIDE DEF none, Single
  <2>2. FlattenSeq(<<>>) = <<>>
    BY <2>1, FlattenAppend, Zenon
  <2>3. FlattenSeq(Single(0)) = P(0)
    BY <1>2, <2>1, <2>2, Zenon
  <2> QED
    BY <2>1, <2>3
<1>4. ASSUME NEW n \in 1..N, n - 1 \in T PROVE n \in T
  <2>1. n \in 0..N /\ n - 1 \in 0..N /\ n - 1 \in Nat /\ n \in Nat
    BY <1>1
  <2> DEFINE c == Single(n - 1)
      x == <<s[n]>>
  <2>2. x \in Seq(W) /\ P(n) = Append(P(n - 1), s[n]) /\ P(n - 1) \in Seq(W)
    BY <1>1, <1>2, <2>1
  <2>3. c \in Seq(Seq(W)) /\ Len(c) = n - 1
    <3>1. \A k \in 1..(n - 1) : <<s[k]>> \in Seq(W)
      BY <1>1, <2>1
    <3> QED
      BY <2>1, <3>1
  <2>4. Single(n) = Append(c, x)
    <3> DEFINE e == Append(c, x)
    <3>1. /\ e \in Seq(Seq(W)) /\ Len(e) = n /\ e[n] = x
          /\ \A k \in 1..(n - 1) : e[k] = c[k]
      <4> HIDE DEF c, x
      <4> QED
        BY <2>1, <2>2, <2>3
    <3>2. \A k \in 1..n : e[k] = <<s[k]>>
      <4> SUFFICES ASSUME NEW k \in 1..n PROVE e[k] = <<s[k]>>
        OBVIOUS
      <4>1. k = n \/ k \in 1..(n - 1)
        BY <2>1
      <4> HIDE DEF e
      <4>2. CASE k \in 1..(n - 1)
        BY <3>1, <4>2
      <4>3. CASE k = n
        BY <3>1, <4>3
      <4> QED
        BY <4>1, <4>2, <4>3
    <3> HIDE DEF e
    <3>3. e = [k \in 1..n |-> e[k]]
      BY <3>1
    <3>4. e = Single(n)
      BY <3>2, <3>3
    <3> QED
      BY <3>4 DEF e
  <2>5. FlattenSeq(c) = P(n - 1)
    BY <1>4
  <2> HIDE DEF c, Single
  <2>6. FlattenSeq(Append(c, x)) = P(n - 1) \o x
    <3> HIDE DEF x
    <3> QED
      BY <2>2, <2>3, <2>5, FlattenAppend, Zenon
  <2>7. P(n - 1) \o x = Append(P(n - 1), s[n])
    BY <2>2
  <2> HIDE DEF x
  <2>8. FlattenSeq(Single(n)) = P(n)
    BY <2>2, <2>4, <2>6, <2>7, Zenon
  <2> QED
    BY <2>1, <2>8
<1>5. N \in 0..N
  BY <1>1
<1> HIDE DEF T
<1>6. N \in T
  BY <1>1, <1>3, <1>4, <1>5, SetInduction
<1> QED
  BY <1>2, <1>6 DEF T

\* Texts one behind the other have their variables one behind the other.
LEMMA VariablesConcat ==
  ASSUME NEW A, NEW t, NEW f, VariablesOf(A, t, f), NEW u, NEW h, VariablesOf(A, u, h)
  PROVE  VariablesOf(A, t \o u, f \o h)
<1> DEFINE B == Seq(A \ {Nul})
    X == Seq(A) \X Seq(A)
    W == Seq(X)
    L == Len(t)
    M == Len(u)
    One(text, found, k) ==
       \/ found[k] = <<>> /\ Equals \notin ToSet(text[k])
       \/ \E x \in X : found[k] = <<x>> /\ IsVariable(text[k], x[1], x[2])
<1>1. /\ t \in Seq(B) /\ f \in Seq(W) /\ Len(f) = L /\ \A k \in 1..L : One(t, f, k)
      /\ u \in Seq(B) /\ h \in Seq(W) /\ Len(h) = M /\ \A k \in 1..M : One(u, h, k)
  BY Zenon DEF VariablesOf
<1> HIDE DEF B, W
<1>2. t \o u \in Seq(B) /\ f \o h \in Seq(W) /\ L \in Nat /\ M \in Nat
  BY <1>1
<1>3. /\ Len(t \o u) = Len(t) + Len(u)
      /\ \A i \in 1..Len(t) : (t \o u)[i] = t[i]
      /\ \A i \in 1..Len(u) : (t \o u)[Len(t) + i] = u[i]
  <2>1. t \in Seq(B) /\ u \in Seq(B)
    BY <1>1
  <2> QED
    BY <2>1, ConcatFacts
<1>4. /\ Len(f \o h) = Len(f) + Len(h)
      /\ \A i \in 1..Len(f) : (f \o h)[i] = f[i]
      /\ \A i \in 1..Len(h) : (f \o h)[Len(f) + i] = h[i]
  <2>1. f \in Seq(W) /\ h \in Seq(W)
    BY <1>1
  <2> QED
    BY <2>1, ConcatFacts
<1>5. ASSUME NEW k \in 1..(L + M) PROVE One(t \o u, f \o h, k)
  <2>1. k \in 1..L \/ \E j \in 1..M : k = L + j
    <3>1. k \in 1..L \/ (k - L \in 1..M /\ k = L + (k - L))
      BY <1>2
    <3> QED
      BY <3>1
  <2>2. CASE k \in 1..L
    <3>1. (t \o u)[k] = t[k] /\ (f \o h)[k] = f[k]
      BY <1>1, <1>3, <1>4, <2>2, Zenon
    <3> QED
      BY <1>1, <2>2, <3>1, Zenon
  <2>3. ASSUME NEW j \in 1..M, k = L + j PROVE One(t \o u, f \o h, k)
    <3>1. (t \o u)[k] = u[j] /\ (f \o h)[k] = h[j]
      BY <1>1, <1>3, <1>4, <2>3, Zenon
    <3>2. One(u, h, j)
      BY <1>1, Zenon
    <3> QED
      BY <3>1, <3>2, Zenon
  <2> QED
    BY <2>1, <2>2, <2>3, Zenon
<1>6. Len(t \o u) = L + M /\ Len(f \o h) = L + M
  BY <1>1, <1>3, <1>4, Zenon
<1> QED
  BY <1>2, <1>5, <1>6, Zenon DEF VariablesOf, B, W

\* A string without `=`, alone, is no variable.
LEMMA NoVariable ==
  ASSUME NEW A, NEW s \in Seq(A \ {Nul}), Equals \notin ToSet(s)
  PROVE  /\ VariablesOf(A, <<s>>, <<<<>>>>) /\ FlattenSeq(<<<<>>>>) = <<>>
         /\ <<<<>>>> \in Seq(Seq(Seq(A) \X Seq(A)))
<1> DEFINE B == Seq(A \ {Nul})
    X == Seq(A) \X Seq(A)
    text == <<s>>
    none == <<>>
    found == <<none>>
<1>1. text \in Seq(B) /\ Len(text) = 1 /\ text[1] = s
  OBVIOUS
<1>2. none \in Seq(X) /\ none \in Seq(Seq(X))
  OBVIOUS
<1>3. found \in Seq(Seq(X)) /\ Len(found) = 1 /\ found[1] = none /\ found = Append(<<>>, none)
  <2> DEFINE Y == Seq(X)
  <2> HIDE DEF Y, none
  <2>1. none \in Y
    BY <1>2 DEF Y
  <2>2. found \in Seq(Y) /\ Len(found) = 1 /\ found[1] = none /\ found = Append(<<>>, none)
    BY <2>1
  <2> QED
    BY <2>2 DEF Y
<1>4. FlattenSeq(<<>>) = <<>> /\ FlattenSeq(found) = FlattenSeq(<<>>) \o <<>>
  <2> HIDE DEF X
  <2>1. FlattenSeq(<<>>) = <<>>
    BY <1>2, FlattenAppend, Zenon
  <2>2. FlattenSeq(Append(none, none)) = FlattenSeq(none) \o none
    <3> HIDE DEF none
    <3> QED
      BY <1>2, FlattenAppend, Zenon
  <2> QED
    BY <1>3, <2>1, <2>2, Zenon
<1>5. <<>> \o <<>> = <<>>
  OBVIOUS
<1>6. VariablesOf(A, text, found)
  <2>1. \A k \in 1..Len(text) : k = 1
    BY <1>1
  <2> HIDE DEF text, found
  <2>2. \A k \in 1..Len(text) : found[k] = <<>> /\ Equals \notin ToSet(text[k])
    BY <1>1, <1>3, <2>1, Zenon
  <2> QED
    BY <1>1, <1>3, <2>2, Zenon DEF VariablesOf
<1> QED
  BY <1>3, <1>4, <1>5, <1>6, Zenon

\* The environments of the instance are such texts.
LEMMA NoVariablesLost == VariablesLost = {}
<1> SUFFICES ASSUME NEW env \in Environments PROVE env \notin VariablesLost
  BY DEF VariablesLost
<1> DEFINE A == {"a", Equals, Nul}
    B == Seq(A \ {Nul})
    X == Seq(A) \X Seq(A)
    strings == [k \in 1..Len(env) |-> env[k][1] \o <<Equals>> \o env[k][2]]
    found == [k \in 1..Len(env) |-> <<env[k]>>]
    N == Len(env)
<1>0. Nul \in A /\ Equals \in A /\ {"a", Equals} \subseteq A \ {Nul} /\ "a" # Equals
  BY DEF Equals, Nul
<1>1. PICK n \in 0..2 : env \in [1..n -> {<<"a">>, <<>>} \X Strings({"a", Equals})]
  BY DEF Environments
<1>2. /\ N \in Nat /\ env \in Seq(B \X B)
      /\ \A k \in 1..N : env[k][1] \in {<<"a">>, <<>>} /\ env[k][1] \in B /\ env[k][2] \in B
  <2>1. \A s \in Strings({"a", Equals}) : s \in B
    <3>1. Seq({"a", Equals}) \subseteq B
      BY <1>0
    <3> QED
      BY <3>1, StringsType
  <2>2. {<<"a">>, <<>>} \subseteq B
    <3>1. <<"a">> \in B
      BY <1>0
    <3>2. <<>> \in B
      OBVIOUS
    <3> HIDE DEF B
    <3> QED
      BY <3>1, <3>2, Zenon
  <2> DEFINE K == {<<"a">>, <<>>}
      V == Strings({"a", Equals})
  <2> HIDE DEF B, K, V
  <2>3. n \in Nat /\ env \in [1..n -> K \X V] /\ K \subseteq B /\ V \subseteq B
    <3>1. n \in Nat /\ env \in [1..n -> K \X V]
      <4>1. n \in Nat
        BY <1>1
      <4>2. env \in [1..n -> K \X V]
        BY <1>1, Zenon DEF K, V
      <4> QED
        BY <4>1, <4>2
    <3>2. K \subseteq B /\ V \subseteq B
      BY <2>1, <2>2, Zenon DEF K, V
    <3> QED
      BY <3>1, <3>2
  <2>4. Len(env) = n /\ env \in Seq(B \X B)
    BY <2>3
  <2>5. \A k \in 1..n : env[k][1] \in K /\ env[k][1] \in B /\ env[k][2] \in B
    BY <2>3
  <2> QED
    BY <2>3, <2>4, <2>5, Zenon DEF K
<1>3. B \subseteq Seq(A)
  OBVIOUS
<1>4. ASSUME NEW k \in 1..N
      PROVE  /\ env[k] \in X /\ strings[k] \in B
             /\ strings[k] = env[k][1] \o <<Equals>> \o env[k][2]
             /\ Equals \notin ToSet(env[k][1])
  <2>1. env[k] \in B \X B /\ env[k][1] \in B /\ env[k][2] \in B
    BY <1>2
  <2>2. env[k] \in X
    BY <1>3, <2>1
  <2>3. strings[k] = env[k][1] \o <<Equals>> \o env[k][2]
    OBVIOUS
  <2>4. strings[k] \in B
    <3>1. <<Equals>> \in B
      BY <1>0
    <3>2. \A a, b, c \in B : a \o b \o c \in B
      OBVIOUS
    <3> HIDE DEF B
    <3>3. env[k][1] \o <<Equals>> \o env[k][2] \in B
      BY <2>1, <3>1, <3>2
    <3> QED
      BY <2>3, <3>3, Zenon
  <2>5. Equals \notin ToSet(env[k][1])
    <3>1. ToSet(<<"a">>) = {"a"} /\ ToSet(<<>>) = {}
      BY DEF ToSet
    <3>2. env[k][1] = <<"a">> \/ env[k][1] = <<>>
      BY <1>2
    <3> QED
      BY <1>0, <3>1, <3>2, Zenon
  <2> QED
    BY <2>2, <2>3, <2>4, <2>5
<1>5. env \in Seq(X) /\ strings \in Seq(B) /\ Len(strings) = N
  <2>1. env \in Seq(X)
    <3> DEFINE Y == B \X B
        Z == X
    <3>1. Y \subseteq Z
      BY <1>3
    <3>2. env \in Seq(Y)
      BY <1>2
    <3> HIDE DEF Y, Z
    <3>3. env \in Seq(Z)
      BY <3>1, <3>2
    <3> QED
      BY <3>3 DEF Z
  <2>2. strings \in Seq(B) /\ Len(strings) = N
    <3>1. \A k \in 1..N : env[k][1] \o <<Equals>> \o env[k][2] \in B
      BY <1>4, Zenon
    <3> HIDE DEF B
    <3> QED
      BY <1>2, <3>1
  <2> QED
    BY <2>1, <2>2
<1> HIDE DEF A, strings
<1>6. FlattenSeq(found) = env /\ found \in Seq(Seq(X)) /\ Len(found) = N
  <2>1. FlattenSeq(found) = env
    <3> HIDE DEF X
    <3> QED
      BY <1>5, FlattenSingles
  <2>2. \A k \in 1..N : <<env[k]>> \in Seq(X)
    <3> HIDE DEF X
    <3>1. \A k \in 1..N : env[k] \in X
      BY <1>4, Zenon
    <3>2. ASSUME NEW Y, NEW y \in Y PROVE <<y>> \in Seq(Y)
      OBVIOUS
    <3> QED
      BY <3>1, <3>2, Zenon
  <2>3. found \in Seq(Seq(X)) /\ Len(found) = N
    <3> DEFINE Y == Seq(X)
    <3> HIDE DEF Y
    <3>1. found \in Seq(Y) /\ Len(found) = N
      BY <1>2, <2>2 DEF Y
    <3> QED
      BY <3>1 DEF Y
  <2> QED
    BY <2>1, <2>3
<1>7. VariablesOf(A, strings, found)
  <2>1. \A k \in 1..N : found[k] = <<env[k]>>
    OBVIOUS
  <2>2. \A k \in 1..N : IsVariable(strings[k], env[k][1], env[k][2])
    BY <1>4, Zenon DEF IsVariable
  <2>3. \A k \in 1..N : \E x \in X : found[k] = <<x>> /\ IsVariable(strings[k], x[1], x[2])
    BY <1>4, <2>1, <2>2, Zenon
  <2> HIDE DEF found
  <2> QED
    BY <1>5, <1>6, <2>3, Zenon DEF VariablesOf
<1> HIDE DEF found
<1>8. Environ(NulEnded(strings)) = MapOf(env)
  BY <1>0, <1>6, <1>7, EnvironReads, Zenon
<1> DEFINE aa == <<"a", "a">>
    none == <<>>
    unfound == <<none>>
<1>9. aa \in B /\ Equals \notin ToSet(aa) /\ none \in B /\ Equals \notin ToSet(none)
  <2>1. aa \in B
    BY <1>0
  <2>2. none \in B
    OBVIOUS
  <2>3. ToSet(aa) = {"a"} /\ ToSet(none) = {}
    BY DEF ToSet
  <2> QED
    BY <1>0, <2>1, <2>2, <2>3
<1>10. /\ VariablesOf(A, <<aa>>, unfound) /\ VariablesOf(A, <<none>>, unfound)
       /\ FlattenSeq(unfound) = <<>> /\ unfound \in Seq(Seq(X))
  <2> HIDE DEF aa
  <2>1. VariablesOf(A, <<aa>>, unfound) /\ FlattenSeq(unfound) = <<>> /\ unfound \in Seq(Seq(X))
    BY <1>9, NoVariable, Zenon
  <2>2. VariablesOf(A, <<none>>, unfound)
    BY <1>9, NoVariable, Zenon
  <2> QED
    BY <2>1, <2>2
<1> HIDE DEF aa, unfound, X
<1>11. FlattenSeq(unfound \o found) = env /\ FlattenSeq(found \o unfound) = env
  <2>1. <<>> \o env = env /\ env \o <<>> = env
    BY <1>5
  <2>2. FlattenSeq(unfound \o found) = FlattenSeq(unfound) \o FlattenSeq(found)
    BY <1>6, <1>10, FlattenConcat, Zenon
  <2>3. FlattenSeq(found \o unfound) = FlattenSeq(found) \o FlattenSeq(unfound)
    BY <1>6, <1>10, FlattenConcat, Zenon
  <2> QED
    BY <1>6, <1>10, <2>1, <2>2, <2>3, Zenon
<1>12. Environ(NulEnded(<<aa>> \o strings)) = MapOf(env)
  <2>1. VariablesOf(A, <<aa>> \o strings, unfound \o found)
    BY <1>7, <1>10, VariablesConcat, Zenon
  <2> QED
    BY <1>0, <1>11, <2>1, EnvironReads, Zenon
<1>13. Environ(NulEnded(strings \o <<none>>)) = MapOf(env)
  <2>1. VariablesOf(A, strings \o <<none>>, found \o unfound)
    BY <1>7, <1>10, VariablesConcat, Zenon
  <2> QED
    BY <1>0, <1>11, <2>1, EnvironReads, Zenon
<1> QED
  BY <1>8, <1>12, <1>13, Zenon DEF VariablesLost, strings, aa

\* The variables of the environments come back with the last value of each
\* name, whatever is among them, and none if nothing was read.
THEOREM EnvironVariablesCorrect == HandleSpec => []EnvironVariables
<1>1. EnvironVariables
  BY EnvironEmpty, NoVariablesLost, Zenon DEF EnvironVariables
<1> QED
  BY <1>1, PTL
=============================================================================

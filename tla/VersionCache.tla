---------------------------- MODULE VersionCache ----------------------------
(***************************************************************************)
(* Version::cached (src/sys/kernel/mod.rs): one static AtomicU32 shared by *)
(* every task of the program and by every AsyncProcfs handle, whatever     *)
(* root the handle was opened on.                                          *)
(*                                                                         *)
(* A call loads the static; a value other than SENTINEL is the answer.     *)
(* Otherwise the call awaits a read of sys/kernel/osrelease under its own  *)
(* root, parses it and stores the packed version.  Any number of calls may *)
(* be between the load and the store; a future dropped at the await leaves *)
(* the static alone.                                                       *)
(*                                                                         *)
(* The load is Relaxed: it may return any value of the static's            *)
(* modification order that is not older than one its task has seen, so a   *)
(* task may still load SENTINEL after another task's store.                *)
(***************************************************************************)
EXTENDS KernelVersion, FiniteSets

CONSTANTS
  Callers,     \* concurrent tasks; each has at most one call at a time
  Roots,       \* AsyncProcfs handles, one per mounted root
  OsRelease    \* OsRelease[r]: the text of sys/kernel/osrelease under r

ASSUME ReleaseAssumption == OsRelease \in [Roots -> ReleaseText]
ASSUME CallersAssumption == IsFiniteSet(Callers)

VARIABLES
  stores,      \* modification order of KERNEL after its initial SENTINEL
  seen,        \* seen[c]: newest modification task c has seen, 0 = initial
  pc,          \* where c's call is: idle, reading the file, or about to store
  root,        \* root[c]: the handle c's current or last call was made on
  kernel,      \* kernel[c]: the local variable of the call
  result       \* result[c]: the outcome of c's last finished call

cacheVars == <<stores, seen, pc, root, kernel, result>>

Value(i) == IF i = 0 THEN SENTINEL ELSE stores[i]

\* The values a Relaxed load of task c may return.
Visible(c) == seen[c] .. Len(stores)

Parsed(r) == ParseVersion(OsRelease[r])

ReadErrors == {"Io", "BadRelease"}

Init ==
  /\ stores = <<>>
  /\ seen = [c \in Callers |-> 0]
  /\ pc = [c \in Callers |-> "idle"]
  /\ root \in [Callers -> Roots]
  /\ kernel = [c \in Callers |-> SENTINEL]
  /\ result = [c \in Callers |-> Pending]

(***************************************************************************)
(* The load finds a packed version: the call returns at once, without an   *)
(* await.                                                                  *)
(***************************************************************************)
Hit(c, r) ==
  /\ pc[c] = "idle"
  /\ \E i \in Visible(c) :
       /\ Value(i) # SENTINEL
       /\ seen' = [seen EXCEPT ![c] = i]
       /\ kernel' = [kernel EXCEPT ![c] = Value(i)]
       /\ result' = [result EXCEPT ![c] = Ok(FromU32(Value(i)))]
  /\ root' = [root EXCEPT ![c] = r]
  /\ UNCHANGED <<stores, pc>>

\* Mutant: the comparison with SENTINEL is gone, every call reads the file.
MissAlways(c, r) ==
  /\ pc[c] = "idle"
  /\ \E i \in Visible(c) :
       /\ seen' = [seen EXCEPT ![c] = i]
       /\ kernel' = [kernel EXCEPT ![c] = Value(i)]
  /\ pc' = [pc EXCEPT ![c] = "reading"]
  /\ root' = [root EXCEPT ![c] = r]
  /\ UNCHANGED <<stores, result>>

\* The load finds SENTINEL: the call goes on to Self::current(procfs).await.
Miss(c, r) ==
  /\ pc[c] = "idle"
  /\ \E i \in Visible(c) :
       /\ Value(i) = SENTINEL
       /\ seen' = [seen EXCEPT ![c] = i]
       /\ kernel' = [kernel EXCEPT ![c] = Value(i)]
  /\ pc' = [pc EXCEPT ![c] = "reading"]
  /\ root' = [root EXCEPT ![c] = r]
  /\ UNCHANGED <<stores, result>>

\* Version::current succeeds; its u32 is in the local variable.
ReadRelease(c) ==
  /\ pc[c] = "reading"
  /\ IsOk(Parsed(root[c]))
  /\ kernel' = [kernel EXCEPT ![c] = ToU32(Parsed(root[c]).ok)]
  /\ pc' = [pc EXCEPT ![c] = "storing"]
  /\ UNCHANGED <<stores, seen, root, result>>

\* Mutant: a failed read is retried instead of being returned.
ReadRetries(c) ==
  /\ pc[c] = "reading"
  /\ \E e \in ReadErrors :
       /\ e = "BadRelease" => IsErr(Parsed(root[c]))
       /\ result' = [result EXCEPT ![c] = Err(e)]
  /\ UNCHANGED <<stores, seen, pc, root, kernel>>

(***************************************************************************)
(* Version::current fails and `?` returns its error: the file cannot be    *)
(* opened or read (any I/O may fail), or its text does not parse.  Nothing *)
(* is stored.                                                              *)
(***************************************************************************)
ReadFails(c) ==
  /\ pc[c] = "reading"
  /\ \E e \in ReadErrors :
       /\ e = "BadRelease" => IsErr(Parsed(root[c]))
       /\ result' = [result EXCEPT ![c] = Err(e)]
  /\ pc' = [pc EXCEPT ![c] = "idle"]
  /\ UNCHANGED <<stores, seen, root, kernel>>

\* Mutant: the call answers without filling the cache.
StoreForgotten(c) ==
  /\ pc[c] = "storing"
  /\ result' = [result EXCEPT ![c] = Ok(FromU32(kernel[c]))]
  /\ pc' = [pc EXCEPT ![c] = "idle"]
  /\ UNCHANGED <<stores, seen, root, kernel>>

\* KERNEL.store, and the call returns what it has just read.
Store(c) ==
  /\ pc[c] = "storing"
  /\ stores' = Append(stores, kernel[c])
  /\ seen' = [seen EXCEPT ![c] = Len(stores) + 1]
  /\ result' = [result EXCEPT ![c] = Ok(FromU32(kernel[c]))]
  /\ pc' = [pc EXCEPT ![c] = "idle"]
  /\ UNCHANGED <<root, kernel>>

\* The caller drops the future while it awaits the file.
Cancel(c) ==
  /\ pc[c] = "reading"
  /\ pc' = [pc EXCEPT ![c] = "idle"]
  /\ result' = [result EXCEPT ![c] = Pending]
  /\ UNCHANGED <<stores, seen, root, kernel>>

Next ==
  \E c \in Callers :
    \/ \E r \in Roots : Hit(c, r) \/ Miss(c, r)
    \/ ReadRelease(c)
    \/ ReadFails(c)
    \/ Store(c)
    \/ Cancel(c)

Spec == Init /\ [][Next]_cacheVars

\* The I/O of a started call completes and its task is polled again.
Fairness ==
  \A c \in Callers :
    /\ WF_cacheVars(ReadRelease(c) \/ ReadFails(c))
    /\ WF_cacheVars(Store(c))

FairSpec == Spec /\ Fairness

-----------------------------------------------------------------------------
(***************************************************************************)
(* Properties.                                                             *)
(***************************************************************************)
\* Type invariant of the cache and of the calls in progress.
TypeOK ==
  /\ stores \in Seq(U32)
  /\ seen \in [Callers -> Nat]
  /\ pc \in [Callers -> {"idle", "reading", "storing"}]
  /\ root \in [Callers -> Roots]
  /\ kernel \in [Callers -> U32]
  /\ result \in [Callers -> ResultOf(Version, ReadErrors) \cup {Pending}]

\* The versions that the release files of the mounted roots name.
Kernels == {Parsed(r).ok : r \in {s \in Roots : IsOk(Parsed(s))}}

\* Whatever calls raced to fill the static, and although it packs a version
\* into 32 bits, a successful call returns exactly a version that some
\* mounted root's osrelease names: never SENTINEL taken for a version, never
\* a mixture of two versions.
AnswersAreReleases ==
  \A c \in Callers : IsOk(result[c]) => result[c].ok \in Kernels

\* Assumed where stated: no release file says 0.0.0, the one version whose packed form is SENTINEL.
NoZeroRelease == New(0, 0, 0) \notin Kernels

\* Caller c has been answered, by its own store or by another task's.
Known(c) == seen[c] > 0

\* The cache is worth its name: a task reads osrelease successfully at most
\* once in its life, however many calls it makes and however stale its
\* Relaxed loads are, so there are never more stores than tasks that know.
OneStorePerCaller ==
  Len(stores) <= Cardinality({c \in Callers : Known(c)})

\* A caller that has once been answered is past failing: its later calls
\* neither read the file nor return an error, even if osrelease has become
\* unreadable.  The refinement of VersionOracle.
Oracle == INSTANCE VersionOracle WITH
  Failures <- ReadErrors,
  known <- [c \in Callers |-> Known(c)],
  answer <- result

ImplementsOracle == Oracle!Spec

\* Every call that missed the cache ends: nothing in Version::cached waits
\* for another task.
CallsEnd == \A c \in Callers : pc[c] # "idle" ~> pc[c] = "idle"
=============================================================================

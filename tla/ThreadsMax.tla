----------------------------- MODULE ThreadsMax -----------------------------
(***************************************************************************)
(* set_threads_max (src/sys/kernel/mod.rs): every task may set the limit   *)
(* kernel.threads-max through any mounted root.  A call asks               *)
(* Version::cached for the kernel, compares the new limit with the range   *)
(* of Linux 4.1, and writes the file.  The version may be unknown (the     *)
(* error is dropped by `if let Ok`) and may come from another root.        *)
(*                                                                         *)
(* The file behind a root is external: a write may succeed or fail, and    *)
(* nothing is assumed about the values it takes.                           *)
(***************************************************************************)
EXTENDS VersionCache

CONSTANTS
  Limits,        \* the limits callers ask for
  InitialLimit   \* what threads-max says under every root at the start

VARIABLES
  phase,         \* where c's call is: none, asking the version, checked, or opened
  limit,         \* limit[c]: new_limit of c's current or last call
  threadsMax,    \* threadsMax[r]: content of sys/kernel/threads-max under r
  outcome        \* outcome[c]: result of c's last set_threads_max

limitVars == <<phase, limit, threadsMax, outcome>>
vars == <<cacheVars, limitVars>>

THREADS_MIN == 20
THREADS_MAX == 1073741823    \* 0x3fff_ffff

InRange(l) == l \in THREADS_MIN..THREADS_MAX

LimitErrors == {"OutOfRange", "Io"}

LimitInit ==
  /\ Init
  /\ phase = [c \in Callers |-> "none"]
  /\ limit = [c \in Callers |-> InitialLimit]
  /\ threadsMax = [r \in Roots |-> InitialLimit]
  /\ outcome = [c \in Callers |-> Pending]

\* The call starts and asks for the version; on a hit it goes on at once.
Begin(c, r, l) ==
  /\ phase[c] = "none"
  /\ limit' = [limit EXCEPT ![c] = l]
  /\ outcome' = [outcome EXCEPT ![c] = Pending]
  /\ \/ Hit(c, r) /\ phase' = [phase EXCEPT ![c] = "checked"]
     \/ Miss(c, r) /\ phase' = [phase EXCEPT ![c] = "asking"]
  /\ UNCHANGED threadsMax

\* Mutant: a call whose version request fails is left where it is.
AskForgetsFailure(c) ==
  /\ phase[c] = "asking"
  /\ \/ (ReadRelease(c) \/ ReadFails(c)) /\ UNCHANGED phase
     \/ Store(c) /\ phase' = [phase EXCEPT ![c] = "checked"]
  /\ UNCHANGED <<limit, threadsMax, outcome>>

\* Version::cached goes on; its error, like its answer, leads to the check.
AskVersion(c) ==
  /\ phase[c] = "asking"
  /\ \/ ReadRelease(c) /\ UNCHANGED phase
     \/ (ReadFails(c) \/ Store(c)) /\ phase' = [phase EXCEPT ![c] = "checked"]
  /\ UNCHANGED <<limit, threadsMax, outcome>>

\* Mutant: the major number is not looked at.
RefusedOnMinor(c) ==
  /\ IsOk(result[c])
  /\ result[c].ok.minor >= 1
  /\ ~InRange(limit[c])

\* Mutant: the upper bound is forgotten.
RefusedBelowOnly(c) ==
  /\ IsOk(result[c])
  /\ result[c].ok.major >= 4
  /\ result[c].ok.minor >= 1
  /\ limit[c] < THREADS_MIN

\* The condition of the early return, with the fields compared one by one.
Refused(c) ==
  /\ IsOk(result[c])
  /\ result[c].ok.major >= 4
  /\ result[c].ok.minor >= 1
  /\ ~InRange(limit[c])

Finish(c, r) ==
  /\ phase' = [phase EXCEPT ![c] = "none"]
  /\ outcome' = [outcome EXCEPT ![c] = r]

Refuse(c) ==
  /\ phase[c] = "checked"
  /\ Refused(c)
  /\ Finish(c, Err("OutOfRange"))
  /\ UNCHANGED <<cacheVars, limit, threadsMax>>

\* write_value: the file is opened, then the whole number is written.
OpenLimit(c) ==
  /\ phase[c] = "checked"
  /\ ~Refused(c)
  /\ phase' = [phase EXCEPT ![c] = "opened"]
  /\ UNCHANGED <<cacheVars, limit, threadsMax, outcome>>

WriteLimit(c) ==
  /\ phase[c] = "opened"
  /\ threadsMax' = [threadsMax EXCEPT ![root[c]] = limit[c]]
  /\ Finish(c, Ok("done"))
  /\ UNCHANGED <<cacheVars, limit>>

\* The open or the write fails; the file keeps its value.
LimitFails(c) ==
  /\ \/ phase[c] = "opened"
     \/ phase[c] = "checked" /\ ~Refused(c)
  /\ Finish(c, Err("Io"))
  /\ UNCHANGED <<cacheVars, limit, threadsMax>>

\* The caller drops the future at an await.  A write that was handed to the
\* blocking pool is carried out all the same.
Abandon(c) ==
  /\ \/ phase[c] = "asking" /\ Cancel(c) /\ UNCHANGED threadsMax
     \/ phase[c] = "opened" /\ UNCHANGED <<cacheVars, threadsMax>>
     \/ /\ phase[c] = "opened"
        /\ threadsMax' = [threadsMax EXCEPT ![root[c]] = limit[c]]
        /\ UNCHANGED cacheVars
  /\ Finish(c, Pending)
  /\ UNCHANGED limit

LimitNext ==
  \E c \in Callers :
    \/ \E r \in Roots, l \in Limits : Begin(c, r, l)
    \/ AskVersion(c)
    \/ Refuse(c)
    \/ OpenLimit(c)
    \/ WriteLimit(c)
    \/ LimitFails(c)
    \/ Abandon(c)

LimitSpec == LimitInit /\ [][LimitNext]_vars

-----------------------------------------------------------------------------
(***************************************************************************)
(* Properties.                                                             *)
(***************************************************************************)
\* Type invariant, and the coupling of a call with its version request.
LimitTypeOK ==
  /\ TypeOK
  /\ phase \in [Callers -> {"none", "asking", "checked", "opened"}]
  /\ limit \in [Callers -> Limits \cup {InitialLimit}]
  /\ threadsMax \in [Roots -> Limits \cup {InitialLimit}]
  /\ outcome \in [Callers -> ResultOf({"done"}, LimitErrors) \cup {Pending}]
  /\ \A c \in Callers : phase[c] = "asking" <=> pc[c] # "idle"

\* Version 4.1 or later in the order of Version.
Bounded(v) == ~Less(v, New(4, 1, 0))

\* The versions that have been in the cache.
Cached == {FromU32(stores[i]) : i \in 1..Len(stores)}

\* A limit is refused only where refusing is right: it is out of range and a
\* kernel that bounds it has been seen.  (Seen, not mounted at this root: the
\* version may have been cached through another root.)
RefusalsJustified ==
  \A c \in Callers :
    outcome[c] = Err("OutOfRange") =>
      ~InRange(limit[c]) /\ \E v \in Cached : Bounded(v)

\* As long as only kernels from 4.1 on have been seen, the range check fails
\* open at most until the task has been answered once: a task that has had a
\* version is never again told that an out-of-range limit has been set.
RangeChecked ==
  (\A v \in Cached : Bounded(v)) =>
    \A c \in Callers :
      Known(c) /\ outcome[c] = Ok("done") => InRange(limit[c])
=============================================================================

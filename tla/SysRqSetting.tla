---------------------------- MODULE SysRqSetting ----------------------------
(***************************************************************************)
(* sysrq and set_sysrq (src/sys/kernel/mod.rs) over AsyncProcfsIo          *)
(* (src/helpers.rs): a setting is turned into a number, written whole to   *)
(* the file after an open that truncates it, read back and turned into a   *)
(* setting again.  The other settable values of the crate, shmmax and      *)
(* threads-max, go through the same calls of AsyncProcfsIo.                *)
(*                                                                         *)
(* The file is external and is one of two kinds.  A kernel's sysctl file   *)
(* ignores O_TRUNC, takes a write as one assignment and is read at once;   *)
(* other programs assign to it too.  The regular file of a root that is    *)
(* not a kernel's (AsyncProcfs::new_with_root takes any directory) is      *)
(* emptied by the open, and is torn when one text is written over another  *)
(* or is read while it changes.                                            *)
(*                                                                         *)
(* A u16 is the set of its bits, each given by its value.                  *)
(***************************************************************************)
EXTENDS FiniteSets, ProcResult

CONSTANTS
  Tasks,      \* tasks, each with at most one call at a time
  Settings,   \* the settings passed to set_sysrq
  Numbers     \* the numbers the file holds at first and other programs write

\* enum SysRq, and the bits of AllowedFunctions.
Disable == [sysrq |-> "Disable", mask |-> {}]
Enable == [sysrq |-> "Enable", mask |-> {}]
Allow(m) == [sysrq |-> "AllowedFunctions", mask |-> m]
Flags == {2, 4, 8, 16, 32, 64, 128, 256}

\* The callers make their masks of the named flags.
ASSUME SettingsAssumption ==
  Settings \subseteq {Disable, Enable} \cup {Allow(m) : m \in SUBSET Flags}

VARIABLES
  kind,       \* "sysctl" or "regular"
  content,    \* what the file holds: a number, or Empty, or Torn
  pc,         \* where t's call is
  setting,    \* setting[t]: the argument of t's set_sysrq
  got,        \* got[t]: what t's read found in the file
  answer,     \* answer[t]: the result of t's last call
  held,       \* ghost: held[t] is what the file has held since t's sysrq began
  crossed,    \* ghost: writers whose file another writer opened in the meantime
  settled     \* ghost: the functions last set, as a set of one; empty if unknown

ghostVars == <<held, crossed, settled>>
vars == <<kind, content, pc, setting, got, answer, ghostVars>>

Number(n) == [number |-> n]
Empty == [text |-> "empty"]
Torn == [text |-> "torn"]

\* Ok(()), the result of a set_sysrq.
Done == [done |-> TRUE]

-----------------------------------------------------------------------------
ToNumber(s) ==
  CASE s.sysrq = "Disable" -> {}
    [] s.sysrq = "Enable" -> {1}
    [] s.sysrq = "AllowedFunctions" -> s.mask

\* Mutant: the first two arms of the match are swapped.
FromNumberSwapped(n) ==
  CASE n = {} -> Ok(Enable)
    [] n = {1} -> Ok(Disable)
    [] n \in (SUBSET Flags) \ {{}} -> Ok(Allow(n))
    [] OTHER -> Err("Other")

\* Mutant: unknown bits are kept, as from_bits_retain does.
FromNumberRetains(n) ==
  CASE n = {} -> Ok(Disable)
    [] n = {1} -> Ok(Enable)
    [] OTHER -> Ok(Allow(n))

FromNumber(n) ==
  CASE n = {} -> Ok(Disable)
    [] n = {1} -> Ok(Enable)
    [] n \subseteq Flags /\ n # {} -> Ok(Allow(n))
    [] OTHER -> Err("Other")

\* What a text may parse to: an empty one is no number, a torn one any number
\* or none.
Parse(text) ==
  IF "number" \in DOMAIN text THEN {FromNumber(text.number)}
  ELSE {Err("Other")} \cup
         (IF text = Torn THEN {FromNumber(n) : n \in Numbers} ELSE {})

\* The functions a setting allows.
Functions(s) == IF s = Enable THEN Flags ELSE s.mask

\* The functions the kernel allows when the file holds n.
InForce(n) == IF n = {1} THEN Flags ELSE n \cap Flags

-----------------------------------------------------------------------------
Init ==
  /\ kind \in {"sysctl", "regular"}
  /\ content \in {Number(n) : n \in Numbers}
  /\ pc = [t \in Tasks |-> "idle"]
  /\ setting = [t \in Tasks |-> Disable]
  /\ got = [t \in Tasks |-> Empty]
  /\ answer = [t \in Tasks |-> Pending]
  /\ held = [t \in Tasks |-> {}]
  /\ crossed = {}
  /\ settled = {}

Start(t, step) ==
  /\ pc[t] = "idle"
  /\ pc' = [pc EXCEPT ![t] = step]
  /\ answer' = [answer EXCEPT ![t] = Pending]

Finish(t, r) ==
  /\ pc' = [pc EXCEPT ![t] = "idle"]
  /\ setting' = [setting EXCEPT ![t] = Disable]
  /\ got' = [got EXCEPT ![t] = Empty]
  /\ answer' = [answer EXCEPT ![t] = r]

Reading(t) == pc[t] \in {"looking", "reading"}

\* The file changes to x.
Becomes(x) ==
  /\ content' = x
  /\ held' = [t \in Tasks |-> IF Reading(t) THEN held[t] \cup {x} ELSE held[t]]

-----------------------------------------------------------------------------
(***************************************************************************)
(* set_sysrq.                                                              *)
(***************************************************************************)
SetSysrq(t, s) ==
  /\ Start(t, "opening")
  /\ setting' = [setting EXCEPT ![t] = s]
  /\ held' = [held EXCEPT ![t] = {}]
  /\ UNCHANGED <<kind, content, got, crossed, settled>>

\* The ghost of an open: it crosses the writers that have the file open.
Crosses(t) ==
  LET others == {u \in Tasks \ {t} : pc[u] = "writing"}
  IN  crossed' = IF others = {} THEN crossed ELSE crossed \cup others \cup {t}

\* Mutant: the file is opened without truncate.
OpenUntruncated(t) ==
  /\ pc[t] = "opening"
  /\ pc' = [pc EXCEPT ![t] = "writing"]
  /\ Crosses(t)
  /\ UNCHANGED <<kind, content, held, setting, got, answer, settled>>

\* O_TRUNC empties a regular file, and does nothing to a sysctl.
Truncated ==
  /\ Becomes(IF kind = "regular" THEN Empty ELSE content)
  /\ settled' = IF kind = "regular" THEN {} ELSE settled

OpenTruncate(t) ==
  /\ pc[t] = "opening"
  /\ pc' = [pc EXCEPT ![t] = "writing"]
  /\ Truncated
  /\ Crosses(t)
  /\ UNCHANGED <<kind, setting, got, answer>>

\* The text lands in the file: on a regular one that holds a text already,
\* over that text.
Lands(t) ==
  LET n == Number(ToNumber(setting[t]))
  IN  Becomes(IF kind = "sysctl" \/ content \in {Empty, n} THEN n ELSE Torn)

WriteNumber(t) ==
  /\ pc[t] = "writing"
  /\ Lands(t)
  /\ settled' = IF kind = "sysctl" \/ t \notin crossed
                THEN {Functions(setting[t])} ELSE {}
  /\ crossed' = crossed \ {t}
  /\ Finish(t, Done)
  /\ UNCHANGED kind

\* The open or the write fails; an open that succeeded is not undone.
SetFails(t) ==
  /\ pc[t] \in {"opening", "writing"}
  /\ crossed' = crossed \ {t}
  /\ Finish(t, Err("Io"))
  /\ UNCHANGED <<kind, content, held, settled>>

\* The future is dropped; the open or the write that was begun is carried out
\* or not.
SetDropped(t) ==
  /\ \/ pc[t] \in {"opening", "writing"} /\ UNCHANGED <<content, held, settled>>
     \/ pc[t] = "opening" /\ Truncated
     \/ pc[t] = "writing" /\ Lands(t) /\ settled' = {}
  /\ crossed' = crossed \ {t}
  /\ Finish(t, Pending)
  /\ UNCHANGED kind

-----------------------------------------------------------------------------
(***************************************************************************)
(* sysrq.                                                                  *)
(***************************************************************************)
GetSysrq(t) ==
  /\ Start(t, "looking")
  /\ held' = [held EXCEPT ![t] = {content}]
  /\ UNCHANGED <<kind, content, setting, got, crossed, settled>>

ReadText(t) ==
  /\ pc[t] = "looking"
  /\ pc' = [pc EXCEPT ![t] = "reading"]
  /\ got' = [got EXCEPT ![t] = content]
  /\ UNCHANGED <<kind, content, setting, answer, ghostVars>>

\* read_to_string looks for more before it returns; a sysctl file has no more,
\* a regular one may have changed.  The text is then parsed.
ReadEnds(t) ==
  /\ pc[t] = "reading"
  /\ \E r \in Parse(IF kind = "sysctl" \/ content = got[t] THEN got[t] ELSE Torn) :
       Finish(t, r)
  /\ UNCHANGED <<kind, content, ghostVars>>

\* The open or the read fails, or the future is dropped.
GetFails(t) ==
  /\ Reading(t)
  /\ Finish(t, Err("Io")) \/ Finish(t, Pending)
  /\ UNCHANGED <<kind, content, ghostVars>>

\* External: another program assigns to the sysctl; what it sets is not
\* followed further.
Assign(n) ==
  /\ kind = "sysctl"
  /\ Becomes(Number(n))
  /\ settled' = {}
  /\ UNCHANGED <<kind, pc, setting, got, answer, crossed>>

Next ==
  \/ \E t \in Tasks :
       \/ \E s \in Settings : SetSysrq(t, s)
       \/ OpenTruncate(t)
       \/ WriteNumber(t)
       \/ SetFails(t)
       \/ SetDropped(t)
       \/ GetSysrq(t)
       \/ ReadText(t)
       \/ ReadEnds(t)
       \/ GetFails(t)
  \/ \E n \in Numbers : Assign(n)

Spec == Init /\ [][Next]_vars

-----------------------------------------------------------------------------
(***************************************************************************)
(* Properties.                                                             *)
(***************************************************************************)
\* Type invariant.  Only a writer that has the file open is ever crossed, and
\* only a regular file is ever without a number.
SettingTypeOK ==
  /\ kind \in {"sysctl", "regular"}
  /\ \/ content \in {Number(n) : n \in Numbers \cup {ToNumber(s) : s \in Settings}}
     \/ kind = "regular" /\ content \in {Empty, Torn}
  /\ pc \in [Tasks -> {"idle", "opening", "writing", "looking", "reading"}]
  /\ setting \in [Tasks -> Settings \cup {Disable}]
  /\ \A t \in Tasks :
       \/ answer[t] \in {Pending, Done, Err("Io"), Err("Other")}
       \/ answer[t] \in {Ok(Disable), Ok(Enable)} \cup {Ok(Allow(m)) : m \in (SUBSET Flags) \ {{}}}
  /\ \A t \in crossed : pc[t] = "writing"

\* The functions sysrq() reports were in force at some moment of the call,
\* whatever is written meanwhile; on a regular file, if the file did not
\* change and was not torn.
AnswersInForce ==
  \A t \in Tasks :
    /\ IsOk(answer[t])
    /\ kind = "sysctl" \/ (Cardinality(held[t]) = 1 /\ Torn \notin held[t])
    => \E x \in held[t] :
         "number" \in DOMAIN x /\ Functions(answer[t].ok) = InForce(x.number)

\* What set_sysrq has set is what sysrq() would return, in the functions it
\* allows, until something else is set or the file is opened for it: for every
\* setting and both kinds of file, whatever earlier failed, dropped or crossing
\* writes have left in the file.
LastSetIsRead ==
  \A f \in settled :
    \A r \in Parse(content) : IsOk(r) /\ Functions(r.ok) = f
=============================================================================

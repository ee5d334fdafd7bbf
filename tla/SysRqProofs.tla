----------------------------- MODULE SysRqProofs -----------------------------
(***************************************************************************)
(* Proofs about SysRqSetting and the limits of KernelParsers: what sysrq   *)
(* returns and set_sysrq leaves, for any number of tasks, any settings     *)
(* made of the named flags, and any numbers of other programs.             *)
(***************************************************************************)
EXTENDS KernelParsers, SequenceProofs, FiniteSetTheorems

\* What the file may hold.
Written == {Number(n) : n \in Numbers \cup {ToNumber(s) : s \in Settings}}
Texts == IF kind = "sysctl" THEN Written ELSE Written \cup {Empty, Torn}

Answers ==
  {Pending, Done, Err("Io"), Err("Other"), Ok(Disable), Ok(Enable)} \cup
  {Ok(Allow(m)) : m \in (SUBSET Flags) \ {{}}}

\* SettingTypeOK, with the types of got, held and settled, and what a call
\* has at its steps.
CallsOK ==
  /\ kind \in {"sysctl", "regular"}
  /\ content \in Texts
  /\ pc \in [Tasks -> {"idle", "opening", "writing", "looking", "reading"}]
  /\ setting \in [Tasks -> Settings \cup {Disable}]
  /\ got \in [Tasks -> Texts \cup {Empty}]
  /\ answer \in [Tasks -> Answers]
  /\ held \in [Tasks -> SUBSET Texts]
  /\ crossed \subseteq {t \in Tasks : pc[t] = "writing"}
  /\ \A t \in Tasks : pc[t] \in {"opening", "writing"} => setting[t] \in Settings
  /\ \A t \in Tasks : IsOk(answer[t]) => pc[t] = "idle"

\* A reader has seen what it read, and what the file holds.
ReadersOK ==
  \A t \in Tasks :
    /\ IsFiniteSet(held[t])
    /\ Reading(t) => content \in held[t]
    /\ pc[t] = "reading" => got[t] \in held[t]

\* A writer that no other crossed is alone with the file, which it has emptied.
WritersOK ==
  \A t \in Tasks :
    pc[t] = "writing" /\ t \notin crossed =>
      /\ \A u \in Tasks : u # t => pc[u] # "writing"
      /\ kind = "regular" => content = Empty

\* What is settled is the setting whose number the file holds.
SettledOK ==
  \A f \in settled :
    \E s \in Settings : content = Number(ToNumber(s)) /\ f = Functions(s)

SettingInv ==
  /\ CallsOK
  /\ ReadersOK
  /\ WritersOK
  /\ SettledOK
  /\ AnswersInForce

-----------------------------------------------------------------------------
(* Numbers and settings.                                                   *)

\* The three things a file may hold are different.
LEMMA TextFacts ==
  /\ \A n : /\ "number" \in DOMAIN Number(n) /\ Number(n).number = n
            /\ Number(n) # Empty /\ Number(n) # Torn
  /\ "number" \notin DOMAIN Empty /\ "number" \notin DOMAIN Torn
  /\ Empty # Torn
<1>1. /\ \A n : "number" \in DOMAIN Number(n) /\ Number(n).number = n
      /\ "number" \notin DOMAIN Empty /\ "number" \notin DOMAIN Torn
  BY DEF Number, Empty, Torn
<1>2. Empty # Torn
  BY DEF Empty, Torn
<1> QED
  BY <1>1, <1>2

\* An error allows nothing; the settings are told apart by their names.
LEMMA AnswerFacts ==
  /\ ~IsOk(Pending) /\ ~IsOk(Done) /\ ~IsOk(Err("Io")) /\ ~IsOk(Err("Other"))
  /\ \A s : IsOk(Ok(s)) /\ Ok(s).ok = s
  /\ Disable # Enable /\ \A m : Allow(m) # Enable /\ Allow(m) # Disable
  /\ Functions(Disable) = {} /\ Functions(Enable) = Flags
  /\ \A m : Functions(Allow(m)) = m
<1>1. /\ ~IsOk(Pending) /\ ~IsOk(Done) /\ ~IsOk(Err("Io")) /\ ~IsOk(Err("Other"))
      /\ \A s : IsOk(Ok(s)) /\ Ok(s).ok = s
  BY DEF IsOk, Pending, Done, Err, Ok
<1>2. Disable # Enable /\ \A m : Allow(m) # Enable /\ Allow(m) # Disable
  BY DEF Disable, Enable, Allow
<1>3. Functions(Disable) = {} /\ Functions(Enable) = Flags
  BY <1>2 DEF Functions, Disable
<1>4. \A m : Functions(Allow(m)) = m
  BY <1>2 DEF Functions, Allow
<1> QED
  BY <1>1, <1>2, <1>3, <1>4

\* SysRq::from_number: a setting it makes of a number allows what the kernel
\* allows for that number.
LEMMA NumberRead ==
  ASSUME NEW n
  PROVE  /\ FromNumber(n) \in Answers
         /\ IsOk(FromNumber(n)) => Functions(FromNumber(n).ok) = InForce(n)
<1>1. 1 \notin Flags
  BY DEF Flags
<1>2. CASE n = {}
  <2>1. FromNumber(n) = Ok(Disable) /\ InForce(n) = {}
    BY <1>2 DEF FromNumber, InForce
  <2> QED
    BY <2>1, AnswerFacts DEF Answers
<1>3. CASE n = {1}
  <2>1. FromNumber(n) = Ok(Enable) /\ InForce(n) = Flags
    BY <1>1, <1>3 DEF FromNumber, InForce
  <2> QED
    BY <2>1, AnswerFacts DEF Answers
<1>4. CASE n \subseteq Flags /\ n # {}
  <2>1. n # {1}
    BY <1>1, <1>4
  <2>2. FromNumber(n) = Ok(Allow(n)) /\ InForce(n) = n
    BY <1>4, <2>1 DEF FromNumber, InForce
  <2>3. n \in (SUBSET Flags) \ {{}}
    BY <1>4
  <2> QED
    BY <2>2, <2>3, AnswerFacts DEF Answers
<1>5. CASE n # {} /\ n # {1} /\ ~(n \subseteq Flags)
  <2>1. FromNumber(n) = Err("Other")
    BY <1>5 DEF FromNumber
  <2> QED
    BY <2>1, AnswerFacts DEF Answers
<1> QED
  BY <1>2, <1>3, <1>4, <1>5

\* to_number and from_number: the number of a setting is read as a setting that
\* allows the same functions; Disable for a mask without any.
THEOREM SettingRoundTrip ==
  ASSUME NEW s \in Settings
  PROVE  /\ IsOk(FromNumber(ToNumber(s)))
         /\ Functions(FromNumber(ToNumber(s)).ok) = Functions(s)
<1>1. 1 \notin Flags
  BY DEF Flags
<1>2. CASE s = Disable
  <2>1. ToNumber(s) = {} /\ FromNumber({}) = Ok(Disable)
    BY <1>2 DEF ToNumber, Disable, FromNumber
  <2> QED
    BY <1>2, <2>1, AnswerFacts
<1>3. CASE s = Enable
  <2>1. ToNumber(s) = {1} /\ FromNumber({1}) = Ok(Enable)
    BY <1>1, <1>3 DEF ToNumber, Enable, FromNumber
  <2> QED
    BY <1>3, <2>1, AnswerFacts
<1>4. ASSUME NEW m \in SUBSET Flags, s = Allow(m)
      PROVE  /\ IsOk(FromNumber(ToNumber(s)))
             /\ Functions(FromNumber(ToNumber(s)).ok) = Functions(s)
  <2>1. ToNumber(s) = m
    BY <1>4 DEF ToNumber, Allow
  <2>2. CASE m = {}
    <3>1. FromNumber(m) = Ok(Disable)
      BY <2>2 DEF FromNumber
    <3> QED
      BY <1>4, <2>1, <2>2, <3>1, AnswerFacts
  <2>3. CASE m # {}
    <3>1. FromNumber(m) = Ok(Allow(m))
      BY <1>1, <2>3 DEF FromNumber
    <3> QED
      BY <1>4, <2>1, <3>1, AnswerFacts
  <2> QED
    BY <2>2, <2>3
<1> QED
  BY <1>2, <1>3, <1>4, SettingsAssumption

\* What a text is parsed to is an answer; if the text is a number, of that number.
LEMMA ParseFacts ==
  ASSUME NEW x, NEW r \in Parse(x)
  PROVE  /\ r \in Answers
         /\ "number" \in DOMAIN x => r = FromNumber(x.number)
         /\ x = Empty => ~IsOk(r)
BY NumberRead, TextFacts, AnswerFacts DEF Parse, Answers

-----------------------------------------------------------------------------
(* The steps all calls are made of.                                        *)

\* A call ends with r.
LEMMA FinishFacts ==
  ASSUME CallsOK, NEW t \in Tasks, NEW r \in Answers, Finish(t, r)
  PROVE  /\ pc' \in [Tasks -> {"idle", "opening", "writing", "looking", "reading"}]
         /\ setting' \in [Tasks -> Settings \cup {Disable}]
         /\ got' \in [Tasks -> Texts \cup {Empty}]
         /\ answer' \in [Tasks -> Answers]
         /\ pc'[t] = "idle" /\ answer'[t] = r
         /\ \A u \in Tasks \ {t} : /\ pc'[u] = pc[u] /\ setting'[u] = setting[u]
                                   /\ got'[u] = got[u] /\ answer'[u] = answer[u]
BY DEF CallsOK, Finish

\* A call begins.
LEMMA StartFacts ==
  ASSUME CallsOK, NEW t \in Tasks, NEW step \in {"opening", "looking"}, Start(t, step)
  PROVE  /\ pc' \in [Tasks -> {"idle", "opening", "writing", "looking", "reading"}]
         /\ answer' \in [Tasks -> Answers]
         /\ pc[t] = "idle" /\ pc'[t] = step /\ ~IsOk(answer'[t])
         /\ \A u \in Tasks \ {t} : pc'[u] = pc[u] /\ answer'[u] = answer[u]
BY AnswerFacts DEF CallsOK, Start, Answers

\* The file changes, and all who are reading see it.
LEMMA BecomesFacts ==
  ASSUME CallsOK, ReadersOK, NEW x \in Texts, Becomes(x)
  PROVE  /\ content' = x /\ held' \in [Tasks -> SUBSET Texts]
         /\ \A u \in Tasks : /\ IsFiniteSet(held'[u])
                             /\ held[u] \subseteq held'[u]
                             /\ Reading(u) => x \in held'[u]
                             /\ ~Reading(u) => held'[u] = held[u]
<1>1. /\ content' = x
      /\ \A u \in Tasks : held'[u] = IF Reading(u) THEN held[u] \cup {x} ELSE held[u]
      /\ held' \in [Tasks -> SUBSET Texts]
  BY DEF Becomes, CallsOK
<1>2. \A u \in Tasks : IsFiniteSet(held[u]) /\ IsFiniteSet(held[u] \cup {x})
  BY FS_AddElement DEF ReadersOK
<1> QED
  BY <1>1, <1>2

\* What a read has answered stays in force as long as it is the last answer.
LEMMA AnswersKept ==
  ASSUME AnswersInForce, UNCHANGED kind,
         \A u \in Tasks :
           IsOk(answer'[u]) => answer'[u] = answer[u] /\ held'[u] = held[u]
  PROVE  AnswersInForce'
BY DEF AnswersInForce

\* The file holds the same text, or nothing is settled.
LEMMA SettledKept ==
  ASSUME SettledOK, settled' = {} \/ UNCHANGED <<content, settled>>
  PROVE  SettledOK'
BY DEF SettledOK

-----------------------------------------------------------------------------
(* The invariant, step by step.                                            *)

LEMMA SettingInitOK == Init => SettingInv
<1> SUFFICES ASSUME Init PROVE SettingInv
  OBVIOUS
<1> USE DEF Init
<1>1. content \in Written
  BY DEF Written
<1>2. CallsOK
  BY <1>1, AnswerFacts DEF CallsOK, Texts, Answers
<1>3. ReadersOK
  BY FS_EmptySet DEF ReadersOK, Reading
<1>4. WritersOK /\ SettledOK /\ AnswersInForce
  BY AnswerFacts DEF WritersOK, SettledOK, AnswersInForce
<1> QED
  BY <1>2, <1>3, <1>4 DEF SettingInv

LEMMA SetSysrqOK ==
  ASSUME SettingInv, NEW t \in Tasks, NEW s \in Settings, SetSysrq(t, s)
  PROVE  SettingInv'
<1> USE DEF SettingInv
<1>1. /\ Start(t, "opening") /\ setting' = [setting EXCEPT ![t] = s]
      /\ held' = [held EXCEPT ![t] = {}]
      /\ UNCHANGED <<kind, content, got, crossed, settled>>
  BY DEF SetSysrq
<1>2. /\ pc' \in [Tasks -> {"idle", "opening", "writing", "looking", "reading"}]
      /\ answer' \in [Tasks -> Answers]
      /\ pc[t] = "idle" /\ pc'[t] = "opening" /\ ~IsOk(answer'[t])
      /\ \A u \in Tasks \ {t} : pc'[u] = pc[u] /\ answer'[u] = answer[u]
  BY <1>1, StartFacts
<1>3. /\ setting' \in [Tasks -> Settings \cup {Disable}] /\ setting'[t] = s
      /\ held' \in [Tasks -> SUBSET Texts] /\ held'[t] = {}
      /\ \A u \in Tasks \ {t} : setting'[u] = setting[u] /\ held'[u] = held[u]
      /\ Texts' = Texts
  BY <1>1 DEF CallsOK, Texts
<1>4. CallsOK'
  BY <1>1, <1>2, <1>3 DEF CallsOK
<1>5. ReadersOK'
  BY <1>1, <1>2, <1>3, FS_EmptySet DEF ReadersOK, Reading
<1>6. WritersOK' /\ SettledOK'
  BY <1>1, <1>2, SettledKept DEF WritersOK
<1>7. AnswersInForce'
  BY <1>1, <1>2, <1>3, AnswersKept
<1> QED
  BY <1>4, <1>5, <1>6, <1>7

LEMMA OpenTruncateOK ==
  ASSUME SettingInv, NEW t \in Tasks, OpenTruncate(t)
  PROVE  SettingInv'
<1> USE DEF SettingInv
<1> DEFINE x == IF kind = "regular" THEN Empty ELSE content
           others == {u \in Tasks \ {t} : pc[u] = "writing"}
<1>1. /\ pc[t] = "opening" /\ pc' = [pc EXCEPT ![t] = "writing"]
      /\ Becomes(x)
      /\ crossed' = IF others = {} THEN crossed ELSE crossed \cup others \cup {t}
      /\ settled' = IF kind = "regular" THEN {} ELSE settled
      /\ UNCHANGED <<kind, setting, got, answer>>
  BY DEF OpenTruncate, Truncated, Crosses
<1>2. x \in Texts
  BY DEF CallsOK, Texts
<1>3. /\ content' = x /\ held' \in [Tasks -> SUBSET Texts]
      /\ \A u \in Tasks : /\ IsFiniteSet(held'[u])
                          /\ held[u] \subseteq held'[u]
                          /\ Reading(u) => x \in held'[u]
                          /\ ~Reading(u) => held'[u] = held[u]
  BY <1>1, <1>2, BecomesFacts
<1>4. /\ pc' \in [Tasks -> {"idle", "opening", "writing", "looking", "reading"}]
      /\ pc'[t] = "writing" /\ \A u \in Tasks \ {t} : pc'[u] = pc[u]
      /\ crossed' \subseteq {u \in Tasks : pc'[u] = "writing"}
      /\ Texts' = Texts
  BY <1>1 DEF CallsOK, Texts
<1>5. CallsOK'
  BY <1>1, <1>2, <1>3, <1>4 DEF CallsOK
<1>6. ReadersOK'
  BY <1>1, <1>3, <1>4 DEF ReadersOK, Reading
<1>7. WritersOK'
  BY <1>1, <1>3, <1>4 DEF WritersOK
<1>8. SettledOK'
  BY <1>1, <1>3, SettledKept DEF CallsOK
<1>9. AnswersInForce'
  BY <1>1, <1>3, AnswersKept DEF CallsOK, Reading
<1> QED
  BY <1>5, <1>6, <1>7, <1>8, <1>9

\* A writer's text lands in the file: on its own, or over another.
LEMMA LandsFacts ==
  ASSUME SettingInv, NEW t \in Tasks, pc[t] = "writing", Lands(t)
  PROVE  /\ content' \in Texts /\ Becomes(content')
         /\ kind = "sysctl" \/ t \notin crossed =>
              content' = Number(ToNumber(setting[t]))
<1> DEFINE n == Number(ToNumber(setting[t]))
           x == IF kind = "sysctl" \/ content \in {Empty, n} THEN n ELSE Torn
<1>1. Becomes(x)
  BY DEF Lands
<1>2. content' = x
  BY <1>1 DEF Becomes
<1>3. n \in Written /\ x \in Texts
  BY DEF SettingInv, CallsOK, Texts, Written
<1>4. kind = "sysctl" \/ t \notin crossed => x = n
  BY DEF SettingInv, CallsOK, WritersOK
<1> QED
  BY <1>1, <1>2, <1>3, <1>4

\* A set_sysrq ends: the file is as it was, or what the open or the write made
\* of it.
LEMMA SetEndsOK ==
  ASSUME SettingInv, NEW t \in Tasks, NEW r \in Answers, ~IsOk(r),
         pc[t] \in {"opening", "writing"}, Finish(t, r), UNCHANGED kind,
         crossed' = crossed \ {t}, SettledOK',
         \/ UNCHANGED <<content, held>>
         \/ /\ content' = (IF kind = "regular" THEN Empty ELSE content)
            /\ Becomes(content')
         \/ pc[t] = "writing" /\ content' \in Texts /\ Becomes(content')
  PROVE  SettingInv'
<1> USE DEF SettingInv
<1>1. /\ pc' \in [Tasks -> {"idle", "opening", "writing", "looking", "reading"}]
      /\ setting' \in [Tasks -> Settings \cup {Disable}]
      /\ got' \in [Tasks -> Texts \cup {Empty}]
      /\ answer' \in [Tasks -> Answers]
      /\ pc'[t] = "idle" /\ answer'[t] = r
      /\ \A u \in Tasks \ {t} : /\ pc'[u] = pc[u] /\ setting'[u] = setting[u]
                                /\ got'[u] = got[u] /\ answer'[u] = answer[u]
  BY FinishFacts
<1>2. /\ content' \in Texts /\ held' \in [Tasks -> SUBSET Texts]
      /\ \A u \in Tasks : /\ IsFiniteSet(held'[u])
                          /\ held[u] \subseteq held'[u]
                          /\ Reading(u) => content' \in held'[u]
                          /\ ~Reading(u) => held'[u] = held[u]
  <2>1. CASE UNCHANGED <<content, held>>
    BY <2>1 DEF CallsOK, ReadersOK
  <2>2. CASE Becomes(content') /\ ~UNCHANGED <<content, held>>
    <3>1. content' \in Texts
      BY <2>2 DEF CallsOK, Texts
    <3> QED
      BY <2>2, <3>1, BecomesFacts
  <2> QED
    BY <2>1, <2>2
<1>3. Texts' = Texts
  BY DEF Texts
<1>4. CallsOK'
  BY <1>1, <1>2, <1>3 DEF CallsOK
<1>5. ReadersOK'
  BY <1>1, <1>2 DEF ReadersOK, Reading
<1>6. WritersOK'
  <2> SUFFICES ASSUME NEW u \in Tasks, pc'[u] = "writing", u \notin crossed'
               PROVE  /\ \A w \in Tasks : w # u => pc'[w] # "writing"
                      /\ kind = "regular" => content' = Empty
    BY DEF WritersOK
  <2>1. u # t /\ pc[u] = "writing" /\ u \notin crossed
    BY <1>1
  <2>2. /\ \A w \in Tasks : w # u => pc[w] # "writing"
        /\ kind = "regular" => content = Empty
    BY <2>1 DEF WritersOK
  <2> QED
    BY <1>1, <2>1, <2>2
<1>7. AnswersInForce'
  BY <1>1, <1>2, AnswersKept DEF CallsOK, Reading
<1> QED
  BY <1>4, <1>5, <1>6, <1>7

LEMMA WriteNumberOK ==
  ASSUME SettingInv, NEW t \in Tasks, WriteNumber(t)
  PROVE  SettingInv'
<1>1. /\ pc[t] = "writing" /\ Lands(t) /\ Finish(t, Done) /\ UNCHANGED kind
      /\ settled' = IF kind = "sysctl" \/ t \notin crossed
                    THEN {Functions(setting[t])} ELSE {}
      /\ crossed' = crossed \ {t}
  BY DEF WriteNumber
<1>2. /\ content' \in Texts /\ Becomes(content')
      /\ kind = "sysctl" \/ t \notin crossed => content' = Number(ToNumber(setting[t]))
  BY <1>1, LandsFacts
<1>3. setting[t] \in Settings
  BY <1>1 DEF SettingInv, CallsOK
<1>4. SettledOK'
  BY <1>1, <1>2, <1>3 DEF SettledOK
<1> QED
  BY <1>1, <1>2, <1>4, AnswerFacts, SetEndsOK DEF Answers

LEMMA SetFailsOK ==
  ASSUME SettingInv, NEW t \in Tasks, SetFails(t)
  PROVE  SettingInv'
<1>1. SettledOK'
  BY SettledKept DEF SetFails, SettingInv
<1> QED
  BY <1>1, AnswerFacts, SetEndsOK DEF SetFails, Answers

LEMMA SetDroppedOK ==
  ASSUME SettingInv, NEW t \in Tasks, SetDropped(t)
  PROVE  SettingInv'
<1>1. /\ pc[t] \in {"opening", "writing"} /\ Finish(t, Pending) /\ UNCHANGED kind
      /\ crossed' = crossed \ {t}
      /\ \/ UNCHANGED <<content, held, settled>>
         \/ pc[t] = "opening" /\ Truncated
         \/ pc[t] = "writing" /\ Lands(t) /\ settled' = {}
  BY DEF SetDropped
<1>2. SettledOK'
  <2>1. CASE UNCHANGED <<content, settled>> \/ settled' = {}
    BY <1>1, <2>1, SettledKept DEF SettingInv
  <2>2. CASE Truncated
    BY <1>1, <2>2, SettledKept DEF SettingInv, Truncated, Becomes
  <2> QED
    BY <1>1, <2>1, <2>2
<1>3. \/ UNCHANGED <<content, held>>
      \/ /\ content' = (IF kind = "regular" THEN Empty ELSE content)
         /\ Becomes(content')
      \/ pc[t] = "writing" /\ content' \in Texts /\ Becomes(content')
  <2>1. CASE Truncated
    <3>1. content' = (IF kind = "regular" THEN Empty ELSE content)
      BY <2>1 DEF Truncated, Becomes
    <3> QED
      BY <2>1, <3>1 DEF Truncated
  <2>2. CASE pc[t] = "writing" /\ Lands(t)
    BY <2>2, LandsFacts
  <2> QED
    BY <1>1, <2>1, <2>2
<1> QED
  BY <1>1, <1>2, <1>3, AnswerFacts, SetEndsOK DEF Answers

LEMMA GetSysrqOK ==
  ASSUME SettingInv, NEW t \in Tasks, GetSysrq(t)
  PROVE  SettingInv'
<1> USE DEF SettingInv
<1>1. /\ Start(t, "looking") /\ held' = [held EXCEPT ![t] = {content}]
      /\ UNCHANGED <<kind, content, setting, got, crossed, settled>>
  BY DEF GetSysrq
<1>2. /\ pc' \in [Tasks -> {"idle", "opening", "writing", "looking", "reading"}]
      /\ answer' \in [Tasks -> Answers]
      /\ pc[t] = "idle" /\ pc'[t] = "looking" /\ ~IsOk(answer'[t])
      /\ \A u \in Tasks \ {t} : pc'[u] = pc[u] /\ answer'[u] = answer[u]
  BY <1>1, StartFacts
<1>3. /\ held' \in [Tasks -> SUBSET Texts] /\ held'[t] = {content}
      /\ \A u \in Tasks \ {t} : held'[u] = held[u]
      /\ Texts' = Texts
  BY <1>1 DEF CallsOK, Texts
<1>4. CallsOK'
  BY <1>1, <1>2, <1>3 DEF CallsOK
<1>5. ReadersOK'
  BY <1>1, <1>2, <1>3, FS_Singleton DEF ReadersOK, Reading
<1>6. WritersOK' /\ SettledOK'
  BY <1>1, <1>2, SettledKept DEF WritersOK
<1>7. AnswersInForce'
  BY <1>1, <1>2, <1>3, AnswersKept
<1> QED
  BY <1>4, <1>5, <1>6, <1>7

LEMMA ReadTextOK ==
  ASSUME SettingInv, NEW t \in Tasks, ReadText(t)
  PROVE  SettingInv'
<1> USE DEF SettingInv
<1>1. /\ pc[t] = "looking" /\ pc' = [pc EXCEPT ![t] = "reading"]
      /\ got' = [got EXCEPT ![t] = content]
      /\ UNCHANGED <<kind, content, setting, answer, held, crossed, settled>>
  BY DEF ReadText, ghostVars
<1>2. /\ pc' \in [Tasks -> {"idle", "opening", "writing", "looking", "reading"}]
      /\ got' \in [Tasks -> Texts \cup {Empty}]
      /\ pc'[t] = "reading" /\ got'[t] = content
      /\ \A u \in Tasks \ {t} : pc'[u] = pc[u] /\ got'[u] = got[u]
      /\ Texts' = Texts
  BY <1>1 DEF CallsOK, Texts
<1>3. CallsOK'
  BY <1>1, <1>2 DEF CallsOK
<1>4. ReadersOK'
  BY <1>1, <1>2 DEF ReadersOK, Reading
<1>5. WritersOK' /\ SettledOK' /\ AnswersInForce'
  BY <1>1, <1>2, SettledKept, AnswersKept DEF WritersOK
<1> QED
  BY <1>3, <1>4, <1>5

\* A sysrq ends, with an error or with what its text is parsed to.
LEMMA GetEndsOK ==
  ASSUME SettingInv, NEW t \in Tasks, NEW r \in Answers, Reading(t), Finish(t, r),
         UNCHANGED <<kind, content, held, crossed, settled>>,
         /\ IsOk(r)
         /\ kind = "sysctl" \/ (Cardinality(held[t]) = 1 /\ Torn \notin held[t])
         => \E x \in held[t] :
              "number" \in DOMAIN x /\ Functions(r.ok) = InForce(x.number)
  PROVE  SettingInv'
<1> USE DEF SettingInv
<1>1. /\ pc' \in [Tasks -> {"idle", "opening", "writing", "looking", "reading"}]
      /\ setting' \in [Tasks -> Settings \cup {Disable}]
      /\ got' \in [Tasks -> Texts \cup {Empty}]
      /\ answer' \in [Tasks -> Answers]
      /\ pc'[t] = "idle" /\ answer'[t] = r
      /\ \A u \in Tasks \ {t} : /\ pc'[u] = pc[u] /\ setting'[u] = setting[u]
                                /\ got'[u] = got[u] /\ answer'[u] = answer[u]
  BY FinishFacts
<1>2. pc[t] # "writing" /\ Texts' = Texts
  BY DEF Reading, Texts
<1>3. CallsOK'
  BY <1>1, <1>2 DEF CallsOK
<1>4. ReadersOK'
  BY <1>1 DEF ReadersOK, Reading
<1>5. WritersOK' /\ SettledOK'
  BY <1>1, <1>2, SettledKept DEF WritersOK
<1>6. AnswersInForce'
  BY <1>1 DEF AnswersInForce
<1> QED
  BY <1>3, <1>4, <1>5, <1>6

LEMMA ReadEndsOK ==
  ASSUME SettingInv, NEW t \in Tasks, ReadEnds(t)
  PROVE  SettingInv'
<1> DEFINE x == IF kind = "sysctl" \/ content = got[t] THEN got[t] ELSE Torn
<1>1. PICK r \in Parse(x) : Finish(t, r)
  BY DEF ReadEnds
<1>2. pc[t] = "reading" /\ UNCHANGED <<kind, content, held, crossed, settled>>
  BY DEF ReadEnds, ghostVars
<1>3. /\ r \in Answers
      /\ "number" \in DOMAIN x => r = FromNumber(x.number)
      /\ x = Empty => ~IsOk(r)
  BY ParseFacts
<1>4. content \in held[t] /\ got[t] \in held[t] /\ IsFiniteSet(held[t]) /\ held[t] \subseteq Texts
  BY <1>2 DEF SettingInv, CallsOK, ReadersOK, Reading
<1>5. ASSUME IsOk(r), kind = "sysctl" \/ (Cardinality(held[t]) = 1 /\ Torn \notin held[t])
      PROVE  x = got[t] /\ "number" \in DOMAIN x
  <2>1. CASE kind = "sysctl"
    BY <1>4, <2>1, TextFacts DEF Texts, Written
  <2>2. CASE Cardinality(held[t]) = 1 /\ Torn \notin held[t]
    <3>1. PICK y : held[t] = {y}
      BY <1>4, <2>2, FS_Singleton
    <3>2. x = got[t] /\ got[t] # Torn
      BY <1>4, <2>2, <3>1
    <3>3. got[t] \in Written
      BY <1>3, <1>4, <1>5, <3>2 DEF Texts
    <3> QED
      BY <3>2, <3>3, TextFacts DEF Written
  <2> QED
    BY <1>5, <2>1, <2>2
<1>6. /\ IsOk(r)
      /\ kind = "sysctl" \/ (Cardinality(held[t]) = 1 /\ Torn \notin held[t])
      => \E y \in held[t] :
           "number" \in DOMAIN y /\ Functions(r.ok) = InForce(y.number)
  BY <1>3, <1>4, <1>5, NumberRead
<1> QED
  BY <1>1, <1>2, <1>3, <1>6, GetEndsOK DEF Reading

LEMMA GetFailsOK ==
  ASSUME SettingInv, NEW t \in Tasks, GetFails(t)
  PROVE  SettingInv'
<1>1. PICK r \in {Err("Io"), Pending} : Finish(t, r)
  BY DEF GetFails
<1>2. Reading(t) /\ UNCHANGED <<kind, content, held, crossed, settled>>
  BY DEF GetFails, ghostVars
<1>3. r \in Answers /\ ~IsOk(r)
  BY AnswerFacts DEF Answers
<1> QED
  BY <1>1, <1>2, <1>3, GetEndsOK

LEMMA AssignOK ==
  ASSUME SettingInv, NEW n \in Numbers, Assign(n)
  PROVE  SettingInv'
<1> USE DEF SettingInv
<1>1. /\ kind = "sysctl" /\ Becomes(Number(n)) /\ settled' = {}
      /\ UNCHANGED <<kind, pc, setting, got, answer, crossed>>
  BY DEF Assign
<1>2. Number(n) \in Texts /\ Texts' = Texts
  BY <1>1 DEF Texts, Written
<1>3. /\ content' = Number(n) /\ held' \in [Tasks -> SUBSET Texts]
      /\ \A u \in Tasks : /\ IsFiniteSet(held'[u])
                          /\ held[u] \subseteq held'[u]
                          /\ Reading(u) => Number(n) \in held'[u]
                          /\ ~Reading(u) => held'[u] = held[u]
  BY <1>1, <1>2, BecomesFacts
<1>4. CallsOK'
  BY <1>1, <1>2, <1>3 DEF CallsOK
<1>5. ReadersOK'
  BY <1>1, <1>3 DEF ReadersOK, Reading
<1>6. WritersOK' /\ SettledOK'
  BY <1>1, SettledKept DEF WritersOK
<1>7. AnswersInForce'
  BY <1>1, <1>3, AnswersKept DEF CallsOK, Reading
<1> QED
  BY <1>4, <1>5, <1>6, <1>7

LEMMA SettingNextOK == SettingInv /\ [Next]_vars => SettingInv'
<1> SUFFICES ASSUME SettingInv, [Next]_vars PROVE SettingInv'
  OBVIOUS
<1>1. CASE UNCHANGED vars
  <2>1. Texts' = Texts
    BY <1>1 DEF vars, ghostVars, Texts
  <2> QED
    BY <1>1, <2>1
    DEF vars, ghostVars, SettingInv, CallsOK, ReadersOK, Reading, WritersOK, SettledOK,
        AnswersInForce
<1>2. ASSUME NEW t \in Tasks,
             \/ \E s \in Settings : SetSysrq(t, s)
             \/ OpenTruncate(t) \/ WriteNumber(t) \/ SetFails(t) \/ SetDropped(t)
             \/ GetSysrq(t) \/ ReadText(t) \/ ReadEnds(t) \/ GetFails(t)
      PROVE  SettingInv'
  BY <1>2, SetSysrqOK, OpenTruncateOK, WriteNumberOK, SetFailsOK, SetDroppedOK,
     GetSysrqOK, ReadTextOK, ReadEndsOK, GetFailsOK
<1>3. CASE \E n \in Numbers : Assign(n)
  BY <1>3, AssignOK
<1> QED
  BY <1>1, <1>2, <1>3 DEF Next

\* sysrq, set_sysrq and other programs keep the invariant.
THEOREM SettingInvariance == Spec => []SettingInv
BY SettingInitOK, SettingNextOK, PTL DEF Spec

-----------------------------------------------------------------------------
(* What follows from the invariant.                                        *)

\* The file and the calls of sysrq and set_sysrq are what the code makes them.
THEOREM SettingTypeCorrect == Spec => []SettingTypeOK
<1>1. SettingInv => SettingTypeOK
  <2> SUFFICES ASSUME SettingInv PROVE SettingTypeOK
    OBVIOUS
  <2>1. CallsOK
    BY DEF SettingInv
  <2>2. \/ content \in Written
        \/ kind = "regular" /\ content \in {Empty, Torn}
    BY <2>1 DEF CallsOK, Texts
  <2>3. \A t \in Tasks : answer[t] \in Answers
    BY <2>1 DEF CallsOK
  <2> QED
    BY <2>1, <2>2, <2>3 DEF CallsOK, Written, Answers, SettingTypeOK
<1> QED
  BY <1>1, SettingInvariance, PTL

\* What sysrq reports was in force at some moment of the call.
THEOREM AnswersInForceCorrect == Spec => []AnswersInForce
<1>1. SettingInv => AnswersInForce
  BY DEF SettingInv
<1> QED
  BY <1>1, SettingInvariance, PTL

\* What set_sysrq has set is what sysrq would return.
THEOREM LastSetIsReadCorrect == Spec => []LastSetIsRead
<1>1. SettingInv => LastSetIsRead
  <2> SUFFICES ASSUME SettingInv, NEW f \in settled, NEW r \in Parse(content)
               PROVE  IsOk(r) /\ Functions(r.ok) = f
    BY DEF LastSetIsRead
  <2>1. PICK s \in Settings : content = Number(ToNumber(s)) /\ f = Functions(s)
    BY DEF SettingInv, SettledOK
  <2>2. r = FromNumber(ToNumber(s))
    BY <2>1, ParseFacts, TextFacts
  <2> QED
    BY <2>1, <2>2, SettingRoundTrip
<1> QED
  BY <1>1, SettingInvariance, PTL

-----------------------------------------------------------------------------
(* Semaphore limits.                                                       *)

\* What SemaphoreLimits::from_str makes of n words depends on n and on the first
\* four alone.
LEMMA LimitsOfFour ==
  ASSUME NEW s, NEW n \in Nat, Len(s) = n
  PROVE  /\ IsOk(SemaphoreLimits(s)) <=> n >= 4 /\ \A k \in 1..4 : s[k] # NoNumber
         /\ IsOk(SemaphoreLimits(s)) => SemaphoreLimits(s) = Ok(LimitsOf(s, s[4]))
BY AnswerFacts DEF SemaphoreLimits, LimitsOf

\* A text of any words, numbers or not, is read right wherever it is cut: an
\* answer has the first four words, each in its own field, and the last of them
\* may lack its last digits only if the cut is inside that word.
THEOREM LimitsReadAnywhere ==
  ASSUME NEW words \in Seq(Int)
  PROVE  LimitsReadRight(words)
<1> SUFFICES ASSUME NEW n \in 0..Len(words)
             PROVE  LET cut == SubSeq(words, 1, n)
                        r == SemaphoreLimits(cut)
                    IN  /\ IsOk(r) <=> n >= 4 /\ \A k \in 1..4 : words[k] # NoNumber
                        /\ IsOk(r) => r = Ok(LimitsOf(words, words[4]))
                        /\ n < Len(words) =>
                             \A part \in Beginnings(words[n + 1]) :
                               LET inside == SemaphoreLimits(Append(cut, part))
                               IN  /\ n < 3 => ~IsOk(inside)
                                   /\ n = 3 /\ IsOk(inside) =>
                                        inside = Ok(LimitsOf(words, part))
                                   /\ n > 3 => inside = r
  BY DEF LimitsReadRight
<1> DEFINE cut == SubSeq(words, 1, n)
           r == SemaphoreLimits(cut)
<1>1. /\ cut \in Seq(Int) /\ n \in Nat /\ Len(cut) = n
      /\ \A k \in 1..n : cut[k] = words[k]
  OBVIOUS
<1> HIDE DEF cut
<1>2. /\ IsOk(r) <=> n >= 4 /\ \A k \in 1..4 : cut[k] # NoNumber
      /\ IsOk(r) => r = Ok(LimitsOf(cut, cut[4]))
  BY <1>1, LimitsOfFour
<1>3. n >= 4 => \A k \in 1..4 : cut[k] = words[k]
  BY <1>1
<1>4. n >= 4 => LimitsOf(cut, cut[4]) = LimitsOf(words, words[4])
  BY <1>3 DEF LimitsOf
<1>5. ASSUME n < Len(words), NEW part \in Beginnings(words[n + 1])
      PROVE  LET inside == SemaphoreLimits(Append(cut, part))
             IN  /\ n < 3 => ~IsOk(inside)
                 /\ n = 3 /\ IsOk(inside) => inside = Ok(LimitsOf(words, part))
                 /\ n > 3 => inside = r
  <2> DEFINE longer == Append(cut, part)
  <2>1. part \in Int
    <3>1. words[n + 1] \in Int
      BY <1>1, <1>5
    <3> QED
      BY <1>5, <3>1 DEF Beginnings, NoNumber
  <2>2. /\ Len(longer) = n + 1 /\ n + 1 \in Nat
        /\ longer[n + 1] = part /\ \A k \in 1..n : longer[k] = words[k]
    BY <1>1, <2>1
  <2> HIDE DEF longer
  <2>3. /\ IsOk(SemaphoreLimits(longer)) <=>
             n + 1 >= 4 /\ \A k \in 1..4 : longer[k] # NoNumber
        /\ IsOk(SemaphoreLimits(longer)) =>
             SemaphoreLimits(longer) = Ok(LimitsOf(longer, longer[4]))
    BY <2>2, LimitsOfFour
  <2>4. n < 3 => ~IsOk(SemaphoreLimits(longer))
    BY <1>1, <2>3
  <2>5. n = 3 => LimitsOf(longer, longer[4]) = LimitsOf(words, part)
    BY <2>2 DEF LimitsOf
  <2>6. n > 3 => SemaphoreLimits(longer) = r
    <3> SUFFICES ASSUME n > 3 PROVE SemaphoreLimits(longer) = r
      OBVIOUS
    <3>0. \A k \in 1..4 : k \in 1..n
      BY <1>1
    <3>1. \A k \in 1..4 : longer[k] = cut[k]
      BY <1>1, <2>2, <3>0, Zenon
    <3>2. 1 \in 1..4 /\ 2 \in 1..4 /\ 3 \in 1..4 /\ 4 \in 1..4
      OBVIOUS
    <3>3. Len(longer) >= 4 /\ Len(cut) >= 4
      BY <1>1, <2>2
    <3> QED
      BY <3>1, <3>2, <3>3 DEF SemaphoreLimits
  <2> QED
    BY <2>3, <2>4, <2>5, <2>6 DEF longer
<1> QED
  BY <1>2, <1>3, <1>4, <1>5 DEF cut

\* Limits that have been read come back each in its own field; of a text that
\* was cut all that may be wrong is that semmni lacks its last digits.
THEOREM SemaphoreLimitsCorrect == Spec => []SemaphoreLimitsWhole
<1>1. ASSUME NEW words \in [1..5 -> {NoNumber, 0, 250, 32000}]
      PROVE  LimitsReadRight(words)
  <2>1. PICK m \in Nat : m = 5
    OBVIOUS
  <2>2. words \in [1..m -> Int]
    BY <2>1 DEF NoNumber
  <2>3. words \in Seq(Int)
    BY <2>2
  <2> QED
    BY <2>3, LimitsReadAnywhere
<1>2. LimitsMisread = {}
  <2> SUFFICES ASSUME NEW words \in LimitsMisread PROVE FALSE
    BY Zenon
  <2>1. words \in [1..5 -> {NoNumber, 0, 250, 32000}] /\ ~LimitsReadRight(words)
    BY DEF LimitsMisread
  <2> QED
    BY <1>1, <2>1
<1>3. SemaphoreLimitsWhole
  BY <1>2 DEF SemaphoreLimitsWhole
<1> QED
  BY <1>3, PTL

-----------------------------------------------------------------------------
(***************************************************************************)
(* The build string: what the loop over its words makes of any of them,    *)
(* and of those of the instance.                                           *)
(***************************************************************************)
Padded(e) == IF Len(e) = 1 THEN e \o <<"">> ELSE e

\* What the loop has made of all the words, if g has what it made of the first n.
LEMMA BuildLoop ==
  ASSUME NEW words, Len(words) \in Nat, NEW g, g[0] = NoWords,
         \A n \in 1..Len(words) : g[n] = TakeWord(g[n - 1], words[n])
  PROVE  BuildInfo(TRUE, words) =
           Ok([flags |-> g[Len(words)].flags, extra |-> Padded(g[Len(words)].extra)])
<1> DEFINE N == Len(words)
    f == CHOOSE f :
      f = [n \in 0..Len(words) |-> IF n = 0 THEN NoWords ELSE TakeWord(f[n - 1], words[n])]
<1>1. BuildInfo(TRUE, words) = Ok([flags |-> f[N].flags, extra |-> Padded(f[N].extra)])
  BY Zenon DEF BuildInfo, Padded
<1>2. \E h : h = [n \in 0..N |-> IF n = 0 THEN NoWords ELSE TakeWord(h[n - 1], words[n])]
  <2> DEFINE h == [n \in 0..N |-> g[n]]
  <2>1. h = [n \in 0..N |-> IF n = 0 THEN NoWords ELSE TakeWord(h[n - 1], words[n])]
    OBVIOUS
  <2> QED
    BY <2>1
<1>3. f = [n \in 0..N |-> IF n = 0 THEN NoWords ELSE TakeWord(f[n - 1], words[n])]
  BY <1>2, Zenon
<1> HIDE DEF f
<1>4. f[0] = g[0] /\ \A n \in 1..N : f[n - 1] = g[n - 1] => f[n] = g[n]
  BY <1>3
<1>5. f[N] = g[N]
  BY <1>4, SameLoop, Zenon
<1> QED
  BY <1>1, <1>5, Zenon

\* Of any words, the first that are all upper case are the flags; the first
\* that is not, and all after it, are `extra`.
THEOREM FlagsThenExtra ==
  ASSUME NEW W, NEW u \in Seq(W), NEW v \in Seq(W),
         \A k \in 1..Len(u) : u[k] \in Uppercase,
         v = <<>> \/ v[1] \notin Uppercase
  PROVE  BuildInfo(TRUE, u \o v) =
           Ok([flags |-> {u[k] : k \in 1..Len(u)}, extra |-> Padded(v)])
<1> DEFINE words == u \o v
    N == Len(words)
    F(n) == {u[k] : k \in {j \in 1..Len(u) : j <= n}}
    E(n) == SubSeq(v, 1, IF n <= Len(u) THEN 0 ELSE n - Len(u))
    D(n) == n > Len(u)
    g == [n \in 0..N |-> [flags |-> F(n), extra |-> E(n), ended |-> D(n)]]
<1>1. /\ Len(u) \in Nat /\ Len(v) \in Nat /\ N = Len(u) + Len(v) /\ N \in Nat
      /\ \A n \in 1..N : words[n] = IF n <= Len(u) THEN u[n] ELSE v[n - Len(u)]
  OBVIOUS
<1>2. F(0) = {} /\ E(0) = <<>> /\ D(0) = FALSE
  BY <1>1, PrefixFacts
<1>3. ASSUME NEW n \in 1..N, n <= Len(u)
      PROVE  /\ words[n] \in Uppercase /\ D(n - 1) = FALSE /\ D(n) = FALSE
             /\ F(n) = F(n - 1) \cup {words[n]} /\ E(n) = E(n - 1)
  <2>1. n \in Nat /\ n \in 1..Len(u) /\ n - 1 <= Len(u) /\ words[n] = u[n]
    BY <1>1, <1>3
  <2> HIDE DEF words
  <2>2. words[n] \in Uppercase
    BY <2>1
  <2>3. D(n - 1) = FALSE /\ D(n) = FALSE
    BY <1>1, <2>1
  <2>4. E(n) = E(n - 1)
    BY <2>1, Zenon, <1>3
  <2>5. F(n) = F(n - 1) \cup {words[n]}
    <3>1. {j \in 1..Len(u) : j <= n} = {j \in 1..Len(u) : j <= n - 1} \cup {n}
      BY <1>1, <2>1
    <3> QED
      BY <2>1, <3>1, Zenon
  <2> HIDE DEF D, E, F
  <2> QED
    BY <2>2, <2>3, <2>4, <2>5
<1>4. ASSUME NEW n \in 1..N, n > Len(u)
      PROVE  /\ D(n - 1) \/ words[n] \notin Uppercase
             /\ F(n) = F(n - 1) /\ E(n) = Append(E(n - 1), words[n]) /\ D(n) = TRUE
  <2> DEFINE m == n - Len(u)
  <2>1. /\ F(n) = F(n - 1) /\ D(n) = TRUE
        /\ m \in 1..Len(v) /\ words[n] = v[m] /\ (D(n - 1) \/ m = 1)
    BY <1>1, <1>4
  <2>2. E(n) = SubSeq(v, 1, m) /\ E(n - 1) = SubSeq(v, 1, m - 1)
    BY <1>1, <1>4, <2>1
  <2>3. v # <<>>
    BY <2>1
  <2>4. \A k \in 1..Len(v) : SubSeq(v, 1, k) = Append(SubSeq(v, 1, k - 1), v[k])
    BY PrefixFacts, Zenon
  <2> HIDE DEF m, words, F, E, D
  <2>5. SubSeq(v, 1, m) = Append(SubSeq(v, 1, m - 1), v[m])
    BY <2>1, <2>4, Zenon
  <2> QED
    BY <2>1, <2>2, <2>3, <2>5
<1>5. F(N) = {u[k] : k \in 1..Len(u)} /\ E(N) = v
  BY <1>1, PrefixFacts
<1>6. 0 \in 0..N /\ N \in 0..N /\ \A n \in 1..N : n \in 0..N /\ n - 1 \in 0..N
  BY <1>1
<1> HIDE DEF F, E, D, words
<1>7. g[0] = NoWords
  BY <1>2, <1>6 DEF NoWords
<1>8. ASSUME NEW n \in 1..N PROVE g[n] = TakeWord(g[n - 1], words[n])
  <2>1. CASE n <= Len(u)
    BY <2>1, <1>3, <1>6 DEF TakeWord
  <2>2. CASE n > Len(u)
    BY <2>2, <1>4, <1>6 DEF TakeWord
  <2> QED
    BY <2>1, <2>2, <1>1
<1>9. g[N].flags = {u[k] : k \in 1..Len(u)} /\ g[N].extra = v
  BY <1>5, <1>6
<1> HIDE DEF g
<1>10. Len(words) \in Nat
  BY <1>1
<1>11. BuildInfo(TRUE, words) = Ok([flags |-> g[N].flags, extra |-> Padded(g[N].extra)])
  BY <1>7, <1>8, <1>10, BuildLoop
<1> QED
  BY <1>9, <1>11, Zenon DEF words

\* More than one word is left as it is.
LEMMA LongNotPadded ==
  ASSUME NEW W, NEW e \in Seq(W), Len(e) > 1
  PROVE  Padded(e) = e
<1>1. ASSUME Len(e) = 1 PROVE FALSE
  BY <1>1
<1> QED
  BY <1>1, Zenon DEF Padded

\* What is read of the words of a kernel: `a` are upper case, `p` are or begin
\* with one that is not, `d` begin with one that is not and are more than one.
LEMMA ThreeParts ==
  ASSUME NEW W, NEW a \in Seq(W), NEW p \in Seq(W), NEW d \in Seq(W),
         ToSet(a) \subseteq Uppercase,
         ToSet(p) \subseteq Uppercase \/ (p # <<>> /\ p[1] \notin Uppercase),
         Len(d) > 1, d[1] \notin Uppercase
  PROVE  LET whole == ToSet(p) \subseteq Uppercase
         IN  BuildInfo(TRUE, a \o p \o d) =
               Ok([flags |-> IF whole THEN ToSet(a) \cup ToSet(p) ELSE ToSet(a),
                   extra |-> IF whole THEN d ELSE p \o d])
<1>1. \A e \in Seq(W) : Len(e) > 1 => Padded(e) = e
  BY LongNotPadded
<1>2. /\ Len(a) \in Nat /\ Len(p) \in Nat /\ Len(d) \in Nat
      /\ ToSet(a) = {a[k] : k \in 1..Len(a)} /\ ToSet(p) = {p[k] : k \in 1..Len(p)}
  BY DEF ToSet
<1>3. CASE ToSet(p) \subseteq Uppercase
  <2> DEFINE u == a \o p
  <2>1. /\ u \in Seq(W) /\ Len(u) = Len(a) + Len(p)
        /\ \A k \in 1..Len(a) : u[k] = a[k]
        /\ \A k \in 1..Len(p) : u[Len(a) + k] = p[k]
        /\ \A k \in 1..Len(u) : k \in 1..Len(a) \/ k - Len(a) \in 1..Len(p)
        /\ \A k \in 1..Len(u) : u[k] = IF k <= Len(a) THEN a[k] ELSE p[k - Len(a)]
    OBVIOUS
  <2> HIDE DEF u
  <2>2. \A k \in 1..Len(u) : u[k] \in Uppercase
    BY <2>1, <1>2, <1>3
  <2>3. {u[k] : k \in 1..Len(u)} = ToSet(a) \cup ToSet(p)
    <3>1. ASSUME NEW x \in ToSet(a) PROVE x \in {u[k] : k \in 1..Len(u)}
      BY <2>1, <1>2
    <3>2. ASSUME NEW x \in ToSet(p) PROVE x \in {u[k] : k \in 1..Len(u)}
      <4>1. PICK k \in 1..Len(p) : x = p[k]
        BY <1>2
      <4>2. Len(a) + k \in 1..Len(u)
        BY <2>1, <1>2
      <4>3. u[Len(a) + k] = x
        BY <2>1, <4>1, Zenon
      <4> QED
        BY <4>2, <4>3, Zenon
    <3>3. ASSUME NEW k \in 1..Len(u) PROVE u[k] \in ToSet(a) \cup ToSet(p)
      <4>1. CASE k \in 1..Len(a)
        BY <2>1, <1>2, <4>1
      <4>2. CASE k - Len(a) \in 1..Len(p)
        <5>1. ~(k <= Len(a))
          BY <1>2, <4>2
        <5>2. u[k] = p[k - Len(a)]
          BY <2>1, <5>1, Zenon
        <5> QED
          BY <1>2, <4>2, <5>2
      <4> QED
        BY <2>1, <4>1, <4>2
    <3> QED
      BY <3>1, <3>2, <3>3
  <2>4. BuildInfo(TRUE, u \o d) = Ok([flags |-> {u[k] : k \in 1..Len(u)}, extra |-> Padded(d)])
    <3>1. u \in Seq(W)
      BY <2>1
    <3> QED
      BY <3>1, <2>2, FlagsThenExtra, Zenon
  <2>5. Padded(d) = d
    BY <1>1, <1>2
  <2>6. BuildInfo(TRUE, u \o d) = Ok([flags |-> ToSet(a) \cup ToSet(p), extra |-> d])
    BY <2>3, <2>4, <2>5, Zenon
  <2> QED
    BY <2>6, <1>3, Zenon DEF u
<1>4. CASE p # <<>> /\ p[1] \notin Uppercase
  <2> DEFINE v == p \o d
  <2>1. /\ v \in Seq(W) /\ Len(v) > 1 /\ Len(v) \in Nat /\ v[1] = p[1]
        /\ ~(ToSet(p) \subseteq Uppercase)
    BY <1>4, <1>2
  <2>2. a \o p \o d = a \o v
    OBVIOUS
  <2> HIDE DEF v
  <2>3. \A k \in 1..Len(a) : a[k] \in Uppercase
    BY <1>2
  <2>4. BuildInfo(TRUE, a \o v) = Ok([flags |-> {a[k] : k \in 1..Len(a)}, extra |-> Padded(v)])
    BY <2>1, <2>3, <1>4, FlagsThenExtra
  <2>5. Padded(v) = v
    BY <2>1, <1>1
  <2>6. BuildInfo(TRUE, a \o v) = Ok([flags |-> ToSet(a), extra |-> v])
    BY <2>4, <2>5, <1>2, Zenon
  <2> QED
    BY <2>6, <2>1, <2>2, Zenon DEF v
<1> QED
  BY <1>3, <1>4

\* Short sequences, and the words in them.
LEMMA ShortSequences ==
  ASSUME NEW W
  PROVE  /\ <<>> \in Seq(W) /\ ToSet(<<>>) = {}
         /\ \A x \in W : /\ <<x>> \in Seq(W) /\ <<x>> # <<>> /\ <<x>>[1] = x
                         /\ ToSet(<<x>>) = {x}
         /\ \A x, y \in W : <<x, y>> \in Seq(W) /\ ToSet(<<x, y>>) = {x, y}
<1>1. ASSUME NEW x \in W, NEW y \in W
      PROVE  <<x, y>> \in Seq(W) /\ ToSet(<<x, y>>) = {x, y}
  <2>1. DOMAIN <<x, y>> = {1, 2} /\ <<x, y>>[1] = x /\ <<x, y>>[2] = y
    OBVIOUS
  <2> QED
    BY <2>1 DEF ToSet
<1>2. ASSUME NEW x \in W
      PROVE  /\ <<x>> \in Seq(W) /\ <<x>> # <<>> /\ <<x>>[1] = x
             /\ ToSet(<<x>>) = {x}
  <2>1. DOMAIN <<x>> = {1} /\ <<x>>[1] = x
    OBVIOUS
  <2> QED
    BY <2>1 DEF ToSet
<1>3. DOMAIN <<>> = {}
  OBVIOUS
<1>4. ToSet(<<>>) = {}
  BY <1>3 DEF ToSet
<1> QED
  BY <1>1, <1>2, <1>4

\* Sequences of three words and of seven, and their first.
LEMMA LongSequences ==
  ASSUME NEW W, NEW x \in W, NEW y \in W, NEW z \in W
  PROVE  /\ <<x, y, z>> \in Seq(W) /\ Len(<<x, y, z>>) = 3 /\ <<x, y, z>>[1] = x
         /\ \A a, b, c, d \in W :
              LET s == <<x, y, z, a, b, c, d>>
              IN  s \in Seq(W) /\ Len(s) = 7 /\ s[1] = x
<1>1. <<x, y, z>> \in Seq(W) /\ Len(<<x, y, z>>) = 3 /\ <<x, y, z>>[1] = x
  OBVIOUS
<1>2. ASSUME NEW a \in W, NEW b \in W, NEW c \in W, NEW d \in W
      PROVE  LET s == <<x, y, z, a, b, c, d>>
             IN  s \in Seq(W) /\ Len(s) = 7 /\ s[1] = x
  <2> DEFINE s == <<x, y, z, a, b, c, d>>
  <2>1. PICK n \in Nat : n = 7
    OBVIOUS
  <2>2. /\ DOMAIN s = 1..n /\ s = [i \in 1..n |-> s[i]]
        /\ s[1] = x /\ s[2] = y /\ s[3] = z /\ s[4] = a /\ s[5] = b /\ s[6] = c
        /\ s[7] = d
    BY <2>1
  <2> HIDE DEF s
  <2>3. \A i \in 1..n :
          i = 1 \/ i = 2 \/ i = 3 \/ i = 4 \/ i = 5 \/ i = 6 \/ i = 7
    BY <2>1
  <2>4. \A i \in 1..n : s[i] \in W
    BY <2>2, <2>3, Zenon
  <2>5. s \in Seq(W) /\ Len(s) = n
    BY <2>2, <2>4
  <2> QED
    BY <2>1, <2>2, <2>5 DEF s
<1> QED
  BY <1>1, <1>2

\* The words of which the build strings are made.
PreemptionWords == {"PREEMPT", "PREEMPT_DYNAMIC", "PREEMPT_RT", "RT"}
DateWords ==
  {"Thu", "Nov", "", "9", "10:21:33", "UTC", "2023", "Debian", "6.1.55-1", "(2023-09-29)"}
BuildWords == {"SMP"} \cup PreemptionWords \cup DateWords

\* The words of a preemption are written like flags, or the first is not.
LEMMA PreemptionFacts ==
  ASSUME NEW p \in Preemptions
  PROVE  /\ p \in Seq(BuildWords)
         /\ \/ ToSet(p) \in {{}, {"PREEMPT"}, {"PREEMPT", "RT"}}
            \/ /\ ToSet(p) \in {{"PREEMPT_DYNAMIC"}, {"PREEMPT_RT"}}
               /\ p # <<>> /\ p[1] \notin Uppercase
<1> DEFINE W == BuildWords
<1>1. /\ "PREEMPT" \in W /\ "PREEMPT_DYNAMIC" \in W /\ "PREEMPT_RT" \in W /\ "RT" \in W
      /\ "PREEMPT_DYNAMIC" \notin Uppercase /\ "PREEMPT_RT" \notin Uppercase
  BY DEF BuildWords, PreemptionWords, Uppercase
<1>2. \/ p = <<>> \/ p = <<"PREEMPT">> \/ p = <<"PREEMPT_DYNAMIC">>
      \/ p = <<"PREEMPT_RT">> \/ p = <<"PREEMPT", "RT">>
  BY DEF Preemptions
<1> HIDE DEF W
<1>3. /\ <<>> \in Seq(W) /\ ToSet(<<>>) = {}
      /\ \A x \in W : /\ <<x>> \in Seq(W) /\ <<x>> # <<>> /\ <<x>>[1] = x
                      /\ ToSet(<<x>>) = {x}
      /\ \A x, y \in W : <<x, y>> \in Seq(W) /\ ToSet(<<x, y>>) = {x, y}
  BY ShortSequences
<1>4. CASE p = <<>>
  BY <1>3, <1>4 DEF W
<1>5. CASE p = <<"PREEMPT">>
  BY <1>1, <1>3, <1>5 DEF W
<1>6. CASE p = <<"PREEMPT_DYNAMIC">>
  BY <1>1, <1>3, <1>6 DEF W
<1>7. CASE p = <<"PREEMPT_RT">>
  BY <1>1, <1>3, <1>7 DEF W
<1>8. CASE p = <<"PREEMPT", "RT">>
  BY <1>1, <1>3, <1>8 DEF W
<1> QED
  BY <1>2, <1>4, <1>5, <1>6, <1>7, <1>8

\* A date is more than one word, and the first is not written like a flag.
LEMMA DateFacts ==
  ASSUME NEW d \in Dates
  PROVE  d \in Seq(BuildWords) /\ Len(d) > 1 /\ d[1] \notin Uppercase
<1>1. /\ \A w \in DateWords : w \in BuildWords
      /\ "Thu" \notin Uppercase /\ "Debian" \notin Uppercase
  BY DEF BuildWords, DateWords, Uppercase
<1>2. CASE d = <<"Thu", "Nov", "", "9", "10:21:33", "UTC", "2023">>
  <2>1. /\ "Thu" \in DateWords /\ "Nov" \in DateWords /\ "" \in DateWords
        /\ "9" \in DateWords /\ "10:21:33" \in DateWords /\ "UTC" \in DateWords
        /\ "2023" \in DateWords
    BY DEF DateWords
  <2>2. d \in Seq(BuildWords) /\ Len(d) = 7 /\ d[1] = "Thu"
    BY <1>1, <1>2, <2>1, LongSequences
  <2> QED
    BY <1>1, <2>2
<1>3. CASE d = <<"Debian", "6.1.55-1", "(2023-09-29)">>
  <2>1. "Debian" \in DateWords /\ "6.1.55-1" \in DateWords /\ "(2023-09-29)" \in DateWords
    BY DEF DateWords
  <2>2. d \in Seq(BuildWords) /\ Len(d) = 3 /\ d[1] = "Debian"
    BY <1>1, <1>3, <2>1, LongSequences
  <2> QED
    BY <1>1, <2>2
<1> QED
  BY <1>2, <1>3 DEF Dates

\* No build string of the instance's kernels is misread.
LEMMA NoBuildMisread == BuildsMisread = {}
<1> DEFINE Read(smp, p, d) ==
      LET b == KernelBuild(smp, p, d)
      IN  /\ Smp(b) = smp
          /\ Preempt(b) = ("PREEMPT" \in ToSet(p))
          /\ b.flags \subseteq {"SMP"} \cup ToSet(p)
          /\ \E rest \in {<<>>, p} :
               b.extra = rest \o d /\ ToSet(p) \subseteq b.flags \cup ToSet(rest)
<1>1. ASSUME NEW smp \in BOOLEAN, NEW p \in Preemptions, NEW d \in Dates
      PROVE  Read(smp, p, d)
  <2> DEFINE a == IF smp THEN <<"SMP">> ELSE <<>>
      b == KernelBuild(smp, p, d)
      whole == ToSet(p) \subseteq Uppercase
  <2>1. a \in Seq(BuildWords) /\ ToSet(a) = (IF smp THEN {"SMP"} ELSE {})
    <3>1. "SMP" \in BuildWords
      BY DEF BuildWords
    <3>2. \/ smp /\ a = <<"SMP">>
          \/ ~smp /\ a = <<>>
      OBVIOUS
    <3> QED
      BY <3>1, <3>2, ShortSequences
  <2>2. whole \/ (p # <<>> /\ p[1] \notin Uppercase)
    BY PreemptionFacts DEF Uppercase
  <2>5. ToSet(a) \subseteq Uppercase
    BY <2>1 DEF Uppercase
  <2>6. b = BuildInfo(TRUE, a \o p \o d).ok
    BY Zenon DEF KernelBuild
  <2> HIDE DEF a, b
  <2>7. /\ b.flags = IF whole THEN ToSet(a) \cup ToSet(p) ELSE ToSet(a)
        /\ b.extra = IF whole THEN d ELSE p \o d
    <3>1. p \in Seq(BuildWords) /\ d \in Seq(BuildWords) /\ Len(d) > 1 /\ d[1] \notin Uppercase
      BY PreemptionFacts, DateFacts
    <3> DEFINE c == [flags |-> IF whole THEN ToSet(a) \cup ToSet(p) ELSE ToSet(a),
                     extra |-> IF whole THEN d ELSE p \o d]
    <3>2. ToSet(a) \subseteq Uppercase /\ Len(d) > 1
      BY <2>5, <3>1
    <3>3. BuildInfo(TRUE, a \o p \o d) = Ok(c)
      <4> DEFINE W == BuildWords
      <4>1. a \in Seq(W) /\ p \in Seq(W) /\ d \in Seq(W) /\ Len(d) > 1 /\ d[1] \notin Uppercase
        BY <2>1, <3>1
      <4> HIDE DEF W
      <4> QED
        BY <2>2, <2>5, <4>1, ThreeParts
    <3>4. Ok(c).ok = c
      BY DEF Ok
    <3>5. b = c
      BY <2>6, <3>3, <3>4, Zenon
    <3> QED
      BY <3>5
  <2>8. "PREEMPT" \in ToSet(p) => whole
    BY PreemptionFacts DEF Uppercase
  <2>9. b.flags \subseteq {"SMP"} \cup ToSet(p)
    BY <2>1, <2>7
  <2>10. ("SMP" \in b.flags) = smp
    BY <2>1, <2>7, PreemptionFacts
  <2>11. ("PREEMPT" \in b.flags) = ("PREEMPT" \in ToSet(p))
    BY <2>1, <2>7, <2>8
  <2>12. \E rest \in {<<>>, p} :
           b.extra = rest \o d /\ ToSet(p) \subseteq b.flags \cup ToSet(rest)
    <3>1. CASE whole
      <4>1. <<>> \o d = d
        <5>1. d \in Seq(BuildWords)
          BY DateFacts
        <5> QED
          BY <5>1
      <4>2. b.extra = <<>> \o d /\ ToSet(p) \subseteq b.flags \cup ToSet(<<>>)
        BY <2>7, <3>1, <4>1, Zenon
      <4> QED
        BY <4>2, Zenon
    <3>2. CASE ~whole
      <4>1. b.extra = p \o d /\ ToSet(p) \subseteq b.flags \cup ToSet(p)
        BY <2>7, <3>2, Zenon
      <4> QED
        BY <4>1, Zenon
    <3> QED
      BY <3>1, <3>2
  <2> QED
    BY <2>9, <2>10, <2>11, <2>12, Zenon DEF Smp, Preempt, b
<1>2. \A k \in BOOLEAN \X Preemptions \X Dates : Read(k[1], k[2], k[3])
  <2> HIDE DEF Read
  <2> QED
    BY <1>1
<1> QED
  BY <1>2, Zenon DEF BuildsMisread

\* Whatever the tasks do: of a build string that has been read smp() and
\* preempt() are right, no word of the date is a flag, and no word is lost.
THEOREM BuildStringReadCorrect == Spec => []BuildStringRead
<1>1. BuildStringRead
  BY NoBuildMisread DEF BuildStringRead
<1> QED
  BY <1>1, PTL
=============================================================================

--------------------------- MODULE KernelParsers ---------------------------
(***************************************************************************)
(* The parsers of src/sys/kernel/mod.rs that cut a text into words:        *)
(* BuildInfo::from_str for sys/kernel/version, with smp and preempt, and   *)
(* SemaphoreLimits::from_str for sys/kernel/sem.                           *)
(*                                                                         *)
(* Both texts are read by read_value, as sysrq is: by the reads of         *)
(* SysRqSetting.                                                           *)
(*                                                                         *)
(* A text is the sequence of its words.  The empty word is what stands     *)
(* between two blanks.  Of a word of the build string it matters only      *)
(* whether all its characters are upper case letters.                      *)
(***************************************************************************)
EXTENDS Integers, SysRqSetting, Sequences, SequencesExt

\* char::is_uppercase holds of every character, as it does of no character.
\* It holds neither of `_` nor of a digit.
Uppercase == {"SMP", "PREEMPT", "PREEMPTRT", "RT", "UTC", ""}

\* What the loop of from_str has made of the words so far.
NoWords == [flags |-> {}, extra |-> <<>>, ended |-> FALSE]

\* Mutant: the loop goes on at the first word that is not a flag.
TakeWordAnywhere(b, w) ==
  IF w \in Uppercase
  THEN [b EXCEPT !.flags = @ \cup {w}]
  ELSE [b EXCEPT !.extra = Append(@, w)]

\* A flag, or the first word that is none: it and all after it are `extra`.
TakeWord(b, w) ==
  IF ~b.ended /\ w \in Uppercase
  THEN [b EXCEPT !.flags = @ \cup {w}]
  ELSE [b EXCEPT !.extra = Append(@, w), !.ended = TRUE]

\* BuildInfo::from_str, of a text whose first word is "#<version>" if `hash`.
\* A blank follows the word that ended the loop, also if none comes after it.
BuildInfo(hash, words) ==
  LET loop[n \in 0..Len(words)] ==
        IF n = 0 THEN NoWords ELSE TakeWord(loop[n - 1], words[n])
      b == loop[Len(words)]
      extra == IF Len(b.extra) = 1 THEN b.extra \o <<"">> ELSE b.extra
  IN  IF hash THEN Ok([flags |-> b.flags, extra |-> extra]) ELSE Err("Other")

Smp(b) == "SMP" \in b.flags
Preempt(b) == "PREEMPT" \in b.flags

-----------------------------------------------------------------------------
\* SemaphoreLimits::from_str: a word is a number that fits into a u64, or is
\* NoNumber.  Words after the fourth are ignored.
NoNumber == -1

\* Mutant: the last two words are taken in the order of the man page's text.
SemaphoreLimitsSwapped(words) ==
  IF Len(words) >= 4 /\ \A k \in 1..4 : words[k] # NoNumber
  THEN Ok([semmsl |-> words[1], semmns |-> words[2], semopm |-> words[4], semmni |-> words[3]])
  ELSE Err("Other")

SemaphoreLimits(words) ==
  IF Len(words) >= 4 /\ \A k \in 1..4 : words[k] # NoNumber
  THEN Ok([semmsl |-> words[1], semmns |-> words[2], semopm |-> words[3], semmni |-> words[4]])
  ELSE Err("Other")

-----------------------------------------------------------------------------
(***************************************************************************)
(* Properties.  External: what a kernel writes.                            *)
(***************************************************************************)
\* read_value has read t's file of a kernel, and parses the text: one write of
\* the kernel, which is never cut.
TextRead(t) == pc[t] = "reading" /\ kind = "sysctl"

\* The models of preemption, as scripts/mkcompile_h names them, and as the RT
\* patch named its own.
Preemptions ==
  {<<>>, <<"PREEMPT">>, <<"PREEMPT_DYNAMIC">>, <<"PREEMPT_RT">>, <<"PREEMPT", "RT">>}

\* A date with a padded day, and a distribution's name and date.
Dates ==
  {<<"Thu", "Nov", "", "9", "10:21:33", "UTC", "2023">>, <<"Debian", "6.1.55-1", "(2023-09-29)">>}

KernelBuild(smp, preemption, date) ==
  BuildInfo(TRUE, (IF smp THEN <<"SMP">> ELSE <<>>) \o preemption \o date).ok

BuildsMisread ==
  {k \in BOOLEAN \X Preemptions \X Dates :
     LET b == KernelBuild(k[1], k[2], k[3])
     IN  ~ /\ Smp(b) = k[1]
           /\ Preempt(b) = ("PREEMPT" \in ToSet(k[2]))
           /\ b.flags \subseteq {"SMP"} \cup ToSet(k[2])
           /\ \E rest \in {<<>>, k[2]} :
                b.extra = rest \o k[3] /\ ToSet(k[2]) \subseteq b.flags \cup ToSet(rest)}

\* Whatever kernel's build string has been read: smp() and preempt() say what it
\* was built with, no word of the date is a flag, and no word is lost: what is
\* not among the flags stands in `extra`, before the date.
BuildStringRead ==
  \A t \in Tasks : TextRead(t) => BuildsMisread = {}

\* What may be left of a word that is cut inside: the number that some of its
\* first digits are.  A word that is no number may begin with digits, as 25k.
Beginnings(w) ==
  IF w = NoNumber THEN {NoNumber, 2, 25} ELSE {w \div 10, w \div 100, w \div 1000} \ {0}

LimitsOf(words, last) ==
  [semmsl |-> words[1], semmns |-> words[2], semopm |-> words[3], semmni |-> last]

\* A text of these words is read right wherever it is cut: behind n words, or
\* inside the next one.
LimitsReadRight(words) ==
  \A n \in 0..Len(words) :
    LET cut == SubSeq(words, 1, n)
        r == SemaphoreLimits(cut)
    IN  /\ IsOk(r) <=> n >= 4 /\ \A k \in 1..4 : words[k] # NoNumber
        /\ IsOk(r) => r = Ok(LimitsOf(words, words[4]))
        /\ n < Len(words) =>
             \A part \in Beginnings(words[n + 1]) :
               LET inside == SemaphoreLimits(Append(cut, part))
               IN  /\ n < 3 => ~IsOk(inside)
                   /\ n = 3 /\ IsOk(inside) => inside = Ok(LimitsOf(words, part))
                   /\ n > 3 => inside = r

LimitsMisread == {words \in [1..5 -> {NoNumber, 0, 250, 32000}] : ~LimitsReadRight(words)}

\* Whatever limits have been read come back each in its own field, from a
\* kernel that writes more words too; a word that is no number is an error.  A
\* regular file may be read while it is written: a text that is cut before the
\* end of its fourth word is an error, or all that is wrong is that semmni lacks
\* its last digits.
SemaphoreLimitsWhole ==
  \A t \in Tasks : pc[t] = "reading" => LimitsMisread = {}
=============================================================================

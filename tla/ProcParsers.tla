---------------------------- MODULE ProcParsers ----------------------------
(***************************************************************************)
(* What cmdline, environ and auxv (src/process/mod.rs) make of the bytes   *)
(* they have read.  The reads are operations of ProcessHandle, whose       *)
(* answer is blank if nothing was read; what is said of environ's goes for *)
(* auxv's.                                                                 *)
(*                                                                         *)
(* A byte is Nul, Equals, Latin (which is not UTF-8) or any other.  auxv   *)
(* is a sequence of machine words; one that is cut short counts as absent, *)
(* because read_exact fails on both.                                       *)
(***************************************************************************)
EXTENDS ProcessHandle, Sequences, SequencesExt

Nul == "0"
Equals == "="
Latin == "latin"

\* buf.split(|b| *b == 0): one slice more than there are separators.
SplitAtNul(buf) ==
  LET slices[n \in 0..Len(buf)] ==
        IF n = 0 THEN <<<<>>>>
        ELSE IF buf[n] = Nul THEN Append(slices[n - 1], <<>>)
        ELSE [slices[n - 1] EXCEPT ![Len(slices[n - 1])] = Append(@, buf[n])]
  IN  slices[Len(buf)]

\* filter_map: of each slice itself, or nothing if it is empty.
NonEmpty(slices) ==
  FlattenSeq([k \in 1..Len(slices) |-> IF slices[k] = <<>> THEN <<>> ELSE <<slices[k]>>])

\* Process::cmdline: read_to_string, then the slices that are not empty.
Cmdline(buf) ==
  IF Latin \in ToSet(buf) THEN Err("Io") ELSE Ok(NonEmpty(SplitAtNul(buf)))

\* HashMap::insert: the value goes in the place of an earlier one of its key.
Put(map, key, value) ==
  [x \in DOMAIN map \cup {key} |-> IF x = key THEN value ELSE map[x]]

\* Mutant: splitn(3): a value ends at an `=`.
InsertFirstField(map, slice) ==
  IF Equals \notin ToSet(slice) THEN map
  ELSE LET k == CHOOSE k \in 1..Len(slice) :
                  slice[k] = Equals /\ \A j \in 1..(k - 1) : slice[j] # Equals
           rest == SubSeq(slice, k + 1, Len(slice))
       IN  Put(map, SubSeq(slice, 1, k - 1), SelectSeq(rest, LAMBDA b : b # Equals))

\* splitn(2): a key, and a value in which `=` may occur; a slice without `=`
\* is left out.
Insert(map, slice) ==
  IF Equals \notin ToSet(slice) THEN map
  ELSE LET k == CHOOSE k \in 1..Len(slice) :
                  slice[k] = Equals /\ \A j \in 1..(k - 1) : slice[j] # Equals
       IN  Put(map, SubSeq(slice, 1, k - 1), SubSeq(slice, k + 1, Len(slice)))

\* Process::environ.
Environ(buf) ==
  LET slices == SplitAtNul(buf)
      map[n \in 0..Len(slices)] == IF n = 0 THEN <<>> ELSE Insert(map[n - 1], slices[n])
  IN  map[Len(slices)]

\* Mutant: a value of zero ends the vector, as a key of zero does.
EndsAtZeroValue(key, value) == key = 0 \/ value = 0

\* The pair that ends the vector.
EndsAuxv(key, value) == key = 0 /\ value = 0

\* Process::auxv.  Nothing read is no vector; else read_exact fails where the
\* words end before the vector does.
Auxv(words) ==
  LET pairs == Len(words) \div 2
      loop[n \in 0..pairs] ==
        LET key == words[2 * n - 1]
            value == words[2 * n]
        IN  IF n = 0 THEN [map |-> <<>>, ended |-> FALSE]
            ELSE IF loop[n - 1].ended THEN loop[n - 1]
            ELSE IF EndsAuxv(key, value) THEN [loop[n - 1] EXCEPT !.ended = TRUE]
            ELSE [loop[n - 1] EXCEPT !.map = Put(@, key, value)]
  IN  IF words = <<>> \/ loop[pairs].ended THEN Ok(loop[pairs].map) ELSE Err("Io")

-----------------------------------------------------------------------------
(***************************************************************************)
(* Properties.  External: what a kernel writes.                            *)
(***************************************************************************)
\* The reader o has answered c: with nothing read, or with contents.
NothingRead(c, o) == op[c] = o /\ outcome[c] = Ok(Blank)
ContentsRead(c, o) == op[c] = o /\ IsOk(outcome[c]) /\ outcome[c] # Ok(Blank)

\* Strings of at most two bytes.
Strings(bytes) == UNION {[1..n -> bytes] : n \in 0..2}

\* Strings one after the other, each with a Nul behind it.
NulEnded(strings) == FlattenSeq([k \in 1..Len(strings) |-> Append(strings[k], Nul)])

\* The place of the last pair of s that has key x.
LastOf(x, s) ==
  CHOOSE k \in 1..Len(s) : s[k][1] = x /\ \A j \in (k + 1)..Len(s) : s[j][1] # x

\* The map that a sequence of keys and values stands for.
MapOf(s) == [x \in {s[k][1] : k \in 1..Len(s)} |-> s[LastOf(x, s)][2]]

Environments ==
  UNION {[1..n -> {<<"a">>, <<>>} \X Strings({"a", Equals})] : n \in 0..2}

VariablesLost ==
  {env \in Environments :
     LET strings == [k \in 1..Len(env) |-> env[k][1] \o <<Equals>> \o env[k][2]]
     IN  \E text \in {strings, <<<<"a", "a">>>> \o strings, strings \o <<<<>>>>} :
           Environ(NulEnded(text)) # MapOf(env)}

\* The variables of whatever environment the process has come back with their
\* values, whatever bytes these have and in whatever order they come; of two
\* values of one name the last, though getenv() takes the first.  What is no
\* variable hides none of them, and if nothing was read there are none.
EnvironVariables ==
  \A c \in Clients :
    /\ NothingRead(c, "environ") => Environ(<<>>) = <<>>
    /\ ContentsRead(c, "environ") => VariablesLost = {}

Vectors == UNION {[1..n -> {1, 2} \X {0, 7}] : n \in 0..3}

AuxvCutShort ==
  {v \in Vectors :
     LET words == FlattenSeq(Append(v, <<0, 0>>))
     IN  \E n \in 1..Len(words) :
           Auxv(SubSeq(words, 1, n)) #
             IF n < Len(words) THEN Err("Io") ELSE Ok(MapOf(v))}

\* Whatever vector the process has comes back whole or not at all: what is
\* read of it up to any other place than its end is an error, never a shorter
\* vector; only if nothing was read there is none.
AuxvWhole ==
  \A c \in Clients :
    /\ NothingRead(c, "environ") => Auxv(<<>>) = Ok(<<>>)
    /\ ContentsRead(c, "environ") => AuxvCutShort = {}
=============================================================================

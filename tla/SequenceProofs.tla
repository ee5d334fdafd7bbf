--------------------------- MODULE SequenceProofs ---------------------------
(***************************************************************************)
(* Facts about what a read of a directory returns, for any entries and any *)
(* size of the buffer, about the sequences that the streams over a         *)
(* directory keep: names that are taken off, and items that are added; and *)
(* about loops over a sequence, which the parsers are.                     *)
(***************************************************************************)
EXTENDS Directory, WellFoundedInduction, TLAPS

\* One read returns at least one name, in increasing order, and every entry
\* that was left is among the names or comes after the last of them.
LEMMA BatchFacts ==
  ASSUME NEW S \in SUBSET Int, NEW most \in Nat, NEW b \in Batches(S, most)
  PROVE  /\ b \in Seq(S) /\ Len(b) \in Nat /\ Len(b) >= 1 /\ b # <<>>
         /\ b[Len(b)] \in S /\ b[Len(b)] \in Int
         /\ \A j, k \in 1..Len(b) : j < k => b[j] < b[k]
         /\ \A j \in 1..Len(b) : b[j] \in S /\ b[j] \in Int /\ b[j] <= b[Len(b)]
         /\ \A n \in S : n > b[Len(b)] \/ \E j \in 1..Len(b) : b[j] = n
<1>1. PICK n \in 1..most : b \in [1..n -> S] /\ Leads(b, S)
  BY DEF Batches
<1>2. n \in Nat /\ n >= 1
  OBVIOUS
<1>3. b \in Seq(S) /\ Len(b) = n
  BY <1>1, <1>2
<1>4. \A j \in 1..Len(b) : b[j] \in S /\ b[j] \in Int
  BY <1>1, <1>3
<1>5. Len(b) \in 1..Len(b)
  BY <1>2, <1>3
<1>6. \A j, k \in 1..Len(b) : j < k => b[j] < b[k]
  BY <1>1 DEF Leads
<1>7. \A j \in 1..Len(b) : b[j] <= b[Len(b)]
  <2> SUFFICES ASSUME NEW j \in 1..Len(b) PROVE b[j] <= b[Len(b)]
    OBVIOUS
  <2>1. CASE j = Len(b)
    BY <1>4, <2>1
  <2>2. CASE j < Len(b)
    BY <1>4, <1>5, <1>6, <2>2
  <2> QED
    BY <1>2, <1>3, <2>1, <2>2
<1>8. \A m \in S : m > b[Len(b)] \/ \E j \in 1..Len(b) : b[j] = m
  <2> SUFFICES ASSUME NEW m \in S, ~(m > b[Len(b)]) PROVE \E j \in 1..Len(b) : b[j] = m
    OBVIOUS
  <2>1. m \in Int /\ b[Len(b)] \in Int
    BY <1>4, <1>5
  <2>2. m <= b[Len(b)]
    BY <2>1
  <2> QED
    BY <1>1, <2>2 DEF Leads
<1> QED
  BY <1>2, <1>3, <1>4, <1>5, <1>6, <1>7, <1>8

\* The first name is taken off: the others move up by one.
LEMMA TailFacts ==
  ASSUME NEW S, NEW s \in Seq(S), s # <<>>
  PROVE  /\ Tail(s) \in Seq(S) /\ Head(s) \in S /\ Len(s) \in Nat /\ Len(s) >= 1
         /\ Head(s) = s[1] /\ 1 \in 1..Len(s)
         /\ Len(Tail(s)) = Len(s) - 1
         /\ \A j \in 1..Len(Tail(s)) : Tail(s)[j] = s[j + 1] /\ j + 1 \in 1..Len(s)
         /\ \A j \in 2..Len(s) : Tail(s)[j - 1] = s[j] /\ j - 1 \in 1..Len(Tail(s))
<1>1. Len(s) \in Nat /\ Len(s) # 0
  OBVIOUS
<1> QED
  BY <1>1

\* An increasing sequence of names stays one without its first, which is less
\* than all that remain.
LEMMA IncreasingTail ==
  ASSUME NEW S \in SUBSET Int, NEW s \in Seq(S), s # <<>>,
         \A j, k \in 1..Len(s) : j < k => s[j] < s[k]
  PROVE  /\ \A j, k \in 1..Len(Tail(s)) : j < k => Tail(s)[j] < Tail(s)[k]
         /\ \A j \in 1..Len(Tail(s)) : Head(s) < Tail(s)[j]
<1>1. /\ Len(s) \in Nat /\ Len(s) >= 1 /\ Head(s) = s[1] /\ Len(Tail(s)) = Len(s) - 1
      /\ \A j \in 1..Len(Tail(s)) : Tail(s)[j] = s[j + 1] /\ j + 1 \in 1..Len(s)
  BY TailFacts
<1>2. \A j, k \in 1..Len(Tail(s)) : j < k => Tail(s)[j] < Tail(s)[k]
  <2> SUFFICES ASSUME NEW j \in 1..Len(Tail(s)), NEW k \in 1..Len(Tail(s)), j < k
               PROVE  Tail(s)[j] < Tail(s)[k]
    OBVIOUS
  <2>1. j + 1 < k + 1
    OBVIOUS
  <2> QED
    BY <1>1, <2>1
<1>3. \A j \in 1..Len(Tail(s)) : Head(s) < Tail(s)[j]
  <2> SUFFICES ASSUME NEW j \in 1..Len(Tail(s)) PROVE Head(s) < Tail(s)[j]
    OBVIOUS
  <2>1. 1 < j + 1 /\ 1 \in 1..Len(s)
    BY <1>1
  <2> QED
    BY <1>1, <2>1
<1> QED
  BY <1>2, <1>3

\* An item is added: those before it keep their places.
LEMMA AppendFacts ==
  ASSUME NEW S, NEW s \in Seq(S), NEW r
  PROVE  /\ Len(s) \in Nat /\ Len(Append(s, r)) = Len(s) + 1
         /\ \A k \in 1..Len(s) : Append(s, r)[k] = s[k]
         /\ Append(s, r)[Len(s) + 1] = r
         /\ \A k : k \in 1..Len(Append(s, r)) <=> k \in 1..Len(s) \/ k = Len(s) + 1
         /\ r \in S => Append(s, r) \in Seq(S)
<1>1. /\ Len(s) \in Nat /\ Len(Append(s, r)) = Len(s) + 1
      /\ \A k \in 1..Len(s) : Append(s, r)[k] = s[k]
      /\ Append(s, r)[Len(s) + 1] = r
  OBVIOUS
<1>2. \A k : k \in 1..Len(Append(s, r)) <=> k \in 1..Len(s) \/ k = Len(s) + 1
  BY <1>1
<1> QED
  BY <1>1, <1>2

-----------------------------------------------------------------------------
(***************************************************************************)
(* Loops over a sequence.  A recursive function is what TLC computes of    *)
(* one; what it is after the last step follows here from the set of the    *)
(* steps after which a fact holds.                                         *)
(***************************************************************************)
\* Induction up to N, over the set of the numbers for which a fact holds.
LEMMA SetInduction ==
  ASSUME NEW N \in Nat, NEW T, 0 \in T, \A n \in 1..N : n - 1 \in T => n \in T
  PROVE  0..N \subseteq T
<1> SUFFICES ASSUME NEW k \in 0..N, k \notin T PROVE FALSE
  OBVIOUS
<1> DEFINE M == {n \in 0..N : n \notin T}
<1>1. M \subseteq Nat /\ M # {}
  OBVIOUS
<1>2. PICK m \in M : \A y \in M : ~(<<y, m>> \in OpToRel(<, Nat))
  BY <1>1, WFMin, NatLessThanWellFounded
<1>3. m # 0 /\ m - 1 \in Nat /\ m - 1 < m
  OBVIOUS
<1>4. <<m - 1, m>> \in OpToRel(<, Nat)
  BY <1>3 DEF OpToRel
<1>5. m - 1 \notin M
  BY <1>2, <1>4
<1> QED
  BY <1>3, <1>5

\* Two loops that start and go on alike are the same.
LEMMA SameLoop ==
  ASSUME NEW N \in Nat, NEW f, NEW g, f[0] = g[0],
         \A n \in 1..N : f[n - 1] = g[n - 1] => f[n] = g[n]
  PROVE  f[N] = g[N]
<1> DEFINE T == {n \in 0..N : f[n] = g[n]}
<1>1. 0 \in T /\ \A n \in 1..N : n - 1 \in T => n \in T
  OBVIOUS
<1>2. N \in 0..N
  OBVIOUS
<1> HIDE DEF T
<1>3. N \in T
  BY <1>1, <1>2, SetInduction
<1> QED
  BY <1>3 DEF T

\* f has what a loop of N steps has made of init after each of them.
Steps(N, S, step) == \A n \in 1..N : \A x \in S : step[n][x] \in S
IsLoop(f, N, S, init, step) ==
  /\ f \in [0..N -> S] /\ f[0] = init
  /\ \A n \in 1..N : f[n] = step[n][f[n - 1]]

\* A loop whose steps stay in S has made something after every step.
LEMMA LoopExists ==
  ASSUME NEW N \in Nat, NEW S, NEW init \in S, NEW step, Steps(N, S, step)
  PROVE  \E f : IsLoop(f, N, S, init, step)
<1> DEFINE Good(m, f) ==
      f \in [0..m -> S] /\ f[0] = init /\ \A n \in 1..m : f[n] = step[n][f[n - 1]]
    T == {m \in 0..N : \E f : Good(m, f)}
<1>0. \A n \in 1..N : \A x \in S : step[n][x] \in S
  BY DEF Steps
<1>1. 0 \in T
  <2>1. Good(0, [i \in 0..0 |-> init])
    OBVIOUS
  <2>2. 0 \in 0..N
    OBVIOUS
  <2> HIDE DEF Good
  <2> QED
    BY <2>1, <2>2
<1>2. ASSUME NEW n \in 1..N, n - 1 \in T PROVE n \in T
  <2>1. PICK f : Good(n - 1, f)
    BY <1>2
  <2> DEFINE g == [i \in 0..n |-> IF i = n THEN step[n][f[n - 1]] ELSE f[i]]
  <2>2. f[n - 1] \in S
    BY <2>1
  <2>3. step[n][f[n - 1]] \in S
    BY <1>0, <2>2
  <2>4. g \in [0..n -> S] /\ g[0] = init
    BY <2>1, <2>3
  <2>5. ASSUME NEW i \in 1..n PROVE g[i] = step[i][g[i - 1]]
    BY <2>1
  <2>6. Good(n, g)
    BY <2>4, <2>5
  <2>7. n \in 0..N
    OBVIOUS
  <2> HIDE DEF Good, g
  <2> QED
    BY <2>6, <2>7
<1>3. N \in 0..N
  OBVIOUS
<1> HIDE DEF T
<1>4. N \in T
  BY <1>1, <1>2, <1>3, SetInduction
<1> QED
  BY <1>4 DEF T, IsLoop

\* The first n elements of a sequence, for n from none to all.
LEMMA PrefixFacts ==
  ASSUME NEW W, NEW s \in Seq(W)
  PROVE  /\ SubSeq(s, 1, 0) = <<>> /\ SubSeq(s, 1, Len(s)) = s
         /\ \A n \in 0..Len(s) : SubSeq(s, 1, n) \in Seq(W) /\ Len(SubSeq(s, 1, n)) = n
         /\ \A n \in 1..Len(s) : SubSeq(s, 1, n) = Append(SubSeq(s, 1, n - 1), s[n])
<1>1. SubSeq(s, 1, 0) = <<>>
  OBVIOUS
<1>2. SubSeq(s, 1, Len(s)) = s
  OBVIOUS
<1>3. \A n \in 0..Len(s) : SubSeq(s, 1, n) \in Seq(W) /\ Len(SubSeq(s, 1, n)) = n
  OBVIOUS
<1>4. ASSUME NEW n \in 1..Len(s) PROVE SubSeq(s, 1, n) = Append(SubSeq(s, 1, n - 1), s[n])
  <2> DEFINE a == SubSeq(s, 1, n)
             p == SubSeq(s, 1, n - 1)
             b == Append(p, s[n])
  <2>1. a \in Seq(W) /\ Len(a) = n /\ \A i \in 1..n : a[i] = s[i]
    OBVIOUS
  <2>2. p \in Seq(W) /\ Len(p) = n - 1 /\ \A i \in 1..(n - 1) : p[i] = s[i]
    OBVIOUS
  <2> HIDE DEF a, p
  <2>3. b \in Seq(W) /\ Len(b) = n /\ \A i \in 1..n : b[i] = s[i]
    BY <2>2
  <2> HIDE DEF b
  <2>4. a = b
    BY <2>1, <2>3
  <2> QED
    BY <2>4 DEF a, b, p
<1> QED
  BY <1>1, <1>2, <1>3, <1>4
=============================================================================

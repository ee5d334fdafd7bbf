---------------------------- MODULE VersionProofs ----------------------------
(***************************************************************************)
(* Proofs about KernelVersion, VersionCache and ThreadsMax, in this order: *)
(* the packing and the order of versions, for every version and for both   *)
(* byte orders; the cache, for any number of tasks, any set of mounted     *)
(* roots and any release texts; and what set_threads_max refuses and what  *)
(* it lets pass, for any limits.                                           *)
(***************************************************************************)
EXTENDS ThreadsMax, FiniteSetTheorems, TLAPS

-----------------------------------------------------------------------------
(***************************************************************************)
(* Versions.                                                               *)
(***************************************************************************)

\* Membership in U16 as two inequalities.
LEMMA U16Elim ==
  ASSUME NEW n \in U16
  PROVE  n \in Int /\ 0 <= n /\ n <= 65535
<1>1. U16Max \in Int
  BY DEF U16Max
<1>2. n \in Int /\ 0 <= n /\ n <= U16Max
  BY <1>1 DEF U16
<1> QED BY <1>2 DEF U16Max

\* Two bytes make a u16, whichever of them is the high one.
LEMMA U16Intro ==
  ASSUME NEW a \in Byte, NEW b \in Byte
  PROVE  a + 256 * b \in U16 /\ 256 * a + b \in U16
<1>1. U16Max \in Int
  BY DEF U16Max
<1>2. /\ a + 256 * b \in Int /\ 0 <= a + 256 * b /\ a + 256 * b <= U16Max
      /\ 256 * a + b \in Int /\ 0 <= 256 * a + b /\ 256 * a + b <= U16Max
  BY DEF Byte, U16Max
<1> QED BY <1>1, <1>2 DEF U16

\* A u16 survives to_ne_bytes followed by from_ne_bytes, and its two bytes
\* are bytes, whatever the byte order.
LEMMA U16Bytes ==
  ASSUME NEW n \in U16
  PROVE  /\ U16ToNeBytes(n) \in Byte \X Byte
         /\ U16FromNeBytes(U16ToNeBytes(n)[1], U16ToNeBytes(n)[2]) = n
<1>1. n \in Int /\ 0 <= n /\ n <= 65535
  BY U16Elim
<1>2. /\ n % 256 \in Byte
      /\ n \div 256 \in Byte
      /\ n = (n % 256) + 256 * (n \div 256)
      /\ n = 256 * (n \div 256) + (n % 256)
  BY <1>1 DEF Byte
<1>3. CASE LittleEndian
  BY <1>2, <1>3 DEF U16ToNeBytes, U16FromNeBytes
<1>4. CASE ~LittleEndian
  BY <1>2, <1>4 DEF U16ToNeBytes, U16FromNeBytes
<1> QED BY <1>3, <1>4

\* Version::to_u32 yields four bytes and Version::from_u32 undoes it: the
\* cache returns exactly the version that was stored in it.
THEOREM PackingRoundTrip ==
  ASSUME NEW v \in Version
  PROVE  ToU32(v) \in U32 /\ FromU32(ToU32(v)) = v
<1>1. /\ v.major \in Byte
      /\ v.minor \in Byte
      /\ v.patch \in U16
      /\ v = New(v.major, v.minor, v.patch)
  BY DEF Version, New
<1>2. /\ U16ToNeBytes(v.patch) \in Byte \X Byte
      /\ U16FromNeBytes(U16ToNeBytes(v.patch)[1], U16ToNeBytes(v.patch)[2])
           = v.patch
  BY <1>1, U16Bytes
<1>3. ToU32(v) \in U32
  BY <1>1, <1>2 DEF ToU32, U32
<1>4. FromU32(ToU32(v)) = New(v.major, v.minor, v.patch)
  BY <1>2 DEF ToU32, FromU32
<1> QED BY <1>1, <1>3, <1>4

\* The only version the cache cannot tell from "not read yet" is 0.0.0.
THEOREM SentinelIsZero ==
  ASSUME NEW v \in Version, ToU32(v) = SENTINEL
  PROVE  v = New(0, 0, 0)
<1>1. v = FromU32(SENTINEL)
  BY PackingRoundTrip
<1>2. U16FromNeBytes(0, 0) = 0
  BY DEF U16FromNeBytes
<1> QED BY <1>1, <1>2 DEF FromU32, SENTINEL

\* What from_u32 makes of any u32 is a version.
LEMMA UnpackType ==
  ASSUME NEW u \in U32
  PROVE  FromU32(u) \in Version
<1>1. u[1] \in Byte /\ u[2] \in Byte /\ u[3] \in Byte /\ u[4] \in Byte
  BY DEF U32
<1>2. U16FromNeBytes(u[3], u[4]) \in U16
  BY <1>1, U16Intro DEF U16FromNeBytes
<1> QED BY <1>1, <1>2 DEF FromU32, New, Version

\* A successful parse is a version whose fields fit their integer types, so
\* packing it loses nothing.
LEMMA ParseType ==
  ASSUME NEW text \in ReleaseText
  PROVE  \/ ParseVersion(text) \in [ok : Version] /\ IsOk(ParseVersion(text))
         \/ ParseVersion(text) \in [err : {"BadRelease"}]
<1>1. CASE /\ Len(text) >= 3
           /\ text[1] \in Byte
           /\ text[2] \in Byte
           /\ text[3] \in U16
  BY <1>1 DEF ParseVersion, Ok, IsOk, New, Version
<1>2. CASE ~ /\ Len(text) >= 3
             /\ text[1] \in Byte
             /\ text[2] \in Byte
             /\ text[3] \in U16
  BY <1>2 DEF ParseVersion, Err
<1> QED BY <1>1, <1>2

\* impl Ord for Version is a strict total order: the comparison with 3.6.0
\* that selects the open flags splits the versions in exactly two classes.
THEOREM VersionOrder ==
  ASSUME NEW u \in Version, NEW v \in Version, NEW w \in Version
  PROVE  /\ ~ Less(u, u)
         /\ Less(u, v) \/ u = v \/ Less(v, u)
         /\ Less(u, v) /\ Less(v, w) => Less(u, w)
<1>1. \A x \in Version : x.major \in Int /\ x.minor \in Int /\ x.patch \in Int
  <2> SUFFICES ASSUME NEW x \in Version
               PROVE  x.major \in Int /\ x.minor \in Int /\ x.patch \in Int
    OBVIOUS
  <2>1. x.major \in Byte /\ x.minor \in Byte /\ x.patch \in U16
    BY DEF Version
  <2> QED BY <2>1, U16Elim DEF Byte
<1>2. ~ Less(u, u)
  BY <1>1 DEF Less
<1>3. Less(u, v) \/ u = v \/ Less(v, u)
  <2>1. \/ Less(u, v)
        \/ Less(v, u)
        \/ u.major = v.major /\ u.minor = v.minor /\ u.patch = v.patch
    BY <1>1 DEF Less
  <2>2. u.major = v.major /\ u.minor = v.minor /\ u.patch = v.patch => u = v
    BY DEF Version
  <2> QED BY <2>1, <2>2
<1>4. Less(u, v) /\ Less(v, w) => Less(u, w)
  BY <1>1 DEF Less
<1> QED BY <1>2, <1>3, <1>4

-----------------------------------------------------------------------------
(***************************************************************************)
(* The cache.                                                              *)
(***************************************************************************)

(* Facts about the constants.                                              *)

\* Parsing a mounted root's text yields a version or the parse error.
LEMMA ParsedType ==
  ASSUME NEW r \in Roots
  PROVE  IsOk(Parsed(r)) => /\ Parsed(r).ok \in Version
                            /\ Parsed(r).ok \in Kernels
<1>1. OsRelease[r] \in ReleaseText
  BY ReleaseAssumption
<1>2. \/ Parsed(r) \in [ok : Version]
      \/ Parsed(r) \in [err : {"BadRelease"}]
  BY <1>1, ParseType DEF Parsed
<1>3. IsOk(Parsed(r)) => Parsed(r).ok \in Version
  BY <1>2 DEF IsOk
<1> QED BY <1>3 DEF Kernels

\* Every version a root names fits the fields of Version.
LEMMA KernelsType == Kernels \subseteq Version
BY ParsedType DEF Kernels

\* The values that can ever be stored in the static.
Packed == {ToU32(v) : v \in Kernels}

\* A packed version unpacks to a version that some root names.
LEMMA PackedFacts ==
  ASSUME NEW u \in Packed
  PROVE  /\ u \in U32
         /\ FromU32(u) \in Kernels
         /\ NoZeroRelease => u # SENTINEL
<1>1. PICK v \in Kernels : u = ToU32(v)
  BY DEF Packed
<1>2. v \in Version
  BY KernelsType
<1>3. u \in U32 /\ FromU32(u) = v
  BY <1>1, <1>2, PackingRoundTrip
<1>4. u = SENTINEL => v = New(0, 0, 0)
  BY <1>1, <1>2, SentinelIsZero
<1> QED BY <1>3, <1>4 DEF NoZeroRelease

-----------------------------------------------------------------------------
(* The inductive invariant.                                                *)

StoresPacked == \A i \in 1..Len(stores) : stores[i] \in Packed
StoringPacked == \A c \in Callers : pc[c] = "storing" => kernel[c] \in Packed
SeenBounded == \A c \in Callers : seen[c] <= Len(stores)

CacheInv ==
  /\ TypeOK
  /\ StoresPacked
  /\ StoringPacked
  /\ SeenBounded
  /\ AnswersAreReleases

\* A value other than SENTINEL that a task can load was stored by some task.
LEMMA VisibleValue ==
  ASSUME TypeOK, StoresPacked, NEW c \in Callers, NEW i \in Visible(c)
  PROVE  /\ i \in Nat
         /\ i <= Len(stores)
         /\ Value(i) \in U32
         /\ Value(i) # SENTINEL => i > 0 /\ Value(i) \in Packed
<1>1. i \in Nat /\ i <= Len(stores)
  BY DEF TypeOK, Visible
<1>2. CASE i = 0
  BY <1>1, <1>2 DEF Value, SENTINEL, U32, Byte
<1>3. CASE i # 0
  <2>1. i \in 1..Len(stores)
    BY <1>1, <1>3 DEF TypeOK
  <2>2. Value(i) = stores[i] /\ stores[i] \in Packed
    BY <1>3, <2>1 DEF Value, StoresPacked
  <2> QED BY <1>1, <1>3, <2>2, PackedFacts
<1> QED BY <1>2, <1>3

LEMMA CacheInit == Init => CacheInv
<1> SUFFICES ASSUME Init PROVE CacheInv
  OBVIOUS
<1>1. SENTINEL \in U32
  BY DEF SENTINEL, U32, Byte
<1>2. Pending \in ResultOf(Version, ReadErrors) \cup {Pending}
  OBVIOUS
<1>3. TypeOK
  BY <1>1, <1>2 DEF Init, TypeOK
<1>4. StoresPacked /\ StoringPacked /\ SeenBounded
  BY DEF Init, StoresPacked, StoringPacked, SeenBounded
<1>5. AnswersAreReleases
  BY DEF Init, AnswersAreReleases, Pending, IsOk
<1> QED BY <1>3, <1>4, <1>5 DEF CacheInv

\* What a successful outcome does to the invariant, for Hit and Store alike.
LEMMA AnswerStep ==
  ASSUME CacheInv, NEW c \in Callers, NEW u \in Packed,
         result' = [result EXCEPT ![c] = Ok(FromU32(u))]
  PROVE  /\ result' \in [Callers -> ResultOf(Version, ReadErrors) \cup {Pending}]
         /\ AnswersAreReleases'
<1>1. FromU32(u) \in Kernels /\ FromU32(u) \in Version
  BY PackedFacts, KernelsType
<1>2. Ok(FromU32(u)) \in ResultOf(Version, ReadErrors)
  BY <1>1 DEF Ok, ResultOf
<1>3. Ok(FromU32(u)).ok = FromU32(u)
  BY DEF Ok
<1> QED BY <1>1, <1>2, <1>3 DEF CacheInv, TypeOK, AnswersAreReleases, Kernels

LEMMA CacheStep == CacheInv /\ [Next]_cacheVars => CacheInv'
<1> SUFFICES ASSUME CacheInv, [Next]_cacheVars PROVE CacheInv'
  OBVIOUS
<1> USE DEF CacheInv
<1>1. ASSUME NEW c \in Callers, NEW r \in Roots, Hit(c, r)
      PROVE  CacheInv'
  <2>1. PICK i \in Visible(c) :
          /\ Value(i) # SENTINEL
          /\ seen' = [seen EXCEPT ![c] = i]
          /\ kernel' = [kernel EXCEPT ![c] = Value(i)]
          /\ result' = [result EXCEPT ![c] = Ok(FromU32(Value(i)))]
    BY <1>1 DEF Hit
  <2>2. /\ i \in Nat
        /\ i <= Len(stores)
        /\ Value(i) \in U32
        /\ Value(i) \in Packed
    BY <2>1, VisibleValue
  <2>3. /\ result' \in [Callers -> ResultOf(Version, ReadErrors) \cup {Pending}]
        /\ AnswersAreReleases'
    BY <2>1, <2>2, AnswerStep
  <2>4. TypeOK'
    BY <1>1, <2>1, <2>2, <2>3 DEF Hit, TypeOK
  <2>5. StoresPacked' /\ StoringPacked' /\ SeenBounded'
    BY <1>1, <2>1, <2>2
    DEF Hit, TypeOK, StoresPacked, StoringPacked, SeenBounded, Packed, Kernels
  <2> QED BY <2>3, <2>4, <2>5
<1>2. ASSUME NEW c \in Callers, NEW r \in Roots, Miss(c, r)
      PROVE  CacheInv'
  <2>1. PICK i \in Visible(c) :
          /\ Value(i) = SENTINEL
          /\ seen' = [seen EXCEPT ![c] = i]
          /\ kernel' = [kernel EXCEPT ![c] = Value(i)]
    BY <1>2 DEF Miss
  <2>2. i \in Nat /\ i <= Len(stores) /\ Value(i) \in U32
    BY VisibleValue
  <2>3. TypeOK'
    BY <1>2, <2>1, <2>2 DEF Miss, TypeOK
  <2>4. StoresPacked' /\ StoringPacked' /\ SeenBounded' /\ AnswersAreReleases'
    BY <1>2, <2>1, <2>2
    DEF Miss, TypeOK, StoresPacked, StoringPacked, SeenBounded,
        AnswersAreReleases, Packed, Kernels
  <2> QED BY <2>3, <2>4
<1>3. ASSUME NEW c \in Callers, ReadRelease(c)
      PROVE  CacheInv'
  <2>1. root[c] \in Roots
    BY DEF TypeOK
  <2>2. Parsed(root[c]).ok \in Version /\ Parsed(root[c]).ok \in Kernels
    BY <1>3, <2>1, ParsedType DEF ReadRelease
  <2>3. /\ ToU32(Parsed(root[c]).ok) \in U32
        /\ ToU32(Parsed(root[c]).ok) \in Packed
    BY <2>2, PackingRoundTrip DEF Packed
  <2>4. TypeOK'
    BY <1>3, <2>3 DEF ReadRelease, TypeOK
  <2>5. StoringPacked'
    BY <1>3, <2>3 DEF ReadRelease, TypeOK, StoringPacked, Packed, Kernels
  <2>6. StoresPacked' /\ SeenBounded' /\ AnswersAreReleases'
    BY <1>3 DEF ReadRelease, StoresPacked, SeenBounded, AnswersAreReleases,
                Packed, Kernels
  <2> QED BY <2>4, <2>5, <2>6
<1>4. ASSUME NEW c \in Callers, ReadFails(c)
      PROVE  CacheInv'
  <2>1. PICK e \in ReadErrors : result' = [result EXCEPT ![c] = Err(e)]
    BY <1>4 DEF ReadFails
  <2>2. Err(e) \in ResultOf(Version, ReadErrors) /\ ~ IsOk(Err(e))
    BY DEF Err, ResultOf, IsOk
  <2>3. TypeOK'
    BY <1>4, <2>1, <2>2 DEF ReadFails, TypeOK
  <2>4. AnswersAreReleases'
    BY <2>1, <2>2 DEF TypeOK, AnswersAreReleases, Kernels
  <2>5. StoresPacked' /\ StoringPacked' /\ SeenBounded'
    BY <1>4 DEF ReadFails, TypeOK, StoresPacked, StoringPacked, SeenBounded,
                Packed, Kernels
  <2> QED BY <2>3, <2>4, <2>5
<1>5. ASSUME NEW c \in Callers, Store(c)
      PROVE  CacheInv'
  <2>1. kernel[c] \in Packed /\ kernel[c] \in U32
    BY <1>5, PackedFacts DEF Store, StoringPacked
  <2>2. /\ result' \in [Callers -> ResultOf(Version, ReadErrors) \cup {Pending}]
        /\ AnswersAreReleases'
    BY <1>5, <2>1, AnswerStep DEF Store
  <2>3. /\ stores' \in Seq(U32)
        /\ Len(stores') = Len(stores) + 1
        /\ \A i \in 1..Len(stores') :
             stores'[i] = IF i = Len(stores) + 1 THEN kernel[c] ELSE stores[i]
        /\ Len(stores) \in Nat
    BY <1>5, <2>1 DEF Store, TypeOK
  <2>4. TypeOK'
    BY <1>5, <2>2, <2>3 DEF Store, TypeOK
  <2>5. StoresPacked'
    BY <2>1, <2>3 DEF StoresPacked, Packed, Kernels
  <2>6. SeenBounded'
    BY <1>5, <2>3 DEF Store, TypeOK, SeenBounded
  <2>7. StoringPacked'
    BY <1>5 DEF Store, TypeOK, StoringPacked, Packed, Kernels
  <2> QED BY <2>2, <2>4, <2>5, <2>6, <2>7
<1>6. ASSUME NEW c \in Callers, Cancel(c)
      PROVE  CacheInv'
  <2>1. ~ IsOk(Pending)
    BY DEF IsOk, Pending
  <2>2. TypeOK'
    BY <1>6 DEF Cancel, TypeOK
  <2>3. AnswersAreReleases'
    BY <1>6, <2>1 DEF Cancel, TypeOK, AnswersAreReleases, Kernels
  <2>4. StoresPacked' /\ StoringPacked' /\ SeenBounded'
    BY <1>6 DEF Cancel, TypeOK, StoresPacked, StoringPacked, SeenBounded,
                Packed, Kernels
  <2> QED BY <2>2, <2>3, <2>4
<1>7. CASE UNCHANGED cacheVars
  BY <1>7 DEF cacheVars, TypeOK, StoresPacked, StoringPacked, SeenBounded,
              AnswersAreReleases, Packed, Kernels
<1> QED BY <1>1, <1>2, <1>3, <1>4, <1>5, <1>6, <1>7 DEF Next

LEMMA CacheInvariance == Spec => []CacheInv
BY CacheInit, CacheStep, PTL DEF Spec

-----------------------------------------------------------------------------
(* Theorems.                                                               *)

\* The static, the calls and their outcomes always have their types.
THEOREM TypeCorrect == Spec => []TypeOK
BY CacheInvariance, PTL DEF CacheInv

\* Whatever races to fill the static, a successful call returns exactly a
\* version that the osrelease of some mounted root names.
THEOREM AnswersCorrect == Spec => []AnswersAreReleases
BY CacheInvariance, PTL DEF CacheInv
-----------------------------------------------------------------------------
(* The cache answers for good.                                             *)

\* A call that is filling the cache belongs to a task with no answer yet.
FirstFill == \A c \in Callers : pc[c] # "idle" => ~ Known(c)

KnownCallers == {c \in Callers : Known(c)}

LEMMA KnownFinite ==
  ASSUME TypeOK
  PROVE  IsFiniteSet(KnownCallers) /\ Cardinality(KnownCallers) \in Nat
<1>1. KnownCallers \subseteq Callers
  BY DEF KnownCallers
<1>2. IsFiniteSet(KnownCallers)
  BY <1>1, CallersAssumption, FS_Subset
<1> QED BY <1>2, FS_CardinalityType

\* What one step does to the tasks that know and to the number of stores.
LEMMA KnownStep ==
  ASSUME NoZeroRelease, CacheInv, FirstFill, CacheInv', [Next]_cacheVars
  PROVE  /\ FirstFill'
         /\ \/ /\ Len(stores') = Len(stores)
               /\ KnownCallers \subseteq KnownCallers'
            \/ \E c \in Callers :
                 /\ Len(stores') = Len(stores) + 1
                 /\ c \notin KnownCallers
                 /\ KnownCallers' = KnownCallers \cup {c}
<1> USE DEF Known, FirstFill
<1>0. TypeOK /\ StoresPacked /\ SeenBounded
  BY DEF CacheInv
<1>1. ASSUME NEW c \in Callers, NEW r \in Roots, Hit(c, r)
      PROVE  /\ FirstFill'
             /\ Len(stores') = Len(stores)
             /\ KnownCallers \subseteq KnownCallers'
  <2>1. PICK i \in Visible(c) :
          Value(i) # SENTINEL /\ seen' = [seen EXCEPT ![c] = i]
    BY <1>1 DEF Hit
  <2>2. i \in Nat /\ i > 0
    BY <1>0, <2>1, VisibleValue
  <2>3. stores' = stores /\ pc' = pc /\ pc[c] = "idle"
    BY <1>1 DEF Hit
  <2> QED BY <1>0, <2>1, <2>2, <2>3 DEF TypeOK, KnownCallers
<1>2. ASSUME NEW c \in Callers, NEW r \in Roots, Miss(c, r)
      PROVE  /\ FirstFill'
             /\ Len(stores') = Len(stores)
             /\ KnownCallers \subseteq KnownCallers'
  <2>1. PICK i \in Visible(c) :
          Value(i) = SENTINEL /\ seen' = [seen EXCEPT ![c] = i]
    BY <1>2 DEF Miss
  <2>2. i = 0
    <3>1. i \in Nat /\ (Value(i) # SENTINEL \/ i = 0 \/ Value(i) \in Packed)
      BY <1>0, <2>1 DEF Visible, TypeOK, Value, StoresPacked
    <3> QED BY <2>1, <3>1, PackedFacts
  <2>3. seen[c] = 0
    BY <1>0, <2>2 DEF Visible, TypeOK
  <2>4. seen' = seen
    BY <1>0, <2>1, <2>2, <2>3 DEF TypeOK
  <2>5. stores' = stores /\ pc' = [pc EXCEPT ![c] = "reading"]
    BY <1>2 DEF Miss
  <2> QED BY <1>0, <2>3, <2>4, <2>5 DEF TypeOK, KnownCallers
<1>3. ASSUME NEW c \in Callers, ReadRelease(c)
      PROVE  /\ FirstFill'
             /\ Len(stores') = Len(stores)
             /\ KnownCallers \subseteq KnownCallers'
  BY <1>0, <1>3 DEF ReadRelease, TypeOK, KnownCallers
<1>4. ASSUME NEW c \in Callers, ReadFails(c)
      PROVE  /\ FirstFill'
             /\ Len(stores') = Len(stores)
             /\ KnownCallers \subseteq KnownCallers'
  BY <1>0, <1>4 DEF ReadFails, TypeOK, KnownCallers
<1>5. ASSUME NEW c \in Callers, Store(c)
      PROVE  /\ FirstFill'
             /\ Len(stores') = Len(stores) + 1
             /\ c \notin KnownCallers
             /\ KnownCallers' = KnownCallers \cup {c}
  <2>1. /\ pc[c] = "storing"
        /\ stores' = Append(stores, kernel[c])
        /\ seen' = [seen EXCEPT ![c] = Len(stores) + 1]
        /\ pc' = [pc EXCEPT ![c] = "idle"]
    BY <1>5 DEF Store
  <2>2. Len(stores) \in Nat /\ Len(stores') = Len(stores) + 1
    BY <1>0, <2>1 DEF TypeOK
  <2>3. c \notin KnownCallers
    BY <2>1 DEF KnownCallers
  <2>4. KnownCallers' = KnownCallers \cup {c}
    BY <1>0, <2>1, <2>2 DEF TypeOK, KnownCallers
  <2>5. FirstFill'
    BY <1>0, <2>1 DEF TypeOK
  <2> QED BY <2>2, <2>3, <2>4, <2>5
<1>6. ASSUME NEW c \in Callers, Cancel(c)
      PROVE  /\ FirstFill'
             /\ Len(stores') = Len(stores)
             /\ KnownCallers \subseteq KnownCallers'
  BY <1>0, <1>6 DEF Cancel, TypeOK, KnownCallers
<1>7. CASE UNCHANGED cacheVars
  BY <1>7 DEF cacheVars, KnownCallers
<1> QED BY <1>1, <1>2, <1>3, <1>4, <1>5, <1>6, <1>7 DEF Next

\* If no mounted kernel is numbered 0.0.0, a task reads osrelease successfully
\* at most once, however many calls race and however stale its loads are.
THEOREM OneStore ==
  ASSUME NoZeroRelease
  PROVE  Spec => []OneStorePerCaller
<1> DEFINE Inv == FirstFill /\ OneStorePerCaller
<1>1. Init => Inv
  <2> SUFFICES ASSUME Init PROVE Inv
    OBVIOUS
  <2>1. FirstFill
    BY DEF Init, FirstFill
  <2>2. TypeOK /\ Len(stores) = 0
    BY CacheInit DEF CacheInv, Init
  <2>3. OneStorePerCaller
    BY <2>2, KnownFinite DEF OneStorePerCaller, KnownCallers
  <2> QED BY <2>1, <2>3
<1>2. CacheInv /\ CacheInv' /\ Inv /\ [Next]_cacheVars => Inv'
  <2> SUFFICES ASSUME CacheInv, CacheInv', Inv, [Next]_cacheVars PROVE Inv'
    OBVIOUS
  <2>1. TypeOK /\ TypeOK' /\ Len(stores) \in Nat
    BY DEF CacheInv, TypeOK
  <2>2. IsFiniteSet(KnownCallers) /\ Cardinality(KnownCallers) \in Nat
    BY <2>1, KnownFinite
  <2>3. IsFiniteSet(KnownCallers') /\ Cardinality(KnownCallers') \in Nat
    <3>1. KnownCallers' \subseteq Callers
      BY DEF KnownCallers
    <3> QED BY <3>1, CallersAssumption, FS_Subset, FS_CardinalityType
  <2>4. Len(stores) <= Cardinality(KnownCallers)
    BY DEF OneStorePerCaller, KnownCallers
  <2>5. ASSUME Len(stores') = Len(stores), KnownCallers \subseteq KnownCallers'
        PROVE  Len(stores') <= Cardinality(KnownCallers')
    <3>1. Cardinality(KnownCallers) <= Cardinality(KnownCallers')
      BY <2>3, <2>5, FS_Subset
    <3> QED BY <2>1, <2>2, <2>3, <2>4, <2>5, <3>1
  <2>6. ASSUME NEW c \in Callers, Len(stores') = Len(stores) + 1,
               c \notin KnownCallers, KnownCallers' = KnownCallers \cup {c}
        PROVE  Len(stores') <= Cardinality(KnownCallers')
    <3>1. Cardinality(KnownCallers') = Cardinality(KnownCallers) + 1
      BY <2>2, <2>6, FS_AddElement
    <3> QED BY <2>1, <2>2, <2>4, <2>6, <3>1
  <2>7. Len(stores') <= Cardinality(KnownCallers') /\ FirstFill'
    BY <2>5, <2>6, KnownStep
  <2> QED BY <2>7 DEF OneStorePerCaller, KnownCallers
<1> QED BY <1>1, <1>2, CacheInvariance, PTL DEF Spec
\* If no mounted kernel is numbered 0.0.0, the cache implements the oracle: a
\* task that has been answered once is never refused again.
THEOREM Refinement ==
  ASSUME NoZeroRelease
  PROVE  Spec => ImplementsOracle
<1>1. Init => Oracle!Init /\ FirstFill
  <2> SUFFICES ASSUME Init PROVE Oracle!Init /\ FirstFill
    OBVIOUS
  <2>1. \A c \in Callers : Known(c) = FALSE
    BY DEF Init, Known
  <2>2. [c \in Callers |-> Known(c)] = [c \in Callers |-> FALSE]
    BY <2>1
  <2>3. Oracle!Pending = Pending
    BY DEF Pending, Oracle!Pending
  <2> QED BY <2>1, <2>2, <2>3 DEF Init, FirstFill, Oracle!Init
<1>2. CacheInv /\ CacheInv' /\ FirstFill /\ [Next]_cacheVars
        => FirstFill' /\ [Oracle!Next]_(Oracle!oracleVars)
  <2> SUFFICES ASSUME CacheInv, CacheInv', FirstFill, [Next]_cacheVars
               PROVE  FirstFill' /\ [Oracle!Next]_(Oracle!oracleVars)
    OBVIOUS
  <2> DEFINE known == [d \in Callers |-> Known(d)]
  <2>1. TypeOK /\ StoresPacked /\ StoringPacked
    BY DEF CacheInv
  <2>2. FirstFill'
    BY KnownStep
  <2>3. ASSUME NEW c \in Callers, NEW v \in Kernels,
               result' = [result EXCEPT ![c] = Ok(v)],
               known' = [known EXCEPT ![c] = TRUE]
        PROVE  Oracle!Next
    BY <2>3 DEF Oracle!Next, Oracle!Learn, Ok, Oracle!Ok
  <2>4. ASSUME NEW c \in Callers, NEW r \in Roots, Hit(c, r)
        PROVE  Oracle!Next
    <3>1. PICK i \in Visible(c) :
            /\ Value(i) # SENTINEL
            /\ seen' = [seen EXCEPT ![c] = i]
            /\ result' = [result EXCEPT ![c] = Ok(FromU32(Value(i)))]
      BY <2>4 DEF Hit
    <3>2. i \in Nat /\ i > 0 /\ Value(i) \in Packed
      BY <2>1, <3>1, VisibleValue
    <3>3. FromU32(Value(i)) \in Kernels
      BY <3>2, PackedFacts
    <3>4. known' = [known EXCEPT ![c] = TRUE]
      BY <2>1, <3>1, <3>2 DEF Known, TypeOK
    <3> QED BY <2>3, <3>1, <3>3, <3>4
  <2>5. ASSUME NEW c \in Callers, Store(c)
        PROVE  Oracle!Next
    <3>1. /\ kernel[c] \in Packed
          /\ result' = [result EXCEPT ![c] = Ok(FromU32(kernel[c]))]
          /\ seen' = [seen EXCEPT ![c] = Len(stores) + 1]
      BY <2>1, <2>5 DEF Store, StoringPacked
    <3>2. FromU32(kernel[c]) \in Kernels
      BY <3>1, PackedFacts
    <3>3. Len(stores) + 1 \in Nat /\ Len(stores) + 1 > 0
      BY <2>1 DEF TypeOK
    <3>4. known' = [known EXCEPT ![c] = TRUE]
      BY <2>1, <3>1, <3>3 DEF Known, TypeOK
    <3> QED BY <2>3, <3>1, <3>2, <3>4
  <2>6. ASSUME NEW c \in Callers, NEW r \in Roots, Miss(c, r)
        PROVE  UNCHANGED Oracle!oracleVars
    <3>1. PICK i \in Visible(c) :
            Value(i) = SENTINEL /\ seen' = [seen EXCEPT ![c] = i]
      BY <2>6 DEF Miss
    <3>2. i \in Nat /\ (Value(i) # SENTINEL \/ i = 0 \/ Value(i) \in Packed)
      BY <2>1, <3>1 DEF Visible, TypeOK, Value, StoresPacked
    <3>3. i = 0
      BY <3>1, <3>2, PackedFacts
    <3>4. seen' = seen
      BY <2>1, <3>1, <3>3 DEF Visible, TypeOK
    <3>5. result' = result
      BY <2>6 DEF Miss
    <3> QED BY <3>4, <3>5 DEF Oracle!oracleVars, Known
  <2>7. ASSUME NEW c \in Callers, ReadRelease(c)
        PROVE  UNCHANGED Oracle!oracleVars
    BY <2>7 DEF ReadRelease, Oracle!oracleVars, Known
  <2>8. ASSUME NEW c \in Callers, ReadFails(c)
        PROVE  Oracle!Next
    <3>1. ~ Known(c) /\ known' = known
      BY <2>8 DEF ReadFails, FirstFill, Known
    <3>2. PICK e \in ReadErrors : result' = [result EXCEPT ![c] = Err(e)]
      BY <2>8 DEF ReadFails
    <3> QED BY <3>1, <3>2 DEF Oracle!Next, Oracle!Refuse, Err, Oracle!Err
  <2>9. ASSUME NEW c \in Callers, Cancel(c)
        PROVE  Oracle!Next
    <3>1. /\ ~ Known(c) /\ known' = known
          /\ result' = [result EXCEPT ![c] = Pending]
      BY <2>9 DEF Cancel, FirstFill, Known
    <3> QED BY <3>1 DEF Oracle!Next, Oracle!Drop, Pending, Oracle!Pending
  <2>10. ASSUME UNCHANGED cacheVars
         PROVE  UNCHANGED Oracle!oracleVars
    BY <2>10 DEF cacheVars, Oracle!oracleVars, Known
  <2> QED BY <2>2, <2>4, <2>5, <2>6, <2>7, <2>8, <2>9, <2>10 DEF Next
<1> QED BY <1>1, <1>2, CacheInvariance, PTL DEF Spec, ImplementsOracle, Oracle!Spec

-----------------------------------------------------------------------------
(***************************************************************************)
(* The limit.                                                              *)
(***************************************************************************)

\* A version that a task has been told has been in the cache.
AnswersCached == \A c \in Callers : IsOk(result[c]) => result[c].ok \in Cached

\* A call that is under way has no outcome yet.
UnderWay == \A c \in Callers : phase[c] # "none" => outcome[c] = Pending

AllBounded == \A v \in Cached : Bounded(v)

\* Where a call is that belongs to a task which has had a version: it is not
\* asking for one, it has it when it is checked, and it passed the check.
CheckedInTime ==
  \A c \in Callers :
    /\ phase[c] = "asking" => ~Known(c)
    /\ phase[c] = "checked" /\ Known(c) => IsOk(result[c])
    /\ phase[c] = "opened" /\ Known(c) => InRange(limit[c])

LimitInv ==
  /\ CacheInv
  /\ LimitTypeOK
  /\ AnswersCached
  /\ UnderWay
  /\ RefusalsJustified

-----------------------------------------------------------------------------
(* What a step of set_threads_max does to the cache.                       *)

\* It is a step of the cache or leaves it alone.
LEMMA LimitStepIsCacheStep == [LimitNext]_vars => [Next]_cacheVars
<1> SUFFICES ASSUME [LimitNext]_vars PROVE [Next]_cacheVars
  OBVIOUS
<1>1. CASE UNCHANGED vars
  BY <1>1 DEF vars
<1>2. ASSUME NEW c \in Callers, NEW r \in Roots, NEW l \in Limits, Begin(c, r, l)
      PROVE  [Next]_cacheVars
  BY <1>2 DEF Begin, Next
<1>3. ASSUME NEW c \in Callers, AskVersion(c)
      PROVE  [Next]_cacheVars
  BY <1>3 DEF AskVersion, Next
<1>4. ASSUME NEW c \in Callers, Refuse(c) \/ OpenLimit(c) \/ WriteLimit(c) \/ LimitFails(c)
      PROVE  [Next]_cacheVars
  BY <1>4 DEF Refuse, OpenLimit, WriteLimit, LimitFails
<1>5. ASSUME NEW c \in Callers, Abandon(c)
      PROVE  [Next]_cacheVars
  BY <1>5 DEF Abandon, Next
<1> QED
  BY <1>1, <1>2, <1>3, <1>4, <1>5 DEF LimitNext

\* A version that has been in the cache stays known to have been there.
LEMMA CachedGrows ==
  ASSUME TypeOK, [Next]_cacheVars
  PROVE  Cached \subseteq Cached'
<1> DEFINE Extended ==
      /\ Len(stores') >= Len(stores) /\ Len(stores') \in Nat /\ Len(stores) \in Nat
      /\ \A i \in 1..Len(stores) : stores'[i] = stores[i]
<1>1. CASE stores' = stores
  <2>1. Extended
    BY <1>1 DEF TypeOK
  <2> QED
    BY <2>1 DEF Cached
<1>2. ASSUME NEW c \in Callers, stores' = Append(stores, kernel[c])
      PROVE  Cached \subseteq Cached'
  <2>1. Extended
    BY <1>2 DEF TypeOK
  <2> QED
    BY <2>1 DEF Cached
<1> QED
  BY <1>1, <1>2 DEF Next, Hit, Miss, ReadRelease, ReadFails, Store, Cancel, cacheVars

\* A value other than SENTINEL that a load returns is in the cache.
LEMMA VisibleCached ==
  ASSUME TypeOK, NEW c \in Callers, NEW i \in Visible(c), i # 0
  PROVE  FromU32(Value(i)) \in Cached
<1>1. i \in 1..Len(stores)
  BY DEF TypeOK, Visible
<1> QED
  BY <1>1 DEF Value, Cached

\* A task is told only what has been in the cache.
LEMMA AnswersCachedStep ==
  ASSUME CacheInv, AnswersCached, [Next]_cacheVars
  PROVE  AnswersCached'
<1>1. TypeOK /\ StoresPacked
  BY DEF CacheInv
<1>2. Cached \subseteq Cached'
  BY <1>1, CachedGrows
<1>3. ASSUME NEW c \in Callers, NEW v \in Cached', result' = [result EXCEPT ![c] = Ok(v)]
      PROVE  AnswersCached'
  <2>1. Ok(v).ok = v
    BY DEF Ok
  <2> QED
    BY <1>1, <1>2, <1>3, <2>1 DEF AnswersCached, TypeOK
<1>4. ASSUME NEW c \in Callers, NEW x, ~IsOk(x), result' = [result EXCEPT ![c] = x]
      PROVE  AnswersCached'
  BY <1>1, <1>2, <1>4 DEF AnswersCached, TypeOK
<1>5. CASE result' = result
  BY <1>2, <1>5 DEF AnswersCached
<1>6. ASSUME NEW c \in Callers, NEW r \in Roots, Hit(c, r)
      PROVE  AnswersCached'
  <2>1. PICK i \in Visible(c) :
          Value(i) # SENTINEL /\ result' = [result EXCEPT ![c] = Ok(FromU32(Value(i)))]
    BY <1>6 DEF Hit
  <2>2. i # 0
    BY <1>1, <2>1, VisibleValue
  <2> QED
    BY <1>1, <1>2, <1>3, <2>1, <2>2, VisibleCached
<1>7. ASSUME NEW c \in Callers, Store(c)
      PROVE  AnswersCached'
  <2>1. /\ result' = [result EXCEPT ![c] = Ok(FromU32(kernel[c]))]
        /\ stores' = Append(stores, kernel[c])
    BY <1>7 DEF Store
  <2>2. kernel[c] = stores'[Len(stores')] /\ Len(stores') \in 1..Len(stores')
    BY <1>1, <2>1 DEF TypeOK
  <2>3. FromU32(kernel[c]) \in Cached'
    BY <2>2 DEF Cached
  <2> QED
    BY <1>3, <2>1, <2>3
<1>8. ASSUME NEW c \in Callers, ReadFails(c) \/ Cancel(c)
      PROVE  AnswersCached'
  <2>1. \E x : ~IsOk(x) /\ result' = [result EXCEPT ![c] = x]
    BY <1>8 DEF ReadFails, Cancel, Err, Pending, IsOk
  <2> QED
    BY <1>4, <2>1
<1> QED
  BY <1>5, <1>6, <1>7, <1>8 DEF Next, Miss, ReadRelease, cacheVars

-----------------------------------------------------------------------------
(* The inductive invariant.                                                *)

\* The outcomes of a call are told apart.
LEMMA Outcomes ==
  /\ Err("OutOfRange") # Err("Io") /\ Err("OutOfRange") # Pending
  /\ Err("OutOfRange") # Ok("done") /\ Err("Io") # Ok("done") /\ Pending # Ok("done")
  /\ {Ok("done"), Err("OutOfRange"), Err("Io")} \subseteq ResultOf({"done"}, LimitErrors)
<1>1. "err" \in DOMAIN Err("OutOfRange") /\ "err" \in DOMAIN Err("Io")
  BY DEF Err
<1>2. "err" \notin DOMAIN Pending /\ "err" \notin DOMAIN Ok("done")
  BY DEF Pending, Ok
<1>3. "ok" \notin DOMAIN Pending /\ "ok" \in DOMAIN Ok("done")
  BY DEF Pending, Ok
<1>4. Err("OutOfRange") # Err("Io")
  BY DEF Err
<1>5. {Ok("done"), Err("OutOfRange"), Err("Io")} \subseteq ResultOf({"done"}, LimitErrors)
  BY DEF Ok, Err, ResultOf, LimitErrors
<1> QED
  BY <1>1, <1>2, <1>3, <1>4, <1>5

LEMMA LimitInitOK ==
  ASSUME LimitInit
  PROVE  LimitInv
<1>1. Init
  BY DEF LimitInit
<1>2. CacheInv
  BY <1>1, CacheInit
<1>3. \A c \in Callers : result[c] = Pending /\ outcome[c] = Pending /\ pc[c] = "idle"
  BY <1>1 DEF LimitInit, Init
<1>4. ~IsOk(Pending)
  BY DEF IsOk, Pending
<1>5. LimitTypeOK
  BY <1>2, <1>3 DEF CacheInv, LimitInit, LimitTypeOK
<1>6. AnswersCached
  BY <1>3, <1>4 DEF AnswersCached
<1>7. RefusalsJustified
  BY <1>3, Outcomes DEF RefusalsJustified
<1>8. UnderWay
  BY <1>3 DEF UnderWay
<1> QED
  BY <1>2, <1>5, <1>6, <1>7, <1>8 DEF LimitInv

\* The types, and the coupling of a call with its version request.
LEMMA LimitTypeStep ==
  ASSUME LimitTypeOK, CacheInv', [LimitNext]_vars
  PROVE  LimitTypeOK'
<1> USE DEF LimitTypeOK
<1>0. TypeOK' /\ pc \in [Callers -> {"idle", "reading", "storing"}] /\ root \in [Callers -> Roots]
  BY DEF CacheInv, TypeOK
<1>1. CASE UNCHANGED vars
  BY <1>0, <1>1 DEF vars, limitVars, cacheVars
<1>2. ASSUME NEW c \in Callers, NEW r \in Roots, NEW l \in Limits, Begin(c, r, l)
      PROVE  LimitTypeOK'
  <2>1. /\ limit' = [limit EXCEPT ![c] = l] /\ outcome' = [outcome EXCEPT ![c] = Pending]
        /\ threadsMax' = threadsMax
        /\ pc[c] = "idle"
    BY <1>2 DEF Begin, Hit, Miss
  <2>2. \/ pc' = pc /\ phase' = [phase EXCEPT ![c] = "checked"]
        \/ pc' = [pc EXCEPT ![c] = "reading"] /\ phase' = [phase EXCEPT ![c] = "asking"]
    BY <1>2 DEF Begin, Hit, Miss
  <2>3. \A d \in Callers : phase'[d] = "asking" <=> pc'[d] # "idle"
    BY <1>0, <2>1, <2>2
  <2> QED
    BY <1>0, <2>1, <2>2, <2>3
<1>3. ASSUME NEW c \in Callers, AskVersion(c)
      PROVE  LimitTypeOK'
  <2>1. UNCHANGED <<limit, threadsMax, outcome>> /\ phase[c] = "asking"
    BY <1>3 DEF AskVersion
  <2>2. \/ pc' = [pc EXCEPT ![c] = "storing"] /\ phase' = phase
        \/ pc' = [pc EXCEPT ![c] = "idle"] /\ phase' = [phase EXCEPT ![c] = "checked"]
    BY <1>3 DEF AskVersion, ReadRelease, ReadFails, Store
  <2> QED
    BY <1>0, <2>1, <2>2
<1>4. ASSUME NEW c \in Callers, Refuse(c) \/ OpenLimit(c) \/ WriteLimit(c) \/ LimitFails(c)
      PROVE  LimitTypeOK'
  <2>1. /\ pc' = pc /\ limit' = limit
        /\ phase[c] \in {"checked", "opened"}
        /\ phase' = [phase EXCEPT ![c] = "none"] \/ phase' = [phase EXCEPT ![c] = "opened"]
    BY <1>4 DEF Refuse, OpenLimit, WriteLimit, LimitFails, Finish, cacheVars
  <2>2. \/ outcome' = outcome
        \/ \E x \in ResultOf({"done"}, LimitErrors) : outcome' = [outcome EXCEPT ![c] = x]
    BY <1>4, Outcomes DEF Refuse, OpenLimit, WriteLimit, LimitFails, Finish
  <2>3. threadsMax' = threadsMax \/ threadsMax' = [threadsMax EXCEPT ![root[c]] = limit[c]]
    BY <1>4 DEF Refuse, OpenLimit, WriteLimit, LimitFails
  <2>4. threadsMax' \in [Roots -> Limits \cup {InitialLimit}]
    BY <1>0, <2>3
  <2>5. outcome' \in [Callers -> ResultOf({"done"}, LimitErrors) \cup {Pending}]
    BY <2>2
  <2> QED
    BY <1>0, <2>1, <2>4, <2>5
<1>5. ASSUME NEW c \in Callers, Abandon(c)
      PROVE  LimitTypeOK'
  <2>1. /\ limit' = limit /\ outcome' = [outcome EXCEPT ![c] = Pending]
        /\ phase' = [phase EXCEPT ![c] = "none"]
    BY <1>5 DEF Abandon, Finish
  <2>2. \/ phase[c] = "asking" /\ pc' = [pc EXCEPT ![c] = "idle"]
        \/ phase[c] = "opened" /\ pc' = pc
    BY <1>5 DEF Abandon, Cancel, cacheVars
  <2>3. threadsMax' = threadsMax \/ threadsMax' = [threadsMax EXCEPT ![root[c]] = limit[c]]
    BY <1>5 DEF Abandon
  <2>4. threadsMax' \in [Roots -> Limits \cup {InitialLimit}]
    BY <1>0, <2>3
  <2> QED
    BY <1>0, <2>1, <2>2, <2>4
<1> QED
  BY <1>1, <1>2, <1>3, <1>4, <1>5 DEF LimitNext

\* What the code takes for "4.1 or later" is so, if not the other way round.
LEMMA RefusedIsBounded ==
  ASSUME NEW v \in Version, v.major >= 4, v.minor >= 1
  PROVE  Bounded(v)
<1>1. v.major \in Int /\ v.minor \in Int /\ v.patch \in Int /\ v.patch >= 0
  BY U16Elim DEF Version, Byte
<1> QED
  BY <1>1 DEF Bounded, Less, New

\* A refusal has its reasons when it is made, and they do not go away.
LEMMA RefusalsStep ==
  ASSUME LimitInv, [LimitNext]_vars
  PROVE  RefusalsJustified'
<1> USE Outcomes
<1>0. /\ LimitTypeOK /\ TypeOK /\ AnswersCached /\ RefusalsJustified
      /\ Cached \subseteq Cached'
  BY LimitStepIsCacheStep, CachedGrows DEF LimitInv, CacheInv
<1>1. CASE UNCHANGED <<outcome, limit>>
  BY <1>0, <1>1 DEF RefusalsJustified
<1>2. ASSUME NEW c \in Callers, NEW x, x # Err("OutOfRange"),
             outcome' = [outcome EXCEPT ![c] = x],
             \A d \in Callers : d # c => limit'[d] = limit[d]
      PROVE  RefusalsJustified'
  BY <1>0, <1>2 DEF RefusalsJustified, LimitTypeOK
<1>3. ASSUME NEW c \in Callers, Refuse(c)
      PROVE  RefusalsJustified'
  <2>1. outcome' = [outcome EXCEPT ![c] = Err("OutOfRange")] /\ limit' = limit /\ Refused(c)
    BY <1>3 DEF Refuse, Finish
  <2>2. result[c].ok \in Version /\ result[c].ok \in Cached
    BY <1>0, <2>1, KernelsType DEF Refused, AnswersCached, LimitInv, CacheInv, AnswersAreReleases
  <2>3. Bounded(result[c].ok) /\ ~InRange(limit[c])
    BY <2>1, <2>2, RefusedIsBounded DEF Refused
  <2> QED
    BY <1>0, <2>1, <2>2, <2>3 DEF RefusalsJustified, LimitTypeOK
<1>4. ASSUME NEW c \in Callers, NEW r \in Roots, NEW l \in Limits, Begin(c, r, l)
      PROVE  RefusalsJustified'
  <2>1. outcome' = [outcome EXCEPT ![c] = Pending] /\ limit' = [limit EXCEPT ![c] = l]
    BY <1>4 DEF Begin
  <2> QED
    BY <1>0, <1>2, <2>1 DEF LimitTypeOK
<1>5. ASSUME NEW c \in Callers, WriteLimit(c) \/ LimitFails(c) \/ Abandon(c)
      PROVE  RefusalsJustified'
  <2>1. limit' = limit /\ \E x : x # Err("OutOfRange") /\ outcome' = [outcome EXCEPT ![c] = x]
    BY <1>5 DEF WriteLimit, LimitFails, Abandon, Finish
  <2> QED
    BY <1>2, <2>1
<1>6. ASSUME NEW c \in Callers, AskVersion(c) \/ OpenLimit(c)
      PROVE  UNCHANGED <<outcome, limit>>
  BY <1>6 DEF AskVersion, OpenLimit
<1> QED
  BY <1>1, <1>3, <1>4, <1>5, <1>6 DEF LimitNext, vars, limitVars

LEMMA UnderWayStep ==
  ASSUME LimitTypeOK, UnderWay, [LimitNext]_vars
  PROVE  UnderWay'
<1>1. CASE UNCHANGED vars
  BY <1>1 DEF vars, limitVars, UnderWay
<1>2. ASSUME NEW c \in Callers, NEW r \in Roots, NEW l \in Limits, Begin(c, r, l)
      PROVE  UnderWay'
  BY <1>2 DEF Begin, UnderWay, LimitTypeOK
<1>3. ASSUME NEW c \in Callers, AskVersion(c) \/ OpenLimit(c)
      PROVE  UnderWay'
  <2>1. /\ outcome' = outcome /\ phase[c] # "none"
        /\ phase' = phase \/ \E x : phase' = [phase EXCEPT ![c] = x]
    BY <1>3 DEF AskVersion, OpenLimit
  <2> QED
    BY <2>1 DEF UnderWay, LimitTypeOK
<1>4. ASSUME NEW c \in Callers, Refuse(c) \/ WriteLimit(c) \/ LimitFails(c) \/ Abandon(c)
      PROVE  UnderWay'
  <2>1. PICK x : phase' = [phase EXCEPT ![c] = "none"] /\ outcome' = [outcome EXCEPT ![c] = x]
    BY <1>4 DEF Refuse, WriteLimit, LimitFails, Abandon, Finish
  <2> QED
    BY <2>1 DEF UnderWay, LimitTypeOK
<1> QED
  BY <1>1, <1>2, <1>3, <1>4 DEF LimitNext

LEMMA LimitInvStep == LimitInv /\ [LimitNext]_vars => LimitInv'
<1> SUFFICES ASSUME LimitInv, [LimitNext]_vars PROVE LimitInv'
  OBVIOUS
<1>1. [Next]_cacheVars
  BY LimitStepIsCacheStep
<1>2. CacheInv' /\ AnswersCached'
  BY <1>1, CacheStep, AnswersCachedStep DEF LimitInv
<1> QED
  BY <1>2, LimitTypeStep, RefusalsStep, UnderWayStep DEF LimitInv

LEMMA LimitInvariance == LimitSpec => []LimitInv
<1>1. LimitInit => LimitInv
  BY LimitInitOK
<1> QED
  BY <1>1, LimitInvStep, PTL DEF LimitSpec

-----------------------------------------------------------------------------
(* The range check.                                                        *)

\* Assumed where stated: no mounted kernel from 4.1 on has the minor number 0,
\* on which the code's comparison is wrong (5.0, 6.0 and so on).
NoMinorZero == \A v \in Kernels : Bounded(v) => v.minor >= 1

RangeInv == AllBounded => CheckedInTime /\ RangeChecked

\* A task that has had a version does not ask again, if all versions are 4.1
\* or later: 0.0.0, which is packed as SENTINEL, is not among them.
LEMMA MissIsFirst ==
  ASSUME CacheInv, AllBounded, NEW c \in Callers, NEW r \in Roots, Miss(c, r)
  PROVE  ~Known(c) /\ seen' = seen
<1>1. TypeOK /\ StoresPacked
  BY DEF CacheInv
<1>2. PICK i \in Visible(c) : Value(i) = SENTINEL /\ seen' = [seen EXCEPT ![c] = i]
  BY DEF Miss
<1>3. i = 0
  <2> SUFFICES ASSUME i # 0 PROVE FALSE
    OBVIOUS
  <2>1. FromU32(SENTINEL) \in Cached
    BY <1>1, <1>2, VisibleCached
  <2>2. FromU32(SENTINEL).major = 0
    BY DEF FromU32, SENTINEL, New
  <2> QED
    BY <2>1, <2>2 DEF AllBounded, Bounded, Less, New
<1>4. seen[c] = 0
  BY <1>1, <1>3 DEF Visible, TypeOK
<1> QED
  BY <1>1, <1>2, <1>3, <1>4 DEF Known, TypeOK

\* A limit that is not refused is in range, if the task has had a version.
LEMMA NotRefusedInRange ==
  ASSUME NoMinorZero, LimitInv, AllBounded, NEW c \in Callers, IsOk(result[c]), ~Refused(c)
  PROVE  InRange(limit[c])
<1>1. result[c].ok \in Kernels /\ result[c].ok \in Version /\ result[c].ok \in Cached
  BY KernelsType DEF LimitInv, CacheInv, AnswersAreReleases, AnswersCached
<1>2. Bounded(result[c].ok) /\ result[c].ok.minor >= 1
  BY <1>1 DEF NoMinorZero, AllBounded
<1>3. result[c].ok.major >= 4
  <2>1. result[c].ok.major \in Int /\ result[c].ok.minor \in Int
    BY <1>1 DEF Version, Byte
  <2> QED
    BY <1>2, <2>1 DEF Bounded, Less, New
<1> QED
  BY <1>2, <1>3 DEF Refused

LEMMA RangeStep ==
  ASSUME NoMinorZero, LimitInv, RangeInv, [LimitNext]_vars
  PROVE  RangeInv'
<1> USE DEF Known
<1>0. TypeOK /\ LimitTypeOK /\ CacheInv
  BY DEF LimitInv, CacheInv
<1> SUFFICES ASSUME AllBounded' PROVE CheckedInTime' /\ RangeChecked'
  BY DEF RangeInv
<1>1. AllBounded /\ CheckedInTime /\ RangeChecked
  <2>1. Cached \subseteq Cached'
    BY <1>0, LimitStepIsCacheStep, CachedGrows
  <2> QED
    BY <2>1 DEF AllBounded, Bounded, RangeInv
<1> DEFINE Fine(d) ==
      /\ phase[d] = "asking" => ~Known(d)
      /\ phase[d] = "checked" /\ Known(d) => IsOk(result[d])
      /\ phase[d] = "opened" /\ Known(d) => InRange(limit[d])
      /\ Known(d) /\ outcome[d] = Ok("done") => InRange(limit[d])
<1>2. \A d \in Callers : Fine(d)
  BY <1>1 DEF CheckedInTime, RangeChecked, AllBounded
<1>3. SUFFICES \A d \in Callers : Fine(d)'
  BY DEF CheckedInTime, RangeChecked
\* The other tasks.
<1>4. ASSUME NEW c \in Callers,
             \A d \in Callers : d # c =>
                /\ phase'[d] = phase[d] /\ seen'[d] = seen[d] /\ result'[d] = result[d]
                /\ limit'[d] = limit[d] /\ outcome'[d] = outcome[d],
             Fine(c)'
      PROVE  \A d \in Callers : Fine(d)'
  BY <1>2, <1>4
<1>5. CASE UNCHANGED vars
  BY <1>2, <1>5 DEF vars, limitVars, cacheVars
<1>6. ASSUME NEW c \in Callers, NEW r \in Roots, NEW l \in Limits, Begin(c, r, l)
      PROVE  \A d \in Callers : Fine(d)'
  <2>1. /\ limit' = [limit EXCEPT ![c] = l] /\ outcome' = [outcome EXCEPT ![c] = Pending]
    BY <1>6 DEF Begin
  <2>2. CASE Hit(c, r) /\ phase' = [phase EXCEPT ![c] = "checked"]
    <3>1. PICK i \in Visible(c) :
            /\ seen' = [seen EXCEPT ![c] = i]
            /\ result' = [result EXCEPT ![c] = Ok(FromU32(Value(i)))]
      BY <2>2 DEF Hit
    <3>2. IsOk(Ok(FromU32(Value(i))))
      BY DEF IsOk, Ok
    <3>3. Fine(c)'
      BY <1>0, <2>1, <2>2, <3>1, <3>2, Outcomes DEF TypeOK, LimitTypeOK
    <3> QED
      BY <1>0, <1>4, <2>1, <2>2, <3>1, <3>3 DEF TypeOK, LimitTypeOK
  <2>3. CASE Miss(c, r) /\ phase' = [phase EXCEPT ![c] = "asking"]
    <3>1. ~Known(c) /\ seen' = seen /\ result' = result
      BY <1>0, <1>1, <2>3, MissIsFirst DEF Miss
    <3>2. Fine(c)'
      BY <1>0, <2>1, <2>3, <3>1 DEF LimitTypeOK
    <3> QED
      BY <1>0, <1>4, <2>1, <2>3, <3>1, <3>2 DEF LimitTypeOK
  <2> QED
    BY <1>6, <2>2, <2>3 DEF Begin
<1>7. ASSUME NEW c \in Callers, AskVersion(c)
      PROVE  \A d \in Callers : Fine(d)'
  <2>1. /\ phase[c] = "asking" /\ limit' = limit /\ outcome' = outcome
        /\ outcome[c] = Pending /\ ~Known(c)
    BY <1>2, <1>7 DEF AskVersion, LimitInv, UnderWay
  <2>2. CASE ReadRelease(c) /\ phase' = phase
    BY <1>2, <2>1, <2>2 DEF ReadRelease
  <2>3. CASE ReadFails(c) /\ phase' = [phase EXCEPT ![c] = "checked"]
    <3>1. seen' = seen /\ \E x : result' = [result EXCEPT ![c] = x]
      BY <2>3 DEF ReadFails
    <3>2. Fine(c)'
      BY <1>0, <2>1, <2>3, <3>1 DEF LimitTypeOK
    <3> QED
      BY <1>0, <1>4, <2>1, <2>3, <3>1, <3>2 DEF TypeOK, LimitTypeOK
  <2>4. CASE Store(c) /\ phase' = [phase EXCEPT ![c] = "checked"]
    <3>1. /\ result' = [result EXCEPT ![c] = Ok(FromU32(kernel[c]))]
          /\ \E x : seen' = [seen EXCEPT ![c] = x]
      BY <2>4 DEF Store
    <3>2. IsOk(Ok(FromU32(kernel[c])))
      BY DEF IsOk, Ok
    <3>3. Fine(c)'
      BY <1>0, <2>1, <2>4, <3>1, <3>2, Outcomes DEF TypeOK, LimitTypeOK
    <3> QED
      BY <1>0, <1>4, <2>1, <2>4, <3>1, <3>3 DEF TypeOK, LimitTypeOK
  <2> QED
    BY <1>7, <2>2, <2>3, <2>4 DEF AskVersion
<1>8. ASSUME NEW c \in Callers, OpenLimit(c)
      PROVE  \A d \in Callers : Fine(d)'
  <2>1. /\ phase[c] = "checked" /\ ~Refused(c)
        /\ phase' = [phase EXCEPT ![c] = "opened"]
        /\ UNCHANGED <<seen, result, limit, outcome>>
    BY <1>8 DEF OpenLimit, cacheVars
  <2>2. Known(c) => InRange(limit[c])
    BY <1>1, <1>2, <2>1, NotRefusedInRange
  <2>3. Fine(c)'
    BY <1>0, <1>2, <2>1, <2>2 DEF LimitTypeOK
  <2> QED
    BY <1>0, <1>4, <2>1, <2>3 DEF LimitTypeOK
<1>9. ASSUME NEW c \in Callers, WriteLimit(c)
      PROVE  \A d \in Callers : Fine(d)'
  <2>1. /\ phase[c] = "opened"
        /\ phase' = [phase EXCEPT ![c] = "none"] /\ outcome' = [outcome EXCEPT ![c] = Ok("done")]
        /\ UNCHANGED <<seen, result, limit>>
    BY <1>9 DEF WriteLimit, Finish, cacheVars
  <2>2. Fine(c)'
    BY <1>0, <1>2, <2>1 DEF LimitTypeOK
  <2> QED
    BY <1>0, <1>4, <2>1, <2>2 DEF LimitTypeOK
<1>10. ASSUME NEW c \in Callers, Refuse(c) \/ LimitFails(c) \/ Abandon(c)
       PROVE  \A d \in Callers : Fine(d)'
  <2>1. PICK x : /\ x # Ok("done")
                 /\ phase' = [phase EXCEPT ![c] = "none"] /\ outcome' = [outcome EXCEPT ![c] = x]
    BY <1>10, Outcomes DEF Refuse, LimitFails, Abandon, Finish
  <2>2. limit' = limit /\ seen' = seen
    BY <1>10 DEF Refuse, LimitFails, Abandon, Cancel, cacheVars
  <2>3. result' = result \/ result' = [result EXCEPT ![c] = Pending]
    BY <1>10 DEF Refuse, LimitFails, Abandon, Cancel, cacheVars
  <2>4. Fine(c)'
    BY <1>0, <2>1 DEF LimitTypeOK
  <2> QED
    BY <1>0, <1>4, <2>1, <2>2, <2>3, <2>4 DEF TypeOK, LimitTypeOK
<1> QED
  BY <1>5, <1>6, <1>7, <1>8, <1>9, <1>10 DEF LimitNext

-----------------------------------------------------------------------------
(* Theorems.                                                               *)

\* A call of set_threads_max, the cache it asks and the file keep their types,
\* and a call is asking for a version exactly while Version::cached runs.
THEOREM LimitTypeCorrect == LimitSpec => []LimitTypeOK
BY LimitInvariance, PTL DEF LimitInv

\* set_threads_max refuses a limit only if it is out of range and a kernel that
\* bounds it has been seen, whatever calls race and fail.
THEOREM RefusalsCorrect == LimitSpec => []RefusalsJustified
BY LimitInvariance, PTL DEF LimitInv

\* If no mounted kernel is a later x.0, and only kernels from 4.1 on have been
\* seen, a task that has had a version never sets a limit out of range.
THEOREM RangeCorrect ==
  ASSUME NoMinorZero
  PROVE  LimitSpec => []RangeChecked
<1>1. LimitInit => RangeInv
  <2> SUFFICES ASSUME LimitInit PROVE RangeInv
    OBVIOUS
  <2>1. \A c \in Callers : seen[c] = 0 /\ phase[c] = "none"
    BY DEF LimitInit, Init
  <2> QED
    BY <2>1 DEF RangeInv, CheckedInTime, RangeChecked, Known
<1>2. LimitInv /\ RangeInv /\ [LimitNext]_vars => RangeInv'
  BY RangeStep
<1>3. RangeInv => RangeChecked
  BY DEF RangeInv, RangeChecked, AllBounded
<1> QED
  BY <1>1, <1>2, <1>3, LimitInvariance, PTL DEF LimitSpec

\* The cache under set_threads_max is the cache of VersionCache: no call does
\* more to the static than Version::cached does, so all that is proved of the
\* cache holds for it.
THEOREM ComposedCache == LimitSpec => Spec
BY LimitStepIsCacheStep, PTL DEF LimitSpec, LimitInit, Spec
=============================================================================

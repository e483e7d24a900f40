--------------------------- MODULE SnapshotProofs ---------------------------
(* What percentile returns, for every list of samples; what the lists it   *)
(* is taken from may hold; that a snapshot shows what happened; and that   *)
(* the breaker and the client of a request are told the same of it, over   *)
(* the whole exception tree. For every window, cap and clock (Snapshot).   *)
EXTENDS Snapshot, SequenceTheorems, FiniteSetTheorems, WellFoundedInduction, TLAPS

\* Ceil(q) is the least number of hundreds that holds q.
LEMMA CeilIsLeast ==
    ASSUME NEW q \in Nat
    PROVE  /\ Ceil(q) \in Nat
           /\ q <= 100 * Ceil(q)
           /\ \A k \in Nat : q <= 100 * k => Ceil(q) <= k
  BY DEF Ceil

\* math.ceil((p / 100) * n) is a rank without clamping, for 0 < p <= 100.
LEMMA RankInRange ==
    ASSUME NEW n \in Nat \ {0}, NEW p \in 1 .. 100
    PROVE  /\ p * n \in Nat
           /\ Ceil(p * n) \in 1 .. n
           /\ Clamp(Ceil(p * n), n) = Ceil(p * n)
  <1>1. p * n \in Nat /\ p * n <= 100 * n /\ 0 < p * n
    OBVIOUS
  <1>2. Ceil(p * n) \in Nat /\ Ceil(p * n) <= n /\ p * n <= 100 * Ceil(p * n)
    BY <1>1, CeilIsLeast
  <1>3. Ceil(p * n) \in 1 .. n
    BY <1>1, <1>2
  <1> QED
    BY <1>1, <1>3 DEF Clamp

-----------------------------------------------------------------------------
(* Order statistics.                                                       *)

\* A finite, nonempty set has an element of the greatest value.
LEMMA Greatest ==
    ASSUME NEW S, IsFiniteSet(S), S # {}, NEW f, \A x \in S : f[x] \in Int
    PROVE  \E x \in S : \A y \in S : f[y] <= f[x]
<1> DEFINE Over(x) == {y \in S : f[y] > f[x]}
           R == StrictSubsetOrdering(S)
           T == {Over(x) : x \in S}
<1>1. IsWellFoundedOn(R, FiniteSubsetsOf(S))
  BY FS_StrictSubsetOrderingWellFounded
<1>2. T \subseteq FiniteSubsetsOf(S) /\ T # {}
  <2>1. ASSUME NEW x \in S PROVE Over(x) \in FiniteSubsetsOf(S)
    BY FS_Subset DEF FiniteSubsetsOf
  <2> QED
    BY <2>1
<1>3. PICK U \in T : \A V \in T : ~(<<V, U>> \in R)
  <2> HIDE DEF T, R
  <2> QED
    BY <1>1, <1>2, WFMin
<1>4. PICK x \in S : U = Over(x)
  BY <1>3
<1>5. ASSUME NEW y \in S, f[y] > f[x] PROVE FALSE
  <2>1. Over(y) \in T /\ Over(y) \in SUBSET S /\ Over(x) \in SUBSET S
    OBVIOUS
  <2>2. y \in Over(x) /\ y \notin Over(y)
    BY <1>5
  <2>3. Over(y) \subseteq Over(x)
    BY <1>5
  <2>4. <<Over(y), Over(x)>> \in R
    BY <2>1, <2>2, <2>3, Zenon DEF StrictSubsetOrdering
  <2> QED
    BY <1>3, <1>4, <2>1, <2>4
<1>6. \A y \in S : f[y] <= f[x]
  BY <1>5
<1> QED
  BY <1>6

\* The values of f, as far as its order statistics go.
Valued(f) == IsFiniteSet(DOMAIN f) /\ \A x \in DOMAIN f : f[x] \in Int

\* What is counted of them is finite.
LEMMA CountsAre ==
    ASSUME NEW f, Valued(f), NEW v
    PROVE  /\ IsFiniteSet({x \in DOMAIN f : f[x] < v})
           /\ IsFiniteSet({x \in DOMAIN f : f[x] <= v})
           /\ Below(f, v) \in Nat /\ UpTo(f, v) \in Nat
           /\ Cardinality(DOMAIN f) \in Nat
           /\ UpTo(f, v) <= Cardinality(DOMAIN f)
<1>1. /\ {x \in DOMAIN f : f[x] < v} \in SUBSET DOMAIN f
      /\ {x \in DOMAIN f : f[x] <= v} \in SUBSET DOMAIN f
  OBVIOUS
<1>2. IsFiniteSet(DOMAIN f)
  BY DEF Valued
<1>3. /\ IsFiniteSet({x \in DOMAIN f : f[x] < v})
      /\ IsFiniteSet({x \in DOMAIN f : f[x] <= v})
      /\ Cardinality({x \in DOMAIN f : f[x] <= v}) <= Cardinality(DOMAIN f)
  BY <1>1, <1>2, FS_Subset
<1> QED
  BY <1>2, <1>3, FS_CardinalityType DEF Below, UpTo

\* Of fewer values those up to one are fewer.
LEMMA UpToBelow ==
    ASSUME NEW f, Valued(f), NEW v \in Int, NEW w \in Int, v < w
    PROVE  UpTo(f, v) <= Below(f, w)
<1>1. {x \in DOMAIN f : f[x] <= v} \in SUBSET {x \in DOMAIN f : f[x] < w}
  BY DEF Valued
<1>2. IsFiniteSet({x \in DOMAIN f : f[x] < w})
  BY CountsAre
<1> QED
  BY <1>1, <1>2, FS_Subset DEF UpTo, Below

\* What Ascending chooses for a place.
Placed(f, i, v) == v \in Range(f) /\ Below(f, v) < i /\ i <= UpTo(f, v)

\* Every place has a value: the least of those that enough values are up to.
LEMMA PlaceHasValue ==
    ASSUME NEW f, Valued(f), NEW i \in 1 .. Cardinality(DOMAIN f)
    PROVE  \E v : Placed(f, i, v)
<1> DEFINE D == DOMAIN f
           Upto(x) == {y \in D : f[y] <= f[x]}
           Under(x) == {y \in D : f[y] < f[x]}
           R == StrictSubsetOrdering(D)
           T == {U \in {Upto(x) : x \in D} : i <= Cardinality(U)}
<1>1. /\ IsFiniteSet(D) /\ Cardinality(D) \in Nat /\ i \in Nat \ {0}
      /\ i <= Cardinality(D)
      /\ \A x \in D : f[x] \in Int
  BY FS_CardinalityType DEF Valued
<1>2. IsWellFoundedOn(R, FiniteSubsetsOf(D))
  BY FS_StrictSubsetOrderingWellFounded
<1>3. ASSUME NEW x \in D
      PROVE  /\ Upto(x) \in SUBSET D /\ Under(x) \in SUBSET D
             /\ IsFiniteSet(Upto(x)) /\ IsFiniteSet(Under(x))
             /\ Cardinality(Upto(x)) \in Nat /\ Cardinality(Under(x)) \in Nat
  <2>1. Upto(x) \in SUBSET D /\ Under(x) \in SUBSET D
    OBVIOUS
  <2> HIDE DEF Upto, Under
  <2> QED
    BY <1>1, <2>1, FS_Subset, FS_CardinalityType
<1>4. T \subseteq FiniteSubsetsOf(D)
  <2>1. \A x \in D : Upto(x) \in FiniteSubsetsOf(D)
    BY <1>3 DEF FiniteSubsetsOf
  <2> QED
    BY <2>1
<1>5. T # {}
  <2>1. D # {}
    <3>1. D = {} => Cardinality(D) = 0
      BY FS_EmptySet
    <3>2. Cardinality(D) # 0
      BY <1>1
    <3> HIDE DEF D
    <3> QED
      BY <3>1, <3>2, Zenon
  <2>2. PICK x \in D : \A y \in D : f[y] <= f[x]
    BY <1>1, <2>1, Greatest
  <2>3. Upto(x) = D
    BY <2>2
  <2>4. i <= Cardinality(Upto(x))
    BY <1>1, <2>3
  <2> HIDE DEF Upto
  <2> QED
    BY <2>4
<1>6. PICK U \in T : \A V \in T : ~(<<V, U>> \in R)
  <2> HIDE DEF T, R
  <2> QED
    BY <1>2, <1>4, <1>5, WFMin
<1>7. PICK x \in D : U = Upto(x) /\ i <= Cardinality(Upto(x))
  BY <1>6
<1>8. Cardinality(Under(x)) < i
  <2>1. CASE i <= Cardinality(Under(x))
    <3>1. Under(x) # {} /\ IsFiniteSet(Under(x))
      <4>1. Under(x) = {} => Cardinality(Under(x)) = 0
        BY FS_EmptySet
      <4> HIDE DEF Under
      <4>2. Cardinality(Under(x)) # 0 /\ IsFiniteSet(Under(x))
        <5>1. /\ Cardinality(Under(x)) \in Nat /\ IsFiniteSet(Under(x))
              /\ i \in Nat \ {0}
          BY <1>1, <1>3
        <5> QED
          BY <2>1, <5>1
      <4> QED
        BY <4>1, <4>2, Zenon
    <3>2. PICK y \in Under(x) : \A z \in Under(x) : f[z] <= f[y]
      <4>1. \A z \in Under(x) : f[z] \in Int
        BY <1>1
      <4> HIDE DEF Under
      <4> QED
        BY <3>1, <4>1, Greatest
    <3>3. Upto(y) = Under(x)
      BY <1>1, <3>2
    <3>4. Upto(y) \in T
      <4>1. y \in D /\ i <= Cardinality(Upto(y))
        BY <2>1, <3>2, <3>3
      <4> HIDE DEF Upto
      <4> QED
        BY <4>1
    <3>5. /\ Upto(y) \in SUBSET D /\ Upto(x) \in SUBSET D
          /\ Upto(y) \subseteq Upto(x)
          /\ x \in Upto(x) /\ x \notin Upto(y)
      BY <1>1, <3>2
    <3>6. <<Upto(y), Upto(x)>> \in R
      <4> HIDE DEF Upto
      <4> QED
        BY <3>5, Zenon DEF StrictSubsetOrdering
    <3> QED
      BY <1>6, <1>7, <3>4, <3>6
  <2>2. Cardinality(Under(x)) \in Nat /\ i \in Nat
    BY <1>1, <1>3
  <2> HIDE DEF Under
  <2> QED
    BY <2>1, <2>2
<1>9. Placed(f, i, f[x])
  BY <1>7, <1>8 DEF Placed, Range, Below, UpTo
<1> QED
  BY <1>9

\* sorted: every place has its value.
LEMMA AscendingIs ==
    ASSUME NEW f, Valued(f)
    PROVE  /\ Ascending(f) \in Seq(Int)
           /\ Len(Ascending(f)) = Cardinality(DOMAIN f)
           /\ \A i \in 1 .. Cardinality(DOMAIN f) : Placed(f, i, Ascending(f)[i])
<1> DEFINE n == Cardinality(DOMAIN f)
           a == Ascending(f)
<1>1. n \in Nat
  BY CountsAre
<1>2. a = [i \in 1 .. n |-> CHOOSE v \in Range(f) : Below(f, v) < i /\ i <= UpTo(f, v)]
  BY DEF Ascending
<1>3. ASSUME NEW i \in 1 .. n PROVE Placed(f, i, a[i])
  <2>1. \E v \in Range(f) : Below(f, v) < i /\ i <= UpTo(f, v)
    <3>1. PICK v : Placed(f, i, v)
      BY PlaceHasValue
    <3> QED
      BY <3>1 DEF Placed
  <2>2. a[i] = CHOOSE v \in Range(f) : Below(f, v) < i /\ i <= UpTo(f, v)
    BY <1>2
  <2> HIDE DEF a
  <2> QED
    BY <2>1, <2>2 DEF Placed
<1>4. \A v \in Range(f) : v \in Int
  BY DEF Range, Valued
<1> HIDE DEF n, a
<1>5. a \in [1 .. n -> Int]
  <2>1. \A i \in 1 .. n : a[i] \in Int
    BY <1>3, <1>4 DEF Placed
  <2>2. DOMAIN a = 1 .. n /\ a = [i \in 1 .. n |-> a[i]]
    BY <1>2
  <2> QED
    BY <2>1, <2>2
<1>6. a \in Seq(Int) /\ Len(a) = n
  BY <1>1, <1>5
<1> QED
  BY <1>3, <1>6 DEF a, n

\* Ascending is sorted(): in order, and with as many entries up to any value.
THEOREM AscendingSorts ==
    ASSUME NEW f, Valued(f)
    PROVE  LET a == Ascending(f) IN
           /\ \A i, j \in DOMAIN a : i <= j => a[i] <= a[j]
           /\ \A v \in Int : UpTo(a, v) = UpTo(f, v)
<1> DEFINE n == Cardinality(DOMAIN f)
           a == Ascending(f)
<1>1. /\ n \in Nat /\ a \in Seq(Int) /\ Len(a) = n
      /\ \A i \in 1 .. n : Placed(f, i, a[i])
  BY CountsAre, AscendingIs
<1> HIDE DEF n, a
<1>2. DOMAIN a = 1 .. n /\ \A i \in 1 .. n : a[i] \in Int
  BY <1>1
<1>3. ASSUME NEW i \in 1 .. n, NEW v \in Int PROVE a[i] <= v <=> i <= UpTo(f, v)
  <2>1. /\ Below(f, a[i]) < i /\ i <= UpTo(f, a[i]) /\ a[i] \in Int
        /\ Below(f, a[i]) \in Nat /\ UpTo(f, a[i]) \in Nat /\ UpTo(f, v) \in Nat
    BY <1>1, <1>2, CountsAre DEF Placed
  <2>2. ASSUME v < a[i] PROVE UpTo(f, v) < i
    <3>1. UpTo(f, v) <= Below(f, a[i])
      BY <2>1, <2>2, UpToBelow
    <3> QED
      BY <2>1, <3>1
  <2>3. ASSUME a[i] <= v PROVE UpTo(f, a[i]) <= UpTo(f, v)
    <3>1. {x \in DOMAIN f : f[x] <= a[i]} \in SUBSET {x \in DOMAIN f : f[x] <= v}
      BY <2>1, <2>3 DEF Valued
    <3>2. IsFiniteSet({x \in DOMAIN f : f[x] <= v})
      BY CountsAre
    <3> QED
      BY <3>1, <3>2, FS_Subset, Zenon DEF UpTo
  <2> QED
    BY <2>1, <2>2, <2>3
<1>4. ASSUME NEW i \in 1 .. n, NEW j \in 1 .. n, i <= j PROVE a[i] <= a[j]
  <2>1. a[j] \in Int /\ j <= UpTo(f, a[j]) /\ UpTo(f, a[j]) \in Nat
    BY <1>1, <1>2, CountsAre DEF Placed
  <2>2. i <= UpTo(f, a[j])
    BY <1>4, <2>1
  <2> QED
    BY <1>3, <2>1, <2>2
<1>5. ASSUME NEW v \in Int PROVE UpTo(a, v) = UpTo(f, v)
  <2>1. UpTo(f, v) \in Nat /\ UpTo(f, v) <= n
    BY CountsAre DEF n
  <2>2. {i \in DOMAIN a : a[i] <= v} = 1 .. UpTo(f, v)
    BY <1>1, <1>2, <1>3, <2>1
  <2>3. Cardinality(1 .. UpTo(f, v)) = UpTo(f, v)
    <3>1. 1 \in Int /\ UpTo(f, v) \in Int
      BY <2>1
    <3> DEFINE m == UpTo(f, v)
    <3>2. Cardinality(1 .. m) = IF 1 > m THEN 0 ELSE m - 1 + 1
      BY <3>1, FS_Interval
    <3>3. m \in Nat
      BY <2>1
    <3> HIDE DEF m
    <3>4. Cardinality(1 .. m) = m
      BY <3>2, <3>3
    <3> QED
      BY <3>4 DEF m
  <2> QED
    BY <2>2, <2>3 DEF UpTo
<1>6. /\ \A i, j \in DOMAIN a : i <= j => a[i] <= a[j]
      /\ \A v \in Int : UpTo(a, v) = UpTo(f, v)
  BY <1>2, <1>4, <1>5
<1> QED
  BY <1>6 DEF a

\* latency.py "every value returned is a latency some request actually
\* experienced", of the nearest rank: at least p percent of the samples are up
\* to it, and fewer than p percent are below it.
THEOREM PercentileIsNearestRank ==
    ASSUME NEW f, Valued(f), NEW p \in 1 .. 100,
           NEW n, n = Cardinality(DOMAIN f), n > 0,
           NEW v, v = Percentile(Ascending(f), p)
    PROVE  v \in Range(f) /\ p * n <= 100 * UpTo(f, v) /\ 100 * Below(f, v) < p * n
<1> DEFINE a == Ascending(f)
           i == Ceil(p * n)
<1>1. /\ n \in Nat \ {0} /\ a \in Seq(Int) /\ Len(a) = n
      /\ \A j \in 1 .. n : Placed(f, j, a[j])
  BY CountsAre, AscendingIs
<1>2. p * n \in Nat /\ i \in 1 .. n /\ Clamp(i, n) = i
  BY <1>1, RankInRange
<1>3. v = a[i]
  <2>1. a # <<>>
    BY <1>1
  <2> HIDE DEF a
  <2> QED
    BY <1>1, <1>2, <2>1 DEF Percentile, a
<1>4. p * n <= 100 * i
  BY <1>2, CeilIsLeast, Zenon
<1>5. \A j \in Nat : p * n <= 100 * j => i <= j
  BY <1>2, CeilIsLeast, Zenon
<1> HIDE DEF i, a
<1>6. v \in Range(f) /\ Below(f, v) < i /\ i <= UpTo(f, v)
  BY <1>1, <1>2, <1>3 DEF Placed
<1>7. Below(f, v) \in Nat /\ UpTo(f, v) \in Nat
  BY CountsAre
<1>8. ~(p * n <= 100 * Below(f, v))
  BY <1>2, <1>5, <1>6, <1>7
<1>9. p * n <= 100 * UpTo(f, v)
  BY <1>2, <1>4, <1>6, <1>7
<1> QED
  BY <1>2, <1>6, <1>7, <1>8, <1>9

-----------------------------------------------------------------------------
(* The lists.                                                              *)
LEMMA MinOfTwo ==
    ASSUME NEW m \in Int, NEW n \in Int
    PROVE  Min({m, n}) \in Int /\ Min({m, n}) <= m /\ Min({m, n}) <= n
<1>1. \E x \in {m, n} : \A y \in {m, n} : x <= y
  OBVIOUS
<1>2. /\ Min({m, n}) \in {m, n}
      /\ \A y \in {m, n} : Min({m, n}) <= y
  BY <1>1 DEF Min
<1> QED
  BY <1>2

\* Whatever is pushed, by whomever, the list stays within its cap.
LEMMA PushKeeps ==
    ASSUME TypeOK, NEW b \in Bucket, NEW raw \in Raw, Push(b, raw)
    PROVE  /\ list' \in [Bucket -> Seq(Raw)]
           /\ \A c \in Bucket : Len(list'[c]) <= SampleCap
<1> DEFINE longer == <<raw>> \o list[b]
           kept == Min({SampleCap, Len(list[b]) + 1})
<1>0. /\ list \in [Bucket -> Seq(Raw)]
      /\ \A c \in Bucket : Len(list[c]) <= SampleCap
  BY DEF TypeOK
<1>1. list[b] \in Seq(Raw) /\ Len(list[b]) \in Nat
  BY <1>0
<1>2. longer \in Seq(Raw) /\ Len(longer) = Len(list[b]) + 1
  BY <1>1
<1>3. kept \in Int /\ kept <= SampleCap /\ kept <= Len(longer)
  <2>1. SampleCap \in Int /\ Len(list[b]) + 1 \in Int
    BY <1>1, SnapshotAssumption
  <2>2. kept \in Int /\ kept <= SampleCap /\ kept <= Len(list[b]) + 1
    BY <2>1, MinOfTwo
  <2> HIDE DEF longer, kept
  <2> QED
    BY <1>2, <2>2
<1>4. SubSeq(longer, 1, kept) \in Seq(Raw)
        /\ Len(SubSeq(longer, 1, kept)) <= SampleCap
  <2> HIDE DEF longer, kept
  <2>1. CASE kept >= 1
    BY <1>2, <1>3, <2>1, SnapshotAssumption
  <2>2. CASE kept < 1
    BY <1>2, <1>3, <2>2, SnapshotAssumption
  <2> QED
    BY <1>3, <2>1, <2>2
<1>5. list' = [list EXCEPT ![b] = SubSeq(longer, 1, kept)]
  BY DEF Push
<1>6. ASSUME NEW c \in Bucket
      PROVE  list'[c] = IF c = b THEN SubSeq(longer, 1, kept) ELSE list[c]
  <2> HIDE DEF longer, kept
  <2> QED
    BY <1>0, <1>5
<1> DEFINE trimmed == SubSeq(longer, 1, kept)
<1> HIDE DEF trimmed
<1>7. list' \in [Bucket -> Seq(Raw)]
  <2>1. trimmed \in Seq(Raw) /\ list' = [list EXCEPT ![b] = trimmed]
    BY <1>4, <1>5 DEF trimmed
  <2> QED
    BY <1>0, <2>1
<1>8. ASSUME NEW c \in Bucket PROVE Len(list'[c]) <= SampleCap
  <2>1. Len(trimmed) <= SampleCap /\ list'[c] = IF c = b THEN trimmed ELSE list[c]
    BY <1>4, <1>6 DEF trimmed
  <2> QED
    BY <1>0, <2>1
<1> QED
  BY <1>7, <1>8

\* Counting under a name that has no counter changes nothing.
LEMMA OneMore ==
    ASSUME NEW S, NEW f \in [S -> Nat], NEW x
    PROVE  [f EXCEPT ![x] = @ + 1] \in [S -> Nat]
<1> DEFINE g == [f EXCEPT ![x] = @ + 1]
<1>1. DOMAIN g = S /\ g = [y \in S |-> g[y]]
  OBVIOUS
<1>2. ASSUME NEW y \in S PROVE g[y] \in Nat
  <2>1. f[y] \in Nat
    OBVIOUS
  <2>2. g[y] = IF y = x THEN f[x] + 1 ELSE f[y]
    OBVIOUS
  <2> QED
    BY <2>1, <2>2
<1>3. g \in [S -> Nat]
  <2> HIDE DEF g
  <2> QED
    BY <1>1, <1>2
<1> QED
  BY <1>3

LEMMA CountKeeps ==
    ASSUME TypeOK, NEW b \in Bucket, NEW f, Count(b, f)
    PROVE  hash' \in [Bucket -> [Field -> Nat]]
<1> DEFINE more == [hash[b] EXCEPT ![f] = @ + 1]
<1>1. hash' = [hash EXCEPT ![b] = more]
  BY DEF Count
<1>2. hash[b] \in [Field -> Nat]
  BY DEF TypeOK
<1>3. more \in [Field -> Nat]
  BY <1>2, OneMore
<1> HIDE DEF more
<1> QED
  BY <1>1, <1>3 DEF TypeOK

\* A step keeps the type if it keeps each variable's.
LEMMA TypeOfParts ==
    ASSUME hash' \in [Bucket -> [Field -> Nat]],
           list' \in [Bucket -> Seq(Raw)],
           \A b \in Bucket : Len(list'[b]) <= SampleCap,
           ended' \in [Known -> Nat],
           told' \in [Code -> Nat],
           foreign' \in 0 .. MaxForeign
    PROVE  TypeOK'
  BY DEF TypeOK

LEMMA TypesInit == Init => TypeOK
<1> SUFFICES ASSUME Init PROVE TypeOK
  OBVIOUS
<1>1. hash \in [Bucket -> [Field -> Nat]] /\ told \in [Code -> Nat]
  BY DEF Init
<1>2. /\ list \in [Bucket -> Seq(Raw)]
      /\ \A b \in Bucket : Len(list[b]) <= SampleCap
  BY SnapshotAssumption DEF Init
<1>3. ended \in [Known -> Nat] /\ foreign \in 0 .. MaxForeign
  BY SnapshotAssumption DEF Init
<1> QED
  BY <1>1, <1>2, <1>3 DEF TypeOK

LEMMA TypesNext == TypeOK /\ [Next]_vars => TypeOK'
<1> SUFFICES ASSUME TypeOK, [Next]_vars PROVE TypeOK'
  OBVIOUS
<1>1. CASE UNCHANGED vars
  BY <1>1 DEF TypeOK, vars
<1>2. ASSUME NEW b \in Bucket, NEW cause \in Cause, NEW ms \in Milliseconds,
             Record(b, cause, ms)
      PROVE  TypeOK'
  <2>1. ms \in Raw
    BY SnapshotAssumption DEF Raw
  <2>2. /\ list' \in [Bucket -> Seq(Raw)]
        /\ \A c \in Bucket : Len(list'[c]) <= SampleCap
    BY <1>2, <2>1, PushKeeps DEF Record
  <2>3. hash' \in [Bucket -> [Field -> Nat]]
    BY <1>2, CountKeeps DEF Record
  <2>4. ended' \in [Known -> Nat]
    <3>1. ended \in [Known -> Nat]
      BY DEF TypeOK
    <3>2. PICK x : ended' = [ended EXCEPT ![x] = @ + 1]
      BY <1>2 DEF Record
    <3> QED
      BY <3>1, <3>2, OneMore
  <2>5. told' \in [Code -> Nat]
    <3>1. told \in [Code -> Nat]
      BY DEF TypeOK
    <3>2. PICK x : told' = [told EXCEPT ![x] = @ + 1]
      BY <1>2 DEF Record
    <3> QED
      BY <3>1, <3>2, OneMore
  <2>6. foreign' \in 0 .. MaxForeign
    BY <1>2, Zenon DEF Record, TypeOK
  <2> QED
    BY <2>2, <2>3, <2>4, <2>5, <2>6, TypeOfParts, Zenon
<1>3. ASSUME NEW b \in Bucket, NEW ms \in Milliseconds, NewerBuildRecords(b, ms)
      PROVE  TypeOK'
  <2>1. ms \in Raw
    BY SnapshotAssumption DEF Raw
  <2>2. /\ list' \in [Bucket -> Seq(Raw)]
        /\ \A c \in Bucket : Len(list'[c]) <= SampleCap
    BY <1>3, <2>1, PushKeeps DEF NewerBuildRecords
  <2>3. hash' \in [Bucket -> [Field -> Nat]]
    BY <1>3, CountKeeps DEF NewerBuildRecords
  <2>4. foreign' \in 0 .. MaxForeign
    <3>1. foreign \in 0 .. MaxForeign /\ foreign < MaxForeign /\ foreign' = foreign + 1
      BY <1>3, Zenon DEF NewerBuildRecords, TypeOK
    <3> QED
      BY <3>1, SnapshotAssumption
  <2>5. ended' \in [Known -> Nat] /\ told' \in [Code -> Nat]
    BY <1>3, Zenon DEF NewerBuildRecords, TypeOK
  <2> QED
    BY <2>2, <2>3, <2>4, <2>5, TypeOfParts, Zenon
<1>4. ASSUME NEW b \in Bucket, NEW raw \in {Malformed, -1}, Tamper(b, raw)
      PROVE  TypeOK'
  <2>1. raw \in Raw
    BY DEF Raw
  <2>2. /\ list' \in [Bucket -> Seq(Raw)]
        /\ \A c \in Bucket : Len(list'[c]) <= SampleCap
    BY <1>4, <2>1, PushKeeps DEF Tamper
  <2>3. foreign' \in 0 .. MaxForeign
    <3>1. foreign \in 0 .. MaxForeign /\ foreign < MaxForeign /\ foreign' = foreign + 1
      BY <1>4, Zenon DEF Tamper, TypeOK
    <3> QED
      BY <3>1, SnapshotAssumption
  <2>4. /\ hash' \in [Bucket -> [Field -> Nat]]
        /\ ended' \in [Known -> Nat]
        /\ told' \in [Code -> Nat]
    BY <1>4, Zenon DEF Tamper, TypeOK
  <2> QED
    BY <2>2, <2>3, <2>4, TypeOfParts, Zenon
<1> QED
  BY <1>1, <1>2, <1>3, <1>4 DEF Next

\* latency.py:112, LTRIM by every writer: no list of the window outgrows
\* SAMPLE_CAP, whoever writes to it and whatever they write.
THEOREM ListsAreCapped == Spec => []TypeOK
BY TypesInit, TypesNext, PTL DEF Spec

-----------------------------------------------------------------------------
(* The samples.                                                            *)

\* Whatever others push, what parse_samples keeps is a latency of an attempt.
Timed ==
    \A b \in Bucket : \A i \in DOMAIN list[b] :
        Usable(list[b][i]) => list[b][i] \in Milliseconds

\* A push keeps of a list what it does not trim.
LEMMA PushTimes ==
    ASSUME TypeOK, Timed, NEW b \in Bucket, NEW raw \in Raw, Push(b, raw),
           Usable(raw) => raw \in Milliseconds
    PROVE  Timed'
<1> DEFINE old == list[b]
           kept == Min({SampleCap, Len(old) + 1})
           longer == <<raw>> \o old
           trimmed == SubSeq(longer, 1, kept)
<1>1. list \in [Bucket -> Seq(Raw)] /\ old \in Seq(Raw)
  BY DEF TypeOK
<1>2. list' = [list EXCEPT ![b] = trimmed]
  BY DEF Push
<1> HIDE DEF kept
<1>3. kept \in Int /\ kept <= Len(old) + 1
  <2>1. SampleCap \in Int /\ Len(old) + 1 \in Int
    BY <1>1, SnapshotAssumption
  <2> HIDE DEF old
  <2> QED
    BY <2>1, MinOfTwo DEF kept
<1> HIDE DEF old
<1>4. /\ longer \in Seq(Raw) /\ Len(longer) = Len(old) + 1 /\ Len(old) \in Nat
      /\ longer[1] = raw
      /\ \A j \in 1 .. Len(old) : longer[j + 1] = old[j]
  BY <1>1
<1> HIDE DEF longer
<1>5. /\ DOMAIN trimmed \subseteq 1 .. Len(old) + 1
      /\ \A j \in DOMAIN trimmed : trimmed[j] = longer[j]
  <2>1. CASE kept >= 1
    BY <1>3, <1>4, <2>1
  <2>2. CASE kept < 1
    BY <1>3, <1>4, <2>2
  <2> QED
    BY <1>3, <2>1, <2>2
<1> HIDE DEF trimmed
<1>6. ASSUME NEW j \in DOMAIN trimmed, Usable(trimmed[j])
      PROVE  trimmed[j] \in Milliseconds
  <2>1. trimmed[j] = longer[j] /\ j \in 1 .. Len(old) + 1
    BY <1>5
  <2>2. CASE j = 1
    BY <1>4, <1>6, <2>1, <2>2
  <2>3. CASE j # 1
    <3>1. j - 1 \in 1 .. Len(old) /\ j = (j - 1) + 1
      BY <1>4, <2>1, <2>3
    <3>2. longer[j] = old[j - 1]
      BY <1>4, <3>1
    <3>3. j - 1 \in DOMAIN old
      BY <1>1, <3>1
    <3> QED
      BY <1>6, <2>1, <3>2, <3>3 DEF Timed, old
  <2> QED
    BY <2>2, <2>3
<1>7. ASSUME NEW c \in Bucket
      PROVE  list'[c] = IF c = b THEN trimmed ELSE list[c]
  BY <1>1, <1>2
<1> QED
  BY <1>6, <1>7 DEF Timed

LEMMA TimedInit == Init => Timed
BY DEF Init, Timed

LEMMA TimedNext == TypeOK /\ Timed /\ [Next]_vars => Timed'
<1> SUFFICES ASSUME TypeOK, Timed, [Next]_vars PROVE Timed'
  OBVIOUS
<1>1. CASE UNCHANGED vars
  BY <1>1 DEF Timed, vars
<1>2. ASSUME NEW b \in Bucket, NEW ms \in Milliseconds, Push(b, ms) PROVE Timed'
  <2>1. ms \in Raw
    BY SnapshotAssumption DEF Raw
  <2> QED
    BY <1>2, <2>1, PushTimes
<1>3. ASSUME NEW b \in Bucket, NEW raw \in {Malformed, -1}, Push(b, raw) PROVE Timed'
  <2>1. raw \in Raw
    BY DEF Raw
  <2>2. ~Usable(raw)
    BY DEF Usable
  <2> QED
    BY <1>3, <2>1, <2>2, PushTimes
<1> QED
  BY <1>1, <1>2, <1>3 DEF Next, Record, NewerBuildRecords, Tamper

\* The samples are finitely many latencies.
LEMMA SamplesValued ==
    ASSUME TypeOK, Timed
    PROVE  /\ DOMAIN Samples = Entries
           /\ Valued(Samples) /\ Range(Samples) \subseteq Milliseconds
<1>1. DOMAIN Samples = Entries /\ \A e \in Entries : Samples[e] = list[e[1]][e[2]]
  BY DEF Samples
<1>2. ASSUME NEW e \in Entries
      PROVE  /\ e \in Bucket \X (1 .. SampleCap)
             /\ list[e[1]][e[2]] \in Milliseconds
  <2>1. PICK b \in Bucket : e \in {b} \X DOMAIN list[b]
    BY DEF Entries
  <2>2. e = <<b, e[2]>> /\ e[2] \in DOMAIN list[b] /\ e[1] = b
    BY <2>1
  <2>3. /\ DOMAIN list[b] = 1 .. Len(list[b]) /\ Len(list[b]) \in Nat
        /\ Len(list[b]) <= SampleCap
    BY DEF TypeOK
  <2>4. e[2] \in 1 .. SampleCap
    BY <2>2, <2>3, SnapshotAssumption
  <2>5. Usable(list[b][e[2]])
    BY <2>2 DEF Entries
  <2> QED
    BY <2>2, <2>4, <2>5 DEF Timed
<1>3. IsFiniteSet(Entries)
  <2>1. IsFiniteSet(1 .. SampleCap)
    BY SnapshotAssumption, FS_Interval
  <2>2. IsFiniteSet(Bucket \X (1 .. SampleCap))
    BY <2>1, SnapshotAssumption, FS_Product
  <2>3. Entries \in SUBSET (Bucket \X (1 .. SampleCap))
    BY <1>2
  <2> QED
    BY <2>2, <2>3, FS_Subset
<1>4. Milliseconds \subseteq Int
  BY SnapshotAssumption
<1> QED
  BY <1>1, <1>2, <1>3, <1>4 DEF Valued, Range

\* Whatever is in the lists, of whichever build or tool: every percentile of a
\* snapshot is a latency of an attempt, of the nearest rank.
THEOREM PercentilesAreNear == Spec => []PercentilesAreNearestRank
<1>1. TypeOK /\ Timed => PercentilesAreNearestRank
  <2> SUFFICES ASSUME TypeOK, Timed PROVE PercentilesAreNearestRank
    OBVIOUS
  <2> DEFINE n == Cardinality(Entries)
             a == Ascending(Samples)
  <2>1. /\ Valued(Samples) /\ DOMAIN Samples = Entries
        /\ Range(Samples) \subseteq Milliseconds
    BY SamplesValued
  <2>2. n \in Nat /\ a \in Seq(Int) /\ Len(a) = n
    BY <2>1, CountsAre, AscendingIs
  <2>3. /\ Health.sample_count = Len(a)
        /\ \A p \in {50, 95, 99} : Health.percentiles[p] = Percentile(a, p)
    BY DEF Health
  <2> HIDE DEF n, a
  <2>4. ASSUME n = 0, NEW p \in {50, 95, 99} PROVE Percentile(a, p) = None
    <3>1. a = <<>>
      BY <2>2, <2>4
    <3> QED
      BY <3>1 DEF Percentile
  <2>5. ASSUME n # 0, NEW p \in {50, 95, 99}
        PROVE  LET v == Percentile(a, p)
               IN  /\ v \in Milliseconds
                   /\ 100 * UpTo(Samples, v) >= p * n
                   /\ 100 * Below(Samples, v) < p * n
    <3> DEFINE v == Percentile(a, p)
    <3>1. n > 0 /\ n = Cardinality(DOMAIN Samples) /\ p \in 1 .. 100
      BY <2>1, <2>2, <2>5 DEF n
    <3>2. v = Percentile(Ascending(Samples), p)
      BY DEF a
    <3> HIDE DEF v
    <3>3. /\ v \in Range(Samples)
          /\ p * n <= 100 * UpTo(Samples, v) /\ 100 * Below(Samples, v) < p * n
      BY <2>1, <3>1, <3>2, PercentileIsNearestRank
    <3>4. v \in Milliseconds
      BY <2>1, <3>3
    <3>5. p * n \in Nat /\ UpTo(Samples, v) \in Nat
      <4>1. p * n \in Nat
        BY <2>2, <3>1
      <4>2. UpTo(Samples, v) \in Nat
        BY <2>1, CountsAre
      <4> QED
        BY <4>1, <4>2
    <3>6. 100 * UpTo(Samples, v) >= p * n
      BY <3>3, <3>5
    <3> QED
      BY <3>3, <3>4, <3>6 DEF v
  <2> QED
    BY <2>2, <2>3, <2>4, <2>5 DEF PercentilesAreNearestRank, n
<1> QED
  BY <1>1, TypesInit, TypesNext, TimedInit, TimedNext, PTL DEF Spec

-----------------------------------------------------------------------------
(* The error map.                                                          *)
Bases == DOMAIN Children

\* The bases of the bases, by what they are derived from.
Above(b) ==
    CASE b = "Exception" -> {"Exception"}
      [] b = "OpenAIError" -> {"OpenAIError", "Exception"}
      [] b = "APIError" -> {"APIError", "OpenAIError", "Exception"}
      [] b = "APIConnectionError" ->
            {"APIConnectionError", "APIError", "OpenAIError", "Exception"}
      [] b = "APITimeoutError" ->
            {"APITimeoutError", "APIConnectionError", "APIError", "OpenAIError",
             "Exception"}
      [] b = "BadRequestError" ->
            {"BadRequestError", "APIError", "OpenAIError", "Exception"}

LEMMA BasesAre ==
    /\ Bases = {"Exception", "OpenAIError", "APIError", "APIConnectionError",
                "APITimeoutError", "BadRequestError"}
    /\ Children["Exception"] = {"OpenAIError", "LBudgetExceededError", "Unrelated"}
    /\ Children["OpenAIError"] = {"APIError", "LOpenAIError"}
    /\ Children["APIError"] =
          {"APIConnectionError", "RateLimitError", "AuthenticationError",
           "PermissionDeniedError", "BadRequestError", "NotFoundError",
           "UnprocessableEntityError", "ConflictError", "InternalServerError",
           "LServiceUnavailableError", "LBadGatewayError", "LAPIError"}
    /\ Children["APIConnectionError"] = {"APITimeoutError", "LAPIConnectionError"}
    /\ Children["APITimeoutError"] = {"LTimeout"}
    /\ Children["BadRequestError"] =
          {"LContentPolicyViolationError", "LContextWindowExceededError"}
  BY DEF Bases, Children

\* No type has two bases.
LEMMA BaseIs ==
    ASSUME NEW b \in Bases, NEW t \in Children[b]
    PROVE  BaseOf(t) = b
<1>1. ASSUME NEW c \in Bases, t \in Children[c] PROVE c = b
  BY <1>1, BasesAre
<1>2. BaseOf(t) = CHOOSE c \in Bases : t \in Children[c]
  BY DEF BaseOf, Bases
<1> QED
  BY <1>1, <1>2

LEMMA BasesOfBases ==
    /\ BaseOf("OpenAIError") = "Exception"
    /\ BaseOf("APIError") = "OpenAIError"
    /\ BaseOf("APIConnectionError") = "APIError"
    /\ BaseOf("BadRequestError") = "APIError"
    /\ BaseOf("APITimeoutError") = "APIConnectionError"
  BY BasesAre, BaseIs

LEMMA NotRoot == "Exception" \notin Exceptions
  BY BasesAre DEF Exceptions, Bases

\* Lineage has the value its recursion asks for.
LEMMA LineageIs ==
    ASSUME NEW b \in Bases, NEW t \in Children[b]
    PROVE  t \in Exceptions /\ Lineage[t] = {t} \cup Above(b)
<1> DEFINE Types == Exceptions \cup {"Exception"}
           Step(f, u) ==
               {u} \cup (IF u = "Exception" THEN {} ELSE f[BaseOf(u)])
           line == [u \in Types |->
                      {u} \cup (IF u = "Exception" THEN {} ELSE Above(BaseOf(u)))]
<1>1. ASSUME NEW u \in Exceptions
      PROVE  BaseOf(u) \in Bases
  <2>1. PICK c \in Bases : u \in Children[c]
    BY DEF Exceptions, Bases
  <2> QED
    BY <2>1, BaseIs
<1>2. \A c \in Bases : c \in Types
  BY BasesAre DEF Exceptions, Bases
<1>3. ASSUME NEW c \in Bases
      PROVE  line[c] = Above(c)
  <2>1. line[c] = {c} \cup (IF c = "Exception" THEN {} ELSE Above(BaseOf(c)))
    BY <1>2
  <2>2. CASE c = "Exception"
    BY <2>1, <2>2 DEF Above
  <2>3. CASE c = "OpenAIError"
    BY <2>1, <2>3, BasesOfBases DEF Above
  <2>4. CASE c = "APIError"
    BY <2>1, <2>4, BasesOfBases DEF Above
  <2>5. CASE c \in {"APIConnectionError", "BadRequestError"}
    BY <2>1, <2>5, BasesOfBases DEF Above
  <2>6. CASE c = "APITimeoutError"
    BY <2>1, <2>6, BasesOfBases DEF Above
  <2> QED
    BY <2>2, <2>3, <2>4, <2>5, <2>6, BasesAre
<1>4. line = [u \in Types |-> Step(line, u)]
  <2>1. ASSUME NEW u \in Types
        PROVE  line[u] = Step(line, u)
    <3>1. CASE u = "Exception"
      BY <3>1
    <3>2. CASE u # "Exception"
      <4>1. line[BaseOf(u)] = Above(BaseOf(u))
        BY <1>1, <1>3, <3>2
      <4>2. line[u] = {u} \cup Above(BaseOf(u))
        BY <3>2
      <4> QED
        BY <3>2, <4>1, <4>2
    <3> QED
      BY <3>1, <3>2
  <2>2. line = [u \in Types |-> line[u]]
    OBVIOUS
  <2> HIDE DEF line
  <2> QED
    BY <2>1, <2>2
<1>5. Lineage = CHOOSE f : f = [u \in Types |-> Step(f, u)]
  BY DEF Lineage
<1>6. Lineage = [u \in Types |-> Step(Lineage, u)]
  <2> HIDE DEF line
  <2> QED
    BY <1>4, <1>5, Zenon
<1> HIDE DEF line
<1>7. ASSUME NEW u \in Types
      PROVE  Lineage[u] = Step(Lineage, u)
  BY <1>6
<1> HIDE DEF Types
<1>8. /\ Lineage["Exception"] = Above("Exception")
      /\ Lineage["OpenAIError"] = Above("OpenAIError")
  <2>1. Lineage["Exception"] = Above("Exception")
    BY <1>2, <1>7, BasesAre DEF Above
  <2> QED
    BY <1>2, <1>7, <2>1, BasesAre, BasesOfBases DEF Above
<1>9. Lineage["APIError"] = Above("APIError")
  BY <1>2, <1>7, <1>8, BasesAre, BasesOfBases DEF Above
<1>10. /\ Lineage["APIConnectionError"] = Above("APIConnectionError")
       /\ Lineage["BadRequestError"] = Above("BadRequestError")
  BY <1>2, <1>7, <1>9, BasesAre, BasesOfBases DEF Above
<1>11. Lineage["APITimeoutError"] = Above("APITimeoutError")
  BY <1>2, <1>7, <1>10, BasesAre, BasesOfBases DEF Above
<1>12. Lineage[b] = Above(b)
  BY <1>8, <1>9, <1>10, <1>11, BasesAre
<1>13. t \in Exceptions /\ t \in Types /\ t # "Exception"
  BY NotRoot DEF Exceptions, Bases, Types
<1> QED
  BY <1>7, <1>12, <1>13, BaseIs

-----------------------------------------------------------------------------
LEMMA LeastIs ==
    ASSUME NEW S, S \subseteq Int, NEW k \in S, \A j \in S : k <= j
    PROVE  Min(S) = k
<1>1. \A x \in S : (\A y \in S : x <= y) => x = k
  OBVIOUS
<1> QED
  BY <1>1 DEF Min

LEMMA FirstRow ==
    ASSUME NEW t, NEW k \in 1 .. 18, ErrorMap[k][1] \in Lineage[t],
           \A j \in 1 .. 18 : ErrorMap[j][1] \in Lineage[t] => k <= j
    PROVE  ClassifyByType(t) = ErrorMap[k][2]
<1> DEFINE matching == {i \in DOMAIN ErrorMap : ErrorMap[i][1] \in Lineage[t]}
<1>1. DOMAIN ErrorMap = 1 .. 18
  BY DEF ErrorMap
<1>2. k \in matching /\ matching \subseteq 1 .. 18 /\ \A j \in matching : k <= j
  BY <1>1
<1>3. ClassifyByType(t) =
         IF matching = {} THEN "server_error" ELSE ErrorMap[Min(matching)][2]
  BY DEF ClassifyByType
<1> HIDE DEF matching
<1>4. Min(matching) = k
  <2>1. matching \subseteq Int
    BY <1>2
  <2> QED
    BY <1>2, <2>1, LeastIs, Zenon
<1> QED
  BY <1>2, <1>3, <1>4

LEMMA RowsAre ==
    /\ ErrorMap[1] = <<"LTimeout", "timeout">>
    /\ ErrorMap[2] = <<"LBudgetExceededError", "quota_exhausted">>
    /\ ErrorMap[3] = <<"LContentPolicyViolationError", "content_filter">>
    /\ ErrorMap[4] = <<"LContextWindowExceededError", "bad_request">>
    /\ ErrorMap[5] = <<"LServiceUnavailableError", "server_error">>
    /\ ErrorMap[6] = <<"LBadGatewayError", "server_error">>
    /\ ErrorMap[7] = <<"APITimeoutError", "timeout">>
    /\ ErrorMap[8] = <<"RateLimitError", "rate_limit">>
    /\ ErrorMap[9] = <<"AuthenticationError", "auth_failure">>
    /\ ErrorMap[10] = <<"PermissionDeniedError", "auth_failure">>
    /\ ErrorMap[11] = <<"BadRequestError", "bad_request">>
    /\ ErrorMap[12] = <<"UnprocessableEntityError", "bad_request">>
    /\ ErrorMap[13] = <<"NotFoundError", "bad_request">>
    /\ ErrorMap[14] = <<"ConflictError", "bad_request">>
    /\ ErrorMap[15] = <<"InternalServerError", "server_error">>
    /\ ErrorMap[16] = <<"APIConnectionError", "server_error">>
    /\ ErrorMap[17] = <<"APIError", "server_error">>
    /\ ErrorMap[18] = <<"OpenAIError", "server_error">>
  BY DEF ErrorMap

RowType(j) == ErrorMap[j][1]

LEMMA TypesAre ==
    /\ RowType(1) = "LTimeout"
    /\ RowType(2) = "LBudgetExceededError"
    /\ RowType(3) = "LContentPolicyViolationError"
    /\ RowType(4) = "LContextWindowExceededError"
    /\ RowType(5) = "LServiceUnavailableError"
    /\ RowType(6) = "LBadGatewayError"
    /\ RowType(7) = "APITimeoutError"
    /\ RowType(8) = "RateLimitError"
    /\ RowType(9) = "AuthenticationError"
    /\ RowType(10) = "PermissionDeniedError"
    /\ RowType(11) = "BadRequestError"
    /\ RowType(12) = "UnprocessableEntityError"
    /\ RowType(13) = "NotFoundError"
    /\ RowType(14) = "ConflictError"
    /\ RowType(15) = "InternalServerError"
    /\ RowType(16) = "APIConnectionError"
    /\ RowType(17) = "APIError"
    /\ RowType(18) = "OpenAIError"
  BY RowsAre DEF RowType

\* The rows of the bases above a type come last.
LEMMA BasesComeLast ==
    ASSUME NEW j \in 1 .. 18
    PROVE  /\ RowType(j) \notin Above("Exception")
           /\ RowType(j) \in Above("OpenAIError") => j = 18
           /\ RowType(j) \in Above("APIError") => j >= 17
           /\ RowType(j) \in Above("APIConnectionError") => j >= 16
           /\ RowType(j) \in Above("BadRequestError") => j >= 17 \/ j = 11
           /\ RowType(j) \in Above("APITimeoutError") => j >= 16 \/ j = 7
  BY TypesAre DEF Above

\* No two rows are of one type.
LEMMA RowsDiffer ==
    ASSUME NEW j \in 1 .. 18, NEW k \in 1 .. 18, RowType(j) = RowType(k)
    PROVE  j = k
  BY TypesAre

\* normalize.py, "most specific first": no row hides a later one from its
\* own type.
LEMMA OwnRow ==
    ASSUME NEW k \in 1 .. 18
    PROVE  ClassifyByType(RowType(k)) = ErrorMap[k][2]
<1>1. SUFFICES ASSUME NEW b \in Bases, RowType(k) \in Children[b],
                      \A j \in 1 .. 18 : RowType(j) \in Above(b) => k <= j
               PROVE  ClassifyByType(RowType(k)) = ErrorMap[k][2]
  <2>1. CASE k \in {2, 18}
    <3>1. RowType(k) \in Children["Exception"]
      BY <2>1, TypesAre, BasesAre
    <3> QED
      BY <2>1, <3>1, <1>1, BasesAre, BasesComeLast
  <2>2. CASE k = 17
    <3>1. RowType(k) \in Children["OpenAIError"]
      BY <2>2, TypesAre, BasesAre
    <3> QED
      BY <2>2, <3>1, <1>1, BasesAre, BasesComeLast
  <2>3. CASE k \in {5, 6, 8, 9, 10, 11, 12, 13, 14, 15, 16}
    <3>1. RowType(k) \in Children["APIError"]
      BY <2>3, TypesAre, BasesAre
    <3> QED
      BY <2>3, <3>1, <1>1, BasesAre, BasesComeLast
  <2>4. CASE k = 7
    <3>1. RowType(k) \in Children["APIConnectionError"]
      BY <2>4, TypesAre, BasesAre
    <3> QED
      BY <2>4, <3>1, <1>1, BasesAre, BasesComeLast
  <2>5. CASE k = 1
    <3>1. RowType(k) \in Children["APITimeoutError"]
      BY <2>5, TypesAre, BasesAre
    <3> QED
      BY <2>5, <3>1, <1>1, BasesAre, BasesComeLast
  <2>6. CASE k \in {3, 4}
    <3>1. RowType(k) \in Children["BadRequestError"]
      BY <2>6, TypesAre, BasesAre
    <3> QED
      BY <2>6, <3>1, <1>1, BasesAre, BasesComeLast
  <2> QED
    BY <2>1, <2>2, <2>3, <2>4, <2>5, <2>6
<1>2. Lineage[RowType(k)] = {RowType(k)} \cup Above(b)
  BY <1>1, LineageIs
<1>3. \A j \in 1 .. 18 : RowType(j) \in Lineage[RowType(k)] => k <= j
  BY <1>1, <1>2, RowsDiffer
<1> QED
  BY <1>2, <1>3, FirstRow DEF RowType

\* A type without a row is classified as its base.
LEMMA NoRow ==
    ASSUME NEW t, NEW k \in {16, 17, 18}, t \in Children[RowType(k)],
           \A j \in 1 .. 18 : t # RowType(j)
    PROVE  ClassifyByType(t) = "server_error"
<1>1. RowType(k) \in Bases /\ k \in 1 .. 18 /\ ErrorMap[k][2] = "server_error"
  <2>1. /\ RowType(16) \in Bases /\ RowType(17) \in Bases /\ RowType(18) \in Bases
        /\ ErrorMap[16][2] = "server_error"
        /\ ErrorMap[17][2] = "server_error"
        /\ ErrorMap[18][2] = "server_error"
    BY TypesAre, RowsAre, BasesAre
  <2> QED
    BY <2>1
<1>2. Lineage[t] = {t} \cup Above(RowType(k))
  BY <1>1, LineageIs
<1>3. RowType(k) \in Above(RowType(k))
  BY <1>1, TypesAre DEF Above
<1>4. ASSUME NEW j \in 1 .. 18, RowType(j) \in Lineage[t]
      PROVE  k <= j
  <2>1. RowType(j) \in Above(RowType(k))
    BY <1>2, <1>4
  <2>2. CASE k = 16
    BY <2>1, <2>2, BasesComeLast, TypesAre
  <2>3. CASE k = 17
    BY <2>1, <2>3, BasesComeLast, TypesAre
  <2>4. CASE k = 18
    BY <2>1, <2>4, BasesComeLast, TypesAre
  <2> QED
    BY <2>2, <2>3, <2>4
<1> QED
  BY <1>1, <1>2, <1>3, <1>4, FirstRow DEF RowType

LEMMA UnrelatedIs == ClassifyByType("Unrelated") = "server_error"
<1> DEFINE matching == {i \in DOMAIN ErrorMap : ErrorMap[i][1] \in Lineage["Unrelated"]}
<1>1. Lineage["Unrelated"] = {"Unrelated"} \cup Above("Exception")
  BY BasesAre, LineageIs
<1>2. \A j \in 1 .. 18 : RowType(j) \notin Lineage["Unrelated"]
  BY <1>1, BasesComeLast, TypesAre
<1>3. DOMAIN ErrorMap = 1 .. 18
  BY DEF ErrorMap
<1>4. matching = {}
  BY <1>2, <1>3 DEF RowType
<1> QED
  BY <1>4 DEF ClassifyByType

\* What a type says happened is what the error map makes of it.
Agrees(t) ==
    LET class == ClassifyByType(t) IN
    /\ class \in ErrorClass
    /\ IsA(t, {"AuthenticationError", "PermissionDeniedError"})
          <=> class = "auth_failure"
    /\ IsA(t, {"RateLimitError"}) <=> class = "rate_limit"
    /\ IsA(t, {"APITimeoutError"}) <=> class = "timeout"
    /\ IsA(t, {"LBudgetExceededError"}) <=> class = "quota_exhausted"
    /\ IsA(t, {"LContentPolicyViolationError"}) <=> class = "content_filter"
    /\ IsA(t, {"BadRequestError", "NotFoundError", "ConflictError",
               "UnprocessableEntityError"})
          <=> class \in {"bad_request", "content_filter"}
    /\ IsA(t, Typed) <=> class # "server_error"

\* A type is one of a set if itself or a base of its is.
LEMMA IsAIs ==
    ASSUME NEW b \in Bases, NEW t \in Children[b], NEW S
    PROVE  IsA(t, S) <=> t \in S \/ \E c \in Above(b) : c \in S
  BY LineageIs DEF IsA

\* A type under a base nothing is said of is what its name says.
LEMMA IsANamed ==
    ASSUME NEW b \in {"Exception", "OpenAIError", "APIError", "APIConnectionError"},
           NEW t \in Children[b], NEW S, S \subseteq Typed
    PROVE  IsA(t, S) <=> t \in S
<1>1. b \in Bases
  BY BasesAre
<1>2. \A c \in Above(b) : c \notin Typed
  <2>1. CASE b = "Exception"
    BY <2>1 DEF Above, Typed
  <2>2. CASE b = "OpenAIError"
    BY <2>2 DEF Above, Typed
  <2>3. CASE b = "APIError"
    BY <2>3 DEF Above, Typed
  <2>4. CASE b = "APIConnectionError"
    BY <2>4 DEF Above, Typed
  <2> QED
    BY <2>1, <2>2, <2>3, <2>4
<1> QED
  BY <1>1, <1>2, IsAIs

\* What the names of the types say.
Named(t, class) ==
    /\ t \in {"AuthenticationError", "PermissionDeniedError"} <=> class = "auth_failure"
    /\ t \in {"RateLimitError"} <=> class = "rate_limit"
    /\ t \in {"APITimeoutError"} <=> class = "timeout"
    /\ t \in {"LBudgetExceededError"} <=> class = "quota_exhausted"
    /\ t \in {"BadRequestError", "NotFoundError", "ConflictError",
              "UnprocessableEntityError"} <=> class = "bad_request"
    /\ t \in Typed <=> class # "server_error"
    /\ class \in ErrorClass \ {"content_filter"}

LEMMA NamedAgrees ==
    ASSUME NEW b \in {"Exception", "OpenAIError", "APIError", "APIConnectionError"},
           NEW t \in Children[b], t # "LContentPolicyViolationError",
           Named(t, ClassifyByType(t))
    PROVE  Agrees(t)
<1>0. {"LContentPolicyViolationError"} \cap Typed = {}
  BY DEF Typed
<1>1. /\ {"AuthenticationError", "PermissionDeniedError"} \subseteq Typed
      /\ {"RateLimitError"} \subseteq Typed
      /\ {"APITimeoutError"} \subseteq Typed
      /\ {"LBudgetExceededError"} \subseteq Typed
      /\ {"BadRequestError", "NotFoundError", "ConflictError",
          "UnprocessableEntityError"} \subseteq Typed
      /\ Typed \subseteq Typed
  BY DEF Typed
<1>2. /\ IsA(t, {"AuthenticationError", "PermissionDeniedError"})
            <=> t \in {"AuthenticationError", "PermissionDeniedError"}
      /\ IsA(t, {"RateLimitError"}) <=> t \in {"RateLimitError"}
      /\ IsA(t, {"APITimeoutError"}) <=> t \in {"APITimeoutError"}
      /\ IsA(t, {"LBudgetExceededError"}) <=> t \in {"LBudgetExceededError"}
      /\ IsA(t, {"BadRequestError", "NotFoundError", "ConflictError",
                 "UnprocessableEntityError"})
            <=> t \in {"BadRequestError", "NotFoundError", "ConflictError",
                      "UnprocessableEntityError"}
      /\ IsA(t, Typed) <=> t \in Typed
  BY <1>1, IsANamed
<1>3. ~IsA(t, {"LContentPolicyViolationError"})
  <2>1. b \in Bases
    BY BasesAre
  <2>2. "LContentPolicyViolationError" \notin Above(b)
    BY DEF Above
  <2> QED
    BY <2>1, <2>2, IsAIs
<1> QED
  BY <1>2, <1>3 DEF Agrees, Named

LEMMA NamesSay ==
    ASSUME NEW b \in {"Exception", "OpenAIError", "APIError", "APIConnectionError"},
           NEW t \in Children[b]
    PROVE  Named(t, ClassifyByType(t)) /\ t # "LContentPolicyViolationError"
<1>1. ASSUME NEW k \in {2} \cup 5 .. 18, t = RowType(k)
      PROVE  Named(t, ClassifyByType(t))
  <2>1. ClassifyByType(t) = ErrorMap[k][2]
    BY <1>1, OwnRow
  <2>2. CASE k \in {9, 10}
    BY <1>1, <2>1, <2>2, TypesAre, RowsAre DEF Named, Typed, ErrorClass
  <2>3. CASE k \in {2, 7, 8}
    BY <1>1, <2>1, <2>3, TypesAre, RowsAre DEF Named, Typed, ErrorClass
  <2>4. CASE k \in 11 .. 14
    BY <1>1, <2>1, <2>4, TypesAre, RowsAre DEF Named, Typed, ErrorClass
  <2>5. CASE k \in {5, 6} \cup 15 .. 18
    BY <1>1, <2>1, <2>5, TypesAre, RowsAre DEF Named, Typed, ErrorClass
  <2> QED
    BY <2>2, <2>3, <2>4, <2>5
<1>2. ASSUME t \in {"LOpenAIError", "LAPIError", "LAPIConnectionError", "Unrelated"}
      PROVE  Named(t, ClassifyByType(t))
  <2>1. \A j \in 1 .. 18 : t # RowType(j)
    BY <1>2, TypesAre
  <2>2. ClassifyByType(t) = "server_error"
    <3>1. CASE t = "LOpenAIError"
      <4>1. t \in Children[RowType(18)]
        BY <3>1, BasesAre, TypesAre
      <4> QED
        BY <2>1, <4>1, NoRow
    <3>2. CASE t = "LAPIError"
      <4>1. t \in Children[RowType(17)]
        BY <3>2, BasesAre, TypesAre
      <4> QED
        BY <2>1, <4>1, NoRow
    <3>3. CASE t = "LAPIConnectionError"
      <4>1. t \in Children[RowType(16)]
        BY <3>3, BasesAre, TypesAre
      <4> QED
        BY <2>1, <4>1, NoRow
    <3> QED
      BY <1>2, <3>1, <3>2, <3>3, UnrelatedIs
  <2> QED
    BY <1>2, <2>2 DEF Named, Typed, ErrorClass
<1>3. \/ t \in {"LOpenAIError", "LAPIError", "LAPIConnectionError", "Unrelated"}
      \/ \E k \in {2} \cup 5 .. 18 : t = RowType(k)
  <2>1. CASE b = "Exception"
    BY <2>1, BasesAre, TypesAre
  <2>2. CASE b = "OpenAIError"
    BY <2>2, BasesAre, TypesAre
  <2>3. CASE b = "APIError"
    BY <2>3, BasesAre, TypesAre
  <2>4. CASE b = "APIConnectionError"
    BY <2>4, BasesAre, TypesAre
  <2> QED
    BY <2>1, <2>2, <2>3, <2>4
<1>4. t # "LContentPolicyViolationError"
  BY BasesAre
<1> QED
  BY <1>1, <1>2, <1>3, <1>4

\* Of the types openai derives from its timeout and its bad request.
LEMMA DerivedAgree ==
    ASSUME NEW b \in {"APITimeoutError", "BadRequestError"}, NEW t \in Children[b]
    PROVE  Agrees(t)
<1>1. CASE b = "APITimeoutError"
  <2>1. t = "LTimeout" /\ ClassifyByType(t) = "timeout"
    BY <1>1, BasesAre, OwnRow, TypesAre, RowsAre
  <2>2. \A S : IsA(t, S) <=> \E c \in {t} \cup Above(b) : c \in S
    BY <1>1, BasesAre, IsAIs
  <2> QED
    BY <1>1, <2>1, <2>2 DEF Above, Agrees, Typed, ErrorClass
<1>2. CASE b = "BadRequestError"
  <2>1. \/ /\ t = "LContentPolicyViolationError"
           /\ ClassifyByType(t) = "content_filter"
        \/ /\ t = "LContextWindowExceededError"
           /\ ClassifyByType(t) = "bad_request"
    BY <1>2, BasesAre, OwnRow, TypesAre, RowsAre
  <2>2. \A S : IsA(t, S) <=> \E c \in {t} \cup Above(b) : c \in S
    BY <1>2, BasesAre, IsAIs
  <2> QED
    BY <1>2, <2>1, <2>2 DEF Above, Agrees, Typed, ErrorClass
<1> QED
  BY <1>1, <1>2

LEMMA AllAgree ==
    ASSUME NEW t \in Exceptions
    PROVE  Agrees(t)
<1>1. PICK b \in Bases : t \in Children[b]
  BY DEF Exceptions, Bases
<1>2. CASE b \in {"APITimeoutError", "BadRequestError"}
  BY <1>1, <1>2, DerivedAgree
<1>3. CASE b \in {"Exception", "OpenAIError", "APIError", "APIConnectionError"}
  BY <1>1, <1>3, NamesSay, NamedAgrees
<1> QED
  BY <1>2, <1>3, BasesAre

-----------------------------------------------------------------------------
(* The text of Cohere's exceptions.                                        *)
Told(cause, phrase) == cause.adapter = "cohere" /\ phrase \in cause.text

LEMMA RefinedIs ==
    ASSUME NEW class, NEW text \in SUBSET Phrases, NEW adapter
    PROVE  Refine(class, text, adapter) =
              IF class # "server_error" \/ adapter # "cohere" \/ text = {} THEN class
              ELSE IF "bad_key" \in text THEN "auth_failure" ELSE "rate_limit"
<1> DEFINE rules == Refinements(adapter)
           matching == {i \in DOMAIN rules : rules[i][1] \in text}
<1>1. Refine(class, text, adapter) =
         IF class # "server_error" \/ matching = {} THEN class
         ELSE rules[Min(matching)][2]
  BY DEF Refine
<1>2. CASE adapter # "cohere"
  <2>1. DOMAIN rules = {}
    BY <1>2 DEF Refinements
  <2> QED
    BY <1>1, <1>2, <2>1
<1>3. CASE adapter = "cohere"
  <2>1. /\ DOMAIN rules = {1, 2}
        /\ rules[1] = <<"bad_key", "auth_failure">>
        /\ rules[2] = <<"throttled", "rate_limit">>
    BY <1>3 DEF Refinements
  <2>2. /\ 1 \in matching <=> "bad_key" \in text
        /\ 2 \in matching <=> "throttled" \in text
    BY <2>1
  <2>3. matching \subseteq {1, 2}
    BY <2>1
  <2> HIDE DEF matching, rules
  <2>4. CASE "bad_key" \in text
    <3>1. 1 \in matching
      BY <2>2, <2>4
    <3>2. Min(matching) = 1
      <4>1. matching \subseteq Int /\ \A j \in matching : 1 <= j
        BY <2>3
      <4> QED
        BY <3>1, <4>1, LeastIs, Zenon
    <3> QED
      BY <1>1, <1>3, <2>1, <2>4, <3>1, <3>2
  <2>5. CASE "bad_key" \notin text /\ "throttled" \in text
    <3>1. matching = {2}
      <4>1. 1 \notin matching /\ 2 \in matching
        BY <2>2, <2>5
      <4> QED
        BY <2>3, <4>1
    <3>2. Min(matching) = 2
      <4>1. matching \subseteq Int /\ 2 \in matching /\ \A j \in matching : 2 <= j
        BY <3>1
      <4> QED
        BY <4>1, LeastIs, Zenon
    <3> QED
      BY <1>1, <1>3, <2>1, <2>5, <3>1, <3>2
  <2>6. CASE text = {}
    <3>1. matching = {}
      BY <2>2, <2>3, <2>6
    <3> QED
      BY <1>1, <2>6, <3>1
  <2>7. text = {} \/ "bad_key" \in text \/ "throttled" \in text
    BY DEF Phrases
  <2> QED
    BY <2>4, <2>5, <2>6, <2>7
<1> QED
  BY <1>2, <1>3

LEMMA RaisedIsTrue ==
    ASSUME NEW c \in Cause, c.kind = "raised"
    PROVE  FieldFor(c) \in ErrorClass /\ FieldFor(c) = Truth(c)
<1> DEFINE class == ClassifyByType(c.type)
           Is(x) ==
            \/ /\ x = "auth_failure"
               /\ \/ IsA(c.type, {"AuthenticationError", "PermissionDeniedError"})
                  \/ Says(c, "bad_key")
            \/ /\ x = "rate_limit"
               /\ \/ IsA(c.type, {"RateLimitError"})
                  \/ Says(c, "throttled") /\ ~Says(c, "bad_key")
            \/ x = "timeout" /\ IsA(c.type, {"APITimeoutError"})
            \/ x = "quota_exhausted" /\ IsA(c.type, {"LBudgetExceededError"})
            \/ x = "content_filter" /\ IsA(c.type, {"LContentPolicyViolationError"})
            \/ /\ x = "bad_request"
               /\ IsA(c.type, {"BadRequestError", "NotFoundError", "ConflictError",
                               "UnprocessableEntityError"})
               /\ ~IsA(c.type, {"LContentPolicyViolationError"})
            \/ /\ x = "server_error"
               /\ ~IsA(c.type, Typed)
               /\ ~Says(c, "bad_key") /\ ~Says(c, "throttled")
<1>1. c.type \in Exceptions /\ c.text \in SUBSET Phrases
  BY DEF Cause
<1>2. Agrees(c.type)
  BY <1>1, AllAgree
<1>3. FieldFor(c) = Refine(class, c.text, c.adapter)
  BY DEF FieldFor, Normalize
<1>4. Truth(c) = CHOOSE x \in ErrorClass : Is(x)
  BY DEF Truth
<1>5. /\ Says(c, "bad_key") <=>
            class = "server_error" /\ c.adapter = "cohere" /\ "bad_key" \in c.text
      /\ Says(c, "throttled") <=>
            class = "server_error" /\ c.adapter = "cohere" /\ "throttled" \in c.text
  BY <1>2 DEF Says, Agrees
<1>6. FieldFor(c) =
         IF class # "server_error" \/ c.adapter # "cohere" \/ c.text = {} THEN class
         ELSE IF "bad_key" \in c.text THEN "auth_failure" ELSE "rate_limit"
  BY <1>1, <1>3, RefinedIs
<1>7. c.text = {} \/ "bad_key" \in c.text \/ "throttled" \in c.text
  BY <1>1 DEF Phrases
<1>8. /\ IsA(c.type, {"AuthenticationError", "PermissionDeniedError"})
             <=> class = "auth_failure"
      /\ IsA(c.type, {"RateLimitError"}) <=> class = "rate_limit"
      /\ IsA(c.type, {"APITimeoutError"}) <=> class = "timeout"
      /\ IsA(c.type, {"LBudgetExceededError"}) <=> class = "quota_exhausted"
      /\ IsA(c.type, {"LContentPolicyViolationError"}) <=> class = "content_filter"
      /\ IsA(c.type, {"BadRequestError", "NotFoundError", "ConflictError",
                      "UnprocessableEntityError"})
            <=> class \in {"bad_request", "content_filter"}
      /\ IsA(c.type, Typed) <=> class # "server_error"
      /\ class \in ErrorClass
  BY <1>2 DEF Agrees
<1> HIDE DEF class
<1>9. ASSUME NEW x PROVE Is(x) <=> x = FieldFor(c)
  BY <1>5, <1>6, <1>7, <1>8 DEF ErrorClass
<1>10. FieldFor(c) \in ErrorClass
  BY <1>6, <1>8 DEF ErrorClass
<1> HIDE DEF Is
<1> QED
  BY <1>4, <1>9, <1>10

\* normalize.py: whatever an attempt ends by, it is recorded as what happened.
LEMMA RecordedIsTrue ==
    ASSUME NEW c \in Cause
    PROVE  FieldFor(c) \in Known /\ FieldFor(c) = Truth(c)
<1>1. CASE c.kind = "raised"
  BY <1>1, RaisedIsTrue DEF Known
<1>2. CASE c.kind = "mock"
  <2>1. c.class \in ErrorClass
    BY <1>2 DEF Cause
  <2> QED
    BY <1>2, <2>1 DEF FieldFor, Truth, Known
<1>3. CASE c.kind = "ok"
  BY <1>3 DEF FieldFor, Truth, Known
<1>4. CASE c.kind = "deadline"
  BY <1>4 DEF FieldFor, Truth, Known, ErrorClass
<1>5. c.kind \in {"ok", "deadline", "raised", "mock"}
  BY DEF Cause
<1> QED
  BY <1>1, <1>2, <1>3, <1>4, <1>5

-----------------------------------------------------------------------------
(* Sums.                                                                   *)
LEMMA NoCells ==
    ASSUME NEW n, NEW S, \A x \in S : n[x] = 0
    PROVE  IsFiniteSet(Cells(n, S)) /\ SumOver(n, S) = 0
<1>1. Cells(n, S) = {}
  BY DEF Cells
<1> QED
  BY <1>1, FS_EmptySet DEF SumOver

LEMMA SameCells ==
    ASSUME NEW n, NEW m, NEW S, \A x \in S : m[x] = n[x]
    PROVE  Cells(m, S) = Cells(n, S)
<1>1. {{x} \X (1 .. m[x]) : x \in S} = {{x} \X (1 .. n[x]) : x \in S}
  OBVIOUS
<1> QED
  BY <1>1 DEF Cells

\* One more unit of one term is one more cell.
LEMMA OneMoreCell ==
    ASSUME NEW n, NEW m, NEW S, NEW x \in S, n[x] \in Nat, m[x] = n[x] + 1,
           \A y \in S \ {x} : m[y] = n[y], IsFiniteSet(Cells(n, S))
    PROVE  /\ IsFiniteSet(Cells(m, S))
           /\ SumOver(m, S) = SumOver(n, S) + 1
<1> DEFINE k == n[x]
           new == <<x, k + 1>>
<1>1. k \in Nat /\ 1 .. m[x] = (1 .. k) \cup {k + 1} /\ k + 1 \notin 1 .. k
  OBVIOUS
<1>2. {x} \X (1 .. m[x]) = ({x} \X (1 .. k)) \cup {new}
  BY <1>1
<1> HIDE DEF new
<1>3. Cells(m, S) = Cells(n, S) \cup {new}
  <2>1. ASSUME NEW c \in Cells(m, S) PROVE c \in Cells(n, S) \cup {new}
    <3>1. PICK y \in S : c \in {y} \X (1 .. m[y])
      BY DEF Cells
    <3>2. CASE y = x
      BY <1>2, <3>1, <3>2 DEF Cells
    <3>3. CASE y # x
      <4>1. c \in {y} \X (1 .. n[y])
        BY <3>1, <3>3
      <4> QED
        BY <4>1 DEF Cells
    <3> QED
      BY <3>2, <3>3
  <2>2. ASSUME NEW c \in Cells(n, S) \cup {new} PROVE c \in Cells(m, S)
    <3>1. new \in Cells(m, S)
      BY <1>2 DEF Cells
    <3>2. ASSUME c \in Cells(n, S) PROVE c \in Cells(m, S)
      <4>1. PICK y \in S : c \in {y} \X (1 .. n[y])
        BY <3>2 DEF Cells
      <4>2. CASE y = x
        BY <1>2, <4>1, <4>2 DEF Cells
      <4>3. CASE y # x
        <5>1. c \in {y} \X (1 .. m[y])
          BY <4>1, <4>3
        <5> QED
          BY <5>1 DEF Cells
      <4> QED
        BY <4>2, <4>3
    <3> QED
      BY <3>1, <3>2
  <2> QED
    BY <2>1, <2>2
<1>4. new \notin Cells(n, S)
  <2> SUFFICES ASSUME NEW y \in S, new \in {y} \X (1 .. n[y]) PROVE FALSE
    BY DEF Cells
  <2> QED
    BY <1>1 DEF new
<1> QED
  BY <1>3, <1>4, FS_AddElement DEF SumOver

-----------------------------------------------------------------------------
(* The evidence.                                                           *)
Column(f) == [b \in Bucket |-> hash[b][f]]

\* The counters of the buckets add up to the attempts, class by class.
Evidence ==
    /\ \A f \in Known : IsFiniteSet(Cells(Column(f), Bucket)) /\ Merged(f) = ended[f]
    /\ IsFiniteSet(Cells(ended, Known))

\* The failures that count, and the wrong keys, are those not answered 400.
Blame ==
    /\ IsFiniteSet(Cells(ended, Counted))
    /\ SumOver(ended, Counted) + ended["auth_failure"]
          = told[429] + told[503] + told[504]

LEMMA BooksInit == Init => Evidence /\ Blame
<1> SUFFICES ASSUME Init PROVE Evidence /\ Blame
  OBVIOUS
<1>1. \A f \in Known : ended[f] = 0
  BY DEF Init
<1>2. ASSUME NEW f \in Known
      PROVE  IsFiniteSet(Cells(Column(f), Bucket)) /\ Merged(f) = ended[f]
  <2>1. \A b \in Bucket : Column(f)[b] = 0
    <3>1. \A b \in Bucket : hash[b][f] = 0
      BY DEF Init, Field
    <3> QED
      BY <3>1 DEF Column
  <2>2. IsFiniteSet(Cells(Column(f), Bucket)) /\ SumOver(Column(f), Bucket) = 0
    BY <2>1, NoCells
  <2> QED
    BY <1>1, <2>2 DEF Merged, Column
<1>3. Counted \subseteq Known /\ "auth_failure" \in Known
  BY DEF Counted, Known, ErrorClass
<1>4. IsFiniteSet(Cells(ended, Known))
  BY <1>1, NoCells
<1>5. IsFiniteSet(Cells(ended, Counted)) /\ SumOver(ended, Counted) = 0
  BY <1>1, <1>3, NoCells
<1>6. ended["auth_failure"] = 0 /\ told[429] = 0 /\ told[503] = 0 /\ told[504] = 0
  BY <1>1, <1>3 DEF Init, Code
<1> QED
  BY <1>2, <1>4, <1>5, <1>6 DEF Evidence, Blame

\* What the hash of one bucket gains, the sum over the buckets gains.
LEMMA CountedOnce ==
    ASSUME TypeOK, NEW b \in Bucket, NEW f \in Field, Count(b, f),
           NEW g \in Known, IsFiniteSet(Cells(Column(g), Bucket))
    PROVE  /\ IsFiniteSet(Cells(Column(g)', Bucket))
           /\ Merged(g)' = IF g = f THEN Merged(g) + 1 ELSE Merged(g)
<1> DEFINE n == Column(g)
           m == Column(g)'
<1>1. \A c \in Bucket : n[c] = hash[c][g] /\ m[c] = hash'[c][g]
  BY DEF Column
<1>2. hash' = [hash EXCEPT ![b][f] = @ + 1] /\ hash \in [Bucket -> [Field -> Nat]]
  BY DEF Count, TypeOK
<1>3. g \in Field
  BY DEF Field
<1>4. \A c \in Bucket : n[c] \in Nat
  BY <1>1, <1>2, <1>3
<1>5. /\ \A c \in Bucket \ {b} : m[c] = n[c]
      /\ m[b] = IF g = f THEN n[b] + 1 ELSE n[b]
  BY <1>1, <1>2, <1>3
<1>6. Merged(g) = SumOver(n, Bucket) /\ Merged(g)' = SumOver(m, Bucket)
  BY DEF Merged, Column
<1> HIDE DEF n, m
<1>7. CASE g = f
  <2>1. n[b] \in Nat /\ m[b] = n[b] + 1
    BY <1>4, <1>5, <1>7
  <2>2. /\ IsFiniteSet(Cells(m, Bucket))
        /\ SumOver(m, Bucket) = SumOver(n, Bucket) + 1
    <3>1. IsFiniteSet(Cells(n, Bucket))
      BY DEF n
    <3> QED
      BY <1>5, <2>1, <3>1, OneMoreCell, Zenon
  <2> QED
    BY <1>6, <1>7, <2>2 DEF m
<1>8. CASE g # f
  <2>1. \A c \in Bucket : m[c] = n[c]
    BY <1>5, <1>8
  <2>2. Cells(m, Bucket) = Cells(n, Bucket)
    BY <2>1, SameCells
  <2> QED
    BY <1>6, <1>8, <2>2 DEF m, n, SumOver
<1> QED
  BY <1>7, <1>8

\* A class that counts, or is of a wrong key, is not answered 400.
LEMMA AnsweredAs ==
    ASSUME NEW f \in Known
    PROVE  /\ Status(f) \in {429, 503, 504} <=> f \in Counted \cup {"auth_failure"}
           /\ Status(f) \in Code
           /\ "auth_failure" \notin Counted
  BY DEF Known, ErrorClass, Status, UpstreamStatus, Counted, CountsTowardBreaker, Code

LEMMA EvidenceNext == TypeOK /\ Evidence /\ [Next]_vars => Evidence'
<1> SUFFICES ASSUME TypeOK, Evidence, [Next]_vars PROVE Evidence'
  OBVIOUS
<1>1. ASSUME NEW b \in Bucket, NEW cause \in Cause, NEW ms \in Milliseconds,
             Record(b, cause, ms)
      PROVE  Evidence'
  <2> DEFINE f == FieldFor(cause)
  <2>1. f \in Known /\ f \in Field /\ f = Truth(cause)
    BY RecordedIsTrue DEF Field
  <2>2. Count(b, f) /\ ended' = [ended EXCEPT ![f] = @ + 1]
    BY <1>1, <2>1 DEF Record
  <2> HIDE DEF f
  <2>3. ended \in [Known -> Nat]
    BY DEF TypeOK
  <2>4. \A g \in Known : ended'[g] = IF g = f THEN ended[g] + 1 ELSE ended[g]
    BY <2>2, <2>3
  <2>5. ASSUME NEW g \in Known
        PROVE  IsFiniteSet(Cells(Column(g), Bucket))' /\ Merged(g)' = ended'[g]
    <3>1. IsFiniteSet(Cells(Column(g), Bucket)) /\ Merged(g) = ended[g]
      BY DEF Evidence
    <3>2. /\ IsFiniteSet(Cells(Column(g)', Bucket))
          /\ Merged(g)' = IF g = f THEN Merged(g) + 1 ELSE Merged(g)
      BY <2>1, <2>2, <3>1, CountedOnce
    <3> QED
      BY <2>4, <3>1, <3>2
  <2>6. IsFiniteSet(Cells(ended', Known))
    <3>1. /\ IsFiniteSet(Cells(ended, Known))
          /\ ended[f] \in Nat /\ ended'[f] = ended[f] + 1
          /\ \A g \in Known \ {f} : ended'[g] = ended[g]
      BY <2>1, <2>3, <2>4 DEF Evidence
    <3> QED
      BY <2>1, <3>1, OneMoreCell, Zenon
  <2> QED
    BY <2>5, <2>6 DEF Evidence
<1>2. ASSUME UNCHANGED ended,
             \A g \in Known : /\ IsFiniteSet(Cells(Column(g)', Bucket))
                              /\ Merged(g)' = Merged(g)
      PROVE  Evidence'
  BY <1>2 DEF Evidence
<1>3. ASSUME NEW b \in Bucket, NEW ms \in Milliseconds, NewerBuildRecords(b, ms)
      PROVE  Evidence'
  <2>1. Count(b, "newer") /\ UNCHANGED ended
    BY <1>3 DEF NewerBuildRecords
  <2>2. "newer" \in Field /\ "newer" \notin Known
    BY DEF Field, Known, ErrorClass
  <2>3. ASSUME NEW g \in Known
        PROVE  IsFiniteSet(Cells(Column(g)', Bucket)) /\ Merged(g)' = Merged(g)
    <3>1. IsFiniteSet(Cells(Column(g), Bucket))
      BY DEF Evidence
    <3> QED
      BY <2>1, <2>2, <3>1, CountedOnce
  <2> QED
    BY <1>2, <2>1, <2>3
<1>4. CASE UNCHANGED <<hash, ended>>
  BY <1>4 DEF Evidence, Column, Merged
<1> QED
  BY <1>1, <1>3, <1>4 DEF Next, vars, Tamper

LEMMA BlameNext == TypeOK /\ Blame /\ [Next]_vars => Blame'
<1> SUFFICES ASSUME TypeOK, Blame, [Next]_vars PROVE Blame'
  OBVIOUS
<1>1. ASSUME NEW b \in Bucket, NEW cause \in Cause, NEW ms \in Milliseconds,
             Record(b, cause, ms)
      PROVE  Blame'
  <2> DEFINE f == FieldFor(cause)
             s == Status(f)
             answered == told[429] + told[503] + told[504]
             answeredNow == told'[429] + told'[503] + told'[504]
             wrong == ended["auth_failure"]
             wrongNow == ended'["auth_failure"]
             sum == SumOver(ended, Counted)
             sumNow == SumOver(ended', Counted)
  <2>1. f \in Known /\ f = Truth(cause)
    BY RecordedIsTrue
  <2>2. /\ ended' = [ended EXCEPT ![f] = @ + 1]
        /\ told' = [told EXCEPT ![s] = @ + 1]
    BY <1>1, <2>1 DEF Record
  <2> HIDE DEF f
  <2>3. ended \in [Known -> Nat] /\ told \in [Code -> Nat]
    BY DEF TypeOK
  <2>4. /\ s \in {429, 503, 504} <=> f \in Counted \cup {"auth_failure"}
        /\ s \in Code
        /\ "auth_failure" \notin Counted
    BY <2>1, AnsweredAs
  <2> HIDE DEF s
  <2>5. \A c \in Code : told'[c] = IF c = s THEN told[c] + 1 ELSE told[c]
    BY <2>2, <2>3
  <2>6. answered \in Nat /\ answeredNow =
           IF s \in {429, 503, 504} THEN answered + 1 ELSE answered
    <3>1. 429 \in Code /\ 503 \in Code /\ 504 \in Code
      BY DEF Code
    <3> DEFINE a == told[429]  a1 == told'[429]
               c == told[503]  c1 == told'[503]
               d == told[504]  d1 == told'[504]
    <3>2. /\ a \in Nat /\ c \in Nat /\ d \in Nat
          /\ a1 = IF s = 429 THEN a + 1 ELSE a
          /\ c1 = IF s = 503 THEN c + 1 ELSE c
          /\ d1 = IF s = 504 THEN d + 1 ELSE d
      BY <2>3, <2>5, <3>1
    <3>3. answered = a + c + d /\ answeredNow = a1 + c1 + d1
      OBVIOUS
    <3> HIDE DEF a, a1, c, c1, d, d1, answered, answeredNow
    <3> QED
      BY <3>2, <3>3
  <2>7. \A g \in Known : ended'[g] = IF g = f THEN ended[g] + 1 ELSE ended[g]
    BY <2>2, <2>3
  <2>8. wrong \in Nat /\ wrongNow = IF f = "auth_failure" THEN wrong + 1 ELSE wrong
    <3>1. "auth_failure" \in Known
      BY DEF Known, ErrorClass
    <3> QED
      BY <2>3, <2>7, <3>1
  <2>9. /\ IsFiniteSet(Cells(ended', Counted))
        /\ sum \in Nat /\ sumNow = IF f \in Counted THEN sum + 1 ELSE sum
    <3>1. Counted \subseteq Known
      BY DEF Counted, Known
    <3>2. IsFiniteSet(Cells(ended, Counted))
      BY DEF Blame
    <3>3. SumOver(ended, Counted) \in Nat
      BY <3>2, FS_CardinalityType DEF SumOver
    <3>4. CASE f \in Counted
      <4>1. /\ ended[f] \in Nat /\ ended'[f] = ended[f] + 1
            /\ \A g \in Counted \ {f} : ended'[g] = ended[g]
        BY <2>1, <2>3, <2>7, <3>1
      <4>2. /\ IsFiniteSet(Cells(ended', Counted))
            /\ SumOver(ended', Counted) = SumOver(ended, Counted) + 1
        BY <3>2, <3>4, <4>1, OneMoreCell, Zenon
      <4> QED
        BY <3>3, <3>4, <4>2
    <3>5. CASE f \notin Counted
      <4>1. \A g \in Counted : ended'[g] = ended[g]
        BY <2>7, <3>1, <3>5
      <4>2. Cells(ended', Counted) = Cells(ended, Counted)
        BY <4>1, SameCells
      <4> QED
        BY <3>2, <3>3, <3>5, <4>2 DEF SumOver
    <3> QED
      BY <3>4, <3>5
  <2>10. sum + wrong = answered
    BY DEF Blame
  <2>11. sumNow + wrongNow = answeredNow
    <3> HIDE DEF sum, sumNow, wrong, wrongNow, answered, answeredNow
    <3> QED
      BY <2>4, <2>6, <2>8, <2>9, <2>10
  <2> QED
    BY <2>9, <2>11 DEF Blame
<1>2. CASE UNCHANGED <<ended, told>>
  BY <1>2 DEF Blame
<1> QED
  BY <1>1, <1>2 DEF Next, vars, Tamper, NewerBuildRecords

\* FR-2.4: the snapshot shows every attempt of the window once, under what
\* really happened.
THEOREM SnapshotsAreTrue == Spec => []EvidenceIsTrue
<1>1. TypeOK /\ Evidence => EvidenceIsTrue
  <2> SUFFICES ASSUME TypeOK, Evidence PROVE EvidenceIsTrue
    OBVIOUS
  <2>1. \A f \in Known : Merged(f) = ended[f]
    BY DEF Evidence
  <2>2. "ok" \in Known /\ ErrorClass \subseteq Known
    BY DEF Known
  <2>3. SumOver([f \in Known |-> Merged(f)], Known) = Attempts
    <3> DEFINE merged == [f \in Known |-> Merged(f)]
    <3>1. \A f \in Known : merged[f] = ended[f]
      BY <2>1
    <3> HIDE DEF merged
    <3>2. Cells(merged, Known) = Cells(ended, Known)
      BY <3>1, SameCells
    <3> QED
      BY <3>2 DEF SumOver, Attempts, merged
  <2>4. /\ Health.ok = Merged("ok")
        /\ \A c \in ErrorClass : Health.errors[c] = Merged(c)
        /\ Health.success_rate =
              IF Attempts = 0 THEN None ELSE <<Merged("ok"), Attempts>>
    BY <2>3 DEF Health
  <2> QED
    BY <2>1, <2>2, <2>4 DEF EvidenceIsTrue
<1> QED
  BY <1>1, TypesInit, TypesNext, BooksInit, EvidenceNext, PTL DEF Spec

\* What the window blames a provider for is what the clients were told was not
\* their own request's fault, less the wrong keys, whichever exception an adapter
\* raises: "the status mapping and the breaker rule agree" (api/errors.py:292).
THEOREM BlameIsShared == Spec => []BreakerAndClientAgree
<1>1. TypeOK /\ Evidence /\ Blame => BreakerAndClientAgree
  <2> SUFFICES ASSUME TypeOK, Evidence, Blame PROVE BreakerAndClientAgree
    OBVIOUS
  <2>1. \A c \in Counted : Health.errors[c] = ended[c]
    <3>1. Health.errors = [c \in ErrorClass |-> Merged(c)]
      BY DEF Health
    <3>2. \A c \in Counted : c \in ErrorClass /\ c \in Known
      BY DEF Counted, Known
    <3>3. \A c \in Counted : Merged(c) = ended[c]
      BY <3>2 DEF Evidence
    <3> QED
      BY <3>1, <3>2, <3>3
  <2>2. SumOver(Health.errors, Counted) = SumOver(ended, Counted)
    <3> DEFINE errors == Health.errors
    <3>1. \A c \in Counted : errors[c] = ended[c]
      BY <2>1
    <3> HIDE DEF errors
    <3>2. Cells(errors, Counted) = Cells(ended, Counted)
      BY <3>1, SameCells
    <3>3. SumOver(errors, Counted) = SumOver(ended, Counted)
      BY <3>2 DEF SumOver
    <3> QED
      BY <3>3 DEF errors
  <2> DEFINE sum == SumOver(ended, Counted)
             wrong == ended["auth_failure"]
             answered == told[429] + told[503] + told[504]
  <2>3. sum \in Nat /\ wrong \in Nat /\ sum + wrong = answered
    <3>1. "auth_failure" \in Known
      BY DEF Known, ErrorClass
    <3> QED
      BY <3>1, FS_CardinalityType DEF Blame, TypeOK, SumOver
  <2>4. sum = answered - wrong
    <3> HIDE DEF sum, wrong, answered
    <3> QED
      BY <2>3
  <2> QED
    <3> DEFINE blamed == SumOver(Health.errors, Counted)
    <3>1. (blamed = answered - wrong) => BreakerAndClientAgree
      BY DEF BreakerAndClientAgree
    <3>2. blamed = sum
      BY <2>2
    <3> HIDE DEF blamed, answered, wrong, sum
    <3> QED
      BY <2>4, <3>1, <3>2
<1> QED
  BY <1>1, TypesInit, TypesNext, BooksInit, EvidenceNext, BlameNext, PTL DEF Spec
=============================================================================

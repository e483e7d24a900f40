------------------------- MODULE HealthWindowProofs -------------------------
(* Theorems about HealthWindow, for every geometry, every number of        *)
(* attempts and every sequence of clock steps.                             *)
EXTENDS HealthWindow, FiniteSetTheorems, TLAPS

-----------------------------------------------------------------------------
(* Integer division by a bucket width is monotone.                         *)
LEMMA DivMonotone ==
    ASSUME NEW a \in Int, NEW m \in Int, NEW b \in Nat \ {0}, a <= m
    PROVE  a \div b <= m \div b
<1> DEFINE q == a \div b
           r == m \div b
<1>1. q \in Int /\ r \in Int
  OBVIOUS
<1>2. b * q <= a /\ m < b * (r + 1)
  BY SMT
<1>3. b * q < b * (r + 1)
  BY <1>1, <1>2
<1> HIDE DEF q, r
<1>4. q < r + 1
  BY <1>1, <1>3
<1>5. q <= r
  BY <1>1, <1>4
<1> QED
  BY <1>5 DEF q, r

(* Moving by n whole buckets moves the index by n.                         *)
LEMMA DivShift ==
    ASSUME NEW a \in Int, NEW n \in Int, NEW b \in Nat \ {0}
    PROVE  (a - n * b) \div b = a \div b - n
<1> DEFINE q == a \div b
           r == (a - n * b) \div b
<1>1. q \in Int /\ r \in Int
  OBVIOUS
<1>2. b * q <= a /\ a < b * (q + 1)
  BY SMT
<1>3. b * r <= a - n * b /\ a - n * b < b * (r + 1)
  BY SMT
<1> HIDE DEF q, r
<1>4. b * (r + n) < b * (q + 1)
  BY <1>1, <1>2, <1>3
<1>5. b * q < b * (r + n + 1)
  BY <1>1, <1>2, <1>3
<1>6. r + n < q + 1
  BY <1>1, <1>4
<1>7. q < r + n + 1
  BY <1>1, <1>5
<1>8. r = q - n
  BY <1>1, <1>6, <1>7
<1> QED
  BY <1>8 DEF q, r

LEMMA Geometry ==
    /\ BucketCount \in Nat \ {0}
    /\ WindowSeconds = BucketCount * BucketSeconds
    /\ BucketSeconds <= WindowSeconds
<1>1. WindowSeconds \in Nat \ {0} /\ BucketSeconds \in Nat \ {0}
      /\ WindowSeconds % BucketSeconds = 0
  BY GeometryAssumption
<1> DEFINE n == WindowSeconds \div BucketSeconds
<1>2. n \in Int /\ WindowSeconds = (BucketSeconds * n) + (WindowSeconds % BucketSeconds)
  BY <1>1
<1>3. WindowSeconds = n * BucketSeconds
  BY <1>1, <1>2
<1> HIDE DEF n
<1>4. n >= 1
  BY <1>1, <1>2, <1>3
<1>5. BucketSeconds <= WindowSeconds
  BY <1>1, <1>2, <1>3, <1>4
<1> QED
  BY <1>2, <1>3, <1>4, <1>5 DEF n, BucketCount

(* The two edges of the window, for any two readings of the wall clock.    *)
LEMMA Edges ==
    ASSUME NEW s \in Int, NEW t \in Int
    PROVE  /\ s <= t /\ t - s <= WindowSeconds - BucketSeconds =>
                 s \div BucketSeconds \in
                     (t \div BucketSeconds - BucketCount + 1) .. (t \div BucketSeconds)
           /\ t - s >= WindowSeconds =>
                 s \div BucketSeconds < t \div BucketSeconds - BucketCount + 1
<1> DEFINE B == BucketSeconds
           n == BucketCount
<1>1. B \in Nat \ {0} /\ n \in Nat \ {0} /\ WindowSeconds = n * B
  BY Geometry, GeometryAssumption
<1>2. /\ s \div B \in Int
      /\ t \div B \in Int
  BY <1>1
<1>0. n \in Int /\ n - 1 \in Int
  BY <1>1
<1> HIDE DEF B, n
<1>3. (t - n * B) \div B = t \div B - n
  BY <1>0, <1>1, DivShift, Zenon
<1>4. (t - (n - 1) * B) \div B = t \div B - (n - 1)
  BY <1>0, <1>1, DivShift, Zenon
<1>5. /\ n * B \in Int
      /\ (n - 1) * B \in Int
      /\ (n - 1) * B = n * B - B
  BY <1>1
<1>6. ASSUME s <= t, t - s <= WindowSeconds - B
      PROVE  s \div B \in (t \div B - n + 1) .. (t \div B)
  <2>1. t - (n - 1) * B <= s
    BY <1>1, <1>5, <1>6
  <2>2. (t - (n - 1) * B) \div B <= s \div B
    BY <2>1, <1>1, <1>5, DivMonotone
  <2>3. s \div B <= t \div B
    BY <1>1, <1>6, DivMonotone
  <2> QED
    BY <2>2, <2>3, <1>1, <1>2, <1>4
<1>7. ASSUME t - s >= WindowSeconds
      PROVE  s \div B < t \div B - n + 1
  <2>1. s <= t - n * B
    BY <1>1, <1>5, <1>7
  <2>2. s \div B <= (t - n * B) \div B
    BY <2>1, <1>1, <1>5, DivMonotone
  <2> QED
    BY <2>2, <1>1, <1>2, <1>3
<1> QED
  BY <1>6, <1>7 DEF B, n

-----------------------------------------------------------------------------
LEMMA TakeType ==
    ASSUME NEW S, NEW s \in Seq(S), NEW n \in Nat \ {0}, s # <<>>
    PROVE  Take(s, n) \in Seq(S) /\ Take(s, n) # <<>>
<1> DEFINE m == IF Len(s) < n THEN Len(s) ELSE n
<1>1. m \in 1 .. Len(s)
  OBVIOUS
<1>2. SubSeq(s, 1, m) \in Seq(S) /\ Len(SubSeq(s, 1, m)) = m
  BY <1>1
<1> QED
  BY <1>1, <1>2 DEF Take

LEMMA PushType ==
    ASSUME NEW S, NEW s \in Seq(S), NEW x \in S
    PROVE  <<x>> \o s \in Seq(S) /\ <<x>> \o s # <<>>
  OBVIOUS

LEMMA BucketInRange ==
    ASSUME TypeOK
    PROVE  CurrentBucket \in Bucket
<1>1. /\ now \in Nat /\ now <= MaxWall
      /\ MaxWall \in Nat /\ BucketSeconds \in Nat \ {0}
  BY GeometryAssumption, BoundsAssumption DEF TypeOK
<1>2. now \div BucketSeconds <= MaxWall \div BucketSeconds
  BY <1>1, DivMonotone
<1>3. /\ now \div BucketSeconds \in Nat
      /\ MaxWall \div BucketSeconds \in Int
  BY <1>1
<1> QED
  BY <1>2, <1>3 DEF CurrentBucket, Bucket

LEMMA KeyOfType ==
    ASSUME TypeOK, NEW a \in Attempt
    PROVE  KeyOf(a) \in Key
  BY DEF TypeOK, KeyOf, Key

(* What one executed transaction does to the types and to the keys.        *)
LEMMA TransactionType ==
    ASSUME TypeOK, NEW a \in Attempt, Transaction(a)
    PROVE  /\ hash' \in [Key -> [Field -> Nat]]
           /\ hashTTL' \in [Key -> Nat]
           /\ list' \in [Key -> Seq(Attempt)]
           /\ listTTL' \in [Key -> Nat]
           /\ applied' \in [Attempt -> Nat]
<1> DEFINE k == KeyOf(a)
<1>1. k \in Key
  BY KeyOfType
<1> HIDE DEF k
<1>2. outcome[a].field \in Field
  BY DEF TypeOK
<1>3. now + TTL \in Nat
  BY GeometryAssumption, BoundsAssumption DEF TypeOK, TTL
<1>4. Take(<<a>> \o list[k], SampleCap) \in Seq(Attempt)
  <2>1. list[k] \in Seq(Attempt) /\ SampleCap \in Nat \ {0}
    BY <1>1, BoundsAssumption DEF TypeOK
  <2>2. <<a>> \o list[k] \in Seq(Attempt) /\ <<a>> \o list[k] # <<>>
    BY <2>1, PushType
  <2> QED
    BY <2>1, <2>2, TakeType
<1>5. /\ hash' = [hash EXCEPT ![k][outcome[a].field] = @ + 1]
      /\ hashTTL' = [hashTTL EXCEPT ![k] = now + TTL]
      /\ list' = [list EXCEPT ![k] = Take(<<a>> \o list[k], SampleCap)]
      /\ listTTL' = [listTTL EXCEPT ![k] = now + TTL]
  BY DEF Transaction, k
<1>6. hash' \in [Key -> [Field -> Nat]]
  <2>1. [hash[k] EXCEPT ![outcome[a].field] = @ + 1] \in [Field -> Nat]
    BY <1>1, <1>2 DEF TypeOK
  <2>2. hash' = [hash EXCEPT ![k] = [hash[k] EXCEPT ![outcome[a].field] = @ + 1]]
    BY <1>5
  <2> QED
    BY <1>1, <2>1, <2>2, Zenon DEF TypeOK
<1>7. hashTTL' \in [Key -> Nat] /\ listTTL' \in [Key -> Nat]
  BY <1>3, <1>5 DEF TypeOK
<1>8. list' \in [Key -> Seq(Attempt)]
  <2>1. list \in [Key -> Seq(Attempt)]
    BY DEF TypeOK
  <2> QED
    BY <1>4, <1>5, <2>1
<1>9. applied' \in [Attempt -> Nat]
  BY DEF TypeOK, Transaction
<1> QED
  BY <1>6, <1>7, <1>8, <1>9

LEMMA ExpireType ==
    ASSUME TypeOK, NEW t, ExpireAt(t)
    PROVE  /\ hash' \in [Key -> [Field -> Nat]]
           /\ hashTTL' \in [Key -> Nat]
           /\ list' \in [Key -> Seq(Attempt)]
           /\ listTTL' \in [Key -> Nat]
<1>1. EmptyHash \in [Field -> Nat]
  BY DEF EmptyHash
<1>2. hash' \in [Key -> [Field -> Nat]] /\ hashTTL' \in [Key -> Nat]
  BY <1>1 DEF TypeOK, ExpireAt
<1>3. list' \in [Key -> Seq(Attempt)] /\ listTTL' \in [Key -> Nat]
  BY DEF TypeOK, ExpireAt
<1> QED
  BY <1>2, <1>3

LEMMA StrandType ==
    ASSUME TypeOK, NEW as, Strand(as)
    PROVE  stray' \in [Attempt -> Nat]
<1>1. \A a \in Attempt : stray[a] \in Nat /\ stray[a] + 1 \in Nat
  BY DEF TypeOK
<1>2. \A a \in Attempt :
         (IF a \in as /\ pc[a] = "sent" THEN stray[a] + 1 ELSE stray[a]) \in Nat
  BY <1>1
<1> QED
  BY <1>2, Zenon DEF Strand

LEMMA InitType == Init => TypeOK
<1> SUFFICES ASSUME Init PROVE TypeOK
  OBVIOUS
<1>1. EmptyHash \in [Field -> Nat]
  BY DEF EmptyHash
<1>2. 0 \in Bucket
<2>1. MaxWall \div BucketSeconds \in Nat
  BY GeometryAssumption, BoundsAssumption
<2> QED
  BY <2>1 DEF Bucket
<1>3. now \in WindowSeconds .. MaxWall
  BY GeometryAssumption, BoundsAssumption DEF Init
<1> QED
  BY <1>1, <1>2, <1>3, BoundsAssumption DEF Init, TypeOK

(* The type invariant is inductive.                                        *)
LEMMA StepType == TypeOK /\ [Next]_vars => TypeOK'
<1> SUFFICES ASSUME TypeOK, [Next]_vars PROVE TypeOK'
  OBVIOUS
<1> USE DEF InFlight, Settled
<1>1. ASSUME NEW a \in Attempt, RecordStart(a) PROVE TypeOK'
  <2>1. bucket' \in [Attempt -> Bucket]
    BY <1>1, BucketInRange DEF TypeOK, RecordStart
  <2>2. started' \in [Attempt -> 0 .. MaxElapsed]
    BY <1>1 DEF TypeOK, RecordStart
  <2>3. sends' \in [Attempt -> 0 .. MaxSends]
    <3>1. 1 \in 0 .. MaxSends
      BY BoundsAssumption
    <3> QED
      BY <1>1, <3>1 DEF TypeOK, RecordStart
  <2>4. pc' \in [Attempt -> {"idle"} \cup InFlight \cup Settled]
    BY <1>1 DEF TypeOK, RecordStart
  <2> QED
    BY <1>1, <2>1, <2>2, <2>3, <2>4, Zenon
    DEF TypeOK, RecordStart, clockVars, redisVars
<1>2. ASSUME NEW a \in Attempt, ExecuteRecord(a) PROVE TypeOK'
  <2>1. pc' \in [Attempt -> {"idle"} \cup InFlight \cup Settled]
    BY <1>2 DEF TypeOK, ExecuteRecord
  <2>2. /\ hash' \in [Key -> [Field -> Nat]] /\ hashTTL' \in [Key -> Nat]
        /\ list' \in [Key -> Seq(Attempt)] /\ listTTL' \in [Key -> Nat]
        /\ applied' \in [Attempt -> Nat]
    BY <1>2, TransactionType DEF ExecuteRecord
  <2> QED
    BY <1>2, <2>1, <2>2, Zenon DEF TypeOK, ExecuteRecord, clockVars
<1>3. ASSUME NEW a \in Attempt, RecordReturn(a) PROVE TypeOK'
  <2>1. pc' \in [Attempt -> {"idle"} \cup InFlight \cup Settled]
    BY <1>3 DEF TypeOK, RecordReturn
  <2> QED
    BY <1>3, <2>1, Zenon DEF TypeOK, RecordReturn, clockVars, redisVars
<1>4. ASSUME NEW a \in Attempt, RecordDrop(a) PROVE TypeOK'
  <2>1. pc' \in [Attempt -> {"idle"} \cup InFlight \cup Settled]
    BY <1>4 DEF TypeOK, RecordDrop
  <2>2. stray' \in [Attempt -> Nat]
    BY <1>4, StrandType DEF RecordDrop
  <2> QED
    BY <1>4, <2>1, <2>2, Zenon DEF TypeOK, RecordDrop, clockVars, redisVars
<1>5. ASSUME NEW a \in Attempt, RecordCancel(a) PROVE TypeOK'
  <2>1. pc' \in [Attempt -> {"idle"} \cup InFlight \cup Settled]
    BY <1>5 DEF TypeOK, RecordCancel
  <2>2. stray' \in [Attempt -> Nat]
    BY <1>5, StrandType DEF RecordCancel
  <2> QED
    BY <1>5, <2>1, <2>2, Zenon DEF TypeOK, RecordCancel, clockVars, redisVars
<1>6. ASSUME NEW a \in Attempt, RecordResend(a) PROVE TypeOK'
  <2>1. sends' \in [Attempt -> 0 .. MaxSends]
    BY <1>6, BoundsAssumption DEF TypeOK, RecordResend
  <2>2. pc' \in [Attempt -> {"idle"} \cup InFlight \cup Settled]
    BY <1>6 DEF TypeOK, RecordResend
  <2>3. stray' \in [Attempt -> Nat]
    BY <1>6, StrandType DEF RecordResend
  <2> QED
    BY <1>6, <2>1, <2>2, <2>3, Zenon DEF TypeOK, RecordResend, clockVars, redisVars
<1>7. ASSUME NEW a \in Attempt, ExecuteStray(a) PROVE TypeOK'
  <2>1. stray' \in [Attempt -> Nat]
    BY <1>7 DEF TypeOK, ExecuteStray
  <2>2. /\ hash' \in [Key -> [Field -> Nat]] /\ hashTTL' \in [Key -> Nat]
        /\ list' \in [Key -> Seq(Attempt)] /\ listTTL' \in [Key -> Nat]
        /\ applied' \in [Attempt -> Nat]
    BY <1>7, TransactionType DEF ExecuteStray
  <2> QED
    BY <1>7, <2>1, <2>2, Zenon DEF TypeOK, ExecuteStray, clockVars
<1>8. ASSUME UNCHANGED <<clockVars, redisVars, recordVars, applied>>
      PROVE  TypeOK'
  BY <1>8, Zenon DEF TypeOK, clockVars, redisVars, recordVars
<1>9. CASE Tick
  <2>1. now' \in WindowSeconds .. MaxWall /\ elapsed' \in 0 .. MaxElapsed
    BY <1>9, GeometryAssumption, BoundsAssumption DEF TypeOK, Tick
  <2> QED
    BY <1>9, <2>1, ExpireType DEF TypeOK, Tick, recordVars
<1>10. ASSUME NEW d \in ClockSteps, ClockStep(d) PROVE TypeOK'
  <2>1. d \in Int
    BY BoundsAssumption
  <2>2. /\ now' \in WindowSeconds .. MaxWall
        /\ steps' \in 0 .. MaxSteps
        /\ lastStep' \in -1 .. MaxElapsed
        /\ backward' \in Nat
    BY <1>10, <2>1, BoundsAssumption DEF TypeOK, ClockStep
  <2> QED
    BY <1>10, <2>2, ExpireType DEF TypeOK, ClockStep, recordVars
<1>11. CASE Crash
  BY <1>11, StrandType DEF TypeOK, Crash, clockVars, redisVars
<1>12. CASE UNCHANGED vars
  BY <1>8, <1>12 DEF vars
<1>13. ASSUME NEW r \in Reader,
              \/ \E p \in Provider, kind \in {"read", "snapshot"} :
                    ReadStart(r, p, kind)
              \/ ReadHash(r) \/ ReadList(r) \/ ReadFail(r)
       PROVE  TypeOK'
  BY <1>8, <1>13 DEF ReadStart, ReadHash, ReadList, ReadFail
<1> QED
  BY <1>1, <1>2, <1>3, <1>4, <1>5, <1>6, <1>7, <1>9, <1>10, <1>11, <1>12,
     <1>13 DEF Next

(* Every variable keeps its type, whatever the geometry and the bounds.    *)
THEOREM TypeCorrect == Spec => []TypeOK
<1>1. Init => TypeOK
  BY InitType
<1>2. TypeOK /\ [Next]_vars => TypeOK'
  BY StepType
<1> QED
  BY <1>1, <1>2, PTL DEF Spec

-----------------------------------------------------------------------------
LEMMA ExpiresAfterTransaction ==
    ASSUME TypeOK, EveryKeyExpires, NEW a \in Attempt, Transaction(a), now' = now
    PROVE  EveryKeyExpires'
<1> DEFINE k == KeyOf(a)
<1>1. k \in Key
  BY KeyOfType
<1>2. outcome[a].field \in Field
  BY DEF TypeOK
<1>3. now + TTL \in Nat /\ now + TTL > now
  BY GeometryAssumption, BoundsAssumption DEF TypeOK, TTL
<1>4. Take(<<a>> \o list[k], SampleCap) # <<>>
  BY <1>1, PushType, TakeType, BoundsAssumption DEF TypeOK
<1> HIDE DEF k
<1>5. /\ hash' = [hash EXCEPT ![k][outcome[a].field] = @ + 1]
      /\ hashTTL' = [hashTTL EXCEPT ![k] = now + TTL]
      /\ listTTL' = [listTTL EXCEPT ![k] = now + TTL]
      /\ list' = [list EXCEPT ![k] = Take(<<a>> \o @, SampleCap)]
  BY DEF Transaction, k
<1>6. ASSUME NEW j \in Key, j # k
      PROVE  /\ hash'[j] = hash[j] /\ hashTTL'[j] = hashTTL[j]
             /\ list'[j] = list[j] /\ listTTL'[j] = listTTL[j]
  BY <1>5, <1>6 DEF TypeOK
<1>7. hashTTL'[k] = now + TTL /\ listTTL'[k] = now + TTL /\ list'[k] # <<>>
  BY <1>1, <1>4, <1>5 DEF TypeOK
<1>8. hash'[k][outcome[a].field] # 0
  <2>1. hash[k] \in [Field -> Nat]
    BY <1>1 DEF TypeOK
  <2>2. hash'[k][outcome[a].field] = hash[k][outcome[a].field] + 1
    BY <1>1, <1>2, <1>5, <2>1 DEF TypeOK
  <2> QED
    BY <1>2, <2>1, <2>2
<1>9. ASSUME NEW j \in Key
      PROVE  /\ hashTTL'[j] = listTTL'[j]
             /\ (list'[j] = <<>>) <=> (\A f \in Field : hash'[j][f] = 0)
             /\ list'[j] # <<>> => hashTTL'[j] > now
  <2>1. CASE j = k
    BY <2>1, <1>2, <1>3, <1>7, <1>8
  <2>2. CASE j # k
    BY <2>2, <1>6 DEF EveryKeyExpires
  <2> QED
    BY <2>1, <2>2
<1> QED
  BY <1>9 DEF EveryKeyExpires

(* Time passing or being set takes both keys of a bucket or neither.       *)
LEMMA ExpiresAfterExpiry ==
    ASSUME TypeOK, EveryKeyExpires, NEW t \in Nat, ExpireAt(t), now' = t
    PROVE  EveryKeyExpires'
<1> SUFFICES ASSUME NEW k \in Key
             PROVE  /\ hashTTL'[k] = listTTL'[k]
                    /\ (list'[k] = <<>>) <=> (\A f \in Field : hash'[k][f] = 0)
                    /\ list'[k] # <<>> => hashTTL'[k] > t
  BY DEF EveryKeyExpires
<1>1. /\ hashTTL[k] = listTTL[k]
      /\ (list[k] = <<>>) <=> (\A f \in Field : hash[k][f] = 0)
      /\ list[k] # <<>> => hashTTL[k] > now
      /\ hashTTL[k] \in Nat /\ now \in Nat
  BY GeometryAssumption, BoundsAssumption DEF EveryKeyExpires, TypeOK
<1>2. CASE 0 < hashTTL[k] /\ hashTTL[k] <= t
  BY <1>1, <1>2 DEF ExpireAt, EmptyHash
<1>3. CASE ~(0 < hashTTL[k] /\ hashTTL[k] <= t)
  <2>1. /\ hash'[k] = hash[k] /\ hashTTL'[k] = hashTTL[k]
        /\ list'[k] = list[k] /\ listTTL'[k] = listTTL[k]
    BY <1>1, <1>3 DEF ExpireAt
  <2> QED
    BY <1>1, <1>3, <2>1
<1> QED
  BY <1>2, <1>3

LEMMA ExpiresUnchanged ==
    ASSUME EveryKeyExpires, UNCHANGED <<redisVars, now>>
    PROVE  EveryKeyExpires'
  BY DEF EveryKeyExpires, redisVars

(* Both keys of a bucket live and die together, and every key dies: no     *)
(* lost, late or repeated transaction leaves one without a TTL.            *)
THEOREM KeysExpire == Spec => []EveryKeyExpires
<1>1. Init => EveryKeyExpires
  BY DEF Init, EveryKeyExpires, EmptyHash
<1>2. TypeOK /\ EveryKeyExpires /\ [Next]_vars => EveryKeyExpires'
  <2> SUFFICES ASSUME TypeOK, EveryKeyExpires, [Next]_vars
               PROVE  EveryKeyExpires'
    OBVIOUS
  <2>1. ASSUME NEW a \in Attempt, ExecuteRecord(a) \/ ExecuteStray(a)
        PROVE  EveryKeyExpires'
    BY <2>1, ExpiresAfterTransaction
    DEF ExecuteRecord, ExecuteStray, clockVars
  <2>2. ASSUME NEW a \in Attempt,
               \/ RecordStart(a) \/ RecordReturn(a) \/ RecordDrop(a)
               \/ RecordCancel(a) \/ RecordResend(a)
        PROVE  EveryKeyExpires'
    BY <2>2, ExpiresUnchanged
    DEF RecordStart, RecordReturn, RecordDrop, RecordCancel, RecordResend,
        clockVars
  <2>3. ASSUME NEW r \in Reader,
               \/ \E p \in Provider, kind \in {"read", "snapshot"} :
                     ReadStart(r, p, kind)
               \/ ReadHash(r) \/ ReadList(r) \/ ReadFail(r)
        PROVE  EveryKeyExpires'
    BY <2>3, ExpiresUnchanged
    DEF ReadStart, ReadHash, ReadList, ReadFail, clockVars
  <2>4. CASE Tick
    <3>1. now + 1 \in Nat
      BY GeometryAssumption, BoundsAssumption DEF TypeOK
    <3> QED
      BY <2>4, <3>1, ExpiresAfterExpiry DEF Tick
  <2>5. ASSUME NEW d \in ClockSteps, ClockStep(d) PROVE EveryKeyExpires'
    <3>1. now + d \in Nat
      BY <2>5, GeometryAssumption, BoundsAssumption DEF ClockStep
    <3> QED
      BY <2>5, <3>1, ExpiresAfterExpiry DEF ClockStep
  <2>6. CASE Crash
    BY <2>6, ExpiresUnchanged DEF Crash, clockVars
  <2>7. CASE UNCHANGED vars
    BY <2>7, ExpiresUnchanged DEF vars, clockVars
  <2> QED
    BY <2>1, <2>2, <2>3, <2>4, <2>5, <2>6, <2>7 DEF Next
<1> QED
  BY <1>1, <1>2, TypeCorrect, PTL DEF Spec

-----------------------------------------------------------------------------
(* Sums.  A sum counts cells, so what is known of cardinalities is known   *)
(* of it: it is a natural number when its cells are finitely many, it      *)
(* grows with its terms and with the set it runs over, and it splits over  *)
(* sets that have nothing in common.                                       *)
LEMMA CellsOf ==
    ASSUME NEW n, NEW S, NEW c
    PROVE  c \in Cells(n, S) <=> \E x \in S : \E i \in 1 .. n[x] : c = <<x, i>>
<1>1. ASSUME c \in Cells(n, S)
      PROVE  \E x \in S : \E i \in 1 .. n[x] : c = <<x, i>>
  <2>1. PICK x \in S : c \in {x} \X (1 .. n[x])
    BY <1>1 DEF Cells
  <2> QED
    BY <2>1
<1>2. ASSUME NEW x \in S, NEW i \in 1 .. n[x], c = <<x, i>>
      PROVE  c \in Cells(n, S)
  BY <1>2 DEF Cells
<1> QED
  BY <1>1, <1>2

LEMMA CellsAgree ==
    ASSUME NEW n, NEW m, NEW S, \A x \in S : m[x] = n[x]
    PROVE  Cells(m, S) = Cells(n, S)
<1>1. {{x} \X (1 .. m[x]) : x \in S} = {{x} \X (1 .. n[x]) : x \in S}
  OBVIOUS
<1> QED
  BY <1>1 DEF Cells

LEMMA SumType ==
    ASSUME NEW n, NEW S, IsFiniteSet(Cells(n, S))
    PROVE  SumOver(n, S) \in Nat
  BY FS_CardinalityType DEF SumOver

LEMMA SumGrows ==
    ASSUME NEW n, NEW m, NEW S, NEW T, S \subseteq T,
           \A x \in S : n[x] \in Nat /\ m[x] \in Nat /\ n[x] <= m[x],
           IsFiniteSet(Cells(m, T))
    PROVE  IsFiniteSet(Cells(n, S)) /\ SumOver(n, S) <= SumOver(m, T)
<1>1. ASSUME NEW c \in Cells(n, S) PROVE c \in Cells(m, T)
  <2>1. PICK x \in S : \E i \in 1 .. n[x] : c = <<x, i>>
    BY CellsOf
  <2>2. \A i \in 1 .. n[x] : i \in 1 .. m[x]
    <3>1. n[x] \in Nat /\ m[x] \in Nat /\ n[x] <= m[x]
      OBVIOUS
    <3> QED
      BY <3>1
  <2> QED
    BY <2>1, <2>2, CellsOf
<1>2. Cells(n, S) \in SUBSET Cells(m, T)
  BY <1>1
<1> QED
  BY <1>2, FS_Subset DEF SumOver

LEMMA DisjointUnion ==
    ASSUME NEW S, NEW T, S \cap T = {}, IsFiniteSet(S), IsFiniteSet(T)
    PROVE  /\ IsFiniteSet(S \cup T)
           /\ Cardinality(S \cup T) = Cardinality(S) + Cardinality(T)
<1>1. /\ IsFiniteSet(S \cup T)
      /\ Cardinality(S \cup T) =
            Cardinality(S) + Cardinality(T) - Cardinality(S \cap T)
  BY FS_Union
<1>2. Cardinality(S \cap T) = 0
  BY FS_EmptySet
<1>3. Cardinality(S) \in Nat /\ Cardinality(T) \in Nat
  BY FS_CardinalityType
<1> QED
  BY <1>1, <1>2, <1>3

LEMMA SumSplits ==
    ASSUME NEW n, NEW S, NEW T, S \cap T = {},
           IsFiniteSet(Cells(n, S)), IsFiniteSet(Cells(n, T))
    PROVE  /\ IsFiniteSet(Cells(n, S \cup T))
           /\ SumOver(n, S \cup T) = SumOver(n, S) + SumOver(n, T)
<1>1. Cells(n, S \cup T) = Cells(n, S) \cup Cells(n, T)
  BY DEF Cells
<1>2. Cells(n, S) \cap Cells(n, T) = {}
  <2> SUFFICES ASSUME NEW c \in Cells(n, S), c \in Cells(n, T) PROVE FALSE
    OBVIOUS
  <2>1. PICK x \in S : \E i \in 1 .. n[x] : c = <<x, i>>
    BY CellsOf
  <2>2. PICK y \in T : \E j \in 1 .. n[y] : c = <<y, j>>
    BY CellsOf
  <2> QED
    BY <2>1, <2>2
<1> QED
  BY <1>1, <1>2, DisjointUnion DEF SumOver

LEMMA SumOfOne ==
    ASSUME NEW n, NEW x, n[x] \in Nat
    PROVE  IsFiniteSet(Cells(n, {x})) /\ SumOver(n, {x}) = n[x]
<1> DEFINE k == n[x]
<1>1. k \in Nat /\ Cells(n, {x}) = {x} \X (1 .. k)
  BY DEF Cells
<1> HIDE DEF k
<1>2. IsFiniteSet({x}) /\ Cardinality({x}) = 1
  BY FS_Singleton
<1>3. IsFiniteSet(1 .. k) /\ Cardinality(1 .. k) = k
  <2>1. /\ IsFiniteSet(1 .. k)
        /\ Cardinality(1 .. k) = IF 1 > k THEN 0 ELSE k - 1 + 1
    <3>1. 1 \in Int /\ k \in Int
      BY <1>1
    <3> QED
      BY <3>1, FS_Interval, Zenon
  <2> QED
    BY <1>1, <2>1
<1>4. /\ IsFiniteSet({x} \X (1 .. k))
      /\ Cardinality({x} \X (1 .. k)) = Cardinality({x}) * Cardinality(1 .. k)
  BY <1>2, <1>3, FS_Product, Zenon
<1>5. Cardinality({x} \X (1 .. k)) = k
  BY <1>1, <1>2, <1>3, <1>4
<1>6. IsFiniteSet(Cells(n, {x})) /\ SumOver(n, {x}) = k
  BY <1>1, <1>4, <1>5 DEF SumOver
<1> QED
  BY <1>6 DEF k

\* One more unit of one term.
LEMMA OneMoreCell ==
    ASSUME NEW T, NEW S, S \subseteq T, NEW n \in [T -> Nat], NEW x \in S,
           IsFiniteSet(Cells(n, S)), NEW m, m = [n EXCEPT ![x] = @ + 1]
    PROVE  /\ IsFiniteSet(Cells(m, S))
           /\ SumOver(m, S) = SumOver(n, S) + 1
<1> DEFINE R == S \ {x}
<1>1. /\ \A y \in R : n[y] \in Nat /\ m[y] = n[y]
      /\ n[x] \in Nat /\ m[x] = n[x] + 1 /\ m[x] \in Nat
      /\ R \subseteq S /\ S = R \cup {x} /\ R \cap {x} = {}
  OBVIOUS
<1> HIDE DEF R
<1>2. Cells(m, R) = Cells(n, R)
  BY <1>1, CellsAgree
<1>3. IsFiniteSet(Cells(n, R)) /\ IsFiniteSet(Cells(m, R))
  <2>1. \A y \in R : n[y] \in Nat /\ n[y] <= n[y]
    BY <1>1
  <2>2. IsFiniteSet(Cells(n, R))
    BY <1>1, <2>1, SumGrows, Zenon
  <2> QED
    BY <1>2, <2>2
<1>4. IsFiniteSet(Cells(n, {x})) /\ SumOver(n, {x}) = n[x]
  BY <1>1, SumOfOne, Zenon
<1>5. IsFiniteSet(Cells(m, {x})) /\ SumOver(m, {x}) = m[x]
  BY <1>1, SumOfOne, Zenon
<1>6. SumOver(n, R \cup {x}) = SumOver(n, R) + SumOver(n, {x})
  BY <1>1, <1>3, <1>4, SumSplits
<1>7. /\ IsFiniteSet(Cells(m, R \cup {x}))
      /\ SumOver(m, R \cup {x}) = SumOver(m, R) + SumOver(m, {x})
  BY <1>1, <1>3, <1>5, SumSplits
<1>8. SumOver(m, R) = SumOver(n, R) /\ SumOver(n, R) \in Nat
  BY <1>2, <1>3, SumType DEF SumOver
<1>9. IsFiniteSet(Cells(m, S))
  BY <1>1, <1>7
<1>10. SumOver(m, R \cup {x}) = SumOver(n, R \cup {x}) + 1
  BY <1>1, <1>4, <1>5, <1>6, <1>7, <1>8
<1> QED
  BY <1>1, <1>9, <1>10

LEMMA NoCells == IsFiniteSet(Cells(EmptyHash, Field)) /\ Total(EmptyHash) = 0
<1>1. Cells(EmptyHash, Field) = {}
  BY DEF Cells, EmptyHash
<1> QED
  BY <1>1, FS_EmptySet DEF Total, SumOver

(* Pushing onto a list of what is stored of n samples stores n + 1 of them.*)
LEMMA PushStores ==
    ASSUME NEW s \in Seq(Attempt), NEW a \in Attempt, NEW n \in Nat,
           Len(s) = Stored(n)
    PROVE  Len(Take(<<a>> \o s, SampleCap)) = Stored(n + 1)
<1>1. /\ <<a>> \o s \in Seq(Attempt) /\ Len(<<a>> \o s) = Len(s) + 1
      /\ SampleCap \in Nat \ {0}
  BY BoundsAssumption
<1> DEFINE m == IF Len(s) + 1 < SampleCap THEN Len(s) + 1 ELSE SampleCap
<1>2. m \in Nat /\ m <= Len(s) + 1 /\ m = Stored(n + 1)
  BY <1>1 DEF Stored
<1>3. Take(<<a>> \o s, SampleCap) = SubSeq(<<a>> \o s, 1, m)
  BY <1>1 DEF Take
<1> HIDE DEF m
<1>4. Len(SubSeq(<<a>> \o s, 1, m)) = m
  BY <1>1, <1>2
<1> QED
  BY <1>2, <1>3, <1>4

(* Every key keeps finitely many counts, and the samples they call for.    *)
Counted ==
    \A k \in Key :
        /\ IsFiniteSet(Cells(hash[k], Field))
        /\ Len(list[k]) = Stored(Total(hash[k]))

LEMMA CountedAfterTransaction ==
    ASSUME TypeOK, Counted, NEW a \in Attempt, Transaction(a)
    PROVE  Counted'
<1> DEFINE k == KeyOf(a)
           f == outcome[a].field
<1>1. k \in Key /\ f \in Field /\ hash[k] \in [Field -> Nat] /\ list[k] \in Seq(Attempt)
  BY KeyOfType DEF TypeOK
<1> HIDE DEF k, f
<1>2. /\ hash' = [hash EXCEPT ![k] = [hash[k] EXCEPT ![f] = @ + 1]]
      /\ list' = [list EXCEPT ![k] = Take(<<a>> \o @, SampleCap)]
  BY <1>1 DEF Transaction, k, f, TypeOK
<1>3. /\ hash'[k] = [hash[k] EXCEPT ![f] = @ + 1]
      /\ list'[k] = Take(<<a>> \o list[k], SampleCap)
      /\ \A j \in Key : j # k => hash'[j] = hash[j] /\ list'[j] = list[j]
  <2>1. DOMAIN hash = Key /\ DOMAIN list = Key
    BY DEF TypeOK
  <2> QED
    BY <1>1, <1>2, <2>1
<1>4. IsFiniteSet(Cells(hash[k], Field)) /\ Len(list[k]) = Stored(Total(hash[k]))
  BY <1>1 DEF Counted
<1>5. /\ IsFiniteSet(Cells(hash'[k], Field))
      /\ Total(hash'[k]) = Total(hash[k]) + 1
  <2> DEFINE h == hash[k]
             g == hash'[k]
  <2>1. h \in [Field -> Nat] /\ g = [h EXCEPT ![f] = @ + 1] /\ IsFiniteSet(Cells(h, Field))
    BY <1>1, <1>3, <1>4
  <2> HIDE DEF h, g
  <2>2. IsFiniteSet(Cells(g, Field)) /\ Total(g) = Total(h) + 1
    BY <1>1, <2>1, OneMoreCell DEF Total
  <2> QED
    BY <2>2 DEF h, g
<1>6. Total(hash[k]) \in Nat
  BY <1>4, FS_CardinalityType DEF Total, SumOver
<1>7. Len(list'[k]) = Stored(Total(hash'[k]))
  <2>1. Len(Take(<<a>> \o list[k], SampleCap)) = Stored(Total(hash[k]) + 1)
    BY <1>1, <1>4, <1>6, PushStores
  <2> QED
    BY <1>3, <1>5, <2>1
<1>8. ASSUME NEW j \in Key
      PROVE  IsFiniteSet(Cells(hash'[j], Field)) /\ Len(list'[j]) = Stored(Total(hash'[j]))
  <2>1. CASE j = k
    BY <1>5, <1>7, <2>1
  <2>2. CASE j # k
    BY <1>3, <2>2 DEF Counted
  <2> QED
    BY <2>1, <2>2
<1> QED
  BY <1>8 DEF Counted, Total, SumOver, Cells, Stored

LEMMA CountedAfterExpiry ==
    ASSUME TypeOK, EveryKeyExpires, Counted, NEW t, ExpireAt(t)
    PROVE  Counted'
<1>1. ASSUME NEW k \in Key
      PROVE  IsFiniteSet(Cells(hash'[k], Field)) /\ Len(list'[k]) = Stored(Total(hash'[k]))
  <2>1. /\ hashTTL[k] = listTTL[k]
        /\ IsFiniteSet(Cells(hash[k], Field)) /\ Len(list[k]) = Stored(Total(hash[k]))
    BY DEF EveryKeyExpires, Counted
  <2>2. CASE 0 < hashTTL[k] /\ hashTTL[k] <= t
    <3>1. hash'[k] = EmptyHash /\ list'[k] = <<>>
      BY <2>1, <2>2 DEF ExpireAt
    <3>2. Stored(0) = 0
      BY BoundsAssumption DEF Stored
    <3> QED
      BY <3>1, <3>2, NoCells
  <2>3. CASE ~ (0 < hashTTL[k] /\ hashTTL[k] <= t)
    <3>1. hash'[k] = hash[k] /\ list'[k] = list[k]
      BY <2>1, <2>3 DEF ExpireAt
    <3> QED
      BY <2>1, <3>1
  <2> QED
    BY <2>2, <2>3
<1> QED
  BY <1>1 DEF Counted, Total, SumOver, Cells, Stored

LEMMA CountedAlways == Spec => []Counted
<1>1. Init => Counted
  <2> SUFFICES ASSUME Init, NEW k \in Key
               PROVE  IsFiniteSet(Cells(hash[k], Field)) /\ Len(list[k]) = Stored(Total(hash[k]))
    BY DEF Counted
  <2>1. hash[k] = EmptyHash /\ list[k] = <<>>
    BY DEF Init
  <2>2. Stored(0) = 0
    BY BoundsAssumption DEF Stored
  <2> QED
    BY <2>1, <2>2, NoCells
<1>2. TypeOK /\ EveryKeyExpires /\ Counted /\ [Next]_vars => Counted'
  <2> SUFFICES ASSUME TypeOK, EveryKeyExpires, Counted, [Next]_vars
               PROVE  Counted'
    OBVIOUS
  <2>1. ASSUME NEW a \in Attempt, ExecuteRecord(a) \/ ExecuteStray(a)
        PROVE  Counted'
    BY <2>1, CountedAfterTransaction DEF ExecuteRecord, ExecuteStray
  <2>2. CASE UNCHANGED redisVars
    BY <2>2 DEF Counted, redisVars
  <2>3. ASSUME NEW a \in Attempt,
               \/ RecordStart(a) \/ RecordReturn(a) \/ RecordDrop(a)
               \/ RecordCancel(a) \/ RecordResend(a)
        PROVE  Counted'
    BY <2>2, <2>3
    DEF RecordStart, RecordReturn, RecordDrop, RecordCancel, RecordResend
  <2>4. ASSUME NEW r \in Reader,
               \/ \E p \in Provider, kind \in {"read", "snapshot"} :
                     ReadStart(r, p, kind)
               \/ ReadHash(r) \/ ReadList(r) \/ ReadFail(r)
        PROVE  Counted'
    BY <2>2, <2>4 DEF ReadStart, ReadHash, ReadList, ReadFail
  <2>5. CASE Tick \/ \E d \in ClockSteps : ClockStep(d)
    BY <2>5, CountedAfterExpiry DEF Tick, ClockStep
  <2>6. CASE Crash \/ UNCHANGED vars
    BY <2>2, <2>6 DEF Crash, vars
  <2> QED
    BY <2>1, <2>3, <2>4, <2>5, <2>6 DEF Next
<1> QED
  BY <1>1, <1>2, TypeCorrect, KeysExpire, PTL DEF Spec

(* latency.py: the count and the sample land together or not at all, for   *)
(* every cap and however many transactions are lost, late or repeated.     *)
THEOREM SamplesAreCounted == Spec => []SamplesMatchCounts
<1>1. Counted => SamplesMatchCounts
  BY DEF Counted, SamplesMatchCounts
<1> QED
  BY <1>1, CountedAlways, PTL

-----------------------------------------------------------------------------
(* What the bucket of an attempt says of the time since it began: the wall *)
(* clock then, if it was not set since, and at most the time it was set    *)
(* back more otherwise.                                                    *)
BucketOfStart ==
    /\ lastStep <= elapsed
    /\ \A a \in Attempt : pc[a] # "idle" =>
          LET then == now - (elapsed - started[a]) IN
          /\ started[a] <= elapsed
          /\ started[a] > lastStep => bucket[a] = then \div BucketSeconds
          /\ bucket[a] <= (then + backward) \div BucketSeconds

LEMMA BucketOfStartInit == Init => BucketOfStart
  BY DEF Init, BucketOfStart

LEMMA BucketOfStartKept ==
    ASSUME BucketOfStart,
           UNCHANGED <<now, elapsed, lastStep, backward, bucket, started>>,
           \A a \in Attempt : pc'[a] # "idle" => pc[a] # "idle"
    PROVE  BucketOfStart'
  BY DEF BucketOfStart

LEMMA BucketOfStartStep ==
    TypeOK /\ BucketOfStart /\ [Next]_vars => BucketOfStart'
<1> SUFFICES ASSUME TypeOK, BucketOfStart, [Next]_vars PROVE BucketOfStart'
  OBVIOUS
<1>0. /\ now \in Int /\ elapsed \in Int /\ lastStep \in Int /\ backward \in Nat
      /\ BucketSeconds \in Nat \ {0}
      /\ \A a \in Attempt : started[a] \in Int /\ bucket[a] \in Int
  BY GeometryAssumption, BoundsAssumption DEF TypeOK, Bucket
<1>1. ASSUME NEW a \in Attempt, RecordStart(a) PROVE BucketOfStart'
  <2>1. /\ bucket' = [bucket EXCEPT ![a] = now \div BucketSeconds]
        /\ started' = [started EXCEPT ![a] = elapsed]
        /\ pc' = [pc EXCEPT ![a] = "sent"]
        /\ UNCHANGED <<now, elapsed, lastStep, backward>>
    BY <1>1 DEF RecordStart, CurrentBucket, clockVars
  <2>2. now \div BucketSeconds <= (now + backward) \div BucketSeconds
    BY <1>0, DivMonotone
  <2>3. ASSUME NEW b \in Attempt, pc'[b] # "idle"
        PROVE  LET then == now - (elapsed - started'[b]) IN
               /\ started'[b] <= elapsed
               /\ started'[b] > lastStep => bucket'[b] = then \div BucketSeconds
               /\ bucket'[b] <= (then + backward) \div BucketSeconds
    <3>1. CASE b = a
      <4>1. started'[b] = elapsed /\ bucket'[b] = now \div BucketSeconds
        BY <2>1, <3>1 DEF TypeOK
      <4>2. now - (elapsed - started'[b]) = now
        BY <4>1, <1>0
      <4> QED
        BY <4>1, <4>2, <2>2, <1>0
    <3>2. CASE b # a
      <4>1. pc[b] # "idle" /\ started'[b] = started[b] /\ bucket'[b] = bucket[b]
        BY <2>1, <2>3, <3>2 DEF TypeOK
      <4> QED
        BY <4>1 DEF BucketOfStart
    <3> QED
      BY <3>1, <3>2
  <2> QED
    BY <2>1, <2>3 DEF BucketOfStart
<1>2. ASSUME NEW a \in Attempt,
             \/ ExecuteRecord(a) \/ RecordReturn(a) \/ RecordDrop(a)
             \/ RecordCancel(a) \/ RecordResend(a) \/ ExecuteStray(a)
      PROVE  BucketOfStart'
  <2>1. UNCHANGED <<now, elapsed, lastStep, backward, bucket, started>>
    BY <1>2 DEF ExecuteRecord, RecordReturn, RecordDrop, RecordCancel,
                RecordResend, ExecuteStray, clockVars
  <2>2. \A b \in Attempt : pc'[b] # "idle" => pc[b] # "idle"
    BY <1>2 DEF TypeOK, ExecuteRecord, RecordReturn, RecordDrop,
                RecordCancel, RecordResend, ExecuteStray, InFlight
  <2> QED
    BY <2>1, <2>2, BucketOfStartKept
<1>3. ASSUME NEW r \in Reader,
             \/ \E p \in Provider, kind \in {"read", "snapshot"} :
                   ReadStart(r, p, kind)
             \/ ReadHash(r) \/ ReadList(r) \/ ReadFail(r)
      PROVE  BucketOfStart'
  BY <1>3, BucketOfStartKept
  DEF ReadStart, ReadHash, ReadList, ReadFail, clockVars, recordVars
<1>4. CASE Tick
  <2>1. /\ now' = now + 1 /\ elapsed' = elapsed + 1
        /\ UNCHANGED <<lastStep, backward, pc, bucket, started>>
    BY <1>4 DEF Tick, recordVars
  <2>2. \A a \in Attempt :
           now' - (elapsed' - started[a]) = now - (elapsed - started[a])
    BY <1>0, <2>1
  <2> QED
    BY <1>0, <2>1, <2>2 DEF BucketOfStart
<1>5. ASSUME NEW d \in ClockSteps, ClockStep(d) PROVE BucketOfStart'
  <2>1. /\ d \in Int /\ now' = now + d /\ lastStep' = elapsed
        /\ backward' = IF d < 0 THEN backward - d ELSE backward
        /\ UNCHANGED <<elapsed, pc, bucket, started>>
    BY <1>5, BoundsAssumption DEF ClockStep, recordVars
  <2>2. now' + backward' >= now + backward
        /\ now' \in Int /\ backward' \in Int
    BY <1>0, <2>1
  <2>3. ASSUME NEW a \in Attempt, pc[a] # "idle"
        PROVE  bucket[a] <= ((now' - (elapsed - started[a])) + backward')
                              \div BucketSeconds
    <3> DEFINE before == (now - (elapsed - started[a])) + backward
               after == (now' - (elapsed - started[a])) + backward'
    <3>1. before \in Int /\ after \in Int /\ before <= after
      BY <1>0, <2>2
    <3>2. bucket[a] <= before \div BucketSeconds
      BY <2>3 DEF BucketOfStart
    <3> HIDE DEF before, after
    <3>3. before \div BucketSeconds <= after \div BucketSeconds
      BY <1>0, <3>1, DivMonotone
    <3>4. /\ before \div BucketSeconds \in Int
          /\ after \div BucketSeconds \in Int
      BY <1>0, <3>1
    <3>5. bucket[a] <= after \div BucketSeconds
      BY <1>0, <3>2, <3>3, <3>4
    <3> QED
      BY <3>5 DEF after
  <2> QED
    BY <1>0, <2>1, <2>3 DEF BucketOfStart
<1>6. CASE Crash
  <2>1. \A a \in Attempt : pc'[a] # "idle" => pc[a] # "idle"
    BY <1>6 DEF Crash, InFlight
  <2> QED
    BY <1>6, <2>1, BucketOfStartKept DEF Crash, clockVars
<1>7. CASE UNCHANGED vars
  BY <1>7, BucketOfStartKept DEF vars, clockVars, recordVars
<1> QED
  BY <1>1, <1>2, <1>3, <1>4, <1>5, <1>6, <1>7 DEF Next

LEMMA BucketOfStartEdges == TypeOK /\ BucketOfStart => WindowEdges
<1> SUFFICES ASSUME TypeOK, BucketOfStart, NEW a \in Attempt, pc[a] # "idle"
             PROVE  LET age == elapsed - started[a] IN
                    /\ started[a] > lastStep /\ age <= WindowSeconds - BucketSeconds =>
                          bucket[a] \in WindowStart .. CurrentBucket
                    /\ age >= WindowSeconds + backward => bucket[a] < WindowStart
  BY DEF WindowEdges
<1> DEFINE then == now - (elapsed - started[a])
           late == then + backward
<1>0. /\ now \in Int /\ elapsed \in Int /\ backward \in Nat
      /\ started[a] \in Int /\ bucket[a] \in Int
      /\ BucketSeconds \in Nat \ {0} /\ WindowSeconds \in Nat
      /\ BucketCount \in Int
  BY GeometryAssumption, BoundsAssumption, Geometry DEF TypeOK, Bucket
<1>1. /\ started[a] <= elapsed
      /\ started[a] > lastStep => bucket[a] = then \div BucketSeconds
      /\ bucket[a] <= late \div BucketSeconds
  BY DEF BucketOfStart
<1>2. /\ then \in Int /\ late \in Int
      /\ now - then = elapsed - started[a]
      /\ now - late = (elapsed - started[a]) - backward
      /\ then <= now
  BY <1>0, <1>1
<1> HIDE DEF then, late
<1>3. /\ late \div BucketSeconds \in Int
      /\ now \div BucketSeconds \in Int
  BY <1>0, <1>2
<1>4. ASSUME started[a] > lastStep,
             elapsed - started[a] <= WindowSeconds - BucketSeconds
      PROVE  bucket[a] \in WindowStart .. CurrentBucket
  <2>1. now - then <= WindowSeconds - BucketSeconds
    BY <1>2, <1>4
  <2> QED
    BY <1>0, <1>1, <1>2, <1>4, <2>1, Edges DEF WindowStart, CurrentBucket
<1>5. ASSUME elapsed - started[a] >= WindowSeconds + backward
      PROVE  bucket[a] < WindowStart
  <2>1. now - late >= WindowSeconds
    BY <1>0, <1>2, <1>5
  <2>2. late \div BucketSeconds < now \div BucketSeconds - BucketCount + 1
    BY <1>0, <1>2, <2>1, Edges
  <2> QED
    BY <1>0, <1>1, <1>3, <2>2 DEF WindowStart, CurrentBucket
<1> QED
  BY <1>4, <1>5

LEMMA BucketOfStartAlways == Spec => []BucketOfStart
  BY BucketOfStartInit, BucketOfStartStep, TypeCorrect, PTL DEF Spec

(* D3 and ADR 0001: an attempt leaves the window at most one bucket early, *)
(* and stays in it past its age only as long as the clock was set back.    *)
THEOREM WindowIsExact == Spec => []WindowEdges
  BY BucketOfStartAlways, TypeCorrect, BucketOfStartEdges, PTL

-----------------------------------------------------------------------------
(* Every execution of a transaction is paid for by a send of it: those     *)
(* executed, those astray and the one awaited never outnumber the sends.   *)
Awaited(a) == IF pc[a] = "sent" THEN 1 ELSE 0

PaidFor(a) ==
    /\ applied[a] + stray[a] + Awaited(a) <= sends[a]
    /\ pc[a] \in {"executed", "recorded"} => applied[a] > 0
    /\ pc[a] = "idle" => sends[a] = 0

Paid == \A a \in Attempt : PaidFor(a)

LEMMA PaidInit == Init => Paid
  BY DEF Init, Paid, PaidFor, Awaited

\* What is paid for one attempt is paid for whatever becomes of the others.
LEMMA PaidButFor ==
    ASSUME Paid, NEW a \in Attempt, PaidFor(a)',
           \A b \in Attempt : b # a =>
              /\ pc'[b] = pc[b] /\ sends'[b] = sends[b]
              /\ stray'[b] = stray[b] /\ applied'[b] = applied[b]
    PROVE  Paid'
  BY DEF Paid, PaidFor, Awaited

LEMMA PaidAfterStrand ==
    ASSUME TypeOK, Paid, NEW as, Strand(as), UNCHANGED <<sends, applied>>,
           \A a \in Attempt :
              \/ pc'[a] = pc[a] /\ (pc[a] # "sent" \/ a \notin as)
              \/ pc[a] \in InFlight /\ pc'[a] \in {"dropped", "abandoned"} /\ a \in as
    PROVE  Paid'
<1> SUFFICES ASSUME NEW a \in Attempt
             PROVE  /\ applied'[a] + stray'[a] + Awaited(a)' <= sends'[a]
                    /\ pc'[a] \in {"executed", "recorded"} => applied'[a] > 0
                    /\ pc'[a] = "idle" => sends'[a] = 0
  BY DEF Paid, PaidFor
<1>1. /\ applied[a] \in Nat /\ stray[a] \in Nat /\ sends[a] \in Nat
      /\ applied[a] + stray[a] + Awaited(a) <= sends[a]
      /\ pc[a] \in {"executed", "recorded"} => applied[a] > 0
      /\ pc[a] = "idle" => sends[a] = 0
      /\ stray'[a] = IF a \in as /\ pc[a] = "sent" THEN stray[a] + 1 ELSE stray[a]
  BY BoundsAssumption DEF TypeOK, Paid, PaidFor, Strand
<1>2. sends'[a] = sends[a] /\ applied'[a] = applied[a]
  OBVIOUS
<1>3. CASE pc'[a] = pc[a] /\ (pc[a] # "sent" \/ a \notin as)
  BY <1>1, <1>2, <1>3 DEF Awaited
<1>4. CASE pc[a] \in InFlight /\ pc'[a] \in {"dropped", "abandoned"} /\ a \in as
  <2>1. pc'[a] \notin {"sent", "executed", "recorded", "idle"}
    BY <1>4
  <2> QED
    BY <1>1, <1>2, <1>4, <2>1 DEF Awaited
<1> QED
  BY <1>3, <1>4

LEMMA PaidStep == TypeOK /\ Paid /\ [Next]_vars => Paid'
<1> SUFFICES ASSUME TypeOK, Paid, [Next]_vars PROVE Paid'
  OBVIOUS
<1>0. ASSUME NEW a \in Attempt
      PROVE  /\ applied[a] \in Nat /\ stray[a] \in Nat /\ sends[a] \in Nat
             /\ PaidFor(a)
  BY BoundsAssumption DEF TypeOK, Paid
<1>1. ASSUME NEW a \in Attempt, RecordStart(a) PROVE Paid'
  <2>1. /\ pc[a] = "idle" /\ pc' = [pc EXCEPT ![a] = "sent"]
        /\ sends' = [sends EXCEPT ![a] = 1] /\ UNCHANGED <<stray, applied>>
    BY <1>1 DEF RecordStart
  <2>2. pc'[a] = "sent" /\ sends'[a] = 1
    BY <2>1 DEF TypeOK
  <2>3. PaidFor(a)'
    BY <1>0, <2>1, <2>2 DEF PaidFor, Awaited
  <2>4. \A b \in Attempt : b # a => pc'[b] = pc[b] /\ sends'[b] = sends[b]
    BY <2>1 DEF TypeOK
  <2> QED
    BY <2>1, <2>3, <2>4, PaidButFor
<1>2. ASSUME NEW a \in Attempt, ExecuteRecord(a) PROVE Paid'
  <2>1. /\ pc[a] = "sent" /\ pc' = [pc EXCEPT ![a] = "executed"]
        /\ applied' = [applied EXCEPT ![a] = @ + 1] /\ UNCHANGED <<stray, sends>>
    BY <1>2 DEF ExecuteRecord, Transaction
  <2>2. pc'[a] = "executed" /\ applied'[a] = applied[a] + 1
    BY <2>1 DEF TypeOK
  <2>3. PaidFor(a)'
    BY <1>0, <2>1, <2>2 DEF PaidFor, Awaited
  <2>4. \A b \in Attempt : b # a => pc'[b] = pc[b] /\ applied'[b] = applied[b]
    BY <2>1 DEF TypeOK
  <2> QED
    BY <2>1, <2>3, <2>4, PaidButFor
<1>3. ASSUME NEW a \in Attempt, RecordReturn(a) PROVE Paid'
  <2>1. /\ pc[a] = "executed" /\ pc' = [pc EXCEPT ![a] = "recorded"]
        /\ UNCHANGED <<stray, sends, applied>>
    BY <1>3 DEF RecordReturn
  <2>2. pc'[a] = "recorded"
    BY <2>1 DEF TypeOK
  <2>3. PaidFor(a)'
    BY <1>0, <2>1, <2>2 DEF PaidFor, Awaited
  <2>4. \A b \in Attempt : b # a => pc'[b] = pc[b]
    BY <2>1 DEF TypeOK
  <2> QED
    BY <2>1, <2>3, <2>4, PaidButFor
<1>4. ASSUME NEW a \in Attempt, RecordDrop(a) \/ RecordCancel(a) PROVE Paid'
  <2>1. \A b \in Attempt :
           \/ pc'[b] = pc[b] /\ (pc[b] # "sent" \/ b \notin {a})
           \/ pc[b] \in InFlight /\ pc'[b] \in {"dropped", "abandoned"} /\ b \in {a}
    BY <1>4 DEF TypeOK, RecordDrop, RecordCancel
  <2> QED
    BY <1>4, <2>1, PaidAfterStrand DEF RecordDrop, RecordCancel
<1>5. ASSUME NEW a \in Attempt, RecordResend(a) PROVE Paid'
  <2>1. /\ pc[a] \in InFlight
        /\ pc' = [pc EXCEPT ![a] = "sent"]
        /\ sends' = [sends EXCEPT ![a] = @ + 1]
        /\ \A b \in Attempt :
              stray'[b] = IF b = a /\ pc[b] = "sent" THEN stray[b] + 1 ELSE stray[b]
        /\ applied' = applied
    BY <1>5 DEF RecordResend, Strand
  <2>2. pc'[a] = "sent" /\ sends'[a] = sends[a] + 1
    BY <2>1 DEF TypeOK
  <2>3. PaidFor(a)'
    <3>1. stray'[a] + Awaited(a)' <= stray[a] + Awaited(a) + 1
      BY <1>0, <2>1, <2>2 DEF Awaited
    <3>2. /\ stray'[a] \in Nat /\ Awaited(a)' \in Nat /\ Awaited(a) \in Nat
          /\ applied[a] + stray[a] + Awaited(a) <= sends[a]
      BY <1>0, <2>1 DEF Awaited, PaidFor
    <3>3. applied'[a] + stray'[a] + Awaited(a)' <= sends'[a]
      BY <1>0, <2>1, <2>2, <3>1, <3>2
    <3> QED
      BY <2>2, <3>3 DEF PaidFor
  <2>4. \A b \in Attempt : b # a =>
           pc'[b] = pc[b] /\ sends'[b] = sends[b] /\ stray'[b] = stray[b]
    BY <2>1 DEF TypeOK
  <2> QED
    BY <2>1, <2>3, <2>4, PaidButFor
<1>6. ASSUME NEW a \in Attempt, ExecuteStray(a) PROVE Paid'
  <2>1. /\ stray[a] > 0 /\ stray' = [stray EXCEPT ![a] = @ - 1]
        /\ applied' = [applied EXCEPT ![a] = @ + 1] /\ UNCHANGED <<pc, sends>>
    BY <1>6 DEF ExecuteStray, Transaction
  <2>2. stray'[a] = stray[a] - 1 /\ applied'[a] = applied[a] + 1
    BY <2>1 DEF TypeOK
  <2>3. PaidFor(a)'
    BY <1>0, <2>1, <2>2 DEF PaidFor, Awaited
  <2>4. \A b \in Attempt : b # a => stray'[b] = stray[b] /\ applied'[b] = applied[b]
    BY <2>1 DEF TypeOK
  <2> QED
    BY <2>1, <2>3, <2>4, PaidButFor
<1>7. CASE Crash
  <2>1. \A a \in Attempt :
           \/ pc'[a] = pc[a] /\ (pc[a] # "sent" \/ a \notin Attempt)
           \/ pc[a] \in InFlight /\ pc'[a] \in {"dropped", "abandoned"} /\ a \in Attempt
    BY <1>7 DEF TypeOK, Crash, InFlight
  <2> QED
    BY <1>7, <2>1, PaidAfterStrand DEF Crash
<1>8. CASE UNCHANGED <<recordVars, applied>>
  BY <1>8 DEF Paid, PaidFor, Awaited, recordVars
<1>9. ASSUME NEW r \in Reader,
             \/ \E p \in Provider, kind \in {"read", "snapshot"} :
                   ReadStart(r, p, kind)
             \/ ReadHash(r) \/ ReadList(r) \/ ReadFail(r)
      PROVE  Paid'
  BY <1>8, <1>9 DEF ReadStart, ReadHash, ReadList, ReadFail
<1>10. CASE Tick \/ \E d \in ClockSteps : ClockStep(d)
  BY <1>8, <1>10 DEF Tick, ClockStep
<1>11. CASE UNCHANGED vars
  BY <1>8, <1>11 DEF vars
<1> QED
  BY <1>1, <1>2, <1>3, <1>4, <1>5, <1>6, <1>7, <1>9, <1>10, <1>11 DEF Next

LEMMA PaidAlways == Spec => []Paid
  BY PaidInit, PaidStep, TypeCorrect, PTL DEF Spec

\* Only a transaction that was sent is astray.
LEMMA StrayBegan ==
    ASSUME TypeOK, Paid, NEW a \in Attempt, stray[a] > 0
    PROVE  pc[a] # "idle"
<1>1. /\ stray[a] \in Nat /\ applied[a] \in Nat /\ PaidFor(a)
  BY DEF TypeOK, Paid
<1>2. Awaited(a) \in Nat
  BY DEF Awaited
<1> QED
  BY <1>1, <1>2 DEF PaidFor

(* A step of the window is a step of the ledger or leaves it alone.        *)
LEMMA LedgerStep ==
    TypeOK /\ Paid /\ [Next]_vars => [Ledger!LedgerNext]_(Ledger!ledgerVars)
<1> SUFFICES ASSUME TypeOK, Paid, [Next]_vars
             PROVE  Ledger!LedgerNext \/ UNCHANGED <<CallOf, applied>>
  BY DEF Ledger!ledgerVars
<1> USE DEF InFlight
<1>1. ASSUME NEW a \in Attempt, RecordStart(a) PROVE Ledger!Begin(a)
  BY <1>1 DEF TypeOK, RecordStart, CallOf, Ledger!Begin
<1>2. ASSUME NEW a \in Attempt, ExecuteRecord(a) \/ ExecuteStray(a)
      PROVE  Ledger!Write(a)
  <2>1. /\ applied[a] \in Nat /\ stray[a] \in Nat
        /\ sends[a] \in 0 .. MaxSends /\ MaxSends \in Nat
        /\ applied[a] + stray[a] + Awaited(a) <= sends[a]
        /\ pc[a] = "idle" => sends[a] = 0
    BY BoundsAssumption DEF TypeOK, Paid, PaidFor
  <2>2. applied[a] < MaxSends /\ CallOf[a] # "idle"
    BY <1>2, <2>1 DEF Awaited, ExecuteRecord, ExecuteStray, CallOf
  <2>3. CallOf' = CallOf
    BY <1>2 DEF TypeOK, ExecuteRecord, ExecuteStray, CallOf
  <2> QED
    BY <1>2, <2>2, <2>3
    DEF Ledger!Write, ExecuteRecord, ExecuteStray, Transaction
<1>3. ASSUME NEW a \in Attempt, RecordReturn(a) PROVE Ledger!Return(a)
  BY <1>3 DEF TypeOK, Paid, PaidFor, RecordReturn, CallOf, Ledger!Return
<1>4. ASSUME NEW a \in Attempt, RecordDrop(a) PROVE Ledger!Drop(a)
  BY <1>4 DEF TypeOK, RecordDrop, CallOf, Ledger!Drop
<1>5. ASSUME NEW a \in Attempt, RecordCancel(a) PROVE Ledger!Abandon({a})
  BY <1>5 DEF TypeOK, RecordCancel, CallOf, Ledger!Abandon
<1>6. ASSUME NEW a \in Attempt, RecordResend(a)
      PROVE  UNCHANGED <<CallOf, applied>>
  BY <1>6 DEF TypeOK, RecordResend, CallOf
<1>7. CASE Crash
  <2>1. Ledger!Abandon(Attempt)
    <3>1. \A a \in Attempt : pc[a] \notin InFlight => pc[a] # "waiting"
      BY DEF TypeOK, Settled
    <3>2. \A a \in Attempt :
             pc'[a] = IF pc[a] \in InFlight THEN "abandoned" ELSE pc[a]
      BY <1>7 DEF Crash
    <3> QED
      BY <1>7, <3>1, <3>2 DEF Crash, CallOf, Ledger!Abandon
  <2>2. Attempt \in SUBSET Attempt
    OBVIOUS
  <2> QED
    BY <2>1, <2>2 DEF Ledger!LedgerNext
<1>8. ASSUME UNCHANGED <<pc, applied>> PROVE UNCHANGED <<CallOf, applied>>
  BY <1>8 DEF CallOf
<1>9. ASSUME NEW r \in Reader,
             \/ \E p \in Provider, kind \in {"read", "snapshot"} :
                   ReadStart(r, p, kind)
             \/ ReadHash(r) \/ ReadList(r) \/ ReadFail(r)
      PROVE  UNCHANGED <<CallOf, applied>>
  BY <1>8, <1>9 DEF ReadStart, ReadHash, ReadList, ReadFail, recordVars
<1>10. CASE Tick \/ \E d \in ClockSteps : ClockStep(d)
  BY <1>8, <1>10 DEF Tick, ClockStep, recordVars
<1>11. CASE UNCHANGED vars
  BY <1>8, <1>11 DEF vars, recordVars
<1> QED
  BY <1>1, <1>2, <1>3, <1>4, <1>5, <1>6, <1>7, <1>9, <1>10, <1>11
  DEF Next, Ledger!LedgerNext

(* The health window implements the ledger the executor relies on: ADR 0008*)
(* drops a write it cannot confirm, and never confirms one that was lost.  *)
THEOREM WindowImplementsLedger == Spec => ImplementsLedger
<1>1. Init => Ledger!LedgerInit
  BY DEF Init, CallOf, InFlight, Ledger!LedgerInit
<1> QED
  BY <1>1, PaidAlways, TypeCorrect, LedgerStep, PTL
  DEF Spec, ImplementsLedger, Ledger!LedgerSpec

-----------------------------------------------------------------------------
(* Reads.  What a reader holds of the window it began with, and how far it *)
(* has come.                                                               *)
Held ==
    [pc : {"hashes", "lists", "done"}, kind : {"read", "snapshot"},
     provider : Provider, first : Nat,
     hashes : Seq([Field -> Nat]), lists : Seq(Seq(Attempt)),
     started : Nat, owed : SUBSET Attempt]

Progress(rd) ==
    /\ rd.first + BucketCount - 1 \in Bucket
    /\ Len(rd.hashes) <= BucketCount /\ Len(rd.lists) <= BucketCount
    /\ rd.pc = "hashes" => Len(rd.hashes) < BucketCount /\ Len(rd.lists) = 0
    /\ rd.pc = "lists" => Len(rd.hashes) = BucketCount /\ Len(rd.lists) < BucketCount
    /\ rd.pc = "done" => Len(rd.hashes) = BucketCount
    /\ rd.pc = "done" /\ rd.kind = "snapshot" => Len(rd.lists) = BucketCount

Reads ==
    /\ reading = [r \in Reader |-> reading[r]]
    /\ \A r \in Reader :
          \/ reading[r].pc \in {"idle", "unknown"}
          \/ reading[r] \in Held /\ Progress(reading[r])

KeyAt(rd, i) == <<rd.provider, rd.first + i - 1>>

LEMMA KeyAtType ==
    ASSUME NEW rd \in Held, Progress(rd), NEW i \in 1 .. BucketCount
    PROVE  KeyAt(rd, i) \in Key
<1>1. rd.first \in Nat /\ rd.provider \in Provider
  BY DEF Held
<1>2. rd.first + BucketCount - 1 <= MaxWall \div BucketSeconds
  BY DEF Progress, Bucket
<1>3. BucketCount \in Nat /\ MaxWall \div BucketSeconds \in Int
  BY Geometry, GeometryAssumption, BoundsAssumption
<1>4. rd.first + i - 1 \in Bucket
  BY <1>1, <1>2, <1>3 DEF Bucket
<1> QED
  BY <1>1, <1>4 DEF KeyAt, Key

\* A window begins in the past, and in the first of its buckets.
LEMMA WindowStartType ==
    ASSUME TypeOK
    PROVE  /\ WindowStart \in Nat
           /\ WindowStart + BucketCount - 1 \in Bucket
           /\ WindowStart * BucketSeconds + WindowSeconds > now
<1> DEFINE q == now \div BucketSeconds
           n == BucketCount
           B == BucketSeconds
<1>0. /\ now \in Nat /\ now >= WindowSeconds
      /\ WindowSeconds \in Nat /\ B \in Nat \ {0}
  BY GeometryAssumption, BoundsAssumption DEF TypeOK
<1>1. n \in Nat \ {0} /\ WindowSeconds = n * B /\ q \in Nat
  <2>1. now \div BucketSeconds \in Nat
    BY <1>0
  <2> QED
    BY <2>1, Geometry
<1>2. q = CurrentBucket /\ WindowStart = q - n + 1
  BY DEF CurrentBucket, WindowStart
<1>3. now < B * (q + 1)
  BY <1>0, SMT
<1> HIDE DEF q, n, B
<1>4. n * B <= now
  BY <1>0, <1>1
<1>5. n < q + 1
  <2>1. n * B < B * (q + 1)
    BY <1>0, <1>1, <1>3, <1>4
  <2> QED
    BY <1>0, <1>1, <2>1
<1>6. (q - n + 1) * B + n * B = B * (q + 1)
  BY <1>0, <1>1
<1>7. (q - n + 1) * B + WindowSeconds > now
  BY <1>0, <1>1, <1>3, <1>6
<1>8. q \in Bucket
  BY <1>2, BucketInRange
<1> QED
  BY <1>1, <1>2, <1>5, <1>7, <1>8 DEF B, n

LEMMA OwedType == \A p : Owed(p) \subseteq Attempt
  BY DEF Owed

\* Readers that hold something may each be given something else to hold.
LEMMA ReadsUpdated ==
    ASSUME Reads, NEW r \in Reader, NEW rd \in Held, Progress(rd),
           reading' = [reading EXCEPT ![r] = rd]
    PROVE  Reads'
<1>1. /\ reading' = [s \in Reader |-> reading'[s]]
      /\ \A s \in Reader : reading'[s] = IF s = r THEN rd ELSE reading[s]
  BY DEF Reads
<1> QED
  BY <1>1 DEF Reads

LEMMA ReadStartKeeps ==
    ASSUME TypeOK, Reads, NEW r \in Reader, NEW p \in Provider,
           NEW kind \in {"read", "snapshot"}, ReadStart(r, p, kind)
    PROVE  Reads'
<1> DEFINE rd == [pc |-> "hashes", kind |-> kind, provider |-> p,
                  first |-> WindowStart, hashes |-> <<>>, lists |-> <<>>,
                  started |-> elapsed, owed |-> Owed(p)]
<1>1. elapsed \in Nat /\ WindowStart \in Nat /\ BucketCount \in Nat \ {0}
  <2>1. elapsed \in Nat
    BY BoundsAssumption DEF TypeOK
  <2> QED
    BY <2>1, WindowStartType, Geometry
<1>2. rd \in Held
  BY <1>1, OwedType DEF Held
<1>3. Progress(rd)
  BY <1>1, WindowStartType DEF Progress
<1>4. reading' = [reading EXCEPT ![r] = rd]
  BY DEF ReadStart
<1> HIDE DEF rd
<1> QED
  BY <1>2, <1>3, <1>4 DEF Reads

\* What one more reply makes of a read.
WithHash(rd) ==
    [rd EXCEPT !.pc = IF Len(rd.hashes) + 1 < BucketCount THEN "hashes"
                      ELSE IF rd.kind = "read" THEN "done" ELSE "lists",
               !.hashes = Append(@, hash[KeyAt(rd, Len(rd.hashes) + 1)])]

WithList(rd) ==
    [rd EXCEPT !.pc = IF Len(rd.lists) + 1 < BucketCount THEN "lists" ELSE "done",
               !.lists = Append(@, list[KeyAt(rd, Len(rd.lists) + 1)])]

LEMMA WithHashType ==
    ASSUME TypeOK, NEW rd \in Held, Progress(rd), rd.pc = "hashes"
    PROVE  /\ WithHash(rd) \in Held /\ Progress(WithHash(rd))
           /\ WithHash(rd).hashes = Append(rd.hashes, hash[KeyAt(rd, Len(rd.hashes) + 1)])
           /\ WithHash(rd).lists = rd.lists
           /\ WithHash(rd).first = rd.first /\ WithHash(rd).started = rd.started
           /\ WithHash(rd).provider = rd.provider /\ WithHash(rd).kind = rd.kind
           /\ WithHash(rd).owed = rd.owed
<1> DEFINE n == Len(rd.hashes) + 1
           h == hash[KeyAt(rd, n)]
           next == IF n < BucketCount THEN "hashes"
                   ELSE IF rd.kind = "read" THEN "done" ELSE "lists"
<1>1. /\ Len(rd.hashes) \in Nat /\ Len(rd.lists) = 0
      /\ BucketCount \in Nat \ {0} /\ n \in 1 .. BucketCount
      /\ rd.hashes \in Seq([Field -> Nat]) /\ rd.kind \in {"read", "snapshot"}
  BY Geometry DEF Held, Progress
<1>2. h \in [Field -> Nat]
  BY <1>1, KeyAtType DEF TypeOK
<1> HIDE DEF h
<1>3. /\ Append(rd.hashes, h) \in Seq([Field -> Nat])
      /\ Len(Append(rd.hashes, h)) = n
  BY <1>1, <1>2
<1>4. WithHash(rd) = [rd EXCEPT !.pc = next, !.hashes = Append(rd.hashes, h)]
  BY DEF WithHash, h, Held
<1>5. next \in {"hashes", "lists", "done"}
  OBVIOUS
<1>6. WithHash(rd) \in Held
  BY <1>3, <1>4, <1>5 DEF Held
<1>7. /\ WithHash(rd).pc = next
      /\ WithHash(rd).hashes = Append(rd.hashes, h)
      /\ WithHash(rd).lists = rd.lists
      /\ WithHash(rd).first = rd.first /\ WithHash(rd).started = rd.started
      /\ WithHash(rd).provider = rd.provider /\ WithHash(rd).kind = rd.kind
      /\ WithHash(rd).owed = rd.owed
  BY <1>4 DEF Held
<1>8. Progress(WithHash(rd))
  BY <1>1, <1>3, <1>7 DEF Progress
<1> QED
  BY <1>6, <1>7, <1>8 DEF h

LEMMA WithListType ==
    ASSUME TypeOK, NEW rd \in Held, Progress(rd), rd.pc = "lists"
    PROVE  /\ WithList(rd) \in Held /\ Progress(WithList(rd))
           /\ WithList(rd).lists = Append(rd.lists, list[KeyAt(rd, Len(rd.lists) + 1)])
           /\ WithList(rd).hashes = rd.hashes
           /\ WithList(rd).first = rd.first /\ WithList(rd).started = rd.started
           /\ WithList(rd).provider = rd.provider /\ WithList(rd).kind = rd.kind
           /\ WithList(rd).owed = rd.owed
<1> DEFINE n == Len(rd.lists) + 1
           s == list[KeyAt(rd, n)]
           next == IF n < BucketCount THEN "lists" ELSE "done"
<1>1. /\ Len(rd.lists) \in Nat /\ Len(rd.hashes) = BucketCount
      /\ BucketCount \in Nat \ {0} /\ n \in 1 .. BucketCount
      /\ rd.lists \in Seq(Seq(Attempt))
  BY Geometry DEF Held, Progress
<1>2. s \in Seq(Attempt)
  BY <1>1, KeyAtType DEF TypeOK
<1> HIDE DEF s
<1>3. /\ Append(rd.lists, s) \in Seq(Seq(Attempt))
      /\ Len(Append(rd.lists, s)) = n
  BY <1>1, <1>2
<1>4. WithList(rd) = [rd EXCEPT !.pc = next, !.lists = Append(rd.lists, s)]
  BY DEF WithList, s, Held
<1>5. next \in {"hashes", "lists", "done"}
  OBVIOUS
<1>6. WithList(rd) \in Held
  BY <1>3, <1>4, <1>5 DEF Held
<1>7. /\ WithList(rd).pc = next
      /\ WithList(rd).lists = Append(rd.lists, s)
      /\ WithList(rd).hashes = rd.hashes
      /\ WithList(rd).first = rd.first /\ WithList(rd).started = rd.started
      /\ WithList(rd).provider = rd.provider /\ WithList(rd).kind = rd.kind
      /\ WithList(rd).owed = rd.owed
  BY <1>4 DEF Held
<1>8. Progress(WithList(rd))
  BY <1>1, <1>3, <1>7 DEF Progress
<1> QED
  BY <1>6, <1>7, <1>8 DEF s

\* A read under way is one that holds something.
LEMMA UnderWay ==
    ASSUME Reads, NEW r \in Reader, reading[r].pc \in ReadInFlight \cup {"done"}
    PROVE  reading[r] \in Held /\ Progress(reading[r])
  BY DEF Reads, ReadInFlight

LEMMA ReadHashIs ==
    ASSUME TypeOK, Reads, NEW r \in Reader, ReadHash(r)
    PROVE  /\ reading[r] \in Held /\ Progress(reading[r]) /\ reading[r].pc = "hashes"
           /\ reading' = [reading EXCEPT ![r] = WithHash(reading[r])]
<1>1. reading[r].pc = "hashes"
  BY DEF ReadHash
<1>2. reading[r] \in Held /\ Progress(reading[r])
  BY <1>1, UnderWay DEF ReadInFlight
<1> QED
  BY <1>1, <1>2 DEF ReadHash, WithHash, KeyAt

LEMMA ReadListIs ==
    ASSUME TypeOK, Reads, NEW r \in Reader, ReadList(r)
    PROVE  /\ reading[r] \in Held /\ Progress(reading[r]) /\ reading[r].pc = "lists"
           /\ reading' = [reading EXCEPT ![r] = WithList(reading[r])]
<1>1. reading[r].pc = "lists"
  BY DEF ReadList
<1>2. reading[r] \in Held /\ Progress(reading[r])
  BY <1>1, UnderWay DEF ReadInFlight
<1> QED
  BY <1>1, <1>2 DEF ReadList, WithList, KeyAt

LEMMA ReadsInit == Init => Reads
  BY DEF Init, Reads, Idle

LEMMA ReadsStep == TypeOK /\ Reads /\ [Next]_vars => Reads'
<1> SUFFICES ASSUME TypeOK, Reads, [Next]_vars PROVE Reads'
  OBVIOUS
<1>0. CASE UNCHANGED reading
  <2>1. \A r \in Reader : reading'[r] = reading[r]
    BY <1>0
  <2> QED
    BY <1>0 DEF Reads
<1>1. ASSUME NEW r \in Reader, NEW p \in Provider, NEW kind \in {"read", "snapshot"},
             ReadStart(r, p, kind)
      PROVE  Reads'
  BY <1>1, ReadStartKeeps
<1>2. ASSUME NEW r \in Reader, ReadHash(r) PROVE Reads'
  <2>1. /\ WithHash(reading[r]) \in Held /\ Progress(WithHash(reading[r]))
        /\ reading' = [reading EXCEPT ![r] = WithHash(reading[r])]
    BY <1>2, ReadHashIs, WithHashType
  <2> QED
    BY <2>1, ReadsUpdated
<1>3. ASSUME NEW r \in Reader, ReadList(r) PROVE Reads'
  <2>1. /\ WithList(reading[r]) \in Held /\ Progress(WithList(reading[r]))
        /\ reading' = [reading EXCEPT ![r] = WithList(reading[r])]
    BY <1>3, ReadListIs, WithListType
  <2> QED
    BY <2>1, ReadsUpdated
<1>4. ASSUME NEW r \in Reader, ReadFail(r) PROVE Reads'
  BY <1>4 DEF ReadFail, Reads
<1>5. CASE Crash
  BY <1>5 DEF Crash, Reads, Idle
<1>6. ASSUME NEW a \in Attempt,
             \/ RecordStart(a) \/ ExecuteRecord(a) \/ RecordReturn(a)
             \/ RecordDrop(a) \/ RecordCancel(a) \/ RecordResend(a)
             \/ ExecuteStray(a)
      PROVE  Reads'
  BY <1>0, <1>6 DEF RecordStart, ExecuteRecord, RecordReturn, RecordDrop,
                    RecordCancel, RecordResend, ExecuteStray
<1>7. CASE Tick \/ (\E d \in ClockSteps : ClockStep(d)) \/ UNCHANGED vars
  BY <1>0, <1>7 DEF Tick, ClockStep, vars
<1> QED
  BY <1>1, <1>2, <1>3, <1>4, <1>5, <1>6, <1>7 DEF Next

-----------------------------------------------------------------------------
(* Evidence.  While the clock is left alone, a key of the window lives     *)
(* longer than a reader that found it waits, so the lists a snapshot goes  *)
(* on to fetch have only grown since it saw their counts.                  *)
Covered(rd, t, ls) ==
    /\ rd.first * BucketSeconds + WindowSeconds > Epoch + rd.started
    /\ rd.pc \in ReadInFlight => t <= rd.started + BoxTicks
    /\ \A i \in 1 .. Len(rd.hashes) :
          /\ Total(rd.hashes[i]) \in Nat
          /\ i <= Len(rd.lists) => Len(rd.lists[i]) >= Stored(Total(rd.hashes[i]))
          /\ i > Len(rd.lists) /\ rd.pc \in ReadInFlight =>
                Len(ls[KeyAt(rd, i)]) >= Stored(Total(rd.hashes[i]))

LongLived ==
    \A k \in Key : list[k] # <<>> => hashTTL[k] >= k[2] * BucketSeconds + TTL

Reading(r) == reading[r].pc \in ReadInFlight \cup {"done"}

Evidence ==
    lastStep = -1 =>
        /\ now = Epoch + elapsed
        /\ LongLived
        /\ \A r \in Reader : Reading(r) => Covered(reading[r], elapsed, list)

\* What the other invariants say, as far as evidence rests on them.
Books == TypeOK /\ EveryKeyExpires /\ Counted /\ BucketOfStart /\ Paid /\ Reads

LEMMA EvidenceInit == Init => Evidence
<1> SUFFICES ASSUME Init PROVE Evidence
  OBVIOUS
<1>1. now = Epoch + elapsed /\ LongLived
  BY BoundsAssumption DEF Init, LongLived
<1>2. \A r \in Reader : ~Reading(r)
  BY DEF Init, Reading, Idle, ReadInFlight
<1> QED
  BY <1>1, <1>2 DEF Evidence

LEMMA StoredType ==
    ASSUME NEW n \in Nat
    PROVE  Stored(n) \in Nat
  BY BoundsAssumption DEF Stored

\* Evidence outlives time that passes within the box, and lists that grow.
LEMMA CoveredKept ==
    ASSUME NEW rd \in Held, Progress(rd), NEW t, NEW ls, NEW u, NEW ms,
           Covered(rd, t, ls),
           rd.pc \in ReadInFlight => u <= rd.started + BoxTicks,
           rd.pc \in ReadInFlight => \A i \in 1 .. Len(rd.hashes) :
              /\ Len(ls[KeyAt(rd, i)]) \in Nat /\ Len(ms[KeyAt(rd, i)]) \in Nat
              /\ Len(ms[KeyAt(rd, i)]) >= Len(ls[KeyAt(rd, i)])
    PROVE  Covered(rd, u, ms)
<1>1. ASSUME NEW i \in 1 .. Len(rd.hashes)
      PROVE  /\ Total(rd.hashes[i]) \in Nat
             /\ i <= Len(rd.lists) => Len(rd.lists[i]) >= Stored(Total(rd.hashes[i]))
             /\ i > Len(rd.lists) /\ rd.pc \in ReadInFlight =>
                   Len(ms[KeyAt(rd, i)]) >= Stored(Total(rd.hashes[i]))
  <2>1. Total(rd.hashes[i]) \in Nat
    BY DEF Covered
  <2>2. Stored(Total(rd.hashes[i])) \in Nat
    BY <2>1, StoredType
  <2>3. ASSUME i > Len(rd.lists), rd.pc \in ReadInFlight
        PROVE  Len(ms[KeyAt(rd, i)]) >= Stored(Total(rd.hashes[i]))
    <3>1. Len(ls[KeyAt(rd, i)]) >= Stored(Total(rd.hashes[i]))
      BY <2>3 DEF Covered
    <3> QED
      BY <2>2, <2>3, <3>1
  <2> QED
    BY <2>1, <2>3 DEF Covered
<1> QED
  BY <1>1 DEF Covered

LEMMA HashedKeys ==
    ASSUME NEW rd \in Held, Progress(rd), NEW i \in 1 .. Len(rd.hashes)
    PROVE  i \in 1 .. BucketCount /\ KeyAt(rd, i) \in Key
<1>1. Len(rd.hashes) \in Nat /\ BucketCount \in Nat /\ Len(rd.hashes) <= BucketCount
  BY Geometry DEF Held, Progress
<1>2. i \in 1 .. BucketCount
  BY <1>1
<1> QED
  BY <1>2, KeyAtType

\* The lists of a transaction are never shorter than they were, and its key
\* lives for two windows from its bucket.
LEMMA TransactionGrows ==
    ASSUME Books, NEW a \in Attempt, Transaction(a)
    PROVE  \A k \in Key : Len(list'[k]) \in Nat /\ Len(list[k]) \in Nat
                              /\ Len(list'[k]) >= Len(list[k])
<1> DEFINE k == KeyOf(a)
<1>1. k \in Key /\ list \in [Key -> Seq(Attempt)]
  BY KeyOfType DEF Books, TypeOK
<1>2. IsFiniteSet(Cells(hash[k], Field)) /\ Len(list[k]) = Stored(Total(hash[k]))
  BY <1>1 DEF Books, Counted
<1>3. Total(hash[k]) \in Nat
  BY <1>2, FS_CardinalityType DEF Total, SumOver
<1> HIDE DEF k
<1>4. list' = [list EXCEPT ![k] = Take(<<a>> \o list[k], SampleCap)]
  BY DEF Transaction, k
<1>5. Len(Take(<<a>> \o list[k], SampleCap)) = Stored(Total(hash[k]) + 1)
  BY <1>1, <1>2, <1>3, PushStores
<1>6. /\ Stored(Total(hash[k]) + 1) >= Stored(Total(hash[k]))
      /\ Stored(Total(hash[k]) + 1) \in Nat
  BY <1>3, BoundsAssumption DEF Stored
<1> QED
  BY <1>1, <1>2, <1>4, <1>5, <1>6

LEMMA TransactionKeeps ==
    ASSUME Books, Evidence, NEW a \in Attempt, Transaction(a), pc[a] # "idle",
           UNCHANGED <<now, elapsed, lastStep, reading>>
    PROVE  Evidence'
<1> SUFFICES ASSUME lastStep = -1
             PROVE  /\ now = Epoch + elapsed
                    /\ LongLived'
                    /\ \A r \in Reader : Reading(r) => Covered(reading[r], elapsed, list')
  BY DEF Evidence, Reading, Covered, ReadInFlight, KeyAt, Total, SumOver, Cells, Stored
<1>1. LongLived'
  <2> DEFINE k == KeyOf(a)
  <2>0. k \in Key /\ k[2] = bucket[a]
    BY KeyOfType DEF Books, KeyOf
  <2>1. /\ k \in Key /\ k[2] = bucket[a]
        /\ now \in Int /\ elapsed \in Int /\ started[a] \in Int /\ bucket[a] \in Int
        /\ BucketSeconds \in Nat \ {0} /\ TTL \in Int /\ backward \in Nat
    <3>1. now \in Int /\ elapsed \in Int /\ backward \in Nat
      BY DEF Books, TypeOK
    <3>2. started[a] \in Int /\ bucket[a] \in Int
      BY DEF Books, TypeOK, Bucket
    <3>3. BucketSeconds \in Nat \ {0} /\ TTL \in Int
      BY GeometryAssumption DEF TTL
    <3> QED
      BY <2>0, <3>1, <3>2, <3>3
  <2>2. started[a] > lastStep
    BY DEF Books, TypeOK
  <2>3. /\ started[a] <= elapsed
        /\ bucket[a] = (now - (elapsed - started[a])) \div BucketSeconds
    BY <2>2 DEF Books, BucketOfStart
  <2>4. bucket[a] * BucketSeconds <= now
    <3> DEFINE then == now - (elapsed - started[a])
    <3>1. then \in Int /\ then <= now
      BY <2>1, <2>3
    <3>2. bucket[a] = then \div BucketSeconds
      BY <2>3
    <3> HIDE DEF then
    <3>3. BucketSeconds * (then \div BucketSeconds) <= then
      BY <2>1, <3>1, SMT
    <3> QED
      BY <2>1, <3>1, <3>2, <3>3
  <2> HIDE DEF k
  <2>5. /\ hashTTL' = [hashTTL EXCEPT ![k] = now + TTL]
        /\ list' = [list EXCEPT ![k] = Take(<<a>> \o @, SampleCap)]
    BY DEF Transaction, k
  <2>6. ASSUME NEW j \in Key, list'[j] # <<>>
        PROVE  hashTTL'[j] >= j[2] * BucketSeconds + TTL
    <3>1. CASE j = k
      <4>1. hashTTL'[k] = now + TTL
        BY <2>1, <2>5 DEF Books, TypeOK
      <4> QED
        BY <2>1, <2>4, <3>1, <4>1
    <3>2. CASE j # k
      BY <2>5, <2>6, <3>2 DEF Books, TypeOK, Evidence, LongLived
    <3> QED
      BY <3>1, <3>2
  <2> QED
    BY <2>6 DEF LongLived, TTL
<1>2. ASSUME NEW r \in Reader, Reading(r)
      PROVE  Covered(reading[r], elapsed, list')
  <2>1. reading[r] \in Held /\ Progress(reading[r])
    BY <1>2, UnderWay DEF Books, Reading
  <2>2. Covered(reading[r], elapsed, list)
    BY <1>2 DEF Evidence
  <2>3. reading[r].pc \in ReadInFlight => elapsed <= reading[r].started + BoxTicks
    BY <2>2 DEF Covered
  <2>4. \A i \in 1 .. Len(reading[r].hashes) : KeyAt(reading[r], i) \in Key
    BY <2>1, HashedKeys
  <2>5. \A i \in 1 .. Len(reading[r].hashes) :
           /\ Len(list[KeyAt(reading[r], i)]) \in Nat
           /\ Len(list'[KeyAt(reading[r], i)]) \in Nat
           /\ Len(list'[KeyAt(reading[r], i)]) >= Len(list[KeyAt(reading[r], i)])
    BY <2>4, TransactionGrows
  <2> QED
    BY <2>1, <2>2, <2>3, <2>5, CoveredKept
<1> QED
  BY <1>1, <1>2 DEF Evidence

LEMMA TickKeeps ==
    ASSUME Books, Evidence, Tick
    PROVE  Evidence'
<1>0. /\ now' = now + 1 /\ elapsed' = elapsed + 1 /\ lastStep' = lastStep
      /\ reading' = reading /\ ExpireAt(now + 1)
      /\ \A r \in Reader :
            reading[r].pc \in ReadInFlight => elapsed < reading[r].started + BoxTicks
  BY DEF Tick
<1>1. /\ now \in Int /\ elapsed \in Int /\ Epoch \in Nat /\ BoxTicks \in Nat
      /\ WindowSeconds \in Nat \ {0} /\ BucketSeconds \in Nat \ {0}
      /\ BoxTicks <= WindowSeconds
      /\ list \in [Key -> Seq(Attempt)] /\ hashTTL \in [Key -> Nat]
      /\ \A k \in Key : hashTTL[k] = listTTL[k]
  BY GeometryAssumption, BoundsAssumption DEF Books, TypeOK, EveryKeyExpires
<1> SUFFICES ASSUME lastStep = -1
             PROVE  /\ now' = Epoch + elapsed'
                    /\ LongLived'
                    /\ \A r \in Reader : Reading(r) => Covered(reading[r], elapsed', list')
  BY <1>0 DEF Evidence, Reading, Covered, ReadInFlight, KeyAt, Total, SumOver, Cells, Stored
<1>2. now = Epoch + elapsed /\ LongLived
  BY DEF Evidence
<1>3. \A k \in Key : \/ list'[k] = list[k] /\ hashTTL'[k] = hashTTL[k]
                     \/ list'[k] = <<>> /\ hashTTL[k] <= now + 1
  BY <1>0, <1>1 DEF ExpireAt
<1>4. LongLived'
  <2> SUFFICES ASSUME NEW k \in Key, list'[k] # <<>>
               PROVE  hashTTL'[k] >= k[2] * BucketSeconds + TTL
    BY DEF LongLived, TTL
  <2> QED
    BY <1>2, <1>3 DEF LongLived
<1>5. ASSUME NEW r \in Reader, Reading(r)
      PROVE  Covered(reading[r], elapsed', list')
  <2> DEFINE rd == reading[r]
  <2>1. rd \in Held /\ Progress(rd)
    BY <1>5, UnderWay DEF Books, Reading
  <2>2. Covered(rd, elapsed, list)
    BY <1>5 DEF Evidence
  <2>3. rd.pc \in ReadInFlight => elapsed < rd.started + BoxTicks
    BY <1>0
  <2>4. rd.started \in Nat /\ rd.first \in Nat
    BY <2>1 DEF Held
  <2>5. rd.first * BucketSeconds + WindowSeconds > Epoch + rd.started
    BY <2>2 DEF Covered
  <2> HIDE DEF rd
  <2>6. ASSUME rd.pc \in ReadInFlight, NEW i \in 1 .. Len(rd.hashes)
        PROVE  list'[KeyAt(rd, i)] = list[KeyAt(rd, i)] /\ KeyAt(rd, i) \in Key
    <3> DEFINE k == KeyAt(rd, i)
    <3>1. k \in Key /\ k[2] = rd.first + i - 1 /\ i \in 1 .. BucketCount
      BY <2>1, HashedKeys DEF KeyAt
    <3> HIDE DEF k
    <3>2. CASE list[k] = <<>>
      BY <1>3, <3>1, <3>2 DEF k
    <3>3. CASE list[k] # <<>>
      <4>1. hashTTL[k] >= k[2] * BucketSeconds + TTL
        BY <1>2, <3>1, <3>3 DEF LongLived
      <4>2. k[2] \in Nat /\ rd.first <= k[2]
        <5> DEFINE s == rd.first
        <5>1. s \in Nat /\ k[2] = s + i - 1 /\ i >= 1 /\ i \in Int
          BY <2>4, <3>1, Geometry
        <5> HIDE DEF s
        <5>2. k[2] \in Nat /\ s <= k[2]
          BY <5>1
        <5> QED
          BY <5>2 DEF s
      <4>3. rd.first * BucketSeconds <= k[2] * BucketSeconds
        <5> DEFINE x == rd.first
                   y == k[2]
        <5>1. x \in Nat /\ y \in Nat /\ x <= y /\ BucketSeconds \in Nat
          BY <1>1, <2>4, <4>2
        <5> HIDE DEF x, y
        <5>2. x * BucketSeconds <= y * BucketSeconds
          BY <5>1
        <5> QED
          BY <5>2 DEF x, y
      <4>4. /\ rd.first * BucketSeconds \in Int /\ k[2] * BucketSeconds \in Int
            /\ hashTTL[k] \in Int /\ TTL = WindowSeconds + WindowSeconds
        <5>1. rd.first * BucketSeconds \in Int /\ k[2] * BucketSeconds \in Int
          BY <1>1, <2>4, <4>2
        <5>2. hashTTL[k] \in Int
          BY <1>1, <3>1
        <5> QED
          BY <1>1, <5>1, <5>2 DEF TTL
      <4>5. now + 1 <= Epoch + rd.started + WindowSeconds
        <5>1. elapsed < rd.started + BoxTicks
          BY <2>3, <2>6
        <5> DEFINE s == rd.started
        <5>2. s \in Nat /\ elapsed < s + BoxTicks
          BY <2>4, <5>1
        <5> HIDE DEF s
        <5>3. now + 1 <= Epoch + s + WindowSeconds
          BY <1>1, <1>2, <5>2
        <5> QED
          BY <5>3 DEF s
      <4>6. hashTTL[k] > now + 1
        <5> DEFINE x == rd.first * BucketSeconds
                   y == k[2] * BucketSeconds
                   ttl == hashTTL[k]
        <5>1. /\ ttl >= y + TTL /\ x <= y
              /\ x \in Int /\ y \in Int /\ ttl \in Int
              /\ TTL = WindowSeconds + WindowSeconds
              /\ x + WindowSeconds > Epoch + rd.started
          BY <2>5, <4>1, <4>3, <4>4
        <5> HIDE DEF x, y, ttl
        <5>2. ttl > now + 1
          BY <1>1, <2>4, <4>5, <5>1
        <5> QED
          BY <5>2 DEF ttl
      <4> QED
        BY <1>1, <1>3, <3>1, <4>4, <4>6 DEF k
    <3> QED
      BY <3>2, <3>3
  <2>7. rd.pc \in ReadInFlight => \A i \in 1 .. Len(rd.hashes) :
           /\ Len(list[KeyAt(rd, i)]) \in Nat /\ Len(list'[KeyAt(rd, i)]) \in Nat
           /\ Len(list'[KeyAt(rd, i)]) >= Len(list[KeyAt(rd, i)])
    BY <1>1, <2>6
  <2>8. rd.pc \in ReadInFlight => elapsed' <= rd.started + BoxTicks
    BY <1>0, <1>1, <2>3, <2>4
  <2> QED
    BY <2>1, <2>2, <2>7, <2>8, CoveredKept DEF rd
<1> QED
  BY <1>0, <1>1, <1>2, <1>4, <1>5

LEMMA ReadStartCovers ==
    ASSUME Books, Evidence, NEW r \in Reader, NEW p \in Provider,
           NEW kind \in {"read", "snapshot"}, ReadStart(r, p, kind)
    PROVE  Evidence'
<1> SUFFICES ASSUME lastStep = -1
             PROVE  \A s \in Reader : Reading(s)' => Covered(reading'[s], elapsed, list)
  BY DEF Evidence, LongLived, ReadStart, clockVars, redisVars
<1> DEFINE rd == [pc |-> "hashes", kind |-> kind, provider |-> p,
                  first |-> WindowStart, hashes |-> <<>>, lists |-> <<>>,
                  started |-> elapsed, owed |-> Owed(p)]
<1>1. reading' = [reading EXCEPT ![r] = rd]
  BY DEF ReadStart
<1>2. now = Epoch + elapsed /\ elapsed \in Int /\ BoxTicks \in Nat
  BY BoundsAssumption DEF Evidence, Books, TypeOK
<1>3. WindowStart * BucketSeconds + WindowSeconds > now
  BY WindowStartType DEF Books
<1>4. Covered(rd, elapsed, list)
  BY <1>2, <1>3 DEF Covered
<1> HIDE DEF rd
<1>5. \A s \in Reader : reading'[s] = IF s = r THEN rd ELSE reading[s]
  BY <1>1 DEF Books, Reads
<1> QED
  BY <1>4, <1>5 DEF Evidence, Reading

LEMMA ReadHashCovers ==
    ASSUME Books, Evidence, NEW r \in Reader, ReadHash(r)
    PROVE  Evidence'
<1> SUFFICES ASSUME lastStep = -1
             PROVE  \A s \in Reader : Reading(s)' => Covered(reading'[s], elapsed, list)
  BY DEF Evidence, LongLived, ReadHash, clockVars, redisVars
<1> DEFINE rd == reading[r]
           k == KeyAt(rd, Len(rd.hashes) + 1)
           new == WithHash(rd)
<1>1. /\ rd \in Held /\ Progress(rd) /\ rd.pc = "hashes"
      /\ reading' = [reading EXCEPT ![r] = new]
  BY ReadHashIs DEF Books
<1>2. Covered(rd, elapsed, list)
  BY <1>1 DEF Evidence, Reading, ReadInFlight
<1>3. /\ new \in Held /\ Progress(new)
      /\ new.hashes = Append(rd.hashes, hash[k]) /\ new.lists = rd.lists
      /\ new.first = rd.first /\ new.started = rd.started /\ new.provider = rd.provider
  BY <1>1, WithHashType DEF Books
<1>4. Len(rd.lists) = 0 /\ Len(rd.hashes) \in Nat /\ Len(rd.hashes) < BucketCount
      /\ BucketCount \in Nat /\ rd.hashes \in Seq([Field -> Nat])
  BY <1>1, Geometry DEF Held, Progress
<1>5. k \in Key
  BY <1>1, <1>4, KeyAtType
<1>6. /\ Total(hash[k]) \in Nat
      /\ Len(list[k]) = Stored(Total(hash[k]))
      /\ Len(list[k]) \in Nat
  BY <1>5, FS_CardinalityType DEF Books, Counted, Total, SumOver, TypeOK
<1>7. hash[k] \in [Field -> Nat]
  BY <1>5 DEF Books, TypeOK
<1>8. \A i \in 1 .. Len(rd.hashes) + 1 :
         KeyAt(new, i) = KeyAt(rd, i)
  BY <1>3 DEF KeyAt
<1> HIDE DEF new, rd
<1>9. ASSUME NEW i \in 1 .. Len(new.hashes)
      PROVE  /\ Total(new.hashes[i]) \in Nat
             /\ ~ (i <= Len(new.lists))
             /\ Len(list[KeyAt(new, i)]) >= Stored(Total(new.hashes[i]))
  <2>1. /\ Len(new.hashes) = Len(rd.hashes) + 1
        /\ \A j \in 1 .. Len(rd.hashes) : new.hashes[j] = rd.hashes[j]
        /\ new.hashes[Len(rd.hashes) + 1] = hash[k]
    BY <1>3, <1>4, <1>7
  <2>2. KeyAt(new, i) = KeyAt(rd, i) /\ ~ (i <= Len(new.lists))
    BY <1>3, <1>4, <1>8, <2>1
  <2>3. CASE i = Len(rd.hashes) + 1
    BY <1>6, <2>1, <2>2, <2>3
  <2>4. CASE i \in 1 .. Len(rd.hashes)
    <3>1. i > Len(rd.lists) /\ rd.pc \in ReadInFlight
      BY <1>1, <1>4, <2>4 DEF ReadInFlight
    <3> QED
      BY <1>2, <2>1, <2>2, <2>4, <3>1 DEF Covered
  <2> QED
    BY <1>4, <2>1, <2>3, <2>4
<1>10. elapsed <= new.started + BoxTicks
  BY <1>1, <1>2, <1>3 DEF Covered, ReadInFlight
<1>11. Covered(new, elapsed, list)
  BY <1>2, <1>3, <1>9, <1>10 DEF Covered
<1>12. \A s \in Reader : reading'[s] = IF s = r THEN new ELSE reading[s]
  BY <1>1 DEF Books, Reads
<1> QED
  BY <1>11, <1>12 DEF Evidence, Reading

LEMMA ReadListCovers ==
    ASSUME Books, Evidence, NEW r \in Reader, ReadList(r)
    PROVE  Evidence'
<1> SUFFICES ASSUME lastStep = -1
             PROVE  \A s \in Reader : Reading(s)' => Covered(reading'[s], elapsed, list)
  BY DEF Evidence, LongLived, ReadList, clockVars, redisVars
<1> DEFINE rd == reading[r]
           k == KeyAt(rd, Len(rd.lists) + 1)
           new == WithList(rd)
<1>1. /\ rd \in Held /\ Progress(rd) /\ rd.pc = "lists"
      /\ reading' = [reading EXCEPT ![r] = new]
  BY ReadListIs DEF Books
<1>2. Covered(rd, elapsed, list)
  BY <1>1 DEF Evidence, Reading, ReadInFlight
<1>3. /\ new \in Held /\ Progress(new)
      /\ new.lists = Append(rd.lists, list[k]) /\ new.hashes = rd.hashes
      /\ new.first = rd.first /\ new.started = rd.started /\ new.provider = rd.provider
  BY <1>1, WithListType DEF Books
<1>4. /\ Len(rd.lists) \in Nat /\ Len(rd.lists) < Len(rd.hashes)
      /\ Len(rd.hashes) = BucketCount /\ BucketCount \in Nat
      /\ rd.lists \in Seq(Seq(Attempt))
  BY <1>1, Geometry DEF Held, Progress
<1>5. k \in Key
  BY <1>1, <1>4, KeyAtType
<1>6. list[k] \in Seq(Attempt)
  BY <1>5 DEF Books, TypeOK
<1>7. \A i \in 1 .. Len(rd.hashes) : KeyAt(new, i) = KeyAt(rd, i)
  BY <1>3 DEF KeyAt
<1> HIDE DEF new, rd
<1>8. /\ Len(new.lists) = Len(rd.lists) + 1
      /\ \A j \in 1 .. Len(rd.lists) : new.lists[j] = rd.lists[j]
      /\ new.lists[Len(rd.lists) + 1] = list[k]
  BY <1>3, <1>4, <1>6
<1>9. ASSUME NEW i \in 1 .. Len(new.hashes)
      PROVE  /\ Total(new.hashes[i]) \in Nat
             /\ i <= Len(new.lists) => Len(new.lists[i]) >= Stored(Total(new.hashes[i]))
             /\ i > Len(new.lists) =>
                   Len(list[KeyAt(new, i)]) >= Stored(Total(new.hashes[i]))
  <2>0. rd.pc \in ReadInFlight
    BY <1>1 DEF ReadInFlight
  <2>1. /\ Total(rd.hashes[i]) \in Nat
        /\ i <= Len(rd.lists) => Len(rd.lists[i]) >= Stored(Total(rd.hashes[i]))
        /\ i > Len(rd.lists) => Len(list[KeyAt(rd, i)]) >= Stored(Total(rd.hashes[i]))
    BY <1>2, <1>3, <2>0 DEF Covered
  <2>2. KeyAt(new, i) = KeyAt(rd, i) /\ new.hashes[i] = rd.hashes[i]
    BY <1>3, <1>7
  <2>3. i \in Nat \ {0}
    BY <1>3, <1>4
  <2>4. CASE i <= Len(rd.lists)
    <3>1. /\ i \in 1 .. Len(rd.lists) /\ i <= Len(new.lists)
          /\ Len(rd.lists[i]) >= Stored(Total(rd.hashes[i]))
      BY <1>4, <1>8, <2>1, <2>3, <2>4
    <3>2. new.lists[i] = rd.lists[i]
      BY <1>8, <3>1
    <3>3. ~ (i > Len(new.lists))
      BY <1>4, <1>8, <2>3, <3>1
    <3> QED
      BY <2>1, <2>2, <3>1, <3>2, <3>3
  <2>5. CASE i = Len(rd.lists) + 1
    <3>1. KeyAt(rd, i) = k
      BY <2>5 DEF k
    <3>2. Len(list[k]) >= Stored(Total(rd.hashes[i]))
      BY <1>4, <2>1, <2>5, <3>1
    <3>3. new.lists[i] = list[k] /\ i = Len(new.lists)
      BY <1>8, <2>5
    <3>4. ~ (i > Len(new.lists))
      BY <1>4, <1>8, <2>5
    <3> QED
      BY <2>1, <2>2, <3>2, <3>3, <3>4
  <2>6. CASE i > Len(rd.lists) + 1
    <3>1. ~ (i <= Len(new.lists)) /\ i > Len(rd.lists)
      BY <1>4, <1>8, <2>3, <2>6
    <3> QED
      BY <2>1, <2>2, <3>1
  <2> QED
    BY <1>4, <2>3, <2>4, <2>5, <2>6
<1>10. elapsed <= new.started + BoxTicks
  BY <1>1, <1>2, <1>3 DEF Covered, ReadInFlight
<1>11. Covered(new, elapsed, list)
  BY <1>2, <1>3, <1>9, <1>10 DEF Covered
<1>12. \A s \in Reader : reading'[s] = IF s = r THEN new ELSE reading[s]
  BY <1>1 DEF Books, Reads
<1> QED
  BY <1>11, <1>12 DEF Evidence, Reading

LEMMA EvidenceStep == Books /\ Evidence /\ [Next]_vars => Evidence'
<1> SUFFICES ASSUME Books, Evidence, [Next]_vars PROVE Evidence'
  OBVIOUS
<1>1. ASSUME NEW a \in Attempt, ExecuteRecord(a) \/ ExecuteStray(a)
      PROVE  Evidence'
  <2>1. pc[a] # "idle"
    <3>1. CASE ExecuteRecord(a)
      BY <3>1 DEF ExecuteRecord
    <3>2. CASE ExecuteStray(a)
      BY <3>2, StrayBegan DEF ExecuteStray, Books
    <3> QED
      BY <1>1, <3>1, <3>2
  <2> QED
    BY <1>1, <2>1, TransactionKeeps DEF ExecuteRecord, ExecuteStray, clockVars
<1>2. CASE Tick
  BY <1>2, TickKeeps
<1>3. ASSUME NEW d \in ClockSteps, ClockStep(d) PROVE Evidence'
  <2>1. lastStep' # -1
    BY <1>3, BoundsAssumption DEF ClockStep, Books, TypeOK
  <2> QED
    BY <2>1 DEF Evidence
<1>4. ASSUME NEW r \in Reader, NEW p \in Provider, NEW kind \in {"read", "snapshot"},
             ReadStart(r, p, kind)
      PROVE  Evidence'
  BY <1>4, ReadStartCovers
<1>5. ASSUME NEW r \in Reader, ReadHash(r) \/ ReadList(r) PROVE Evidence'
  BY <1>5, ReadHashCovers, ReadListCovers
<1>6. ASSUME UNCHANGED <<clockVars, redisVars>>,
             \A r \in Reader : reading'[r] = reading[r] \/ ~Reading(r)'
      PROVE  Evidence'
  BY <1>6 DEF Evidence, LongLived, Reading, clockVars, redisVars
<1>7. ASSUME NEW r \in Reader, ReadFail(r) PROVE Evidence'
  BY <1>6, <1>7 DEF ReadFail, Books, Reads, Reading, ReadInFlight
<1>8. CASE Crash
  BY <1>6, <1>8 DEF Crash, Idle, Reading, ReadInFlight
<1>9. ASSUME NEW a \in Attempt,
             \/ RecordStart(a) \/ RecordReturn(a) \/ RecordDrop(a)
             \/ RecordCancel(a) \/ RecordResend(a)
      PROVE  Evidence'
  BY <1>6, <1>9
  DEF RecordStart, RecordReturn, RecordDrop, RecordCancel, RecordResend
<1>10. CASE UNCHANGED vars
  BY <1>6, <1>10 DEF vars
<1> QED
  BY <1>1, <1>2, <1>3, <1>4, <1>5, <1>7, <1>8, <1>9, <1>10 DEF Next

LEMMA EvidenceSuffices == Reads /\ Evidence => SamplesCoverCounts
<1> SUFFICES ASSUME Reads, Evidence, NEW r \in Reader, Done(r),
                    reading[r].kind = "snapshot", lastStep = -1,
                    NEW i \in 1 .. BucketCount
             PROVE  Len(reading[r].lists[i]) >= Stored(Total(reading[r].hashes[i]))
  BY DEF SamplesCoverCounts
<1>1. reading[r] \in Held /\ Progress(reading[r])
  BY UnderWay DEF Done
<1>2. Covered(reading[r], elapsed, list)
  BY DEF Evidence, Reading, Done
<1>3. Len(reading[r].hashes) = BucketCount /\ Len(reading[r].lists) = BucketCount
  BY <1>1 DEF Progress, Done
<1>4. i \in 1 .. Len(reading[r].hashes) /\ i <= Len(reading[r].lists)
  BY <1>3, Geometry
<1> QED
  BY <1>2, <1>4 DEF Covered

(* latency.py, window.py: a snapshot whose clock was never set shows at    *)
(* least the samples its counts call for, whatever is recorded between the *)
(* two halves of its pipeline.                                             *)
THEOREM SnapshotsAreCovered == Spec => []SamplesCoverCounts
<1>1. Spec => []Reads
  BY ReadsInit, ReadsStep, TypeCorrect, PTL DEF Spec
<1>2. Spec => []Books
  BY <1>1, TypeCorrect, KeysExpire, CountedAlways, BucketOfStartAlways, PaidAlways, PTL
  DEF Books
<1>3. Spec => []Evidence
  BY <1>2, EvidenceInit, EvidenceStep, PTL DEF Spec
<1> QED
  BY <1>1, <1>3, EvidenceSuffices, PTL

-----------------------------------------------------------------------------
(* Filing.  What Redis holds under a key is bounded on both sides by the   *)
(* attempts it executed: no count exceeds the executions of the attempts   *)
(* that belong there, and none has lost an attempt so young that its key   *)
(* cannot have expired.                                                    *)
Executed == {a \in Attempt : applied[a] > 0}

Filed(k, f) == {a \in Executed : KeyOf(a) = k /\ outcome[a].field = f}

Fresh(a) == started[a] > lastStep /\ elapsed - started[a] < TTL

Live(k, f) == {a \in Filed(k, f) : Fresh(a)}

FiledUnder(k, f) ==
    /\ hash[k][f] <= SumOver(applied, Filed(k, f))
    /\ Cardinality(Live(k, f)) <= hash[k][f]

OutlivesItsAttempts ==
    \A a \in Executed : Fresh(a) =>
        hashTTL[KeyOf(a)] >= now - (elapsed - started[a]) + TTL

FinitelyExecuted == IsFiniteSet(Executed) /\ IsFiniteSet(Cells(applied, Attempt))

Filing ==
    /\ FinitelyExecuted
    /\ OutlivesItsAttempts
    /\ \A k \in Key, f \in Field : FiledUnder(k, f)

LEMMA ExecutedBegan ==
    ASSUME TypeOK, Paid, NEW a \in Executed
    PROVE  a \in Attempt /\ pc[a] # "idle"
<1>1. /\ a \in Attempt /\ applied[a] > 0 /\ applied[a] \in Nat /\ stray[a] \in Nat
      /\ PaidFor(a)
  BY DEF Executed, TypeOK, Paid
<1>2. Awaited(a) \in Nat
  BY DEF Awaited
<1> QED
  BY <1>1, <1>2 DEF PaidFor

LEMMA ExecutedSums ==
    ASSUME TypeOK, FinitelyExecuted, NEW S, S \subseteq Attempt
    PROVE  IsFiniteSet(Cells(applied, S)) /\ SumOver(applied, S) \in Nat
<1>1. \A a \in S : applied[a] \in Nat /\ applied[a] <= applied[a]
  BY DEF TypeOK
<1>2. IsFiniteSet(Cells(applied, S))
  BY <1>1, SumGrows DEF FinitelyExecuted
<1> QED
  BY <1>2, SumType

LEMMA ExecutedSets ==
    ASSUME FinitelyExecuted, NEW S, S \subseteq Executed
    PROVE  IsFiniteSet(S) /\ Cardinality(S) \in Nat
<1>1. IsFiniteSet(S)
  BY FS_Subset DEF FinitelyExecuted
<1> QED
  BY <1>1, FS_CardinalityType

LEMMA FilingInit == Init => Filing
<1> SUFFICES ASSUME Init PROVE Filing
  OBVIOUS
<1>1. Executed = {} /\ Cells(applied, Attempt) = {}
  BY DEF Init, Executed, Cells
<1>2. IsFiniteSet({}) /\ Cardinality({}) = 0
  BY FS_EmptySet
<1>3. ASSUME NEW k \in Key, NEW f \in Field PROVE FiledUnder(k, f)
  <2>1. hash[k][f] = 0
    BY DEF Init, EmptyHash
  <2>2. Filed(k, f) = {} /\ Live(k, f) = {}
    BY <1>1 DEF Filed, Live
  <2>3. Cells(applied, {}) = {}
    BY DEF Cells
  <2> QED
    BY <1>2, <2>1, <2>2, <2>3 DEF FiledUnder, SumOver
<1> QED
  BY <1>1, <1>2, <1>3 DEF Filing, FinitelyExecuted, OutlivesItsAttempts

LEMMA FilingKept ==
    ASSUME Filing,
           UNCHANGED <<now, elapsed, lastStep, hash, hashTTL, outcome, applied>>,
           \A a \in Executed : bucket'[a] = bucket[a] /\ started'[a] = started[a]
    PROVE  Filing'
<1>1. Executed' = Executed /\ FinitelyExecuted'
  BY DEF Executed, Filing, FinitelyExecuted, Cells
<1>2. \A a \in Executed : KeyOf(a)' = KeyOf(a) /\ (Fresh(a)' <=> Fresh(a))
  BY DEF KeyOf, Fresh
<1>3. OutlivesItsAttempts'
  BY <1>1, <1>2 DEF Filing, OutlivesItsAttempts
<1>4. ASSUME NEW k \in Key, NEW f \in Field PROVE FiledUnder(k, f)'
  <2>1. Filed(k, f)' = Filed(k, f)
    BY <1>1, <1>2 DEF Filed
  <2>2. Live(k, f)' = Live(k, f)
    BY <1>2, <2>1 DEF Live, Filed
  <2>3. FiledUnder(k, f)
    BY DEF Filing
  <2> QED
    BY <2>1, <2>2, <2>3 DEF FiledUnder, SumOver, Cells
<1> QED
  BY <1>1, <1>3, <1>4 DEF Filing

\* One more execution is one more unit under the key it belongs to, and
\* neither a unit nor an attempt anywhere else.
LEMMA FilingAfterTransaction ==
    ASSUME TypeOK, Filing, NEW a \in Attempt, Transaction(a),
           BucketOfStart, Paid, pc[a] # "idle",
           UNCHANGED <<now, elapsed, lastStep, outcome, bucket, started>>
    PROVE  Filing'
<1> DEFINE j == KeyOf(a)
           e == outcome[a].field
<1>1. j \in Key /\ e \in Field
  BY KeyOfType DEF TypeOK
<1>2. /\ applied \in [Attempt -> Nat] /\ applied' = [applied EXCEPT ![a] = @ + 1]
      /\ hash \in [Key -> [Field -> Nat]] /\ hash' = [hash EXCEPT ![j][e] = @ + 1]
      /\ hashTTL \in [Key -> Nat] /\ hashTTL' = [hashTTL EXCEPT ![j] = now + TTL]
  BY DEF TypeOK, Transaction
<1>3. /\ applied'[a] = applied[a] + 1 /\ applied[a] \in Nat
      /\ \A b \in Attempt : b # a => applied'[b] = applied[b]
      /\ \A b \in Attempt : /\ applied[b] \in Nat /\ applied'[b] \in Nat
                            /\ applied[b] <= applied'[b]
  BY <1>2
<1>4. Executed' = Executed \cup {a}
  BY <1>3 DEF Executed
<1>5. \A b \in Attempt : KeyOf(b)' = KeyOf(b) /\ (Fresh(b)' <=> Fresh(b))
  BY DEF KeyOf, Fresh
<1>6. FinitelyExecuted'
  <2>1. IsFiniteSet(Executed \cup {a})
    BY FS_AddElement DEF Filing, FinitelyExecuted
  <2>2. IsFiniteSet(Cells(applied', Attempt))
    BY <1>2, OneMoreCell DEF Filing, FinitelyExecuted
  <2> QED
    BY <1>4, <2>1, <2>2 DEF FinitelyExecuted, Cells
<1>7. OutlivesItsAttempts'
  <2> SUFFICES ASSUME NEW b \in Executed', Fresh(b)
               PROVE  hashTTL'[KeyOf(b)] >= now - (elapsed - started[b]) + TTL
    BY <1>4, <1>5 DEF OutlivesItsAttempts, Executed, TTL
  <2>0. b \in Attempt /\ KeyOf(b) \in Key
    BY KeyOfType DEF Executed
  <2>1. /\ b \in Attempt /\ KeyOf(b) \in Key
        /\ now \in Int /\ elapsed \in Int /\ started[b] \in Int /\ started[a] \in Int
    BY <2>0 DEF TypeOK
  <2>2. TTL \in Int
    BY GeometryAssumption DEF TTL
  <2>3. CASE b = a
    <3>1. hashTTL'[j] = now + TTL /\ started[a] <= elapsed
      BY <1>1, <1>2 DEF BucketOfStart
    <3> QED
      BY <2>1, <2>2, <2>3, <3>1
  <2>4. CASE b # a /\ KeyOf(b) = j
    <3>1. hashTTL'[j] = now + TTL /\ b \in Executed
      BY <1>1, <1>2, <1>4, <2>4
    <3>2. started[b] <= elapsed
      BY <3>1, ExecutedBegan DEF BucketOfStart
    <3> QED
      BY <2>1, <2>2, <2>4, <3>1, <3>2
  <2>5. CASE KeyOf(b) # j
    <3>1. hashTTL'[KeyOf(b)] = hashTTL[KeyOf(b)] /\ b \in Executed
      BY <1>2, <1>4, <2>1, <2>5
    <3> QED
      BY <3>1 DEF Filing, OutlivesItsAttempts
  <2> QED
    BY <2>3, <2>4, <2>5
<1> HIDE DEF j, e
<1>8. ASSUME NEW k \in Key, NEW f \in Field PROVE FiledUnder(k, f)'
  <2> DEFINE S == Filed(k, f)
             L == Live(k, f)
  <2>1. /\ S \subseteq Attempt /\ L \subseteq Executed
        /\ hash[k][f] <= SumOver(applied, S) /\ Cardinality(L) <= hash[k][f]
        /\ hash[k][f] \in Nat
    BY <1>2 DEF Filing, FiledUnder, Filed, Live, Executed
  <2>2. /\ IsFiniteSet(Cells(applied, S)) /\ SumOver(applied, S) \in Nat
        /\ IsFiniteSet(L) /\ Cardinality(L) \in Nat
    BY <2>1, ExecutedSums, ExecutedSets DEF Filing
  <2>3. CASE k = j /\ f = e
    <3>1. Filed(k, f)' = S \cup {a}
      BY <1>4, <1>5, <2>3 DEF Filed, j, e, Executed
    <3>2. Live(k, f)' \subseteq L \cup {a}
      BY <1>5, <3>1 DEF Live, Filed, Executed
    <3>3. hash'[k][f] = hash[k][f] + 1
      BY <1>1, <1>2, <2>3
    <3> HIDE DEF S, L
    <3>4. /\ IsFiniteSet(Cells(applied, S \cup {a}))
          /\ SumOver(applied, S \cup {a}) \in Nat
      BY <2>1, ExecutedSums DEF Filing
    <3>5. SumOver(applied, S) <= SumOver(applied, S \cup {a})
      <4>1. \A b \in S : applied[b] \in Nat /\ applied[b] <= applied[b]
        BY <1>3, <2>1
      <4> QED
        BY <3>4, <4>1, SumGrows
    <3>6. SumOver(applied', S \cup {a}) = SumOver(applied, S \cup {a}) + 1
      <4>1. S \cup {a} \subseteq Attempt /\ a \in S \cup {a}
        BY <2>1
      <4> QED
        BY <1>2, <3>4, <4>1, OneMoreCell
    <3>7. Cardinality(Live(k, f)') <= Cardinality(L) + 1
      <4>1. /\ IsFiniteSet(L \cup {a})
            /\ Cardinality(L \cup {a}) \in {Cardinality(L), Cardinality(L) + 1}
        BY <2>2, FS_AddElement
      <4>2. /\ IsFiniteSet(Live(k, f)')
            /\ Cardinality(Live(k, f)') <= Cardinality(L \cup {a})
        BY <3>2, <4>1, FS_Subset
      <4>3. Cardinality(Live(k, f)') \in Nat
        BY <4>2, FS_CardinalityType
      <4> QED
        BY <2>2, <4>1, <4>2, <4>3
    <3>8. Cardinality(Live(k, f)') \in Int
      <4>1. IsFiniteSet(L \cup {a})
        BY <2>2, FS_AddElement
      <4>2. IsFiniteSet(Live(k, f)')
        BY <3>2, <4>1, FS_Subset
      <4> QED
        BY <4>2, FS_CardinalityType
    <3>9. hash'[k][f] <= SumOver(applied', S \cup {a})
      BY <2>1, <2>2, <3>3, <3>4, <3>5, <3>6
    <3>10. Cardinality(Live(k, f)') <= hash'[k][f]
      BY <2>1, <2>2, <3>3, <3>7, <3>8
    <3> QED
      BY <3>1, <3>9, <3>10 DEF FiledUnder, SumOver, Cells
  <2>4. CASE ~ (k = j /\ f = e)
    <3>1. Filed(k, f)' = S
      BY <1>4, <1>5, <2>4 DEF Filed, j, e, Executed
    <3>2. Live(k, f)' = L
      BY <1>5, <3>1 DEF Live, Filed, Executed
    <3>3. hash'[k][f] = hash[k][f]
      BY <1>1, <1>2, <2>4
    <3> HIDE DEF S, L
    <3>4. SumOver(applied, S) <= SumOver(applied', S)
          /\ SumOver(applied', S) \in Nat
      <4>1. \A b \in S : /\ applied[b] \in Nat /\ applied'[b] \in Nat
                         /\ applied[b] <= applied'[b]
        BY <1>3, <2>1
      <4>2. IsFiniteSet(Cells(applied', Attempt))
        BY <1>6 DEF FinitelyExecuted, Cells
      <4>3. \A b \in S : applied'[b] \in Nat /\ applied'[b] <= applied'[b]
        BY <4>1
      <4>4. IsFiniteSet(Cells(applied', S))
        BY <2>1, <4>2, <4>3, SumGrows
      <4> QED
        BY <4>1, <4>4, SumGrows, SumType
    <3>5. hash'[k][f] <= SumOver(applied', S)
      BY <2>1, <2>2, <3>3, <3>4
    <3> QED
      BY <2>1, <3>1, <3>2, <3>3, <3>5 DEF FiledUnder, SumOver, Cells
  <2> QED
    BY <2>3, <2>4
<1> QED
  BY <1>6, <1>7, <1>8 DEF Filing

\* Time moves on, or the clock is set: what expires held no fresh attempt.
LEMMA FilingAfterExpiry ==
    ASSUME TypeOK, Filing, NEW t \in Int, ExpireAt(t), now' = t, elapsed' \in Int,
           UNCHANGED <<outcome, bucket, started, applied>>,
           \A a \in Executed : Fresh(a)' =>
              Fresh(a) /\ now' - elapsed' = now - elapsed
    PROVE  Filing'
<1>1. Executed' = Executed /\ FinitelyExecuted'
  BY DEF Executed, Filing, FinitelyExecuted, Cells
<1>2. \A a \in Executed : KeyOf(a)' = KeyOf(a) /\ KeyOf(a) \in Key /\ a \in Attempt
  BY KeyOfType DEF KeyOf, Executed
<1>3. ASSUME NEW a \in Executed, Fresh(a)'
      PROVE  /\ hashTTL[KeyOf(a)] > t
             /\ hashTTL[KeyOf(a)] >= t - (elapsed' - started[a]) + TTL
  <2>1. /\ now \in Int /\ elapsed \in Int /\ started[a] \in Int /\ TTL \in Int
        /\ hashTTL[KeyOf(a)] \in Int
    BY <1>2, GeometryAssumption DEF TypeOK, TTL
  <2>2. hashTTL[KeyOf(a)] >= now - (elapsed - started[a]) + TTL
    BY <1>3 DEF Filing, OutlivesItsAttempts
  <2>3. elapsed' - started[a] < TTL /\ t - elapsed' = now - elapsed
    BY <1>3 DEF Fresh, TTL
  <2> DEFINE s == started[a]
             h == hashTTL[KeyOf(a)]
             u == elapsed'
  <2>4. /\ now \in Int /\ elapsed \in Int /\ s \in Int /\ TTL \in Int
        /\ h \in Int /\ u \in Int /\ t \in Int
        /\ h >= now - (elapsed - s) + TTL
        /\ u - s < TTL /\ t - u = now - elapsed
    BY <2>1, <2>2, <2>3
  <2> HIDE DEF s, h, u
  <2>5. h > t /\ h >= t - (u - s) + TTL
    BY <2>4
  <2> QED
    BY <2>5 DEF s, h, u
<1>4. ASSUME NEW k \in Key
      PROVE  \/ hash'[k] = EmptyHash /\ hashTTL[k] <= t
             \/ hash'[k] = hash[k] /\ hashTTL'[k] = hashTTL[k]
  BY DEF ExpireAt
<1>5. \A k \in Key : hashTTL[k] \in Int
  BY DEF TypeOK
<1>6. OutlivesItsAttempts'
  <2> SUFFICES ASSUME NEW a \in Executed', Fresh(a)'
               PROVE  hashTTL'[KeyOf(a)'] >= now' - (elapsed' - started'[a]) + TTL
    BY DEF OutlivesItsAttempts, TTL
  <2>1. /\ a \in Executed /\ KeyOf(a)' = KeyOf(a) /\ KeyOf(a) \in Key
        /\ hashTTL[KeyOf(a)] > t
        /\ hashTTL[KeyOf(a)] >= t - (elapsed' - started[a]) + TTL
    BY <1>1, <1>2, <1>3
  <2>2. hashTTL'[KeyOf(a)] = hashTTL[KeyOf(a)]
    <3> DEFINE k == KeyOf(a)
    <3>1. k \in Key /\ hashTTL[k] \in Int /\ hashTTL[k] > t
      BY <1>5, <2>1
    <3> HIDE DEF k
    <3>2. hashTTL'[k] = hashTTL[k]
      BY <3>1 DEF ExpireAt
    <3> QED
      BY <3>2 DEF k
  <2> QED
    BY <2>1, <2>2
<1>7. ASSUME NEW k \in Key, NEW f \in Field PROVE FiledUnder(k, f)'
  <2>1. Filed(k, f)' = Filed(k, f)
    BY <1>1, <1>2 DEF Filed
  <2>2. Live(k, f)' \subseteq Live(k, f)
    BY <2>1 DEF Live, Filed
  <2>3. /\ hash[k][f] <= SumOver(applied, Filed(k, f))
        /\ Cardinality(Live(k, f)) <= hash[k][f]
    BY DEF Filing, FiledUnder
  <2>4. /\ SumOver(applied, Filed(k, f)) \in Nat
        /\ IsFiniteSet(Live(k, f)) /\ Cardinality(Live(k, f)) \in Nat
    <3>1. Filed(k, f) \subseteq Attempt /\ Live(k, f) \subseteq Executed
      BY DEF Filed, Live, Executed
    <3> QED
      BY <3>1, ExecutedSums, ExecutedSets DEF Filing
  <2>5. /\ Cardinality(Live(k, f)') <= Cardinality(Live(k, f))
        /\ Cardinality(Live(k, f)') \in Nat
    <3>1. /\ IsFiniteSet(Live(k, f)')
          /\ Cardinality(Live(k, f)') <= Cardinality(Live(k, f))
      BY <2>2, <2>4, FS_Subset
    <3> QED
      BY <3>1, FS_CardinalityType
  <2>6. SumOver(applied, Filed(k, f))' = SumOver(applied, Filed(k, f))
    BY <2>1 DEF SumOver, Cells
  <2>7. hash[k][f] \in Nat
    BY DEF TypeOK
  <2>8. CASE hash'[k] = EmptyHash /\ hashTTL[k] <= t
    <3>1. Live(k, f)' = {}
      <4> SUFFICES ASSUME NEW a \in Live(k, f)' PROVE FALSE
        OBVIOUS
      <4>1. a \in Executed /\ KeyOf(a) = k /\ Fresh(a)'
        BY <1>1, <1>2 DEF Live, Filed
      <4>2. hashTTL[k] > t
        BY <1>3, <4>1
      <4> QED
        BY <1>5, <2>8, <4>2
    <3>2. hash'[k][f] = 0 /\ Cardinality(Live(k, f)') = 0
      BY <2>8, <3>1, FS_EmptySet DEF EmptyHash
    <3> QED
      BY <2>4, <2>6, <3>2 DEF FiledUnder
  <2>9. CASE hash'[k] = hash[k]
    BY <2>3, <2>4, <2>5, <2>6, <2>7, <2>9 DEF FiledUnder
  <2> QED
    BY <1>4, <2>8, <2>9
<1> QED
  BY <1>1, <1>6, <1>7 DEF Filing

LEMMA FilingStep ==
    TypeOK /\ Paid /\ BucketOfStart /\ Filing /\ [Next]_vars => Filing'
<1> SUFFICES ASSUME TypeOK, Paid, BucketOfStart, Filing, [Next]_vars
             PROVE  Filing'
  OBVIOUS
<1>1. ASSUME NEW a \in Attempt, RecordStart(a) PROVE Filing'
  <2>1. a \notin Executed
    BY <1>1, ExecutedBegan DEF RecordStart
  <2>2. \A b \in Executed : bucket'[b] = bucket[b] /\ started'[b] = started[b]
    BY <1>1, <2>1 DEF RecordStart, TypeOK, Executed
  <2> QED
    BY <1>1, <2>2, FilingKept DEF RecordStart, clockVars, redisVars
<1>2. ASSUME NEW a \in Attempt, ExecuteRecord(a) PROVE Filing'
  BY <1>2, FilingAfterTransaction DEF ExecuteRecord, clockVars
<1>3. ASSUME NEW a \in Attempt, ExecuteStray(a) PROVE Filing'
  <2>1. pc[a] # "idle"
    BY <1>3, StrayBegan DEF ExecuteStray
  <2> QED
    BY <1>3, <2>1, FilingAfterTransaction DEF ExecuteStray, clockVars
<1>4. ASSUME UNCHANGED <<clockVars, redisVars, outcome, bucket, started, applied>>
      PROVE  Filing'
  BY <1>4, FilingKept DEF clockVars, redisVars
<1>5. ASSUME NEW a \in Attempt,
             RecordReturn(a) \/ RecordDrop(a) \/ RecordCancel(a) \/ RecordResend(a)
      PROVE  Filing'
  BY <1>4, <1>5 DEF RecordReturn, RecordDrop, RecordCancel, RecordResend
<1>6. ASSUME NEW r \in Reader,
             \/ \E p \in Provider, kind \in {"read", "snapshot"} :
                   ReadStart(r, p, kind)
             \/ ReadHash(r) \/ ReadList(r) \/ ReadFail(r)
      PROVE  Filing'
  BY <1>4, <1>6 DEF ReadStart, ReadHash, ReadList, ReadFail, recordVars
<1>7. CASE Tick
  <2>1. /\ now \in Int /\ elapsed \in Int /\ now' = now + 1 /\ elapsed' = elapsed + 1
        /\ \A a \in Attempt : started[a] \in Int
        /\ TTL \in Int
    BY <1>7, GeometryAssumption, BoundsAssumption DEF Tick, TypeOK, TTL
  <2>2. \A a \in Executed : Fresh(a)' =>
           Fresh(a) /\ now' - elapsed' = now - elapsed
    BY <1>7, <2>1 DEF Tick, Fresh, Executed, recordVars, TTL
  <2>3. now + 1 \in Int /\ ExpireAt(now + 1)
        /\ UNCHANGED <<outcome, bucket, started, applied>>
    BY <1>7, <2>1 DEF Tick, recordVars
  <2> QED
    BY <2>1, <2>2, <2>3, FilingAfterExpiry
<1>8. ASSUME NEW d \in ClockSteps, ClockStep(d) PROVE Filing'
  <2>1. /\ now \in Int /\ elapsed \in Int /\ d \in Int
        /\ lastStep' = elapsed /\ elapsed' = elapsed /\ now' = now + d
        /\ \A a \in Attempt : started[a] \in Int
    BY <1>8, BoundsAssumption DEF ClockStep, TypeOK
  <2>2. \A a \in Executed : ~ Fresh(a)'
    <3> SUFFICES ASSUME NEW a \in Executed PROVE ~ (started'[a] > lastStep')
      BY DEF Fresh
    <3>1. a \in Attempt /\ started[a] <= elapsed /\ started' = started
      BY <1>8, ExecutedBegan DEF BucketOfStart, ClockStep, recordVars
    <3> QED
      BY <2>1, <3>1
  <2>3. now + d \in Int /\ ExpireAt(now + d)
        /\ UNCHANGED <<outcome, bucket, started, applied>>
    BY <1>8, <2>1 DEF ClockStep, recordVars
  <2> QED
    BY <2>1, <2>2, <2>3, FilingAfterExpiry
<1>9. CASE Crash \/ UNCHANGED vars
  BY <1>4, <1>9 DEF Crash, vars, recordVars
<1> QED
  BY <1>1, <1>2, <1>3, <1>5, <1>6, <1>7, <1>8, <1>9 DEF Next

LEMMA FilingAlways == Spec => []Filing
  BY FilingInit, FilingStep, TypeCorrect, PaidAlways, BucketOfStartAlways, PTL
  DEF Spec

-----------------------------------------------------------------------------
(* Gathering.  What a read has added up so far is bounded by the attempts  *)
(* in the buckets it has read: by their executions from above, and, if the *)
(* clock was not set since it began, by those it owes from below.          *)
Units(hs, f) == Cells([i \in DOMAIN hs |-> hs[i][f]], DOMAIN hs)

Seen(r, f) ==
    {a \in Executed :
        /\ outcome[a].provider = reading[r].provider /\ outcome[a].field = f
        /\ bucket[a] >= reading[r].first
        /\ bucket[a] < reading[r].first + Len(reading[r].hashes)}

OwedSoFar(r, f) ==
    {a \in reading[r].owed :
        /\ outcome[a].field = f
        /\ bucket[a] < reading[r].first + Len(reading[r].hashes)}

InTime(r) ==
    /\ reading[r].started <= elapsed
    /\ reading[r].pc \in ReadInFlight => elapsed <= reading[r].started + BoxTicks

NoneOlder(r) ==
    \A a \in Attempt : pc[a] # "idle" /\ bucket[a] >= reading[r].first =>
        reading[r].started - started[a] < WindowSeconds + backward

NoMoreThanSeen(r) ==
    \A f \in KnownField :
        /\ IsFiniteSet(Units(reading[r].hashes, f))
        /\ Counts(r)[f] <= SumOver(applied, Seen(r, f))

OwedStands(r) ==
    \A a \in reading[r].owed :
        /\ a \in Executed /\ outcome[a].provider = reading[r].provider
        /\ started[a] > lastStep
        /\ reading[r].started - started[a] <= WindowSeconds - BucketSeconds
        /\ bucket[a] >= reading[r].first
        /\ bucket[a] < reading[r].first + BucketCount

NoLessThanOwed(r) ==
    \A f \in KnownField : Cardinality(OwedSoFar(r, f)) <= Counts(r)[f]

Gathered(r) ==
    /\ InTime(r) /\ NoneOlder(r) /\ NoMoreThanSeen(r)
    /\ lastStep < reading[r].started => OwedStands(r) /\ NoLessThanOwed(r)

Gathering == \A r \in Reader : Reading(r) => Gathered(r)

(* One more reply adds its counts to the sums.                             *)
LEMMA MergeIs ==
    ASSUME NEW hs, NEW f \in KnownField, IsFiniteSet(Units(hs, f))
    PROVE  Merge(hs)[f] = Cardinality(Units(hs, f)) /\ Merge(hs)[f] \in Nat
<1>1. Merge(hs)[f] = Cardinality(Units(hs, f))
  BY DEF Merge, Units, SumOver
<1> QED
  BY <1>1, FS_CardinalityType

LEMMA MergeNothing ==
    ASSUME NEW f \in KnownField
    PROVE  IsFiniteSet(Units(<<>>, f)) /\ Merge(<<>>)[f] = 0
<1>1. Units(<<>>, f) = {}
  BY DEF Units, Cells
<1> QED
  BY <1>1, FS_EmptySet, MergeIs

LEMMA MergeAppend ==
    ASSUME NEW hs \in Seq([Field -> Nat]), NEW h \in [Field -> Nat],
           NEW f \in KnownField, IsFiniteSet(Units(hs, f))
    PROVE  /\ IsFiniteSet(Units(Append(hs, h), f))
           /\ Merge(Append(hs, h))[f] = Merge(hs)[f] + h[f]
<1> DEFINE gs == Append(hs, h)
           S == DOMAIN hs
           x == Len(hs) + 1
           n == [i \in S |-> hs[i][f]]
           m == [i \in S \cup {x} |-> gs[i][f]]
<1>1. /\ DOMAIN gs = S \cup {x} /\ S \cap {x} = {}
      /\ \A i \in S : gs[i] = hs[i]
      /\ gs[x] = h
  OBVIOUS
<1>2. f \in Field /\ h[f] \in Nat
  BY FieldAssumption
<1> HIDE DEF gs, S, x
<1>3. m[x] = h[f] /\ \A i \in S : m[i] = n[i]
  BY <1>1
<1> HIDE DEF n, m
<1>4. Cells(m, S) = Cells(n, S) /\ Cells(n, S) = Units(hs, f)
  BY <1>3 DEF Cells, Units, n, S
<1>5. Units(gs, f) = Cells(m, S \cup {x})
  BY <1>1 DEF Units, m
<1>6. IsFiniteSet(Cells(m, {x})) /\ SumOver(m, {x}) = h[f]
  <2>1. m[x] \in Nat
    BY <1>2, <1>3
  <2>2. IsFiniteSet(Cells(m, {x})) /\ SumOver(m, {x}) = m[x]
    BY <2>1, SumOfOne, Zenon
  <2> QED
    BY <1>3, <2>2
<1>7. /\ IsFiniteSet(Cells(m, S \cup {x}))
      /\ SumOver(m, S \cup {x}) = SumOver(m, S) + SumOver(m, {x})
  <2>1. IsFiniteSet(Cells(m, S))
    BY <1>4
  <2>2. S \cap {x} = {} /\ IsFiniteSet(Cells(m, {x}))
    BY <1>1, <1>6
  <2> QED
    BY <2>1, <2>2, SumSplits, Zenon
<1>8. SumOver(m, S) = Merge(hs)[f]
  BY <1>4, MergeIs DEF SumOver
<1>9. Merge(gs)[f] = SumOver(m, S \cup {x})
  BY <1>5, <1>7, MergeIs DEF SumOver
<1> QED
  BY <1>5, <1>6, <1>7, <1>8, <1>9 DEF gs

\* What a read has gathered stands while nothing is taken back: attempts keep
\* their buckets, executions only add up, and a step of the clock excuses it.
SameWindow(r) ==
    /\ reading'[r].hashes = reading[r].hashes
    /\ reading'[r].first = reading[r].first
    /\ reading'[r].provider = reading[r].provider
    /\ reading'[r].started = reading[r].started
    /\ reading'[r].owed = reading[r].owed

NothingTakenBack(t) ==
    /\ outcome' = outcome /\ backward' >= backward
    /\ lastStep' = lastStep \/ lastStep' >= t
    /\ \A a \in Attempt :
          /\ applied'[a] >= applied[a]
          /\ \/ /\ bucket'[a] = bucket[a] /\ started'[a] = started[a]
                /\ pc'[a] # "idle" => pc[a] # "idle"
             \/ a \notin Executed /\ started'[a] >= t

LEMMA GatheredKept ==
    ASSUME TypeOK, TypeOK', FinitelyExecuted', NEW r \in Reader,
           reading[r] \in Held, Gathered(r), InTime(r)', SameWindow(r),
           NothingTakenBack(reading[r].started)
    PROVE  Gathered(r)'
<1> DEFINE rd == reading[r]
<1>0. /\ rd.started \in Nat /\ rd.first \in Nat /\ rd.owed \subseteq Attempt
      /\ backward \in Nat /\ backward' \in Nat /\ backward' >= backward
      /\ WindowSeconds \in Nat \ {0} /\ BucketSeconds \in Nat \ {0}
  BY GeometryAssumption DEF Held, TypeOK, NothingTakenBack
<1>1. \A a \in Attempt :
         /\ applied[a] \in Nat /\ applied'[a] \in Nat
         /\ started[a] \in Int /\ started'[a] \in Int
         /\ applied[a] <= applied'[a]
  BY DEF TypeOK, NothingTakenBack
<1>2. /\ Executed \subseteq Executed' /\ Executed' \subseteq Attempt
      /\ \A a \in Executed : bucket'[a] = bucket[a] /\ started'[a] = started[a]
      /\ outcome' = outcome
  BY <1>1 DEF Executed, NothingTakenBack
<1>3. NoneOlder(r)'
  <2> DEFINE limit == WindowSeconds + backward
             later == WindowSeconds + backward'
  <2>1. limit \in Int /\ later \in Int /\ limit <= later /\ 0 < later
    <3>1. WindowSeconds \in Int /\ WindowSeconds > 0
      BY GeometryAssumption
    <3> DEFINE b == backward'
    <3>2. backward \in Int /\ backward >= 0 /\ b \in Int /\ b >= backward
      BY DEF TypeOK, NothingTakenBack
    <3> HIDE DEF b
    <3>3. /\ limit \in Int /\ WindowSeconds + b \in Int
          /\ limit <= WindowSeconds + b /\ 0 < WindowSeconds + b
      BY <3>1, <3>2
    <3> QED
      BY <3>3 DEF b
  <2> HIDE DEF limit, later
  <2>2. ASSUME NEW x \in Int, NEW y \in Int, x - y < limit \/ y >= x
        PROVE  x - y < later
    BY <2>1, <2>2
  <2>3. \A a \in Attempt : pc[a] # "idle" /\ bucket[a] >= rd.first =>
           rd.started - started[a] < limit
    BY DEF Gathered, NoneOlder, limit
  <2>4. ASSUME NEW a \in Attempt, pc'[a] # "idle" /\ bucket'[a] >= rd.first
        PROVE  rd.started - started'[a] < later
    <3>1. CASE bucket'[a] = bucket[a] /\ started'[a] = started[a] /\ pc[a] # "idle"
      <4>1. rd.started - started'[a] < limit
        BY <2>3, <2>4, <3>1, Zenon
      <4> QED
        BY <1>0, <1>1, <2>2, <4>1
    <3>2. CASE started'[a] >= rd.started
      BY <1>0, <1>1, <2>2, <3>2
    <3> QED
      BY <2>4, <3>1, <3>2 DEF NothingTakenBack
  <2> QED
    BY <2>4, Zenon DEF NoneOlder, SameWindow, later
<1>4. NoMoreThanSeen(r)'
  <2> SUFFICES ASSUME NEW f \in KnownField
               PROVE  /\ IsFiniteSet(Units(rd.hashes, f))
                      /\ Merge(rd.hashes)[f] <= SumOver(applied', Seen(r, f)')
    BY DEF NoMoreThanSeen, Counts, Units, Cells, SumOver, Merge, SameWindow
  <2>1. /\ IsFiniteSet(Units(rd.hashes, f))
        /\ Merge(rd.hashes)[f] <= SumOver(applied, Seen(r, f))
    BY DEF Gathered, NoMoreThanSeen, Counts
  <2>2. Merge(rd.hashes)[f] \in Nat
    BY <2>1, MergeIs
  <2>3. Seen(r, f) \subseteq Seen(r, f)' /\ Seen(r, f)' \subseteq Attempt
        /\ Seen(r, f) \subseteq Attempt
    BY <1>2 DEF Seen, SameWindow
  <2>4. IsFiniteSet(Cells(applied', Seen(r, f)'))
    <3>1. \A a \in Seen(r, f)' : applied'[a] \in Nat /\ applied'[a] <= applied'[a]
      BY <1>1, <2>3
    <3>2. IsFiniteSet(Cells(applied', Attempt))
      BY DEF FinitelyExecuted, Cells
    <3> QED
      BY <2>3, <3>1, <3>2, SumGrows
  <2>5. /\ IsFiniteSet(Cells(applied, Seen(r, f)))
        /\ SumOver(applied, Seen(r, f)) <= SumOver(applied', Seen(r, f)')
    <3>1. \A a \in Seen(r, f) :
             applied[a] \in Nat /\ applied'[a] \in Nat /\ applied[a] <= applied'[a]
      BY <1>1, <2>3
    <3> QED
      BY <2>3, <2>4, <3>1, SumGrows
  <2>6. SumOver(applied, Seen(r, f)) \in Nat /\ SumOver(applied', Seen(r, f)') \in Nat
    BY <2>4, <2>5, SumType
  <2> QED
    BY <2>1, <2>2, <2>5, <2>6
<1>5. ASSUME lastStep' < rd.started
      PROVE  OwedStands(r)' /\ NoLessThanOwed(r)'
  <2>1. lastStep' = lastStep
    <3> DEFINE t == lastStep'
               s == rd.started
    <3>1. t \in Int /\ s \in Int /\ t < s /\ (t = lastStep \/ t >= s)
      <4>1. t \in Int
        BY DEF TypeOK
      <4> QED
        BY <1>0, <1>5, <4>1 DEF NothingTakenBack
    <3> HIDE DEF t, s
    <3>2. t = lastStep
      BY <3>1
    <3> QED
      BY <3>2 DEF t
  <2>2. OwedStands(r) /\ NoLessThanOwed(r)
    BY <1>5, <2>1 DEF Gathered
  <2>3. \A a \in rd.owed : a \in Executed /\ a \in Executed'
                           /\ bucket'[a] = bucket[a] /\ started'[a] = started[a]
    BY <1>2, <2>2 DEF OwedStands
  <2>4. OwedStands(r)'
    BY <1>2, <2>1, <2>2, <2>3 DEF OwedStands, SameWindow
  <2>5. \A f \in KnownField : OwedSoFar(r, f)' = OwedSoFar(r, f)
    BY <1>2, <2>3 DEF OwedSoFar, SameWindow
  <2>6. Counts(r)' = Counts(r)
    BY DEF Counts, Merge, SumOver, Cells, SameWindow
  <2> QED
    BY <2>2, <2>4, <2>5, <2>6 DEF NoLessThanOwed
<1> QED
  BY <1>3, <1>4, <1>5 DEF Gathered, SameWindow

\* A read begins with nothing, and owes only what its window covers.
LEMMA ReadStartGathers ==
    ASSUME TypeOK, Paid, BucketOfStart, FinitelyExecuted, Reads,
           NEW r \in Reader, NEW p \in Provider,
           NEW kind \in {"read", "snapshot"}, ReadStart(r, p, kind)
    PROVE  Gathered(r)'
<1>1. /\ UNCHANGED <<clockVars, redisVars, recordVars, applied>>
      /\ reading'[r].pc = "hashes" /\ reading'[r].provider = p
      /\ reading'[r].first = WindowStart /\ reading'[r].hashes = <<>>
      /\ reading'[r].started = elapsed /\ reading'[r].owed = Owed(p)
  BY DEF ReadStart, Reads
<1>2. /\ WindowStart \in Nat /\ BucketCount \in Nat /\ elapsed \in Nat
      /\ BoxTicks \in Nat /\ CurrentBucket = WindowStart + BucketCount - 1
      /\ CurrentBucket \in Int
  <2>1. WindowStart \in Nat /\ BucketCount \in Nat
    BY Geometry, WindowStartType
  <2>2. elapsed \in Nat /\ BoxTicks \in Nat
    BY BoundsAssumption DEF TypeOK
  <2>3. CurrentBucket \in Int
    BY BucketInRange DEF Bucket
  <2>4. WindowStart = CurrentBucket - BucketCount + 1
    BY DEF WindowStart
  <2> QED
    BY <2>1, <2>2, <2>3, <2>4
<1>3. WindowEdges
  BY BucketOfStartEdges
<1>4. \A a \in Attempt : bucket[a] \in Int /\ started[a] \in Int
  BY DEF TypeOK, Bucket
<1>5. InTime(r)'
  BY <1>1, <1>2 DEF InTime, clockVars
<1>6. NoneOlder(r)'
  <2> SUFFICES ASSUME NEW a \in Attempt, pc[a] # "idle", bucket[a] >= WindowStart
               PROVE  elapsed - started[a] < WindowSeconds + backward
    BY <1>1 DEF NoneOlder, recordVars, clockVars
  <2>1. ~ (elapsed - started[a] >= WindowSeconds + backward)
    BY <1>2, <1>3, <1>4 DEF WindowEdges
  <2>2. elapsed - started[a] \in Int /\ WindowSeconds + backward \in Int
    BY <1>2, <1>4, GeometryAssumption DEF TypeOK
  <2> QED
    BY <2>1, <2>2
<1>7. NoMoreThanSeen(r)'
  <2> SUFFICES ASSUME NEW f \in KnownField
               PROVE  /\ IsFiniteSet(Units(<<>>, f))
                      /\ Merge(<<>>)[f] <= SumOver(applied, Seen(r, f)')
    BY <1>1 DEF NoMoreThanSeen, Counts, Merge, SumOver, Cells, Units
  <2>1. Seen(r, f)' \subseteq Attempt
    BY DEF Seen, Executed
  <2>2. SumOver(applied, Seen(r, f)') \in Nat
    BY <2>1, ExecutedSums
  <2> QED
    BY <2>2, MergeNothing
<1>8. OwedStands(r)'
  <2> SUFFICES ASSUME NEW a \in Owed(p)
               PROVE  /\ a \in Executed /\ outcome[a].provider = p
                      /\ started[a] > lastStep
                      /\ elapsed - started[a] <= WindowSeconds - BucketSeconds
                      /\ bucket[a] >= WindowStart
                      /\ bucket[a] < WindowStart + BucketCount
    BY <1>1 DEF OwedStands, Executed, recordVars, clockVars
  <2>1. /\ a \in Attempt /\ pc[a] = "recorded" /\ outcome[a].provider = p
        /\ started[a] > lastStep
        /\ elapsed - started[a] <= WindowSeconds - BucketSeconds
    BY DEF Owed
  <2>2. a \in Executed
    BY <2>1 DEF Paid, PaidFor, Executed
  <2>3. bucket[a] \in WindowStart .. CurrentBucket
    BY <1>3, <2>1 DEF WindowEdges
  <2> QED
    BY <1>2, <1>4, <2>1, <2>2, <2>3
<1>9. NoLessThanOwed(r)'
  <2> SUFFICES ASSUME NEW f \in KnownField
               PROVE  Cardinality(OwedSoFar(r, f)') <= Merge(<<>>)[f]
    BY <1>1 DEF NoLessThanOwed, Counts, Merge, SumOver, Cells
  <2>1. OwedSoFar(r, f)' = {}
    <3> SUFFICES ASSUME NEW a \in OwedSoFar(r, f)' PROVE FALSE
      OBVIOUS
    <3>1. /\ a \in Owed(p) /\ a \in Attempt /\ bucket' = bucket
          /\ bucket[a] < WindowStart + Len(<<>>)
      BY <1>1 DEF OwedSoFar, recordVars, Owed
    <3>2. bucket[a] >= WindowStart
      BY <1>1, <1>8, <3>1 DEF OwedStands
    <3> QED
      BY <1>2, <1>4, <3>1, <3>2
  <2> QED
    BY <2>1, FS_EmptySet, MergeNothing
<1> QED
  BY <1>5, <1>6, <1>7, <1>8, <1>9 DEF Gathered

\* The reply of the next bucket adds the attempts filed there.
LEMMA ReadHashGathers ==
    ASSUME TypeOK, Filing, Reads, NEW r \in Reader, ReadHash(r), Gathered(r)
    PROVE  Gathered(r)'
<1> DEFINE rd == reading[r]
           m == Len(rd.hashes)
           k == KeyAt(rd, m + 1)
           new == WithHash(rd)
<1>1. /\ rd \in Held /\ Progress(rd) /\ rd.pc = "hashes"
      /\ reading' = [reading EXCEPT ![r] = new]
      /\ UNCHANGED <<clockVars, redisVars, recordVars, applied>>
  BY ReadHashIs DEF ReadHash
<1>2. /\ new.hashes = Append(rd.hashes, hash[k]) /\ new.first = rd.first
      /\ new.started = rd.started /\ new.provider = rd.provider
      /\ new.owed = rd.owed
  BY <1>1, WithHashType
<1>3. /\ m \in Nat /\ m < BucketCount /\ BucketCount \in Nat
      /\ rd.first \in Nat /\ rd.hashes \in Seq([Field -> Nat])
      /\ rd.owed \subseteq Attempt
  BY <1>1, Geometry DEF Held, Progress
<1>4. k \in Key /\ hash[k] \in [Field -> Nat] /\ k = <<rd.provider, rd.first + m>>
  <2>1. k \in Key
    BY <1>1, <1>3, KeyAtType
  <2>2. rd.first + (m + 1) - 1 = rd.first + m
    BY <1>3
  <2> QED
    BY <2>1, <2>2 DEF TypeOK, KeyAt
<1>5. Len(Append(rd.hashes, hash[k])) = m + 1
  BY <1>3, <1>4
<1>6. reading'[r] = new
  BY <1>1 DEF Reads
<1>7. \A a \in Attempt : bucket[a] \in Int /\ KeyOf(a) = <<outcome[a].provider, bucket[a]>>
  BY DEF TypeOK, Bucket, KeyOf
<1> HIDE DEF k, new
<1>8. InTime(r)' /\ NoneOlder(r)'
  BY <1>1, <1>2, <1>6 DEF Gathered, InTime, NoneOlder, clockVars, recordVars, ReadInFlight
<1>9. ASSUME NEW f \in KnownField
      PROVE  /\ IsFiniteSet(Units(new.hashes, f))
             /\ Merge(new.hashes)[f] = Merge(rd.hashes)[f] + hash[k][f]
             /\ IsFiniteSet(Units(rd.hashes, f))
             /\ Merge(rd.hashes)[f] \in Nat /\ hash[k][f] \in Nat
             /\ Merge(rd.hashes)[f] <= SumOver(applied, Seen(r, f))
  <2>1. /\ IsFiniteSet(Units(rd.hashes, f))
        /\ Merge(rd.hashes)[f] <= SumOver(applied, Seen(r, f))
    BY DEF Gathered, NoMoreThanSeen, Counts
  <2>2. f \in Field
    BY FieldAssumption
  <2> QED
    BY <1>2, <1>3, <1>4, <2>1, <2>2, MergeAppend, MergeIs
<1>10. ASSUME NEW f \in KnownField
       PROVE  Merge(new.hashes)[f] <= SumOver(applied, Seen(r, f)')
  <2> DEFINE S == Seen(r, f)
             T == Filed(k, f)
  <2>1. Seen(r, f)' = S \cup T
    <3>1. Seen(r, f)' =
             {a \in Executed :
                 /\ outcome[a].provider = rd.provider /\ outcome[a].field = f
                 /\ bucket[a] >= rd.first /\ bucket[a] < rd.first + (m + 1)}
      BY <1>1, <1>2, <1>5, <1>6 DEF Seen, Executed, recordVars
    <3>2. \A a \in Attempt :
             bucket[a] >= rd.first /\ bucket[a] < rd.first + (m + 1) <=>
                \/ bucket[a] >= rd.first /\ bucket[a] < rd.first + m
                \/ bucket[a] = rd.first + m
      <4> SUFFICES ASSUME NEW a \in Attempt
                   PROVE  bucket[a] >= rd.first /\ bucket[a] < rd.first + (m + 1) <=>
                             \/ bucket[a] >= rd.first /\ bucket[a] < rd.first + m
                             \/ bucket[a] = rd.first + m
        OBVIOUS
      <4> DEFINE x == bucket[a]
                 y == rd.first
      <4>1. x \in Int /\ y \in Int /\ m \in Nat
        BY <1>3, <1>7
      <4> HIDE DEF x, y, m
      <4>2. x >= y /\ x < y + (m + 1) <=> (x >= y /\ x < y + m) \/ x = y + m
        BY <4>1
      <4> QED
        BY <4>2 DEF x, y
    <3>3. T = {a \in Executed :
                 /\ outcome[a].provider = rd.provider /\ outcome[a].field = f
                 /\ bucket[a] = rd.first + m}
      BY <1>4, <1>7 DEF Filed, Executed
    <3> QED
      BY <3>1, <3>2, <3>3 DEF Seen, Executed
  <2>2. S \cap T = {}
    <3> SUFFICES ASSUME NEW a \in S, a \in T PROVE FALSE
      OBVIOUS
    <3>1. a \in Attempt /\ bucket[a] < rd.first + m /\ bucket[a] = rd.first + m
      BY <1>4, <1>7 DEF Seen, Filed, Executed
    <3> QED
      BY <1>3, <1>7, <3>1
  <2>3. S \subseteq Attempt /\ T \subseteq Attempt
    BY DEF Seen, Filed, Executed
  <2>4. hash[k][f] <= SumOver(applied, T)
    BY <1>4, FieldAssumption DEF Filing, FiledUnder
  <2> HIDE DEF S, T
  <2>5. /\ IsFiniteSet(Cells(applied, S)) /\ SumOver(applied, S) \in Nat
        /\ IsFiniteSet(Cells(applied, T)) /\ SumOver(applied, T) \in Nat
    BY <2>3, ExecutedSums DEF Filing
  <2>6. SumOver(applied, S \cup T) = SumOver(applied, S) + SumOver(applied, T)
    BY <2>2, <2>5, SumSplits
  <2>7. Merge(rd.hashes)[f] <= SumOver(applied, S)
    BY <1>9 DEF S
  <2>8. Merge(new.hashes)[f] <= SumOver(applied, S \cup T)
    BY <1>9, <2>4, <2>5, <2>6, <2>7
  <2> QED
    BY <2>1, <2>8
<1>11. NoMoreThanSeen(r)'
  <2> SUFFICES ASSUME NEW f \in KnownField
               PROVE  /\ IsFiniteSet(Units(new.hashes, f))
                      /\ Merge(new.hashes)[f] <= SumOver(applied, Seen(r, f)')
    <3>1. Counts(r)' = Merge(new.hashes)
      BY <1>6 DEF Counts, Merge, SumOver, Cells
    <3>2. \A f \in KnownField :
             SumOver(applied, Seen(r, f))' = SumOver(applied, Seen(r, f)')
      BY <1>1 DEF SumOver, Cells
    <3> QED
      BY <1>6, <3>1, <3>2 DEF NoMoreThanSeen, Units, Cells
  <2> QED
    BY <1>9, <1>10
<1>12. ASSUME lastStep < rd.started
       PROVE  OwedStands(r)' /\ NoLessThanOwed(r)'
  <2>1. OwedStands(r) /\ NoLessThanOwed(r)
    BY <1>12 DEF Gathered
  <2>2. OwedStands(r)'
    BY <1>1, <1>2, <1>6, <2>1 DEF OwedStands, Executed, clockVars, recordVars
  <2>3. ASSUME NEW f \in KnownField
        PROVE  Cardinality(OwedSoFar(r, f)') <= Merge(new.hashes)[f]
    <3> DEFINE S == OwedSoFar(r, f)
               T == {a \in rd.owed : outcome[a].field = f /\ bucket[a] = rd.first + m}
    <3>1. S \subseteq Executed /\ T \subseteq Executed
      BY <2>1 DEF OwedStands, OwedSoFar
    <3>2. OwedSoFar(r, f)' \subseteq S \cup T
      <4> SUFFICES ASSUME NEW a \in OwedSoFar(r, f)' PROVE a \in S \cup T
        OBVIOUS
      <4>1. /\ a \in rd.owed /\ outcome[a].field = f
            /\ bucket[a] < rd.first + (m + 1) /\ bucket[a] \in Int
        BY <1>1, <1>2, <1>3, <1>5, <1>6, <1>7 DEF OwedSoFar, recordVars
      <4>2. bucket[a] < rd.first + m \/ bucket[a] = rd.first + m
        <5> DEFINE x == bucket[a]
                   y == rd.first
        <5>1. x \in Int /\ y \in Int /\ m \in Nat /\ x < y + (m + 1)
          BY <1>3, <4>1
        <5> HIDE DEF x, y, m
        <5>2. x < y + m \/ x = y + m
          BY <5>1
        <5> QED
          BY <5>2 DEF x, y
      <4> QED
        BY <4>1, <4>2 DEF OwedSoFar
    <3>3. T \subseteq Live(k, f)
      <4> SUFFICES ASSUME NEW a \in T PROVE a \in Live(k, f)
        OBVIOUS
      <4>1. /\ a \in Executed /\ a \in Attempt /\ KeyOf(a) = k /\ outcome[a].field = f
            /\ started[a] > lastStep
            /\ rd.started - started[a] <= WindowSeconds - BucketSeconds
        BY <1>3, <1>4, <1>7, <2>1 DEF OwedStands
      <4>2. elapsed - started[a] < TTL
        <5> DEFINE s == started[a]
                   t == rd.started
        <5>1. /\ s \in Int /\ t \in Int /\ elapsed \in Int
              /\ t - s <= WindowSeconds - BucketSeconds
              /\ elapsed <= t + BoxTicks
          BY <1>1, <4>1 DEF TypeOK, Held, Gathered, InTime, ReadInFlight
        <5>2. /\ WindowSeconds \in Int /\ BucketSeconds \in Int /\ BucketSeconds > 0
              /\ BoxTicks \in Int /\ BoxTicks <= WindowSeconds
              /\ TTL = WindowSeconds + WindowSeconds
          BY GeometryAssumption, BoundsAssumption DEF TTL
        <5> HIDE DEF s, t
        <5>3. elapsed - s < TTL
          BY <5>1, <5>2
        <5> QED
          BY <5>3 DEF s
      <4> QED
        BY <4>1, <4>2 DEF Live, Filed, Fresh
    <3> HIDE DEF S, T
    <3>4. /\ IsFiniteSet(S) /\ Cardinality(S) \in Nat
          /\ IsFiniteSet(T) /\ Cardinality(T) \in Nat
      BY <3>1, ExecutedSets DEF Filing
    <3>5. Cardinality(T) <= hash[k][f]
      <4>1. Live(k, f) \subseteq Executed
        BY DEF Live, Filed
      <4>2. IsFiniteSet(Live(k, f)) /\ Cardinality(Live(k, f)) \in Nat
        BY <4>1, ExecutedSets DEF Filing
      <4>3. Cardinality(T) <= Cardinality(Live(k, f))
        BY <3>3, <4>2, FS_Subset
      <4>4. Cardinality(Live(k, f)) <= hash[k][f]
        BY <1>4, FieldAssumption DEF Filing, FiledUnder
      <4> QED
        BY <1>9, <3>4, <4>2, <4>3, <4>4
    <3>6. Cardinality(S) <= Merge(rd.hashes)[f]
      BY <2>1 DEF NoLessThanOwed, Counts, S
    <3>7. /\ Cardinality(OwedSoFar(r, f)') <= Cardinality(S) + Cardinality(T)
          /\ Cardinality(OwedSoFar(r, f)') \in Nat
      <4>1. /\ IsFiniteSet(S \cup T) /\ Cardinality(S \cup T) \in Nat
            /\ Cardinality(S \cup T) =
                  Cardinality(S) + Cardinality(T) - Cardinality(S \cap T)
        BY <3>4, FS_Union, FS_CardinalityType
      <4>2. Cardinality(S \cap T) \in Nat
        BY <3>4, FS_Subset, FS_CardinalityType
      <4>3. /\ IsFiniteSet(OwedSoFar(r, f)')
            /\ Cardinality(OwedSoFar(r, f)') <= Cardinality(S \cup T)
        BY <3>2, <4>1, FS_Subset
      <4>4. Cardinality(OwedSoFar(r, f)') \in Nat
        BY <4>3, FS_CardinalityType
      <4> QED
        BY <3>4, <4>1, <4>2, <4>3, <4>4
    <3> QED
      BY <1>9, <3>4, <3>5, <3>6, <3>7
  <2>4. NoLessThanOwed(r)'
    BY <1>6, <2>3 DEF NoLessThanOwed, Counts, Merge, SumOver, Cells
  <2> QED
    BY <2>2, <2>4
<1> QED
  BY <1>1, <1>2, <1>6, <1>8, <1>11, <1>12 DEF Gathered, clockVars

LEMMA GatheringInit == Init => Gathering
  BY DEF Init, Gathering, Reading, Idle, ReadInFlight

LEMMA GatheringKept ==
    ASSUME TypeOK, TypeOK', FinitelyExecuted', Reads, Gathering,
           \A r \in Reader : Reading(r)' => Reading(r) /\ SameWindow(r) /\ InTime(r)',
           \A r \in Reader : Reading(r) => NothingTakenBack(reading[r].started)
    PROVE  Gathering'
<1> SUFFICES ASSUME NEW r \in Reader, Reading(r)' PROVE Gathered(r)'
  BY DEF Gathering
<1>1. /\ Reading(r) /\ SameWindow(r) /\ InTime(r)'
      /\ NothingTakenBack(reading[r].started)
  OBVIOUS
<1>2. reading[r] \in Held /\ Gathered(r)
  BY <1>1, UnderWay DEF Gathering, Reading
<1> QED
  BY <1>1, <1>2, GatheredKept

LEMMA GatheringStep ==
    /\ TypeOK /\ TypeOK' /\ Paid /\ BucketOfStart /\ Reads
    /\ Filing /\ Filing' /\ Gathering /\ [Next]_vars
    => Gathering'
<1> SUFFICES ASSUME TypeOK, TypeOK', Paid, BucketOfStart, Reads,
                    Filing, Filing', Gathering, [Next]_vars
             PROVE  Gathering'
  OBVIOUS
<1>1. FinitelyExecuted' /\ FinitelyExecuted
  BY DEF Filing
<1>2. \A a \in Attempt : applied[a] \in Nat
  BY DEF TypeOK
<1>3. \A r \in Reader : Reading(r) => InTime(r)
  BY DEF Gathering, Gathered
<1>4. \A a \in Attempt : applied[a] >= applied[a]
  BY <1>2
<1>5. backward \in Nat /\ backward >= backward
  BY DEF TypeOK
<1>6. ASSUME UNCHANGED <<elapsed, reading>>
      PROVE  \A r \in Reader : Reading(r)' => Reading(r) /\ SameWindow(r) /\ InTime(r)'
  BY <1>3, <1>6 DEF Reading, SameWindow, InTime
<1>7. ASSUME NEW a \in Attempt, RecordStart(a) PROVE Gathering'
  <2>1. a \notin Executed
    BY <1>7, ExecutedBegan DEF RecordStart
  <2>2. ASSUME NEW r \in Reader, Reading(r)
        PROVE  NothingTakenBack(reading[r].started)
    <3>1. started'[a] >= reading[r].started
      <4>1. reading[r].started <= elapsed /\ started'[a] = elapsed
        BY <1>3, <1>7, <2>2 DEF InTime, RecordStart, TypeOK
      <4>2. reading[r].started \in Nat
        BY <2>2, UnderWay DEF Reading, Held
      <4> QED
        BY <4>1, <4>2, BoundsAssumption DEF TypeOK
    <3>2. \A b \in Attempt : b # a =>
             bucket'[b] = bucket[b] /\ started'[b] = started[b] /\ pc'[b] = pc[b]
      BY <1>7 DEF RecordStart, TypeOK
    <3> QED
      BY <1>4, <1>5, <1>7, <2>1, <3>1, <3>2
      DEF NothingTakenBack, RecordStart, clockVars
  <2> QED
    BY <1>1, <1>6, <1>7, <2>2, GatheringKept DEF RecordStart, clockVars
<1>8. ASSUME UNCHANGED <<outcome, backward, lastStep, bucket, started>>,
             \A a \in Attempt : applied'[a] >= applied[a],
             \A a \in Attempt : pc'[a] # "idle" => pc[a] # "idle",
             NEW t
      PROVE  NothingTakenBack(t)
  BY <1>5, <1>8 DEF NothingTakenBack
<1>9. ASSUME NEW a \in Attempt, ExecuteRecord(a) \/ ExecuteStray(a)
      PROVE  Gathering'
  <2>1. applied' = [applied EXCEPT ![a] = @ + 1]
    BY <1>9 DEF ExecuteRecord, ExecuteStray, Transaction
  <2>2. \A b \in Attempt : applied'[b] >= applied[b]
    <3> SUFFICES ASSUME NEW b \in Attempt PROVE applied'[b] >= applied[b]
      OBVIOUS
    <3>1. applied'[b] = applied[b] \/ applied'[b] = applied[b] + 1
      BY <2>1 DEF TypeOK
    <3> DEFINE n == applied[b]
               m == applied'[b]
    <3>2. n \in Nat /\ (m = n \/ m = n + 1)
      BY <1>2, <3>1
    <3> HIDE DEF n, m
    <3>3. m >= n
      BY <3>2
    <3> QED
      BY <3>3 DEF n, m
  <2>3. /\ UNCHANGED <<outcome, backward, lastStep, bucket, started, elapsed, reading>>
        /\ \A b \in Attempt : pc'[b] # "idle" => pc[b] # "idle"
    BY <1>9 DEF ExecuteRecord, ExecuteStray, clockVars, TypeOK
  <2> QED
    BY <1>1, <1>6, <1>8, <2>2, <2>3, GatheringKept
<1>10. ASSUME NEW a \in Attempt,
              RecordReturn(a) \/ RecordDrop(a) \/ RecordCancel(a) \/ RecordResend(a)
       PROVE  Gathering'
  <2>1. /\ UNCHANGED <<outcome, backward, lastStep, bucket, started, applied, elapsed,
                       reading>>
        /\ \A b \in Attempt : pc'[b] # "idle" => pc[b] # "idle"
    BY <1>10 DEF RecordReturn, RecordDrop, RecordCancel, RecordResend, clockVars,
                 TypeOK, InFlight
  <2> QED
    BY <1>1, <1>4, <1>6, <1>8, <2>1, GatheringKept
<1>11. ASSUME NEW r \in Reader,
              UNCHANGED <<clockVars, redisVars, recordVars, applied>>,
              reading' = [reading EXCEPT ![r] = reading'[r]],
              Reading(r)' => Gathered(r)'
       PROVE  Gathering'
  <2> SUFFICES ASSUME NEW s \in Reader, Reading(s)' PROVE Gathered(s)'
    BY DEF Gathering
  <2>1. CASE s = r
    BY <1>11, <2>1
  <2>2. CASE s # r
    <3>1. reading'[s] = reading[s]
      BY <1>11, <2>2 DEF Reads
    <3>2. Reading(s) /\ SameWindow(s) /\ InTime(s)'
      BY <1>3, <1>11, <3>1 DEF Reading, SameWindow, InTime, clockVars
    <3>3. NothingTakenBack(reading[s].started)
      BY <1>4, <1>8, <1>11 DEF clockVars, recordVars
    <3>4. reading[s] \in Held /\ Gathered(s)
      BY <3>2, UnderWay DEF Gathering, Reading
    <3> QED
      BY <1>1, <3>2, <3>3, <3>4, GatheredKept
  <2> QED
    BY <2>1, <2>2
<1>12. ASSUME NEW r \in Reader, NEW p \in Provider, NEW kind \in {"read", "snapshot"},
              ReadStart(r, p, kind)
       PROVE  Gathering'
  <2>1. Gathered(r)'
    BY <1>1, <1>12, ReadStartGathers
  <2>2. /\ reading' = [reading EXCEPT ![r] = reading'[r]]
        /\ UNCHANGED <<clockVars, redisVars, recordVars, applied>>
    BY <1>12 DEF ReadStart, Reads
  <2> QED
    BY <1>11, <2>1, <2>2
<1>13. ASSUME NEW r \in Reader, ReadHash(r) PROVE Gathering'
  <2>1. Gathered(r)
    BY <1>13 DEF ReadHash, Gathering, Reading, ReadInFlight
  <2>2. Gathered(r)'
    BY <1>13, <2>1, ReadHashGathers
  <2>3. /\ reading' = [reading EXCEPT ![r] = reading'[r]]
        /\ UNCHANGED <<clockVars, redisVars, recordVars, applied>>
    BY <1>13, ReadHashIs DEF ReadHash, Reads
  <2> QED
    BY <1>11, <2>2, <2>3
<1>14. ASSUME NEW r \in Reader, ReadList(r) PROVE Gathering'
  <2>1. /\ reading[r] \in Held /\ Progress(reading[r]) /\ reading[r].pc = "lists"
        /\ reading' = [reading EXCEPT ![r] = WithList(reading[r])]
    BY <1>14, ReadListIs
  <2>2. reading'[r] = WithList(reading[r])
    BY <2>1 DEF Reads
  <2>3. SameWindow(r)
    BY <2>1, <2>2, WithListType DEF SameWindow
  <2>4. /\ UNCHANGED <<clockVars, redisVars, recordVars, applied>>
        /\ Reading(r) /\ Gathered(r) /\ reading[r].pc \in ReadInFlight
    BY <1>14, <2>1 DEF ReadList, Gathering, Reading, ReadInFlight
  <2>5. InTime(r)'
    BY <1>3, <2>3, <2>4 DEF InTime, SameWindow, clockVars
  <2>6. NothingTakenBack(reading[r].started)
    BY <1>4, <1>8, <2>4 DEF clockVars, recordVars
  <2>7. Gathered(r)'
    BY <1>1, <2>1, <2>3, <2>4, <2>5, <2>6, GatheredKept
  <2> QED
    BY <1>11, <2>1, <2>2, <2>4, <2>7
<1>15. ASSUME NEW r \in Reader, ReadFail(r) PROVE Gathering'
  <2>1. reading'[r].pc = "unknown"
    BY <1>15 DEF ReadFail, Reads
  <2>2. /\ reading' = [reading EXCEPT ![r] = reading'[r]] /\ ~ Reading(r)'
        /\ UNCHANGED <<clockVars, redisVars, recordVars, applied>>
    BY <1>15, <2>1 DEF ReadFail, Reads, Reading, ReadInFlight
  <2> QED
    BY <1>11, <2>2
<1>16. CASE Tick
  <2>1. /\ UNCHANGED <<outcome, backward, lastStep, bucket, started, pc, applied,
                       reading>>
        /\ elapsed' = elapsed + 1 /\ elapsed \in Nat /\ BoxTicks \in Nat
        /\ \A r \in Reader : reading[r].pc \in ReadInFlight =>
              elapsed < reading[r].started + BoxTicks
    BY <1>16, BoundsAssumption DEF Tick, recordVars, TypeOK
  <2>2. ASSUME NEW r \in Reader, Reading(r)'
        PROVE  Reading(r) /\ SameWindow(r) /\ InTime(r)'
    <3>1. Reading(r) /\ SameWindow(r)
      BY <2>1, <2>2 DEF Reading, SameWindow
    <3> DEFINE s == reading[r].started
    <3>2. s \in Nat /\ s <= elapsed
      BY <1>3, <3>1, UnderWay DEF Reading, Held, InTime
    <3>3. reading[r].pc \in ReadInFlight => elapsed < s + BoxTicks
      BY <2>1
    <3> HIDE DEF s
    <3>4. /\ s <= elapsed + 1
          /\ reading[r].pc \in ReadInFlight => elapsed + 1 <= s + BoxTicks
      BY <2>1, <3>2, <3>3
    <3> QED
      BY <2>1, <3>1, <3>4 DEF InTime, s
  <2>3. \A r \in Reader : NothingTakenBack(reading[r].started)
    BY <1>4, <1>8, <2>1
  <2> QED
    BY <1>1, <2>2, <2>3, GatheringKept
<1>17. ASSUME NEW d \in ClockSteps, ClockStep(d) PROVE Gathering'
  <2>1. /\ UNCHANGED <<outcome, bucket, started, pc, applied, elapsed, reading>>
        /\ lastStep' = elapsed
        /\ backward' = IF d < 0 THEN backward - d ELSE backward
        /\ d \in Int
    BY <1>17, BoundsAssumption DEF ClockStep, recordVars
  <2>2. backward' >= backward
    BY <1>5, <2>1
  <2>3. ASSUME NEW r \in Reader, Reading(r)
        PROVE  NothingTakenBack(reading[r].started)
    <3>1. lastStep' >= reading[r].started
      <4>1. reading[r].started <= elapsed /\ reading[r].started \in Nat
        BY <1>3, <2>3, UnderWay DEF InTime, Reading, Held
      <4> QED
        BY <2>1, <4>1 DEF TypeOK
    <3> QED
      BY <1>4, <2>1, <2>2, <3>1 DEF NothingTakenBack
  <2> QED
    BY <1>1, <1>6, <2>1, <2>3, GatheringKept
<1>18. CASE Crash
  BY <1>18 DEF Crash, Idle, Gathering, Reading, ReadInFlight
<1>19. CASE UNCHANGED vars
  <2>1. /\ UNCHANGED <<outcome, backward, lastStep, bucket, started, applied, elapsed,
                       reading, pc>>
    BY <1>19 DEF vars, clockVars, recordVars
  <2> QED
    BY <1>1, <1>4, <1>6, <1>8, <2>1, GatheringKept
<1> QED
  BY <1>7, <1>9, <1>10, <1>12, <1>13, <1>14, <1>15, <1>16, <1>17, <1>18, <1>19
  DEF Next

LEMMA GatheringSuffices ==
    TypeOK /\ Paid /\ FinitelyExecuted /\ Reads /\ Gathering => ReadIsExact
<1> SUFFICES ASSUME TypeOK, Paid, FinitelyExecuted, Reads, Gathering,
                    NEW r \in Reader, Done(r), NEW f \in KnownField
             PROVE  /\ lastStep < reading[r].started =>
                          Counts(r)[f] >=
                             Cardinality({a \in reading[r].owed : outcome[a].field = f})
                    /\ Counts(r)[f] <= AppliedTimes(
                          Younger(reading[r].provider, f, reading[r].started,
                                  WindowSeconds + backward))
  BY DEF ReadIsExact
<1> DEFINE rd == reading[r]
<1>1. rd \in Held /\ Progress(rd) /\ Gathered(r)
  BY UnderWay DEF Done, Gathering, Reading
<1>2. Len(rd.hashes) = BucketCount
  BY <1>1 DEF Progress, Done
<1>3. Counts(r)[f] \in Nat
  BY <1>1, MergeIs DEF Gathered, NoMoreThanSeen, Counts
<1>4. ASSUME lastStep < rd.started
      PROVE  Counts(r)[f] >= Cardinality({a \in rd.owed : outcome[a].field = f})
  <2>1. OwedStands(r) /\ NoLessThanOwed(r)
    BY <1>1, <1>4 DEF Gathered
  <2>2. OwedSoFar(r, f) = {a \in rd.owed : outcome[a].field = f}
    BY <1>2, <2>1 DEF OwedStands, OwedSoFar
  <2>3. Cardinality(OwedSoFar(r, f)) <= Counts(r)[f]
    BY <2>1 DEF NoLessThanOwed
  <2>4. Cardinality(OwedSoFar(r, f)) \in Nat
    <3>1. OwedSoFar(r, f) \subseteq Executed
      BY <2>1 DEF OwedStands, OwedSoFar
    <3> QED
      BY <3>1, ExecutedSets
  <2> QED
    BY <1>3, <2>2, <2>3, <2>4
<1>5. Counts(r)[f] <= AppliedTimes(
         Younger(rd.provider, f, rd.started, WindowSeconds + backward))
  <2> DEFINE S == Seen(r, f)
             T == Younger(rd.provider, f, rd.started, WindowSeconds + backward)
  <2>1. S \subseteq T
    <3> SUFFICES ASSUME NEW a \in S PROVE a \in T
      OBVIOUS
    <3>1. /\ a \in Executed /\ a \in Attempt /\ applied[a] > 0
          /\ outcome[a].provider = rd.provider /\ outcome[a].field = f
          /\ bucket[a] >= rd.first
      BY DEF Seen, Executed
    <3>2. pc[a] # "idle"
      BY <3>1, ExecutedBegan
    <3>3. rd.started - started[a] < WindowSeconds + backward
      BY <1>1, <3>1, <3>2 DEF Gathered, NoneOlder
    <3>4. outcome[a] = [provider |-> rd.provider, field |-> f]
      BY <3>1 DEF TypeOK
    <3> QED
      BY <3>1, <3>3, <3>4 DEF Younger
  <2>2. T \subseteq Attempt
    BY DEF Younger
  <2>3. Counts(r)[f] <= SumOver(applied, S)
    BY <1>1 DEF Gathered, NoMoreThanSeen
  <2> HIDE DEF S, T
  <2>4. IsFiniteSet(Cells(applied, T)) /\ SumOver(applied, T) \in Nat
    BY <2>2, ExecutedSums
  <2>5. /\ SumOver(applied, S) <= SumOver(applied, T)
        /\ SumOver(applied, S) \in Nat
    <3>1. \A a \in S : applied[a] \in Nat /\ applied[a] <= applied[a]
      BY <2>1, <2>2 DEF TypeOK
    <3> QED
      BY <2>1, <2>4, <3>1, SumGrows, SumType
  <2>6. Counts(r)[f] <= SumOver(applied, T)
    BY <1>3, <2>3, <2>4, <2>5
  <2> QED
    BY <2>6 DEF AppliedTimes, T
<1> QED
  BY <1>4, <1>5

(* D3, window.py: what a read answers is exact to a bucket.  Every attempt *)
(* recorded less than a bucket short of a window before is in it, and      *)
(* nothing a window old is, but for the time the clock was set back: for   *)
(* every geometry, any number of attempts and readers, whatever is lost,   *)
(* late or sent again, and across restarts.                                *)
THEOREM ReadsAreExact == Spec => []ReadIsExact
<1>1. Spec => []Reads
  BY ReadsInit, ReadsStep, TypeCorrect, PTL DEF Spec
<1>2. Spec => []Gathering
  BY <1>1, GatheringInit, GatheringStep, TypeCorrect, PaidAlways,
     BucketOfStartAlways, FilingAlways, PTL DEF Spec
<1>3. Filing => FinitelyExecuted
  BY DEF Filing
<1> QED
  BY <1>1, <1>2, <1>3, GatheringSuffices, TypeCorrect, PaidAlways, FilingAlways, PTL
=============================================================================

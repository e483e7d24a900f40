---------------------------- MODULE HealthWindow ----------------------------
(***************************************************************************)
(* The per-provider health window: keel/health/window.py and the store it  *)
(* keeps in Redis (keel/health/latency.py, keel/redis.py).                 *)
(*                                                                         *)
(* HealthTracker.record counts one attempt into the bucket of the wall     *)
(* clock, in one MULTI/EXEC that also pushes the latency sample; read and  *)
(* snapshot merge the last WindowSeconds of buckets over a pipeline that   *)
(* is not a transaction.  The client waits for a reply that may never      *)
(* come, gives up after its time box, may be cancelled, may crash; what it *)
(* sent may still be executed after it gave up.                            *)
(*                                                                         *)
(* The unit of time is a tick.  "now" is the wall clock, which both the    *)
(* gateway and Redis read (ADR 0001: in the compose topology the services  *)
(* share the host clock) and which may step; "elapsed" is real time, which *)
(* never does.                                                             *)
(***************************************************************************)
EXTENDS Integers, Sequences, FiniteSets, Sums

CONSTANTS
    Attempt,        \* calls of HealthTracker.record, one per provider attempt
    Reader,         \* calls of HealthTracker.read and snapshot
    Provider,       \* config entry names
    Field,          \* hash fields some writer of the keyspace may use
    KnownField,     \* the fields this build knows: ok and one err_* per class
    BucketSeconds,  \* breaker.bucket_seconds, in ticks
    WindowSeconds,  \* breaker.window_seconds, in ticks
    SampleCap,      \* SAMPLE_CAP
    BoxTicks,       \* REDIS_TIMEOUT_SECONDS, in ticks
    MaxSends,       \* times the client library may send one transaction
    Epoch,          \* the wall clock at start
    ClockSteps,     \* the sizes of the steps the wall clock may take
    MaxSteps,       \* bound on the number of steps
    MaxElapsed,     \* bound on real time
    MaxWall         \* bound on the wall clock

\* config.py: both at least one second, and _check_window_divides_into_buckets.
ASSUME GeometryAssumption ==
    /\ BucketSeconds \in Nat \ {0}
    /\ WindowSeconds \in Nat \ {0}
    /\ WindowSeconds % BucketSeconds = 0

\* REDIS_TIMEOUT_SECONDS is a quarter of a second, a window at least one.
ASSUME BoundsAssumption ==
    /\ SampleCap \in Nat \ {0}
    /\ BoxTicks \in 0 .. WindowSeconds
    /\ MaxSends \in Nat \ {0}
    /\ ClockSteps \subseteq Int
    /\ MaxSteps \in Nat
    /\ MaxElapsed \in Nat
    /\ Epoch \in Nat
    /\ MaxWall \in Nat
    /\ WindowSeconds <= Epoch
    /\ Epoch <= MaxWall

ASSUME FieldAssumption == KnownField \subseteq Field

VARIABLES
    now, elapsed, steps,                    \* the clocks
    lastStep, backward,                     \* history of the steps
    hash, hashTTL, list, listTTL,           \* Redis
    outcome, pc, bucket, started, sends,    \* record, per attempt
    stray, applied,                         \* what became of its transactions
    reading                                 \* read and snapshot, per reader

clockVars == <<now, elapsed, steps, lastStep, backward>>
redisVars == <<hash, hashTTL, list, listTTL>>
recordVars == <<outcome, pc, bucket, started, sends, stray>>
vars == <<clockVars, redisVars, recordVars, applied, reading>>

-----------------------------------------------------------------------------
BucketCountRoundedUp ==                                \* mutant of BucketCount
    WindowSeconds \div BucketSeconds + 1
BucketCount == WindowSeconds \div BucketSeconds
TTLOfOneWindow == WindowSeconds                        \* mutant of TTL
TTL == 2 * WindowSeconds
Bucket == 0 .. (MaxWall \div BucketSeconds)
Key == Provider \X Bucket
EmptyHash == [f \in Field |-> 0]

CurrentBucket == now \div BucketSeconds

\* The first of the BucketCount indices that the window covers now.
WindowStart == CurrentBucket - BucketCount + 1

KeyOfExecution(a) ==                                   \* mutant of KeyOf
    <<outcome[a].provider, CurrentBucket>>
KeyOf(a) == <<outcome[a].provider, bucket[a]>>

InFlight == {"sent", "executed"}
Settled == {"recorded", "dropped", "abandoned"}

TakeOneMore(s, n) ==                                   \* mutant of Take
    SubSeq(s, 1, IF Len(s) < n + 1 THEN Len(s) ELSE n + 1)
Take(s, n) == SubSeq(s, 1, IF Len(s) < n THEN Len(s) ELSE n)

Idle == [pc |-> "idle"]
ReadInFlight == {"hashes", "lists"}

-----------------------------------------------------------------------------
Init ==
    /\ now = Epoch /\ elapsed = 0 /\ steps = 0
    /\ lastStep = -1 /\ backward = 0
    /\ hash = [k \in Key |-> EmptyHash]
    /\ hashTTL = [k \in Key |-> 0]
    /\ list = [k \in Key |-> <<>>]
    /\ listTTL = [k \in Key |-> 0]
    /\ outcome \in [Attempt -> [provider : Provider, field : Field]]
    /\ pc = [a \in Attempt |-> "idle"]
    /\ bucket = [a \in Attempt |-> 0]
    /\ started = [a \in Attempt |-> 0]
    /\ sends = [a \in Attempt |-> 0]
    /\ stray = [a \in Attempt |-> 0]
    /\ applied = [a \in Attempt |-> 0]
    /\ reading = [r \in Reader |-> Idle]

-----------------------------------------------------------------------------
(* record: the bucket is computed before the await.                        *)
RecordStart(a) ==
    /\ pc[a] = "idle"
    /\ pc' = [pc EXCEPT ![a] = "sent"]
    /\ bucket' = [bucket EXCEPT ![a] = CurrentBucket]
    /\ started' = [started EXCEPT ![a] = elapsed]
    /\ sends' = [sends EXCEPT ![a] = 1]
    /\ UNCHANGED <<clockVars, redisVars, outcome, stray, applied, reading>>

(* Mutant of Transaction: without MULTI the connection may be lost after   *)
(* HINCRBY.                                                                *)
TransactionCutShort(a) ==
    LET k == KeyOf(a) IN
    /\ hash' = [hash EXCEPT ![k][outcome[a].field] = @ + 1]
    /\ applied' = [applied EXCEPT ![a] = @ + 1]
    /\ UNCHANGED <<hashTTL, list, listTTL>>

(* Redis executes the MULTI/EXEC of a: HINCRBY and EXPIRE of the counts,   *)
(* then LPUSH, LTRIM and EXPIRE of the samples, all five or none.          *)
Transaction(a) ==
    LET k == KeyOf(a) IN
    /\ hash' = [hash EXCEPT ![k][outcome[a].field] = @ + 1]
    /\ hashTTL' = [hashTTL EXCEPT ![k] = now + TTL]
    /\ list' = [list EXCEPT ![k] = Take(<<a>> \o @, SampleCap)]
    /\ listTTL' = [listTTL EXCEPT ![k] = now + TTL]
    /\ applied' = [applied EXCEPT ![a] = @ + 1]

ExecuteRecord(a) ==
    /\ pc[a] = "sent"
    /\ Transaction(a)
    /\ pc' = [pc EXCEPT ![a] = "executed"]
    /\ UNCHANGED <<clockVars, outcome, bucket, started, sends, stray, reading>>

(* A client that stops waiting does not take its transaction back: unless  *)
(* Redis has executed it, it is astray, to be executed later or never.     *)
Strand(as) ==
    stray' = [a \in Attempt |->
                 IF a \in as /\ pc[a] = "sent" THEN stray[a] + 1 ELSE stray[a]]

(* Mutant of RecordReturn: the call does not wait for the reply.            *)
RecordReturnUnawaited(a) ==
    /\ pc[a] \in InFlight
    /\ pc' = [pc EXCEPT ![a] = "recorded"]
    /\ Strand({a})
    /\ UNCHANGED <<clockVars, redisVars, outcome, bucket, started, sends,
                   applied, reading>>

RecordReturn(a) ==
    /\ pc[a] = "executed"
    /\ pc' = [pc EXCEPT ![a] = "recorded"]
    /\ UNCHANGED <<clockVars, redisVars, outcome, bucket, started, sends,
                   stray, applied, reading>>

(* RedisError, OSError or the time box.  The client cannot tell a          *)
(* transaction that was not executed from one whose reply was late.        *)
(* "dropped" stands for the warning and the call of on_write_dropped.      *)
RecordDrop(a) ==
    /\ pc[a] \in InFlight
    /\ pc' = [pc EXCEPT ![a] = "dropped"]
    /\ Strand({a})
    /\ UNCHANGED <<clockVars, redisVars, outcome, bucket, started, sends,
                   applied, reading>>

(* CancelledError is not caught: neither recorded nor counted as dropped.  *)
RecordCancel(a) ==
    /\ pc[a] \in InFlight
    /\ pc' = [pc EXCEPT ![a] = "abandoned"]
    /\ Strand({a})
    /\ UNCHANGED <<clockVars, redisVars, outcome, bucket, started, sends,
                   applied, reading>>

\* Mutant of RecordResend: a retry policy that never gives up.
RecordResendForever(a) ==
    /\ pc[a] \in InFlight
    /\ sends[a] <= MaxSends
    /\ pc' = [pc EXCEPT ![a] = "sent"]
    /\ sends' = [sends EXCEPT ![a] = @ + 1]
    /\ Strand({a})
    /\ UNCHANGED <<clockVars, redisVars, outcome, bucket, started, applied, reading>>

(* The client library loses the connection and sends the commands again.   *)
RecordResend(a) ==
    /\ pc[a] \in InFlight
    /\ sends[a] < MaxSends
    /\ pc' = [pc EXCEPT ![a] = "sent"]
    /\ sends' = [sends EXCEPT ![a] = @ + 1]
    /\ Strand({a})
    /\ UNCHANGED <<clockVars, redisVars, outcome, bucket, started, applied, reading>>

ExecuteStray(a) ==
    /\ stray[a] > 0
    /\ Transaction(a)
    /\ stray' = [stray EXCEPT ![a] = @ - 1]
    /\ UNCHANGED <<clockVars, outcome, pc, bucket, started, sends, reading>>

-----------------------------------------------------------------------------
(* read and snapshot: the indices are computed before the await, and other *)
(* clients' commands may be executed between those of the pipeline.        *)

\* History: recorded attempts on p so young that a read begun now owes them.
Owed(p) ==
    {a \in Attempt :
        /\ pc[a] = "recorded"
        /\ outcome[a].provider = p
        /\ outcome[a].field \in KnownField
        /\ started[a] > lastStep
        /\ elapsed - started[a] <= WindowSeconds - BucketSeconds}

ReadStart(r, p, kind) ==
    /\ reading[r] = Idle
    /\ reading' = [reading EXCEPT ![r] =
            [pc |-> "hashes", kind |-> kind, provider |-> p,
             first |-> WindowStart, hashes |-> <<>>, lists |-> <<>>,
             started |-> elapsed, owed |-> Owed(p)]]
    /\ UNCHANGED <<clockVars, redisVars, recordVars, applied>>

\* HGETALL of the next bucket.  read ends with the last one.
ReadHash(r) ==
    LET rd == reading[r]
        n == Len(rd.hashes) + 1
        k == <<rd.provider, rd.first + n - 1>>
        next == IF n < BucketCount THEN "hashes"
                ELSE IF rd.kind = "read" THEN "done" ELSE "lists"
    IN
    /\ rd.pc = "hashes"
    /\ reading' = [reading EXCEPT ![r] =
            [rd EXCEPT !.pc = next, !.hashes = Append(@, hash[k])]]
    /\ UNCHANGED <<clockVars, redisVars, recordVars, applied>>

(* Mutant of ReadList: the samples are asked for in a second round trip,   *)
(* over the window of that moment.                                         *)
ReadListLater(r) ==
    LET rd == reading[r]
        n == Len(rd.lists) + 1
        k == <<rd.provider, WindowStart + n - 1>>
        next == IF n < BucketCount THEN "lists" ELSE "done"
    IN
    /\ rd.pc = "lists"
    /\ reading' = [reading EXCEPT ![r] =
            [rd EXCEPT !.pc = next, !.lists = Append(@, list[k])]]
    /\ UNCHANGED <<clockVars, redisVars, recordVars, applied>>

\* LRANGE 0 -1 of the next bucket.
ReadList(r) ==
    LET rd == reading[r]
        n == Len(rd.lists) + 1
        k == <<rd.provider, rd.first + n - 1>>
        next == IF n < BucketCount THEN "lists" ELSE "done"
    IN
    /\ rd.pc = "lists"
    /\ reading' = [reading EXCEPT ![r] =
            [rd EXCEPT !.pc = next, !.lists = Append(@, list[k])]]
    /\ UNCHANGED <<clockVars, redisVars, recordVars, applied>>

\* A failure part of the way discards every reply: the answer is None.
ReadFail(r) ==
    /\ reading[r].pc \in ReadInFlight
    /\ reading' = [reading EXCEPT ![r] = [pc |-> "unknown"]]
    /\ UNCHANGED <<clockVars, redisVars, recordVars, applied>>

-----------------------------------------------------------------------------
(* The clocks.  Redis deletes a key when its time has come.                *)
ExpireAt(t) ==
    LET gone(ttl, k) == 0 < ttl[k] /\ ttl[k] <= t IN
    /\ hash' = [k \in Key |-> IF gone(hashTTL, k) THEN EmptyHash ELSE hash[k]]
    /\ hashTTL' = [k \in Key |-> IF gone(hashTTL, k) THEN 0 ELSE hashTTL[k]]
    /\ list' = [k \in Key |-> IF gone(listTTL, k) THEN <<>> ELSE list[k]]
    /\ listTTL' = [k \in Key |-> IF gone(listTTL, k) THEN 0 ELSE listTTL[k]]

(* asyncio.timeout runs on the loop's own clock: no call waits longer than *)
(* BoxTicks of real time.                                                  *)
Tick ==
    /\ elapsed < MaxElapsed
    /\ now < MaxWall
    /\ \A a \in Attempt :
          pc[a] \in InFlight => elapsed < started[a] + BoxTicks
    /\ \A r \in Reader :
          reading[r].pc \in ReadInFlight => elapsed < reading[r].started + BoxTicks
    /\ elapsed' = elapsed + 1
    /\ now' = now + 1
    /\ ExpireAt(now + 1)
    /\ UNCHANGED <<steps, lastStep, backward, recordVars, applied, reading>>

\* The wall clock is set: an NTP correction, a resumed machine, an operator.
ClockStep(d) ==
    /\ steps < MaxSteps
    /\ now + d \in WindowSeconds .. MaxWall
    /\ steps' = steps + 1
    /\ now' = now + d
    /\ lastStep' = elapsed
    /\ backward' = IF d < 0 THEN backward - d ELSE backward
    /\ ExpireAt(now + d)
    /\ UNCHANGED <<elapsed, recordVars, applied, reading>>

(* The gateway process dies and is started again.  Its calls are gone,     *)
(* Redis is not (FR-3.2).                                                  *)
Crash ==
    /\ pc' = [a \in Attempt |-> IF pc[a] \in InFlight THEN "abandoned" ELSE pc[a]]
    /\ Strand(Attempt)
    /\ reading' = [r \in Reader |-> Idle]
    /\ UNCHANGED <<clockVars, redisVars, outcome, bucket, started, sends,
                   applied>>

-----------------------------------------------------------------------------
Next ==
    \/ \E a \in Attempt :
          \/ RecordStart(a)  \/ ExecuteRecord(a) \/ RecordReturn(a)
          \/ RecordDrop(a)   \/ RecordCancel(a)  \/ RecordResend(a)
          \/ ExecuteStray(a)
    \/ \E r \in Reader :
          \/ \E p \in Provider, kind \in {"read", "snapshot"} :
                ReadStart(r, p, kind)
          \/ ReadHash(r) \/ ReadList(r) \/ ReadFail(r)
    \/ Tick
    \/ \E d \in ClockSteps : ClockStep(d)
    \/ Crash

Spec == Init /\ [][Next]_vars

-----------------------------------------------------------------------------
(* What a completed read returns.                                          *)
Done(r) == reading[r].pc = "done"

\* WindowCounts: every known field summed, every other one skipped.
Merge(hashes) ==
    [f \in KnownField |->
        SumOver([i \in DOMAIN hashes |-> hashes[i][f]], DOMAIN hashes)]

Counts(r) == Merge(reading[r].hashes)

Total(h) == SumOver(h, Field)

Stored(len) == IF len < SampleCap THEN len ELSE SampleCap

\* Attempts on p with field f that began less than age before time t, each
\* as often as Redis executed its transaction.
Younger(p, f, t, age) ==
    {a \in Attempt : /\ outcome[a] = [provider |-> p, field |-> f]
                     /\ applied[a] > 0
                     /\ t - started[a] < age}

AppliedTimes(as) == SumOver(applied, as)

-----------------------------------------------------------------------------
(* record as its caller sees it.                                           *)
CallOf == [a \in Attempt |-> IF pc[a] \in InFlight THEN "waiting" ELSE pc[a]]

Ledger == INSTANCE HealthLedger
              WITH call <- CallOf, written <- applied, MaxWrites <- MaxSends

-----------------------------------------------------------------------------
(* Properties.                                                             *)

\* record keeps its promise to the executor: whatever is lost, retried,
\* cancelled or late, a call that returned was executed, no call settles
\* twice, and none is executed more often than it was sent.
ImplementsLedger == Ledger!LedgerSpec

\* Every variable keeps its type.
TypeOK ==
    /\ now \in WindowSeconds .. MaxWall
    /\ elapsed \in 0 .. MaxElapsed
    /\ steps \in 0 .. MaxSteps
    /\ lastStep \in -1 .. MaxElapsed
    /\ backward \in Nat
    /\ hash \in [Key -> [Field -> Nat]]
    /\ hashTTL \in [Key -> Nat]
    /\ list \in [Key -> Seq(Attempt)]
    /\ listTTL \in [Key -> Nat]
    /\ outcome \in [Attempt -> [provider : Provider, field : Field]]
    /\ pc \in [Attempt -> {"idle"} \cup InFlight \cup Settled]
    /\ bucket \in [Attempt -> Bucket]
    /\ started \in [Attempt -> 0 .. MaxElapsed]
    /\ sends \in [Attempt -> 0 .. MaxSends]
    /\ stray \in [Attempt -> Nat]
    /\ applied \in [Attempt -> Nat]

\* window.py:207 "a key with no TTL ... would leak it forever": whatever is
\* lost, dropped or late, both keys of a bucket exist together, and every key
\* that exists will expire.
EveryKeyExpires ==
    \A k \in Key :
        /\ hashTTL[k] = listTTL[k]
        /\ (list[k] = <<>>) <=> (\A f \in Field : hash[k][f] = 0)
        /\ list[k] # <<>> => hashTTL[k] > now

\* latency.py:98 "the count and the sample land together or not at all", and
\* the list never outgrows SAMPLE_CAP, in whatever order calls are executed.
SamplesMatchCounts ==
    \A k \in Key : Len(list[k]) = Stored(Total(hash[k]))

\* D3: the window covers the bucket of every attempt begun up to a bucket less
\* than a window ago, and of none begun a window ago, but for the time the wall
\* clock was set back since.
WindowEdges ==
    \A a \in Attempt : pc[a] # "idle" =>
        LET age == elapsed - started[a] IN
        /\ started[a] > lastStep /\ age <= WindowSeconds - BucketSeconds =>
              bucket[a] \in WindowStart .. CurrentBucket
        /\ age >= WindowSeconds + backward => bucket[a] < WindowStart

\* A read that answers owes every attempt recorded, by this process or by one
\* that crashed, less than a bucket short of a window before; and counts no
\* attempt a window old, but for the time the wall clock was set back.  (D3:
\* an event leaves the window at most one bucket early.)
ReadIsExact ==
    \A r \in Reader : Done(r) =>
        LET rd == reading[r] IN
        \A f \in KnownField :
            /\ lastStep < rd.started =>
                  Counts(r)[f] >= Cardinality({a \in rd.owed : outcome[a].field = f})
            /\ Counts(r)[f] <= AppliedTimes(
                  Younger(rd.provider, f, rd.started, WindowSeconds + backward))

\* The samples of a snapshot are never fewer than its counts, up to the cap of
\* each bucket: a percentile rests on as much evidence as the rate beside it.
\* This is said of a clock that was never set: a key written just after the
\* clock was set back may expire between the two halves of a later snapshot.
SamplesCoverCounts ==
    \A r \in Reader : Done(r) =>
        LET rd == reading[r] IN
        rd.kind = "snapshot" /\ lastStep = -1 =>
            \A i \in 1 .. BucketCount :
                Len(rd.lists[i]) >= Stored(Total(rd.hashes[i]))
=============================================================================

---------------------------- MODULE LoadGenProofs ----------------------------
(***************************************************************************)
(* Proofs about LoadGen: the schedule, the summary and its percentiles,    *)
(* and the pool, for every rate, duration, timeout and gateway.            *)
(***************************************************************************)
EXTENDS LoadGen, FiniteSetTheorems, TLAPS

LEMMA Ticks == Interval \in Nat \ {0} /\ Duration \in Nat \ {0} /\ StallTicks \in Nat \ {0}
BY LoadGenAssumption DEF LoadGenAssumption

-----------------------------------------------------------------------------
(* The schedule.                                                           *)

\* Since the next request's time, if that is past, the loop was blocked.
Schedule ==
    /\ index \in Nat /\ now \in Nat
    /\ spawned \in [Targets -> Nat]
    /\ driver = "tuning" => index = 0 /\ now = 0
    /\ driver = "sleeping" => wake = TargetAt(index)
    /\ driver \in {"driving", "sleeping"} => TargetAt(index) .. now - 1 \subseteq stalled
    /\ OnSchedule

LEMMA ScheduleInit == Init => Schedule
<1> SUFFICES ASSUME Init PROVE Schedule
  OBVIOUS
<1>1. spawned \in [Targets -> Nat]
  BY DEF Init
<1> QED
  BY <1>1 DEF Init, Schedule, OnSchedule

\* A request that is due is spawned on schedule, and the next is due later.
LEMMA CreateKeeps ==
    ASSUME Schedule, Create, driver' = "driving", TargetAt(index) <= now,
           driver \in {"driving", "sleeping"}
    PROVE  Schedule'
<1>1. /\ index \in Nat /\ now \in Nat /\ Interval \in Nat
      /\ TargetAt(index) .. now - 1 \subseteq stalled
  BY Ticks DEF Schedule
<1>2. /\ index' = index + 1 /\ now' = now /\ stalled' = stalled
      /\ spawned' = [spawned EXCEPT ![index] = now]
  BY DEF Create
<1>3. spawned' \in [Targets -> Nat]
  BY <1>1, <1>2 DEF Schedule
<1>4. TargetAt(index') = TargetAt(index) + Interval /\ TargetAt(index) \in Nat
  BY <1>1, <1>2 DEF TargetAt
<1>5. TargetAt(index') .. now - 1 \subseteq stalled
  <2>1. TargetAt(index') .. now - 1 \subseteq TargetAt(index) .. now - 1
    BY <1>1, <1>4
  <2> QED
    BY <1>1, <2>1
<1>6. ASSUME NEW k \in Targets, k < index'
      PROVE  /\ TargetAt(k) <= spawned'[k]
             /\ TargetAt(k) .. spawned'[k] - 1 \subseteq stalled
  <2>1. k \in Nat
    BY Ticks DEF Targets
  <2>2. CASE k = index
    <3>1. spawned'[k] = now
      BY <1>2, <2>2 DEF Schedule
    <3> QED
      BY <1>1, <2>2, <3>1
  <2>3. CASE k # index
    <3>1. spawned'[k] = spawned[k] /\ k < index
      BY <1>1, <1>2, <1>6, <2>1, <2>3 DEF Schedule
    <3> QED
      BY <3>1 DEF Schedule, OnSchedule
  <2> QED
    BY <2>2, <2>3
<1>7. OnSchedule'
  BY <1>2, <1>6 DEF OnSchedule, TargetAt, Targets
<1> QED
  BY <1>1, <1>2, <1>3, <1>5, <1>7 DEF Schedule, TargetAt

LEMMA ScheduleNext == Schedule /\ [Next]_vars => Schedule'
<1> SUFFICES ASSUME Schedule, [Next]_vars PROVE Schedule'
  OBVIOUS
<1>1. CASE Tune
  <2>1. UNCHANGED <<index, now, spawned, stalled>> /\ driver = "tuning"
    BY <1>1 DEF Tune
  <2>2. index = 0 /\ now = 0
    BY <2>1 DEF Schedule
  <2>3. driver' \in {"driving", "refused"}
    BY <1>1 DEF Tune
  <2>4. 0 .. -1 = {} /\ TargetAt(0) = 0
    BY Ticks DEF TargetAt
  <2> QED
    BY <2>1, <2>2, <2>3, <2>4 DEF Schedule, OnSchedule, TargetAt, Targets
<1>2. CASE Spawn
  BY <1>2, CreateKeeps DEF Spawn, Target
<1>3. CASE Wake
  BY <1>3, CreateKeeps DEF Wake, Schedule
<1>4. CASE Sleep
  BY <1>4 DEF Sleep, Target, Schedule, OnSchedule, TargetAt, Targets
<1>5. CASE Gather \/ Report
  BY <1>5 DEF Gather, Report, Schedule, OnSchedule, TargetAt, Targets
<1>6. CASE Tick
  <2>1. /\ now' = now + 1 /\ UNCHANGED <<driver, index, wake, spawned, stalled>>
        /\ driver \in {"sleeping", "gathering"}
        /\ driver = "sleeping" => now < wake
    BY <1>6 DEF Tick, driverVars, Awaits
  <2>2. driver = "sleeping" => TargetAt(index) .. now' - 1 = {}
    BY <2>1, Ticks DEF Schedule, TargetAt
  <2> QED
    BY <2>1, <2>2 DEF Schedule, OnSchedule, TargetAt, Targets
<1>7. CASE Stall
  <2>1. /\ now' = now + StallTicks /\ UNCHANGED <<driver, index, wake, spawned>>
        /\ stalled' = stalled \cup (now .. now + StallTicks - 1)
        /\ driver # "tuning"
    BY <1>7 DEF Stall, driverVars
  <2>2. driver \in {"driving", "sleeping"} =>
           TargetAt(index) .. now' - 1 \subseteq stalled'
    <3>1. TargetAt(index) \in Nat /\ now \in Nat
      BY Ticks DEF Schedule, TargetAt
    <3>2. TargetAt(index) .. now' - 1 \subseteq
             (TargetAt(index) .. now - 1) \cup (now .. now + StallTicks - 1)
      BY <2>1, <3>1, Ticks
    <3> QED
      BY <2>1, <3>2 DEF Schedule
  <2>3. OnSchedule'
    BY <2>1 DEF Schedule, OnSchedule, TargetAt, Targets
  <2> QED
    BY <2>1, <2>2, <2>3, Ticks DEF Schedule, TargetAt
<1>8. CASE \E k \in Targets : Task(k)
  <2>1. UNCHANGED <<driver, index, wake, spawned, now, stalled>>
    BY <1>8 DEF Task, Begin, Connect, Answer, Fail, Ends, driverVars
  <2> QED
    BY <2>1 DEF Schedule, OnSchedule, TargetAt, Targets
<1>9. CASE UNCHANGED vars
  BY <1>9 DEF vars, driverVars, Schedule, OnSchedule, TargetAt, Targets
<1> QED
  BY <1>1, <1>2, <1>3, <1>4, <1>5, <1>6, <1>7, <1>8, <1>9 DEF Next, Drive

\* However often the loop is blocked, and at whatever rate: a request is
\* spawned at its time or when the loop next runs.
THEOREM ScheduleIsAbsolute == Spec => []OnSchedule
<1>1. Schedule => OnSchedule
  BY DEF Schedule
<1> QED
  BY <1>1, ScheduleInit, ScheduleNext, PTL DEF Spec

-----------------------------------------------------------------------------
(* The summary.                                                            *)

States == {"none", "new", "waiting", "sent", "answered", "failed"}
Kinds == {"answered", "failed"}

\* What has been counted is what is over; what is spawned, and with what tuning.
Summary ==
    /\ index \in Nat /\ now \in Int /\ knobs \in BOOLEAN
    /\ begun \in [Targets -> Int]
    /\ request \in [Targets -> States]
    /\ statuses \in [Kinds -> Nat]
    /\ latencies \in Seq(Int)
    /\ \A k \in Targets : request[k] = "none" <=> k >= index
    /\ index > 0 => index - 1 \in Targets
    /\ \A kind \in Kinds : statuses[kind] = Cardinality(In(kind))
    /\ Len(latencies) = statuses["answered"]
    /\ driver = "tuning" => tuned = FALSE
    /\ driver \in {"driving", "sleeping", "gathering", "reported"} => tuned = knobs
    /\ driver = "sleeping" => Due
    /\ driver \in {"gathering", "reported"} => ~Due
    /\ driver = "reported" => \A k \in Targets : k < index => Over(k)

LEMMA TargetsFinite == IsFiniteSet(Targets) /\ Targets \subseteq Nat
<1>1. Targets \subseteq 0 .. Duration /\ IsFiniteSet(0 .. Duration)
  BY Ticks, FS_Interval DEF Targets
<1>2. IsFiniteSet(Targets)
  BY <1>1, FS_Subset
<1> QED
  BY <1>1, <1>2, Ticks

LEMMA Monotone ==
    ASSUME NEW a \in Nat, NEW b \in Nat, NEW c \in Nat, a <= b
    PROVE  a * c <= b * c
<1>1. PICK d \in Nat : b = a + d
  BY b - a \in Nat
<1>2. b * c = a * c + d * c /\ d * c \in Nat /\ a * c \in Nat
  BY <1>1
<1> QED
  BY <1>2

\* A request that is due is one of the schedule's.
LEMMA DueIsTarget == ASSUME index \in Nat, Due PROVE index \in Targets
<1>1. index * Interval < Duration
  BY DEF Due, TargetAt
<1>2. index <= index * Interval
  <2>1. Interval >= 1 /\ index * 1 = index
    BY Ticks
  <2>2. PICK d \in Nat : Interval = 1 + d
    BY Ticks, Interval - 1 \in Nat
  <2>3. index * Interval = index + index * d /\ index * d \in Nat
    BY <2>2
  <2> QED
    BY <2>3
<1> QED
  BY <1>1, <1>2, Ticks DEF Targets

\* When no more is due, the schedule is what was spawned.
LEMMA ScheduleSpawned ==
    ASSUME index \in Nat, ~Due, index > 0 => index - 1 \in Targets
    PROVE  Targets = 0 .. index - 1 /\ Cardinality(Targets) = index
<1>1. ASSUME NEW k \in Targets PROVE k \in 0 .. index - 1
  <2>1. k \in Nat /\ k * Interval < Duration
    BY TargetsFinite DEF Targets
  <2>2. ~ (index <= k)
    BY <2>1, Ticks, Monotone DEF Due, TargetAt
  <2> QED
    BY <2>1, <2>2
<1>2. ASSUME NEW k \in 0 .. index - 1 PROVE k \in Targets
  <2>1. index - 1 \in Targets /\ index - 1 \in Nat /\ k \in Nat /\ k <= index - 1
    BY <1>2
  <2>2. (index - 1) * Interval < Duration /\ index - 1 <= Duration
    BY <2>1 DEF Targets
  <2>3. k * Interval <= (index - 1) * Interval
    BY <2>1, Ticks, Monotone
  <2>4. k * Interval \in Int /\ (index - 1) * Interval \in Int
    BY <2>1, Ticks
  <2> QED
    BY <2>1, <2>2, <2>3, <2>4, Ticks DEF Targets
<1>3. Targets = 0 .. index - 1
  BY <1>1, <1>2
<1> QED
  BY <1>3, FS_Interval

LEMMA SummaryInit == Init => Summary
<1> SUFFICES ASSUME Init PROVE Summary
  OBVIOUS
<1>1. \A kind \in Kinds : In(kind) = {}
  BY DEF Init, In, Kinds
<1>2. Cardinality({}) = 0
  BY FS_EmptySet
<1>3. \A k \in Targets : request[k] = "none" <=> k >= index
  BY TargetsFinite DEF Init
<1>4. request \in [Targets -> States] /\ begun \in [Targets -> Int]
  BY DEF Init, States
<1>5. statuses \in [Kinds -> Nat] /\ \A kind \in Kinds : statuses[kind] = 0
  BY DEF Init, Kinds
<1>6. latencies \in Seq(Int) /\ Len(latencies) = 0
  BY DEF Init
<1>7. \A kind \in Kinds : statuses[kind] = Cardinality(In(kind))
  BY <1>1, <1>2, <1>5
<1>8. Len(latencies) = statuses["answered"]
  BY <1>5, <1>6 DEF Kinds
<1>9. /\ driver = "tuning" /\ index = 0 /\ now = 0 /\ tuned = FALSE
      /\ knobs \in BOOLEAN
  BY DEF Init
<1> QED
  BY <1>3, <1>4, <1>5, <1>6, <1>7, <1>8, <1>9 DEF Summary

\* A spawned request is counted nowhere yet.
LEMMA CreateCounts ==
    ASSUME Summary, Create, driver \in {"driving", "sleeping"}, driver' = "driving", Due
    PROVE  Summary'
<1>1. /\ index' = index + 1 /\ index \in Nat /\ index \in Targets
      /\ request' = [request EXCEPT ![index] = "new"]
      /\ UNCHANGED <<now, begun, statuses, latencies, knobs, tuned>>
      /\ tuned = knobs
  BY DueIsTarget DEF Create, Summary, gatewayVars
<1>2. request[index] = "none" /\ request' \in [Targets -> States]
  BY <1>1, TargetsFinite DEF Summary, States
<1>3. \A k \in Targets : request'[k] = (IF k = index THEN "new" ELSE request[k])
  BY <1>1 DEF Summary
<1>4. \A kind \in Kinds : In(kind)' = In(kind)
  BY <1>2, <1>3 DEF In, Kinds, Targets
<1>5. \A k \in Targets : request'[k] = "none" <=> k >= index'
  <2>1. ASSUME NEW k \in Targets PROVE request'[k] = "none" <=> k >= index'
    <3>1. k \in Nat
      BY TargetsFinite
    <3>2. request[k] = "none" <=> k >= index
      BY DEF Summary
    <3> QED
      BY <1>1, <1>3, <3>1, <3>2
  <2> QED
    BY <2>1
<1> QED
  BY <1>1, <1>2, <1>4, <1>5 DEF Summary, Targets

\* A request that goes on, without an outcome.
LEMMA GoesCounts ==
    ASSUME Summary, NEW k \in Targets, NEW where \in {"waiting", "sent"},
           request[k] \in {"new", "waiting"},
           request' = [request EXCEPT ![k] = where],
           begun' \in [Targets -> Int], driver # "reported",
           UNCHANGED <<driver, index, now, statuses, latencies, knobs, tuned>>
    PROVE  Summary'
<1>1. request' \in [Targets -> States]
  BY DEF Summary, States
<1>2. \A j \in Targets : request'[j] = (IF j = k THEN where ELSE request[j])
  BY DEF Summary
<1>3. \A kind \in Kinds : In(kind)' = In(kind)
  BY <1>2 DEF In, Kinds, Targets
<1>4. \A j \in Targets : request'[j] = "none" <=> j >= index
  BY <1>2 DEF Summary
<1> QED
  BY <1>1, <1>3, <1>4 DEF Summary, Targets, Due, TargetAt

\* An outcome is counted once, an answer with its latency.
LEMMA EndsCounts ==
    ASSUME Summary, NEW k \in Targets, NEW kind \in Kinds, Ends(k, kind),
           request[k] \in {"waiting", "sent"}, driver # "reported",
           kind = "answered" => latencies' = Append(latencies, now - begun[k]),
           kind = "failed" => latencies' = latencies
    PROVE  Summary'
<1>1. /\ request' = [request EXCEPT ![k] = kind]
      /\ begun' = [begun EXCEPT ![k] = 0]
      /\ statuses' = [statuses EXCEPT ![kind] = @ + 1]
      /\ UNCHANGED <<driver, index, now, knobs, tuned>>
  BY DEF Ends, driverVars, gatewayVars
<1>2. request' \in [Targets -> States] /\ begun' \in [Targets -> Int]
        /\ statuses' \in [Kinds -> Nat]
  BY <1>1 DEF Summary, States, Kinds
<1>3. \A j \in Targets : request'[j] = (IF j = k THEN kind ELSE request[j])
  BY <1>1 DEF Summary
<1>4. In(kind)' = In(kind) \cup {k} /\ k \notin In(kind)
  BY <1>3 DEF In, Kinds, Targets
<1>5. IsFiniteSet(In(kind))
  BY TargetsFinite, FS_Subset DEF In
<1>6. Cardinality(In(kind)') = Cardinality(In(kind)) + 1
  BY <1>4, <1>5, FS_AddElement
<1>7. ASSUME NEW other \in Kinds PROVE statuses'[other] = Cardinality(In(other)')
  <2>1. CASE other = kind
    BY <1>1, <1>6, <2>1 DEF Summary
  <2>2. CASE other # kind
    <3>1. In(other)' = In(other)
      BY <1>3, <2>2 DEF In, Kinds, Targets
    <3> QED
      BY <1>1, <2>2, <3>1 DEF Summary
  <2> QED
    BY <2>1, <2>2
<1>8. latencies' \in Seq(Int) /\ Len(latencies') = statuses'["answered"]
  <2>1. now - begun[k] \in Int /\ latencies \in Seq(Int) /\ "answered" \in Kinds
    BY DEF Summary, Kinds
  <2>2. CASE kind = "answered"
    <3>1. latencies' = Append(latencies, now - begun[k])
      BY <2>2
    <3>2. latencies' \in Seq(Int) /\ Len(latencies') = Len(latencies) + 1
      BY <2>1, <3>1
    <3>3. statuses'["answered"] = statuses["answered"] + 1
      BY <1>1, <2>1, <2>2 DEF Summary
    <3> QED
      BY <3>2, <3>3 DEF Summary
  <2>3. CASE kind = "failed"
    BY <1>1, <2>1, <2>3 DEF Summary
  <2> QED
    BY <2>2, <2>3 DEF Kinds
<1>9. \A j \in Targets : request'[j] = "none" <=> j >= index
  BY <1>3 DEF Summary, Kinds
<1> QED
  BY <1>1, <1>2, <1>7, <1>8, <1>9 DEF Summary, Targets, Due, TargetAt

LEMMA SummaryNext == Summary /\ [Next]_vars => Summary'
<1> SUFFICES ASSUME Summary, [Next]_vars PROVE Summary'
  OBVIOUS
<1>1. CASE Tune
  <2>1. /\ driver = "tuning" /\ tuned = FALSE
        /\ driver' \in {"driving", "refused"}
        /\ UNCHANGED <<index, now, request, begun, statuses, latencies, knobs>>
    BY <1>1 DEF Tune, Summary, requestVars
  <2>2. driver' = "driving" => tuned' = knobs
    <3>1. CASE ~knobs
      BY <1>1, <2>1, <3>1 DEF Tune, Summary
    <3>2. CASE knobs /\ driver' = "driving"
      BY <1>1, <2>1, <3>2 DEF Tune, Accepts, Summary
    <3> QED
      BY <3>1, <3>2
  <2> QED
    BY <2>1, <2>2 DEF Summary, In, Over, Due, TargetAt, Targets
<1>2. CASE Spawn
  BY <1>2, CreateCounts DEF Spawn
<1>3. CASE Wake
  BY <1>3, CreateCounts DEF Wake, Summary
<1>4. CASE Sleep
  <2>1. /\ driver = "driving" /\ driver' = "sleeping" /\ Due
        /\ UNCHANGED <<index, now, request, begun, statuses, latencies, knobs, tuned>>
    BY <1>4 DEF Sleep, requestVars, gatewayVars
  <2> QED
    BY <2>1 DEF Summary, In, Due, TargetAt, Targets
<1>5. CASE Gather
  <2>1. /\ driver = "driving" /\ driver' = "gathering" /\ ~Due
        /\ UNCHANGED <<index, now, request, begun, statuses, latencies, knobs, tuned>>
    BY <1>5 DEF Gather, requestVars, gatewayVars
  <2> QED
    BY <2>1 DEF Summary, In, Due, TargetAt, Targets
<1>6. CASE Report
  <2>1. /\ driver = "gathering" /\ driver' = "reported" /\ Gathered
        /\ UNCHANGED <<index, now, request, begun, statuses, latencies, knobs, tuned>>
    BY <1>6 DEF Report, requestVars, gatewayVars
  <2> QED
    BY <2>1 DEF Summary, In, Gathered, Over, Due, TargetAt, Targets
<1>7. CASE Tick \/ Stall
  <2>1. /\ now' \in Int
        /\ UNCHANGED <<driver, index, request, begun, statuses, latencies, knobs, tuned>>
    BY <1>7, Ticks DEF Tick, Stall, Summary, driverVars, requestVars, gatewayVars
  <2> QED
    BY <2>1 DEF Summary, In, Over, Due, TargetAt, Targets
<1>8. ASSUME NEW k \in Targets, Task(k) PROVE Summary'
  <2>1. CASE Begin(k)
    <3>1. \E where \in {"waiting", "sent"} : Goes(k, where)
      BY <2>1 DEF Begin
    <3>2. /\ request[k] = "new" /\ driver # "reported"
          /\ begun' \in [Targets -> Int]
          /\ UNCHANGED <<driver, index, now, statuses, latencies, knobs, tuned>>
      BY <2>1 DEF Begin, First, In, Awaits, Summary, driverVars, gatewayVars
    <3> QED
      BY <3>1, <3>2, GoesCounts DEF Goes
  <2>2. CASE Connect(k)
    <3>1. /\ request[k] = "waiting" /\ driver # "reported" /\ Goes(k, "sent")
          /\ begun' \in [Targets -> Int]
          /\ UNCHANGED <<driver, index, now, statuses, latencies, knobs, tuned>>
      BY <2>2 DEF Connect, First, In, Awaits, Summary, driverVars, gatewayVars
    <3> QED
      BY <3>1, GoesCounts DEF Goes
  <2>3. CASE Answer(k)
    <3>1. driver # "reported"
      BY <2>3 DEF Answer, Awaits
    <3> QED
      BY <2>3, <3>1, EndsCounts DEF Answer, Kinds
  <2>4. CASE Fail(k)
    <3>1. driver # "reported" /\ request[k] \in {"waiting", "sent"}
      BY <2>4 DEF Fail, Awaits, Expired
    <3> QED
      BY <2>4, <3>1, EndsCounts DEF Fail, Kinds
  <2> QED
    BY <1>8, <2>1, <2>2, <2>3, <2>4 DEF Task
<1>9. CASE UNCHANGED vars
  BY <1>9 DEF vars, driverVars, requestVars, gatewayVars, Summary, In, Over, Due,
              TargetAt, Targets
<1> QED
  BY <1>1, <1>2, <1>3, <1>4, <1>5, <1>6, <1>7, <1>8, <1>9 DEF Next, Drive

LEMMA SummaryAlways == Spec => []Summary
BY SummaryInit, SummaryNext, PTL DEF Spec

\* A summary is of every request of the schedule, each counted once, and of a
\* gateway tuned as asked.
THEOREM SummaryIsExact == Spec => []EachCountedOnce
<1>1. Summary => EachCountedOnce
  <2> SUFFICES ASSUME Summary, driver = "reported" PROVE EachCountedOnce
    BY DEF EachCountedOnce
  <2>1. Targets = 0 .. index - 1 /\ Cardinality(Targets) = index
    BY ScheduleSpawned DEF Summary
  <2>2. \A k \in Targets : k < index
    BY <2>1, TargetsFinite DEF Summary
  <2> QED
    BY <2>1, <2>2 DEF Summary, EachCountedOnce, Kinds
<1> QED
  BY <1>1, SummaryAlways, PTL

-----------------------------------------------------------------------------
(* The percentiles.                                                        *)

\* Rounding a half to even goes one rank too far for every second whole rank.
LEMMA RankIsNear ==
    ASSUME NEW q \in Nat
    PROVE  /\ Rank(q) - Health!Ceil(q) \in {0, 1}
           /\ Rank(q) # Health!Ceil(q) <=> q % 100 = 0 /\ (q \div 100) % 2 = 1
BY DEF Rank, Health!Ceil

\* Whatever was seen, a percentile of the summary is a latency of the nearest
\* rank or of the next.
THEOREM PercentilesAreNear == Spec => []PercentileIsNear
<1>1. Summary => PercentileIsNear
  <2> SUFFICES ASSUME Summary, latencies # <<>>, NEW p \in {50, 95, 99}
               PROVE  \E i \in DOMAIN latencies :
                         /\ Percentile(p) = Ordered[i]
                         /\ i - Health!Ceil(p * Len(latencies)) \in {0, 1}
    BY DEF PercentileIsNear
  <2> DEFINE n == Len(latencies)
             ceil == Health!Ceil(p * n)
             rank == Rank(p * n)
             i == IF rank < 1 THEN 1 ELSE IF rank > n THEN n ELSE rank
  <2>1. n \in Nat /\ n # 0 /\ DOMAIN latencies = 1 .. n
    BY DEF Summary
  <2>2. ceil \in 1 .. n
    BY <2>1 DEF Health!Ceil
  <2>3. rank - ceil \in {0, 1} /\ rank \in Int
    BY <2>1, RankIsNear DEF Rank, Health!Ceil
  <2>4. i \in 1 .. n /\ i - ceil \in {0, 1}
    BY <2>1, <2>2, <2>3
  <2>5. Percentile(p) = Ordered[i]
    BY <2>1 DEF Percentile
  <2> QED
    BY <2>1, <2>4, <2>5
<1> QED
  BY <1>1, SummaryAlways, PTL

-----------------------------------------------------------------------------
(* The types.                                                              *)

\* TypeOK, with what bounds the index and keeps latencies from being negative.
Typed ==
    /\ driver \in {"tuning", "driving", "sleeping", "gathering", "reported", "refused"}
    /\ index \in Nat
    /\ index > 0 => index - 1 \in Targets
    /\ wake \in Nat /\ now \in Nat
    /\ request \in [Targets -> States]
    /\ since \in [Targets -> Nat] /\ begun \in [Targets -> Nat]
    /\ \A k \in Targets : begun[k] <= now
    /\ statuses \in [Kinds -> Nat]
    /\ latencies \in Seq(Nat)
    /\ knobs \in BOOLEAN /\ tuned \in BOOLEAN

LEMMA TypedInit == Init => Typed
<1> SUFFICES ASSUME Init PROVE Typed
  OBVIOUS
<1>1. /\ request \in [Targets -> States]
      /\ since \in [Targets -> Nat] /\ begun \in [Targets -> Nat]
      /\ \A k \in Targets : begun[k] <= now
  BY DEF Init, States
<1>2. statuses \in [Kinds -> Nat] /\ latencies \in Seq(Nat)
  BY DEF Init, Kinds
<1>3. driver = "tuning" /\ index = 0 /\ wake = 0 /\ now = 0
  BY DEF Init
<1>4. knobs \in BOOLEAN /\ tuned \in BOOLEAN
  BY DEF Init
<1>5. wake \in Nat /\ now \in Nat /\ index \in Nat /\ ~(index > 0)
  BY <1>3
<1> QED
  BY <1>1, <1>2, <1>3, <1>4, <1>5 DEF Typed

LEMMA CreateTyped ==
    ASSUME Typed, Create, Due, driver' \in {"driving", "sleeping"}
    PROVE  Typed'
<1>1. index \in Targets /\ index' = index + 1
  BY DueIsTarget DEF Create, Typed
<1>2. request' \in [Targets -> States]
  BY <1>1 DEF Create, Typed, States
<1> QED
  BY <1>1, <1>2 DEF Create, Typed, gatewayVars, Targets

LEMMA EndsTyped ==
    ASSUME Typed, NEW k \in Targets, NEW kind \in Kinds, Ends(k, kind),
           latencies' \in Seq(Nat)
    PROVE  Typed'
<1>1. request' \in [Targets -> States] /\ statuses' \in [Kinds -> Nat]
  BY DEF Ends, Typed, States, Kinds
<1>2. /\ since' \in [Targets -> Nat] /\ begun' \in [Targets -> Nat]
      /\ \A j \in Targets : begun'[j] <= now
  BY DEF Ends, Typed
<1> QED
  BY <1>1, <1>2 DEF Ends, Typed, driverVars, gatewayVars, Targets

LEMMA TypedNext == Typed /\ Summary /\ [Next]_vars => Typed'
<1> SUFFICES ASSUME Typed, Summary, [Next]_vars PROVE Typed'
  OBVIOUS
<1>1. CASE Tune
  BY <1>1 DEF Tune, requestVars, Typed, Targets
<1>2. CASE Spawn
  BY <1>2, CreateTyped DEF Spawn
<1>3. CASE Sleep
  <2>1. Target(index) \in Nat
    BY Ticks DEF Typed, Target, TargetAt
  <2> QED
    BY <1>3, <2>1 DEF Sleep, requestVars, gatewayVars, Typed, Targets
<1>4. CASE Gather \/ Report
  BY <1>4 DEF Gather, Report, requestVars, gatewayVars, Typed, Targets
<1>5. CASE Tick \/ Stall
  <2>1. /\ now' \in Nat /\ now <= now'
        /\ UNCHANGED <<driver, index, wake, request, since, begun, statuses, latencies,
                       knobs, tuned>>
    BY <1>5, Ticks DEF Tick, Stall, Typed, driverVars, requestVars, gatewayVars
  <2>2. \A k \in Targets : begun'[k] <= now'
    BY <2>1 DEF Typed
  <2> QED
    BY <2>1, <2>2 DEF Typed, Targets
<1>6. ASSUME NEW k \in Targets, Task(k) PROVE Typed'
  <2>1. CASE Begin(k) \/ Connect(k)
    <3>1. /\ \E where \in {"waiting", "sent"} : Goes(k, where)
          /\ begun' = begun \/ begun' = [begun EXCEPT ![k] = now]
          /\ UNCHANGED <<driver, index, wake, now, statuses, latencies, knobs, tuned>>
      BY <2>1 DEF Begin, Connect, driverVars, gatewayVars
    <3>2. request' \in [Targets -> States] /\ since' \in [Targets -> Nat]
      BY <3>1 DEF Goes, Typed, States
    <3>3. begun' \in [Targets -> Nat] /\ \A j \in Targets : begun'[j] <= now
      <4>1. CASE begun' = begun
        BY <4>1 DEF Typed
      <4>2. CASE begun' = [begun EXCEPT ![k] = now]
        BY <4>2 DEF Typed
      <4> QED
        BY <3>1, <4>1, <4>2
    <3> QED
      BY <3>1, <3>2, <3>3 DEF Typed, Targets
  <2>2. CASE Answer(k)
    <3>1. now - begun[k] \in Nat /\ latencies \in Seq(Nat)
      BY DEF Typed
    <3>2. latencies' = Append(latencies, now - begun[k])
      BY <2>2 DEF Answer
    <3>3. latencies' \in Seq(Nat)
      BY <3>1, <3>2
    <3>4. Ends(k, "answered") /\ "answered" \in Kinds
      BY <2>2 DEF Answer, Kinds
    <3> QED
      BY <3>3, <3>4, EndsTyped
  <2>3. CASE Fail(k)
    BY <2>3, EndsTyped DEF Fail, Kinds, Typed
  <2> QED
    BY <1>6, <2>1, <2>2, <2>3 DEF Task
<1>7. CASE Wake
  <2>1. Due
    BY <1>7 DEF Wake, Summary
  <2> QED
    BY <1>7, <2>1, CreateTyped DEF Wake
<1>8. CASE UNCHANGED vars
  BY <1>8 DEF vars, driverVars, requestVars, gatewayVars, Typed, Targets
<1> QED
  BY <1>1, <1>2, <1>3, <1>4, <1>5, <1>6, <1>7, <1>8 DEF Next, Drive

LEMMA TypedIsTypeOK == Typed => TypeOK
<1> SUFFICES ASSUME Typed PROVE TypeOK
  OBVIOUS
<1>1. index <= Cardinality(Targets)
  <2>1. CASE index = 0
    BY <2>1, TargetsFinite, FS_CardinalityType
  <2>2. CASE index > 0
    <3>1. index - 1 \in Targets /\ index \in Nat /\ index - 1 \in Nat
      BY <2>2 DEF Typed
    <3>2. ASSUME NEW k \in 0 .. index - 1 PROVE k \in Targets
      <4>1. (index - 1) * Interval < Duration /\ index - 1 <= Duration
        BY <3>1 DEF Targets
      <4>2. k * Interval <= (index - 1) * Interval
        BY <3>1, Ticks, Monotone
      <4>3. k * Interval \in Int /\ (index - 1) * Interval \in Int
        BY <3>1, Ticks
      <4> QED
        BY <3>1, <4>1, <4>2, <4>3, Ticks DEF Targets
    <3>3. Cardinality(0 .. index - 1) = index
      BY <3>1, FS_Interval
    <3>4. 0 .. index - 1 \subseteq Targets
      BY <3>2
    <3>5. Cardinality(0 .. index - 1) <= Cardinality(Targets)
      BY <3>4, TargetsFinite, FS_Subset
    <3> QED
      BY <3>3, <3>5
  <2> QED
    BY <2>1, <2>2 DEF Typed
<1>2. Cardinality(Targets) \in Nat
  BY TargetsFinite, FS_CardinalityType
<1>3. index \in 0 .. Cardinality(Targets)
  BY <1>1, <1>2 DEF Typed
<1> QED
  BY <1>3 DEF Typed, TypeOK, States, Kinds

\* No more requests are spawned than the schedule has, no latency is negative,
\* and every other variable of a run keeps its type (loadgen.py:188).
THEOREM TypeCorrect == Spec => []TypeOK
BY TypedInit, TypedNext, TypedIsTypeOK, SummaryAlways, PTL DEF Spec

-----------------------------------------------------------------------------
(* The pool.                                                               *)

\* What PoolHolds asks of a gateway and of the machine.
InTime == response + Cardinality(stalled) <= PoolSpan - Interval

\* The requests that are under way, none of which waits.
Active == {k \in Targets : request[k] \in {"new", "sent"}}

\* A request that is new became so when the schedule wanted it, and one that is
\* sent was sent then and is answered in time, but for what the loop was blocked.
Prompt(k) ==
    /\ TargetAt(k) <= now
    /\ request[k] = "new" => TargetAt(k) .. now - 1 \subseteq stalled
    /\ request[k] = "sent" =>
          /\ TargetAt(k) .. since[k] - 1 \subseteq stalled
          /\ since[k] + response .. now - 1 \subseteq stalled

\* PoolHolds, of a schedule whose requests are all prompt.
Unqueued ==
    /\ response \in Nat
    /\ IsFiniteSet(stalled)
    /\ InTime =>
          /\ In("waiting") = {}
          /\ \A k \in Active : Prompt(k)

\* A span of time that is blocked but for `free` ticks is no longer than both.
LEMMA SpanIs ==
    ASSUME NEW blocked, IsFiniteSet(blocked), NEW from \in Nat, NEW to \in Nat,
           NEW at \in Nat, NEW free \in Nat,
           from .. at - 1 \subseteq blocked, at + free .. to - 1 \subseteq blocked
    PROVE  /\ Cardinality(blocked) \in Nat
           /\ to - from <= free + Cardinality(blocked)
<1> DEFINE span == from .. to - 1
           open == at .. at + free - 1
           n == Cardinality(blocked)
<1>1. n \in Nat
  BY FS_CardinalityType
<1>2. IsFiniteSet(open) /\ Cardinality(open) = free
  <2>1. at \in Int /\ at + free - 1 \in Int
    OBVIOUS
  <2>2. Cardinality(open) = IF at > at + free - 1 THEN 0 ELSE (at + free - 1) - at + 1
    BY <2>1, FS_Interval
  <2>3. IsFiniteSet(open)
    BY <2>1, FS_Interval
  <2> HIDE DEF open
  <2> QED
    BY <2>2, <2>3
<1>3. span \subseteq blocked \cup open
  <2> SUFFICES ASSUME NEW t \in span PROVE t \in blocked \cup open
    OBVIOUS
  <2>1. t \in from .. at - 1 \/ t \in at .. at + free - 1 \/ t \in at + free .. to - 1
    OBVIOUS
  <2> QED
    BY <2>1
<1>4. /\ IsFiniteSet(span)
      /\ Cardinality(span) = IF from > to - 1 THEN 0 ELSE to - from
  <2>1. from \in Int /\ to - 1 \in Int
    OBVIOUS
  <2>2. /\ IsFiniteSet(span)
        /\ Cardinality(span) = IF from > to - 1 THEN 0 ELSE (to - 1) - from + 1
    BY <2>1, FS_Interval
  <2> HIDE DEF span
  <2> QED
    BY <2>2
<1> HIDE DEF span, open
<1>5. /\ IsFiniteSet(blocked \cup open)
      /\ Cardinality(blocked \cup open) <= n + free
  <2>1. /\ IsFiniteSet(blocked \cup open)
        /\ Cardinality(blocked \cup open) =
              n + free - Cardinality(blocked \cap open)
    BY <1>2, FS_Union
  <2>2. Cardinality(blocked \cap open) \in Nat
    BY <1>2, FS_Subset, FS_CardinalityType
  <2> HIDE DEF n
  <2> QED
    BY <1>1, <2>1, <2>2
<1>6. Cardinality(span) <= n + free
  <2>1. Cardinality(span) <= Cardinality(blocked \cup open)
    BY <1>3, <1>5, FS_Subset
  <2>2. Cardinality(span) \in Nat /\ Cardinality(blocked \cup open) \in Nat
    BY <1>4, <1>5, FS_CardinalityType
  <2> HIDE DEF n
  <2> QED
    BY <1>1, <1>5, <2>1, <2>2
<1> HIDE DEF n
<1>7. to - from <= free + n
  BY <1>1, <1>4, <1>6
<1> QED
  BY <1>1, <1>7 DEF n

\* As many requests as the schedule has in less than PoolSpan are the pool's.
LEMMA PoolIs ==
    /\ Pool \in Nat
    /\ PoolSpan \div Interval \in Nat
    /\ PoolSpan \div Interval <= Pool
    /\ PoolSpan < (PoolSpan \div Interval + 1) * Interval
<1>1. PoolSpan \in Nat /\ MinPool \in Nat /\ Interval \in Nat \ {0}
  BY LoadGenAssumption
<1>2. /\ PoolSpan \div Interval \in Nat
      /\ PoolSpan < (PoolSpan \div Interval + 1) * Interval
  BY <1>1
<1> QED
  BY <1>1, <1>2 DEF Pool

\* While every request is prompt, no more are under way than the pool holds.
LEMMA ActiveFit ==
    ASSUME Typed, Unqueued, InTime
    PROVE  IsFiniteSet(Active) /\ Cardinality(Active) <= Pool
<1> DEFINE m == PoolSpan \div Interval
           hi == now \div Interval
<1>1. /\ Interval \in Nat \ {0} /\ now \in Nat /\ PoolSpan \in Nat
      /\ m \in Nat /\ m <= Pool /\ Pool \in Nat
      /\ PoolSpan < (m + 1) * Interval
  BY PoolIs, LoadGenAssumption DEF Typed
<1>2. hi \in Nat /\ hi * Interval <= now /\ now < (hi + 1) * Interval
  BY <1>1
<1> HIDE DEF m, hi
<1>3. ASSUME NEW k \in Active
      PROVE  k \in Nat /\ k * Interval <= now
             /\ now - k * Interval <= PoolSpan - Interval
  <2>1. /\ k \in Nat /\ TargetAt(k) = k * Interval /\ k * Interval \in Nat
        /\ Prompt(k) /\ since[k] \in Nat /\ response \in Nat
        /\ request[k] \in {"new", "sent"} /\ IsFiniteSet(stalled)
    BY <1>1, <1>3, TargetsFinite DEF Active, Unqueued, Typed, TargetAt
  <2> DEFINE at == IF request[k] = "new" THEN now ELSE since[k]
  <2>2. at \in Nat /\ TargetAt(k) .. at - 1 \subseteq stalled
    BY <1>1, <2>1 DEF Prompt
  <2>3. at + response .. now - 1 \subseteq stalled
    <3>1. CASE request[k] = "new"
      <4>1. now + response .. now - 1 = {}
        BY <1>1, <2>1
      <4> QED
        BY <3>1, <4>1
    <3>2. CASE request[k] = "sent"
      BY <2>1, <3>2 DEF Prompt
    <3> QED
      BY <2>1, <3>1, <3>2
  <2> HIDE DEF at
  <2>4. /\ Cardinality(stalled) \in Nat
        /\ now - TargetAt(k) <= response + Cardinality(stalled)
    BY <1>1, <2>1, <2>2, <2>3, SpanIs
  <2> QED
    BY <1>1, <2>1, <2>4 DEF InTime, Prompt
<1>4. ASSUME NEW k \in Active PROVE k \in hi - m + 1 .. hi
  <2>1. k <= hi
    <3>1. CASE hi + 1 <= k
      <4>1. (hi + 1) * Interval <= k * Interval
        BY <1>1, <1>2, <1>3, <3>1, Monotone
      <4>2. (hi + 1) * Interval \in Nat /\ k * Interval \in Nat
        BY <1>1, <1>2, <1>3
      <4> QED
        BY <1>1, <1>2, <1>3, <4>1, <4>2
    <3> QED
      BY <1>2, <1>3, <3>1
  <2>2. hi < k + m
    <3>1. CASE k + m <= hi
      <4>1. (k + m) * Interval <= hi * Interval
        BY <1>1, <1>2, <1>3, <3>1, Monotone
      <4>2. /\ (k + m) * Interval = k * Interval + m * Interval
            /\ (m + 1) * Interval = m * Interval + Interval
            /\ k * Interval \in Nat /\ m * Interval \in Nat /\ hi * Interval \in Nat
        BY <1>1, <1>2, <1>3
      <4> DEFINE a == k * Interval
                 b == m * Interval
                 c == hi * Interval
      <4>3. /\ a \in Nat /\ b \in Nat /\ c \in Nat
            /\ a + b <= c /\ c <= now /\ PoolSpan < b + Interval
            /\ now - a <= PoolSpan - Interval
        BY <1>1, <1>2, <1>3, <4>1, <4>2
      <4> HIDE DEF a, b, c
      <4> QED
        BY <1>1, <4>3
    <3> QED
      BY <1>1, <1>2, <1>3, <3>1
  <2> QED
    BY <1>1, <1>2, <1>3, <2>1, <2>2
<1>5. /\ IsFiniteSet(hi - m + 1 .. hi)
      /\ Cardinality(hi - m + 1 .. hi) <= m
  <2>1. hi - m + 1 \in Int /\ hi \in Int
    BY <1>1, <1>2
  <2>2. /\ IsFiniteSet(hi - m + 1 .. hi)
        /\ Cardinality(hi - m + 1 .. hi) =
              IF hi - m + 1 > hi THEN 0 ELSE hi - (hi - m + 1) + 1
    BY <2>1, FS_Interval
  <2> DEFINE r == hi - m + 1 .. hi
  <2> HIDE DEF r
  <2>3. Cardinality(r) <= m
    BY <1>1, <1>2, <2>2 DEF r
  <2> QED
    BY <2>2, <2>3 DEF r
<1>6. /\ IsFiniteSet(Active)
      /\ Cardinality(Active) <= Cardinality(hi - m + 1 .. hi)
      /\ Cardinality(hi - m + 1 .. hi) \in Nat /\ Cardinality(Active) \in Nat
  <2>1. Active \subseteq hi - m + 1 .. hi
    BY <1>4
  <2> QED
    BY <1>5, <2>1, FS_Subset, FS_CardinalityType
<1> QED
  BY <1>1, <1>5, <1>6

\* A span is what it is up to a time within it, and from then on.
LEMMA SpanSplits ==
    \A a, b, c \in Nat : a .. c - 1 \subseteq (a .. b - 1) \cup (b .. c - 1)
OBVIOUS

LEMMA UnqueuedInit == Init => Unqueued
<1> SUFFICES ASSUME Init PROVE Unqueued
  OBVIOUS
<1>1. \A k \in Targets : request[k] = "none"
  BY DEF Init
<1>2. stalled = {} /\ response \in Nat
  BY LoadGenAssumption DEF Init
<1> QED
  BY <1>1, <1>2, FS_EmptySet DEF Unqueued, In, Active

\* Time that only adds to what is blocked makes no request late.
LEMMA LaterUnqueued ==
    ASSUME Typed, Unqueued, UNCHANGED <<request, since, response>>,
           now' \in Nat, now <= now', IsFiniteSet(stalled'), stalled \subseteq stalled',
           InTime' => InTime,
           \A k \in Active :
              /\ request[k] = "new" => now .. now' - 1 \subseteq stalled'
              /\ \/ now .. now' - 1 \subseteq stalled'
                 \/ now' <= since[k] + response
    PROVE  Unqueued'
<1>1. Active' = Active /\ In("waiting")' = In("waiting")
  BY DEF Active, In, Targets
<1>2. ASSUME InTime', NEW k \in Active PROVE Prompt(k)'
  <2>1. /\ Prompt(k) /\ since[k] \in Nat /\ response \in Nat /\ now \in Nat
        /\ TargetAt(k) \in Nat
    BY <1>2, TargetsFinite, Ticks DEF Unqueued, Typed, Active, TargetAt
  <2>2. \A a \in Nat : a .. now' - 1 \subseteq (a .. now - 1) \cup (now .. now' - 1)
    BY <2>1, SpanSplits
  <2>3. TargetAt(k)' = TargetAt(k) /\ TargetAt(k) <= now'
    BY <2>1 DEF Prompt, TargetAt
  <2>4. request[k] = "new" => TargetAt(k) .. now' - 1 \subseteq stalled'
    BY <1>2, <2>1, <2>2 DEF Prompt
  <2>5. ASSUME request[k] = "sent"
        PROVE  since[k] + response .. now' - 1 \subseteq stalled'
    <3>1. CASE now .. now' - 1 \subseteq stalled'
      <4>1. since[k] + response .. now - 1 \subseteq stalled /\ since[k] + response \in Nat
        BY <2>1, <2>5 DEF Prompt
      <4> QED
        BY <2>2, <3>1, <4>1
    <3>2. CASE now' <= since[k] + response
      <4>1. since[k] + response .. now' - 1 = {}
        BY <2>1, <3>2
      <4> QED
        BY <4>1
    <3> QED
      BY <1>2, <3>1, <3>2
  <2> QED
    BY <2>1, <2>3, <2>4, <2>5 DEF Prompt
<1> QED
  BY <1>1, <1>2 DEF Unqueued

\* A request that changes alone, while nothing else does, leaves the others.
LEMMA OneRequest ==
    ASSUME Typed, Unqueued, UNCHANGED <<now, response, stalled>>, NEW k \in Targets,
           request' \in [Targets -> States],
           \A j \in Targets : j # k => request'[j] = request[j] /\ since'[j] = since[j],
           InTime => request'[k] # "waiting",
           InTime /\ request'[k] \in {"new", "sent"} => Prompt(k)'
    PROVE  Unqueued'
<1>1. InTime' <=> InTime
  BY DEF InTime
<1>2. ASSUME InTime PROVE In("waiting")' = {}
  <2>1. \A j \in Targets : request'[j] # "waiting"
    BY <1>2 DEF Unqueued, In
  <2> QED
    BY <2>1 DEF In, Targets
<1>3. ASSUME InTime, NEW j \in Targets, request'[j] \in {"new", "sent"}
      PROVE  Prompt(j)'
  <2>1. CASE j = k
    BY <1>3, <2>1
  <2>2. CASE j # k
    BY <1>3, <2>2 DEF Unqueued, Active, Prompt, TargetAt
  <2> QED
    BY <2>1, <2>2
<1> QED
  BY <1>1, <1>2, <1>3 DEF Unqueued, Active, Targets

\* A request is spawned promptly (Schedule).
LEMMA CreateUnqueued ==
    ASSUME Typed, Summary, Schedule, Unqueued, Create, Due,
           driver \in {"driving", "sleeping"}, TargetAt(index) <= now
    PROVE  Unqueued'
<1>1. index \in Targets
  BY DueIsTarget DEF Typed
<1>2. /\ request' = [request EXCEPT ![index] = "new"]
      /\ UNCHANGED <<now, since, response, stalled>>
  BY DEF Create, gatewayVars
<1>3. request' \in [Targets -> States] /\ request'[index] = "new"
  BY <1>1, <1>2 DEF Typed, States
<1>4. PICK k \in Targets : k = index
  BY <1>1
<1>5. TargetAt(k) .. now - 1 \subseteq stalled /\ TargetAt(k) <= now
  BY <1>4 DEF Schedule
<1>6. Prompt(k)'
  BY <1>2, <1>3, <1>4, <1>5 DEF Prompt, TargetAt
<1> QED
  BY <1>2, <1>3, <1>4, <1>6, OneRequest DEF Typed

\* A request that begins finds a connection free, and no one waiting for it.
LEMMA BeginUnqueued ==
    ASSUME Typed, Unqueued, NEW k \in Targets, Begin(k)
    PROVE  Unqueued'
<1> DEFINE where == IF Free /\ In("waiting") = {} THEN "sent" ELSE "waiting"
<1>1. /\ k \in In("new") /\ Goes(k, where)
      /\ UNCHANGED <<now, response, stalled>>
  BY DEF Begin, First, gatewayVars
<1> HIDE DEF where
<1>2. where \in States
  BY DEF where, States
<1>3. /\ request' \in [Targets -> States] /\ request'[k] = where /\ since'[k] = now
      /\ \A j \in Targets : j # k => request'[j] = request[j] /\ since'[j] = since[j]
  BY <1>1, <1>2 DEF Goes, Typed
<1>4. ASSUME InTime PROVE where = "sent" /\ Prompt(k)
  <2>1. k \in Active /\ In("waiting") = {}
    BY <1>1, <1>4 DEF In, Active, Unqueued
  <2>2. /\ IsFiniteSet(Active) /\ Cardinality(Active) <= Pool
    BY <1>4, ActiveFit
  <2>3. In("sent") \subseteq Active \ {k}
    BY <1>1 DEF In, Active
  <2>4. /\ IsFiniteSet(Active \ {k})
        /\ Cardinality(Active \ {k}) = Cardinality(Active) - 1
    BY <2>1, <2>2, FS_RemoveElement
  <2>5. /\ Cardinality(In("sent")) <= Cardinality(Active \ {k})
        /\ Cardinality(In("sent")) \in Nat /\ Cardinality(Active) \in Nat
    BY <2>2, <2>3, <2>4, FS_Subset, FS_CardinalityType
  <2>6. Free
    BY <2>2, <2>4, <2>5, PoolIs DEF Free
  <2> QED
    BY <1>4, <2>1, <2>6 DEF where, Unqueued
<1>5. ASSUME InTime PROVE Prompt(k)'
  <2>1. /\ request[k] = "new" /\ Prompt(k) /\ where = "sent"
        /\ now \in Nat /\ response \in Nat
    BY <1>1, <1>4, <1>5 DEF In, Typed, Unqueued
  <2>2. now + response .. now - 1 = {}
    BY <2>1
  <2> QED
    BY <1>1, <1>3, <2>1, <2>2 DEF Prompt, TargetAt
<1> QED
  BY <1>1, <1>3, <1>4, <1>5, OneRequest

LEMMA UnqueuedNext ==
    Typed /\ Summary /\ Schedule /\ Unqueued /\ [Next]_vars => Unqueued'
<1> SUFFICES ASSUME Typed, Summary, Schedule, Unqueued, [Next]_vars PROVE Unqueued'
  OBVIOUS
<1>1. ASSUME UNCHANGED <<request, since, now, response, stalled>> PROVE Unqueued'
  BY <1>1 DEF Unqueued, InTime, In, Active, Prompt, TargetAt, Targets
<1>2. CASE Tune \/ Sleep \/ Gather \/ Report \/ UNCHANGED vars
  BY <1>1, <1>2 DEF Tune, Sleep, Gather, Report, vars, requestVars, gatewayVars
<1>3. CASE Spawn
  BY <1>3, CreateUnqueued DEF Spawn, Target
<1>4. CASE Wake
  BY <1>4, CreateUnqueued DEF Wake, Summary, Schedule
<1>5. CASE Tick
  <2>1. /\ now' = now + 1 /\ UNCHANGED <<request, since, response, stalled>>
        /\ \A k \in Targets : Waits(k)
    BY <1>5 DEF Tick, requestVars, gatewayVars
  <2>2. now \in Nat /\ response \in Nat
    BY DEF Typed, Unqueued
  <2>3. ASSUME NEW k \in Active
        PROVE  request[k] # "new" /\ now' <= since[k] + response
    <3>1. /\ k \in Targets /\ request[k] \in {"new", "sent"} /\ since[k] \in Nat
      BY <2>3 DEF Active, Typed
    <3>2. request[k] = "sent" /\ now - since[k] < response
      BY <2>1, <3>1 DEF Waits
    <3> QED
      BY <2>1, <2>2, <3>1, <3>2
  <2>4. InTime' => InTime
    BY <2>1 DEF InTime
  <2>5. now' \in Nat /\ now <= now' /\ IsFiniteSet(stalled')
    BY <2>1, <2>2 DEF Unqueued
  <2> QED
    BY <2>1, <2>3, <2>4, <2>5, LaterUnqueued
<1>6. CASE Stall
  <2>1. /\ now' = now + StallTicks /\ UNCHANGED <<request, since, response>>
        /\ stalled' = stalled \cup (now .. now + StallTicks - 1)
    BY <1>6 DEF Stall, requestVars, gatewayVars
  <2>2. now \in Nat /\ StallTicks \in Nat /\ response \in Nat /\ IsFiniteSet(stalled)
    BY Ticks DEF Typed, Unqueued
  <2>3. IsFiniteSet(stalled') /\ Cardinality(stalled) <= Cardinality(stalled')
        /\ Cardinality(stalled) \in Nat /\ Cardinality(stalled') \in Nat
    <3>1. IsFiniteSet(now .. now + StallTicks - 1)
      BY <2>2, FS_Interval
    <3>2. IsFiniteSet(stalled')
      BY <2>1, <2>2, <3>1, FS_Union
    <3> QED
      BY <2>1, <2>2, <3>2, FS_Subset, FS_CardinalityType
  <2>4. now .. now' - 1 \subseteq stalled' /\ now' \in Nat /\ now <= now'
    BY <2>1, <2>2
  <2>5. InTime' => InTime
    BY <2>1, <2>2, <2>3, LoadGenAssumption DEF InTime
  <2> QED
    BY <2>1, <2>3, <2>4, <2>5, LaterUnqueued
<1>7. ASSUME NEW k \in Targets, Task(k) PROVE Unqueued'
  <2>1. CASE Begin(k)
    BY <2>1, BeginUnqueued
  <2>2. CASE Connect(k)
    <3>1. ~InTime /\ UNCHANGED <<response, stalled>>
      BY <2>2 DEF Connect, First, Unqueued, gatewayVars
    <3>2. ~InTime'
      BY <3>1 DEF InTime
    <3> QED
      BY <3>1, <3>2 DEF Unqueued
  <2>3. ASSUME NEW kind \in Kinds, Ends(k, kind) PROVE Unqueued'
    <3>1. /\ UNCHANGED <<now, response, stalled>>
          /\ request' \in [Targets -> States] /\ request'[k] = kind
          /\ \A j \in Targets : j # k => request'[j] = request[j] /\ since'[j] = since[j]
      BY <2>3 DEF Ends, Typed, States, Kinds, gatewayVars
    <3> QED
      BY <2>3, <3>1, OneRequest DEF Kinds
  <2> QED
    BY <1>7, <2>1, <2>2, <2>3 DEF Task, Answer, Fail, Kinds
<1> QED
  BY <1>2, <1>3, <1>4, <1>5, <1>6, <1>7 DEF Next, Drive

\* loadgen.py:262: the pool is made for five seconds of load, and holds every
\* request of a gateway that answers in that time, less one interval and what
\* the loop was blocked, at whatever rate: none waits for a connection.
THEOREM PoolIsLargeEnough == Spec => []PoolHolds
<1>1. Unqueued => PoolHolds
  BY DEF Unqueued, InTime, PoolHolds
<1>2. Typed /\ Summary /\ Schedule /\ Unqueued /\ [Next]_vars
         => (Typed /\ Summary /\ Schedule /\ Unqueued)'
  BY TypedNext, SummaryNext, ScheduleNext, UnqueuedNext
<1> QED
  BY <1>1, <1>2, TypedInit, SummaryInit, ScheduleInit, UnqueuedInit, PTL DEF Spec
=============================================================================

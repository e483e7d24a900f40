------------------------------ MODULE LoadGen ------------------------------
(***************************************************************************)
(* scripts/loadgen.py: one run of the load generator.  The driver spawns   *)
(* requests on an absolute schedule and gathers them; driver and requests  *)
(* share an event loop, so a request moves only while the driver awaits.   *)
(* Of the gateway a run knows how long it takes at most to answer; it may  *)
(* also refuse a connection, or not answer before the client gives up.     *)
(***************************************************************************)
EXTENDS Integers, Sequences, FiniteSets

CONSTANTS
    Interval,      \* 1 / rps
    Duration,      \* --duration
    PoolSpan,      \* the seconds of load the pool is made for: 5
    MinPool,       \* and its least size: 10
    Timeout,       \* httpx.Timeout: 30 s more than --latency-ms
    Responses,     \* how long a gateway takes at most to answer
    StallTicks,    \* how long the event loop is blocked at once
    MaxStalls,     \* bounds how often it is
    None           \* no percentile

ASSUME LoadGenAssumption ==
    /\ {Interval, Duration, Timeout, StallTicks} \subseteq Nat \ {0}
    /\ {PoolSpan, MinPool, MaxStalls} \subseteq Nat
    /\ Responses \subseteq Nat
    /\ None \notin Nat

Targets == {k \in 0 .. Duration : k * Interval < Duration}

VARIABLES
    driver,      \* where _main and _drive are
    index,       \* the next request to spawn
    wake,        \* when the driver's sleep ends
    now,         \* time.perf_counter, from the start of the run
    request,     \* _one_request
    since,       \* when a request came where it is
    begun,       \* its started
    statuses,    \* Outcome.statuses: answers, and transport failures
    latencies,   \* Outcome.latencies_ms
    knobs,       \* whether the run asks to retune the mock
    tuned,       \* history: whether the gateway's mock was retuned
    response,    \* how long this gateway takes at most
    spawned,     \* history: when a request was spawned
    stalled      \* history: the ticks in which the loop was blocked

driverVars == <<driver, index, wake, spawned>>
requestVars == <<request, since, begun, statuses, latencies>>
gatewayVars == <<knobs, tuned, response>>
vars == <<driverVars, now, requestVars, gatewayVars, stalled>>

PoolOfRate == IF 1 > MinPool THEN 1 ELSE MinPool       \* mutant of Pool
\* max_connections: int(rps * 5), and no fewer than ten.
Pool == LET load == PoolSpan \div Interval
        IN  IF load > MinPool THEN load ELSE MinPool

Init ==
    /\ driver = "tuning" /\ index = 0 /\ wake = 0 /\ now = 0
    /\ request = [k \in Targets |-> "none"]
    /\ since = [k \in Targets |-> 0] /\ begun = [k \in Targets |-> 0]
    /\ statuses = [kind \in {"answered", "failed"} |-> 0]
    /\ latencies = <<>>
    /\ knobs \in BOOLEAN /\ tuned = FALSE
    /\ response \in Responses
    /\ spawned = [k \in Targets |-> 0]
    /\ stalled = {}

-----------------------------------------------------------------------------
(* The driver.                                                             *)

AcceptsAny(status) == status # "raised"                \* mutant of Accepts
\* A 404, as of a gateway without chaos, or any other status ends the run.
Accepts(status) == status = "200"

\* _apply_chaos: no call without knobs; a response may be lost.
Tune ==
    /\ driver = "tuning"
    /\ \/ ~knobs /\ driver' = "driving" /\ UNCHANGED tuned
       \/ /\ knobs
          /\ \E status \in {"200", "404", "422", "raised"} :
               /\ driver' = IF Accepts(status) THEN "driving" ELSE "refused"
               /\ tuned' \in IF status = "200" THEN {TRUE}
                             ELSE IF status = "raised" THEN BOOLEAN ELSE {FALSE}
    /\ UNCHANGED <<index, wake, spawned, now, requestVars, knobs, response, stalled>>

TargetAt(k) == k * Interval
NextInterval(k) == now + (IF k = 0 THEN 0 ELSE Interval)  \* mutant of Target
\* When the schedule wants request k, wherever the driver is.
Target(k) == TargetAt(k)

DueAtDeadline == TargetAt(index) <= Duration           \* mutant of Due
Due == TargetAt(index) < Duration

Create ==
    /\ index' = index + 1
    /\ request' = [request EXCEPT ![index] = "new"]
    /\ spawned' = [spawned EXCEPT ![index] = now]
    /\ UNCHANGED <<wake, now, since, begun, statuses, latencies, gatewayVars, stalled>>

\* A target that is past is spawned at once: nothing is awaited.
Spawn ==
    /\ driver = "driving" /\ Due /\ Target(index) <= now
    /\ Create
    /\ UNCHANGED driver

Sleep ==
    /\ driver = "driving" /\ Due /\ Target(index) > now
    /\ driver' = "sleeping"
    /\ wake' = Target(index)
    /\ UNCHANGED <<index, spawned, now, requestVars, gatewayVars, stalled>>

Wake ==
    /\ driver = "sleeping" /\ wake <= now
    /\ driver' = "driving"
    /\ Create

Gather ==
    /\ driver = "driving" /\ ~Due
    /\ driver' = "gathering"
    /\ UNCHANGED <<index, wake, spawned, now, requestVars, gatewayVars, stalled>>

Over(k) == request[k] \in {"answered", "failed"}

Unawaited == TRUE                                      \* mutant of Gathered
Gathered == \A k \in Targets : k < index => Over(k)

Report ==
    /\ driver = "gathering" /\ Gathered
    /\ driver' = "reported"
    /\ UNCHANGED <<index, wake, spawned, now, requestVars, gatewayVars, stalled>>

-----------------------------------------------------------------------------
(* The requests. Tasks start, and wait for a connection, in order.         *)
Awaits == driver \in {"sleeping", "gathering"}
In(where) == {k \in Targets : request[k] = where}
First(S, k) == k \in S /\ \A j \in S : k <= j
Free == Cardinality(In("sent")) < Pool

Goes(k, where) ==
    /\ request' = [request EXCEPT ![k] = where]
    /\ since' = [since EXCEPT ![k] = now]

Begin(k) ==
    /\ Awaits /\ First(In("new"), k)
    /\ Goes(k, IF Free /\ In("waiting") = {} THEN "sent" ELSE "waiting")
    /\ begun' = [begun EXCEPT ![k] = now]
    /\ UNCHANGED <<driverVars, now, statuses, latencies, gatewayVars, stalled>>

Connect(k) ==
    /\ Awaits /\ Free /\ First(In("waiting"), k)
    /\ Goes(k, "sent")
    /\ UNCHANGED <<driverVars, now, begun, statuses, latencies, gatewayVars, stalled>>

Ends(k, kind) ==
    /\ request' = [request EXCEPT ![k] = kind]
    /\ since' = [since EXCEPT ![k] = 0] /\ begun' = [begun EXCEPT ![k] = 0]
    /\ statuses' = [statuses EXCEPT ![kind] = @ + 1]
    /\ UNCHANGED <<driverVars, now, gatewayVars, stalled>>

\* Any status is an answer; its latency counts the wait for a connection.
Answer(k) ==
    /\ Awaits /\ request[k] = "sent"
    /\ Ends(k, "answered")
    /\ latencies' = Append(latencies, now - begun[k])

NoTimeout(k) == FALSE                                  \* mutant of Expired
\* Waiting for a connection and waiting for an answer have a timeout each.
Expired(k) == request[k] \in {"waiting", "sent"} /\ now - since[k] >= Timeout

\* An httpx.HTTPError is an outcome; it has no latency.
Fail(k) ==
    /\ Awaits
    /\ request[k] = "sent" \/ Expired(k)
    /\ Ends(k, "failed")
    /\ UNCHANGED latencies

-----------------------------------------------------------------------------
(* Time. It passes while everything waits; what is due comes first.        *)
Waits(k) ==
    CASE request[k] = "new"     -> FALSE
      [] request[k] = "waiting" -> ~Free /\ now - since[k] < Timeout
      [] request[k] = "sent"    -> /\ now - since[k] < Timeout
                                   /\ now - since[k] < response
      [] OTHER                  -> TRUE

Tick ==
    /\ Awaits
    /\ driver = "sleeping" => now < wake
    /\ \E k \in Targets : driver = "sleeping" \/ ~Over(k)
    /\ \A k \in Targets : Waits(k)
    /\ now' = now + 1
    /\ UNCHANGED <<driverVars, requestVars, gatewayVars, stalled>>

\* The loop is blocked for a while, by a slow spawn or by the machine.
Stall ==
    /\ driver \in {"driving", "sleeping", "gathering"}
    /\ Cardinality(stalled) < MaxStalls * StallTicks
    /\ now' = now + StallTicks
    /\ stalled' = stalled \cup (now .. now + StallTicks - 1)
    /\ UNCHANGED <<driverVars, requestVars, gatewayVars>>

Drive == Tune \/ Spawn \/ Sleep \/ Wake \/ Gather \/ Report
Task(k) == Begin(k) \/ Connect(k) \/ Answer(k) \/ Fail(k)

Next == Drive \/ Tick \/ Stall \/ \E k \in Targets : Task(k)

Overdue(k) == response < Timeout /\ now - since[k] >= response

\* The event loop runs what is ready, timers fire, and time passes. A gateway
\* that answers in time does; of one that does not, nothing is asked.
Fairness ==
    /\ WF_vars(Drive) /\ WF_vars(Tick)
    /\ \A k \in Targets :
         /\ WF_vars(Begin(k) \/ Connect(k))
         /\ WF_vars(Expired(k) /\ Fail(k))
         /\ WF_vars(Overdue(k) /\ Answer(k))

Spec == Init /\ [][Next]_vars /\ Fairness

-----------------------------------------------------------------------------
(* The summary.                                                            *)
RoundedDown(q) == q \div 100                           \* mutant of Rank
\* round(q / 100 + 0.5): a half goes to the even neighbour.
Rank(q) ==
    LET half == q % 100 = 0
        down == q \div 100
    IN  IF half /\ down % 2 = 0 THEN down ELSE down + 1

Health == INSTANCE Latency WITH Malformed <- None

Ordered == Health!Ascending(latencies)

\* Outcome.percentile
Percentile(p) ==
    LET n == Len(latencies)
        k == Rank(p * n)
    IN  IF n = 0 THEN None ELSE Ordered[IF k < 1 THEN 1 ELSE IF k > n THEN n ELSE k]

-----------------------------------------------------------------------------
(* Properties.                                                             *)

\* The type invariant.
TypeOK ==
    /\ driver \in {"tuning", "driving", "sleeping", "gathering", "reported", "refused"}
    /\ index \in 0 .. Cardinality(Targets)
    /\ {wake, now} \subseteq Nat
    /\ request \in [Targets -> {"none", "new", "waiting", "sent", "answered", "failed"}]
    /\ since \in [Targets -> Nat] /\ begun \in [Targets -> Nat]
    /\ statuses \in [{"answered", "failed"} -> Nat]
    /\ latencies \in Seq(Nat)
    /\ {knobs, tuned} \subseteq BOOLEAN

\* The schedule is absolute (loadgen.py:188): a request is spawned at its
\* time, or as soon as the loop that was blocked at that time runs again; no
\* delay is passed on to the requests after it.
OnSchedule ==
    \A k \in Targets : k < index =>
        /\ TargetAt(k) <= spawned[k]
        /\ TargetAt(k) .. spawned[k] - 1 \subseteq stalled

\* A summary counts every scheduled request once, an answer with its latency,
\* whatever was refused, timed out or still under way when the last was
\* spawned, and is of a gateway whose mock was retuned as asked.
EachCountedOnce ==
    driver = "reported" =>
        /\ index = Cardinality(Targets)
        /\ \A k \in Targets : Over(k)
        /\ \A kind \in {"answered", "failed"} : statuses[kind] = Cardinality(In(kind))
        /\ Len(latencies) = statuses["answered"]
        /\ tuned = knobs

\* While the gateway answers within the five seconds the pool is made for,
\* less one interval and what the loop was blocked, every request has a
\* connection at once (loadgen.py:262), and none fails for want of one.
PoolHolds ==
    response + Cardinality(stalled) <= PoolSpan - Interval => In("waiting") = {}

\* A percentile is a latency that was seen, of the nearest rank or the next.
PercentileIsNear ==
    driver = "reported" /\ latencies # <<>> =>
        \A p \in {50, 95, 99} :
            \E i \in DOMAIN latencies :
                /\ Percentile(p) = Ordered[i]
                /\ i - Health!Ceil(p * Len(latencies)) \in {0, 1}

\* The docstring (loadgen.py:82): "Nearest rank, matching
\* `keel/health/latency.py`".
PercentileMatchesHealth ==
    driver = "reported" =>
        \A p \in {50, 95, 99} : Percentile(p) = Health!Percentile(Ordered, p)

\* A run ends, also against a gateway that accepts requests and answers none.
RunEnds == <>(driver \in {"reported", "refused"})
=============================================================================

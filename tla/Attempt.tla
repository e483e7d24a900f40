------------------------------ MODULE Attempt ------------------------------
(***************************************************************************)
(* The time of requests that call Cohere: the overhead middleware          *)
(* (keel/observability/middleware.py) around the route, the executor's     *)
(* deadline (keel/routing/executor.py) around CohereAdapter.invoke         *)
(* (keel/providers/cohere.py).  The middleware reads perf_counter, the     *)
(* executor and the adapter the wall clock, which an operator or NTP may   *)
(* step; requests share one event loop, which importing litellm blocks.    *)
(***************************************************************************)
EXTENDS Integers, Sequences

CONSTANTS
    Request,       \* the requests
    Timeout,       \* the provider's timeout_ms in ticks, or None
    ErrorClass,    \* the taxonomy; "timeout" is one of it
    ImportTicks,   \* how long the first call blocks the loop
    ClockSteps,    \* how far one step sets the wall clock
    MaxTime,       \* bounds the time that passes
    None           \* no timeout, result, provider_seconds or event

ASSUME AttemptAssumption ==
    /\ {"timeout", "server_error"} \subseteq ErrorClass /\ "ok" \notin ErrorClass
    /\ Timeout \in (Nat \ {0}) \cup {None}
    /\ ImportTicks \in Nat /\ MaxTime \in Nat
    /\ ClockSteps \subseteq Int
    /\ None \notin Int
    /\ None \notin {"answered", "failed", "deadline", "cancelled"}
    /\ None \notin [class : {"ok"} \cup ErrorClass, by : {"provider", "gateway"},
                    latency : Nat]

VARIABLES
    pc,        \* the requests
    mono,      \* time.perf_counter
    ahead,     \* how far the wall clock is ahead of it
    loaded,    \* whether litellm is imported
    began,     \* the middleware's started
    asked,     \* the executor's and the adapter's started
    result,    \* ProviderResult
    seconds,   \* request.state.keel_provider_seconds
    overhead,  \* observed in keel_gateway_overhead_seconds
    recorded,  \* history: results given to HealthTracker.record
    event,     \* history: how the call ended
    called,    \* history: time spent in the call
    ours,      \* history: time spent in the gateway
    drift      \* history: how far the clock was stepped during the call

clockVars == <<mono, ahead, loaded>>
requestVars == <<began, asked, result, seconds, overhead>>
timeVars == <<called, ours>>
vars == <<pc, clockVars, requestVars, recorded, event, timeVars, drift>>

Wall == mono + ahead
NotNegative(x) == IF x < 0 THEN 0 ELSE x

Init ==
    /\ pc = [q \in Request |-> "new"]
    /\ mono = 0 /\ ahead = 0 /\ loaded = FALSE
    /\ began = [q \in Request |-> 0] /\ asked = [q \in Request |-> 0]
    /\ result = [q \in Request |-> None] /\ seconds = [q \in Request |-> None]
    /\ overhead = [q \in Request |-> <<>>]
    /\ recorded = [q \in Request |-> 0] /\ event = [q \in Request |-> None]
    /\ called = [q \in Request |-> 0] /\ ours = [q \in Request |-> 0]
    /\ drift = [q \in Request |-> 0]

\* n ticks pass with the requests at p.
Elapse(n, p) ==
    /\ mono + n <= MaxTime
    /\ mono' = mono + n
    /\ called' = [q \in Request |-> called[q] + (IF p[q] = "calling" THEN n ELSE 0)]
    /\ ours' = [q \in Request |->
         ours[q] + (IF p[q] \in {"receiving", "recording", "sending"} THEN n ELSE 0)]

Tick ==
    /\ \E q \in Request : pc[q] \notin {"new", "done"}
    /\ Elapse(1, pc)
    /\ UNCHANGED <<pc, ahead, loaded, requestVars, recorded, event, drift>>

\* The wall clock is stepped once.
StepClock ==
    /\ ahead = 0
    /\ ahead' \in ClockSteps
    /\ drift' = [q \in Request |->
                   drift[q] + (IF pc[q] = "calling" THEN ahead' - ahead ELSE 0)]
    /\ UNCHANGED <<pc, mono, loaded, requestVars, recorded, event, timeVars>>

-----------------------------------------------------------------------------
Receive(q) ==
    /\ pc[q] = "new"
    /\ pc' = [pc EXCEPT ![q] = "receiving"]
    /\ began' = [began EXCEPT ![q] = mono]
    /\ UNCHANGED <<clockVars, asked, result, seconds, overhead, recorded, event,
                   timeVars, drift>>

\* execute and the head of invoke: both clocks are read before litellm is
\* imported, and nothing else runs until it is.
Call(q) ==
    /\ pc[q] = "receiving"
    /\ pc' = [pc EXCEPT ![q] = "calling"]
    /\ asked' = [asked EXCEPT ![q] = Wall]
    /\ Elapse(IF loaded THEN 0 ELSE ImportTicks, pc')
    /\ loaded' = TRUE
    /\ UNCHANGED <<ahead, began, result, seconds, overhead, recorded, event, drift>>

ElapsedUnclamped(q) == Wall - asked[q]                 \* mutant of Elapsed
Elapsed(q) == NotNegative(Wall - asked[q])

\* The attempt has a result, and the executor records it.
Ends(q, e, class, by) ==
    /\ pc[q] = "calling"
    /\ pc' = [pc EXCEPT ![q] = "recording"]
    /\ result' = [result EXCEPT ![q] =
                    [class |-> class, by |-> by, latency |-> Elapsed(q)]]
    /\ recorded' = [recorded EXCEPT ![q] = @ + 1]
    /\ event' = [event EXCEPT ![q] = e]
    /\ UNCHANGED <<clockVars, began, asked, seconds, overhead, timeVars, drift>>

DescribesAll(e) == TRUE                                \* mutant of Described
\* `except Exception` lets CancelledError through: invoke describes no
\* attempt that was taken from it.
Described(e) == e \notin {"deadline", "cancelled"}

Answers(q) == Ends(q, "answered", "ok", "provider")

\* LiteLLM raised, or what it returned is not a completion. Its own timeout
\* is only known to be one when the configured limit was passed to it.
Fails(q) ==
    \E class \in ErrorClass :
        /\ class = "timeout" => Timeout = None \/ called[q] >= Timeout
        /\ Ends(q, "failed", class, "provider")

DeadlinePasses(q) ==
    /\ Timeout # None /\ called[q] >= Timeout
    /\ IF Described("deadline") THEN Ends(q, "deadline", "server_error", "provider")
                                ELSE Ends(q, "deadline", "timeout", "gateway")

\* record has returned: the route hands over what the provider took.
SecondsSinceCall(q) == Elapsed(q)                      \* mutant of ProviderSeconds
ProviderSeconds(q) == result[q].latency

Hand(q) ==
    /\ pc[q] = "recording"
    /\ pc' = [pc EXCEPT ![q] = "sending"]
    /\ seconds' = [seconds EXCEPT ![q] = ProviderSeconds(q)]
    /\ UNCHANGED <<clockVars, began, asked, result, overhead, recorded, event,
                   timeVars, drift>>

-----------------------------------------------------------------------------
Unclamped(q) == mono - began[q] - seconds[q]           \* mutant of Overhead
Overhead(q) == NotNegative(mono - began[q] - seconds[q])

OnReturnOnly(q, how) == how = "returned" /\ seconds[q] # None  \* mutant of Observes
\* In `finally`, so however the app ends; only what reached a provider.
Observes(q, how) == seconds[q] # None

Leave(q, how) ==
    /\ pc' = [pc EXCEPT ![q] = "done"]
    /\ overhead' = IF Observes(q, how)
                   THEN [overhead EXCEPT ![q] = Append(@, Overhead(q))]
                   ELSE overhead
    /\ UNCHANGED <<clockVars, began, asked, result, seconds, recorded, timeVars, drift>>

Sent(q) ==
    /\ pc[q] = "sending"
    /\ Leave(q, "returned")
    /\ UNCHANGED event

\* The server cancels the request, wherever it is.
Cancel(q) ==
    /\ pc[q] \notin {"new", "done"}
    /\ IF pc[q] = "calling" /\ Described("cancelled")
       THEN Ends(q, "cancelled", "server_error", "provider")
       ELSE /\ Leave(q, "raised")
            /\ event' = IF pc[q] = "calling"
                        THEN [event EXCEPT ![q] = "cancelled"] ELSE event

Next ==
    \/ Tick \/ StepClock
    \/ \E q \in Request :
         \/ Receive(q) \/ Call(q)
         \/ Answers(q) \/ Fails(q) \/ DeadlinePasses(q)
         \/ Hand(q) \/ Sent(q) \/ Cancel(q)

Spec == Init /\ [][Next]_vars

-----------------------------------------------------------------------------
(* Properties.                                                             *)
Size(x) == IF x < 0 THEN -x ELSE x

\* The type invariant. What is observed is never negative (metrics.py:401).
TypeOK ==
    /\ pc \in [Request -> {"new", "receiving", "calling", "recording", "sending", "done"}]
    /\ mono \in 0 .. MaxTime /\ ahead \in Int /\ loaded \in BOOLEAN
    /\ began \in [Request -> Nat] /\ asked \in [Request -> Int]
    /\ result \in [Request -> {None} \cup
         [class : {"ok"} \cup ErrorClass, by : {"provider", "gateway"}, latency : Nat]]
    /\ seconds \in [Request -> Nat \cup {None}]
    /\ overhead \in [Request -> Seq(Nat)]
    /\ recorded \in [Request -> Nat]
    /\ event \in [Request -> {None, "answered", "failed", "deadline", "cancelled"}]
    /\ called \in [Request -> Nat] /\ ours \in [Request -> Nat]
    /\ drift \in [Request -> Int]

\* What the S5 histogram holds of a request is the time it did not spend in
\* its provider call, off by no more than the wall clock was stepped while it
\* called, although the two durations subtracted are read from two clocks
\* (middleware.py:116). A request that is cancelled or fails on its way out is
\* measured like any other, one whose attempt gave no result is not.
OverheadIsOurs ==
    \A q \in Request : pc[q] = "done" =>
        IF seconds[q] = None THEN overhead[q] = <<>>
        ELSE /\ Len(overhead[q]) = 1
             /\ overhead[q][1] >= 0
             /\ Size(overhead[q][1] - ours[q]) <= Size(drift[q])

\* What is recorded of an attempt is what happened to it: the gateway's own
\* timeout exactly when its deadline passed, no timeout before the configured
\* limit, nothing for a call taken from the adapter by a cancellation
\* (cohere.py:218), and a latency the time the call took but for the clock's
\* step, also for the request whose call imported litellm.
OutcomeIsTrue ==
    \A q \in Request :
        /\ recorded[q] = IF event[q] \in {None, "cancelled"} THEN 0 ELSE 1
        /\ (result[q] # None) <=> recorded[q] = 1
        /\ result[q] # None =>
              /\ (result[q].by = "gateway") <=> event[q] = "deadline"
              /\ result[q].by = "gateway" => result[q].class = "timeout"
              /\ result[q].class = "timeout" => Timeout = None \/ called[q] >= Timeout
              /\ Size(result[q].latency - called[q]) <= Size(drift[q])
=============================================================================

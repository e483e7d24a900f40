---------------------------- MODULE MockAdapter ----------------------------
(***************************************************************************)
(* The in-process mock provider (keel/providers/mock.py) and the chaos     *)
(* route that retunes it while calls are under way (POST /chaos/{provider} *)
(* in keel/api/app.py, ADR 0010).                                          *)
(*                                                                         *)
(* Latency is abstracted to the order in which calls answer, which is any  *)
(* order: it is that of the draws with jitter or after a retune.  Rates    *)
(* and draws are scaled to 0 .. Scale; a draw is below Scale, as           *)
(* Random.random() is below 1.                                             *)
(***************************************************************************)
EXTENDS Integers, Sequences

CONSTANTS
    Call,       \* the calls of invoke
    Seed,       \* the seeds in use
    Scale,      \* what stands for the rate 1.0
    Rate,       \* the error rates in use
    Draw,       \* Draw[s][k]: the k-th value of Random(s)
    None,       \* a knob the chaos body does not name
    Bad,        \* a value MockChaosState refuses
    FirstSeed   \* the seed of a new MockChaosState

ASSUME MockAssumption ==
    /\ Scale \in Nat \ {0}
    /\ Rate \subseteq 0 .. Scale
    /\ 0 \in Rate
    /\ FirstSeed \in Seed
    /\ \A s \in Seed : Draw[s] \in Seq(0 .. Scale - 1)

\* A refused value, or none, is not a value.
ASSUME KnobsAssumption ==
    /\ None # Bad
    /\ {None, Bad} \cap (Rate \cup {0, 1}) = {}
    /\ None \notin Seed

VARIABLES
    rate, sigma, seed,                  \* MockChaosState
    seededFrom,                         \* the seed the streams were built from
    failureDrawn, classDrawn, latencyDrawn,  \* how far each stream has run
    pc, failed,                         \* the calls
    answers                             \* history: the answers since a seed was given

stateVars == <<rate, sigma, seed>>
streamVars == <<seededFrom, failureDrawn, classDrawn, latencyDrawn>>
callVars == <<pc, failed>>
vars == <<stateVars, streamVars, callVars, answers>>

\* ChaosRequest: every knob optional, None where it is not named.
Body == [rate : Rate \cup {None, Bad}, sigma : {0, 1, None, Bad},
         seed : Seed \cup {None}]

Init ==
    /\ rate = 0 /\ sigma = 0 /\ seed = FirstSeed
    /\ seededFrom = FirstSeed
    /\ failureDrawn = 0 /\ classDrawn = 0 /\ latencyDrawn = 0
    /\ pc = [c \in Call |-> "new"]
    /\ failed = [c \in Call |-> FALSE]
    /\ answers = <<>>

-----------------------------------------------------------------------------
(* The three streams.                                                      *)
\* _seed_streams: all three streams start again.
Fresh == [failure |-> 0, class |-> 0, latency |-> 0]
Streams == [failure |-> failureDrawn, class |-> classDrawn, latency |-> latencyDrawn]

SetStreams(s) ==
    /\ failureDrawn' = s.failure
    /\ classDrawn' = s.class
    /\ latencyDrawn' = s.latency

SharedDraw(fails) ==                                   \* mutant of AfterDraw
    [Streams EXCEPT !.failure = IF fails THEN @ + 2 ELSE @ + 1]

\* A call draws its failure, and a failing one its class from its own stream.
AfterDraw(fails) ==
    [Streams EXCEPT !.failure = @ + 1, !.class = IF fails THEN @ + 1 ELSE @]

\* invoke up to its await: _resync_streams, then _draw_latency_ms.
Invoke(c) ==
    LET stale == seed # seededFrom
        streams == IF stale THEN Fresh ELSE Streams
    IN
    /\ pc[c] = "new"
    /\ pc' = [pc EXCEPT ![c] = "sleeping"]
    /\ seededFrom' = seed
    /\ SetStreams([streams EXCEPT !.latency = IF sigma = 0 THEN @ ELSE @ + 1])
    /\ answers' = IF stale THEN <<>> ELSE answers
    /\ UNCHANGED <<stateVars, failed>>

FailsInclusive(draw) == draw <= rate                   \* mutant of Fails
Fails(draw) == draw < rate

(* invoke after its await: the rate of this moment, not of the call's      *)
(* start.  If the wall clock was set back meanwhile the result built of    *)
(* the answer is refused (Gateway, MockRaises); what is drawn is the same. *)
Answer(c) ==
    LET k == failureDrawn + 1
        fails == Fails(Draw[seededFrom][k])
    IN
    /\ pc[c] = "sleeping"
    /\ k <= Len(Draw[seededFrom])
    /\ pc' = [pc EXCEPT ![c] = "answered"]
    /\ failed' = [failed EXCEPT ![c] = fails]
    /\ SetStreams(AfterDraw(fails))
    /\ answers' = Append(answers, [rate |-> rate, failed |-> fails])
    /\ UNCHANGED <<stateVars, seededFrom>>

\* The executor's deadline cancels the sleep: nothing is drawn.
Cancel(c) ==
    /\ pc[c] = "sleeping"
    /\ pc' = [pc EXCEPT ![c] = "cancelled"]
    /\ UNCHANGED <<stateVars, streamVars, failed, answers>>

-----------------------------------------------------------------------------
Given(value, old) == IF value = None THEN old ELSE value

Reseed(s) == seededFrom' = s /\ SetStreams(Fresh)

\* Mutant of Accept: every retune restarts the streams.
AcceptAndReseed(b) ==
    /\ b.rate # Bad /\ b.sigma # Bad
    /\ rate' = Given(b.rate, rate)
    /\ sigma' = Given(b.sigma, sigma)
    /\ seed' = Given(b.seed, seed)
    /\ Reseed(seed')
    /\ answers' = IF b.seed = None THEN answers ELSE <<>>
    /\ UNCHANGED callVars

\* The knobs are assigned in turn and the seed last.
Accept(b) ==
    /\ b.rate # Bad /\ b.sigma # Bad
    /\ rate' = Given(b.rate, rate)
    /\ sigma' = Given(b.sigma, sigma)
    /\ seed' = Given(b.seed, seed)
    /\ IF b.seed = None THEN UNCHANGED streamVars ELSE Reseed(b.seed)
    /\ answers' = IF b.seed = None THEN answers ELSE <<>>
    /\ UNCHANGED callVars

\* Mutant of Refuse: the value is assigned before it is checked.
RefuseLate(b) ==
    /\ Bad \in {b.rate, b.sigma}
    /\ rate' = Given(b.rate, rate)
    /\ UNCHANGED <<sigma, seed, streamVars, callVars, answers>>

\* The first value refused ends the assignments; those before it stand.
Refuse(b) ==
    /\ Bad \in {b.rate, b.sigma}
    /\ rate' = IF b.rate = Bad THEN rate ELSE Given(b.rate, rate)
    /\ UNCHANGED <<sigma, seed, streamVars, callVars, answers>>

\* Code in the process assigns state.seed: the next call restarts the streams.
AssignSeed(s) ==
    /\ seed' = s
    /\ UNCHANGED <<rate, sigma, streamVars, callVars, answers>>

Next ==
    \/ \E c \in Call : Invoke(c) \/ Answer(c) \/ Cancel(c)
    \/ \E b \in Body : Accept(b) \/ Refuse(b)
    \/ \E s \in Seed : AssignSeed(s)

Spec == Init /\ [][Next]_vars

-----------------------------------------------------------------------------
(* Properties.                                                             *)

\* Every variable keeps its type; no refused value ever reaches the state.
TypeOK ==
    /\ rate \in Rate /\ sigma \in {0, 1} /\ seed \in Seed /\ seededFrom \in Seed
    /\ \A n \in {failureDrawn, classDrawn, latencyDrawn} : n \in Nat
    /\ pc \in [Call -> {"new", "sleeping", "answered", "cancelled"}]
    /\ failed \in [Call -> BOOLEAN]
    /\ answers \in Seq([rate : Rate, failed : BOOLEAN])

\* mock.py:121 "the pass/fail sequence [is] a function of the seed and
\* error_rate alone": the k-th answer since a seed was given fails as the k-th
\* draw of that seed says at the rate of that moment, whatever calls overlap or
\* are cancelled and however classes and latencies are drawn. A retune that
\* names no seed, accepted or refused half-way, does not rewind the sequence
\* (ADR 0010, 5), so the runs before and after it compare.
FailureSequence ==
    /\ failureDrawn = Len(answers)
    /\ \A k \in DOMAIN answers :
          answers[k].failed <=> Draw[seededFrom][k] < answers[k].rate

\* "0.0 is a valid, fully-quiet setting", and at 1.0 no call succeeds.
RateLimitsAreExact ==
    \A k \in DOMAIN answers :
        /\ answers[k].rate = 0 => ~answers[k].failed
        /\ answers[k].rate = Scale => answers[k].failed
=============================================================================

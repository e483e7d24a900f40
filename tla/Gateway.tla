------------------------------ MODULE Gateway ------------------------------
(***************************************************************************)
(* One gateway process serving POST /v1/chat/completions: the ingress      *)
(* route (keel/api/app.py), the router and the executor (keel/routing),    *)
(* the metrics catalogue with its label cap and the overhead middleware    *)
(* (keel/observability), over the health ledger that HealthWindow          *)
(* implements.  The event loop runs a request from one await to the next   *)
(* in one step; the awaits are the adapter, the ledger and the client.     *)
(***************************************************************************)
EXTENDS Integers, Sequences, FiniteSets

CONSTANTS
    Request,       \* the requests of all clients; each makes one attempt
    Provider,      \* config entry names
    Class,         \* config.request_classes
    Preference,    \* the preference list of every class
    Deadline,      \* the providers with a timeout_ms
    Mock,          \* the providers served by MockAdapter
    ErrorClass,    \* the taxonomy; "timeout" is one of it
    Tenant,        \* what clients put into X-Keel-Tenant
    LabelCap,      \* LABEL_CAP
    Other,         \* OTHER_LABEL
    MaxSends       \* as in HealthWindow

\* config.py: preference has min_length=1 and names configured providers.
ASSUME ConfigAssumption ==
    /\ \A c \in Class : /\ Preference[c] \in Seq(Provider)
                        /\ Preference[c] # <<>>
    /\ Deadline \subseteq Provider
    /\ Mock \subseteq Provider

ASSUME GatewayAssumption ==
    /\ IsFiniteSet(Request)
    /\ "timeout" \in ErrorClass
    /\ {"none", "ok"} \cap ErrorClass = {}
    /\ LabelCap \in Nat
    /\ MaxSends \in Nat \ {0}

VARIABLES
    pc, arrival, result, setBack,           \* the requests
    call, written,                          \* the health ledger
    durations, errors, requests, overhead,  \* keel_* families
    dropped,                                \* keel_health_writes_dropped_total
    admitted,                               \* _LabelCapper._seen, for tenant
    mine,                                   \* history: requests of this process
    label                                   \* history: what a tenant was counted as

requestVars == <<pc, arrival, result, setBack>>
ledgerVars == <<call, written>>
metricsVars == <<durations, errors, requests, overhead, dropped, admitted>>
historyVars == <<mine, label>>
vars == <<requestVars, ledgerVars, metricsVars, historyVars>>

Ledger == INSTANCE HealthLedger WITH Attempt <- Request, MaxWrites <- MaxSends

-----------------------------------------------------------------------------
SecondChoice(q) ==                                     \* mutant of Candidate
    LET list == Preference[arrival[q].class] IN list[Len(list)]

\* Router.candidates()[0]: no capability filter, no breaker, no failover yet.
Candidate(q) == Head(Preference[arrival[q].class])

TenantLabel == Tenant \cup {Other}
Series == TenantLabel \X Class \X Provider \X {"ok", "error"}

CapForgets(t) ==                                       \* mutant of Cap
    IF Cardinality(admitted) < LabelCap THEN t ELSE Other

\* _LabelCapper.__call__: the first LabelCap values seen keep their name.
Cap(t) ==
    IF t \in admitted \/ Cardinality(admitted) < LabelCap THEN t ELSE Other

AdmitLabel(t) == admitted' = admitted \cup {Cap(t)}    \* mutant of Admit

\* Only a value admitted under its own name is remembered.
Admit(t) ==
    admitted' = IF Cap(t) = t /\ Cardinality(admitted) < LabelCap
                THEN admitted \cup {t} ELSE admitted

Outcome(r) == IF r = "ok" THEN "ok" ELSE "error"

Zero(S) == [s \in S |-> 0]

Init ==
    /\ pc = [q \in Request |-> "new"]
    /\ arrival \in [Request -> [tenant : Tenant, class : Class, valid : BOOLEAN]]
    /\ result = [q \in Request |-> "none"]
    /\ setBack = [q \in Request |-> FALSE]
    /\ Ledger!LedgerInit
    /\ durations = Zero(Class \X Provider)
    /\ errors = Zero(Provider \X ErrorClass)
    /\ requests = Zero(Series)
    /\ overhead = Zero(Class)
    /\ dropped = Zero(Provider)
    /\ admitted = {}
    /\ mine = {}
    /\ label = [q \in Request |-> Other]

-----------------------------------------------------------------------------
(* An envelope that is incomplete, names an unknown class or asks for      *)
(* streaming is answered with a 400 and counted nowhere.                   *)
Reject(q) ==
    /\ pc[q] = "new" /\ ~arrival[q].valid
    /\ pc' = [pc EXCEPT ![q] = "rejected"]
    /\ UNCHANGED <<arrival, result, setBack, ledgerVars, metricsVars, historyVars>>

\* build_envelope, execute and the head of invoke, up to its first await.
Arrive(q) ==
    /\ pc[q] = "new" /\ arrival[q].valid
    /\ pc' = [pc EXCEPT ![q] = "calling"]
    /\ mine' = mine \cup {q}
    /\ UNCHANGED <<arrival, result, setBack, ledgerVars, metricsVars, label>>

\* The attempt has an outcome r: execute calls record, up to its await.
Attempted(q, r) ==
    /\ pc[q] = "calling"
    /\ pc' = [pc EXCEPT ![q] = "recording"]
    /\ result' = [result EXCEPT ![q] = r]
    /\ Ledger!Begin(q)
    /\ UNCHANGED <<arrival, setBack, metricsVars, historyVars>>

AdapterReturns(q) == \E r \in {"ok"} \cup ErrorClass : Attempted(q, r)

\* wait_for cancels the adapter: whatever it would have said is not heard.
DeadlinePasses(q) == Candidate(q) \in Deadline /\ Attempted(q, "timeout")

(* MockAdapter subtracts two readings of the wall clock and does not clamp *)
(* the difference: ProviderResult refuses a negative latency, and the      *)
(* exception unwinds through the executor and the route to a bare 500.     *)
MockRaises(q) ==
    /\ pc[q] = "calling"
    /\ Candidate(q) \in Mock
    /\ setBack[q]
    /\ pc' = [pc EXCEPT ![q] = "failed"]
    /\ UNCHANGED <<arrival, result, setBack, ledgerVars, metricsVars, historyVars>>

-----------------------------------------------------------------------------
(* record returns, one way or the other; from there to the response the    *)
(* route does not await: observe_attempt, request.state, observe_request.  *)
ObserveAttempt(q) ==
    /\ durations' = [durations EXCEPT ![<<arrival[q].class, Candidate(q)>>] = @ + 1]
    /\ errors' = IF result[q] = "ok" THEN errors
                 ELSE [errors EXCEPT ![<<Candidate(q), result[q]>>] = @ + 1]

ObserveRequest(q) ==
    LET a == arrival[q] IN
    /\ requests' = [requests EXCEPT
          ![<<Cap(a.tenant), a.class, Candidate(q), Outcome(result[q])>>] = @ + 1]
    /\ Admit(a.tenant)
    /\ label' = [label EXCEPT ![q] = Cap(a.tenant)]

DropUncounted(q) == Ledger!Drop(q) /\ UNCHANGED dropped    \* mutant of RecordDrops

\* Mutant of RecordDrops: the time box starts when Redis answers.
WaitsForRedis(q) ==
    /\ written[q] > 0
    /\ Ledger!Drop(q)
    /\ dropped' = [dropped EXCEPT ![Candidate(q)] = @ + 1]

\* on_write_dropped is observe_dropped_health_write.
RecordDrops(q) ==
    /\ Ledger!Drop(q)
    /\ dropped' = [dropped EXCEPT ![Candidate(q)] = @ + 1]

RecordReturns(q) == Ledger!Return(q) /\ UNCHANGED dropped

\* Mutant of Settled: the route answers without awaiting record.
SettledEarly(q) ==
    \/ RecordReturns(q) \/ RecordDrops(q)
    \/ UNCHANGED <<ledgerVars, dropped>>
Settled(q) == RecordReturns(q) \/ RecordDrops(q)

Settle(q) ==
    /\ pc[q] = "recording"
    /\ Settled(q)
    /\ ObserveAttempt(q)
    /\ ObserveRequest(q)
    /\ pc' = [pc EXCEPT ![q] = "served"]
    /\ UNCHANGED <<arrival, result, setBack, overhead, mine>>

\* The response is sent, and the middleware's finally observes the overhead.
Finish(q) ==
    /\ pc[q] = "served"
    /\ pc' = [pc EXCEPT ![q] = "finished"]
    /\ overhead' = [overhead EXCEPT ![arrival[q].class] = @ + 1]
    /\ UNCHANGED <<arrival, result, setBack, ledgerVars, durations, errors,
                   requests, dropped, admitted, historyVars>>

-----------------------------------------------------------------------------
\* Redis executes a transaction of q, awaited or not any more.
RedisWrites(q) == Ledger!Write(q) /\ UNCHANGED <<requestVars, metricsVars, historyVars>>

\* The wall clock falls behind the start of the calls that are under way.
ClockSetBack ==
    /\ setBack' = [q \in Request |-> setBack[q] \/ pc[q] = "calling"]
    /\ UNCHANGED <<pc, arrival, result, ledgerVars, metricsVars, historyVars>>

Underway == {"calling", "recording", "served"}

\* The process dies and is started again with empty counters.
Crash ==
    /\ pc' = [q \in Request |-> IF pc[q] \in Underway THEN "lost" ELSE pc[q]]
    /\ Ledger!Abandon(Request)
    /\ durations' = Zero(Class \X Provider)
    /\ errors' = Zero(Provider \X ErrorClass)
    /\ requests' = Zero(Series)
    /\ overhead' = Zero(Class)
    /\ dropped' = Zero(Provider)
    /\ admitted' = {}
    /\ mine' = {}
    /\ UNCHANGED <<arrival, result, setBack, label>>

-----------------------------------------------------------------------------
Next ==
    \/ \E q \in Request :
          \/ Reject(q) \/ Arrive(q) \/ AdapterReturns(q) \/ DeadlinePasses(q)
          \/ MockRaises(q) \/ Settle(q) \/ Finish(q) \/ RedisWrites(q)
    \/ ClockSetBack
    \/ Crash

(* The event loop keeps running what is ready.  A deadline comes, the mock *)
(* sleeps a finite time and record returns within its time box (Settle is  *)
(* enabled by RecordDrops alone); a client reads its response or goes      *)
(* away.  Nothing is assumed of a provider or of Redis.                    *)
Fairness ==
    \A q \in Request :
        /\ WF_vars(DeadlinePasses(q))
        /\ WF_vars(Candidate(q) \in Mock /\ (AdapterReturns(q) \/ MockRaises(q)))
        /\ WF_vars(Settle(q))
        /\ WF_vars(Finish(q))

Spec == Init /\ [][Next]_vars /\ Fairness

-----------------------------------------------------------------------------
\* The requests of this process whose answer was made.
Answered == {q \in mine : pc[q] \in {"served", "finished"}}

ChargedTo(p) == {q \in Answered : Candidate(q) = p}

(* Properties.                                                             *)

\* Every variable keeps its type.
TypeOK ==
    /\ pc \in [Request -> {"new", "rejected", "failed", "lost", "finished"}
                              \cup Underway]
    /\ arrival \in [Request -> [tenant : Tenant, class : Class, valid : BOOLEAN]]
    /\ result \in [Request -> {"none", "ok"} \cup ErrorClass]
    /\ setBack \in [Request -> BOOLEAN]
    /\ Ledger!LedgerTypeOK
    /\ durations \in [Class \X Provider -> Nat]
    /\ errors \in [Provider \X ErrorClass -> Nat]
    /\ requests \in [Series -> Nat]
    /\ overhead \in [Class -> Nat]
    /\ dropped \in [Provider -> Nat]
    /\ admitted \in SUBSET Tenant
    /\ mine \in SUBSET Request
    /\ label \in [Request -> TenantLabel]

\* executor.py: no client is answered before the attempt behind the answer is
\* settled in the ledger, and no attempt is settled without an answer to show
\* for it, unless the process died on the way.
AnsweredMeansSettled ==
    \A q \in Request :
        /\ pc[q] \in {"served", "finished"} => call[q] \in {"recorded", "dropped"}
        /\ call[q] \in {"recorded", "dropped"} =>
              pc[q] \in {"served", "finished", "lost"}
        /\ call[q] = "waiting" <=> pc[q] = "recording"

\* metrics.py: every family counts the answers of this process and nothing
\* else, whatever the interleaving of the requests: attempts per class and
\* provider, errors per provider and class of error, requests per series,
\* overhead per class once the response has gone.
CountersAgree ==
    /\ \A c \in Class, p \in Provider :
          durations[<<c, p>>] = Cardinality({q \in Answered :
              arrival[q].class = c /\ Head(Preference[c]) = p})
    /\ \A p \in Provider, e \in ErrorClass :
          errors[<<p, e>>] = Cardinality({q \in ChargedTo(p) : result[q] = e})
    /\ \A s \in Series :
          requests[s] = Cardinality({q \in ChargedTo(s[3]) :
              /\ label[q] = s[1] /\ arrival[q].class = s[2]
              /\ (result[q] = "ok") = (s[4] = "ok")})
    /\ \A c \in Class :
          overhead[c] = Cardinality({q \in Answered :
              pc[q] = "finished" /\ arrival[q].class = c})

\* ADR 0008: what an operator subtracts is a true lower bound.  Of the attempts
\* a provider was charged with, those not counted as dropped are in Redis.
DropsExplainLosses ==
    \A p \in Provider :
        Cardinality(ChargedTo(p)) - dropped[p]
            <= Cardinality({q \in ChargedTo(p) : written[q] > 0})

\* ADR 0009: there are never more than LABEL_CAP + 1 tenant series, and no
\* tenant's requests are split over two, however tenants interleave while the
\* cap fills.
TenantSeriesWhole ==
    /\ Cardinality({label[q] : q \in Answered}) <= LabelCap + 1
    /\ \A q, r \in Answered :
          arrival[q].tenant = arrival[r].tenant => label[q] = label[r]

\* A call that has begun is answered, or the process dies, whatever Redis does,
\* if its provider has a deadline or is the mock.
CallsAreAnswered ==
    \A q \in Request :
        pc[q] = "calling" /\ Candidate(q) \in Deadline \cup Mock
            ~> pc[q] \in {"finished", "failed", "lost"}

\* latency.py:128 "both call sites clamp for the NTP-step reason ADR 0001
\* gives", executor.py:122 "never raises for a provider failure": no valid
\* request ends in an exception.
ExecutorNeverRaises == \A q \in Request : pc[q] # "failed"
=============================================================================

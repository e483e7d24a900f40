--------------------------- MODULE GatewayProofs ---------------------------
(* The gateway for every set of requests, providers, classes and tenants.  *)
EXTENDS Gateway, FiniteSetTheorems, TLAPS

\* router.py: a valid request always has a first candidate, a configured one.
LEMMA CandidateIsProvider ==
    ASSUME TypeOK, NEW q \in Request
    PROVE  Candidate(q) \in Provider /\ arrival[q].class \in Class
  <1>1. arrival[q].class \in Class
    BY DEF TypeOK
  <1>2. /\ Preference[arrival[q].class] \in Seq(Provider)
        /\ Preference[arrival[q].class] # <<>>
    BY <1>1, ConfigAssumption
  <1> QED
    BY <1>1, <1>2 DEF Candidate

\* A label is the tenant's own name or the overflow label.
LEMMA CapIsLabel ==
    ASSUME NEW t \in Tenant PROVE Cap(t) \in TenantLabel
  BY DEF Cap, TenantLabel

-----------------------------------------------------------------------------
(* Types, one lemma for the requests and the ledger, one for the metrics.  *)
RequestTypeOK ==
    /\ pc \in [Request -> {"new", "rejected", "failed", "lost", "finished"}
                              \cup Underway]
    /\ arrival \in [Request -> [tenant : Tenant, class : Class, valid : BOOLEAN]]
    /\ result \in [Request -> {"none", "ok"} \cup ErrorClass]
    /\ setBack \in [Request -> BOOLEAN]
    /\ Ledger!LedgerTypeOK
    /\ mine \in SUBSET Request

MetricsTypeOK ==
    /\ durations \in [Class \X Provider -> Nat]
    /\ errors \in [Provider \X ErrorClass -> Nat]
    /\ requests \in [Series -> Nat]
    /\ overhead \in [Class -> Nat]
    /\ dropped \in [Provider -> Nat]
    /\ admitted \in SUBSET Tenant
    /\ label \in [Request -> TenantLabel]

LEMMA TypeParts == TypeOK <=> RequestTypeOK /\ MetricsTypeOK
  BY DEF TypeOK, RequestTypeOK, MetricsTypeOK

LEMMA RequestTypeStep == TypeOK /\ [Next]_vars => RequestTypeOK'
  <1> SUFFICES ASSUME TypeOK, [Next]_vars PROVE RequestTypeOK'
    OBVIOUS
  <1> USE GatewayAssumption
      DEF TypeOK, RequestTypeOK, Underway, Ledger!LedgerTypeOK, Ledger!Settlement
  <1>1. ASSUME NEW q \in Request, Reject(q) \/ Arrive(q) PROVE RequestTypeOK'
    BY <1>1 DEF Reject, Arrive, ledgerVars, historyVars
  <1>2. ASSUME NEW q \in Request, NEW r \in {"ok"} \cup ErrorClass, Attempted(q, r)
        PROVE  RequestTypeOK'
    BY <1>2 DEF Attempted, Ledger!Begin, historyVars
  <1>3. ASSUME NEW q \in Request, MockRaises(q) PROVE RequestTypeOK'
    BY <1>3 DEF MockRaises, ledgerVars, historyVars
  <1>4. ASSUME NEW q \in Request, Settle(q) PROVE RequestTypeOK'
    BY <1>4 DEF Settle, Settled, RecordReturns, RecordDrops,
                Ledger!Return, Ledger!Drop
  <1>5. ASSUME NEW q \in Request, Finish(q) PROVE RequestTypeOK'
    BY <1>5 DEF Finish, ledgerVars, historyVars
  <1>6. ASSUME NEW q \in Request, RedisWrites(q) PROVE RequestTypeOK'
    BY <1>6 DEF RedisWrites, Ledger!Write, requestVars, historyVars
  <1>7. CASE ClockSetBack
    BY <1>7 DEF ClockSetBack, ledgerVars, historyVars
  <1>8. CASE Crash
    BY <1>8 DEF Crash, Ledger!Abandon
  <1>9. CASE UNCHANGED vars
    BY <1>9 DEF vars, requestVars, ledgerVars, metricsVars, historyVars
  <1> QED
    BY <1>1, <1>2, <1>3, <1>4, <1>5, <1>6, <1>7, <1>8, <1>9
       DEF Next, AdapterReturns, DeadlinePasses

\* Counting one more under any key keeps a family of counters a family.
LEMMA BumpKeepsFamily ==
    ASSUME NEW S, NEW f \in [S -> Nat], NEW k
    PROVE  [f EXCEPT ![k] = @ + 1] \in [S -> Nat]
  <1>1. CASE k \in S
    BY <1>1
  <1>2. CASE k \notin S
    <2>1. [f EXCEPT ![k] = @ + 1] = f
      BY <1>2
    <2> QED
      BY <2>1
  <1> QED
    BY <1>1, <1>2

\* One served request counts itself in each family with a key of the family.
LEMMA SettleKeepsMetricsType ==
    ASSUME TypeOK, NEW q \in Request, Settle(q)
    PROVE  MetricsTypeOK'
  <1>1. Candidate(q) \in Provider /\ arrival[q].class \in Class
    BY CandidateIsProvider
  <1>2. arrival[q].tenant \in Tenant /\ Cap(arrival[q].tenant) \in TenantLabel
    BY CapIsLabel DEF TypeOK
  <1>3. durations' \in [Class \X Provider -> Nat]
    BY <1>1 DEF Settle, ObserveAttempt, TypeOK
  <1>4. errors' \in [Provider \X ErrorClass -> Nat]
    <2>1. errors \in [Provider \X ErrorClass -> Nat]
      BY DEF TypeOK
    <2> DEFINE key == <<Candidate(q), result[q]>>
    <2>2. [errors EXCEPT ![key] = @ + 1] \in [Provider \X ErrorClass -> Nat]
      <3> HIDE DEF key
      <3> QED
        BY <2>1, BumpKeepsFamily
    <2>3. errors' = errors \/ errors' = [errors EXCEPT ![key] = @ + 1]
      BY DEF Settle, ObserveAttempt
    <2> QED
      BY <2>1, <2>2, <2>3
  <1>5. requests' \in [Series -> Nat]
    <2>1. requests \in [Series -> Nat]
      BY DEF TypeOK
    <2> DEFINE key == <<Cap(arrival[q].tenant), arrival[q].class,
                        Candidate(q), Outcome(result[q])>>
    <2>2. [requests EXCEPT ![key] = @ + 1] \in [Series -> Nat]
      <3> HIDE DEF key
      <3> QED
        BY <2>1, BumpKeepsFamily
    <2>3. requests' = [requests EXCEPT ![key] = @ + 1]
      BY DEF Settle, ObserveRequest
    <2> QED
      BY <2>2, <2>3
  <1>6. overhead' \in [Class -> Nat]
    BY DEF Settle, TypeOK
  <1>7. dropped' \in [Provider -> Nat]
    BY DEF Settle, Settled, RecordReturns, RecordDrops, TypeOK
  <1>8. admitted' \in SUBSET Tenant
    BY <1>2 DEF Settle, ObserveRequest, Admit, TypeOK
  <1>9. label' \in [Request -> TenantLabel]
    BY <1>2 DEF Settle, ObserveRequest, TypeOK
  <1> QED
    BY <1>3, <1>4, <1>5, <1>6, <1>7, <1>8, <1>9 DEF MetricsTypeOK

LEMMA MetricsTypeStep == TypeOK /\ [Next]_vars => MetricsTypeOK'
  <1> SUFFICES ASSUME TypeOK, [Next]_vars PROVE MetricsTypeOK'
    OBVIOUS
  <1>1. ASSUME UNCHANGED <<metricsVars, label>> PROVE MetricsTypeOK'
    BY <1>1 DEF metricsVars, TypeOK, MetricsTypeOK
  <1>2. ASSUME NEW q \in Request, Settle(q) PROVE MetricsTypeOK'
    BY <1>2, SettleKeepsMetricsType
  <1>3. ASSUME NEW q \in Request, Finish(q) PROVE MetricsTypeOK'
    <2>1. arrival[q].class \in Class
      BY CandidateIsProvider
    <2> QED
      BY <1>3, <2>1 DEF Finish, historyVars, TypeOK, MetricsTypeOK
  <1>4. CASE Crash
    BY <1>4 DEF Crash, Zero, TypeOK, MetricsTypeOK
  <1>5. ASSUME NEW q \in Request,
               \/ Reject(q) \/ Arrive(q) \/ AdapterReturns(q)
               \/ DeadlinePasses(q) \/ MockRaises(q) \/ RedisWrites(q)
        PROVE  UNCHANGED <<metricsVars, label>>
    BY <1>5 DEF Reject, Arrive, AdapterReturns, DeadlinePasses, Attempted,
                MockRaises, RedisWrites, historyVars
  <1>6. ClockSetBack \/ UNCHANGED vars => UNCHANGED <<metricsVars, label>>
    BY DEF ClockSetBack, vars, historyVars
  <1> QED
    BY <1>1, <1>2, <1>3, <1>4, <1>5, <1>6 DEF Next

LEMMA InitTyped == Init => TypeOK
  <1> SUFFICES ASSUME Init PROVE TypeOK
    OBVIOUS
  <1>1. RequestTypeOK
    BY GatewayAssumption
       DEF Init, RequestTypeOK, Ledger!LedgerInit, Ledger!LedgerTypeOK
  <1>2. MetricsTypeOK
    BY DEF Init, Zero, TenantLabel, MetricsTypeOK
  <1> QED
    BY <1>1, <1>2, TypeParts

LEMMA TypeStep == TypeOK /\ [Next]_vars => TypeOK'
  <1> SUFFICES ASSUME TypeOK, [Next]_vars PROVE TypeOK'
    OBVIOUS
  <1>1. RequestTypeOK' /\ MetricsTypeOK'
    BY RequestTypeStep, MetricsTypeStep
  <1> QED
    BY <1>1 DEF TypeOK, RequestTypeOK, MetricsTypeOK

\* Type correctness of the gateway.
THEOREM TypeCorrect == Spec => []TypeOK
  BY InitTyped, TypeStep, PTL DEF Spec

-----------------------------------------------------------------------------
(* AnsweredMeansSettled is inductive with the types: a request and the     *)
(* ledger change together, in one step each way.                           *)
LEMMA SettlementStep ==
    TypeOK /\ AnsweredMeansSettled /\ [Next]_vars => AnsweredMeansSettled'
  <1> SUFFICES ASSUME TypeOK, AnsweredMeansSettled, [Next]_vars
               PROVE  AnsweredMeansSettled'
    OBVIOUS
  <1> USE DEF TypeOK, Underway, Ledger!LedgerTypeOK, Ledger!Settlement,
              AnsweredMeansSettled
  <1>1. ASSUME NEW q \in Request, Reject(q) \/ Arrive(q)
        PROVE  AnsweredMeansSettled'
    BY <1>1 DEF Reject, Arrive, ledgerVars, historyVars
  <1>2. ASSUME NEW q \in Request, NEW r, Attempted(q, r)
        PROVE  AnsweredMeansSettled'
    BY <1>2 DEF Attempted, Ledger!Begin, historyVars
  <1>3. ASSUME NEW q \in Request, MockRaises(q) PROVE AnsweredMeansSettled'
    BY <1>3 DEF MockRaises, ledgerVars, historyVars
  <1>4. ASSUME NEW q \in Request, Settle(q) PROVE AnsweredMeansSettled'
    BY <1>4 DEF Settle, Settled, RecordReturns, RecordDrops,
                Ledger!Return, Ledger!Drop
  <1>5. ASSUME NEW q \in Request, Finish(q) PROVE AnsweredMeansSettled'
    BY <1>5 DEF Finish, ledgerVars, historyVars
  <1>6. ASSUME NEW q \in Request, RedisWrites(q) PROVE AnsweredMeansSettled'
    BY <1>6 DEF RedisWrites, Ledger!Write, requestVars, historyVars
  <1>7. CASE ClockSetBack
    BY <1>7 DEF ClockSetBack, ledgerVars, historyVars
  <1>8. CASE Crash
    BY <1>8 DEF Crash, Ledger!Abandon
  <1>9. CASE UNCHANGED vars
    BY <1>9 DEF vars, requestVars, ledgerVars, historyVars
  <1> QED
    BY <1>1, <1>2, <1>3, <1>4, <1>5, <1>6, <1>7, <1>8, <1>9
       DEF Next, AdapterReturns, DeadlinePasses

\* executor.py: no client is answered before its attempt is settled.
THEOREM AnswersAreSettled == Spec => []AnsweredMeansSettled
  <1>1. Init => AnsweredMeansSettled
    BY DEF Init, Ledger!LedgerInit, AnsweredMeansSettled
  <1> QED
    BY <1>1, InitTyped, TypeStep, SettlementStep, PTL DEF Spec

-----------------------------------------------------------------------------
(* The label cap.  Series are created under admitted names or Other only,  *)
(* and a name is admitted only while there is room.                        *)
LabelsBounded ==
    /\ IsFiniteSet(admitted)
    /\ Cardinality(admitted) <= LabelCap
    /\ \A s \in Series : requests[s] > 0 => s[1] \in admitted \cup {Other}

LEMMA AdmitStaysBounded ==
    ASSUME LabelsBounded, NEW t, Admit(t)
    PROVE  /\ IsFiniteSet(admitted')
           /\ Cardinality(admitted') <= LabelCap
           /\ admitted \subseteq admitted'
           /\ Cap(t) \in admitted' \cup {Other}
  <1>1. CASE Cap(t) = t /\ Cardinality(admitted) < LabelCap
    <2>1. admitted' = admitted \cup {t}
      BY <1>1 DEF Admit
    <2>2. /\ IsFiniteSet(admitted')
          /\ \/ Cardinality(admitted') = Cardinality(admitted)
             \/ Cardinality(admitted') = Cardinality(admitted) + 1
      BY <2>1, FS_AddElement DEF LabelsBounded
    <2>3. Cardinality(admitted) \in Nat
      BY FS_CardinalityType DEF LabelsBounded
    <2> QED
      BY <1>1, <2>1, <2>2, <2>3, GatewayAssumption
  <1>2. CASE ~(Cap(t) = t /\ Cardinality(admitted) < LabelCap)
    <2>1. admitted' = admitted
      BY <1>2 DEF Admit
    <2>2. Cap(t) \in admitted \cup {Other}
      BY <1>2 DEF Cap
    <2> QED
      BY <2>1, <2>2 DEF LabelsBounded
  <1> QED
    BY <1>1, <1>2

LEMMA LabelsStep ==
    TypeOK /\ LabelsBounded /\ [Next]_vars => LabelsBounded'
  <1> SUFFICES ASSUME TypeOK, LabelsBounded, [Next]_vars PROVE LabelsBounded'
    OBVIOUS
  <1>1. ASSUME UNCHANGED <<requests, admitted>> PROVE LabelsBounded'
    BY <1>1 DEF LabelsBounded
  <1>2. ASSUME NEW q \in Request, Settle(q) PROVE LabelsBounded'
    <2> DEFINE t == arrival[q].tenant
               key == <<Cap(t), arrival[q].class, Candidate(q), Outcome(result[q])>>
    <2>1. Admit(t) /\ requests' = [requests EXCEPT ![key] = @ + 1]
      BY <1>2 DEF Settle, ObserveRequest
    <2>2. /\ IsFiniteSet(admitted')
          /\ Cardinality(admitted') <= LabelCap
          /\ admitted \subseteq admitted'
          /\ Cap(t) \in admitted' \cup {Other}
      BY <2>1, AdmitStaysBounded
    <2>3. ASSUME NEW s \in Series, requests'[s] > 0
          PROVE  s[1] \in admitted' \cup {Other}
      <3>1. CASE s = key
        BY <2>2, <3>1
      <3>2. CASE s # key
        <4>1. requests'[s] = requests[s]
          BY <2>1, <3>2 DEF TypeOK
        <4> QED
          BY <2>2, <2>3, <4>1 DEF LabelsBounded
      <3> QED
        BY <3>1, <3>2
    <2> QED
      BY <2>2, <2>3 DEF LabelsBounded
  <1>3. CASE Crash
    BY <1>3, FS_EmptySet, GatewayAssumption DEF Crash, Zero, LabelsBounded
  <1>4. ASSUME NEW q \in Request,
               \/ Reject(q) \/ Arrive(q) \/ AdapterReturns(q) \/ DeadlinePasses(q)
               \/ MockRaises(q) \/ Finish(q) \/ RedisWrites(q)
        PROVE  UNCHANGED <<requests, admitted>>
    BY <1>4 DEF Reject, Arrive, AdapterReturns, DeadlinePasses, Attempted,
                MockRaises, Finish, RedisWrites, metricsVars
  <1>5. ClockSetBack \/ UNCHANGED vars => UNCHANGED <<requests, admitted>>
    BY DEF ClockSetBack, vars, metricsVars
  <1> QED
    BY <1>1, <1>2, <1>3, <1>4, <1>5 DEF Next

\* ADR 0009, NFR-5: however many names clients send, at most LABEL_CAP of them
\* are kept and no series exists under any other but the overflow label.
THEOREM TenantLabelsBounded == Spec => []LabelsBounded
  <1>1. Init => LabelsBounded
    BY FS_EmptySet, GatewayAssumption DEF Init, Zero, LabelsBounded
  <1> QED
    BY <1>1, InitTyped, TypeStep, LabelsStep, PTL DEF Spec

-----------------------------------------------------------------------------
(* Who has been answered.  A request under way is one of this process, so  *)
(* Settle adds exactly one answer, and no other step of a living process   *)
(* adds or removes one.                                                    *)
MineUnderway == \A q \in Request : pc[q] \in Underway => q \in mine

LEMMA MineStep == TypeOK /\ MineUnderway /\ [Next]_vars => MineUnderway'
  <1> SUFFICES ASSUME TypeOK, MineUnderway, [Next]_vars PROVE MineUnderway'
    OBVIOUS
  <1> USE DEF TypeOK, MineUnderway, Underway
  <1>1. ASSUME NEW q \in Request, Reject(q) \/ Arrive(q) PROVE MineUnderway'
    BY <1>1 DEF Reject, Arrive, historyVars
  <1>2. ASSUME NEW q \in Request,
               \/ AdapterReturns(q) \/ DeadlinePasses(q) \/ MockRaises(q)
               \/ Settle(q) \/ Finish(q) \/ RedisWrites(q)
        PROVE  MineUnderway'
    BY <1>2 DEF AdapterReturns, DeadlinePasses, Attempted, MockRaises, Settle,
                Finish, RedisWrites, requestVars, historyVars
  <1>3. CASE Crash
    BY <1>3 DEF Crash
  <1>4. CASE ClockSetBack \/ UNCHANGED vars
    BY <1>4 DEF ClockSetBack, vars, requestVars, historyVars
  <1> QED
    BY <1>1, <1>2, <1>3, <1>4 DEF Next

\* Every step is one of four, seen from the answers and the families.
LEMMA StepsOfAnswers ==
    ASSUME TypeOK, MineUnderway, [Next]_vars
    PROVE  \/ \E q \in Request : Settle(q)
           \/ \E q \in Request : Finish(q)
           \/ Crash
           \/ /\ Answered' = Answered
              /\ UNCHANGED <<arrival, durations, errors, requests, overhead, admitted,
                             dropped, label>>
              /\ \A q \in Answered :
                    pc'[q] = pc[q] /\ result'[q] = result[q] /\ call'[q] = call[q]
  <1> USE DEF TypeOK, Answered
  <1>1. ASSUME NEW q \in Request, Reject(q) \/ Arrive(q)
        PROVE  /\ Answered' = Answered
               /\ UNCHANGED <<arrival, metricsVars, label>>
               /\ \A r \in Answered :
                    pc'[r] = pc[r] /\ result'[r] = result[r] /\ call'[r] = call[r]
    BY <1>1 DEF Reject, Arrive, historyVars, ledgerVars
  <1>2. ASSUME NEW q \in Request, NEW r, Attempted(q, r)
        PROVE  /\ Answered' = Answered
               /\ UNCHANGED <<arrival, metricsVars, label>>
               /\ \A a \in Answered :
                    pc'[a] = pc[a] /\ result'[a] = result[a] /\ call'[a] = call[a]
    BY <1>2 DEF Attempted, historyVars, Ledger!Begin, Ledger!LedgerTypeOK
  <1>3. ASSUME NEW q \in Request, MockRaises(q)
        PROVE  /\ Answered' = Answered
               /\ UNCHANGED <<arrival, metricsVars, label>>
               /\ \A r \in Answered :
                    pc'[r] = pc[r] /\ result'[r] = result[r] /\ call'[r] = call[r]
    BY <1>3 DEF MockRaises, historyVars, ledgerVars
  <1>4. ASSUME \/ \E q \in Request : RedisWrites(q)
               \/ ClockSetBack \/ UNCHANGED vars
        PROVE  /\ Answered' = Answered
               /\ UNCHANGED <<arrival, metricsVars, label>>
               /\ \A r \in Answered :
                    pc'[r] = pc[r] /\ result'[r] = result[r] /\ call'[r] = call[r]
    BY <1>4 DEF RedisWrites, Ledger!Write, ClockSetBack, vars, requestVars,
                historyVars, ledgerVars
  <1> QED
    BY <1>1, <1>2, <1>3, <1>4
       DEF Next, AdapterReturns, DeadlinePasses, metricsVars

LEMMA SettleAnswersOne ==
    ASSUME TypeOK, MineUnderway, NEW q \in Request, Settle(q)
    PROVE  /\ q \notin Answered
           /\ Answered' = Answered \cup {q}
           /\ UNCHANGED <<arrival, result, overhead>>
           /\ pc' = [pc EXCEPT ![q] = "served"]
  BY DEF TypeOK, MineUnderway, Underway, Settle, historyVars, Answered,
         ObserveRequest

LEMMA FinishAnswersNone ==
    ASSUME TypeOK, MineUnderway, NEW q \in Request, Finish(q)
    PROVE  /\ q \in Answered
           /\ Answered' = Answered
           /\ UNCHANGED <<arrival, result, durations, errors, requests, admitted,
                          dropped, label>>
           /\ pc[q] = "served"
           /\ pc' = [pc EXCEPT ![q] = "finished"]
  BY DEF TypeOK, MineUnderway, Underway, Finish, historyVars, Answered

LEMMA CrashAnswersNone ==
    ASSUME Crash PROVE Answered' = {}
  BY DEF Crash, Answered

-----------------------------------------------------------------------------
(* Whole tenants.  A tenant counted under the overflow label was not       *)
(* admitted, the cap is full since, and so it never will be.               *)
LabelsKept ==
    \A q \in Answered :
        \/ arrival[q].tenant \in admitted /\ label[q] = arrival[q].tenant
        \/ /\ arrival[q].tenant \notin admitted /\ label[q] = Other
           /\ Cardinality(admitted) >= LabelCap

LEMMA LabelsKeptStep ==
    ASSUME TypeOK, MineUnderway, LabelsBounded, LabelsKept, [Next]_vars
    PROVE  LabelsKept'
  <1>1. ASSUME NEW q \in Request, Settle(q) PROVE LabelsKept'
    <2> DEFINE t == arrival[q].tenant
    <2>1. Admit(t) /\ label' = [label EXCEPT ![q] = Cap(t)]
      BY <1>1 DEF Settle, ObserveRequest
    <2>2. Answered' = Answered \cup {q} /\ UNCHANGED arrival
      BY <1>1, SettleAnswersOne
    <2>3. Cardinality(admitted) \in Nat /\ Cardinality(admitted') \in Nat
      BY <2>1, AdmitStaysBounded, FS_CardinalityType DEF LabelsBounded
    <2>4. Cardinality(admitted) >= LabelCap => admitted' = admitted
      BY <2>1, <2>3, GatewayAssumption DEF Admit
    <2>5. admitted \subseteq admitted' /\ admitted' \subseteq admitted \cup {t}
      BY <2>1 DEF Admit
    <2>6. ASSUME NEW r \in Answered, r # q
          PROVE  \/ arrival[r].tenant \in admitted' /\ label'[r] = arrival[r].tenant
                 \/ /\ arrival[r].tenant \notin admitted' /\ label'[r] = Other
                    /\ Cardinality(admitted') >= LabelCap
      <3>1. label'[r] = label[r]
        BY <2>1, <2>6 DEF Answered, TypeOK
      <3> QED
        BY <2>4, <2>5, <2>6, <3>1 DEF LabelsKept
    <2>7. \/ t \in admitted' /\ label'[q] = t
          \/ /\ t \notin admitted' /\ label'[q] = Other
             /\ Cardinality(admitted') >= LabelCap
      <3>1. label'[q] = Cap(t)
        BY <2>1 DEF TypeOK
      <3>2. CASE t \in admitted
        BY <2>5, <3>1, <3>2 DEF Cap
      <3>3. CASE t \notin admitted /\ Cardinality(admitted) < LabelCap
        BY <2>1, <3>1, <3>3 DEF Cap, Admit
      <3>4. CASE t \notin admitted /\ ~(Cardinality(admitted) < LabelCap)
        <4>1. Cap(t) = Other
          BY <3>4 DEF Cap
        <4>2. Cardinality(admitted) >= LabelCap
          BY <2>3, <3>4, GatewayAssumption
        <4> QED
          BY <2>4, <3>1, <3>4, <4>1, <4>2
      <3> QED
        BY <3>2, <3>3, <3>4
    <2> QED
      BY <2>2, <2>6, <2>7 DEF LabelsKept
  <1>2. ASSUME NEW q \in Request, Finish(q) PROVE LabelsKept'
    <2>1. Answered' = Answered /\ UNCHANGED <<arrival, admitted, label>>
      BY <1>2, FinishAnswersNone
    <2> QED
      BY <2>1 DEF LabelsKept
  <1>3. CASE Crash
    BY <1>3, CrashAnswersNone DEF LabelsKept
  <1>4. CASE Answered' = Answered /\ UNCHANGED <<arrival, admitted, label>>
    BY <1>4 DEF LabelsKept
  <1> QED
    BY <1>1, <1>2, <1>3, <1>4, StepsOfAnswers

LEMMA KeptMeansWhole ==
    ASSUME LabelsBounded, LabelsKept PROVE TenantSeriesWhole
  <1>1. {label[q] : q \in Answered} \subseteq admitted \cup {Other}
    BY DEF LabelsKept
  <1>2. /\ IsFiniteSet(admitted \cup {Other})
        /\ Cardinality(admitted \cup {Other}) <= LabelCap + 1
    <2>1. /\ IsFiniteSet(admitted) /\ Cardinality(admitted) \in Nat
          /\ Cardinality(admitted) <= LabelCap
      BY FS_CardinalityType DEF LabelsBounded
    <2>2. /\ IsFiniteSet(admitted \cup {Other})
          /\ Cardinality(admitted \cup {Other})
               \in {Cardinality(admitted), Cardinality(admitted) + 1}
      BY <2>1, FS_AddElement
    <2>3. LabelCap \in Nat
      BY GatewayAssumption
    <2> QED
      BY <2>1, <2>2, <2>3
  <1>3. /\ Cardinality({label[q] : q \in Answered})
              <= Cardinality(admitted \cup {Other})
        /\ Cardinality({label[q] : q \in Answered}) \in Nat
        /\ Cardinality(admitted \cup {Other}) \in Nat
    BY <1>1, <1>2, FS_Subset, FS_CardinalityType
  <1>4. Cardinality({label[q] : q \in Answered}) <= LabelCap + 1
    BY <1>2, <1>3, GatewayAssumption
  <1>5. \A q, r \in Answered :
            arrival[q].tenant = arrival[r].tenant => label[q] = label[r]
    BY DEF LabelsKept
  <1> QED
    BY <1>4, <1>5 DEF TenantSeriesWhole

\* ADR 0009: no tenant's requests are ever split over two series.
THEOREM TenantsAreWhole == Spec => []TenantSeriesWhole
  <1>1. Init => LabelsBounded /\ LabelsKept /\ MineUnderway
    BY FS_EmptySet, GatewayAssumption
       DEF Init, Zero, LabelsBounded, LabelsKept, Answered, MineUnderway, Underway
  <1>2. /\ TypeOK /\ MineUnderway /\ LabelsBounded /\ LabelsKept
        /\ [Next]_vars
        => LabelsKept'
    BY LabelsKeptStep
  <1>3. LabelsBounded /\ LabelsKept => TenantSeriesWhole
    BY KeptMeansWhole
  <1> QED
    BY <1>1, <1>2, <1>3, InitTyped, TypeStep, MineStep, LabelsStep, PTL DEF Spec

-----------------------------------------------------------------------------
(* The families count the answers.  Per key: a settled request is one more *)
(* of the answers the key counts, or none of them.                         *)
LEMMA OneMore ==
    ASSUME NEW S \in SUBSET Request, NEW q \in Request, q \notin S
    PROVE  /\ Cardinality(S) \in Nat
           /\ Cardinality(S \cup {q}) = Cardinality(S) + 1
  <1>1. IsFiniteSet(S)
    BY FS_Subset, GatewayAssumption
  <1> QED
    BY <1>1, FS_AddElement, FS_CardinalityType

LEMMA DurationsStep ==
    ASSUME TypeOK, MineUnderway, CountersAgree, NEW q \in Request, Settle(q),
           NEW c \in Class, NEW p \in Provider
    PROVE  durations'[<<c, p>>] = Cardinality({r \in Answered' :
               arrival'[r].class = c /\ Head(Preference[c]) = p})
  <1> DEFINE Those == {r \in Answered : arrival[r].class = c /\ Head(Preference[c]) = p}
             ThoseNext == {r \in Answered' :
                 arrival'[r].class = c /\ Head(Preference[c]) = p}
  <1>1. /\ q \notin Answered /\ Answered' = Answered \cup {q}
        /\ UNCHANGED arrival
    BY SettleAnswersOne
  <1>2. durations' = [durations EXCEPT ![<<arrival[q].class, Candidate(q)>>] = @ + 1]
    BY DEF Settle, ObserveAttempt
  <1>3. durations[<<c, p>>] = Cardinality(Those)
    BY DEF CountersAgree
  <1>4. Candidate(q) = Head(Preference[arrival[q].class])
    BY DEF Candidate
  <1>5. CASE arrival[q].class = c /\ Head(Preference[c]) = p
    <2>1. ThoseNext = Those \cup {q}
      BY <1>1, <1>5
    <2>2. Cardinality(ThoseNext) = Cardinality(Those) + 1
      <3>1. Those \in SUBSET Request /\ q \notin Those
        BY <1>1 DEF Answered, TypeOK
      <3> HIDE DEF Those, ThoseNext
      <3> QED
        BY <2>1, <3>1, OneMore
    <2>3. durations'[<<c, p>>] = durations[<<c, p>>] + 1
      BY <1>2, <1>4, <1>5 DEF TypeOK
    <2> QED
      BY <1>3, <2>2, <2>3
  <1>6. CASE ~(arrival[q].class = c /\ Head(Preference[c]) = p)
    <2>1. ThoseNext = Those
      BY <1>1, <1>6
    <2>2. <<c, p>> # <<arrival[q].class, Candidate(q)>>
      BY <1>4, <1>6
    <2>3. durations'[<<c, p>>] = durations[<<c, p>>]
      BY <1>2, <2>2 DEF TypeOK
    <2> QED
      BY <1>3, <2>1, <2>3
  <1> QED
    BY <1>5, <1>6

LEMMA ErrorsStep ==
    ASSUME TypeOK, MineUnderway, CountersAgree, NEW q \in Request, Settle(q),
           NEW p \in Provider, NEW e \in ErrorClass
    PROVE  errors'[<<p, e>>] =
               Cardinality({r \in ChargedTo(p)' : result'[r] = e})
  <1> DEFINE Those == {r \in ChargedTo(p) : result[r] = e}
             ThoseNext == {r \in ChargedTo(p)' : result'[r] = e}
  <1>1. /\ q \notin Answered /\ Answered' = Answered \cup {q}
        /\ UNCHANGED <<arrival, result>>
    BY SettleAnswersOne
  <1>2. ChargedTo(p)' = IF Candidate(q) = p THEN ChargedTo(p) \cup {q} ELSE ChargedTo(p)
    BY <1>1 DEF ChargedTo, Candidate
  <1>3. errors' = IF result[q] = "ok" THEN errors
                  ELSE [errors EXCEPT ![<<Candidate(q), result[q]>>] = @ + 1]
    BY DEF Settle, ObserveAttempt
  <1>4. errors[<<p, e>>] = Cardinality(Those)
    BY DEF CountersAgree
  <1>5. CASE Candidate(q) = p /\ result[q] = e
    <2>1. ThoseNext = Those \cup {q}
      BY <1>1, <1>2, <1>5
    <2>2. Cardinality(ThoseNext) = Cardinality(Those) + 1
      <3>1. Those \in SUBSET Request /\ q \notin Those
        BY <1>1 DEF Answered, ChargedTo, TypeOK
      <3> HIDE DEF Those, ThoseNext
      <3> QED
        BY <2>1, <3>1, OneMore
    <2>3. e # "ok"
      BY GatewayAssumption
    <2>4. errors'[<<p, e>>] = errors[<<p, e>>] + 1
      BY <1>3, <1>5, <2>3 DEF TypeOK
    <2> QED
      BY <1>4, <2>2, <2>4
  <1>6. CASE ~(Candidate(q) = p /\ result[q] = e)
    <2>1. ThoseNext = Those
      BY <1>1, <1>2, <1>6
    <2>2. <<p, e>> # <<Candidate(q), result[q]>>
      BY <1>6
    <2>3. errors'[<<p, e>>] = errors[<<p, e>>]
      BY <1>3, <2>2 DEF TypeOK
    <2> QED
      BY <1>4, <2>1, <2>3
  <1> QED
    BY <1>5, <1>6

LEMMA RequestsStep ==
    ASSUME TypeOK, MineUnderway, CountersAgree, NEW q \in Request, Settle(q),
           NEW s \in Series
    PROVE  requests'[s] = Cardinality({r \in ChargedTo(s[3])' :
               /\ label'[r] = s[1] /\ arrival'[r].class = s[2]
               /\ (result'[r] = "ok") = (s[4] = "ok")})
  <1> DEFINE Counted(r) == /\ label[r] = s[1] /\ arrival[r].class = s[2]
                           /\ (result[r] = "ok") = (s[4] = "ok")
             CountedNext(r) == /\ label'[r] = s[1] /\ arrival'[r].class = s[2]
                               /\ (result'[r] = "ok") = (s[4] = "ok")
             Those == {r \in ChargedTo(s[3]) : Counted(r)}
             ThoseNext == {r \in ChargedTo(s[3])' : CountedNext(r)}
             key == <<Cap(arrival[q].tenant), arrival[q].class,
                      Candidate(q), Outcome(result[q])>>
  <1>1. /\ q \notin Answered /\ Answered' = Answered \cup {q}
        /\ UNCHANGED <<arrival, result>>
    BY SettleAnswersOne
  <1>2. ChargedTo(s[3])' =
            IF Candidate(q) = s[3] THEN ChargedTo(s[3]) \cup {q} ELSE ChargedTo(s[3])
    BY <1>1 DEF ChargedTo, Candidate
  <1>3. /\ requests' = [requests EXCEPT ![key] = @ + 1]
        /\ label' = [label EXCEPT ![q] = Cap(arrival[q].tenant)]
    BY DEF Settle, ObserveRequest
  <1>4. requests[s] = Cardinality(Those)
    BY DEF CountersAgree
  <1>5. /\ label'[q] = Cap(arrival[q].tenant)
        /\ \A r \in ChargedTo(s[3]) : label'[r] = label[r]
    BY <1>1, <1>3 DEF TypeOK, ChargedTo, Answered
  <1>6. s = <<s[1], s[2], s[3], s[4]>> /\ s[4] \in {"ok", "error"}
    BY DEF Series
  <1>7. CASE Candidate(q) = s[3] /\ CountedNext(q)
    <2>1. key = s
      BY <1>1, <1>5, <1>6, <1>7 DEF Outcome
    <2>2. ThoseNext = Those \cup {q}
      BY <1>1, <1>2, <1>5, <1>7
    <2>3. Cardinality(ThoseNext) = Cardinality(Those) + 1
      <3>1. Those \in SUBSET Request /\ q \notin Those
        BY <1>1 DEF Answered, ChargedTo, TypeOK
      <3> HIDE DEF Those, ThoseNext
      <3> QED
        BY <2>2, <3>1, OneMore
    <2>4. requests'[s] = requests[s] + 1
      <3> HIDE DEF key
      <3> QED
        BY <1>3, <2>1 DEF TypeOK
    <2> QED
      BY <1>4, <2>3, <2>4
  <1>8. CASE ~(Candidate(q) = s[3] /\ CountedNext(q))
    <2>1. key # s
      BY <1>1, <1>5, <1>6, <1>8 DEF Outcome
    <2>2. ThoseNext = Those
      BY <1>1, <1>2, <1>5, <1>8
    <2>3. requests'[s] = requests[s]
      <3> HIDE DEF key
      <3> QED
        BY <1>3, <2>1 DEF TypeOK
    <2> QED
      BY <1>4, <2>2, <2>3
  <1> QED
    BY <1>7, <1>8

LEMMA FinishKeepsCounters ==
    ASSUME TypeOK, MineUnderway, CountersAgree, NEW q \in Request, Finish(q)
    PROVE  CountersAgree'
  <1>1. /\ q \in Answered /\ Answered' = Answered /\ pc[q] = "served"
        /\ pc' = [pc EXCEPT ![q] = "finished"]
        /\ UNCHANGED <<arrival, result, durations, errors, requests, label>>
    BY FinishAnswersNone
  <1>2. \A p : ChargedTo(p)' = ChargedTo(p)
    BY <1>1 DEF ChargedTo, Candidate
  <1>3. ASSUME NEW c \in Class
        PROVE  overhead'[c] = Cardinality({r \in Answered' :
                   pc'[r] = "finished" /\ arrival'[r].class = c})
    <2> DEFINE Those == {r \in Answered : pc[r] = "finished" /\ arrival[r].class = c}
               ThoseNext == {r \in Answered' :
                   pc'[r] = "finished" /\ arrival'[r].class = c}
    <2>1. overhead' = [overhead EXCEPT ![arrival[q].class] = @ + 1]
      BY DEF Finish
    <2>2. overhead[c] = Cardinality(Those)
      BY DEF CountersAgree
    <2>3. Those \in SUBSET Request /\ q \notin Those
      BY <1>1 DEF Answered, TypeOK
    <2>4. CASE arrival[q].class = c
      <3>1. ThoseNext = Those \cup {q}
        BY <1>1, <2>4 DEF Answered, TypeOK
      <3>2. Cardinality(ThoseNext) = Cardinality(Those) + 1
        <4> HIDE DEF Those, ThoseNext
        <4> QED
          BY <2>3, <3>1, OneMore
      <3> QED
        BY <2>1, <2>2, <2>4, <3>2 DEF TypeOK
    <2>5. CASE arrival[q].class # c
      <3>1. ThoseNext = Those
        BY <1>1, <2>5 DEF Answered, TypeOK
      <3> QED
        BY <2>1, <2>2, <2>5, <3>1 DEF TypeOK
    <2> QED
      BY <2>4, <2>5
  <1>4. ASSUME NEW c \in Class, NEW p \in Provider
        PROVE  durations'[<<c, p>>] = Cardinality({r \in Answered' :
                   arrival'[r].class = c /\ Head(Preference[c]) = p})
    BY <1>1 DEF CountersAgree
  <1>5. ASSUME NEW p \in Provider, NEW e \in ErrorClass
        PROVE  errors'[<<p, e>>] = Cardinality({r \in ChargedTo(p)' : result'[r] = e})
    BY <1>1, <1>2 DEF CountersAgree
  <1>6. ASSUME NEW s \in Series
        PROVE  requests'[s] = Cardinality({r \in ChargedTo(s[3])' :
                   /\ label'[r] = s[1] /\ arrival'[r].class = s[2]
                   /\ (result'[r] = "ok") = (s[4] = "ok")})
    BY <1>1, <1>2 DEF CountersAgree
  <1> QED
    BY <1>3, <1>4, <1>5, <1>6 DEF CountersAgree

LEMMA SettleKeepsCounters ==
    ASSUME TypeOK, MineUnderway, CountersAgree, NEW q \in Request, Settle(q)
    PROVE  CountersAgree'
  <1>1. ASSUME NEW c \in Class
        PROVE  overhead'[c] = Cardinality({r \in Answered' :
                   pc'[r] = "finished" /\ arrival'[r].class = c})
    <2>1. /\ q \notin Answered /\ Answered' = Answered \cup {q}
          /\ UNCHANGED <<arrival, overhead>>
          /\ pc' = [pc EXCEPT ![q] = "served"]
      BY SettleAnswersOne
    <2>2. {r \in Answered' : pc'[r] = "finished" /\ arrival'[r].class = c}
              = {r \in Answered : pc[r] = "finished" /\ arrival[r].class = c}
      BY <2>1 DEF Answered, TypeOK
    <2> QED
      BY <2>1, <2>2 DEF CountersAgree
  <1> QED
    BY <1>1, DurationsStep, ErrorsStep, RequestsStep DEF CountersAgree

LEMMA CountersStep ==
    ASSUME TypeOK, MineUnderway, CountersAgree, [Next]_vars
    PROVE  CountersAgree'
  <1>1. CASE Crash
    <2>1. Answered' = {} /\ (\A p : ChargedTo(p)' = {})
      BY <1>1, CrashAnswersNone DEF ChargedTo
    <2> QED
      BY <1>1, <2>1, FS_EmptySet DEF Crash, Zero, CountersAgree
  <1>2. CASE /\ Answered' = Answered
             /\ UNCHANGED <<arrival, durations, errors, requests, overhead, label>>
             /\ \A q \in Answered : pc'[q] = pc[q] /\ result'[q] = result[q]
    <2>1. \A p : ChargedTo(p)' = ChargedTo(p)
      BY <1>2 DEF ChargedTo, Candidate
    <2>2. ASSUME NEW p \in Provider, NEW e \in ErrorClass
          PROVE  errors'[<<p, e>>] = Cardinality({q \in ChargedTo(p)' : result'[q] = e})
      <3>1. {q \in ChargedTo(p)' : result'[q] = e} = {q \in ChargedTo(p) : result[q] = e}
        BY <1>2, <2>1 DEF ChargedTo
      <3> QED
        BY <1>2, <3>1 DEF CountersAgree
    <2>3. ASSUME NEW s \in Series
          PROVE  requests'[s] = Cardinality({q \in ChargedTo(s[3])' :
                     /\ label'[q] = s[1] /\ arrival'[q].class = s[2]
                     /\ (result'[q] = "ok") = (s[4] = "ok")})
      <3>1. {q \in ChargedTo(s[3])' :
                     /\ label'[q] = s[1] /\ arrival'[q].class = s[2]
                     /\ (result'[q] = "ok") = (s[4] = "ok")}
              = {q \in ChargedTo(s[3]) :
                     /\ label[q] = s[1] /\ arrival[q].class = s[2]
                     /\ (result[q] = "ok") = (s[4] = "ok")}
        BY <1>2, <2>1 DEF ChargedTo
      <3> QED
        BY <1>2, <3>1 DEF CountersAgree
    <2>4. ASSUME NEW c \in Class
          PROVE  overhead'[c] = Cardinality({q \in Answered' :
                     pc'[q] = "finished" /\ arrival'[q].class = c})
      <3>1. {q \in Answered' : pc'[q] = "finished" /\ arrival'[q].class = c}
              = {q \in Answered : pc[q] = "finished" /\ arrival[q].class = c}
        BY <1>2
      <3> QED
        BY <1>2, <3>1 DEF CountersAgree
    <2>5. ASSUME NEW c \in Class, NEW p \in Provider
          PROVE  durations'[<<c, p>>] = Cardinality({q \in Answered' :
                     arrival'[q].class = c /\ Head(Preference[c]) = p})
      BY <1>2 DEF CountersAgree
    <2> QED
      BY <2>2, <2>3, <2>4, <2>5 DEF CountersAgree
  <1> QED
    BY <1>1, <1>2, StepsOfAnswers, FinishKeepsCounters, SettleKeepsCounters

\* metrics.py: however requests overlap, every family counts exactly the
\* answers of the process.
THEOREM CountersAreExact == Spec => []CountersAgree
  <1>1. Init => MineUnderway
    BY DEF Init, MineUnderway, Underway
  <1>2. Init => CountersAgree
    <2> SUFFICES ASSUME Init PROVE CountersAgree
      OBVIOUS
    <2>1. Answered = {} /\ (\A p : ChargedTo(p) = {})
      BY DEF Init, Answered, ChargedTo
    <2> QED
      BY <2>1, FS_EmptySet DEF Init, Zero, CountersAgree
  <1>3. TypeOK /\ MineUnderway /\ CountersAgree /\ [Next]_vars => CountersAgree'
    BY CountersStep
  <1> QED
    BY <1>1, <1>2, <1>3, InitTyped, TypeStep, MineStep, PTL DEF Spec

-----------------------------------------------------------------------------
(* Losses.  A dropped write is counted once, when its request is answered, *)
(* and one that returned is in Redis: what was charged to a provider is    *)
(* the one or the other.                                                   *)
DropsCounted ==
    \A p \in Provider :
        dropped[p] = Cardinality({q \in ChargedTo(p) : call[q] = "dropped"})

RecordedIsWritten == \A q \in Request : call[q] = "recorded" => written[q] > 0

LEMMA RecordedStep ==
    TypeOK /\ RecordedIsWritten /\ [Next]_vars => RecordedIsWritten'
  <1> SUFFICES ASSUME TypeOK, RecordedIsWritten, [Next]_vars
               PROVE  RecordedIsWritten'
    OBVIOUS
  <1> USE DEF TypeOK, Ledger!LedgerTypeOK, RecordedIsWritten
  <1>1. ASSUME NEW q \in Request, NEW r, Attempted(q, r) PROVE RecordedIsWritten'
    BY <1>1 DEF Attempted, Ledger!Begin
  <1>2. ASSUME NEW q \in Request, Settle(q) PROVE RecordedIsWritten'
    BY <1>2 DEF Settle, Settled, RecordReturns, RecordDrops,
                Ledger!Return, Ledger!Drop
  <1>3. ASSUME NEW q \in Request, RedisWrites(q) PROVE RecordedIsWritten'
    BY <1>3, GatewayAssumption DEF RedisWrites, Ledger!Write
  <1>4. CASE Crash
    BY <1>4 DEF Crash, Ledger!Abandon
  <1>5. ASSUME NEW q \in Request, Reject(q) \/ Arrive(q) \/ MockRaises(q) \/ Finish(q)
        PROVE  UNCHANGED ledgerVars
    BY <1>5 DEF Reject, Arrive, MockRaises, Finish
  <1>6. CASE UNCHANGED ledgerVars
    BY <1>6 DEF ledgerVars
  <1>7. ClockSetBack \/ UNCHANGED vars => UNCHANGED ledgerVars
    BY DEF ClockSetBack, vars
  <1> QED
    BY <1>1, <1>2, <1>3, <1>4, <1>5, <1>6, <1>7
       DEF Next, AdapterReturns, DeadlinePasses

LEMMA SettleKeepsDrops ==
    ASSUME TypeOK, MineUnderway, DropsCounted, NEW q \in Request, Settle(q),
           NEW p \in Provider
    PROVE  dropped'[p] = Cardinality({r \in ChargedTo(p)' : call'[r] = "dropped"})
  <1> DEFINE Those == {r \in ChargedTo(p) : call[r] = "dropped"}
             ThoseNext == {r \in ChargedTo(p)' : call'[r] = "dropped"}
  <1>1. /\ q \notin Answered /\ Answered' = Answered \cup {q}
        /\ UNCHANGED arrival
    BY SettleAnswersOne
  <1>2. ChargedTo(p)' = IF Candidate(q) = p THEN ChargedTo(p) \cup {q} ELSE ChargedTo(p)
    BY <1>1 DEF ChargedTo, Candidate
  <1>3. Those \in SUBSET Request /\ q \notin Those /\ q \notin ChargedTo(p)
    BY <1>1 DEF ChargedTo, Answered, TypeOK
  <1>4. dropped[p] = Cardinality(Those)
    BY DEF DropsCounted
  <1>5. CASE RecordReturns(q)
    <2>1. call' = [call EXCEPT ![q] = "recorded"] /\ dropped' = dropped
      BY <1>5 DEF RecordReturns, Ledger!Return
    <2>2. ThoseNext = Those
      BY <1>2, <1>3, <2>1 DEF TypeOK, Ledger!LedgerTypeOK, ChargedTo, Answered
    <2> QED
      BY <1>4, <2>1, <2>2
  <1>6. CASE RecordDrops(q)
    <2>1. /\ call' = [call EXCEPT ![q] = "dropped"]
          /\ dropped' = [dropped EXCEPT ![Candidate(q)] = @ + 1]
      BY <1>6 DEF RecordDrops, Ledger!Drop
    <2>2. CASE Candidate(q) = p
      <3>1. ThoseNext = Those \cup {q}
        BY <1>2, <1>3, <2>1, <2>2 DEF TypeOK, Ledger!LedgerTypeOK, ChargedTo, Answered
      <3>2. Cardinality(ThoseNext) = Cardinality(Those) + 1
        <4> HIDE DEF Those, ThoseNext
        <4> QED
          BY <1>3, <3>1, OneMore
      <3> QED
        BY <1>4, <2>1, <2>2, <3>2 DEF TypeOK
    <2>3. CASE Candidate(q) # p
      <3>1. ThoseNext = Those
        BY <1>2, <1>3, <2>1, <2>3 DEF TypeOK, Ledger!LedgerTypeOK, ChargedTo, Answered
      <3> QED
        BY <1>4, <2>1, <2>3, <3>1 DEF TypeOK
    <2> QED
      BY <2>2, <2>3
  <1> QED
    BY <1>5, <1>6 DEF Settle, Settled

LEMMA DropsStep ==
    ASSUME TypeOK, MineUnderway, DropsCounted, [Next]_vars
    PROVE  DropsCounted'
  <1>1. CASE Crash
    <2>1. \A p : ChargedTo(p)' = {}
      BY <1>1, CrashAnswersNone DEF ChargedTo
    <2> QED
      BY <1>1, <2>1, FS_EmptySet DEF Crash, Zero, DropsCounted
  <1>2. CASE /\ Answered' = Answered /\ UNCHANGED <<arrival, dropped>>
             /\ \A q \in Answered : call'[q] = call[q]
    <2> SUFFICES ASSUME NEW p \in Provider
                 PROVE  dropped'[p] =
                            Cardinality({q \in ChargedTo(p)' : call'[q] = "dropped"})
      BY DEF DropsCounted
    <2>1. {q \in ChargedTo(p)' : call'[q] = "dropped"}
              = {q \in ChargedTo(p) : call[q] = "dropped"}
      BY <1>2 DEF ChargedTo, Candidate
    <2> QED
      BY <1>2, <2>1 DEF DropsCounted
  <1>3. ASSUME NEW q \in Request, Finish(q)
        PROVE  /\ Answered' = Answered /\ UNCHANGED <<arrival, dropped>>
               /\ \A r \in Answered : call'[r] = call[r]
    BY <1>3, FinishAnswersNone DEF Finish, ledgerVars
  <1>4. ASSUME NEW q \in Request, Settle(q) PROVE DropsCounted'
    BY <1>4, SettleKeepsDrops DEF DropsCounted
  <1> QED
    BY <1>1, <1>2, <1>3, <1>4, StepsOfAnswers

LEMMA CountedExplains ==
    ASSUME TypeOK, AnsweredMeansSettled, DropsCounted, RecordedIsWritten
    PROVE  DropsExplainLosses
  <1> SUFFICES ASSUME NEW p \in Provider
               PROVE  Cardinality(ChargedTo(p)) - dropped[p]
                          <= Cardinality({q \in ChargedTo(p) : written[q] > 0})
    BY DEF DropsExplainLosses
  <1> DEFINE All == ChargedTo(p)
             Lost == {q \in All : call[q] = "dropped"}
             Kept == {q \in All : written[q] > 0}
  <1>1. IsFiniteSet(All) /\ IsFiniteSet(Lost) /\ IsFiniteSet(Kept)
    <2>1. All \in SUBSET Request /\ Lost \in SUBSET Request /\ Kept \in SUBSET Request
      BY DEF ChargedTo, Answered, TypeOK
    <2> HIDE DEF All, Lost, Kept
    <2> QED
      BY <2>1, FS_Subset, GatewayAssumption
  <1>2. All \ Lost \subseteq Kept
    BY DEF ChargedTo, Answered, TypeOK, AnsweredMeansSettled, RecordedIsWritten
  <1>3. All \cap Lost = Lost
    OBVIOUS
  <1>4. dropped[p] = Cardinality(Lost)
    BY DEF DropsCounted
  <1> HIDE DEF All, Lost, Kept
  <1>5. Cardinality(All \ Lost) = Cardinality(All) - Cardinality(Lost)
    <2>1. Cardinality(All \ Lost) = Cardinality(All) - Cardinality(All \cap Lost)
      BY <1>1, FS_Difference
    <2> QED
      BY <1>3, <2>1
  <1>6. Cardinality(All \ Lost) <= Cardinality(Kept)
    BY <1>1, <1>2, FS_Subset
  <1>7. Cardinality(All) - dropped[p] <= Cardinality(Kept)
    BY <1>4, <1>5, <1>6
  <1> QED
    BY <1>7 DEF All, Kept

\* ADR 0008: the dropped counter never understates what the window lost.
THEOREM DropsExplain == Spec => []DropsExplainLosses
  <1>1. Init => MineUnderway /\ RecordedIsWritten /\ AnsweredMeansSettled
    BY DEF Init, MineUnderway, Underway, RecordedIsWritten, Ledger!LedgerInit,
           AnsweredMeansSettled
  <1>2. Init => DropsCounted
    <2> SUFFICES ASSUME Init PROVE DropsCounted
      OBVIOUS
    <2>1. \A p : ChargedTo(p) = {}
      BY DEF Init, Answered, ChargedTo
    <2> QED
      BY <2>1, FS_EmptySet DEF Init, Zero, DropsCounted
  <1>3. TypeOK /\ MineUnderway /\ DropsCounted /\ [Next]_vars => DropsCounted'
    BY DropsStep
  <1>4. TypeOK /\ AnsweredMeansSettled /\ DropsCounted /\ RecordedIsWritten
            => DropsExplainLosses
    BY CountedExplains
  <1> QED
    BY <1>1, <1>2, <1>3, <1>4, InitTyped, TypeStep, MineStep, RecordedStep,
       SettlementStep, PTL DEF Spec
=============================================================================

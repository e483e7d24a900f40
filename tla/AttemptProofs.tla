---------------------------- MODULE AttemptProofs ----------------------------
(***************************************************************************)
(* Proofs about Attempt: what is recorded of an attempt and what is        *)
(* observed of a request are true to the time that passed, for every       *)
(* timeout, every length of the import and every step of the wall clock.   *)
(***************************************************************************)
EXTENDS Attempt, TLAPS

\* How the two clocks' readings relate to the time that really passed.
Timing(q) ==
    /\ pc[q] \in {"new", "receiving"} => called[q] = 0 /\ drift[q] = 0
    /\ pc[q] = "new" => ours[q] = 0
    /\ pc[q] \notin {"new", "done"} => mono - began[q] = called[q] + ours[q]
    /\ pc[q] = "calling" => Wall - asked[q] = called[q] + drift[q]

\* What each part of the gateway has handed to the next.
Handing(q) ==
    /\ pc[q] \in {"new", "receiving", "calling"} =>
          result[q] = None /\ recorded[q] = 0 /\ event[q] = None
    /\ pc[q] \in {"recording", "sending"} => result[q] # None
    /\ pc[q] \in {"new", "receiving", "calling", "recording"} => seconds[q] = None
    /\ pc[q] = "sending" => seconds[q] # None
    /\ seconds[q] # None => result[q] # None /\ seconds[q] = result[q].latency
    /\ pc[q] # "done" => overhead[q] = <<>>

\* OutcomeIsTrue and OverheadIsOurs, of one request.
TrueOutcome(q) ==
    /\ recorded[q] = IF event[q] \in {None, "cancelled"} THEN 0 ELSE 1
    /\ (result[q] # None) <=> recorded[q] = 1
    /\ result[q] # None =>
          /\ (result[q].by = "gateway") <=> event[q] = "deadline"
          /\ result[q].by = "gateway" => result[q].class = "timeout"
          /\ result[q].class = "timeout" => Timeout = None \/ called[q] >= Timeout
          /\ Size(result[q].latency - called[q]) <= Size(drift[q])

TrueOverhead(q) ==
    pc[q] = "done" =>
        IF seconds[q] = None THEN overhead[q] = <<>>
        ELSE /\ Len(overhead[q]) = 1
             /\ overhead[q][1] >= 0
             /\ Size(overhead[q][1] - ours[q]) <= Size(drift[q])

Good(q) == Timing(q) /\ Handing(q) /\ TrueOutcome(q) /\ TrueOverhead(q)

Inv == TypeOK /\ \A q \in Request : Good(q)

Results == [class : {"ok"} \cup ErrorClass, by : {"provider", "gateway"}, latency : Nat]

-----------------------------------------------------------------------------
LEMMA InvInit == Init => Inv
<1> SUFFICES ASSUME Init PROVE Inv
  OBVIOUS
<1> USE DEF Init
<1>1. TypeOK
  <2>1. MaxTime \in Nat
    BY AttemptAssumption DEF AttemptAssumption
  <2>2. mono \in 0 .. MaxTime /\ ahead \in Int
    BY <2>1
  <2>3. loaded \in BOOLEAN
    OBVIOUS
  <2>4. /\ pc \in [Request ->
              {"new", "receiving", "calling", "recording", "sending", "done"}]
        /\ event \in [Request -> {None, "answered", "failed", "deadline", "cancelled"}]
    OBVIOUS
  <2>5. /\ began \in [Request -> Nat] /\ asked \in [Request -> Int]
        /\ recorded \in [Request -> Nat]
        /\ called \in [Request -> Nat] /\ ours \in [Request -> Nat]
        /\ drift \in [Request -> Int]
    OBVIOUS
  <2>6. /\ seconds \in [Request -> Nat \cup {None}]
        /\ result \in [Request -> {None} \cup Results]
    OBVIOUS
  <2>7. overhead \in [Request -> Seq(Nat)]
    OBVIOUS
  <2> QED
    BY <2>2, <2>3, <2>4, <2>5, <2>6, <2>7 DEF TypeOK, Results
<1>2. ASSUME NEW q \in Request PROVE Good(q)
  BY AttemptAssumption DEF Good, Timing, Handing, TrueOutcome, TrueOverhead
<1> QED
  BY <1>1, <1>2 DEF Inv

\* A request none of whose values changes stays good.
LEMMA Frame ==
    ASSUME NEW p \in Request, Good(p),
           mono' = mono, ahead' = ahead,
           pc'[p] = pc[p], began'[p] = began[p], asked'[p] = asked[p],
           result'[p] = result[p], seconds'[p] = seconds[p],
           overhead'[p] = overhead[p], recorded'[p] = recorded[p],
           event'[p] = event[p], called'[p] = called[p], ours'[p] = ours[p],
           drift'[p] = drift[p]
    PROVE  Good(p)'
BY DEF Good, Timing, Handing, TrueOutcome, TrueOverhead, Wall

\* Clamping the overhead brings it no further from the truth.
LEMMA ClampKeepsDrift ==
    ASSUME NEW c \in Nat, NEW o \in Nat, NEW s \in Nat, NEW d \in Int,
           Size(s - c) <= Size(d)
    PROVE  /\ NotNegative(c + o - s) \in Nat
           /\ Size(NotNegative(c + o - s) - o) <= Size(d)
<1> DEFINE k == s - c
<1>1. k \in Int /\ c + o - s = o - k /\ Size(k) <= Size(d) /\ Size(d) \in Nat
  BY DEF Size
<1>2. CASE o - k < 0
  BY <1>1, <1>2 DEF NotNegative, Size
<1>3. CASE o - k >= 0
  BY <1>1, <1>3 DEF NotNegative, Size
<1> QED
  BY <1>1, <1>2, <1>3

\* Time that passes for everyone is counted where each request is.
LEMMA TimingPasses ==
    ASSUME NEW p \in Request, NEW n \in Nat, Timing(p),
           mono \in Int, ahead \in Int, began[p] \in Int, asked[p] \in Int,
           called[p] \in Int, ours[p] \in Int, drift[p] \in Int,
           pc[p] \in {"new", "receiving", "calling", "recording", "sending", "done"},
           mono' = mono + n, ahead' = ahead,
           pc'[p] = pc[p], began'[p] = began[p], asked'[p] = asked[p],
           drift'[p] = drift[p],
           called'[p] = called[p] + (IF pc[p] = "calling" THEN n ELSE 0),
           ours'[p] = ours[p] +
             (IF pc[p] \in {"receiving", "recording", "sending"} THEN n ELSE 0)
    PROVE  Timing(p)'
<1>1. CASE pc[p] \in {"new", "done"}
  BY <1>1 DEF Timing
<1>2. CASE pc[p] = "calling"
  BY <1>2 DEF Timing, Wall
<1>3. CASE pc[p] \in {"receiving", "recording", "sending"}
  <2>1. called'[p] = called[p] /\ ours'[p] = ours[p] + n
    BY <1>3
  <2>2. mono - began[p] = called[p] + ours[p]
    BY <1>3 DEF Timing
  <2>3. mono + n - began[p] = called[p] + ours[p] + n
    BY <2>2
  <2> QED
    BY <1>3, <2>1, <2>3 DEF Timing
<1> QED
  BY <1>1, <1>2, <1>3

LEMMA TickKeeps == ASSUME Inv, Tick PROVE Inv'
<1>1. TypeOK
  BY DEF Inv
<1>2. /\ mono' = mono + 1 /\ mono + 1 <= MaxTime
      /\ called' = [q \in Request |-> called[q] + (IF pc[q] = "calling" THEN 1 ELSE 0)]
      /\ ours' = [q \in Request |->
           ours[q] + (IF pc[q] \in {"receiving", "recording", "sending"} THEN 1 ELSE 0)]
      /\ UNCHANGED <<pc, ahead, loaded, began, asked, result, seconds, overhead,
                     recorded, event, drift>>
  BY DEF Tick, Elapse, requestVars
<1>3. TypeOK'
  <2>1. mono' \in 0 .. MaxTime
    BY <1>1, <1>2 DEF TypeOK
  <2>2. called' \in [Request -> Nat] /\ ours' \in [Request -> Nat]
    <3>1. ASSUME NEW p \in Request
          PROVE  /\ called[p] + (IF pc[p] = "calling" THEN 1 ELSE 0) \in Nat
                 /\ ours[p] + (IF pc[p] \in {"receiving", "recording", "sending"}
                               THEN 1 ELSE 0) \in Nat
      <4>1. called[p] \in Nat /\ ours[p] \in Nat
        BY <1>1 DEF TypeOK
      <4> QED
        BY <4>1
    <3> QED
      BY <1>2, <3>1
  <2> QED
    BY <1>1, <1>2, <2>1, <2>2, Zenon DEF TypeOK
<1>4. ASSUME NEW p \in Request PROVE Good(p)'
  <2>1. Good(p)
    BY DEF Inv
  <2>2. called[p] \in Nat /\ ours[p] \in Nat /\ mono \in Nat /\ ahead \in Int
          /\ began[p] \in Nat /\ asked[p] \in Int /\ drift[p] \in Int
          /\ pc[p] \in {"new", "receiving", "calling", "recording", "sending", "done"}
    BY <1>1 DEF TypeOK
  <2>3. /\ called'[p] = called[p] + (IF pc[p] = "calling" THEN 1 ELSE 0)
        /\ ours'[p] = ours[p] +
             (IF pc[p] \in {"receiving", "recording", "sending"} THEN 1 ELSE 0)
    BY <1>2
  <2>4. Timing(p)'
    <3>1. Timing(p)
      BY <2>1 DEF Good
    <3>2. /\ mono' = mono + 1 /\ ahead' = ahead /\ pc'[p] = pc[p]
          /\ began'[p] = began[p] /\ asked'[p] = asked[p] /\ drift'[p] = drift[p]
      BY <1>2
    <3>3. mono \in Int /\ called[p] \in Int /\ ours[p] \in Int /\ began[p] \in Int
      BY <2>2
    <3> QED
      BY <2>2, <2>3, <3>1, <3>2, <3>3, TimingPasses
  <2>5. Handing(p)'
    BY <1>2, <2>1 DEF Good, Handing
  <2>6. TrueOutcome(p)'
    <3>1. CASE pc[p] = "calling"
      BY <1>2, <2>1, <3>1 DEF Good, Handing, TrueOutcome
    <3>2. CASE pc[p] # "calling"
      BY <1>2, <2>1, <2>2, <2>3, <3>2 DEF Good, TrueOutcome
    <3> QED
      BY <3>1, <3>2
  <2>7. TrueOverhead(p)'
    BY <1>2, <2>1, <2>2, <2>3 DEF Good, TrueOverhead
  <2> QED
    BY <2>4, <2>5, <2>6, <2>7 DEF Good
<1> QED
  BY <1>3, <1>4 DEF Inv

LEMMA StepKeeps == ASSUME Inv, StepClock PROVE Inv'
<1>1. TypeOK
  BY DEF Inv
<1>2. /\ ahead = 0 /\ ahead' \in Int
      /\ drift' = [q \in Request |->
                     drift[q] + (IF pc[q] = "calling" THEN ahead' - ahead ELSE 0)]
      /\ UNCHANGED <<pc, mono, loaded, began, asked, result, seconds, overhead,
                     recorded, event, called, ours>>
  BY AttemptAssumption DEF AttemptAssumption, StepClock, requestVars, timeVars
<1>3. TypeOK'
  <2>1. drift' \in [Request -> Int]
    BY <1>1, <1>2 DEF TypeOK
  <2> QED
    BY <1>1, <1>2, <2>1 DEF TypeOK
<1>4. ASSUME NEW p \in Request PROVE Good(p)'
  <2>1. Good(p)
    BY DEF Inv
  <2>2. called[p] \in Nat /\ mono \in Nat /\ drift[p] \in Int /\ asked[p] \in Int
    BY <1>1 DEF TypeOK
  <2>3. drift'[p] = drift[p] + (IF pc[p] = "calling" THEN ahead' - ahead ELSE 0)
    BY <1>2
  <2>4. Timing(p)'
    BY <1>2, <2>1, <2>2, <2>3 DEF Good, Timing, Wall
  <2>5. Handing(p)'
    BY <1>2, <2>1 DEF Good, Handing
  <2>6. TrueOutcome(p)'
    <3>1. CASE pc[p] = "calling"
      BY <1>2, <2>1, <3>1 DEF Good, Handing, TrueOutcome
    <3>2. CASE pc[p] # "calling"
      <4>1. drift'[p] = drift[p]
        BY <2>2, <2>3, <3>2
      <4> QED
        BY <1>2, <2>1, <4>1 DEF Good, TrueOutcome
    <3> QED
      BY <3>1, <3>2
  <2>7. TrueOverhead(p)'
    <3>1. pc[p] = "done" => drift'[p] = drift[p]
      BY <2>2, <2>3
    <3> QED
      BY <1>2, <2>1, <3>1 DEF Good, TrueOverhead
  <2> QED
    BY <2>4, <2>5, <2>6, <2>7 DEF Good
<1> QED
  BY <1>3, <1>4 DEF Inv

-----------------------------------------------------------------------------
(* The steps of a request.                                                 *)

LEMMA ReceiveKeeps == ASSUME Inv, NEW q \in Request, Receive(q) PROVE Inv'
<1>1. TypeOK /\ Good(q) /\ pc[q] = "new"
  BY DEF Inv, Receive
<1>2. /\ pc' = [pc EXCEPT ![q] = "receiving"]
      /\ began' = [began EXCEPT ![q] = mono]
      /\ UNCHANGED <<mono, ahead, loaded, asked, result, seconds, overhead, recorded,
                     event, called, ours, drift>>
  BY DEF Receive, clockVars, timeVars
<1>3. TypeOK'
  <2>1. pc' \in [Request ->
            {"new", "receiving", "calling", "recording", "sending", "done"}]
    BY <1>1, <1>2 DEF TypeOK
  <2>2. began' \in [Request -> Nat]
    <3>1. mono \in Nat /\ began \in [Request -> Nat]
      BY <1>1 DEF TypeOK
    <3> QED
      BY <1>2, <3>1
  <2> QED
    BY <1>1, <1>2, <2>1, <2>2, Zenon DEF TypeOK
<1>4. ASSUME NEW p \in Request PROVE Good(p)'
  <2>1. CASE p = q
    <3>1. pc'[q] = "receiving" /\ began'[q] = mono /\ mono \in Nat
      BY <1>1, <1>2 DEF TypeOK
    <3>2. Timing(q)'
      BY <1>1, <1>2, <3>1 DEF Good, Timing
    <3>3. Handing(q)' /\ TrueOutcome(q)' /\ TrueOverhead(q)'
      BY <1>1, <1>2, <3>1 DEF Good, Handing, TrueOutcome, TrueOverhead
    <3> QED
      BY <2>1, <3>2, <3>3 DEF Good
  <2>2. CASE p # q
    <3>1. pc'[p] = pc[p] /\ began'[p] = began[p]
      BY <1>1, <1>2, <2>2 DEF TypeOK
    <3>2. Good(p)
      BY DEF Inv
    <3> QED
      BY <1>2, <3>1, <3>2, Frame
  <2> QED
    BY <2>1, <2>2
<1> QED
  BY <1>3, <1>4 DEF Inv

LEMMA CallKeeps == ASSUME Inv, NEW q \in Request, Call(q) PROVE Inv'
<1> DEFINE n == IF loaded THEN 0 ELSE ImportTicks
<1>1. TypeOK /\ Good(q) /\ pc[q] = "receiving" /\ n \in Nat
  BY AttemptAssumption DEF Inv, Call, AttemptAssumption
<1>2. /\ pc' = [pc EXCEPT ![q] = "calling"]
      /\ asked' = [asked EXCEPT ![q] = Wall]
      /\ mono' = mono + n /\ mono + n <= MaxTime
      /\ called' = [p \in Request |->
                      called[p] + (IF pc'[p] = "calling" THEN n ELSE 0)]
      /\ ours' = [p \in Request |->
           ours[p] + (IF pc'[p] \in {"receiving", "recording", "sending"} THEN n ELSE 0)]
      /\ loaded' = TRUE
      /\ UNCHANGED <<ahead, began, result, seconds, overhead, recorded, event, drift>>
  BY DEF Call, Elapse
<1> HIDE DEF n
<1>3. TypeOK'
  <2>1. mono' \in 0 .. MaxTime /\ Wall \in Int
    BY <1>1, <1>2 DEF TypeOK, Wall
  <2>2. called' \in [Request -> Nat] /\ ours' \in [Request -> Nat]
    <3>1. ASSUME NEW p \in Request
          PROVE  /\ called[p] + (IF pc'[p] = "calling" THEN n ELSE 0) \in Nat
                 /\ ours[p] + (IF pc'[p] \in {"receiving", "recording", "sending"}
                               THEN n ELSE 0) \in Nat
      <4>1. called[p] \in Nat /\ ours[p] \in Nat
        BY <1>1 DEF TypeOK
      <4> QED
        BY <1>1, <4>1
    <3> QED
      BY <1>2, <3>1
  <2>3. pc' \in [Request ->
            {"new", "receiving", "calling", "recording", "sending", "done"}]
          /\ asked' \in [Request -> Int]
    BY <1>1, <1>2, <2>1 DEF TypeOK
  <2>4. loaded' \in BOOLEAN
    BY <1>2
  <2> QED
    BY <1>1, <1>2, <2>1, <2>2, <2>3, <2>4, Zenon DEF TypeOK
<1>4. ASSUME NEW p \in Request PROVE Good(p)'
  <2>1. Good(p)
    BY DEF Inv
  <2>2. /\ called[p] \in Nat /\ ours[p] \in Nat /\ mono \in Nat /\ ahead \in Int
        /\ began[p] \in Nat /\ asked[p] \in Int /\ drift[p] \in Int
        /\ pc[p] \in {"new", "receiving", "calling", "recording", "sending", "done"}
    BY <1>1 DEF TypeOK
  <2>3. /\ called'[p] = called[p] + (IF pc'[p] = "calling" THEN n ELSE 0)
        /\ ours'[p] = ours[p] +
             (IF pc'[p] \in {"receiving", "recording", "sending"} THEN n ELSE 0)
    BY <1>2
  <2>4. /\ pc'[p] = (IF p = q THEN "calling" ELSE pc[p])
        /\ asked'[p] = (IF p = q THEN mono + ahead ELSE asked[p])
    BY <1>1, <1>2 DEF TypeOK, Wall
  <2>5. CASE p = q
    <3>1. Timing(p)'
      BY <1>1, <1>2, <2>1, <2>2, <2>3, <2>4, <2>5 DEF Good, Timing, Wall
    <3>2. Handing(p)' /\ TrueOutcome(p)' /\ TrueOverhead(p)'
      BY <1>1, <1>2, <2>1, <2>4, <2>5 DEF Good, Handing, TrueOutcome, TrueOverhead
    <3> QED
      BY <3>1, <3>2 DEF Good
  <2>6. CASE p # q
    <3>1. pc'[p] = pc[p] /\ asked'[p] = asked[p]
      BY <2>4, <2>6
    <3>2. Timing(p)'
      <4>1. Timing(p)
        BY <2>1 DEF Good
      <4>2. /\ called'[p] = called[p] + (IF pc[p] = "calling" THEN n ELSE 0)
            /\ ours'[p] = ours[p] +
                 (IF pc[p] \in {"receiving", "recording", "sending"} THEN n ELSE 0)
        BY <2>3, <3>1
      <4>3. mono' = mono + n /\ ahead' = ahead /\ began'[p] = began[p]
              /\ drift'[p] = drift[p] /\ mono \in Int
        BY <1>2, <2>2
      <4> QED
        BY <1>1, <2>2, <3>1, <4>1, <4>2, <4>3, TimingPasses
    <3>3. Handing(p)'
      BY <1>2, <2>1, <3>1 DEF Good, Handing
    <3>4. TrueOutcome(p)'
      <4>1. CASE pc[p] = "calling"
        BY <1>2, <2>1, <4>1 DEF Good, Handing, TrueOutcome
      <4>2. CASE pc[p] # "calling"
        BY <1>2, <2>1, <2>2, <2>3, <3>1, <4>2 DEF Good, TrueOutcome
      <4> QED
        BY <4>1, <4>2
    <3>5. TrueOverhead(p)'
      BY <1>2, <2>1, <2>2, <2>3, <3>1 DEF Good, TrueOverhead
    <3> QED
      BY <3>2, <3>3, <3>4, <3>5 DEF Good
  <2> QED
    BY <2>5, <2>6
<1> QED
  BY <1>3, <1>4 DEF Inv

\* An outcome is true of the call it ends.
LEMMA EndsKeeps ==
    ASSUME Inv, NEW q \in Request,
           NEW e \in {"answered", "failed", "deadline"},
           NEW class \in {"ok"} \cup ErrorClass, NEW by \in {"provider", "gateway"},
           by = "gateway" <=> e = "deadline",
           by = "gateway" => class = "timeout",
           class = "timeout" => Timeout = None \/ called[q] >= Timeout,
           Ends(q, e, class, by)
    PROVE  Inv'
<1> DEFINE r == [class |-> class, by |-> by, latency |-> Elapsed(q)]
<1>1. TypeOK /\ Good(q) /\ pc[q] = "calling"
  BY DEF Inv, Ends
<1>2. /\ pc' = [pc EXCEPT ![q] = "recording"]
      /\ result' = [result EXCEPT ![q] = r]
      /\ recorded' = [recorded EXCEPT ![q] = @ + 1]
      /\ event' = [event EXCEPT ![q] = e]
      /\ UNCHANGED <<mono, ahead, loaded, began, asked, seconds, overhead, called, ours,
                     drift>>
  BY DEF Ends, clockVars, timeVars
<1>3. /\ mono \in Int /\ ahead \in Int /\ asked[q] \in Int /\ called[q] \in Nat
      /\ drift[q] \in Int /\ mono + ahead - asked[q] = called[q] + drift[q]
  BY <1>1 DEF TypeOK, Good, Timing, Wall
<1>4. Elapsed(q) \in Nat /\ Size(Elapsed(q) - called[q]) <= Size(drift[q])
  BY <1>3 DEF Elapsed, NotNegative, Wall, Size
<1>5. r \in Results /\ r.class = class /\ r.by = by /\ r.latency = Elapsed(q)
  BY <1>4 DEF Results
<1>6. r # None
  BY <1>5, AttemptAssumption DEF AttemptAssumption, Results
<1> HIDE DEF r
<1>7. TypeOK'
  <2>1. result' \in [Request -> {None} \cup Results]
    BY <1>1, <1>2, <1>5 DEF TypeOK, Results
  <2>2. recorded' \in [Request -> Nat]
    BY <1>1, <1>2 DEF TypeOK
  <2>3. event' \in [Request -> {None, "answered", "failed", "deadline", "cancelled"}]
    BY <1>1, <1>2 DEF TypeOK
  <2> QED
    BY <1>1, <1>2, <2>1, <2>2, <2>3 DEF TypeOK, Results
<1>8. ASSUME NEW p \in Request PROVE Good(p)'
  <2>1. /\ pc'[p] = (IF p = q THEN "recording" ELSE pc[p])
        /\ result'[p] = (IF p = q THEN r ELSE result[p])
        /\ recorded'[p] = (IF p = q THEN recorded[p] + 1 ELSE recorded[p])
        /\ event'[p] = (IF p = q THEN e ELSE event[p])
    BY <1>1, <1>2 DEF TypeOK
  <2>2. CASE p = q
    <3>1. Timing(q)'
      BY <1>1, <1>2, <2>1, <2>2 DEF Good, Timing
    <3>2. Handing(q)'
      BY <1>1, <1>2, <1>6, <2>1, <2>2 DEF Good, Handing
    <3>3. TrueOutcome(q)'
      <4>1. recorded'[q] = 1
        BY <1>1, <2>1, <2>2 DEF Good, Handing
      <4>2. event'[q] = e /\ e \notin {None, "cancelled"}
        BY <2>1, <2>2, AttemptAssumption DEF AttemptAssumption
      <4>3. result'[q] = r
        BY <2>1, <2>2
      <4> QED
        BY <1>2, <1>4, <1>5, <1>6, <4>1, <4>2, <4>3 DEF TrueOutcome
    <3>4. TrueOverhead(q)'
      BY <2>1, <2>2 DEF TrueOverhead
    <3> QED
      BY <2>2, <3>1, <3>2, <3>3, <3>4 DEF Good
  <2>3. CASE p # q
    <3>1. Good(p)
      BY DEF Inv
    <3> QED
      BY <1>2, <2>1, <2>3, <3>1, Frame
  <2> QED
    BY <2>2, <2>3
<1> QED
  BY <1>7, <1>8 DEF Inv

LEMMA HandKeeps == ASSUME Inv, NEW q \in Request, Hand(q) PROVE Inv'
<1>1. TypeOK /\ Good(q) /\ pc[q] = "recording"
  BY DEF Inv, Hand
<1>2. /\ pc' = [pc EXCEPT ![q] = "sending"]
      /\ seconds' = [seconds EXCEPT ![q] = result[q].latency]
      /\ UNCHANGED <<mono, ahead, loaded, began, asked, result, overhead, recorded,
                     event, called, ours, drift>>
  BY DEF Hand, ProviderSeconds, clockVars, timeVars
<1>3. result[q] \in Results /\ result[q].latency \in Nat
  BY <1>1 DEF TypeOK, Good, Handing, Results
<1>4. result[q].latency # None
  BY <1>3, AttemptAssumption DEF AttemptAssumption
<1>5. TypeOK'
  BY <1>1, <1>2, <1>3 DEF TypeOK
<1>6. ASSUME NEW p \in Request PROVE Good(p)'
  <2>1. /\ pc'[p] = (IF p = q THEN "sending" ELSE pc[p])
        /\ seconds'[p] = (IF p = q THEN result[q].latency ELSE seconds[p])
    BY <1>1, <1>2 DEF TypeOK
  <2>2. CASE p = q
    BY <1>1, <1>2, <1>4, <2>1, <2>2 DEF Good, Timing, Handing, TrueOutcome, TrueOverhead
  <2>3. CASE p # q
    <3>1. Good(p)
      BY DEF Inv
    <3> QED
      BY <1>2, <2>1, <2>3, <3>1, Frame
  <2> QED
    BY <2>2, <2>3
<1> QED
  BY <1>5, <1>6 DEF Inv

\* However a request leaves, what is observed of it is the gateway's time.
LEMMA LeaveKeeps ==
    ASSUME Inv, NEW q \in Request, NEW how,
           pc[q] \notin {"new", "done"},
           Leave(q, how),
           event' = IF pc[q] = "calling"
                    THEN [event EXCEPT ![q] = "cancelled"] ELSE event
    PROVE  Inv'
<1>1. TypeOK /\ Good(q)
  BY DEF Inv
<1>2. /\ pc' = [pc EXCEPT ![q] = "done"]
      /\ UNCHANGED <<mono, ahead, loaded, began, asked, result, seconds, recorded,
                     called, ours, drift>>
  BY DEF Leave, clockVars, timeVars
<1>3. CASE seconds[q] = None
  <2>1. overhead' = overhead /\ overhead[q] = <<>>
    BY <1>1, <1>3 DEF Leave, Observes, Good, Handing
  <2>2. TypeOK'
    BY <1>1, <1>2, <2>1 DEF TypeOK
  <2>3. ASSUME NEW p \in Request PROVE Good(p)'
    <3>1. /\ pc'[p] = (IF p = q THEN "done" ELSE pc[p])
          /\ event'[p] = (IF p = q /\ pc[q] = "calling" THEN "cancelled" ELSE event[p])
      BY <1>1, <1>2 DEF TypeOK
    <3>2. CASE p = q
      <4>1. TrueOutcome(q)'
        BY <1>1, <1>2, <3>1, <3>2 DEF Good, Handing, TrueOutcome
      <4>2. Timing(q)' /\ Handing(q)' /\ TrueOverhead(q)'
        BY <1>1, <1>2, <1>3, <2>1, <3>1, <3>2 DEF Good, Timing, Handing, TrueOverhead
      <4> QED
        BY <3>2, <4>1, <4>2 DEF Good
    <3>3. CASE p # q
      <4>1. Good(p)
        BY DEF Inv
      <4> QED
        BY <1>2, <2>1, <3>1, <3>3, <4>1, Frame
    <3> QED
      BY <3>2, <3>3
  <2> QED
    BY <2>2, <2>3 DEF Inv
<1>4. CASE seconds[q] # None
  <2> DEFINE x == Overhead(q)
  <2>1. /\ mono \in Int /\ began[q] \in Int /\ called[q] \in Nat /\ ours[q] \in Nat
        /\ drift[q] \in Int /\ seconds[q] \in Nat /\ overhead[q] = <<>>
        /\ mono - began[q] = called[q] + ours[q]
    BY <1>1, <1>4 DEF TypeOK, Good, Timing, Handing
  <2>2. Size(seconds[q] - called[q]) <= Size(drift[q])
    BY <1>1, <1>4 DEF Good, Handing, TrueOutcome
  <2>3. x \in Nat /\ Size(x - ours[q]) <= Size(drift[q])
    <3>1. x = NotNegative(called[q] + ours[q] - seconds[q])
      BY <2>1 DEF Overhead
    <3>2. /\ called[q] \in Nat /\ ours[q] \in Nat /\ seconds[q] \in Nat
          /\ drift[q] \in Int
      BY <2>1
    <3> HIDE DEF x
    <3> QED
      BY <2>2, <3>1, <3>2, ClampKeepsDrift
  <2> HIDE DEF x
  <2>4. overhead' = [overhead EXCEPT ![q] = Append(@, x)]
    BY <1>4 DEF Leave, Observes, x
  <2>5. overhead'[q] = <<x>>
    BY <1>1, <2>1, <2>4 DEF TypeOK
  <2>6. TypeOK'
    <3>1. overhead' \in [Request -> Seq(Nat)]
      <4>1. <<x>> \in Seq(Nat)
        BY <2>3
      <4>2. overhead' = [overhead EXCEPT ![q] = <<x>>]
        BY <2>1, <2>4
      <4> QED
        BY <1>1, <4>1, <4>2 DEF TypeOK
    <3> QED
      BY <1>1, <1>2, <3>1 DEF TypeOK
  <2>7. ASSUME NEW p \in Request PROVE Good(p)'
    <3>1. /\ pc'[p] = (IF p = q THEN "done" ELSE pc[p])
          /\ event'[p] = event[p]
      BY <1>1, <1>2, <1>4 DEF TypeOK, Good, Handing
    <3>2. CASE p = q
      <4>1. TrueOutcome(q)'
        BY <1>1, <1>2, <3>1, <3>2 DEF Good, TrueOutcome
      <4>2. Timing(q)' /\ Handing(q)'
        BY <1>1, <1>2, <1>4, <3>1, <3>2 DEF Good, Timing, Handing
      <4>3. Len(overhead'[q]) = 1 /\ overhead'[q][1] = x
        BY <2>5
      <4>4. TrueOverhead(q)'
        BY <1>2, <1>4, <2>3, <4>3 DEF TrueOverhead
      <4> QED
        BY <3>2, <4>1, <4>2, <4>4 DEF Good
    <3>3. CASE p # q
      <4>1. Good(p) /\ overhead'[p] = overhead[p]
        BY <1>1, <2>4, <3>3 DEF Inv, TypeOK
      <4> QED
        BY <1>2, <3>1, <3>3, <4>1, Frame
    <3> QED
      BY <3>2, <3>3
  <2> QED
    BY <2>6, <2>7 DEF Inv
<1> QED
  BY <1>3, <1>4

-----------------------------------------------------------------------------
LEMMA InvNext == Inv /\ [Next]_vars => Inv'
<1> SUFFICES ASSUME Inv, [Next]_vars PROVE Inv'
  OBVIOUS
<1>1. CASE Tick
  BY <1>1, TickKeeps
<1>2. CASE StepClock
  BY <1>2, StepKeeps
<1>3. ASSUME NEW q \in Request,
             \/ Receive(q) \/ Call(q)
             \/ Answers(q) \/ Fails(q) \/ DeadlinePasses(q)
             \/ Hand(q) \/ Sent(q) \/ Cancel(q)
      PROVE  Inv'
  <2>1. CASE Receive(q)
    BY <2>1, ReceiveKeeps
  <2>2. CASE Call(q)
    BY <2>2, CallKeeps
  <2>3. CASE Answers(q)
    <3>1. "ok" # "timeout"
      OBVIOUS
    <3> QED
      BY <2>3, <3>1, EndsKeeps DEF Answers
  <2>4. CASE Fails(q)
    <3>1. PICK class \in ErrorClass :
             /\ class = "timeout" => Timeout = None \/ called[q] >= Timeout
             /\ Ends(q, "failed", class, "provider")
      BY <2>4 DEF Fails
    <3> QED
      BY <3>1, EndsKeeps
  <2>5. CASE DeadlinePasses(q)
    <3>1. Ends(q, "deadline", "timeout", "gateway") /\ called[q] >= Timeout
      BY <2>5 DEF DeadlinePasses, Described
    <3>2. "timeout" \in {"ok"} \cup ErrorClass
      BY AttemptAssumption DEF AttemptAssumption
    <3> QED
      BY <3>1, <3>2, EndsKeeps
  <2>6. CASE Hand(q)
    BY <2>6, HandKeeps
  <2>7. CASE Sent(q)
    BY <2>7, LeaveKeeps DEF Sent
  <2>8. CASE Cancel(q)
    BY <2>8, LeaveKeeps DEF Cancel, Described
  <2> QED
    BY <1>3, <2>1, <2>2, <2>3, <2>4, <2>5, <2>6, <2>7, <2>8
<1>4. CASE UNCHANGED vars
  <2>1. TypeOK'
    BY <1>4 DEF Inv, TypeOK, vars, clockVars, requestVars, timeVars
  <2>2. ASSUME NEW p \in Request PROVE Good(p)'
    BY <1>4, Frame DEF Inv, vars, clockVars, requestVars, timeVars
  <2> QED
    BY <2>1, <2>2 DEF Inv
<1> QED
  BY <1>1, <1>2, <1>3, <1>4 DEF Next

LEMMA InvAlways == Spec => []Inv
BY InvInit, InvNext, PTL DEF Spec

\* Nothing negative is recorded or observed, whatever the clock does.
THEOREM TypeCorrect == Spec => []TypeOK
<1>1. Inv => TypeOK
  BY DEF Inv
<1> QED
  BY <1>1, InvAlways, PTL

\* For every step of the clock, every timeout and every length of the import,
\* the overhead observed is the gateway's time but for that step.
THEOREM OverheadIsTheGateways == Spec => []OverheadIsOurs
<1>1. Inv => OverheadIsOurs
  BY DEF Inv, Good, TrueOverhead, OverheadIsOurs
<1> QED
  BY <1>1, InvAlways, PTL

\* Whatever order answers, timeouts and cancellations come in, what is
\* recorded of an attempt is what happened to it.
THEOREM OutcomesAreTrue == Spec => []OutcomeIsTrue
<1>1. Inv => OutcomeIsTrue
  BY DEF Inv, Good, TrueOutcome, OutcomeIsTrue
<1> QED
  BY <1>1, InvAlways, PTL
=============================================================================

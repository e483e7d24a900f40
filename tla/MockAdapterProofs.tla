------------------------- MODULE MockAdapterProofs -------------------------
(* The mock's guarantees for every set of calls, rates, seeds and draws.   *)
EXTENDS MockAdapter, TLAPS

\* A call that is told to fail or not leaves a well-typed answer behind.
LEMMA FailsIsBoolean == \A draw : Fails(draw) \in BOOLEAN
  BY DEF Fails

LEMMA TypeStep == TypeOK /\ [Next]_vars => TypeOK'
  <1> SUFFICES ASSUME TypeOK, [Next]_vars PROVE TypeOK'
    OBVIOUS
  <1> USE KnobsAssumption DEF TypeOK
  <1>1. ASSUME NEW c \in Call, Invoke(c) PROVE TypeOK'
    BY <1>1 DEF Invoke, stateVars, SetStreams, Streams, Fresh
  <1>2. ASSUME NEW c \in Call, Answer(c) PROVE TypeOK'
    <2> DEFINE fails == Fails(Draw[seededFrom][failureDrawn + 1])
               answer == [rate |-> rate, failed |-> fails]
    <2>1. fails \in BOOLEAN
      BY FailsIsBoolean
    <2>2. answer \in [rate : Rate, failed : BOOLEAN]
      BY <2>1
    <2>3. answers' = Append(answers, answer)
      BY <1>2 DEF Answer
    <2>4. answers' \in Seq([rate : Rate, failed : BOOLEAN])
      BY <2>2, <2>3
    <2>5. failed' \in [Call -> BOOLEAN]
      BY <1>2, <2>1 DEF Answer
    <2> QED
      BY <1>2, <2>1, <2>4, <2>5
         DEF Answer, stateVars, SetStreams, Streams, AfterDraw
  <1>3. ASSUME NEW c \in Call, Cancel(c) PROVE TypeOK'
    BY <1>3 DEF Cancel, stateVars, streamVars
  <1>4. ASSUME NEW b \in Body, Accept(b) PROVE TypeOK'
    <2>1. rate' \in Rate /\ sigma' \in {0, 1} /\ seed' \in Seed
      BY <1>4 DEF Accept, Body, Given
    <2>2. CASE b.seed = None
      BY <1>4, <2>1, <2>2 DEF Accept, streamVars, callVars
    <2>3. CASE b.seed # None
      <3>1. b.seed \in Seed
        BY <2>3 DEF Body
      <3> QED
        BY <1>4, <2>1, <2>3, <3>1 DEF Accept, Reseed, SetStreams, Fresh, callVars
    <2> QED
      BY <2>2, <2>3
  <1>5. ASSUME NEW b \in Body, Refuse(b) PROVE TypeOK'
    BY <1>5 DEF Refuse, Body, Given, streamVars, callVars
  <1>6. ASSUME NEW s \in Seed, AssignSeed(s) PROVE TypeOK'
    BY <1>6 DEF AssignSeed, streamVars, callVars
  <1>7. CASE UNCHANGED vars
    BY <1>7 DEF vars, stateVars, streamVars, callVars
  <1> QED
    BY <1>1, <1>2, <1>3, <1>4, <1>5, <1>6, <1>7 DEF Next

\* Type correctness; no refused value ever reaches the chaos state.
THEOREM TypeCorrect == Spec => []TypeOK
  <1>1. Init => TypeOK
    BY MockAssumption DEF Init, TypeOK
  <1> QED
    BY <1>1, TypeStep, PTL DEF Spec

-----------------------------------------------------------------------------
(* The failure sequence.  The invariant is inductive with the types: an    *)
(* answer takes the next draw, and whatever restarts the streams forgets   *)
(* the answers.                                                            *)
LEMMA SequenceStep ==
    TypeOK /\ FailureSequence /\ [Next]_vars => FailureSequence'
  <1> SUFFICES ASSUME TypeOK, FailureSequence, [Next]_vars
               PROVE  FailureSequence'
    OBVIOUS
  <1> USE DEF FailureSequence
  <1>1. ASSUME NEW c \in Call, Invoke(c) PROVE FailureSequence'
    <2>1. CASE seed = seededFrom
      BY <1>1, <2>1 DEF Invoke, SetStreams, Streams
    <2>2. CASE seed # seededFrom
      BY <1>1, <2>2 DEF Invoke, SetStreams, Fresh
    <2> QED
      BY <2>1, <2>2
  <1>2. ASSUME NEW c \in Call, Answer(c) PROVE FailureSequence'
    <2> DEFINE k == failureDrawn + 1
               fails == Fails(Draw[seededFrom][k])
               answer == [rate |-> rate, failed |-> fails]
    <2>1. /\ answers' = Append(answers, answer)
          /\ seededFrom' = seededFrom
          /\ failureDrawn' = failureDrawn + 1
      BY <1>2 DEF Answer, SetStreams, Streams, AfterDraw
    <2>2. /\ Len(answers') = Len(answers) + 1
          /\ \A i \in 1 .. Len(answers) : answers'[i] = answers[i]
          /\ answers'[Len(answers) + 1] = answer
      BY <2>1 DEF TypeOK
    <2>3. answer.failed <=> Draw[seededFrom][k] < answer.rate
      BY DEF Fails
    <2>4. k = Len(answers) + 1
      OBVIOUS
    <2>5. ASSUME NEW i \in DOMAIN answers'
          PROVE  answers'[i].failed <=> Draw[seededFrom'][i] < answers'[i].rate
      <3>1. CASE i = k
        BY <2>1, <2>2, <2>3, <2>4, <3>1
      <3>2. CASE i # k
        <4>1. i \in DOMAIN answers /\ answers'[i] = answers[i]
          BY <2>1, <2>2, <2>4, <3>2 DEF TypeOK
        <4> QED
          BY <2>1, <4>1
      <3> QED
        BY <3>1, <3>2
    <2> QED
      BY <2>1, <2>2, <2>5 DEF TypeOK
  <1>3. ASSUME NEW c \in Call, Cancel(c) PROVE FailureSequence'
    BY <1>3 DEF Cancel, streamVars
  <1>4. ASSUME NEW b \in Body, Accept(b) PROVE FailureSequence'
    <2>1. CASE b.seed = None
      BY <1>4, <2>1 DEF Accept, streamVars
    <2>2. CASE b.seed # None
      BY <1>4, <2>2 DEF Accept, Reseed, SetStreams, Fresh
    <2> QED
      BY <2>1, <2>2
  <1>5. ASSUME NEW b \in Body, Refuse(b) PROVE FailureSequence'
    BY <1>5 DEF Refuse, streamVars
  <1>6. ASSUME NEW s \in Seed, AssignSeed(s) PROVE FailureSequence'
    BY <1>6 DEF AssignSeed, streamVars
  <1>7. CASE UNCHANGED vars
    BY <1>7 DEF vars, streamVars
  <1> QED
    BY <1>1, <1>2, <1>3, <1>4, <1>5, <1>6, <1>7 DEF Next

\* mock.py:121: which calls fail, in the order they answer, is a function of
\* the seed and the error rate alone.
THEOREM FailuresFollowTheSeed == Spec => []FailureSequence
  <1>1. Init => FailureSequence
    BY DEF Init, FailureSequence
  <1>2. Init => TypeOK
    BY MockAssumption DEF Init, TypeOK
  <1> QED
    BY <1>1, <1>2, TypeStep, SequenceStep, PTL DEF Spec

-----------------------------------------------------------------------------
(* The ends of the scale.  A draw that was taken is a draw of its seed.    *)
Drawn == failureDrawn <= Len(Draw[seededFrom])

LEMMA DrawnStep == TypeOK /\ Drawn /\ [Next]_vars => Drawn'
  <1> SUFFICES ASSUME TypeOK, Drawn, [Next]_vars PROVE Drawn'
    OBVIOUS
  <1>1. \A s \in Seed : Len(Draw[s]) \in Nat
    BY MockAssumption
  <1> USE <1>1 DEF Drawn, TypeOK
  <1>2. ASSUME NEW c \in Call, Invoke(c) PROVE Drawn'
    BY <1>2 DEF Invoke, SetStreams, Streams, Fresh
  <1>3. ASSUME NEW c \in Call, Answer(c) PROVE Drawn'
    BY <1>3 DEF Answer, SetStreams, Streams, AfterDraw
  <1>4. ASSUME NEW c \in Call, Cancel(c) PROVE Drawn'
    BY <1>4 DEF Cancel, streamVars
  <1>5. ASSUME NEW b \in Body, Accept(b) PROVE Drawn'
    <2>1. CASE b.seed = None
      BY <1>5, <2>1 DEF Accept, streamVars
    <2>2. CASE b.seed # None
      BY <1>5, <2>2 DEF Accept, Reseed, SetStreams, Fresh, Body
    <2> QED
      BY <2>1, <2>2
  <1>6. ASSUME NEW b \in Body, Refuse(b) PROVE Drawn'
    BY <1>6 DEF Refuse, streamVars
  <1>7. ASSUME NEW s \in Seed, AssignSeed(s) PROVE Drawn'
    BY <1>7 DEF AssignSeed, streamVars
  <1>8. CASE UNCHANGED vars
    BY <1>8 DEF vars, streamVars
  <1> QED
    BY <1>2, <1>3, <1>4, <1>5, <1>6, <1>7, <1>8 DEF Next

LEMMA LimitsFollow == TypeOK /\ FailureSequence /\ Drawn => RateLimitsAreExact
  <1> SUFFICES ASSUME TypeOK, FailureSequence, Drawn, NEW k \in DOMAIN answers
               PROVE  /\ answers[k].rate = 0 => ~answers[k].failed
                      /\ answers[k].rate = Scale => answers[k].failed
    BY DEF RateLimitsAreExact
  <1>1. Draw[seededFrom] \in Seq(0 .. Scale - 1)
    BY MockAssumption DEF TypeOK
  <1>2. k \in 1 .. Len(Draw[seededFrom])
    BY <1>1 DEF TypeOK, FailureSequence, Drawn
  <1>3. Draw[seededFrom][k] \in 0 .. Scale - 1
    <2> DEFINE Draws == 0 .. Scale - 1
    <2>1. Draw[seededFrom] \in Seq(Draws)
      BY <1>1
    <2> HIDE DEF Draws
    <2>2. Draw[seededFrom][k] \in Draws
      BY <2>1, <1>2
    <2> QED
      BY <2>2 DEF Draws
  <1>4. answers[k].failed <=> Draw[seededFrom][k] < answers[k].rate
    BY DEF FailureSequence
  <1> QED
    BY <1>3, <1>4, MockAssumption

\* mock.py:73: at rate 0.0 no answer is a failure, at 1.0 every one is.
THEOREM LimitsAreExact == Spec => []RateLimitsAreExact
  <1>1. Init => TypeOK /\ FailureSequence /\ Drawn
    BY MockAssumption DEF Init, TypeOK, FailureSequence, Drawn
  <1> QED
    BY <1>1, TypeStep, SequenceStep, DrawnStep, LimitsFollow, PTL DEF Spec
=============================================================================

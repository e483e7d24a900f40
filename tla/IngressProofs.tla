--------------------------- MODULE IngressProofs ---------------------------
(* The ingress for every set of fields, values and classes: what is let in *)
(* is sound, and what is not is told all it has to correct.                *)
EXTENDS Ingress, TLAPS

LEMMA RequiredFields ==
    /\ Required \subseteq Field
    /\ {"request_id", "request_class", "idempotency_key"} \subseteq Field
    /\ "idempotency_key" \notin Required
  BY FieldsAssumption

\* A request's values are texts of their field, or stand for none.
LEMMA RequestShape ==
    ASSUME NEW r \in Requests
    PROVE  /\ \A f \in Field : r.headers[f] \in TextOf[f] \cup {Absent, Blank}
           /\ \A f \in Field : r.extension[f] \in TextOf[f] \cup {Absent, Blank, Wrong}
           /\ r = [headers |-> r.headers, extension |-> r.extension,
                   extra |-> r.extra, body |-> r.body, stream |-> r.stream]
           /\ DOMAIN r.headers = Field /\ DOMAIN r.extension = Field
           /\ r.extra \subseteq {"deferrable"}
           /\ r.body \in {"object", "bad extension", "not an object"}
           /\ r.body # "object" => r.extension = NoFields /\ r.extra = {}
  BY DEF Requests, ValuesOf

LEMMA Texts ==
    /\ ~Text(Absent) /\ ~Text(Blank) /\ ~Text(Wrong)
    /\ \A f \in Field : \A v \in TextOf[f] : Text(v)
    /\ \A c \in Class : Text(c)
  BY FieldsAssumption, ClassesAssumption DEF Text

LEMMA ResolveShape ==
    ASSUME NEW r \in Requests, NEW f \in Field
    PROVE  /\ Resolve(r, f) \in TextOf[f] \cup {Absent}
           /\ Text(Resolve(r, f)) <=> Resolve(r, f) # Absent
           /\ Text(r.headers[f]) => Resolve(r, f) = r.headers[f]
           /\ Text(r.extension[f]) => Text(Resolve(r, f))
  <1>1. /\ r.headers[f] \in TextOf[f] \cup {Absent, Blank}
        /\ r.extension[f] \in TextOf[f] \cup {Absent, Blank, Wrong}
    BY RequestShape
  <1> QED
    BY <1>1, Texts DEF Resolve, Text

-----------------------------------------------------------------------------
(* Types.                                                                  *)
LEMMA ProblemsShape ==
    ASSUME NEW r \in Requests
    PROVE  Problems(r) \subseteq ProblemKind
  <1>1. r.extra \subseteq {"deferrable"}
    BY RequestShape
  <1>2. StructuralProblems(r) \subseteq ProblemKind
    <2>1. {Problem("x_keel", "invalid")} \subseteq ProblemKind
      BY DEF Problem, ProblemKind
    <2>2. \A k \in r.extra : Problem(k, "unknown_field") \in ProblemKind
      BY <1>1 DEF Problem, ProblemKind
    <2>3. \A f \in Field : Problem(f, "invalid") \in ProblemKind
      BY DEF Problem, ProblemKind
    <2> QED
      BY <2>1, <2>2, <2>3 DEF StructuralProblems
  <1>3. MissingProblems(r) \subseteq ProblemKind
    BY RequiredFields DEF MissingProblems, Problem, ProblemKind
  <1>4. ClassProblems(r) \subseteq ProblemKind
    BY RequiredFields DEF ClassProblems, Problem, ProblemKind
  <1> QED
    BY <1>2, <1>3, <1>4 DEF Problems

LEMMA IdShape ==
    ASSUME NEW r \in Requests
    PROVE  /\ IdOf(r) \in TextOf["request_id"] \cup {Absent}
           /\ r.headers["request_id"] \in TextOf["request_id"] \cup {Absent, Blank}
  BY ResolveShape, RequestShape, RequiredFields DEF IdOf

LEMMA RejectedIsTyped ==
    ASSUME TypeOK, NEW code \in {"invalid_request", "missing_metadata"},
           NEW id \in TextOf["request_id"] \cup {Absent, Blank},
           NEW problems \in SUBSET ProblemKind,
           Rejected(code, problems, id)
    PROVE  TypeOK'
  <1>1. reply' \in Rejection
    BY DEF Rejected, Rejection
  <1>2. reply' # Absent
    BY <1>1, RejectionAssumption
  <1> QED
    BY <1>1, <1>2 DEF Rejected, TypeOK

LEMMA TypeStep == TypeOK /\ [Next]_vars => TypeOK'
  <1> SUFFICES ASSUME TypeOK, [Next]_vars PROVE TypeOK'
    OBVIOUS
  <1>0. request \in Requests
    BY DEF TypeOK
  <1>1. CASE RejectBody
    <2>1. {Problem("body", "invalid")} \in SUBSET ProblemKind
      BY DEF Problem, ProblemKind
    <2> QED
      BY <1>0, <1>1, <2>1, IdShape, RejectedIsTyped DEF RejectBody
  <1>2. CASE RejectEnvelope
    <2>1. CodeOf(Problems(request)) \in {"invalid_request", "missing_metadata"}
      BY DEF CodeOf
    <2>2. IdOf(request) \in TextOf["request_id"] \cup {Absent, Blank}
      BY <1>0, IdShape
    <2>3. Problems(request) \in SUBSET ProblemKind
      BY <1>0, ProblemsShape
    <2> QED
      BY <1>2, <2>1, <2>2, <2>3, RejectedIsTyped DEF RejectEnvelope
  <1>3. CASE RejectStreaming
    <2>1. reply' \in Rejection
      BY <1>0, <1>3, IdShape DEF RejectStreaming, Rejection, Problem, ProblemKind
    <2>2. reply' # Absent
      BY <2>1, RejectionAssumption
    <2> QED
      BY <1>3, <2>1, <2>2 DEF RejectStreaming, TypeOK
  <1>4. CASE Accept
    <2>1. \A f \in Field : envelope'.values[f] \in TextOf[f] \cup {Absent}
      BY <1>0, <1>4, ResolveShape DEF Accept, EnvelopeOf
    <2> QED
      BY <1>4, <2>1 DEF Accept, TypeOK
  <1>5. CASE Complete
    BY <1>5 DEF Complete, TypeOK
  <1>6. CASE UNCHANGED vars
    BY <1>6 DEF vars, TypeOK
  <1> QED
    BY <1>1, <1>2, <1>3, <1>4, <1>5, <1>6 DEF Next

\* Type correctness; no blank or mistyped value is let through.
THEOREM TypeCorrect == Spec => []TypeOK
  <1>1. Init => TypeOK
    BY DEF Init, TypeOK
  <1> QED
    BY <1>1, TypeStep, PTL DEF Spec

-----------------------------------------------------------------------------
(* Soundness.                                                              *)
LEMMA SoundHasAll ==
    ASSUME NEW r \in Requests, Sound(r)
    PROVE  /\ \A f \in Required : Resolve(r, f) # Absent
           /\ Resolve(r, "request_class") \in Class
           /\ Resolve(r, "request_class") \in Deferrable
                => Resolve(r, "idempotency_key") # Absent
           /\ r.extra = {}
  <1>1. /\ StructuralProblems(r) = {} /\ MissingProblems(r) = {}
        /\ ClassProblems(r) = {}
    BY DEF Sound, Problems
  <1>2. ASSUME NEW f \in Required PROVE Resolve(r, f) # Absent
    <2>1. Resolve(r, f) = Absent => Problem(f, "missing") \in MissingProblems(r)
      BY DEF MissingProblems
    <2> QED
      BY <1>1, <2>1
  <1>3. Resolve(r, "request_class") # Absent
    BY <1>2, FieldsAssumption
  <1>4. ASSUME NEW k \in r.extra PROVE FALSE
    <2>1. Problem(k, "unknown_field") \in StructuralProblems(r)
      BY DEF StructuralProblems
    <2> QED
      BY <1>1, <2>1
  <1> QED
    BY <1>1, <1>2, <1>3, <1>4 DEF ClassProblems, UnknownClass

LEMMA SoundStep == TypeOK /\ AcceptedIsSound /\ [Next]_vars => AcceptedIsSound'
  <1> SUFFICES ASSUME TypeOK, AcceptedIsSound, [Next]_vars PROVE AcceptedIsSound'
    OBVIOUS
  <1>0. request \in Requests
    BY DEF TypeOK
  <1>1. CASE Accept
    <2> DEFINE value(f) == Resolve(request, f)
    <2>1. /\ envelope'.values = [f \in Field |-> value(f)]
          /\ envelope'.deferrable = (value("request_class") \in Deferrable)
          /\ request' = request /\ ~request.stream
      BY <1>1 DEF Accept, EnvelopeOf
    <2>2. /\ \A f \in Required : value(f) # Absent
          /\ value("request_class") \in Class
          /\ value("request_class") \in Deferrable => value("idempotency_key") # Absent
          /\ request.extra = {}
      BY <1>0, <1>1, SoundHasAll DEF Accept
    <2>3. \A f \in Field : /\ Text(value(f)) <=> value(f) # Absent
                           /\ Text(request.headers[f]) => value(f) = request.headers[f]
      BY <1>0, ResolveShape
    <2> HIDE DEF value
    <2>4. \A f \in Required : Text(value(f))
      <3>1. \A f \in Required : f \in Field
        BY RequiredFields
      <3> QED
        BY <2>2, <2>3, <3>1, Zenon
    <2>5. value("request_class") \in Deferrable => Text(value("idempotency_key"))
      BY <2>2, <2>3, RequiredFields
    <2>6. /\ \A f \in Field : envelope'.values[f] = value(f)
          /\ \A f \in Required : envelope'.values[f] = value(f)
          /\ envelope'.values["request_class"] = value("request_class")
          /\ envelope'.values["idempotency_key"] = value("idempotency_key")
      BY <2>1, RequiredFields
    <2> QED
      BY <2>1, <2>2, <2>3, <2>4, <2>5, <2>6 DEF AcceptedIsSound
  <1>2. CASE RejectBody \/ RejectEnvelope
    BY <1>2 DEF RejectBody, RejectEnvelope, Rejected, AcceptedIsSound
  <1>3. CASE RejectStreaming
    BY <1>3 DEF RejectStreaming, AcceptedIsSound
  <1>4. CASE Complete
    BY <1>4 DEF Complete, AcceptedIsSound
  <1>5. CASE UNCHANGED vars
    BY <1>5 DEF vars, AcceptedIsSound
  <1> QED
    BY <1>1, <1>2, <1>3, <1>4, <1>5 DEF Next

\* What reaches the executor is complete, of a configured class, and prefers
\* headers to the body, whatever fields and classes there are.
THEOREM AcceptsTheSound == Spec => []AcceptedIsSound
  <1>1. Init => AcceptedIsSound
    BY DEF Init, AcceptedIsSound
  <1> QED
    BY <1>1, TypeCorrect, SoundStep, PTL DEF Spec

-----------------------------------------------------------------------------
(* Rejections.                                                             *)
LEMMA EchoStep == TypeOK /\ RejectionEchoesId /\ [Next]_vars => RejectionEchoesId'
  <1> SUFFICES ASSUME TypeOK, RejectionEchoesId, [Next]_vars PROVE RejectionEchoesId'
    OBVIOUS
  <1>0. request \in Requests /\ "request_id" \in Field
    BY RequiredFields DEF TypeOK
  <1>1. /\ Text(request.headers["request_id"])
             => IdOf(request) = request.headers["request_id"]
        /\ Text(request.extension["request_id"]) => Text(IdOf(request))
    BY <1>0, ResolveShape DEF IdOf
  <1>2. CASE RejectBody
    <2>1. request.extension = NoFields
      BY <1>0, <1>2, RequestShape DEF RejectBody
    <2>2. request.extension["request_id"] = Absent
      BY <1>0, <2>1 DEF NoFields
    <2> QED
      BY <1>2, <2>2, Texts DEF RejectBody, Rejected, RejectionEchoesId
  <1>3. CASE RejectEnvelope
    BY <1>1, <1>3 DEF RejectEnvelope, Rejected, RejectionEchoesId
  <1>4. CASE RejectStreaming
    BY <1>1, <1>4 DEF RejectStreaming, RejectionEchoesId
  <1>5. CASE Accept \/ Complete
    BY <1>5 DEF Accept, Complete, RejectionEchoesId
  <1>6. CASE UNCHANGED vars
    BY <1>6 DEF vars, RejectionEchoesId
  <1> QED
    BY <1>2, <1>3, <1>4, <1>5, <1>6 DEF Next

\* A rejection carries the caller's id, in whichever place the caller put it.
THEOREM RejectionsEchoTheId == Spec => []RejectionEchoesId
  <1>1. Init => RejectionEchoesId
    BY DEF Init, RejectionEchoesId
  <1> QED
    BY <1>1, TypeCorrect, EchoStep, PTL DEF Spec

-----------------------------------------------------------------------------
(* The one round trip.  What a client supplies is a text, and what it      *)
(* keeps resolves as before, so no problem but a new class's can be left.  *)
LEMMA RepairedParts ==
    ASSUME NEW r \in Requests, NEW problems, NEW c \in Class, NEW f \in Field
    PROVE  LET next == Repaired(r, problems, c)
           IN  /\ Supplied(problems, f) =>
                    Text(next.headers[f]) /\ (f = "request_class" => next.headers[f] = c)
               /\ ~Supplied(problems, f) => next.headers[f] = r.headers[f]
               /\ next.extension[f] = IF Problem(f, "invalid") \in problems
                                      THEN Absent ELSE r.extension[f]
  <1>1. Text(Supply(f, c))
    <2>1. TextOf[f] # {}
      BY FieldsAssumption
    <2>2. (CHOOSE v \in TextOf[f] : TRUE) \in TextOf[f]
      BY <2>1
    <2> QED
      BY <2>2, Texts DEF Supply
  <1>2. f = "request_class" => Supply(f, c) = c
    BY DEF Supply
  <1> HIDE DEF Supply
  <1> QED
    BY <1>1, <1>2 DEF Repaired

\* What resolved to a text still does, and to the same one unless supplied.
LEMMA RepairKeeps ==
    ASSUME NEW r \in Requests, NEW problems, NEW c \in Class, NEW f \in Field,
           Problem(f, "invalid") \in problems => ~Text(r.extension[f])
    PROVE  LET next == Repaired(r, problems, c)
           IN  /\ Supplied(problems, f) =>
                    Resolve(next, f) = next.headers[f] /\ Text(Resolve(next, f))
               /\ ~Supplied(problems, f) => Resolve(next, f) = Resolve(r, f)
  BY RepairedParts, Texts DEF Resolve

LEMMA SuppliedIs ==
    ASSUME NEW r \in Requests, NEW f \in Field
    PROVE  Supplied(Problems(r), f)
             <=> \/ Problem(f, "missing") \in MissingProblems(r) \cup ClassProblems(r)
                 \/ Problem(f, "unknown_request_class") \in ClassProblems(r)
  <1>1. ASSUME NEW p \in StructuralProblems(r)
        PROVE  p.code \in {"invalid", "unknown_field"}
    <2>1. \/ p = Problem("x_keel", "invalid")
          \/ \E k \in r.extra : p = Problem(k, "unknown_field")
          \/ \E g \in Field : p = Problem(g, "invalid")
      BY DEF StructuralProblems
    <2> QED
      BY <2>1 DEF Problem
  <1>2. \A p \in MissingProblems(r) : p = Problem(p.field, "missing")
    BY DEF MissingProblems, Problem
  <1>3. \A p \in ClassProblems(r) : \/ p = Problem(p.field, "missing")
                                    \/ p = Problem(p.field, "unknown_request_class")
    BY DEF ClassProblems, Problem
  <1>4. \A code : Problem(f, code).field = f /\ Problem(f, code).code = code
    BY DEF Problem
  <1> QED
    BY <1>1, <1>2, <1>3, <1>4 DEF Problems, Supplied

LEMMA InvalidIs ==
    ASSUME NEW r \in Requests, NEW f \in Field
    PROVE  Problem(f, "invalid") \in Problems(r)
             <=> ~Text(r.headers[f]) /\ r.extension[f] = Wrong
  <1>1. Problem(f, "invalid") \notin MissingProblems(r) \cup ClassProblems(r)
    BY DEF MissingProblems, ClassProblems, Problem
  <1>2. f # "x_keel"
    BY FieldsAssumption
  <1>3. Problem(f, "invalid") # Problem("x_keel", "invalid")
    BY <1>2 DEF Problem
  <1>4. \A k : Problem(f, "invalid") # Problem(k, "unknown_field")
    BY DEF Problem
  <1>5. \A g : Problem(f, "invalid") = Problem(g, "invalid") => f = g
    BY DEF Problem
  <1> QED
    BY <1>1, <1>3, <1>4, <1>5 DEF Problems, StructuralProblems

LEMMA OneRoundTrip ==
    ASSUME NEW r \in Requests, NEW c \in Class
    PROVE  LET next == Repaired(r, Problems(r), c)
           IN  \/ Problems(next) = {}
               \/ /\ next.headers["request_class"] # r.headers["request_class"]
                  /\ c \in Deferrable
                  /\ Problems(next) = {Problem("idempotency_key", "missing")}
  <1> DEFINE P == Problems(r)
             next == Repaired(r, P, c)
             Name == "request_class"
             Key == "idempotency_key"
  <1>0. Name \in Required /\ Name \in Field /\ Key \in Field /\ Key \notin Required
    BY FieldsAssumption, RequiredFields
  <1>1. \A f \in Field :
          /\ Supplied(P, f) => Resolve(next, f) = next.headers[f] /\ Text(Resolve(next, f))
          /\ ~Supplied(P, f) => Resolve(next, f) = Resolve(r, f)
    <2>1. \A f \in Field : Problem(f, "invalid") \in P => ~Text(r.extension[f])
      BY InvalidIs, Texts
    <2> QED
      BY <2>1, RepairKeeps
  <1>2. StructuralProblems(next) = {}
    <2>1. next.body # "bad extension"
      BY DEF Problems, StructuralProblems, Repaired
    <2>2. next.extra = {}
      BY DEF Problems, StructuralProblems, Repaired
    <2>3. ASSUME NEW f \in Field, ~Text(next.headers[f]), next.extension[f] = Wrong
          PROVE  FALSE
      <3>1. next.headers[f] = r.headers[f]
        BY <2>3, RepairedParts
      <3>2. Problem(f, "invalid") \notin P /\ r.extension[f] = Wrong
        BY <2>3, RepairedParts, FieldsAssumption
      <3> QED
        BY <2>3, <3>1, <3>2, InvalidIs
    <2> HIDE DEF next
    <2> QED
      BY <2>1, <2>2, <2>3 DEF StructuralProblems
  <1>3. MissingProblems(next) = {}
    <2>1. ASSUME NEW f \in Required PROVE Resolve(next, f) # Absent
      <3>1. f \in Field
        BY RequiredFields
      <3>2. Resolve(r, f) = Absent => Supplied(P, f)
        BY <3>1, SuppliedIs DEF MissingProblems
      <3> QED
        BY <1>1, <3>1, <3>2, Texts
    <2> QED
      BY <2>1 DEF MissingProblems
  <1>4. Resolve(r, Key) = Absent /\ ~Supplied(P, Key)
          => ~(Resolve(r, Name) \in Class /\ Resolve(r, Name) \in Deferrable)
    BY <1>0, SuppliedIs, Texts DEF ClassProblems, UnknownClass
  <1>5. Resolve(next, Key) = Absent => Resolve(r, Key) = Absent /\ ~Supplied(P, Key)
    BY <1>0, <1>1, Texts
  <1>6. CASE Supplied(P, Name)
    <2>1. next.headers[Name] = c /\ Resolve(next, Name) = c
      BY <1>0, <1>1, <1>6, RepairedParts
    <2>2. Resolve(r, Name) \notin Class
      <3>1. \/ Problem(Name, "missing") \in MissingProblems(r)
            \/ Problem(Name, "missing") \in ClassProblems(r)
            \/ Problem(Name, "unknown_request_class") \in ClassProblems(r)
        BY <1>0, <1>6, SuppliedIs
      <3>2. CASE Problem(Name, "missing") \in MissingProblems(r)
        BY <3>2, Texts DEF MissingProblems, Problem
      <3>3. Problem(Name, "missing") \notin ClassProblems(r)
        BY <1>0 DEF ClassProblems, Problem
      <3>4. CASE Problem(Name, "unknown_request_class") \in ClassProblems(r)
        BY <3>4 DEF ClassProblems, UnknownClass, Problem
      <3> QED
        BY <3>1, <3>2, <3>3, <3>4
    <2>3. c # r.headers[Name]
      BY <1>0, <2>2, ResolveShape, Texts
    <2>4. ~UnknownClass(next)
      BY <2>1 DEF UnknownClass
    <2> HIDE DEF next
    <2>5. ClassProblems(next) \in {{}, {Problem(Key, "missing")}}
          /\ (c \notin Deferrable => ClassProblems(next) = {})
      BY <2>1, <2>4 DEF ClassProblems
    <2> QED
      BY <1>2, <1>3, <2>1, <2>3, <2>5 DEF Problems, next
  <1>7. CASE ~Supplied(P, Name)
    <2>1. Resolve(next, Name) = Resolve(r, Name)
      BY <1>0, <1>1, <1>7
    <2>2. Resolve(r, Name) \in Class
      <3>1. Resolve(r, Name) # Absent
        BY <1>0, <1>7, SuppliedIs DEF MissingProblems
      <3>2. ~UnknownClass(r)
        BY <1>0, <1>7, SuppliedIs DEF ClassProblems
      <3> QED
        BY <3>1, <3>2 DEF UnknownClass
    <2> HIDE DEF next
    <2>3. ClassProblems(next) = {}
      BY <1>4, <1>5, <2>1, <2>2 DEF ClassProblems, UnknownClass
    <2> QED
      BY <1>2, <1>3, <2>3 DEF Problems, next
  <1> QED
    BY <1>6, <1>7

\* A rejection for the stream alone leaves nothing else to correct.
LEMMA StreamRoundTrip ==
    ASSUME NEW r \in Requests, NEW c \in Class, Problems(r) = {}
    PROVE  Problems(Repaired(r, {Problem("stream", "invalid")}, c)) = {}
  <1> DEFINE P == {Problem("stream", "invalid")}
             next == Repaired(r, P, c)
  <1>1. next.extra = r.extra /\ next.body = r.body
    BY DEF Repaired, Problem
  <1>2. ASSUME NEW f \in Field
        PROVE  next.headers[f] = r.headers[f] /\ next.extension[f] = r.extension[f]
    <2>1. ~Supplied(P, f) /\ Problem(f, "invalid") \notin P
      BY FieldsAssumption DEF Supplied, Problem
    <2> QED
      BY <2>1, RepairedParts
  <1>3. \A f \in Field : Resolve(next, f) = Resolve(r, f)
    BY <1>2 DEF Resolve
  <1> HIDE DEF next
  <1>4. StructuralProblems(next) = StructuralProblems(r)
    BY <1>1, <1>2 DEF StructuralProblems
  <1>5. MissingProblems(next) = MissingProblems(r)
    BY <1>3, RequiredFields DEF MissingProblems
  <1>6. ClassProblems(next) = ClassProblems(r)
    BY <1>3, RequiredFields DEF ClassProblems, UnknownClass
  <1> QED
    BY <1>4, <1>5, <1>6 DEF Problems, next

LEMMA RoundTripStep == TypeOK /\ OneRoundTripFixes /\ [Next]_vars => OneRoundTripFixes'
  <1> SUFFICES ASSUME TypeOK, OneRoundTripFixes, [Next]_vars PROVE OneRoundTripFixes'
    OBVIOUS
  <1>0. request \in Requests
    BY DEF TypeOK
  <1>1. CASE RejectBody
    BY <1>1 DEF RejectBody, Rejected, OneRoundTripFixes
  <1>2. CASE RejectEnvelope
    <2>1. reply'.problems = Problems(request) /\ request' = request
      BY <1>2 DEF RejectEnvelope, Rejected
    <2> QED
      BY <1>0, <2>1, OneRoundTrip DEF OneRoundTripFixes
  <1>3. CASE RejectStreaming
    <2>1. /\ reply'.problems = {Problem("stream", "invalid")} /\ request' = request
          /\ Problems(request) = {}
      BY <1>3 DEF RejectStreaming, Sound
    <2> QED
      BY <1>0, <2>1, StreamRoundTrip DEF OneRoundTripFixes
  <1>4. CASE Accept \/ Complete
    BY <1>4 DEF Accept, Complete, OneRoundTripFixes
  <1>5. CASE UNCHANGED vars
    BY <1>5 DEF vars, OneRoundTripFixes
  <1> QED
    BY <1>1, <1>2, <1>3, <1>4, <1>5 DEF Next

\* A rejection names all there is to correct, for every set of fields, values
\* and classes: one round trip is enough, but for a new class's own demand.
THEOREM OneRoundTripIsEnough == Spec => []OneRoundTripFixes
  <1>1. Init => OneRoundTripFixes
    BY DEF Init, OneRoundTripFixes
  <1> QED
    BY <1>1, TypeCorrect, RoundTripStep, PTL DEF Spec
=============================================================================

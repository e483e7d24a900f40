------------------------------ MODULE Ingress ------------------------------
(***************************************************************************)
(* The way in: POST /v1/chat/completions from the request's bytes to the   *)
(* envelope or the rejection (keel/api/app.py, keel/api/envelope.py,       *)
(* keel/api/errors.py), and the log context bound on the way (FR-7.3).     *)
(*                                                                         *)
(* Every request has a task and a context of its own, so one request       *)
(* stands for all; what varies is what it carries, in its headers and in   *)
(* the x_keel extension of its body.  tenant stands for feature too.       *)
(***************************************************************************)
EXTENDS FiniteSets

CONSTANTS
    Field,       \* the string fields of the envelope
    Required,    \* those of _REQUIRED
    TextOf,      \* the values clients give each field, apart from Blank
    Class,       \* config.request_classes
    Deferrable,  \* the classes that are deferrable
    Absent,      \* no such header, key or extension
    Blank,       \* a string of nothing but white space
    Wrong        \* a JSON value of another type

ASSUME FieldsAssumption ==
    /\ Required \subseteq Field
    /\ {"request_id", "request_class"} \subseteq Required
    /\ "idempotency_key" \in Field \ Required
    /\ {"x_keel", "stream", "body"} \cap Field = {}
    /\ Absent # Wrong
    /\ \A f \in Field : TextOf[f] # {} /\ {Absent, Blank, Wrong} \cap TextOf[f] = {}

ASSUME ClassesAssumption ==
    /\ Deferrable \subseteq Class /\ Class # {}
    /\ {Absent, Blank, Wrong} \cap Class = {}

\* The body of an error, as far as a client may act on it.
ProblemKind ==
    [field : Field \cup {"x_keel", "stream", "body", "deferrable"},
     code : {"invalid", "unknown_field", "missing", "unknown_request_class"}]

Rejection ==
    [code : {"invalid_request", "missing_metadata"}, problems : SUBSET ProblemKind,
     request_id : TextOf["request_id"] \cup {Absent, Blank}]

ASSUME RejectionAssumption == Absent \notin Rejection

VARIABLES
    request,   \* what the client sent
    stage,     \* received, calling, answered or rejected
    envelope,  \* the RequestEnvelope, once there is one
    reply,     \* the rejection, once there is one
    context,   \* the bound contextvars
    lines      \* the contexts of the lines logged

vars == <<request, stage, envelope, reply, context, lines>>

\* A body with no x_keel object offers no extension fields.
NoFields == [f \in Field |-> Absent]

-----------------------------------------------------------------------------
(* build_envelope, on a request r whose body is a JSON object.             *)
Text(v) == v \notin {Absent, Blank, Wrong}

ExtensionFirst(r, f) ==                                \* mutant of Resolve
    IF Text(r.extension[f]) THEN r.extension[f] ELSE r.headers[f]

\* Mutant of Resolve: whatever is there, blank or of another type.
AnyValue(r, f) ==
    IF r.headers[f] # Absent THEN r.headers[f] ELSE r.extension[f]

\* _resolve: the header unless it is blank, then the extension.
Resolve(r, f) ==
    IF Text(r.headers[f]) THEN r.headers[f]
    ELSE IF Text(r.extension[f]) THEN r.extension[f] ELSE Absent

Problem(f, code) == [field |-> f, code |-> code]

\* _split_extension, and the types _resolve refuses.
StructuralProblems(r) ==
    (IF r.body = "bad extension" THEN {Problem("x_keel", "invalid")} ELSE {})
    \cup {Problem(k, "unknown_field") : k \in r.extra}
    \cup {Problem(f, "invalid") :
             f \in {g \in Field : ~Text(r.headers[g]) /\ r.extension[g] = Wrong}}

MissingProblems(r) ==
    {Problem(f, "missing") : f \in {g \in Required : Resolve(r, g) = Absent}}

UnknownClass(r) ==
    /\ Resolve(r, "request_class") # Absent
    /\ Resolve(r, "request_class") \notin Class

ClassProblems(r) ==
    IF UnknownClass(r) THEN {Problem("request_class", "unknown_request_class")}
    ELSE IF /\ Resolve(r, "request_class") \in Deferrable
            /\ Resolve(r, "idempotency_key") = Absent
         THEN {Problem("idempotency_key", "missing")}
         ELSE {}

ProblemsOfOneKind(r) ==                                \* mutant of Problems
    IF StructuralProblems(r) # {} THEN StructuralProblems(r)
    ELSE MissingProblems(r) \cup ClassProblems(r)

Problems(r) == StructuralProblems(r) \cup MissingProblems(r) \cup ClassProblems(r)

\* raise_for: a structural problem anywhere makes the whole request malformed.
CodeOf(problems) ==
    IF \E p \in problems : p.code \in {"invalid", "unknown_field"}
    THEN "invalid_request" ELSE "missing_metadata"

EnvelopeOf(r) ==
    [values |-> [f \in Field |-> Resolve(r, f)],
     deferrable |-> Resolve(r, "request_class") \in Deferrable]

-----------------------------------------------------------------------------
\* What a client may send: an extension only in an object that has one.
ValuesOf(others) ==
    {v \in [Field -> UNION {TextOf[f] : f \in Field} \cup others] :
        \A f \in Field : v[f] \in TextOf[f] \cup others}

Requests ==
    {r \in [headers : ValuesOf({Absent, Blank}),
            extension : ValuesOf({Absent, Blank, Wrong}),
            extra : {{}, {"deferrable"}},
            body : {"object", "bad extension", "not an object"},
            stream : BOOLEAN] :
        r.body # "object" => r.extension = NoFields /\ r.extra = {}}

\* The route has bound the raw header and awaits the body.
Init ==
    /\ request \in Requests
    /\ stage = "received"
    /\ envelope = Absent
    /\ reply = Absent
    /\ context = [request_id |-> request.headers["request_id"],
                  tenant |-> Absent, request_class |-> Absent]
    /\ lines = {}

Rejected(code, problems, id) ==
    /\ stage' = "rejected"
    /\ reply' = [code |-> code, problems |-> problems, request_id |-> id]
    /\ lines' = lines \cup {context}
    /\ UNCHANGED <<request, envelope, context>>

\* _decode_body: there is no extension to search for problems or an id.
RejectBody ==
    /\ stage = "received" /\ request.body = "not an object"
    /\ Rejected("invalid_request", {Problem("body", "invalid")},
                request.headers["request_id"])

HeaderId(r) == r.headers["request_id"]                 \* mutant of IdOf
IdOf(r) == Resolve(r, "request_id")

RejectEnvelope ==
    /\ stage = "received" /\ request.body # "not an object"
    /\ Problems(request) # {}
    /\ Rejected(CodeOf(Problems(request)), Problems(request), IdOf(request))

Sound(r) == r.body # "not an object" /\ Problems(r) = {}

\* _reject_streaming comes after the envelope and its bindings.
RejectStreaming ==
    /\ stage = "received" /\ Sound(request) /\ request.stream
    /\ stage' = "rejected"
    /\ reply' = [code |-> "invalid_request", request_id |-> IdOf(request),
                 problems |-> {Problem("stream", "invalid")}]
    /\ context' = [context EXCEPT !.tenant = Resolve(request, "tenant"),
                                  !.request_class = Resolve(request, "request_class")]
    /\ lines' = lines \cup {context'}
    /\ UNCHANGED <<request, envelope>>

Accept ==
    /\ stage = "received" /\ Sound(request) /\ ~request.stream
    /\ stage' = "calling"
    /\ envelope' = EnvelopeOf(request)
    /\ context' = [context EXCEPT !.tenant = Resolve(request, "tenant"),
                                  !.request_class = Resolve(request, "request_class")]
    /\ UNCHANGED <<request, reply, lines>>

\* provider_attempt and request_completed are logged in the same context.
Complete ==
    /\ stage = "calling"
    /\ stage' = "answered"
    /\ lines' = lines \cup {context}
    /\ UNCHANGED <<request, envelope, reply, context>>

Next == RejectBody \/ RejectEnvelope \/ RejectStreaming \/ Accept \/ Complete

Spec == Init /\ [][Next]_vars

-----------------------------------------------------------------------------
(* What a client makes of a rejection: it corrects what was reported, and  *)
(* nothing else, naming class c if its class was a problem.                *)
Supplied(problems, f) ==
    \E p \in problems :
        p.field = f /\ p.code \in {"missing", "unknown_request_class"}

Supply(f, c) == IF f = "request_class" THEN c ELSE CHOOSE v \in TextOf[f] : TRUE

Repaired(r, problems, c) ==
    [headers |-> [f \in Field |->
         IF Supplied(problems, f) THEN Supply(f, c) ELSE r.headers[f]],
     extension |-> [f \in Field |->
         IF Problem(f, "invalid") \in problems THEN Absent ELSE r.extension[f]],
     extra |-> {k \in r.extra : Problem(k, "unknown_field") \notin problems},
     body |-> IF Problem("x_keel", "invalid") \in problems THEN "object" ELSE r.body,
     stream |-> r.stream]

(* Properties.                                                             *)

\* Every variable keeps its type; no blank or mistyped value is let through.
TypeOK ==
    /\ request \in Requests
    /\ stage \in {"received", "calling", "answered", "rejected"}
    /\ envelope # Absent => \A f \in Field :
          envelope.values[f] \in TextOf[f] \cup {Absent}
    /\ reply \in Rejection \cup {Absent}
    /\ reply = Absent <=> stage # "rejected"

\* FR-1.3 "the whole problem list is collected and reported together": a client
\* that corrects what a rejection names is let in, but for an idempotency key
\* its newly named class turns out to need, and for streaming.
OneRoundTripFixes ==
    stage = "rejected" /\ request.body # "not an object" =>
        \A c \in Class :
            LET next == Repaired(request, reply.problems, c)
                reclassed == next.headers["request_class"] # request.headers["request_class"]
            IN  \/ Problems(next) = {}
                \/ /\ reclassed /\ c \in Deferrable
                   /\ Problems(next) = {Problem("idempotency_key", "missing")}

\* What reaches the executor is complete and of a configured class, says of
\* itself only what the configuration says, and prefers headers to the body.
AcceptedIsSound ==
    envelope # Absent =>
        /\ \A f \in Required : Text(envelope.values[f])
        /\ envelope.values["request_class"] \in Class
        /\ envelope.deferrable <=> envelope.values["request_class"] \in Deferrable
        /\ envelope.deferrable => Text(envelope.values["idempotency_key"])
        /\ request.extra = {} /\ ~request.stream
        /\ \A f \in Field :
              Text(request.headers[f]) => envelope.values[f] = request.headers[f]

\* ADR 0003 "error.keel.request_id echoes the caller's id", wherever the caller
\* put it and whatever else is wrong with the request.
RejectionEchoesId ==
    stage = "rejected" =>
        /\ Text(request.headers["request_id"]) =>
              reply.request_id = request.headers["request_id"]
        /\ Text(request.extension["request_id"]) => Text(reply.request_id)

\* README:217 logs are "correlated by request_id across every line a request
\* produces".
LinesCorrelate ==
    envelope # Absent =>
        \A l \in lines : l.request_id = envelope.values["request_id"]
=============================================================================

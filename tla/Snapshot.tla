------------------------------ MODULE Snapshot ------------------------------
(***************************************************************************)
(* From the end of an attempt to the evidence about its provider: the      *)
(* class it is recorded under (Taxonomy), the buckets of one window, and   *)
(* ProviderHealth, what they add up to (keel/health/snapshot.py).          *)
(*                                                                         *)
(* When buckets begin and end, and what Redis loses, is HealthWindow's     *)
(* concern; here a window is the set Bucket.  The keyspace is shared: a    *)
(* newer build may write a class this one does not know, and other tools   *)
(* may push entries that are no latencies.                                 *)
(***************************************************************************)
EXTENDS Latency, Taxonomy, Sums, SequencesExt

CONSTANTS
    Bucket,       \* the buckets of the window
    Adapter,      \* the adapters whose exceptions are normalized
    Milliseconds, \* the latencies of attempts
    SampleCap,    \* SAMPLE_CAP
    MaxAttempts,  \* bound on the attempts
    MaxForeign    \* bound on the writes of others

ASSUME SnapshotAssumption ==
    /\ IsFiniteSet(Bucket)
    /\ Milliseconds \subseteq Nat
    /\ Malformed \notin Int
    /\ SampleCap \in Nat \ {0}
    /\ {MaxAttempts, MaxForeign} \subseteq Nat

VARIABLES
    hash,     \* keel:health:{provider}:{bucket}
    list,     \* keel:latency:{provider}:{bucket}
    ended,    \* history: the attempts, by what really happened
    told,     \* history: the attempts, by the status the client was told
    foreign   \* how often others have written

vars == <<hash, list, ended, told, foreign>>

\* The fields this build knows, and the one it does not.
Known == {"ok"} \cup ErrorClass
Field == {"newer"} \cup Known

\* What a list may hold.
Raw == Int \cup {Malformed}

\* How an attempt ends: well, by its deadline, by an exception its adapter
\* caught, or with the class a mock drew.
Cause ==
    [kind : {"ok", "deadline"}]
    \cup [kind : {"raised"}, type : Exceptions, text : SUBSET Phrases,
          adapter : Adapter]
    \cup [kind : {"mock"}, class : ErrorClass]

\* _field_for, of the result the adapter or the executor makes of it.
FieldFor(cause) ==
    CASE cause.kind = "ok" -> "ok"
      [] cause.kind = "deadline" -> "timeout"
      [] cause.kind = "raised" -> Normalize(cause.type, cause.text, cause.adapter)
      [] cause.kind = "mock" -> cause.class

(* What really happened, without the tables.  A wrong key reaches Cohere as *)
(* a 401 and throttling as a 429, but litellm gives neither a type of its  *)
(* own (normalize.py:177, 192): only the text tells.                       *)
IsA(t, types) == Lineage[t] \cap types # {}

Typed == {"RateLimitError", "APITimeoutError", "LBudgetExceededError",
          "AuthenticationError", "PermissionDeniedError", "BadRequestError",
          "NotFoundError", "UnprocessableEntityError", "ConflictError"}

Says(c, phrase) ==
    c.adapter = "cohere" /\ phrase \in c.text /\ ~IsA(c.type, Typed)

Truth(c) ==
    CASE c.kind = "ok" -> "ok"
      [] c.kind = "deadline" -> "timeout"
      [] c.kind = "mock" -> c.class
      [] c.kind = "raised" -> CHOOSE class \in ErrorClass :
            \/ /\ class = "auth_failure"
               /\ \/ IsA(c.type, {"AuthenticationError", "PermissionDeniedError"})
                  \/ Says(c, "bad_key")
            \/ /\ class = "rate_limit"
               /\ \/ IsA(c.type, {"RateLimitError"})
                  \/ Says(c, "throttled") /\ ~Says(c, "bad_key")
            \/ class = "timeout" /\ IsA(c.type, {"APITimeoutError"})
            \/ class = "quota_exhausted" /\ IsA(c.type, {"LBudgetExceededError"})
            \/ class = "content_filter" /\ IsA(c.type, {"LContentPolicyViolationError"})
            \/ /\ class = "bad_request"
               /\ IsA(c.type, {"BadRequestError", "NotFoundError", "ConflictError",
                               "UnprocessableEntityError"})
               /\ ~IsA(c.type, {"LContentPolicyViolationError"})
            \/ /\ class = "server_error"
               /\ ~IsA(c.type, Typed)
               /\ ~Says(c, "bad_key") /\ ~Says(c, "throttled")

\* What a client may be answered.
Code == {200, 400, 429, 503, 504}
Status(field) == IF field = "ok" THEN 200 ELSE UpstreamStatus(field)

Init ==
    /\ hash = [b \in Bucket |-> [f \in Field |-> 0]]
    /\ list = [b \in Bucket |-> <<>>]
    /\ ended = [f \in Known |-> 0]
    /\ told = [code \in Code |-> 0]
    /\ foreign = 0

Attempts == SumOver(ended, Known)

Count(b, f) == hash' = [hash EXCEPT ![b][f] = @ + 1]
PushUntrimmed(b, raw) ==                               \* mutant of Push
    list' = [list EXCEPT ![b] = <<raw>> \o @]
Push(b, raw) ==
    list' = [list EXCEPT ![b] = SubSeq(<<raw>> \o @, 1, Min({SampleCap, Len(@) + 1}))]

\* One attempt, counted and timed in one transaction.
Record(b, cause, ms) ==
    /\ Attempts < MaxAttempts
    /\ Count(b, FieldFor(cause))
    /\ Push(b, ms)
    /\ ended' = [ended EXCEPT ![Truth(cause)] = @ + 1]
    /\ told' = [told EXCEPT ![Status(FieldFor(cause))] = @ + 1]
    /\ UNCHANGED foreign

\* The same of a build with an eighth class, before it was rolled back.
NewerBuildRecords(b, ms) ==
    /\ foreign < MaxForeign
    /\ Count(b, "newer")
    /\ Push(b, ms)
    /\ foreign' = foreign + 1
    /\ UNCHANGED <<ended, told>>

\* Another tool pushes what is no latency.
Tamper(b, raw) ==
    /\ foreign < MaxForeign
    /\ Push(b, raw)
    /\ foreign' = foreign + 1
    /\ UNCHANGED <<hash, ended, told>>

Next ==
    \E b \in Bucket :
        \/ \E cause \in Cause, ms \in Milliseconds : Record(b, cause, ms)
        \/ \E ms \in Milliseconds : NewerBuildRecords(b, ms)
        \/ \E raw \in {Malformed, -1} : Tamper(b, raw)

Spec == Init /\ [][Next]_vars

-----------------------------------------------------------------------------
(* What snapshot answers now.                                              *)
\* _merge, for a field this build knows.
Merged(f) == SumOver([b \in Bucket |-> hash[b][f]], Bucket)

\* parse_samples of the lists: the usable entries, in no order.
Entries == {e \in UNION {{b} \X DOMAIN list[b] : b \in Bucket} : Usable(list[e[1]][e[2]])}
Samples == [e \in Entries |-> list[e[1]][e[2]]]

\* ProviderHealth.from_window and its properties; a rate is a fraction.
Health ==
    LET total == SumOver([f \in Known |-> Merged(f)], Known)
        ordered == Ascending(Samples)
    IN
    [ok |-> Merged("ok"),
     errors |-> [c \in ErrorClass |-> Merged(c)],
     total |-> total,
     success_rate |-> IF total = 0 THEN None ELSE <<Merged("ok"), total>>,
     sample_count |-> Len(ordered),
     percentiles |-> [p \in {50, 95, 99} |-> Percentile(ordered, p)]]

-----------------------------------------------------------------------------
(* Properties.                                                             *)

\* Every variable keeps its type; no list outgrows its cap.
TypeOK ==
    /\ hash \in [Bucket -> [Field -> Nat]]
    /\ list \in [Bucket -> Seq(Raw)]
    /\ \A b \in Bucket : Len(list[b]) <= SampleCap
    /\ ended \in [Known -> Nat]
    /\ told \in [Code -> Nat]
    /\ foreign \in 0 .. MaxForeign

\* FR-2.4: the snapshot shows every attempt of the window once, under what
\* really happened, whatever type and text it arrived under and whatever others
\* write beside it; and without attempts there is no rate, not a perfect one.
EvidenceIsTrue ==
    /\ Health.ok = ended["ok"]
    /\ \A c \in ErrorClass : Health.errors[c] = ended[c]
    /\ Health.success_rate =
          IF Attempts = 0 THEN None ELSE <<ended["ok"], Attempts>>

\* D7 and errors.py: of the failures the clients were told of, the breaker may
\* count those that were not answered 400, but for the wrong keys, which are
\* not the clients' either.
Counted == {c \in ErrorClass : CountsTowardBreaker(c)}

BreakerAndClientAgree ==
    SumOver(Health.errors, Counted)
        = (told[429] + told[503] + told[504]) - ended["auth_failure"]

\* latency.py: every percentile is a latency some attempt took, of the nearest
\* rank among the usable entries of the lists: at least p percent of them are no
\* greater, and fewer than that are smaller.
PercentilesAreNearestRank ==
    LET n == Cardinality(Entries) IN
    /\ Health.sample_count = n
    /\ \A p \in {50, 95, 99} :
          LET v == Health.percentiles[p]
          IN  IF n = 0 THEN v = None
              ELSE /\ v \in Milliseconds
                   /\ 100 * UpTo(Samples, v) >= p * n
                   /\ 100 * Below(Samples, v) < p * n
=============================================================================

# keel-gateway in TLA+

A formal model of the keel LLM gateway: TLA+ modules translated from the Python
sources under `src/keel` and `scripts/loadgen.py`, TLC configurations that
model-check them on small instances, and TLAPS proofs about them for every value of
the constants. File and line references are to the repository; `PROJECT.json` maps
every definition of a module to the lines it stands for.

    tlc -workers 2 -config MCGateway.cfg MCGateway     # one run
    tlapm GatewayProofs.tla                            # one proof module

## 1. The system

One process serves `POST /v1/chat/completions`. A request passes the ingress
(envelope), the router, the executor and one provider adapter; the attempt is
recorded in a per-provider health window in Redis and in Prometheus metrics; the
client is told success or a normalized error. A chaos route retunes the mock
provider. The process starts from a file, an environment and a registry, and a load
generator drives it from outside. The event loop is single threaded: code between two
`await`s is atomic, and the hard behaviours are at the awaits (the adapter, Redis, the
client), in the shared Redis keyspace, and in the wall clock.

| Component (`src/keel/...`) | State | Operations | Hard behaviour | What makes it correct | Module |
|---|---|---|---|---|---|
| `health/window.py` HealthTracker | Redis hash and list per provider and bucket, with TTLs | `record`, `read`, `snapshot` | bucket computed before the await; time box; client's own retry; lost replies; clock steps; restarts; readers over a pipeline that is no transaction | both keys expire and agree; a window counts what began in it, to a bucket; `record` settles once | HealthWindow, HealthLedger |
| `health/latency.py` | capped sample lists | `stage_record`, `parse_samples`, `percentile` | cap, foreign entries, rank boundaries | nearest rank, of usable samples | Latency |
| `health/snapshot.py` | none (a value) | `from_window`, rates | empty windows | it says what happened, and "unknown" is not "perfect" | Snapshot, Latency |
| `redis.py` | connection pool | `create_redis_client` | time box, retry, life of the client | opened and closed by its owner | HealthWindow, Startup |
| `routing/router.py` | none | `candidates` | - | first of the class's preference list | Gateway |
| `routing/executor.py` | none | `execute` | deadline races the answer; cancellation | one outcome, recorded before it is answered | Gateway, Attempt |
| `providers/mock.py` | chaos state, three random streams | `invoke`, `reseed` | overlapping calls, retunes under way | which calls fail is a function of seed and rate | MockAdapter |
| `providers/cohere.py` | litellm, imported once | `invoke` | an import on the event loop, cancellation, a stepped clock, whatever litellm raises | a failure is a value, and the attempt's own | Attempt, Snapshot |
| `providers/normalize.py`, `providers/errors.py` | tables | `normalize_provider_error`, D7 | inheritance, order of rules, message texts | the class is what really happened | Taxonomy, Snapshot |
| `api/envelope.py`, `api/errors.py` | none | `build_envelope`, `raise_for`, status table | two sources per field, all problems at once | complete rejections, sound acceptances | Ingress, Taxonomy |
| `api/app.py` | AppContext | routes, lifespan | partial assignment in the chaos route, startup failures, a cancelled lifespan | nothing half started | Ingress, MockAdapter, Startup |
| `observability/metrics.py` | Prometheus families, label cap | `observe_*`, `prime` | interleaved requests, cap at its limit | families agree with each other and with the answers | Gateway |
| `observability/middleware.py` | none | overhead | two clocks, exceptions and cancellations on the way out | the overhead is the gateway's own time | Attempt |
| `observability/logging.py` | contextvars, the root logger's handlers | bind, `configure_logging` | bound before validation; configured again by every start of one process | lines correlate; a line comes out once | Ingress, Startup |
| `config.py`, `credentials.py`, `registry.py` | none after startup | load, build | stages that hide one another, every problem of a stage at once | what serves is whole; each failed start brings its operator further | Startup |
| `scripts/loadgen.py` | one run | tune, drive, gather, report | an absolute schedule on a loop that may stand still, a pool, requests never answered | each request counted once, in time; a run ends | LoadGen |
| `keel/queue`, `keel/cost` | - | none: packages without code | - | - | - |

Not in the repository yet, though its documents name them: circuit breaker,
capability filter, failover, hedging, deferred queue and worker, cost engine, Azure
and Bedrock adapters. They are not modelled; nothing here says anything of them.

How components interact: calls within a task (route -> executor -> adapter ->
tracker -> metrics), a callback (`on_write_dropped`), contextvars per task, shared
memory between tasks (metrics, the mock's state, `request.state` between route and
middleware), the Redis keyspace shared with other processes, builds and tools, and
HTTP between the load generator and the gateway.

## 2. The modules

    Startup  ->  the process that serves:
                 Ingress -> Gateway ---------------> HealthLedger (instance)
                              |                           ^ implemented by
                              |                      HealthWindow
                              + what a call is:  MockAdapter | Attempt (Cohere)
                              + what it means:   Taxonomy, Latency <- Snapshot
    LoadGen  ->  drives it from outside; its percentile is compared with Latency's

Only `HealthLedger`, `Taxonomy`, `Latency` and `Sums` are shared by modules through `EXTENDS` or
`INSTANCE`; the other arrows are cuts, each at a value that both sides type the same way
(an envelope, a result, a settled write).

**HealthLedger** is the abstract specification of `HealthTracker.record`: per attempt
`call` (idle, waiting, recorded, dropped, abandoned) and `written`, how often the store
executed it. Returned implies written; dropped or abandoned implies nothing, and the
write may still happen later.

**HealthWindow** is the detailed one. Redis is `hash`/`hashTTL`/`list`/`listTTL` per
provider and bucket. `RecordStart` is `record` up to its await; `ExecuteRecord` is Redis
executing the MULTI/EXEC (HINCRBY, EXPIRE, LPUSH, LTRIM, EXPIRE: `Transaction`);
`RecordReturn`, `RecordDrop` (`_REDIS_FAILURES` or the time box) and `RecordCancel` are
the three ways out; `RecordResend` is the client library sending again; a transaction
that its client stopped waiting for is `stray` and may be executed whenever, or never
(`ExecuteStray`). `read`/`snapshot` are `ReadStart`, one `ReadHash` or `ReadList` per
pipelined command, and `ReadFail`. `now` is the wall clock, `elapsed` real time;
`Tick` advances both and is held up by a call that reaches its time box, `ClockStep`
sets only `now`, both let Redis expire keys. `Crash` restarts the gateway, not Redis.
A sample is the attempt that pushed it. A cancellation is an action of its own: the
executor's deadline wraps only the adapter, so it comes from the server's shutdown.

**Gateway** is one process with overlapping requests over the ledger (not over the
window: the refinement is why that is enough). `pc` of a request: new -> calling
(`Arrive`: ingress, routing, the head of `invoke`) -> recording (`AdapterReturns` or
`DeadlinePasses`: the outcome is decided and `record` awaited) -> served (`Settle`: record
is settled, `observe_attempt` and `observe_request` in one step, as there is no await
between them) -> finished (`Finish`: the middleware). `MockRaises` is the exception of the
mock whose latency turned negative. `durations`, `errors`, `requests`, `overhead`,
`dropped` are the families; `admitted` is `_LabelCapper._seen` of tenant. `mine` is
history: the requests of the current process.

**MockAdapter** is the chaos state, the three streams as positions in a fixed sequence
of draws per seed, and overlapping `invoke`s cut at their sleep. The chaos route is
`Accept` (all knobs, seed last) and `Refuse` (those before the refused one stand).
`AssignSeed` is code of the process assigning `state.seed`. `answers` is history: the
answers since a seed was given, by the route or by an assignment that an `invoke` noticed.
It is *not* forgotten when the streams restart for any other reason, so a stream restarted
without a seed shows as a draw that comes twice.

**Attempt** is the time of requests that call Cohere. The middleware and the load of the
loop are measured by `mono` (`perf_counter`), the executor and the adapter by `Wall`,
which is `ahead` of it by whatever it was stepped. `pc`: new -> receiving (`Receive`: the
middleware's `started`) -> calling (`Call`: both `started`s of executor and adapter; the
first call then imports litellm, which passes `ImportTicks` at once for every request) ->
recording (`Answers`, `Fails`, `DeadlinePasses`: the `ProviderResult`) -> sending (`Hand`:
the route's `request.state`) -> done (`Sent`, or `Cancel` from anywhere: the middleware's
`finally`). `called`, `ours` and `drift` are history: the time a request really spent in
its call and in the gateway, and how far the clock was stepped during its call.

**Ingress** is one request with its two sources of metadata: `Resolve` is `_resolve`,
`Problems` the whole list `build_envelope` collects, `CodeOf` the choice of `raise_for`;
the actions are the rejections in the order the route tries them, acceptance, and
completion, with the log context of every line. `capabilities`, which nothing reads yet and
`_resolve_capabilities` resolves by itself, is one more optional field that may be invalid.

**Taxonomy** holds the tables: exception trees (external: litellm's and openai's, as
far as the map tells them apart), `ErrorMap` in its order, `Refine`, D7, the statuses.
**Latency** is `parse_samples` of one entry, `sorted` and `percentile`. What is sorted is a
function, of the entries of several lists at once or of a run's latencies, and `Ascending`
says of each place which value stands there: fewer than *i* are below the *i*-th, and at
least *i* are up to it. **Snapshot** puts both together: how an attempt ends (`Cause`), the
field it is counted under, the usable `Entries` of the merged lists and their `Samples`, and
the `Health` derived from them; `ended` is history, by what really happened (`Truth`, stated
without the tables), and `told` what the clients were told. **Sums** is the sum of a
function's numbers as the cardinality of the pairs they number (`Cells`), for `HealthWindow`
and `Snapshot`: a sum about which theorems on finite sets suffice.

**Startup** is the lifespan. Nothing is awaited before the app serves, so a start is one
step: it succeeds, or fails at the first of six checks that finds something (log
settings; the file; fields and objects; names across objects; registry and credentials;
the Redis URL), having done what comes before it. A `deployment` is the environment and
the file, each setting reduced to what its validator tells apart. `Repair` is the
operator, who corrects exactly what the last failed start reported, in any of the ways
there are: a name an entry lacks is added and one it has too many dropped, each when it is
reported, and `_check_target_naming` reports the second only once the first is there
(`Lacks`, `Exceeds`); a name that is undefined is defined or no longer preferred; a list is
replaced by any that has none of the mistakes reported and none of its own
(`RepairedLists`); and what nothing implements is removed, with every reference to it, as
`_unimplemented` says (`Gone`, `Without`), be what is left empty. `Reformat` and
`NewProcess` are the machine's. `Abort` is a lifespan cancelled at its `yield`, which has no
`finally`. `handlers` counts the root logger's handlers, across the starts of one process:
the gateway's own, by the format they render, and the `other`s of whoever runs it.

**LoadGen** is one run of the script: `Tune` (`_apply_chaos`, whose response may be
lost), the driver's `Spawn`, `Sleep`, `Wake`, `Gather`, `Report`, and per request `Begin`,
`Connect` (waiting for a pooled connection), `Answer` and `Fail`, the latter free to
happen to any request under way and due when its timeout has passed. A request moves only
while the driver awaits. `Stall` is the loop standing still; `stalled` is history. Of the
gateway, a run knows how long it takes at most to answer (`response`).

Operators marked "mutant of" are deliberate defects. Nothing uses them; substituted for
the definition they follow, they make the property listed with them in `PROJECT.json`
fail, which shows that the property depends on the code.

## 3. The runs

| Run | Shows | Bounds, and why they are enough |
|---|---|---|
| health_window | TypeOK, EveryKeyExpires, SamplesMatchCounts, ReadIsExact, SamplesCoverCounts, ImplementsLedger | two attempts (one of a field this build does not know), one reader, two buckets, a sample cap of one so that it is reached, six ticks: TTL (four) plus a window, so that every key can be born, leave the window and die |
| health_clock | WindowEdges, ReadIsExact with clock steps | one attempt, two providers, buckets of two ticks so that an attempt may begin anywhere in one, one step of -5 (more than a window) or +3, resends |
| gateway | TypeOK, AnsweredMeansSettled, CountersAgree, DropsExplainLosses, TenantSeriesWhole, CallsAreAnswered | two requests and two tenants over a cap of one: one is admitted and the other is not, in either order; two classes whose first choices are a provider with a deadline and the mock |
| gateway_raises | *violated:* execute never raises | two requests |
| mock | TypeOK, FailureSequence, RateLimitsAreExact | three calls, two seeds whose draws disagree, rates 0, 1/2 and 1, draws at both ends |
| ingress | TypeOK, OneRoundTripFixes, AcceptedIsSound, RejectionEchoesId | every combination over four fields of absent, blank, mistyped and valid, three kinds of body, streaming or not |
| correlation | *violated:* every line of a request carries its id | as ingress |
| snapshot | TypeOK, EvidenceIsTrue, BreakerAndClientAgree, PercentilesAreNearestRank | two attempts of every cause over two buckets, two writes of others, a cap of two |
| startup | TypeOK, ServingIsWhole, StagesAdvance, FailureRenderedOnce, ClientsBalance | every mapping of two providers (none, a good entry, one with a name too many, one with the wrong name, and that behind an invalid field) under five preference lists, the key set or not; with one mapping, every log, file, URL, key and geometry setting; and one deployment with everything wrong, which needs all ten corrections; the log format changed until two starts have failed (`MaxFormats`), a process started again without bound, cancelled once |
| attempt | TypeOK, OverheadIsOurs, OutcomeIsTrue | two requests, so that one stands still while the other imports; a deadline (two) shorter than the import (three), so that it passes during it; one clock step back or forth; six ticks |
| loadgen | TypeOK, OnSchedule, EachCountedOnce, PoolHolds, PercentileIsNear, RunEnds | three requests (a duration of six, one every two ticks) over a pool of two; a fast gateway (1), one that outlasts the pool (4) and one that outlasts the timeout of five (9); the loop blocked for two ticks in all, together or apart |
| loadgen_percentile | *violated:* the summary's percentile is the gateway's | as loadgen |

Deadlock is checked in `startup`, which runs for ever. The other models are finite sets of
requests, attempts or calls (and of ticks) and stop when they are done. Symmetry is used
over sets whose members only occur as names, and only in runs without liveness.

### Fairness and assumptions

`Gateway` and `LoadGen` have fairness; the other modules state safety, which needs none.

- `Gateway`: `WF(DeadlinePasses)`: `asyncio.wait_for` fires. `WF` of the mock's answer: it
  sleeps a finite time. `WF(Settle)`: `record` is under
  `asyncio.timeout(REDIS_TIMEOUT_SECONDS)`, so it returns or drops whatever Redis does;
  `Settle` is enabled by `RecordDrops` alone. `WF(Finish)`: the client reads its response
  or its connection is closed. Nothing is assumed of Redis or of a provider, so a provider
  without `timeout_ms` may hang, and `CallsAreAnswered` says nothing of it.
- `LoadGen`: `WF` of the driver and of a request's own steps: the event loop runs what is
  ready. `WF(Tick)`: time passes. `WF(Expired /\ Fail)`: httpx's timeouts fire.
  `WF(Overdue /\ Answer)`: a gateway that answers within the timeout does. A gateway that
  does not (`response` beyond `Timeout`) is asked for nothing, and `RunEnds` holds of it too.

Assumed, not shown: gateway and Redis share the host's clock (ADR 0001; the compose file
runs them on one host); Redis keeps what it executed (`--appendonly yes`; the second of
writes `everysec` may lose in a crash of Redis is not modelled); no two gateway processes
have different bucket geometry. A call's time box is no longer than a window
(`BoxTicks <= WindowSeconds`; the code: 0.25 s and at least 1 s): `SnapshotsAreCovered`
needs it. A resend is redis-py's own retry, whose default differs between the versions
`pyproject.toml` admits: `MaxSends` is 1 where there is none and 2 in the runs that have
one.

## 4. The disagreements

Each of these has a run that TLC ends with a counterexample.

- **ExecutorNeverRaises**, `latency.py:129`, `executor.py:122`. Cohere's adapter clamps a
  negative latency (`cohere.py:198`); the mock does not (`mock.py:236`).
- **LinesCorrelate**, `src/README.md:217`. An id given in the extension alone is never bound
  (`app.py:611`).
- **PercentileMatchesHealth**, `loadgen.py:82`. `round(x + 0.5)` takes the next rank where
  `x` is an odd whole number (`loadgen.py:91`). What does hold, and is proved, is
  `PercentileIsNear`.

Seen while modelling, with no run of their own.

- The health window. ADR 0001:49 lets a clock step "wash out" in a window; a step back of *d*
  keeps counts readable for *d* longer (`WindowEdges` is what holds). `window.py:289` says a
  snapshot describes one instant; its pipeline is no transaction (`SamplesCoverCounts` is
  what holds, while the clock is not set back: a key written just after that may expire
  between the halves of a later snapshot). `latency.py:37` says the cap never makes a p95 too
  high, but the latest samples of a bucket may as well be its slowest. `on_write_dropped`
  also counts writes that were applied.
- The mock. `mock.py:119` says jitter does not change which calls fail; failures are drawn
  when calls answer (`FailureSequence` is what holds, in the order of answers).
- The request. `middleware.py:100` says an exception is "still measured", which it is not
  when it precedes `request.state`. A tenant named `other` is indistinguishable from the
  overflow (`metrics.py:163`, "honest"). The comment before `_UPSTREAM_BY_CLASS` equates the
  400s with what D7 excludes, which also excludes `auth_failure`.
- The start. `registry.py:82` wants "one restart to diagnose, not two", in the posture of
  `load_config`; that is so within a stage, while the stages hide one another, and the name
  an entry lacks hides one that it has too many (ADR 0004:43). To remove what nothing
  implements, as `registry.py:48` asks, may empty a preference list or the mapping, which
  the next start refuses at a stage passed before. So up to ten corrections may be needed
  (`StagesAdvance`). `load_config` promises `ConfigError` on any problem, but a file that is
  not UTF-8 raises `UnicodeDecodeError`, which is no `OSError` (`config.py:223`). `_resolve_chaos_enabled` is to be "read at startup rather than at
  import", and is read by `create_app`, which the module calls on import. A lifespan that is
  cancelled leaves its client's pool unclosed: the `yield` is under no `finally`.
  `KEEL_LOG_LEVEL=NOTSET` is accepted.
- The load generator. Its pool is made for five seconds of load: above that, requests queue
  for a connection, and a `PoolTimeout` counts as the gateway's failure. The mock
  stays retuned after a run.

## 5. What is proved

Each theorem holds for every value of the constants that satisfies the named
assumptions of its module, and each TLC run evaluates those assumptions.

| Theorem | Argument |
|---|---|
| HealthWindowProofs!TypeCorrect | `TypeOK` is inductive; bucket arithmetic is isolated in lemmas on `\div` |
| HealthWindowProofs!KeysExpire | `EveryKeyExpires` is inductive with the types: `Transaction` writes all four maps at one key with one expiry in the future, `ExpireAt` removes both keys at once |
| HealthWindowProofs!SamplesAreCounted | a transaction adds one cell to a count and one sample to a list that is then trimmed to the cap, and expiry empties both |
| HealthWindowProofs!WindowIsExact | the invariant ties the wall clock to real time: an attempt's bucket is that of the wall clock when it began, and since then the clock has advanced by the elapsed time if it was not stepped, and by no less than that minus `backward` if it was. The two edges then follow by arithmetic |
| HealthWindowProofs!WindowImplementsLedger | step by step: each action is a `HealthLedger` action or a stutter. It rests on an invariant that counts what an attempt sent: executed plus astray plus awaited is never more than `sends`, and an executed attempt was written |
| HealthWindowProofs!SnapshotsAreCovered | two invariants. `Reads`: how far a reader has come in its pipeline. `Evidence`: with a clock that was not stepped, a key of the window lives two windows from its bucket, longer than a reader's time box, so a list not fetched yet has only grown since its count was; an attempt's bucket and the TTL it sends are of the moment it began, whence the invariants on both |
| GatewayProofs!TypeCorrect | per action, requests and metrics apart |
| GatewayProofs!AnswersAreSettled | `AnsweredMeansSettled` is inductive with the types: request and ledger move in one step each way |
| GatewayProofs!TenantLabelsBounded, TenantsAreWhole | every series is under a name of `_seen` or the overflow, `_seen` has at most `LABEL_CAP` members and, once full, never changes: so the label a tenant was given is the one it will be given |
| GatewayProofs!CountersAreExact, DropsExplain | each family is the cardinality of a set of requests of this process, and each step moves one request between those sets |
| MockAdapterProofs!TypeCorrect, FailuresFollowTheSeed | inductive with the types: an answer takes the next draw, and the streams restart only where a seed was given |
| MockAdapterProofs!LimitsAreExact | follows from the sequence and from every draw lying in `0 .. Scale - 1` |
| HealthWindowProofs!ReadsAreExact | `Filing`, of Redis: under a key, no count exceeds the executions of the attempts that belong there, and each executed attempt so young that its key cannot have expired is counted. `Gathering`, of a reader: what it has merged so far is bounded likewise by the attempts of the buckets fetched, from above, and, if the clock was not set since it began, by those it owes, from below. Both are sums as cardinalities of disjoint cells |
| SnapshotProofs!ListsAreCapped | the types of `Snapshot` are inductive: what is pushed, and by whom, does not matter to the trim |
| SnapshotProofs!AscendingSorts, PercentileIsNearestRank | the greatest value that fewer than *i* are below is the *i*-th. That there is a greatest one of a finite set is not an induction over numbers here, but the well-foundedness of strict inclusion; the ceiling is the least sufficient rank |
| SnapshotProofs!PercentilesAreNear | `Timed`, that usable entries are latencies of attempts, is inductive; the entries of all lists are finitely many, and the theorem on `percentile` applies to them |
| SnapshotProofs!SnapshotsAreTrue, BlameIsShared | `Evidence`: each field's merged count is the number of attempts that really ended so; per attempt, whatever the type and text of its exception, the field chosen by tables and rules is `Truth`, case by case over the exception trees and the phrases. `Blame`: the clients told of each status are those that ended in its classes |
| StartupProofs!ServesWhole | each check that finds nothing gives one part of a whole context, and only a start that passes all six serves; repairs keep the deployment's type |
| StartupProofs!ClientsAreBalanced | inductive: a client is built only by the last step of a start, after everything that can fail |
| StartupProofs!FailuresAreRenderedOnce | `Logged` says it of every report: a configured start removes what earlier ones installed, in whatever format, and the server's own handlers, and no one else's, so one copy is left |
| StartupProofs!StartsAdvance | `Advance`: either the deployment is as last reported, or it passes the stage the last report was of and all before it, which the correction does not touch or touches soundly (one lemma per stage). So stages, of which there are eight, rise strictly, but for a removal; what that leaves is `Spent`: it can only be too short, then lack a key, then a URL, and no correction brings anything else up again. Hence one removal, and ten corrections (`Allowed` counts them) |
| StartupProofs!TypeCorrect | inductive, with the deployment's type, which every correction keeps |
| AttemptProofs!TypeCorrect, OverheadIsTheGateways, OutcomesAreTrue | one invariant, per request: the middleware's duration is the time called plus the time in the gateway, the adapter's is the time called plus the drift; each later part hands on what it was handed; the rest is arithmetic with the clamps |
| LoadGenProofs!ScheduleIsAbsolute | the driver reaches a target no later than it is due, or the ticks since then are in `stalled`: time passes otherwise only while a sleep ahead of it lasts |
| LoadGenProofs!TypeCorrect | a request that is due is one of the schedule's, so the spawned ones number no more than it has; no request begins later than now |
| LoadGenProofs!PoolIsLargeEnough | `Unqueued`: every request under way began within `response` and the ticks the loop was blocked; the schedule has no more requests due in that time than the pool has connections, so one that begins finds a connection free |
| LoadGenProofs!SummaryIsExact | each status is the cardinality of the requests in that state, and `gather` ends with all of them over |
| LoadGenProofs!PercentilesAreNear | rounding half to even is the ceiling or one more, at every rank |
| IngressProofs!TypeCorrect, AcceptsTheSound, RejectionsEchoTheId | inductive; what is resolved of a field is a text of that field or absent |
| IngressProofs!OneRoundTripIsEnough | field by field: what a problem names is resolved in the repaired request, what none names is resolved as before, so no problem is left but the key a newly named class needs |

Sums are stated as cardinalities where a proof needs them, with the library's theorems on
finite sets, and the order of samples by how many are below one: a fold or a recursive
sort would need an induction over data the provers cannot do.

Every invariant and action property that a passing run checks is stated by one of these
theorems; the runs show it on the instances of section 3, with the mutants that break it.
Only model-checked is liveness: `CallsAreAnswered` and `RunEnds` rest on fairness and
`ENABLED`, which are out of the prover's reach. The three violated properties are refuted by
TLC and nothing is claimed of them. What the proofs take from the model without proof is
what every one does: that the modules are the code, which section 2 and the map are for.

## 6. Left to do

Every component with code is modelled, if some in part, but for the error fixture
capture. To model next:

1. `MockAdapter` or `Attempt` composed into `Gateway`, in the place of `AdapterReturns`,
   `MockRaises` and `DeadlinePasses`.
2. Several gateway processes on one keyspace (`HealthWindow` with a set of processes), a
   Redis restart that loses its last second, and a reader that outlives a bucket.

To prove next: that the gateway, over its requests, implements the ledger; and that ten
corrections are not only enough but needed (`startup` has the deployment that needs them).

Not modelled, on purpose: `scripts/capture_error_fixtures.py` (a developer's tool that
calls a live provider and writes files); the formatting of logs, bodies and metrics; the
weights of the mock's class mix and the shape of its response; which keys of a payload the
Cohere adapter overrides, and its token counts; the packages without code (`keel/queue`,
`keel/cost`); the deployment's static configuration.

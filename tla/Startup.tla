------------------------------ MODULE Startup ------------------------------
(***************************************************************************)
(* The gateway from its start to serving and down again: the lifespan of   *)
(* the app (keel/api/app.py) with what it reads -- LogSettings,            *)
(* load_config, ProviderCredentials, build_registry, RedisSettings -- and  *)
(* an operator who corrects what a failed start reports.                   *)
(*                                                                         *)
(* Nothing is awaited before the app serves, so a start is one step.  One  *)
(* request class stands for all; a setting is what its validator tells     *)
(* apart, and redis is either injected into create_app or built by it.     *)
(***************************************************************************)
EXTENDS Integers, Sequences, FiniteSets, Functions

CONSTANTS
    Name,         \* the names providers are configured under
    Mention,      \* the names a preference list may hold, defined or not
    Lists,        \* the preference lists an operator may write
    Deployments,  \* the deployments a machine may be given at first
    Geometry,     \* the <<window_seconds, bucket_seconds>> in use
    MaxAborts,    \* bounds how often a serving process is cancelled
    MaxFormats,   \* bounds after how many failed starts the log format changes
    None          \* no entry of that name; no startup context

\* An entry of `providers`: which of model and deployment it names, and whether
\* its other fields are valid.
Entry ==
    [adapter : {"cohere", "azure_openai", "bedrock", "mock"},
     names : SUBSET {"model", "deployment"}, fields : BOOLEAN]

\* What a validator tells apart of the environment, .env and the file.
Settings ==
    [logs : {"json", "console", "blank", "unknown"},
     file : {"mapping", "missing", "unreadable", "not_yaml", "empty", "no_mapping"},
     providers : [Name -> Entry \cup {None}],
     preference : Seq(Mention),
     geometry : Geometry,
     key : {"text", "blank", "unset"},
     url : {"redis", "blank", "unset", "no_scheme"}]

ASSUME StartupAssumption ==
    /\ Name # {} /\ Name \subseteq Mention /\ None \notin Entry
    /\ Lists \subseteq Seq(Mention) /\ Deployments \subseteq Settings
    /\ \A g \in Geometry : g[1] \in Nat \ {0} /\ g[2] \in Nat \ {0}
    /\ \E g \in Geometry : g[1] % g[2] = 0 /\ g[2] <= g[1]
    /\ MaxAborts \in Nat /\ MaxFormats \in Nat

VARIABLES
    deployment,   \* the environment, .env and the configuration file
    phase,        \* down, or serving
    context,      \* AppContext
    injected,     \* whether create_app was given a Redis client
    built,        \* clients the lifespan built and did not close
    closed,       \* whether the injected client was closed
    handlers,     \* of the root logger: how many of each kind
    uvicornOwn,   \* whether uvicorn's loggers still have their own handlers
    foreign,      \* history: how many handlers others have there
    aborts,       \* history: times a serving process was cancelled
    reports       \* history: the failed starts of this deployment

clientVars == <<injected, built, closed>>
logVars == <<handlers, uvicornOwn, foreign>>
vars == <<deployment, phase, context, clientVars, logVars, aborts, reports>>

-----------------------------------------------------------------------------
(* What a start checks, in its order.                                      *)
Configured(d) == {n \in Name : d.providers[n] # None}

Blank(setting) == setting \in {"blank", "unset"}

Problem(kind, where) == [kind |-> kind, where |-> where]
Found(test, kind, where) == IF test THEN {Problem(kind, where)} ELSE {}

\* LogSettings: a blank name is the default's, an unknown one is refused.
LogProblems(d) == Found(d.logs = "unknown", "setting", "log_format")
Format(d) == IF Blank(d.logs) THEN "json" ELSE d.logs

\* load_config, before there is a mapping to validate.
FileProblems(d) == Found(d.file # "mapping", d.file, "file")

\* The types, bounds and unknown keys of every object, and min_length.
FieldProblems(d) ==
    Found(Configured(d) = {}, "too_short", "providers")
    \cup Found(d.preference = <<>>, "too_short", "preference")
    \cup {Problem("field", n) : n \in {m \in Configured(d) : ~d.providers[m].fields}}

\* _check_target_naming: what an adapter is addressed by.  A missing name is
\* raised before a surplus one is looked for.
Takes(adapter) ==
    CASE adapter = "azure_openai" -> {"deployment"}
      [] adapter = "mock"         -> {}
      [] OTHER                    -> {"model"}
Lacks(e) == ~(Takes(e.adapter) \subseteq e.names)
Exceeds(e) == ~(e.names \subseteq Takes(e.adapter))

WholeBuckets(g) == g[1] % g[2] = 0 /\ g[2] <= g[1]

Repeats(list) == \E i, j \in DOMAIN list : i # j /\ list[i] = list[j]

\* An object is validated as a whole once its own fields are valid.
Unnamed(d) ==
    {Problem("unnamed", n) : n \in {m \in Configured(d) :
        d.providers[m].fields /\ Lacks(d.providers[m])}}
ObjectProblems(d) ==
    Unnamed(d)
    \cup {Problem("surplus", n) : n \in {m \in Configured(d) :
        LET e == d.providers[m] IN e.fields /\ ~Lacks(e) /\ Exceeds(e)}}
    \cup Found(Repeats(d.preference), "repeated", "preference")
    \cup Found(~WholeBuckets(d.geometry), "geometry", "breaker")

\* _check_preferences_reference_known_providers, once all objects are valid.
CrossProblems(d) ==
    {Problem("undefined", p) : p \in Range(d.preference) \ Configured(d)}

CredentialProblems(d) ==
    {Problem("credential", n) : n \in {m \in Configured(d) :
        d.providers[m].adapter = "cohere" /\ Blank(d.key)}}
Unimplemented(d) ==
    {Problem("unimplemented", n) : n \in {m \in Configured(d) :
        d.providers[m].adapter \in {"azure_openai", "bedrock"}}}

SkipUnimplemented(d) == CredentialProblems(d)          \* mutant of RegistryProblems
FirstRegistryProblem(d) ==                             \* mutant of RegistryProblems
    LET all == CredentialProblems(d) \cup Unimplemented(d)
    IN  {p \in all : p = CHOOSE q \in all : TRUE}

\* build_registry: every entry is looked at before anything is raised.
RegistryProblems(d) == CredentialProblems(d) \cup Unimplemented(d)

\* RedisSettings and from_url, unless a client was injected.
UrlProblems(d) == Found(~injected /\ d.url = "no_scheme", "setting", "redis_url")

\* The startup checks, each made only if those before it find nothing.
Checks(d) ==
    <<LogProblems(d), FileProblems(d), FieldProblems(d) \cup ObjectProblems(d),
      CrossProblems(d), RegistryProblems(d), UrlProblems(d)>>

Failing(d) == {i \in 1 .. 6 : Checks(d)[i] # {}}
FirstFailing(d) == CHOOSE i \in Failing(d) : \A j \in Failing(d) : i <= j

-----------------------------------------------------------------------------
(* The root logger's handlers: keel's own, by their format, and others.    *)
Own == {"json", "console"}
Handler == Own \cup {"other"}

InstalledAgain(hs, format) ==                          \* mutant of Installed
    [hs EXCEPT ![format] = @ + 1]

\* configure_logging: its own handler is replaced, the others are kept.
Installed(hs, format) ==
    [h \in Handler |-> IF h \notin Own THEN hs[h] ELSE IF h = format THEN 1 ELSE 0]

\* LogSettings raises before anything is touched.
ConfigureLogging(d) ==
    IF LogProblems(d) # {} THEN UNCHANGED logVars
    ELSE /\ handlers' = Installed(handlers, Format(d))
         /\ uvicornOwn' = FALSE
         /\ UNCHANGED foreign

\* Where uvicorn's "Application startup failed" and its traceback come out.
Rendered(own, hs) == IF own THEN {"uvicorn"} ELSE {h \in Handler : hs[h] > 0}
Copies(own, hs) == IF own THEN 1 ELSE hs["json"] + hs["console"]

\* A process has the handlers others gave it.
Fresh(others) == [h \in Handler |-> IF h \in Own THEN 0 ELSE others]

-----------------------------------------------------------------------------
Init ==
    /\ deployment \in Deployments
    /\ phase = "down"
    /\ context = None
    /\ injected \in BOOLEAN
    /\ built = 0
    /\ closed = FALSE
    /\ foreign \in {0, 1}
    /\ handlers = Fresh(foreign)
    /\ uvicornOwn = TRUE
    /\ aborts = 0
    /\ reports = <<>>

\* The registry: the entry's name, never the adapter's.
ContextOf(d) ==
    [adapters |-> [n \in Configured(d) |-> d.providers[n].adapter],
     preference |-> d.preference, geometry |-> d.geometry, key |-> d.key]

ClientFirst(check) == check \in {0, 5, 6}              \* mutant of ClientBuilt
\* Of a start that fails at a check, or of one that does not (0): the client
\* is built after the registry, and nothing after it can fail.
ClientBuilt(check) == check = 0

Build(check) ==
    /\ built' = IF ~injected /\ ClientBuilt(check) THEN built + 1 ELSE built
    /\ UNCHANGED <<injected, closed>>

StartSucceeds ==
    /\ phase = "down"
    /\ Failing(deployment) = {}
    /\ ConfigureLogging(deployment)
    /\ Build(0)
    /\ context' = ContextOf(deployment)
    /\ phase' = "serving"
    /\ UNCHANGED <<deployment, aborts, reports>>

LastReport == reports[Len(reports)]

\* The last start was of this deployment, and failed.
Reported == reports # <<>> /\ LastReport.deployment = deployment

\* The exception escapes the startup event: uvicorn logs it and exits.
StartFails ==
    /\ phase = "down"
    /\ Failing(deployment) # {}
    /\ ~Reported
    /\ ConfigureLogging(deployment)
    /\ LET check == FirstFailing(deployment)
       IN  /\ Build(check)
           /\ reports' = Append(reports,
                 [deployment |-> deployment,
                  check |-> check, problems |-> Checks(deployment)[check],
                  rendered |-> Rendered(uvicornOwn', handlers'),
                  copies |-> Copies(uvicornOwn', handlers')])
    /\ UNCHANGED <<deployment, phase, context, aborts>>

CloseAnyClient ==                                      \* mutant of CloseClient
    built' = built - 1 /\ closed' = injected
\* The shutdown half of the lifespan.
CloseClient ==
    /\ built' = IF injected THEN built ELSE built - 1
    /\ UNCHANGED closed

Stop ==
    /\ phase = "serving"
    /\ phase' = "down"
    /\ CloseClient
    /\ UNCHANGED <<deployment, context, injected, logVars, aborts, reports>>

\* Cancelled at its yield, the lifespan runs none of its shutdown.
Abort ==
    /\ phase = "serving" /\ aborts < MaxAborts
    /\ phase' = "down"
    /\ aborts' = aborts + 1
    /\ UNCHANGED <<deployment, context, clientVars, logVars, reports>>

\* A process of its own starts with nothing but the deployment.
NewProcess ==
    /\ phase = "down"
    /\ context' = None
    /\ handlers' = Fresh(foreign)
    /\ uvicornOwn' = TRUE
    /\ built' = 0 /\ closed' = FALSE /\ aborts' = 0
    /\ UNCHANGED <<deployment, phase, injected, foreign, reports>>

\* Between two starts the machine may be told to log in another format.
Reformat ==
    /\ phase = "down" /\ ~Reported /\ LogProblems(deployment) = {}
    /\ Len(reports) <= MaxFormats
    /\ \E f \in {"json", "console"} : deployment' = [deployment EXCEPT !.logs = f]
    /\ UNCHANGED <<phase, context, clientVars, logVars, aborts, reports>>

-----------------------------------------------------------------------------
(* The operator corrects every problem reported, and nothing else.        *)

\* An entry they may write where one is missing.
Ready ==
    {e \in Entry : /\ e.adapter \in {"cohere", "mock"}
                   /\ e.names = Takes(e.adapter) /\ e.fields}

\* _unimplemented: "Remove the entry and every reference to it".
Gone(problems) == {n \in Name : Problem("unimplemented", n) \in problems}

RepairedEntries(n, e, problems) ==
    IF n \in Gone(problems) THEN {None}
    ELSE IF e = None
    THEN {None} \cup {r \in Ready : {Problem("too_short", "providers"),
                                    Problem("undefined", n)} \cap problems # {}}
    ELSE {[e EXCEPT
            !.fields = @ \/ Problem("field", n) \in problems,
            !.names = IF Problem("unnamed", n) \in problems THEN @ \cup Takes(e.adapter)
                      ELSE IF Problem("surplus", n) \in problems
                      THEN @ \cap Takes(e.adapter) ELSE @]}

RepairedProviders(d, problems) ==
    LET entries == [n \in Name |-> RepairedEntries(n, d.providers[n], problems)]
    IN  {f \in [Name -> UNION Range(entries)] :
            /\ \A n \in Name : f[n] \in entries[n]
            /\ Problem("too_short", "providers") \in problems
                  => \E n \in Name : f[n] # None}

Precedes(p, q, list) ==
    \E i, j \in DOMAIN list : i < j /\ list[i] = p /\ list[j] = q

\* What is left of a list, in its order.
Without(list, gone) ==
    LET left == Range(list) \ gone
    IN  {s \in [1 .. Cardinality(left) -> left] :
            /\ Range(s) = left
            /\ \A i, j \in DOMAIN s : i < j => Precedes(s[i], s[j], list)}

\* Otherwise a list that is reported becomes one without what is reported and
\* without a mistake of its own: the same, if what it names is defined now.
RepairedLists(d, providers, problems) ==
    IF Gone(problems) # {} THEN Without(d.preference, Gone(problems))
    ELSE IF \A p \in problems : p.where # "preference" /\ p.kind # "undefined"
    THEN {d.preference}
    ELSE {list \in Lists \cup {d.preference} :
            /\ list # <<>>
            /\ Repeats(list) => /\ Repeats(d.preference)
                                /\ Problem("repeated", "preference") \notin problems
            /\ \A p \in Range(list) :
                  \/ p \in Name /\ providers[p] # None
                  \/ p \in Range(d.preference) /\ Problem("undefined", p) \notin problems}

AnyOf(S) == CHOOSE x \in S : TRUE

Repaired(d, providers, list, problems) ==
    [logs |-> IF Problem("setting", "log_format") \in problems THEN "json" ELSE d.logs,
     file |-> IF Problem(d.file, "file") \in problems THEN "mapping" ELSE d.file,
     providers |-> providers,
     preference |-> list,
     geometry |-> IF Problem("geometry", "breaker") \in problems
                  THEN AnyOf({g \in Geometry : WholeBuckets(g)}) ELSE d.geometry,
     key |-> IF \E n \in Name : Problem("credential", n) \in problems
             THEN "text" ELSE d.key,
     url |-> IF Problem("setting", "redis_url") \in problems THEN "redis" ELSE d.url]

Repair ==
    /\ phase = "down"
    /\ Reported
    /\ LET problems == LastReport.problems
       IN  \E providers \in RepairedProviders(deployment, problems) :
              \E list \in RepairedLists(deployment, providers, problems) :
                 deployment' = Repaired(deployment, providers, list, problems)
    /\ UNCHANGED <<phase, context, clientVars, logVars, aborts, reports>>

Next ==
    \/ StartSucceeds \/ StartFails \/ Stop \/ Abort
    \/ NewProcess \/ Reformat \/ Repair

Spec == Init /\ [][Next]_vars

-----------------------------------------------------------------------------
(* Properties.                                                             *)

\* The type invariant of the lifespan's state and of the deployment.
TypeOK ==
    /\ deployment \in Settings
    /\ phase \in {"down", "serving"}
    /\ {injected, closed, uvicornOwn} \subseteq BOOLEAN
    /\ built \in Nat
    /\ aborts \in 0 .. MaxAborts
    /\ handlers \in [Handler -> Nat] /\ foreign \in Nat
    /\ \A i \in DOMAIN reports : reports[i].check \in 1 .. 6

\* A gateway that serves was given what its other parts take for granted
\* (app.py:480): every provider a preference list names has an adapter that
\* exists, no list is empty or repeats one, a Cohere adapter has a key that is
\* not blank, and the window is made of whole buckets.
ServingIsWhole ==
    phase = "serving" =>
        /\ context.preference # <<>>
        /\ \A p \in Range(context.preference) :
              p \in DOMAIN context.adapters
                 /\ context.adapters[p] \in {"cohere", "mock"}
        /\ ~Repeats(context.preference)
        /\ (\E n \in DOMAIN context.adapters : context.adapters[n] = "cohere")
              => context.key = "text"
        /\ context.geometry[1] % context.geometry[2] = 0
        /\ context.geometry[2] <= context.geometry[1]

Names(report, kinds) == \E p \in report.problems : p.kind \in kinds

\* How far a failed start came.  The fields of an entry hide what would be wrong
\* with it as a whole, and a name it lacks one that it has too many.
Reached(report) ==
    report.check +
       (IF report.check < 3 \/ Names(report, {"field", "too_short"}) THEN 0
        ELSE IF Names(report, {"unnamed"}) THEN 1 ELSE 2)

\* Each failed start reports enough (registry.py:84, "one restart to diagnose,
\* not two") that whoever corrects what it says, and nothing else, comes further
\* with the next one; but for the removal of what nothing implements, asked for
\* once (registry.py:48), which may leave nothing where there must be something.
\* So nobody goes round in circles: ten corrections are enough for any deployment.
StagesAdvance ==
    /\ \A i \in 1 .. Len(reports) - 1 :
          \/ Reached(reports[i]) < Reached(reports[i + 1])
          \/ /\ Names(reports[i], {"unimplemented"})
             /\ \A p \in reports[i + 1].problems : p.kind = "too_short"
    /\ \A i, j \in DOMAIN reports :
          Names(reports[i], {"unimplemented"}) /\ Names(reports[j], {"unimplemented"})
             => i = j
    /\ Len(reports) <= 10

\* A start that fails for its configuration says so exactly once, in the
\* format its machine asks for, however often the process was started and under
\* whatever format before; only a refused log setting is left to the handlers
\* that are there. Handlers of others stay (logging.py:227).
FailureRenderedOnce ==
    /\ \A i \in DOMAIN reports :
          LET r == reports[i]
          IN  r.check > 1 =>
                /\ r.copies = 1
                /\ Format(r.deployment) \in r.rendered
                /\ r.rendered \subseteq {Format(r.deployment), "other"}
    /\ handlers["other"] = foreign

\* No failed start leaves a client behind and no shutdown closes a client of
\* the caller's: what is open is the serving lifespan's own client, and one
\* for each time a lifespan was cancelled before its shutdown (app.py:548).
ClientsBalance ==
    /\ built = IF injected THEN 0
               ELSE aborts + (IF phase = "serving" THEN 1 ELSE 0)
    /\ ~closed
=============================================================================

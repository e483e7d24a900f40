---------------------------- MODULE StartupProofs ----------------------------
(***************************************************************************)
(* Proofs about Startup: the checks of a start, made in any order a        *)
(* deployment's mistakes impose, leave nothing out, and clients are        *)
(* accounted for, for every set of names, deployments and geometries.      *)
(***************************************************************************)
EXTENDS Startup, FiniteSetTheorems, TLAPS

\* A start finds nothing only if each of the six checks finds nothing.
LEMMA NothingFails ==
    ASSUME NEW d, Failing(d) = {}
    PROVE  /\ FieldProblems(d) \cup ObjectProblems(d) = {}
           /\ CrossProblems(d) = {}
           /\ RegistryProblems(d) = {}
<1>1. \A i \in 1 .. 6 : Checks(d)[i] = {}
  BY DEF Failing
<1>2. /\ Checks(d)[3] = FieldProblems(d) \cup ObjectProblems(d)
      /\ Checks(d)[4] = CrossProblems(d)
      /\ Checks(d)[5] = RegistryProblems(d)
  BY DEF Checks
<1>3. 3 \in 1 .. 6 /\ 4 \in 1 .. 6 /\ 5 \in 1 .. 6
  OBVIOUS
<1> QED
  BY <1>1, <1>2, <1>3

\* A start that fails fails at the first of its checks that finds something.
LEMMA FirstIs ==
    ASSUME NEW d, Failing(d) # {}
    PROVE  /\ FirstFailing(d) \in 1 .. 6
           /\ Checks(d)[FirstFailing(d)] # {}
           /\ \A i \in 1 .. 6 : i < FirstFailing(d) => Checks(d)[i] = {}
<1> DEFINE F == Failing(d)
           first == FirstFailing(d)
<1>1. F # {} /\ F \subseteq 1 .. 6 /\ \A i \in 1 .. 6 : i \in F <=> Checks(d)[i] # {}
  BY DEF Failing
<1>2. first = CHOOSE i \in F : \A j \in F : i <= j
  BY DEF FirstFailing
<1> HIDE DEF F, first
<1>3. \E i \in F : \A j \in F : i <= j
  <2>1. CASE 1 \in F
    BY <1>1, <2>1
  <2>2. CASE 1 \notin F /\ 2 \in F
    BY <1>1, <2>2
  <2>3. CASE {1, 2} \cap F = {} /\ 3 \in F
    BY <1>1, <2>3
  <2>4. CASE {1, 2, 3} \cap F = {} /\ 4 \in F
    BY <1>1, <2>4
  <2>5. CASE {1, 2, 3, 4} \cap F = {} /\ 5 \in F
    BY <1>1, <2>5
  <2>6. CASE {1, 2, 3, 4, 5} \cap F = {}
    <3>1. \A j \in F : j = 6
      <4>1. \A j \in F : j \in 1 .. 6 /\ j \notin {1, 2, 3, 4, 5}
        BY <1>1, <2>6
      <4> QED
        BY <4>1
    <3>2. 6 \in F
      BY <1>1, <3>1
    <3>3. \A j \in F : 6 <= j
      BY <3>1
    <3> QED
      BY <3>2, <3>3
  <2> QED
    BY <2>1, <2>2, <2>3, <2>4, <2>5, <2>6
<1>4. first \in F /\ \A j \in F : first <= j
  BY <1>2, <1>3
<1>5. first \in 1 .. 6 /\ Checks(d)[first] # {}
  BY <1>1, <1>4
<1>6. ASSUME NEW i \in 1 .. 6, i < first PROVE Checks(d)[i] = {}
  <2>1. i \notin F
    BY <1>4, <1>5, <1>6
  <2> QED
    BY <1>1, <2>1
<1> QED
  BY <1>5, <1>6 DEF first

\* The parts of a deployment.
LEMMA PartsOf ==
    ASSUME NEW d \in Settings
    PROVE  /\ d.logs \in {"json", "console", "blank", "unknown"}
           /\ d.file \in {"mapping", "missing", "unreadable", "not_yaml", "empty",
                         "no_mapping"}
           /\ d.providers \in [Name -> Entry \cup {None}]
           /\ d.preference \in Seq(Mention)
           /\ d.geometry \in Geometry
           /\ d.key \in {"text", "blank", "unset"}
           /\ d.url \in {"redis", "blank", "unset", "no_scheme"}
  BY DEF Settings

\* What the checks of the mapping and of the registry say of a start's context.
WholeContext(c) ==
    /\ c.preference # <<>>
    /\ \A p \in Range(c.preference) :
          p \in DOMAIN c.adapters /\ c.adapters[p] \in {"cohere", "mock"}
    /\ ~Repeats(c.preference)
    /\ (\E n \in DOMAIN c.adapters : c.adapters[n] = "cohere") => c.key = "text"
    /\ c.geometry[1] % c.geometry[2] = 0
    /\ c.geometry[2] <= c.geometry[1]

\* A deployment in which no check finds anything yields a whole context.
LEMMA ContextIsWhole ==
    ASSUME NEW d \in Settings, Failing(d) = {}
    PROVE  WholeContext(ContextOf(d))
<1> DEFINE c == ContextOf(d)
<1>1. /\ c.preference = d.preference
      /\ c.geometry = d.geometry
      /\ c.key = d.key
      /\ c.adapters = [n \in Configured(d) |-> d.providers[n].adapter]
  BY DEF ContextOf
<1>2. /\ DOMAIN c.adapters = Configured(d)
      /\ \A n \in Configured(d) : c.adapters[n] = d.providers[n].adapter
  BY <1>1
<1> HIDE DEF c
<1>3. \A n \in Configured(d) : d.providers[n] \in Entry
  BY PartsOf DEF Configured
<1>4. /\ Found(d.preference = <<>>, "too_short", "preference") = {}
      /\ Found(Repeats(d.preference), "repeated", "preference") = {}
      /\ Found(~WholeBuckets(d.geometry), "geometry", "breaker") = {}
  BY NothingFails DEF FieldProblems, ObjectProblems
<1>5. c.preference # <<>>
  BY <1>1, <1>4 DEF Found
<1>6. ~Repeats(c.preference)
  <2>1. ~Repeats(d.preference)
    BY <1>4 DEF Found
  <2> QED
    BY <1>1, <2>1
<1>7. c.geometry[1] % c.geometry[2] = 0 /\ c.geometry[2] <= c.geometry[1]
  <2>1. WholeBuckets(d.geometry)
    BY <1>4 DEF Found
  <2> QED
    BY <1>1, <2>1 DEF WholeBuckets
<1>8. ASSUME NEW n \in Configured(d)
      PROVE  /\ d.providers[n].adapter \in {"cohere", "mock"}
             /\ d.providers[n].adapter = "cohere" => ~Blank(d.key)
  <2>1. CredentialProblems(d) = {} /\ Unimplemented(d) = {}
    BY NothingFails DEF RegistryProblems
  <2>2. n \notin {m \in Configured(d) :
            d.providers[m].adapter \in {"azure_openai", "bedrock"}}
    BY <2>1 DEF Unimplemented
  <2>3. n \notin {m \in Configured(d) :
            d.providers[m].adapter = "cohere" /\ Blank(d.key)}
    BY <2>1 DEF CredentialProblems
  <2>4. d.providers[n].adapter \in {"cohere", "azure_openai", "bedrock", "mock"}
    BY <1>3 DEF Entry
  <2> QED
    BY <2>2, <2>3, <2>4
<1>9. ASSUME NEW p \in Range(c.preference)
      PROVE  p \in DOMAIN c.adapters /\ c.adapters[p] \in {"cohere", "mock"}
  <2>1. p \notin Range(d.preference) \ Configured(d)
    BY NothingFails DEF CrossProblems
  <2>2. p \in Configured(d)
    BY <1>1, <1>9, <2>1
  <2> QED
    BY <1>2, <1>8, <2>2
<1>0. ASSUME NEW n \in DOMAIN c.adapters, c.adapters[n] = "cohere"
       PROVE  c.key = "text"
  <2>1. ~Blank(d.key)
    BY <1>2, <1>8, <1>0
  <2>2. d.key \in {"text", "blank", "unset"}
    BY PartsOf
  <2> QED
    BY <1>1, <2>1, <2>2 DEF Blank
<1> QED
  BY <1>5, <1>6, <1>7, <1>9, <1>0 DEF WholeContext, c
-----------------------------------------------------------------------------
(* The invariants.                                                         *)

\* What is left of a list repeats a name only if the list does.
LEMMA WithoutTyped ==
    ASSUME NEW list \in Seq(Mention), NEW gone, NEW s \in Without(list, gone)
    PROVE  /\ s \in Seq(Mention) /\ Range(s) = Range(list) \ gone
           /\ ~Repeats(list) => ~Repeats(s)
<1> DEFINE left == Range(list) \ gone
           k == Cardinality(left)
<1>1. /\ s \in [1 .. k -> left] /\ Range(s) = left
      /\ \A i, j \in DOMAIN s : i < j => Precedes(s[i], s[j], list)
  BY DEF Without
<1>2. k \in Nat
  <2>1. /\ list \in [1 .. Len(list) -> Mention] /\ Len(list) \in Nat
        /\ DOMAIN list = 1 .. Len(list)
    OBVIOUS
  <2>2. list \in Surjection(1 .. Len(list), Range(list))
    BY <2>1 DEF Surjection, Range
  <2>3. IsFiniteSet(1 .. Len(list))
    BY <2>1, FS_Interval
  <2>4. IsFiniteSet(Range(list))
    BY <2>2, <2>3, FS_Surjection
  <2>5. IsFiniteSet(left)
    BY <2>4, FS_Subset
  <2> QED
    BY <2>5, FS_CardinalityType
<1>3. left \subseteq Mention
  BY DEF Range
<1> HIDE DEF k, left
<1>4. s \in Seq(Mention) /\ DOMAIN s = 1 .. k
  BY <1>1, <1>2, <1>3
<1>5. ASSUME Repeats(s) PROVE Repeats(list)
  <2>1. PICK i, j \in DOMAIN s : i # j /\ s[i] = s[j]
    BY <1>5 DEF Repeats
  <2>2. Precedes(s[i], s[i], list)
    BY <1>1, <1>2, <1>4, <2>1
  <2>3. PICK a, b \in DOMAIN list : a < b /\ list[a] = s[i] /\ list[b] = s[i]
    BY <2>2 DEF Precedes
  <2> QED
    BY <2>3 DEF Repeats
<1> QED
  BY <1>1, <1>4, <1>5 DEF left

\* What is written where an entry is missing names what it should.
LEMMA ReadyIs ==
    ASSUME NEW e \in Ready
    PROVE  /\ e \in Entry /\ e # None /\ e.adapter \in {"cohere", "mock"}
           /\ e.names = Takes(e.adapter) /\ e.fields
BY StartupAssumption DEF Ready

\* A correction leaves an entry an entry.
LEMMA EntryTyped ==
    ASSUME NEW n, NEW e \in Entry \cup {None}, NEW problems,
           NEW a \in RepairedEntries(n, e, problems)
    PROVE  a \in Entry \cup {None}
<1>1. CASE n \in Gone(problems)
  BY <1>1 DEF RepairedEntries
<1>2. CASE n \notin Gone(problems) /\ e = None
  BY <1>2, ReadyIs DEF RepairedEntries
<1>3. CASE n \notin Gone(problems) /\ e # None
  <2> DEFINE fields == e.fields \/ Problem("field", n) \in problems
             names == IF Problem("unnamed", n) \in problems
                      THEN e.names \cup Takes(e.adapter)
                      ELSE IF Problem("surplus", n) \in problems
                      THEN e.names \cap Takes(e.adapter) ELSE e.names
  <2>1. a = [e EXCEPT !.fields = fields, !.names = names]
    BY <1>3 DEF RepairedEntries
  <2>2. e \in Entry /\ e.names \subseteq {"model", "deployment"} /\ e.fields \in BOOLEAN
    BY <1>3 DEF Entry
  <2>3. fields \in BOOLEAN
    BY <2>2, Zenon
  <2>4. Takes(e.adapter) \subseteq {"model", "deployment"}
    BY DEF Takes
  <2>5. names \subseteq {"model", "deployment"}
    BY <2>2, <2>4
  <2> HIDE DEF fields, names
  <2>6. [e EXCEPT !.fields = fields, !.names = names] \in Entry
    BY <2>2, <2>3, <2>5 DEF Entry
  <2> QED
    BY <2>1, <2>6
<1> QED
  BY <1>1, <1>2, <1>3

\* A deployment in which all that was reported is corrected.
Corrected(d, problems, after) ==
    \E providers \in RepairedProviders(d, problems) :
       \E list \in RepairedLists(d, providers, problems) :
          after = Repaired(d, providers, list, problems)

\* It is a deployment, and its parts are those of Repaired.
LEMMA CorrectedIs ==
    ASSUME NEW d \in Settings, NEW problems, NEW after, Corrected(d, problems, after)
    PROVE  /\ after \in Settings
           /\ \A n \in Name :
                 after.providers[n] \in RepairedEntries(n, d.providers[n], problems)
           /\ Problem("too_short", "providers") \in problems => Configured(after) # {}
           /\ after.preference \in RepairedLists(d, after.providers, problems)
           /\ after = Repaired(d, after.providers, after.preference, problems)
<1>0. PICK providers \in RepairedProviders(d, problems) :
          \E list \in RepairedLists(d, providers, problems) :
             after = Repaired(d, providers, list, problems)
  BY DEF Corrected
<1>1. PICK list \in RepairedLists(d, providers, problems) :
         after = Repaired(d, providers, list, problems)
  BY <1>0
<1>2. after.providers = providers /\ after.preference = list
  BY <1>1 DEF Repaired
<1> DEFINE entries == [n \in Name |-> RepairedEntries(n, d.providers[n], problems)]
<1>3. /\ providers \in [Name -> UNION Range(entries)]
      /\ \A n \in Name : providers[n] \in entries[n]
      /\ Problem("too_short", "providers") \in problems
            => \E n \in Name : providers[n] # None
  BY DEF RepairedProviders
<1>4. \A n \in Name : entries[n] = RepairedEntries(n, d.providers[n], problems)
  OBVIOUS
<1> HIDE DEF entries
<1>5. \A n \in Name : providers[n] \in RepairedEntries(n, d.providers[n], problems)
  BY <1>3, <1>4
<1>6. \A n \in Name : providers[n] \in Entry \cup {None}
  <2> TAKE n \in Name
  <2>1. d.providers[n] \in Entry \cup {None}
    BY PartsOf
  <2> QED
    BY <1>5, <2>1, EntryTyped
<1>7. providers \in [Name -> Entry \cup {None}]
  BY <1>3, <1>6
<1>8. list \in Seq(Mention)
  <2>1. d.preference \in Seq(Mention) /\ Lists \subseteq Seq(Mention)
    BY StartupAssumption, PartsOf
  <2> QED
    BY <1>1, <2>1, WithoutTyped DEF RepairedLists
<1>9. after \in Settings
  <2>1. AnyOf({g \in Geometry : WholeBuckets(g)}) \in Geometry
    BY StartupAssumption DEF AnyOf, WholeBuckets
  <2>2. after.geometry \in Geometry
    BY <1>1, <2>1, PartsOf DEF Repaired
  <2> QED
    BY <1>1, <1>7, <1>8, <2>2, PartsOf DEF Repaired, Settings
<1> QED
  BY <1>1, <1>2, <1>3, <1>5, <1>9 DEF Configured

\* However it is corrected, what a machine is given is a deployment.
Deployed == deployment \in Settings

LEMMA DeployedInit == Init => Deployed
BY StartupAssumption DEF Init, Deployed

LEMMA DeployedNext == Deployed /\ [Next]_vars => Deployed'
<1> SUFFICES ASSUME Deployed, [Next]_vars PROVE Deployed'
  OBVIOUS
<1>1. CASE Repair
  <2>1. Corrected(deployment, LastReport.problems, deployment')
    BY <1>1 DEF Repair, Corrected
  <2> QED
    BY <2>1, CorrectedIs DEF Deployed
<1>2. CASE Reformat
  <2>1. PICK f \in {"json", "console"} : deployment' = [deployment EXCEPT !.logs = f]
    BY <1>2 DEF Reformat
  <2> QED
    BY <2>1 DEF Deployed, Settings
<1>3. CASE UNCHANGED deployment
  BY <1>3 DEF Deployed
<1> QED
  BY <1>1, <1>2, <1>3 DEF Next, vars, StartSucceeds, StartFails, Stop, Abort, NewProcess

LEMMA DeployedAlways == Spec => []Deployed
BY DeployedInit, DeployedNext, PTL DEF Spec

\* A context is whole for as long as it is served.
ServingInv == phase = "serving" => WholeContext(context)

LEMMA ServingInit == Init => ServingInv
BY DEF Init, ServingInv

LEMMA ServingNext == Deployed /\ ServingInv /\ [Next]_vars => ServingInv'
<1> SUFFICES ASSUME Deployed, ServingInv, [Next]_vars PROVE ServingInv'
  OBVIOUS
<1> USE DEF ServingInv
<1>1. CASE StartSucceeds
  <2>1. WholeContext(ContextOf(deployment))
    BY <1>1, ContextIsWhole DEF StartSucceeds, Deployed
  <2>2. context' = ContextOf(deployment) /\ deployment' = deployment
    BY <1>1 DEF StartSucceeds
  <2> QED
    BY <2>1, <2>2
<1>2. CASE StartFails
  BY <1>2 DEF StartFails
<1>3. CASE Stop
  BY <1>3 DEF Stop
<1>4. CASE Abort
  BY <1>4 DEF Abort
<1>5. CASE NewProcess
  BY <1>5 DEF NewProcess
<1>6. CASE Reformat
  BY <1>6 DEF Reformat
<1>7. CASE Repair
  BY <1>7 DEF Repair
<1>8. CASE UNCHANGED vars
  BY <1>8 DEF vars
<1> QED
  BY <1>1, <1>2, <1>3, <1>4, <1>5, <1>6, <1>7, <1>8 DEF Next

\* What serves is what the other parts assume: whatever the deployment's
\* mistakes and however they were corrected, over restarts and cancellations.
THEOREM ServesWhole == Spec => []ServingIsWhole
<1>1. ServingInv => ServingIsWhole
  BY DEF ServingInv, WholeContext, ServingIsWhole
<1> QED
  BY <1>1, DeployedAlways, ServingInit, ServingNext, PTL DEF Spec

\* ClientsBalance with the types its sum needs.
ClientsInv ==
    /\ aborts \in Nat /\ built \in Nat
    /\ injected \in BOOLEAN
    /\ phase \in {"down", "serving"}
    /\ ClientsBalance

LEMMA ClientsInit == Init => ClientsInv
BY DEF Init, ClientsInv, ClientsBalance

LEMMA ClientsNext == ClientsInv /\ [Next]_vars => ClientsInv'
<1> SUFFICES ASSUME ClientsInv, [Next]_vars PROVE ClientsInv'
  OBVIOUS
<1> USE DEF ClientsInv, ClientsBalance
<1>1. CASE StartSucceeds
  BY <1>1 DEF StartSucceeds, Build, ClientBuilt
<1>2. CASE StartFails
  <2>1. FirstFailing(deployment) \in 1 .. 6
    BY <1>2, FirstIs DEF StartFails
  <2>2. built' = built /\ UNCHANGED <<injected, closed>>
    BY <1>2, <2>1 DEF StartFails, Build, ClientBuilt
  <2> QED
    BY <1>2, <2>2 DEF StartFails
<1>3. CASE Stop
  BY <1>3 DEF Stop, CloseClient
<1>4. CASE Abort
  BY <1>4 DEF Abort, clientVars
<1>5. CASE NewProcess
  BY <1>5 DEF NewProcess
<1>6. CASE Reformat
  BY <1>6 DEF Reformat, clientVars
<1>7. CASE Repair
  BY <1>7 DEF Repair, clientVars
<1>8. CASE UNCHANGED vars
  BY <1>8 DEF vars, clientVars
<1> QED
  BY <1>1, <1>2, <1>3, <1>4, <1>5, <1>6, <1>7, <1>8 DEF Next

\* No failed start leaves a client, no shutdown closes the caller's, and the
\* only clients left open are those of cancelled lifespans.
THEOREM ClientsAreBalanced == Spec => []ClientsBalance
<1>1. ClientsInv => ClientsBalance
  BY DEF ClientsInv
<1> QED
  BY <1>1, ClientsInit, ClientsNext, PTL DEF Spec
-----------------------------------------------------------------------------
(* What is logged.                                                         *)
\* A sequence of anything.
IsLog(s) == \E S : s \in Seq(S)

\* What an appended log holds.
LEMMA Appended ==
    ASSUME NEW s, IsLog(s), NEW e
    PROVE  /\ IsLog(Append(s, e))
           /\ Len(s) \in Nat /\ DOMAIN s = 1 .. Len(s)
           /\ Len(Append(s, e)) = Len(s) + 1
           /\ DOMAIN Append(s, e) = 1 .. Len(s) + 1
           /\ \A i \in 1 .. Len(s) : Append(s, e)[i] = s[i]
           /\ Append(s, e)[Len(s) + 1] = e
<1>1. PICK S : s \in Seq(S)
  BY DEF IsLog
<1> DEFINE T == S \cup {e}
<1>2. s \in Seq(T) /\ e \in T
  BY <1>1
<1> HIDE DEF T
<1>3. Append(s, e) \in Seq(T)
  BY <1>2
<1> QED
  BY <1>2, <1>3 DEF IsLog

\* A log setting that is not refused names one of keel's own handlers.
LEMMA FormatIs ==
    ASSUME NEW d \in Settings, LogProblems(d) = {}
    PROVE  Format(d) \in Own
<1>1. d.logs \in {"json", "console", "blank", "unknown"}
  BY PartsOf
<1>2. d.logs # "unknown"
  BY DEF LogProblems, Found
<1> QED
  BY <1>1, <1>2 DEF Format, Blank, Own

\* After configure_logging there is one handler of its own, and others stay.
LEMMA InstalledOnce ==
    ASSUME NEW hs \in [Handler -> Nat], NEW f \in Own
    PROVE  /\ Installed(hs, f) \in [Handler -> Nat]
           /\ Installed(hs, f)["other"] = hs["other"]
           /\ Copies(FALSE, Installed(hs, f)) = 1
           /\ f \in Rendered(FALSE, Installed(hs, f))
           /\ Rendered(FALSE, Installed(hs, f)) \subseteq {f, "other"}
<1> DEFINE n == Installed(hs, f)
<1>1. /\ n \in [Handler -> Nat]
      /\ \A h \in Handler :
            n[h] = IF h \notin Own THEN hs[h] ELSE IF h = f THEN 1 ELSE 0
  BY DEF Installed
<1> HIDE DEF n
<1>2. n["other"] = hs["other"]
  BY <1>1 DEF Handler, Own
<1>3. Copies(FALSE, n) = 1
  <2>1. /\ n["json"] = IF f = "json" THEN 1 ELSE 0
        /\ n["console"] = IF f = "console" THEN 1 ELSE 0
    BY <1>1 DEF Handler, Own
  <2> QED
    BY <2>1 DEF Copies, Own
<1>4. f \in Rendered(FALSE, n) /\ Rendered(FALSE, n) \subseteq {f, "other"}
  BY <1>1 DEF Rendered, Handler, Own
<1> QED
  BY <1>1, <1>2, <1>3, <1>4 DEF n

\* What the report of a failed start says of its log.
LoggedOnce(r) ==
    r.check > 1 =>
        /\ r.copies = 1
        /\ Format(r.deployment) \in r.rendered
        /\ r.rendered \subseteq {Format(r.deployment), "other"}

\* FailureRenderedOnce of every report, with the types of the handlers.
Logged ==
    /\ IsLog(reports)
    /\ handlers \in [Handler -> Nat] /\ foreign \in Nat /\ uvicornOwn \in BOOLEAN
    /\ \A i \in DOMAIN reports : reports[i].check \in 1 .. 6 /\ LoggedOnce(reports[i])
    /\ handlers["other"] = foreign

\* A process of its own has the others' handlers only.
LEMMA FreshIs ==
    ASSUME NEW n \in Nat
    PROVE  Fresh(n) \in [Handler -> Nat] /\ Fresh(n)["other"] = n
BY DEF Fresh, Handler, Own

LEMMA LoggedInit == Init => Logged
<1> SUFFICES ASSUME Init PROVE Logged
  OBVIOUS
<1>1. foreign \in Nat /\ handlers = Fresh(foreign) /\ reports = <<>> /\ uvicornOwn = TRUE
  BY DEF Init
<1>2. <<>> \in Seq({}) /\ DOMAIN <<>> = {}
  OBVIOUS
<1> QED
  BY <1>1, <1>2, FreshIs DEF Logged, IsLog

LEMMA LoggedNext == Deployed /\ Logged /\ [Next]_vars => Logged'
<1> SUFFICES ASSUME Deployed, Logged, [Next]_vars PROVE Logged'
  OBVIOUS
<1>1. ASSUME ConfigureLogging(deployment)
      PROVE  /\ handlers' \in [Handler -> Nat] /\ foreign' \in Nat
             /\ uvicornOwn' \in BOOLEAN /\ handlers'["other"] = foreign'
             /\ LogProblems(deployment) = {} =>
                   /\ Copies(uvicornOwn', handlers') = 1
                   /\ Format(deployment) \in Rendered(uvicornOwn', handlers')
                   /\ Rendered(uvicornOwn', handlers')
                         \subseteq {Format(deployment), "other"}
  <2>1. CASE LogProblems(deployment) # {}
    BY <1>1, <2>1 DEF ConfigureLogging, logVars, Logged
  <2>2. CASE LogProblems(deployment) = {}
    <3>1. /\ handlers' = Installed(handlers, Format(deployment))
          /\ uvicornOwn' = FALSE /\ foreign' = foreign
      BY <1>1, <2>2 DEF ConfigureLogging
    <3>2. Format(deployment) \in Own /\ handlers \in [Handler -> Nat]
      BY <2>2, FormatIs DEF Deployed, Logged
    <3> QED
      BY <3>1, <3>2, InstalledOnce DEF Logged
  <2> QED
    BY <2>1, <2>2
<1>2. CASE StartSucceeds
  <2>1. ConfigureLogging(deployment) /\ UNCHANGED reports
    BY <1>2 DEF StartSucceeds
  <2> QED
    BY <1>1, <2>1 DEF Logged
<1>3. CASE StartFails
  <2> DEFINE check == FirstFailing(deployment)
             r == [deployment |-> deployment,
                   check |-> check, problems |-> Checks(deployment)[check],
                   rendered |-> Rendered(uvicornOwn', handlers'),
                   copies |-> Copies(uvicornOwn', handlers')]
  <2>1. /\ ConfigureLogging(deployment) /\ reports' = Append(reports, r)
        /\ Failing(deployment) # {}
    BY <1>3 DEF StartFails
  <2>2. check \in 1 .. 6 /\ (check > 1 => LogProblems(deployment) = {})
    <3>1. /\ check \in 1 .. 6
          /\ \A i \in 1 .. 6 : i < check => Checks(deployment)[i] = {}
      BY <2>1, FirstIs
    <3>2. Checks(deployment)[1] = LogProblems(deployment)
      BY DEF Checks
    <3> QED
      BY <3>1, <3>2
  <2>3. r.check \in 1 .. 6 /\ LoggedOnce(r)
    BY <1>1, <2>1, <2>2 DEF LoggedOnce
  <2> HIDE DEF r, check
  <2>4. /\ IsLog(reports') /\ Len(reports) \in Nat
        /\ DOMAIN reports = 1 .. Len(reports)
        /\ DOMAIN reports' = 1 .. Len(reports) + 1
        /\ \A i \in 1 .. Len(reports) : reports'[i] = reports[i]
        /\ reports'[Len(reports) + 1] = r
    BY <2>1, Appended DEF Logged
  <2>5. ASSUME NEW i \in DOMAIN reports'
        PROVE  reports'[i].check \in 1 .. 6 /\ LoggedOnce(reports'[i])
    <3>1. CASE i \in 1 .. Len(reports)
      BY <2>4, <3>1 DEF Logged
    <3>2. CASE i = Len(reports) + 1
      BY <2>3, <2>4, <3>2
    <3> QED
      BY <2>4, <3>1, <3>2
  <2> QED
    BY <1>1, <2>1, <2>4, <2>5 DEF Logged
<1>4. CASE NewProcess
  <2>1. handlers' = Fresh(foreign) /\ uvicornOwn' = TRUE /\ UNCHANGED <<foreign, reports>>
    BY <1>4 DEF NewProcess
  <2> QED
    BY <2>1, FreshIs DEF Logged
<1>5. CASE UNCHANGED <<logVars, reports>>
  BY <1>5 DEF Logged, logVars
<1> QED
  BY <1>2, <1>3, <1>4, <1>5 DEF Next, vars, Stop, Abort, Reformat, Repair

LEMMA LoggedAlways == Spec => []Logged
BY DeployedAlways, LoggedInit, LoggedNext, PTL DEF Spec

\* Whatever a machine logged in before and however often it was started, a start
\* that fails past its log setting is rendered by one handler of keel's own, in
\* the format asked for: configure_logging replaces its handler (logging.py:227).
THEOREM FailuresAreRenderedOnce == Spec => []FailureRenderedOnce
<1>1. Logged => FailureRenderedOnce
  BY DEF Logged, LoggedOnce, FailureRenderedOnce
<1> QED
  BY <1>1, LoggedAlways, PTL
-----------------------------------------------------------------------------
(* How far starts come.                                                    *)

\* What a start finds, in the order of Reached: a mapping's fields, the names its
\* entries lack and its objects are three stages of one check.
Finds(d) ==
    <<LogProblems(d), FileProblems(d), FieldProblems(d), Unnamed(d), ObjectProblems(d),
      CrossProblems(d), RegistryProblems(d), UrlProblems(d)>>

\* Stage by stage.
LEMMA FindsIs ==
    ASSUME NEW d
    PROVE  /\ Finds(d)[1] = LogProblems(d) /\ Finds(d)[2] = FileProblems(d)
           /\ Finds(d)[3] = FieldProblems(d) /\ Finds(d)[4] = Unnamed(d)
           /\ Finds(d)[5] = ObjectProblems(d) /\ Finds(d)[6] = CrossProblems(d)
           /\ Finds(d)[7] = RegistryProblems(d) /\ Finds(d)[8] = UrlProblems(d)
BY DEF Finds

\* The first k stages find nothing.
Passed(d, k) == \A i \in 1 .. 8 : i <= k => Finds(d)[i] = {}

\* The report StartFails makes of a deployment.
Reports(r, d) ==
    /\ r.deployment = d
    /\ d \in Settings
    /\ Failing(d) # {}
    /\ r.check = FirstFailing(d)
    /\ r.problems = Checks(d)[r.check]

\* Problems are told apart by their kind.
LEMMA KindsApart ==
    ASSUME NEW d \in Settings
    PROVE  /\ \A p \in LogProblems(d) \cup FileProblems(d) \cup UrlProblems(d) :
                 p.kind \notin {"field", "too_short", "unnamed", "undefined", "unimplemented"}
           /\ \A p \in FieldProblems(d) : p.kind \in {"field", "too_short"}
           /\ \A p \in Unnamed(d) : p.kind = "unnamed"
           /\ Unnamed(d) \subseteq ObjectProblems(d)
           /\ \A p \in ObjectProblems(d) \ Unnamed(d) :
                 p.kind \in {"surplus", "repeated", "geometry"}
           /\ \A p \in CrossProblems(d) : p.kind = "undefined"
           /\ \A p \in RegistryProblems(d) : p.kind \in {"credential", "unimplemented"}
<1> USE DEF Found, Problem
<1>1. \A p \in FieldProblems(d) : p.kind \in {"field", "too_short"}
  BY DEF FieldProblems
<1>2. \A p \in LogProblems(d) \cup UrlProblems(d) : p.kind = "setting"
  BY DEF LogProblems, UrlProblems
<1>3. \A p \in FileProblems(d) : p.kind = d.file
  BY DEF FileProblems
<1>4. d.file \notin {"field", "too_short", "unnamed", "undefined", "unimplemented"}
  BY PartsOf
<1>5. \A p \in Unnamed(d) : p.kind = "unnamed"
  BY DEF Unnamed
<1>6. /\ Unnamed(d) \subseteq ObjectProblems(d)
      /\ \A p \in ObjectProblems(d) \ Unnamed(d) :
            p.kind \in {"surplus", "repeated", "geometry"}
  BY DEF ObjectProblems
<1>7. \A p \in CrossProblems(d) : p.kind = "undefined"
  BY DEF CrossProblems
<1>8. \A p \in RegistryProblems(d) : p.kind \in {"credential", "unimplemented"}
  BY DEF RegistryProblems, CredentialProblems, Unimplemented
<1> QED
  BY <1>1, <1>2, <1>3, <1>4, <1>5, <1>6, <1>7, <1>8

\* A failed start passed the stages before its own, and reports all its own
\* stage finds: with the fields and the objects of a mapping, all of both.
LEMMA ReportIs ==
    ASSUME NEW d, NEW r, Reports(r, d)
    PROVE  /\ d \in Settings /\ Reached(r) \in 1 .. 8
           /\ \A i \in 1 .. 8 : i < Reached(r) => Finds(d)[i] = {}
           /\ Finds(d)[Reached(r)] # {} /\ Finds(d)[Reached(r)] \subseteq r.problems
           /\ Reached(r) = 3 => r.problems = FieldProblems(d) \cup ObjectProblems(d)
           /\ Reached(r) > 3 => ~Names(r, {"field", "too_short"})
           /\ Reached(r) > 4 => ~Names(r, {"unnamed"})
           /\ Reached(r) > 6 => ~Names(r, {"undefined"})
           /\ Reached(r) = 7 => r.problems = RegistryProblems(d)
           /\ Names(r, {"unimplemented"}) => Reached(r) = 7
<1> DEFINE P == r.problems
           c == r.check
           k == Reached(r)
           OfFields == \E p \in P : p.kind \in {"field", "too_short"}
           OfNames == \E p \in P : p.kind \in {"unnamed"}
           Undefined == \E p \in P : p.kind \in {"undefined"}
           Unbuilt == \E p \in P : p.kind \in {"unimplemented"}
<1>1. /\ c \in 1 .. 6 /\ Checks(d)[c] = P /\ P # {}
      /\ \A i \in 1 .. 6 : i < c => Checks(d)[i] = {}
      /\ d \in Settings
  BY FirstIs DEF Reports
<1>2. /\ Checks(d)[1] = LogProblems(d) /\ Checks(d)[2] = FileProblems(d)
      /\ Checks(d)[3] = FieldProblems(d) \cup ObjectProblems(d)
      /\ Checks(d)[4] = CrossProblems(d) /\ Checks(d)[5] = RegistryProblems(d)
      /\ Checks(d)[6] = UrlProblems(d)
  BY DEF Checks
<1>3. k = c + (IF c < 3 \/ OfFields THEN 0 ELSE IF OfNames THEN 1 ELSE 2)
  BY DEF Reached, Names
<1>4. SUFFICES
        /\ k \in 1 .. 8
        /\ \A i \in 1 .. 8 : i < k => Finds(d)[i] = {}
        /\ Finds(d)[k] # {} /\ Finds(d)[k] \subseteq P
        /\ k = 3 => P = FieldProblems(d) \cup ObjectProblems(d)
        /\ k > 3 => ~OfFields
        /\ k > 4 => ~OfNames
        /\ k > 6 => ~Undefined
        /\ k = 7 => P = RegistryProblems(d)
        /\ Unbuilt => k = 7
  BY <1>1 DEF Names
<1> HIDE DEF P, c, k
<1>5. CASE c = 1
  <2>1. k = 1 /\ P = LogProblems(d) /\ ~Unbuilt
    BY <1>1, <1>2, <1>3, <1>5, KindsApart
  <2> QED
    BY <1>1, <2>1, FindsIs
<1>6. CASE c = 2
  <2>1. /\ k = 2 /\ P = FileProblems(d) /\ LogProblems(d) = {} /\ ~Unbuilt
    BY <1>1, <1>2, <1>3, <1>6, KindsApart
  <2>2. \A i \in 1 .. 8 : i < 2 => i = 1
    OBVIOUS
  <2> QED
    BY <1>1, <2>1, <2>2, FindsIs
<1>7. CASE c > 2
  <2>1. LogProblems(d) = {} /\ FileProblems(d) = {}
    BY <1>1, <1>2, <1>7
  <2>2. CASE c = 3
    <3>1. /\ P = FieldProblems(d) \cup ObjectProblems(d)
          /\ OfFields <=> FieldProblems(d) # {}
          /\ OfNames <=> Unnamed(d) # {}
          /\ ~Undefined /\ ~Unbuilt
      BY <1>1, <1>2, <2>2, KindsApart
    <3>2. CASE OfFields
      <4>1. k = 3 /\ \A i \in 1 .. 8 : i < 3 => i \in {1, 2}
        BY <1>3, <2>2, <3>2
      <4> QED
        BY <2>1, <3>1, <3>2, <4>1, FindsIs
    <3>3. CASE ~OfFields /\ OfNames
      <4>1. k = 4 /\ \A i \in 1 .. 8 : i < 4 => i \in {1, 2, 3}
        BY <1>3, <2>2, <3>3
      <4>2. Unnamed(d) \subseteq ObjectProblems(d)
        BY <1>1, KindsApart
      <4> QED
        BY <2>1, <3>1, <3>3, <4>1, <4>2, FindsIs
    <3>4. CASE ~OfFields /\ ~OfNames
      <4>1. k = 5 /\ \A i \in 1 .. 8 : i < 5 => i \in {1, 2, 3, 4}
        BY <1>3, <2>2, <3>4
      <4> QED
        BY <1>1, <2>1, <3>1, <3>4, <4>1, FindsIs
    <3> QED
      BY <3>2, <3>3, <3>4
  <2>3. CASE c > 3
    <3>1. FieldProblems(d) = {} /\ ObjectProblems(d) = {} /\ Unnamed(d) = {}
      <4>1. FieldProblems(d) = {} /\ ObjectProblems(d) = {}
        BY <1>1, <1>2, <2>3
      <4> QED
        BY <1>1, <4>1, KindsApart
    <3>2. \A i \in 1 .. 5 : Finds(d)[i] = {}
      BY <2>1, <3>1, FindsIs
    <3>3. CASE c = 4
      <4>1. P = CrossProblems(d)
        BY <1>1, <1>2, <3>3
      <4>2. ~OfFields /\ ~OfNames /\ ~Unbuilt
        BY <1>1, <4>1, KindsApart
      <4>3. k = 6 /\ \A i \in 1 .. 8 : i < 6 => i \in 1 .. 5
        BY <1>3, <3>3, <4>2
      <4> QED
        BY <1>1, <3>2, <4>1, <4>2, <4>3, FindsIs
    <3>4. CASE c = 5
      <4>1. P = RegistryProblems(d) /\ CrossProblems(d) = {}
        BY <1>1, <1>2, <3>4
      <4>2. ~OfFields /\ ~OfNames /\ ~Undefined
        BY <1>1, <4>1, KindsApart
      <4>3. k = 7 /\ \A i \in 1 .. 8 : i < 7 => i \in 1 .. 5 \/ i = 6
        BY <1>3, <3>4, <4>2
      <4> QED
        BY <1>1, <3>2, <4>1, <4>2, <4>3, FindsIs
    <3>5. CASE c = 6
      <4>1. P = UrlProblems(d) /\ CrossProblems(d) = {} /\ RegistryProblems(d) = {}
        BY <1>1, <1>2, <3>5
      <4>2. ~OfFields /\ ~OfNames /\ ~Undefined /\ ~Unbuilt
        BY <1>1, <4>1, KindsApart
      <4>3. k = 8 /\ \A i \in 1 .. 8 : i < 8 => i \in 1 .. 5 \/ i = 6 \/ i = 7
        BY <1>3, <3>5, <4>2
      <4> QED
        BY <1>1, <3>2, <4>1, <4>2, <4>3, FindsIs
    <3> QED
      BY <1>1, <2>3, <3>3, <3>4, <3>5
  <2> QED
    BY <1>1, <1>7, <2>2, <2>3
<1> QED
  BY <1>1, <1>5, <1>6, <1>7

\* Only a mapping without providers has them reported as too short, and what is
\* unimplemented is reported as nothing else.
LEMMA ReportSays ==
    ASSUME NEW d, NEW r, Reports(r, d)
    PROVE  /\ Problem("too_short", "providers") \in r.problems => Configured(d) = {}
           /\ Names(r, {"unimplemented"}) <=> Gone(r.problems) # {}
           /\ \A n \in Gone(r.problems) : n \in Configured(d)
<1> DEFINE P == r.problems
<1>1. ASSUME Problem("too_short", "providers") \in P PROVE Configured(d) = {}
  <2>1. Names(r, {"field", "too_short"})
    BY <1>1 DEF Names, Problem
  <2> HIDE DEF P
  <2>2. Problem("too_short", "providers") \in FieldProblems(d)
    <3>1. r.check \in 1 .. 6 /\ P = Checks(d)[r.check] /\ d \in Settings
      BY FirstIs DEF Reports, P
    <3>2. P \in {LogProblems(d), FileProblems(d), FieldProblems(d) \cup ObjectProblems(d),
                CrossProblems(d), RegistryProblems(d), UrlProblems(d)}
      <4>1. r.check \in {1, 2, 3, 4, 5, 6}
        BY <3>1
      <4> QED
        BY <3>1, <4>1 DEF Checks
    <3>3. Problem("too_short", "providers").kind = "too_short"
      BY DEF Problem
    <3> QED
      BY <1>1, <3>1, <3>2, <3>3, KindsApart
  <2> QED
    BY <2>2 DEF FieldProblems, Found, Problem
<1>2. ASSUME Names(r, {"unimplemented"}) PROVE Gone(P) # {}
  <2>1. P = RegistryProblems(d)
    BY <1>2, ReportIs
  <2>2. PICK p \in P : p.kind = "unimplemented"
    BY <1>2 DEF Names
  <2> HIDE DEF P
  <2>3. PICK n \in Name : p = Problem("unimplemented", n)
    BY <2>1, <2>2 DEF RegistryProblems, CredentialProblems, Unimplemented, Problem, Configured
  <2> QED
    BY <2>2, <2>3 DEF Gone
<1>3. ASSUME NEW n \in Gone(P)
      PROVE  Names(r, {"unimplemented"}) /\ n \in Configured(d)
  <2>1. Problem("unimplemented", n) \in P /\ Problem("unimplemented", n).kind = "unimplemented"
    BY <1>3 DEF Gone, Problem
  <2>2. Names(r, {"unimplemented"})
    BY <2>1 DEF Names
  <2>3. P = RegistryProblems(d)
    BY <2>2, ReportIs
  <2> HIDE DEF P
  <2>4. n \in Configured(d)
    BY <2>1, <2>3 DEF RegistryProblems, CredentialProblems, Unimplemented, Problem
  <2> QED
    BY <2>2, <2>4
<1> QED
  BY <1>1, <1>2, <1>3

\* What a correction of all that a stage finds leaves for that stage.
LEMMA SettingsRepaired ==
    ASSUME NEW d \in Settings, NEW problems, NEW after, Corrected(d, problems, after)
    PROVE  /\ LogProblems(d) \subseteq problems => LogProblems(after) = {}
           /\ FileProblems(d) \subseteq problems => FileProblems(after) = {}
           /\ UrlProblems(d) \subseteq problems => UrlProblems(after) = {}
           /\ ObjectProblems(d) \subseteq problems => WholeBuckets(after.geometry)
<1>0. after = Repaired(d, after.providers, after.preference, problems)
  BY CorrectedIs
<1>1. ASSUME LogProblems(d) \subseteq problems PROVE LogProblems(after) = {}
  <2>1. d.logs = "unknown" => Problem("setting", "log_format") \in problems
    BY <1>1 DEF LogProblems, Found
  <2>2. after.logs = IF Problem("setting", "log_format") \in problems
                     THEN "json" ELSE d.logs
    BY <1>0 DEF Repaired
  <2> QED
    BY <2>1, <2>2 DEF LogProblems, Found
<1>2. ASSUME FileProblems(d) \subseteq problems PROVE FileProblems(after) = {}
  <2>1. d.file # "mapping" => Problem(d.file, "file") \in problems
    BY <1>2 DEF FileProblems, Found
  <2>2. after.file = IF Problem(d.file, "file") \in problems THEN "mapping" ELSE d.file
    BY <1>0 DEF Repaired
  <2> QED
    BY <2>1, <2>2 DEF FileProblems, Found
<1>3. ASSUME UrlProblems(d) \subseteq problems PROVE UrlProblems(after) = {}
  <2>1. ~injected /\ d.url = "no_scheme"
            => Problem("setting", "redis_url") \in problems
    BY <1>3 DEF UrlProblems, Found
  <2>2. after.url = IF Problem("setting", "redis_url") \in problems
                    THEN "redis" ELSE d.url
    BY <1>0 DEF Repaired
  <2> QED
    BY <2>1, <2>2 DEF UrlProblems, Found
<1>4. ASSUME ObjectProblems(d) \subseteq problems PROVE WholeBuckets(after.geometry)
  <2>1. ~WholeBuckets(d.geometry) => Problem("geometry", "breaker") \in problems
    BY <1>4 DEF ObjectProblems, Found
  <2>2. after.geometry = IF Problem("geometry", "breaker") \in problems
                         THEN AnyOf({g \in Geometry : WholeBuckets(g)}) ELSE d.geometry
    BY <1>0 DEF Repaired
  <2>3. WholeBuckets(AnyOf({g \in Geometry : WholeBuckets(g)}))
    BY StartupAssumption DEF AnyOf, WholeBuckets
  <2> QED
    BY <2>1, <2>2, <2>3
<1> QED
  BY <1>1, <1>2, <1>3, <1>4

\* An entry written where one was missing, and one that was corrected.
Written(a, n, problems) ==
    /\ a \in Ready
    /\ \/ Problem("too_short", "providers") \in problems
       \/ Problem("undefined", n) \in problems
Mended(a, e, n, problems) ==
    /\ a.adapter = e.adapter
    /\ a.fields <=> e.fields \/ Problem("field", n) \in problems
    /\ a.names = IF Problem("unnamed", n) \in problems THEN e.names \cup Takes(e.adapter)
                 ELSE IF Problem("surplus", n) \in problems
                 THEN e.names \cap Takes(e.adapter) ELSE e.names

\* An entry is removed if nothing implements it, corrected if it was there, and
\* else written as it should be, where one was missing.
LEMMA EntryRepaired ==
    ASSUME NEW d \in Settings, NEW problems, NEW after, Corrected(d, problems, after)
    PROVE  /\ \A n \in Configured(after) :
                 /\ n \notin Gone(problems)
                 /\ \/ Written(after.providers[n], n, problems)
                    \/ /\ n \in Configured(d)
                       /\ Mended(after.providers[n], d.providers[n], n, problems)
           /\ Configured(d) \ Gone(problems) \subseteq Configured(after)
<1>1. \A n \in Name :
         /\ after.providers[n] \in RepairedEntries(n, d.providers[n], problems)
         /\ d.providers[n] \in Entry \cup {None}
  BY CorrectedIs, PartsOf
<1>2. ASSUME NEW n \in Name, n \notin Gone(problems), d.providers[n] # None
      PROVE  /\ after.providers[n] # None
             /\ Mended(after.providers[n], d.providers[n], n, problems)
  <2> DEFINE e == d.providers[n]
             a == after.providers[n]
             fields == e.fields \/ Problem("field", n) \in problems
             names == IF Problem("unnamed", n) \in problems
                      THEN e.names \cup Takes(e.adapter)
                      ELSE IF Problem("surplus", n) \in problems
                      THEN e.names \cap Takes(e.adapter) ELSE e.names
  <2>1. e \in Entry
    BY <1>1, <1>2
  <2>2. a \in RepairedEntries(n, e, problems)
    BY <1>1
  <2>3. a = [e EXCEPT !.fields = fields, !.names = names]
    BY <1>2, <2>2 DEF RepairedEntries
  <2> HIDE DEF a, e, fields, names
  <2>4. a.adapter = e.adapter /\ a.fields = fields /\ a.names = names
    BY <2>1, <2>3 DEF Entry
  <2>5. a # None
    <3>1. a \in Entry \cup {None} /\ a = [e EXCEPT !.fields = fields, !.names = names]
      BY <1>1, <2>2, <2>3, EntryTyped DEF e
    <3>2. fields \in BOOLEAN
      <4>1. e.fields \in BOOLEAN
        BY <2>1 DEF Entry
      <4> QED
        BY <4>1, Zenon DEF fields
    <3>3. names \in SUBSET {"model", "deployment"}
      <4>1. e.names \subseteq {"model", "deployment"}
            /\ Takes(e.adapter) \subseteq {"model", "deployment"}
        BY <2>1 DEF Entry, Takes
      <4> QED
        BY <4>1 DEF names
    <3>4. [e EXCEPT !.fields = fields, !.names = names] \in Entry
      BY <2>1, <3>2, <3>3 DEF Entry
    <3> QED
      BY <3>1, <3>4, StartupAssumption
  <2> QED
    BY <2>4, <2>5 DEF Mended, a, e, fields, names
<1>3. ASSUME NEW n \in Configured(after)
      PROVE  /\ n \in Name /\ n \notin Gone(problems)
             /\ d.providers[n] = None => Written(after.providers[n], n, problems)
  <2>1. n \in Name /\ after.providers[n] # None
        /\ after.providers[n] \in RepairedEntries(n, d.providers[n], problems)
    BY <1>1 DEF Configured
  <2> QED
    BY <2>1 DEF RepairedEntries, Written
<1> QED
  BY <1>2, <1>3 DEF Configured

\* A list is left alone unless it is reported.
LEMMA ListRepaired ==
    ASSUME NEW d \in Settings, NEW problems, NEW after, Corrected(d, problems, after),
           Gone(problems) = {}
    PROVE  LET list == after.preference
           IN  \/ /\ list = d.preference
                  /\ \A k : Problem(k, "preference") \notin problems
                  /\ \A w : Problem("undefined", w) \notin problems
               \/ /\ list # <<>>
                  /\ Repeats(list) =>
                        Repeats(d.preference)
                           /\ Problem("repeated", "preference") \notin problems
                  /\ \A p \in Range(list) :
                        \/ p \in Configured(after)
                        \/ /\ p \in Range(d.preference)
                           /\ Problem("undefined", p) \notin problems
<1> DEFINE list == after.preference
<1>1. list \in RepairedLists(d, after.providers, problems)
  BY CorrectedIs
<1>2. CASE \A p \in problems : p.where # "preference" /\ p.kind # "undefined"
  <2>1. list = d.preference
    BY <1>1, <1>2 DEF RepairedLists
  <2>2. ASSUME NEW k PROVE Problem(k, "preference") \notin problems
    <3>1. Problem(k, "preference").where = "preference"
      BY DEF Problem
    <3> QED
      BY <1>2, <3>1
  <2>3. ASSUME NEW w PROVE Problem("undefined", w) \notin problems
    <3>1. Problem("undefined", w).kind = "undefined"
      BY DEF Problem
    <3> QED
      BY <1>2, <3>1
  <2> QED
    BY <2>1, <2>2, <2>3
<1>3. CASE ~\A p \in problems : p.where # "preference" /\ p.kind # "undefined"
  BY <1>1, <1>3 DEF RepairedLists, Configured
<1> QED
  BY <1>2, <1>3

\* Correcting every field leaves no invalid field, and something to validate.
LEMMA FieldsRepaired ==
    ASSUME NEW d \in Settings, NEW problems, NEW after, Corrected(d, problems, after),
           Gone(problems) = {}, FieldProblems(d) \subseteq problems
    PROVE  FieldProblems(after) = {}
<1>1. /\ Configured(d) = {} => Problem("too_short", "providers") \in problems
      /\ d.preference = <<>> => Problem("too_short", "preference") \in problems
      /\ \A n \in Configured(d) :
            ~d.providers[n].fields => Problem("field", n) \in problems
  BY DEF FieldProblems, Found
<1>2. after.preference # <<>>
  BY <1>1, ListRepaired
<1>3. Configured(after) # {}
  BY <1>1, CorrectedIs, EntryRepaired
<1>4. ASSUME NEW n \in Configured(after) PROVE after.providers[n].fields
  <2>1. CASE Written(after.providers[n], n, problems)
    BY <2>1, ReadyIs DEF Written
  <2>2. CASE n \in Configured(d) /\ Mended(after.providers[n], d.providers[n], n, problems)
    BY <1>1, <2>2 DEF Mended
  <2> QED
    BY <2>1, <2>2, EntryRepaired
<1> QED
  BY <1>2, <1>3, <1>4 DEF FieldProblems, Found

\* Naming what is lacking leaves no entry that lacks a name.
LEMMA UnnamedRepaired ==
    ASSUME NEW d \in Settings, NEW problems, NEW after, Corrected(d, problems, after),
           \A n \in Configured(d) : d.providers[n].fields,
           Unnamed(d) \subseteq problems
    PROVE  Unnamed(after) = {}
<1>1. \A n \in Configured(d) :
         Lacks(d.providers[n]) => Problem("unnamed", n) \in problems
  BY DEF Unnamed
<1>2. ASSUME NEW n \in Configured(after) PROVE ~Lacks(after.providers[n])
  <2>1. CASE Written(after.providers[n], n, problems)
    BY <2>1, ReadyIs DEF Written, Lacks
  <2>2. CASE n \in Configured(d) /\ Mended(after.providers[n], d.providers[n], n, problems)
    <3> DEFINE e == d.providers[n]
               a == after.providers[n]
    <3>1. Problem("unnamed", n) \in problems \/ Takes(e.adapter) \subseteq e.names
      BY <1>1, <2>2 DEF Lacks
    <3>2. Mended(a, e, n, problems)
      BY <2>2
    <3> HIDE DEF a, e
    <3>3. Takes(a.adapter) \subseteq a.names
      BY <3>1, <3>2 DEF Mended
    <3> QED
      BY <3>3 DEF Lacks, a
  <2> QED
    BY <2>1, <2>2, EntryRepaired
<1> QED
  BY <1>2 DEF Unnamed

\* Correcting every object leaves none invalid as a whole.
LEMMA ObjectsRepaired ==
    ASSUME NEW d \in Settings, NEW problems, NEW after, Corrected(d, problems, after),
           \A n \in Configured(d) : d.providers[n].fields,
           Unnamed(d) = {}, \A n : Problem("unnamed", n) \notin problems,
           ObjectProblems(d) \subseteq problems,
           ~Repeats(after.preference)
    PROVE  ObjectProblems(after) = {}
<1>1. Unnamed(after) = {} /\ WholeBuckets(after.geometry)
  BY UnnamedRepaired, SettingsRepaired
<1>2. \A n \in Configured(d) :
         Exceeds(d.providers[n]) => Problem("surplus", n) \in problems
  BY DEF ObjectProblems, Unnamed
<1>3. ASSUME NEW n \in Configured(after) PROVE ~Exceeds(after.providers[n])
  <2>1. CASE Written(after.providers[n], n, problems)
    BY <2>1, ReadyIs DEF Written, Exceeds
  <2>2. CASE n \in Configured(d) /\ Mended(after.providers[n], d.providers[n], n, problems)
    <3> DEFINE e == d.providers[n]
               a == after.providers[n]
    <3>1. Problem("surplus", n) \in problems \/ e.names \subseteq Takes(e.adapter)
      BY <1>2, <2>2 DEF Exceeds
    <3>2. Mended(a, e, n, problems) /\ Problem("unnamed", n) \notin problems
      BY <2>2
    <3> HIDE DEF a, e
    <3>3. a.names \subseteq Takes(a.adapter)
      BY <3>1, <3>2 DEF Mended
    <3> QED
      BY <3>3 DEF Exceeds, a
  <2> QED
    BY <2>1, <2>2, EntryRepaired
<1> QED
  BY <1>1, <1>3 DEF ObjectProblems, Found

\* No correction makes a list repeat a name.
LEMMA RepeatsRepaired ==
    ASSUME NEW d \in Settings, NEW problems, NEW after, Corrected(d, problems, after),
           Gone(problems) = {} \/ ~Repeats(d.preference),
           ObjectProblems(d) \subseteq problems
    PROVE  ~Repeats(after.preference)
<1>1. Repeats(d.preference) => Problem("repeated", "preference") \in problems
  BY DEF ObjectProblems, Found
<1>2. CASE Gone(problems) = {}
  BY <1>1, <1>2, ListRepaired
<1>3. CASE Gone(problems) # {} /\ ~Repeats(d.preference)
  <2>1. after.preference \in Without(d.preference, Gone(problems))
    BY <1>3, CorrectedIs DEF RepairedLists
  <2>2. d.preference \in Seq(Mention)
    BY PartsOf
  <2> QED
    BY <1>3, <2>1, <2>2, WithoutTyped
<1> QED
  BY <1>2, <1>3

\* Correcting every undefined name leaves a list of defined ones.
LEMMA NamesRepaired ==
    ASSUME NEW d \in Settings, NEW problems, NEW after, Corrected(d, problems, after),
           Gone(problems) = {}, CrossProblems(d) \subseteq problems
    PROVE  CrossProblems(after) = {}
<1>1. \A p \in Range(d.preference) :
         p \notin Configured(d) => Problem("undefined", p) \in problems
  BY DEF CrossProblems
<1>2. Configured(d) \subseteq Configured(after)
  BY EntryRepaired
<1>3. \A p \in Range(after.preference) : p \in Configured(after)
  BY <1>1, <1>2, ListRepaired
<1> QED
  BY <1>3 DEF CrossProblems

\* No correction writes an entry that nothing implements.
LEMMA NoneUnbuilt ==
    ASSUME NEW d \in Settings, NEW problems, NEW after, Corrected(d, problems, after),
           Unimplemented(d) \subseteq problems
    PROVE  Unimplemented(after) = {}
<1>1. ASSUME NEW n \in Configured(after)
      PROVE  after.providers[n].adapter \notin {"azure_openai", "bedrock"}
  <2>1. CASE Written(after.providers[n], n, problems)
    BY <2>1, ReadyIs DEF Written
  <2>2. CASE /\ n \in Configured(d) /\ n \notin Gone(problems)
             /\ Mended(after.providers[n], d.providers[n], n, problems)
    <3>1. d.providers[n].adapter \notin {"azure_openai", "bedrock"}
      BY <2>2 DEF Unimplemented, Gone, Configured
    <3> QED
      BY <2>2, <3>1 DEF Mended
  <2> QED
    BY <2>1, <2>2, EntryRepaired
<1> QED
  BY <1>1 DEF Unimplemented

\* Correcting what build_registry reports leaves entries it can build.
LEMMA RegistryRepaired ==
    ASSUME NEW d \in Settings, NEW problems, NEW after, Corrected(d, problems, after),
           Problem("too_short", "providers") \notin problems,
           \A n : Problem("undefined", n) \notin problems,
           RegistryProblems(d) \subseteq problems
    PROVE  RegistryProblems(after) = {}
<1>1. \A n \in Configured(d) :
         d.providers[n].adapter = "cohere" /\ Blank(d.key)
            => Problem("credential", n) \in problems
  BY DEF RegistryProblems, CredentialProblems
<1>2. ASSUME NEW n \in Configured(after)
      PROVE  n \in Configured(d) /\ after.providers[n].adapter = d.providers[n].adapter
  <2>1. ~Written(after.providers[n], n, problems)
    BY DEF Written
  <2>2. n \in Configured(d) /\ Mended(after.providers[n], d.providers[n], n, problems)
    BY <2>1, EntryRepaired
  <2> QED
    BY <2>2 DEF Mended
<1>3. after.key = IF \E n \in Name : Problem("credential", n) \in problems
                  THEN "text" ELSE d.key
  <2>1. after = Repaired(d, after.providers, after.preference, problems)
    BY CorrectedIs
  <2> QED
    BY <2>1 DEF Repaired
<1>4. CredentialProblems(after) = {}
  <2>1. ASSUME NEW n \in Configured(after), after.providers[n].adapter = "cohere"
        PROVE  ~Blank(after.key)
    <3>1. n \in Name /\ d.providers[n].adapter = "cohere" /\ n \in Configured(d)
      BY <1>2, <2>1 DEF Configured
    <3> QED
      BY <1>1, <1>3, <3>1 DEF Blank
  <2> QED
    BY <2>1 DEF CredentialProblems
<1>5. Unimplemented(after) = {}
  BY NoneUnbuilt DEF RegistryProblems
<1> QED
  BY <1>4, <1>5 DEF RegistryProblems

\* A correction of a failed start passes the stage it failed at, unless entries
\* are to be removed.
LEMMA RepairPasses ==
    ASSUME NEW d, NEW r, Reports(r, d), NEW after, Corrected(d, r.problems, after),
           ~Names(r, {"unimplemented"})
    PROVE  Passed(after, Reached(r))
<1> DEFINE P == r.problems
           k == Reached(r)
<1>1. /\ d \in Settings /\ k \in 1 .. 8
      /\ \A i \in 1 .. 8 : i < k => Finds(d)[i] = {}
      /\ Finds(d)[k] \subseteq P
  BY ReportIs
<1>2. Corrected(d, P, after) /\ Gone(P) = {}
  BY ReportSays
<1>3. /\ k > 3 => Problem("too_short", "providers") \notin P
      /\ k > 4 => \A n : Problem("unnamed", n) \notin P
      /\ k > 6 => \A n : Problem("undefined", n) \notin P
  <2>1. \A n : /\ Problem("too_short", n).kind = "too_short"
               /\ Problem("unnamed", n).kind = "unnamed"
               /\ Problem("undefined", n).kind = "undefined"
    BY DEF Problem
  <2>2. /\ k > 3 => \A p \in P : p.kind \notin {"field", "too_short"}
        /\ k > 4 => \A p \in P : p.kind \notin {"unnamed"}
        /\ k > 6 => \A p \in P : p.kind \notin {"undefined"}
    BY ReportIs DEF Names
  <2> HIDE DEF P, k
  <2> QED
    BY <2>1, <2>2
<1> HIDE DEF P, k
<1>4. ASSUME NEW i \in 1 .. 8, i <= k PROVE Finds(d)[i] \subseteq P
  <2>1. i < k \/ i = k
    BY <1>1, <1>4
  <2> QED
    BY <1>1, <2>1
<1>5. k > 3 => \A n \in Configured(d) : d.providers[n].fields
  <2>1. k > 3 => FieldProblems(d) = {}
    BY <1>1, FindsIs
  <2> QED
    BY <2>1 DEF FieldProblems
<1>6. 1 <= k => Finds(after)[1] = {}
  BY <1>1, <1>2, <1>4, FindsIs, SettingsRepaired
<1>7. 2 <= k => Finds(after)[2] = {}
  BY <1>1, <1>2, <1>4, FindsIs, SettingsRepaired
<1>8. 3 <= k => Finds(after)[3] = {}
  BY <1>1, <1>2, <1>4, FindsIs, FieldsRepaired
<1>9. 4 <= k => Finds(after)[4] = {}
  BY <1>1, <1>2, <1>4, <1>5, FindsIs, UnnamedRepaired
<1>10. 5 <= k => Finds(after)[5] = {}
  <2> SUFFICES ASSUME 5 <= k PROVE ObjectProblems(after) = {}
    BY FindsIs
  <2>1. ObjectProblems(d) \subseteq P /\ Unnamed(d) = {} /\ k > 3 /\ k > 4
    BY <1>1, <1>4, FindsIs
  <2>2. ~Repeats(after.preference)
    BY <1>1, <1>2, <2>1, RepeatsRepaired
  <2> QED
    BY <1>1, <1>2, <1>3, <1>5, <2>1, <2>2, ObjectsRepaired
<1>11. 6 <= k => Finds(after)[6] = {}
  BY <1>1, <1>2, <1>4, FindsIs, NamesRepaired
<1>12. 7 <= k => Finds(after)[7] = {}
  <2> SUFFICES ASSUME 7 <= k PROVE RegistryProblems(after) = {}
    BY FindsIs
  <2>1. RegistryProblems(d) \subseteq P /\ k > 3 /\ k > 6
    BY <1>1, <1>4, FindsIs
  <2> QED
    BY <1>1, <1>2, <1>3, <2>1, RegistryRepaired
<1>13. 8 <= k => Finds(after)[8] = {}
  BY <1>1, <1>2, <1>4, FindsIs, SettingsRepaired
<1>14. \A i \in 1 .. 8 : i \in {1, 2, 3, 4, 5, 6, 7, 8}
  OBVIOUS
<1>15. Passed(after, k)
  BY <1>6, <1>7, <1>8, <1>9, <1>10, <1>11, <1>12, <1>13, <1>14 DEF Passed
<1> QED
  BY <1>15 DEF k

\* Nothing is left to correct but what removing entries can bring up: a mapping or
\* a list without anything, then the credential of an entry written for it, and
\* the URL, which nothing was asked about yet.
Spent(d) ==
    /\ LogProblems(d) = {} /\ FileProblems(d) = {}
    /\ \A n \in Configured(d) : d.providers[n].fields
    /\ ObjectProblems(d) = {} /\ CrossProblems(d) = {}
    /\ Unimplemented(d) = {}

\* Such a deployment stays one however it is corrected.
LEMMA SpentRepaired ==
    ASSUME NEW d, NEW r, Reports(r, d), NEW after, Corrected(d, r.problems, after),
           Spent(d)
    PROVE  Spent(after)
<1> DEFINE P == r.problems
<1>1. d \in Settings /\ Corrected(d, P, after)
  BY DEF Reports
<1>2. Gone(P) = {}
  <2>1. ASSUME Names(r, {"unimplemented"}) PROVE FALSE
    <3>1. P = RegistryProblems(d) /\ Unimplemented(d) = {}
      BY <2>1, ReportIs DEF Spent
    <3>2. PICK p \in P : p.kind = "unimplemented"
      BY <2>1 DEF Names
    <3> HIDE DEF P
    <3>3. p \in CredentialProblems(d)
      BY <3>1, <3>2 DEF RegistryProblems
    <3> QED
      BY <3>2, <3>3 DEF CredentialProblems, Problem
  <2> QED
    BY <2>1, ReportSays
<1>3. Unnamed(d) = {}
  BY <1>1, KindsApart DEF Spent
<1>4. \A n : Problem("unnamed", n) \notin P
  <2>1. ASSUME NEW n, Problem("unnamed", n) \in P PROVE FALSE
    <3>1. Problem("unnamed", n).kind = "unnamed"
      BY DEF Problem
    <3>2. Names(r, {"unnamed"})
      BY <2>1, <3>1 DEF Names
    <3>3. Reached(r) \in 1 .. 4
      BY <3>2, ReportIs
    <3>4. Reached(r) = 3
      BY <1>3, <3>3, FindsIs, ReportIs DEF Spent
    <3>5. P = FieldProblems(d) \cup ObjectProblems(d) /\ ObjectProblems(d) = {}
      BY <3>4, ReportIs DEF Spent
    <3> HIDE DEF P
    <3> QED
      BY <1>1, <2>1, <3>1, <3>5, KindsApart
  <2> QED
    BY <2>1
<1> HIDE DEF P
<1>5. LogProblems(after) = {} /\ FileProblems(after) = {} /\ CrossProblems(after) = {}
      /\ Unimplemented(after) = {}
  BY <1>1, <1>2, SettingsRepaired, NamesRepaired, NoneUnbuilt DEF Spent
<1>6. ObjectProblems(after) = {}
  <2>1. ~Repeats(after.preference)
    BY <1>1, <1>2, RepeatsRepaired DEF Spent
  <2> QED
    BY <1>1, <1>3, <1>4, <2>1, ObjectsRepaired DEF Spent
<1>7. ASSUME NEW n \in Configured(after) PROVE after.providers[n].fields
  <2>1. CASE Written(after.providers[n], n, P)
    BY <2>1, ReadyIs DEF Written
  <2>2. CASE n \in Configured(d) /\ Mended(after.providers[n], d.providers[n], n, P)
    BY <2>2 DEF Mended, Spent
  <2> QED
    BY <1>1, <2>1, <2>2, EntryRepaired
<1> QED
  BY <1>5, <1>6, <1>7 DEF Spent

\* Removing the entries that nothing implements, and every reference to them,
\* leaves one, and nothing for build_registry to report.
LEMMA GoneRepaired ==
    ASSUME NEW d, NEW r, Reports(r, d), NEW after, Corrected(d, r.problems, after),
           Names(r, {"unimplemented"})
    PROVE  Spent(after) /\ RegistryProblems(after) = {}
<1> DEFINE P == r.problems
<1>1. /\ d \in Settings /\ Corrected(d, P, after) /\ Gone(P) # {}
      /\ P = RegistryProblems(d)
      /\ \A i \in 1 .. 8 : i < 7 => Finds(d)[i] = {}
  BY ReportIs, ReportSays
<1>2. /\ LogProblems(d) = {} /\ FileProblems(d) = {} /\ FieldProblems(d) = {}
      /\ Unnamed(d) = {} /\ ObjectProblems(d) = {} /\ CrossProblems(d) = {}
  <2>1. \A i \in {1, 2, 3, 4, 5, 6} : Finds(d)[i] = {}
    BY <1>1
  <2> QED
    BY <2>1, FindsIs
<1> HIDE DEF P
<1>3. /\ Problem("too_short", "providers") \notin P
      /\ \A n : Problem("undefined", n) \notin P /\ Problem("unnamed", n) \notin P
  <2>1. \A p \in P : p.kind \in {"credential", "unimplemented"}
    BY <1>1, KindsApart
  <2>2. \A n : /\ Problem("too_short", n).kind = "too_short"
               /\ Problem("unnamed", n).kind = "unnamed"
               /\ Problem("undefined", n).kind = "undefined"
    BY DEF Problem
  <2> QED
    BY <2>1, <2>2
<1>4. \A n \in Configured(d) : d.providers[n].fields
  BY <1>2 DEF FieldProblems
<1>5. ASSUME NEW n \in Configured(after) PROVE after.providers[n].fields
  <2>1. ~Written(after.providers[n], n, P)
    BY <1>3 DEF Written
  <2>2. n \in Configured(d) /\ Mended(after.providers[n], d.providers[n], n, P)
    BY <1>1, <2>1, EntryRepaired
  <2> QED
    BY <1>4, <2>2 DEF Mended
<1>6. ~Repeats(d.preference)
  BY <1>2 DEF ObjectProblems, Found
<1>7. ObjectProblems(after) = {}
  <2>1. ~Repeats(after.preference)
    BY <1>1, <1>2, <1>6, RepeatsRepaired
  <2> QED
    BY <1>1, <1>2, <1>3, <1>4, <2>1, ObjectsRepaired
<1>8. CrossProblems(after) = {}
  <2>1. after.preference \in Without(d.preference, Gone(P))
    BY <1>1, CorrectedIs DEF RepairedLists
  <2>2. Range(after.preference) = Range(d.preference) \ Gone(P)
    BY <1>1, <2>1, PartsOf, WithoutTyped
  <2>3. Range(d.preference) \subseteq Configured(d)
    BY <1>2 DEF CrossProblems
  <2>4. Configured(d) \ Gone(P) \subseteq Configured(after)
    BY <1>1, EntryRepaired
  <2> QED
    BY <2>2, <2>3, <2>4 DEF CrossProblems
<1>9. RegistryProblems(after) = {}
  BY <1>1, <1>3, RegistryRepaired
<1> QED
  BY <1>1, <1>2, <1>5, <1>7, <1>8, <1>9, SettingsRepaired DEF Spent, RegistryProblems

\* Of such a deployment a start reports nothing to remove, and fails with nothing
\* where there must be something, or where no correction was asked for yet.
LEMMA SpentIs ==
    ASSUME NEW d, NEW r, Reports(r, d), Spent(d)
    PROVE  /\ Reached(r) \in {3, 7, 8} /\ ~Names(r, {"unimplemented"})
           /\ Reached(r) = 3 => \A p \in r.problems : p.kind = "too_short"
           /\ RegistryProblems(d) = {} => Reached(r) # 7
<1> DEFINE P == r.problems
           k == Reached(r)
<1>1. /\ d \in Settings /\ k \in 1 .. 8 /\ Finds(d)[k] # {}
      /\ k = 3 => P = FieldProblems(d) \cup ObjectProblems(d)
      /\ k = 7 => P = RegistryProblems(d)
      /\ Names(r, {"unimplemented"}) => k = 7
  BY ReportIs
<1>2. Names(r, {"unimplemented"}) => \E p \in P : p.kind = "unimplemented"
  BY DEF Names
<1> HIDE DEF P, k
<1>3. Unnamed(d) = {}
  BY <1>1, KindsApart DEF Spent
<1>4. k \in {3, 7, 8} /\ (RegistryProblems(d) = {} => k # 7)
  <2>1. k \in {1, 2, 3, 4, 5, 6, 7, 8}
    BY <1>1
  <2> QED
    BY <1>1, <1>3, <2>1, FindsIs DEF Spent
<1>5. ASSUME Names(r, {"unimplemented"}) PROVE FALSE
  <2>1. P = CredentialProblems(d)
    BY <1>1, <1>5 DEF Spent, RegistryProblems
  <2> QED
    BY <1>2, <1>5, <2>1 DEF CredentialProblems, Problem
<1>6. ASSUME k = 3, NEW p \in P PROVE p.kind = "too_short"
  <2>1. p \in FieldProblems(d)
    BY <1>1, <1>6 DEF Spent
  <2> QED
    BY <2>1 DEF FieldProblems, Found, Problem, Spent
<1> QED
  BY <1>4, <1>5, <1>6 DEF P, k

\* What a failed start asks to remove.
Unbuildable(r) == Names(r, {"unimplemented"})

Removed == \E i \in DOMAIN reports : Unbuildable(reports[i])

\* The next start came further, or entries were removed and nothing is left.
Follows(r, s) ==
    \/ Reached(r) < Reached(s)
    \/ Unbuildable(r) /\ \A p \in s.problems : p.kind = "too_short"

\* How many starts may have failed, the last of them as reported: one for each
\* stage up to its own, and after a removal those made again.
Allowed(r, removed) ==
    IF ~removed \/ Unbuildable(r) THEN Reached(r)
    ELSE IF Reached(r) = 3 THEN 8 ELSE Reached(r) + 2

\* What is deployed now was reported last, or corrects what was.
Follow(d, r) ==
    \/ r.deployment = d
    \/ Unbuildable(r) /\ Spent(d) /\ RegistryProblems(d) = {}
    \/ ~Unbuildable(r) /\ Passed(d, Reached(r))

\* StagesAdvance, with what is known of the deployment between two starts.
Advance ==
    /\ IsLog(reports)
    /\ \A i \in DOMAIN reports : Reports(reports[i], reports[i].deployment)
    /\ \A i \in 1 .. Len(reports) - 1 : Follows(reports[i], reports[i + 1])
    /\ \A i, j \in DOMAIN reports :
          Unbuildable(reports[i]) /\ Unbuildable(reports[j]) => i = j
    /\ reports # <<>> =>
          /\ Len(reports) <= Allowed(LastReport, Removed)
          /\ Follow(deployment, LastReport)
          /\ Removed /\ ~Unbuildable(LastReport) =>
                Spent(deployment) /\ Reached(LastReport) \in {3, 7, 8}

\* The checks depend on the process's state only by the injected client.
LEMMA SameChecks ==
    ASSUME injected' = injected, NEW d
    PROVE  Checks(d)' = Checks(d) /\ Finds(d)' = Finds(d)
<1>1. UrlProblems(d)' = UrlProblems(d)
  BY DEF UrlProblems
<1> QED
  BY <1>1 DEF Checks, Finds

\* So what was a report stays one, and what follows it still does.
LEMMA SameReports ==
    ASSUME injected' = injected, NEW d, NEW r
    PROVE  /\ Reports(r, d) => Reports(r, d)'
           /\ Follow(d, r) => Follow(d, r)'
<1>1. Checks(d)' = Checks(d) /\ Finds(d)' = Finds(d)
  BY SameChecks
<1>2. Failing(d)' = Failing(d)
  BY <1>1 DEF Failing
<1>3. FirstFailing(d)' = FirstFailing(d)
  BY <1>2 DEF FirstFailing
<1> QED
  BY <1>1, <1>2, <1>3 DEF Reports, Passed, Follow

LEMMA AdvanceInit == Init => Advance
<1> SUFFICES ASSUME Init PROVE Advance
  OBVIOUS
<1>1. reports = <<>>
  BY DEF Init
<1>2. <<>> \in Seq({}) /\ DOMAIN <<>> = {} /\ Len(<<>>) = 0
  OBVIOUS
<1> QED
  BY <1>1, <1>2 DEF Advance, IsLog

\* A step that reports nothing advances if what it deploys follows the last report.
LEMMA NothingReported ==
    ASSUME Advance, injected' = injected, reports' = reports,
           reports # <<>> =>
              /\ Follow(deployment', LastReport)
              /\ Removed /\ ~Unbuildable(LastReport) => Spent(deployment')
    PROVE  Advance'
<1>1. LastReport' = LastReport /\ Removed' = Removed
  BY DEF LastReport, Removed
<1>2. ASSUME NEW i \in DOMAIN reports
      PROVE  Reports(reports[i], reports[i].deployment)'
  BY SameReports DEF Advance
<1>3. ASSUME reports # <<>>
      PROVE  Follow(deployment, LastReport)'
  <2>1. PICK d : d = deployment'
    OBVIOUS
  <2>2. PICK r : r = LastReport
    OBVIOUS
  <2>3. Follow(d, r)'
    BY <1>3, <2>1, <2>2, SameReports
  <2> QED
    BY <1>1, <2>1, <2>2, <2>3
<1> QED
  BY <1>1, <1>2, <1>3 DEF Advance

\* The next failed start goes on from the last one: further, or once for what a
\* removal leaves.
LEMMA GoesOn ==
    ASSUME Advance, NEW r, Reports(r, deployment), reports # <<>>, ~Reported
    PROVE  /\ Follows(LastReport, r)
           /\ Len(reports) + 1 <= Allowed(r, Removed \/ Unbuildable(r))
           /\ Removed => ~Unbuildable(r) /\ Spent(deployment)
                            /\ Reached(r) \in {3, 7, 8}
<1> DEFINE last == LastReport
           n == Len(reports)
           a == Reached(last)
           b == Reached(r)
<1>1. /\ n \in Nat /\ n > 0 /\ n \in DOMAIN reports /\ last = reports[n]
  BY DEF Advance, IsLog, LastReport
<1>2. /\ a \in 1 .. 8 /\ (Unbuildable(last) => a = 7)
  BY <1>1, ReportIs DEF Advance, Unbuildable
<1>3. /\ b \in 1 .. 8 /\ Finds(deployment)[b] # {} /\ (Unbuildable(r) => b = 7)
  BY ReportIs DEF Unbuildable
<1>4. n <= Allowed(last, Removed)
  BY DEF Advance
<1>5. Unbuildable(last) => Removed
  BY <1>1 DEF Removed
<1>6. Spent(deployment) =>
         /\ b \in {3, 7, 8} /\ ~Unbuildable(r)
         /\ b = 3 => \A p \in r.problems : p.kind = "too_short"
         /\ RegistryProblems(deployment) = {} => b # 7
  BY SpentIs DEF Unbuildable
<1>7. \/ Unbuildable(last) /\ Spent(deployment) /\ RegistryProblems(deployment) = {}
      \/ ~Unbuildable(last) /\ Passed(deployment, a)
  BY DEF Advance, Follow, Reported
<1>8. Removed /\ ~Unbuildable(last) => Spent(deployment) /\ a \in {3, 7, 8}
  BY DEF Advance
<1>9. Follows(last, r) <=>
         \/ a < b
         \/ Unbuildable(last) /\ \A p \in r.problems : p.kind = "too_short"
  BY DEF Follows
<1>10. Passed(deployment, a) => a < b
  <2> SUFFICES ASSUME Passed(deployment, a) PROVE ~(b <= a)
    BY <1>2, <1>3
  <2> QED
    BY <1>3 DEF Passed
<1>11. /\ Allowed(last, Removed) = IF ~Removed \/ Unbuildable(last) THEN a
                                   ELSE IF a = 3 THEN 8 ELSE a + 2
       /\ Allowed(r, Removed \/ Unbuildable(r)) =
             IF ~(Removed \/ Unbuildable(r)) \/ Unbuildable(r) THEN b
             ELSE IF b = 3 THEN 8 ELSE b + 2
  BY DEF Allowed
<1> SUFFICES /\ Follows(last, r)
             /\ n + 1 <= Allowed(r, Removed \/ Unbuildable(r))
             /\ Removed => ~Unbuildable(r) /\ Spent(deployment) /\ b \in {3, 7, 8}
  OBVIOUS
<1> HIDE DEF last, n, a, b
<1>12. CASE Unbuildable(last)
  <2>1. a = 7 /\ b \in {3, 8} /\ ~Unbuildable(r) /\ Removed /\ n <= 7
    BY <1>2, <1>4, <1>5, <1>6, <1>7, <1>11, <1>12
  <2>2. Allowed(r, Removed \/ Unbuildable(r)) \in {8, 10}
    BY <1>11, <2>1
  <2>3. n + 1 <= Allowed(r, Removed \/ Unbuildable(r))
    BY <1>1, <2>1, <2>2
  <2>4. Follows(last, r)
    BY <1>6, <1>7, <1>9, <1>12, <2>1
  <2> QED
    BY <1>6, <1>7, <1>12, <2>1, <2>3, <2>4
<1>13. CASE Removed /\ ~Unbuildable(last)
  <2>1. a < b /\ a \in {3, 7, 8} /\ b \in {3, 7, 8} /\ ~Unbuildable(r)
    BY <1>6, <1>7, <1>8, <1>10, <1>13
  <2>2. /\ n <= IF a = 3 THEN 8 ELSE a + 2
        /\ Allowed(r, Removed \/ Unbuildable(r)) = IF b = 3 THEN 8 ELSE b + 2
    BY <1>4, <1>11, <1>13, <2>1
  <2>3. n + 1 <= Allowed(r, Removed \/ Unbuildable(r))
    BY <1>1, <2>1, <2>2
  <2> QED
    BY <1>8, <1>9, <1>13, <2>1, <2>3
<1>14. CASE ~Removed
  <2>1. a < b /\ n <= a /\ ~Unbuildable(last)
    BY <1>4, <1>5, <1>7, <1>10, <1>11, <1>14
  <2>2. Allowed(r, Removed \/ Unbuildable(r)) = b
    BY <1>11, <1>14
  <2>3. n + 1 <= b
    BY <1>1, <1>2, <1>3, <2>1
  <2> QED
    BY <1>9, <1>14, <2>1, <2>2, <2>3
<1> QED
  BY <1>12, <1>13, <1>14

\* A failed start keeps Advance.
LEMMA AdvanceFails == Deployed /\ Advance /\ StartFails => Advance'
<1> SUFFICES ASSUME Deployed, Advance, StartFails PROVE Advance'
  OBVIOUS
<1> DEFINE check == FirstFailing(deployment)
           r == [deployment |-> deployment,
                 check |-> check, problems |-> Checks(deployment)[check],
                 rendered |-> Rendered(uvicornOwn', handlers'),
                 copies |-> Copies(uvicornOwn', handlers')]
           n == Len(reports)
<1>1. /\ reports' = Append(reports, r) /\ Failing(deployment) # {} /\ ~Reported
      /\ deployment' = deployment /\ injected' = injected
  BY DEF StartFails, Build
<1>2. Reports(r, deployment) /\ r.deployment = deployment
  BY <1>1 DEF Reports, Deployed
<1> HIDE DEF r, check
<1>3. /\ Reached(r) \in 1 .. 8 /\ (Unbuildable(r) => Reached(r) = 7)
  BY <1>2, ReportIs DEF Unbuildable
<1>4. /\ IsLog(reports') /\ n \in Nat /\ DOMAIN reports = 1 .. n
      /\ Len(reports') = n + 1 /\ DOMAIN reports' = 1 .. n + 1
      /\ \A i \in 1 .. n : reports'[i] = reports[i]
      /\ reports'[n + 1] = r
  BY <1>1, Appended DEF Advance
<1>5. /\ LastReport' = r /\ reports' # <<>>
      /\ n > 0 => LastReport = reports[n] /\ reports # <<>>
      /\ reports # <<>> => n > 0
  BY <1>4 DEF LastReport, Advance, IsLog
<1> HIDE DEF n
<1>6. Removed' <=> Removed \/ Unbuildable(r)
  <2>1. Removed' <=> \E i \in 1 .. n + 1 : Unbuildable(reports'[i])
    BY <1>4 DEF Removed
  <2>2. Removed <=> \E i \in 1 .. n : Unbuildable(reports[i])
    BY <1>4 DEF Removed
  <2>3. \A i : i \in 1 .. n + 1 <=> i \in 1 .. n \/ i = n + 1
    BY <1>4
  <2> QED
    BY <1>4, <2>1, <2>2, <2>3
<1>7. reports # <<>> =>
         /\ Follows(LastReport, r)
         /\ n + 1 <= Allowed(r, Removed \/ Unbuildable(r))
         /\ Removed => ~Unbuildable(r) /\ Spent(deployment)
                          /\ Reached(r) \in {3, 7, 8}
  BY <1>1, <1>2, GoesOn DEF n
<1>8. reports = <<>> => n = 0 /\ ~Removed
  BY <1>4 DEF n, Removed
<1>9. ASSUME NEW i \in DOMAIN reports'
      PROVE  Reports(reports[i], reports[i].deployment)'
  <2>1. CASE i \in 1 .. n
    <3>1. Reports(reports[i], reports[i].deployment) /\ reports'[i] = reports[i]
      BY <1>4, <2>1 DEF Advance
    <3> QED
      BY <1>1, <3>1, SameReports
  <2>2. CASE i = n + 1
    <3>1. PICK e : e = reports'[i]
      OBVIOUS
    <3>2. Reports(e, e.deployment)
      BY <1>2, <1>4, <2>2, <3>1
    <3> QED
      BY <1>1, <3>1, <3>2, SameReports
  <2> QED
    BY <1>4, <2>1, <2>2
<1>10. ASSUME NEW i \in 1 .. Len(reports') - 1
       PROVE  Follows(reports'[i], reports'[i + 1])
  <2>1. CASE i < n
    <3>1. i \in 1 .. n /\ i + 1 \in 1 .. n /\ i \in 1 .. n - 1
      BY <1>4, <1>10, <2>1
    <3> QED
      BY <1>4, <3>1 DEF Advance, n
  <2>2. CASE i = n
    BY <1>4, <1>5, <1>7, <1>10, <2>2
  <2> QED
    BY <1>4, <1>10, <2>1, <2>2
<1>11. ASSUME NEW i \in DOMAIN reports', NEW j \in DOMAIN reports',
              Unbuildable(reports'[i]), Unbuildable(reports'[j])
       PROVE  i = j
  <2>1. Unbuildable(r) => ~Removed
    BY <1>7, <1>8
  <2>2. \A k \in 1 .. n : Unbuildable(reports'[k]) => Removed
    BY <1>4 DEF Removed
  <2>3. CASE i \in 1 .. n /\ j \in 1 .. n
    BY <1>4, <1>11, <2>3 DEF Advance
  <2>4. CASE i = n + 1 \/ j = n + 1
    <3>1. i \in 1 .. n \/ i = n + 1
      BY <1>4, <1>11
    <3>2. j \in 1 .. n \/ j = n + 1
      BY <1>4, <1>11
    <3> QED
      BY <1>4, <1>11, <2>1, <2>2, <2>4, <3>1, <3>2
  <2> QED
    BY <1>4, <1>11, <2>3, <2>4
<1>12. n + 1 <= Allowed(r, Removed \/ Unbuildable(r))
  <2>1. CASE reports = <<>>
    BY <1>3, <1>8, <2>1 DEF Allowed
  <2> QED
    BY <1>7, <2>1
<1>13. /\ Len(reports') <= Allowed(LastReport', Removed')
       /\ Follow(deployment, LastReport)'
       /\ Removed' /\ ~Unbuildable(LastReport') =>
             Spent(deployment') /\ Reached(LastReport') \in {3, 7, 8}
  <2>1. Allowed(LastReport', Removed') = Allowed(r, Removed \/ Unbuildable(r))
    BY <1>5, <1>6 DEF Allowed
  <2>2. Follow(deployment, LastReport)'
    BY <1>1, <1>2, <1>5 DEF Follow
  <2>3. Removed' /\ ~Unbuildable(r) => Spent(deployment) /\ Reached(r) \in {3, 7, 8}
    BY <1>6, <1>7, <1>8
  <2> QED
    BY <1>1, <1>4, <1>5, <1>12, <2>1, <2>2, <2>3
<1> QED
  BY <1>4, <1>9, <1>10, <1>11, <1>13 DEF Advance

LEMMA AdvanceNext == Deployed /\ Advance /\ [Next]_vars => Advance'
<1> SUFFICES ASSUME Deployed, Advance, [Next]_vars PROVE Advance'
  OBVIOUS
<1>1. ASSUME injected' = injected, UNCHANGED <<reports, deployment>> PROVE Advance'
  BY <1>1, NothingReported DEF Advance
<1>2. CASE StartSucceeds
  BY <1>1, <1>2 DEF StartSucceeds, Build
<1>3. CASE StartFails
  BY <1>3, AdvanceFails
<1>4. CASE Stop
  BY <1>1, <1>4 DEF Stop
<1>5. CASE Abort
  BY <1>1, <1>5 DEF Abort, clientVars
<1>6. CASE NewProcess
  BY <1>1, <1>6 DEF NewProcess
<1>7. CASE Reformat
  <2>1. PICK f \in {"json", "console"} : deployment' = [deployment EXCEPT !.logs = f]
    BY <1>7 DEF Reformat
  <2>2. /\ deployment'.logs \in {"json", "console"} /\ deployment'.file = deployment.file
        /\ deployment'.providers = deployment.providers
        /\ deployment'.preference = deployment.preference
        /\ deployment'.geometry = deployment.geometry
        /\ deployment'.key = deployment.key /\ deployment'.url = deployment.url
    BY <2>1 DEF Deployed, Settings
  <2> DEFINE a == deployment'
  <2> HIDE DEF a
  <2>3. LogProblems(a) = {} /\ LogProblems(deployment) = {}
    BY <1>7, <2>2 DEF LogProblems, Found, Reformat, a
  <2>4. /\ FileProblems(a) = FileProblems(deployment)
        /\ UrlProblems(a) = UrlProblems(deployment)
        /\ Configured(a) = Configured(deployment)
    BY <2>2 DEF FileProblems, UrlProblems, Configured, a
  <2>5. /\ FieldProblems(a) = FieldProblems(deployment)
        /\ Unnamed(a) = Unnamed(deployment)
        /\ CrossProblems(a) = CrossProblems(deployment)
        /\ RegistryProblems(a) = RegistryProblems(deployment)
        /\ Unimplemented(a) = Unimplemented(deployment)
    BY <2>2, <2>4 DEF FieldProblems, Unnamed, CrossProblems, RegistryProblems,
          CredentialProblems, Unimplemented, a
  <2>6. ObjectProblems(a) = ObjectProblems(deployment)
    BY <2>2, <2>4, <2>5 DEF ObjectProblems, a
  <2>7. Finds(a) = Finds(deployment) /\ (Spent(deployment) => Spent(a))
    BY <2>2, <2>3, <2>4, <2>5, <2>6 DEF Finds, Spent, a
  <2>8. /\ UNCHANGED <<injected, reports>>
        /\ reports # <<>> => Follow(deployment, LastReport)
                                /\ LastReport.deployment # deployment
    BY <1>7 DEF Reformat, Reported, clientVars, Advance
  <2>9. reports # <<>> => Follow(a, LastReport)
    BY <2>5, <2>7, <2>8 DEF Follow, Passed
  <2> QED
    BY <2>7, <2>8, <2>9, NothingReported DEF Advance, a
<1>8. CASE Repair
  <2>1. Corrected(deployment, LastReport.problems, deployment')
    BY <1>8 DEF Repair, Corrected
  <2>2. /\ UNCHANGED <<injected, reports>> /\ reports # <<>>
        /\ LastReport.deployment = deployment
    BY <1>8 DEF Repair, Reported, clientVars
  <2>3. Reports(LastReport, deployment)
    <3>1. Len(reports) \in DOMAIN reports
      BY <2>2 DEF Advance, IsLog
    <3> QED
      BY <2>2, <3>1 DEF Advance, LastReport
  <2>4. Follow(deployment', LastReport)
    <3> DEFINE a == deployment'
               r == LastReport
    <3>1. Corrected(deployment, r.problems, a) /\ Reports(r, deployment)
      BY <2>1, <2>3
    <3> HIDE DEF a, r
    <3>2. Follow(a, r)
      BY <3>1, RepairPasses, GoneRepaired DEF Follow, Unbuildable
    <3> QED
      BY <3>2 DEF a, r
  <2>5. Spent(deployment) => Spent(deployment')
    BY <2>1, <2>3, SpentRepaired
  <2> QED
    BY <2>2, <2>4, <2>5, NothingReported DEF Advance
<1>9. CASE UNCHANGED vars
  BY <1>1, <1>9 DEF vars, clientVars
<1> QED
  BY <1>2, <1>3, <1>4, <1>5, <1>6, <1>7, <1>8, <1>9 DEF Next

LEMMA AdvanceAlways == Spec => []Advance
BY DeployedAlways, AdvanceInit, AdvanceNext, PTL DEF Spec

\* Whoever corrects what a failed start reports, and nothing else, comes further
\* with the next (registry.py:84), but for the one fallback that removing what
\* nothing implements may bring: whatever mistakes a deployment has, and whichever
\* correction is chosen, ten of them are enough.
THEOREM StartsAdvance == Spec => []StagesAdvance
<1>1. Advance => StagesAdvance
  <2> SUFFICES ASSUME Advance PROVE StagesAdvance
    OBVIOUS
  <2>1. /\ Len(reports) \in Nat /\ DOMAIN reports = 1 .. Len(reports)
        /\ reports = <<>> => Len(reports) = 0
        /\ reports # <<>> => Len(reports) > 0
    BY DEF Advance, IsLog
  <2>2. Len(reports) <= 10
    <3>1. CASE reports = <<>>
      BY <2>1, <3>1
    <3>2. CASE reports # <<>>
      <4>1. Reports(LastReport, LastReport.deployment)
        BY <2>1, <3>2 DEF Advance, LastReport
      <4>2. Reached(LastReport) \in 1 .. 8
        BY <4>1, ReportIs
      <4>3. Allowed(LastReport, Removed) \in 1 .. 10
        BY <4>2 DEF Allowed
      <4> QED
        BY <2>1, <3>2, <4>3 DEF Advance
    <3> QED
      BY <3>1, <3>2
  <2> QED
    BY <2>2 DEF Advance, StagesAdvance, Follows, Unbuildable
<1> QED
  BY <1>1, AdvanceAlways, PTL
-----------------------------------------------------------------------------
(* The type invariant.                                                     *)

\* The types no other invariant states.
RestTyped ==
    /\ phase \in {"down", "serving"}
    /\ closed \in BOOLEAN
    /\ aborts \in 0 .. MaxAborts

LEMMA RestInit == Init => RestTyped
<1>1. MaxAborts \in Nat
  BY StartupAssumption
<1>2. 0 \in 0 .. MaxAborts
  BY <1>1
<1> QED
  BY <1>2 DEF Init, RestTyped

LEMMA RestNext == RestTyped /\ [Next]_vars => RestTyped'
<1> SUFFICES ASSUME RestTyped, [Next]_vars PROVE RestTyped'
  OBVIOUS
<1> USE DEF RestTyped
<1>1. CASE StartSucceeds
  BY <1>1 DEF StartSucceeds, Build
<1>2. CASE StartFails
  BY <1>2 DEF StartFails, Build
<1>3. CASE Stop
  BY <1>3 DEF Stop, CloseClient
<1>4. CASE Abort
  <2>1. MaxAborts \in Nat
    BY StartupAssumption
  <2> QED
    BY <1>4, <2>1 DEF Abort, clientVars
<1>5. CASE NewProcess
  <2>1. MaxAborts \in Nat
    BY StartupAssumption
  <2>2. 0 \in 0 .. MaxAborts
    BY <2>1
  <2> QED
    BY <1>5, <2>2 DEF NewProcess
<1>6. CASE Reformat
  BY <1>6 DEF Reformat, clientVars
<1>7. CASE Repair
  BY <1>7 DEF Repair, clientVars
<1>8. CASE UNCHANGED vars
  BY <1>8 DEF vars, clientVars
<1> QED
  BY <1>1, <1>2, <1>3, <1>4, <1>5, <1>6, <1>7, <1>8 DEF Next

\* The state of the lifespan keeps its types, and a deployment stays one
\* however it is corrected: no client is closed that was not built
\* (app.py:548), which is what keeps their number from going below zero.
THEOREM TypeCorrect == Spec => []TypeOK
<1>1. Deployed /\ ClientsInv /\ Logged /\ RestTyped => TypeOK
  BY DEF Deployed, ClientsInv, Logged, RestTyped, TypeOK
<1> QED
  BY <1>1, DeployedAlways, LoggedAlways, ClientsInit, ClientsNext, RestInit, RestNext,
     PTL DEF Spec
=============================================================================

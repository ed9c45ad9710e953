------------------------------ MODULE Connectors ------------------------------
(***************************************************************************)
(* Connections to GA4, Search Console and Ad Manager and the extracts taken *)
(* through them: connectors/core/persistence.py, the three services and     *)
(* their clients, the extract and drill-down handlers of worker.py and the  *)
(* planning of drill-downs.                                                 *)
(*                                                                          *)
(* Every extract job has one logical run key, so a job stands for its       *)
(* extract too.  The grant behind a connection, and the report saved at Ad  *)
(* Manager, are changed by others at any time; a call learns of them when   *)
(* the provider answers, and writes what it learnt later, in a transaction  *)
(* of its own.  Payloads are those the scheduler and the planner write.     *)
(***************************************************************************)
EXTENDS GeneralWorker, ProviderExchange

CONSTANTS
    Connection, ProviderOf,     \* the connections and whose they are
    Routine, Drilldown,         \* extract jobs: scheduled, or asked for by an incident
    ConnectionOf,               \* the connection of each
    Investigation, InvestigationOf,
    Requester,                  \* callers of the planning service
    MaxPerInvestigation, MaxPerDay, Days,   \* budgets, and how many days pass
    SecretBackend, Environment, \* where credentials are kept, and settings.environment
    Secret,                     \* what resolving one may meet
    Lookup,                     \* statuses of the calls that look something up
    Columns,                    \* metadata a GA4 property may have
    RoutineColumns,             \* what its routine definitions need of it
    GA4Exchange, GSCExchange, GAMExchange,  \* exchanges for a report of each provider
    Editable                    \* connections whose saved report may be edited

ExtractJob == Routine \cup Drilldown
Provider == {"GA4", "GSC", "GAM"}
Grant == {"good", "expired", "denied"}

ASSUME ConnectorsAssumption ==
    /\ ExtractJob \subseteq Job /\ Routine \cap Drilldown = {}
    /\ ProviderOf \in [Connection -> Provider]
    /\ ConnectionOf \in [ExtractJob -> Connection]
    /\ InvestigationOf \in [Drilldown -> Investigation]
    /\ MaxPerInvestigation \in Nat /\ MaxPerDay \in Nat /\ Days \in Nat \ {0}
    /\ SecretBackend \in {"environment", "oci"}
    /\ 200 \in Lookup
    /\ Editable \subseteq {c \in Connection : ProviderOf[c] = "GAM"}
    /\ Connection \cap Worker = {} /\ Null \notin Connection \cup Drilldown \cup Grant

VARIABLES
    conn,           \* data_connections: status and what validation found usable
    extract,        \* source_extracts, with the answers whose points are stored
    grant,          \* whether the provider accepts the credential
    report,         \* whether the saved Ad Manager report is as it was validated
    attempt,        \* which attempt each handler is
    answer,         \* what the provider told a handler or a validation
    probing,        \* where the validation of each connection is
    plan,           \* the drill-down each requester plans, and how far it is
    planned,        \* the day each drill-down job was created, 0: never
    day,            \* the UTC day
    asked, told     \* ghosts: see Answered and Writes

connVars == <<conn, extract, attempt, answer, probing>>
worldVars == <<grant, report>>
planVars == <<plan, planned, day>>
ghostVars == <<asked, told>>
vars == <<queueVars, handlerVars, connVars, worldVars, planVars, ghostVars>>

------------------------------------------------------------------------------
(* What a provider answers.                                                  *)

HttpError(p, status) ==
    CASE p = "GA4" -> GA4HttpError(status)
      [] p = "GSC" -> GSCHttpError(status)
      [] p = "GAM" -> GAMHttpError(status)

Revoked == [http |-> 400, token |-> Missing, error |-> "invalid_grant"]

\* _build_token_resolver: what resolving the credential comes to.
Token(c) ==
    IF SecretBackend = "environment" THEN {EnvironmentToken(Environment, s) : s \in Secret}
    ELSE {OciToken(IF grant[c] = "expired" THEN [s EXCEPT !.refresh = Revoked] ELSE s) : s \in Secret}

\* The provider, asked with a token that was given: perhaps before the grant was
\* revoked.
Exchanged(c, answers) ==
    CASE grant[c] = "expired" -> {HttpError(ProviderOf[c], 401)}
      [] grant[c] = "denied" -> {HttpError(ProviderOf[c], 403)}
      [] OTHER -> answers

Asked(c, answers) == (Token(c) \ {Success}) \cup Exchanged(c, answers)

GA4Answers == {GA4Report(r).error : r \in GA4Exchange}
GSCAnswers == {GSCQuery(q.pages, q.state).error : q \in GSCExchange}
GAMAnswers == {GAMReport(r, r.profile).error : r \in GAMExchange}

\* Every exchange comes to success or to one error.
ErrorCode ==
    {"SECRET_PROVIDER_UNAVAILABLE", "SECRET_PROVIDER_UNAUTHORIZED", "SECRET_NOT_FOUND",
     "SECRET_BUNDLE_INVALID", "GOOGLE_TOKEN_INVALID", "GOOGLE_INVALID_GRANT",
     "GOOGLE_INVALID_CLIENT", "GOOGLE_INSUFFICIENT_SCOPE", "GOOGLE_TOKEN_UNAVAILABLE",
     "GOOGLE_TOKEN_ERROR", "TRANSPORT_ERROR", "AUTH_EXPIRED", "PERMISSION_ERROR",
     "QUOTA_LIMIT", "INVALID_QUERY", "PROVIDER_ERROR", "INVALID_RESPONSE",
     "SCHEMA_INCOMPATIBLE", "REPORT_NOT_FOUND", "INVALID_REPORT", "REPORT_INCOMPATIBLE",
     "REPORT_TIMEOUT", "REPORT_FAILED", "RESULT_TOO_LARGE", "PARTIAL_RESULT"}
Answer == [code : {"OK"} \cup ErrorCode, retryable : BOOLEAN]
ASSUME AnswersAssumption ==
    GA4Answers \cup GSCAnswers \cup GAMAnswers \subseteq Answer /\ Null \notin Answer

\* get_report and validate_report: the saved report as it is now.
GAMInspected(c) ==
    {IF http = 200 THEN GAMDefinition(report[c], "fits") ELSE GAMHttpError(http) : http \in Lookup}

\* The calls of a validation one after another: the first error is its answer.
Then(first, second) == (first \ {Success}) \cup (IF Success \in first THEN second ELSE {})

------------------------------------------------------------------------------
(* State.                                                                    *)

Status == {"ABSENT", "PENDING", "CONNECTED", "DEGRADED", "AUTH_EXPIRED", "PERMISSION_ERROR"}
Capability == {"ROUTINE", "DRILLDOWN"}
Snapshot == [status : Status, capable : SUBSET Capability]
Nowhere == [status |-> "ABSENT", capable |-> {}]

SavedReport == {"fits", "edited"}
Extract == [status : {"ABSENT", "PENDING", "COMPLETE", "FAILED"}, points : SUBSET (Nat \X SavedReport)]

Caller == Worker \cup Connection
Place == {"load", "start", "inspect", "ask", "write"}
Plan == [drilldown : Drilldown, today : 1 .. Days, begun : 0 .. Days]
Idle == [drilldown |-> Null, today |-> 0, begun |-> 0]

TypeOK ==
    /\ WorkerTypeOK(Place)
    /\ conn \in [Connection -> Snapshot]
    /\ extract \in [ExtractJob -> Extract]
    /\ \A x \in ExtractJob :
          /\ extract[x].points \subseteq (1 .. MaxAttempts[x]) \X SavedReport
          /\ extract[x].status = "COMPLETE" <=> extract[x].points # {}
    /\ grant \in [Connection -> Grant]
    /\ report \in [Connection -> SavedReport]
    /\ attempt \in [Worker -> Nat]
    /\ answer \in [Caller -> Answer \cup {Null}]
    /\ probing \in [Connection -> {"idle", "ask", "write"}]
    /\ plan \in [Requester -> Plan \cup {Idle}]
    /\ planned \in [Drilldown -> 0 .. Days] /\ day \in 1 .. Days
    /\ asked \in [Caller -> Grant \cup {Null}] /\ told \in [Connection -> Grant \cup {Null}]
    /\ \A k \in Caller : asked[k] = Null <=> answer[k] = Null
    \* A handler that writes has an answer, and no other has one.
    /\ \A w \in Worker : pc[w] = "write" <=> answer[w] # Null
    /\ \A c \in Connection : probing[c] = "write" <=> answer[c] # Null
    \* What is planned is queued.
    /\ \A d \in Drilldown : planned[d] # 0 <=> phase[d] # "absent"

Init ==
    /\ WorkerInit
    /\ conn = [c \in Connection |-> Nowhere]
    /\ extract = [x \in ExtractJob |-> [status |-> "ABSENT", points |-> {}]]
    /\ grant = [c \in Connection |-> "good"]
    /\ report = [c \in Connection |-> "fits"]
    /\ attempt = [w \in Worker |-> 0]
    /\ answer = [k \in Caller |-> Null]
    /\ probing = [c \in Connection |-> "idle"]
    /\ plan = [q \in Requester |-> Idle]
    /\ planned = [d \in Drilldown |-> 0] /\ day = 1
    /\ asked = [k \in Caller |-> Null] /\ told = [c \in Connection |-> Null]

------------------------------------------------------------------------------
(* The world outside.                                                        *)

\* The grant is revoked, or given again under the same reference.
Regrant(c) ==
    /\ \E g \in Grant \ {grant[c]} : grant' = [grant EXCEPT ![c] = g]
    /\ UNCHANGED <<queueVars, handlerVars, connVars, report, planVars, ghostVars>>

\* The publisher edits the saved report: other filters, columns or dates.
Edit(c) ==
    /\ c \in Editable /\ report[c] = "fits"
    /\ report' = [report EXCEPT ![c] = "edited"]
    /\ UNCHANGED <<queueVars, handlerVars, connVars, grant, planVars, ghostVars>>

NextDay ==
    /\ day < Days /\ day' = day + 1
    /\ UNCHANGED <<queueVars, handlerVars, connVars, worldVars, plan, planned, ghostVars>>

------------------------------------------------------------------------------
(* What a call writes: core/persistence.py.                                  *)

Available(c) == conn[c].status \in {"CONNECTED", "DEGRADED"}

\* FOR UPDATE of the planning service: the row waits for its transaction.
Locked(c) == \E q \in Requester :
    plan[q].begun # 0 /\ ConnectionOf[plan[q].drilldown] = c

\* A plausible bug: every failure is a degradation.
StatusDegraded(code) == "DEGRADED"

\* The table in fail_extract.
StatusAfter(code) ==
    IF code \in {"AUTH_EXPIRED", "PERMISSION_ERROR"} THEN code ELSE "DEGRADED"

\* affect_connection: the quota met by a drill-down is no news of the connection.
Affects(x, code) == ~(x \in Drilldown /\ code = "QUOTA_LIMIT")

\* The connection a caller is about.
Of(k) == IF k \in Connection THEN k ELSE ConnectionOf[job[k]]

\* Ghosts.  asked: the grant that the answer of a caller was given under; told: that
\* of the answer behind the status of a connection, however long ago it was given.
Answered(k, a) ==
    /\ answer' = [answer EXCEPT ![k] = a]
    /\ asked' = [asked EXCEPT ![k] = grant[Of(k)]]
    /\ UNCHANGED told

Writes(k, c, affects) ==
    /\ answer' = [answer EXCEPT ![k] = Null]
    /\ asked' = [asked EXCEPT ![k] = Null]
    /\ told' = IF affects THEN [told EXCEPT ![c] = asked[k]] ELSE told

------------------------------------------------------------------------------
(* Registration, validation and scheduling.                                  *)

\* register_connection: a second registration of the property finds the first.
Registered(c) ==
    /\ conn[c].status = "ABSENT"
    /\ conn' = [conn EXCEPT ![c].status = "PENDING"]
    /\ UNCHANGED <<queueVars, handlerVars, extract, attempt, answer, probing,
                   worldVars, planVars, ghostVars>>

GA4Register(c) == ProviderOf[c] = "GA4" /\ Registered(c)
GSCRegister(c) == ProviderOf[c] = "GSC" /\ Registered(c)
GAMRegister(c) == ProviderOf[c] = "GAM" /\ Registered(c)

\* validate_connection of one connection, one call at a time: an operator's.
Probe(c) ==
    /\ conn[c].status # "ABSENT"
    /\ probing[c] = "idle" /\ probing' = [probing EXCEPT ![c] = "ask"]
    /\ UNCHANGED <<queueVars, handlerVars, conn, extract, attempt, answer,
                   worldVars, planVars, ghostVars>>

Probed(c, answers) ==
    /\ probing[c] = "ask" /\ probing' = [probing EXCEPT ![c] = "write"]
    /\ \E a \in Asked(c, answers) : Answered(c, a)
    /\ UNCHANGED <<queueVars, handlerVars, conn, extract, attempt, worldVars, planVars>>

\* mark_connection_validated, or fail_extract with no extract.  usable: what may
\* be found usable.
Validated(c, usable) ==
    /\ probing[c] = "write" /\ probing' = [probing EXCEPT ![c] = "idle"]
    /\ ~Locked(c)
    /\ IF answer[c] = Success
       THEN \E can \in usable :
                conn' = [conn EXCEPT ![c] = [status |-> "CONNECTED", capable |-> can]]
       ELSE conn' = [conn EXCEPT ![c].status = StatusAfter(answer[c].code)]
    /\ Writes(c, c, TRUE)
    /\ UNCHANGED <<queueVars, handlerVars, extract, attempt, worldVars, planVars>>

\* The metadata has what routine definitions need; a drill-down is usable if it
\* has what that needs too.  Then a first report.
GA4Checked ==
    Then({IF m.http # 200 THEN GA4HttpError(m.http) ELSE GA4Metadata(m.columns, RoutineColumns) :
             m \in Columns},
         GA4Answers)

GA4Validate(c) ==
    /\ ProviderOf[c] = "GA4"
    /\ Probe(c) \/ Probed(c, GA4Checked) \/ Validated(c, {{"ROUTINE"}, Capability})

\* The sites of the credential, and a query of each of two definitions.
GSCChecked ==
    Then({IF http # 200 THEN GSCHttpError(http) ELSE GSCAccess("siteOwner") : http \in Lookup},
         Then(GSCAnswers, GSCAnswers))

GSCValidate(c) ==
    /\ ProviderOf[c] = "GSC"
    /\ Probe(c) \/ Probed(c, GSCChecked) \/ Validated(c, {Capability})

\* The networks of the credential, the network, every bound report and a run of
\* each cube; a drill-down is usable if a report is bound to it.
GAMChecked(c) ==
    LET networks == {IF http # 200 THEN GAMHttpError(http) ELSE GAMAccess(TRUE) : http \in Lookup}
        network == {IF http # 200 THEN GAMHttpError(http) ELSE GAMNetwork("sound") : http \in Lookup}
    IN Then(networks, Then(network, Then(GAMInspected(c), GAMAnswers)))

GAMValidate(c) ==
    /\ ProviderOf[c] = "GAM"
    /\ Probe(c) \/ Probed(c, GAMChecked(c)) \/ Validated(c, {{"ROUTINE"}, Capability})

\* schedulable_connections: those that are available; the time zone or what else
\* validation stores is needed too.  A connection lost after it was listed is as
\* one lost before the job is claimed.
Schedulable(c) == Available(c) /\ conn[c].capable # {}

\* schedule_due of each scheduler, of the job of a slot or a day.
Scheduled(x, p) ==
    /\ x \in Routine /\ ProviderOf[ConnectionOf[x]] = p
    /\ Schedulable(ConnectionOf[x])
    /\ Enqueue(x)
    /\ UNCHANGED <<handlerVars, connVars, worldVars, planVars, ghostVars>>

GA4Schedule(x) == Scheduled(x, "GA4")
GSCSchedule(x) == Scheduled(x, "GSC")
GAMSchedule(x) == Scheduled(x, "GAM")

------------------------------------------------------------------------------
(* Planning of drill-downs: connectors/drilldown/service.py.                 *)

\* The request has read the clock; its transaction is about to begin.
Request(q, d) ==
    /\ plan[q] = Idle
    /\ plan' = [plan EXCEPT ![q] = [drilldown |-> d, today |-> day, begun |-> 0]]
    /\ UNCHANGED <<queueVars, handlerVars, connVars, worldVars, planned, day, ghostVars>>

OfInvestigation(d) == {e \in Drilldown : planned[e] # 0
    /\ ConnectionOf[e] = ConnectionOf[d] /\ InvestigationOf[e] = InvestigationOf[d]}
Since(today, d) == {e \in Drilldown : planned[e] >= today /\ planned[e] # 0
    /\ ConnectionOf[e] = ConnectionOf[d]}

\* The connection is fit for the drill-down, the job is new and both budgets
\* have room.
Allowed(d, today) ==
    /\ Available(ConnectionOf[d]) /\ "DRILLDOWN" \in conn[ConnectionOf[d]].capable
    /\ phase[d] = "absent"
    /\ Cardinality(OfInvestigation(d)) < MaxPerInvestigation
    /\ Cardinality(Since(today, d)) < MaxPerDay

\* The jobs are counted.  The row will be created on the day the transaction
\* began, some time after the clock was read.
Counted(q) ==
    /\ plan[q] # Idle /\ plan[q].begun = 0
    /\ \E begun \in plan[q].today .. day :
          plan' = [plan EXCEPT ![q] =
             IF Allowed(@.drilldown, @.today) THEN [@ EXCEPT !.begun = begun] ELSE Idle]
    /\ UNCHANGED <<queueVars, handlerVars, connVars, worldVars, planned, day, ghostVars>>

\* A plausible bug: the connection is read without FOR UPDATE.
CountUnlocked(q) == Counted(q)

\* The row of the connection is locked first.
Count(q) == plan[q] # Idle /\ ~Locked(ConnectionOf[plan[q].drilldown]) /\ Counted(q)

\* The job is inserted and the transaction commits.
Insert(q) ==
    /\ plan[q].begun # 0
    /\ Enqueue(plan[q].drilldown)
    /\ planned' = [planned EXCEPT ![plan[q].drilldown] = plan[q].begun]
    /\ plan' = [plan EXCEPT ![q] = Idle]
    /\ UNCHANGED <<handlerVars, connVars, worldVars, day, ghostVars>>

------------------------------------------------------------------------------
(* The handlers of GA4_EXTRACT, GSC_EXTRACT, GAM_EXTRACT and                 *)
(* CONNECTOR_DRILLDOWN, with run_extract and run_drilldown of the services.  *)

On(w) == ConnectionOf[job[w]]
Elsewhere == <<worldVars, planVars>>

Take(w, x) ==
    /\ Claim(w, x, "load")
    /\ attempt' = [attempt EXCEPT ![w] = runs'[x]]
    /\ UNCHANGED <<conn, extract, answer, probing, Elsewhere, ghostVars>>

\* The job of a handler is reclaimed.
Lose(x) ==
    /\ x \in ExtractJob
    /\ TakeBack(x)
    /\ UNCHANGED <<connVars, Elsewhere, ghostVars>>

\* _available_connection, and what a drill-down must have been validated for:
\* otherwise CONNECTION_UNAVAILABLE or DRILLDOWN_NOT_VALIDATED, for good.
Load(w, needed) ==
    LET c == On(w)
        fit == Available(c) /\ needed \in conn[c].capable
    IN /\ Goes(w, "load", IF fit THEN "start" ELSE "raised")
       /\ UNCHANGED <<queueVars, connVars, Elsewhere, ghostVars>>

\* start_extract: the run key is new, or another attempt's; COMPLETE ends here.
\* The row of the connection is updated, so a planner that holds it is waited for.
Start(w, next) ==
    LET x == job[w] IN
    /\ Goes(w, "start", IF extract[x].status = "COMPLETE" THEN "done" ELSE next)
    /\ ~Locked(On(w))
    /\ extract' = [extract EXCEPT ![x].status = IF @ = "ABSENT" THEN "PENDING" ELSE @]
    /\ UNCHANGED <<queueVars, conn, attempt, answer, probing, Elsewhere, ghostVars>>

\* The report is run, paged and normalised.
Ask(w, answers) ==
    /\ Goes(w, "ask", "write")
    /\ \E a \in answers : Answered(w, a)
    /\ UNCHANGED <<queueVars, conn, extract, attempt, probing, Elsewhere>>

\* Ad Manager: the saved report is read and compared before it is run.
Inspect(w) ==
    LET answers == Asked(On(w), GAMInspected(On(w))) IN
    /\ \/ /\ Goes(w, "inspect", "ask")
          /\ Success \in answers
          /\ UNCHANGED <<answer, ghostVars>>
       \/ /\ Goes(w, "inspect", "write")
          /\ \E a \in answers \ {Success} : Answered(w, a)
    /\ UNCHANGED <<queueVars, conn, extract, attempt, probing, Elsewhere>>

Runs(w, p, kind) == job[w] \in kind /\ ProviderOf[On(w)] = p

\* run_extract and run_drilldown of the services, up to what they write.
GA4Extract(w) ==
    /\ Runs(w, "GA4", Routine)
    /\ Load(w, "ROUTINE") \/ Start(w, "ask") \/ Ask(w, Asked(On(w), GA4Answers))

GA4Drilldown(w) ==
    /\ Runs(w, "GA4", Drilldown)
    /\ Load(w, "DRILLDOWN") \/ Start(w, "ask") \/ Ask(w, Asked(On(w), GA4Answers))

GSCExtract(w) ==
    /\ Runs(w, "GSC", Routine)
    /\ Load(w, "ROUTINE") \/ Start(w, "ask") \/ Ask(w, Asked(On(w), GSCAnswers))

GSCDrilldown(w) ==
    /\ Runs(w, "GSC", Drilldown)
    /\ Load(w, "DRILLDOWN") \/ Start(w, "ask") \/ Ask(w, Asked(On(w), GSCAnswers))

GAMExtract(w) ==
    /\ Runs(w, "GAM", Routine)
    /\ Load(w, "ROUTINE") \/ Start(w, "inspect") \/ Inspect(w) \/ Ask(w, Exchanged(On(w), GAMAnswers))

GAMDrilldown(w) ==
    /\ Runs(w, "GAM", Drilldown)
    /\ Load(w, "DRILLDOWN") \/ Start(w, "inspect") \/ Inspect(w) \/ Ask(w, Exchanged(On(w), GAMAnswers))

\* A plausible bug: the status of the extract is not read again under its lock.
CompleteAgain(w) ==
    LET x == job[w]
        c == On(w)
    IN /\ answer[w] = Success
       /\ Goes(w, "write", "done")
       /\ ~Locked(c)
       /\ extract' = [extract EXCEPT ![x] = [status |-> "COMPLETE",
                         points |-> @.points \cup {<<attempt[w], report[c]>>}]]
       /\ conn' = [conn EXCEPT ![c].status = "CONNECTED"]
       /\ Writes(w, c, TRUE)
       /\ UNCHANGED <<queueVars, attempt, probing, Elsewhere>>

\* complete_extract: the points and the status of extract and connection in one
\* transaction; nothing at all when another attempt was first.
Complete(w) ==
    LET x == job[w]
        c == On(w)
        first == extract[x].status # "COMPLETE"
    IN /\ answer[w] = Success
       /\ Goes(w, "write", "done")
       /\ first => ~Locked(c)
       /\ extract' = IF ~first THEN extract
                     ELSE [extract EXCEPT ![x] = [status |-> "COMPLETE",
                             points |-> {<<attempt[w], report[c]>>}]]
       /\ conn' = IF first THEN [conn EXCEPT ![c].status = "CONNECTED"] ELSE conn
       /\ Writes(w, c, first)
       /\ UNCHANGED <<queueVars, attempt, probing, Elsewhere>>

\* A plausible bug: no test of COMPLETE in the update of the extract.
FailedAnyhow(x) == [extract EXCEPT ![x].status = "FAILED"]

Failed(x) == IF extract[x].status = "COMPLETE" THEN extract
             ELSE [extract EXCEPT ![x].status = "FAILED"]

\* fail_extract: a COMPLETE extract stays, the connection is marked all the same.
Fail(w) ==
    LET c == On(w)
        a == answer[w]
        affects == Affects(job[w], a.code)
    IN /\ a # Null /\ a # Success
       /\ Goes(w, "write", IF a.retryable THEN "failed" ELSE "raised")
       /\ affects => ~Locked(c)
       /\ extract' = Failed(job[w])
       /\ conn' = IF affects THEN [conn EXCEPT ![c].status = StatusAfter(a.code)] ELSE conn
       /\ Writes(w, c, affects)
       /\ UNCHANGED <<queueVars, attempt, probing, Elsewhere>>

\* Any other exception: no fail_extract, and the job is retried.
Break(w) ==
    /\ pc[w] \in Place /\ pc' = [pc EXCEPT ![w] = "failed"]
    /\ IF answer[w] = Null THEN UNCHANGED <<answer, ghostVars>> ELSE Writes(w, On(w), FALSE)
    /\ UNCHANGED <<queueVars, job, conn, extract, attempt, probing, Elsewhere>>

Finish(w) ==
    /\ Report(w)
    /\ attempt' = [attempt EXCEPT ![w] = 0]
    /\ UNCHANGED <<conn, extract, answer, probing, Elsewhere, ghostVars>>

\* The handlers of worker.py around them.
Handler(w, x, p, kind) ==
    /\ x \in kind /\ ProviderOf[ConnectionOf[x]] = p
    /\ Take(w, x) \/ (job[w] = x /\ (Break(w) \/ Finish(w)))

GA4Job(w, x) == Handler(w, x, "GA4", Routine)
GSCJob(w, x) == Handler(w, x, "GSC", Routine)
GAMJob(w, x) == Handler(w, x, "GAM", Routine)
DrilldownJob(w, x) == \E p \in Provider : Handler(w, x, p, Drilldown)

Next ==
    \/ \E c \in Connection :
          \/ Regrant(c) \/ Edit(c)
          \/ GA4Register(c) \/ GSCRegister(c) \/ GAMRegister(c)
          \/ GA4Validate(c) \/ GSCValidate(c) \/ GAMValidate(c)
    \/ NextDay
    \/ \E x \in Routine : GA4Schedule(x) \/ GSCSchedule(x) \/ GAMSchedule(x)
    \/ \E q \in Requester : Count(q) \/ Insert(q) \/ \E d \in Drilldown : Request(q, d)
    \/ \E x \in ExtractJob : Lose(x)
    \/ \E w \in Worker :
          \/ \E x \in ExtractJob : GA4Job(w, x) \/ GSCJob(w, x) \/ GAMJob(w, x) \/ DrilldownJob(w, x)
          \/ GA4Extract(w) \/ GSCExtract(w) \/ GAMExtract(w)
          \/ GA4Drilldown(w) \/ GSCDrilldown(w) \/ GAMDrilldown(w)
          \/ Complete(w) \/ Fail(w)

Spec == Init /\ [][Next]_vars

------------------------------------------------------------------------------
(* Properties.                                                               *)

\* CONNECTORS.md section 97, "a retry creates another attempt, not a second
\* logical extract", and CONN-INV-005: what readers find in a COMPLETE extract is
\* one attempt's answer, and neither a stale attempt's answer nor its failure
\* changes it.
Readable == [x \in ExtractJob |->
    IF extract[x].status = "COMPLETE" THEN extract[x].points ELSE {}]
OneAnswer == {{<<n, r>>} : n \in UNION {1 .. MaxAttempts[x] : x \in ExtractJob},
                           r \in SavedReport}
Store == INSTANCE ExtractStore WITH
            Extract <- ExtractJob, Nothing <- {}, stored <- Readable,
            Answer <- OneAnswer
KeepsExtracts == Store!Init /\ [][Store!Next]_Readable

\* What the environment must be like for a status to tell anything: credentials
\* resolve, and the provider refuses nobody but for the grant.
Refusal == {"AUTH_EXPIRED", "PERMISSION_ERROR"}
RefusesForGrant ==
    /\ \A s \in Secret : Success = IF SecretBackend = "environment"
                                   THEN EnvironmentToken(Environment, s) ELSE OciToken(s)
    /\ \A a \in GA4Answers \cup GSCAnswers \cup GAMAnswers : a.code \notin Refusal
    /\ Lookup \cap {401, 403} = {} /\ \A m \in Columns : m.http \notin {401, 403}

\* What an operator reads off a connection, whichever caller wrote last and however
\* stale its answer was: PERMISSION_ERROR is written exactly when the provider had
\* denied the grant, AUTH_EXPIRED only when it had expired, and CONNECTED only when
\* it held.  An expired grant may also show as DEGRADED: the refresh token is refused
\* before the provider is asked.  The grant may have changed since.
StatusTells ==
    \/ \A c \in Connection : told[c] # Null =>
          /\ conn[c].status = "PERMISSION_ERROR" <=> told[c] = "denied"
          /\ conn[c].status = "AUTH_EXPIRED" => told[c] = "expired"
          /\ conn[c].status = "CONNECTED" => told[c] = "good"
    \/ ~RefusesForGrant

\* EP-014, drill-downs are bounded per investigation and per connection and day,
\* whoever asks at the same time, also around midnight.
WithinBudget == \A d \in Drilldown : planned[d] # 0 =>
    /\ Cardinality(OfInvestigation(d)) <= MaxPerInvestigation
    /\ Cardinality({e \in Drilldown : ConnectionOf[e] = ConnectionOf[d]
                                      /\ planned[e] = planned[d]}) <= MaxPerDay
=============================================================================

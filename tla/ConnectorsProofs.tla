--------------------------- MODULE ConnectorsProofs ---------------------------
(***************************************************************************)
(* Theorems about Connectors, for any connections, jobs, workers, budgets,  *)
(* exchanges and ways of losing a grant.                                    *)
(*                                                                          *)
(* A COMPLETE extract stays because the handler that completes it tests its *)
(* status in the transaction that writes it.  The budgets hold because the  *)
(* planner that has counted holds the row of the connection until it has    *)
(* inserted (Budget): nobody else has counted what it will add to.  The     *)
(* status tells because an answer fits the grant it was given under for as  *)
(* long as its caller keeps it (Fitting).                                   *)
(***************************************************************************)
EXTENDS Connectors, FiniteSetTheorems, TLAPS

\* A handler is at work on an extract, at an attempt its job has.
Handling == \A w \in Worker : job[w] # Null =>
    job[w] \in ExtractJob /\ attempt[w] \in 1 .. MaxAttempts[job[w]]

\* The planner that has counted is the only one at its connection; its drill-down
\* is new, fits into both budgets and will be of today or a day since.
Planned == {d \in Drilldown : planned[d] # 0}
Room(q) ==
    LET d == plan[q].drilldown IN
    /\ plan[q].begun \in plan[q].today .. day
    /\ planned[d] = 0
    /\ Cardinality(OfInvestigation(d)) < MaxPerInvestigation
    /\ Cardinality(Since(plan[q].today, d)) < MaxPerDay
At(q) == ConnectionOf[plan[q].drilldown]

Budget ==
    /\ IsFiniteSet(Planned)
    /\ \A q \in Requester : plan[q] # Idle => plan[q] \in Plan /\ plan[q].today <= day
    /\ \A q \in Requester : plan[q].begun # 0 => Room(q)
    /\ \A q, r \in Requester : q # r /\ plan[q].begun # 0 /\ plan[r].begun # 0 => At(q) # At(r)
    /\ WithinBudget

\* An answer that the grant may have been the cause of.
Fits(a, g) ==
    /\ a.code = "PERMISSION_ERROR" <=> g = "denied"
    /\ a.code = "AUTH_EXPIRED" => g = "expired"
    /\ a = Success => g = "good"

\* What StatusTells says of a status, and of the answers not yet written.
Shows(status, g) ==
    /\ status = "PERMISSION_ERROR" <=> g = "denied"
    /\ status = "AUTH_EXPIRED" => g = "expired"
    /\ status = "CONNECTED" => g = "good"
Telling == \A c \in Connection : told[c] # Null => Shows(conn[c].status, told[c])
Fitting == \A k \in Caller : answer[k] # Null => Fits(answer[k], asked[k])

IInv == /\ TypeOK /\ Handling
        /\ Budget
        /\ RefusesForGrant => Fitting /\ Telling

\* The parts of the first two.
Work == /\ WorkerTypeOK(Place) /\ attempt \in [Worker -> Nat] /\ Handling
        /\ \A d \in Drilldown : planned[d] # 0 <=> phase[d] # "absent"
Rows == /\ conn \in [Connection -> Snapshot] /\ extract \in [ExtractJob -> Extract]
        /\ \A x \in ExtractJob :
              /\ extract[x].points \subseteq (1 .. MaxAttempts[x]) \X SavedReport
              /\ extract[x].status = "COMPLETE" <=> extract[x].points # {}
World == grant \in [Connection -> Grant] /\ report \in [Connection -> SavedReport]
Calls == /\ answer \in [Caller -> Answer \cup {Null}]
         /\ probing \in [Connection -> {"idle", "ask", "write"}]
         /\ asked \in [Caller -> Grant \cup {Null}] /\ told \in [Connection -> Grant \cup {Null}]
         /\ \A k \in Caller : asked[k] = Null <=> answer[k] = Null
         /\ \A w \in Worker : pc[w] = "write" <=> answer[w] # Null
         /\ \A c \in Connection : probing[c] = "write" <=> answer[c] # Null
Plans == /\ plan \in [Requester -> Plan \cup {Idle}]
         /\ planned \in [Drilldown -> 0 .. Days] /\ day \in 1 .. Days

LEMMA Parts == TypeOK /\ Handling <=> Work /\ Rows /\ World /\ Calls /\ Plans
BY DEF TypeOK, Work, Rows, World, Calls, Plans
------------------------------------------------------------------------------
(* Answers.                                                                  *)

LEMMA SaysAnswer == \A code \in {"OK"} \cup ErrorCode, b \in BOOLEAN : Says(code, b) \in Answer
BY DEF Says, Answer

LEMMA ErrorsAnswer ==
    /\ Success \in Answer /\ Success.code = "OK"
    /\ \A status : GA4HttpError(status) \in Answer /\ GSCHttpError(status) \in Answer
                   /\ GAMHttpError(status) \in Answer
<1>1. Success \in Answer /\ Success.code = "OK"
  BY DEF Success, Says, Answer
<1>2. \A status : GA4HttpError(status) \in Answer
  BY DEF GA4HttpError, Unreadable, Says, Answer, ErrorCode
<1>3. \A status : GAMHttpError(status) \in Answer
  BY <1>2 DEF GAMHttpError, Says, Answer, ErrorCode
<1> QED BY <1>1, <1>2, <1>3 DEF GSCHttpError

Refuses(a, status) ==
    /\ a.code \in Refusal <=> status \in {401, 403}
    /\ status = 401 => a.code = "AUTH_EXPIRED"
    /\ status = 403 => a.code = "PERMISSION_ERROR"

\* A status refuses the caller when it is 401 or 403, and then in its own words.
LEMMA ErrorsRefuse ==
    ASSUME NEW status
    PROVE  /\ Refuses(GA4HttpError(status), status)
           /\ Refuses(GSCHttpError(status), status)
           /\ Refuses(GAMHttpError(status), status)
BY SMTT(60) DEF Says, Unreadable, GA4HttpError, GSCHttpError, GAMHttpError, Refusal, Refuses

LEMMA TokensAnswer ==
    ASSUME NEW c \in Connection
    PROVE  Token(c) \subseteq Answer
<1>1. \A s : EnvironmentToken(Environment, s) \in Answer
  BY DEF EnvironmentToken, Answer, ErrorCode, Success, Says
<1>2. \A r : RefreshError(r) \in Answer
  BY DEF RefreshError, Answer, ErrorCode, Success, Says
<1>3. \A status : VaultError(status) \in Answer
  BY DEF VaultError, Answer, ErrorCode, Says
<1>4. \A s : OciToken(s) \in Answer
  BY <1>2, <1>3 DEF OciToken, Answer, ErrorCode, Says
<1> QED BY <1>1, <1>4 DEF Token

\* Where a credential is kept, nobody refuses in the words of a provider.
LEMMA TokensPermit ==
    ASSUME NEW c \in Connection
    PROVE  \A a \in Token(c) : a.code \notin Refusal
<1>1. \A s : EnvironmentToken(Environment, s).code \notin Refusal
  BY DEF EnvironmentToken, Refusal, Success, Says
<1>2. \A r : RefreshError(r).code \notin Refusal
  BY DEF RefreshError, Refusal, Success, Says
<1>3. \A status : VaultError(status).code \notin Refusal
  BY DEF VaultError, Refusal, Says
<1>4. \A s : OciToken(s).code \notin Refusal
  BY <1>2, <1>3 DEF OciToken, Refusal, Says
<1> QED BY <1>1, <1>4 DEF Token

LEMMA ExchangedAnswer ==
    ASSUME NEW c \in Connection, NEW answers \in SUBSET Answer
    PROVE  Exchanged(c, answers) \subseteq Answer /\ Asked(c, answers) \subseteq Answer
<1>1. HttpError(ProviderOf[c], 401) \in Answer /\ HttpError(ProviderOf[c], 403) \in Answer
  BY ErrorsAnswer, ConnectorsAssumption DEF HttpError, Provider
<1>2. Exchanged(c, answers) \subseteq Answer
  BY <1>1 DEF Exchanged
<1> QED BY <1>2, TokensAnswer DEF Asked

\* What a validation asks one call after another, and what an inspection asks.
LEMMA ChecksAnswer ==
    /\ GA4Checked \subseteq Answer /\ GSCChecked \subseteq Answer
    /\ \A c : GAMChecked(c) \subseteq Answer /\ GAMInspected(c) \subseteq Answer
<1>1. \A A, B : A \subseteq Answer /\ B \subseteq Answer => Then(A, B) \subseteq Answer
  BY DEF Then
<1>2. GA4Answers \subseteq Answer /\ GSCAnswers \subseteq Answer /\ GAMAnswers \subseteq Answer
  BY AnswersAssumption
<1>3. \A had, needed : GA4Metadata(had, needed) \in Answer
  BY ErrorsAnswer DEF GA4Metadata, Answer, ErrorCode, Says
<1>4. GSCAccess("siteOwner") \in Answer /\ GAMAccess(TRUE) \in Answer /\ GAMNetwork("sound") \in Answer
  BY ErrorsAnswer DEF GSCAccess, GAMAccess, GAMNetwork
<1>5. \A r : GAMDefinition(r, "fits") \in Answer
  BY ErrorsAnswer DEF GAMDefinition, Answer, ErrorCode, Says
<1>6. GA4Checked \subseteq Answer
  BY <1>1, <1>2, <1>3, ErrorsAnswer DEF GA4Checked
<1>7. GSCChecked \subseteq Answer
  BY <1>1, <1>2, <1>4, ErrorsAnswer DEF GSCChecked
<1>8. \A c : GAMInspected(c) \subseteq Answer
  BY <1>5, ErrorsAnswer DEF GAMInspected
<1>9. \A c : GAMChecked(c) \subseteq Answer
  <2> TAKE c
  <2> DEFINE networks == {IF http # 200 THEN GAMHttpError(http) ELSE GAMAccess(TRUE) : http \in Lookup}
             network == {IF http # 200 THEN GAMHttpError(http) ELSE GAMNetwork("sound") : http \in Lookup}
  <2>1. networks \subseteq Answer /\ network \subseteq Answer
    BY <1>4, ErrorsAnswer
  <2>2. Then(networks, Then(network, Then(GAMInspected(c), GAMAnswers))) \subseteq Answer
    <3> HIDE DEF networks, network
    <3> QED BY <1>1, <1>2, <1>8, <2>1
  <2> QED BY <2>2 DEF GAMChecked
<1> QED BY <1>6, <1>7, <1>8, <1>9

\* Where the provider refuses only for the grant, an answer tells of the grant.
Permits(answers) == \A a \in answers : a.code \notin Refusal

LEMMA ChecksPermit ==
    ASSUME RefusesForGrant
    PROVE  /\ Permits(GA4Answers) /\ Permits(GSCAnswers) /\ Permits(GAMAnswers)
           /\ Permits(GA4Checked) /\ Permits(GSCChecked)
           /\ \A c : Permits(GAMChecked(c)) /\ Permits(GAMInspected(c))
<1>1. Permits(GA4Answers) /\ Permits(GSCAnswers) /\ Permits(GAMAnswers)
  BY DEF RefusesForGrant, Permits
<1>2. \A A, B : Permits(A) /\ Permits(B) => Permits(Then(A, B))
  BY DEF Then, Permits
<1>3. Success.code \notin Refusal
  BY ErrorsAnswer DEF Refusal
<1>4. \A had, needed : GA4Metadata(had, needed).code \notin Refusal
  BY <1>3 DEF GA4Metadata, Says, Refusal
<1>5. GSCAccess("siteOwner") = Success /\ GAMAccess(TRUE) = Success /\ GAMNetwork("sound") = Success
  BY DEF GSCAccess, GAMAccess, GAMNetwork
<1>6. \A r : GAMDefinition(r, "fits").code \notin Refusal
  BY <1>3 DEF GAMDefinition, Says, Refusal
<1>7. \A http \in Lookup : GSCHttpError(http).code \notin Refusal /\ GAMHttpError(http).code \notin Refusal
  BY ErrorsRefuse DEF Refuses, RefusesForGrant
<1>8. \A m \in Columns : GA4HttpError(m.http).code \notin Refusal
  BY ErrorsRefuse DEF Refuses, RefusesForGrant
<1>9. Permits(GA4Checked)
  <2> DEFINE metadata == {IF m.http # 200 THEN GA4HttpError(m.http)
                          ELSE GA4Metadata(m.columns, RoutineColumns) : m \in Columns}
  <2>1. Permits(metadata)
    BY <1>4, <1>8 DEF Permits
  <2>2. Permits(Then(metadata, GA4Answers))
    <3> HIDE DEF metadata
    <3> QED BY <1>1, <1>2, <2>1
  <2> QED BY <2>2 DEF GA4Checked
<1>10. Permits(GSCChecked)
  <2> DEFINE sites == {IF http # 200 THEN GSCHttpError(http) ELSE GSCAccess("siteOwner") : http \in Lookup}
  <2>1. Permits(sites)
    BY <1>3, <1>5, <1>7 DEF Permits
  <2>2. Permits(Then(sites, Then(GSCAnswers, GSCAnswers)))
    <3> HIDE DEF sites
    <3> QED BY <1>1, <1>2, <2>1
  <2> QED BY <2>2 DEF GSCChecked
<1>11. \A c : Permits(GAMInspected(c))
  BY <1>6, <1>7 DEF GAMInspected, Permits
<1>12. \A c : Permits(GAMChecked(c))
  <2> TAKE c
  <2> DEFINE networks == {IF http # 200 THEN GAMHttpError(http) ELSE GAMAccess(TRUE) : http \in Lookup}
             network == {IF http # 200 THEN GAMHttpError(http) ELSE GAMNetwork("sound") : http \in Lookup}
  <2>1. Permits(networks) /\ Permits(network)
    BY <1>3, <1>5, <1>7 DEF Permits
  <2>2. Permits(Then(networks, Then(network, Then(GAMInspected(c), GAMAnswers))))
    <3> HIDE DEF networks, network
    <3> QED BY <1>1, <1>2, <1>11, <2>1
  <2> QED BY <2>2 DEF GAMChecked
<1> QED BY <1>1, <1>9, <1>10, <1>11, <1>12

LEMMA AskedFits ==
    ASSUME RefusesForGrant, NEW c \in Connection, grant \in [Connection -> Grant],
           NEW answers, Permits(answers)
    PROVE  /\ \A a \in Exchanged(c, answers) : Fits(a, grant[c])
           /\ \A a \in Asked(c, answers) : Fits(a, grant[c])
<1>1. /\ HttpError(ProviderOf[c], 401).code = "AUTH_EXPIRED"
      /\ HttpError(ProviderOf[c], 403).code = "PERMISSION_ERROR"
  BY ErrorsRefuse, ConnectorsAssumption DEF HttpError, Provider, Refuses
<1>2. \A a \in Exchanged(c, answers) : Fits(a, grant[c])
  BY <1>1, ErrorsAnswer DEF Exchanged, Fits, Grant, Refusal, Permits
<1>3. CASE grant[c] = "expired"
  <2>1. \A a \in Token(c) \ {Success} : Fits(a, grant[c])
    BY <1>3, TokensPermit DEF Fits, Refusal
  <2> QED BY <1>2, <2>1 DEF Asked
<1>4. CASE grant[c] # "expired"
  <2>1. Token(c) \subseteq {Success}
    BY <1>4, ConnectorsAssumption DEF Token, RefusesForGrant
  <2> QED BY <1>2, <2>1 DEF Asked
<1> QED BY <1>2, <1>3, <1>4
------------------------------------------------------------------------------
(* The queue and the workers.                                                *)

\* A handler goes on, breaks off, or none moves.
LEMMA GoesType ==
    ASSUME WorkerTypeOK(Place), NEW w \in Worker, pc[w] # "idle",
           NEW t \in Outcome \cup Place, pc' = [pc EXCEPT ![w] = t],
           UNCHANGED <<queueVars, job>>
    PROVE  WorkerTypeOK(Place)'
<1> USE DEF queueVars
<1>1. pc' \in [Worker -> {"idle"} \cup Outcome \cup Place]
  BY DEF WorkerTypeOK
<1>2. \A x \in Worker : pc'[x] = "idle" <=> job'[x] = Null
  BY DEF WorkerTypeOK, Outcome, Place
<1> QED BY <1>1, <1>2 DEF WorkerTypeOK

LEMMA EnqueueType ==
    ASSUME WorkerTypeOK(Place), NEW j \in Job, Enqueue(j), UNCHANGED handlerVars
    PROVE  /\ WorkerTypeOK(Place)'
           /\ phase'[j] # "absent" /\ \A i \in Job : i # j => phase'[i] = phase[i]
<1> USE DEF Enqueue, Queue!Submit, handlerVars
<1>1. phase' \in [Job -> Queue!Phase]
  BY DEF WorkerTypeOK, Queue!Phase
<1>2. WorkerTypeOK(Place)'
  BY <1>1 DEF WorkerTypeOK
<1> QED BY <1>2 DEF WorkerTypeOK

LEMMA ClaimType ==
    ASSUME WorkerTypeOK(Place), NEW w \in Worker, NEW j \in Job, NEW s \in Place, Claim(w, j, s)
    PROVE  /\ WorkerTypeOK(Place)'
           /\ phase[j] = "waiting" /\ runs'[j] \in 1 .. MaxAttempts[j]
           /\ \A i \in Job : phase'[i] = "absent" <=> phase[i] = "absent"
<1> USE DEF Claim, Queue!Start
<1>1. MaxAttempts[j] \in Nat /\ j # Null
  BY WorkerAssumption
<1>2. runs[j] \in Nat /\ runs[j] < MaxAttempts[j] /\ runs'[j] = runs[j] + 1
  BY DEF WorkerTypeOK
<1>3. runs' \in [Job -> Nat] /\ \A i \in Job : runs'[i] <= MaxAttempts[i]
  BY <1>1, <1>2 DEF WorkerTypeOK
<1>4. phase' \in [Job -> Queue!Phase] /\ owner' \in [Job -> Worker \cup {Null}]
  BY DEF WorkerTypeOK, Queue!Phase
<1>5. pc' \in [Worker -> {"idle"} \cup Outcome \cup Place] /\ job' \in [Worker -> Job \cup {Null}]
  BY DEF WorkerTypeOK
<1>6. \A x \in Worker : pc'[x] = "idle" <=> job'[x] = Null
  BY <1>1 DEF WorkerTypeOK, Place
<1>7. WorkerTypeOK(Place)'
  BY <1>3, <1>4, <1>5, <1>6 DEF WorkerTypeOK
<1> QED BY <1>1, <1>2, <1>7 DEF WorkerTypeOK

LEMMA TakeBackType ==
    ASSUME WorkerTypeOK(Place), NEW j \in Job, TakeBack(j)
    PROVE  /\ WorkerTypeOK(Place)'
           /\ \A i \in Job : phase'[i] = "absent" <=> phase[i] = "absent"
<1> USE DEF TakeBack, Queue!TakeBack, handlerVars
<1>1. phase' \in [Job -> Queue!Phase] /\ owner' \in [Job -> Worker \cup {Null}]
  BY DEF WorkerTypeOK, Queue!Phase
<1>2. \A i \in Job : phase'[i] = "absent" <=> phase[i] = "absent"
  BY DEF WorkerTypeOK
<1> QED BY <1>1, <1>2 DEF WorkerTypeOK

LEMMA ReportType ==
    ASSUME WorkerTypeOK(Place), NEW w \in Worker, Report(w)
    PROVE  /\ WorkerTypeOK(Place)'
           /\ \A i \in Job : phase'[i] = "absent" <=> phase[i] = "absent"
<1> DEFINE j == job[w]
<1>1. /\ UNCHANGED runs
      /\ \/ UNCHANGED <<phase, owner>>
         \/ /\ phase[j] = "running" /\ owner' = [owner EXCEPT ![j] = Null]
            /\ \E p \in {"done", "dead", "waiting"} : phase' = [phase EXCEPT ![j] = p]
  <2>1. CASE Queue!Succeed(j, w)
    BY <2>1 DEF Queue!Succeed
  <2>2. CASE Queue!Fail(j, w)
    BY <2>2 DEF Queue!Fail
  <2>3. CASE UNCHANGED queueVars
    BY <2>3 DEF queueVars
  <2> QED BY <2>1, <2>2, <2>3 DEF Report
<1>2. pc' = [pc EXCEPT ![w] = "idle"] /\ job' = [job EXCEPT ![w] = Null]
  BY DEF Report
<1>3. phase' \in [Job -> Queue!Phase] /\ owner' \in [Job -> Worker \cup {Null}]
  BY <1>1 DEF WorkerTypeOK, Queue!Phase
<1>4. \A i \in Job : phase'[i] = "absent" <=> phase[i] = "absent"
  BY <1>1 DEF WorkerTypeOK
<1>5. pc' \in [Worker -> {"idle"} \cup Outcome \cup Place] /\ job' \in [Worker -> Job \cup {Null}]
  BY <1>2 DEF WorkerTypeOK
<1>6. \A x \in Worker : pc'[x] = "idle" <=> job'[x] = Null
  BY <1>2 DEF WorkerTypeOK
<1>7. WorkerTypeOK(Place)'
  BY <1>1, <1>3, <1>5, <1>6 DEF WorkerTypeOK
<1> QED BY <1>4, <1>7

\* A step of a handler that leaves the queue and the plans alone.
LEMMA MovesWork ==
    ASSUME Work, NEW w \in Worker, pc[w] # "idle", NEW t \in Outcome \cup Place,
           pc' = [pc EXCEPT ![w] = t], UNCHANGED <<queueVars, job, attempt, planned>>
    PROVE  Work'
<1>1. WorkerTypeOK(Place)'
  BY GoesType DEF Work
<1> QED BY <1>1 DEF Work, Handling, queueVars

LEMMA SameWork ==
    ASSUME Work, UNCHANGED <<queueVars, handlerVars, attempt, planned>>
    PROVE  Work'
BY DEF Work, Handling, WorkerTypeOK, queueVars, handlerVars

LEMMA SameCalls ==
    ASSUME Calls, UNCHANGED <<answer, probing, asked, told>>,
           \A w \in Worker : pc'[w] = "write" <=> pc[w] = "write"
    PROVE  Calls'
BY DEF Calls

LEMMA SameRows ==
    ASSUME Rows, UNCHANGED <<conn, extract>>
    PROVE  Rows'
BY DEF Rows

\* A caller has its answer, and has it no more once it has written.
LEMMA AnsweredCalls ==
    ASSUME Calls, NEW k \in Caller, NEW a \in Answer, Answered(k, a), grant[Of(k)] \in Grant,
           \/ /\ k \in Worker /\ UNCHANGED probing /\ pc'[k] = "write"
              /\ \A w \in Worker \ {k} : pc'[w] = "write" <=> pc[w] = "write"
           \/ /\ k \in Connection /\ UNCHANGED pc
              /\ probing' = [probing EXCEPT ![k] = "write"]
    PROVE  Calls'
<1>1. Null \notin Answer \cup Grant /\ Connection \cap Worker = {}
  BY AnswersAssumption, ConnectorsAssumption
<1>2. answer' = [answer EXCEPT ![k] = a] /\ asked' = [asked EXCEPT ![k] = grant[Of(k)]] /\ told' = told
  BY DEF Answered
<1>3. answer' \in [Caller -> Answer \cup {Null}]
  BY <1>2 DEF Calls
<1>4. /\ asked' \in [Caller -> Grant \cup {Null}] /\ told' \in [Connection -> Grant \cup {Null}]
      /\ \A i \in Caller : asked'[i] = Null <=> answer'[i] = Null
  BY <1>1, <1>2 DEF Calls
<1>5. probing' \in [Connection -> {"idle", "ask", "write"}]
  BY DEF Calls
<1>6. \A w \in Worker : pc'[w] = "write" <=> answer'[w] # Null
  BY <1>1, <1>2 DEF Calls, Caller
<1>7. \A c \in Connection : probing'[c] = "write" <=> answer'[c] # Null
  BY <1>1, <1>2 DEF Calls, Caller
<1> QED BY <1>3, <1>4, <1>5, <1>6, <1>7 DEF Calls

LEMMA WritesCalls ==
    ASSUME Calls, NEW k \in Caller, NEW c \in Connection, NEW affects, Writes(k, c, affects),
           \/ /\ k \in Worker /\ UNCHANGED probing /\ pc'[k] # "write"
              /\ \A w \in Worker \ {k} : pc'[w] = "write" <=> pc[w] = "write"
           \/ /\ k \in Connection /\ UNCHANGED pc
              /\ probing' = [probing EXCEPT ![k] = "idle"]
    PROVE  Calls'
<1>1. Connection \cap Worker = {}
  BY ConnectorsAssumption
<1>2. /\ answer' = [answer EXCEPT ![k] = Null] /\ asked' = [asked EXCEPT ![k] = Null]
      /\ told' = IF affects THEN [told EXCEPT ![c] = asked[k]] ELSE told
  BY DEF Writes
<1>3. answer' \in [Caller -> Answer \cup {Null}]
  BY <1>2 DEF Calls
<1>4. /\ asked' \in [Caller -> Grant \cup {Null}] /\ told' \in [Connection -> Grant \cup {Null}]
      /\ \A i \in Caller : asked'[i] = Null <=> answer'[i] = Null
  BY <1>1, <1>2 DEF Calls
<1>5. probing' \in [Connection -> {"idle", "ask", "write"}]
  BY DEF Calls
<1>6. \A w \in Worker : pc'[w] = "write" <=> answer'[w] # Null
  BY <1>1, <1>2 DEF Calls, Caller
<1>7. \A d \in Connection : probing'[d] = "write" <=> answer'[d] # Null
  BY <1>1, <1>2 DEF Calls, Caller
<1> QED BY <1>3, <1>4, <1>5, <1>6, <1>7 DEF Calls
------------------------------------------------------------------------------
(* The types, action by action.                                              *)

Typed == Work /\ Rows /\ World /\ Calls /\ Plans

LEMMA InitTyped == Init => Typed
<1> SUFFICES ASSUME Init PROVE Typed
  OBVIOUS
<1> USE DEF Init, WorkerInit, Queue!Init
<1>1. Work
  BY WorkerAssumption, ConnectorsAssumption
  DEF Work, WorkerTypeOK, Queue!Phase, Handling, ExtractJob, Place, Outcome
<1>2. Rows
  BY DEF Rows, Snapshot, Nowhere, Status, Capability, Extract
<1>3. World
  BY DEF World, Grant, SavedReport
<1>4. Calls
  BY DEF Calls, Caller
<1>5. Plans
  BY ConnectorsAssumption DEF Plans
<1> QED BY <1>1, <1>2, <1>3, <1>4, <1>5 DEF Typed

LEMMA WorldTyped ==
    ASSUME Typed, NEW c \in Connection, Regrant(c) \/ Edit(c)
    PROVE  Typed'
<1> USE DEF Typed, handlerVars, connVars, planVars, worldVars, ghostVars
<1>1. CASE Regrant(c)
  <2>1. Work'
    BY <1>1, SameWork DEF Regrant
  <2>2. Calls'
    BY <1>1, SameCalls DEF Regrant
  <2>3. World'
    BY <1>1 DEF Regrant, World
  <2> QED BY <1>1, <2>1, <2>2, <2>3, SameRows DEF Regrant, Plans
<1>2. CASE Edit(c)
  <2>1. Work'
    BY <1>2, SameWork DEF Edit
  <2>2. Calls'
    BY <1>2, SameCalls DEF Edit
  <2>3. World'
    BY <1>2 DEF Edit, World, SavedReport
  <2> QED BY <1>2, <2>1, <2>2, <2>3, SameRows DEF Edit, Plans
<1> QED BY <1>1, <1>2

LEMMA NextDayTyped ==
    ASSUME Typed, NextDay
    PROVE  Typed'
<1> USE DEF Typed, connVars, worldVars, ghostVars
<1>1. Work' /\ Rows' /\ Calls' /\ World'
  BY SameWork, SameRows, SameCalls DEF NextDay, World, handlerVars
<1>2. Plans'
  BY ConnectorsAssumption DEF NextDay, Plans
<1> QED BY <1>1, <1>2

LEMMA ValidationTyped ==
    ASSUME Typed, NEW c \in Connection, NEW answers \in SUBSET Answer,
           NEW usable \in SUBSET SUBSET Capability,
           Registered(c) \/ Probe(c) \/ Probed(c, answers) \/ Validated(c, usable)
    PROVE  Typed'
<1> USE DEF Typed, handlerVars, connVars, planVars, worldVars, ghostVars
<1>1. UNCHANGED <<queueVars, handlerVars, extract, attempt, worldVars, planVars>>
  BY DEF Registered, Probe, Probed, Validated
<1>2. Work' /\ World' /\ Plans'
  BY <1>1, SameWork DEF World, Plans
<1>3. Rows'
  <2>1. CASE Registered(c)
    BY <2>1 DEF Registered, Rows, Snapshot, Status
  <2>2. CASE Probe(c) \/ Probed(c, answers)
    BY <2>2, SameRows DEF Probe, Probed
  <2>3. CASE Validated(c, usable)
    BY <1>1, <2>3 DEF Validated, Rows, Snapshot, Status, StatusAfter
  <2> QED BY <2>1, <2>2, <2>3
<1>4. Calls'
  <2>1. CASE Registered(c)
    BY <2>1, SameCalls DEF Registered
  <2>2. CASE Probe(c)
    BY <2>2 DEF Probe, Calls
  <2>3. CASE Probed(c, answers)
    <3>1. PICK a \in Answer : Answered(c, a)
      BY <2>3, ExchangedAnswer DEF Probed
    <3>2. grant[Of(c)] \in Grant
      BY DEF Of, World
    <3> QED BY <1>1, <2>3, <3>1, <3>2, AnsweredCalls DEF Probed, Caller
  <2>4. CASE Validated(c, usable)
    BY <1>1, <2>4, WritesCalls DEF Validated, Caller
  <2> QED BY <2>1, <2>2, <2>3, <2>4
<1> QED BY <1>2, <1>3, <1>4

LEMMA ScheduledTyped ==
    ASSUME Typed, NEW x \in Routine, NEW p, Scheduled(x, p)
    PROVE  Typed'
<1> USE DEF Typed, handlerVars, connVars, planVars, worldVars, ghostVars
<1>1. x \in Job /\ x \notin Drilldown /\ Drilldown \subseteq Job
  BY ConnectorsAssumption DEF ExtractJob
<1>2. WorkerTypeOK(Place)' /\ \A i \in Job : i # x => phase'[i] = phase[i]
  BY <1>1, EnqueueType DEF Scheduled, Work
<1>3. Work'
  BY <1>1, <1>2 DEF Scheduled, Work, Handling
<1>4. Calls'
  BY SameCalls DEF Scheduled
<1> QED BY <1>3, <1>4, SameRows DEF Scheduled, World, Plans

\* What has been counted is in the plan of a requester.
LEMMA PlanningTyped ==
    ASSUME Typed, Budget, NEW q \in Requester,
           Count(q) \/ Insert(q) \/ \E d \in Drilldown : Request(q, d)
    PROVE  Typed'
<1> USE DEF Typed, handlerVars, connVars, planVars, worldVars, ghostVars
<1>1. plan[q] # Idle => plan[q] \in Plan /\ plan[q].today <= day
  BY DEF Budget
<1>2. CASE \E d \in Drilldown : Request(q, d)
  <2>1. Work' /\ Calls' /\ World' /\ Rows'
    BY <1>2, SameWork, SameCalls, SameRows DEF Request, World
  <2>2. Plans'
    BY <1>2, ConnectorsAssumption DEF Request, Plans, Plan
  <2> QED BY <2>1, <2>2
<1>3. CASE Count(q)
  <2>1. Work' /\ Calls' /\ World' /\ Rows'
    BY <1>3, SameWork, SameCalls, SameRows DEF Count, Counted, World
  <2>2. Plans'
    <3>1. PICK begun \in plan[q].today .. day :
             plan' = [plan EXCEPT ![q] = IF Allowed(@.drilldown, @.today)
                                         THEN [@ EXCEPT !.begun = begun] ELSE Idle]
      BY <1>3 DEF Count, Counted
    <3>2. [plan[q] EXCEPT !.begun = begun] \in Plan
      BY <1>1, <1>3, ConnectorsAssumption DEF Count, Plans, Plan
    <3> QED BY <1>3, <3>1, <3>2 DEF Count, Counted, Plans
  <2> QED BY <2>1, <2>2
<1>4. CASE Insert(q)
  <2> DEFINE d == plan[q].drilldown
  <2>1. plan[q] # Idle
    BY <1>4 DEF Insert, Idle
  <2>2. d \in Drilldown /\ plan[q].begun \in 1 .. Days
    BY <1>1, <1>4, <2>1, ConnectorsAssumption DEF Insert, Plan
  <2>3. /\ WorkerTypeOK(Place)' /\ phase'[d] # "absent"
        /\ \A i \in Job : i # d => phase'[i] = phase[i]
    BY <1>4, <2>2, EnqueueType, ConnectorsAssumption DEF Insert, Work, ExtractJob
  <2>4. planned' = [planned EXCEPT ![d] = plan[q].begun] /\ plan' = [plan EXCEPT ![q] = Idle]
    BY <1>4 DEF Insert
  <2> HIDE DEF d
  <2>5. Plans'
    <3>1. plan' \in [Requester -> Plan \cup {Idle}] /\ day' = day
      BY <1>4, <2>4 DEF Insert, Plans
    <3>2. plan[q].begun \in 0 .. Days
      BY <2>2, ConnectorsAssumption
    <3>3. planned' \in [Drilldown -> 0 .. Days]
      BY <2>4, <3>2 DEF Plans
    <3> QED BY <3>1, <3>3 DEF Plans
  <2>6. \A e \in Drilldown : planned'[e] # 0 <=> phase'[e] # "absent"
    <3>1. Drilldown \subseteq Job
      BY ConnectorsAssumption DEF ExtractJob
    <3> QED BY <2>2, <2>3, <2>4, <3>1 DEF Work, Plans
  <2>7. Work'
    BY <1>4, <2>3, <2>6 DEF Insert, Work, Handling
  <2>8. Calls' /\ World' /\ Rows'
    BY <1>4, SameCalls, SameRows DEF Insert, World
  <2> QED BY <2>5, <2>7, <2>8
<1> QED BY <1>2, <1>3, <1>4
------------------------------------------------------------------------------
(* The types: the handlers.                                                  *)

\* A handler at work on an extract.
LEMMA AtWork ==
    ASSUME Work, NEW w \in Worker, pc[w] # "idle"
    PROVE  /\ job[w] \in ExtractJob /\ On(w) \in Connection /\ Of(w) = On(w)
           /\ attempt[w] \in 1 .. MaxAttempts[job[w]] /\ MaxAttempts[job[w]] \in Nat
<1>1. job[w] # Null
  BY DEF Work, WorkerTypeOK
<1> QED BY <1>1, ConnectorsAssumption, WorkerAssumption DEF Work, Handling, On, Of

LEMMA TakeTyped ==
    ASSUME Typed, NEW w \in Worker, NEW x \in ExtractJob, Take(w, x)
    PROVE  Typed'
<1> USE DEF Typed, handlerVars, planVars, worldVars, ghostVars, Elsewhere
<1>1. x \in Job /\ Drilldown \subseteq Job
  BY ConnectorsAssumption DEF ExtractJob
<1>2. /\ WorkerTypeOK(Place)' /\ runs'[x] \in 1 .. MaxAttempts[x]
      /\ \A i \in Job : phase'[i] = "absent" <=> phase[i] = "absent"
  BY <1>1, ClaimType DEF Take, Work, Place
<1>3. pc' = [pc EXCEPT ![w] = "load"] /\ job' = [job EXCEPT ![w] = x]
      /\ pc[w] = "idle" /\ attempt' = [attempt EXCEPT ![w] = runs'[x]]
  BY DEF Take, Claim
<1>4. MaxAttempts[x] \in Nat /\ x # Null
  BY <1>1, WorkerAssumption
<1>5. attempt' \in [Worker -> Nat]
  BY <1>2, <1>3, <1>4 DEF Work
<1>6. Handling'
  BY <1>2, <1>3 DEF Work, Handling, WorkerTypeOK
<1>7. Work'
  BY <1>1, <1>2, <1>5, <1>6 DEF Take, Work
<1>8. Calls'
  BY <1>3, SameCalls DEF Take, Work, WorkerTypeOK
<1> QED BY <1>7, <1>8, SameRows DEF Take, World, Plans

LEMMA LoseTyped ==
    ASSUME Typed, NEW x, Lose(x)
    PROVE  Typed'
<1> USE DEF Typed, handlerVars, planVars, worldVars, ghostVars, connVars, Elsewhere
<1>1. x \in Job /\ Drilldown \subseteq Job
  BY ConnectorsAssumption DEF ExtractJob, Lose
<1>2. WorkerTypeOK(Place)' /\ \A i \in Job : phase'[i] = "absent" <=> phase[i] = "absent"
  BY <1>1, TakeBackType DEF Lose, Work
<1>3. UNCHANGED handlerVars
  BY DEF Lose, TakeBack
<1>4. Work'
  BY <1>1, <1>2, <1>3 DEF Lose, Work, Handling
<1>5. Calls'
  BY <1>3, SameCalls DEF Lose
<1> QED BY <1>4, <1>5, SameRows DEF Lose, World, Plans

LEMMA FinishTyped ==
    ASSUME Typed, NEW w \in Worker, Finish(w)
    PROVE  Typed'
<1> USE DEF Typed, handlerVars, planVars, worldVars, ghostVars, Elsewhere
<1>1. Drilldown \subseteq Job
  BY ConnectorsAssumption DEF ExtractJob
<1>2. WorkerTypeOK(Place)' /\ \A i \in Job : phase'[i] = "absent" <=> phase[i] = "absent"
  BY ReportType DEF Finish, Work
<1>3. /\ pc' = [pc EXCEPT ![w] = "idle"] /\ job' = [job EXCEPT ![w] = Null]
      /\ attempt' = [attempt EXCEPT ![w] = 0] /\ pc[w] \in Outcome
  BY DEF Finish, Report
<1>4. attempt' \in [Worker -> Nat] /\ Handling'
  BY <1>3 DEF Work, Handling, WorkerTypeOK
<1>5. Work'
  BY <1>1, <1>2, <1>4 DEF Finish, Work
<1>6. Calls'
  BY <1>3, SameCalls DEF Finish, Work, WorkerTypeOK, Outcome
<1> QED BY <1>5, <1>6, SameRows DEF Finish, World, Plans

LEMMA LoadTyped ==
    ASSUME Typed, NEW w \in Worker, NEW needed, Load(w, needed)
    PROVE  Typed'
<1> USE DEF Typed, planVars, worldVars, ghostVars, connVars, Elsewhere
<1>1. PICK t \in {"start", "raised"} : pc' = [pc EXCEPT ![w] = t]
  BY DEF Load, Goes
<1>2. pc[w] = "load" /\ UNCHANGED <<queueVars, job>>
  BY DEF Load, Goes
<1>3. Work'
  BY <1>1, <1>2, MovesWork DEF Load, Outcome, Place
<1>4. Calls'
  BY <1>1, <1>2, SameCalls DEF Load, Work, WorkerTypeOK
<1> QED BY <1>3, <1>4, SameRows DEF Load, World, Plans

LEMMA StartTyped ==
    ASSUME Typed, NEW w \in Worker, NEW next \in {"ask", "inspect"}, Start(w, next)
    PROVE  Typed'
<1> USE DEF Typed, planVars, worldVars, ghostVars, Elsewhere
<1>1. PICK t \in {"done", "ask", "inspect"} : pc' = [pc EXCEPT ![w] = t]
  BY DEF Start, Goes
<1>2. pc[w] = "start" /\ UNCHANGED <<queueVars, job>>
  BY DEF Start, Goes
<1>3. Work'
  BY <1>1, <1>2, MovesWork DEF Start, Outcome, Place
<1>4. Calls'
  BY <1>1, <1>2, SameCalls DEF Start, Work, WorkerTypeOK
<1>5. Rows'
  <2> DEFINE x == job[w]
             row == [extract[x] EXCEPT !.status = IF @ = "ABSENT" THEN "PENDING" ELSE @]
  <2>1. x \in ExtractJob
    BY <1>2, AtWork
  <2>2. row \in Extract /\ row.points = extract[x].points
        /\ (row.status = "COMPLETE" <=> extract[x].status = "COMPLETE")
    BY <2>1 DEF Rows, Extract
  <2>3. extract' = [extract EXCEPT ![x] = row] /\ conn' = conn
    BY DEF Start
  <2> HIDE DEF x, row
  <2> QED BY <2>1, <2>2, <2>3 DEF Rows
<1> QED BY <1>3, <1>4, <1>5 DEF Start, World, Plans

\* A handler has been answered.
LEMMA AnsweredTyped ==
    ASSUME Typed, NEW w \in Worker, NEW a \in Answer, Answered(w, a),
           pc[w] # "idle", pc' = [pc EXCEPT ![w] = "write"],
           UNCHANGED <<queueVars, job, conn, extract, attempt, probing, Elsewhere>>
    PROVE  Typed'
<1> USE DEF Typed, planVars, worldVars, ghostVars, Elsewhere
<1>1. Work'
  BY MovesWork DEF Outcome, Place
<1>2. grant[Of(w)] \in Grant
  BY AtWork DEF World
<1>3. Calls'
  BY <1>2, AnsweredCalls DEF Work, WorkerTypeOK, Caller
<1> QED BY <1>1, <1>3, SameRows DEF World, Plans

LEMMA AskTyped ==
    ASSUME Typed, NEW w \in Worker, NEW answers \in SUBSET Answer, Ask(w, answers)
    PROVE  Typed'
<1>1. PICK a \in Answer : Answered(w, a)
  BY DEF Ask
<1> QED BY <1>1, AnsweredTyped DEF Ask, Goes

LEMMA InspectTyped ==
    ASSUME Typed, NEW w \in Worker, Inspect(w)
    PROVE  Typed'
<1>1. pc[w] = "inspect"
  BY DEF Inspect, Goes
<1>2. On(w) \in Connection
  BY <1>1, AtWork DEF Typed
<1>3. Asked(On(w), GAMInspected(On(w))) \subseteq Answer
  BY <1>2, ExchangedAnswer, ChecksAnswer
<1>4. CASE Goes(w, "inspect", "ask") /\ UNCHANGED <<answer, ghostVars>>
  <2> USE DEF Typed, planVars, worldVars, ghostVars, Elsewhere
  <2>1. Work'
    BY <1>4, MovesWork DEF Inspect, Goes, Outcome, Place
  <2>2. Calls'
    BY <1>4, SameCalls DEF Inspect, Goes, Work, WorkerTypeOK
  <2> QED BY <2>1, <2>2, SameRows DEF Inspect, World, Plans
<1>5. CASE ~(Goes(w, "inspect", "ask") /\ UNCHANGED <<answer, ghostVars>>)
  <2>1. PICK a \in Answer : Goes(w, "inspect", "write") /\ Answered(w, a)
    BY <1>3, <1>5 DEF Inspect
  <2> QED BY <2>1, AnsweredTyped DEF Inspect, Goes
<1> QED BY <1>4, <1>5

\* A handler writes what it learnt, or breaks off before.
LEMMA WriteTyped ==
    ASSUME Typed, NEW w \in Worker, Complete(w) \/ Fail(w) \/ Break(w)
    PROVE  Typed'
<1> USE DEF Typed, planVars, worldVars, ghostVars, Elsewhere
<1>1. PICK t \in Outcome : pc' = [pc EXCEPT ![w] = t]
  BY DEF Complete, Fail, Break, Goes, Outcome
<1>2. pc[w] # "idle" /\ UNCHANGED <<queueVars, job, attempt, probing, Elsewhere>>
  BY DEF Complete, Fail, Break, Goes, Place
<1>3. Work'
  BY <1>1, <1>2, MovesWork
<1>4. /\ job[w] \in ExtractJob /\ On(w) \in Connection
      /\ attempt[w] \in 1 .. MaxAttempts[job[w]] /\ MaxAttempts[job[w]] \in Nat
  BY <1>2, AtWork
<1>5. pc'[w] # "write" /\ \A x \in Worker \ {w} : pc'[x] = pc[x]
  BY <1>1 DEF Outcome, Work, WorkerTypeOK
<1>6. Calls'
  <2>1. CASE \E affects : Writes(w, On(w), affects)
    BY <1>2, <1>4, <1>5, <2>1, WritesCalls DEF Caller
  <2>2. CASE answer[w] = Null /\ UNCHANGED <<answer, ghostVars>>
    BY <1>2, <1>5, <2>2, SameCalls DEF Calls
  <2> QED BY <2>1, <2>2 DEF Complete, Fail, Break
<1>7. Rows'
  <2>1. CASE Complete(w)
    <3> DEFINE x == job[w]
               row == [status |-> "COMPLETE", points |-> {<<attempt[w], report[On(w)]>>}]
    <3>1. row \in Extract /\ row.points \subseteq (1 .. MaxAttempts[x]) \X SavedReport /\ row.points # {}
      BY <1>4 DEF Extract, World
    <3>2. extract' = extract \/ extract' = [extract EXCEPT ![x] = row]
      BY <2>1 DEF Complete
    <3>3. row.status = "COMPLETE"
      OBVIOUS
    <3>4. conn' \in [Connection -> Snapshot]
      BY <1>4, <2>1 DEF Complete, Rows, Snapshot, Status
    <3> HIDE DEF x, row
    <3> QED BY <3>1, <3>2, <3>3, <3>4 DEF Rows
  <2>2. CASE Fail(w)
    <3>1. conn' \in [Connection -> Snapshot]
      BY <1>4, <2>2 DEF Fail, Rows, Snapshot, Status, StatusAfter
    <3>2. extract' = Failed(job[w])
      BY <2>2 DEF Fail
    <3> QED BY <1>4, <3>1, <3>2 DEF Rows, Failed, Extract
  <2>3. CASE Break(w)
    BY <2>3, SameRows DEF Break
  <2> QED BY <2>1, <2>2, <2>3
<1> QED BY <1>2, <1>3, <1>6, <1>7 DEF World, Plans
------------------------------------------------------------------------------
(* What a step may be, whatever the provider.                                *)

ConnectionStep(c) ==
    \/ Regrant(c) \/ Edit(c) \/ Registered(c) \/ Probe(c)
    \/ \E answers \in SUBSET Answer : /\ RefusesForGrant => Permits(answers)
                                      /\ Probed(c, answers)
    \/ \E usable \in SUBSET SUBSET Capability : Validated(c, usable)

HandlerStep(w) ==
    \/ \E x \in ExtractJob : Take(w, x)
    \/ Complete(w) \/ Fail(w) \/ Break(w) \/ Finish(w) \/ Inspect(w)
    \/ \E needed \in Capability : Load(w, needed)
    \/ \E next \in {"ask", "inspect"} : Start(w, next)
    \/ \E answers \in SUBSET Answer :
          /\ RefusesForGrant => \A a \in answers : Fits(a, grant[On(w)])
          /\ Ask(w, answers)

Steps ==
    \/ \E c \in Connection : ConnectionStep(c)
    \/ NextDay
    \/ \E x \in Routine, p \in Provider : Scheduled(x, p)
    \/ \E q \in Requester : Count(q) \/ Insert(q) \/ \E d \in Drilldown : Request(q, d)
    \/ \E x \in ExtractJob : Lose(x)
    \/ \E w \in Worker : HandlerStep(w)

\* The three extracts and drill-downs of a handler differ in what they ask.
LEMMA ExtractSteps ==
    ASSUME Typed, NEW w \in Worker,
           \/ GA4Extract(w) \/ GSCExtract(w) \/ GAMExtract(w)
           \/ GA4Drilldown(w) \/ GSCDrilldown(w) \/ GAMDrilldown(w)
    PROVE  HandlerStep(w)
<1>1. CASE \/ Load(w, "ROUTINE") \/ Load(w, "DRILLDOWN")
           \/ Start(w, "ask") \/ Start(w, "inspect") \/ Inspect(w)
  BY <1>1 DEF HandlerStep, Capability
<1>2. CASE \E answers \in {GA4Answers, GSCAnswers, GAMAnswers} :
              Ask(w, Asked(On(w), answers)) \/ Ask(w, Exchanged(On(w), answers))
  <2>1. PICK answers \in {GA4Answers, GSCAnswers, GAMAnswers} :
              Ask(w, Asked(On(w), answers)) \/ Ask(w, Exchanged(On(w), answers))
    BY <1>2
  <2>2. answers \subseteq Answer /\ (RefusesForGrant => Permits(answers))
    BY AnswersAssumption, ChecksPermit
  <2>3. On(w) \in Connection
    <3>1. pc[w] # "idle"
      BY <2>1 DEF Ask, Goes
    <3> QED BY <3>1, AtWork DEF Typed
  <2>4. Asked(On(w), answers) \in SUBSET Answer /\ Exchanged(On(w), answers) \in SUBSET Answer
    BY <2>2, <2>3, ExchangedAnswer
  <2>5. ASSUME RefusesForGrant
        PROVE  /\ \A a \in Asked(On(w), answers) : Fits(a, grant[On(w)])
               /\ \A a \in Exchanged(On(w), answers) : Fits(a, grant[On(w)])
    BY <2>2, <2>3, <2>5, AskedFits DEF Typed, World
  <2> QED BY <2>1, <2>4, <2>5 DEF HandlerStep
<1> QED BY <1>1, <1>2
     DEF GA4Extract, GSCExtract, GAMExtract, GA4Drilldown, GSCDrilldown, GAMDrilldown

LEMMA NextSteps ==
    ASSUME Typed, Next
    PROVE  Steps
<1>1. ASSUME NEW c \in Connection,
             \/ Regrant(c) \/ Edit(c) \/ GA4Register(c) \/ GSCRegister(c) \/ GAMRegister(c)
             \/ GA4Validate(c) \/ GSCValidate(c) \/ GAMValidate(c)
      PROVE  ConnectionStep(c)
  <2>1. CASE \E answers \in {GA4Checked, GSCChecked, GAMChecked(c)} : Probed(c, answers)
    BY <2>1, ChecksAnswer, ChecksPermit DEF ConnectionStep
  <2>2. CASE \E usable \in {{{"ROUTINE"}, Capability}, {Capability}} : Validated(c, usable)
    BY <2>2 DEF ConnectionStep, Capability
  <2>3. CASE Regrant(c) \/ Edit(c) \/ Registered(c) \/ Probe(c)
    BY <2>3 DEF ConnectionStep
  <2> QED BY <1>1, <2>1, <2>2, <2>3
       DEF GA4Register, GSCRegister, GAMRegister, GA4Validate, GSCValidate, GAMValidate
<1>2. ASSUME NEW x \in Routine, GA4Schedule(x) \/ GSCSchedule(x) \/ GAMSchedule(x)
      PROVE  \E p \in Provider : Scheduled(x, p)
  BY <1>2 DEF GA4Schedule, GSCSchedule, GAMSchedule, Provider
<1>3. ASSUME NEW w \in Worker, NEW x \in ExtractJob,
             GA4Job(w, x) \/ GSCJob(w, x) \/ GAMJob(w, x) \/ DrilldownJob(w, x)
      PROVE  HandlerStep(w)
  BY <1>3 DEF GA4Job, GSCJob, GAMJob, DrilldownJob, Handler, HandlerStep
<1>4. ASSUME NEW w \in Worker, Complete(w) \/ Fail(w)
      PROVE  HandlerStep(w)
  BY <1>4 DEF HandlerStep
<1> QED BY <1>1, <1>2, <1>3, <1>4, ExtractSteps DEF Next, Steps

LEMMA StepsTyped ==
    ASSUME Typed, Budget, Steps
    PROVE  Typed'
<1>1. ASSUME NEW c \in Connection, ConnectionStep(c)
      PROVE  Typed'
  BY <1>1, WorldTyped, ValidationTyped DEF ConnectionStep
<1>2. CASE NextDay
  BY <1>2, NextDayTyped
<1>3. ASSUME NEW x \in Routine, NEW p \in Provider, Scheduled(x, p)
      PROVE  Typed'
  BY <1>3, ScheduledTyped
<1>4. ASSUME NEW q \in Requester, Count(q) \/ Insert(q) \/ \E d \in Drilldown : Request(q, d)
      PROVE  Typed'
  BY <1>4, PlanningTyped
<1>5. ASSUME NEW w \in Worker, HandlerStep(w)
      PROVE  Typed'
  BY <1>5, TakeTyped, FinishTyped, LoadTyped, StartTyped, AskTyped, InspectTyped, WriteTyped
  DEF HandlerStep
<1> QED BY <1>1, <1>2, <1>3, <1>4, <1>5, LoseTyped DEF Steps
------------------------------------------------------------------------------
(* The budgets.                                                              *)

LEMMA SameBudget ==
    ASSUME Budget, UNCHANGED planVars
    PROVE  Budget'
BY DEF Budget, Planned, Room, At, OfInvestigation, Since, WithinBudget, planVars

\* Nothing is inserted, and who has counted before stays so: or has counted now.
LEMMA PlansBudget ==
    ASSUME Budget, UNCHANGED planned,
           \A r \in Requester : plan'[r] # Idle => plan'[r] \in Plan /\ plan'[r].today <= day',
           \A r \in Requester : plan'[r].begun # 0 => Room(r)',
           \A r, s \in Requester : r # s /\ plan'[r].begun # 0 /\ plan'[s].begun # 0 =>
               ConnectionOf[plan'[r].drilldown] # ConnectionOf[plan'[s].drilldown]
    PROVE  Budget'
BY DEF Budget, Planned, At, OfInvestigation, WithinBudget

LEMMA RoomStays ==
    ASSUME NEW q \in Requester, Room(q), UNCHANGED planned, plan'[q] = plan[q],
           day' \in Nat, day \in Nat, day' >= day, plan[q].today \in Nat
    PROVE  Room(q)'
BY DEF Room, OfInvestigation, Since

LEMMA RoomKept ==
    ASSUME NEW q \in Requester, Room(q), UNCHANGED <<planned, day>>, plan'[q] = plan[q]
    PROVE  Room(q)'
BY DEF Room, OfInvestigation, Since

LEMMA NextDayBudget ==
    ASSUME Typed, Budget, NextDay
    PROVE  Budget'
<1>1. day' = day + 1 /\ UNCHANGED <<plan, planned>> /\ day \in Nat
  BY ConnectorsAssumption DEF NextDay, Typed, Plans
<1>2. \A q \in Requester : plan[q].begun # 0 => plan[q] # Idle
  BY DEF Idle
<1>3. \A q \in Requester : plan[q] # Idle => plan[q].today \in Nat
  BY ConnectorsAssumption DEF Budget, Plan
<1>4. \A q \in Requester : plan'[q] # Idle => plan'[q] \in Plan /\ plan'[q].today <= day'
  BY <1>1, <1>3 DEF Budget
<1>5. \A q \in Requester : plan'[q].begun # 0 => Room(q)'
  BY <1>1, <1>2, <1>3, RoomStays DEF Budget
<1> QED BY <1>1, <1>4, <1>5, PlansBudget DEF Budget, At

LEMMA RequestBudget ==
    ASSUME Typed, Budget, NEW q \in Requester, NEW d \in Drilldown, Request(q, d)
    PROVE  Budget'
<1>1. /\ plan' = [plan EXCEPT ![q] = [drilldown |-> d, today |-> day, begun |-> 0]]
      /\ UNCHANGED <<planned, day>> /\ plan[q] = Idle
  BY DEF Request
<1>2. [drilldown |-> d, today |-> day, begun |-> 0] \in Plan /\ day <= day
  BY ConnectorsAssumption DEF Typed, Plans, Plan
<1>3. \A r \in Requester : plan'[r] # Idle => plan'[r] \in Plan /\ plan'[r].today <= day'
  BY <1>1, <1>2 DEF Budget, Typed, Plans
<1>4. \A r \in Requester : plan'[r].begun # 0 => r # q /\ plan'[r] = plan[r]
  BY <1>1 DEF Typed, Plans
<1>5. \A r \in Requester : plan'[r].begun # 0 => Room(r)'
  BY <1>1, <1>4, RoomKept DEF Budget
<1> QED BY <1>1, <1>3, <1>4, <1>5, PlansBudget DEF Budget, At

\* The lock is free, so that no planner at the connection has counted.
LEMMA CountBudget ==
    ASSUME Typed, Budget, NEW q \in Requester, Count(q)
    PROVE  Budget'
<1> DEFINE d == plan[q].drilldown
<1>1. /\ plan[q] # Idle /\ plan[q].begun = 0 /\ ~Locked(ConnectionOf[d])
      /\ UNCHANGED <<planned, day>>
  BY DEF Count, Counted
<1>2. plan[q] \in Plan /\ plan[q].today <= day /\ d \in Drilldown
  BY <1>1 DEF Budget, Plan
<1>3. PICK begun \in plan[q].today .. day :
         plan' = [plan EXCEPT ![q] = IF Allowed(@.drilldown, @.today)
                                     THEN [@ EXCEPT !.begun = begun] ELSE Idle]
  BY DEF Count, Counted
<1>4. CASE ~Allowed(d, plan[q].today)
  <2>1. plan' = [plan EXCEPT ![q] = Idle]
    BY <1>3, <1>4
  <2>2. \A r \in Requester : plan'[r] # Idle => r # q /\ plan'[r] = plan[r]
    BY <2>1 DEF Typed, Plans
  <2>3. \A r \in Requester : plan'[r].begun # 0 => r # q /\ plan'[r] = plan[r]
    BY <2>1, <2>2 DEF Idle
  <2>4. \A r \in Requester : plan'[r].begun # 0 => Room(r)'
    BY <1>1, <2>3, RoomKept DEF Budget
  <2> QED BY <1>1, <2>2, <2>3, <2>4, PlansBudget DEF Budget, At
<1>5. CASE Allowed(d, plan[q].today)
  <2> DEFINE row == [plan[q] EXCEPT !.begun = begun]
  <2>1. plan' = [plan EXCEPT ![q] = row]
    BY <1>3, <1>5
  <2>2. row \in Plan /\ row.drilldown = d /\ row.today = plan[q].today /\ row.begun = begun
    BY <1>2, ConnectorsAssumption DEF Typed, Plans, Plan
  <2>3. /\ planned[d] = 0
        /\ Cardinality(OfInvestigation(d)) < MaxPerInvestigation
        /\ Cardinality(Since(plan[q].today, d)) < MaxPerDay
    BY <1>2, <1>5 DEF Allowed, Typed, Work
  <2>4. \A r \in Requester : plan[r].begun # 0 => ConnectionOf[plan[r].drilldown] # ConnectionOf[d]
    BY <1>1 DEF Locked
  <2> HIDE DEF row, d
  <2>5. plan'[q] = row /\ \A r \in Requester : r # q => plan'[r] = plan[r]
    BY <2>1 DEF Typed, Plans
  <2>6. \A r \in Requester : plan'[r] # Idle => plan'[r] \in Plan /\ plan'[r].today <= day'
    BY <1>1, <1>2, <2>2, <2>5 DEF Budget
  <2>7. \A r \in Requester : plan'[r].begun # 0 => Room(r)'
    <3>1. Room(q)'
      BY <1>1, <2>2, <2>3, <2>5 DEF Room, OfInvestigation, Since
    <3> QED BY <1>1, <2>5, <3>1, RoomKept DEF Budget
  <2>8. \A r, s \in Requester : r # s /\ plan'[r].begun # 0 /\ plan'[s].begun # 0 =>
           ConnectionOf[plan'[r].drilldown] # ConnectionOf[plan'[s].drilldown]
    BY <2>2, <2>4, <2>5 DEF Budget, At
  <2> QED BY <1>1, <2>6, <2>7, <2>8, PlansBudget
<1> QED BY <1>4, <1>5

\* One more of the investigation, and one more of the day: there was room for both.
LEMMA InsertBudget ==
    ASSUME Typed, Budget, NEW q \in Requester, Insert(q)
    PROVE  Budget'
<1> DEFINE d == plan[q].drilldown
           begun == plan[q].begun
<1>1. /\ begun # 0 /\ planned' = [planned EXCEPT ![d] = begun]
      /\ plan' = [plan EXCEPT ![q] = Idle] /\ UNCHANGED day
  BY DEF Insert
<1>2. plan[q] # Idle
  BY <1>1 DEF Idle
<1>3. /\ d \in Drilldown /\ plan[q].today \in Nat /\ day \in Nat /\ Room(q)
      /\ begun \in plan[q].today .. day
  BY <1>1, <1>2, ConnectorsAssumption DEF Budget, Typed, Plans, Plan, Room
<1>4. /\ planned[d] = 0
      /\ Cardinality(OfInvestigation(d)) < MaxPerInvestigation
      /\ Cardinality(Since(plan[q].today, d)) < MaxPerDay
  BY <1>3 DEF Room
<1> HIDE DEF d, begun
<1>5. planned'[d] = begun /\ \A e \in Drilldown : e # d => planned'[e] = planned[e]
  BY <1>1, <1>3 DEF Typed, Plans
<1>6. Planned' = Planned \cup {d} /\ IsFiniteSet(Planned')
  <2>1. Planned' = Planned \cup {d}
    BY <1>1, <1>3, <1>5 DEF Planned
  <2> QED BY <2>1, FS_AddElement DEF Budget
<1>7. \A r \in Requester : plan'[r] # Idle => r # q /\ plan'[r] = plan[r]
  BY <1>1 DEF Typed, Plans
<1>8. \A r \in Requester : plan'[r].begun # 0 => r # q /\ plan'[r] = plan[r]
  BY <1>1, <1>7 DEF Idle
<1>9. ASSUME NEW r \in Requester, plan'[r].begun # 0
      PROVE  Room(r)'
  <2>1. r # q /\ plan'[r] = plan[r] /\ Room(r)
    BY <1>8, <1>9 DEF Budget
  <2>2. ConnectionOf[plan[r].drilldown] # ConnectionOf[d]
    BY <1>1, <1>9, <2>1 DEF Budget, At, d, begun
  <2>3. \A e, t : ConnectionOf[e] # ConnectionOf[d] =>
           OfInvestigation(e)' = OfInvestigation(e) /\ Since(t, e)' = Since(t, e)
    BY <1>3, <1>5 DEF OfInvestigation, Since
  <2>4. plan[r].drilldown \in Drilldown /\ plan[r].drilldown # d
    <3>1. plan[r] # Idle
      BY <1>9, <2>1 DEF Idle
    <3> QED BY <2>2, <3>1 DEF Budget, Plan
  <2>5. PICK e, t : e = plan[r].drilldown /\ t = plan[r].today
    OBVIOUS
  <2>6. Room(r)' <=> /\ plan'[r].begun \in t .. day'
                     /\ planned'[e] = 0
                     /\ Cardinality(OfInvestigation(e)') < MaxPerInvestigation
                     /\ Cardinality(Since(t, e)') < MaxPerDay
    BY <2>1, <2>5 DEF Room, OfInvestigation, Since
  <2> QED BY <1>1, <1>5, <2>1, <2>2, <2>3, <2>4, <2>5, <2>6 DEF Room
<1>10. WithinBudget'
  <2> DEFINE Ofday(e) == {i \in Drilldown : ConnectionOf[i] = ConnectionOf[e] /\ planned[i] = planned[e]}
  <2> SUFFICES ASSUME NEW e \in Drilldown, planned'[e] # 0
               PROVE  /\ Cardinality(OfInvestigation(e)') <= MaxPerInvestigation
                      /\ Cardinality(Ofday(e)') <= MaxPerDay
    BY DEF WithinBudget
  <2>1. \A S \in SUBSET Planned : IsFiniteSet(S) /\ Cardinality(S) \in Nat
                                /\ IsFiniteSet(S \cup {d}) /\ Cardinality(S \cup {d}) \in Nat
                                /\ Cardinality(S \cup {d}) <= Cardinality(S) + 1
    BY FS_Subset, FS_AddElement, FS_CardinalityType DEF Budget
  <2>2. OfInvestigation(d) \subseteq Planned /\ Since(plan[q].today, d) \subseteq Planned
    BY DEF OfInvestigation, Since, Planned
  <2>3. MaxPerInvestigation \in Nat /\ MaxPerDay \in Nat
    BY ConnectorsAssumption
  <2>4. Cardinality(OfInvestigation(e)') <= MaxPerInvestigation
    <3>1. CASE ConnectionOf[e] = ConnectionOf[d] /\ InvestigationOf[e] = InvestigationOf[d]
      <4>1. OfInvestigation(e)' = OfInvestigation(d) \cup {d}
        BY <1>1, <1>3, <1>5, <3>1 DEF OfInvestigation
      <4> QED BY <1>4, <2>1, <2>2, <2>3, <4>1
    <3>2. CASE ~(ConnectionOf[e] = ConnectionOf[d] /\ InvestigationOf[e] = InvestigationOf[d])
      <4>1. OfInvestigation(e)' = OfInvestigation(e) /\ e # d
        BY <1>3, <1>5, <3>2 DEF OfInvestigation
      <4> QED BY <1>5, <4>1 DEF Budget, WithinBudget
    <3> QED BY <3>1, <3>2
  <2>5. Cardinality(Ofday(e)') <= MaxPerDay
    <3>1. CASE ConnectionOf[e] = ConnectionOf[d] /\ planned'[e] = begun
      <4> DEFINE before == {i \in Drilldown \ {d} : ConnectionOf[i] = ConnectionOf[d] /\ planned[i] = begun}
      <4>1. Ofday(e)' = before \cup {d}
        BY <1>1, <1>3, <1>5, <3>1
      <4>2. before \subseteq Since(plan[q].today, d) /\ before \subseteq Planned
        BY <1>1, <1>3 DEF Since, Planned
      <4>3. Cardinality(before) <= Cardinality(Since(plan[q].today, d))
        BY <2>1, <2>2, <4>2, FS_Subset
      <4> HIDE DEF before, Ofday
      <4>4. Cardinality(before) \in Nat /\ Cardinality(before \cup {d}) <= Cardinality(before) + 1
            /\ Cardinality(before \cup {d}) \in Nat /\ Cardinality(Since(plan[q].today, d)) \in Nat
        BY <2>1, <2>2, <4>2, FS_CardinalityType
      <4> QED BY <1>4, <2>3, <4>1, <4>3, <4>4
    <3>2. CASE ~(ConnectionOf[e] = ConnectionOf[d] /\ planned'[e] = begun)
      <4>1. e # d /\ Ofday(e)' = Ofday(e)
        BY <1>1, <1>3, <1>4, <1>5, <3>2
      <4> QED BY <1>5, <4>1 DEF Budget, WithinBudget
    <3> QED BY <3>1, <3>2
  <2> QED BY <2>4, <2>5
<1>11. \A r \in Requester : plan'[r] # Idle => plan'[r] \in Plan /\ plan'[r].today <= day'
  BY <1>1, <1>7 DEF Budget
<1>12. \A r, s \in Requester : r # s /\ plan'[r].begun # 0 /\ plan'[s].begun # 0 => At(r)' # At(s)'
  BY <1>8 DEF Budget, At
<1> QED BY <1>6, <1>9, <1>10, <1>11, <1>12 DEF Budget

LEMMA StepsBudget ==
    ASSUME Typed, Budget, Steps
    PROVE  Budget'
<1>1. CASE UNCHANGED planVars
  BY <1>1, SameBudget
<1>2. CASE NextDay
  BY <1>2, NextDayBudget
<1>3. CASE \E q \in Requester : Count(q) \/ Insert(q) \/ \E d \in Drilldown : Request(q, d)
  BY <1>3, CountBudget, InsertBudget, RequestBudget
<1>4. ASSUME NEW c \in Connection, ConnectionStep(c)
      PROVE  UNCHANGED planVars
  BY <1>4 DEF ConnectionStep, Regrant, Edit, Registered, Probe, Probed, Validated
<1>5. ASSUME NEW w \in Worker, HandlerStep(w)
      PROVE  UNCHANGED planVars
  BY <1>5 DEF HandlerStep, Take, Complete, Fail, Break, Finish, Inspect, Load, Start, Ask, Elsewhere
<1> QED BY <1>1, <1>2, <1>3, <1>4, <1>5 DEF Steps, Scheduled, Lose, Elsewhere
------------------------------------------------------------------------------
(* What the status tells.                                                    *)

\* Nothing is answered or written.
LEMMA SameStatus ==
    ASSUME Fitting, Telling, UNCHANGED <<conn, answer, ghostVars>>
    PROVE  Fitting' /\ Telling'
BY DEF Fitting, Telling, Shows, ghostVars

\* A caller is answered as the grant has it.
LEMMA AnsweredStatus ==
    ASSUME Typed, Fitting, Telling, NEW k \in Caller, NEW a \in Answer, Answered(k, a),
           Fits(a, grant[Of(k)]), UNCHANGED conn
    PROVE  Fitting' /\ Telling'
<1>1. answer' = [answer EXCEPT ![k] = a] /\ asked' = [asked EXCEPT ![k] = grant[Of(k)]] /\ told' = told
  BY DEF Answered
<1>2. ASSUME NEW i \in Caller, answer'[i] # Null PROVE Fits(answer'[i], asked'[i])
  <2>1. /\ answer'[i] = IF i = k THEN a ELSE answer[i]
        /\ asked'[i] = IF i = k THEN grant[Of(k)] ELSE asked[i]
    BY <1>1 DEF Typed, Calls
  <2> QED BY <1>2, <2>1 DEF Fitting
<1> QED BY <1>1, <1>2 DEF Fitting, Telling, Fits, Shows

\* A caller writes what it was told, whatever the grant is by now.
LEMMA WritesStatus ==
    ASSUME Typed, Fitting, Telling, NEW k \in Caller, answer[k] # Null, NEW c \in Connection,
           NEW affects, Writes(k, c, affects),
           \A d \in Connection : d # c \/ ~affects => conn'[d] = conn[d],
           affects => conn'[c].status = IF answer[k] = Success THEN "CONNECTED"
                                        ELSE StatusAfter(answer[k].code)
    PROVE  Fitting' /\ Telling'
<1>1. /\ answer' = [answer EXCEPT ![k] = Null] /\ asked' = [asked EXCEPT ![k] = Null]
      /\ told' = IF affects THEN [told EXCEPT ![c] = asked[k]] ELSE told
  BY DEF Writes
<1>2. ASSUME NEW i \in Caller, answer'[i] # Null PROVE Fits(answer'[i], asked'[i])
  <2>1. i # k /\ answer'[i] = answer[i] /\ asked'[i] = asked[i]
    BY <1>1, <1>2 DEF Typed, Calls
  <2> QED BY <1>2, <2>1 DEF Fitting
<1>3. Fits(answer[k], asked[k])
  BY DEF Fitting
<1>4. ASSUME affects PROVE Shows(conn'[c].status, asked[k])
  BY <1>3, <1>4, ErrorsAnswer DEF Fits, Shows, StatusAfter
<1>5. ASSUME NEW d \in Connection, told'[d] # Null PROVE Shows(conn'[d].status, told'[d])
  <2>1. CASE affects /\ d = c
    BY <1>1, <1>4, <2>1 DEF Typed, Calls
  <2>2. CASE ~(affects /\ d = c)
    <3>1. told'[d] = told[d] /\ conn'[d] = conn[d]
      BY <1>1, <2>2 DEF Typed, Calls
    <3> QED BY <1>5, <3>1 DEF Telling
  <2> QED BY <2>1, <2>2
<1> QED BY <1>2, <1>5 DEF Fitting, Telling, Fits, Shows

LEMMA ConnectionStatus ==
    ASSUME Typed, Fitting, Telling, RefusesForGrant, NEW c \in Connection, ConnectionStep(c)
    PROVE  Fitting' /\ Telling'
<1> USE DEF handlerVars, connVars, worldVars, ghostVars
<1>1. Of(c) = c /\ c \in Caller
  BY DEF Of, Caller
<1>2. CASE Regrant(c) \/ Edit(c) \/ Probe(c)
  BY <1>2, SameStatus DEF Regrant, Edit, Probe
<1>3. CASE Registered(c)
  <2>1. Fitting'
    BY <1>3 DEF Registered, Fitting, Fits
  <2>2. \A d \in Connection : d # c => conn'[d] = conn[d]
    BY <1>3 DEF Registered, Typed, Rows
  <2>3. conn[c].status = "ABSENT" /\ conn'[c].status = "PENDING" /\ UNCHANGED told
    BY <1>3 DEF Registered, Typed, Rows, Snapshot
  <2>4. ASSUME NEW d \in Connection, told[d] # Null PROVE Shows(conn'[d].status, told[d])
    BY <2>2, <2>3, <2>4 DEF Telling, Shows
  <2> QED BY <2>1, <2>3, <2>4 DEF Telling, Shows
<1>4. ASSUME NEW answers \in SUBSET Answer, Permits(answers), Probed(c, answers)
      PROVE  Fitting' /\ Telling'
  <2>1. PICK a \in Asked(c, answers) : Answered(c, a)
    BY <1>4 DEF Probed
  <2>2. a \in Answer /\ Fits(a, grant[c])
    BY <1>4, <2>1, ExchangedAnswer, AskedFits DEF Typed, World
  <2> QED BY <1>1, <1>4, <2>1, <2>2, AnsweredStatus DEF Probed
<1>5. ASSUME NEW usable \in SUBSET SUBSET Capability, Validated(c, usable)
      PROVE  Fitting' /\ Telling'
  <2>1. /\ \A d \in Connection : d # c => conn'[d] = conn[d]
        /\ conn'[c].status = IF answer[c] = Success THEN "CONNECTED"
                             ELSE StatusAfter(answer[c].code)
    BY <1>5 DEF Validated, Typed, Rows, Snapshot
  <2>2. Writes(c, c, TRUE) /\ answer[c] # Null
    BY <1>5 DEF Validated, Typed, Calls
  <2> QED BY <1>1, <2>1, <2>2, WritesStatus
<1> QED BY <1>2, <1>3, <1>4, <1>5 DEF ConnectionStep

LEMMA HandlerStatus ==
    ASSUME Typed, Fitting, Telling, RefusesForGrant, NEW w \in Worker, HandlerStep(w)
    PROVE  Fitting' /\ Telling'
<1> USE DEF worldVars, Elsewhere
<1>1. w \in Caller
  BY DEF Caller
<1>2. CASE \/ \E x \in ExtractJob : Take(w, x)
           \/ Finish(w)
           \/ \E needed \in Capability : Load(w, needed)
           \/ \E next \in {"ask", "inspect"} : Start(w, next)
  BY <1>2, SameStatus DEF Take, Finish, Load, Start, connVars
<1>3. ASSUME NEW answers \in SUBSET Answer, \A a \in answers : Fits(a, grant[On(w)]), Ask(w, answers)
      PROVE  Fitting' /\ Telling'
  <2>1. PICK a \in answers : Answered(w, a)
    BY <1>3 DEF Ask
  <2>2. Of(w) = On(w)
    BY <1>3, AtWork DEF Ask, Goes, Typed
  <2> QED BY <1>1, <1>3, <2>1, <2>2, AnsweredStatus DEF Ask
<1>4. CASE Inspect(w)
  <2> DEFINE answers == Asked(On(w), GAMInspected(On(w)))
  <2>1. Of(w) = On(w) /\ On(w) \in Connection
    BY <1>4, AtWork DEF Inspect, Goes, Typed
  <2>2. \A a \in answers : a \in Answer /\ Fits(a, grant[On(w)])
    BY <2>1, ChecksAnswer, ChecksPermit, ExchangedAnswer, AskedFits DEF Typed, World
  <2>3. CASE UNCHANGED <<answer, ghostVars>>
    BY <1>4, <2>3, SameStatus DEF Inspect
  <2>4. CASE \E a \in answers : Answered(w, a)
    BY <1>1, <1>4, <2>1, <2>2, <2>4, AnsweredStatus DEF Inspect
  <2> QED BY <1>4, <2>3, <2>4 DEF Inspect
<1>5. CASE Complete(w)
  <2> DEFINE first == extract[job[w]].status # "COMPLETE"
  <2>1. Writes(w, On(w), first) /\ answer[w] = Success /\ answer[w] # Null
    BY <1>5, AnswersAssumption, ErrorsAnswer DEF Complete
  <2>2. conn' = IF first THEN [conn EXCEPT ![On(w)].status = "CONNECTED"] ELSE conn
    BY <1>5 DEF Complete
  <2>3. On(w) \in Connection
    BY <1>5, AtWork DEF Complete, Goes, Typed
  <2>4. /\ \A d \in Connection : d # On(w) \/ ~first => conn'[d] = conn[d]
        /\ first => conn'[On(w)].status = "CONNECTED"
    BY <2>2, <2>3 DEF Typed, Rows, Snapshot
  <2> HIDE DEF first
  <2> QED BY <1>1, <2>1, <2>3, <2>4, WritesStatus
<1>6. CASE Fail(w)
  <2> DEFINE affects == Affects(job[w], answer[w].code)
  <2>1. Writes(w, On(w), affects) /\ answer[w] # Success /\ answer[w] # Null
    BY <1>6 DEF Fail
  <2>2. conn' = IF affects THEN [conn EXCEPT ![On(w)].status = StatusAfter(answer[w].code)] ELSE conn
    BY <1>6 DEF Fail
  <2>3. On(w) \in Connection
    BY <1>6, AtWork DEF Fail, Goes, Typed
  <2> HIDE DEF affects
  <2>4. /\ \A d \in Connection : d # On(w) \/ ~affects => conn'[d] = conn[d]
        /\ affects => conn'[On(w)].status = StatusAfter(answer[w].code)
    BY <2>2, <2>3 DEF Typed, Rows, Snapshot
  <2> QED BY <1>1, <2>1, <2>3, <2>4, WritesStatus
<1>7. CASE Break(w)
  <2>1. On(w) \in Connection
    BY <1>7, AtWork DEF Break, Place, Typed
  <2>2. CASE answer[w] = Null
    BY <1>7, <2>2, SameStatus DEF Break
  <2>3. CASE answer[w] # Null
    BY <1>1, <1>7, <2>1, <2>3, WritesStatus DEF Break
  <2> QED BY <2>2, <2>3
<1> QED BY <1>2, <1>3, <1>4, <1>5, <1>6, <1>7 DEF HandlerStep

LEMMA StepsStatus ==
    ASSUME Typed, Fitting, Telling, RefusesForGrant, Steps
    PROVE  Fitting' /\ Telling'
<1>1. CASE NextDay \/ (\E x \in Routine, p \in Provider : Scheduled(x, p))
           \/ (\E q \in Requester : Count(q) \/ Insert(q) \/ \E d \in Drilldown : Request(q, d))
           \/ (\E x \in ExtractJob : Lose(x))
  BY <1>1, SameStatus
  DEF NextDay, Scheduled, Count, Counted, Insert, Request, Lose, connVars
<1> QED BY <1>1, ConnectionStatus, HandlerStatus DEF Steps
------------------------------------------------------------------------------
(* The store of extracts.                                                    *)

\* What readers find changes only when a handler completes an extract.
LEMMA SameReadable ==
    ASSUME Typed, \A x \in ExtractJob : extract'[x] = extract[x]
                     \/ (extract[x].status # "COMPLETE" /\ extract'[x].status # "COMPLETE")
    PROVE  UNCHANGED Readable
BY DEF Readable

LEMMA CompleteStores ==
    ASSUME Typed, NEW w \in Worker, Complete(w)
    PROVE  [Store!Next]_Readable
<1> DEFINE x == job[w]
           points == {<<attempt[w], report[On(w)]>>}
<1>1. x \in ExtractJob /\ attempt[w] \in 1 .. MaxAttempts[x] /\ report[On(w)] \in SavedReport
  <2>1. pc[w] # "idle"
    BY DEF Complete, Goes
  <2> QED BY <2>1, AtWork DEF Typed, World
<1>2. CASE extract[x].status = "COMPLETE"
  BY <1>2 DEF Complete, Readable
<1>3. CASE extract[x].status # "COMPLETE"
  <2>1. extract' = [extract EXCEPT ![x] = [status |-> "COMPLETE", points |-> points]]
    BY <1>3 DEF Complete
  <2>2. Readable[x] = {}
    BY <1>1, <1>3 DEF Readable
  <2>3. /\ \A y \in ExtractJob \ {x} : extract'[y] = extract[y]
        /\ extract'[x].status = "COMPLETE" /\ extract'[x].points = points
    BY <1>1, <2>1 DEF Typed, Rows
  <2>4. points \in OneAnswer
    BY <1>1 DEF OneAnswer
  <2> HIDE DEF x, points
  <2>5. Readable' = [Readable EXCEPT ![x] = points]
    BY <1>1, <2>3 DEF Readable
  <2>6. PICK y : y = x
    OBVIOUS
  <2>7. PICK r : r = points
    OBVIOUS
  <2>8. Readable[y] = {}
    BY <2>2, <2>6
  <2>9. \E a \in OneAnswer : Readable' = [Readable EXCEPT ![y] = a]
    BY <2>4, <2>5, <2>6, <2>7
  <2>10. Store!Store(y)
    BY <2>8, <2>9 DEF Store!Store
  <2> QED BY <1>1, <2>6, <2>10 DEF Store!Next
<1> QED BY <1>2, <1>3

LEMMA StepsStore ==
    ASSUME Typed, Steps
    PROVE  [Store!Next]_Readable
<1> USE DEF handlerVars, connVars, worldVars, planVars, ghostVars, Elsewhere
<1>1. ASSUME UNCHANGED extract PROVE UNCHANGED Readable
  BY <1>1 DEF Readable
<1>2. ASSUME NEW c \in Connection, ConnectionStep(c)
      PROVE  UNCHANGED extract
  BY <1>2 DEF ConnectionStep, Regrant, Edit, Registered, Probe, Probed, Validated
<1>3. ASSUME NEW w \in Worker, HandlerStep(w)
      PROVE  [Store!Next]_Readable
  <2>1. CASE Complete(w)
    BY <2>1, CompleteStores
  <2>2. CASE Fail(w)
    <3>1. extract' = Failed(job[w]) /\ job[w] \in ExtractJob
      <4>1. pc[w] # "idle"
        BY <2>2 DEF Fail, Goes
      <4> QED BY <2>2, <4>1, AtWork DEF Fail, Typed
    <3> QED BY <3>1, SameReadable DEF Failed, Typed, Rows, Extract
  <2>3. ASSUME NEW next \in {"ask", "inspect"}, Start(w, next)
        PROVE  UNCHANGED Readable
    <3>1. extract' = [extract EXCEPT ![job[w]].status = IF @ = "ABSENT" THEN "PENDING" ELSE @]
      BY <2>3 DEF Start
    <3> QED BY <3>1, SameReadable DEF Typed, Rows, Extract
  <2>4. CASE \/ \E x \in ExtractJob : Take(w, x)
             \/ Break(w) \/ Finish(w) \/ Inspect(w)
             \/ \E needed \in Capability : Load(w, needed)
             \/ \E answers \in SUBSET Answer : Ask(w, answers)
    BY <1>1, <2>4 DEF Take, Break, Finish, Inspect, Load, Ask
  <2> QED BY <1>3, <2>1, <2>2, <2>3, <2>4 DEF HandlerStep
<1> QED BY <1>1, <1>2, <1>3
     DEF Steps, NextDay, Scheduled, Count, Counted, Insert, Request, Lose
------------------------------------------------------------------------------
(* The theorems.                                                             *)

LEMMA InitIInv == Init => IInv
<1> SUFFICES ASSUME Init PROVE IInv
  OBVIOUS
<1>1. TypeOK /\ Handling
  BY InitTyped, Parts DEF Typed
<1>2. Budget
  <2>1. Planned = {}
    BY DEF Init, Planned
  <2> QED BY <2>1, FS_EmptySet DEF Init, Budget, Idle, WithinBudget
<1>3. Fitting /\ Telling
  BY DEF Init, Fitting, Telling
<1> QED BY <1>1, <1>2, <1>3 DEF IInv

LEMMA NextIInv == IInv /\ [Next]_vars => IInv'
<1> SUFFICES ASSUME IInv, [Next]_vars PROVE IInv'
  OBVIOUS
<1>1. Typed
  BY Parts DEF IInv, Typed
<1>2. CASE Next
  <2>1. Steps
    BY <1>1, <1>2, NextSteps
  <2>2. Typed' /\ Budget'
    BY <1>1, <2>1, StepsTyped, StepsBudget DEF IInv
  <2>3. RefusesForGrant => Fitting' /\ Telling'
    BY <1>1, <2>1, StepsStatus DEF IInv
  <2>4. TypeOK' /\ Handling'
    BY <2>2, Parts, PTL DEF Typed
  <2> QED BY <2>2, <2>3, <2>4 DEF IInv, RefusesForGrant
<1>3. CASE UNCHANGED vars
  <2> USE <1>3 DEF vars, queueVars, handlerVars, connVars, worldVars, planVars, ghostVars
  <2>1. Typed'
    BY <1>1, SameWork, SameCalls, SameRows DEF Typed, World, Plans
  <2>2. TypeOK' /\ Handling'
    BY <2>1, Parts, PTL DEF Typed
  <2>3. Budget' /\ (RefusesForGrant => Fitting' /\ Telling')
    BY <1>1, SameBudget, SameStatus DEF IInv
  <2> QED BY <2>2, <2>3 DEF IInv, RefusesForGrant
<1> QED BY <1>2, <1>3

\* The inductive invariant holds.
THEOREM ConnectorsInvariant == Spec => []IInv
BY InitIInv, NextIInv, PTL DEF Spec

\* Every variable keeps its type; a handler or a validation writes exactly when it
\* has been answered, and a COMPLETE extract has points.
THEOREM ConnectorsTypeCorrect == Spec => []TypeOK
<1>1. IInv => TypeOK
  BY DEF IInv
<1> QED BY <1>1, ConnectorsInvariant, PTL

\* DrilldownPlanningService.request: neither budget is exceeded, however many callers
\* count and insert at once, and on whichever day they began.
THEOREM ConnectorsWithinBudget == Spec => []WithinBudget
<1>1. IInv => WithinBudget
  BY DEF IInv, Budget
<1> QED BY <1>1, ConnectorsInvariant, PTL

\* complete_extract, fail_extract and mark_connection_validated: whoever wrote the
\* status last, and however long ago it was answered, the status tells the grant its
\* answer was given under: denied as PERMISSION_ERROR, expired as AUTH_EXPIRED or
\* DEGRADED, and CONNECTED that it held.  It tells the present grant unless that has
\* changed since the answer.
THEOREM ConnectorsStatusTells == Spec => []StatusTells
<1>1. IInv => StatusTells
  BY DEF IInv, Telling, Shows, StatusTells
<1> QED BY <1>1, ConnectorsInvariant, PTL

\* start_extract, complete_extract and fail_extract keep the promise of ExtractStore:
\* an extract is stored once, as one attempt's answer, and stays.
THEOREM ConnectorsKeepsExtracts == Spec => KeepsExtracts
<1>1. Init => Store!Init
  BY DEF Init, Store!Init, Readable
<1>2. IInv /\ [Next]_vars => [Store!Next]_Readable
  <2> SUFFICES ASSUME IInv, [Next]_vars PROVE [Store!Next]_Readable
    OBVIOUS
  <2>1. Typed
    BY Parts DEF IInv, Typed
  <2>2. CASE Next
    BY <2>1, <2>2, NextSteps, StepsStore
  <2>3. CASE UNCHANGED vars
    BY <2>3 DEF vars, connVars, Readable
  <2> QED BY <2>2, <2>3
<1> QED BY <1>1, <1>2, ConnectorsInvariant, PTL DEF Spec, KeepsExtracts
==============================================================================

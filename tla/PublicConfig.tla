----------------------------- MODULE PublicConfig -----------------------------
(***************************************************************************)
(* robots.txt and ads.txt of a site: public_config/ with its two handlers   *)
(* in worker.py.  A scheduled fetch keeps a snapshot of what it saw, derives *)
(* the events the snapshot alone tells, and asks for a second fetch when the *)
(* change is one of high risk; the second fetch, the validation, confirms or *)
(* refutes it.                                                              *)
(*                                                                          *)
(* One site.  Every attempt of a job keeps a snapshot of its own, named by   *)
(* the job and the attempt.  An instant is slot * Ticks + tick: every reading *)
(* of the clock is later than the one before, and a slot is due at its        *)
(* beginning.                                                               *)
(***************************************************************************)
EXTENDS GeneralWorker, Sequences

CONSTANTS
    Fetch,              \* FETCH_PUBLIC_CONFIG jobs
    TypeOf, SlotOf,     \* the file and the six-hour slot of each
    Response,           \* what the site may serve, for each file
    Tries,              \* the largest max_attempts of a fetch: 3 in the code
    Slots, Ticks,       \* bounds: six-hour slots, readings of the clock in each
    MaxRedirects

ConfigType == {"ROBOTS_TXT", "ADS_TXT"}

\* A snapshot is named by its job and attempt; a validation job by its primary.
Primary == Fetch \X (1 .. Tries)
Validate == {<<"validate", p>> : p \in Primary}
PublicJob == Fetch \cup Validate

Condition == {"MISSING", "EMPTY", "INVALID"}    \* and the code of each: ADS_TXT_MISSING...

ASSUME PublicConfigAssumption ==
    /\ PublicJob \subseteq Job /\ \A f \in Fetch : MaxAttempts[f] <= Tries
    /\ TypeOf \in [Fetch -> ConfigType] /\ SlotOf \in [Fetch -> 1 .. Slots]
    /\ Slots \in Nat \ {0} /\ Tries \in Nat \ {0} /\ Ticks \in Nat \ {0} /\ MaxRedirects \in Nat
    /\ DOMAIN Response = ConfigType
    /\ Fetch \cap Validate = {}
    /\ Null \notin PublicJob \X Nat

VARIABLES
    site,           \* monitoring_state and monitoring_state_updated_at
    clock,
    snapshot,       \* public_config_snapshots
    event,          \* condition events, by code and the primary that opened them
    point,          \* point events, by code and primary, with their predecessor
    pass,           \* how far a scheduler pass is with the site, and its slot
    try,            \* each handler's attempt
    seen,           \* what it read before it fetched: see Observe
    value,          \* what it evaluates: previous, primary, validation
    found,          \* the active conditions its transaction holds locked
    switches,       \* how often monitoring was switched
    \* History, which no action reads: the snapshots whose derivation committed, and
    \* the files of which two observations were under way at once.
    heard, overlapped

siteVars == <<site, clock, pass, switches, overlapped>>
recordVars == <<snapshot, event, point, heard>>
localVars == <<try, seen, value, found>>
vars == <<queueVars, handlerVars, siteVars, recordVars, localVars>>

Min(S) == CHOOSE x \in S : \A y \in S : x <= y

------------------------------------------------------------------------------
(* Reading a response: client.py, security.py, robots.py, ads_txt.py.        *)

\* PublicConfigNetworkGuard: every address on the way is a public one of the site.
Forbidden(r) == r.fault \in {"foreign", "private"}

\* PublicConfigClient.fetch: few redirections, and a body that ends within its
\* limit and in time.
FetchError(r) ==
    LET failed(code, retryable) == [code |-> "PUBLIC_CONFIG_" \o code, retryable |-> retryable] IN
    IF Forbidden(r) \/ r.hops > MaxRedirects THEN failed("SECURITY_ERROR", FALSE) ELSE
    CASE r.fault = "dns" -> failed("DNS_ERROR", TRUE)
      [] r.fault = "slow" -> failed("TIMEOUT", TRUE)
      [] r.fault = "reset" -> failed("HTTP_ERROR", TRUE)
      [] r.fault = "nowhere" -> failed("HTTP_ERROR", FALSE)   \* a redirection to no address
      [] r.fault = "large" -> failed("TOO_LARGE", FALSE)
      [] OTHER -> Null

FetchErrorStatus(code) ==
    CASE code = "PUBLIC_CONFIG_TOO_LARGE" -> "TOO_LARGE"
      [] code = "PUBLIC_CONFIG_SECURITY_ERROR" -> "BLOCKED"
      [] OTHER -> "UNREACHABLE"

\* parse_robots_txt.  A line names an agent or gives a rule to the group it is in;
\* agents after a rule begin another group, and the groups of an agent are merged.
\* What is not such a line is a diagnostic, or says nothing of the rules.
Group(lines) ==
    LET upto[i \in 0 .. Len(lines)] ==
            IF i = 0 THEN [agents |-> {}, started |-> FALSE]
            ELSE LET g == upto[i - 1] IN
                 CASE lines[i].field = "user-agent" ->
                        [agents |-> {lines[i].value} \cup (IF g.started THEN {} ELSE g.agents),
                         started |-> FALSE]
                   [] lines[i].field = "rule" -> [g EXCEPT !.started = g.agents # {}]
                   [] OTHER -> g
    IN upto

Rules(lines) == UNION {{[agent |-> a, rule |-> lines[i].value] : a \in Group(lines)[i].agents} :
                       i \in {k \in DOMAIN lines : lines[k].field = "rule"}}
Agents(lines) == {lines[i].value : i \in {k \in DOMAIN lines : lines[k].field = "user-agent"}}
Malformed(lines) == \E i \in DOMAIN lines : lines[i].field = "malformed"
\* A rule before any agent.
Stray(lines) == \E i \in DOMAIN lines : lines[i].field = "rule" /\ Group(lines)[i].agents = {}
Meaningful(lines) == \E i \in DOMAIN lines : lines[i].field # "comment"

\* _is_broad_blocked: everyone is kept off everything, and no rule lets one in.
BroadBlocked(rules) ==
    /\ [agent |-> "*", rule |-> "disallow /"] \in rules
    /\ \A r \in rules : r.agent = "*" => r.rule # "allow /x"

RobotsStatus(lines) ==
    IF ~Meaningful(lines) THEN "EMPTY"
    ELSE IF Agents(lines) = {} THEN "INVALID"
    ELSE IF Malformed(lines) \/ Stray(lines) THEN "VALID_WITH_WARNINGS"
    ELSE "VALID"

\* parse_ads_txt: seller records without their repetitions, and the declared owner.
Records(lines) == {lines[i] : i \in {k \in DOMAIN lines : lines[k].field = "record"}}
Owner(lines) ==
    LET at == {k \in DOMAIN lines : lines[k].field = "ownerdomain"}
    IN IF at = {} THEN Null ELSE lines[Min(at)].value
Managers(lines) == {lines[i].value : i \in {k \in DOMAIN lines : lines[k].field = "managerdomain"}}
Repeats(lines) == \E i, k \in DOMAIN lines :
    /\ i # k /\ lines[i].field = lines[k].field
    /\ lines[i].field = "ownerdomain" \/ (lines[i].field = "record" /\ lines[i] = lines[k])

AdsStatus(lines) ==
    IF ~Meaningful(lines) THEN "EMPTY"
    ELSE IF Records(lines) = {} THEN "INVALID"
    ELSE IF Malformed(lines) \/ Repeats(lines) THEN "VALID_WITH_WARNINGS"
    ELSE "VALID"

\* _normalize_response and _observe: the snapshot of a response.  hash is what the
\* semantic hash is taken of, Null where there is none.
Normalized(type, r) ==
    LET as(status) == [status |-> status, hash |-> Null, broad |-> FALSE]
    IN IF FetchError(r) # Null THEN as(FetchErrorStatus(FetchError(r).code))
       ELSE IF r.http \in {404, 410} THEN as("MISSING")
       ELSE IF r.http >= 500 /\ type = "ROBOTS_TXT" THEN as("UNREACHABLE")
       ELSE IF r.http # 200 THEN as("HTTP_ERROR")
       ELSE IF type = "ROBOTS_TXT" THEN
            [status |-> RobotsStatus(r.lines),
             hash |-> <<Agents(r.lines), Rules(r.lines)>>,
             broad |-> BroadBlocked(Rules(r.lines))]
       ELSE [status |-> AdsStatus(r.lines),
             hash |-> <<Records(r.lines), Owner(r.lines), Managers(r.lines)>>, broad |-> FALSE]

------------------------------------------------------------------------------
(* The snapshots: persistence.py.                                            *)

Slot == clock \div Ticks
Due(slot) == slot * Ticks
TypeOfJob(j) == TypeOf[IF j \in Fetch THEN j ELSE j[2][1]]

Healthy == {"VALID", "VALID_WITH_WARNINGS"}

Scheduled(type, before) == {p \in DOMAIN snapshot : /\ p \in Primary /\ TypeOf[p[1]] = type
                                                    /\ snapshot[p].at < before}
Latest(S) == IF S = {} THEN Null
             ELSE CHOOSE p \in S : \A q \in S : snapshot[q].at <= snapshot[p].at

PreviousHealthy(type, before) ==
    Latest({p \in Scheduled(type, before) : snapshot[p].status \in Healthy})
PreviousAffected(type, before) ==
    IF type = "ROBOTS_TXT" THEN Null
    ELSE Latest({p \in Scheduled(type, before) : snapshot[p].status \in Condition})

\* Whether a newer observation than q is p.
After(p, q) == p # Null /\ (q = Null \/ snapshot[p].at > snapshot[q].at)

\* _requires_validation of the primary p.
RequiresValidation(p, healthy, affected) ==
    /\ healthy # Null
    /\ IF TypeOf[p[1]] = "ROBOTS_TXT"
       THEN snapshot[p].broad /\ ~snapshot[healthy].broad
       ELSE \/ snapshot[p].status \in Condition
            \/ snapshot[p].status \in Healthy /\ After(affected, healthy)

------------------------------------------------------------------------------
(* What a snapshot tells: event_service.py, evaluator.py.                    *)

\* The predecessor of derive: the one before, or the condition that the healthy
\* snapshot would end although failures came between.
Previous(p) ==
    LET type == TypeOf[p[1]]
        at == snapshot[p].at
        last == Latest(Scheduled(type, at))
        affected == PreviousAffected(type, at)
    IN IF /\ type = "ADS_TXT" /\ snapshot[p].status \in Healthy
          /\ last = Null \/ snapshot[last].status \notin Condition
          /\ After(affected, PreviousHealthy(type, at))
       THEN affected ELSE last

Agrees(p, v) ==
    v # Null /\ snapshot[v].status = snapshot[p].status /\ snapshot[v].hash = snapshot[p].hash

RobotsTells(b, p, agrees) ==
    IF b.status \notin Healthy \/ p.status \notin Healthy \/ b.hash = p.hash THEN "NOTHING"
    ELSE IF p.broad = b.broad THEN "CHANGED"
    ELSE IF b.broad THEN "BROAD_BLOCK_REMOVED"
    ELSE IF agrees THEN "BROAD_BLOCK_ADDED" ELSE "NOTHING"

AdsTells(b, p, agrees) ==
    CASE p.status \in Condition /\ agrees -> IF b.status = p.status THEN "SUPPORT" ELSE "UPSERT"
      [] p.status \in Healthy /\ b.status \in Condition /\ agrees -> "RESOLVE"
      [] p.status \in Healthy /\ b.status \in Healthy /\ b.hash # p.hash -> "CHANGED"
      [] OTHER -> "NOTHING"

\* evaluate.
Tells(v) ==
    IF v.previous = Null THEN "NOTHING"
    ELSE LET b == snapshot[v.previous]
             p == snapshot[v.primary]
             agrees == Agrees(v.primary, v.validation)
         IN IF TypeOf[v.primary[1]] = "ROBOTS_TXT" THEN RobotsTells(b, p, agrees)
            ELSE AdsTells(b, p, agrees)

Point == {"CHANGED", "BROAD_BLOCK_ADDED", "BROAD_BLOCK_REMOVED"}
Detected(v) == snapshot[IF v.validation = Null THEN v.primary ELSE v.validation].at

------------------------------------------------------------------------------
(* The lifecycle of conditions: event_persistence.py.  A condition event is  *)
(* named by its code and the primary that opened it; linked are the          *)
(* scheduled snapshots it refers to.                                         *)

ActiveNow(codes) == {e \in DOMAIN event : event[e].status = "ACTIVE" /\ e[1] \in codes}

Code(v) == snapshot[v.primary].status
\* A plausible bug: a condition that is confirmed leaves its siblings active.
ConcernedAlone(v) == IF Tells(v) \in {"SUPPORT", "UPSERT"} THEN {Code(v)}
                     ELSE IF Tells(v) = "RESOLVE" THEN Condition ELSE {}

Concerned(v) == CASE Tells(v) = "SUPPORT" -> {Code(v)}
                  [] Tells(v) \in {"UPSERT", "RESOLVE"} -> Condition
                  [] OTHER -> {}

\* The scheduled snapshots among a candidate's evidence.
Evidence(v) == {v.primary} \cup (IF Tells(v) = "UPSERT" THEN {v.previous} ELSE {})

\* _resolve_condition of those that the transaction holds.
Ends(e, v) == event[e].detected <= Detected(v) /\ Evidence(v) \ event[e].linked # {}
Resolved(ids, v) == [e \in DOMAIN event |->
    IF e \in ids /\ Ends(e, v)
    THEN [event[e] EXCEPT !.status = "RESOLVED", !.linked = @ \cup Evidence(v)]
    ELSE event[e]]

Supported(events, e, v) == [events EXCEPT ![e].linked = @ \cup Evidence(v),
    ![e].support = @ + Cardinality(Evidence(v) \ events[e].linked)]

Opened(events, e, v) == [i \in DOMAIN events \cup {e} |->
    IF i = e THEN [status |-> "ACTIVE", detected |-> Detected(v), linked |-> Evidence(v),
                   support |-> 1]
    ELSE events[i]]

------------------------------------------------------------------------------
(* State.                                                                    *)

Nothing == [since |-> 0, at |-> 0, healthy |-> Null, affected |-> Null]
NoPass == [step |-> "idle", slot |-> 0]
NoValue == [previous |-> Null, primary |-> Null, validation |-> Null]
Place == {"gate", "observe", "fetch", "derive", "look", "commit", "ask"}

TypeOK ==
    /\ WorkerTypeOK(Place)
    /\ site.on \in BOOLEAN /\ site.since \in 0 .. clock
    /\ clock \in Ticks .. (Slots + 1) * Ticks - 1
    \* Observations have instants of their own, those past.
    /\ \A k, l \in DOMAIN snapshot :
          snapshot[k].at \in 1 .. clock /\ (snapshot[k].at = snapshot[l].at => k = l)
    /\ \A e \in DOMAIN event : /\ e[1] \in Condition /\ e[2] \in DOMAIN snapshot
                               /\ event[e].linked \subseteq DOMAIN snapshot
    /\ point \subseteq [code : Point, primary : DOMAIN snapshot, previous : DOMAIN snapshot]
    /\ \A w \in Worker : /\ pc[w] # "commit" => found[w] = {}
                         /\ pc[w] = "ask" => job[w] \in Fetch
    \* A row is locked by one transaction.
    /\ \A w, x \in Worker : w # x => found[w] \cap found[x] = {}

Init ==
    /\ WorkerInit
    /\ site = [on |-> TRUE, since |-> 0] /\ clock = Ticks
    /\ snapshot = <<>> /\ event = <<>> /\ point = {} /\ heard = {} /\ overlapped = {}
    /\ pass = NoPass /\ switches = 0
    /\ try = [w \in Worker |-> 0] /\ seen = [w \in Worker |-> Nothing]
    /\ value = [w \in Worker |-> NoValue] /\ found = [w \in Worker |-> {}]

\* A reading of the clock.
Reads(t) == t = clock + 1 /\ t < Due(Slot + 1) /\ clock' = t

------------------------------------------------------------------------------
(* The world, the switch and the scheduler.                                  *)

NextSlot ==
    /\ Slot < Slots /\ clock' = Due(Slot + 1)
    /\ UNCHANGED <<queueVars, handlerVars, site, pass, switches, overlapped, recordVars, localVars>>

\* set_monitoring_state, as Checkpoint models it.
Switch ==
    /\ Reads(clock + 1)
    /\ site' = [on |-> ~site.on, since |-> clock'] /\ switches' = switches + 1
    /\ UNCHANGED <<queueVars, handlerVars, pass, overlapped, recordVars, localVars>>

\* A pass has listed the site, with the slot of its own clock: schedulable_sites.
List ==
    /\ pass = NoPass /\ site.on
    /\ pass' = [step |-> "listed", slot |-> Slot]
    /\ UNCHANGED <<queueVars, handlerVars, site, clock, switches, overlapped, recordVars, localVars>>

\* PC-GATE-2.
Admit ==
    /\ pass.step = "listed"
    /\ pass' = IF site.on /\ Due(pass.slot) > site.since
               THEN [pass EXCEPT !.step = "admitted"] ELSE NoPass
    /\ UNCHANGED <<queueVars, handlerVars, site, clock, switches, overlapped, recordVars, localVars>>

\* The job of either file; then the pass is over, or its process ends.
Schedule(f) ==
    /\ pass.step = "admitted" /\ SlotOf[f] = pass.slot
    /\ Enqueue(f)
    /\ UNCHANGED <<handlerVars, siteVars, recordVars, localVars>>

PassEnds ==
    /\ pass.step = "admitted" /\ pass' = NoPass
    /\ UNCHANGED <<queueVars, handlerVars, site, clock, switches, overlapped, recordVars, localVars>>

------------------------------------------------------------------------------
(* The handlers.                                                             *)

Take(w, j) ==
    /\ j \in PublicJob /\ Claim(w, j, "gate")
    /\ try' = [try EXCEPT ![w] = runs'[j]]
    /\ UNCHANGED <<siteVars, recordVars, seen, value, found>>

Lose(j) ==
    /\ j \in PublicJob /\ TakeBack(j)
    /\ UNCHANGED <<siteVars, recordVars, localVars>>

\* The instant the work is due: a validation belongs to its primary.
DueOf(j) == IF j \in Fetch THEN Due(SlotOf[j]) ELSE snapshot[j[2]].at

\* A plausible bug: a validation is not held against the switch.
AuthorizedFetchOnly(j) == j \in Fetch => site.on /\ DueOf(j) > site.since

\* _preflight_monitoring, PC-GATE-3.
Authorized(j) == site.on /\ DueOf(j) > site.since

\* run_validation has found its primary to need it, before it asks for leave.
Eligible(j) ==
    j \in Validate =>
        LET type == TypeOfJob(j)
            at == snapshot[j[2]].at
        IN RequiresValidation(j[2], PreviousHealthy(type, at), PreviousAffected(type, at))

Gate(w) ==
    /\ Goes(w, "gate", IF ~Eligible(job[w]) THEN "raised"
                       ELSE IF ~Authorized(job[w]) THEN "done" ELSE "observe")
    /\ seen' = [seen EXCEPT ![w].since = site.since]
    /\ UNCHANGED <<queueVars, siteVars, recordVars, try, value, found>>

\* observed_at is read, and the predecessors with it.
Observe(w) ==
    LET type == TypeOfJob(job[w]) IN
    /\ Goes(w, "observe", "fetch")
    /\ Reads(clock + 1)
    /\ seen' = [seen EXCEPT ![w] = [since |-> @.since, at |-> clock',
                                    healthy |-> PreviousHealthy(type, clock'),
                                    affected |-> PreviousAffected(type, clock')]]
    /\ overlapped' = overlapped \cup
          {TypeOfJob(job[x]) : x \in {y \in Worker \ {w} :
              pc[y] \in {"fetch", "derive", "look", "commit"} /\ TypeOfJob(job[y]) = type}}
    /\ UNCHANGED <<queueVars, site, pass, switches, recordVars, try, value, found>>

Key(w) == <<job[w], try[w]>>

\* What is kept of an observation, and how: an identity has one snapshot.
Kept(w, n) == [at |-> seen[w].at, since |-> seen[w].since, status |-> n.status,
               hash |-> n.hash, broad |-> n.broad]
Persisted(k, s) == IF k \in DOMAIN snapshot THEN snapshot
    ELSE [l \in DOMAIN snapshot \cup {k} |-> IF l = k THEN s ELSE snapshot[l]]

\* _observe: the exchange, in which the site may answer anything, and its snapshot.
Respond(w) == pc[w] = "fetch" /\ \E r \in Response[TypeOfJob(job[w])] :
    /\ Goes(w, "fetch", IF FetchError(r) # Null
                        THEN IF FetchError(r).retryable THEN "failed" ELSE "raised"
                        ELSE IF r.http = 429 \/ r.http >= 500 THEN "failed" ELSE "derive")
    /\ snapshot' = Persisted(Key(w), Kept(w, Normalized(TypeOfJob(job[w]), r)))
    /\ UNCHANGED <<queueVars, siteVars, event, point, heard, localVars>>

\* PublicConfigEventService.derive: what is read, and what it tells.
Derive(w) ==
    LET scheduled == job[w] \in Fetch
        p == IF scheduled THEN Key(w) ELSE job[w][2]
        v == [previous |-> Previous(p), primary |-> p,
              validation |-> IF scheduled THEN Null ELSE Key(w)]
    IN /\ Goes(w, "derive", "look")
       /\ value' = [value EXCEPT ![w] = v]
       /\ UNCHANGED <<queueVars, siteVars, recordVars, try, seen, found>>

\* A plausible bug: the rows are read without FOR UPDATE.
LookUnlocked(w) ==
    /\ Goes(w, "look", "commit")
    /\ found' = [found EXCEPT ![w] = ActiveNow(Concerned(value[w]))]
    /\ UNCHANGED <<queueVars, siteVars, recordVars, try, seen, value>>

\* persist begins: the active conditions are read FOR UPDATE.
Look(w) ==
    LET rows == ActiveNow(Concerned(value[w])) IN
    /\ Goes(w, "look", "commit")
    /\ \A x \in Worker : rows \cap found[x] = {}
    /\ found' = [found EXCEPT ![w] = rows]
    /\ UNCHANGED <<queueVars, siteVars, recordVars, try, seen, value>>

Onward(w) == IF job[w] \in Fetch THEN "ask" ELSE "done"

\* persist commits, or is rolled back.
Commit(w) ==
    LET v == value[w] IN
    /\ Goes(w, "commit", Onward(w))
    /\ heard' = heard \cup {IF v.validation = Null THEN v.primary ELSE v.validation}
    /\ found' = [found EXCEPT ![w] = {}] /\ value' = [value EXCEPT ![w] = NoValue]
    /\ UNCHANGED <<queueVars, siteVars, snapshot, try, seen>>

Rollback(w) ==
    /\ Goes(w, "commit", "raised")
    /\ found' = [found EXCEPT ![w] = {}] /\ value' = [value EXCEPT ![w] = NoValue]
    /\ UNCHANGED <<queueVars, siteVars, recordVars, try, seen>>

\* A point event is kept once for its code and primary.
Record(w) ==
    LET v == value[w] IN
    /\ Tells(v) \in Point
    /\ Commit(w)
    /\ point' = point \cup
          (IF \E e \in point : e.code = Tells(v) /\ e.primary = v.primary THEN {}
           ELSE {[code |-> Tells(v), primary |-> v.primary, previous |-> v.previous]})
    /\ UNCHANGED event

\* A plausible bug: an insert that meets the event of its trigger replaces it.
UpsertAgain(w) ==
    LET v == value[w]
        after == Resolved({e \in found[w] : e[1] # Code(v)}, v)
        mine == ActiveNow({Code(v)})
    IN /\ Tells(v) = "UPSERT" /\ Commit(w)
       /\ \A x \in Worker \ {w} : mine \cap found[x] = {}
       /\ event' = IF mine = {} THEN Opened(after, <<Code(v), v.primary>>, v)
                   ELSE Supported(after, CHOOSE e \in mine : TRUE, v)
       /\ UNCHANGED point

\* The event of an UPSERT, when its transaction holds none of the code: the insert
\* meets an active one that was opened since, or one of the same trigger that is
\* over; the latter is an EventStateError.
Upsert(w) ==
    LET v == value[w]
        id == <<Code(v), v.primary>>
        after == Resolved({e \in found[w] : e[1] # Code(v)}, v)
        mine == ActiveNow({Code(v)})
    IN /\ Tells(v) = "UPSERT"
       /\ \A x \in Worker \ {w} : mine \cap found[x] = {}
       /\ IF mine = {} /\ id \in DOMAIN event THEN Rollback(w)
          ELSE /\ Commit(w) /\ UNCHANGED point
               /\ event' = IF mine = {} THEN Opened(after, id, v)
                           ELSE Supported(after, CHOOSE e \in mine : TRUE, v)

\* The insert met an active condition which another transaction then ends.
Conflict(w) ==
    /\ Tells(value[w]) = "UPSERT"
    /\ \E x \in Worker \ {w} :
          \E e \in found[x] \cap ActiveNow({Code(value[w])}) :
              Tells(value[x]) \in {"UPSERT", "RESOLVE"} /\ Ends(e, value[x])
    /\ Rollback(w)

Support(w) ==
    /\ Tells(value[w]) = "SUPPORT"
    /\ Commit(w) /\ UNCHANGED point
    /\ event' = IF found[w] = {} THEN event
                ELSE Supported(event, CHOOSE e \in found[w] : TRUE, value[w])

Resolve(w) ==
    /\ Tells(value[w]) = "RESOLVE"
    /\ Commit(w) /\ UNCHANGED point
    /\ event' = Resolved(found[w], value[w])

Ignore(w) == Tells(value[w]) = "NOTHING" /\ Commit(w) /\ UNCHANGED <<event, point>>

\* The end of run_scheduled: a validation is queued, once for each primary.
Ask(w) ==
    LET j == <<"validate", Key(w)>>
        asks == RequiresValidation(Key(w), seen[w].healthy, seen[w].affected)
    IN /\ Goes(w, "ask", "done")
       /\ IF asks /\ phase[j] = "absent" THEN Enqueue(j) ELSE UNCHANGED queueVars
       /\ UNCHANGED <<siteVars, recordVars, localVars>>

\* Any other exception: the job is retried.
Break(w) ==
    /\ pc[w] \in Place /\ job[w] \in PublicJob
    /\ pc' = [pc EXCEPT ![w] = "failed"]
    /\ found' = [found EXCEPT ![w] = {}] /\ value' = [value EXCEPT ![w] = NoValue]
    /\ UNCHANGED <<queueVars, job, siteVars, recordVars, try, seen>>

Finish(w) ==
    /\ job[w] \in PublicJob /\ Report(w)
    /\ try' = [try EXCEPT ![w] = 0] /\ seen' = [seen EXCEPT ![w] = Nothing]
    /\ UNCHANGED <<siteVars, recordVars, value, found>>

Next ==
    \/ NextSlot \/ Switch \/ List \/ Admit \/ PassEnds
    \/ \E f \in Fetch : Schedule(f)
    \/ \E j \in PublicJob : Lose(j) \/ \E w \in Worker : Take(w, j)
    \/ \E w \in Worker :
          \/ Gate(w) \/ Observe(w) \/ Respond(w) \/ Derive(w) \/ Look(w)
          \/ Record(w) \/ Upsert(w) \/ Conflict(w) \/ Support(w) \/ Resolve(w) \/ Ignore(w)
          \/ Ask(w) \/ Break(w) \/ Finish(w)

Spec == Init /\ [][Next]_vars

------------------------------------------------------------------------------
(* Properties.                                                               *)

\* EP-017, "confirm high-risk events only when primary and validation states
\* semantically agree": an added block and a condition rest on two observations of
\* one state, the second later and made while monitoring had not been switched
\* since the first; what was seen once makes none.
Confirmed(p) == \E v \in DOMAIN snapshot :
    /\ v[1] = <<"validate", p>> /\ Agrees(p, v)
    /\ snapshot[v].at > snapshot[p].at /\ snapshot[p].at > snapshot[v].since
ConfirmedByTwo ==
    /\ \A e \in DOMAIN event : Confirmed(e[2]) /\ snapshot[e[2]].status = e[1]
    /\ \A e \in point : e.code = "BROAD_BLOCK_ADDED" =>
          Confirmed(e.primary) /\ snapshot[e.primary].broad /\ ~snapshot[e.previous].broad

\* EP-017, "routine valid ads.txt/robots semantic changes create one idempotent
\* point event" and "confirmed valid recovery resolves it": once every snapshot of a
\* file was derived, one after the other, and every validation that was called for
\* agreed, the change between any two neighbours has its one event and no other, and
\* the active conditions are what was seen last.  A validation must have come before
\* the next scheduled observation: a later attempt of it, which finds the state of its
\* own primary again, ends or opens conditions whatever was confirmed in between.
Seen(type) == {k \in DOMAIN snapshot : TypeOfJob(k[1]) = type}
Called(p) ==
    RequiresValidation(p, PreviousHealthy(TypeOf[p[1]], snapshot[p].at),
                       PreviousAffected(TypeOf[p[1]], snapshot[p].at))
InTurn(v) == v[1][2] = Latest(Scheduled(TypeOfJob(v[1]), snapshot[v].at))
Usable(k) == snapshot[k].status \in Healthy \cup Condition
Orderly(type) ==
    /\ type \notin overlapped
    /\ \A k \in Seen(type) : Usable(k) => k \in heard
    /\ \A k \in Seen(type) : k[1] \in Validate => InTurn(k)
    /\ \A p \in Scheduled(type, clock + 1) : Called(p) =>
          \E v \in heard : v[1] = <<"validate", p>> /\ Agrees(p, v)

Kind(b, p) ==
    IF {snapshot[b].status, snapshot[p].status} \subseteq Healthy /\ snapshot[b].hash # snapshot[p].hash
    THEN IF snapshot[p].broad = snapshot[b].broad THEN "CHANGED"
         ELSE IF snapshot[p].broad THEN "BROAD_BLOCK_ADDED" ELSE "BROAD_BLOCK_REMOVED"
    ELSE "NOTHING"
ChangesTold(type) == \A p \in Scheduled(type, clock + 1) :
    LET b == Latest(Scheduled(type, snapshot[p].at)) IN
    {e \in point : e.primary = p} =
        IF b = Null \/ Kind(b, p) = "NOTHING" THEN {}
        ELSE {[code |-> Kind(b, p), primary |-> p, previous |-> b]}
ConditionTold ==
    LET last == Latest({p \in Scheduled("ADS_TXT", clock + 1) : Usable(p)})
    IN {e[1] : e \in ActiveNow(Condition)} =
          IF last = Null \/ PreviousHealthy("ADS_TXT", clock + 1) = Null THEN {}
          ELSE {snapshot[last].status} \cap Condition
Told == /\ \A type \in ConfigType : Orderly(type) => ChangesTold(type)
        /\ Orderly("ADS_TXT") => ConditionTold

\* EP-017, section 5: "If it independently confirms the same high-risk semantic
\* state, the service ... upserts the condition event with both snapshots as
\* evidence": a condition that two observations confirmed has an event that refers
\* to the first of them.  After a primary whose validation refuted it, the next one
\* finds a predecessor of its own status and supports an event that there is not.
ConfirmedIsRecorded == \A v \in heard : v[1] \in Validate =>
    LET p == v[1][2] IN
    Agrees(p, v) /\ snapshot[p].status \in Condition =>
        \E e \in DOMAIN event : e[1] = snapshot[p].status /\ p \in event[e].linked

\* The conditions of ads.txt are a ConditionStore, as those of the browser are:
\* EP-017, "create, support, and resolve ads.txt condition events using the existing
\* E2 lifecycle".  One transaction may end two of them and open a third.
Conditions == [e \in DOMAIN event |-> [status |-> event[e].status, refs |-> event[e].linked]]
Store == INSTANCE ConditionStore WITH
            Id <- Condition \X Primary, KeyOf <- [e \in Condition \X Primary |-> e[1]],
            Observation <- Primary, record <- Conditions
KeepsConditions == Store!Spec
===============================================================================

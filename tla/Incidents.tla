------------------------------- MODULE Incidents -------------------------------
(***************************************************************************)
(* The intake of one incident (incidents/intake.py): operators localise it  *)
(* against the scheduled runs of its site and freeze a last known good run, *)
(* and they ask for diagnostics, each paid for by an entry of a ledger      *)
(* (incidents/persistence.py) before its run is inserted.                   *)
(*                                                                          *)
(* A call is a chain of short transactions, and any of them may fail.  The  *)
(* attempts of a run are in Checkpoint; here a scheduled run ends, which    *)
(* fixes its completed_at, and is stored some time later.                   *)
(***************************************************************************)
EXTENDS Integers, FiniteSets

CONSTANTS
    Operator,
    Scenario,       \* scenarios of the site, numbered by their codes
    Run,            \* scheduled runs of the site
    Limit,          \* DEFAULT_RESOURCE_LIMITS["DIAGNOSTIC_RUN"]
    MaxScenarios,   \* the most a call may ask for
    MaxCalls,       \* bound: requests for diagnostics
    Null

ASSUME IncidentsAssumption ==
    /\ IsFiniteSet(Operator) /\ Operator # {}
    /\ IsFiniteSet(Scenario) /\ Scenario \subseteq Nat
    /\ Limit \in Nat /\ MaxScenarios \in Nat \ {0} /\ MaxCalls \in Nat
    /\ Null \notin Int

VARIABLES
    clock,          \* instants at which runs end
    status, ended,  \* checkpoint_runs: status and completed_at
    scenario,       \* browser_scenarios.status
    opened, onset,  \* incidents: whether it is there, and its reported_start_at
    refs,           \* last_known_good_refs, each with the runs that were COMPLETE then
    ledger,         \* usage keys of DIAGNOSTIC_RUN, each an entry of amount one
    jobs, diagnostics,  \* what was queued and inserted for the incident
    pc, seen,       \* an operator's call: its step, the runs it read,
    call, todo, grants, key,  \* its number, scenarios left, grants and usage key
    \* History: the number of calls, the pairs of them that overlapped, where
    \* each scenario stood among the grants, and whether one has moved forward.
    calls, together, place, moved

runVars == <<clock, status, ended>>
incident == <<opened, onset>>
callVars == <<call, todo, grants, key>>
history == <<calls, together, place, moved>>
stored == <<refs, ledger, jobs, diagnostics>>
vars == <<runVars, scenario, incident, stored, pc, seen, callVars, history>>

Asking == {"count", "consume", "enqueue", "commit"}
Keys == Scenario \X Nat

TypeOK ==
    /\ clock \in Nat
    /\ status \in [Run -> {"RUNNING", "STORING", "COMPLETE", "FAILED"}]
    /\ ended \in [Run -> Nat \cup {Null}]
    /\ scenario \in [Scenario -> {"ABSENT", "ACTIVE", "RETIRED"}]
    /\ opened \in BOOLEAN /\ onset \in Nat \cup {Null}
    /\ \A x \in refs : x.run \in x.seen /\ x.seen \subseteq Run
    /\ ledger \subseteq Keys
    /\ jobs \subseteq Keys \X Nat /\ diagnostics \subseteq jobs
    /\ pc \in [Operator -> {"idle", "freeze"} \cup Asking]
    /\ seen \in [Operator -> SUBSET Run]
    /\ call \in [Operator -> 0 .. calls]
    /\ todo \in [Operator -> SUBSET Scenario]
    /\ \A o \in Operator : pc[o] \in Asking <=> todo[o] # {}
    /\ grants \in [Operator -> Nat] /\ key \in [Operator -> Keys \cup {Null}]
    /\ calls \in Nat /\ together \subseteq SUBSET (1 .. calls)
    /\ place \in [Scenario -> Nat] /\ moved \in BOOLEAN

Init ==
    /\ clock = 0
    /\ status = [r \in Run |-> "RUNNING"] /\ ended = [r \in Run |-> Null]
    /\ scenario \in [Scenario -> {"ABSENT", "ACTIVE"}]
    /\ opened = FALSE /\ onset = Null
    /\ refs = {} /\ ledger = {} /\ jobs = {} /\ diagnostics = {}
    /\ pc = [o \in Operator |-> "idle"] /\ seen = [o \in Operator |-> {}]
    /\ call = [o \in Operator |-> 0] /\ todo = [o \in Operator |-> {}]
    /\ grants = [o \in Operator |-> 0] /\ key = [o \in Operator |-> Null]
    /\ calls = 0 /\ together = {} /\ place = [s \in Scenario |-> 0] /\ moved = FALSE

-------------------------------------------------------------------------------
(* The site: its scheduled runs and its scenarios.                           *)

\* The browser pass of r is over: evidence.completed_at.
Ends(r) ==
    /\ status[r] = "RUNNING"
    /\ status' = [status EXCEPT ![r] = "STORING"]
    /\ ended' = [ended EXCEPT ![r] = clock]
    /\ clock' = clock + 1
    /\ UNCHANGED <<scenario, incident, stored, pc, seen, callVars, history>>

\* finalize commits, after the artifacts were uploaded.
Finalize(r, s) ==
    /\ status[r] = "STORING"
    /\ status' = [status EXCEPT ![r] = s]
    /\ UNCHANGED <<clock, ended, scenario, incident, stored, pc, seen, callVars, history>>

\* _b2_scenario.
AddScenario(s) ==
    /\ scenario[s] = "ABSENT"
    /\ scenario' = [scenario EXCEPT ![s] = "ACTIVE"]
    /\ UNCHANGED <<runVars, incident, stored, pc, seen, callVars, history>>

Retire(s) ==
    /\ scenario[s] = "ACTIVE"
    /\ scenario' = [scenario EXCEPT ![s] = "RETIRED"]
    /\ UNCHANGED <<runVars, incident, stored, pc, seen, callVars, history>>

\* open_investigation takes a symptom that has begun, or began nobody knows when.
Reported == (0 .. clock) \cup {Null}

Open(t) ==
    /\ ~opened /\ opened' = TRUE
    /\ onset' = t
    /\ UNCHANGED <<runVars, scenario, stored, pc, seen, callVars, history>>

-------------------------------------------------------------------------------
(* localize.                                                                 *)

Complete == {r \in Run : status[r] = "COMPLETE"}

\* A plausible bug: any run that has completed since is as good.
HealthyEver(S) == S

\* healthy_before.
Healthy(S) == {r \in S : onset = Null \/ ended[r] <= onset}

Latest(S) == CHOOSE r \in S : \A q \in S : ended[q] <= ended[r]

\* The runs are read; without a healthy one nothing is kept.
Localize(o) ==
    /\ opened /\ pc[o] = "idle"
    /\ Healthy(Complete) # {}
    /\ seen' = [seen EXCEPT ![o] = Complete]
    /\ pc' = [pc EXCEPT ![o] = "freeze"]
    /\ UNCHANGED <<runVars, scenario, incident, stored, callVars, history>>

\* freeze_lkg_selection: a reference to this run is there, or it is inserted; a
\* second that comes between the two meets the unique constraint and fails.
Freeze(o) ==
    /\ pc[o] = "freeze"
    /\ LET good == Latest(Healthy(seen[o])) IN
       refs' = IF \E x \in refs : x.run = good THEN refs
               ELSE refs \cup {[run |-> good, seen |-> seen[o]]}
    /\ pc' = [pc EXCEPT ![o] = "idle"] /\ seen' = [seen EXCEPT ![o] = {}]
    /\ UNCHANGED <<runVars, scenario, incident, ledger, jobs, diagnostics, callVars, history>>

-------------------------------------------------------------------------------
(* request_initial_diagnostics.                                              *)

\* current_usage and within_limit.
Used == Cardinality(ledger)
WithinLimit == Used < Limit

Active == {s \in Scenario : scenario[s] = "ACTIVE"}
Ahead(s, S) == {t \in S : t < s}

\* The first n of the active scenarios, by code.
FirstActive(n) == {s \in Active : Cardinality(Ahead(s, Active)) < n}

\* A plausible bug: a site without active scenarios is not refused.
RequestAnyway(o, n) ==
    /\ opened /\ pc[o] = "idle" /\ WithinLimit /\ calls < MaxCalls
    /\ todo' = [todo EXCEPT ![o] = FirstActive(IF n < Limit - Used THEN n ELSE Limit - Used)]
    /\ calls' = calls + 1
    /\ call' = [call EXCEPT ![o] = calls']
    /\ together' = together \cup {{call[p], calls'} : p \in {q \in Operator : pc[q] \in Asking}}
    /\ grants' = [grants EXCEPT ![o] = 0]
    /\ pc' = [pc EXCEPT ![o] = "count"]
    /\ UNCHANGED <<runVars, scenario, incident, stored, seen, key, place, moved>>

\* A call for n scenarios begins; one that is refused changes nothing.
Request(o, n) ==
    /\ opened /\ pc[o] = "idle" /\ WithinLimit /\ calls < MaxCalls
    /\ todo' = [todo EXCEPT ![o] = FirstActive(IF n < Limit - Used THEN n ELSE Limit - Used)]
    /\ todo'[o] # {}
    /\ calls' = calls + 1
    /\ call' = [call EXCEPT ![o] = calls']
    /\ together' = together \cup {{call[p], calls'} : p \in {q \in Operator : pc[q] \in Asking}}
    /\ grants' = [grants EXCEPT ![o] = 0]
    /\ pc' = [pc EXCEPT ![o] = "count"]
    /\ UNCHANGED <<runVars, scenario, incident, stored, seen, key, place, moved>>

\* The scenario whose turn it is.
Turn(o) == CHOOSE s \in todo[o] : Ahead(s, todo[o]) = {}

\* A plausible bug: a usage key tells the scenarios of one call apart, not the calls.
UsageKeyOfCall(o) == <<Turn(o), grants[o] + 1>>

\* The correlation of consume_budget, {code}:{sequence}.
UsageKey(o) == <<Turn(o), Used + grants[o] + 1>>

\* A plausible bug: the budget is tested once, when the call begins.
CountOnce(o) ==
    /\ pc[o] = "count"
    /\ key' = [key EXCEPT ![o] = UsageKey(o)]
    /\ pc' = [pc EXCEPT ![o] = "consume"]
    /\ place' = [place EXCEPT ![Turn(o)] = grants[o]]
    /\ moved' = (moved \/ grants[o] < place[Turn(o)])
    /\ UNCHANGED <<runVars, scenario, incident, stored, seen, call, todo, grants, calls, together>>

\* entry_count is read for the next scenario, and its usage key made from it.
Count(o) ==
    /\ pc[o] = "count" /\ WithinLimit
    /\ key' = [key EXCEPT ![o] = UsageKey(o)]
    /\ pc' = [pc EXCEPT ![o] = "consume"]
    /\ place' = [place EXCEPT ![Turn(o)] = grants[o]]
    /\ moved' = (moved \/ grants[o] < place[Turn(o)])
    /\ UNCHANGED <<runVars, scenario, incident, stored, seen, call, todo, grants, calls, together>>

Leaves(o) ==
    /\ pc' = [pc EXCEPT ![o] = "idle"] /\ seen' = [seen EXCEPT ![o] = {}]
    /\ todo' = [todo EXCEPT ![o] = {}] /\ key' = [key EXCEPT ![o] = Null]
    /\ UNCHANGED <<call, grants>>

\* Other calls have used the budget up meanwhile: the loop breaks.
Exhausted(o) ==
    /\ pc[o] = "count" /\ ~WithinLimit
    /\ Leaves(o)
    /\ UNCHANGED <<runVars, scenario, incident, stored, history>>

\* consume_budget: an entry of this key is there, or it is inserted.
Consume(o) ==
    /\ pc[o] = "consume"
    /\ ledger' = ledger \cup {key[o]}
    /\ pc' = [pc EXCEPT ![o] = "enqueue"]
    /\ UNCHANGED <<runVars, scenario, incident, refs, jobs, diagnostics, seen, callVars, history>>

\* enqueue_incident_diagnostic for a scenario that is still active: the job is
\* committed by the queue, before the run it names.
Enqueue(o) ==
    /\ pc[o] = "enqueue" /\ Turn(o) \in Active
    /\ jobs' = jobs \cup {<<key[o], call[o]>>}
    /\ pc' = [pc EXCEPT ![o] = "commit"]
    /\ UNCHANGED <<runVars, scenario, incident, refs, ledger, diagnostics, seen, callVars, history>>

\* The run is committed: one more grant, and the next scenario or the end.
Commit(o) ==
    /\ pc[o] = "commit"
    /\ diagnostics' = diagnostics \cup {<<key[o], call[o]>>}
    /\ grants' = [grants EXCEPT ![o] = @ + 1]
    /\ todo' = [todo EXCEPT ![o] = @ \ {Turn(o)}]
    /\ pc' = [pc EXCEPT ![o] = IF todo'[o] = {} THEN "idle" ELSE "count"]
    /\ key' = [key EXCEPT ![o] = Null]
    /\ UNCHANGED <<runVars, scenario, incident, refs, ledger, jobs, seen, call, history>>

\* A step raises: a scenario retired or no monitored URL active, a unique key
\* met by two insertions, the database away; or the process dies.
Fails(o) ==
    /\ pc[o] # "idle"
    /\ Leaves(o)
    /\ UNCHANGED <<runVars, scenario, incident, stored, history>>

-------------------------------------------------------------------------------
Diagnose(o) ==
    \/ \E n \in 1 .. MaxScenarios : Request(o, n)
    \/ Count(o) \/ Exhausted(o) \/ Consume(o) \/ Enqueue(o) \/ Commit(o)

Next ==
    \/ \E r \in Run : Ends(r) \/ \E s \in {"COMPLETE", "FAILED"} : Finalize(r, s)
    \/ \E s \in Scenario : AddScenario(s) \/ Retire(s)
    \/ \E t \in Reported : Open(t)
    \/ \E o \in Operator : Localize(o) \/ Freeze(o) \/ Diagnose(o) \/ Fails(o)

Spec == Init /\ [][Next]_vars

-------------------------------------------------------------------------------
(* Properties.                                                               *)

\* EP-020, "total consumption stays capped by the limit check": the test and
\* the consumption are transactions of their own, so each call under way may go
\* over the limit by one entry, and all of them together by no more.
LedgerBounded == Used <= Limit + Cardinality(Operator) - 1

\* EP-020, "each granted diagnostic has its own auditable entry": every run is
\* paid for before it is there, and two share an entry only if their calls
\* overlapped.  That is so as long as no scenario moves forward among the
\* active ones: usage_key_sequence adds the grants to a count that has them
\* already, so that a scenario after one that was retired meets its old keys.
RunsPaid ==
    /\ \A d \in diagnostics : d[1] \in ledger
    /\ ~moved => \A d, e \in diagnostics : d # e /\ d[1] = e[1] => {d[2], e[2]} \in together

\* INCIDENT.md section 88, the baseline of an open investigation does not
\* drift: with a reported onset, the reference is the last healthy run before it
\* that was stored, however often and by however many it is localised, and a
\* second one is frozen only for a run that had ended and was not stored yet.
OneBaseline == onset # Null =>
    /\ \A x \in refs : ended[x.run] <= onset
    /\ \A x, y \in refs : ended[x.run] < ended[y.run] => y.run \notin x.seen
===============================================================================

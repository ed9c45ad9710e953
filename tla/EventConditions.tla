--------------------------- MODULE EventConditions ---------------------------
(***************************************************************************)
(* One condition of the event engine, app/events: a JavaScript error of one *)
(* page or a missing ad slot of one template, opened, supported and         *)
(* resolved by the DERIVE_BROWSER_EVENTS jobs of the checkpoint runs that   *)
(* observe it.  There is one job for each run; the general worker handles   *)
(* them in any order, more than once when a lease runs out, and with a      *)
(* stale handler beside a new one.  The queue is JobContract, which the     *)
(* rows of jobs/queue.py are proved to implement.                           *)
(*                                                                          *)
(* Windows are numbered in the order of their observations; window 0 is the *)
(* first and has no predecessor.  A run is a pair of window and page, and   *)
(* its predecessor is the page's run of the window before: finalize records *)
(* that lineage for good.  All runs are comparable and end COMPLETE.        *)
(***************************************************************************)
EXTENDS Integers, FiniteSets

CONSTANTS
    Windows,        \* bound on the number of windows after the first
    Page,           \* representative pages of one template
    ErrorPage,      \* the one whose JavaScript errors are looked at
    Histories,      \* the rules looked at, and what the windows show to them
    Worker,         \* processes of the general worker
    MaxAttempts,    \* how often the job of each run may be started
    Null

Run == (1 .. Windows) \X Page

Rules == {"JS_ERROR_STARTED", "GPT_EXPECTED_SLOT_MISSING"}

\* The affected pages, window by window: those with the error or without the slot.
History == Rules \X UNION {[0 .. n -> SUBSET Page] : n \in 1 .. Windows}

ASSUME EventsAssumption ==
    /\ Windows \in Nat
    /\ MaxAttempts \in [Run -> Nat \ {0}]
    /\ IsFiniteSet(Page) /\ ErrorPage \in Page
    /\ Histories \subseteq History
    /\ Null \notin Worker

VARIABLES
    rule,           \* the rule the condition belongs to
    seen,           \* the affected pages of each window
    final,          \* runs that are finalised
    phase, runs, owner,     \* the queue of their jobs
    pc,             \* where each worker's handler is
    job,            \* the run of its job
    action,         \* candidate.action the derivation came to
    found,          \* the condition its transaction has locked
    event,          \* events of the condition
    facts,          \* runs whose own point events are recorded
    overtaken       \* a derivation was out of order: Overtakes, Late

queueVars == <<phase, runs, owner>>
handlerVars == <<pc, job, action, found>>
eventVars == <<event, facts, overtaken>>
vars == <<rule, seen, final, queueVars, handlerVars, eventVars>>

Queue == INSTANCE JobContract WITH
            Job <- Run, Nobody <- Null

\* The runs of window n that observe the condition.
At(n) == {n} \X (IF rule = "JS_ERROR_STARTED" THEN {ErrorPage} ELSE Page)
Last == Cardinality(DOMAIN seen) - 1
Observing == UNION {At(n) : n \in 1 .. Last}

Actions == {"UPSERT", "SUPPORT", "RESOLVE", "NONE"}
Relation == {"TRIGGER_BEFORE", "TRIGGER_AFTER", "SUPPORTING", "RECOVERY"}
Absent == [status |-> "ABSENT", ended |-> 0, refs |-> {}, supporting |-> 0]

TypeOK ==
    /\ <<rule, seen>> \in Histories
    /\ final \subseteq Run /\ facts \subseteq final
    /\ phase \in [Run -> Queue!Phase]
    /\ runs \in [Run -> Nat] /\ \A r \in Run : runs[r] <= MaxAttempts[r]
    /\ owner \in [Run -> Worker \cup {Null}]
    /\ pc \in [Worker -> {"idle", "loading", "persist", "locked", "done", "raised", "failed"}]
    /\ job \in [Worker -> Run \cup {Null}]
    /\ action \in [Worker -> Actions]
    /\ found \in [Worker -> 0 .. Windows]
    /\ event \in [1 .. Windows ->
          [status : {"ABSENT", "ACTIVE", "RESOLVED"}, ended : 0 .. Windows,
           refs : SUBSET (((0 .. Windows) \X Page) \X Relation), supporting : Nat]]
    /\ overtaken \in BOOLEAN
    /\ \A w \in Worker : found[w] # 0 =>
          pc[w] = "locked" /\ event[found[w]].status = "ACTIVE"

Init ==
    /\ \E h \in Histories : rule = h[1] /\ seen = h[2]
    /\ final = {} /\ facts = {} /\ overtaken = FALSE
    /\ Queue!Init
    /\ pc = [w \in Worker |-> "idle"]
    /\ job = [w \in Worker |-> Null]
    /\ action = [w \in Worker |-> "NONE"]
    /\ found = [w \in Worker |-> 0]
    /\ event = [e \in 1 .. Windows |-> Absent]

------------------------------------------------------------------------------
(* What an observation says of the condition: evaluator.py.                  *)

\* _js_candidates.  The first affected run is only PENDING.
JsAction(n) ==
    IF ErrorPage \notin seen[n - 1] THEN "NONE"
    ELSE IF ErrorPage \notin seen[n] THEN "RESOLVE"
    ELSE IF n > 1 /\ ErrorPage \notin seen[n - 2] THEN "UPSERT" ELSE "SUPPORT"

\* min_affected_urls and min_valid_urls of the rule.
MinAffected == 2
MinValid == 2

\* The pages that miss the slot in window n and had it in the window before.
Lost(n) == seen[n] \ seen[n - 1]

\* _gpt_window_candidates over the pages of a window that is COMPLETE.
GptAction(n) ==
    IF Cardinality(Page) < MinValid THEN "NONE"
    ELSE IF seen[n] = {} THEN "RESOLVE"
    ELSE IF Cardinality(seen[n]) < MinAffected THEN "NONE"
    ELSE IF Cardinality(Lost(n)) >= MinAffected THEN "UPSERT" ELSE "SUPPORT"

Action(n) == IF rule = "JS_ERROR_STARTED" THEN JsAction(n) ELSE GptAction(n)

\* The evidence of a condition that window n opens.
JsTrigger(n) == (At(n - 2) \X {"TRIGGER_BEFORE"}) \cup (At(n - 1) \X {"TRIGGER_AFTER"})
                    \cup (At(n) \X {"SUPPORTING"})
GptTrigger(n) == (({n - 1} \X Lost(n)) \X {"TRIGGER_BEFORE"})
                    \cup (({n} \X seen[n]) \X {"TRIGGER_AFTER"})
Trigger(n) == IF rule = "JS_ERROR_STARTED" THEN JsTrigger(n) ELSE GptTrigger(n)

------------------------------------------------------------------------------
(* The events of the condition: persistence.py.                              *)

\* _condition_event_id: one event for each trigger, and detected_at is that of
\* window n.
EventId(n) == n

Active == {e \in DOMAIN event : event[e].status = "ACTIVE"}
Linked(e) == {ref[1] : ref \in event[e].refs}

\* A plausible bug: evidence that is linked already is counted again.
AddedAnyhow(e, S) == S

\* _insert_candidate_evidence with skip_linked_checkpoints.
Added(e, S) == S \ Linked(e)

\* A condition is inserted by window n.
Opened(n) == [event EXCEPT ![EventId(n)] =
    [status |-> "ACTIVE", ended |-> 0, refs |-> Trigger(n),
     supporting |-> Cardinality({ref \in Trigger(n) : ref[2] # "TRIGGER_BEFORE"})]]

\* The affected runs of window n's candidate support condition e.
Affected(n) ==
    IF Action(n) = "UPSERT" THEN {ref[1] : ref \in {t \in Trigger(n) : t[2] # "TRIGGER_BEFORE"}}
                            ELSE At(n) \cap ({n} \X seen[n])
Supported(e, n) == [event EXCEPT
    ![e].refs = @ \cup (Added(e, Affected(n)) \X {"SUPPORTING"}),
    ![e].supporting = @ + Cardinality(Added(e, Affected(n)))]

\* _resolve_condition: the observation is not older than the condition, and one
\* of its runs is not yet linked.
Recovers(e, n) == n >= e /\ At(n) \ Linked(e) # {}
Resolved(e, n) == [event EXCEPT
    ![e].status = "RESOLVED", ![e].ended = n,
    ![e].refs = @ \cup ((At(n) \ Linked(e)) \X {"RECOVERY"})]

------------------------------------------------------------------------------
(* Runs and their jobs.                                                      *)

\* finalize inserts the derivation job; windows follow one another.
Finalize(r) ==
    /\ r \in Observing \ final
    /\ \A q \in Observing : q[1] < r[1] => q \in final
    /\ final' = final \cup {r}
    /\ Queue!Submit(r)
    /\ UNCHANGED <<rule, seen, handlerVars, eventVars>>

Claim(w, r) ==
    /\ pc[w] = "idle"
    /\ Queue!Start(r, w)
    /\ pc' = [pc EXCEPT ![w] = "loading"]
    /\ job' = [job EXCEPT ![w] = r]
    /\ UNCHANGED <<rule, seen, final, action, found, eventVars>>

\* The lease of a handler that takes long enough runs out, and the job is started
\* again beside it.  A worker that dies is one whose job is taken back before it
\* reports: before the commit its transaction is rolled back, as in Fails.
TakeBack(r) ==
    /\ Queue!TakeBack({r})
    /\ UNCHANGED <<rule, seen, final, handlerVars, eventVars>>

------------------------------------------------------------------------------
(* The handler, _handle_browser_events_job.                                  *)

Goes(w, s, t) == pc[w] = s /\ pc' = [pc EXCEPT ![w] = t]

Complete(n) == At(n) \subseteq final

\* A plausible bug: the job of one run evaluates the window for all.
EvaluatesFirst(r) == rule = "JS_ERROR_STARTED" \/ (Complete(r[1]) /\ r[2] = ErrorPage)

\* load_input and load_window_inputs: a run by itself always, the whole window
\* only when it is COMPLETE.
Evaluates(r) == rule = "JS_ERROR_STARTED" \/ Complete(r[1])

Load(w) ==
    /\ Goes(w, "loading", "persist")
    /\ action' = [action EXCEPT ![w] =
                    IF Evaluates(job[w]) THEN Action(job[w][1]) ELSE "NONE"]
    /\ UNCHANGED <<rule, seen, final, queueVars, job, found, eventVars>>

\* A plausible bug: no FOR UPDATE.
NeverLocked(e) == FALSE

Locked(e) == \E v \in Worker : pc[v] = "locked" /\ found[v] = e

\* Ghost: the evidence of an earlier window is not all derived yet.
Overtakes(w) == \E q \in Observing : q[1] < job[w][1] /\ q \notin facts

\* Ghost: an onset without an event of its own is derived again after a later
\* window.  Its first derivation had supported the condition that was active then.
Late(w) ==
    /\ action[w] = "UPSERT" /\ event[EventId(job[w][1])].status = "ABSENT"
    /\ \E q \in facts : q[1] > job[w][1]

\* A plausible bug: FOR UPDATE SKIP LOCKED, as in the queue.
LookupSkipLocked(w) ==
    /\ Goes(w, "persist", "locked")
    /\ IF action[w] = "NONE" \/ \A e \in Active : Locked(e)
       THEN UNCHANGED found
       ELSE \E e \in Active : ~Locked(e) /\ found' = [found EXCEPT ![w] = e]
    /\ overtaken' = (overtaken \/ Overtakes(w) \/ Late(w))
    /\ UNCHANGED <<rule, seen, final, queueVars, job, action, event, facts>>

\* _active_condition ... FOR UPDATE.  It waits for the lock of another
\* transaction, and does not see what is not committed yet.
Lookup(w) ==
    /\ Goes(w, "persist", "locked")
    /\ IF action[w] = "NONE" \/ Active = {}
       THEN UNCHANGED found
       ELSE \E e \in Active : ~Locked(e) /\ found' = [found EXCEPT ![w] = e]
    /\ overtaken' = (overtaken \/ Overtakes(w) \/ Late(w))
    /\ UNCHANGED <<rule, seen, final, queueVars, job, action, event, facts>>

\* The transaction commits: the run's own point events are recorded with it.
Commits(w) ==
    /\ Goes(w, "locked", "done")
    /\ facts' = facts \cup {job[w]}
    /\ found' = [found EXCEPT ![w] = 0]
    /\ action' = [action EXCEPT ![w] = "NONE"]
    /\ UNCHANGED <<rule, seen, final, queueVars, job, overtaken>>

\* Nothing to do for this observation.
Ignore(w) ==
    /\ \/ action[w] = "NONE"
       \/ found[w] = 0 /\ action[w] \in {"SUPPORT", "RESOLVE"}
       \/ found[w] # 0 /\ action[w] = "RESOLVE" /\ ~Recovers(found[w], job[w][1])
    /\ Commits(w)
    /\ UNCHANGED event

\* A plausible bug: without the partial unique index only the id can conflict.
ConflictOfId(n) == event[EventId(n)].status # "ABSENT"

\* The insertion meets neither an event of this identity nor, in the partial
\* unique index, an active one of this key.
Conflict(n) == event[EventId(n)].status # "ABSENT" \/ Active # {}

Open(w) ==
    /\ action[w] = "UPSERT" /\ found[w] = 0
    /\ ~Conflict(job[w][1])
    /\ Commits(w)
    /\ event' = Opened(job[w][1])

\* An active condition gets the evidence: the one that was locked or, after a
\* conflict, the one that is read again.
Support(w) ==
    /\ action[w] \in {"UPSERT", "SUPPORT"}
    /\ \/ found[w] # 0 /\ event' = Supported(found[w], job[w][1])
       \/ /\ found[w] = 0 /\ action[w] = "UPSERT" /\ Conflict(job[w][1])
          /\ \E e \in Active : ~Locked(e) /\ event' = Supported(e, job[w][1])
    /\ Commits(w)

Resolve(w) ==
    /\ action[w] = "RESOLVE" /\ found[w] # 0
    /\ Recovers(found[w], job[w][1])
    /\ Commits(w)
    /\ event' = Resolved(found[w], job[w][1])

\* A plausible bug: after a conflict the winner's event is not read.
RaiseUnread(w) ==
    /\ action[w] = "UPSERT" /\ found[w] = 0
    /\ Conflict(job[w][1])
    /\ Goes(w, "locked", "raised")
    /\ action' = [action EXCEPT ![w] = "NONE"]
    /\ UNCHANGED <<rule, seen, final, queueVars, job, found, eventVars>>

\* EventStateError: the event of this trigger is there, and resolved.  The whole
\* transaction is rolled back and the job fails for good.
Raise(w) ==
    /\ action[w] = "UPSERT" /\ found[w] = 0
    /\ Conflict(job[w][1]) /\ Active = {}
    /\ Goes(w, "locked", "raised")
    /\ action' = [action EXCEPT ![w] = "NONE"]
    /\ UNCHANGED <<rule, seen, final, queueVars, job, found, eventVars>>

\* Any other exception, of the database for instance.
Fails(w) ==
    /\ pc[w] \in {"loading", "persist", "locked"}
    /\ pc' = [pc EXCEPT ![w] = "failed"]
    /\ action' = [action EXCEPT ![w] = "NONE"]
    /\ found' = [found EXCEPT ![w] = 0]
    /\ UNCHANGED <<rule, seen, final, queueVars, job, eventVars>>

\* The handler is over: pc, job and found are as before the claim.
Leaves(w) ==
    /\ pc' = [pc EXCEPT ![w] = "idle"]
    /\ job' = [job EXCEPT ![w] = Null]
    /\ action' = [action EXCEPT ![w] = "NONE"]
    /\ found' = [found EXCEPT ![w] = 0]
    /\ UNCHANGED <<rule, seen, final, eventVars>>

\* complete or fail_or_retry; a worker that is not the owner changes nothing.
Report(w) ==
    /\ pc[w] \in {"done", "raised", "failed"}
    /\ LET r == job[w]
           dead == pc[w] = "raised" \/ runs[r] = MaxAttempts[r]
       IN \/ pc[w] = "done" /\ Queue!Succeed(r, w)
          \/ /\ pc[w] # "done" /\ Queue!Fail(r, w)
             /\ phase'[r] = IF dead THEN "dead" ELSE "waiting"
          \/ owner[r] # w /\ UNCHANGED queueVars
    /\ Leaves(w)

Next ==
    \/ \E r \in Run : Finalize(r) \/ TakeBack(r)
    \/ \E w \in Worker :
          \/ \E r \in Run : Claim(w, r)
          \/ Load(w) \/ Lookup(w)
          \/ Ignore(w) \/ Open(w) \/ Support(w) \/ Resolve(w) \/ Raise(w)
          \/ Fails(w) \/ Report(w)

Spec == Init /\ [][Next]_vars

------------------------------------------------------------------------------
(* Properties.                                                               *)

\* "Recovery closes conditions without erasing history": nothing a stale,
\* repeated or late derivation does touches a resolved event.
HistoryStays == [][
    \A e \in DOMAIN event : event[e].status = "RESOLVED" => event'[e] = event[e]]_vars

\* supporting_count is the number of affected runs that are linked, however
\* often and by however many jobs a run was brought as evidence.
SupportCounted == \A e \in DOMAIN event :
    event[e].supporting =
        Cardinality({ref \in event[e].refs : ref[2] \in {"TRIGGER_AFTER", "SUPPORTING"}})

\* EP-016, "at least one derivation after window completion evaluates the
\* complete valid cohort": when the runs of a window are derived, an onset they
\* show has an event that the affected ones are evidence of.
OnsetRecorded == \A n \in 1 .. Last :
    At(n) \subseteq facts /\ Action(n) = "UPSERT" =>
        \E e \in DOMAIN event : Affected(n) \subseteq Linked(e)

\* Whether the condition is there after window n, by the rules alone: a window
\* opened it and no later one resolved it.
Present(n) == \E m \in 1 .. n :
    Action(m) = "UPSERT" /\ \A k \in m .. n : Action(k) # "RESOLVE"

\* The events agree with the rules once the windows so far are derived.
Agrees == \A n \in 1 .. Last :
    UNION {At(m) : m \in 1 .. n} = final /\ facts = final => (Active # {} <=> Present(n))

\* As long as no derivation is overtaken by one of a later window, and no onset
\* that had no event of its own is derived after one, the events agree with the
\* rules: repeats, races of sibling runs and failures alone lose and invent nothing.
OrderlyAgrees == ~overtaken => Agrees

\* A derivation fails for good only when a later window's was committed before
\* it: repeats and races alone never fail a job that has its evidence.
OnlyOvertakenRaise == \A w \in Worker :
    pc[w] = "raised" => \E q \in facts : q[1] > job[w][1]

\* The events are a ConditionStore: EP-016, "reprocessing or concurrent jobs can
\* create at most one active row for that identity", and "a later recurrence creates
\* a new active event".  All the events here are of one condition.
Conditions == [e \in {d \in DOMAIN event : event[d].status # "ABSENT"} |->
    [status |-> event[e].status, refs |-> Linked(e)]]
Store == INSTANCE ConditionStore WITH
            Id <- 1 .. Windows, KeyOf <- [e \in 1 .. Windows |-> Null],
            Observation <- (0 .. Windows) \X Page, record <- Conditions
KeepsConditions == Store!Spec
==============================================================================

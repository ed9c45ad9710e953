------------------------------ MODULE Checkpoint ------------------------------
(***************************************************************************)
(* The life of a browser checkpoint: a run and its window are inserted by   *)
(* the scheduler, an operator or an incident, a BROWSER_CHECKPOINT job is   *)
(* queued for the run, and a browser worker begins an attempt, loads the    *)
(* page, writes the evidence to S3 and finalises the run.                   *)
(*                                                                          *)
(* Run rows, job rows and S3 objects are three stores with no transaction   *)
(* in common: each action below is one transaction, one statement of the    *)
(* queue or one batch of PUTs, and a process may die between any two.  A    *)
(* worker whose lease was reclaimed goes on until its handler ends, beside  *)
(* the worker that has the run now.                                         *)
(*                                                                          *)
(* The idempotency key browser-checkpoint:{run} gives a run at most one job *)
(* row, so the queue's rows and keys are named by their runs.  Windows of   *)
(* six hours are numbered 1 .. Slots in their order; each diagnostic run    *)
(* has a five-minute window of its own.  COMPLETE stands for every final    *)
(* status the evidence may have but BROWSER_ERROR: the code tells no others *)
(* apart.                                                                   *)
(***************************************************************************)
EXTENDS Integers, FiniteSets

CONSTANTS
    Run,            \* checkpoint runs that may ever be inserted
    Scheduled,      \* those with observation_kind = 'SCHEDULED'
    Incident,       \* 'INCIDENT_DIAGNOSTIC'; the others are 'DIAGNOSTIC'
    Windows,        \* number of windows
    Slots,          \* how many of them are six-hour windows
    WindowOf,       \* checkpoint_runs.checkpoint_window_id
    RunCap,         \* DEFAULT_CHECKPOINTS_PER_SITE_WINDOW
    Worker,         \* browser worker processes
    LeaseTicks,     \* settings.job_lease_seconds
    BackoffTicks,   \* settings.job_reclaim_backoff_seconds
    Null

Diagnostic == Run \ (Scheduled \cup Incident)
Window == 1 .. Windows

ASSUME CheckpointAssumption ==
    /\ Scheduled \subseteq Run /\ Incident \subseteq Run
    /\ Scheduled \cap Incident = {}
    /\ Slots \in Nat /\ Windows \in Nat
    /\ WindowOf \in [Run -> Window]
    /\ \A r \in Run : r \in Scheduled <=> WindowOf[r] <= Slots
    /\ \A r, s \in Run : r \notin Scheduled /\ WindowOf[r] = WindowOf[s] => r = s
    /\ RunCap \in Nat \ {0}
    /\ LeaseTicks \in Nat /\ BackoffTicks \in Nat
    /\ Null \notin Int \cup Run \cup Worker
    /\ Null \notin [job : Run, token : Nat, attempt : Nat]

VARIABLES
    status, key, attempt, token, expires, due, lease, fresh,  \* the queue
    run,            \* checkpoint_runs.status; "ABSENT" until the row is inserted
    att,            \* checkpoint_attempts.status of each attempt number
    window,         \* checkpoint_windows.status
    rows,           \* the attempt whose digests the run's artifact rows carry
    objects,        \* the attempt whose bytes lie under the run's artifact keys
    manifest,       \* ... and under its manifest.json
    derive,         \* runs with a DERIVE_BROWSER_EVENTS job
    cost,           \* runs with a CHECKPOINT_RUN usage entry
    monitoring,     \* sites.monitoring_state
    watermark,      \* the window current at sites.monitoring_state_updated_at
    current,        \* the six-hour window the clock is in
    pass,           \* the window of the scheduler's `instant`, 0 between passes
    todo,           \* scheduled_runs the scheduler has yet to enqueue
    calls,          \* diagnostic requests between their two transactions
    pc,             \* where each worker's handle_browser_job is
    found           \* evidence.status, while the handler carries it

queueVars == <<status, key, attempt, token, expires, due, lease, fresh>>
runVars == <<run, att, window, rows, derive>>
storeVars == <<objects, manifest>>
planVars == <<monitoring, watermark, current, pass, todo, calls>>
handlerVars == <<pc, found>>
vars == <<queueVars, runVars, storeVars, cost, planVars, handlerVars>>

\* max_attempts = 2 in every enqueue of a BROWSER_CHECKPOINT job.
CheckpointAttempts == 2

Q == INSTANCE JobQueue WITH
        Job <- Run, Key <- Run, BrowserJob <- Run, BrowserWorker <- Worker,
        MaxAttempts <- [r \in Run |-> CheckpointAttempts], DelayTicks <- 0

Final == {"COMPLETE", "BROWSER_ERROR", "SKIPPED"}
Verdict == {"COMPLETE", "PARTIAL", "FAILED"}
RunStatus == {"ABSENT", "PENDING", "RUNNING"} \cup Final
AttemptStatus == {"NONE", "RUNNING"} \cup Final
WindowStatus == {"ABSENT", "SCHEDULED", "RUNNING"} \cup Verdict
Steps == {"idle", "claimed", "browsing", "storing", "manifest", "finalizing",
          "failing", "done", "release", "rejected"}

TypeOK ==
    /\ Q!TypeOK
    /\ run \in [Run -> RunStatus]
    /\ att \in [Run -> [1 .. CheckpointAttempts -> AttemptStatus]]
    /\ window \in [Window -> WindowStatus]
    /\ rows \in [Run -> 0 .. CheckpointAttempts]
    /\ objects \in [Run -> 0 .. CheckpointAttempts]
    /\ manifest \in [Run -> 0 .. CheckpointAttempts]
    /\ derive \subseteq Run /\ cost \subseteq Run
    /\ monitoring \in {"ON", "OFF"}
    /\ watermark \in 0 .. Slots /\ current \in 0 .. Slots /\ pass \in 0 .. Slots
    /\ todo \subseteq Scheduled /\ calls \subseteq Run \ Scheduled
    /\ pc \in [Worker -> Steps]
    /\ found \in [Worker -> {"COMPLETE", "BROWSER_ERROR", Null}]

Init ==
    /\ Q!Init
    /\ run = [r \in Run |-> "ABSENT"]
    /\ att = [r \in Run |-> [n \in 1 .. CheckpointAttempts |-> "NONE"]]
    /\ window = [x \in Window |-> "ABSENT"]
    /\ rows = [r \in Run |-> 0]
    /\ objects = [r \in Run |-> 0]
    /\ manifest = [r \in Run |-> 0]
    /\ derive = {} /\ cost = {}
    /\ monitoring = "OFF" /\ watermark = 0
    /\ current = 0 /\ pass = 0 /\ todo = {} /\ calls = {}
    /\ pc = [w \in Worker |-> "idle"]
    /\ found = [w \in Worker |-> Null]

------------------------------------------------------------------------------
(* Windows.                                                                 *)

Inserted(x, st) == {r \in Run : WindowOf[r] = x /\ st[r] # "ABSENT"}

\* What _refresh_window_status computes from the run statuses st.
Summary(x, st) ==
    LET seen == {st[r] : r \in Inserted(x, st)} IN
    IF seen \subseteq {"PENDING"} THEN "SCHEDULED"
    ELSE IF seen = {"BROWSER_ERROR"} THEN "FAILED"
    ELSE IF ~(seen \subseteq Final) THEN "RUNNING"
    ELSE IF "BROWSER_ERROR" \in seen THEN "PARTIAL"
    ELSE "COMPLETE"

\* A plausible bug: the statuses are read before the run's own is flushed.
RefreshUnflushed(r, st) ==
    window' = [window EXCEPT ![WindowOf[r]] = Summary(WindowOf[r], run)]

\* _refresh_window_status, last in the transaction that gives r its status in st;
\* the window row is locked and statuses are read under that lock.
Refresh(r, st) ==
    window' = [window EXCEPT ![WindowOf[r]] = Summary(WindowOf[r], st)]

\* A plausible bug: a run starts with the status of its window.
InsertAsScheduled(S, x) ==
    /\ run' = [r \in Run |-> IF r \in S /\ run[r] = "ABSENT" THEN "SCHEDULED" ELSE run[r]]
    /\ window' = [window EXCEPT ![x] = IF @ = "ABSENT" THEN "SCHEDULED" ELSE @]
    /\ UNCHANGED <<att, rows, derive>>

\* Run rows of S are inserted unless they exist, and so is their window x.
Insert(S, x) ==
    /\ run' = [r \in Run |-> IF r \in S /\ run[r] = "ABSENT" THEN "PENDING" ELSE run[r]]
    /\ window' = [window EXCEPT ![x] = IF @ = "ABSENT" THEN "SCHEDULED" ELSE @]
    /\ UNCHANGED <<att, rows, derive>>

------------------------------------------------------------------------------
(* The scheduler.                                                           *)

\* breaker_open_for_usage over the usage entries of window x.
BreakerOpen(x) == Cardinality({r \in cost : WindowOf[r] = x}) >= RunCap

\* The clock enters the next six-hour window.
NextWindow ==
    /\ current < Slots
    /\ current' = current + 1
    /\ UNCHANGED <<queueVars, runVars, storeVars, cost, handlerVars,
                   monitoring, watermark, pass, todo, calls>>

\* set_monitoring_state.  The new watermark is read before the site row is
\* locked, so a boundary may pass between the two; a request for the state the
\* site has already changes nothing.
SetMonitoring(at) ==
    /\ at \in {current - 1, current} /\ at >= 0
    /\ monitoring' = IF monitoring = "ON" THEN "OFF" ELSE "ON"
    /\ watermark' = at
    /\ UNCHANGED <<queueVars, runVars, storeVars, cost, handlerVars,
                   current, pass, todo, calls>>

\* schedule_due takes its instant, to which the whole pass keeps.
StartPass ==
    /\ pass = 0 /\ todo = {} /\ current > 0
    /\ pass' = current
    /\ UNCHANGED <<queueVars, runVars, storeVars, cost, handlerVars,
                   monitoring, watermark, current, todo, calls>>

\* _materialize_site under the lock of the site row.  S are the runs of the
\* URLs and scenarios that are active now: one added since the last pass gets
\* its run in a window whose other runs may be over.
Materialize(S) ==
    /\ pass # 0
    /\ S \subseteq {r \in Scheduled : WindowOf[r] = pass}
    /\ pass' = 0
    /\ \/ /\ monitoring = "ON" /\ pass > watermark /\ ~BreakerOpen(pass)
          /\ Insert(S, pass)
          /\ todo' = S
       \/ /\ monitoring = "OFF" \/ pass <= watermark \/ BreakerOpen(pass)
          /\ S = {}
          /\ UNCHANGED <<runVars, todo>>
    /\ UNCHANGED <<queueVars, storeVars, cost, handlerVars,
                   monitoring, watermark, current, calls>>

\* The loop at the end of schedule_due, one transaction for each run.
EnqueueRun(r) ==
    /\ r \in todo
    /\ \/ Q!Enqueue(r, r, 0)
       \/ ~Q!KeyFree(r) /\ UNCHANGED queueVars
    /\ todo' = todo \ {r}
    /\ UNCHANGED <<runVars, storeVars, cost, handlerVars,
                   monitoring, watermark, current, pass, calls>>

\* The scheduler process dies, or an exception ends the pass.
SchedulerDies ==
    /\ pass # 0 \/ todo # {}
    /\ pass' = 0 /\ todo' = {}
    /\ UNCHANGED <<queueVars, runVars, storeVars, cost, handlerVars,
                   monitoring, watermark, current, calls>>

------------------------------------------------------------------------------
(* Diagnostic runs.                                                         *)

\* register_and_enqueue commits the run, then queues its job.
Register(r) ==
    /\ r \in Diagnostic /\ run[r] = "ABSENT"
    /\ Insert({r}, WindowOf[r])
    /\ calls' = calls \cup {r}
    /\ UNCHANGED <<queueVars, storeVars, cost, handlerVars,
                   monitoring, watermark, current, pass, todo>>

RegisterEnqueues(r) ==
    /\ r \in calls \cap Diagnostic
    /\ Q!Enqueue(r, r, 0)
    /\ calls' = calls \ {r}
    /\ UNCHANGED <<runVars, storeVars, cost, handlerVars,
                   monitoring, watermark, current, pass, todo>>

\* The operator's registration form does both in one transaction.
RegisterOperatorSite(r) ==
    /\ r \in Diagnostic /\ run[r] = "ABSENT"
    /\ Insert({r}, WindowOf[r])
    /\ Q!Enqueue(r, r, 0)
    /\ UNCHANGED <<storeVars, cost, handlerVars, planVars>>

\* enqueue_incident_diagnostic calls queue.enqueue, which commits the job in a
\* transaction of its own, inside the transaction that inserts the run ...
IncidentEnqueues(r) ==
    /\ r \in Incident /\ r \notin calls
    /\ Q!Enqueue(r, r, 0)
    /\ calls' = calls \cup {r}
    /\ UNCHANGED <<runVars, storeVars, cost, handlerVars,
                   monitoring, watermark, current, pass, todo>>

\* ... and the run appears when that one commits.
IncidentCommits(r) ==
    /\ r \in calls \cap Incident
    /\ Insert({r}, WindowOf[r])
    /\ calls' = calls \ {r}
    /\ UNCHANGED <<queueVars, storeVars, cost, handlerVars,
                   monitoring, watermark, current, pass, todo>>

\* The calling process dies, or its second transaction fails.
CallDies(r) ==
    /\ r \in calls
    /\ calls' = calls \ {r}
    /\ UNCHANGED <<queueVars, runVars, storeVars, cost, handlerVars,
                   monitoring, watermark, current, pass, todo>>

------------------------------------------------------------------------------
(* A browser worker: handle_browser_job, one action per transaction.        *)

Mine(w) == lease[w].job
Number(w) == lease[w].attempt

\* The worker's handler is at step s and goes on to step t.
Moves(w, s, t) == pc[w] = s /\ pc' = [pc EXCEPT ![w] = t]

Retryable(w) == Number(w) < CheckpointAttempts

\* A plausible bug: a worker asks only about its own attempt.
StillOpenByAttempt(r, n) == att[r][n] = "RUNNING"

\* _locked_run_and_attempt, and the same test in record_retryable_failure.
StillOpen(r, n) == run[r] = "RUNNING" /\ att[r][n] = "RUNNING"

\* The transaction gives attempt n of r the status a and the run the status s.
Settle(r, n, a, s) ==
    /\ att' = [att EXCEPT ![r][n] = a]
    /\ run' = [run EXCEPT ![r] = s]

ClaimJob(w, r) ==
    /\ Q!Claim(w, r)
    /\ Moves(w, "idle", "claimed")
    /\ UNCHANGED <<runVars, storeVars, cost, planVars, found>>

\* A plausible bug: a run that is over may be begun again.
AdmittedAgain(r, n) == run[r] # "ABSENT" /\ att[r][n] = "NONE"

\* What begin_attempt lets in: a run that is not final and has no such attempt.
\* Of the others it raises CheckpointStateError, unless the run was skipped.
Admitted(r, n) == run[r] \in {"PENDING", "RUNNING"} /\ att[r][n] = "NONE"

RejectAttempt(w) ==
    /\ Moves(w, "claimed", "rejected")
    /\ ~Admitted(Mine(w), Number(w)) /\ run[Mine(w)] # "SKIPPED"
    /\ UNCHANGED <<queueVars, runVars, storeVars, cost, planVars, found>>

\* begin_attempt raises CheckpointSkippedError: the run was skipped before and
\* its job comes back, or monitoring went off after the run was queued and
\* _terminalize_skipped ends run and attempt.  The job is done either way.
SkipAttempt(w) ==
    /\ Moves(w, "claimed", "done")
    /\ \/ run[Mine(w)] = "SKIPPED" /\ UNCHANGED runVars
       \/ /\ Admitted(Mine(w), Number(w))
          /\ Mine(w) \in Scheduled /\ monitoring = "OFF"
          /\ Settle(Mine(w), Number(w), "SKIPPED", "SKIPPED")
          /\ Refresh(Mine(w), run')
          /\ UNCHANGED <<rows, derive>>
    /\ UNCHANGED <<queueVars, storeVars, cost, planVars, found>>

\* begin_attempt: a run left RUNNING by a dead worker is begun again, and the
\* older attempt row stays RUNNING.
BeginAttempt(w) ==
    /\ Moves(w, "claimed", "browsing")
    /\ Admitted(Mine(w), Number(w))
    /\ Mine(w) \notin Scheduled \/ monitoring = "ON"
    /\ Settle(Mine(w), Number(w), "RUNNING", "RUNNING")
    /\ window' = [window EXCEPT ![WindowOf[Mine(w)]] = "RUNNING"]
    /\ UNCHANGED <<queueVars, storeVars, cost, planVars, found, rows, derive>>

\* runner.run returns evidence with status o or raises (o = Null), and the cost
\* of the run is recorded, once, before anything else is.
Browse(w, o) ==
    /\ Moves(w, "browsing",
             IF o = Null \/ (o = "BROWSER_ERROR" /\ Retryable(w)) THEN "failing" ELSE "storing")
    /\ found' = [found EXCEPT ![w] = o]
    /\ cost' = cost \cup {Mine(w)}
    /\ UNCHANGED <<queueVars, runVars, storeVars, planVars>>

\* The PUTs of the artifacts.  The keys name the run but not the attempt.  A
\* PUT that raises may have stored the bytes.
PutArtifacts(w) ==
    /\ \/ /\ Moves(w, "storing", "manifest") \/ Moves(w, "storing", "failing")
          /\ objects' = [objects EXCEPT ![Mine(w)] = Number(w)]
       \/ Moves(w, "storing", "failing") /\ UNCHANGED objects
    /\ UNCHANGED <<queueVars, runVars, manifest, cost, planVars, found>>

\* A plausible bug: the rows are committed before the manifest is stored.
PutManifestLater(w) ==
    /\ Moves(w, "manifest", "finalizing")
    /\ UNCHANGED <<queueVars, runVars, storeVars, cost, planVars, found>>

\* The PUT of manifest.json.
PutManifest(w) ==
    /\ \/ /\ Moves(w, "manifest", "finalizing") \/ Moves(w, "manifest", "failing")
          /\ manifest' = [manifest EXCEPT ![Mine(w)] = Number(w)]
       \/ Moves(w, "manifest", "failing") /\ UNCHANGED manifest
    /\ UNCHANGED <<queueVars, runVars, objects, cost, planVars, found>>

\* finalize: artifact rows, observations, both statuses, the derivation job of
\* a scheduled or diagnostic run and the window, in one transaction.
Finalize(w) ==
    /\ Moves(w, "finalizing", "done")
    /\ StillOpen(Mine(w), Number(w))
    /\ Settle(Mine(w), Number(w), found[w], found[w])
    /\ rows' = [rows EXCEPT ![Mine(w)] = Number(w)]
    /\ derive' = IF Mine(w) \in Incident THEN derive ELSE derive \cup {Mine(w)}
    /\ Refresh(Mine(w), run')
    /\ UNCHANGED <<queueVars, storeVars, cost, planVars, found>>

\* A plausible bug: the handler reports success all the same.
FinalizeFailsQuietly(w) ==
    /\ Moves(w, "finalizing", "done")
    /\ UNCHANGED <<queueVars, runVars, storeVars, cost, planVars, found>>

\* finalize refuses, or fails otherwise: nothing is committed.
FinalizeFails(w) ==
    /\ Moves(w, "finalizing", "failing")
    /\ UNCHANGED <<queueVars, runVars, storeVars, cost, planVars, found>>

\* A plausible bug: the last attempt is given back like the others.
RecordFailureAsRetry(w) ==
    /\ Moves(w, "failing", "release")
    /\ StillOpen(Mine(w), Number(w))
    /\ Settle(Mine(w), Number(w), "BROWSER_ERROR", "PENDING")
    /\ UNCHANGED <<queueVars, storeVars, cost, planVars, found, window, rows, derive>>

\* record_retryable_failure, which leaves the window as it is, or on the last
\* attempt finalize_terminal_failure.
RecordFailure(w) ==
    /\ Moves(w, "failing", "release")
    /\ StillOpen(Mine(w), Number(w))
    /\ \/ /\ Retryable(w)
          /\ Settle(Mine(w), Number(w), "BROWSER_ERROR", "PENDING")
          /\ UNCHANGED window
       \/ /\ ~Retryable(w)
          /\ Settle(Mine(w), Number(w), "BROWSER_ERROR", "BROWSER_ERROR")
          /\ Refresh(Mine(w), run')
    /\ UNCHANGED <<queueVars, storeVars, cost, planVars, found, rows, derive>>

\* Any other step of the handler that raises ends the process, and so does
\* CheckpointStateError where the failure is recorded: nothing catches it.
WorkerDies(w) ==
    /\ Q!Crash(w)
    /\ pc' = [pc EXCEPT ![w] = "idle"] /\ found' = [found EXCEPT ![w] = Null]
    /\ UNCHANGED <<runVars, storeVars, cost, planVars>>

\* The handler's last call, queue.complete or queue.fail_or_retry.
Report(w) ==
    /\ \/ Moves(w, "done", "idle") /\ Q!Complete(w)
       \/ Moves(w, "release", "idle") /\ Q!FailOrRetry(w, Retryable(w))
       \/ Moves(w, "rejected", "idle") /\ Q!FailOrRetry(w, FALSE)
    /\ found' = [found EXCEPT ![w] = Null]
    /\ UNCHANGED <<runVars, storeVars, cost, planVars>>

\* A plausible bug: the worker loop claims without reclaiming.
QueueStepWithoutReclaim ==
    /\ (\E w \in Worker : Q!Heartbeat(w)) \/ Q!Tick
    /\ UNCHANGED <<runVars, storeVars, cost, planVars, handlerVars>>

\* The heartbeat task, the reclaim before each claim, and the clock.
QueueStep ==
    /\ \/ \E w \in Worker : Q!Heartbeat(w)
       \/ \E S \in SUBSET Q!Expired : Q!ReclaimExpired(S)
       \/ Q!Tick
    /\ UNCHANGED <<runVars, storeVars, cost, planVars, handlerVars>>

------------------------------------------------------------------------------
SchedulerStep ==
    \/ StartPass
    \/ \E S \in SUBSET Scheduled : Materialize(S)
    \/ \E r \in Run : EnqueueRun(r)

HandlerStep(w) ==
    \/ RejectAttempt(w) \/ SkipAttempt(w) \/ BeginAttempt(w)
    \/ \E o \in {"COMPLETE", "BROWSER_ERROR", Null} : Browse(w, o)
    \/ PutArtifacts(w) \/ PutManifest(w)
    \/ Finalize(w) \/ FinalizeFails(w) \/ RecordFailure(w)
    \/ WorkerDies(w) \/ Report(w)

Next ==
    \/ NextWindow
    \/ \E at \in 0 .. Slots : SetMonitoring(at)
    \/ SchedulerStep \/ SchedulerDies
    \/ \E r \in Run :
          \/ Register(r) \/ RegisterEnqueues(r) \/ RegisterOperatorSite(r)
          \/ IncidentEnqueues(r) \/ IncidentCommits(r)
          \/ CallDies(r)
    \/ \E w \in Worker : HandlerStep(w) \/ \E r \in Run : ClaimJob(w, r)
    \/ QueueStep

Spec == Init /\ [][Next]_vars

\* The queue's fairness: time passes, every worker polls and its handlers end.
Fairness ==
    /\ WF_vars(QueueStep /\ Q!Tick)
    /\ WF_vars(QueueStep /\ \E S \in SUBSET Q!Expired : Q!ReclaimExpired(S))
    /\ \A w \in Worker : /\ WF_vars(\E r \in Run : ClaimJob(w, r))
                         /\ WF_vars(HandlerStep(w))

FairSpec == Spec /\ Fairness

------------------------------------------------------------------------------
(* Properties.                                                              *)

\* BROWSER.md, "a completed checkpoint MUST NOT be edited in place": once a run
\* is final its rows, attempts and derivation stay as they are, whatever stale
\* workers, redelivered jobs and scheduler passes still do.
FinalRunImmutable == [][
    \A r \in Run : run[r] \in Final =>
        /\ run'[r] = run[r] /\ att'[r] = att[r] /\ rows'[r] = rows[r]
        /\ r \in derive' <=> r \in derive]_vars

\* The run row and its attempt rows tell one story: a run is final because one
\* of its attempts is, evidence is of the attempt that gave the run its status,
\* and no second attempt has any; a run that is RUNNING has one under way.
AttemptsExplainRun == \A r \in Run :
    LET of(s) == {n \in DOMAIN att[r] : att[r][n] = s} IN
    /\ run[r] \in Final => of(run[r]) # {}
    /\ rows[r] # 0 => att[r][rows[r]] = run[r]
    /\ of("COMPLETE") # {} => run[r] = "COMPLETE" /\ of("COMPLETE") = {rows[r]}
    /\ run[r] = "RUNNING" => of("RUNNING") # {}

\* DATA_MODEL.md, "the status summarizes child runs": when all runs of a window
\* are over the window says how they ended, and a window that is over has no
\* run under way, although its transactions touch one run each and runs may
\* still be added to it.
WindowTellsRuns == \A x \in Window :
    LET mine == Inserted(x, run)
        failed == {r \in mine : run[r] = "BROWSER_ERROR"}
    IN
    /\ window[x] \in Verdict => \A r \in mine : run[r] # "RUNNING"
    /\ mine # {} /\ (\A r \in mine : run[r] \in Final) =>
          /\ window[x] \in Verdict
          /\ window[x] = "FAILED" <=> failed = mine
          /\ window[x] = "COMPLETE" <=> failed = {}

\* A COMPLETE job has a final run behind it: no worker reports success for
\* evidence it could not finalise, or for a run another worker holds.
CompleteJobHasFinalRun == \A r \in Run : status[r] = "COMPLETE" => run[r] \in Final

\* ARCHITECTURE.md, evidence before its record: rows that carry digests have
\* objects of this run behind them, and a derivation is queued exactly for a
\* scheduled or diagnostic run with evidence, never for a skipped or lost one.
EvidenceBehindRows == \A r \in Run :
    /\ rows[r] # 0 => objects[r] # 0 /\ manifest[r] # 0
    /\ r \in derive <=> rows[r] # 0 /\ r \notin Incident

\* A worker that reports its job FAILED leaves no run in flight: only a dead
\* worker, or one that lost its lease, can do that.  The job of an incident's run
\* is the exception, since it may ask for the run before that is committed.
ReportedFailureIsFinal == [][
    \A w \in Worker : Report(w) =>
        LET r == Mine(w) IN
        status[r] = "RUNNING" /\ status'[r] = "FAILED" => run[r] \in Final \/ r \in Incident]_vars

\* Whatever dies, a run in flight is over in the end or its job is: nothing
\* waits for an attempt that no worker will make.
RunningEnds == \A r \in Run :
    run[r] = "RUNNING" ~> run[r] \in Final \/ status[r] \in Q!Terminal

(* What the documents say and the code does not keep.                        *)

\* ARCHITECTURE.md section 19, "do not permanently strand RUNNING jobs": when
\* the job of a run is over, so is the run.
NoStrandedRun == \A r \in Run : status[r] \in Q!Terminal => run[r] \in Final \cup {"ABSENT"}
==============================================================================

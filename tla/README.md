# TLA+ specifications of Publisher Intelligence

Publisher Intelligence watches publishers' web sites: a browser visits each
monitored page every six hours, connectors import traffic and revenue reports,
and both are turned into events, incidents and evidence. All of it runs as
idempotent jobs of a PostgreSQL table that a few processes share, so the parts
that are hard to test are the ones this directory specifies: leases that expire
under a running handler, a process that dies between two transactions, and
stores (rows, jobs, S3 objects) that have no transaction in common.

Paths below are relative to `backend/app/`. `PROJECT.json` lists components,
runs, findings, hazards and theorems, and maps every definition to its lines.

## The system

Processes: `scheduler.py` (one loop of seven passes), `worker.py` (general
worker, no heartbeat), `browser_worker.py` (one job at a time, heartbeat task),
the FastAPI application of `main.py`. They share PostgreSQL and an S3 bucket and
nothing else; a message between them is a row of `jobs`.

| Component | State | Operations | Interacts with | Hard behaviour | Correct when |
|---|---|---|---|---|---|
| Job queue `jobs/queue.py` | rows of `jobs`: status, attempt, lock token, lease | enqueue, claim, heartbeat, complete, fail_or_retry, reclaim_expired | every process | stale owners, reclaim against report, attempts running out | one owner, bounded starts, finished rows stay, every row ends |
| Browser checkpoints `browser_worker.py`, `browser/persistence.py`, `browser/service.py` | runs, attempts, windows, artifact rows; objects and manifest in S3 | begin_attempt, persist, finalize, record_retryable_failure, finalize_terminal_failure, register and enqueue | queue, S3, events | stale attempt beside a new one, crash between PUT and commit, two runs of a window at once | a final run never changes, attempts explain it, evidence behind rows, windows tell their runs |
| Checkpoint scheduling `browser/scheduling.py`, `monitoring_control.py`, `cost.py` | site's monitoring state and watermark, usage entries | schedule_due, set_monitoring_state, record_checkpoint_cost | checkpoints, queue | switch during a pass, stale instant, breaker at its limit | no run for a window in which monitoring was off |
| Retention `retention/`, holds of `incidents/persistence.py` | artifact rows and objects, holds, retention runs | enforce, create and release a hold | S3, incidents, queue | hold against deletion, crash between object and row, two enforcers | held rows stay, no orphan object, audit counts once, backlog drains |
| Connector core `connectors/core/` | data_connections.status and capabilities, source_extracts, metric points | register and validate a connection, start, complete and fail an extract | queue, metrics | late failure after a new validation, exceptions nobody converts | a COMPLETE extract is one answer and stays, the status tells what the last caller learnt |
| GA4, GSC, GAM `connectors/{ga4,gsc,gam}`, `secrets/` | none of their own; GAM's report operation is the provider's | validate_connection, run_extract, run_drilldown, schedule_due; clients, normalisers, credentials | connector core, providers | a grant revoked or a saved report edited between two calls, pages that never end, days of 23 and 25 hours | one extract per slot, exact and disjoint intervals |
| Drill-downs `connectors/drilldown/` | jobs of an investigation and of a day | request | connector core, queue | two planners, midnight | budgets hold |
| Events `events/` | points and conditions, evidence links | derive, open, support and resolve a condition | checkpoints, incidents | observations derived in any order or twice | at most one active condition per key, no revival by old evidence |
| Public configuration `public_config/` | snapshots of ads.txt and robots.txt, their events | schedule, observe, validate, derive | queue, monitoring switch | attempts of one job each keeping a snapshot, overlapping observations, a switch under way | high risk only on two agreeing observations, a change is told once, against its predecessor |
| Metrics `metrics/` | derivations and their inputs | schedule, load, derive, persist | extracts | extracts that overlap and come late, a derivation taken over half way | one current point of each series, of one freshness, once |
| Incidents `incidents/` | incidents, frozen references, usage ledger | open, localize, request diagnostics | checkpoints | budget tested and consumed apart, runs stored late | budget bounded, runs paid for, baseline frozen |
| Evidence `evidence/`, hypotheses `hypotheses/` | packs, ranked hypotheses with links | build, rank, replace | events, incidents | overlapping replacements (no caller yet) | deterministic |
| Authentication `auth/` | sessions, limiter counters | login, logout, rate limit | API | counters at the limit | limit holds |
| HTTP API `api/`, `main.py`, operations report | none | call the services, read | all | none of their own | |
| Browser runner and collectors, normalisers, security checks, secrets | none | drive a browser, convert data, call external services | checkpoints | external | |

## Modules

| Module | What it is |
|---|---|
| `JobContract` | What the queue promises, with no token, lease or clock: a job waits, has at most one owner, is started a bounded number of times, ends once. |
| `JobQueue` | `jobs/queue.py` and the two worker loops, one action per statement. |
| `JobQueueProofs` | Theorems about `JobQueue`, among them that it implements `JobContract`. |
| `Checkpoint` | The life of a checkpoint from its insertion to its evidence; instantiates `JobQueue` for its jobs. |
| `CheckpointProofs` | Theorems about `Checkpoint`, among them that its jobs are a `JobQueue`. |
| `Retention` | `retention/service.py` with the holds of incidents. |
| `RetentionProofs` | Theorems about `Retention`. |
| `EventConditions` | One condition of `events/`, opened, supported and resolved by the derivation jobs of its runs; instantiates `JobContract` for the jobs. |
| `EventConditionsProofs` | Theorems about `EventConditions`. |
| `ConditionStore` | What the table of condition events promises, whoever writes to it; `EventConditions` and `PublicConfig` are proved to implement it. |
| `GeneralWorker` | What all handlers of `worker.py` share: claim, dispatch, report, jobs taken over; `JobContract` is its queue. `Connectors`, `Metrics` and `PublicConfig` extend it. |
| `Normalization`, `ProviderExchange` | Operators: from a provider's responses (credential, pages, polls) to success or one error code, and from its rows to intervals and freshness. |
| `Connectors` | Connections, extracts and drill-downs of the three providers. |
| `ExtractStore` | What readers are promised of an extract; `Connectors` is proved to implement it. |
| `ConnectorsProofs` | Theorems about `Connectors`. |
| `Metrics` | Scheduling of extracts and derivations over hours and days, superseding points, ratios. |
| `MetricsProofs` | Theorems about `Metrics`, and about the conversions of `Normalization` that it rests on. |
| `PublicConfig` | ads.txt and robots.txt of a site from the scheduler to the events. |
| `PublicConfigProofs` | Theorems about `PublicConfig`. |
| `Incidents` | Intake of one incident: localisation, frozen reference, diagnostic budget. |
| `IncidentsProofs` | Theorems about `Incidents`. |
| `MC...` | Instances for TLC, one module for each of the above that is run, with one `.cfg` per question. |

### JobQueue

Variables `status`, `key`, `attempt`, `token`, `expires`, `due` are the columns
of a row (`status[j] = "ABSENT"` before it is inserted); `lease[w]` is the
`JobLease` a process still holds in its hands, whether or not the row agrees;
`fresh` is the next lock token (`uuid4` never repeats). Lease ends and due times
are counted down by `Tick`, the database's clock, so the state space is finite
without a bound on time. `Owns` is the fence `id = :id AND status = 'RUNNING'
AND lock_token = :token` of every later statement. Crash and restart of a process
lose its lease and nothing else. The general worker has no heartbeat; browser
workers have one. The preference by priority and age of `claim` is not modelled:
with SKIP LOCKED it is no guarantee.

### Checkpoint

One action per transaction of `handle_browser_job`, with the PUTs of
`EvidencePersister.persist` between them: `ClaimJob`, `BeginAttempt` (or
`SkipAttempt`, `RejectAttempt`), `Browse`, `PutArtifacts`, `PutManifest`,
`Finalize` or `FinalizeFails`, `RecordFailure`, `Report`. `WorkerDies` may strike
between any two. `run`, `att`, `window`, `rows`, `derive` are columns;
`objects` and `manifest` name the attempt whose bytes lie under the run's S3
keys, which do not contain the attempt; `rows` the attempt whose digests the
artifact rows carry. The scheduler's pass is `StartPass`, `Materialize`,
`EnqueueRun` with its instant in `pass`; `Register`, `RegisterOperatorSite`,
`IncidentEnqueues` and `IncidentCommits` are the three other ways a run comes to
be. A result other than BROWSER_ERROR is COMPLETE: the code tells no others
apart.

### Retention

One action per step of `enforce`: select a batch, the snapshot of the
`SELECT ... FOR UPDATE` (`Check`), its row lock (`Lock`), the S3 delete, the row
delete with its commit. Snapshot and lock are two actions because PostgreSQL's
READ COMMITTED does not evaluate the statement's condition again for a row that
another transaction only locked. A hold is inserted, then commits or not; it takes a
key-share lock on the artifact's row. A released hold keeps its row, and the row
its foreign key. `Fails` is an exception or a crash at any step.

### EventConditions

One condition and the `DERIVE_BROWSER_EVENTS` jobs of the runs that observe it:
a JavaScript error of one page (two consecutive runs confirm it) or a missing ad
slot of one template (`MinAffected` pages that lost it in one COMPLETE window confirm
it; more of the pages may be affected, or fewer, which is no news). The jobs come
from `Finalize`, one a run. A handler is `Claim`, `Load` (the reads of
`load_input` and `load_window_inputs`), `Lookup` (`_active_condition` with its
row lock), one of `Ignore`, `Open`, `Support`, `Resolve`, `Raise` for the rest of
the transaction with its commit, and `Report`. `Lookup` and the commit are two
actions, since a lookup that finds no row locks none and two transactions may
both go on to insert. `event[n]` is the event that window `n` opens, with
the evidence references and `supporting_count` of the code; `facts` are the runs
whose transaction has committed, `overtaken` remembers whether one looked up
before all runs of an earlier window were committed (`Overtakes`), or again, for an
onset that has no event of its own, after one of a later window (`Late`). `seen[n]`
are the affected pages of window `n`, chosen once. What is left out: conditions other than this one in the
same transaction, truncated or incomparable observations (they yield no
candidate), severity and counters other than `supporting_count`.

The queue is `JobContract`, which `JobQueueProofs` shows `JobQueue` to implement. A
worker that dies is one whose job is taken back before it reports.

### GeneralWorker, and the handlers built on it

`phase`, `runs`, `owner` are the queue's contract; `pc[w]` and `job[w]` where a
worker's handler is. A handler ends `done` (complete), `raised` (an error that is
not worth a retry) or `failed` (one that is), and `Report` says what the queue
makes of it. A handler whose job was taken over goes on to its end beside the new
one, since the general worker has no heartbeat; one whose process died takes no
further step. None of the modules that extend it states fairness.

### Connectors

Each provider has its actions (`GA4Extract`, `GSCDrilldown`, `GAMValidate`, ...),
built from the steps of the repository: `Load` (`load_connection` and the test of
the status), `Start` (`start_extract`: a COMPLETE extract ends the handler, a
FAILED or PENDING one is taken up), `Inspect` (Ad Manager's saved report), `Ask`
(the exchange), `Complete` or `Fail` (one transaction that writes what was
learnt), `Break` (an exception that nobody turns into a `ConnectorError`). What
an exchange may answer is computed by `ProviderExchange` from scripts of
responses that the configuration lists. `Regrant` and `Edit` are the owners of
the grant and of the saved report. `asked` and `told` are history: the grant that
the pending answer of a caller was given under, and that of the answer which the
last writer of a connection's status had, however old it was. `Count` and `Insert` are the
planner of drill-downs, in one transaction that locks the connection's row.

### Normalization and Metrics

`Wall[u]` is what the property's clock shows at hour `u` of UTC, so that a day in
which clocks go forward lacks an hour and one in which they go back shows one
twice. `ClockAssumption` says what every zone of the tz database does: the clock
never shows less than before, and an hour shown twice is not followed by one that
is skipped. `GA4Interval`, `LocalHourInterval` and `GAMPeriod` are the conversions of
the three normalisers, with the cases they refuse. In `Metrics`, a job stands for
its idempotency key; `points` are those of COMPLETE extracts, and `BestCurrent`
chooses among them as `_best_current_points` does. A derivation loads once and
persists candidate by candidate, each in its own transaction.

### PublicConfig

A snapshot is named by its job and attempt; an instant is a slot and a reading of
the clock, and every reading is later than the one before. A handler is `Take`,
`Gate` (the preflight of the monitoring switch), `Observe` (what it reads before
it fetches), `Respond` (the site answers, or fails), `Derive` (the reads of the
event service), then the transaction of events: `Look` (`_active_condition`
with its lock), `Upsert`, `Support`, `Resolve`, `Record` or `Ignore`, its
`Commit` or `Rollback`; at last `Ask` for the validation. A file is a list of
lines; `RobotsStatus`, `AdsStatus` and `Normalized` do what the parsers do to it.
`heard` and `overlapped` are history.

### Incidents

A call of `request_initial_diagnostics` is `Request` (tests and the scenarios),
and for each scenario `Count`, `Consume`, `Enqueue`, `Commit`: four transactions
of their own, of which `Enqueue` commits before the run it names. `Fails` is an
exception or the death of the process at any of them. `localize` is `Localize`
and `Freeze`. A scheduled run `Ends` (which fixes `completed_at`) and is stored
later (`Finalize`). Of the service, the API calls `open_investigation` only; the
two others have no caller outside the tests, so that several operators at once
are what the service allows, not what the product does today.

## What each run checks

| Run | Instance | Shows |
|---|---|---|
| `job_queue` | one checkpoint row of 3 attempts, one general row of 2, two browser workers and a general one, one key, lease and backoff of 1 tick | one owner, bounded starts, fencing, every row ends, `JobContract` is implemented |
| `checkpoint_attempts` | one scheduled run, two workers, one six-hour window, breaker at 1 | run, attempts, evidence and job tell one story through crashes, stale workers and skips; a RUNNING run ends or its job does |
| `checkpoint_windows` | two runs of one window, or an operator's or an incident's run; two workers, breaker out of reach | the window's status tells its runs, whichever transaction comes last; a job that reports success leaves its run final |
| `retention` | two artifacts, one of which may be held, batches of one, two enforcers | rows, objects and audit stay in step; the backlog drains |
| `event_conditions` | both rules, three pages of which two confirm a missing slot, two workers, histories of two to five windows | evidence counted once, no onset lost; the right state in the end unless a window was overtaken or an onset that had supported an older event was derived again late; `ConditionStore` is implemented |
| `connectors` | a connection to each provider, a scheduled extract each, five drill-downs of two investigations, two planners, two workers | a COMPLETE extract is one attempt's answer and stays; the status tells the grant that the last answer written was given under; budgets hold around midnight |
| `metrics` | days of four hours around one in which clocks go back; two GA4 extracts and one mature, two of Ad Manager, a derivation with two attempts | a ratio is made of one current point of each series, of one freshness; hours do not overlap; a derivation that is done left all its ratios |
| `public_config` | three slots of ads.txt and two of robots.txt, two workers, four responses of each file | nothing of high risk on one observation; an undisturbed history has exactly its events; `ConditionStore` is implemented |
| `incidents` | two operators, three requests for up to two of three scenarios, limit 3; or three runs and localisations | the budget is overdrawn by overlapping calls only; every run is paid for; the baseline moves only for a run stored late |
| `stranded_run`, `released_hold`, `refuted` | the smallest instance that shows it | what a document or test says and the code does not do (below) |

Bounds and why they are enough.
- Two workers are the fewest that make a stale one and an owner; a third adds no
  new relation to a row, because a row has one token and every stale process is
  in the same position towards it. `job_queue` has three processes so that a
  process of the other kind is there as well.
- `max_attempts` is the code's 2 for checkpoints and 3 or 2 in `job_queue`, so
  that a row is reclaimed both with and without attempts left. Elsewhere one job
  has two attempts and the others one: a further attempt repeats the same steps.
- A lease and a backoff of one tick already expire before, between and after any
  step of a handler; in `Checkpoint` a lease may run out at once (0 ticks).
- `BatchSize = 1` makes the drain of two artifacts take several batches and makes
  two enforcers choose the same candidate. One artifact may be held and the other
  may not, so a held artifact stands first in the order.
- `checkpoint_windows` uses the symmetry of workers and of the runs of one window
  and `VIEW ControlView`, which leaves out what no guard reads: the token's value,
  the bytes in the store, cost entries, queued derivations. Its constraints:
  `WatermarkTells` (no pass that finds the window barred by an older watermark;
  it would do nothing), `OneWorkload` (one window in a behaviour), `FewAttempts`
  (one of two runs is tried again). `checkpoint_attempts` has none of them, since
  it checks liveness.
- `event_conditions` has the histories in which an error stays, goes, or comes back
  (after one window or two); a slot is lost by two of three pages and found again,
  by two when the third lacks it already, and by the third alone when the two lack it;
  or two pages lose it, find it while the third loses it, and lose it once more before
  all recover, so that an onset meets the condition that is still active. `MCMaxAttempts` lets one run of the second and of the third window be
  derived twice and the others once. The two pages that are not `ErrorPage` are
  symmetric, as the workers are. `Bounded` lets one job at most die and few wait at
  once, and in the longest history of pages none die: a dead job leaves its window
  underived, and further ones only repeat that.
- `connectors` looks at one connection in each behaviour (they share nothing but
  workers), at budgets where three requests compete for them, and at one way of
  losing the grant for each provider. The exchanges it lists end in success, in a
  retryable and in a fatal error, and exercise pages and polls to their limits.
- `metrics`: four hours a day and three days are the fewest in which a changed
  clock lies inside an extract and outside the next; the scheduler runs when it
  has something to plan. GA4 attributes one hour to another channel, so that
  extracts of one freshness differ.
- `public_config`: three slots are a predecessor, a change and its recovery. A
  behaviour has at most one mishap (a job lost or repeated, or the switch thrown),
  at any step, and two handlers at work up to the second slot.
- `incidents`: the limit of 3 (8 in the code) is met and passed by two overlapping
  calls for two; of three scenarios one comes and one is retired, since the second
  gives a scenario a new place. Requests read no run and localisation no ledger,
  so a behaviour has the one or the other.
- The behaviours of `event_conditions`, `connectors`, `metrics`, `public_config`,
  `incidents` and `refuted` end when their finite work is done, and disable the
  deadlock check; no other run does.

Fairness. `JobQueue!FairSpec`: the clock ticks, each process keeps polling
(reclaim, then claim) and a handler that runs ends in one way or another. These
are the `while` loops of the two workers, restarted by `compose.yaml` when they
die. Nothing says that a handler ever succeeds. `Checkpoint!FairSpec` says the
same of its actions. `Retention!FairSpec` adds strong fairness of the enforcer's
steps: the job is queued anew each day, and an outage does not strike the same
step for ever. Without it no backlog need ever drain. The other modules check safety
only: what must happen in the end of a handler is `EveryJobFinishes` of the queue.

## What is proved

For every value of the constants that the named assumptions allow.

`JobQueueProofs` proves `TypeOK`, `OneOwner`, `ExecutionsBounded`, `Fenced`,
`FinishedStays` and that `Spec` implements `JobContract` (`KeepsContract`).
`OneOwner` alone is not inductive: a claim keeps it only if the new token is in
nobody's hands, and a stale lease only if its token differs from every other.
`IInv` adds that the lock columns are set exactly while a row is RUNNING, that
tokens in use were issued before (`TokensIssued`) and to one process each
(`TokensDistinct`), that a claimable row has an attempt left (`AttemptsCounted`)
and that keys are unique. The refinement maps `status` to a phase and the owner
to the process that holds the row's current token; a stale report, a heartbeat
and the clock are stutters, a crash of the owner is `Abandon`.

`CheckpointProofs` first shows that the queue inside `Checkpoint` takes `JobQueue`'s
steps only (`CheckpointIsQueue`), so that everything proved of the queue holds of
checkpoint jobs, and with it `JobContract` (`CheckpointKeepsContract`). On that rest
`TypeOK`, `AttemptsExplainRun`, `EvidenceBehindRows`, `WindowTellsRuns`,
`CompleteJobHasFinalRun` and the action property `FinalRunImmutable`. None of them is
inductive: that a handler may finalise depends on what it read several
transactions ago. `HandlerInv` says what a handler that has come to a step may still
rely on although others move beside it, `RunInv` what run, attempts and evidence say
of each other, `AttemptsInv` that no attempt is beyond the one the queue has counted.
`ReportedFailureIsFinal`, a property of the steps of `Report`, follows: a job that fails for good leaves its run final, or is the job of an
incident whose run was not yet committed.

`RetentionProofs` proves `TypeOK`, `HoldKeepsRow`, `NoOrphanObject`,
`AuditedOnce` and `FinishedMeansDrained`. What carries them is the row lock:
`LockProtects` says that between the lock and the commit the item has its row, no
other enforcer has it, and no hold on it is being inserted; `StoredHasNoObject`
that the object is gone before the row goes; `HoldHasRow` that a hold, committed
or not, has its artifact.

`EventConditionsProofs` proves `TypeOK`, `SupportCounted`, `OnsetRecorded`,
`OrderlyAgrees`, `OnlyOvertakenRaise`, the action property `HistoryStays` and
`KeepsConditions`, for any number of windows, pages and workers and any history the
rules allow. The lock that
`Lookup` takes keeps what it found active (`OneLock`). An onset is not lost because a
run of its window is always still to be evaluated by a handler that sees the window
complete, or has been (`Pending`, `OnsetInv`). While no derivation is overtaken the
windows are derived one after the other (`InTurn`); then each onset has an event of its
own or of an earlier window, with no recovery between (`Opens`), and each recovery leaves
none of its past active (`Closes`). An onset that only supported another's event has
none of its own, and its repeated derivation may find nothing active and open one; so a
handler that is about to open an event is shown to find none active when it commits,
and no later window derived (`FreshOpen`).

Two components write condition events with code of their own, and a reader of the
table sees no difference. `ConditionStore` says what he may rely on, and both
implement it (`EventConditionsKeepsConditions`, `PublicConfigKeepsConditions`). For
the browser's events the earlier lemmas suffice: `EventMove` has one row change in a
transaction, and a resolution needs a reference that is not linked. A transaction of
`PublicConfig` may end two conditions and open a third: `StoredInv` says that events
are named by scheduled observations and refer to such, that a code has one active
event, and that what a transaction has locked is still active when it commits
(`Held`), for between the lock and the commit no other ends it. `RowsMove` is then what a
commit does to the rows. Nothing is assumed of the order in which observations are
derived, so the promise holds in the histories that `Told` leaves out as well. The run's
instance is too short for a condition to end, come back and meet the validation that
ended it once more; the theorem covers those histories too.

`IncidentsProofs` proves `TypeOK`, `LedgerBounded`, `OneBaseline` and `RunsPaid`.
`LedgerBounded` is not inductive, because `Consume` tests nothing:
`Overdraft` counts the operators between `Count` and `Consume` with the entries,
and `Count` keeps it since the entries were below the limit and there are no more
operators than operators. `OneBaseline` needs that runs which were read stay
COMPLETE with the end they had (`ReadIsFinal`), and that a reference is the last
healthy run of those read when it was frozen (`Chosen`), which rests on a least
number of any set of naturals (`Least`, from the library's well-founded order).
`RunsPaid` needs that a key made now is beyond every key consumed (`KeysBehind`), so
that a call which holds the key of a diagnostic at hand made it before that was
committed (`KeyShared`); it holds while no scenario moves forward, as in the run.
The number of operators, scenarios, runs and calls and the limit are arbitrary.

`PublicConfigProofs` proves `TypeOK`, `ConfirmedByTwo`, `Told` and `KeepsConditions`.
A validation is asked for by a snapshot that is there (`Asked`), is let through by a
switch older than that snapshot, and keeps that switch and an instant later than it (`Behind`,
`Snapshots`). Snapshots never change and instants are given out once, so what a
transaction wrote on the strength of two observations stays true of them. `Told`
compares the events with the whole history of observations (`ToldInv`). While a
file's observations did not overlap, one handler at most is between its first reading
and its commit (`Alone`), so what it read before the fetch is still the last
observation when it derives (`Read`), no condition changes under it (`Holds`), and
what it evaluates points at the neighbour before. So a point event is the change
between two neighbours and each change that was heard has one (`PointsRight`,
`PointsKept`), and once the observations before an instant were derived in order, the
active codes are what the last of them calls for (`CodesRight`), where `Linked` tells
that the guards on instants and links of the event let every derivation in turn
through. `Told` assumes that derivations come in turn (`InTurn`): a first form asked
for less, held on the run's instance, and turned out to be false while it was being
proved; an instance with four slots has the counterexample, a validation repeated
after the next scheduled observation.

`ConnectorsProofs` proves `TypeOK`, `WithinBudget`, `StatusTells` and that `Spec`
implements `ExtractStore` (`KeepsExtracts`): the handler that completes an extract
tests its status in the transaction that writes it, every other step leaves what
readers find. The budgets need `Budget`: a planner that has counted holds the
connection's row until it has inserted, so there is room for its drill-down
(`Room`), also when midnight passes in between. The status needs `Fitting`: an
answer fits the grant it was given under for as long as its caller keeps it, so that
even a stale writer writes a status which fits. It is proved where credentials
resolve and the provider refuses only for the grant (`RefusesForGrant`, part of the
property: where it fails no status could tell); the instance of the run satisfies
it. That exchanges end in one of the code's answers (`AnswersAssumption`) is
assumed, since they are computed by recursion over responses; TLC evaluates it.

`MetricsProofs` proves `TypeOK`, `DerivationsSound`, `HoursPartition` and
`DoneIsDerived`, for any clock of `ClockAssumption`, any extracts and any ratios.
`SameInterval` shows that GA4's two conversions of an hour's ends and Ad Manager's
first and last hour of UTC give the same interval, on days of any length, and
`HoursApart` that different hours share none. Hence each interval has one hour of the
wall (`OneHour`), in which an extract has one point of each series (`Single`), so
that the point no other supersedes is one (`OneCurrent`). What a derivation found
stays sound while it persists it because no point ever goes (`SoundStays`), and what
is left to do covers what is not yet there (`Progress`).

Four properties are proved and not run of their own: `FinishedStays` of the queue (no
step changes a finished row) and its `TypeOK`, which `Checkpoint!TypeOK` contains;
`HoldKeepsRow` of retention (a granted hold has its artifact's row); and `HistoryStays`
of the events, which `KeepsConditions` covers but for the columns of a row that no
reader of the store is promised.

Assumptions. Each module names those of its constants and TLC evaluates them in
every run; they say what kind of value a constant is, that bounds are positive and
that names which the code keeps apart are different. Those with content are
`ClockAssumption` and `AnswersAssumption` above. Every inductive invariant was
checked by TLC on the instance of its module's run before it was proved.

Every safety property of a passing run is a theorem. Only model-checked: all
liveness (`EveryJobFinishes`, `RunningEnds`, `UnheldIsDeleted`), since TLAPS
reasons neither about fairness nor about ENABLED; and the values that the exchanges
of `ProviderExchange` and the parsers of `PublicConfig` compute, since induction over
data is outside the prover. No module here uses a RECURSIVE operator.

## Where code and documents disagree

Each of these is a run that TLC finds violated; `PROJECT.json` quotes the sentence
it contradicts.

1. `stranded_run`: reclaim of a checkpoint job's last attempt ends the job and
   leaves its run RUNNING or PENDING for ever, and its window with it.
2. `released_hold`: the row of a released hold still bars the deletion of its
   artifact. Every enforcement deletes the object, fails at the row and stops.
3. `refuted`: a condition of ads.txt whose first observation was refuted is
   confirmed by the next, which takes it for one that is known: no event is opened
   until the file was healthy again.

The models contain more of them, which have no run of their own; each was met with
TLC or while translating the lines named.

- Evidence keys name the run and not the attempt, and the PUTs come before the test
  of who owns the run (`browser/persistence.py:1456`): a stale worker overwrites
  the objects of a finalised run, whose digests no longer fit.
- The job of an incident diagnostic is committed before its run
  (`browser/service.py:250`); a quick worker finds no run and ends the job.
- A hold that commits after the statement's snapshot and before its row lock is not
  seen (`retention/service.py:168`); the held object is deleted, its row stays.
- A recovery that finds no active condition is dropped, and nothing keeps an older
  confirmation from opening the condition afterwards (`events/persistence.py:557`).
  `OrderlyAgrees` shows that it takes two windows derived out of order.
- `OnlyOvertakenRaise` tells when `EventStateError` ends a derivation for good, and
  with it rolls back the run's own point events: a run of the window that confirmed
  a condition is derived after a later window has resolved it.
- The guard of a recovery (`public_config/event_persistence.py:226`) compares the
  instant of the validation, not that of the observation it corroborates; EP-017:171-173
  wants a later scheduled state. An instance of `PublicConfig` with five slots has
  ads.txt found, missing, found, found, missing: when the validation of the third
  slot runs after the fifth, it ends the event that the fifth confirmed. `Told` is
  therefore about validations that come in turn.
- A refresh token that was revoked is `GOOGLE_INVALID_GRANT`, which `fail_extract`
  records as DEGRADED, so the connection is scheduled on; CONNECTORS.md:2169-2175
  wants AUTH_EXPIRED. `StatusTells` therefore says of an answer given under an expired
  grant that it is recorded as AUTH_EXPIRED or DEGRADED and as nothing else.
- Nothing compares the answers behind a status (`connectors/core/persistence.py:353`):
  a worker that lost its lease writes what it was told before the grant was renewed
  over the status of a later validation. `StatusTells` counts such writers; it says of
  which grant the status tells, and not that it is the latest.
- An onset that finds another onset's condition active supports it. When its job is
  taken back and the derivation repeated after a later window resolved that condition,
  nothing has the identity of this onset, and it opens an event from evidence that is
  over (`events/persistence.py:453`; EP-016:350 has retries idempotent across create,
  update and resolve). It takes three pages. `OrderlyAgrees` excepts it (`Late`).
- GA4 may attribute views to another channel between two extracts: the old row is a
  series of its own that nothing supersedes, and a ratio counts both
  (`metrics/derivation.py:116`). `DerivationsSound` is about one series.
- `usage_key_sequence` (`incidents/intake.py:275`) adds the grants of the call to a
  count that has them already. Once a scenario ahead of it is retired, a scenario
  asks with a key of its past: `consume_budget` returns the old entry and every
  further call inserts runs without a new one, past any limit (EP-020:172 has
  requests beyond the limit refused). `RunsPaid` holds as long as no scenario has
  moved forward (`moved`). Two overlapping calls may share an entry as well, as
  EP-020:262 admits, and a call that fails after `Consume` leaves an entry without
  a run.
- `completed_at` is the end of the browser pass and is committed after the upload of
  its artifacts, so a run may become COMPLETE with an end before that of runs which
  a localisation has read, and a second baseline is frozen beside the first
  (INCIDENT.md:2418-2423 has the choice frozen). `OneBaseline` says that nothing
  else moves it.
- Read and not modelled: `localize` takes a run that is still PENDING or RUNNING for
  the first anomaly (EP-020:83); `replace_ranked_set` keeps the old evidence links of
  a hypothesis whose counts it replaces; ranking calls a top hypothesis with a
  contradiction CONTENDER where EP-023:69-71 says LEADING.

## Plan

Done: the modules above with their runs, and the proofs of every safety property
that a passing run checks. What is left, in this order:

1. `EventConditions` with SKIPPED runs, which complete a window without a
   derivation.
2. The local time of six-hour windows over a year with two changes of clocks
   against a reference, with the conversions of `Normalization`.
3. The limiter and the sessions of `auth/`, and hypotheses and packs once the product
   calls them.

## Not modelled, and why

The browser runner and its collectors, normalisers and comparison (conversions of
page data; `Checkpoint` takes their outcome as an input), the building of requests
to the external APIs, OAuth (a library exchange), the product API, `freshness.py`,
`retention_health` and the operations report (reads), authentication (state of one
API process, apart from the jobs), evidence packs and hypotheses (one transaction or
none each, called by tests only), `metrics/divergence.py` (no caller), point events of
browser derivations beyond recorded or rolled back, source health, severity,
logging and settings.

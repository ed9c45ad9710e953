--------------------------- MODULE CheckpointProofs ---------------------------
(***************************************************************************)
(* Theorems about Checkpoint, for any number of runs, windows and workers.  *)
(*                                                                          *)
(* The queue inside Checkpoint is JobQueue: its steps are JobQueue's        *)
(* (QueueSteps), so that JobQueueProofs says what rows, tokens and leases    *)
(* look like, and Checkpoint keeps the JobContract.  On that rest three     *)
(* groups of facts: which attempts there can be (AttemptsInv), what run,     *)
(* attempts and evidence say of each other (RunInv), and what a handler that *)
(* has come to a step may rely on although others move beside it            *)
(* (HandlerInv).                                                             *)
(***************************************************************************)
EXTENDS Checkpoint, TLAPS

\* JobQueue with the constants of Checkpoint, and the theorems about it.
QP == INSTANCE JobQueueProofs WITH
        Job <- Run, Key <- Run, BrowserJob <- Run, BrowserWorker <- Worker,
        MaxAttempts <- [r \in Run |-> CheckpointAttempts], DelayTicks <- 0

AttemptNumber == 1 .. CheckpointAttempts

\* Handlers run under a lease and work on one attempt of its row: numbers are
\* those the row has had, no two handlers share one, the owner's is the last.
LeaseHeld == \A w \in Worker : pc[w] = "idle" <=> lease[w] = Null

AttemptIssued == \A w \in Worker : lease[w] # Null =>
    /\ status[Mine(w)] # "ABSENT"
    /\ Number(w) >= 1 /\ Number(w) <= attempt[Mine(w)]

AttemptsDistinct == \A v, w \in Worker :
    lease[v] # Null /\ lease[w] # Null /\ Mine(v) = Mine(w) /\ Number(v) = Number(w) => v = w

OwnerIsCurrent == \A w \in Worker : Q!Owns(w) => Number(w) = attempt[Mine(w)]

\* An attempt is untouched until a handler that was given its number begins it.
AttemptUntouched ==
    /\ \A r \in Run, n \in AttemptNumber : n > attempt[r] => att[r][n] = "NONE"
    /\ \A w \in Worker : pc[w] = "claimed" => att[Mine(w)][Number(w)] = "NONE"

AttemptsInv ==
    /\ LeaseHeld /\ AttemptIssued /\ AttemptsDistinct /\ OwnerIsCurrent /\ AttemptUntouched

\* Evidence is of a run that is over, and not skipped.
EvidenceIsFinal == \A r \in Run : rows[r] # 0 => run[r] \in {"COMPLETE", "BROWSER_ERROR"}

\* A job, but an incident's, and a call to queue one come after the run.
RunBehindJob == \A r \in Run :
    r \notin Incident /\ (status[r] # "ABSENT" \/ r \in todo \/ r \in calls) => run[r] # "ABSENT"

\* What a handler may rely on where it stands.
HandlerInv == \A w \in Worker :
    /\ pc[w] \in {"storing", "manifest", "finalizing"} => found[w] \in {"COMPLETE", "BROWSER_ERROR"}
    /\ pc[w] \in {"manifest", "finalizing"} => objects[Mine(w)] # 0
    /\ pc[w] = "finalizing" => manifest[Mine(w)] # 0
    /\ pc[w] = "done" => run[Mine(w)] \in Final
    /\ pc[w] = "release" /\ ~Retryable(w) => run[Mine(w)] \in Final
    /\ pc[w] = "rejected" => run[Mine(w)] \in Final \/ Mine(w) \in Incident

RunInv == AttemptsExplainRun /\ EvidenceIsFinal /\ EvidenceBehindRows /\ RunBehindJob

IInv ==
    /\ QP!IInv
    /\ TypeOK
    /\ AttemptsInv
    /\ RunInv
    /\ HandlerInv
    /\ WindowTellsRuns
    /\ CompleteJobHasFinalRun

------------------------------------------------------------------------------
(* The queue inside.                                                         *)

LEMMA QueueAssumed == QP!QueueAssumption
BY CheckpointAssumption DEF CheckpointAttempts

\* The definitions of the two instances are the same.
LEMMA SameQueue ==
    /\ QP!IInv => Q!TypeOK
    /\ QP!vars = Q!vars
    /\ Q!Init => QP!Init
    /\ \A r \in Run : Q!Enqueue(r, r, 0) => QP!Enqueue(r, r, 0)
    /\ \A w \in Worker, r \in Run : Q!Claim(w, r) => QP!Claim(w, r)
    /\ \A w \in Worker : Q!Heartbeat(w) => QP!Heartbeat(w)
    /\ \A w \in Worker : Q!Complete(w) => QP!Complete(w)
    /\ \A w \in Worker, b \in BOOLEAN : Q!FailOrRetry(w, b) => QP!FailOrRetry(w, b)
    /\ \A w \in Worker : Q!Crash(w) => QP!Crash(w)
    /\ \A S \in SUBSET Q!Expired : S \in SUBSET Run /\ (Q!ReclaimExpired(S) => QP!ReclaimExpired(S))
    /\ Q!Tick => QP!Tick
<1>1. QP!IInv => Q!TypeOK
  BY DEF QP!IInv, QP!TypeOK, Q!TypeOK, QP!Status, Q!Status, QP!Claimable, Q!Claimable,
         QP!Terminal, Q!Terminal, QP!Lease, Q!Lease
<1>2. QP!vars = Q!vars /\ (Q!Init => QP!Init)
  BY DEF QP!vars, Q!vars, Q!Init, QP!Init
<1>3. \A r \in Run : Q!Enqueue(r, r, 0) => QP!Enqueue(r, r, 0)
  BY DEF Q!Enqueue, QP!Enqueue, Q!KeyFree, QP!KeyFree
<1>4. \A w \in Worker, r \in Run : Q!Claim(w, r) => QP!Claim(w, r)
  BY DEF Q!Claim, QP!Claim, Q!Serves, QP!Serves, Q!Claimable, QP!Claimable
<1>5. \A w \in Worker : Q!Heartbeat(w) => QP!Heartbeat(w)
  BY DEF Q!Heartbeat, QP!Heartbeat, Q!Owns, QP!Owns
<1>6. \A w \in Worker : Q!Complete(w) => QP!Complete(w)
  BY DEF Q!Complete, QP!Complete, Q!Owns, QP!Owns, Q!Unlock, QP!Unlock, Q!jobVars, QP!jobVars
<1>7. \A w \in Worker, b \in BOOLEAN : Q!FailOrRetry(w, b) => QP!FailOrRetry(w, b)
  BY DEF Q!FailOrRetry, QP!FailOrRetry, Q!Owns, QP!Owns, Q!Unlock, QP!Unlock,
         Q!jobVars, QP!jobVars, Q!RetriesLeft, QP!RetriesLeft
<1>8. \A w \in Worker : Q!Crash(w) => QP!Crash(w)
  BY DEF Q!Crash, QP!Crash, Q!jobVars, QP!jobVars
<1>9. \A S \in SUBSET Q!Expired : S \in SUBSET Run /\ (Q!ReclaimExpired(S) => QP!ReclaimExpired(S))
  BY DEF Q!ReclaimExpired, QP!ReclaimExpired, Q!Expired, QP!Expired, Q!Unlock, QP!Unlock,
         Q!RetriesLeft, QP!RetriesLeft
<1>10. Q!Tick => QP!Tick
  BY DEF Q!Tick, QP!Tick
<1> QED BY <1>1, <1>2, <1>3, <1>4, <1>5, <1>6, <1>7, <1>8, <1>9, <1>10

\* What a step of Checkpoint does to the queue.
LEMMA QueueMoves ==
    ASSUME [Next]_vars
    PROVE  \/ UNCHANGED queueVars
           \/ \E r \in Run : Q!Enqueue(r, r, 0)
           \/ \E w \in Worker, r \in Run : Q!Claim(w, r)
           \/ \E w \in Worker : Q!Heartbeat(w) \/ Q!Crash(w)
           \/ \E w \in Worker : Q!Complete(w) /\ pc[w] = "done"
           \/ \E w \in Worker, b \in BOOLEAN : Q!FailOrRetry(w, b)
           \/ \E S \in SUBSET Q!Expired : Q!ReclaimExpired(S)
           \/ Q!Tick
<1> USE DEF queueVars
<1>1. CASE UNCHANGED vars
  BY <1>1 DEF vars
<1>2. CASE NextWindow \/ (\E at \in 0 .. Slots : SetMonitoring(at))
  BY <1>2 DEF NextWindow, SetMonitoring
<1>3. CASE SchedulerStep \/ SchedulerDies
  BY <1>3 DEF SchedulerStep, SchedulerDies, StartPass, Materialize, EnqueueRun
<1>4. ASSUME NEW r \in Run,
             \/ Register(r) \/ RegisterEnqueues(r) \/ RegisterOperatorSite(r)
             \/ IncidentEnqueues(r) \/ IncidentCommits(r) \/ CallDies(r)
      PROVE  UNCHANGED queueVars \/ Q!Enqueue(r, r, 0)
  BY <1>4 DEF Register, RegisterEnqueues, RegisterOperatorSite, IncidentEnqueues, IncidentCommits, CallDies
<1>5. ASSUME NEW w \in Worker, HandlerStep(w)
      PROVE  \/ UNCHANGED queueVars \/ (Q!Complete(w) /\ pc[w] = "done") \/ Q!Crash(w)
             \/ \E b \in BOOLEAN : Q!FailOrRetry(w, b)
  <2>1. Retryable(w) \in BOOLEAN
    BY DEF Retryable
  <2> QED BY <1>5, <2>1 DEF Moves, HandlerStep, RejectAttempt, SkipAttempt, BeginAttempt, Browse, PutArtifacts,
         PutManifest, Finalize, FinalizeFails, RecordFailure, WorkerDies, Report
<1>6. ASSUME NEW w \in Worker, NEW r \in Run, ClaimJob(w, r)
      PROVE  Q!Claim(w, r)
  BY <1>6 DEF ClaimJob
<1>7. CASE QueueStep
  BY <1>7 DEF QueueStep
<1> QED BY <1>1, <1>2, <1>3, <1>4, <1>5, <1>6, <1>7 DEF Next

LEMMA QueueSteps == [Next]_vars => [QP!Next]_(QP!vars)
<1> SUFFICES ASSUME [Next]_vars PROVE [QP!Next]_(QP!vars)
  OBVIOUS
<1>1. CASE UNCHANGED queueVars
  BY <1>1 DEF queueVars, QP!vars
<1>2. ASSUME NEW r \in Run, Q!Enqueue(r, r, 0) PROVE QP!Next
  BY <1>2, SameQueue DEF QP!Next
<1>3. ASSUME NEW w \in Worker, NEW r \in Run, Q!Claim(w, r) PROVE QP!Next
  BY <1>3, SameQueue DEF QP!Next
<1>4. ASSUME NEW w \in Worker, Q!Heartbeat(w) \/ Q!Complete(w) \/ Q!Crash(w) PROVE QP!Next
  BY <1>4, SameQueue DEF QP!Next, QP!HandlerEnds
<1>5. ASSUME NEW w \in Worker, NEW b \in BOOLEAN, Q!FailOrRetry(w, b) PROVE QP!Next
  BY <1>5, SameQueue DEF QP!Next, QP!HandlerEnds
<1>6. ASSUME NEW S \in SUBSET Q!Expired, Q!ReclaimExpired(S) PROVE QP!Next
  BY <1>6, SameQueue DEF QP!Next
<1>7. CASE Q!Tick
  BY <1>7, SameQueue DEF QP!Next
<1> QED BY QueueMoves, <1>1, <1>2, <1>3, <1>4, <1>5, <1>6, <1>7

LEMMA QueueInv ==
    /\ Init => QP!IInv
    /\ QP!IInv /\ [Next]_vars => QP!IInv'
<1>1. Init => QP!IInv
  BY SameQueue, QueueAssumed, QP!InitIInv DEF Init
<1>2. QP!IInv /\ [Next]_vars => QP!IInv'
  BY QueueSteps, QueueAssumed, QP!NextIInv
<1> QED BY <1>1, <1>2

\* The jobs of checkpoints are a JobQueue: what its theorems say holds here.
THEOREM CheckpointIsQueue == Spec => QP!Spec
<1>1. Init => QP!Init
  BY SameQueue DEF Init
<1> QED BY <1>1, QueueSteps, PTL DEF Spec, QP!Spec

THEOREM CheckpointKeepsContract == Spec => QP!KeepsContract
BY CheckpointIsQueue, QueueAssumed, QP!QueueKeepsContract, PTL

------------------------------------------------------------------------------
(* What a lease gives a handler, and types.                                  *)

LEMMA LeaseFacts ==
    ASSUME QP!IInv, AttemptsInv, NEW w \in Worker, lease[w] # Null
    PROVE  /\ Mine(w) \in Run
           /\ Number(w) \in AttemptNumber
           /\ status[Mine(w)] # "ABSENT"
<1>1. lease[w] \in Q!Lease /\ attempt \in [Run -> Nat]
  BY SameQueue DEF Q!TypeOK
<1>2. Mine(w) \in Run /\ Number(w) \in Nat
  BY <1>1 DEF Q!Lease, Mine, Number
<1>3. attempt[Mine(w)] <= CheckpointAttempts
  BY <1>2 DEF QP!IInv, QP!AttemptsCounted
<1>4. Number(w) >= 1 /\ Number(w) <= attempt[Mine(w)] /\ status[Mine(w)] # "ABSENT"
  BY DEF AttemptsInv, AttemptIssued
<1> QED BY <1>1, <1>2, <1>3, <1>4 DEF AttemptNumber, CheckpointAttempts

\* A handler that is not idle has a lease.
LEMMA HandlerFacts ==
    ASSUME QP!IInv, AttemptsInv, NEW w \in Worker, pc[w] # "idle"
    PROVE  /\ lease[w] # Null
           /\ Mine(w) \in Run
           /\ Number(w) \in AttemptNumber
           /\ status[Mine(w)] # "ABSENT"
BY LeaseFacts DEF AttemptsInv, LeaseHeld

LEMMA SettleEffect ==
    ASSUME TypeOK, NEW r \in Run, NEW n \in AttemptNumber, NEW a \in AttemptStatus,
           NEW s \in RunStatus, Settle(r, n, a, s)
    PROVE  /\ run' \in [Run -> RunStatus]
           /\ att' \in [Run -> [AttemptNumber -> AttemptStatus]]
           /\ run'[r] = s /\ att'[r][n] = a
           /\ \A m \in AttemptNumber : m # n => att'[r][m] = att[r][m]
           /\ \A q \in Run : q # r => run'[q] = run[q] /\ att'[q] = att[q]
<1>1. run \in [Run -> RunStatus] /\ att \in [Run -> [AttemptNumber -> AttemptStatus]]
  BY DEF TypeOK, AttemptNumber
<1>2. run' = [run EXCEPT ![r] = s] /\ att' = [att EXCEPT ![r] = [att[r] EXCEPT ![n] = a]]
  BY DEF Settle
<1>3. [att[r] EXCEPT ![n] = a] \in [AttemptNumber -> AttemptStatus]
  BY <1>1
<1> QED BY <1>1, <1>2, <1>3

\* The ways in which a step changes runs, attempts and evidence.
SkipsNow(w) ==
    /\ pc[w] = "claimed" /\ pc' = [pc EXCEPT ![w] = "done"]
    /\ Admitted(Mine(w), Number(w))
    /\ Settle(Mine(w), Number(w), "SKIPPED", "SKIPPED")
    /\ Refresh(Mine(w), run')
    /\ UNCHANGED <<queueVars, rows, derive>>

LEMMA RunMoves ==
    ASSUME TypeOK, [Next]_vars
    PROVE  \/ UNCHANGED runVars
           \/ /\ \E S \in SUBSET Run, x \in Nat : (\A r \in S : WindowOf[r] = x) /\ Insert(S, x)
              /\ UNCHANGED handlerVars
           \/ \E w \in Worker : SkipsNow(w) \/ BeginAttempt(w) \/ Finalize(w) \/ RecordFailure(w)
<1> DEFINE Inserts == \E S \in SUBSET Run, x \in Nat : (\A r \in S : WindowOf[r] = x) /\ Insert(S, x)
<1>1. CASE UNCHANGED vars
  BY <1>1 DEF vars
<1>2. CASE NextWindow \/ (\E at \in 0 .. Slots : SetMonitoring(at))
  BY <1>2 DEF NextWindow, SetMonitoring
<1>3. CASE SchedulerStep \/ SchedulerDies
  <2>1. CASE StartPass \/ SchedulerDies \/ \E r \in Run : EnqueueRun(r)
    BY <2>1 DEF SchedulerDies, StartPass, EnqueueRun
  <2>2. ASSUME NEW S \in SUBSET Scheduled, Materialize(S)
        PROVE  UNCHANGED runVars \/ (Inserts /\ UNCHANGED handlerVars)
    <3>1. S \in SUBSET Run /\ pass \in Nat /\ \A r \in S : WindowOf[r] = pass
      BY <2>2, CheckpointAssumption DEF Materialize, TypeOK
    <3>2. UNCHANGED runVars \/ Insert(S, pass)
      BY <2>2 DEF Materialize, runVars
    <3>3. UNCHANGED handlerVars
      BY <2>2 DEF Materialize
    <3> QED BY <3>1, <3>2, <3>3
  <2> QED BY <1>3, <2>1, <2>2 DEF SchedulerStep
<1>4. ASSUME NEW r \in Run,
             \/ Register(r) \/ RegisterEnqueues(r) \/ RegisterOperatorSite(r)
             \/ IncidentEnqueues(r) \/ IncidentCommits(r) \/ CallDies(r)
      PROVE  UNCHANGED runVars \/ (Inserts /\ UNCHANGED handlerVars)
  <2>1. {r} \in SUBSET Run /\ WindowOf[r] \in Nat /\ \A q \in {r} : WindowOf[q] = WindowOf[r]
    BY CheckpointAssumption DEF Window
  <2>2. UNCHANGED runVars \/ (Insert({r}, WindowOf[r]) /\ UNCHANGED handlerVars)
    BY <1>4 DEF Register, RegisterEnqueues, RegisterOperatorSite, IncidentEnqueues, IncidentCommits,
                CallDies
  <2> QED BY <2>1, <2>2
<1>5. ASSUME NEW w \in Worker, HandlerStep(w)
      PROVE  \/ UNCHANGED runVars
             \/ SkipsNow(w) \/ BeginAttempt(w) \/ Finalize(w) \/ RecordFailure(w)
  <2>1. CASE SkipAttempt(w)
    BY <2>1 DEF SkipAttempt, SkipsNow, Moves
  <2>2. CASE PutArtifacts(w) \/ PutManifest(w)
    BY <2>2 DEF PutArtifacts, PutManifest
  <2>3. CASE RejectAttempt(w) \/ FinalizeFails(w) \/ WorkerDies(w) \/ Report(w)
             \/ \E o \in {"COMPLETE", "BROWSER_ERROR", Null} : Browse(w, o)
    BY <2>3 DEF RejectAttempt, FinalizeFails, WorkerDies, Report, Browse
  <2> QED BY <1>5, <2>1, <2>2, <2>3 DEF HandlerStep
<1>6. ASSUME NEW w \in Worker, NEW r \in Run, ClaimJob(w, r)
      PROVE  UNCHANGED runVars
  BY <1>6 DEF ClaimJob
<1>7. CASE QueueStep
  BY <1>7 DEF QueueStep
<1> QED BY <1>1, <1>2, <1>3, <1>4, <1>5, <1>6, <1>7 DEF Next

\* Every settling step ends or begins one attempt of one run that is not final.
LEMMA SettleMoves ==
    ASSUME QP!IInv, TypeOK, AttemptsInv, HandlerInv, NEW w \in Worker,
           SkipsNow(w) \/ BeginAttempt(w) \/ Finalize(w) \/ RecordFailure(w)
    PROVE  /\ Mine(w) \in Run /\ Number(w) \in AttemptNumber
           /\ run[Mine(w)] \in {"PENDING", "RUNNING"}
           /\ \/ /\ SkipsNow(w) /\ att[Mine(w)][Number(w)] = "NONE"
                 /\ Settle(Mine(w), Number(w), "SKIPPED", "SKIPPED")
                 /\ Refresh(Mine(w), run') /\ UNCHANGED <<rows, derive>>
              \/ /\ BeginAttempt(w) /\ att[Mine(w)][Number(w)] = "NONE"
                 /\ Settle(Mine(w), Number(w), "RUNNING", "RUNNING")
                 /\ window' = [window EXCEPT ![WindowOf[Mine(w)]] = "RUNNING"]
                 /\ UNCHANGED <<rows, derive>>
              \/ /\ Finalize(w) /\ run[Mine(w)] = "RUNNING"
                 /\ att[Mine(w)][Number(w)] = "RUNNING"
                 /\ found[w] \in {"COMPLETE", "BROWSER_ERROR"}
                 /\ Settle(Mine(w), Number(w), found[w], found[w])
                 /\ rows' = [rows EXCEPT ![Mine(w)] = Number(w)]
                 /\ derive' = IF Mine(w) \in Incident THEN derive ELSE derive \cup {Mine(w)}
                 /\ Refresh(Mine(w), run')
              \/ /\ RecordFailure(w) /\ run[Mine(w)] = "RUNNING"
                 /\ att[Mine(w)][Number(w)] = "RUNNING" /\ UNCHANGED <<rows, derive>>
                 /\ \/ /\ Settle(Mine(w), Number(w), "BROWSER_ERROR", "PENDING")
                       /\ Retryable(w) /\ UNCHANGED window
                    \/ /\ Settle(Mine(w), Number(w), "BROWSER_ERROR", "BROWSER_ERROR")
                       /\ ~Retryable(w) /\ Refresh(Mine(w), run')
<1>1. pc[w] # "idle"
  BY DEF SkipsNow, BeginAttempt, Finalize, RecordFailure, Moves
<1>2. Mine(w) \in Run /\ Number(w) \in AttemptNumber
  BY <1>1, HandlerFacts
<1>3. CASE SkipsNow(w)
  BY <1>2, <1>3 DEF SkipsNow, Admitted
<1>4. CASE BeginAttempt(w)
  BY <1>2, <1>4 DEF BeginAttempt, Admitted
<1>5. CASE Finalize(w)
  BY <1>2, <1>5 DEF Finalize, StillOpen, Moves, HandlerInv
<1>6. CASE RecordFailure(w)
  BY <1>2, <1>6 DEF RecordFailure, StillOpen
<1> QED BY <1>3, <1>4, <1>5, <1>6

LEMMA SummaryType == \A x, st : Summary(x, st) \in WindowStatus
BY DEF Summary, WindowStatus, Verdict

RunTypeOK ==
    /\ run \in [Run -> RunStatus]
    /\ att \in [Run -> [AttemptNumber -> AttemptStatus]]
    /\ window \in [Window -> WindowStatus]
    /\ rows \in [Run -> 0 .. CheckpointAttempts]
    /\ derive \subseteq Run

LEMMA RunTypeStep ==
    ASSUME QP!IInv, TypeOK, AttemptsInv, HandlerInv, [Next]_vars
    PROVE  RunTypeOK'
<1>1. RunTypeOK
  BY DEF TypeOK, RunTypeOK, AttemptNumber
<1>2. CASE UNCHANGED runVars
  BY <1>1, <1>2 DEF runVars, RunTypeOK
<1>3. ASSUME NEW S \in SUBSET Run, NEW x \in Nat, Insert(S, x)
      PROVE  RunTypeOK'
  BY <1>1, <1>3 DEF RunTypeOK, Insert, RunStatus, WindowStatus
<1>4. ASSUME NEW w \in Worker, SkipsNow(w) \/ BeginAttempt(w) \/ Finalize(w) \/ RecordFailure(w)
      PROVE  RunTypeOK'
  <2> DEFINE r == Mine(w)
             n == Number(w)
  <2>1. r \in Run /\ n \in AttemptNumber /\ n \in 0 .. CheckpointAttempts
    BY <1>4, SettleMoves DEF AttemptNumber
  <2>2. \E a \in AttemptStatus, s \in RunStatus : Settle(r, n, a, s)
    BY <1>4, SettleMoves DEF AttemptStatus, RunStatus, Final
  <2>3. run' \in [Run -> RunStatus] /\ att' \in [Run -> [AttemptNumber -> AttemptStatus]]
    BY <2>1, <2>2, SettleEffect
  <2>4. window' \in [Window -> WindowStatus]
    <3>1. window' = window \/ \E s \in WindowStatus : window' = [window EXCEPT ![WindowOf[r]] = s]
      BY <1>4, SettleMoves, SummaryType DEF Refresh, WindowStatus
    <3> QED BY <1>1, <3>1 DEF RunTypeOK
  <2>5. rows' \in [Run -> 0 .. CheckpointAttempts] /\ derive' \subseteq Run
    <3>1. /\ rows' = rows \/ rows' = [rows EXCEPT ![r] = n]
          /\ derive' = derive \/ derive' = derive \cup {r}
      BY <1>4, SettleMoves
    <3> QED BY <1>1, <2>1, <3>1 DEF RunTypeOK
  <2> QED BY <2>3, <2>4, <2>5 DEF RunTypeOK
<1> QED BY RunMoves, <1>2, <1>3, <1>4

PlanTypeOK ==
    /\ cost \subseteq Run
    /\ monitoring \in {"ON", "OFF"}
    /\ watermark \in 0 .. Slots /\ current \in 0 .. Slots /\ pass \in 0 .. Slots
    /\ todo \subseteq Scheduled /\ calls \subseteq Run \ Scheduled

HandlerTypeOK ==
    /\ objects \in [Run -> 0 .. CheckpointAttempts]
    /\ manifest \in [Run -> 0 .. CheckpointAttempts]
    /\ pc \in [Worker -> Steps]
    /\ found \in [Worker -> {"COMPLETE", "BROWSER_ERROR", Null}]

LEMMA PlanTypeStep ==
    ASSUME QP!IInv, TypeOK, AttemptsInv, [Next]_vars
    PROVE  PlanTypeOK' /\ HandlerTypeOK'
<1>1. PlanTypeOK /\ HandlerTypeOK
  BY DEF TypeOK, PlanTypeOK, HandlerTypeOK
<1>2. CASE UNCHANGED vars
  BY <1>1, <1>2 DEF vars, planVars, storeVars, handlerVars, PlanTypeOK, HandlerTypeOK
<1>3. CASE NextWindow \/ (\E at \in 0 .. Slots : SetMonitoring(at))
  BY <1>1, <1>3, CheckpointAssumption
     DEF NextWindow, SetMonitoring, storeVars, handlerVars, PlanTypeOK, HandlerTypeOK
<1>4. CASE SchedulerStep \/ SchedulerDies
  BY <1>1, <1>4, CheckpointAssumption
     DEF SchedulerStep, SchedulerDies, StartPass, Materialize, EnqueueRun,
         storeVars, handlerVars, PlanTypeOK, HandlerTypeOK
<1>5. ASSUME NEW r \in Run,
             \/ Register(r) \/ RegisterEnqueues(r) \/ RegisterOperatorSite(r)
             \/ IncidentEnqueues(r) \/ IncidentCommits(r) \/ CallDies(r)
      PROVE  PlanTypeOK' /\ HandlerTypeOK'
  <2>1. r \in Diagnostic \/ r \in Incident => r \in Run \ Scheduled
    BY CheckpointAssumption DEF Diagnostic
  <2> QED BY <1>1, <1>5, <2>1
        DEF Register, RegisterEnqueues, RegisterOperatorSite, IncidentEnqueues, IncidentCommits, CallDies,
         storeVars, handlerVars, planVars, PlanTypeOK, HandlerTypeOK
<1>6. ASSUME NEW w \in Worker, HandlerStep(w)
      PROVE  PlanTypeOK' /\ HandlerTypeOK'
  <2>1. pc[w] # "idle" => Mine(w) \in Run /\ Number(w) \in 0 .. CheckpointAttempts
    BY HandlerFacts DEF AttemptNumber
  <2>2. CASE RejectAttempt(w) \/ SkipAttempt(w) \/ BeginAttempt(w) \/ Finalize(w)
             \/ FinalizeFails(w) \/ RecordFailure(w)
    BY <1>1, <2>2 DEF RejectAttempt, SkipAttempt, BeginAttempt, Finalize, FinalizeFails, RecordFailure,
         Moves, Steps, storeVars, planVars, PlanTypeOK, HandlerTypeOK
  <2>3. CASE \E o \in {"COMPLETE", "BROWSER_ERROR", Null} : Browse(w, o)
    BY <1>1, <2>1, <2>3 DEF Browse, Moves, Steps, storeVars, planVars, PlanTypeOK, HandlerTypeOK
  <2>4. CASE PutArtifacts(w)
    BY <1>1, <2>1, <2>4 DEF PutArtifacts, Moves, Steps, planVars, PlanTypeOK, HandlerTypeOK
  <2>5. CASE PutManifest(w)
    BY <1>1, <2>1, <2>5 DEF PutManifest, Moves, Steps, planVars, PlanTypeOK, HandlerTypeOK
  <2>6. CASE WorkerDies(w) \/ Report(w)
    BY <1>1, <2>6 DEF WorkerDies, Report, Moves, Steps, storeVars, planVars, PlanTypeOK, HandlerTypeOK
  <2> QED BY <1>6, <2>2, <2>3, <2>4, <2>5, <2>6 DEF HandlerStep
<1>7. ASSUME NEW w \in Worker, NEW r \in Run, ClaimJob(w, r)
      PROVE  PlanTypeOK' /\ HandlerTypeOK'
  BY <1>1, <1>7 DEF ClaimJob, Moves, Steps, storeVars, planVars, PlanTypeOK, HandlerTypeOK
<1>8. CASE QueueStep
  BY <1>1, <1>8 DEF QueueStep, storeVars, planVars, handlerVars, PlanTypeOK, HandlerTypeOK
<1> QED BY <1>2, <1>3, <1>4, <1>5, <1>6, <1>7, <1>8 DEF Next

LEMMA TypeStep ==
    ASSUME QP!IInv, TypeOK, AttemptsInv, HandlerInv, [Next]_vars
    PROVE  TypeOK'
<1>1. QP!IInv' => Q!TypeOK'
  BY SameQueue, PTL
<1>2. Q!TypeOK'
  BY <1>1, QueueInv
<1> QED BY <1>2, RunTypeStep, PlanTypeStep
     DEF TypeOK, RunTypeOK, PlanTypeOK, HandlerTypeOK, AttemptNumber

------------------------------------------------------------------------------
(* Attempts.                                                                 *)

LeaseNumbers == AttemptIssued /\ AttemptsDistinct /\ OwnerIsCurrent

\* Steps that start nothing: leases are kept or dropped, rows stay or leave RUNNING.
QueueShrinks ==
    /\ attempt' = attempt
    /\ \A w \in Worker : lease'[w] # Null => lease'[w] = lease[w]
    /\ \A r \in Run : status[r] # "ABSENT" => status'[r] # "ABSENT"
    /\ \A r \in Run : status'[r] = "RUNNING" => status[r] = "RUNNING" /\ token'[r] = token[r]

LEMMA UnlockShrinks ==
    ASSUME NEW S \in SUBSET Run, NEW st, NEW d, Q!Unlock(S, st, d), Q!TypeOK,
           \A r \in S : st[r] \in {"RETRY", "COMPLETE", "FAILED"},
           \A w \in Worker : lease'[w] # Null => lease'[w] = lease[w]
    PROVE  QueueShrinks
BY DEF QueueShrinks, Q!Unlock, Q!TypeOK

LEMMA QueueShrinksOr ==
    ASSUME QP!IInv, [Next]_vars
    PROVE  QueueShrinks \/ \E w \in Worker, r \in Run : Q!Claim(w, r)
<1>1. Q!TypeOK
  BY SameQueue
<1>2. CASE UNCHANGED queueVars \/ Q!Tick \/ \E w \in Worker : Q!Heartbeat(w)
  BY <1>2 DEF queueVars, Q!Tick, Q!Heartbeat, QueueShrinks
<1>3. ASSUME NEW r \in Run, Q!Enqueue(r, r, 0) PROVE QueueShrinks
  BY <1>1, <1>3 DEF Q!Enqueue, QueueShrinks, Q!TypeOK
<1>4. ASSUME NEW w \in Worker, lease' = [lease EXCEPT ![w] = Null]
      PROVE  \A v \in Worker : lease'[v] # Null => lease'[v] = lease[v]
  BY <1>1, <1>4 DEF Q!TypeOK
<1>5. ASSUME NEW w \in Worker, Q!Owns(w) PROVE {lease[w].job} \in SUBSET Run
  BY <1>1, <1>5 DEF Q!TypeOK, Q!Owns, Q!Lease
<1>6. ASSUME NEW w \in Worker, Q!Complete(w) PROVE QueueShrinks
  <2>1. CASE Q!Owns(w)
    BY <1>1, <1>4, <1>5, <1>6, <2>1, UnlockShrinks DEF Q!Complete
  <2>2. CASE ~Q!Owns(w)
    BY <1>4, <1>6, <2>2 DEF Q!Complete, Q!jobVars, QueueShrinks
  <2> QED BY <2>1, <2>2
<1>7. ASSUME NEW w \in Worker, NEW b \in BOOLEAN, Q!FailOrRetry(w, b) PROVE QueueShrinks
  <2>1. CASE Q!Owns(w)
    BY <1>1, <1>4, <1>5, <1>7, <2>1, UnlockShrinks DEF Q!FailOrRetry
  <2>2. CASE ~Q!Owns(w)
    BY <1>4, <1>7, <2>2 DEF Q!FailOrRetry, Q!jobVars, QueueShrinks
  <2> QED BY <2>1, <2>2
<1>8. ASSUME NEW w \in Worker, Q!Crash(w) PROVE QueueShrinks
  BY <1>4, <1>8 DEF Q!Crash, Q!jobVars, QueueShrinks
<1>9. ASSUME NEW S \in SUBSET Q!Expired, Q!ReclaimExpired(S) PROVE QueueShrinks
  <2>1. S \in SUBSET Run /\ \A v \in Worker : lease'[v] # Null => lease'[v] = lease[v]
    BY <1>9 DEF Q!Expired, Q!ReclaimExpired
  <2> QED BY <1>1, <1>9, <2>1, UnlockShrinks DEF Q!ReclaimExpired
<1> QED BY QueueMoves, <1>2, <1>3, <1>6, <1>7, <1>8, <1>9

LEMMA LeaseNumbersStep ==
    ASSUME QP!IInv, LeaseNumbers, [Next]_vars
    PROVE  LeaseNumbers'
<1>1. Q!TypeOK
  BY SameQueue
<1>2. CASE QueueShrinks
  <2>1. \A w \in Worker : lease'[w] # Null =>
            lease[w] # Null /\ lease'[w] = lease[w] /\ lease[w].job \in Run
    BY <1>1, <1>2 DEF QueueShrinks, Q!TypeOK, Q!Lease
  <2>2. AttemptIssued' /\ AttemptsDistinct'
    BY <1>2, <2>1 DEF LeaseNumbers, AttemptIssued, AttemptsDistinct, Mine, Number, QueueShrinks
  <2>3. OwnerIsCurrent'
    BY <1>2, <2>1 DEF LeaseNumbers, OwnerIsCurrent, Q!Owns, Mine, Number, QueueShrinks
  <2> QED BY <2>2, <2>3 DEF LeaseNumbers
<1>3. ASSUME NEW w \in Worker, NEW r \in Run, Q!Claim(w, r)
      PROVE  LeaseNumbers'
  <2> DEFINE new == [job |-> r, token |-> fresh, attempt |-> attempt[r] + 1]
  <2>1. /\ lease[w] = Null /\ lease' = [lease EXCEPT ![w] = new]
        /\ token' = [token EXCEPT ![r] = fresh]
        /\ status' = [status EXCEPT ![r] = "RUNNING"] /\ status[r] \in {"PENDING", "RETRY"}
        /\ attempt' = [attempt EXCEPT ![r] = attempt[r] + 1]
    BY <1>3 DEF Q!Claim, Q!Claimable
  <2>2. /\ lease'[w] = new
        /\ \A v \in Worker : v # w => lease'[v] = lease[v]
        /\ \A v \in Worker : lease[v] # Null => lease[v] \in Q!Lease
        /\ attempt \in [Run -> Nat] /\ attempt' \in [Run -> Nat]
        /\ attempt'[r] = attempt[r] + 1 /\ \A q \in Run : q # r => attempt'[q] = attempt[q]
        /\ status'[r] = "RUNNING" /\ \A q \in Run : q # r => status'[q] = status[q]
        /\ token'[r] = fresh /\ \A q \in Run : q # r => token'[q] = token[q]
    BY <1>1, <2>1 DEF Q!TypeOK
  <2>3. \A v \in Worker : v # w /\ lease[v] # Null => lease[v].token < fresh
    BY DEF QP!IInv, QP!TokensIssued
  <2>4. fresh \in Nat
    BY <1>1 DEF Q!TypeOK
  <2>5. \A v \in Worker : lease[v] # Null =>
            /\ lease[v].job \in Run /\ lease[v].token \in Nat /\ lease[v].attempt \in Nat
            /\ lease[v].attempt >= 1 /\ lease[v].attempt <= attempt[lease[v].job]
            /\ status[lease[v].job] # "ABSENT"
    BY <2>2 DEF LeaseNumbers, AttemptIssued, Q!Lease, Mine, Number
  <2> HIDE DEF new
  <2>6. new.job = r /\ new.token = fresh /\ new.attempt = attempt[r] + 1
    BY DEF new
  <2>7. AttemptIssued'
    <3> SUFFICES ASSUME NEW v \in Worker, lease'[v] # Null
                 PROVE  /\ status'[lease'[v].job] # "ABSENT"
                        /\ lease'[v].attempt >= 1 /\ lease'[v].attempt <= attempt'[lease'[v].job]
      BY DEF AttemptIssued, Mine, Number
    <3>1. CASE v = w
      BY <2>2, <2>6, <3>1
    <3>2. CASE v # w
      <4>1. attempt[lease[v].job] <= attempt'[lease[v].job]
        BY <2>2, <2>5, <3>2
      <4>2. attempt[lease[v].job] \in Nat /\ attempt'[lease[v].job] \in Nat
        BY <2>2, <2>5, <3>2
      <4> QED BY <2>2, <2>5, <3>2, <4>1, <4>2
    <3> QED BY <3>1, <3>2
  <2>8. AttemptsDistinct'
    <3> SUFFICES ASSUME NEW u \in Worker, NEW v \in Worker, lease'[u] # Null, lease'[v] # Null,
                        lease'[u].job = lease'[v].job, lease'[u].attempt = lease'[v].attempt
                 PROVE  u = v
      BY DEF AttemptsDistinct, Mine, Number
    <3>1. \A x \in Worker : x # w /\ lease'[x] # Null /\ lease'[x].job = r =>
              lease'[x].attempt # lease'[w].attempt
      BY <2>2, <2>5, <2>6
    <3> QED BY <2>2, <2>6, <3>1 DEF LeaseNumbers, AttemptsDistinct, Mine, Number
  <2>9. OwnerIsCurrent'
    <3> SUFFICES ASSUME NEW v \in Worker, Q!Owns(v)'
                 PROVE  lease'[v].attempt = attempt'[lease'[v].job]
      BY DEF OwnerIsCurrent, Mine, Number
    <3>1. lease'[v] # Null /\ token'[lease'[v].job] = lease'[v].token
          /\ status'[lease'[v].job] = "RUNNING"
      BY DEF Q!Owns
    <3>2. CASE v = w
      BY <2>2, <2>6, <3>2
    <3>3. CASE v # w
      <4>1. lease[v].job # r
        BY <2>2, <2>3, <2>4, <2>5, <3>1, <3>3
      <4> QED BY <2>2, <2>5, <3>1, <3>3, <4>1 DEF LeaseNumbers, OwnerIsCurrent, Q!Owns, Mine, Number
    <3> QED BY <3>2, <3>3
  <2> QED BY <2>7, <2>8, <2>9 DEF LeaseNumbers
<1> QED BY QueueShrinksOr, <1>2, <1>3

\* How a step moves one handler: not at all, by a step within the handler, by a
\* claim, or to its end.
Within(w, t) ==
    /\ pc[w] # "idle" /\ pc' = [pc EXCEPT ![w] = t]
    /\ UNCHANGED queueVars

Ends(w) ==
    /\ pc' = [pc EXCEPT ![w] = "idle"] /\ lease' = [lease EXCEPT ![w] = Null]
    /\ UNCHANGED runVars

LEMMA HandlerMoves ==
    ASSUME [Next]_vars
    PROVE  \/ UNCHANGED <<pc, found, lease>>
           \/ \E w \in Worker, t \in Steps \ {"idle", "claimed"} : Within(w, t)
           \/ \E w \in Worker, r \in Run : ClaimJob(w, r)
           \/ \E w \in Worker : Ends(w)
<1>1. CASE UNCHANGED vars
  BY <1>1 DEF vars, handlerVars, queueVars
<1>2. CASE NextWindow \/ (\E at \in 0 .. Slots : SetMonitoring(at))
  BY <1>2 DEF NextWindow, SetMonitoring, handlerVars, queueVars
<1>3. CASE SchedulerStep \/ SchedulerDies
  BY <1>3 DEF SchedulerStep, SchedulerDies, StartPass, Materialize, EnqueueRun, handlerVars, queueVars,
              Q!Enqueue
<1>4. ASSUME NEW r \in Run,
             \/ Register(r) \/ RegisterEnqueues(r) \/ RegisterOperatorSite(r)
             \/ IncidentEnqueues(r) \/ IncidentCommits(r) \/ CallDies(r)
      PROVE  UNCHANGED <<pc, found, lease>>
  BY <1>4 DEF Register, RegisterEnqueues, RegisterOperatorSite, IncidentEnqueues, IncidentCommits,
              CallDies, handlerVars, queueVars, Q!Enqueue
<1>5. ASSUME NEW w \in Worker, HandlerStep(w)
      PROVE  Ends(w) \/ \E t \in Steps \ {"idle", "claimed"} : Within(w, t)
  <2>1. CASE RejectAttempt(w) \/ SkipAttempt(w) \/ BeginAttempt(w) \/ Finalize(w)
             \/ FinalizeFails(w) \/ RecordFailure(w) \/ PutArtifacts(w) \/ PutManifest(w)
             \/ \E o \in {"COMPLETE", "BROWSER_ERROR", Null} : Browse(w, o)
    BY <2>1 DEF RejectAttempt, SkipAttempt, BeginAttempt, Finalize, FinalizeFails, RecordFailure,
         PutArtifacts, PutManifest, Browse, Moves, Steps, Within
  <2>2. CASE WorkerDies(w) \/ Report(w)
    BY <2>2 DEF WorkerDies, Report, Moves, Ends, Q!Crash, Q!Complete, Q!FailOrRetry
  <2> QED BY <1>5, <2>1, <2>2 DEF HandlerStep
<1>6. CASE QueueStep
  BY <1>6 DEF QueueStep, handlerVars, Q!Heartbeat, Q!ReclaimExpired, Q!Tick
<1> QED BY <1>1, <1>2, <1>3, <1>4, <1>5, <1>6 DEF Next

LEMMA LeaseHeldStep ==
    ASSUME QP!IInv, TypeOK, LeaseHeld, [Next]_vars
    PROVE  LeaseHeld'
<1>1. Q!TypeOK /\ pc \in [Worker -> Steps]
  BY SameQueue DEF TypeOK
<1>2. CASE UNCHANGED <<pc, found, lease>>
  BY <1>2 DEF LeaseHeld
<1>3. ASSUME NEW w \in Worker, NEW t \in Steps \ {"idle", "claimed"}, Within(w, t)
      PROVE  LeaseHeld'
  BY <1>1, <1>3 DEF LeaseHeld, Within, queueVars
<1>4. ASSUME NEW w \in Worker, NEW r \in Run, ClaimJob(w, r)
      PROVE  LeaseHeld'
  <2>1. fresh \in Nat /\ attempt[r] \in Nat
    BY <1>1 DEF Q!TypeOK
  <2>2. [job |-> r, token |-> fresh, attempt |-> attempt[r] + 1] # Null
    BY <2>1, CheckpointAssumption
  <2> QED BY <1>1, <1>4, <2>2 DEF LeaseHeld, ClaimJob, Moves, Q!Claim, Q!TypeOK
<1>5. ASSUME NEW w \in Worker, Ends(w)
      PROVE  LeaseHeld'
  BY <1>1, <1>5 DEF LeaseHeld, Ends, Q!TypeOK
<1> QED BY HandlerMoves, <1>2, <1>3, <1>4, <1>5

LEMMA AttemptUntouchedStep ==
    ASSUME QP!IInv, TypeOK, AttemptsInv, HandlerInv, [Next]_vars
    PROVE  AttemptUntouched'
<1> USE DEF AttemptsInv
<1>1. /\ Q!TypeOK /\ pc \in [Worker -> Steps] /\ attempt \in [Run -> Nat]
      /\ att \in [Run -> [AttemptNumber -> AttemptStatus]]
  BY SameQueue DEF TypeOK, Q!TypeOK, AttemptNumber
<1>2. \A r \in Run : attempt'[r] \in Nat /\ attempt[r] <= attempt'[r]
  <2>1. CASE QueueShrinks
    BY <1>1, <2>1 DEF QueueShrinks
  <2>2. CASE \E w \in Worker, r \in Run : Q!Claim(w, r)
    BY <1>1, <2>2 DEF Q!Claim
  <2> QED BY QueueShrinksOr, <2>1, <2>2
<1>3. CASE att' = att
  <2>1. \A r \in Run, n \in AttemptNumber : n > attempt'[r] => att'[r][n] = "NONE"
    BY <1>1, <1>2, <1>3 DEF AttemptUntouched, AttemptNumber
  <2>2. \A w \in Worker : pc'[w] = "claimed" => att'[Mine(w)'][Number(w)'] = "NONE"
    <3>1. CASE UNCHANGED <<pc, found, lease>>
      BY <1>3, <3>1 DEF AttemptUntouched, Mine, Number
    <3>2. ASSUME NEW w \in Worker, NEW t \in Steps \ {"idle", "claimed"}, Within(w, t)
          PROVE  \A v \in Worker : pc'[v] = "claimed" => pc[v] = "claimed" /\ lease'[v] = lease[v]
      BY <1>1, <3>2 DEF Within, queueVars
    <3>3. ASSUME NEW w \in Worker, NEW r \in Run, ClaimJob(w, r)
          PROVE  \A v \in Worker : pc'[v] = "claimed" => att'[Mine(v)'][Number(v)'] = "NONE"
      <4>1. /\ lease'[w] = [job |-> r, token |-> fresh, attempt |-> attempt[r] + 1]
            /\ \A v \in Worker : v # w => lease'[v] = lease[v] /\ pc'[v] = pc[v]
            /\ status[r] \in {"PENDING", "RETRY"}
        BY <1>1, <3>3 DEF ClaimJob, Moves, Q!Claim, Q!TypeOK, Q!Claimable
      <4>2. attempt[r] < CheckpointAttempts
        BY <4>1 DEF QP!IInv, QP!AttemptsCounted, QP!Claimable
      <4>3. attempt[r] + 1 \in AttemptNumber /\ attempt[r] + 1 > attempt[r]
        <5>1. attempt[r] \in Nat
          BY <1>1
        <5> QED BY <4>2, <5>1 DEF AttemptNumber, CheckpointAttempts
      <4>4. att[r][attempt[r] + 1] = "NONE"
        BY <4>3 DEF AttemptUntouched
      <4> QED BY <1>3, <4>1, <4>4 DEF AttemptUntouched, Mine, Number
    <3>4. ASSUME NEW w \in Worker, Ends(w)
          PROVE  \A v \in Worker : pc'[v] = "claimed" => pc[v] = "claimed" /\ lease'[v] = lease[v]
      BY <1>1, <3>4 DEF Ends, Q!TypeOK
    <3> QED BY <1>3, HandlerMoves, <3>1, <3>2, <3>3, <3>4 DEF AttemptUntouched, Mine, Number
  <2> QED BY <2>1, <2>2 DEF AttemptUntouched
<1>4. ASSUME NEW w \in Worker, SkipsNow(w) \/ BeginAttempt(w) \/ Finalize(w) \/ RecordFailure(w),
             UNCHANGED queueVars
      PROVE  AttemptUntouched'
  <2> DEFINE r == Mine(w)
             n == Number(w)
  <2>1. r \in Run /\ n \in AttemptNumber /\ lease[w] # Null
    BY <1>4, SettleMoves DEF LeaseHeld, SkipsNow, BeginAttempt, Finalize, RecordFailure, Moves
  <2>2. n <= attempt[r] /\ attempt' = attempt /\ lease' = lease
    BY <1>4, <2>1 DEF AttemptIssued, queueVars
  <2>3. \E a \in AttemptStatus, s \in RunStatus : Settle(r, n, a, s)
    BY <1>4, SettleMoves DEF AttemptStatus, RunStatus, Final
  <2>4. \A q \in Run, m \in AttemptNumber : q # r \/ m # n => att'[q][m] = att[q][m]
    BY <2>1, <2>3, SettleEffect
  <2>5. \A v \in Worker : pc'[v] = "claimed" => v # w /\ pc[v] = "claimed"
    BY <1>1, <1>4 DEF SkipsNow, BeginAttempt, Finalize, RecordFailure, Moves
  <2>6. \A v \in Worker : pc[v] = "claimed" =>
            lease[v] # Null /\ Mine(v) \in Run /\ Number(v) \in AttemptNumber
    BY HandlerFacts
  <2>7. \A v \in Worker : pc[v] = "claimed" /\ v # w => Mine(v) # r \/ Number(v) # n
    BY <2>1, <2>6 DEF AttemptsDistinct
  <2>8. \A q \in Run, m \in AttemptNumber : m > attempt'[q] => att'[q][m] = "NONE"
    BY <1>1, <2>1, <2>2, <2>4 DEF AttemptUntouched, AttemptNumber
  <2>9. \A v \in Worker : pc'[v] = "claimed" => att'[Mine(v)'][Number(v)'] = "NONE"
    BY <2>2, <2>4, <2>5, <2>6, <2>7 DEF AttemptUntouched, Mine, Number
  <2> QED BY <2>8, <2>9 DEF AttemptUntouched
<1>5. ASSUME NEW w \in Worker, SkipsNow(w) \/ BeginAttempt(w) \/ Finalize(w) \/ RecordFailure(w)
      PROVE  UNCHANGED queueVars
  BY <1>5 DEF SkipsNow, BeginAttempt, Finalize, RecordFailure
<1> QED BY RunMoves, <1>3, <1>4, <1>5 DEF runVars, Insert

------------------------------------------------------------------------------
(* Runs, their attempts and their evidence.                                  *)

\* AttemptsExplainRun without the sets of attempts.
Explained(r) ==
    /\ run[r] \in Final => \E n \in AttemptNumber : att[r][n] = run[r]
    /\ rows[r] # 0 => att[r][rows[r]] = run[r]
    /\ \A n \in AttemptNumber : att[r][n] = "COMPLETE" => run[r] = "COMPLETE" /\ rows[r] = n
    /\ run[r] = "RUNNING" => \E n \in AttemptNumber : att[r][n] = "RUNNING"

AllExplained == \A r \in Run : Explained(r)

LEMMA ExplainedIs == RunTypeOK => (AttemptsExplainRun <=> AllExplained)
<1> SUFFICES ASSUME RunTypeOK
             PROVE  AttemptsExplainRun <=> \A r \in Run : Explained(r)
  BY DEF AllExplained
<1> DEFINE of(r, s) == {n \in DOMAIN att[r] : att[r][n] = s}
<1>1. \A r \in Run : \A s : \A n : n \in of(r, s) <=> n \in AttemptNumber /\ att[r][n] = s
  BY DEF RunTypeOK
<1>2. AttemptsExplainRun <=> \A r \in Run :
          /\ run[r] \in Final => of(r, run[r]) # {}
          /\ rows[r] # 0 => att[r][rows[r]] = run[r]
          /\ of(r, "COMPLETE") # {} => run[r] = "COMPLETE" /\ of(r, "COMPLETE") = {rows[r]}
          /\ run[r] = "RUNNING" => of(r, "RUNNING") # {}
  BY DEF AttemptsExplainRun
<1> HIDE DEF of
<1>3. ASSUME NEW r \in Run
      PROVE  (of(r, "COMPLETE") # {} => run[r] = "COMPLETE" /\ of(r, "COMPLETE") = {rows[r]})
             <=> \A n \in AttemptNumber : att[r][n] = "COMPLETE" => run[r] = "COMPLETE" /\ rows[r] = n
  <2>1. ASSUME of(r, "COMPLETE") # {} => run[r] = "COMPLETE" /\ of(r, "COMPLETE") = {rows[r]},
               NEW n \in AttemptNumber, att[r][n] = "COMPLETE"
        PROVE  run[r] = "COMPLETE" /\ rows[r] = n
    <3>1. n \in of(r, "COMPLETE")
      BY <1>1, <2>1
    <3> QED BY <2>1, <3>1
  <2>2. ASSUME \A n \in AttemptNumber : att[r][n] = "COMPLETE" => run[r] = "COMPLETE" /\ rows[r] = n,
               of(r, "COMPLETE") # {}
        PROVE  run[r] = "COMPLETE" /\ of(r, "COMPLETE") = {rows[r]}
    <3>1. PICK n : n \in of(r, "COMPLETE")
      BY <2>2
    <3>2. n \in AttemptNumber /\ att[r][n] = "COMPLETE"
      BY <1>1, <3>1
    <3>3. \A m : m \in of(r, "COMPLETE") => m = rows[r]
      BY <1>1, <2>2
    <3> QED BY <2>2, <3>1, <3>2, <3>3
  <2> QED BY <2>1, <2>2
<1>4. ASSUME NEW r \in Run, NEW s
      PROVE  of(r, s) # {} <=> \E n \in AttemptNumber : att[r][n] = s
  BY <1>1
<1> QED BY <1>2, <1>3, <1>4 DEF Explained

LEMMA ExplainedIsNext ==
    RunTypeOK' => (AttemptsExplainRun' <=> \A r \in Run : Explained(r)')
<1>1. RunTypeOK' => (AttemptsExplainRun' <=> AllExplained')
  BY ExplainedIs, PTL
<1> QED BY <1>1 DEF AllExplained

LEMMA ExplainedStep ==
    ASSUME QP!IInv, TypeOK, AttemptsInv, HandlerInv, AttemptsExplainRun, EvidenceIsFinal, [Next]_vars
    PROVE  AttemptsExplainRun' /\ EvidenceIsFinal'
<1>1. RunTypeOK /\ RunTypeOK'
  BY RunTypeStep DEF TypeOK, RunTypeOK, AttemptNumber
<1>2. \A r \in Run : Explained(r)
  BY <1>1, ExplainedIs DEF AllExplained
<1>3. CASE UNCHANGED runVars
  BY <1>1, <1>2, <1>3, ExplainedIsNext DEF runVars, Explained, EvidenceIsFinal
<1>4. ASSUME NEW S \in SUBSET Run, NEW x \in Nat, Insert(S, x)
      PROVE  AttemptsExplainRun' /\ EvidenceIsFinal'
  <2>1. \A r \in Run : /\ run'[r] = run[r] \/ (run[r] = "ABSENT" /\ run'[r] = "PENDING")
                       /\ att'[r] = att[r] /\ rows'[r] = rows[r]
    BY <1>1, <1>4 DEF Insert, RunTypeOK
  <2>2. EvidenceIsFinal'
    BY <2>1 DEF EvidenceIsFinal
  <2>3. \A r \in Run : Explained(r)'
    BY <1>2, <2>1 DEF Explained, EvidenceIsFinal, Final
  <2> QED BY <1>1, <2>2, <2>3, ExplainedIsNext
<1>5. ASSUME NEW w \in Worker, SkipsNow(w) \/ BeginAttempt(w) \/ Finalize(w) \/ RecordFailure(w)
      PROVE  AttemptsExplainRun' /\ EvidenceIsFinal'
  <2> DEFINE r == Mine(w)
             n == Number(w)
  <2>1. r \in Run /\ n \in AttemptNumber /\ run[r] \in {"PENDING", "RUNNING"}
    BY <1>5, SettleMoves
  <2>2. rows[r] = 0 /\ \A m \in AttemptNumber : att[r][m] # "COMPLETE"
    BY <1>2, <2>1 DEF EvidenceIsFinal, Explained
  <2>3. PICK a \in AttemptStatus, s \in RunStatus :
            /\ Settle(r, n, a, s)
            /\ \/ a \in {"SKIPPED", "RUNNING", "BROWSER_ERROR"} /\ s = a /\ rows' = rows
               \/ a = "BROWSER_ERROR" /\ s = "PENDING" /\ rows' = rows
               \/ a \in {"COMPLETE", "BROWSER_ERROR"} /\ s = a /\ rows' = [rows EXCEPT ![r] = n]
    BY <1>5, SettleMoves DEF AttemptStatus, RunStatus, Final
  <2>4. /\ run'[r] = s /\ att'[r][n] = a
        /\ \A m \in AttemptNumber : m # n => att'[r][m] = att[r][m]
        /\ \A q \in Run : q # r => run'[q] = run[q] /\ att'[q] = att[q]
    BY <2>1, <2>3, SettleEffect
  <2>5. /\ \A q \in Run : q # r => rows'[q] = rows[q]
        /\ rows'[r] = 0 \/ (rows'[r] = n /\ s = a /\ a \in {"COMPLETE", "BROWSER_ERROR"})
        /\ a = "COMPLETE" => rows'[r] = n
    BY <1>1, <2>1, <2>2, <2>3 DEF RunTypeOK
  <2>6. n # 0
    BY <2>1 DEF AttemptNumber
  <2> HIDE DEF r, n
  <2>7. EvidenceIsFinal'
    BY <2>4, <2>5 DEF EvidenceIsFinal
  <2>8. ASSUME NEW q \in Run PROVE Explained(q)'
    <3>1. CASE q # r
      BY <1>2, <2>4, <2>5, <3>1 DEF Explained
    <3>2. CASE q = r
      <4>1. (run'[r] \in Final \/ run'[r] = "RUNNING") => att'[r][n] = run'[r]
        BY <2>3, <2>4 DEF Final
      <4>2. rows'[r] # 0 => att'[r][rows'[r]] = run'[r]
        BY <2>4, <2>5
      <4>3. \A m \in AttemptNumber : att'[r][m] = "COMPLETE" => m = n /\ a = "COMPLETE"
        BY <2>2, <2>4
      <4>4. a = "COMPLETE" => run'[r] = "COMPLETE" /\ rows'[r] = n
        BY <2>3, <2>4, <2>5
      <4> QED BY <2>1, <3>2, <4>1, <4>2, <4>3, <4>4 DEF Explained
    <3> QED BY <3>1, <3>2
  <2> QED BY <1>1, <2>7, <2>8, ExplainedIsNext
<1> QED BY RunMoves, <1>3, <1>4, <1>5

\* Where bytes lie, bytes stay.
LEMMA StoresGrow ==
    ASSUME QP!IInv, TypeOK, AttemptsInv, [Next]_vars
    PROVE  \A r \in Run : /\ objects[r] # 0 => objects'[r] # 0
                          /\ manifest[r] # 0 => manifest'[r] # 0
<1>1. objects \in [Run -> 0 .. CheckpointAttempts] /\ manifest \in [Run -> 0 .. CheckpointAttempts]
  BY DEF TypeOK
<1>2. CASE UNCHANGED storeVars
  BY <1>2 DEF storeVars
<1>3. ASSUME NEW w \in Worker, PutArtifacts(w) \/ PutManifest(w)
      PROVE  /\ Mine(w) \in Run /\ Number(w) # 0
             /\ objects' = objects \/ objects' = [objects EXCEPT ![Mine(w)] = Number(w)]
             /\ manifest' = manifest \/ manifest' = [manifest EXCEPT ![Mine(w)] = Number(w)]
  <2>1. pc[w] # "idle"
    BY <1>3 DEF PutArtifacts, PutManifest, Moves
  <2> QED BY <1>3, <2>1, HandlerFacts DEF PutArtifacts, PutManifest, AttemptNumber
<1>4. UNCHANGED storeVars \/ \E w \in Worker : PutArtifacts(w) \/ PutManifest(w)
  BY DEF Next, vars, NextWindow, SetMonitoring, SchedulerStep, SchedulerDies, StartPass, Materialize,
         EnqueueRun, Register, RegisterEnqueues, RegisterOperatorSite, IncidentEnqueues, IncidentCommits,
         CallDies, HandlerStep, RejectAttempt, SkipAttempt, BeginAttempt, Browse, Finalize, FinalizeFails,
         RecordFailure, WorkerDies, Report, ClaimJob, QueueStep
<1> QED BY <1>1, <1>2, <1>3, <1>4

LEMMA EvidenceStep ==
    ASSUME QP!IInv, TypeOK, AttemptsInv, HandlerInv, AttemptsExplainRun, EvidenceIsFinal,
           EvidenceBehindRows, [Next]_vars
    PROVE  EvidenceBehindRows'
<1>1. RunTypeOK /\ RunTypeOK'
  BY RunTypeStep DEF TypeOK, RunTypeOK, AttemptNumber
<1>2. CASE rows' = rows /\ derive' = derive
  BY <1>2, StoresGrow DEF EvidenceBehindRows
<1>3. ASSUME NEW w \in Worker, Finalize(w)
      PROVE  EvidenceBehindRows'
  <2>1. /\ Mine(w) \in Run /\ Number(w) \in AttemptNumber
        /\ rows' = [rows EXCEPT ![Mine(w)] = Number(w)]
        /\ derive' = IF Mine(w) \in Incident THEN derive ELSE derive \cup {Mine(w)}
    BY <1>3, SettleMoves DEF Finalize
  <2>2. rows'[Mine(w)] # 0 /\ \A q \in Run : q # Mine(w) => rows'[q] = rows[q]
    BY <1>1, <2>1 DEF RunTypeOK, AttemptNumber
  <2>3. objects[Mine(w)] # 0 /\ manifest[Mine(w)] # 0
    BY <1>3 DEF Finalize, Moves, HandlerInv
  <2> QED BY <2>1, <2>2, <2>3, StoresGrow DEF EvidenceBehindRows
<1>4. ASSUME NEW w \in Worker, SkipsNow(w) \/ BeginAttempt(w) \/ RecordFailure(w)
      PROVE  rows' = rows /\ derive' = derive
  BY <1>4 DEF SkipsNow, BeginAttempt, RecordFailure
<1> QED BY RunMoves, <1>2, <1>3, <1>4 DEF runVars, Insert

LEMMA FinalStays ==
    ASSUME QP!IInv, TypeOK, AttemptsInv, HandlerInv, [Next]_vars, NEW r \in Run, run[r] \in Final
    PROVE  /\ run'[r] = run[r] /\ att'[r] = att[r] /\ rows'[r] = rows[r]
           /\ r \in derive' <=> r \in derive
<1>1. RunTypeOK /\ RunTypeOK'
  BY RunTypeStep DEF TypeOK, RunTypeOK, AttemptNumber
<1>2. CASE UNCHANGED runVars
  BY <1>2 DEF runVars
<1>3. ASSUME NEW S \in SUBSET Run, NEW x \in Nat, Insert(S, x)
      PROVE  run'[r] = run[r] /\ UNCHANGED <<att, rows, derive>>
  BY <1>3 DEF Insert, Final
<1>4. ASSUME NEW w \in Worker, SkipsNow(w) \/ BeginAttempt(w) \/ Finalize(w) \/ RecordFailure(w)
      PROVE  /\ run'[r] = run[r] /\ att'[r] = att[r] /\ rows'[r] = rows[r]
             /\ r \in derive' <=> r \in derive
  <2>1. Mine(w) \in Run /\ Number(w) \in AttemptNumber /\ r # Mine(w)
    BY <1>4, SettleMoves DEF Final
  <2>2. \E a \in AttemptStatus, s \in RunStatus : Settle(Mine(w), Number(w), a, s)
    BY <1>4, SettleMoves DEF AttemptStatus, RunStatus, Final
  <2>3. run'[r] = run[r] /\ att'[r] = att[r]
    BY <2>1, <2>2, SettleEffect
  <2>4. /\ rows' = rows \/ rows' = [rows EXCEPT ![Mine(w)] = Number(w)]
        /\ derive' = derive \/ derive' = derive \cup {Mine(w)}
    BY <1>4, SettleMoves
  <2> QED BY <1>1, <2>1, <2>3, <2>4 DEF RunTypeOK
<1> QED BY RunMoves, <1>2, <1>3, <1>4

LEMMA InsertedStays ==
    ASSUME QP!IInv, TypeOK, AttemptsInv, HandlerInv, [Next]_vars, NEW r \in Run, run[r] # "ABSENT"
    PROVE  run'[r] # "ABSENT"
<1>1. run \in [Run -> RunStatus]
  BY DEF TypeOK
<1>2. ASSUME NEW S \in SUBSET Run, NEW x \in Nat, Insert(S, x)
      PROVE  run'[r] # "ABSENT"
  BY <1>2 DEF Insert
<1>3. ASSUME NEW w \in Worker, SkipsNow(w) \/ BeginAttempt(w) \/ Finalize(w) \/ RecordFailure(w)
      PROVE  run'[r] # "ABSENT"
  <2>1. \E s \in RunStatus \ {"ABSENT"} : run' = [run EXCEPT ![Mine(w)] = s]
    BY <1>3, SettleMoves DEF Settle, RunStatus, Final
  <2> QED BY <1>1, <2>1
<1> QED BY RunMoves, <1>2, <1>3 DEF runVars

\* Rows appear by Enqueue only.
LEMMA AbsentStays ==
    ASSUME QP!IInv, NEW r \in Run, status[r] = "ABSENT",
           \/ UNCHANGED queueVars
           \/ \E q \in Run : Q!Enqueue(q, q, 0) /\ q # r
           \/ \E w \in Worker, q \in Run : Q!Claim(w, q)
           \/ \E w \in Worker : Q!Heartbeat(w) \/ Q!Complete(w) \/ Q!Crash(w)
           \/ \E w \in Worker, b \in BOOLEAN : Q!FailOrRetry(w, b)
           \/ \E S \in SUBSET Q!Expired : Q!ReclaimExpired(S)
           \/ Q!Tick
    PROVE  status'[r] = "ABSENT"
<1>1. Q!TypeOK
  BY SameQueue
<1>2. \A w \in Worker : Q!Owns(w) => r # lease[w].job
  BY DEF Q!Owns
<1> QED BY <1>1, <1>2 DEF queueVars, Q!TypeOK, Q!Enqueue, Q!Claim, Q!Claimable, Q!Heartbeat, Q!Complete, Q!Crash,
         Q!FailOrRetry, Q!ReclaimExpired, Q!Expired, Q!Tick, Q!Unlock, Q!jobVars

LEMMA RunBehindJobStep ==
    ASSUME QP!IInv, TypeOK, AttemptsInv, HandlerInv, RunBehindJob, [Next]_vars
    PROVE  RunBehindJob'
<1> SUFFICES ASSUME NEW r \in Run, r \notin Incident, run[r] = "ABSENT", run'[r] = "ABSENT"
             PROVE  status'[r] = "ABSENT" /\ r \notin todo' /\ r \notin calls'
  BY InsertedStays DEF RunBehindJob
<1>1. status[r] = "ABSENT" /\ r \notin todo /\ r \notin calls
  BY DEF RunBehindJob
<1>2. Q!TypeOK /\ run \in [Run -> RunStatus]
  BY SameQueue DEF TypeOK
<1>3. CASE UNCHANGED vars
  BY <1>1, <1>3 DEF vars, queueVars, planVars
<1>4. CASE NextWindow \/ (\E at \in 0 .. Slots : SetMonitoring(at)) \/ SchedulerDies \/ StartPass
  BY <1>1, <1>4 DEF NextWindow, SetMonitoring, SchedulerDies, StartPass, queueVars
<1>5. ASSUME NEW S \in SUBSET Scheduled, Materialize(S)
      PROVE  status'[r] = "ABSENT" /\ r \notin todo' /\ r \notin calls'
  BY <1>1, <1>5 DEF Materialize, Insert, queueVars
<1>6. ASSUME NEW q \in Run, EnqueueRun(q)
      PROVE  status'[r] = "ABSENT" /\ r \notin todo' /\ r \notin calls'
  <2>1. q # r
    BY <1>1, <1>6 DEF EnqueueRun
  <2> QED BY <1>1, <1>6, <2>1, AbsentStays DEF EnqueueRun
<1>7. ASSUME NEW q \in Run,
             \/ Register(q) \/ RegisterEnqueues(q) \/ RegisterOperatorSite(q)
             \/ IncidentEnqueues(q) \/ IncidentCommits(q) \/ CallDies(q)
      PROVE  status'[r] = "ABSENT" /\ r \notin todo' /\ r \notin calls'
  <2>1. CASE q = r
    <3>1. CallDies(q)
      BY <1>1, <1>2, <1>7, <2>1 DEF Register, RegisterEnqueues, RegisterOperatorSite, IncidentEnqueues,
                IncidentCommits, CallDies, Insert
    <3> QED BY <1>1, <2>1, <3>1 DEF CallDies
  <2>2. CASE q # r
    <3>1. r \notin todo' /\ r \notin calls'
      BY <1>1, <1>7, <2>2 DEF Register, RegisterEnqueues, RegisterOperatorSite, IncidentEnqueues,
                IncidentCommits, CallDies, planVars
    <3>2. UNCHANGED queueVars \/ Q!Enqueue(q, q, 0)
      BY <1>7 DEF Register, RegisterEnqueues, RegisterOperatorSite, IncidentEnqueues, IncidentCommits, CallDies
    <3> QED BY <1>1, <2>2, <3>1, <3>2, AbsentStays
  <2> QED BY <2>1, <2>2
<1>8. ASSUME NEW w \in Worker, HandlerStep(w) \/ \E q \in Run : ClaimJob(w, q)
      PROVE  status'[r] = "ABSENT" /\ r \notin todo' /\ r \notin calls'
  <2>1. UNCHANGED planVars
    BY <1>8 DEF HandlerStep, RejectAttempt, SkipAttempt, BeginAttempt, Browse, PutArtifacts, PutManifest,
         Finalize, FinalizeFails, RecordFailure, WorkerDies, Report, ClaimJob
  <2>2. \/ UNCHANGED queueVars \/ Q!Complete(w) \/ Q!Crash(w) \/ \E b \in BOOLEAN : Q!FailOrRetry(w, b)
        \/ \E q \in Run : Q!Claim(w, q)
    <3>1. Retryable(w) \in BOOLEAN
      BY DEF Retryable
    <3> QED BY <1>8, <3>1 DEF HandlerStep, RejectAttempt, SkipAttempt, BeginAttempt, Browse, PutArtifacts,
         PutManifest, Finalize, FinalizeFails, RecordFailure, WorkerDies, Report, ClaimJob
  <2> QED BY <1>1, <2>1, <2>2, AbsentStays DEF planVars
<1>9. CASE QueueStep
  BY <1>1, <1>9, AbsentStays DEF QueueStep, planVars
<1> QED BY <1>3, <1>4, <1>5, <1>6, <1>7, <1>8, <1>9 DEF Next, SchedulerStep

\* Who is told of success has a run that is over.
LEMMA CompleteJobStep ==
    ASSUME QP!IInv, TypeOK, AttemptsInv, HandlerInv, CompleteJobHasFinalRun, [Next]_vars
    PROVE  CompleteJobHasFinalRun'
<1> SUFFICES ASSUME NEW r \in Run, status[r] # "COMPLETE", status'[r] = "COMPLETE"
             PROVE  run'[r] \in Final
  BY FinalStays DEF CompleteJobHasFinalRun
<1>1. Q!TypeOK
  BY SameQueue
<1>2. PICK w \in Worker : Q!Complete(w) /\ pc[w] = "done" /\ lease[w].job = r
  <2>1. CASE UNCHANGED queueVars \/ Q!Tick \/ \E w \in Worker : Q!Heartbeat(w) \/ Q!Crash(w)
    BY <2>1 DEF queueVars, Q!Tick, Q!Heartbeat, Q!Crash, Q!jobVars
  <2>2. CASE \/ \E q \in Run : Q!Enqueue(q, q, 0)
             \/ \E w \in Worker, q \in Run : Q!Claim(w, q)
    BY <1>1, <2>2 DEF Q!Enqueue, Q!Claim, Q!TypeOK
  <2>3. CASE \/ \E w \in Worker, b \in BOOLEAN : Q!FailOrRetry(w, b)
             \/ \E S \in SUBSET Q!Expired : Q!ReclaimExpired(S)
    BY <2>3 DEF Q!FailOrRetry, Q!ReclaimExpired, Q!Unlock, Q!jobVars
  <2>4. CASE \E w \in Worker : Q!Complete(w) /\ pc[w] = "done"
    <3>1. PICK w \in Worker : Q!Complete(w) /\ pc[w] = "done"
      BY <2>4
    <3>2. \/ UNCHANGED status
          \/ status' = [q \in Run |-> IF q = lease[w].job THEN "COMPLETE" ELSE status[q]]
      BY <3>1 DEF Q!Complete, Q!Unlock, Q!jobVars
    <3>3. lease[w].job = r
      BY <3>2
    <3> QED BY <3>1, <3>3
  <2> QED BY QueueMoves, <2>1, <2>2, <2>3, <2>4
<1> QED BY <1>2, FinalStays DEF HandlerInv, Mine

------------------------------------------------------------------------------
(* What a handler relies on.                                                 *)

\* v is at the same step, of the same attempt, with the same evidence.
Same(v) == pc'[v] = pc[v] /\ found'[v] = found[v] /\ lease'[v] = lease[v]

LEMMA OthersStay ==
    ASSUME QP!IInv, TypeOK, [Next]_vars
    PROVE  \/ \A v \in Worker : Same(v)
           \/ \E w \in Worker : /\ HandlerStep(w) \/ \E r \in Run : ClaimJob(w, r)
                                /\ \A v \in Worker \ {w} : Same(v)
<1>1. lease \in [Worker -> Q!Lease \cup {Null}] /\ pc \in [Worker -> Steps]
      /\ found \in [Worker -> {"COMPLETE", "BROWSER_ERROR", Null}]
  BY DEF TypeOK, Q!TypeOK
<1>2. CASE UNCHANGED vars
  BY <1>2 DEF vars, handlerVars, queueVars, Same
<1>3. CASE NextWindow \/ (\E at \in 0 .. Slots : SetMonitoring(at))
  BY <1>3 DEF NextWindow, SetMonitoring, handlerVars, queueVars, Same
<1>4. CASE SchedulerStep \/ SchedulerDies
  BY <1>4 DEF SchedulerStep, SchedulerDies, StartPass, Materialize, EnqueueRun, handlerVars, queueVars,
              Q!Enqueue, Same
<1>5. ASSUME NEW r \in Run,
             \/ Register(r) \/ RegisterEnqueues(r) \/ RegisterOperatorSite(r)
             \/ IncidentEnqueues(r) \/ IncidentCommits(r) \/ CallDies(r)
      PROVE  \A v \in Worker : Same(v)
  BY <1>5 DEF Register, RegisterEnqueues, RegisterOperatorSite, IncidentEnqueues, IncidentCommits,
              CallDies, handlerVars, queueVars, Q!Enqueue, Same
<1>6. ASSUME NEW w \in Worker, HandlerStep(w) PROVE \A v \in Worker \ {w} : Same(v)
  <2>1. CASE RejectAttempt(w) \/ SkipAttempt(w) \/ BeginAttempt(w) \/ Finalize(w)
             \/ FinalizeFails(w) \/ RecordFailure(w) \/ PutArtifacts(w) \/ PutManifest(w)
             \/ \E o \in {"COMPLETE", "BROWSER_ERROR", Null} : Browse(w, o)
    BY <1>1, <2>1 DEF RejectAttempt, SkipAttempt, BeginAttempt, Finalize, FinalizeFails, RecordFailure,
         PutArtifacts, PutManifest, Browse, Moves, Same, queueVars
  <2>2. CASE WorkerDies(w) \/ Report(w)
    BY <1>1, <2>2 DEF WorkerDies, Report, Moves, Same, Q!Crash, Q!Complete, Q!FailOrRetry
  <2> QED BY <1>6, <2>1, <2>2 DEF HandlerStep
<1>7. ASSUME NEW w \in Worker, NEW r \in Run, ClaimJob(w, r) PROVE \A v \in Worker \ {w} : Same(v)
  BY <1>1, <1>7 DEF ClaimJob, Moves, Same, Q!Claim
<1>8. CASE QueueStep
  BY <1>8 DEF QueueStep, handlerVars, Q!Heartbeat, Q!ReclaimExpired, Q!Tick, Same
<1> QED BY <1>2, <1>3, <1>4, <1>5, <1>6, <1>7, <1>8 DEF Next

\* HandlerInv of one handler.
Relies(w) ==
    /\ pc[w] \in {"storing", "manifest", "finalizing"} => found[w] \in {"COMPLETE", "BROWSER_ERROR"}
    /\ pc[w] \in {"manifest", "finalizing"} => objects[Mine(w)] # 0
    /\ pc[w] = "finalizing" => manifest[Mine(w)] # 0
    /\ pc[w] = "done" => run[Mine(w)] \in Final
    /\ pc[w] = "release" /\ ~Retryable(w) => run[Mine(w)] \in Final
    /\ pc[w] = "rejected" => run[Mine(w)] \in Final \/ Mine(w) \in Incident

LEMMA SameRelies ==
    ASSUME QP!IInv, TypeOK, AttemptsInv, HandlerInv, [Next]_vars, NEW v \in Worker, Same(v)
    PROVE  Relies(v)'
<1>1. CASE pc[v] = "idle"
  BY <1>1 DEF Same, Relies
<1>2. CASE pc[v] # "idle"
  <2>1. Mine(v) \in Run
    BY <1>2, HandlerFacts
  <2>2. /\ objects[Mine(v)] # 0 => objects'[Mine(v)] # 0
        /\ manifest[Mine(v)] # 0 => manifest'[Mine(v)] # 0
        /\ run[Mine(v)] \in Final => run'[Mine(v)] \in Final
    BY <2>1, StoresGrow, FinalStays
  <2> QED BY <2>2 DEF Same, Relies, HandlerInv, Mine, Number, Retryable
<1> QED BY <1>1, <1>2

LEMMA HandlerInvStep ==
    ASSUME QP!IInv, TypeOK, AttemptsInv, HandlerInv, RunBehindJob, [Next]_vars
    PROVE  HandlerInv'
<1> SUFFICES ASSUME NEW w \in Worker, HandlerStep(w) \/ \E r \in Run : ClaimJob(w, r)
             PROVE  Relies(w)'
  BY OthersStay, SameRelies DEF HandlerInv, Relies
<1>1. /\ pc \in [Worker -> Steps] /\ found \in [Worker -> {"COMPLETE", "BROWSER_ERROR", Null}]
      /\ run \in [Run -> RunStatus]
      /\ objects \in [Run -> 0 .. CheckpointAttempts] /\ manifest \in [Run -> 0 .. CheckpointAttempts]
  BY DEF TypeOK
<1>2. pc[w] # "idle" => Mine(w) \in Run /\ Number(w) \in AttemptNumber /\ Number(w) # 0
                        /\ status[Mine(w)] # "ABSENT"
  BY HandlerFacts DEF AttemptNumber
<1>3. UNCHANGED queueVars /\ pc[w] # "idle" =>
          /\ Mine(w)' = Mine(w) /\ Number(w)' = Number(w) /\ (Retryable(w))' = Retryable(w)
          /\ run[Mine(w)] \in Final => run'[Mine(w)] \in Final
          /\ objects[Mine(w)] # 0 => objects'[Mine(w)] # 0
          /\ manifest[Mine(w)] # 0 => manifest'[Mine(w)] # 0
  BY <1>2, FinalStays, StoresGrow DEF queueVars, Mine, Number, Retryable
<1>4. CASE RejectAttempt(w)
  <2>1. pc[w] = "claimed" /\ pc'[w] = "rejected" /\ UNCHANGED queueVars
    BY <1>1, <1>4 DEF RejectAttempt, Moves
  <2>2. att[Mine(w)][Number(w)] = "NONE"
    BY <2>1 DEF AttemptsInv, AttemptUntouched
  <2>3. run[Mine(w)] \in {"ABSENT", "COMPLETE", "BROWSER_ERROR"}
    BY <1>1, <1>2, <1>4, <2>1, <2>2 DEF RejectAttempt, Admitted, RunStatus, Final
  <2>4. run[Mine(w)] \in Final \/ Mine(w) \in Incident
    BY <1>2, <2>1, <2>3 DEF RunBehindJob, Final
  <2> QED BY <1>3, <2>1, <2>4 DEF Relies
<1>5. CASE SkipAttempt(w)
  <2>1. pc[w] = "claimed" /\ pc'[w] = "done" /\ UNCHANGED queueVars
    BY <1>1, <1>5 DEF SkipAttempt, Moves
  <2>2. run'[Mine(w)] = "SKIPPED"
    BY <1>1, <1>2, <1>5, <2>1 DEF SkipAttempt, Settle, runVars
  <2> QED BY <1>3, <2>1, <2>2 DEF Relies, Final
<1>6. CASE BeginAttempt(w)
  BY <1>1, <1>6 DEF BeginAttempt, Moves, Relies
<1>7. ASSUME NEW o \in {"COMPLETE", "BROWSER_ERROR", Null}, Browse(w, o)
      PROVE  Relies(w)'
  BY <1>1, <1>7 DEF Browse, Moves, Relies
<1>8. CASE PutArtifacts(w)
  <2>1. /\ pc[w] = "storing" /\ UNCHANGED <<queueVars, found>>
        /\ pc'[w] = "manifest" \/ pc'[w] = "failing"
        /\ pc'[w] = "manifest" => objects'[Mine(w)] # 0
    BY <1>1, <1>2, <1>8 DEF PutArtifacts, Moves
  <2> QED BY <1>3, <2>1 DEF Relies, HandlerInv
<1>9. CASE PutManifest(w)
  <2>1. /\ pc[w] = "manifest" /\ UNCHANGED <<queueVars, found, objects>>
        /\ pc'[w] = "finalizing" \/ pc'[w] = "failing"
        /\ pc'[w] = "finalizing" => manifest'[Mine(w)] # 0
    BY <1>1, <1>2, <1>9 DEF PutManifest, Moves
  <2> QED BY <1>3, <2>1 DEF Relies, HandlerInv
<1>10. CASE Finalize(w)
  <2>1. pc[w] = "finalizing" /\ pc'[w] = "done" /\ UNCHANGED queueVars
    BY <1>1, <1>10 DEF Finalize, Moves
  <2>2. run'[Mine(w)] = found[w] /\ found[w] \in {"COMPLETE", "BROWSER_ERROR"}
    BY <1>1, <1>2, <1>10, <2>1 DEF Finalize, Settle, HandlerInv
  <2> QED BY <1>3, <2>1, <2>2 DEF Relies, Final
<1>11. CASE FinalizeFails(w)
  BY <1>1, <1>11 DEF FinalizeFails, Moves, Relies
<1>12. CASE RecordFailure(w)
  <2>1. pc[w] = "failing" /\ pc'[w] = "release" /\ UNCHANGED queueVars
    BY <1>1, <1>12 DEF RecordFailure, Moves
  <2>2. ~Retryable(w) => run'[Mine(w)] = "BROWSER_ERROR"
    BY <1>1, <1>2, <1>12, <2>1 DEF RecordFailure, Settle
  <2> QED BY <1>3, <2>1, <2>2 DEF Relies, Final
<1>13. CASE WorkerDies(w) \/ Report(w)
  BY <1>1, <1>13 DEF WorkerDies, Report, Moves, Relies
<1>14. ASSUME NEW r \in Run, ClaimJob(w, r) PROVE Relies(w)'
  BY <1>1, <1>14 DEF ClaimJob, Moves, Relies
<1> QED BY <1>4, <1>5, <1>6, <1>7, <1>8, <1>9, <1>10, <1>11, <1>12, <1>13, <1>14 DEF HandlerStep

------------------------------------------------------------------------------
(* Windows.                                                                  *)

\* What WindowTellsRuns says of one window, of status s, whose runs stand at st.
Tells(x, s, st) ==
    /\ s \in Verdict => \A r \in Inserted(x, st) : st[r] # "RUNNING"
    /\ Inserted(x, st) # {} /\ (\A r \in Inserted(x, st) : st[r] \in Final) =>
          /\ s \in Verdict
          /\ s = "FAILED" <=> \A r \in Inserted(x, st) : st[r] = "BROWSER_ERROR"
          /\ s = "COMPLETE" <=> \A r \in Inserted(x, st) : st[r] # "BROWSER_ERROR"

LEMMA WindowTellsIs == WindowTellsRuns <=> \A x \in Window : Tells(x, window[x], run)
<1>1. ASSUME NEW x \in Window
      PROVE  {r \in Inserted(x, run) : run[r] = "BROWSER_ERROR"} = Inserted(x, run)
             <=> \A r \in Inserted(x, run) : run[r] = "BROWSER_ERROR"
  OBVIOUS
<1>2. ASSUME NEW x \in Window
      PROVE  {r \in Inserted(x, run) : run[r] = "BROWSER_ERROR"} = {}
             <=> \A r \in Inserted(x, run) : run[r] # "BROWSER_ERROR"
  OBVIOUS
<1> QED BY <1>1, <1>2 DEF WindowTellsRuns, Tells

AllTell == \A x \in Window : Tells(x, window[x], run)

LEMMA WindowTellsIsNext == WindowTellsRuns' <=> \A x \in Window : Tells(x, window'[x], run')
<1>1. WindowTellsRuns <=> AllTell
  BY WindowTellsIs DEF AllTell
<1>2. WindowTellsRuns' <=> AllTell'
  BY <1>1, PTL
<1> QED BY <1>2 DEF AllTell, Tells, Inserted

\* A window that was refreshed tells its runs.
LEMMA SummaryTells ==
    ASSUME NEW x, NEW st
    PROVE  Tells(x, Summary(x, st), st)
<1> DEFINE mine == Inserted(x, st)
           seen == {st[r] : r \in mine}
<1>1. Summary(x, st) = IF seen \subseteq {"PENDING"} THEN "SCHEDULED"
                       ELSE IF seen = {"BROWSER_ERROR"} THEN "FAILED"
                       ELSE IF ~(seen \subseteq Final) THEN "RUNNING"
                       ELSE IF "BROWSER_ERROR" \in seen THEN "PARTIAL"
                       ELSE "COMPLETE"
  BY DEF Summary
<1>2. \A r \in mine : st[r] \in seen
  OBVIOUS
<1>3. seen = {"BROWSER_ERROR"} <=> mine # {} /\ \A r \in mine : st[r] = "BROWSER_ERROR"
  OBVIOUS
<1>4. "BROWSER_ERROR" \in seen <=> \E r \in mine : st[r] = "BROWSER_ERROR"
  OBVIOUS
<1>5. seen \subseteq Final <=> \A r \in mine : st[r] \in Final
  OBVIOUS
<1>6. seen \subseteq {"PENDING"} <=> \A r \in mine : st[r] = "PENDING"
  OBVIOUS
<1> HIDE DEF mine, seen
<1>7. Summary(x, st) \in Verdict => \A r \in mine : st[r] # "RUNNING"
  BY <1>1, <1>3, <1>5, <1>6 DEF Verdict, Final
<1>8. mine # {} /\ (\A r \in mine : st[r] \in Final) =>
          /\ Summary(x, st) \in Verdict
          /\ Summary(x, st) = "FAILED" <=> \A r \in mine : st[r] = "BROWSER_ERROR"
          /\ Summary(x, st) = "COMPLETE" <=> \A r \in mine : st[r] # "BROWSER_ERROR"
  <2> SUFFICES ASSUME mine # {}, \A r \in mine : st[r] \in Final
               PROVE  /\ Summary(x, st) \in Verdict
                      /\ Summary(x, st) = "FAILED" <=> \A r \in mine : st[r] = "BROWSER_ERROR"
                      /\ Summary(x, st) = "COMPLETE" <=> \A r \in mine : st[r] # "BROWSER_ERROR"
    OBVIOUS
  <2>1. ~(seen \subseteq {"PENDING"}) /\ seen \subseteq Final
    BY <1>5, <1>6 DEF Final
  <2>2. Summary(x, st) = IF seen = {"BROWSER_ERROR"} THEN "FAILED"
                         ELSE IF "BROWSER_ERROR" \in seen THEN "PARTIAL" ELSE "COMPLETE"
    BY <1>1, <2>1
  <2> QED BY <1>3, <1>4, <2>2 DEF Verdict
<1> QED BY <1>7, <1>8 DEF Tells, mine

\* Runs of other windows do not matter.
LEMMA TellsAgain ==
    ASSUME NEW x, NEW s, NEW st, NEW su, Tells(x, s, st),
           \A r \in Run : WindowOf[r] = x => su[r] = st[r]
    PROVE  Tells(x, s, su)
<1>1. Inserted(x, su) = Inserted(x, st) /\ \A r \in Inserted(x, st) : su[r] = st[r]
  BY DEF Inserted
<1> QED BY <1>1 DEF Tells

LEMMA WindowStep ==
    ASSUME QP!IInv, TypeOK, AttemptsInv, HandlerInv, WindowTellsRuns, [Next]_vars
    PROVE  WindowTellsRuns'
<1>1. RunTypeOK /\ RunTypeOK'
  BY RunTypeStep DEF TypeOK, RunTypeOK, AttemptNumber
<1> SUFFICES ASSUME NEW x \in Window
             PROVE  Tells(x, window'[x], run')
  BY WindowTellsIsNext
<1>2. Tells(x, window[x], run)
  BY WindowTellsIs
<1>3. CASE UNCHANGED runVars
  BY <1>2, <1>3 DEF runVars
<1>4. ASSUME NEW S \in SUBSET Run, NEW y \in Nat, \A r \in S : WindowOf[r] = y, Insert(S, y)
      PROVE  Tells(x, window'[x], run')
  <2>1. CASE \A r \in S : WindowOf[r] = x => run[r] # "ABSENT"
    <3>1. \A r \in Run : WindowOf[r] = x => run'[r] = run[r]
      BY <1>4, <2>1 DEF Insert
    <3>2. window'[x] = window[x] \/ (window[x] = "ABSENT" /\ window'[x] = "SCHEDULED")
      BY <1>1, <1>4 DEF Insert, RunTypeOK
    <3>3. Tells(x, window'[x], run)
      BY <1>2, <3>2 DEF Tells, Verdict
    <3> QED BY <3>1, <3>3, TellsAgain
  <2>2. ASSUME NEW r \in S, WindowOf[r] = x, run[r] = "ABSENT"
        PROVE  Tells(x, window'[x], run')
    <3>1. r \in Inserted(x, run') /\ run'[r] \notin Final
      BY <1>4, <2>2 DEF Insert, Inserted, Final
    <3>2. window'[x] \in Verdict => window[x] \in Verdict
      BY <1>1, <1>4 DEF Insert, RunTypeOK, Verdict
    <3>3. \A q \in Inserted(x, run') : run'[q] = "RUNNING" => q \in Inserted(x, run) /\ run[q] = "RUNNING"
      BY <1>4 DEF Insert, Inserted
    <3> QED BY <1>2, <3>1, <3>2, <3>3 DEF Tells
  <2> QED BY <2>1, <2>2
<1>5. ASSUME NEW w \in Worker, SkipsNow(w) \/ BeginAttempt(w) \/ Finalize(w) \/ RecordFailure(w)
      PROVE  Tells(x, window'[x], run')
  <2> DEFINE r == Mine(w)
  <2>1. r \in Run /\ Number(w) \in AttemptNumber /\ WindowOf[r] \in Window
    BY <1>5, SettleMoves, CheckpointAssumption
  <2>2. \E s \in RunStatus \ {"ABSENT"} : run' = [run EXCEPT ![r] = s]
    BY <1>5, SettleMoves DEF Settle, RunStatus, Final
  <2>3. /\ \A q \in Run : q # r => run'[q] = run[q]
        /\ run'[r] # "ABSENT" /\ run[r] # "ABSENT"
    BY <1>1, <1>5, <2>1, <2>2, SettleMoves DEF RunTypeOK
  <2>4. CASE WindowOf[r] # x
    <3>1. window'[x] = window[x]
      BY <1>1, <1>5, <2>4, SettleMoves DEF Refresh, RunTypeOK
    <3>2. \A q \in Run : WindowOf[q] = x => run'[q] = run[q]
      BY <2>3, <2>4
    <3> QED BY <1>2, <3>1, <3>2, TellsAgain
  <2>5. CASE WindowOf[r] = x
    <3>1. CASE Refresh(r, run')
      <4>1. window'[x] = Summary(x, run')
        BY <1>1, <2>5, <3>1 DEF Refresh, RunTypeOK
      <4> QED BY <4>1, SummaryTells
    <3>2. CASE BeginAttempt(w)
      <4>1. window'[x] = "RUNNING" /\ run'[r] = "RUNNING"
        BY <1>1, <2>1, <2>5, <3>2 DEF BeginAttempt, Settle, RunTypeOK
      <4>2. r \in Inserted(x, run')
        BY <2>1, <2>3, <2>5 DEF Inserted
      <4> QED BY <4>1, <4>2 DEF Tells, Verdict, Final
    <3>3. CASE window' = window /\ run[r] = "RUNNING" /\ run'[r] = "PENDING"
      <4>1. r \in Inserted(x, run') /\ r \in Inserted(x, run)
        BY <2>1, <2>3, <2>5 DEF Inserted
      <4>2. window[x] \notin Verdict
        BY <1>2, <3>3, <4>1 DEF Tells
      <4> QED BY <3>3, <4>1, <4>2 DEF Tells, Final
    <3>4. Refresh(r, run') \/ BeginAttempt(w)
          \/ (window' = window /\ run[r] = "RUNNING" /\ run'[r] = "PENDING")
      BY <1>1, <1>5, <2>1, SettleMoves DEF Settle, RunTypeOK
    <3> QED BY <3>1, <3>2, <3>3, <3>4
  <2> QED BY <2>4, <2>5
<1> QED BY RunMoves, <1>3, <1>4, <1>5

------------------------------------------------------------------------------
(* The invariant.                                                            *)

LEMMA InitIInv == Init => IInv
<1> SUFFICES ASSUME Init PROVE IInv
  OBVIOUS
<1>1. QP!IInv /\ Q!TypeOK
  BY QueueInv, SameQueue
<1>2. TypeOK
  BY <1>1, CheckpointAssumption DEF Init, TypeOK, RunStatus, AttemptStatus, WindowStatus, Steps, CheckpointAttempts
<1>3. AttemptsInv
  BY DEF Init, Q!Init, AttemptsInv, LeaseHeld, AttemptIssued, AttemptsDistinct, OwnerIsCurrent,
         AttemptUntouched, Q!Owns, AttemptNumber
<1>4. RunInv /\ HandlerInv /\ CompleteJobHasFinalRun
  <2>1. \A r \in Run : run[r] = "ABSENT" /\ rows[r] = 0 /\ r \notin derive /\ r \notin todo /\ r \notin calls
                       /\ status[r] = "ABSENT" /\ DOMAIN att[r] = AttemptNumber
                       /\ \A n \in AttemptNumber : att[r][n] = "NONE"
    BY DEF Init, Q!Init, AttemptNumber
  <2>2. AttemptsExplainRun
    BY <2>1 DEF AttemptsExplainRun, Final
  <2>3. EvidenceIsFinal /\ EvidenceBehindRows /\ RunBehindJob /\ CompleteJobHasFinalRun
    BY <2>1 DEF EvidenceIsFinal, EvidenceBehindRows, RunBehindJob, CompleteJobHasFinalRun
  <2>4. HandlerInv
    BY DEF Init, HandlerInv
  <2> QED BY <2>2, <2>3, <2>4 DEF RunInv
<1>5. WindowTellsRuns
  <2>1. \A x \in Window : Inserted(x, run) = {} /\ window[x] = "ABSENT"
    BY DEF Init, Inserted
  <2> QED BY <2>1, WindowTellsIs DEF Tells, Verdict
<1> QED BY <1>1, <1>2, <1>3, <1>4, <1>5 DEF IInv

LEMMA NextIInv == IInv /\ [Next]_vars => IInv'
<1> SUFFICES ASSUME IInv, [Next]_vars PROVE IInv'
  OBVIOUS
<1> USE DEF IInv
<1>1. QP!IInv' /\ TypeOK'
  BY QueueInv, TypeStep
<1>2. AttemptsInv'
  BY LeaseNumbersStep, LeaseHeldStep, AttemptUntouchedStep DEF AttemptsInv, LeaseNumbers
<1>3. RunInv'
  BY ExplainedStep, EvidenceStep, RunBehindJobStep DEF RunInv
<1>4. HandlerInv' /\ WindowTellsRuns' /\ CompleteJobHasFinalRun'
  BY HandlerInvStep, WindowStep, CompleteJobStep DEF RunInv
<1> QED BY <1>1, <1>2, <1>3, <1>4

LEMMA Invariance == Spec => []IInv
BY InitIInv, NextIInv, PTL DEF Spec

------------------------------------------------------------------------------
(* The theorems.                                                             *)

\* Every variable of checkpoints and of their queue keeps its type.
THEOREM CheckpointTypeCorrect == Spec => []TypeOK
<1>1. IInv => TypeOK
  BY DEF IInv
<1> QED BY <1>1, Invariance, PTL

\* browser/persistence.py: the status of a run, its attempts and its evidence
\* agree, whatever workers die or are overtaken.
THEOREM CheckpointAttemptsExplainRun == Spec => []AttemptsExplainRun
<1>1. IInv => AttemptsExplainRun
  BY DEF IInv, RunInv
<1> QED BY <1>1, Invariance, PTL

\* ARCHITECTURE.md, evidence before its record: artifact rows have objects and
\* a manifest behind them, and derivations are queued for evidence only.
THEOREM CheckpointEvidenceBehindRows == Spec => []EvidenceBehindRows
<1>1. IInv => EvidenceBehindRows
  BY DEF IInv, RunInv
<1> QED BY <1>1, Invariance, PTL

\* _refresh_window_status: the status of a window summarises its runs, although
\* retries leave it alone and runs are added to windows that were over.
THEOREM CheckpointWindowTellsRuns == Spec => []WindowTellsRuns
<1>1. IInv => WindowTellsRuns
  BY DEF IInv
<1> QED BY <1>1, Invariance, PTL

\* browser_worker.py: a job is reported COMPLETE only when its run is over.
THEOREM CheckpointCompleteJob == Spec => []CompleteJobHasFinalRun
<1>1. IInv => CompleteJobHasFinalRun
  BY DEF IInv
<1> QED BY <1>1, Invariance, PTL

\* BROWSER.md, "a completed checkpoint MUST NOT be edited in place".
THEOREM CheckpointFinalRunImmutable == Spec => FinalRunImmutable
<1>1. ASSUME IInv, [Next]_vars
      PROVE  [\A r \in Run : run[r] \in Final =>
                 /\ run'[r] = run[r] /\ att'[r] = att[r] /\ rows'[r] = rows[r]
                 /\ r \in derive' <=> r \in derive]_vars
  BY <1>1, FinalStays DEF IInv
<1> QED BY <1>1, Invariance, PTL DEF Spec, FinalRunImmutable

\* A handler that gives its job up for good leaves no run behind that waits.
THEOREM CheckpointReportedFailure == Spec => ReportedFailureIsFinal
<1>1. ASSUME IInv, [Next]_vars, NEW w \in Worker, Report(w),
             status[Mine(w)] = "RUNNING", status'[Mine(w)] = "FAILED"
      PROVE  run[Mine(w)] \in Final \/ Mine(w) \in Incident
  <2> DEFINE r == Mine(w)
  <2>1. pc[w] \in {"done", "release", "rejected"}
    BY <1>1 DEF Report, Moves
  <2>2. /\ lease[w] # Null /\ r \in Run /\ Number(w) \in AttemptNumber
    BY <1>1, <2>1, HandlerFacts DEF IInv
  <2>3. CASE pc[w] = "done"
    BY <1>1, <2>3 DEF IInv, HandlerInv
  <2>4. CASE pc[w] = "rejected"
    BY <1>1, <2>4 DEF IInv, HandlerInv
  <2>5. CASE pc[w] = "release"
    <3>1. Q!FailOrRetry(w, Retryable(w))
      BY <1>1, <2>5 DEF Report, Moves
    <3>2. Q!Owns(w)
      BY <1>1, <3>1 DEF Q!FailOrRetry, Q!jobVars
    <3>3. Number(w) = attempt[r]
      BY <1>1, <3>2 DEF IInv, AttemptsInv, OwnerIsCurrent
    <3>4. ~(Retryable(w) /\ Q!RetriesLeft(r))
      BY <1>1, <2>2, <3>1, <3>2 DEF Q!FailOrRetry, Q!Unlock, Mine
    <3>5. ~Retryable(w)
      BY <2>2, <3>3, <3>4 DEF Retryable, Q!RetriesLeft
    <3> QED BY <1>1, <2>5, <3>5 DEF IInv, HandlerInv
  <2> QED BY <2>1, <2>3, <2>4, <2>5
<1>2. ASSUME IInv, [Next]_vars
      PROVE  [\A w \in Worker : Report(w) =>
                 LET r == Mine(w) IN
                 status[r] = "RUNNING" /\ status'[r] = "FAILED" => run[r] \in Final \/ r \in Incident]_vars
  BY <1>1, <1>2
<1> QED BY <1>2, Invariance, PTL DEF Spec, ReportedFailureIsFinal
===============================================================================

------------------------------- MODULE JobQueue -------------------------------
(***************************************************************************)
(* The PostgreSQL job queue of app/jobs/queue.py and the claim / heartbeat *)
(* / finish loop of the worker processes around it.                         *)
(*                                                                          *)
(* Every operation of the queue is one SQL statement in a transaction of    *)
(* its own, so each is one action.  A worker keeps the JobLease that claim  *)
(* returned until its handler ends; the lease may expire, and the row be    *)
(* reclaimed and claimed again, while the handler still runs: the process   *)
(* does not stop when its heartbeat finds the lease gone.                   *)
(*                                                                          *)
(* Clocks count down: expires[j] is what is left until lock_expires_at and  *)
(* -1 once it lies in the past; due[j] is what is left until available_at   *)
(* (and scheduled_at, which claim compares the same way and nothing moves   *)
(* later).  uuid4 lock tokens are numbers handed out once.  The tenant is   *)
(* part of the idempotency key, as in the two partial unique indexes.       *)
(***************************************************************************)
EXTENDS Integers

CONSTANTS
    Job,            \* job rows that may ever be inserted
    Key,            \* idempotency keys, a tenant's and global ones apart
    Worker,         \* worker processes
    BrowserJob,     \* the rows with job_type = 'BROWSER_CHECKPOINT'
    BrowserWorker,  \* the processes that run browser_worker.py
    MaxAttempts,    \* jobs.max_attempts of each row
    LeaseTicks,     \* settings.job_lease_seconds
    BackoffTicks,   \* settings.job_reclaim_backoff_seconds
    DelayTicks,     \* how far ahead enqueue may set scheduled_at
    Null            \* SQL NULL and Python None

ASSUME QueueAssumption ==
    /\ BrowserJob \subseteq Job
    /\ BrowserWorker \subseteq Worker
    /\ MaxAttempts \in [Job -> Nat \ {0}]
    /\ LeaseTicks \in Nat
    /\ BackoffTicks \in Nat
    /\ DelayTicks \in Nat
    /\ Null \notin Int
    /\ Null \notin Key
    /\ Null \notin Worker
    /\ Null \notin [job : Job, token : Nat, attempt : Nat]

VARIABLES
    status,         \* jobs.status; "ABSENT" until the row is inserted
    key,            \* jobs.idempotency_key
    attempt,        \* jobs.attempt
    token,          \* jobs.lock_token
    expires,        \* time left until jobs.lock_expires_at
    due,            \* time left until jobs.available_at
    lease,          \* the JobLease each worker process works under
    fresh           \* the next uuid4

jobVars == <<status, key, attempt, token, expires, due>>
vars == <<status, key, attempt, token, expires, due, lease, fresh>>

Claimable == {"PENDING", "RETRY"}
Terminal == {"COMPLETE", "FAILED"}
Status == {"ABSENT", "RUNNING"} \cup Claimable \cup Terminal

Lease == [job : Job, token : Nat, attempt : Nat]

TypeOK ==
    /\ status \in [Job -> Status]
    /\ key \in [Job -> Key \cup {Null}]
    /\ attempt \in [Job -> Nat]
    /\ token \in [Job -> Nat \cup {Null}]
    /\ expires \in [Job -> (-1 .. LeaseTicks) \cup {Null}]
    /\ due \in [Job -> Nat]
    /\ lease \in [Worker -> Lease \cup {Null}]
    /\ fresh \in Nat

Init ==
    /\ status = [j \in Job |-> "ABSENT"]
    /\ key = [j \in Job |-> Null]
    /\ attempt = [j \in Job |-> 0]
    /\ token = [j \in Job |-> Null]
    /\ expires = [j \in Job |-> Null]
    /\ due = [j \in Job |-> 0]
    /\ lease = [w \in Worker |-> Null]
    /\ fresh = 0

------------------------------------------------------------------------------
(* Guards and helpers of the statements.                                    *)

\* A plausible bug: an attempt too many.
RetriesLeftOffByOne(j) == attempt[j] <= MaxAttempts[j]

RetriesLeft(j) == attempt[j] < MaxAttempts[j]

\* A plausible bug: the index covers only keys of rows that still wait.
KeyFreeAmongWaiting(k) == \A i \in Job : status[i] \in Claimable => key[i] # k

\* The partial unique indexes on (tenant_id, idempotency_key): rows without
\* a key never conflict, and a row keeps its key after it is finished.
KeyFree(k) == k = Null \/ \A i \in Job : status[i] # "ABSENT" => key[i] # k

\* The general worker excludes the job type the browser worker asks for.
Serves(w, j) == w \in BrowserWorker <=> j \in BrowserJob

\* A plausible bug: the update is fenced by the row alone.
OwnsWithoutToken(w) == lease[w] # Null /\ status[lease[w].job] = "RUNNING"

\* The WHERE clause of heartbeat, complete and fail_or_retry.
Owns(w) ==
    /\ lease[w] # Null
    /\ status[lease[w].job] = "RUNNING"
    /\ token[lease[w].job] = lease[w].token

\* A plausible bug: rows on their last attempt are left out of the reclaim.
ExpiredWithRetriesLeft ==
    {j \in Job : status[j] = "RUNNING" /\ expires[j] < 0 /\ RetriesLeft(j)}

Expired == {j \in Job : status[j] = "RUNNING" /\ expires[j] < 0}

\* Rows of S leave RUNNING for the state st gives them: the lock is cleared.
Unlock(S, st, delay) ==
    /\ status' = [j \in Job |-> IF j \in S THEN st[j] ELSE status[j]]
    /\ token' = [j \in Job |-> IF j \in S THEN Null ELSE token[j]]
    /\ expires' = [j \in Job |-> IF j \in S THEN Null ELSE expires[j]]
    /\ due' = [j \in Job |-> IF j \in S /\ st[j] = "RETRY" THEN delay ELSE due[j]]
    /\ UNCHANGED <<key, attempt, fresh>>

------------------------------------------------------------------------------
(* One action per operation.                                                *)

\* enqueue / enqueue_in_session: a conflict inserts nothing and returns the
\* row already there, whatever has become of it: a step that changes nothing.
Enqueue(j, k, d) ==
    /\ status[j] = "ABSENT"
    /\ KeyFree(k)
    /\ status' = [status EXCEPT ![j] = "PENDING"]
    /\ key' = [key EXCEPT ![j] = k]
    /\ due' = [due EXCEPT ![j] = d]
    /\ UNCHANGED <<attempt, token, expires, lease, fresh>>

\* A plausible bug: claim forgets to store a new token on the row.
ClaimWithoutNewToken(w, j) ==
    /\ lease[w] = Null
    /\ Serves(w, j)
    /\ status[j] \in Claimable /\ due[j] = 0
    /\ status' = [status EXCEPT ![j] = "RUNNING"]
    /\ token' = [token EXCEPT ![j] = 0]
    /\ expires' = [expires EXCEPT ![j] = LeaseTicks]
    /\ attempt' = [attempt EXCEPT ![j] = @ + 1]
    /\ lease' = [lease EXCEPT ![w] = [job |-> j, token |-> 0, attempt |-> attempt[j] + 1]]
    /\ UNCHANGED <<key, due, fresh>>

\* claim: the best due row that no other transaction has locked.  SKIP LOCKED
\* passes over rows that are locked at that moment, so the order by priority
\* and age is only a preference: any due row of the right type may be the one.
Claim(w, j) ==
    /\ lease[w] = Null
    /\ Serves(w, j)
    /\ status[j] \in Claimable /\ due[j] = 0
    /\ status' = [status EXCEPT ![j] = "RUNNING"]
    /\ token' = [token EXCEPT ![j] = fresh]
    /\ expires' = [expires EXCEPT ![j] = LeaseTicks]
    /\ attempt' = [attempt EXCEPT ![j] = @ + 1]
    /\ lease' = [lease EXCEPT ![w] = [job |-> j, token |-> fresh, attempt |-> attempt[j] + 1]]
    /\ fresh' = fresh + 1
    /\ UNCHANGED <<key, due>>

\* heartbeat, which only browser_worker.py sends: a general worker's handler
\* has the one lease, however long it runs.  It does not look at the expiry,
\* so a late beat revives a lease nobody has reclaimed.  When it matches no row
\* it changes nothing, and the handler goes on.
Heartbeat(w) ==
    /\ w \in BrowserWorker
    /\ Owns(w)
    /\ expires' = [expires EXCEPT ![lease[w].job] = LeaseTicks]
    /\ UNCHANGED <<status, key, attempt, token, due, lease, fresh>>

\* complete: a statement that matches no row is not an error, the handler ends.
Complete(w) ==
    /\ lease[w] # Null
    /\ lease' = [lease EXCEPT ![w] = Null]
    /\ \/ /\ Owns(w)
          /\ Unlock({lease[w].job}, [j \in Job |-> "COMPLETE"], 0)
       \/ ~Owns(w) /\ UNCHANGED <<jobVars, fresh>>

\* fail_or_retry.
FailOrRetry(w, retryable) ==
    /\ lease[w] # Null
    /\ lease' = [lease EXCEPT ![w] = Null]
    /\ \/ /\ Owns(w)
          /\ Unlock({lease[w].job},
                    [j \in Job |-> IF retryable /\ RetriesLeft(j) THEN "RETRY" ELSE "FAILED"],
                    BackoffTicks)
       \/ ~Owns(w) /\ UNCHANGED <<jobVars, fresh>>

\* reclaim_expired, run by every worker before it claims: a batch of expired
\* rows, those that are locked just now or over the limit left for later.
ReclaimExpired(S) ==
    /\ S # {} /\ S \subseteq Expired
    /\ Unlock(S, [j \in Job |-> IF RetriesLeft(j) THEN "RETRY" ELSE "FAILED"], BackoffTicks)
    /\ UNCHANGED lease

\* The process dies, or an exception leaves the handler and ends it; its
\* container restarts with no memory.  The row stays as it is.
Crash(w) ==
    /\ lease[w] # Null
    /\ lease' = [lease EXCEPT ![w] = Null]
    /\ UNCHANGED <<jobVars, fresh>>

\* CURRENT_TIMESTAMP moves.
Tick ==
    /\ expires' = [j \in Job |->
                      IF status[j] = "RUNNING" /\ expires[j] >= 0
                      THEN expires[j] - 1 ELSE expires[j]]
    /\ due' = [j \in Job |-> IF due[j] > 0 THEN due[j] - 1 ELSE 0]
    /\ UNCHANGED <<status, key, attempt, token, lease, fresh>>

HandlerEnds(w) == Complete(w) \/ (\E b \in BOOLEAN : FailOrRetry(w, b)) \/ Crash(w)

Next ==
    \/ \E j \in Job, k \in Key \cup {Null}, d \in 0 .. DelayTicks : Enqueue(j, k, d)
    \/ \E w \in Worker, j \in Job : Claim(w, j)
    \/ \E w \in Worker : Heartbeat(w) \/ HandlerEnds(w)
    \/ \E S \in SUBSET Job : ReclaimExpired(S)
    \/ Tick

Spec == Init /\ [][Next]_vars

\* Time passes, every process polls (reclaims, then claims), and a handler
\* ends: connector calls, navigation and storage all have timeouts, and a
\* process that is stuck for good is restarted, which is a crash.  Nothing
\* keeps a heartbeat coming.
Fairness ==
    /\ WF_vars(Tick)
    /\ WF_vars(\E S \in SUBSET Job : ReclaimExpired(S))
    /\ \A w \in Worker :
          /\ WF_vars(\E j \in Job : Claim(w, j))
          /\ WF_vars(HandlerEnds(w))

FairSpec == Spec /\ Fairness

------------------------------------------------------------------------------
(* Properties.                                                              *)

\* ARCHITECTURE.md section 18, "no duplicate simultaneous ownership": however
\* leases expire, rows are reclaimed and processes restart, two processes never
\* hold a lease that the queue would still accept for the same row.
OneOwner == \A v, w \in Worker :
    Owns(v) /\ Owns(w) /\ lease[v].job = lease[w].job => v = w

\* A key is executed at most max_attempts times over its whole life: neither
\* a retry, nor a crash and reclaim, nor a repeated enqueue buys one more start.
ExecutionsBounded ==
    /\ \A j \in Job : attempt[j] <= MaxAttempts[j]
    /\ \A i, j \in Job : key[i] = key[j] /\ key[i] # Null => i = j

\* ADR-128: only the process that holds the current token ends a claim, and
\* only an expired lease is taken from it; a worker whose lease was reclaimed
\* changes no row when it finally reports.
Fenced == [][
    \A j \in Job : status[j] = "RUNNING" /\ status'[j] # "RUNNING" =>
        \/ /\ expires[j] < 0
           /\ UNCHANGED lease
        \/ \E w \in Worker :
              /\ lease[w] # Null /\ lease'[w] = Null
              /\ lease[w].job = j /\ lease[w].token = token[j]]_vars

\* A finished row is never touched again: it is not claimed, retried,
\* reclaimed or revived by enqueueing its key once more.
FinishedStays == [][
    \A j \in Job : status[j] \in Terminal =>
        /\ status'[j] = status[j] /\ attempt'[j] = attempt[j] /\ key'[j] = key[j]]_vars

\* ARCHITECTURE.md section 19, "Do not permanently strand RUNNING jobs": every
\* row that is inserted ends COMPLETE or FAILED, whatever workers die meanwhile.
EveryJobFinishes == \A j \in Job : status[j] = "PENDING" ~> status[j] \in Terminal

(* The queue keeps the promise of JobContract: the owner of a row is the      *)
(* process whose lease the fenced updates still accept.                       *)
PhaseOf(s) ==
    CASE s = "ABSENT" -> "absent"
      [] s \in Claimable -> "waiting"
      [] s = "RUNNING" -> "running"
      [] s = "COMPLETE" -> "done"
      [] s = "FAILED" -> "dead"

Owners(j) == {w \in Worker : Owns(w) /\ lease[w].job = j}
OwnerOf(j) == IF Owners(j) = {} THEN Null ELSE CHOOSE w \in Owners(j) : TRUE

phaseBar == [j \in Job |-> PhaseOf(status[j])]
ownerBar == [j \in Job |-> OwnerOf(j)]

Contract == INSTANCE JobContract
    WITH Nobody <- Null, phase <- phaseBar, runs <- attempt, owner <- ownerBar

\* Every behaviour of the queue is one the contract allows.
KeepsContract == Contract!Spec
==============================================================================

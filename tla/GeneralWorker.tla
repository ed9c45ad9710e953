---------------------------- MODULE GeneralWorker ----------------------------
(***************************************************************************)
(* What the handlers of app/worker.py have in common, whatever the type of  *)
(* their job: a worker claims one job, runs the handler of its type to the  *)
(* end and reports the outcome.  The queue is JobContract, which the rows   *)
(* of jobs/queue.py are proved to implement.  A handler that outlives its   *)
(* lease goes on beside the one that took its job over; a worker that dies  *)
(* is one whose job is taken back and whose handler takes no step any more. *)
(*                                                                          *)
(* A module that models a handler EXTENDS this one, gives pc its own places *)
(* between "idle" and the three outcomes, and adds its own variables.       *)
(***************************************************************************)
EXTENDS Integers, FiniteSets

CONSTANTS
    Job,            \* job rows that may ever be inserted
    Worker,         \* processes of the general worker
    MaxAttempts,    \* jobs.max_attempts of each row
    Null

ASSUME WorkerAssumption ==
    /\ MaxAttempts \in [Job -> Nat \ {0}]
    /\ Null \notin Worker /\ Null \notin Job

VARIABLES
    phase, runs, owner,     \* the queue
    pc,                     \* where each worker's handler is
    job                     \* the job it handles

queueVars == <<phase, runs, owner>>
handlerVars == <<pc, job>>

Queue == INSTANCE JobContract WITH Nobody <- Null

\* done: the service returned; raised: an error that is not retryable;
\* failed: one that is.
Outcome == {"done", "raised", "failed"}

WorkerTypeOK(place) ==
    /\ phase \in [Job -> Queue!Phase]
    /\ runs \in [Job -> Nat] /\ \A j \in Job : runs[j] <= MaxAttempts[j]
    /\ owner \in [Job -> Worker \cup {Null}]
    /\ pc \in [Worker -> {"idle"} \cup Outcome \cup place]
    /\ job \in [Worker -> Job \cup {Null}]
    /\ \A w \in Worker : pc[w] = "idle" <=> job[w] = Null

WorkerInit ==
    /\ Queue!Init
    /\ pc = [w \in Worker |-> "idle"]
    /\ job = [w \in Worker |-> Null]

\* JobQueue.enqueue with an idempotency key: a key that is known adds nothing.
Enqueue(j) == Queue!Submit(j)

\* The loop of run(), and the dispatch of handle_job to the first place of the
\* handler.
Claim(w, j, place) ==
    /\ pc[w] = "idle"
    /\ Queue!Start(j, w)
    /\ pc' = [pc EXCEPT ![w] = place]
    /\ job' = [job EXCEPT ![w] = j]

\* reclaim_expired.
TakeBack(j) == Queue!TakeBack({j}) /\ UNCHANGED handlerVars

Goes(w, s, t) == pc[w] = s /\ pc' = [pc EXCEPT ![w] = t] /\ UNCHANGED job

\* complete or fail_or_retry; a worker that is not the owner changes nothing.
Report(w) ==
    /\ pc[w] \in Outcome
    /\ LET j == job[w]
           dead == pc[w] = "raised" \/ runs[j] = MaxAttempts[j]
       IN \/ pc[w] = "done" /\ Queue!Succeed(j, w)
          \/ /\ pc[w] # "done" /\ Queue!Fail(j, w)
             /\ phase'[j] = IF dead THEN "dead" ELSE "waiting"
          \/ owner[j] # w /\ UNCHANGED queueVars
    /\ pc' = [pc EXCEPT ![w] = "idle"]
    /\ job' = [job EXCEPT ![w] = Null]
=============================================================================

----------------------------- MODULE JobContract -----------------------------
(***************************************************************************)
(* What the job queue promises to the code that uses it, with no token, no  *)
(* lease and no clock: ADR-128 and ARCHITECTURE.md sections 18 and 19 in    *)
(* the form of a state machine.                                             *)
(*                                                                          *)
(* A submitted job waits; one worker at a time may be its owner; only the   *)
(* owner decides its outcome; a job whose owner is gone, or is too slow, is *)
(* taken back; it is started at most MaxAttempts[j] times; and a job that   *)
(* is done or dead stays so.  JobQueue.tla shows that the rows, tokens and  *)
(* leases of app/jobs/queue.py keep this promise.                           *)
(***************************************************************************)
EXTENDS Integers

CONSTANTS
    Job,            \* job rows that may ever be inserted
    Worker,         \* worker processes
    MaxAttempts,    \* jobs.max_attempts of each row
    Nobody          \* the owner of a job nobody may decide

VARIABLES
    phase,          \* where each job stands
    runs,           \* how many times it has been started
    owner           \* the one worker whose word counts

vars == <<phase, runs, owner>>

Phase == {"absent", "waiting", "running", "done", "dead"}

Init ==
    /\ phase = [j \in Job |-> "absent"]
    /\ runs = [j \in Job |-> 0]
    /\ owner = [j \in Job |-> Nobody]

Submit(j) ==
    /\ phase[j] = "absent"
    /\ phase' = [phase EXCEPT ![j] = "waiting"]
    /\ UNCHANGED <<runs, owner>>

Start(j, w) ==
    /\ phase[j] = "waiting"
    /\ runs[j] < MaxAttempts[j]
    /\ \A i \in Job : owner[i] # w
    /\ phase' = [phase EXCEPT ![j] = "running"]
    /\ runs' = [runs EXCEPT ![j] = @ + 1]
    /\ owner' = [owner EXCEPT ![j] = w]

Succeed(j, w) ==
    /\ phase[j] = "running" /\ owner[j] = w
    /\ phase' = [phase EXCEPT ![j] = "done"]
    /\ owner' = [owner EXCEPT ![j] = Nobody]
    /\ UNCHANGED runs

Fail(j, w) ==
    /\ phase[j] = "running" /\ owner[j] = w
    /\ \/ phase' = [phase EXCEPT ![j] = "dead"]
       \/ /\ runs[j] < MaxAttempts[j]
          /\ phase' = [phase EXCEPT ![j] = "waiting"]
    /\ owner' = [owner EXCEPT ![j] = Nobody]
    /\ UNCHANGED runs

Abandon(j) ==
    /\ owner[j] # Nobody
    /\ owner' = [owner EXCEPT ![j] = Nobody]
    /\ UNCHANGED <<phase, runs>>

TakeBack(S) ==
    /\ \A j \in S : phase[j] = "running"
    /\ phase' = [j \in Job |->
                    IF j \notin S THEN phase[j]
                    ELSE IF runs[j] < MaxAttempts[j] THEN "waiting" ELSE "dead"]
    /\ owner' = [j \in Job |-> IF j \in S THEN Nobody ELSE owner[j]]
    /\ UNCHANGED runs

Next ==
    \/ \E j \in Job : Submit(j) \/ Abandon(j)
    \/ \E j \in Job, w \in Worker : Start(j, w) \/ Succeed(j, w) \/ Fail(j, w)
    \/ \E S \in SUBSET Job : TakeBack(S)

Spec == Init /\ [][Next]_vars
==============================================================================

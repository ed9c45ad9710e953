---------------------------- MODULE JobQueueProofs ----------------------------
(***************************************************************************)
(* Theorems about JobQueue, for any number of rows, keys and processes and  *)
(* any lease, backoff and attempt limits.                                   *)
(*                                                                          *)
(* OneOwner and ExecutionsBounded are not inductive: the first needs every  *)
(* token still in some process's hands to be an old one and no two of them  *)
(* to be equal, the second needs a row that may be claimed to have an       *)
(* attempt left and a row not yet inserted to carry no key.  IInv adds just *)
(* that.                                                                    *)
(***************************************************************************)
EXTENDS JobQueue, TLAPS

\* The lock fields of a row are set exactly while the row is RUNNING.
TokenIffRunning == \A j \in Job : token[j] # Null <=> status[j] = "RUNNING"
LeaseIffRunning == \A j \in Job : expires[j] # Null <=> status[j] = "RUNNING"

\* Every token in use was handed out before.
TokensIssued ==
    /\ \A j \in Job : token[j] # Null => token[j] < fresh
    /\ \A w \in Worker : lease[w] # Null => lease[w].token < fresh

\* No two processes were given the same token.
TokensDistinct == \A v, w \in Worker :
    lease[v] # Null /\ lease[w] # Null /\ lease[v].token = lease[w].token => v = w

\* A row that claim may take has an attempt left; one not inserted has no key.
AttemptsCounted == \A j \in Job :
    /\ attempt[j] <= MaxAttempts[j]
    /\ status[j] \in Claimable \cup {"ABSENT"} => attempt[j] < MaxAttempts[j]
    /\ status[j] = "ABSENT" => key[j] = Null

KeysUnique == \A i, j \in Job : key[i] = key[j] /\ key[i] # Null => i = j

IInv ==
    /\ TypeOK
    /\ TokenIffRunning
    /\ LeaseIffRunning
    /\ TokensIssued
    /\ TokensDistinct
    /\ AttemptsCounted
    /\ KeysUnique

------------------------------------------------------------------------------
(* What Unlock, the shared tail of three statements, does to the row set.    *)

LEMMA UnlockType ==
    ASSUME NEW S \in SUBSET Job, NEW st \in [Job -> Status], NEW d \in Nat,
           TypeOK, Unlock(S, st, d), lease' \in [Worker -> Lease \cup {Null}]
    PROVE  TypeOK'
BY QueueAssumption DEF TypeOK, Unlock, Status, Claimable, Terminal

LEMMA UnlockInv ==
    ASSUME NEW S \in SUBSET Job, NEW st \in [Job -> Status], NEW d \in Nat,
           IInv, Unlock(S, st, d),
           \A j \in S : status[j] = "RUNNING",
           \A j \in S : st[j] \in {"RETRY", "COMPLETE", "FAILED"},
           \A j \in S : st[j] = "RETRY" => RetriesLeft(j),
           lease' \in [Worker -> Lease \cup {Null}],
           \A w \in Worker : lease'[w] # Null => lease'[w] = lease[w]
    PROVE  IInv'
<1>1. TypeOK'
  BY UnlockType DEF IInv
<1>2. TokenIffRunning' /\ LeaseIffRunning'
  BY DEF IInv, TypeOK, Unlock, TokenIffRunning, LeaseIffRunning
<1>3. TokensIssued'
  BY DEF IInv, TypeOK, Unlock, TokensIssued
<1>4. TokensDistinct'
  BY DEF IInv, TypeOK, TokensDistinct
<1>5. AttemptsCounted'
  <2> SUFFICES ASSUME NEW j \in Job
               PROVE  /\ attempt'[j] <= MaxAttempts[j]
                      /\ status'[j] \in Claimable \cup {"ABSENT"} => attempt'[j] < MaxAttempts[j]
                      /\ status'[j] = "ABSENT" => key'[j] = Null
    BY DEF AttemptsCounted
  <2>1. CASE j \in S
    BY <2>1 DEF IInv, TypeOK, Unlock, AttemptsCounted, RetriesLeft, Claimable
  <2>2. CASE j \notin S
    BY <2>2 DEF IInv, TypeOK, Unlock, AttemptsCounted
  <2> QED BY <2>1, <2>2
<1>6. KeysUnique'
  BY DEF IInv, Unlock, KeysUnique
<1> QED BY <1>1, <1>2, <1>3, <1>4, <1>5, <1>6 DEF IInv

LEMMA LeaseOnly ==
    ASSUME IInv, UNCHANGED <<jobVars, fresh>>,
           lease' \in [Worker -> Lease \cup {Null}],
           \A w \in Worker : lease'[w] # Null => lease'[w] = lease[w]
    PROVE  IInv'
<1>1. TypeOK'
  BY DEF IInv, TypeOK, jobVars
<1>2. TokenIffRunning' /\ LeaseIffRunning' /\ AttemptsCounted' /\ KeysUnique'
  BY DEF IInv, TokenIffRunning, LeaseIffRunning, AttemptsCounted, KeysUnique, jobVars
<1>3. TokensIssued'
  BY DEF IInv, TypeOK, TokensIssued, jobVars
<1>4. TokensDistinct'
  BY DEF IInv, TokensDistinct
<1> QED BY <1>1, <1>2, <1>3, <1>4 DEF IInv

LEMMA InitIInv == Init => IInv
<1> SUFFICES ASSUME Init PROVE IInv
  OBVIOUS
<1>1. TypeOK
  BY QueueAssumption DEF Init, TypeOK, Status
<1>2. TokenIffRunning /\ LeaseIffRunning /\ TokensIssued /\ TokensDistinct /\ KeysUnique
  BY DEF Init, TokenIffRunning, LeaseIffRunning, TokensIssued, TokensDistinct, KeysUnique
<1>3. AttemptsCounted
  <2> SUFFICES ASSUME NEW j \in Job
               PROVE  /\ attempt[j] <= MaxAttempts[j]
                      /\ attempt[j] < MaxAttempts[j]
                      /\ key[j] = Null
    BY DEF AttemptsCounted
  <2>1. MaxAttempts[j] \in Nat /\ MaxAttempts[j] > 0
    BY QueueAssumption
  <2> QED BY <2>1 DEF Init
<1> QED BY <1>1, <1>2, <1>3 DEF IInv

------------------------------------------------------------------------------
(* Each operation keeps the invariant.                                        *)

LEMMA EnqueueInv ==
    ASSUME IInv, NEW j \in Job, NEW k \in Key \cup {Null}, NEW d \in 0 .. DelayTicks,
           Enqueue(j, k, d)
    PROVE  IInv'
<1>1. TypeOK'
  BY QueueAssumption DEF IInv, TypeOK, Enqueue, Status, Claimable
<1>2. TokenIffRunning' /\ LeaseIffRunning'
  BY DEF IInv, TypeOK, Enqueue, TokenIffRunning, LeaseIffRunning
<1>3. TokensIssued' /\ TokensDistinct'
  BY DEF IInv, Enqueue, TokensIssued, TokensDistinct
<1>4. AttemptsCounted'
  BY DEF IInv, TypeOK, Enqueue, AttemptsCounted, Claimable
<1>5. KeysUnique'
  BY DEF IInv, TypeOK, Enqueue, AttemptsCounted, KeysUnique, KeyFree
<1> QED BY <1>1, <1>2, <1>3, <1>4, <1>5 DEF IInv

LEMMA ClaimInv ==
    ASSUME IInv, NEW w \in Worker, NEW j \in Job, Claim(w, j)
    PROVE  IInv'
<1> DEFINE new == [job |-> j, token |-> fresh, attempt |-> attempt[j] + 1]
<1>1. new \in Lease /\ new # Null
  BY QueueAssumption DEF IInv, TypeOK, Lease
<1>2. /\ lease' = [lease EXCEPT ![w] = new]
      /\ token' = [token EXCEPT ![j] = fresh]
      /\ status' = [status EXCEPT ![j] = "RUNNING"]
      /\ attempt' = [attempt EXCEPT ![j] = @ + 1]
      /\ expires' = [expires EXCEPT ![j] = LeaseTicks]
      /\ fresh' = fresh + 1
      /\ UNCHANGED <<key, due>>
      /\ status[j] \in Claimable
  BY DEF Claim
<1>3. fresh # Null
  BY QueueAssumption DEF IInv, TypeOK
<1>4. TypeOK'
  <2>1. lease' \in [Worker -> Lease \cup {Null}]
    BY <1>1, <1>2 DEF IInv, TypeOK
  <2>2. expires' \in [Job -> (-1 .. LeaseTicks) \cup {Null}]
    BY <1>2, QueueAssumption DEF IInv, TypeOK
  <2> QED BY <1>2, <2>1, <2>2 DEF IInv, TypeOK, Status
<1>5. TokenIffRunning' /\ LeaseIffRunning'
  BY <1>2, <1>3, QueueAssumption DEF IInv, TypeOK, TokenIffRunning, LeaseIffRunning
<1>6. TokensIssued'
  <2>1. \A i \in Job : token'[i] # Null => token'[i] < fresh'
    BY <1>2, QueueAssumption DEF IInv, TypeOK, TokensIssued
  <2>2. \A v \in Worker : lease'[v] # Null => lease'[v].token < fresh'
    BY <1>2, QueueAssumption DEF IInv, TypeOK, TokensIssued, Lease
  <2> QED BY <2>1, <2>2 DEF TokensIssued
<1>7. TokensDistinct'
  <2> SUFFICES ASSUME NEW u \in Worker, NEW v \in Worker,
                      lease'[u] # Null, lease'[v] # Null,
                      lease'[u].token = lease'[v].token
               PROVE  u = v
    BY DEF TokensDistinct
  <2>1. \A x \in Worker : x # w /\ lease'[x] # Null =>
            lease'[x] = lease[x] /\ lease'[x].token < fresh
    BY <1>2 DEF IInv, TypeOK, TokensIssued
  <2>2. lease'[w].token = fresh
    BY <1>2 DEF IInv, TypeOK
  <2>3. fresh \in Nat
    BY DEF IInv, TypeOK
  <2> QED BY <2>1, <2>2, <2>3 DEF IInv, TokensDistinct
<1>8. AttemptsCounted'
  <2> SUFFICES ASSUME NEW i \in Job
               PROVE  /\ attempt'[i] <= MaxAttempts[i]
                      /\ status'[i] \in Claimable \cup {"ABSENT"} => attempt'[i] < MaxAttempts[i]
                      /\ status'[i] = "ABSENT" => key'[i] = Null
    BY DEF AttemptsCounted
  <2>1. MaxAttempts[i] \in Nat /\ attempt[i] \in Nat
    BY QueueAssumption DEF IInv, TypeOK
  <2>2. CASE i = j
    <3>1. attempt'[i] = attempt[i] + 1 /\ status'[i] = "RUNNING"
      BY <1>2, <2>2 DEF IInv, TypeOK
    <3>2. attempt[i] < MaxAttempts[i]
      BY <1>2, <2>2 DEF IInv, AttemptsCounted
    <3> QED BY <2>1, <3>1, <3>2 DEF Claimable
  <2>3. CASE i # j
    BY <1>2, <2>3 DEF IInv, TypeOK, AttemptsCounted
  <2> QED BY <2>2, <2>3
<1>9. KeysUnique'
  BY <1>2 DEF IInv, KeysUnique
<1> QED BY <1>4, <1>5, <1>6, <1>7, <1>8, <1>9 DEF IInv

LEMMA OwnedJob ==
    ASSUME TypeOK, NEW w \in Worker, Owns(w)
    PROVE  lease[w].job \in Job /\ status[lease[w].job] = "RUNNING"
BY DEF TypeOK, Owns, Lease

LEMMA HeartbeatInv ==
    ASSUME IInv, NEW w \in Worker, Heartbeat(w)
    PROVE  IInv'
<1>1. TypeOK'
  <2>1. LeaseTicks \in (-1 .. LeaseTicks) \cup {Null}
    BY QueueAssumption
  <2> QED BY <2>1 DEF IInv, TypeOK, Heartbeat
<1>2. TokenIffRunning' /\ TokensIssued' /\ TokensDistinct' /\ AttemptsCounted' /\ KeysUnique'
  BY DEF IInv, Heartbeat, TokenIffRunning, TokensIssued, TokensDistinct, AttemptsCounted,
         KeysUnique
<1>3. LeaseIffRunning'
  BY OwnedJob, QueueAssumption DEF IInv, TypeOK, Heartbeat, LeaseIffRunning
<1> QED BY <1>1, <1>2, <1>3 DEF IInv

LEMMA ReleaseType ==
    ASSUME TypeOK, NEW w \in Worker, lease' = [lease EXCEPT ![w] = Null]
    PROVE  /\ lease' \in [Worker -> Lease \cup {Null}]
           /\ \A v \in Worker : lease'[v] # Null => lease'[v] = lease[v]
BY DEF TypeOK

LEMMA CompleteInv ==
    ASSUME IInv, NEW w \in Worker, Complete(w)
    PROVE  IInv'
<1> DEFINE st == [j \in Job |-> "COMPLETE"]
<1>1. lease' = [lease EXCEPT ![w] = Null]
  BY DEF Complete
<1>2. TypeOK
  BY DEF IInv
<1>3. CASE Owns(w)
  <2>1. Unlock({lease[w].job}, st, 0)
    BY <1>3 DEF Complete
  <2>2. st \in [Job -> Status]
    BY DEF Status, Terminal
  <2>3. {lease[w].job} \in SUBSET Job
    BY <1>2, <1>3, OwnedJob
  <2>4. \A j \in {lease[w].job} : status[j] = "RUNNING" /\ st[j] = "COMPLETE"
    BY <1>2, <1>3, OwnedJob
  <2> HIDE DEF st
  <2> QED BY ZenonT(60), <1>1, <1>2, <2>1, <2>2, <2>3, <2>4, UnlockInv, ReleaseType
<1>4. CASE ~Owns(w)
  BY <1>1, <1>2, <1>4, LeaseOnly, ReleaseType DEF Complete
<1> QED BY <1>3, <1>4

LEMMA FailOrRetryInv ==
    ASSUME IInv, NEW w \in Worker, NEW b \in BOOLEAN, FailOrRetry(w, b)
    PROVE  IInv'
<1> DEFINE st == [j \in Job |-> IF b /\ RetriesLeft(j) THEN "RETRY" ELSE "FAILED"]
<1>1. lease' = [lease EXCEPT ![w] = Null]
  BY DEF FailOrRetry
<1>2. TypeOK
  BY DEF IInv
<1>3. CASE Owns(w)
  <2>1. Unlock({lease[w].job}, st, BackoffTicks)
    BY <1>3 DEF FailOrRetry
  <2>2. st \in [Job -> Status]
    BY DEF Status, Terminal, Claimable
  <2>3. {lease[w].job} \in SUBSET Job
    BY <1>2, <1>3, OwnedJob
  <2>4. \A j \in {lease[w].job} : /\ status[j] = "RUNNING"
                                  /\ st[j] \in {"RETRY", "COMPLETE", "FAILED"}
                                  /\ st[j] = "RETRY" => RetriesLeft(j)
    BY <1>2, <1>3, OwnedJob
  <2>5. BackoffTicks \in Nat
    BY QueueAssumption
  <2> HIDE DEF st
  <2> QED BY ZenonT(60), <1>1, <1>2, <2>1, <2>2, <2>3, <2>4, <2>5, UnlockInv, ReleaseType
<1>4. CASE ~Owns(w)
  BY <1>1, <1>2, <1>4, LeaseOnly, ReleaseType DEF FailOrRetry
<1> QED BY <1>3, <1>4

LEMMA ReclaimInv ==
    ASSUME IInv, NEW S \in SUBSET Job, ReclaimExpired(S)
    PROVE  IInv'
<1> DEFINE st == [j \in Job |-> IF RetriesLeft(j) THEN "RETRY" ELSE "FAILED"]
<1>1. Unlock(S, st, BackoffTicks) /\ UNCHANGED lease
  BY DEF ReclaimExpired
<1>2. st \in [Job -> Status]
  BY DEF Status, Terminal, Claimable
<1>3. \A j \in S : /\ status[j] = "RUNNING"
                   /\ st[j] \in {"RETRY", "COMPLETE", "FAILED"}
                   /\ st[j] = "RETRY" => RetriesLeft(j)
  BY DEF ReclaimExpired, Expired
<1>4. BackoffTicks \in Nat
  BY QueueAssumption
<1>5. lease' \in [Worker -> Lease \cup {Null}] /\ \A w \in Worker : lease'[w] = lease[w]
  BY <1>1 DEF IInv, TypeOK
<1> HIDE DEF st
<1> QED BY <1>1, <1>2, <1>3, <1>4, <1>5, UnlockInv

LEMMA TickInv ==
    ASSUME IInv, Tick
    PROVE  IInv'
<1>1. TypeOK'
  <2>1. expires' \in [Job -> (-1 .. LeaseTicks) \cup {Null}]
    <3> SUFFICES ASSUME NEW j \in Job
                 PROVE  IF status[j] = "RUNNING" /\ expires[j] >= 0
                        THEN expires[j] - 1 \in (-1 .. LeaseTicks) \cup {Null}
                        ELSE expires[j] \in (-1 .. LeaseTicks) \cup {Null}
      BY DEF Tick
    <3>1. CASE status[j] = "RUNNING"
      <4>1. expires[j] # Null
        BY <3>1 DEF IInv, LeaseIffRunning
      <4>2. expires[j] \in -1 .. LeaseTicks
        BY <4>1 DEF IInv, TypeOK
      <4> QED BY <4>2, QueueAssumption
    <3>2. CASE status[j] # "RUNNING"
      BY <3>2 DEF IInv, TypeOK
    <3> QED BY <3>1, <3>2
  <2>2. due' \in [Job -> Nat]
    BY DEF Tick, IInv, TypeOK
  <2> QED BY <2>1, <2>2 DEF Tick, IInv, TypeOK
<1>2. TokenIffRunning' /\ TokensIssued' /\ TokensDistinct' /\ AttemptsCounted' /\ KeysUnique'
  BY DEF IInv, Tick, TokenIffRunning, TokensIssued, TokensDistinct, AttemptsCounted, KeysUnique
<1>3. LeaseIffRunning'
  <2> SUFFICES ASSUME NEW j \in Job
               PROVE  expires'[j] # Null <=> status'[j] = "RUNNING"
    BY DEF LeaseIffRunning
  <2>1. CASE status[j] = "RUNNING"
    <3>1. expires[j] \in Int
      BY <2>1 DEF IInv, TypeOK, LeaseIffRunning
    <3>2. expires'[j] \in Int
      BY <3>1 DEF Tick
    <3> QED BY <2>1, <3>2, QueueAssumption DEF Tick
  <2>2. CASE status[j] # "RUNNING"
    BY <2>2 DEF Tick, IInv, LeaseIffRunning
  <2> QED BY <2>1, <2>2
<1> QED BY <1>1, <1>2, <1>3 DEF IInv

LEMMA CrashInv ==
    ASSUME IInv, NEW w \in Worker, Crash(w)
    PROVE  IInv'
BY LeaseOnly, ReleaseType DEF IInv, Crash

LEMMA NextIInv == IInv /\ [Next]_vars => IInv'
<1> SUFFICES ASSUME IInv, [Next]_vars PROVE IInv'
  OBVIOUS
<1>1. CASE UNCHANGED vars
  BY <1>1 DEF IInv, TypeOK, TokenIffRunning, LeaseIffRunning, TokensIssued, TokensDistinct, AttemptsCounted,
              KeysUnique, vars
<1>2. ASSUME NEW j \in Job, NEW k \in Key \cup {Null}, NEW d \in 0 .. DelayTicks,
             Enqueue(j, k, d)
      PROVE  IInv'
  BY <1>2, EnqueueInv
<1>3. ASSUME NEW w \in Worker, NEW j \in Job, Claim(w, j)
      PROVE  IInv'
  BY <1>3, ClaimInv
<1>4. ASSUME NEW w \in Worker, Heartbeat(w)
      PROVE  IInv'
  BY <1>4, HeartbeatInv
<1>5. ASSUME NEW w \in Worker, HandlerEnds(w)
      PROVE  IInv'
  BY <1>5, CompleteInv, FailOrRetryInv, CrashInv DEF HandlerEnds
<1>6. ASSUME NEW S \in SUBSET Job, ReclaimExpired(S)
      PROVE  IInv'
  BY <1>6, ReclaimInv
<1>7. CASE Tick
  BY <1>7, TickInv
<1> QED BY <1>1, <1>2, <1>3, <1>4, <1>5, <1>6, <1>7 DEF Next

LEMMA Invariance == Spec => []IInv
BY InitIInv, NextIInv, PTL DEF Spec

------------------------------------------------------------------------------
(* The theorems.                                                              *)

\* Rows, tokens, clocks and the processes' leases keep their types.
THEOREM QueueTypeCorrect == Spec => []TypeOK
<1>1. IInv => TypeOK
  BY DEF IInv
<1> QED BY <1>1, Invariance, PTL

\* No duplicate simultaneous ownership, ARCHITECTURE.md section 18: the tokens
\* claim hands out exclude a second process from every fenced update.
THEOREM QueueOneOwner == Spec => []OneOwner
<1>1. IInv => OneOwner
  BY DEF IInv, TokensDistinct, OneOwner, Owns
<1> QED BY <1>1, Invariance, PTL

\* Neither retries, reclaims, crashes nor repeated enqueues start a key's work
\* more often than max_attempts.
THEOREM QueueExecutionsBounded == Spec => []ExecutionsBounded
<1>1. IInv => ExecutionsBounded
  BY DEF IInv, AttemptsCounted, KeysUnique, ExecutionsBounded
<1> QED BY <1>1, Invariance, PTL

\* ADR-128: a row stops running only by the word of the process that holds its
\* token or by the reclaim of an expired lease.
THEOREM QueueFenced == Spec => Fenced
<1> DEFINE ByReclaim(j) == expires[j] < 0 /\ UNCHANGED lease
           ByOwner(j) == \E w \in Worker :
                            /\ lease[w] # Null /\ lease'[w] = Null
                            /\ lease[w].job = j /\ lease[w].token = token[j]
<1>1. ASSUME IInv, [Next]_vars, NEW j \in Job, status[j] = "RUNNING", status'[j] # "RUNNING"
      PROVE  ByReclaim(j) \/ ByOwner(j)
  <2>1. ASSUME NEW w \in Worker, NEW st, NEW d, Owns(w), Unlock({lease[w].job}, st, d),
               lease' = [lease EXCEPT ![w] = Null]
        PROVE  ByOwner(j)
    <3>1. j = lease[w].job
      BY <1>1, <2>1 DEF Unlock
    <3> QED BY <1>1, <2>1, <3>1 DEF Owns, IInv, TypeOK
  <2>2. CASE UNCHANGED vars
    BY <1>1, <2>2 DEF vars
  <2>3. ASSUME NEW i \in Job, NEW k \in Key \cup {Null}, NEW d \in 0 .. DelayTicks,
               Enqueue(i, k, d)
        PROVE  FALSE
    BY <1>1, <2>3 DEF Enqueue, IInv, TypeOK
  <2>4. ASSUME NEW w \in Worker, NEW i \in Job, Claim(w, i)
        PROVE  FALSE
    BY <1>1, <2>4 DEF Claim, IInv, TypeOK
  <2>5. ASSUME NEW w \in Worker, Heartbeat(w) \/ Crash(w)
        PROVE  FALSE
    BY <1>1, <2>5 DEF Heartbeat, Crash, jobVars
  <2>6. ASSUME NEW w \in Worker, Complete(w)
        PROVE  ByOwner(j)
    BY <1>1, <2>1, <2>6 DEF Complete, jobVars
  <2>7. ASSUME NEW w \in Worker, NEW b \in BOOLEAN, FailOrRetry(w, b)
        PROVE  ByOwner(j)
    BY <1>1, <2>1, <2>7 DEF FailOrRetry, jobVars
  <2>8. ASSUME NEW S \in SUBSET Job, ReclaimExpired(S)
        PROVE  ByReclaim(j)
    BY <1>1, <2>8 DEF ReclaimExpired, Unlock, Expired
  <2>9. CASE Tick
    BY <1>1, <2>9 DEF Tick
  <2> QED BY <1>1, <2>2, <2>3, <2>4, <2>5, <2>6, <2>7, <2>8, <2>9 DEF Next, HandlerEnds
<1>2. IInv /\ [Next]_vars =>
          [\A j \in Job : status[j] = "RUNNING" /\ status'[j] # "RUNNING" =>
              \/ /\ expires[j] < 0
                 /\ UNCHANGED lease
              \/ \E w \in Worker :
                    /\ lease[w] # Null /\ lease'[w] = Null
                    /\ lease[w].job = j /\ lease[w].token = token[j]]_vars
  BY <1>1
<1> QED BY <1>2, Invariance, PTL DEF Spec, Fenced

\* A finished row is final: no claim, report, reclaim or enqueue changes it.
THEOREM QueueFinishedStays == Spec => FinishedStays
<1>1. ASSUME IInv, [Next]_vars, NEW j \in Job, status[j] \in Terminal
      PROVE  status'[j] = status[j] /\ attempt'[j] = attempt[j] /\ key'[j] = key[j]
  <2> status[j] \notin Claimable /\ status[j] # "RUNNING" /\ status[j] # "ABSENT"
    BY <1>1 DEF Terminal, Claimable
  <2>1. ASSUME NEW S \in SUBSET Job, NEW st, NEW d, Unlock(S, st, d),
               \A i \in S : status[i] = "RUNNING"
        PROVE  status'[j] = status[j] /\ attempt'[j] = attempt[j] /\ key'[j] = key[j]
    BY <2>1 DEF Unlock
  <2>2. CASE UNCHANGED vars
    BY <2>2 DEF vars
  <2>3. ASSUME NEW i \in Job, NEW k \in Key \cup {Null}, NEW d \in 0 .. DelayTicks,
               Enqueue(i, k, d)
        PROVE  status'[j] = status[j] /\ attempt'[j] = attempt[j] /\ key'[j] = key[j]
    BY <1>1, <2>3 DEF Enqueue, IInv, TypeOK
  <2>4. ASSUME NEW w \in Worker, NEW i \in Job, Claim(w, i)
        PROVE  status'[j] = status[j] /\ attempt'[j] = attempt[j] /\ key'[j] = key[j]
    BY <1>1, <2>4 DEF Claim, IInv, TypeOK
  <2>5. ASSUME NEW w \in Worker, Heartbeat(w) \/ HandlerEnds(w)
        PROVE  status'[j] = status[j] /\ attempt'[j] = attempt[j] /\ key'[j] = key[j]
    <3>1. Owns(w) => {lease[w].job} \in SUBSET Job /\ status[lease[w].job] = "RUNNING"
      BY <1>1, OwnedJob DEF IInv
    <3>2. CASE Heartbeat(w) \/ Crash(w)
      BY <3>2 DEF Heartbeat, Crash, jobVars
    <3>3. CASE Complete(w)
      BY <2>1, <3>1, <3>3 DEF Complete, jobVars
    <3>4. ASSUME NEW b \in BOOLEAN, FailOrRetry(w, b)
          PROVE  status'[j] = status[j] /\ attempt'[j] = attempt[j] /\ key'[j] = key[j]
      BY <2>1, <3>1, <3>4 DEF FailOrRetry, jobVars
    <3> QED BY <2>5, <3>2, <3>3, <3>4 DEF HandlerEnds
  <2>6. ASSUME NEW S \in SUBSET Job, ReclaimExpired(S)
        PROVE  status'[j] = status[j] /\ attempt'[j] = attempt[j] /\ key'[j] = key[j]
    BY <2>1, <2>6 DEF ReclaimExpired, Expired
  <2>7. CASE Tick
    BY <2>7 DEF Tick
  <2> QED BY <1>1, <2>2, <2>3, <2>4, <2>5, <2>6, <2>7 DEF Next
<1>2. IInv /\ [Next]_vars =>
          [\A j \in Job : status[j] \in Terminal =>
              /\ status'[j] = status[j] /\ attempt'[j] = attempt[j] /\ key'[j] = key[j]]_vars
  BY <1>1
<1> QED BY <1>2, Invariance, PTL DEF Spec, FinishedStays

------------------------------------------------------------------------------
(* The queue implements JobContract.                                          *)

\* w is a process whose word on job j the queue accepts.
Has(w, j) == Owns(w) /\ lease[w].job = j

OwnerKnown == \A j \in Job :
    /\ ownerBar[j] = Null <=> \A w \in Worker : ~Has(w, j)
    /\ \A w \in Worker : ownerBar[j] = w <=> Has(w, j)

\* The CHOOSE of the refinement mapping picks the one process there is.
LEMMA OwnerIs == IInv => OwnerKnown
<1> SUFFICES ASSUME IInv, NEW j \in Job
             PROVE  /\ ownerBar[j] = Null <=> \A w \in Worker : ~Has(w, j)
                    /\ \A w \in Worker : ownerBar[j] = w <=> Has(w, j)
  BY DEF OwnerKnown
<1>1. \A w \in Worker : w \in Owners(j) <=> Has(w, j)
  BY DEF Owners, Has
<1>2. \A v, w \in Worker : Has(v, j) /\ Has(w, j) => v = w
  BY DEF IInv, TokensDistinct, Has, Owns
<1>3. Null \notin Worker
  BY QueueAssumption
<1>4. CASE Owners(j) = {}
  BY <1>1, <1>3, <1>4 DEF ownerBar, OwnerOf
<1>5. CASE Owners(j) # {}
  <2>1. ownerBar[j] \in Owners(j)
    BY <1>5 DEF ownerBar, OwnerOf
  <2>2. ownerBar[j] \in Worker /\ Has(ownerBar[j], j)
    BY <1>1, <2>1 DEF Owners
  <2> QED BY <1>2, <1>3, <2>2
<1> QED BY <1>4, <1>5

LEMMA OwnerIsNext == IInv' => OwnerKnown'
BY OwnerIs, PTL

\* A job whose processes are the same before and after has the same owner.
LEMMA SameOwner ==
    ASSUME IInv, IInv', NEW j \in Job, \A w \in Worker : Has(w, j)' <=> Has(w, j)
    PROVE  ownerBar'[j] = ownerBar[j]
<1>1. CASE \A w \in Worker : ~Has(w, j)
  BY <1>1, OwnerIs, OwnerIsNext DEF OwnerKnown
<1>2. CASE \E w \in Worker : Has(w, j)
  BY <1>2, OwnerIs, OwnerIsNext DEF OwnerKnown
<1> QED BY <1>1, <1>2

\* The mapped variables are functions of the jobs.
LEMMA BarsAreFunctions ==
    /\ phaseBar = [j \in Job |-> phaseBar[j]] /\ phaseBar' = [j \in Job |-> phaseBar'[j]]
    /\ ownerBar = [j \in Job |-> ownerBar[j]] /\ ownerBar' = [j \in Job |-> ownerBar'[j]]
BY DEF phaseBar, ownerBar

LEMMA PhaseValues ==
    /\ PhaseOf("ABSENT") = "absent"
    /\ PhaseOf("PENDING") = "waiting" /\ PhaseOf("RETRY") = "waiting"
    /\ PhaseOf("RUNNING") = "running"
    /\ PhaseOf("COMPLETE") = "done" /\ PhaseOf("FAILED") = "dead"
BY DEF PhaseOf, Claimable

\* Rows whose status and lock are as before and whose process is too.
LEMMA SameHas ==
    ASSUME NEW w \in Worker, lease'[w] = lease[w], NEW j \in Job,
           status'[j] = status[j], token'[j] = token[j]
    PROVE  Has(w, j)' <=> Has(w, j)
BY DEF Has, Owns

\* A step that moves no row and no lease that counts is a stutter.
LEMMA Stutter ==
    ASSUME IInv, IInv', UNCHANGED <<status, attempt>>,
           \A w \in Worker, j \in Job : Has(w, j)' <=> Has(w, j)
    PROVE  UNCHANGED Contract!vars
<1>1. phaseBar' = phaseBar
  BY DEF phaseBar
<1>2. \A j \in Job : ownerBar'[j] = ownerBar[j]
  BY SameOwner
<1>3. ownerBar' = ownerBar
  BY <1>2, BarsAreFunctions
<1> QED BY <1>1, <1>3 DEF Contract!vars

LEMMA EnqueueMaps ==
    ASSUME IInv, IInv', NEW j \in Job, NEW k \in Key \cup {Null}, NEW d \in 0 .. DelayTicks,
           Enqueue(j, k, d)
    PROVE  Contract!Submit(j)
<1>1. /\ status[j] = "ABSENT" /\ status' = [status EXCEPT ![j] = "PENDING"]
      /\ UNCHANGED <<attempt, token, lease>>
  BY DEF Enqueue
<1>2. phaseBar[j] = "absent"
  BY <1>1, PhaseValues DEF phaseBar
<1>3. \A i \in Job : phaseBar'[i] = IF i = j THEN "waiting" ELSE phaseBar[i]
  BY <1>1, PhaseValues DEF phaseBar, IInv, TypeOK
<1>4. \A w \in Worker, i \in Job : Has(w, i)' <=> Has(w, i)
  BY <1>1 DEF Has, Owns, IInv, TypeOK, Lease
<1>5. ownerBar' = ownerBar
  BY <1>4, SameOwner, BarsAreFunctions
<1>6. phaseBar' = [phaseBar EXCEPT ![j] = "waiting"]
  BY <1>3, BarsAreFunctions
<1> QED BY <1>1, <1>2, <1>5, <1>6 DEF Contract!Submit

LEMMA ClaimMaps ==
    ASSUME IInv, IInv', NEW w \in Worker, NEW j \in Job, Claim(w, j)
    PROVE  Contract!Start(j, w)
<1> DEFINE new == [job |-> j, token |-> fresh, attempt |-> attempt[j] + 1]
<1>1. /\ lease[w] = Null /\ lease' = [lease EXCEPT ![w] = new]
      /\ status[j] \in Claimable /\ status' = [status EXCEPT ![j] = "RUNNING"]
      /\ token' = [token EXCEPT ![j] = fresh]
      /\ attempt' = [attempt EXCEPT ![j] = @ + 1]
  BY DEF Claim
<1>2. new # Null
  BY QueueAssumption DEF IInv, TypeOK
<1>3. phaseBar[j] = "waiting" /\ attempt[j] < MaxAttempts[j]
  BY <1>1, PhaseValues DEF phaseBar, Claimable, IInv, AttemptsCounted
<1>4. \A i \in Job : ownerBar[i] # w
  BY <1>1, OwnerIs DEF OwnerKnown, Has, Owns
<1>5. \A i \in Job : phaseBar'[i] = IF i = j THEN "running" ELSE phaseBar[i]
  BY <1>1, PhaseValues DEF phaseBar, IInv, TypeOK
<1>6. phaseBar' = [phaseBar EXCEPT ![j] = "running"]
  BY <1>5, BarsAreFunctions
<1>7. Has(w, j)'
  BY <1>1, <1>2 DEF Has, Owns, IInv, TypeOK
<1>8. ASSUME NEW i \in Job, i # j
      PROVE  ownerBar'[i] = ownerBar[i]
  <2>1. ASSUME NEW v \in Worker
        PROVE  Has(v, i)' <=> Has(v, i)
    <3>1. CASE v = w
      BY <1>1, <1>2, <1>8, <3>1 DEF Has, Owns, IInv, TypeOK
    <3>2. CASE v # w
      BY <1>1, <1>8, <3>2, SameHas DEF IInv, TypeOK
    <3> QED BY <3>1, <3>2
  <2> QED BY <2>1, SameOwner
<1>9. ownerBar'[j] = w
  BY <1>7, OwnerIsNext DEF OwnerKnown
<1>10. ownerBar' = [ownerBar EXCEPT ![j] = w]
  BY <1>8, <1>9, BarsAreFunctions
<1> QED BY <1>1, <1>3, <1>4, <1>6, <1>10 DEF Contract!Start

\* What a process does that owns its row and gives up its lease: the row leaves
\* the process, and no other row changes hands.
LEMMA ReleasedOwner ==
    ASSUME IInv, IInv', NEW w \in Worker, NEW j \in Job, Has(w, j),
           lease' = [lease EXCEPT ![w] = Null],
           \A i \in Job : i # j => status'[i] = status[i] /\ token'[i] = token[i],
           \/ status'[j] # "RUNNING"
           \/ status'[j] = status[j] /\ token'[j] = token[j]
    PROVE  ownerBar[j] = w /\ ownerBar' = [ownerBar EXCEPT ![j] = Null]
<1>1. ownerBar[j] = w
  BY OwnerIs DEF OwnerKnown
<1>2. lease'[w] = Null /\ \A v \in Worker : v # w => lease'[v] = lease[v]
  BY DEF IInv, TypeOK
<1>3. \A v \in Worker : ~Has(v, j)'
  <2> SUFFICES ASSUME NEW v \in Worker, Has(v, j)' PROVE FALSE
    OBVIOUS
  <2>1. v # w /\ status'[j] = "RUNNING"
    BY <1>2 DEF Has, Owns
  <2>2. Has(v, j)
    BY <1>2, <2>1, SameHas
  <2> QED BY <2>1, <2>2 DEF Has, Owns, IInv, TokensDistinct
<1>4. ownerBar'[j] = Null
  BY <1>3, OwnerIsNext DEF OwnerKnown
<1>5. ASSUME NEW i \in Job, i # j
      PROVE  ownerBar'[i] = ownerBar[i]
  <2>1. ASSUME NEW v \in Worker
        PROVE  Has(v, i)' <=> Has(v, i)
    <3>1. CASE v = w
      BY <1>2, <1>5, <3>1 DEF Has, Owns
    <3>2. CASE v # w
      BY <1>2, <1>5, <3>2, SameHas
    <3> QED BY <3>1, <3>2
  <2> QED BY <2>1, SameOwner
<1>6. ownerBar' = [ownerBar EXCEPT ![j] = Null]
  BY <1>4, <1>5, BarsAreFunctions
<1> QED BY <1>1, <1>6

\* A process whose lease no longer counts may drop it unnoticed.
LEMMA DropStaleLease ==
    ASSUME IInv, IInv', NEW w \in Worker, ~Owns(w), UNCHANGED jobVars,
           lease' = [lease EXCEPT ![w] = Null]
    PROVE  UNCHANGED Contract!vars
<1>1. lease'[w] = Null /\ \A v \in Worker : v # w => lease'[v] = lease[v]
  BY DEF IInv, TypeOK
<1>2. ASSUME NEW v \in Worker, NEW j \in Job
      PROVE  Has(v, j)' <=> Has(v, j)
  <2>1. CASE v = w
    BY <1>1, <2>1 DEF Has, Owns
  <2>2. CASE v # w
    BY <1>1, <2>2, SameHas DEF jobVars
  <2> QED BY <2>1, <2>2
<1> QED BY <1>2, Stutter DEF jobVars

LEMMA CompleteMaps ==
    ASSUME IInv, IInv', NEW w \in Worker, Complete(w)
    PROVE  [Contract!Next]_Contract!vars
<1>1. lease' = [lease EXCEPT ![w] = Null]
  BY DEF Complete
<1>2. CASE Owns(w)
  <2> DEFINE j == lease[w].job
  <2>1. j \in Job /\ status[j] = "RUNNING" /\ Has(w, j)
    BY <1>2, OwnedJob DEF IInv, Has
  <2>2. Unlock({j}, [i \in Job |-> "COMPLETE"], 0)
    BY <1>2 DEF Complete
  <2>3. /\ attempt' = attempt
        /\ \A i \in Job : status'[i] = IF i = j THEN "COMPLETE" ELSE status[i]
        /\ \A i \in Job : i # j => token'[i] = token[i]
    BY <2>2 DEF Unlock
  <2> HIDE DEF j
  <2>4. phaseBar[j] = "running" /\ phaseBar' = [phaseBar EXCEPT ![j] = "done"]
    <3>1. \A i \in Job : phaseBar'[i] = IF i = j THEN "done" ELSE phaseBar[i]
      BY <2>1, <2>3, PhaseValues DEF phaseBar
    <3> QED BY <2>1, <3>1, PhaseValues, BarsAreFunctions DEF phaseBar
  <2>5. ownerBar[j] = w /\ ownerBar' = [ownerBar EXCEPT ![j] = Null]
    BY <1>1, <2>1, <2>3, ReleasedOwner
  <2>6. Contract!Succeed(j, w)
    BY <2>3, <2>4, <2>5 DEF Contract!Succeed
  <2> QED BY <2>1, <2>6 DEF Contract!Next
<1>3. CASE ~Owns(w)
  BY <1>1, <1>3, DropStaleLease DEF Complete
<1> QED BY <1>2, <1>3

LEMMA FailOrRetryMaps ==
    ASSUME IInv, IInv', NEW w \in Worker, NEW b \in BOOLEAN, FailOrRetry(w, b)
    PROVE  [Contract!Next]_Contract!vars
<1>1. lease' = [lease EXCEPT ![w] = Null]
  BY DEF FailOrRetry
<1>2. CASE Owns(w)
  <2> DEFINE j == lease[w].job
             after == IF b /\ RetriesLeft(j) THEN "RETRY" ELSE "FAILED"
  <2>1. j \in Job /\ status[j] = "RUNNING" /\ Has(w, j)
    BY <1>2, OwnedJob DEF IInv, Has
  <2>2. Unlock({j}, [i \in Job |-> IF b /\ RetriesLeft(i) THEN "RETRY" ELSE "FAILED"], BackoffTicks)
    BY <1>2 DEF FailOrRetry
  <2>3. /\ attempt' = attempt
        /\ \A i \in Job : status'[i] = IF i = j THEN after ELSE status[i]
        /\ \A i \in Job : i # j => token'[i] = token[i]
    BY <2>2 DEF Unlock
  <2>4. after = "RETRY" => attempt[j] < MaxAttempts[j]
    BY DEF RetriesLeft
  <2>5. after \in {"RETRY", "FAILED"}
    OBVIOUS
  <2> HIDE DEF j, after
  <2>6. /\ phaseBar[j] = "running"
        /\ phaseBar' = [phaseBar EXCEPT ![j] = PhaseOf(after)]
    <3>1. \A i \in Job : phaseBar'[i] = IF i = j THEN PhaseOf(after) ELSE phaseBar[i]
      BY <2>1, <2>3 DEF phaseBar
    <3> QED BY <2>1, <3>1, PhaseValues, BarsAreFunctions DEF phaseBar
  <2>7. ownerBar[j] = w /\ ownerBar' = [ownerBar EXCEPT ![j] = Null]
    BY <1>1, <2>1, <2>3, <2>5, ReleasedOwner
  <2>8. Contract!Fail(j, w)
    BY <2>3, <2>4, <2>5, <2>6, <2>7, PhaseValues DEF Contract!Fail
  <2> QED BY <2>1, <2>8 DEF Contract!Next
<1>3. CASE ~Owns(w)
  BY <1>1, <1>3, DropStaleLease DEF FailOrRetry
<1> QED BY <1>2, <1>3

LEMMA CrashMaps ==
    ASSUME IInv, IInv', NEW w \in Worker, Crash(w)
    PROVE  [Contract!Next]_Contract!vars
<1>1. lease' = [lease EXCEPT ![w] = Null] /\ UNCHANGED jobVars
  BY DEF Crash
<1>2. CASE Owns(w)
  <2> DEFINE j == lease[w].job
  <2>1. j \in Job /\ Has(w, j)
    BY <1>2, OwnedJob DEF IInv, Has
  <2> HIDE DEF j
  <2>2. ownerBar[j] = w /\ ownerBar' = [ownerBar EXCEPT ![j] = Null]
    BY <1>1, <2>1, ReleasedOwner DEF jobVars
  <2>3. phaseBar' = phaseBar
    BY <1>1 DEF phaseBar, jobVars
  <2>4. Contract!Abandon(j)
    BY <1>1, <2>2, <2>3, QueueAssumption DEF Contract!Abandon, jobVars
  <2> QED BY <2>1, <2>4 DEF Contract!Next
<1>3. CASE ~Owns(w)
  BY <1>1, <1>3, DropStaleLease
<1> QED BY <1>2, <1>3

LEMMA ReclaimMaps ==
    ASSUME IInv, IInv', NEW S \in SUBSET Job, ReclaimExpired(S)
    PROVE  Contract!TakeBack(S)
<1>1. /\ UNCHANGED <<lease, attempt>>
      /\ \A j \in S : status[j] = "RUNNING"
      /\ \A j \in Job : status'[j] = IF j \notin S THEN status[j]
                                   ELSE IF RetriesLeft(j) THEN "RETRY" ELSE "FAILED"
      /\ \A j \in Job : j \notin S => token'[j] = token[j]
  BY DEF ReclaimExpired, Unlock, Expired
<1>2. \A j \in S : phaseBar[j] = "running"
  BY <1>1, PhaseValues DEF phaseBar
<1>3. \A j \in Job : phaseBar'[j] =
          IF j \notin S THEN phaseBar[j]
          ELSE IF attempt[j] < MaxAttempts[j] THEN "waiting" ELSE "dead"
  BY <1>1, PhaseValues DEF phaseBar, RetriesLeft
<1>4. ASSUME NEW j \in S
      PROVE  ownerBar'[j] = Null
  <2>1. \A w \in Worker : ~Has(w, j)'
    BY <1>1, <1>4 DEF Has, Owns
  <2> QED BY <2>1, OwnerIsNext DEF OwnerKnown
<1>5. ASSUME NEW j \in Job, j \notin S
      PROVE  ownerBar'[j] = ownerBar[j]
  BY <1>1, <1>5, SameHas, SameOwner
<1>6. phaseBar' = [j \in Job |->
                      IF j \notin S THEN phaseBar[j]
                      ELSE IF attempt[j] < MaxAttempts[j] THEN "waiting" ELSE "dead"]
  BY <1>3, BarsAreFunctions
<1>7. ownerBar' = [j \in Job |-> IF j \in S THEN Null ELSE ownerBar[j]]
  BY <1>4, <1>5, BarsAreFunctions
<1> QED BY <1>1, <1>2, <1>6, <1>7 DEF Contract!TakeBack

LEMMA NextMaps ==
    ASSUME IInv, IInv', [Next]_vars
    PROVE  [Contract!Next]_Contract!vars
<1>1. ASSUME UNCHANGED <<status, attempt, token, lease>>
      PROVE  UNCHANGED Contract!vars
  BY <1>1, Stutter, SameHas
<1>2. CASE UNCHANGED vars
  BY <1>1, <1>2 DEF vars
<1>3. ASSUME NEW j \in Job, NEW k \in Key \cup {Null}, NEW d \in 0 .. DelayTicks,
             Enqueue(j, k, d)
      PROVE  Contract!Next
  BY <1>3, EnqueueMaps DEF Contract!Next
<1>4. ASSUME NEW w \in Worker, NEW j \in Job, Claim(w, j)
      PROVE  Contract!Next
  BY <1>4, ClaimMaps DEF Contract!Next
<1>5. ASSUME NEW w \in Worker, Heartbeat(w)
      PROVE  UNCHANGED Contract!vars
  BY <1>1, <1>5 DEF Heartbeat
<1>6. ASSUME NEW w \in Worker, HandlerEnds(w)
      PROVE  [Contract!Next]_Contract!vars
  BY <1>6, CompleteMaps, FailOrRetryMaps, CrashMaps DEF HandlerEnds
<1>7. ASSUME NEW S \in SUBSET Job, ReclaimExpired(S)
      PROVE  Contract!Next
  BY <1>7, ReclaimMaps DEF Contract!Next
<1>8. CASE Tick
  BY <1>1, <1>8 DEF Tick
<1> QED BY <1>2, <1>3, <1>4, <1>5, <1>6, <1>7, <1>8 DEF Next

LEMMA InitMaps == Init => Contract!Init
<1> SUFFICES ASSUME Init PROVE Contract!Init
  OBVIOUS
<1>1. \A j \in Job : phaseBar[j] = "absent"
  BY PhaseValues DEF Init, phaseBar
<1>2. \A j \in Job : ownerBar[j] = Null
  BY DEF Init, ownerBar, OwnerOf, Owners, Owns
<1> QED BY <1>1, <1>2, BarsAreFunctions DEF Contract!Init, Init

\* Every behaviour of the rows, tokens, leases and clocks is one that the
\* contract allows, for any number of jobs and processes.
THEOREM QueueKeepsContract == Spec => KeepsContract
<1>1. IInv /\ IInv' /\ [Next]_vars => [Contract!Next]_Contract!vars
  BY NextMaps
<1> QED BY <1>1, InitMaps, Invariance, PTL DEF Spec, KeepsContract, Contract!Spec
==============================================================================

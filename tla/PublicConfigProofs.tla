-------------------------- MODULE PublicConfigProofs --------------------------
(***************************************************************************)
(* Theorems about PublicConfig, for any fetches, workers, responses, slots  *)
(* and attempts.                                                            *)
(*                                                                          *)
(* An event of high risk rests on two observations because a validation is  *)
(* asked for by a snapshot that is there (Asked), is let through by a       *)
(* switch older than that snapshot, and keeps what the switch was and a     *)
(* later instant (Behind, Snapshots); and snapshots never change.           *)
(*                                                                          *)
(* What is told (the second half): of a file whose observations never       *)
(* overlapped one handler is busy at a time, with the latest observation    *)
(* (Alone), so what it read is what it would read now (Read, Holds).  Point *)
(* events are then the changes between neighbours (PointsRight, PointsKept), *)
(* and the active conditions are those that stand after the last            *)
(* observation (CodesRight), because the transaction that ends or replaces a *)
(* condition finds none that refers to its primary already (Linked).        *)
(***************************************************************************)
EXTENDS PublicConfig, WellFoundedInduction, FiniteSetTheorems, TLAPS

SiteInv ==
    /\ site.on \in BOOLEAN /\ site.since \in 0 .. clock
    /\ clock \in Ticks .. (Slots + 1) * Ticks - 1

\* A handler is at work on a job of its own kind, at an attempt the job has.
OnJob == \A w \in Worker : job[w] # Null =>
    job[w] \in PublicJob /\ phase[job[w]] # "absent" /\ try[w] \in 1 .. MaxAttempts[job[w]]

\* A validation is queued for a snapshot that is there.
Asked == \A p \in Primary : phase[<<"validate", p>>] # "absent" => p \in DOMAIN snapshot

\* Snapshots are named by the jobs that may make them, and have instants of their
\* own; a validation is later than its primary, and monitoring was switched before.
Snapshots ==
    /\ DOMAIN snapshot \subseteq Primary \cup (Validate \X Nat)
    /\ \A k \in DOMAIN snapshot : snapshot[k].at \in 1 .. clock /\ snapshot[k].broad \in BOOLEAN
    /\ \A k, l \in DOMAIN snapshot : snapshot[k].at = snapshot[l].at => k = l
    /\ \A v \in DOMAIN snapshot : v[1] \in Validate =>
          /\ v[1][2] \in DOMAIN snapshot
          /\ snapshot[v].at > snapshot[v[1][2]].at
          /\ snapshot[v[1][2]].at > snapshot[v].since

\* The same of a validation that is under way, and the instants that are given out.
Behind == \A w \in Worker :
    /\ pc[w] \in {"observe", "fetch"} /\ job[w] \in Validate =>
          snapshot[job[w][2]].at > seen[w].since
    /\ pc[w] = "fetch" =>
          /\ seen[w].at \in 1 .. clock
          /\ \A k \in DOMAIN snapshot : snapshot[k].at # seen[w].at
          /\ \A x \in Worker : x # w /\ pc[x] = "fetch" => seen[x].at # seen[w].at
          /\ job[w] \in Validate => seen[w].at > snapshot[job[w][2]].at

\* What a derivation is about, and the snapshots it compares are there.
About == \A w \in Worker :
    /\ pc[w] \in {"derive", "look", "commit", "ask"} => Key(w) \in DOMAIN snapshot
    /\ pc[w] \in {"look", "commit"} =>
          /\ value[w].previous \in DOMAIN snapshot \cup {Null}
          /\ value[w].primary = (IF job[w] \in Fetch THEN Key(w) ELSE job[w][2])
          /\ value[w].validation = (IF job[w] \in Fetch THEN Null ELSE Key(w))

Event == [status : {"ACTIVE", "RESOLVED"}, detected : Int, linked : SUBSET DOMAIN snapshot,
          support : Int]
Events ==
    /\ \A e \in DOMAIN event : /\ e[1] \in Condition /\ e[2] \in DOMAIN snapshot
                               /\ event[e] \in Event
    /\ point \subseteq [code : Point, primary : DOMAIN snapshot, previous : DOMAIN snapshot]

Locks ==
    /\ \A w \in Worker : /\ pc[w] # "commit" => found[w] = {}
                         /\ pc[w] = "ask" => job[w] \in Fetch
    /\ \A w, x \in Worker : w # x => found[w] \cap found[x] = {}
    /\ found \in [Worker -> SUBSET DOMAIN event]

Locals ==
    /\ try \in [Worker -> Int] /\ DOMAIN value = Worker
    /\ seen \in [Worker -> [since : Int, at : Int, healthy : Primary \cup {Null},
                            affected : Primary \cup {Null}]]

IInv == /\ WorkerTypeOK(Place)
        /\ SiteInv /\ OnJob /\ Asked /\ Snapshots /\ Behind /\ About
        /\ Events /\ Locks /\ Locals
        /\ ConfirmedByTwo
------------------------------------------------------------------------------
(* The queue and the workers.                                                *)

\* What the steps of a handler share: it goes on, breaks off, or none moves.
LEMMA GoesType ==
    ASSUME WorkerTypeOK(Place), NEW w \in Worker, pc[w] # "idle",
           NEW t \in Outcome \cup Place, pc' = [pc EXCEPT ![w] = t],
           UNCHANGED <<queueVars, job>>
    PROVE  WorkerTypeOK(Place)'
<1> USE DEF queueVars
<1>1. pc' \in [Worker -> {"idle"} \cup Outcome \cup Place]
  BY DEF WorkerTypeOK
<1>2. \A x \in Worker : pc'[x] = "idle" <=> job'[x] = Null
  BY DEF WorkerTypeOK, Outcome, Place
<1> QED BY <1>1, <1>2 DEF WorkerTypeOK

LEMMA EnqueueType ==
    ASSUME WorkerTypeOK(Place), NEW j \in Job, Enqueue(j), UNCHANGED handlerVars
    PROVE  /\ WorkerTypeOK(Place)'
           /\ phase'[j] # "absent" /\ \A i \in Job : i # j => phase'[i] = phase[i]
<1> USE DEF Enqueue, Queue!Submit, handlerVars
<1>1. phase' \in [Job -> Queue!Phase]
  BY DEF WorkerTypeOK, Queue!Phase
<1>2. WorkerTypeOK(Place)'
  BY <1>1 DEF WorkerTypeOK
<1> QED BY <1>2 DEF WorkerTypeOK

LEMMA ClaimType ==
    ASSUME WorkerTypeOK(Place), NEW w \in Worker, NEW j \in Job, NEW s \in Place, Claim(w, j, s)
    PROVE  /\ WorkerTypeOK(Place)'
           /\ phase[j] = "waiting" /\ runs'[j] \in 1 .. MaxAttempts[j]
           /\ \A i \in Job : phase'[i] = "absent" <=> phase[i] = "absent"
<1> USE DEF Claim, Queue!Start
<1>1. MaxAttempts[j] \in Nat /\ j # Null
  BY WorkerAssumption
<1>2. runs[j] \in Nat /\ runs[j] < MaxAttempts[j] /\ runs'[j] = runs[j] + 1
  BY DEF WorkerTypeOK
<1>3. runs' \in [Job -> Nat] /\ \A i \in Job : runs'[i] <= MaxAttempts[i]
  BY <1>1, <1>2 DEF WorkerTypeOK
<1>4. phase' \in [Job -> Queue!Phase] /\ owner' \in [Job -> Worker \cup {Null}]
  BY DEF WorkerTypeOK, Queue!Phase
<1>5. pc' \in [Worker -> {"idle"} \cup Outcome \cup Place] /\ job' \in [Worker -> Job \cup {Null}]
  BY DEF WorkerTypeOK
<1>6. \A x \in Worker : pc'[x] = "idle" <=> job'[x] = Null
  BY <1>1 DEF WorkerTypeOK, Place
<1>7. WorkerTypeOK(Place)'
  BY <1>3, <1>4, <1>5, <1>6 DEF WorkerTypeOK
<1> QED BY <1>1, <1>2, <1>7 DEF WorkerTypeOK

LEMMA TakeBackType ==
    ASSUME WorkerTypeOK(Place), NEW j \in Job, TakeBack(j)
    PROVE  /\ WorkerTypeOK(Place)'
           /\ \A i \in Job : phase'[i] = "absent" <=> phase[i] = "absent"
<1> USE DEF TakeBack, Queue!TakeBack, handlerVars
<1>1. phase' \in [Job -> Queue!Phase] /\ owner' \in [Job -> Worker \cup {Null}]
  BY DEF WorkerTypeOK, Queue!Phase
<1>2. \A i \in Job : phase'[i] = "absent" <=> phase[i] = "absent"
  BY DEF WorkerTypeOK
<1> QED BY <1>1, <1>2 DEF WorkerTypeOK

LEMMA ReportType ==
    ASSUME WorkerTypeOK(Place), NEW w \in Worker, Report(w)
    PROVE  /\ WorkerTypeOK(Place)'
           /\ \A i \in Job : phase'[i] = "absent" <=> phase[i] = "absent"
<1> DEFINE j == job[w]
<1>1. /\ UNCHANGED runs
      /\ \/ UNCHANGED <<phase, owner>>
         \/ /\ phase[j] = "running" /\ owner' = [owner EXCEPT ![j] = Null]
            /\ \E p \in {"done", "dead", "waiting"} : phase' = [phase EXCEPT ![j] = p]
  <2>1. CASE Queue!Succeed(j, w)
    BY <2>1 DEF Queue!Succeed
  <2>2. CASE Queue!Fail(j, w)
    BY <2>2 DEF Queue!Fail
  <2>3. CASE UNCHANGED queueVars
    BY <2>3 DEF queueVars
  <2> QED BY <2>1, <2>2, <2>3 DEF Report
<1>2. pc' = [pc EXCEPT ![w] = "idle"] /\ job' = [job EXCEPT ![w] = Null]
  BY DEF Report
<1>3. phase' \in [Job -> Queue!Phase] /\ owner' \in [Job -> Worker \cup {Null}]
  BY <1>1 DEF WorkerTypeOK, Queue!Phase
<1>4. \A i \in Job : phase'[i] = "absent" <=> phase[i] = "absent"
  BY <1>1 DEF WorkerTypeOK
<1>5. pc' \in [Worker -> {"idle"} \cup Outcome \cup Place] /\ job' \in [Worker -> Job \cup {Null}]
  BY <1>2 DEF WorkerTypeOK
<1>6. \A x \in Worker : pc'[x] = "idle" <=> job'[x] = Null
  BY <1>2 DEF WorkerTypeOK
<1>7. WorkerTypeOK(Place)'
  BY <1>1, <1>3, <1>5, <1>6 DEF WorkerTypeOK
<1> QED BY <1>4, <1>7
------------------------------------------------------------------------------
(* Lemmas about the operators.                                               *)

LEMMA DivBounds ==
    ASSUME NEW a \in Nat, NEW b \in Nat \ {0}
    PROVE  a \div b \in Nat /\ (a \div b) * b <= a /\ a < ((a \div b) + 1) * b
<1>1. a \div b \in Nat
  OBVIOUS
<1>2. b * (a \div b) <= a /\ a < b * (a \div b) + b
  OBVIOUS
<1> DEFINE q == a \div b
<1> HIDE DEF q
<1> QED BY <1>1, <1>2

\* The instants there are, and those of the present slot.
LEMMA Instants ==
    ASSUME SiteInv
    PROVE  /\ clock \in Nat \ {0} /\ Slot \in 1 .. Slots
           /\ Due(Slot) <= clock /\ clock < Due(Slot + 1) /\ Due(Slot + 1) <= (Slots + 1) * Ticks
           /\ \A s \in Nat : Due(s) \in Nat
<1>1. Ticks \in Nat \ {0} /\ Slots \in Nat \ {0}
  BY PublicConfigAssumption
<1>2. (Slots + 1) * Ticks \in Nat
  BY <1>1
<1>3. clock \in Nat \ {0} /\ Ticks <= clock /\ clock < (Slots + 1) * Ticks
  BY <1>1, <1>2 DEF SiteInv
<1>4. Slot \in Nat /\ Slot * Ticks <= clock /\ clock < (Slot + 1) * Ticks
  BY <1>1, <1>3, DivBounds DEF Slot
<1> HIDE DEF Slot
<1>5. Slot < Slots + 1
  <2>1. Slot * Ticks < (Slots + 1) * Ticks
    BY <1>1, <1>2, <1>3, <1>4
  <2>2. ASSUME Slots + 1 <= Slot PROVE FALSE
    <3>1. (Slots + 1) * Ticks <= Slot * Ticks
      BY <1>1, <1>4, <2>2
    <3> QED BY <1>1, <1>4, <2>1, <3>1
  <2> QED BY <1>1, <1>4, <2>2
<1>6. Slot # 0
  <2>1. Slot = 0 => (Slot + 1) * Ticks = Ticks
    BY <1>1
  <2> QED BY <1>1, <1>3, <1>4, <2>1
<1>7. (Slot + 1) * Ticks <= (Slots + 1) * Ticks
  BY <1>1, <1>4, <1>5
<1>8. \A s \in Nat : s * Ticks \in Nat
  BY <1>1
<1> QED BY <1>1, <1>3, <1>4, <1>5, <1>6, <1>7, <1>8 DEF Due

LEMMA Later ==
    ASSUME SiteInv, Reads(clock + 1)
    PROVE  clock' = clock + 1 /\ clock' \in Ticks .. (Slots + 1) * Ticks - 1
<1>1. clock + 1 < Due(Slot + 1) /\ Due(Slot + 1) <= (Slots + 1) * Ticks /\ clock' = clock + 1
  BY Instants DEF Reads
<1>2. Due(Slot + 1) \in Nat /\ clock \in Nat /\ Ticks <= clock
  BY Instants, PublicConfigAssumption DEF SiteInv
<1>3. (Slots + 1) * Ticks \in Nat /\ Ticks \in Nat
  BY PublicConfigAssumption
<1> QED BY <1>1, <1>2, <1>3

\* What a validation job is.
LEMMA ValidateJob ==
    /\ \A j \in Validate : j \notin Fetch /\ j[2] \in Primary /\ j = <<"validate", j[2]>>
    /\ \A p \in Primary : <<"validate", p>> \in Validate
    /\ PublicJob \subseteq Job /\ Null \notin PublicJob
    /\ \A k : k \in Primary => k[1] \in Fetch /\ k[1] \notin Validate
    /\ \A k \in PublicJob \X Nat : k # Null
<1>1. /\ \A j \in Validate : j \notin Fetch /\ j[2] \in Primary /\ j = <<"validate", j[2]>>
      /\ \A p \in Primary : <<"validate", p>> \in Validate
  BY PublicConfigAssumption DEF Validate
<1>2. PublicJob \subseteq Job /\ Null \notin PublicJob
  BY PublicConfigAssumption, WorkerAssumption
<1>3. \A k : k \in Primary => k[1] \in Fetch /\ k[1] \notin Validate
  BY PublicConfigAssumption DEF Primary
<1>4. \A k \in PublicJob \X Nat : k # Null
  BY PublicConfigAssumption
<1> QED BY <1>1, <1>2, <1>3, <1>4

\* The key of a handler's snapshot.
LEMMA KeyNamed ==
    ASSUME IInv, NEW w \in Worker, job[w] # Null
    PROVE  /\ job[w] \in PublicJob /\ try[w] \in Nat
           /\ Key(w) = <<job[w], try[w]>> /\ Key(w)[1] = job[w] /\ Key(w) # Null
           /\ job[w] \in Fetch => Key(w) \in Primary
           /\ job[w] \in Validate => Key(w) \in Validate \X Nat
<1>1. job[w] \in PublicJob /\ try[w] \in 1 .. MaxAttempts[job[w]]
  BY DEF IInv, OnJob
<1>2. MaxAttempts[job[w]] \in Nat
  BY <1>1, ValidateJob, WorkerAssumption
<1>3. try[w] \in Nat
  BY <1>1, <1>2
<1>4. job[w] \in Fetch => try[w] \in 1 .. Tries
  BY <1>1, <1>2, PublicConfigAssumption
<1>5. <<job[w], try[w]>> \in PublicJob \X Nat
  BY <1>1, <1>3
<1>6. <<job[w], try[w]>> # Null
  BY <1>5, ValidateJob
<1> QED BY <1>1, <1>3, <1>4, <1>6 DEF Key, Primary

\* Any set of numbers that is not empty has a least one.
LEMMA Least ==
    ASSUME NEW S \in SUBSET Nat, S # {}
    PROVE  \E m \in S : \A k \in S : m <= k
<1>1. IsWellFoundedOn(OpToRel(<, Nat), Nat)
  BY NatLessThanWellFounded
<1>2. PICK m \in S : \A k \in S : <<k, m>> \notin OpToRel(<, Nat)
  BY <1>1, WFMin
<1>3. ASSUME NEW k \in S PROVE m <= k
  <2>1. ~ (k < m)
    BY <1>2 DEF OpToRel
  <2> QED BY <2>1
<1> QED BY <1>3

\* Of snapshots that are there, Latest takes one.
LEMMA LatestIsOne ==
    ASSUME SiteInv, Snapshots, NEW S \in SUBSET DOMAIN snapshot
    PROVE  /\ S # {} => /\ Latest(S) \in S
                        /\ \A q \in S : snapshot[q].at <= snapshot[Latest(S)].at
           /\ S = {} => Latest(S) = Null
<1>1. CASE S = {}
  BY <1>1 DEF Latest
<1>2. CASE S # {}
  <2> DEFINE ages == {clock - snapshot[q].at : q \in S}
  <2>1. clock \in Nat /\ \A q \in S : snapshot[q].at \in 1 .. clock
    BY Instants DEF Snapshots
  <2>2. ages \in SUBSET Nat /\ ages # {}
    BY <1>2, <2>1
  <2>3. PICK a \in ages : \A b \in ages : a <= b
    BY <2>2, Least
  <2>4. PICK p \in S : a = clock - snapshot[p].at
    BY <2>3
  <2>5. ASSUME NEW q \in S PROVE snapshot[q].at <= snapshot[p].at
    <3>1. clock - snapshot[q].at \in ages
      OBVIOUS
    <3>2. a <= clock - snapshot[q].at
      BY <2>3, <3>1
    <3> QED BY <2>1, <2>4, <3>2
  <2>6. Latest(S) = CHOOSE r \in S : \A q \in S : snapshot[q].at <= snapshot[r].at
    BY <1>2 DEF Latest
  <2> QED BY <1>2, <2>5, <2>6
<1> QED BY <1>1, <1>2

\* The predecessors of an observation are scheduled snapshots.
LEMMA PredecessorsThere ==
    ASSUME SiteInv, Snapshots, NEW type, NEW before
    PROVE  /\ Scheduled(type, before) \subseteq DOMAIN snapshot \cap Primary
           /\ PreviousHealthy(type, before) \in (DOMAIN snapshot \cap Primary) \cup {Null}
           /\ PreviousAffected(type, before) \in (DOMAIN snapshot \cap Primary) \cup {Null}
<1>1. Scheduled(type, before) \subseteq DOMAIN snapshot \cap Primary
  BY DEF Scheduled
<1>2. \A S \in SUBSET Scheduled(type, before) :
          Latest(S) \in (DOMAIN snapshot \cap Primary) \cup {Null}
  <2> TAKE S \in SUBSET Scheduled(type, before)
  <2>1. S \in SUBSET DOMAIN snapshot /\ S \subseteq Primary
    BY <1>1
  <2> QED BY <2>1, LatestIsOne
<1> QED BY <1>1, <1>2 DEF PreviousHealthy, PreviousAffected

LEMMA PreviousThere ==
    ASSUME SiteInv, Snapshots, NEW p
    PROVE  Previous(p) \in DOMAIN snapshot \cup {Null}
<1> DEFINE type == TypeOf[p[1]]
           at == snapshot[p].at
<1>1. Latest(Scheduled(type, at)) \in DOMAIN snapshot \cup {Null}
  <2>1. Scheduled(type, at) \in SUBSET DOMAIN snapshot
    BY PredecessorsThere
  <2> QED BY <2>1, LatestIsOne
<1>2. PreviousAffected(type, at) \in DOMAIN snapshot \cup {Null}
  BY PredecessorsThere
<1> HIDE DEF type, at
<1> QED BY <1>1, <1>2 DEF Previous, type, at

\* What an outcome that is not nothing tells of the snapshots.
LEMMA WhatIsTold ==
    ASSUME Snapshots, NEW v, v.previous \in DOMAIN snapshot \cup {Null}, v.primary \in DOMAIN snapshot
    PROVE  /\ Tells(v) # "NOTHING" => v.previous \in DOMAIN snapshot
           /\ Tells(v) = "UPSERT" =>
                 Code(v) \in Condition /\ Agrees(v.primary, v.validation)
           /\ Tells(v) = "BROAD_BLOCK_ADDED" =>
                 /\ Agrees(v.primary, v.validation)
                 /\ snapshot[v.primary].broad /\ ~snapshot[v.previous].broad
<1>1. CASE v.previous = Null
  BY <1>1 DEF Tells
<1>2. CASE v.previous # Null /\ TypeOf[v.primary[1]] = "ROBOTS_TXT"
  <2>1. snapshot[v.primary].broad \in BOOLEAN /\ snapshot[v.previous].broad \in BOOLEAN
    BY <1>2 DEF Snapshots
  <2>2. Tells(v) = RobotsTells(snapshot[v.previous], snapshot[v.primary], Agrees(v.primary, v.validation))
    BY <1>2 DEF Tells
  <2>3. Tells(v) = "BROAD_BLOCK_ADDED" =>
           /\ Agrees(v.primary, v.validation)
           /\ snapshot[v.primary].broad # snapshot[v.previous].broad
           /\ ~snapshot[v.previous].broad
    BY <2>2 DEF RobotsTells
  <2>4. Tells(v) # "UPSERT"
    BY <2>2 DEF RobotsTells
  <2> QED BY <1>2, <2>1, <2>3, <2>4
<1>3. CASE v.previous # Null /\ TypeOf[v.primary[1]] # "ROBOTS_TXT"
  <2>1. Tells(v) = AdsTells(snapshot[v.previous], snapshot[v.primary], Agrees(v.primary, v.validation))
    BY <1>3 DEF Tells
  <2>2. Tells(v) = "UPSERT" => Code(v) \in Condition /\ Agrees(v.primary, v.validation)
    BY <2>1 DEF AdsTells, Code
  <2>3. Tells(v) # "BROAD_BLOCK_ADDED"
    BY <2>1 DEF AdsTells
  <2> QED BY <1>3, <2>2, <2>3
<1> QED BY <1>1, <1>2, <1>3
------------------------------------------------------------------------------
(* What steps leave alone.                                                   *)

\* The records, as time goes on.
LEMMA RecordsKept ==
    ASSUME IInv, UNCHANGED <<snapshot, event, point>>, clock' \in Nat, clock <= clock'
    PROVE  Snapshots' /\ Events' /\ ConfirmedByTwo'
<1>1. clock \in Nat
  BY Instants DEF IInv
<1>2. Snapshots'
  BY <1>1 DEF IInv, Snapshots
<1>3. Events'
  BY DEF IInv, Events, Event
<1>4. ConfirmedByTwo'
  BY DEF IInv, ConfirmedByTwo, Confirmed, Agrees
<1> QED BY <1>2, <1>3, <1>4

\* The jobs: none is new, or its snapshot is there.
LEMMA JobsKept ==
    ASSUME IInv, UNCHANGED <<snapshot, job, try>>,
           \A i \in Job : phase[i] # "absent" => phase'[i] # "absent",
           \A p \in Primary : phase'[<<"validate", p>>] # "absent" =>
               phase[<<"validate", p>>] # "absent" \/ p \in DOMAIN snapshot
    PROVE  OnJob' /\ Asked'
<1>1. OnJob'
  BY ValidateJob DEF IInv, OnJob
<1>2. Asked'
  BY DEF IInv, Asked
<1> QED BY <1>1, <1>2

\* The handlers.
LEMMA HandlersKept ==
    ASSUME IInv, UNCHANGED <<snapshot, event, pc, job, localVars>>, clock' \in Nat, clock <= clock'
    PROVE  Behind' /\ About' /\ Locks' /\ Locals'
<1> USE DEF localVars
<1>1. clock \in Nat
  BY Instants DEF IInv
<1>2. Behind'
  BY <1>1 DEF IInv, Behind
<1>3. About'
  BY DEF IInv, About, Key
<1>4. Locks' /\ Locals'
  BY DEF IInv, Locks, Locals
<1> QED BY <1>2, <1>3, <1>4
------------------------------------------------------------------------------
(* The world, the switch and the scheduler.                                  *)

LEMMA InitIInv == Init => IInv
<1> SUFFICES ASSUME Init PROVE IInv
  OBVIOUS
<1>1. WorkerTypeOK(Place)
  BY WorkerAssumption DEF Init, WorkerInit, Queue!Init, WorkerTypeOK, Queue!Phase
<1>2. SiteInv
  <2>1. Ticks \in Nat \ {0} /\ Slots \in Nat \ {0}
    BY PublicConfigAssumption
  <2>2. (Slots + 1) * Ticks = Slots * Ticks + Ticks /\ Slots * Ticks \in Nat \ {0}
    BY <2>1
  <2>3. Ticks \in Ticks .. (Slots + 1) * Ticks - 1
    BY <2>1, <2>2
  <2> QED BY <2>1, <2>3 DEF Init, SiteInv
<1>3. OnJob /\ Asked
  <2>1. Asked
    BY ValidateJob DEF Init, WorkerInit, Queue!Init, Asked, PublicJob
  <2> QED BY <2>1 DEF Init, WorkerInit, OnJob
<1>4. Snapshots /\ Events /\ ConfirmedByTwo
  BY DEF Init, Snapshots, Events, ConfirmedByTwo
<1>5. Behind /\ About /\ Locks /\ Locals
  <2>1. Locals
    BY DEF Init, Locals, Nothing
  <2> QED BY <2>1 DEF Init, WorkerInit, Behind, About, Locks
<1> QED BY <1>1, <1>2, <1>3, <1>4, <1>5 DEF IInv

\* Time, the switch and a pass of the scheduler move nothing of the handlers.
LEMMA QuietInv ==
    ASSUME IInv, NextSlot \/ Switch \/ List \/ Admit \/ PassEnds
    PROVE  IInv'
<1>0. SiteInv
  BY DEF IInv
<1>1. UNCHANGED <<queueVars, handlerVars, recordVars, localVars>>
  BY DEF NextSlot, Switch, List, Admit, PassEnds
<1>2. SiteInv' /\ clock' \in Nat /\ clock <= clock'
  <2>1. CASE NextSlot
    <3>1. Due(Slot + 1) \in Nat /\ clock < Due(Slot + 1) /\ Slot \in 1 .. Slots
      BY <1>0, Instants
    <3>2. clock' = Due(Slot + 1) /\ Slot < Slots /\ UNCHANGED site
      BY <2>1 DEF NextSlot
    <3> DEFINE s == Slot + 1
    <3>3. s \in Nat /\ s <= Slots /\ Slots \in Nat \ {0} /\ Ticks \in Nat \ {0}
      BY <3>1, <3>2, PublicConfigAssumption
    <3>4. clock' = s * Ticks /\ clock' \in Nat /\ clock < clock'
      BY <3>1, <3>2 DEF Due
    <3> HIDE DEF s
    <3>5. s * Ticks <= Slots * Ticks /\ (Slots + 1) * Ticks = Slots * Ticks + Ticks
      BY <3>3
    <3>6. clock' <= (Slots + 1) * Ticks - 1
      BY <3>3, <3>4, <3>5
    <3>7. Ticks <= clock /\ clock \in Nat
      BY <1>0, Instants DEF SiteInv
    <3>8. (Slots + 1) * Ticks - 1 \in Int
      BY <3>3
    <3>9. clock' \in Ticks .. (Slots + 1) * Ticks - 1
      BY <3>3, <3>4, <3>6, <3>7, <3>8
    <3>10. site.on \in BOOLEAN /\ site.since \in 0 .. clock'
      BY <1>0, <3>4, <3>7 DEF SiteInv
    <3> QED BY <3>2, <3>4, <3>7, <3>9, <3>10 DEF SiteInv
  <2>2. CASE Switch
    <3>1. clock' = clock + 1 /\ clock' \in Ticks .. (Slots + 1) * Ticks - 1 /\ clock \in Nat
      BY <1>0, <2>2, Later, Instants DEF Switch
    <3>2. site' = [on |-> ~site.on, since |-> clock']
      BY <2>2 DEF Switch
    <3> QED BY <3>1, <3>2 DEF SiteInv
  <2>3. CASE List \/ Admit \/ PassEnds
    BY <1>0, <2>3, Instants DEF List, Admit, PassEnds, SiteInv
  <2> QED BY <2>1, <2>2, <2>3
<1> USE DEF queueVars, handlerVars, recordVars, localVars
<1>3. WorkerTypeOK(Place)'
  BY <1>1 DEF IInv, WorkerTypeOK
<1>4. OnJob' /\ Asked'
  BY <1>1, JobsKept
<1>5. Snapshots' /\ Events' /\ ConfirmedByTwo'
  BY <1>1, <1>2, RecordsKept
<1>6. Behind' /\ About' /\ Locks' /\ Locals'
  BY <1>1, <1>2, HandlersKept
<1> QED BY <1>2, <1>3, <1>4, <1>5, <1>6 DEF IInv

LEMMA StutterInv ==
    ASSUME IInv, UNCHANGED vars
    PROVE  IInv'
<1> USE DEF vars, queueVars, handlerVars, siteVars, recordVars, localVars
<1>1. clock' \in Nat /\ clock <= clock'
  BY Instants DEF IInv
<1>2. WorkerTypeOK(Place)' /\ SiteInv'
  BY DEF IInv, WorkerTypeOK, SiteInv
<1>3. OnJob' /\ Asked'
  BY JobsKept
<1>4. Snapshots' /\ Events' /\ ConfirmedByTwo'
  BY <1>1, RecordsKept
<1>5. Behind' /\ About' /\ Locks' /\ Locals'
  BY <1>1, HandlersKept
<1> QED BY <1>2, <1>3, <1>4, <1>5 DEF IInv

\* A fetch is queued, which is no validation.
LEMMA ScheduleInv ==
    ASSUME IInv, NEW f \in Fetch, Schedule(f)
    PROVE  IInv'
<1>1. UNCHANGED <<handlerVars, siteVars, recordVars, localVars>> /\ Enqueue(f) /\ f \in Job
  BY ValidateJob DEF Schedule, PublicJob
<1> USE DEF handlerVars, siteVars, recordVars, localVars
<1>2. clock' \in Nat /\ clock <= clock'
  BY <1>1, Instants DEF IInv
<1>3. /\ WorkerTypeOK(Place)'
      /\ phase'[f] # "absent" /\ \A i \in Job : i # f => phase'[i] = phase[i]
  BY <1>1, EnqueueType DEF IInv
<1>4. OnJob' /\ Asked'
  <2>1. \A p \in Primary : <<"validate", p>> # f /\ <<"validate", p>> \in Job
    BY ValidateJob DEF PublicJob
  <2> QED BY <1>1, <1>3, <2>1, JobsKept
<1>5. SiteInv'
  BY <1>1 DEF IInv, SiteInv
<1>6. Snapshots' /\ Events' /\ ConfirmedByTwo'
  BY <1>1, <1>2, RecordsKept
<1>7. Behind' /\ About' /\ Locks' /\ Locals'
  BY <1>1, <1>2, HandlersKept
<1> QED BY <1>3, <1>4, <1>5, <1>6, <1>7 DEF IInv

LEMMA LoseInv ==
    ASSUME IInv, NEW j \in PublicJob, Lose(j)
    PROVE  IInv'
<1>1. UNCHANGED <<siteVars, recordVars, localVars>> /\ TakeBack(j) /\ j \in Job /\ UNCHANGED handlerVars
  BY ValidateJob DEF Lose, TakeBack
<1> USE DEF handlerVars, siteVars, recordVars, localVars
<1>2. clock' \in Nat /\ clock <= clock'
  BY <1>1, Instants DEF IInv
<1>3. WorkerTypeOK(Place)' /\ \A i \in Job : phase'[i] = "absent" <=> phase[i] = "absent"
  BY <1>1, TakeBackType DEF IInv
<1>4. OnJob' /\ Asked'
  <2>1. \A p \in Primary : <<"validate", p>> \in Job
    BY ValidateJob DEF PublicJob
  <2> QED BY <1>1, <1>3, <2>1, JobsKept
<1>5. SiteInv'
  BY <1>1 DEF IInv, SiteInv
<1>6. Snapshots' /\ Events' /\ ConfirmedByTwo'
  BY <1>1, <1>2, RecordsKept
<1>7. Behind' /\ About' /\ Locks' /\ Locals'
  BY <1>1, <1>2, HandlersKept
<1> QED BY <1>3, <1>4, <1>5, <1>6, <1>7 DEF IInv

LEMMA TakeInv ==
    ASSUME IInv, NEW w \in Worker, NEW j \in PublicJob, Take(w, j)
    PROVE  IInv'
<1>1. /\ UNCHANGED <<siteVars, recordVars, seen, value, found>>
      /\ Claim(w, j, "gate") /\ j \in Job /\ try' = [try EXCEPT ![w] = runs'[j]]
  BY ValidateJob DEF Take
<1> USE DEF siteVars, recordVars
<1>2. clock' \in Nat /\ clock <= clock'
  BY <1>1, Instants DEF IInv
<1>3. /\ WorkerTypeOK(Place)'
      /\ phase[j] = "waiting" /\ runs'[j] \in 1 .. MaxAttempts[j]
      /\ \A i \in Job : phase'[i] = "absent" <=> phase[i] = "absent"
  <2>1. "gate" \in Place
    BY DEF Place
  <2> QED BY <1>1, <2>1, ClaimType DEF IInv
<1>4. /\ pc[w] = "idle" /\ pc' = [pc EXCEPT ![w] = "gate"] /\ job' = [job EXCEPT ![w] = j]
  BY <1>1 DEF Claim
<1>5. /\ pc'[w] = "gate" /\ job'[w] = j /\ try'[w] = runs'[j]
      /\ \A x \in Worker : x # w => pc'[x] = pc[x] /\ job'[x] = job[x] /\ try'[x] = try[x]
  BY <1>1, <1>4 DEF IInv, WorkerTypeOK, Locals
<1>6. OnJob'
  <2> SUFFICES ASSUME NEW x \in Worker, job'[x] # Null
               PROVE  job'[x] \in PublicJob /\ phase'[job'[x]] # "absent"
                      /\ try'[x] \in 1 .. MaxAttempts[job'[x]]
    BY DEF OnJob
  <2>1. CASE x = w
    BY <1>1, <1>3, <1>5, <2>1
  <2>2. CASE x # w
    <3>1. job[x] \in PublicJob /\ phase[job[x]] # "absent" /\ try[x] \in 1 .. MaxAttempts[job[x]]
      BY <1>5, <2>2 DEF IInv, OnJob
    <3>2. job[x] \in Job
      BY <3>1, ValidateJob
    <3> QED BY <1>3, <1>5, <2>2, <3>1, <3>2
  <2> QED BY <2>1, <2>2
<1>7. Asked'
  <2>1. \A p \in Primary : <<"validate", p>> \in Job
    BY ValidateJob DEF PublicJob
  <2> QED BY <1>1, <1>3, <2>1 DEF IInv, Asked
<1>8. SiteInv'
  BY <1>1 DEF IInv, SiteInv
<1>9. Snapshots' /\ Events' /\ ConfirmedByTwo'
  BY <1>1, <1>2, RecordsKept
<1>10. Behind'
  BY <1>1, <1>5 DEF IInv, Behind
<1>11. About'
  BY <1>1, <1>5 DEF IInv, About, Key
<1>12. Locks'
  <2>1. \A x \in Worker : /\ pc'[x] # "commit" => found[x] = {}
                          /\ pc'[x] = "ask" => job'[x] \in Fetch
    <3> TAKE x \in Worker
    <3>1. CASE x = w
      BY <1>4, <1>5, <3>1 DEF IInv, Locks
    <3>2. CASE x # w
      BY <1>5, <3>2 DEF IInv, Locks
    <3> QED BY <3>1, <3>2
  <2>2. found' = found /\ event' = event /\ Locks
    BY <1>1 DEF IInv
  <2>3. \A x \in Worker : /\ pc'[x] # "commit" => found'[x] = {}
                          /\ pc'[x] = "ask" => job'[x] \in Fetch
    BY <2>1, <2>2
  <2>4. /\ \A x, y \in Worker : x # y => found'[x] \cap found'[y] = {}
        /\ found' \in [Worker -> SUBSET DOMAIN event']
    BY <2>2 DEF Locks
  <2> QED BY <2>3, <2>4 DEF Locks
<1>13. Locals'
  <2>1. runs'[j] \in Int
    BY <1>3
  <2> QED BY <1>1, <2>1 DEF IInv, Locals
<1> QED BY <1>3, <1>6, <1>7, <1>8, <1>9, <1>10, <1>11, <1>12, <1>13 DEF IInv

LEMMA FinishInv ==
    ASSUME IInv, NEW w \in Worker, Finish(w)
    PROVE  IInv'
<1>1. /\ UNCHANGED <<siteVars, recordVars, value, found>> /\ Report(w)
      /\ try' = [try EXCEPT ![w] = 0] /\ seen' = [seen EXCEPT ![w] = Nothing]
  BY DEF Finish
<1> USE DEF siteVars, recordVars
<1>2. clock' \in Nat /\ clock <= clock'
  BY <1>1, Instants DEF IInv
<1>3. WorkerTypeOK(Place)' /\ \A i \in Job : phase'[i] = "absent" <=> phase[i] = "absent"
  BY <1>1, ReportType DEF IInv
<1>4. pc[w] \in Outcome /\ pc' = [pc EXCEPT ![w] = "idle"] /\ job' = [job EXCEPT ![w] = Null]
  BY <1>1 DEF Report
<1>5. /\ pc'[w] = "idle" /\ job'[w] = Null
      /\ \A x \in Worker : x # w =>
            pc'[x] = pc[x] /\ job'[x] = job[x] /\ try'[x] = try[x] /\ seen'[x] = seen[x]
  BY <1>1, <1>4 DEF IInv, WorkerTypeOK, Locals
<1>6. OnJob'
  <2> SUFFICES ASSUME NEW x \in Worker, job'[x] # Null
               PROVE  job'[x] \in PublicJob /\ phase'[job'[x]] # "absent"
                      /\ try'[x] \in 1 .. MaxAttempts[job'[x]]
    BY DEF OnJob
  <2>1. x # w /\ job'[x] = job[x] /\ try'[x] = try[x]
    BY <1>5
  <2>2. job[x] \in PublicJob /\ phase[job[x]] # "absent" /\ try[x] \in 1 .. MaxAttempts[job[x]]
    BY <2>1 DEF IInv, OnJob
  <2>3. job[x] \in Job
    BY <2>2, ValidateJob
  <2> QED BY <1>3, <2>1, <2>2, <2>3
<1>7. Asked'
  <2>1. \A p \in Primary : <<"validate", p>> \in Job
    BY ValidateJob DEF PublicJob
  <2> QED BY <1>1, <1>3, <2>1 DEF IInv, Asked
<1>8. SiteInv'
  BY <1>1 DEF IInv, SiteInv
<1>9. Snapshots' /\ Events' /\ ConfirmedByTwo'
  BY <1>1, <1>2, RecordsKept
<1>10. Behind'
  BY <1>1, <1>5 DEF IInv, Behind
<1>11. About'
  BY <1>1, <1>5 DEF IInv, About, Key
<1>12. Locks'
  <2>1. found[w] = {}
    BY <1>4 DEF IInv, Locks, Outcome
  <2>2. \A x \in Worker : /\ pc'[x] # "commit" => found[x] = {}
                          /\ pc'[x] = "ask" => job'[x] \in Fetch
    <3> TAKE x \in Worker
    <3>1. CASE x = w
      BY <1>5, <2>1, <3>1
    <3>2. CASE x # w
      BY <1>5, <3>2 DEF IInv, Locks
    <3> QED BY <3>1, <3>2
  <2>3. found' = found /\ event' = event /\ Locks
    BY <1>1 DEF IInv
  <2>4. \A x \in Worker : /\ pc'[x] # "commit" => found'[x] = {}
                          /\ pc'[x] = "ask" => job'[x] \in Fetch
    BY <2>2, <2>3
  <2>5. /\ \A x, y \in Worker : x # y => found'[x] \cap found'[y] = {}
        /\ found' \in [Worker -> SUBSET DOMAIN event']
    BY <2>3 DEF Locks
  <2> QED BY <2>4, <2>5 DEF Locks
<1>13. Locals'
  BY <1>1 DEF IInv, Locals, Nothing
<1> QED BY <1>3, <1>6, <1>7, <1>8, <1>9, <1>10, <1>11, <1>12, <1>13 DEF IInv
------------------------------------------------------------------------------
(* The handlers, up to what they have observed.                              *)

LEMMA Moves ==
    ASSUME IInv, NEW w \in Worker, pc[w] # "idle", NEW t \in Outcome \cup Place,
           pc' = [pc EXCEPT ![w] = t], UNCHANGED <<queueVars, job>>
    PROVE  /\ WorkerTypeOK(Place)' /\ job[w] # Null
           /\ pc'[w] = t /\ \A x \in Worker : x # w => pc'[x] = pc[x]
<1>1. WorkerTypeOK(Place)'
  BY GoesType DEF IInv
<1> QED BY <1>1 DEF IInv, WorkerTypeOK

\* A validation that is under way has its primary.
LEMMA PrimaryThere ==
    ASSUME IInv, NEW w \in Worker, job[w] \in Validate
    PROVE  job[w][2] \in DOMAIN snapshot /\ job[w][2] \in Primary /\ job[w] \notin Fetch
<1>1. job[w] \notin Fetch /\ job[w][2] \in Primary /\ job[w] = <<"validate", job[w][2]>>
  BY ValidateJob
<1>2. job[w] # Null
  BY ValidateJob DEF PublicJob
<1>3. phase[job[w]] # "absent"
  BY <1>2 DEF IInv, OnJob
<1>4. phase[<<"validate", job[w][2]>>] # "absent"
  BY <1>1, <1>3
<1> QED BY <1>1, <1>4 DEF IInv, Asked

\* The locks, when a handler goes to where it holds none.
LEMMA LocksKept ==
    ASSUME IInv, NEW w \in Worker, NEW t \in Outcome \cup Place, t # "commit",
           t = "ask" => job[w] \in Fetch,
           pc'[w] = t, \A x \in Worker : x # w => pc'[x] = pc[x],
           UNCHANGED job, DOMAIN event \subseteq DOMAIN event',
           found' = [found EXCEPT ![w] = {}]
    PROVE  Locks'
<1>1. /\ found'[w] = {} /\ \A x \in Worker : x # w => found'[x] = found[x]
      /\ found' \in [Worker -> SUBSET DOMAIN event']
  BY DEF IInv, Locks
<1>2. ASSUME NEW x \in Worker
      PROVE  /\ pc'[x] # "commit" => found'[x] = {}
             /\ pc'[x] = "ask" => job'[x] \in Fetch
  <2>1. CASE x = w
    BY <1>1, <2>1
  <2>2. CASE x # w
    BY <1>1, <2>2 DEF IInv, Locks
  <2> QED BY <2>1, <2>2
<1>3. \A x, y \in Worker : x # y => found'[x] \cap found'[y] = {}
  BY <1>1 DEF IInv, Locks
<1> QED BY <1>1, <1>2, <1>3 DEF Locks

\* A validation is let through by a switch that is older than its primary.
LEMMA GateInv ==
    ASSUME IInv, NEW w \in Worker, Gate(w)
    PROVE  IInv'
<1>1. /\ UNCHANGED <<queueVars, siteVars, recordVars, try, value, found, job>>
      /\ pc[w] = "gate" /\ seen' = [seen EXCEPT ![w].since = site.since]
  BY DEF Gate, Goes
<1>2. PICK t \in {"raised", "done", "observe"} :
          /\ pc' = [pc EXCEPT ![w] = t]
          /\ t = "observe" => Authorized(job[w])
  BY DEF Gate, Goes
<1>3. /\ WorkerTypeOK(Place)' /\ job[w] # Null
      /\ pc'[w] = t /\ \A x \in Worker : x # w => pc'[x] = pc[x]
  BY <1>1, <1>2, Moves DEF Outcome, Place
<1> USE DEF queueVars, siteVars, recordVars
<1>4. clock' \in Nat /\ clock <= clock'
  BY <1>1, Instants DEF IInv
<1>5. SiteInv' /\ Snapshots' /\ Events' /\ ConfirmedByTwo' /\ OnJob' /\ Asked'
  <2>1. SiteInv'
    BY <1>1 DEF IInv, SiteInv
  <2>2. Snapshots' /\ Events' /\ ConfirmedByTwo'
    BY <1>1, <1>4, RecordsKept
  <2>3. OnJob' /\ Asked'
    BY <1>1, JobsKept
  <2> QED BY <2>1, <2>2, <2>3
<1>6. /\ seen'[w].since = site.since /\ seen'[w] \in [since : Int, at : Int,
            healthy : Primary \cup {Null}, affected : Primary \cup {Null}]
      /\ \A x \in Worker : x # w => seen'[x] = seen[x]
  <2>1. site.since \in Int
    BY DEF IInv, SiteInv
  <2> QED BY <1>1, <2>1 DEF IInv, Locals
<1>7. Behind'
  <2>1. t = "observe" /\ job[w] \in Validate => snapshot[job[w][2]].at > site.since
    BY <1>2, ValidateJob DEF Authorized, DueOf
  <2>2. ASSUME NEW x \in Worker, pc'[x] \in {"observe", "fetch"}, job[x] \in Validate
        PROVE  snapshot[job[x][2]].at > seen'[x].since
    <3>1. CASE x = w
      BY <1>2, <1>3, <1>6, <2>1, <2>2, <3>1
    <3>2. CASE x # w
      BY <1>3, <1>6, <2>2, <3>2 DEF IInv, Behind
    <3> QED BY <3>1, <3>2
  <2>3. \A x \in Worker : pc'[x] = "fetch" => x # w /\ pc[x] = "fetch" /\ seen'[x] = seen[x]
    BY <1>2, <1>3, <1>6
  <2>4. ASSUME NEW x \in Worker, pc'[x] = "fetch"
        PROVE  /\ seen'[x].at \in 1 .. clock
               /\ \A k \in DOMAIN snapshot : snapshot[k].at # seen'[x].at
               /\ \A y \in Worker : y # x /\ pc'[y] = "fetch" => seen'[y].at # seen'[x].at
               /\ job[x] \in Validate => seen'[x].at > snapshot[job[x][2]].at
    BY <2>3, <2>4 DEF IInv, Behind
  <2> QED BY <1>1, <2>2, <2>4 DEF Behind
<1>8. About'
  BY <1>1, <1>2, <1>3 DEF IInv, About, Key
<1>9. Locks'
  <2>1. found' = [found EXCEPT ![w] = {}]
    BY <1>1 DEF IInv, Locks
  <2> QED BY <1>1, <1>2, <1>3, <2>1, LocksKept DEF Outcome, Place
<1>10. Locals'
  BY <1>1, <1>6 DEF IInv, Locals
<1> QED BY <1>3, <1>5, <1>7, <1>8, <1>9, <1>10 DEF IInv

\* The instant of an observation is new.
LEMMA ObserveInv ==
    ASSUME IInv, NEW w \in Worker, Observe(w)
    PROVE  IInv'
<1> DEFINE s == [since |-> seen[w].since, at |-> clock',
                 healthy |-> PreviousHealthy(TypeOfJob(job[w]), clock'),
                 affected |-> PreviousAffected(TypeOfJob(job[w]), clock')]
<1>1. /\ UNCHANGED <<queueVars, site, recordVars, try, value, found, job>>
      /\ pc[w] = "observe" /\ pc' = [pc EXCEPT ![w] = "fetch"] /\ Reads(clock + 1)
  BY DEF Observe, Goes
<1>2. /\ WorkerTypeOK(Place)' /\ job[w] # Null
      /\ pc'[w] = "fetch" /\ \A x \in Worker : x # w => pc'[x] = pc[x]
  BY <1>1, Moves DEF Outcome, Place
<1>3. /\ clock \in Nat /\ clock' = clock + 1 /\ clock' \in Ticks .. (Slots + 1) * Ticks - 1
  BY <1>1, Later, Instants DEF IInv
<1>4. /\ s.since = seen[w].since /\ s.at = clock + 1
      /\ s \in [since : Int, at : Int, healthy : Primary \cup {Null}, affected : Primary \cup {Null}]
  <2>1. \A b : /\ PreviousHealthy(TypeOfJob(job[w]), b) \in Primary \cup {Null}
               /\ PreviousAffected(TypeOfJob(job[w]), b) \in Primary \cup {Null}
    BY PredecessorsThere DEF IInv
  <2>2. seen[w].since \in Int
    BY DEF IInv, Locals
  <2> QED BY <1>3, <2>1, <2>2
<1>5. seen' = [seen EXCEPT ![w] = s]
  BY DEF Observe, IInv, Locals
<1> HIDE DEF s
<1>6. seen'[w] = s /\ \A x \in Worker : x # w => seen'[x] = seen[x]
  BY <1>5 DEF IInv, Locals
<1> USE DEF queueVars, recordVars
<1>7. SiteInv' /\ Snapshots' /\ Events' /\ ConfirmedByTwo' /\ OnJob' /\ Asked'
  <2>1. clock' \in Nat /\ clock <= clock'
    BY <1>3
  <2>2. SiteInv'
    BY <1>1, <1>3 DEF IInv, SiteInv
  <2>3. Snapshots' /\ Events' /\ ConfirmedByTwo'
    BY <1>1, <2>1, RecordsKept
  <2>4. OnJob' /\ Asked'
    BY <1>1, JobsKept
  <2> QED BY <2>2, <2>3, <2>4
<1>8. Behind'
  <2>1. ASSUME NEW x \in Worker, pc'[x] \in {"observe", "fetch"}, job[x] \in Validate
        PROVE  snapshot[job[x][2]].at > seen'[x].since
    <3>1. CASE x = w
      BY <1>1, <1>4, <1>6, <2>1, <3>1 DEF IInv, Behind
    <3>2. CASE x # w
      BY <1>2, <1>6, <2>1, <3>2 DEF IInv, Behind
    <3> QED BY <3>1, <3>2
  <2>2. \A k \in DOMAIN snapshot : snapshot[k].at \in 1 .. clock
    BY DEF IInv, Snapshots
  <2>3. \A x \in Worker : x # w /\ pc'[x] = "fetch" =>
           pc[x] = "fetch" /\ seen'[x] = seen[x] /\ seen[x].at \in 1 .. clock
    BY <1>2, <1>6 DEF IInv, Behind
  <2>4. ASSUME NEW x \in Worker, pc'[x] = "fetch"
        PROVE  /\ seen'[x].at \in 1 .. clock'
               /\ \A k \in DOMAIN snapshot : snapshot[k].at # seen'[x].at
               /\ \A y \in Worker : y # x /\ pc'[y] = "fetch" => seen'[y].at # seen'[x].at
               /\ job[x] \in Validate => seen'[x].at > snapshot[job[x][2]].at
    <3>1. CASE x = w
      <4>1. seen'[x].at = clock + 1
        BY <1>4, <1>6, <3>1
      <4>2. job[x] \in Validate => snapshot[job[x][2]].at \in 1 .. clock
        BY <2>2, PrimaryThere
      <4> QED BY <1>3, <2>2, <2>3, <3>1, <4>1, <4>2
    <3>2. CASE x # w
      <4>1. seen'[x] = seen[x] /\ seen[x].at \in 1 .. clock /\ pc[x] = "fetch"
        BY <2>3, <2>4, <3>2
      <4>2. seen[x].at \in 1 .. clock' /\ seen[x].at # clock + 1
        BY <1>3, <4>1
      <4>3. \A k \in DOMAIN snapshot : snapshot[k].at # seen[x].at
        BY <4>1 DEF IInv, Behind
      <4>4. job[x] \in Validate => seen[x].at > snapshot[job[x][2]].at
        BY <4>1 DEF IInv, Behind
      <4>5. \A y \in Worker : y # x /\ pc'[y] = "fetch" => seen'[y].at # seen[x].at
        <5> TAKE y \in Worker
        <5>1. CASE y = w
          BY <1>4, <1>6, <4>2, <5>1
        <5>2. CASE y # w
          BY <2>3, <4>1, <5>2 DEF IInv, Behind
        <5> QED BY <5>1, <5>2
      <4> QED BY <4>1, <4>2, <4>3, <4>4, <4>5
    <3> QED BY <3>1, <3>2
  <2> QED BY <1>1, <2>1, <2>4 DEF Behind
<1>9. About'
  BY <1>1, <1>2 DEF IInv, About, Key
<1>10. Locks'
  <2>1. found' = [found EXCEPT ![w] = {}]
    BY <1>1 DEF IInv, Locks
  <2> QED BY <1>1, <1>2, <2>1, LocksKept DEF Outcome, Place
<1>11. Locals'
  BY <1>1, <1>4, <1>5 DEF IInv, Locals
<1> QED BY <1>2, <1>7, <1>8, <1>9, <1>10, <1>11 DEF IInv

\* Snapshots are added and never changed, and what was confirmed stays so.
LEMMA RecordsGrow ==
    ASSUME IInv, UNCHANGED <<event, point>>, DOMAIN snapshot \subseteq DOMAIN snapshot',
           \A k \in DOMAIN snapshot : snapshot'[k] = snapshot[k]
    PROVE  Events' /\ ConfirmedByTwo'
<1>1. Events'
  <2>1. \A e \in DOMAIN event : /\ e[1] \in Condition /\ e[2] \in DOMAIN snapshot'
                                /\ event[e] \in Event'
    BY DEF IInv, Events, Event
  <2>2. point \subseteq [code : Point, primary : DOMAIN snapshot', previous : DOMAIN snapshot']
    BY DEF IInv, Events
  <2> QED BY <2>1, <2>2 DEF Events
<1>2. ASSUME NEW p \in DOMAIN snapshot, Confirmed(p)
      PROVE  Confirmed(p)'
  <2>1. PICK v \in DOMAIN snapshot :
           /\ v[1] = <<"validate", p>> /\ Agrees(p, v)
           /\ snapshot[v].at > snapshot[p].at /\ snapshot[p].at > snapshot[v].since
    BY <1>2 DEF Confirmed
  <2>2. snapshot'[v] = snapshot[v] /\ snapshot'[p] = snapshot[p] /\ v \in DOMAIN snapshot'
    OBVIOUS
  <2>3. Agrees(p, v)'
    BY <2>1, <2>2 DEF Agrees
  <2> QED BY <2>1, <2>2, <2>3 DEF Confirmed
<1>3. ConfirmedByTwo'
  <2>1. ASSUME NEW e \in DOMAIN event
        PROVE  Confirmed(e[2])' /\ snapshot'[e[2]].status = e[1]
    <3>1. e[2] \in DOMAIN snapshot
      BY DEF IInv, Events
    <3>2. Confirmed(e[2]) /\ snapshot[e[2]].status = e[1]
      BY DEF IInv, ConfirmedByTwo
    <3> QED BY <1>2, <3>1, <3>2
  <2>2. ASSUME NEW e \in point, e.code = "BROAD_BLOCK_ADDED"
        PROVE  Confirmed(e.primary)' /\ snapshot'[e.primary].broad /\ ~snapshot'[e.previous].broad
    <3>1. e.primary \in DOMAIN snapshot /\ e.previous \in DOMAIN snapshot
      BY DEF IInv, Events
    <3>2. Confirmed(e.primary) /\ snapshot[e.primary].broad /\ ~snapshot[e.previous].broad
      BY <2>2 DEF IInv, ConfirmedByTwo
    <3> QED BY <1>2, <3>1, <3>2
  <2> QED BY <2>1, <2>2 DEF ConfirmedByTwo
<1> QED BY <1>1, <1>3

LEMMA BroadOrNot ==
    ASSUME NEW type, NEW r
    PROVE  Normalized(type, r).broad \in BOOLEAN
<1>1. \A rules : BroadBlocked(rules) \in BOOLEAN
  BY DEF BroadBlocked
<1> QED BY ZenonT(60), <1>1 DEF Normalized

\* The snapshot of an observation: its instant is its own, and a validation is later
\* than its primary.
LEMMA RespondInv ==
    ASSUME IInv, NEW w \in Worker, Respond(w)
    PROVE  IInv'
<1>1. PICK r \in Response[TypeOfJob(job[w])] :
          snapshot' = Persisted(Key(w), Kept(w, Normalized(TypeOfJob(job[w]), r)))
  BY DEF Respond
<1>2. /\ UNCHANGED <<queueVars, siteVars, event, point, heard, localVars, job>>
      /\ pc[w] = "fetch"
      /\ \E t \in {"failed", "raised", "derive"} : pc' = [pc EXCEPT ![w] = t]
  BY ZenonT(60) DEF Respond, Goes
<1>3. PICK t \in {"failed", "raised", "derive"} : pc' = [pc EXCEPT ![w] = t]
  BY <1>2
<1>4. /\ WorkerTypeOK(Place)' /\ job[w] # Null
      /\ pc'[w] = t /\ \A x \in Worker : x # w => pc'[x] = pc[x]
  BY <1>2, <1>3, Moves DEF Outcome, Place
<1> DEFINE key == Key(w)
           s == Kept(w, Normalized(TypeOfJob(job[w]), r))
<1>5. s.at = seen[w].at /\ s.since = seen[w].since /\ s.broad \in BOOLEAN
  BY BroadOrNot DEF Kept
<1>6. snapshot' = Persisted(key, s)
  BY <1>1
<1>7. key[1] = job[w] /\ key \in Primary \cup (Validate \X Nat)
  BY <1>4, KeyNamed DEF PublicJob
<1> HIDE DEF key, s
<1>8. /\ DOMAIN snapshot' = DOMAIN snapshot \cup {key}
      /\ \A k \in DOMAIN snapshot : snapshot'[k] = snapshot[k]
      /\ key \notin DOMAIN snapshot => snapshot'[key] = s
  <2>1. CASE key \in DOMAIN snapshot
    BY <1>6, <2>1 DEF Persisted
  <2>2. CASE key \notin DOMAIN snapshot
    BY <1>6, <2>2 DEF Persisted
  <2> QED BY <2>1, <2>2
<1> USE DEF queueVars, siteVars, localVars
<1>9. Snapshots'
  <2>1. /\ seen[w].at \in 1 .. clock
        /\ \A k \in DOMAIN snapshot : snapshot[k].at # seen[w].at
        /\ job[w] \in Validate =>
              seen[w].at > snapshot[job[w][2]].at /\ snapshot[job[w][2]].at > seen[w].since
    BY <1>2 DEF IInv, Behind
  <2>2. DOMAIN snapshot' \subseteq Primary \cup (Validate \X Nat)
    BY <1>7, <1>8 DEF IInv, Snapshots
  <2>3. \A k \in DOMAIN snapshot' : snapshot'[k].at \in 1 .. clock /\ snapshot'[k].broad \in BOOLEAN
    BY <1>5, <1>8, <2>1 DEF IInv, Snapshots
  <2>4. ASSUME NEW k \in DOMAIN snapshot', NEW l \in DOMAIN snapshot', snapshot'[k].at = snapshot'[l].at
        PROVE  k = l
    <3>1. CASE k \in DOMAIN snapshot /\ l \in DOMAIN snapshot
      BY <1>8, <2>4, <3>1 DEF IInv, Snapshots
    <3>2. CASE k \notin DOMAIN snapshot /\ l \in DOMAIN snapshot
      BY <1>5, <1>8, <2>1, <2>4, <3>2
    <3>3. CASE k \in DOMAIN snapshot /\ l \notin DOMAIN snapshot
      BY <1>5, <1>8, <2>1, <2>4, <3>3
    <3>4. CASE k \notin DOMAIN snapshot /\ l \notin DOMAIN snapshot
      BY <1>8, <3>4
    <3> QED BY <3>1, <3>2, <3>3, <3>4
  <2>5. ASSUME NEW v \in DOMAIN snapshot', v[1] \in Validate
        PROVE  /\ v[1][2] \in DOMAIN snapshot'
               /\ snapshot'[v].at > snapshot'[v[1][2]].at
               /\ snapshot'[v[1][2]].at > snapshot'[v].since
    <3>1. CASE v \in DOMAIN snapshot
      BY <1>8, <2>5, <3>1 DEF IInv, Snapshots
    <3>2. CASE v = key /\ key \notin DOMAIN snapshot
      <4>1. job[w] \in Validate /\ v[1] = job[w]
        BY <1>7, <2>5, <3>2
      <4>2. job[w][2] \in DOMAIN snapshot
        BY <4>1, PrimaryThere
      <4>3. snapshot'[job[w][2]] = snapshot[job[w][2]] /\ snapshot'[v] = s
        BY <1>8, <3>2, <4>2
      <4> QED BY <1>5, <1>8, <2>1, <4>1, <4>2, <4>3
    <3> QED BY <1>8, <3>1, <3>2
  <2> QED BY <1>2, <2>2, <2>3, <2>4, <2>5 DEF Snapshots
<1>10. Events' /\ ConfirmedByTwo'
  BY <1>2, <1>8, RecordsGrow
<1>11. SiteInv' /\ Locals'
  BY <1>2 DEF IInv, SiteInv, Locals
<1>12. OnJob' /\ Asked'
  <2>1. OnJob'
    BY <1>2 DEF IInv, OnJob
  <2>2. Asked'
    BY <1>2, <1>8 DEF IInv, Asked
  <2> QED BY <2>1, <2>2
<1>13. Behind'
  <2>1. ASSUME NEW x \in Worker, pc'[x] \in {"observe", "fetch"}
        PROVE  x # w /\ pc[x] = pc'[x]
               /\ (job[x] \in Validate => snapshot'[job[x][2]] = snapshot[job[x][2]])
    BY <1>3, <1>4, <1>8, <2>1, PrimaryThere
  <2>2. ASSUME NEW x \in Worker, pc'[x] \in {"observe", "fetch"}, job[x] \in Validate
        PROVE  snapshot'[job[x][2]].at > seen[x].since
    BY <2>1, <2>2 DEF IInv, Behind
  <2>3. ASSUME NEW x \in Worker, pc'[x] = "fetch"
        PROVE  /\ seen[x].at \in 1 .. clock
               /\ \A k \in DOMAIN snapshot' : snapshot'[k].at # seen[x].at
               /\ \A y \in Worker : y # x /\ pc'[y] = "fetch" => seen[y].at # seen[x].at
               /\ job[x] \in Validate => seen[x].at > snapshot'[job[x][2]].at
    <3>1. x # w /\ pc[x] = "fetch"
      BY <2>1, <2>3
    <3>2. seen[x].at # seen[w].at
      BY <1>2, <3>1 DEF IInv, Behind
    <3>3. \A k \in DOMAIN snapshot' : snapshot'[k].at # seen[x].at
      <4> TAKE k \in DOMAIN snapshot'
      <4>1. CASE k \in DOMAIN snapshot
        BY <1>8, <3>1, <4>1 DEF IInv, Behind
      <4>2. CASE k \notin DOMAIN snapshot
        BY <1>5, <1>8, <3>2, <4>2
      <4> QED BY <4>1, <4>2
    <3>4. \A y \in Worker : y # x /\ pc'[y] = "fetch" => seen[y].at # seen[x].at
      BY <2>1, <3>1 DEF IInv, Behind
    <3>5. job[x] \in Validate => seen[x].at > snapshot'[job[x][2]].at
      BY <2>1, <2>3, <3>1 DEF IInv, Behind
    <3>6. seen[x].at \in 1 .. clock
      BY <3>1 DEF IInv, Behind
    <3> QED BY <3>3, <3>4, <3>5, <3>6
  <2> QED BY <1>2, <2>2, <2>3 DEF Behind
<1>14. About'
  <2>1. key = Key(w) /\ Key(w) \in DOMAIN snapshot'
    BY <1>8 DEF key
  <2>2. ASSUME NEW x \in Worker
        PROVE  /\ pc'[x] \in {"derive", "look", "commit", "ask"} => Key(x) \in DOMAIN snapshot'
               /\ pc'[x] \in {"look", "commit"} =>
                     /\ value[x].previous \in DOMAIN snapshot' \cup {Null}
                     /\ value[x].primary = (IF job[x] \in Fetch THEN Key(x) ELSE job[x][2])
                     /\ value[x].validation = (IF job[x] \in Fetch THEN Null ELSE Key(x))
    <3>1. CASE x = w
      BY <1>3, <1>4, <2>1, <3>1
    <3>2. CASE x # w
      BY <1>4, <1>8, <3>2 DEF IInv, About
    <3> QED BY <3>1, <3>2
  <2> QED BY <1>2, <2>2 DEF About, Key
<1>15. Locks'
  <2>1. found' = [found EXCEPT ![w] = {}]
    BY <1>2 DEF IInv, Locks
  <2> QED BY <1>2, <1>3, <1>4, <2>1, LocksKept DEF Outcome, Place
<1> QED BY <1>4, <1>9, <1>10, <1>11, <1>12, <1>13, <1>14, <1>15 DEF IInv

LEMMA DeriveInv ==
    ASSUME IInv, NEW w \in Worker, Derive(w)
    PROVE  IInv'
<1> DEFINE p == IF job[w] \in Fetch THEN Key(w) ELSE job[w][2]
           v == [previous |-> Previous(p), primary |-> p,
                 validation |-> IF job[w] \in Fetch THEN Null ELSE Key(w)]
<1>1. /\ UNCHANGED <<queueVars, siteVars, recordVars, try, seen, found, job>>
      /\ pc[w] = "derive" /\ pc' = [pc EXCEPT ![w] = "look"]
      /\ value' = [value EXCEPT ![w] = v]
  BY DEF Derive, Goes
<1>2. /\ WorkerTypeOK(Place)' /\ job[w] # Null
      /\ pc'[w] = "look" /\ \A x \in Worker : x # w => pc'[x] = pc[x]
  BY <1>1, Moves DEF Outcome, Place
<1>3. /\ v.previous \in DOMAIN snapshot \cup {Null} /\ v.primary = p
      /\ v.validation = (IF job[w] \in Fetch THEN Null ELSE Key(w))
  BY PreviousThere DEF IInv
<1> HIDE DEF v
<1> USE DEF queueVars, siteVars, recordVars
<1>4. clock' \in Nat /\ clock <= clock'
  BY <1>1, Instants DEF IInv
<1>5. SiteInv' /\ Snapshots' /\ Events' /\ ConfirmedByTwo' /\ OnJob' /\ Asked'
  <2>1. SiteInv'
    BY <1>1 DEF IInv, SiteInv
  <2>2. Snapshots' /\ Events' /\ ConfirmedByTwo'
    BY <1>1, <1>4, RecordsKept
  <2>3. OnJob' /\ Asked'
    BY <1>1, JobsKept
  <2> QED BY <2>1, <2>2, <2>3
<1>6. Behind'
  BY <1>1, <1>2 DEF IInv, Behind
<1>7. value'[w] = v /\ \A x \in Worker : x # w => value'[x] = value[x]
  BY <1>1 DEF IInv, Locals
<1>8. About'
  <2>1. ASSUME NEW x \in Worker
        PROVE  /\ pc'[x] \in {"derive", "look", "commit", "ask"} => Key(x) \in DOMAIN snapshot
               /\ pc'[x] \in {"look", "commit"} =>
                     /\ value'[x].previous \in DOMAIN snapshot \cup {Null}
                     /\ value'[x].primary = (IF job[x] \in Fetch THEN Key(x) ELSE job[x][2])
                     /\ value'[x].validation = (IF job[x] \in Fetch THEN Null ELSE Key(x))
    <3>1. CASE x = w
      <4>1. Key(w) \in DOMAIN snapshot
        BY <1>1 DEF IInv, About
      <4> QED BY <1>3, <1>7, <3>1, <4>1
    <3>2. CASE x # w
      BY <1>2, <1>7, <3>2 DEF IInv, About
    <3> QED BY <3>1, <3>2
  <2> QED BY <1>1, <2>1 DEF About, Key
<1>9. Locks'
  <2>1. found' = [found EXCEPT ![w] = {}]
    BY <1>1 DEF IInv, Locks
  <2> QED BY <1>1, <1>2, <2>1, LocksKept DEF Outcome, Place
<1>10. Locals'
  BY <1>1 DEF IInv, Locals
<1> QED BY <1>2, <1>5, <1>6, <1>8, <1>9, <1>10 DEF IInv

\* The rows are locked that no other transaction holds.
LEMMA LookInv ==
    ASSUME IInv, NEW w \in Worker, Look(w)
    PROVE  IInv'
<1> DEFINE rows == ActiveNow(Concerned(value[w]))
<1>1. /\ UNCHANGED <<queueVars, siteVars, recordVars, try, seen, value, job>>
      /\ pc[w] = "look" /\ pc' = [pc EXCEPT ![w] = "commit"]
      /\ \A x \in Worker : rows \cap found[x] = {}
      /\ found' = [found EXCEPT ![w] = rows]
  BY DEF Look, Goes
<1>2. /\ WorkerTypeOK(Place)' /\ job[w] # Null
      /\ pc'[w] = "commit" /\ \A x \in Worker : x # w => pc'[x] = pc[x]
  BY <1>1, Moves DEF Outcome, Place
<1>3. rows \subseteq DOMAIN event
  BY DEF ActiveNow
<1> HIDE DEF rows
<1> USE DEF queueVars, siteVars, recordVars
<1>4. clock' \in Nat /\ clock <= clock'
  BY <1>1, Instants DEF IInv
<1>5. SiteInv' /\ Snapshots' /\ Events' /\ ConfirmedByTwo' /\ OnJob' /\ Asked'
  <2>1. SiteInv'
    BY <1>1 DEF IInv, SiteInv
  <2>2. Snapshots' /\ Events' /\ ConfirmedByTwo'
    BY <1>1, <1>4, RecordsKept
  <2>3. OnJob' /\ Asked'
    BY <1>1, JobsKept
  <2> QED BY <2>1, <2>2, <2>3
<1>6. Behind' /\ Locals'
  BY <1>1, <1>2 DEF IInv, Behind, Locals
<1>7. About'
  BY <1>1, <1>2 DEF IInv, About, Key
<1>8. Locks'
  <2>1. /\ found'[w] = rows /\ \A x \in Worker : x # w => found'[x] = found[x]
        /\ found' \in [Worker -> SUBSET DOMAIN event']
    BY <1>1, <1>3 DEF IInv, Locks
  <2>2. \A x, y \in Worker : x # y => found'[x] \cap found'[y] = {}
    BY <1>1, <2>1 DEF IInv, Locks
  <2>3. ASSUME NEW x \in Worker
        PROVE  /\ pc'[x] # "commit" => found'[x] = {}
               /\ pc'[x] = "ask" => job'[x] \in Fetch
    BY <1>1, <1>2, <2>1 DEF IInv, Locks
  <2> QED BY <2>1, <2>2, <2>3 DEF Locks
<1> QED BY <1>2, <1>5, <1>6, <1>7, <1>8 DEF IInv
------------------------------------------------------------------------------
(* The handlers: what becomes of the events.                                 *)

EventsOf(events) == \A e \in DOMAIN events :
    e[1] \in Condition /\ e[2] \in DOMAIN snapshot /\ events[e] \in Event

\* The snapshots of a derivation, and its evidence, are there.
LEMMA EvidenceThere ==
    ASSUME IInv, NEW w \in Worker, pc[w] = "commit"
    PROVE  /\ value[w].previous \in DOMAIN snapshot \cup {Null}
           /\ value[w].primary \in DOMAIN snapshot
           /\ Evidence(value[w]) \subseteq DOMAIN snapshot /\ IsFiniteSet(Evidence(value[w]))
           /\ Detected(value[w]) \in Int
<1> DEFINE v == value[w]
<1>1. job[w] # Null
  BY DEF IInv, WorkerTypeOK
<1>2. /\ v.previous \in DOMAIN snapshot \cup {Null} /\ Key(w) \in DOMAIN snapshot
      /\ v.primary = (IF job[w] \in Fetch THEN Key(w) ELSE job[w][2])
      /\ v.validation = (IF job[w] \in Fetch THEN Null ELSE Key(w))
  BY DEF IInv, About
<1>3. job[w] \in Fetch \/ job[w] \in Validate
  BY <1>1 DEF IInv, OnJob, PublicJob
<1> HIDE DEF v
<1>4. v.primary \in DOMAIN snapshot
  BY <1>2, <1>3, PrimaryThere
<1>5. Tells(v) = "UPSERT" => v.previous \in DOMAIN snapshot
  BY <1>2, <1>4, WhatIsTold DEF IInv
<1>6. Evidence(v) \subseteq DOMAIN snapshot
  BY <1>4, <1>5 DEF Evidence
<1>7. IsFiniteSet(Evidence(v))
  <2>1. IsFiniteSet({v.primary}) /\ IsFiniteSet({v.previous}) /\ IsFiniteSet({})
    BY FS_Singleton, FS_EmptySet
  <2>2. IsFiniteSet({v.primary} \cup {v.previous}) /\ IsFiniteSet({v.primary} \cup {})
    BY <2>1, FS_Union
  <2> QED BY <2>2 DEF Evidence
<1>8. Detected(v) \in Int
  <2>1. (IF v.validation = Null THEN v.primary ELSE v.validation) \in DOMAIN snapshot
    BY <1>2, <1>4
  <2>2. \A k \in DOMAIN snapshot : snapshot[k].at \in Int
    <3>1. clock \in Nat
      BY Instants DEF IInv
    <3> QED BY <3>1 DEF IInv, Snapshots
  <2> QED BY <2>1, <2>2 DEF Detected
<1> QED BY <1>2, <1>4, <1>6, <1>7, <1>8 DEF v

\* Two observations agreed: those of a validation.
LEMMA AgreedIsConfirmed ==
    ASSUME IInv, NEW w \in Worker, pc[w] = "commit",
           Agrees(value[w].primary, value[w].validation)
    PROVE  Confirmed(value[w].primary)
<1> DEFINE v == value[w]
<1>1. job[w] # Null
  BY DEF IInv, WorkerTypeOK
<1>2. /\ Key(w) \in DOMAIN snapshot
      /\ v.primary = (IF job[w] \in Fetch THEN Key(w) ELSE job[w][2])
      /\ v.validation = (IF job[w] \in Fetch THEN Null ELSE Key(w))
  BY DEF IInv, About
<1>3. job[w] \in Validate /\ job[w] \notin Fetch
  <2>1. v.validation # Null
    BY DEF Agrees
  <2>2. job[w] \in PublicJob
    BY <1>1 DEF IInv, OnJob
  <2> QED BY <1>2, <2>1, <2>2 DEF PublicJob
<1>4. Key(w)[1] = job[w] /\ job[w] = <<"validate", job[w][2]>>
  BY <1>1, <1>3, KeyNamed, ValidateJob
<1>5. /\ snapshot[Key(w)].at > snapshot[job[w][2]].at
      /\ snapshot[job[w][2]].at > snapshot[Key(w)].since
  BY <1>2, <1>3, <1>4 DEF IInv, Snapshots
<1> QED BY <1>2, <1>3, <1>4, <1>5 DEF Confirmed

LEMMA ResolvedKeeps ==
    ASSUME IInv, NEW w \in Worker, pc[w] = "commit", NEW ids
    PROVE  /\ EventsOf(Resolved(ids, value[w]))
           /\ DOMAIN Resolved(ids, value[w]) = DOMAIN event
<1> DEFINE more == Evidence(value[w])
<1>1. more \subseteq DOMAIN snapshot
  BY EvidenceThere
<1> HIDE DEF more
<1>2. \A e \in DOMAIN event : /\ e[1] \in Condition /\ e[2] \in DOMAIN snapshot /\ event[e] \in Event
                              /\ [event[e] EXCEPT !.status = "RESOLVED", !.linked = @ \cup more] \in Event
  BY <1>1 DEF IInv, Events, Event
<1> QED BY <1>2 DEF Resolved, EventsOf, more

LEMMA SupportedKeeps ==
    ASSUME IInv, NEW w \in Worker, pc[w] = "commit", NEW events, EventsOf(events),
           DOMAIN events = DOMAIN event, NEW e \in DOMAIN event
    PROVE  /\ EventsOf(Supported(events, e, value[w]))
           /\ DOMAIN Supported(events, e, value[w]) = DOMAIN event
<1> DEFINE more == Evidence(value[w])
           n == Cardinality(more \ events[e].linked)
           row == [events[e] EXCEPT !.linked = @ \cup more, !.support = @ + n]
<1>1. more \subseteq DOMAIN snapshot /\ IsFiniteSet(more)
  BY EvidenceThere
<1>2. n \in Int
  <2> HIDE DEF more
  <2>1. IsFiniteSet(more \ events[e].linked)
    BY <1>1, FS_Subset
  <2> QED BY <2>1, FS_CardinalityType
<1>3. Supported(events, e, value[w]) =
        [events EXCEPT ![e].linked = @ \cup more, ![e].support = @ + n]
  BY DEF Supported
<1> HIDE DEF more, n
<1>4. row \in Event
  <2>1. events[e] \in Event
    BY DEF EventsOf
  <2>2. events[e].linked \cup more \in SUBSET DOMAIN snapshot
    BY <1>1, <2>1 DEF Event
  <2>3. events[e].support + n \in Int
    BY <1>2, <2>1 DEF Event
  <2> QED BY <2>1, <2>2, <2>3 DEF Event
<1>5. [events EXCEPT ![e].linked = @ \cup more, ![e].support = @ + n] = [events EXCEPT ![e] = row]
  OBVIOUS
<1> HIDE DEF row
<1> QED BY <1>3, <1>4, <1>5 DEF EventsOf

LEMMA OpenedKeeps ==
    ASSUME IInv, NEW w \in Worker, pc[w] = "commit", NEW events, EventsOf(events),
           DOMAIN events = DOMAIN event, NEW c \in Condition
    PROVE  LET id == <<c, value[w].primary>> IN
           /\ EventsOf(Opened(events, id, value[w]))
           /\ DOMAIN Opened(events, id, value[w]) = DOMAIN event \cup {id}
<1> DEFINE id == <<c, value[w].primary>>
           row == [status |-> "ACTIVE", detected |-> Detected(value[w]),
                   linked |-> Evidence(value[w]), support |-> 1]
<1>1. row \in Event /\ id[1] \in Condition /\ id[2] \in DOMAIN snapshot
  BY EvidenceThere DEF Event
<1>2. Opened(events, id, value[w]) = [i \in DOMAIN events \cup {id} |-> IF i = id THEN row ELSE events[i]]
  BY DEF Opened
<1> HIDE DEF id, row
<1>3. EventsOf(Opened(events, id, value[w])) /\ DOMAIN Opened(events, id, value[w]) = DOMAIN event \cup {id}
  BY <1>1, <1>2 DEF EventsOf
<1> QED BY <1>3 DEF id

\* A transaction ends, and leaves events as they must be.
LEMMA CommittedInv ==
    ASSUME IInv, NEW w \in Worker, NEW t \in {"ask", "done", "raised", "failed"},
           t = "ask" => job[w] \in Fetch /\ pc[w] = "commit",
           pc[w] \in Place, pc' = [pc EXCEPT ![w] = t],
           found' = [found EXCEPT ![w] = {}], value' = [value EXCEPT ![w] = NoValue],
           UNCHANGED <<queueVars, job, siteVars, snapshot, try, seen>>,
           DOMAIN event \subseteq DOMAIN event', Events', ConfirmedByTwo'
    PROVE  IInv'
<1> USE DEF queueVars, siteVars
<1>1. /\ WorkerTypeOK(Place)' /\ job[w] # Null
      /\ pc'[w] = t /\ \A x \in Worker : x # w => pc'[x] = pc[x]
  BY Moves DEF Outcome, Place
<1>2. SiteInv' /\ Snapshots' /\ OnJob' /\ Asked'
  <2>1. SiteInv' /\ Snapshots'
    BY DEF IInv, SiteInv, Snapshots
  <2>2. OnJob' /\ Asked'
    BY JobsKept
  <2> QED BY <2>1, <2>2
<1>3. Behind'
  BY <1>1 DEF IInv, Behind
<1>4. \A x \in Worker : x # w => value'[x] = value[x]
  BY DEF IInv, Locals
<1>5. About'
  <2>1. ASSUME NEW x \in Worker
        PROVE  /\ pc'[x] \in {"derive", "look", "commit", "ask"} => Key(x) \in DOMAIN snapshot
               /\ pc'[x] \in {"look", "commit"} =>
                     /\ value'[x].previous \in DOMAIN snapshot \cup {Null}
                     /\ value'[x].primary = (IF job[x] \in Fetch THEN Key(x) ELSE job[x][2])
                     /\ value'[x].validation = (IF job[x] \in Fetch THEN Null ELSE Key(x))
    <3>1. CASE x = w
      BY <1>1, <3>1 DEF IInv, About
    <3>2. CASE x # w
      BY <1>1, <1>4, <3>2 DEF IInv, About
    <3> QED BY <3>1, <3>2
  <2> QED BY <2>1 DEF About, Key
<1>6. Locks'
  BY <1>1, LocksKept DEF Outcome, Place
<1>7. Locals'
  BY DEF IInv, Locals
<1> QED BY <1>1, <1>2, <1>3, <1>5, <1>6, <1>7 DEF IInv

\* Commit and Rollback, as far as all outcomes share them.
LEMMA CommitOrRollback ==
    ASSUME IInv, NEW w \in Worker, Commit(w) \/ Rollback(w)
    PROVE  /\ pc[w] = "commit" /\ pc[w] \in Place
           /\ found' = [found EXCEPT ![w] = {}] /\ value' = [value EXCEPT ![w] = NoValue]
           /\ UNCHANGED <<queueVars, job, siteVars, snapshot, try, seen>>
           /\ \E t \in {"ask", "done", "raised", "failed"} :
                 pc' = [pc EXCEPT ![w] = t] /\ (t = "ask" => job[w] \in Fetch)
<1>1. CASE Commit(w)
  <2>1. Onward(w) \in {"ask", "done"} /\ (Onward(w) = "ask" => job[w] \in Fetch)
    BY DEF Onward
  <2> QED BY <1>1, <2>1 DEF Commit, Goes, Place
<1>2. CASE Rollback(w)
  BY <1>2 DEF Rollback, Goes, Place, recordVars
<1> QED BY <1>1, <1>2

LEMMA CommitInv ==
    ASSUME IInv, NEW w \in Worker, Commit(w) \/ Rollback(w),
           DOMAIN event \subseteq DOMAIN event', Events', ConfirmedByTwo'
    PROVE  IInv'
<1>1. /\ pc[w] = "commit" /\ pc[w] \in Place
      /\ found' = [found EXCEPT ![w] = {}] /\ value' = [value EXCEPT ![w] = NoValue]
      /\ UNCHANGED <<queueVars, job, siteVars, snapshot, try, seen>>
  BY CommitOrRollback
<1>2. PICK t \in {"ask", "done", "raised", "failed"} :
         pc' = [pc EXCEPT ![w] = t] /\ (t = "ask" => job[w] \in Fetch)
  BY CommitOrRollback
<1> QED BY <1>1, <1>2, CommittedInv

\* Nothing is recorded.
LEMMA SameEventsInv ==
    ASSUME IInv, NEW w \in Worker, Commit(w) \/ Rollback(w), UNCHANGED <<event, point>>
    PROVE  IInv'
<1>1. UNCHANGED <<snapshot, siteVars>>
  BY CommitOrRollback
<1>2. clock' \in Nat /\ clock <= clock'
  BY <1>1, Instants DEF IInv, siteVars
<1>3. Events' /\ ConfirmedByTwo'
  BY <1>1, <1>2, RecordsKept
<1> QED BY <1>3, CommitInv

\* The events that were there are those of before, as far as it matters.
LEMMA ConfirmedStays ==
    ASSUME IInv, UNCHANGED <<snapshot, point>>, EventsOf(event'),
           \A e \in DOMAIN event' : e \in DOMAIN event
              \/ (Confirmed(e[2]) /\ snapshot[e[2]].status = e[1])
    PROVE  Events' /\ ConfirmedByTwo'
<1>1. Events'
  BY DEF IInv, Events, Event, EventsOf
<1>2. \A p : Confirmed(p)' <=> Confirmed(p)
  BY DEF Confirmed, Agrees
<1>3. ConfirmedByTwo'
  BY <1>2 DEF IInv, ConfirmedByTwo
<1> QED BY <1>1, <1>3

\* An added block is told when two observations agreed.
LEMMA RecordInv ==
    ASSUME IInv, NEW w \in Worker, Record(w)
    PROVE  IInv'
<1> DEFINE v == value[w]
           row == [code |-> Tells(v), primary |-> v.primary, previous |-> v.previous]
<1>1. /\ Tells(v) \in Point /\ Commit(w) /\ UNCHANGED event
      /\ point' \subseteq point \cup {row}
  BY DEF Record
<1>2. pc[w] = "commit" /\ UNCHANGED snapshot
  BY <1>1, CommitOrRollback
<1>3. v.previous \in DOMAIN snapshot \cup {Null} /\ v.primary \in DOMAIN snapshot
  BY <1>2, EvidenceThere
<1> HIDE DEF v
<1>4. /\ v.previous \in DOMAIN snapshot
      /\ Tells(v) = "BROAD_BLOCK_ADDED" =>
            /\ Agrees(v.primary, v.validation)
            /\ snapshot[v.primary].broad /\ ~snapshot[v.previous].broad
  BY <1>1, <1>3, WhatIsTold DEF IInv, Point
<1>5. row \in [code : Point, primary : DOMAIN snapshot, previous : DOMAIN snapshot]
      /\ row.code = Tells(v) /\ row.primary = v.primary /\ row.previous = v.previous
  BY <1>1, <1>3, <1>4
<1> HIDE DEF row
<1>6. row.code = "BROAD_BLOCK_ADDED" =>
         Confirmed(row.primary) /\ snapshot[row.primary].broad /\ ~snapshot[row.previous].broad
  BY <1>2, <1>4, <1>5, AgreedIsConfirmed DEF v
<1>7. Events'
  BY <1>1, <1>2, <1>5 DEF IInv, Events, Event
<1>8. ConfirmedByTwo'
  <2>1. \A p : Confirmed(p)' <=> Confirmed(p)
    BY <1>2 DEF Confirmed, Agrees
  <2>2. \A e \in point' : e.code = "BROAD_BLOCK_ADDED" =>
          Confirmed(e.primary) /\ snapshot[e.primary].broad /\ ~snapshot[e.previous].broad
    BY <1>1, <1>6 DEF IInv, ConfirmedByTwo
  <2> QED BY <1>1, <1>2, <2>1, <2>2 DEF IInv, ConfirmedByTwo
<1> QED BY <1>1, <1>7, <1>8, CommitInv

\* A condition is opened when two observations agreed.
LEMMA UpsertInv ==
    ASSUME IInv, NEW w \in Worker, Upsert(w)
    PROVE  IInv'
<1> DEFINE v == value[w]
           id == <<Code(v), v.primary>>
           after == Resolved({e \in found[w] : e[1] # Code(v)}, v)
           mine == ActiveNow({Code(v)})
<1>1. Tells(v) = "UPSERT"
  BY DEF Upsert
<1>2. CASE mine = {} /\ id \in DOMAIN event
  <2>1. Rollback(w)
    BY <1>2 DEF Upsert
  <2> QED BY <2>1, SameEventsInv DEF Rollback, recordVars
<1>3. CASE ~(mine = {} /\ id \in DOMAIN event)
  <2>1. /\ Commit(w) /\ UNCHANGED point
        /\ event' = IF mine = {} THEN Opened(after, id, v)
                    ELSE Supported(after, CHOOSE e \in mine : TRUE, v)
    BY <1>3 DEF Upsert
  <2>2. pc[w] = "commit" /\ UNCHANGED snapshot
    BY <2>1, CommitOrRollback
  <2>3. v.previous \in DOMAIN snapshot \cup {Null} /\ v.primary \in DOMAIN snapshot
    BY <2>2, EvidenceThere
  <2>4. Code(v) \in Condition /\ Agrees(v.primary, v.validation)
    <3> HIDE DEF v
    <3> QED BY <1>1, <2>3, WhatIsTold DEF IInv
  <2>5. Confirmed(v.primary) /\ snapshot[v.primary].status = Code(v)
    BY <2>2, <2>4, AgreedIsConfirmed DEF Code
  <2>6. EventsOf(after) /\ DOMAIN after = DOMAIN event
    BY <2>2, ResolvedKeeps
  <2>7. mine \subseteq DOMAIN event
    BY DEF ActiveNow
  <2> DEFINE c == Code(v)
  <2> HIDE DEF after, mine, c
  <2>8. EventsOf(event') /\ DOMAIN event \subseteq DOMAIN event' /\ DOMAIN event' \subseteq DOMAIN event \cup {id}
    <3>1. CASE mine = {}
      <4>1. EventsOf(Opened(after, <<c, v.primary>>, v))
            /\ DOMAIN Opened(after, <<c, v.primary>>, v) = DOMAIN event \cup {<<c, v.primary>>}
        BY <2>2, <2>4, <2>6, OpenedKeeps DEF c
      <4> QED BY <2>1, <3>1, <4>1 DEF c
    <3>2. CASE mine # {}
      <4>1. PICK e \in DOMAIN event : e = CHOOSE i \in mine : TRUE
        BY <2>7, <3>2
      <4>2. EventsOf(Supported(after, e, v)) /\ DOMAIN Supported(after, e, v) = DOMAIN event
        BY <2>2, <2>6, SupportedKeeps
      <4> QED BY <2>1, <3>2, <4>1, <4>2
    <3> QED BY <3>1, <3>2
  <2>9. id[1] = Code(v) /\ id[2] = v.primary
    OBVIOUS
  <2>10. Events' /\ ConfirmedByTwo'
    <3>1. \A e \in DOMAIN event' : e \in DOMAIN event \/ (Confirmed(e[2]) /\ snapshot[e[2]].status = e[1])
      <4> HIDE DEF id, v
      <4> QED BY <2>5, <2>8, <2>9
    <3> QED BY <2>1, <2>2, <2>8, <3>1, ConfirmedStays
  <2> QED BY <2>1, <2>8, <2>10, CommitInv
<1> QED BY <1>2, <1>3

LEMMA SupportInv ==
    ASSUME IInv, NEW w \in Worker, Support(w)
    PROVE  IInv'
<1>1. /\ Commit(w) /\ UNCHANGED point
      /\ event' = IF found[w] = {} THEN event
                  ELSE Supported(event, CHOOSE e \in found[w] : TRUE, value[w])
  BY DEF Support
<1>2. pc[w] = "commit" /\ UNCHANGED snapshot
  BY <1>1, CommitOrRollback
<1>3. CASE found[w] = {}
  BY <1>1, <1>3, SameEventsInv
<1>4. CASE found[w] # {}
  <2>1. found[w] \subseteq DOMAIN event
    BY DEF IInv, Locks
  <2>2. PICK e \in DOMAIN event : e = CHOOSE i \in found[w] : TRUE
    BY <1>4, <2>1
  <2>3. EventsOf(event)
    BY DEF IInv, Events, EventsOf
  <2>4. EventsOf(event') /\ DOMAIN event' = DOMAIN event
    BY <1>1, <1>2, <1>4, <2>2, <2>3, SupportedKeeps
  <2>5. Events' /\ ConfirmedByTwo'
    BY <1>1, <1>2, <2>4, ConfirmedStays
  <2> QED BY <1>1, <2>4, <2>5, CommitInv
<1> QED BY <1>3, <1>4

LEMMA ResolveInv ==
    ASSUME IInv, NEW w \in Worker, Resolve(w)
    PROVE  IInv'
<1>1. Commit(w) /\ UNCHANGED point /\ event' = Resolved(found[w], value[w])
  BY DEF Resolve
<1>2. pc[w] = "commit" /\ UNCHANGED snapshot
  BY <1>1, CommitOrRollback
<1>3. EventsOf(event') /\ DOMAIN event' = DOMAIN event
  BY <1>1, <1>2, ResolvedKeeps
<1>4. Events' /\ ConfirmedByTwo'
  BY <1>1, <1>2, <1>3, ConfirmedStays
<1> QED BY <1>1, <1>3, <1>4, CommitInv

\* A validation is asked for by a scheduled snapshot that is there.
LEMMA AskInv ==
    ASSUME IInv, NEW w \in Worker, Ask(w)
    PROVE  IInv'
<1> DEFINE j == <<"validate", Key(w)>>
<1>1. /\ UNCHANGED <<siteVars, recordVars, localVars, job>>
      /\ pc[w] = "ask" /\ pc' = [pc EXCEPT ![w] = "done"]
      /\ (phase[j] = "absent" /\ Enqueue(j)) \/ UNCHANGED queueVars
  BY DEF Ask, Goes
<1> USE DEF siteVars, recordVars, localVars
<1>2. job[w] # Null /\ job[w] \in Fetch /\ Key(w) \in DOMAIN snapshot
  BY <1>1 DEF IInv, WorkerTypeOK, Locks, About
<1>3. Key(w) \in Primary
  BY <1>2, KeyNamed
<1>4. j \in Job
  BY <1>3, ValidateJob DEF PublicJob
<1>5. /\ WorkerTypeOK(Place)'
      /\ \A i \in Job : i # j => phase'[i] = phase[i]
      /\ \A i \in Job : phase[i] # "absent" => phase'[i] # "absent"
  <2>1. CASE UNCHANGED queueVars
    <3>1. WorkerTypeOK(Place)'
      BY <1>1, <2>1, GoesType DEF IInv, Outcome
    <3> QED BY <2>1, <3>1 DEF queueVars
  <2>2. CASE phase[j] = "absent" /\ Enqueue(j)
    <3>1. UNCHANGED <<runs, owner>> /\ phase' = [phase EXCEPT ![j] = "waiting"]
      BY <2>2 DEF Enqueue, Queue!Submit
    <3>2. phase' \in [Job -> Queue!Phase]
      BY <3>1 DEF IInv, WorkerTypeOK, Queue!Phase
    <3>3. pc' \in [Worker -> {"idle"} \cup Outcome \cup Place]
      BY <1>1 DEF IInv, WorkerTypeOK, Outcome
    <3>4. \A x \in Worker : pc'[x] = "idle" <=> job'[x] = Null
      BY <1>1, <1>2 DEF IInv, WorkerTypeOK
    <3>5. WorkerTypeOK(Place)'
      BY <1>1, <3>1, <3>2, <3>3, <3>4 DEF IInv, WorkerTypeOK
    <3> HIDE DEF j
    <3>6. \A i \in Job : i # j => phase'[i] = phase[i]
      BY <3>1 DEF IInv, WorkerTypeOK
    <3>7. phase'[j] # "absent"
      BY <1>4, <3>1 DEF IInv, WorkerTypeOK
    <3> QED BY <3>5, <3>6, <3>7
  <2> QED BY <1>1, <2>1, <2>2
<1>6. pc'[w] = "done" /\ \A x \in Worker : x # w => pc'[x] = pc[x]
  BY <1>1 DEF IInv, WorkerTypeOK
<1>7. OnJob' /\ Asked'
  <2>1. ASSUME NEW p \in Primary, phase'[<<"validate", p>>] # "absent"
        PROVE  phase[<<"validate", p>>] # "absent" \/ p \in DOMAIN snapshot
    <3>1. CASE p = Key(w)
      BY <1>2, <3>1
    <3>2. CASE p # Key(w)
      <4>1. <<"validate", p>> # j /\ <<"validate", p>> \in Job
        BY <3>2, ValidateJob DEF PublicJob
      <4> QED BY <1>5, <2>1, <4>1
    <3> QED BY <3>1, <3>2
  <2> QED BY <1>1, <1>5, <2>1, JobsKept
<1>8. clock' \in Nat /\ clock <= clock'
  BY <1>1, Instants DEF IInv
<1>9. SiteInv' /\ Snapshots' /\ Events' /\ ConfirmedByTwo'
  <2>1. SiteInv'
    BY <1>1 DEF IInv, SiteInv
  <2>2. Snapshots' /\ Events' /\ ConfirmedByTwo'
    BY <1>1, <1>8, RecordsKept
  <2> QED BY <2>1, <2>2
<1>10. Behind' /\ About' /\ Locals'
  BY <1>1, <1>6 DEF IInv, Behind, About, Locals, Key
<1>11. Locks'
  <2>1. found' = [found EXCEPT ![w] = {}]
    BY <1>1 DEF IInv, Locks
  <2> QED BY <1>1, <1>6, <2>1, LocksKept DEF Outcome, Place
<1> QED BY <1>5, <1>7, <1>9, <1>10, <1>11 DEF IInv

LEMMA BreakInv ==
    ASSUME IInv, NEW w \in Worker, Break(w)
    PROVE  IInv'
<1>1. /\ UNCHANGED <<queueVars, job, siteVars, recordVars, try, seen>>
      /\ pc[w] \in Place /\ pc' = [pc EXCEPT ![w] = "failed"]
      /\ found' = [found EXCEPT ![w] = {}] /\ value' = [value EXCEPT ![w] = NoValue]
  BY DEF Break
<1> USE DEF siteVars, recordVars
<1>2. clock' \in Nat /\ clock <= clock'
  BY <1>1, Instants DEF IInv
<1>3. Events' /\ ConfirmedByTwo'
  BY <1>1, <1>2, RecordsKept
<1> QED BY <1>1, <1>3, CommittedInv
------------------------------------------------------------------------------
(* The theorems.                                                             *)

LEMMA NextInv == IInv /\ [Next]_vars => IInv'
<1> SUFFICES ASSUME IInv, [Next]_vars PROVE IInv'
  OBVIOUS
<1>1. CASE UNCHANGED vars
  BY <1>1, StutterInv
<1>2. CASE NextSlot \/ Switch \/ List \/ Admit \/ PassEnds
  BY <1>2, QuietInv
<1>3. CASE \E f \in Fetch : Schedule(f)
  BY <1>3, ScheduleInv
<1>4. CASE \E j \in PublicJob : Lose(j) \/ \E w \in Worker : Take(w, j)
  BY <1>4, LoseInv, TakeInv
<1>5. ASSUME NEW w \in Worker,
             Gate(w) \/ Observe(w) \/ Respond(w) \/ Derive(w) \/ Look(w)
      PROVE  IInv'
  BY <1>5, GateInv, ObserveInv, RespondInv, DeriveInv, LookInv
<1>6. ASSUME NEW w \in Worker,
             Record(w) \/ Upsert(w) \/ Conflict(w) \/ Support(w) \/ Resolve(w) \/ Ignore(w)
      PROVE  IInv'
  <2>1. CASE Conflict(w) \/ Ignore(w)
    BY <2>1, SameEventsInv DEF Conflict, Ignore, Rollback, recordVars
  <2>2. CASE Record(w) \/ Upsert(w) \/ Support(w) \/ Resolve(w)
    BY <2>2, RecordInv, UpsertInv, SupportInv, ResolveInv
  <2> QED BY <1>6, <2>1, <2>2
<1>7. ASSUME NEW w \in Worker, Ask(w) \/ Break(w) \/ Finish(w)
      PROVE  IInv'
  BY <1>7, AskInv, BreakInv, FinishInv
<1> QED BY <1>1, <1>2, <1>3, <1>4, <1>5, <1>6, <1>7 DEF Next

\* The inductive invariant holds.
THEOREM PublicConfigInvariant == Spec => []IInv
BY InitIInv, NextInv, PTL DEF Spec

\* Every variable keeps its type: two observations never have one instant, events
\* refer to snapshots that are there, and no row is locked by two transactions.
THEOREM PublicConfigTypeCorrect == Spec => []TypeOK
<1>1. IInv => TypeOK
  <2> SUFFICES ASSUME IInv PROVE TypeOK
    OBVIOUS
  <2>1. \A e \in DOMAIN event : event[e].linked \subseteq DOMAIN snapshot
    BY DEF IInv, Events, Event
  <2> QED BY <2>1 DEF IInv, TypeOK, SiteInv, Snapshots, Events, Locks
<1> QED BY <1>1, PublicConfigInvariant, PTL

\* run_validation and _preflight_monitoring: an added block, and every condition,
\* rests on a scheduled observation and a later validation that agrees with it, and
\* monitoring was not switched between the first of them and the gate of the second.
THEOREM PublicConfigConfirmedByTwo == Spec => []ConfirmedByTwo
<1>1. IInv => ConfirmedByTwo
  BY DEF IInv
<1> QED BY <1>1, PublicConfigInvariant, PTL
------------------------------------------------------------------------------
(* What is told.  A file is quiet while no two observations of it overlap.   *)

Quiet(type) == type \notin overlapped

\* An attempt has one handler, and a snapshot only after the handler's fetch.
Attempts ==
    /\ \A k \in DOMAIN snapshot : k[2] <= runs[k[1]]
    /\ \A w \in Worker :
          /\ job[w] # Null => try[w] <= runs[job[w]]
          /\ pc[w] \in {"gate", "observe", "fetch"} => Key(w) \notin DOMAIN snapshot
          /\ \A x \in Worker : x # w /\ job[w] # Null /\ job[x] = job[w] => try[x] # try[w]

\* The handlers between an observation and the end of its derivation, and the instant
\* of the observation.
Busy(w) == pc[w] \in {"fetch", "derive", "look", "commit"}
At(w) == IF pc[w] = "fetch" THEN seen[w].at ELSE snapshot[Key(w)].at

\* Of a quiet file one handler is busy at a time, and what it observed is the latest.
Alone == \A w \in Worker : Busy(w) =>
    LET type == TypeOfJob(job[w]) IN
    Quiet(type) =>
        /\ \A x \in Worker : x # w /\ Busy(x) => TypeOfJob(job[x]) # type
        /\ \A k \in Seen(type) : snapshot[k].at <= At(w)

\* ads.txt blocks nobody.
AdsOpen == \A k \in Seen("ADS_TXT") : ~snapshot[k].broad

\* What a derivation compares: of a quiet file, what it would read now.
Read == \A w \in Worker : pc[w] \in {"look", "commit"} =>
    LET v == value[w]
        type == TypeOf[v.primary[1]]
    IN /\ v.previous # Null => v.previous \in Scheduled(type, snapshot[v.primary].at)
       /\ Quiet(type) => v.previous = Previous(v.primary)

\* A validation, under way or kept, was called for by its primary.
CalledFor ==
    /\ \A k \in DOMAIN snapshot : k[1] \in Validate /\ Quiet(TypeOfJob(k[1])) => Called(k[1][2])
    /\ \A w \in Worker : pc[w] \in {"observe", "fetch"} /\ job[w] \in Validate
                         /\ Quiet(TypeOfJob(job[w])) => Called(job[w][2])

\* The snapshot before p, and the primary of the snapshot k.
Neighbour(p) == Latest(Scheduled(TypeOf[p[1]], snapshot[p].at))
PrimaryOf(k) == IF k[1] \in Fetch THEN k ELSE k[1][2]

\* A point event is the change between two neighbours, and a derivation has left the
\* one it found; an added block needs a validation that agrees.
PointsRight == \A e \in point :
    /\ e.primary \in Primary
    /\ Quiet(TypeOf[e.primary[1]]) =>
          e.previous = Neighbour(e.primary) /\ e.code = Kind(e.previous, e.primary)
PointsKept ==
    /\ heard \subseteq DOMAIN snapshot
    /\ \A k \in heard :
          LET p == PrimaryOf(k)
              b == Neighbour(p)
          IN Quiet(TypeOf[p[1]]) /\ b # Null /\ Kind(b, p) # "NOTHING"
             /\ (Kind(b, p) = "BROAD_BLOCK_ADDED" => k[1] \in Validate /\ Agrees(p, k))
             => \E e \in point : e.primary = p /\ e.code = Kind(b, p)

\* What a condition event refers to: observations of ads.txt, of which those of
\* another status precede one of its own.
Ads == {k \in DOMAIN snapshot : k \in Primary /\ TypeOf[k[1]] = "ADS_TXT"}
LinkedRow(code, row) ==
    /\ \E k \in Seen("ADS_TXT") : row.detected = snapshot[k].at
    /\ row.status = "ACTIVE" => \A q \in row.linked :
          /\ q \in Ads
          /\ snapshot[q].status # code =>
                \E s \in row.linked : snapshot[s].at > snapshot[q].at /\ snapshot[s].status = code
Linked == Quiet("ADS_TXT") => \A e \in DOMAIN event : e[2] \in Ads /\ LinkedRow(e[1], event[e])

\* The conditions a transaction holds are those it would find now.
Holds == \A w \in Worker : pc[w] = "commit" =>
    /\ TypeOfJob(job[w]) = "ROBOTS_TXT" => found[w] = {}
    /\ TypeOfJob(job[w]) = "ADS_TXT" /\ Quiet("ADS_TXT") =>
          found[w] = ActiveNow(Concerned(value[w]))

\* What is active when the snapshots S were all derived in order.
Standing(S) ==
    LET last == Latest({p \in S : Usable(p)})
    IN IF last = Null \/ Latest({p \in S : snapshot[p].status \in Healthy}) = Null THEN {}
       ELSE {snapshot[last].status} \cap Condition
Codes == {e[1] : e \in ActiveNow(Condition)}
Validated(p) == \E v \in heard : v[1] = <<"validate", p>> /\ Agrees(p, v)
OrderlyBefore(t) ==
    /\ \A k \in Seen("ADS_TXT") : snapshot[k].at < t /\ Usable(k) => k \in heard
    /\ \A k \in Seen("ADS_TXT") : k[1] \in Validate => InTurn(k)
    /\ \A p \in Scheduled("ADS_TXT", t) : Called(p) => Validated(p)

\* After an orderly past, the last observation counts once its validation was heard.
Last(p) == p \in Ads /\ \A q \in Ads : snapshot[q].at <= snapshot[p].at
CodesRight == Quiet("ADS_TXT") => \A p \in Ads :
    Last(p) /\ OrderlyBefore(snapshot[p].at) =>
        Codes = Standing(IF Validated(p) THEN Ads ELSE Ads \ {p})

ToldInv == /\ Attempts /\ Alone /\ AdsOpen /\ Read /\ CalledFor
           /\ PointsRight /\ PointsKept /\ Linked /\ Holds /\ CodesRight

LEMMA Typing ==
    /\ \A p \in Primary : /\ TypeOfJob(p[1]) = TypeOf[p[1]] /\ TypeOf[p[1]] \in ConfigType
                          /\ p[1] \notin Validate
    /\ \A j \in Validate : TypeOfJob(j) = TypeOf[j[2][1]] /\ j[2] \in Primary /\ j \notin Fetch
    /\ \A j \in PublicJob : TypeOfJob(j) \in ConfigType
<1>1. \A j \in Fetch : TypeOfJob(j) = TypeOf[j] /\ TypeOf[j] \in ConfigType
  BY PublicConfigAssumption DEF TypeOfJob
<1>2. \A p \in Primary : p[1] \in Fetch /\ p[1] \notin Validate
  BY ValidateJob
<1>3. \A j \in Validate : TypeOfJob(j) = TypeOf[j[2][1]] /\ j[2] \in Primary /\ j \notin Fetch
  BY ValidateJob DEF TypeOfJob
<1> QED BY <1>1, <1>2, <1>3 DEF PublicJob

\* Latest, of any snapshots that are there.
LEMMA LatestAll == IInv => \A S \in SUBSET DOMAIN snapshot :
    /\ S = {} => Latest(S) = Null
    /\ S # {} => Latest(S) \in S /\ \A q \in S : snapshot[q].at <= snapshot[Latest(S)].at
<1>1. ASSUME IInv, NEW S \in SUBSET DOMAIN snapshot
      PROVE  /\ S = {} => Latest(S) = Null
             /\ S # {} => Latest(S) \in S /\ \A q \in S : snapshot[q].at <= snapshot[Latest(S)].at
  BY <1>1, LatestIsOne DEF IInv
<1> QED BY <1>1

\* No snapshot is named Null, and instants are numbers.
LEMMA Named ==
    ASSUME IInv
    PROVE  /\ \A k \in DOMAIN snapshot : k # Null /\ snapshot[k].at \in Nat /\ k[1] \in PublicJob
                                         /\ snapshot[k].at <= clock
           /\ \A k \in DOMAIN snapshot : k[1] \in Fetch => k \in Primary
           /\ \A k \in DOMAIN snapshot : k[1] \in Validate => k[1][2] \in DOMAIN snapshot \cap Primary
           /\ \A k, l \in DOMAIN snapshot : snapshot[k].at = snapshot[l].at => k = l
           /\ clock \in Nat
<1>1. clock \in Nat
  BY Instants DEF IInv
<1>2. DOMAIN snapshot \subseteq Primary \cup (Validate \X Nat)
  BY DEF IInv, Snapshots
<1>3. Primary \cup (Validate \X Nat) \subseteq PublicJob \X Nat
  BY PublicConfigAssumption DEF Primary, PublicJob
<1>4. \A k \in DOMAIN snapshot : k # Null /\ k[1] \in PublicJob
  BY <1>2, <1>3, ValidateJob
<1>5. \A k \in DOMAIN snapshot : k[1] \in Fetch => k \in Primary
  BY <1>2, ValidateJob
<1>6. \A k \in DOMAIN snapshot : k[1] \in Validate => k[1][2] \in DOMAIN snapshot \cap Primary
  BY ValidateJob DEF IInv, Snapshots
<1> QED BY <1>1, <1>4, <1>5, <1>6 DEF IInv, Snapshots

LEMMA Instanced == IInv => \A k \in DOMAIN snapshot : snapshot[k].at \in Nat
BY Named

\* Snapshots are added.
Grows == /\ DOMAIN snapshot \subseteq DOMAIN snapshot'
         /\ \A k \in DOMAIN snapshot : snapshot'[k] = snapshot[k]

LEMMA LatestStays ==
    ASSUME IInv, IInv', Grows
    PROVE  \A S \in SUBSET DOMAIN snapshot : Latest(S)' = Latest(S)
<1>1. (\A S \in SUBSET DOMAIN snapshot :
          /\ S = {} => Latest(S) = Null
          /\ S # {} => Latest(S) \in S /\ \A q \in S : snapshot[q].at <= snapshot[Latest(S)].at)'
  BY LatestAll, PTL
<1>2. ASSUME NEW S \in SUBSET DOMAIN snapshot
      PROVE  Latest(S)' = Latest(S)
  <2>1. S \in SUBSET DOMAIN snapshot'
    BY DEF Grows
  <2>2. CASE S = {}
    BY <1>1, <2>1, <2>2, LatestAll
  <2>3. CASE S # {}
    <3>1. /\ Latest(S) \in S /\ Latest(S)' \in S
          /\ snapshot[Latest(S)'].at <= snapshot[Latest(S)].at
          /\ snapshot'[Latest(S)].at <= snapshot'[Latest(S)'].at
      BY <1>1, <2>1, <2>3, LatestAll
    <3>2. /\ Latest(S) \in DOMAIN snapshot /\ Latest(S)' \in DOMAIN snapshot
          /\ snapshot'[Latest(S)] = snapshot[Latest(S)] /\ snapshot'[Latest(S)'] = snapshot[Latest(S)']
      BY <3>1 DEF Grows
    <3>3. snapshot[Latest(S)].at = snapshot[Latest(S)'].at
      BY <3>1, <3>2, Named
    <3> QED BY <3>2, <3>3, Named
  <2> QED BY <2>2, <2>3
<1> QED BY <1>2

\* What came before an instant stays, when no scheduled snapshot is added before it.
LEMMA PastStays ==
    ASSUME IInv, IInv', Grows, NEW type, NEW t,
           \A k \in DOMAIN snapshot' \ DOMAIN snapshot :
               k \in Primary /\ TypeOf[k[1]] = type => ~ (snapshot'[k].at < t)
    PROVE  /\ Scheduled(type, t)' = Scheduled(type, t)
           /\ Latest(Scheduled(type, t))' = Latest(Scheduled(type, t))
           /\ PreviousHealthy(type, t)' = PreviousHealthy(type, t)
           /\ PreviousAffected(type, t)' = PreviousAffected(type, t)
<1>1. Scheduled(type, t)' = Scheduled(type, t)
  BY DEF Scheduled, Grows
<1>2. Scheduled(type, t) \in SUBSET DOMAIN snapshot
  BY DEF Scheduled
<1>3. \A S \in SUBSET DOMAIN snapshot : Latest(S)' = Latest(S)
  BY LatestStays
<1> DEFINE fit(H) == {p \in Scheduled(type, t) : snapshot[p].status \in H}
<1>4. \A H : fit(H)' = fit(H) /\ fit(H) \in SUBSET DOMAIN snapshot
  BY <1>1, <1>2 DEF Grows
<1>5. Latest(fit(Healthy))' = Latest(fit(Healthy)) /\ Latest(fit(Condition))' = Latest(fit(Condition))
  BY <1>3, <1>4
<1>6. Latest(Scheduled(type, t))' = Latest(Scheduled(type, t))
  BY <1>1, <1>2, <1>3
<1>7. PreviousHealthy(type, t)' = PreviousHealthy(type, t)
  BY <1>5 DEF PreviousHealthy
<1>8. PreviousAffected(type, t)' = PreviousAffected(type, t)
  BY <1>5 DEF PreviousAffected
<1> QED BY <1>1, <1>6, <1>7, <1>8

\* So do the predecessors of p, and what its validation depends on.
LEMMA PredecessorsStay ==
    ASSUME IInv, IInv', Grows, NEW p \in DOMAIN snapshot,
           \A k \in DOMAIN snapshot' \ DOMAIN snapshot :
               k \in Primary /\ TypeOf[k[1]] = TypeOf[p[1]] => snapshot'[k].at > snapshot[p].at
    PROVE  /\ Scheduled(TypeOf[p[1]], snapshot[p].at)' = Scheduled(TypeOf[p[1]], snapshot[p].at)
           /\ Neighbour(p)' = Neighbour(p)
           /\ Previous(p)' = Previous(p)
           /\ Called(p)' = Called(p)
<1> DEFINE type == TypeOf[p[1]]
           t == snapshot[p].at
<1>1. snapshot'[p] = snapshot[p] /\ t \in Nat
  BY Named DEF Grows
<1>2. (\A k \in DOMAIN snapshot : snapshot[k].at \in Nat)'
  BY Instanced, PTL
<1>3. ASSUME NEW u, u = t
      PROVE  /\ Scheduled(type, u)' = Scheduled(type, u)
             /\ Latest(Scheduled(type, u))' = Latest(Scheduled(type, u))
             /\ PreviousHealthy(type, u)' = PreviousHealthy(type, u)
             /\ PreviousAffected(type, u)' = PreviousAffected(type, u)
  <2>1. \A k \in DOMAIN snapshot' \ DOMAIN snapshot :
               k \in Primary /\ TypeOf[k[1]] = type => ~ (snapshot'[k].at < u)
    BY <1>1, <1>2, <1>3
  <2> QED BY <2>1, PastStays
<1>4. /\ Scheduled(type, t)' = Scheduled(type, t)
      /\ Latest(Scheduled(type, t))' = Latest(Scheduled(type, t))
      /\ PreviousHealthy(type, t)' = PreviousHealthy(type, t)
      /\ PreviousAffected(type, t)' = PreviousAffected(type, t)
  BY <1>1, <1>3
<1>5. Neighbour(p)' = Neighbour(p)
  BY <1>4 DEF Neighbour
<1>6. /\ Latest(Scheduled(type, t)) # Null => Latest(Scheduled(type, t)) \in DOMAIN snapshot
      /\ PreviousHealthy(type, t) # Null => PreviousHealthy(type, t) \in DOMAIN snapshot
      /\ PreviousAffected(type, t) # Null => PreviousAffected(type, t) \in DOMAIN snapshot
  <2>1. Scheduled(type, t) \in SUBSET DOMAIN snapshot
    BY DEF Scheduled
  <2> QED BY <2>1, LatestAll, PredecessorsThere DEF IInv
<1>7. Previous(p)' = Previous(p)
  BY <1>1, <1>4, <1>6 DEF Previous, After, Grows
<1>8. Called(p)' = Called(p)
  BY <1>1, <1>4, <1>6 DEF Called, RequiresValidation, After, Grows
<1> QED BY <1>4, <1>5, <1>7, <1>8
------------------------------------------------------------------------------
(* Attempts and busy handlers.                                               *)

\* What a step does to the snapshots, and to the history of overlaps.
LEMMA SnapshotStep ==
    ASSUME IInv, Attempts, [Next]_vars
    PROVE  /\ overlapped \subseteq overlapped' /\ Grows
           /\ UNCHANGED snapshot \/ \E w \in Worker : Respond(w)
<1>1. CASE UNCHANGED vars
  BY <1>1 DEF vars, siteVars, recordVars, Grows
<1>2. CASE NextSlot \/ Switch \/ List \/ Admit \/ PassEnds \/ \E f \in Fetch : Schedule(f)
  BY <1>2 DEF NextSlot, Switch, List, Admit, PassEnds, Schedule, siteVars, recordVars, Grows
<1>3. CASE \E j \in PublicJob : Lose(j) \/ \E w \in Worker : Take(w, j)
  BY <1>3 DEF Lose, Take, siteVars, recordVars, Grows
<1>4. ASSUME NEW w \in Worker, Gate(w) \/ Observe(w) \/ Derive(w) \/ Look(w) \/ Ask(w) \/ Break(w) \/ Finish(w)
      PROVE  overlapped \subseteq overlapped' /\ UNCHANGED snapshot
  BY <1>4 DEF Gate, Observe, Derive, Look, Ask, Break, Finish, siteVars, recordVars
<1>5. ASSUME NEW w \in Worker, Record(w) \/ Upsert(w) \/ Conflict(w) \/ Support(w) \/ Resolve(w) \/ Ignore(w)
      PROVE  UNCHANGED <<overlapped, snapshot>>
  <2>1. Commit(w) \/ Rollback(w)
    BY <1>5 DEF Record, Upsert, Conflict, Support, Resolve, Ignore
  <2> QED BY <2>1, CommitOrRollback DEF siteVars
<1>6. ASSUME NEW w \in Worker, Respond(w)
      PROVE  UNCHANGED overlapped /\ Grows
  BY <1>6 DEF Respond, Persisted, Grows, siteVars
<1> QED BY <1>1, <1>2, <1>3, <1>4, <1>5, <1>6 DEF Next, Grows

\* The snapshot of an observation is new.
LEMMA RespondStep ==
    ASSUME IInv, Attempts, NEW w \in Worker, Respond(w)
    PROVE  /\ Key(w) \notin DOMAIN snapshot
           /\ DOMAIN snapshot' = DOMAIN snapshot \cup {Key(w)}
           /\ snapshot'[Key(w)].at = seen[w].at /\ pc[w] = "fetch" /\ job[w] # Null
           /\ \E r \in Response[TypeOfJob(job[w])] :
                 snapshot'[Key(w)] = Kept(w, Normalized(TypeOfJob(job[w]), r))
           /\ UNCHANGED <<queueVars, siteVars, event, point, heard, localVars, job>>
           /\ \E t \in {"failed", "raised", "derive"} : pc' = [pc EXCEPT ![w] = t]
<1>1. /\ UNCHANGED <<queueVars, siteVars, event, point, heard, localVars, job>>
      /\ pc[w] = "fetch"
      /\ \E t \in {"failed", "raised", "derive"} : pc' = [pc EXCEPT ![w] = t]
  BY DEF Respond, Goes
<1>2. PICK r \in Response[TypeOfJob(job[w])] :
          snapshot' = Persisted(Key(w), Kept(w, Normalized(TypeOfJob(job[w]), r)))
  BY DEF Respond
<1>3. Key(w) \notin DOMAIN snapshot
  BY <1>1 DEF Attempts
<1> DEFINE s == Kept(w, Normalized(TypeOfJob(job[w]), r))
<1>4. s.at = seen[w].at
  BY DEF Kept
<1> HIDE DEF s
<1>5. snapshot' = [l \in DOMAIN snapshot \cup {Key(w)} |-> IF l = Key(w) THEN s ELSE snapshot[l]]
  BY <1>2, <1>3 DEF Persisted, s
<1>6. DOMAIN snapshot' = DOMAIN snapshot \cup {Key(w)} /\ snapshot'[Key(w)] = s
  BY <1>5
<1>7. job[w] # Null
  BY <1>1 DEF IInv, WorkerTypeOK
<1> QED BY <1>1, <1>3, <1>4, <1>6, <1>7 DEF s

\* The steps by which a handler goes on, or ends: the queue counts no new run.
LEMMA HandlerStep ==
    ASSUME IInv, [Next]_vars
    PROVE  \/ \E w \in Worker, j \in PublicJob : Take(w, j)
           \/ /\ UNCHANGED runs
              /\ \A x \in Worker : \/ job'[x] = Null /\ pc'[x] = "idle"
                                   \/ job'[x] = job[x] /\ try'[x] = try[x]
              /\ \A x \in Worker : pc'[x] \in {"gate", "observe", "fetch"} =>
                                      pc[x] \in {"gate", "observe", "fetch"}
<1> USE DEF queueVars, handlerVars, siteVars, recordVars, localVars
<1> DEFINE early == {"gate", "observe", "fetch"}
           Goal == /\ UNCHANGED runs
                   /\ \A x \in Worker : \/ job'[x] = Null /\ pc'[x] = "idle"
                                        \/ job'[x] = job[x] /\ try'[x] = try[x]
                   /\ \A x \in Worker : pc'[x] \in early => pc[x] \in early
<1>1. CASE UNCHANGED vars
  BY <1>1 DEF vars
<1>2. CASE NextSlot \/ Switch \/ List \/ Admit \/ PassEnds
  BY <1>2 DEF NextSlot, Switch, List, Admit, PassEnds
<1>3. CASE \E f \in Fetch : Schedule(f)
  BY <1>3 DEF Schedule, Enqueue, Queue!Submit
<1>4. CASE \E j \in PublicJob : Lose(j)
  BY <1>4 DEF Lose, TakeBack, Queue!TakeBack
<1>5. ASSUME NEW w \in Worker, NEW t, UNCHANGED <<runs, job, try>>, pc' = [pc EXCEPT ![w] = t],
             t \in early => pc[w] \in early
      PROVE  Goal
  BY <1>5 DEF IInv, WorkerTypeOK
<1>6. ASSUME NEW w \in Worker, Gate(w) \/ Observe(w) \/ Respond(w)
      PROVE  Goal
  <2>1. UNCHANGED <<runs, job, try>> /\ pc[w] \in early /\ \E t : pc' = [pc EXCEPT ![w] = t]
    BY <1>6 DEF Gate, Observe, Respond, Goes
  <2> QED BY <1>5, <2>1
<1>7. ASSUME NEW w \in Worker, Derive(w) \/ Look(w) \/ Break(w)
      PROVE  Goal
  <2>1. UNCHANGED <<runs, job, try>> /\ \E t : pc' = [pc EXCEPT ![w] = t] /\ t \notin early
    BY <1>7 DEF Derive, Look, Break, Goes
  <2> QED BY <1>5, <2>1
<1>8. ASSUME NEW w \in Worker, Record(w) \/ Upsert(w) \/ Conflict(w) \/ Support(w) \/ Resolve(w) \/ Ignore(w)
      PROVE  Goal
  <2>1. Commit(w) \/ Rollback(w)
    BY <1>8 DEF Record, Upsert, Conflict, Support, Resolve, Ignore
  <2>2. UNCHANGED <<runs, job, try>> /\ \E t : pc' = [pc EXCEPT ![w] = t] /\ t \notin early
    BY <2>1, CommitOrRollback
  <2> QED BY <1>5, <2>2
<1>9. ASSUME NEW w \in Worker, Ask(w)
      PROVE  Goal
  <2>1. UNCHANGED <<runs, job, try>> /\ pc' = [pc EXCEPT ![w] = "done"]
    BY <1>9 DEF Ask, Goes, Enqueue, Queue!Submit
  <2> QED BY <1>5, <2>1
<1>10. ASSUME NEW w \in Worker, Finish(w)
       PROVE  Goal
  <2>1. /\ pc' = [pc EXCEPT ![w] = "idle"] /\ job' = [job EXCEPT ![w] = Null]
        /\ try' = [try EXCEPT ![w] = 0]
    BY <1>10 DEF Finish, Report
  <2>2. UNCHANGED runs
    BY <1>10 DEF Finish, Report, Queue!Succeed, Queue!Fail
  <2> QED BY <2>1, <2>2 DEF IInv, WorkerTypeOK, Locals
<1> QED BY <1>1, <1>2, <1>3, <1>4, <1>6, <1>7, <1>8, <1>9, <1>10 DEF Next

\* An attempt that begins is later than every one before.
LEMMA AttemptsStep ==
    ASSUME IInv, IInv', Attempts, [Next]_vars
    PROVE  Attempts'
<1>1. /\ runs \in [Job -> Nat] /\ try \in [Worker -> Int] /\ PublicJob \subseteq Job /\ Null \notin PublicJob
      /\ \A k \in DOMAIN snapshot : k[1] \in PublicJob
      /\ \A x \in Worker : job[x] # Null => job[x] \in PublicJob /\ try[x] \in Nat
      /\ \A x \in Worker : pc[x] = "idle" <=> job[x] = Null
  BY Named, ValidateJob, KeyNamed DEF IInv, WorkerTypeOK, Locals
<1>2. CASE \E w \in Worker, j \in PublicJob : Take(w, j)
  <2>1. PICK w \in Worker, j \in PublicJob : Take(w, j)
    BY <1>2
  <2>2. /\ pc[w] = "idle" /\ runs' = [runs EXCEPT ![j] = @ + 1] /\ j \in Job
        /\ pc' = [pc EXCEPT ![w] = "gate"] /\ job' = [job EXCEPT ![w] = j]
        /\ try' = [try EXCEPT ![w] = runs'[j]] /\ UNCHANGED snapshot
    BY <1>1, <2>1 DEF Take, Claim, Queue!Start, recordVars
  <2>3. /\ job'[w] = j /\ pc'[w] = "gate" /\ try'[w] = runs[j] + 1 /\ runs'[j] = runs[j] + 1
        /\ \A x \in Worker : x # w => job'[x] = job[x] /\ pc'[x] = pc[x] /\ try'[x] = try[x]
        /\ \A i \in Job : runs[i] \in Nat /\ runs[i] <= runs'[i]
    BY <1>1, <2>2 DEF IInv, WorkerTypeOK
  <2>4. \A k \in DOMAIN snapshot : k[2] <= runs'[k[1]] /\ (k[1] = j => k[2] # runs[j] + 1)
    <3>1. \A k \in DOMAIN snapshot : k[2] \in Int
      BY DEF IInv, Snapshots, Primary
    <3>2. \A k \in DOMAIN snapshot : k[1] \in Job /\ k[2] <= runs[k[1]] /\ runs[k[1]] \in Nat
      BY <1>1 DEF Attempts
    <3>3. \A i \in Job : runs'[i] \in Nat /\ runs[i] <= runs'[i]
      BY <1>1, <2>2, <2>3
    <3> QED BY <1>1, <2>3, <3>1, <3>2, <3>3
  <2>5. ASSUME NEW x \in Worker
        PROVE  /\ job'[x] # Null => try'[x] <= runs'[job'[x]]
               /\ pc'[x] \in {"gate", "observe", "fetch"} => <<job'[x], try'[x]>> \notin DOMAIN snapshot
               /\ \A y \in Worker : y # x /\ job'[x] # Null /\ job'[y] = job'[x] => try'[y] # try'[x]
    <3>1. \A y \in Worker \ {w} : job[y] # Null => try[y] <= runs[job[y]] /\ job[y] \in Job
      BY <1>1 DEF Attempts
    <3>2. CASE x = w
      BY <1>1, <2>3, <2>4, <3>1, <3>2
    <3>3. CASE x # w
      <4>1. /\ job'[x] = job[x] /\ pc'[x] = pc[x] /\ try'[x] = try[x]
            /\ \A i \in Job : runs[i] \in Nat /\ runs[i] <= runs'[i] /\ runs'[i] \in Nat
        BY <1>1, <2>2, <2>3, <3>3
      <4>2. job[x] # Null => try[x] <= runs'[job[x]]
        BY <1>1, <3>1, <3>3, <4>1
      <4>3. \A y \in Worker : y # x /\ job[x] # Null /\ job'[y] = job[x] => try'[y] # try[x]
        <5> TAKE y \in Worker
        <5>1. CASE y = w
          BY <1>1, <2>3, <3>1, <3>3, <5>1
        <5>2. CASE y # w
          BY <2>3, <5>2 DEF Attempts
        <5> QED BY <5>1, <5>2
      <4> QED BY <4>1, <4>2, <4>3 DEF Attempts, Key
    <3> QED BY <3>2, <3>3
  <2> QED BY <2>2, <2>4, <2>5 DEF Attempts, Key
<1>3. CASE ~ \E w \in Worker, j \in PublicJob : Take(w, j)
  <2>1. /\ UNCHANGED runs
        /\ \A x \in Worker : \/ job'[x] = Null /\ pc'[x] = "idle"
                             \/ job'[x] = job[x] /\ try'[x] = try[x]
        /\ \A x \in Worker : pc'[x] \in {"gate", "observe", "fetch"} =>
                                pc[x] \in {"gate", "observe", "fetch"}
    BY <1>3, HandlerStep
  <2>2. /\ \A x \in Worker : job'[x] # Null => try'[x] <= runs'[job'[x]]
        /\ \A x, y \in Worker : y # x /\ job'[x] # Null /\ job'[y] = job'[x] => try'[y] # try'[x]
    BY <2>1 DEF Attempts
  <2>3. CASE UNCHANGED snapshot
    BY <2>1, <2>2, <2>3 DEF Attempts, Key
  <2>4. ASSUME NEW w \in Worker, Respond(w)
        PROVE  Attempts'
    <3>1. /\ DOMAIN snapshot' = DOMAIN snapshot \cup {Key(w)} /\ job[w] # Null
          /\ \E t \in {"failed", "raised", "derive"} : pc' = [pc EXCEPT ![w] = t]
          /\ UNCHANGED <<job, try>>
      BY <2>4, RespondStep DEF localVars
    <3>2. Key(w) = <<job[w], try[w]>> /\ Key(w)[1] = job[w] /\ Key(w)[2] = try[w]
      BY DEF Key
    <3>3. \A k \in DOMAIN snapshot' : k[2] <= runs'[k[1]]
      BY <2>1, <3>1, <3>2 DEF Attempts
    <3>4. ASSUME NEW x \in Worker, pc'[x] \in {"gate", "observe", "fetch"}
          PROVE  Key(x)' \notin DOMAIN snapshot'
      <4>1. x # w /\ pc[x] = pc'[x] /\ job[x] # Null
        BY <1>1, <3>1, <3>4 DEF IInv, WorkerTypeOK
      <4>2. Key(x)' = Key(x) /\ Key(x) = <<job[x], try[x]>>
        BY <3>1 DEF Key
      <4>3. Key(x) # Key(w)
        BY <3>1, <3>2, <4>1, <4>2 DEF Attempts
      <4> QED BY <3>1, <3>4, <4>1, <4>2, <4>3 DEF Attempts
    <3> QED BY <2>2, <3>3, <3>4 DEF Attempts
  <2> QED BY <2>3, <2>4, SnapshotStep
<1> QED BY <1>2, <1>3

\* A busy handler was busy, about the same observation, or observes now.
LEMMA BusyStep ==
    ASSUME IInv, Attempts, [Next]_vars
    PROVE  \A x \in Worker : Busy(x)' =>
               Observe(x) \/ (Busy(x) /\ job'[x] = job[x] /\ Key(x)' = Key(x) /\ At(x)' = At(x))
<1> USE DEF queueVars, handlerVars, siteVars, recordVars, localVars
<1> DEFINE Same(x) == Busy(x) /\ job'[x] = job[x] /\ Key(x)' = Key(x) /\ At(x)' = At(x)
           Goal == \A x \in Worker : Busy(x)' => Observe(x) \/ Same(x)
<1>1. pc \in [Worker -> {"idle"} \cup Outcome \cup Place] /\ DOMAIN seen = Worker
      /\ \A x \in Worker : pc[x] \in {"derive", "look", "commit"} => Key(x) \in DOMAIN snapshot
  BY DEF IInv, WorkerTypeOK, Locals, About
<1>2. ASSUME NEW x \in Worker, pc'[x] = pc[x], job'[x] = job[x], try'[x] = try[x],
             seen'[x].at = seen[x].at, Grows, Busy(x)
      PROVE  Same(x)
  <2>1. Key(x)' = Key(x)
    BY <1>2 DEF Key
  <2>2. At(x)' = At(x)
    BY <1>1, <1>2, <2>1 DEF At, Busy, Grows
  <2> QED BY <1>2, <2>1, <2>2
<1>3. ASSUME UNCHANGED <<pc, job, try, seen, snapshot>>
      PROVE  Goal
  BY <1>2, <1>3 DEF Busy, Grows
<1>4. ASSUME NEW w \in Worker, NEW t, pc' = [pc EXCEPT ![w] = t], UNCHANGED snapshot,
             \A x \in Worker \ {w} : job'[x] = job[x] /\ try'[x] = try[x] /\ seen'[x] = seen[x],
             \/ t \notin {"fetch", "derive", "look", "commit"}
             \/ /\ t \in {"look", "commit"} /\ pc[w] \in {"derive", "look"}
                /\ job'[w] = job[w] /\ try'[w] = try[w]
      PROVE  Goal
  <2> SUFFICES ASSUME NEW x \in Worker, Busy(x)' PROVE Observe(x) \/ Same(x)
    OBVIOUS
  <2>1. CASE x = w
    <3>1. /\ t \in {"look", "commit"} /\ pc[w] \in {"derive", "look"}
          /\ job'[w] = job[w] /\ try'[w] = try[w] /\ pc'[w] = t
      BY <1>1, <1>4, <2>1 DEF Busy
    <3> QED BY <1>4, <2>1, <3>1 DEF Busy, Key, At
  <2>2. CASE x # w
    BY <1>1, <1>2, <1>4, <2>2 DEF Busy, Grows
  <2> QED BY <2>1, <2>2
<1>5. CASE UNCHANGED vars
  BY <1>3, <1>5 DEF vars
<1>6. CASE NextSlot \/ Switch \/ List \/ Admit \/ PassEnds \/ \E f \in Fetch : Schedule(f)
  BY <1>3, <1>6 DEF NextSlot, Switch, List, Admit, PassEnds, Schedule
<1>7. CASE \E j \in PublicJob : Lose(j)
  BY <1>3, <1>7 DEF Lose, TakeBack
<1>8. ASSUME NEW j \in PublicJob, NEW w \in Worker, Take(w, j)
      PROVE  Goal
  <2>1. /\ pc' = [pc EXCEPT ![w] = "gate"] /\ job' = [job EXCEPT ![w] = j]
        /\ try' = [try EXCEPT ![w] = runs'[j]] /\ UNCHANGED <<snapshot, seen>>
    BY <1>8 DEF Take, Claim
  <2>2. \A x \in Worker \ {w} : job'[x] = job[x] /\ try'[x] = try[x] /\ seen'[x] = seen[x]
    BY <2>1 DEF IInv, WorkerTypeOK, Locals
  <2> QED BY <1>4, <2>1, <2>2
<1>9. ASSUME NEW w \in Worker, Gate(w) \/ Derive(w) \/ Look(w) \/ Ask(w) \/ Break(w)
      PROVE  Goal
  <2>1. UNCHANGED <<job, try, snapshot>> /\ \A x \in Worker \ {w} : seen'[x] = seen[x]
    BY <1>1, <1>9 DEF Gate, Derive, Look, Ask, Break, Goes
  <2>2. PICK t : /\ pc' = [pc EXCEPT ![w] = t]
                 /\ \/ t \notin {"fetch", "derive", "look", "commit"}
                    \/ t \in {"look", "commit"} /\ pc[w] \in {"derive", "look"}
    BY <1>9 DEF Gate, Derive, Look, Ask, Break, Goes
  <2> QED BY <1>4, <2>1, <2>2
<1>10. ASSUME NEW w \in Worker, Record(w) \/ Upsert(w) \/ Conflict(w) \/ Support(w) \/ Resolve(w) \/ Ignore(w)
       PROVE  Goal
  <2>1. Commit(w) \/ Rollback(w)
    BY <1>10 DEF Record, Upsert, Conflict, Support, Resolve, Ignore
  <2>2. UNCHANGED <<job, try, snapshot, seen>>
    BY <2>1, CommitOrRollback
  <2>3. PICK t \in {"ask", "done", "raised", "failed"} : pc' = [pc EXCEPT ![w] = t]
    BY <2>1, CommitOrRollback
  <2> QED BY <1>4, <2>2, <2>3
<1>11. ASSUME NEW w \in Worker, Finish(w)
       PROVE  Goal
  <2>1. /\ pc' = [pc EXCEPT ![w] = "idle"] /\ job' = [job EXCEPT ![w] = Null]
        /\ try' = [try EXCEPT ![w] = 0] /\ seen' = [seen EXCEPT ![w] = Nothing] /\ UNCHANGED snapshot
    BY <1>11 DEF Finish, Report
  <2>2. \A x \in Worker \ {w} : job'[x] = job[x] /\ try'[x] = try[x] /\ seen'[x] = seen[x]
    BY <2>1 DEF IInv, WorkerTypeOK, Locals
  <2> QED BY <1>4, <2>1, <2>2
<1>12. ASSUME NEW w \in Worker, Observe(w)
       PROVE  Goal
  <2>1. /\ UNCHANGED <<job, try, snapshot>> /\ pc' = [pc EXCEPT ![w] = "fetch"]
        /\ \A x \in Worker \ {w} : seen'[x] = seen[x]
    BY <1>1, <1>12 DEF Observe, Goes
  <2> QED BY <1>1, <1>2, <1>12, <2>1 DEF Busy, Grows
<1>13. ASSUME NEW w \in Worker, Respond(w)
       PROVE  Goal
  <2>1. /\ UNCHANGED <<job, try, seen>> /\ pc[w] = "fetch" /\ snapshot'[Key(w)].at = seen[w].at
        /\ \E t \in {"failed", "raised", "derive"} : pc' = [pc EXCEPT ![w] = t]
    BY <1>13, RespondStep
  <2>2. Grows
    BY <1>13, SnapshotStep
  <2> SUFFICES ASSUME NEW x \in Worker, Busy(x)' PROVE Same(x)
    OBVIOUS
  <2>3. CASE x = w
    BY <1>1, <2>1, <2>3 DEF Busy, Key, At
  <2>4. CASE x # w
    BY <1>1, <1>2, <2>1, <2>2, <2>4 DEF Busy
  <2> QED BY <2>3, <2>4
<1> QED BY <1>5, <1>6, <1>7, <1>8, <1>9, <1>10, <1>11, <1>12, <1>13 DEF Next

\* An observation that overlaps none is the latest.
LEMMA AloneStep ==
    ASSUME IInv, IInv', Attempts, Alone, [Next]_vars
    PROVE  Alone'
<1>1. overlapped \subseteq overlapped' /\ Grows
  BY SnapshotStep
<1>2. \A x \in Worker : Busy(x)' =>
         Observe(x) \/ (Busy(x) /\ job'[x] = job[x] /\ Key(x)' = Key(x) /\ At(x)' = At(x))
  BY BusyStep
<1> SUFFICES ASSUME NEW w \in Worker, Busy(w)', Quiet(TypeOfJob(job[w]))'
             PROVE  /\ \A x \in Worker : x # w /\ Busy(x)' => TypeOfJob(job'[x]) # TypeOfJob(job'[w])
                    /\ \A k \in Seen(TypeOfJob(job[w]))' : snapshot'[k].at <= At(w)'
  BY DEF Alone
<1>3. CASE \E z \in Worker : Observe(z)
  <2>1. PICK z \in Worker : Observe(z)
    BY <1>3
  <2>2. /\ UNCHANGED <<job, try, snapshot>> /\ pc[z] = "observe" /\ pc' = [pc EXCEPT ![z] = "fetch"]
        /\ seen'[z].at = clock' /\ clock' = clock + 1
        /\ overlapped' = overlapped \cup {TypeOfJob(job[x]) : x \in {y \in Worker \ {z} :
              pc[y] \in {"fetch", "derive", "look", "commit"} /\ TypeOfJob(job[y]) = TypeOfJob(job[z])}}
    BY <2>1 DEF Observe, Goes, Reads, recordVars, IInv, Locals
  <2>3. /\ pc'[z] = "fetch" /\ ~Busy(z)
        /\ \A x \in Worker : x # z => pc'[x] = pc[x] /\ (Busy(x)' <=> Busy(x))
    BY <2>2 DEF IInv, WorkerTypeOK, Busy
  <2>4. \A x \in Worker : x # z /\ Busy(x) =>
           TypeOfJob(job[x]) # TypeOfJob(job[z]) \/ ~Quiet(TypeOfJob(job[z]))'
    BY <2>2 DEF Quiet, Busy
  <2>5. TypeOfJob(job[w])' = TypeOfJob(job[w])
    BY <2>2
  <2>6. CASE w = z
    <3>1. At(w)' = clock + 1
      BY <2>2, <2>3, <2>6 DEF At
    <3>2. \A k \in Seen(TypeOfJob(job[w]))' : snapshot'[k].at <= At(w)'
      BY <2>2, <3>1, Named DEF Seen
    <3> QED BY <2>2, <2>3, <2>4, <2>6, <3>2
  <2>7. CASE w # z
    <3>1. Busy(w) /\ Quiet(TypeOfJob(job[w]))
      BY <1>1, <2>2, <2>3, <2>7 DEF Quiet
    <3>2. At(w)' = At(w)
      <4>1. ~Observe(w)
        BY <3>1 DEF Observe, Goes, Busy
      <4> QED BY <1>2, <4>1
    <3>3. \A x \in Worker : x # w /\ Busy(x)' => TypeOfJob(job'[x]) # TypeOfJob(job'[w])
      BY <2>2, <2>3, <2>4, <2>7, <3>1 DEF Alone
    <3>4. \A k \in Seen(TypeOfJob(job[w]))' : snapshot'[k].at <= At(w)'
      BY <2>2, <3>1, <3>2 DEF Alone, Seen
    <3> QED BY <3>3, <3>4
  <2> QED BY <2>6, <2>7
<1>4. CASE ~ \E z \in Worker : Observe(z)
  <2>1. \A x \in Worker : Busy(x)' => Busy(x) /\ job'[x] = job[x] /\ At(x)' = At(x)
    BY <1>2, <1>4
  <2>2. Quiet(TypeOfJob(job[w])) /\ TypeOfJob(job[w])' = TypeOfJob(job[w])
    BY <1>1, <2>1 DEF Quiet, TypeOfJob
  <2>3. \A x \in Worker : x # w /\ Busy(x)' => TypeOfJob(job'[x]) # TypeOfJob(job'[w])
    BY <2>1, <2>2 DEF Alone
  <2>4. \A k \in Seen(TypeOfJob(job[w])) : snapshot[k].at <= At(w)
    BY <2>1, <2>2 DEF Alone
  <2>5. ASSUME NEW k \in DOMAIN snapshot', TypeOfJob(k[1]) = TypeOfJob(job[w])
        PROVE  snapshot'[k].at <= At(w)'
    <3>1. CASE k \in DOMAIN snapshot
      BY <1>1, <2>1, <2>4, <2>5, <3>1 DEF Grows, Seen
    <3>2. CASE k \notin DOMAIN snapshot
      <4>1. PICK z \in Worker : Respond(z)
        BY <3>2, SnapshotStep
      <4>2. /\ k = Key(z) /\ k[1] = job[z] /\ snapshot'[k].at = seen[z].at /\ pc[z] = "fetch"
        <5>1. /\ DOMAIN snapshot' = DOMAIN snapshot \cup {Key(z)} /\ job[z] # Null
              /\ snapshot'[Key(z)].at = seen[z].at /\ pc[z] = "fetch"
          BY <4>1, RespondStep
        <5>2. Key(z)[1] = job[z]
          BY <5>1, KeyNamed
        <5> QED BY <3>2, <5>1, <5>2
      <4>3. z = w
        BY <2>1, <2>2, <2>5, <4>2 DEF Alone, Busy
      <4>4. snapshot'[k].at = At(w)'
        BY <2>1, <4>2, <4>3 DEF At
      <4>5. seen[w].at \in Int
        BY DEF IInv, Locals
      <4> QED BY <4>2, <4>3, <4>4, <4>5
    <3> QED BY <3>1, <3>2
  <2> QED BY <2>2, <2>3, <2>5 DEF Seen
<1> QED BY <1>3, <1>4

\* Of a quiet file, a snapshot that is added is later than all of the file.
LEMMA AddedLater ==
    ASSUME IInv, Attempts, Alone, [Next]_vars, NEW k \in DOMAIN snapshot' \ DOMAIN snapshot,
           Quiet(TypeOfJob(k[1]))
    PROVE  \A l \in Seen(TypeOfJob(k[1])) : snapshot'[k].at > snapshot[l].at
<1>1. PICK w \in Worker : Respond(w)
  BY SnapshotStep
<1>2. /\ DOMAIN snapshot' = DOMAIN snapshot \cup {Key(w)} /\ job[w] # Null
      /\ snapshot'[Key(w)].at = seen[w].at /\ pc[w] = "fetch"
  BY <1>1, RespondStep
<1>3. k = Key(w) /\ Key(w)[1] = job[w]
  BY <1>2, KeyNamed
<1>4. \A l \in Seen(TypeOfJob(job[w])) : snapshot[l].at <= seen[w].at
  BY <1>2, <1>3 DEF Alone, Busy, At
<1>5. \A l \in DOMAIN snapshot : snapshot[l].at # seen[w].at
  BY <1>2 DEF IInv, Behind
<1>6. \A l \in Seen(TypeOfJob(job[w])) : l \in DOMAIN snapshot /\ snapshot[l].at \in Nat
  BY Named DEF Seen
<1>7. seen[w].at \in Int
  BY DEF IInv, Locals
<1> QED BY <1>2, <1>3, <1>4, <1>5, <1>6, <1>7

\* So the past of its snapshots stays.
LEMMA QuietStays ==
    ASSUME IInv, IInv', Attempts, Alone, [Next]_vars, NEW p \in DOMAIN snapshot, p \in Primary,
           Quiet(TypeOf[p[1]])'
    PROVE  /\ Quiet(TypeOf[p[1]]) /\ snapshot'[p] = snapshot[p]
           /\ Scheduled(TypeOf[p[1]], snapshot[p].at)' = Scheduled(TypeOf[p[1]], snapshot[p].at)
           /\ Neighbour(p)' = Neighbour(p)
           /\ Previous(p)' = Previous(p)
           /\ Called(p)' = Called(p)
<1>1. Grows /\ Quiet(TypeOf[p[1]])
  BY SnapshotStep DEF Quiet
<1>2. ASSUME NEW k \in DOMAIN snapshot' \ DOMAIN snapshot, k \in Primary, TypeOf[k[1]] = TypeOf[p[1]]
      PROVE  snapshot'[k].at > snapshot[p].at
  <2>1. TypeOfJob(k[1]) = TypeOf[p[1]] /\ p \in Seen(TypeOf[p[1]])
    BY <1>2, Typing DEF Seen
  <2> QED BY <1>1, <2>1, AddedLater
<1> QED BY <1>1, <1>2, PredecessorsStay DEF Grows

\* What a derivation is about.
LEMMA ValueIs ==
    ASSUME IInv, NEW w \in Worker, pc[w] \in {"derive", "look", "commit"}
    PROVE  LET p == IF job[w] \in Fetch THEN Key(w) ELSE job[w][2] IN
           /\ p \in DOMAIN snapshot /\ p \in Primary /\ TypeOf[p[1]] = TypeOfJob(job[w])
           /\ pc[w] # "derive" => value[w].primary = p
           /\ job[w] \in PublicJob /\ job[w] # Null
           /\ Key(w) \in DOMAIN snapshot /\ Key(w) \in Seen(TypeOfJob(job[w]))
<1>1. job[w] # Null
  BY DEF IInv, WorkerTypeOK
<1>2. job[w] \in PublicJob /\ Key(w)[1] = job[w] /\ (job[w] \in Fetch => Key(w) \in Primary)
  BY <1>1, KeyNamed
<1>3. Key(w) \in DOMAIN snapshot /\ Key(w) \in Seen(TypeOfJob(job[w]))
  BY <1>2 DEF IInv, About, Seen
<1>4. CASE job[w] \in Fetch
  BY <1>1, <1>2, <1>3, <1>4, Typing DEF IInv, About
<1>5. CASE job[w] \in Validate
  BY <1>1, <1>2, <1>3, <1>5, Typing, PrimaryThere DEF IInv, About
<1> QED BY <1>2, <1>4, <1>5 DEF PublicJob

\* ads.txt has no rule that blocks.
LEMMA AdsOpenStep ==
    ASSUME IInv, Attempts, AdsOpen, [Next]_vars
    PROVE  AdsOpen'
<1>1. Grows
  BY SnapshotStep
<1>2. ASSUME NEW k \in DOMAIN snapshot' \ DOMAIN snapshot, TypeOfJob(k[1]) = "ADS_TXT"
      PROVE  ~snapshot'[k].broad
  <2>1. PICK w \in Worker : Respond(w)
    BY <1>2, SnapshotStep
  <2>2. /\ DOMAIN snapshot' = DOMAIN snapshot \cup {Key(w)} /\ job[w] # Null
        /\ \E r \in Response[TypeOfJob(job[w])] :
              snapshot'[Key(w)] = Kept(w, Normalized(TypeOfJob(job[w]), r))
    BY <2>1, RespondStep
  <2>3. k = Key(w) /\ TypeOfJob(job[w]) = "ADS_TXT"
    BY <1>2, <2>2, KeyNamed
  <2>4. \A r : Normalized("ADS_TXT", r).broad = FALSE
    BY DEF Normalized
  <2> QED BY <2>2, <2>3, <2>4 DEF Kept
<1> QED BY <1>1, <1>2 DEF AdsOpen, Seen, Grows

\* The predecessor that derive takes is a scheduled snapshot from before.
LEMMA PreviousBefore ==
    ASSUME IInv, NEW p \in DOMAIN snapshot
    PROVE  Previous(p) # Null => Previous(p) \in Scheduled(TypeOf[p[1]], snapshot[p].at)
<1> DEFINE S == Scheduled(TypeOf[p[1]], snapshot[p].at)
           C == {q \in S : snapshot[q].status \in Condition}
<1>1. S \in SUBSET DOMAIN snapshot /\ C \in SUBSET DOMAIN snapshot
  BY DEF Scheduled
<1>2. Latest(S) # Null => Latest(S) \in S
  BY <1>1, LatestAll
<1>3. Latest(C) # Null => Latest(C) \in C
  BY <1>1, LatestAll
<1>4. PreviousAffected(TypeOf[p[1]], snapshot[p].at) \in {Null, Latest(C)}
  BY DEF PreviousAffected
<1>5. Previous(p) \in {Latest(S), PreviousAffected(TypeOf[p[1]], snapshot[p].at)}
  BY DEF Previous
<1> QED BY <1>2, <1>3, <1>4, <1>5
------------------------------------------------------------------------------
(* What derivations read, and which validations there are.                   *)

Commits(w) == Record(w) \/ Upsert(w) \/ Conflict(w) \/ Support(w) \/ Resolve(w) \/ Ignore(w)
Acts(w) ==
    \/ \E j \in PublicJob : Take(w, j)
    \/ Gate(w) \/ Observe(w) \/ Respond(w) \/ Derive(w) \/ Look(w) \/ Commits(w)
    \/ Ask(w) \/ Break(w) \/ Finish(w)

\* A handler that does not move keeps what it has.
LEMMA OthersStay ==
    ASSUME IInv, [Next]_vars, NEW x \in Worker
    PROVE  \/ Acts(x)
           \/ pc'[x] = pc[x] /\ job'[x] = job[x] /\ value'[x] = value[x] /\ found'[x] = found[x]
<1> USE DEF handlerVars, localVars
<1> DEFINE Same == pc'[x] = pc[x] /\ job'[x] = job[x] /\ value'[x] = value[x] /\ found'[x] = found[x]
<1>1. /\ pc \in [Worker -> {"idle"} \cup Outcome \cup Place] /\ job \in [Worker -> Job \cup {Null}]
      /\ DOMAIN value = Worker /\ DOMAIN found = Worker
  BY DEF IInv, WorkerTypeOK, Locals, Locks
<1>2. CASE UNCHANGED vars
  BY <1>2 DEF vars
<1>3. CASE NextSlot \/ Switch \/ List \/ Admit \/ PassEnds \/ \E f \in Fetch : Schedule(f)
  BY <1>3 DEF NextSlot, Switch, List, Admit, PassEnds, Schedule
<1>4. CASE \E j \in PublicJob : Lose(j)
  BY <1>4 DEF Lose, TakeBack
<1>6. ASSUME NEW j \in PublicJob, NEW w \in Worker, Take(w, j)
      PROVE  Acts(x) \/ Same
  BY <1>1, <1>6 DEF Take, Claim, Acts
<1>7. ASSUME NEW w \in Worker, w # x,
             Gate(w) \/ Observe(w) \/ Respond(w) \/ Derive(w) \/ Look(w) \/ Ask(w) \/ Break(w)
      PROVE  Same
  <2>1. /\ job' = job /\ \E t : pc' = [pc EXCEPT ![w] = t]
        /\ value' = value \/ \E v : value' = [value EXCEPT ![w] = v]
        /\ found' = found \/ \E f : found' = [found EXCEPT ![w] = f]
    BY <1>7 DEF Gate, Observe, Respond, Derive, Look, Ask, Break, Goes
  <2>2. pc'[x] = pc[x] /\ job'[x] = job[x]
    BY <1>1, <1>7, <2>1
  <2>3. value'[x] = value[x] /\ found'[x] = found[x]
    BY <1>1, <1>7, <2>1
  <2> QED BY <2>2, <2>3
<1>8. ASSUME NEW w \in Worker, w # x, Commits(w)
      PROVE  Same
  <2>1. Commit(w) \/ Rollback(w)
    BY <1>8 DEF Commits, Record, Upsert, Conflict, Support, Resolve, Ignore
  <2>2. /\ job' = job /\ value' = [value EXCEPT ![w] = NoValue] /\ found' = [found EXCEPT ![w] = {}]
        /\ \E t : pc' = [pc EXCEPT ![w] = t]
    BY <2>1, CommitOrRollback
  <2> QED BY <1>1, <1>8, <2>2
<1>9. ASSUME NEW w \in Worker, w # x, Finish(w)
      PROVE  Same
  <2>1. /\ pc' = [pc EXCEPT ![w] = "idle"] /\ job' = [job EXCEPT ![w] = Null]
        /\ value' = value /\ found' = found
    BY <1>9 DEF Finish, Report
  <2> QED BY <1>1, <1>9, <2>1
<1>10. ASSUME NEW w \in Worker, Acts(w)
       PROVE  Acts(x) \/ Same
  BY <1>6, <1>7, <1>8, <1>9, <1>10 DEF Acts
<1>11. CASE \E w \in Worker : Acts(w)
  BY <1>10, <1>11
<1>12. ASSUME Next
       PROVE  \/ NextSlot \/ Switch \/ List \/ Admit \/ PassEnds \/ \E f \in Fetch : Schedule(f)
              \/ \E j \in PublicJob : Lose(j)
              \/ \E w \in Worker : Acts(w)
  BY <1>12 DEF Next, Acts, Commits
<1> QED BY <1>2, <1>3, <1>4, <1>11, <1>12

\* A derivation that is to be persisted was read now or before.
LEMMA ValueStep ==
    ASSUME IInv, Attempts, [Next]_vars, NEW w \in Worker, pc'[w] \in {"look", "commit"}
    PROVE  \/ Derive(w) /\ pc'[w] = "look"
           \/ Look(w) /\ pc'[w] = "commit" /\ value'[w] = value[w] /\ job'[w] = job[w] /\ pc[w] = "look"
           \/ pc'[w] = pc[w] /\ value'[w] = value[w] /\ job'[w] = job[w] /\ found'[w] = found[w]
<1>1. pc \in [Worker -> {"idle"} \cup Outcome \cup Place]
  BY DEF IInv, WorkerTypeOK
<1>2. CASE Derive(w) \/ Look(w)
  BY <1>1, <1>2 DEF Derive, Look, Goes
<1>3. CASE (\E j \in PublicJob : Take(w, j)) \/ Gate(w) \/ Observe(w) \/ Respond(w) \/ Ask(w) \/ Break(w)
  BY <1>1, <1>3 DEF Take, Claim, Gate, Observe, Respond, Ask, Break, Goes
<1>4. CASE Commits(w)
  <2>1. Commit(w) \/ Rollback(w)
    BY <1>4 DEF Commits, Record, Upsert, Conflict, Support, Resolve, Ignore
  <2>2. \E t \in {"ask", "done", "raised", "failed"} : pc' = [pc EXCEPT ![w] = t]
    BY <2>1, CommitOrRollback
  <2> QED BY <1>1, <2>2
<1>5. CASE Finish(w)
  BY <1>1, <1>5 DEF Finish, Report
<1> QED BY <1>2, <1>3, <1>4, <1>5, OthersStay DEF Acts

LEMMA ReadStep ==
    ASSUME IInv, IInv', Attempts, Alone, Read, [Next]_vars
    PROVE  Read'
<1> SUFFICES ASSUME NEW w \in Worker, pc'[w] \in {"look", "commit"}, NEW p, p = value'[w].primary
             PROVE  LET q == value'[w].previous IN
                    /\ q # Null => q \in Scheduled(TypeOf[p[1]], snapshot[p].at)'
                    /\ Quiet(TypeOf[p[1]])' => q = Previous(p)'
  BY DEF Read
<1>1. Grows
  BY SnapshotStep
<1>2. ASSUME NEW r \in DOMAIN snapshot
      PROVE  Scheduled(TypeOf[r[1]], snapshot[r].at) \subseteq Scheduled(TypeOf[r[1]], snapshot[r].at)'
  BY <1>1, <1>2 DEF Scheduled, Grows
<1>3. CASE Derive(w)
  <2>1. /\ pc[w] = "derive"
        /\ LET i == IF job[w] \in Fetch THEN Key(w) ELSE job[w][2] IN
           value'[w].previous = Previous(i) /\ value'[w].primary = i
    BY <1>3 DEF Derive, Goes, IInv, Locals
  <2>2. p \in DOMAIN snapshot /\ p \in Primary /\ value'[w].previous = Previous(p)
    BY <2>1, ValueIs
  <2>3. Previous(p) # Null => Previous(p) \in Scheduled(TypeOf[p[1]], snapshot[p].at)'
    BY <1>2, <2>2, PreviousBefore
  <2>4. Quiet(TypeOf[p[1]])' => Previous(p)' = Previous(p)
    BY <2>2, QuietStays
  <2> QED BY <2>1, <2>3, <2>4
<1>4. CASE pc[w] \in {"look", "commit"} /\ value'[w] = value[w]
  <2>1. p = value[w].primary /\ p \in DOMAIN snapshot /\ p \in Primary
    BY <1>4, ValueIs
  <2>2. /\ value[w].previous # Null => value[w].previous \in Scheduled(TypeOf[p[1]], snapshot[p].at)
        /\ Quiet(TypeOf[p[1]]) => value[w].previous = Previous(p)
    BY <1>4, <2>1 DEF Read
  <2>3. value[w].previous # Null => value[w].previous \in Scheduled(TypeOf[p[1]], snapshot[p].at)'
    BY <1>2, <2>1, <2>2
  <2>4. Quiet(TypeOf[p[1]])' => Quiet(TypeOf[p[1]]) /\ Previous(p)' = Previous(p)
    BY <2>1, QuietStays
  <2> QED BY <1>4, <2>2, <2>3, <2>4
<1> QED BY <1>3, <1>4, ValueStep

\* A validation goes on when its primary called for it.
LEMMA CalledForStep ==
    ASSUME IInv, IInv', Attempts, Alone, CalledFor, [Next]_vars
    PROVE  CalledFor'
<1>1. Grows
  BY SnapshotStep
<1>2. ASSUME NEW p \in DOMAIN snapshot, p \in Primary, Quiet(TypeOf[p[1]])'
      PROVE  Quiet(TypeOf[p[1]]) /\ Called(p)' = Called(p)
  BY <1>2, QuietStays
<1>3. ASSUME NEW k \in DOMAIN snapshot', k[1] \in Validate, Quiet(TypeOfJob(k[1]))'
      PROVE  Called(k[1][2])'
  <2>1. TypeOfJob(k[1]) = TypeOf[k[1][2][1]] /\ TypeOfJob(k[1])' = TypeOfJob(k[1])
    BY <1>3, Typing DEF TypeOfJob
  <2>2. CASE k \in DOMAIN snapshot
    <3>1. k[1][2] \in DOMAIN snapshot /\ k[1][2] \in Primary
      BY <1>3, <2>2, Named
    <3> QED BY <1>2, <1>3, <2>1, <2>2, <3>1 DEF CalledFor, Quiet
  <2>3. CASE k \notin DOMAIN snapshot
    <3>1. PICK w \in Worker : Respond(w)
      BY <2>3, SnapshotStep
    <3>2. k[1] = job[w] /\ pc[w] = "fetch"
      <4>1. DOMAIN snapshot' = DOMAIN snapshot \cup {Key(w)} /\ job[w] # Null /\ pc[w] = "fetch"
        BY <3>1, RespondStep
      <4>2. Key(w)[1] = job[w]
        BY <4>1, KeyNamed
      <4> QED BY <2>3, <4>1, <4>2
    <3>3. job[w][2] \in DOMAIN snapshot /\ job[w][2] \in Primary
      BY <1>3, <3>2, PrimaryThere
    <3> QED BY <1>2, <1>3, <2>1, <3>2, <3>3 DEF CalledFor, Quiet
  <2> QED BY <2>2, <2>3
<1>4. ASSUME NEW w \in Worker, pc'[w] \in {"observe", "fetch"}, job'[w] \in Validate,
             Quiet(TypeOfJob(job[w]))'
      PROVE  Called(job[w][2])'
  <2>1. pc \in [Worker -> {"idle"} \cup Outcome \cup Place]
    BY DEF IInv, WorkerTypeOK
  <2>2. job'[w] = job[w] /\ (pc[w] \in {"observe", "fetch"} \/ Gate(w))
    <3>1. CASE Observe(w) \/ Gate(w)
      BY <3>1 DEF Observe, Gate, Goes
    <3>2. CASE (\E j \in PublicJob : Take(w, j)) \/ Respond(w) \/ Ask(w) \/ Break(w) \/ Derive(w) \/ Look(w)
      BY <1>4, <2>1, <3>2 DEF Take, Claim, Respond, Ask, Break, Derive, Look, Goes
    <3>3. CASE Commits(w)
      <4>1. Commit(w) \/ Rollback(w)
        BY <3>3 DEF Commits, Record, Upsert, Conflict, Support, Resolve, Ignore
      <4>2. \E t \in {"ask", "done", "raised", "failed"} : pc' = [pc EXCEPT ![w] = t]
        BY <4>1, CommitOrRollback
      <4> QED BY <1>4, <2>1, <4>2
    <3>4. CASE Finish(w)
      BY <1>4, <2>1, <3>4 DEF Finish, Report
    <3> QED BY <1>4, <3>1, <3>2, <3>3, <3>4, OthersStay DEF Acts
  <2> PICK p : p = job[w][2]
    OBVIOUS
  <2>3. p \in DOMAIN snapshot /\ p \in Primary /\ TypeOfJob(job[w]) = TypeOf[p[1]]
        /\ TypeOfJob(job[w])' = TypeOfJob(job[w]) /\ job[w] \in Validate
    BY <1>4, <2>2, PrimaryThere, Typing DEF TypeOfJob
  <2>4. Quiet(TypeOf[p[1]])'
    BY <1>4, <2>3 DEF Quiet
  <2>5. Called(p)
    <3>1. CASE pc[w] \in {"observe", "fetch"}
      BY <1>2, <2>3, <2>4, <3>1 DEF CalledFor
    <3>2. CASE Gate(w)
      <4>1. Eligible(job[w])
        BY <1>4, <2>1, <3>2 DEF Gate, Goes
      <4> QED BY <2>3, <4>1 DEF Eligible, Called
    <3> QED BY <2>2, <3>1, <3>2
  <2>6. Called(p)'
    BY <1>2, <2>3, <2>4, <2>5
  <2>8. job'[w][2] = p
    BY <2>2
  <2> QED BY <2>6, <2>8
<1> QED BY <1>3, <1>4 DEF CalledFor
------------------------------------------------------------------------------
(* Point events.                                                             *)

\* Only a transaction that commits changes events.
LEMMA RecordsStep ==
    ASSUME IInv, [Next]_vars
    PROVE  \/ UNCHANGED <<event, point, heard>>
           \/ \E w \in Worker : Commits(w) /\ Commit(w)
<1> USE DEF recordVars
<1>1. CASE UNCHANGED vars
  BY <1>1 DEF vars
<1>2. CASE NextSlot \/ Switch \/ List \/ Admit \/ PassEnds \/ \E f \in Fetch : Schedule(f)
  BY <1>2 DEF NextSlot, Switch, List, Admit, PassEnds, Schedule
<1>3. CASE \E j \in PublicJob : Lose(j) \/ \E w \in Worker : Take(w, j)
  BY <1>3 DEF Lose, Take
<1>4. ASSUME NEW w \in Worker,
             Gate(w) \/ Observe(w) \/ Respond(w) \/ Derive(w) \/ Look(w) \/ Ask(w) \/ Break(w) \/ Finish(w)
      PROVE  UNCHANGED <<event, point, heard>>
  BY <1>4 DEF Gate, Observe, Respond, Derive, Look, Ask, Break, Finish
<1>5. ASSUME NEW w \in Worker, Commits(w)
      PROVE  UNCHANGED <<event, point, heard>> \/ (Commits(w) /\ Commit(w))
  <2>1. Commit(w) \/ Rollback(w)
    BY <1>5 DEF Commits, Record, Upsert, Conflict, Support, Resolve, Ignore
  <2> QED BY <1>5, <2>1 DEF Rollback
<1> QED BY <1>1, <1>2, <1>3, <1>4, <1>5 DEF Next, Commits

\* What all transactions that commit share.
LEMMA CommitIs ==
    ASSUME IInv, NEW w \in Worker, Commit(w)
    PROVE  LET v == value[w]
               p == PrimaryOf(Key(w))
           IN /\ pc[w] = "commit" /\ UNCHANGED <<snapshot, overlapped, job, try>>
              /\ heard' = heard \cup {Key(w)} /\ Key(w) \in Seen(TypeOfJob(job[w]))
              /\ Key(w)[1] = job[w] /\ job[w] \in PublicJob /\ Key(w) # Null
              /\ v.primary = p /\ p \in DOMAIN snapshot /\ p \in Primary
              /\ TypeOf[p[1]] = TypeOfJob(job[w])
              /\ v.validation = (IF job[w] \in Fetch THEN Null ELSE Key(w))
              /\ v.previous \in DOMAIN snapshot \cup {Null}
<1>1. pc[w] = "commit" /\ UNCHANGED <<snapshot, overlapped, job, try>>
  BY CommitOrRollback DEF Commit, siteVars
<1>2. Key(w)[1] = job[w] /\ job[w] \in PublicJob /\ Key(w) # Null /\ (job[w] \in Fetch => Key(w) \in Primary)
  BY <1>1, KeyNamed DEF IInv, WorkerTypeOK
<1>3. value[w].primary = PrimaryOf(Key(w))
      /\ value[w].validation = (IF job[w] \in Fetch THEN Null ELSE Key(w))
      /\ value[w].previous \in DOMAIN snapshot \cup {Null}
  BY <1>1, <1>2 DEF IInv, About, PrimaryOf
<1>4. /\ PrimaryOf(Key(w)) \in DOMAIN snapshot /\ PrimaryOf(Key(w)) \in Primary
      /\ TypeOf[PrimaryOf(Key(w))[1]] = TypeOfJob(job[w])
      /\ Key(w) \in Seen(TypeOfJob(job[w]))
  BY <1>1, <1>2, ValueIs DEF PrimaryOf
<1>5. heard' = heard \cup {Key(w)}
  BY <1>2, <1>3 DEF Commit, PrimaryOf
<1> QED BY <1>1, <1>2, <1>3, <1>4, <1>5

\* The snapshot before p, if any, and what the latest healthy one has to do with it.
LEMMA NeighbourIs ==
    ASSUME IInv, NEW p \in DOMAIN snapshot
    PROVE  LET S == Scheduled(TypeOf[p[1]], snapshot[p].at)
               b == Neighbour(p)
               healthy == PreviousHealthy(TypeOf[p[1]], snapshot[p].at)
               affected == PreviousAffected(TypeOf[p[1]], snapshot[p].at)
           IN /\ b # Null => b \in S /\ \A q \in S : snapshot[q].at <= snapshot[b].at
              /\ b = Null => S = {}
              /\ healthy # Null => healthy \in S /\ snapshot[healthy].status \in Healthy
              /\ affected # Null => affected \in S /\ snapshot[affected].status \in Condition
              /\ b # Null /\ snapshot[b].status \in Healthy => healthy = b
              /\ \A q \in S : snapshot[q].status \in Healthy =>
                    healthy # Null /\ snapshot[q].at <= snapshot[healthy].at
              /\ TypeOf[p[1]] = "ADS_TXT" => \A q \in S : snapshot[q].status \in Condition =>
                    affected # Null /\ snapshot[q].at <= snapshot[affected].at
<1> DEFINE S == Scheduled(TypeOf[p[1]], snapshot[p].at)
           H == {q \in S : snapshot[q].status \in Healthy}
           C == {q \in S : snapshot[q].status \in Condition}
           b == Neighbour(p)
           healthy == PreviousHealthy(TypeOf[p[1]], snapshot[p].at)
           affected == PreviousAffected(TypeOf[p[1]], snapshot[p].at)
<1>1. S \in SUBSET DOMAIN snapshot /\ H \in SUBSET DOMAIN snapshot /\ C \in SUBSET DOMAIN snapshot
  BY DEF Scheduled
<1>2. b = Latest(S) /\ healthy = Latest(H)
      /\ affected = (IF TypeOf[p[1]] = "ROBOTS_TXT" THEN Null ELSE Latest(C))
  BY DEF Neighbour, PreviousHealthy, PreviousAffected
<1>3. \A q \in S : q # Null
  BY <1>1, Named
<1>4. /\ b # Null => b \in S /\ \A q \in S : snapshot[q].at <= snapshot[b].at
      /\ b = Null => S = {}
  BY <1>1, <1>2, <1>3, LatestAll
<1>5. /\ healthy # Null => healthy \in H /\ \A q \in H : snapshot[q].at <= snapshot[healthy].at
      /\ healthy = Null => H = {}
  BY <1>1, <1>2, <1>3, LatestAll
<1>6. /\ affected # Null => affected \in C /\ \A q \in C : snapshot[q].at <= snapshot[affected].at
      /\ affected = Null /\ TypeOf[p[1]] = "ADS_TXT" => C = {}
  BY <1>1, <1>2, <1>3, LatestAll
<1> HIDE DEF S, b, healthy, affected
<1>7. ASSUME b # Null, snapshot[b].status \in Healthy
      PROVE  healthy = b
  <2>1. b \in H /\ healthy \in H /\ snapshot[b].at <= snapshot[healthy].at
        /\ snapshot[healthy].at <= snapshot[b].at
    BY <1>4, <1>5, <1>7
  <2>2. snapshot[b].at \in Nat /\ snapshot[healthy].at \in Nat
        /\ b \in DOMAIN snapshot /\ healthy \in DOMAIN snapshot
    BY <1>1, <2>1, Named
  <2>3. snapshot[b].at = snapshot[healthy].at
    BY <2>1, <2>2
  <2> QED BY <2>2, <2>3, Named
<1> QED BY <1>4, <1>5, <1>6, <1>7 DEF S, b, healthy, affected

\* When derive takes another predecessor than the last, the last tells nothing.
LEMMA PreviousOrNeighbour ==
    ASSUME IInv, NEW p \in DOMAIN snapshot
    PROVE  \/ Previous(p) = Neighbour(p)
           \/ /\ TypeOf[p[1]] = "ADS_TXT" /\ snapshot[p].status \in Healthy
              /\ Previous(p) \in DOMAIN snapshot /\ snapshot[Previous(p)].status \in Condition
              /\ Neighbour(p) # Null => ~Usable(Neighbour(p))
<1> DEFINE b == Neighbour(p)
           type == TypeOf[p[1]]
           healthy == PreviousHealthy(type, snapshot[p].at)
           affected == PreviousAffected(type, snapshot[p].at)
           S == Scheduled(type, snapshot[p].at)
<1>1. b = Latest(S)
  BY DEF Neighbour
<1>2. CASE /\ type = "ADS_TXT" /\ snapshot[p].status \in Healthy
           /\ b = Null \/ snapshot[b].status \notin Condition
           /\ After(affected, healthy)
  <2>1. Previous(p) = affected
    BY <1>1, <1>2 DEF Previous
  <2>2. affected # Null /\ (healthy = Null \/ snapshot[affected].at > snapshot[healthy].at)
    BY <1>2 DEF After
  <2>3. affected \in S /\ snapshot[affected].status \in Condition
    BY <2>2, NeighbourIs
  <2>4. affected \in DOMAIN snapshot
    BY <2>3 DEF Scheduled
  <2>5. ASSUME b # Null, snapshot[b].status \in Healthy
        PROVE  FALSE
    <3>1. b = healthy /\ b \in S /\ snapshot[affected].at <= snapshot[b].at
      BY <2>3, <2>5, NeighbourIs
    <3>2. snapshot[affected].at \in Nat /\ snapshot[b].at \in Nat
      BY <2>4, <3>1, Named DEF Scheduled
    <3> QED BY <2>2, <2>5, <3>1, <3>2
  <2> QED BY <1>2, <2>1, <2>3, <2>4, <2>5 DEF Usable
<1>3. CASE ~ (/\ type = "ADS_TXT" /\ snapshot[p].status \in Healthy
              /\ b = Null \/ snapshot[b].status \notin Condition
              /\ After(affected, healthy))
  BY <1>1, <1>3 DEF Previous
<1> QED BY <1>2, <1>3

\* What a derivation of a quiet file tells is the change between two neighbours.
LEMMA TellsChange ==
    ASSUME IInv, AdsOpen, Read, NEW w \in Worker, pc[w] = "commit",
           Quiet(TypeOfJob(job[w]))
    PROVE  LET v == value[w]
               b == Neighbour(v.primary)
           IN /\ Tells(v) \in Point => v.previous = b /\ Tells(v) = Kind(b, v.primary)
              /\ b # Null /\ Kind(b, v.primary) # "NOTHING"
                 /\ (Kind(b, v.primary) = "BROAD_BLOCK_ADDED" => Agrees(v.primary, v.validation))
                 => Tells(v) = Kind(b, v.primary) /\ Tells(v) \in Point
<1> DEFINE v == value[w]
<1> PICK p : p = v.primary
  OBVIOUS
<1> PICK b : b = Neighbour(p)
  OBVIOUS
<1>1. p \in DOMAIN snapshot /\ p \in Primary /\ TypeOf[p[1]] = TypeOfJob(job[w])
  BY ValueIs
<1>2. v.previous = Previous(p)
  BY <1>1 DEF Read
<1>3. b # Null => b \in Scheduled(TypeOf[p[1]], snapshot[p].at)
  BY <1>1, NeighbourIs
<1>4. b # Null => b \in DOMAIN snapshot /\ snapshot[b].broad \in BOOLEAN
                  /\ b \in Seen(TypeOf[p[1]])
  BY <1>3, Typing DEF Scheduled, Seen, IInv, Snapshots
<1>5. snapshot[p].broad \in BOOLEAN /\ p \in Seen(TypeOf[p[1]])
  BY <1>1, Typing DEF Seen, IInv, Snapshots
<1>6. Previous(p) # Null => Previous(p) \in DOMAIN snapshot
  BY PreviousThere DEF IInv
<1> DEFINE agrees == Agrees(p, v.validation)
<1> HIDE DEF agrees
<1>7. Healthy \cap Condition = {} /\ Point \cap {"NOTHING", "SUPPORT", "UPSERT", "RESOLVE"} = {}
  BY DEF Healthy, Condition, Point
<1>8. Tells(v) = IF v.previous = Null THEN "NOTHING"
                 ELSE IF TypeOf[p[1]] = "ROBOTS_TXT"
                 THEN RobotsTells(snapshot[v.previous], snapshot[p], agrees)
                 ELSE AdsTells(snapshot[v.previous], snapshot[p], agrees)
  BY DEF Tells, agrees
<1> DEFINE told == Tells(v)
<1> HIDE DEF told
<1>9. /\ told \in Point => v.previous = b /\ told = Kind(b, p)
      /\ b # Null /\ Kind(b, p) # "NOTHING" /\ (Kind(b, p) = "BROAD_BLOCK_ADDED" => agrees)
         => told = Kind(b, p) /\ told \in Point
  <2>1. CASE v.previous = b /\ b = Null
    BY SMTT(60), <1>7, <1>8, <2>1 DEF told
  <2>2. CASE v.previous = b /\ b # Null /\ TypeOf[p[1]] = "ROBOTS_TXT"
    <3>1. told = RobotsTells(snapshot[b], snapshot[p], agrees)
      BY SMTT(60), <1>8, <2>2 DEF told
    <3> QED BY <1>4, <1>5, <1>7, <2>2, <3>1 DEF RobotsTells, Kind, Point
  <2>3. CASE v.previous = b /\ b # Null /\ TypeOf[p[1]] # "ROBOTS_TXT"
    <3>1. told = AdsTells(snapshot[b], snapshot[p], agrees)
      BY <1>8, <2>3 DEF told
    <3>2. TypeOf[p[1]] = "ADS_TXT"
      BY <1>1, <2>3, Typing DEF ConfigType
    <3>3. snapshot[b].broad = FALSE /\ snapshot[p].broad = FALSE
      BY <1>4, <1>5, <2>3, <3>2 DEF AdsOpen
    <3> QED BY <1>7, <2>3, <3>1, <3>3 DEF AdsTells, Kind, Point
  <2>4. CASE v.previous # b
    <3>1. /\ TypeOf[p[1]] = "ADS_TXT" /\ snapshot[p].status \in Healthy
          /\ v.previous \in DOMAIN snapshot /\ snapshot[v.previous].status \in Condition
          /\ b # Null => ~Usable(b)
      BY <1>1, <1>2, <2>4, PreviousOrNeighbour
    <3>2. v.previous # Null
      BY <3>1, Named
    <3>3. told = AdsTells(snapshot[v.previous], snapshot[p], agrees)
      BY <1>8, <3>1, <3>2 DEF told
    <3>4. told \in {"RESOLVE", "NOTHING"}
      BY <1>7, <3>1, <3>3 DEF AdsTells
    <3>5. b # Null => Kind(b, p) = "NOTHING"
      BY <3>1 DEF Kind, Usable
    <3> QED BY <1>7, <3>4, <3>5
  <2> QED BY <2>1, <2>2, <2>3, <2>4
<1> QED BY <1>9 DEF told, agrees

LEMMA KindStays ==
    ASSUME Grows, NEW b \in DOMAIN snapshot, NEW p \in DOMAIN snapshot
    PROVE  Kind(b, p)' = Kind(b, p)
BY DEF Kind, Grows

LEMMA NeighbourThere ==
    ASSUME IInv, NEW p \in DOMAIN snapshot
    PROVE  Neighbour(p) # Null => Neighbour(p) \in DOMAIN snapshot
BY NeighbourIs DEF Scheduled

\* Point events are only added, by a transaction that found one.
LEMMA PointStep ==
    ASSUME IInv, [Next]_vars
    PROVE  UNCHANGED point \/ \E w \in Worker : Record(w)
<1>1. CASE \E w \in Worker : Commits(w) /\ Commit(w)
  <2>1. PICK w \in Worker : Commits(w)
    BY <1>1
  <2>2. Record(w) \/ UNCHANGED point
    BY <2>1 DEF Commits, Upsert, Conflict, Support, Resolve, Ignore, Rollback, recordVars
  <2> QED BY <2>2
<1> QED BY <1>1, RecordsStep

\* The transaction that finds a change is Record.
LEMMA TellsPoint ==
    ASSUME NEW w \in Worker, Commits(w), Tells(value[w]) \in Point
    PROVE  Record(w)
<1>1. Point \cap {"NOTHING", "SUPPORT", "UPSERT", "RESOLVE"} = {}
  BY DEF Point
<1> DEFINE told == Tells(value[w])
<1> HIDE DEF told
<1>2. ~ (told \in {"NOTHING", "SUPPORT", "UPSERT", "RESOLVE"})
  BY <1>1 DEF told
<1> QED BY <1>2 DEF told, Commits, Upsert, Conflict, Support, Resolve, Ignore

LEMMA PointsRightStep ==
    ASSUME IInv, IInv', Attempts, Alone, AdsOpen, Read, PointsRight, [Next]_vars
    PROVE  PointsRight'
<1>1. Grows
  BY SnapshotStep
<1>2. ASSUME NEW e \in point
      PROVE  /\ e.primary \in Primary
             /\ Quiet(TypeOf[e.primary[1]])' =>
                   e.previous = Neighbour(e.primary)' /\ e.code = Kind(e.previous, e.primary)'
  <2>1. e.primary \in DOMAIN snapshot /\ e.previous \in DOMAIN snapshot /\ e.primary \in Primary
    BY <1>2 DEF IInv, Events, PointsRight
  <2>2. Kind(e.previous, e.primary)' = Kind(e.previous, e.primary)
    BY <1>1, <2>1, KindStays
  <2>3. Quiet(TypeOf[e.primary[1]])' =>
           Quiet(TypeOf[e.primary[1]]) /\ Neighbour(e.primary)' = Neighbour(e.primary)
    BY <2>1, QuietStays
  <2> QED BY <1>2, <2>1, <2>2, <2>3 DEF PointsRight
<1>3. ASSUME NEW w \in Worker, Record(w), NEW e \in point', e \notin point
      PROVE  /\ e.primary \in Primary
             /\ Quiet(TypeOf[e.primary[1]])' =>
                   e.previous = Neighbour(e.primary)' /\ e.code = Kind(e.previous, e.primary)'
  <2>1. /\ Commit(w) /\ Tells(value[w]) \in Point
        /\ e = [code |-> Tells(value[w]), primary |-> value[w].primary,
                previous |-> value[w].previous]
    BY <1>3 DEF Record
  <2>2. /\ pc[w] = "commit" /\ UNCHANGED <<snapshot, overlapped>>
        /\ e.primary \in DOMAIN snapshot /\ e.primary \in Primary
        /\ TypeOf[e.primary[1]] = TypeOfJob(job[w])
    BY <2>1, CommitIs
  <2>3. ASSUME Quiet(TypeOf[e.primary[1]])'
        PROVE  e.previous = Neighbour(e.primary)' /\ e.code = Kind(e.previous, e.primary)'
    <3>1. Quiet(TypeOfJob(job[w]))
      BY <2>2, <2>3 DEF Quiet
    <3>2. e.previous = Neighbour(e.primary) /\ e.code = Kind(e.previous, e.primary)
      BY <2>1, <2>2, <3>1, TellsChange
    <3>3. Neighbour(e.primary)' = Neighbour(e.primary)
      BY <2>2, <2>3, QuietStays
    <3>4. Kind(e.previous, e.primary)' = Kind(e.previous, e.primary)
      BY <2>2 DEF Kind
    <3> QED BY <3>2, <3>3, <3>4
  <2> QED BY <2>2, <2>3
<1> QED BY <1>2, <1>3, PointStep DEF PointsRight

LEMMA PointsKeptStep ==
    ASSUME IInv, IInv', Attempts, Alone, AdsOpen, Read, PointsKept, [Next]_vars
    PROVE  PointsKept'
<1>1. Grows
  BY SnapshotStep
<1>2. point \subseteq point'
  BY PointStep DEF Record
<1>3. ASSUME NEW k \in heard, NEW p, p = PrimaryOf(k)
      PROVE  /\ Quiet(TypeOf[p[1]])' /\ Neighbour(p)' # Null /\ Kind(Neighbour(p), p)' # "NOTHING"
             /\ (Kind(Neighbour(p), p)' = "BROAD_BLOCK_ADDED" => k[1] \in Validate /\ Agrees(p, k)')
             => \E e \in point' : e.primary = p /\ e.code = Kind(Neighbour(p), p)'
  <2>1. k \in DOMAIN snapshot /\ p \in DOMAIN snapshot /\ p \in Primary
    BY <1>3, Named DEF PointsKept, PrimaryOf, PublicJob
  <2>2. Quiet(TypeOf[p[1]])' => Quiet(TypeOf[p[1]]) /\ Neighbour(p)' = Neighbour(p)
    BY <2>1, QuietStays
  <2>3. Agrees(p, k)' = Agrees(p, k)
    BY <1>1, <2>1 DEF Agrees, Grows
  <2> PICK b : b = Neighbour(p)
    OBVIOUS
  <2>4. b # Null => b \in DOMAIN snapshot
    BY <2>1, NeighbourThere
  <2>5. b # Null => Kind(b, p)' = Kind(b, p)
    BY <1>1, <2>1, <2>4, KindStays
  <2>6. Quiet(TypeOf[p[1]])' => Kind(Neighbour(p), p)' = Kind(b, p)'
    BY <2>2 DEF Kind
  <2>7. /\ Quiet(TypeOf[p[1]]) /\ b # Null /\ Kind(b, p) # "NOTHING"
        /\ (Kind(b, p) = "BROAD_BLOCK_ADDED" => k[1] \in Validate /\ Agrees(p, k))
        => \E e \in point : e.primary = p /\ e.code = Kind(b, p)
    BY <1>3 DEF PointsKept
  <2> QED BY <1>2, <2>2, <2>3, <2>5, <2>6, <2>7
<1>4. ASSUME NEW w \in Worker, Commits(w), Commit(w), NEW p, p = PrimaryOf(Key(w))
      PROVE  /\ Quiet(TypeOf[p[1]])' /\ Neighbour(p)' # Null /\ Kind(Neighbour(p), p)' # "NOTHING"
             /\ (Kind(Neighbour(p), p)' = "BROAD_BLOCK_ADDED" =>
                    Key(w)[1] \in Validate /\ Agrees(p, Key(w))')
             => \E e \in point' : e.primary = p /\ e.code = Kind(Neighbour(p), p)'
  <2>1. /\ pc[w] = "commit" /\ UNCHANGED <<snapshot, overlapped>>
        /\ Key(w)[1] = job[w] /\ value[w].primary = p /\ p \in DOMAIN snapshot /\ p \in Primary
        /\ TypeOf[p[1]] = TypeOfJob(job[w])
        /\ value[w].validation = (IF job[w] \in Fetch THEN Null ELSE Key(w))
    BY <1>4, CommitIs
  <2> PICK b : b = Neighbour(p)
    OBVIOUS
  <2>2. ASSUME Quiet(TypeOf[p[1]])', Neighbour(p)' # Null, Kind(Neighbour(p), p)' # "NOTHING",
               Kind(Neighbour(p), p)' = "BROAD_BLOCK_ADDED" =>
                    Key(w)[1] \in Validate /\ Agrees(p, Key(w))'
        PROVE  \E e \in point' : e.primary = p /\ e.code = Kind(Neighbour(p), p)'
    <3>1. Neighbour(p)' = b /\ Quiet(TypeOfJob(job[w]))
      BY <2>1, <2>2, QuietStays
    <3>2. Kind(Neighbour(p), p)' = Kind(b, p)
      BY <2>1, <3>1 DEF Kind
    <3>3. Agrees(p, Key(w))' => Agrees(p, Key(w))
      <4> PICK k : k = Key(w)
        OBVIOUS
      <4>1. Key(w)' = k
        BY <1>4, CommitIs DEF Key
      <4>2. Agrees(p, k)' = Agrees(p, k)
        BY <2>1 DEF Agrees
      <4>3. Agrees(p, Key(w))' = Agrees(p, k)'
        BY <4>1 DEF Agrees
      <4> QED BY <4>2, <4>3
    <3>4. Kind(b, p) = "BROAD_BLOCK_ADDED" => Agrees(p, value[w].validation)
      BY <2>1, <2>2, <3>2, <3>3, Typing
    <3>5. Tells(value[w]) = Kind(b, p) /\ Tells(value[w]) \in Point
      BY <2>1, <2>2, <3>1, <3>2, <3>4, TellsChange
    <3>6. Record(w)
      BY <1>4, <3>5, TellsPoint
    <3>7. \E e \in point' : e.primary = p /\ e.code = Kind(b, p)
      <4> PICK c : c = Tells(value[w])
        OBVIOUS
      <4>1. point' = point \cup (IF \E e \in point : e.code = c /\ e.primary = p THEN {}
                                ELSE {[code |-> c, primary |-> p, previous |-> value[w].previous]})
        BY <2>1, <3>6 DEF Record
      <4>2. \E e \in point' : e.primary = p /\ e.code = c
        <5>1. CASE \E e \in point : e.code = c /\ e.primary = p
          <6>1. point' = point
            BY <4>1, <5>1
          <6> QED BY <5>1, <6>1
        <5>2. CASE ~ \E e \in point : e.code = c /\ e.primary = p
          <6>1. [code |-> c, primary |-> p, previous |-> value[w].previous] \in point'
            BY <4>1, <5>2
          <6> QED BY <6>1
        <5> QED BY <5>1, <5>2
      <4> QED BY <3>5, <4>2
    <3> QED BY <3>2, <3>7
  <2> QED BY <2>2
<1>5. ASSUME NEW w \in Worker, Commit(w)
      PROVE  Key(w)' = Key(w) /\ Key(w) \in DOMAIN snapshot' /\ heard' = heard \cup {Key(w)}
  BY <1>5, CommitIs DEF Key, Seen
<1>6. heard' = heard \/ \E w \in Worker : Commits(w) /\ Commit(w) /\ heard' = heard \cup {Key(w)}
  BY <1>5, RecordsStep
<1>7. heard' \subseteq DOMAIN snapshot'
  BY <1>1, <1>5, <1>6 DEF PointsKept, Grows
<1>8. ASSUME NEW k \in heard', NEW p, p = PrimaryOf(k)
      PROVE  /\ Quiet(TypeOf[p[1]])' /\ Neighbour(p)' # Null /\ Kind(Neighbour(p), p)' # "NOTHING"
             /\ (Kind(Neighbour(p), p)' = "BROAD_BLOCK_ADDED" => k[1] \in Validate /\ Agrees(p, k)')
             => \E e \in point' : e.primary = p /\ e.code = Kind(Neighbour(p), p)'
  <2>1. CASE k \in heard
    BY <1>3, <1>8, <2>1
  <2>2. CASE k \notin heard
    <3>1. PICK w \in Worker : Commits(w) /\ Commit(w) /\ k = Key(w)
      BY <1>6, <2>2, <1>8
    <3>2. Key(w)' = k
      BY <1>5, <3>1
    <3>3. Agrees(p, Key(w))' = Agrees(p, k)'
      BY <3>2 DEF Agrees
    <3> QED BY <1>4, <1>8, <3>1, <3>3
  <2> QED BY <2>1, <2>2
<1> QED BY <1>7, <1>8 DEF PointsKept, PrimaryOf
------------------------------------------------------------------------------
(* Condition events.                                                         *)

\* Only what a transaction tells of ads.txt changes condition events.
LEMMA CommitEvent ==
    ASSUME IInv, NEW w \in Worker, Commits(w), Commit(w)
    PROVE  \/ UNCHANGED event
           \/ (Upsert(w) \/ Support(w) \/ Resolve(w)) /\ TypeOfJob(job[w]) = "ADS_TXT"
<1>1. CASE Record(w) \/ Conflict(w) \/ Ignore(w)
  BY <1>1 DEF Record, Conflict, Ignore, Rollback, recordVars
<1>2. CASE Upsert(w) \/ Support(w) \/ Resolve(w)
  <2>1. Tells(value[w]) \in {"UPSERT", "SUPPORT", "RESOLVE"}
    BY <1>2 DEF Upsert, Support, Resolve
  <2>2. \A b, q, agrees : RobotsTells(b, q, agrees) \notin {"UPSERT", "SUPPORT", "RESOLVE"}
    BY DEF RobotsTells
  <2>3. TypeOf[value[w].primary[1]] # "ROBOTS_TXT"
    BY <2>1, <2>2 DEF Tells
  <2>4. TypeOfJob(job[w]) \in ConfigType /\ TypeOf[value[w].primary[1]] = TypeOfJob(job[w])
    BY CommitIs, Typing
  <2> QED BY <1>2, <2>3, <2>4 DEF ConfigType
<1> QED BY <1>1, <1>2 DEF Commits

LEMMA EventStep ==
    ASSUME IInv, [Next]_vars
    PROVE  \/ UNCHANGED event
           \/ \E w \in Worker : /\ Commit(w) /\ (Upsert(w) \/ Support(w) \/ Resolve(w))
                                /\ TypeOfJob(job[w]) = "ADS_TXT"
BY CommitEvent, RecordsStep

\* What a derivation tells depends on snapshots that are there.
LEMMA TellsStays ==
    ASSUME IInv, Grows, NEW v, v.primary \in DOMAIN snapshot,
           v.previous \in DOMAIN snapshot \cup {Null}, v.validation \in DOMAIN snapshot \cup {Null}
    PROVE  /\ Tells(v)' = Tells(v) /\ Code(v)' = Code(v) /\ Concerned(v)' = Concerned(v)
           /\ Detected(v)' = Detected(v)
<1>1. \A k \in DOMAIN snapshot : snapshot'[k] = snapshot[k]
  BY DEF Grows
<1>2. Agrees(v.primary, v.validation)' = Agrees(v.primary, v.validation)
  BY <1>1 DEF Agrees
<1>3. Tells(v)' = Tells(v)
  <2>1. CASE v.previous = Null
    BY <2>1 DEF Tells
  <2>2. CASE v.previous # Null
    <3>1. snapshot'[v.previous] = snapshot[v.previous] /\ snapshot'[v.primary] = snapshot[v.primary]
      BY <1>1, <2>2
    <3>2. \A b, q, agrees : RobotsTells(b, q, agrees)' = RobotsTells(b, q, agrees)
                            /\ AdsTells(b, q, agrees)' = AdsTells(b, q, agrees)
      BY DEF RobotsTells, AdsTells
    <3> QED BY <1>2, <2>2, <3>1 DEF Tells, RobotsTells, AdsTells
  <2> QED BY <2>1, <2>2
<1>4. Code(v)' = Code(v)
  BY <1>1 DEF Code
<1>5. Concerned(v)' = Concerned(v)
  BY <1>3, <1>4 DEF Concerned
<1>6. Detected(v)' = Detected(v)
  BY <1>1 DEF Detected
<1> QED BY <1>3, <1>4, <1>5, <1>6

\* What a row refers to stays.
LEMMA RowStays ==
    ASSUME IInv, Grows, NEW code, NEW row, row.linked \subseteq DOMAIN snapshot
    PROVE  /\ Ads \subseteq Ads' /\ Seen("ADS_TXT") \subseteq Seen("ADS_TXT")'
           /\ LinkedRow(code, row) => LinkedRow(code, row)'
<1>1. Ads \subseteq Ads'
  BY DEF Ads, Grows
<1>2. Seen("ADS_TXT") \subseteq Seen("ADS_TXT")' /\ Seen("ADS_TXT") \subseteq DOMAIN snapshot
  BY DEF Seen, Grows, TypeOfJob
<1>3. \A k \in DOMAIN snapshot : snapshot'[k] = snapshot[k]
  BY DEF Grows
<1>4. Ads \subseteq DOMAIN snapshot
  BY DEF Ads
<1> QED BY <1>1, <1>2, <1>3, <1>4 DEF LinkedRow

\* What a transaction that confirms or ends a condition has at hand.
LEMMA ConditionCommit ==
    ASSUME IInv, Read, Alone, Holds, NEW w \in Worker, Commit(w), TypeOfJob(job[w]) = "ADS_TXT",
           Tells(value[w]) \in {"UPSERT", "SUPPORT", "RESOLVE"}
    PROVE  LET v == value[w] IN
           /\ v.primary \in Ads
           /\ v.previous \in Ads /\ snapshot[v.previous].at < snapshot[v.primary].at
           /\ v.validation = Key(w) /\ job[w] \in Validate /\ job[w][2] = v.primary
           /\ Agrees(v.primary, v.validation)
           /\ Detected(v) = snapshot[Key(w)].at /\ Key(w) \in Seen("ADS_TXT")
           /\ Tells(v) = "RESOLVE" => /\ snapshot[v.primary].status \in Healthy
                                      /\ snapshot[v.previous].status \in Condition
           /\ Tells(v) = "SUPPORT" => /\ snapshot[v.primary].status \in Condition
                                      /\ snapshot[v.previous].status = snapshot[v.primary].status
           /\ Tells(v) = "UPSERT" => snapshot[v.primary].status \in Condition
           /\ Quiet("ADS_TXT") => found[w] = ActiveNow(Concerned(v))
                                  /\ \A k \in Seen("ADS_TXT") : snapshot[k].at <= Detected(v)
<1> DEFINE v == value[w]
<1>1. /\ pc[w] = "commit" /\ Key(w) \in Seen("ADS_TXT") /\ v.primary \in DOMAIN snapshot
      /\ v.primary \in Primary /\ TypeOf[v.primary[1]] = "ADS_TXT"
      /\ v.validation = (IF job[w] \in Fetch THEN Null ELSE Key(w))
      /\ v.primary = PrimaryOf(Key(w)) /\ Key(w)[1] = job[w] /\ Key(w) # Null /\ job[w] \in PublicJob
  BY CommitIs
<1>2. v.primary \in Ads
  BY <1>1 DEF Ads
<1>3. v.previous # Null
  BY DEF Tells
<1>4. v.previous \in Scheduled("ADS_TXT", snapshot[v.primary].at)
  BY <1>1, <1>3 DEF Read
<1>5. v.previous \in Ads /\ snapshot[v.previous].at < snapshot[v.primary].at
  BY <1>4 DEF Ads, Scheduled
<1>6. Tells(v) = AdsTells(snapshot[v.previous], snapshot[v.primary], Agrees(v.primary, v.validation))
  BY <1>1, <1>3 DEF Tells
<1>7. Healthy \cap Condition = {}
  BY SMTT(60) DEF Healthy, Condition
<1>8. /\ Agrees(v.primary, v.validation)
      /\ Tells(v) = "RESOLVE" => /\ snapshot[v.primary].status \in Healthy
                                 /\ snapshot[v.previous].status \in Condition
      /\ Tells(v) = "SUPPORT" => /\ snapshot[v.primary].status \in Condition
                                 /\ snapshot[v.previous].status = snapshot[v.primary].status
      /\ Tells(v) = "UPSERT" => snapshot[v.primary].status \in Condition
  <2> DEFINE told == Tells(v)
             agrees == Agrees(v.primary, v.validation)
  <2> HIDE DEF told, agrees
  <2>1. told \in {"UPSERT", "SUPPORT", "RESOLVE"}
        /\ told = AdsTells(snapshot[v.previous], snapshot[v.primary], agrees)
    BY <1>6 DEF told, agrees
  <2> QED BY <1>7, <2>1 DEF AdsTells, told, agrees
<1>9. v.validation = Key(w) /\ job[w] \in Validate /\ job[w][2] = v.primary
  BY <1>1, <1>8 DEF Agrees, PublicJob, PrimaryOf
<1>10. Detected(v) = snapshot[Key(w)].at
  BY <1>1, <1>9 DEF Detected
<1>11. Quiet("ADS_TXT") => found[w] = ActiveNow(Concerned(v))
  BY <1>1 DEF Holds
<1>12. Quiet("ADS_TXT") => \A k \in Seen("ADS_TXT") : snapshot[k].at <= Detected(v)
  BY <1>1, <1>10 DEF Alone, Busy, At
<1> QED BY <1>1, <1>2, <1>5, <1>8, <1>9, <1>10, <1>11, <1>12

LEMMA ResolvedLinked ==
    ASSUME IInv, NEW ids, NEW v
    PROVE  /\ DOMAIN Resolved(ids, v) = DOMAIN event
           /\ \A e \in DOMAIN event :
                 /\ LinkedRow(e[1], event[e]) => LinkedRow(e[1], Resolved(ids, v)[e])
                 /\ ~ (e \in ids /\ Ends(e, v)) => Resolved(ids, v)[e] = event[e]
                 /\ e \in ids /\ Ends(e, v) => Resolved(ids, v)[e].status = "RESOLVED"
<1>1. \A e \in DOMAIN event : event[e] \in Event
  BY DEF IInv, Events
<1>2. ASSUME NEW e \in DOMAIN event
      PROVE  /\ LinkedRow(e[1], event[e]) => LinkedRow(e[1], Resolved(ids, v)[e])
             /\ ~ (e \in ids /\ Ends(e, v)) => Resolved(ids, v)[e] = event[e]
             /\ e \in ids /\ Ends(e, v) => Resolved(ids, v)[e].status = "RESOLVED"
  <2>1. CASE e \in ids /\ Ends(e, v)
    <3> PICK row : row = [event[e] EXCEPT !.status = "RESOLVED", !.linked = @ \cup Evidence(v)]
      OBVIOUS
    <3>1. Resolved(ids, v)[e] = row
      BY <2>1 DEF Resolved
    <3>2. row.status = "RESOLVED" /\ row.detected = event[e].detected
      BY <1>1 DEF Event
    <3>3. LinkedRow(e[1], event[e]) => LinkedRow(e[1], row)
      BY <3>2 DEF LinkedRow
    <3> QED BY <2>1, <3>1, <3>2, <3>3
  <2>2. CASE ~ (e \in ids /\ Ends(e, v))
    <3>1. Resolved(ids, v)[e] = event[e]
      BY <2>2 DEF Resolved
    <3> QED BY <2>2, <3>1
  <2> QED BY <2>1, <2>2
<1>3. DOMAIN Resolved(ids, v) = DOMAIN event
  BY DEF Resolved
<1> QED BY <1>2, <1>3

\* More evidence keeps a row right: what is of another status precedes what is not.
LEMMA SupportedLinked ==
    ASSUME IInv, NEW code, NEW row \in Event, LinkedRow(code, row), NEW n,
           NEW p \in Ads, snapshot[p].status = code, NEW more \in SUBSET Ads,
           p \in more, \A q \in more : q = p \/ snapshot[q].at < snapshot[p].at
    PROVE  LinkedRow(code, [row EXCEPT !.linked = @ \cup more, !.support = n])
<1>0. PICK new : new = [row EXCEPT !.linked = @ \cup more, !.support = n]
  OBVIOUS
<1>1. new.detected = row.detected /\ new.status = row.status /\ new.linked = row.linked \cup more
  BY <1>0 DEF Event
<1>2. \A q \in Ads : snapshot[q].at \in Nat
  BY Named DEF Ads
<1>3. ASSUME new.status = "ACTIVE", NEW q \in new.linked
      PROVE  /\ q \in Ads
             /\ snapshot[q].status # code =>
                   \E s \in new.linked : snapshot[s].at > snapshot[q].at /\ snapshot[s].status = code
  <2>1. CASE q \in row.linked
    BY <1>1, <1>3, <2>1 DEF LinkedRow
  <2>2. CASE q \in more
    <3>1. q \in Ads /\ p \in new.linked
      BY <1>1, <2>2
    <3>2. snapshot[q].status # code => snapshot[p].at > snapshot[q].at
      BY <1>2, <2>2, <3>1
    <3> QED BY <3>1, <3>2
  <2> QED BY <1>1, <1>3, <2>1, <2>2
<1>4. LinkedRow(code, new)
  BY <1>1, <1>3 DEF LinkedRow
<1> QED BY <1>0, <1>4

\* What the commits of Upsert, Support and Resolve do to the events of quiet ads.txt.
LEMMA CommitRows ==
    ASSUME IInv, Read, Alone, Holds, Quiet("ADS_TXT"), NEW w \in Worker, Commit(w),
           Upsert(w) \/ Support(w) \/ Resolve(w), TypeOfJob(job[w]) = "ADS_TXT"
    PROVE  LET v == value[w]
               rows == ActiveNow(Concerned(v))
               id == <<Code(v), v.primary>>
               more(r, n) == [r EXCEPT !.linked = @ \cup Evidence(v), !.support = n]
           IN \/ /\ Tells(v) = "RESOLVE" /\ event' = Resolved(rows, v)
              \/ /\ Tells(v) = "SUPPORT" /\ rows = {} /\ event' = event
              \/ /\ Tells(v) = "SUPPORT"
                 /\ \E e \in rows, n \in Int : event' = [event EXCEPT ![e] = more(event[e], n)]
              \/ /\ Tells(v) = "UPSERT" /\ ActiveNow({Code(v)}) = {}
                 /\ event' = Opened(Resolved({e \in rows : e[1] # Code(v)}, v), id, v)
              \/ /\ Tells(v) = "UPSERT"
                 /\ \E e \in ActiveNow({Code(v)}), n \in Int :
                       LET after == Resolved({i \in rows : i[1] # Code(v)}, v)
                       IN event' = [after EXCEPT ![e] = more(after[e], n)]
<1> DEFINE v == value[w]
           rows == ActiveNow(Concerned(v))
           more(r, n) == [r EXCEPT !.linked = @ \cup Evidence(v), !.support = n]
           others == Resolved({e \in rows : e[1] # Code(v)}, v)
           ends == Tells(v) = "RESOLVE" /\ event' = Resolved(rows, v)
           ignores == Tells(v) = "SUPPORT" /\ rows = {} /\ event' = event
           supports == /\ Tells(v) = "SUPPORT"
                       /\ \E e \in rows, n \in Int : event' = [event EXCEPT ![e] = more(event[e], n)]
           opens == /\ Tells(v) = "UPSERT" /\ ActiveNow({Code(v)}) = {}
                    /\ event' = Opened(others, <<Code(v), v.primary>>, v)
           joins == /\ Tells(v) = "UPSERT"
                    /\ \E e \in ActiveNow({Code(v)}), n \in Int :
                          event' = [others EXCEPT ![e] = more(others[e], n)]
<1> SUFFICES ends \/ ignores \/ supports \/ opens \/ joins
  BY ZenonT(60)
<1> HIDE DEF ends, ignores, supports, opens, joins
<1>1. Tells(v) \in {"UPSERT", "SUPPORT", "RESOLVE"} /\ Commits(w)
  BY DEF Upsert, Support, Resolve, Commits
<1>2. found[w] = rows /\ pc[w] = "commit"
  BY <1>1, ConditionCommit, CommitIs
<1>3. IsFiniteSet(Evidence(v)) /\ \A e \in DOMAIN event : event[e] \in Event
  BY <1>2, EvidenceThere DEF IInv, Events
<1>4. ASSUME NEW S PROVE Cardinality(Evidence(v) \ S) \in Int
  <2>1. IsFiniteSet(Evidence(v) \ S)
    BY <1>3, FS_Subset
  <2> QED BY <2>1, FS_CardinalityType
<1>5. CASE Resolve(w)
  BY <1>2, <1>5 DEF Resolve, ends
<1>6. CASE Support(w)
  <2>1. CASE rows = {}
    BY SMTT(60), <1>2, <1>6, <2>1 DEF Support, ignores
  <2>2. CASE rows # {}
    <3> PICK e : e = CHOOSE i \in rows : TRUE
      OBVIOUS
    <3>1. e \in rows /\ e \in DOMAIN event
      BY <2>2 DEF ActiveNow
    <3>2. event' = Supported(event, e, v) /\ Tells(v) = "SUPPORT"
      BY <1>2, <1>6, <2>2 DEF Support
    <3> PICK n : n = event[e].support + Cardinality(Evidence(v) \ event[e].linked)
      OBVIOUS
    <3>3. n \in Int
      <4>1. Cardinality(Evidence(v) \ event[e].linked) \in Int
        BY <1>4
      <4>2. event[e].support \in Int
        BY <1>3, <3>1 DEF Event
      <4> QED BY <4>1, <4>2
    <3>4. event' = [event EXCEPT ![e] = more(event[e], n)]
      BY <1>3, <3>1, <3>2 DEF Supported, Event
    <3> QED BY ZenonT(60), <3>1, <3>2, <3>3, <3>4 DEF supports
  <2> QED BY <2>1, <2>2
<1>7. CASE Upsert(w)
  <2> DEFINE after == Resolved({e \in rows : e[1] # Code(v)}, v)
             mine == ActiveNow({Code(v)})
  <2>1. Tells(v) = "UPSERT" /\ Code(v) \in Condition
    BY <1>1, <1>7, ConditionCommit DEF Upsert, Code
  <2>2. ~Rollback(w)
    <3>1. DOMAIN pc = Worker
      BY DEF IInv, WorkerTypeOK
    <3> QED BY <3>1 DEF Commit, Rollback, Goes, Onward
  <2>3. event' = IF mine = {} THEN Opened(after, <<Code(v), v.primary>>, v)
                 ELSE Supported(after, CHOOSE e \in mine : TRUE, v)
    BY <1>2, <1>7, <2>2 DEF Upsert
  <2>4. CASE mine = {}
    BY <2>1, <2>3, <2>4 DEF opens
  <2>5. CASE mine # {}
    <3> PICK e : e = CHOOSE i \in mine : TRUE
      OBVIOUS
    <3>1. e \in mine /\ e \in DOMAIN event /\ e[1] = Code(v)
      BY <2>5 DEF ActiveNow
    <3>2. after[e] = event[e] /\ DOMAIN after = DOMAIN event
      BY <3>1, ResolvedLinked
    <3> HIDE DEF after
    <3>3. event' = Supported(after, e, v)
      BY <2>3, <2>5
    <3> PICK n : n = after[e].support + Cardinality(Evidence(v) \ after[e].linked)
      OBVIOUS
    <3>4. n \in Int
      <4>1. Cardinality(Evidence(v) \ after[e].linked) \in Int
        BY <1>4
      <4>2. after[e].support \in Int
        BY <1>3, <3>1, <3>2 DEF Event
      <4> QED BY <4>1, <4>2
    <3>5. event' = [after EXCEPT ![e] = more(after[e], n)]
      BY <1>3, <3>1, <3>2, <3>3 DEF Supported, Event
    <3> QED BY <2>1, <3>1, <3>4, <3>5 DEF after, joins
  <2> QED BY <2>4, <2>5
<1> QED BY ZenonT(60), <1>5, <1>6, <1>7

\* The evidence that a transaction adds to a row: no snapshot of it is later than the
\* primary.
LEMMA EvidenceIs ==
    ASSUME IInv, Read, Alone, Holds, NEW w \in Worker, Commit(w), TypeOfJob(job[w]) = "ADS_TXT",
           Tells(value[w]) \in {"UPSERT", "SUPPORT", "RESOLVE"}
    PROVE  LET v == value[w] IN
           /\ Evidence(v) \in SUBSET Ads /\ v.primary \in Evidence(v)
           /\ \A q \in Evidence(v) : q = v.primary \/ snapshot[q].at < snapshot[v.primary].at
<1>1. /\ value[w].primary \in Ads /\ value[w].previous \in Ads
      /\ snapshot[value[w].previous].at < snapshot[value[w].primary].at
  BY ConditionCommit
<1> QED BY <1>1 DEF Evidence

LEMMA LinkedStep ==
    ASSUME IInv, IInv', Attempts, Alone, Read, Holds, Linked, [Next]_vars
    PROVE  Linked'
<1> SUFFICES ASSUME Quiet("ADS_TXT")', NEW e \in DOMAIN event', NEW row, row = event'[e]
             PROVE  e[2] \in Ads' /\ LinkedRow(e[1], row)'
  BY DEF Linked
<1>1. Grows /\ Quiet("ADS_TXT")
  BY SnapshotStep DEF Quiet
<1>2. \A i \in DOMAIN event : i[2] \in Ads /\ LinkedRow(i[1], event[i]) /\ event[i] \in Event
  BY <1>1 DEF Linked, IInv, Events
<1>3. CASE UNCHANGED event
  <2>1. e[2] \in Ads /\ LinkedRow(e[1], row) /\ row.linked \subseteq DOMAIN snapshot
    BY <1>2, <1>3 DEF Event
  <2> QED BY <1>1, <2>1, RowStays
<1>4. ASSUME NEW w \in Worker, Commit(w), Upsert(w) \/ Support(w) \/ Resolve(w),
             TypeOfJob(job[w]) = "ADS_TXT"
      PROVE  e[2] \in Ads' /\ LinkedRow(e[1], row)'
  <2> DEFINE v == value[w]
             rows == ActiveNow(Concerned(v))
             more(r, n) == [r EXCEPT !.linked = @ \cup Evidence(v), !.support = n]
             others == {i \in rows : i[1] # Code(v)}
  <2>1. UNCHANGED snapshot
    BY <1>4, CommitIs
  <2>2. Ads' = Ads /\ \A c, r : LinkedRow(c, r)' = LinkedRow(c, r)
    BY <2>1 DEF Ads, LinkedRow, Seen, TypeOfJob
  <2>3. Tells(v) \in {"UPSERT", "SUPPORT", "RESOLVE"} /\ Commits(w)
    BY SMTT(60), <1>4 DEF Upsert, Support, Resolve, Commits
  <2>4. /\ v.primary \in Ads /\ Detected(v) = snapshot[Key(w)].at /\ Key(w) \in Seen("ADS_TXT")
        /\ Code(v) = snapshot[v.primary].status
        /\ Evidence(v) \in SUBSET Ads /\ v.primary \in Evidence(v)
        /\ \A q \in Evidence(v) : q = v.primary \/ snapshot[q].at < snapshot[v.primary].at
    BY <1>4, <2>3, ConditionCommit, EvidenceIs DEF Code
  <2>5. ASSUME NEW i \in DOMAIN event, NEW r \in Event, LinkedRow(i[1], r), i[1] = Code(v), NEW n
        PROVE  LinkedRow(i[1], more(r, n))
    BY <2>4, <2>5, SupportedLinked
  <2>6. /\ \A i \in ActiveNow({Code(v)}) : i \in DOMAIN event /\ i[1] = Code(v)
        /\ rows \subseteq DOMAIN event
        /\ Tells(v) = "SUPPORT" => \A i \in rows : i[1] = Code(v)
    BY DEF ActiveNow, Concerned
  <2> PICK after : after = Resolved(others, v)
    OBVIOUS
  <2>7. /\ DOMAIN after = DOMAIN event
        /\ \A i \in DOMAIN event : LinkedRow(i[1], after[i]) /\ (i[1] = Code(v) => after[i] = event[i])
    BY <1>2, ResolvedLinked
  <2> SUFFICES e[2] \in Ads /\ LinkedRow(e[1], row)
    BY <2>2
  <2>8. CASE event' = Resolved(rows, v)
    BY <1>2, <2>8, ResolvedLinked
  <2>9. CASE event' = event
    BY <1>2, <2>9
  <2>10. ASSUME Tells(v) = "SUPPORT", NEW i \in rows, NEW n \in Int,
                event' = [event EXCEPT ![i] = more(event[i], n)]
         PROVE  e[2] \in Ads /\ LinkedRow(e[1], row)
    <3>1. i \in DOMAIN event /\ i[1] = Code(v)
      BY <2>6, <2>10
    <3>2. CASE e = i
      <4>1. row = more(event[i], n)
        BY <2>10, <3>1, <3>2
      <4> HIDE DEF more
      <4> QED BY <1>2, <2>5, <3>1, <3>2, <4>1
    <3>3. CASE e # i
      BY <1>2, <2>10, <3>3
    <3> QED BY <3>2, <3>3
  <2>11. CASE event' = Opened(after, <<Code(v), v.primary>>, v) /\ Tells(v) = "UPSERT"
    <3>1. DOMAIN event' = DOMAIN event \cup {<<Code(v), v.primary>>}
      BY SMTT(60), <2>7, <2>11 DEF Opened
    <3>2. CASE e = <<Code(v), v.primary>>
      <4>1. row = [status |-> "ACTIVE", detected |-> Detected(v), linked |-> Evidence(v), support |-> 1]
        BY <2>11, <3>1, <3>2 DEF Opened
      <4>2. \A q \in Ads : snapshot[q].at \in Nat
        BY Named DEF Ads
      <4>3. \A q \in Evidence(v) : q = v.primary \/ snapshot[v.primary].at > snapshot[q].at
        BY <2>4, <4>2
      <4> QED BY SMTT(60), <2>4, <3>2, <4>1, <4>3 DEF LinkedRow
    <3>3. CASE e # <<Code(v), v.primary>>
      <4>1. e \in DOMAIN event /\ row = after[e]
        BY <2>7, <2>11, <3>1, <3>3 DEF Opened
      <4> QED BY <1>2, <2>7, <4>1
    <3> QED BY <3>2, <3>3
  <2>12. ASSUME NEW i \in ActiveNow({Code(v)}), NEW n \in Int,
                event' = [after EXCEPT ![i] = more(after[i], n)]
         PROVE  e[2] \in Ads /\ LinkedRow(e[1], row)
    <3>1. i \in DOMAIN event /\ i[1] = Code(v) /\ after[i] = event[i] /\ LinkedRow(i[1], after[i])
      BY <2>6, <2>7, <2>12
    <3>2. CASE e = i
      <4>1. row = more(after[i], n)
        BY <2>7, <2>12, <3>1, <3>2
      <4> HIDE DEF more
      <4> QED BY <1>2, <2>5, <3>1, <3>2, <4>1
    <3>3. CASE e # i
      BY SMTT(60), <1>2, <2>7, <2>12, <3>3
    <3> QED BY <3>2, <3>3
  <2>13. \/ event' = Resolved(rows, v)
         \/ event' = event
         \/ /\ Tells(v) = "SUPPORT"
            /\ \E i \in rows, n \in Int : event' = [event EXCEPT ![i] = more(event[i], n)]
         \/ /\ event' = Opened(Resolved(others, v), <<Code(v), v.primary>>, v)
            /\ Tells(v) = "UPSERT"
         \/ \E i \in ActiveNow({Code(v)}), n \in Int :
               event' = [Resolved(others, v) EXCEPT ![i] = more(Resolved(others, v)[i], n)]
    BY <1>1, <1>4, CommitRows
  <2>14. after = Resolved(others, v)
    OBVIOUS
  <2> QED BY ZenonT(60), <2>8, <2>9, <2>10, <2>11, <2>12, <2>13, <2>14
<1> QED BY <1>3, <1>4, EventStep

\* While a transaction of quiet ads.txt holds its conditions, no other changes them.
LEMMA HoldsStep ==
    ASSUME IInv, IInv', Attempts, Alone, Read, Holds, [Next]_vars
    PROVE  Holds'
<1> SUFFICES ASSUME NEW w \in Worker, pc'[w] = "commit"
             PROVE  /\ TypeOfJob(job'[w]) = "ROBOTS_TXT" => found'[w] = {}
                    /\ TypeOfJob(job'[w]) = "ADS_TXT" /\ Quiet("ADS_TXT")' =>
                          found'[w] = ActiveNow(Concerned(value[w]))'
  BY DEF Holds, TypeOfJob
<1>1. Grows
  BY SnapshotStep
<1>2. ASSUME pc[w] \in {"look", "commit"}, NEW v, v = value[w], value'[w] = v
      PROVE  Concerned(value[w])' = Concerned(v)
  <2>1. /\ v.primary \in DOMAIN snapshot /\ v.previous \in DOMAIN snapshot \cup {Null}
        /\ v.validation \in DOMAIN snapshot \cup {Null}
    BY <1>2, ValueIs DEF IInv, About
  <2>2. Concerned(v)' = Concerned(v)
    BY <1>1, <2>1, TellsStays
  <2>3. Concerned(value[w])' = Concerned(v)'
    BY <1>2 DEF Concerned, Tells, Code, Agrees
  <2> QED BY <2>2, <2>3
<1>3. CASE Look(w) /\ value'[w] = value[w] /\ job'[w] = job[w] /\ pc[w] = "look"
  <2> PICK v : v = value[w]
    OBVIOUS
  <2>1. found'[w] = ActiveNow(Concerned(v)) /\ UNCHANGED <<event, snapshot>>
    BY <1>3 DEF Look, recordVars, IInv, Locks
  <2>2. ActiveNow(Concerned(value[w]))' = ActiveNow(Concerned(v))
    BY <1>2, <1>3, <2>1 DEF ActiveNow
  <2>3. TypeOfJob(job[w]) = "ROBOTS_TXT" => Concerned(v) = {}
    <3>1. v.primary = (IF job[w] \in Fetch THEN Key(w) ELSE job[w][2])
          /\ TypeOf[v.primary[1]] = TypeOfJob(job[w])
      BY <1>3, ValueIs
    <3>2. \A b, q, agrees : RobotsTells(b, q, agrees) \notin {"UPSERT", "SUPPORT", "RESOLVE"}
      BY DEF RobotsTells
    <3>3. TypeOfJob(job[w]) = "ROBOTS_TXT" => Tells(v) \notin {"UPSERT", "SUPPORT", "RESOLVE"}
      BY <3>1, <3>2 DEF Tells
    <3> QED BY <3>3 DEF Concerned
  <2>4. Concerned(v) = {} => ActiveNow(Concerned(v)) = {}
    BY DEF ActiveNow
  <2> QED BY <1>3, <2>1, <2>2, <2>3, <2>4
<1>4. CASE /\ pc'[w] = pc[w] /\ value'[w] = value[w] /\ job'[w] = job[w] /\ found'[w] = found[w]
           /\ ~Commits(w)
  <2> PICK v : v = value[w]
    OBVIOUS
  <2>1. TypeOfJob(job[w]) = "ROBOTS_TXT" => found'[w] = {}
    BY <1>4 DEF Holds
  <2>2. ASSUME TypeOfJob(job[w]) = "ADS_TXT", Quiet("ADS_TXT")'
        PROVE  found'[w] = ActiveNow(Concerned(value[w]))'
    <3>1. Quiet("ADS_TXT") /\ found[w] = ActiveNow(Concerned(v))
      BY <1>4, <2>2, SnapshotStep DEF Holds, Quiet
    <3>2. UNCHANGED event
      <4>1. ASSUME NEW x \in Worker, Commit(x), Upsert(x) \/ Support(x) \/ Resolve(x),
                   TypeOfJob(job[x]) = "ADS_TXT"
            PROVE  FALSE
        <5>1. Commits(x) /\ pc[x] = "commit" /\ x # w
          BY <1>4, <4>1, CommitIs DEF Commits
        <5>2. Busy(x) /\ Busy(w)
          BY <1>4, <5>1 DEF Busy
        <5> QED BY <2>2, <3>1, <4>1, <5>1, <5>2 DEF Alone
      <4> QED BY <4>1, EventStep
    <3>3. Concerned(value[w])' = Concerned(v)
      BY <1>2, <1>4
    <3> QED BY <1>4, <3>1, <3>2, <3>3 DEF ActiveNow
  <2> QED BY <1>4, <2>1, <2>2
<1>5. CASE Commits(w)
  <2>1. Commit(w) \/ Rollback(w)
    BY <1>5 DEF Commits, Record, Upsert, Conflict, Support, Resolve, Ignore
  <2>2. \E t \in {"ask", "done", "raised", "failed"} : pc' = [pc EXCEPT ![w] = t]
    BY <2>1, CommitOrRollback
  <2>3. DOMAIN pc = Worker
    BY DEF IInv, WorkerTypeOK
  <2> QED BY <2>2, <2>3
<1> QED BY <1>3, <1>4, <1>5, ValueStep
------------------------------------------------------------------------------
(* What stands when the past of ads.txt was orderly.                         *)

LEMMA LatestUnique ==
    ASSUME IInv, NEW S \in SUBSET DOMAIN snapshot, NEW p \in S,
           \A q \in S : snapshot[q].at <= snapshot[p].at
    PROVE  Latest(S) = p
<1>1. Latest(S) \in S /\ snapshot[p].at <= snapshot[Latest(S)].at /\ snapshot[Latest(S)].at <= snapshot[p].at
  BY LatestAll
<1>2. snapshot[p].at \in Nat /\ snapshot[Latest(S)].at \in Nat
  BY <1>1, Named
<1>3. snapshot[p].at = snapshot[Latest(S)].at
  BY <1>1, <1>2
<1> QED BY <1>1, <1>3, Named

\* What precedes the last observation of ads.txt.
LEMMA BeforeLast ==
    ASSUME IInv, NEW p, Last(p)
    PROVE  /\ p \in DOMAIN snapshot /\ p \in Primary /\ TypeOf[p[1]] = "ADS_TXT"
           /\ Scheduled("ADS_TXT", snapshot[p].at) = Ads \ {p}
<1>1. p \in Ads /\ \A q \in Ads : snapshot[q].at <= snapshot[p].at
  BY DEF Last
<1>2. \A q \in Ads : q \in DOMAIN snapshot /\ snapshot[q].at \in Nat
  BY Named DEF Ads
<1>3. \A q \in Ads : q # p => snapshot[q].at # snapshot[p].at
  BY <1>1, <1>2, Named
<1>4. \A q \in Ads : q # p <=> snapshot[q].at < snapshot[p].at
  BY <1>1, <1>2, <1>3
<1> QED BY <1>1, <1>4 DEF Ads, Scheduled

LEMMA StandingIs ==
    ASSUME IInv, NEW S \in SUBSET Ads
    PROVE  /\ (\A q \in S : snapshot[q].status \notin Healthy) => Standing(S) = {}
           /\ \A u \in S : /\ Usable(u) /\ \A q \in S : Usable(q) => snapshot[q].at <= snapshot[u].at
                           /\ \E q \in S : snapshot[q].status \in Healthy
                           => Standing(S) = {snapshot[u].status} \cap Condition
<1> DEFINE U == {q \in S : Usable(q)}
           H == {q \in S : snapshot[q].status \in Healthy}
<1>1. S \subseteq DOMAIN snapshot /\ U \in SUBSET DOMAIN snapshot /\ H \in SUBSET DOMAIN snapshot
  BY DEF Ads
<1>2. \A q \in S : q # Null
  BY <1>1, Named
<1>3. H = {} => Latest(H) = Null
  BY <1>1, LatestAll
<1>4. H # {} => Latest(H) # Null
  BY <1>1, <1>2, LatestAll
<1>5. Standing(S) = IF Latest(U) = Null \/ Latest(H) = Null THEN {}
                    ELSE {snapshot[Latest(U)].status} \cap Condition
  BY DEF Standing
<1>6. ASSUME NEW u \in S, Usable(u), \A q \in S : Usable(q) => snapshot[q].at <= snapshot[u].at
      PROVE  Latest(U) = u /\ u # Null
  BY <1>1, <1>2, <1>6, LatestUnique
<1> QED BY <1>3, <1>4, <1>5, <1>6

\* What the predecessors of the last observation are.
LEMMA LastCalled ==
    ASSUME IInv, NEW p, Last(p)
    PROVE  LET before == Ads \ {p}
               healthy == PreviousHealthy("ADS_TXT", snapshot[p].at)
               affected == PreviousAffected("ADS_TXT", snapshot[p].at)
           IN /\ healthy = Null => \A q \in before : snapshot[q].status \notin Healthy
              /\ healthy # Null => /\ healthy \in before /\ snapshot[healthy].status \in Healthy
                                   /\ \A q \in before : snapshot[q].status \in Healthy =>
                                          snapshot[q].at <= snapshot[healthy].at
              /\ affected = Null => \A q \in before : snapshot[q].status \notin Condition
              /\ affected # Null => /\ affected \in before /\ snapshot[affected].status \in Condition
                                    /\ \A q \in before : snapshot[q].status \in Condition =>
                                           snapshot[q].at <= snapshot[affected].at
              /\ Called(p) <=> /\ healthy # Null
                               /\ \/ snapshot[p].status \in Condition
                                  \/ snapshot[p].status \in Healthy /\ After(affected, healthy)
<1>1. /\ p \in DOMAIN snapshot /\ p \in Primary /\ TypeOf[p[1]] = "ADS_TXT"
      /\ Scheduled("ADS_TXT", snapshot[p].at) = Ads \ {p}
  BY BeforeLast
<1> QED BY <1>1, NeighbourIs DEF Called, RequiresValidation

\* An observation that no validation was called for changes nothing.
LEMMA UncalledStanding ==
    ASSUME IInv, NEW p, Last(p), ~Called(p)
    PROVE  Standing(Ads) = Standing(Ads \ {p})
<1> DEFINE before == Ads \ {p}
<1> PICK healthy : healthy = PreviousHealthy("ADS_TXT", snapshot[p].at)
  OBVIOUS
<1> PICK affected : affected = PreviousAffected("ADS_TXT", snapshot[p].at)
  OBVIOUS
<1>1. /\ healthy = Null => \A q \in before : snapshot[q].status \notin Healthy
      /\ healthy # Null => /\ healthy \in before /\ snapshot[healthy].status \in Healthy
                           /\ \A q \in before : snapshot[q].status \in Healthy =>
                                  snapshot[q].at <= snapshot[healthy].at
      /\ affected = Null => \A q \in before : snapshot[q].status \notin Condition
      /\ affected # Null => /\ affected \in before /\ snapshot[affected].status \in Condition
                            /\ \A q \in before : snapshot[q].status \in Condition =>
                                   snapshot[q].at <= snapshot[affected].at
      /\ ~ (/\ healthy # Null
            /\ \/ snapshot[p].status \in Condition
               \/ snapshot[p].status \in Healthy /\ After(affected, healthy))
  BY LastCalled
<1>2. p \in Ads /\ (\A q \in Ads : snapshot[q].at <= snapshot[p].at) /\ Ads \in SUBSET Ads
      /\ before \in SUBSET Ads /\ \A q \in Ads : snapshot[q].at \in Nat
  BY Named DEF Last, Ads
<1>3. Healthy \cap Condition = {}
  BY DEF Healthy, Condition
<1>4. CASE snapshot[p].status \in Healthy
  <2>1. Standing(Ads) = {}
    <3>1. Usable(p)
      BY <1>4 DEF Usable
    <3>2. Standing(Ads) = {snapshot[p].status} \cap Condition
      BY <1>2, <1>4, <3>1, StandingIs
    <3> QED BY <1>3, <1>4, <3>2
  <2>2. CASE healthy = Null
    <3>1. Standing(before) = {}
      BY <1>1, <1>2, <2>2, StandingIs
    <3> QED BY <2>1, <3>1
  <2>3. CASE healthy # Null
    <3>1. ~After(affected, healthy) /\ healthy \in before /\ snapshot[healthy].status \in Healthy
      BY <1>1, <1>4, <2>3
    <3>2. \A q \in before : snapshot[q].status \in Condition => snapshot[q].at <= snapshot[healthy].at
      <4>1. affected # Null => ~ (snapshot[affected].at > snapshot[healthy].at)
        BY <3>1 DEF After
      <4> QED BY <1>1, <1>2, <3>1, <4>1
    <3>3. \A q \in before : Usable(q) => snapshot[q].at <= snapshot[healthy].at
      BY <1>1, <2>3, <3>2 DEF Usable
    <3>4. Usable(healthy)
      BY <3>1 DEF Usable
    <3>5. Standing(before) = {snapshot[healthy].status} \cap Condition
      BY <1>2, <3>1, <3>3, <3>4, StandingIs
    <3> QED BY <1>3, <2>1, <3>1, <3>5
  <2> QED BY <2>2, <2>3
<1>5. CASE snapshot[p].status \notin Healthy /\ healthy = Null
  <2>1. \A q \in Ads : snapshot[q].status \notin Healthy
    BY <1>1, <1>5
  <2>2. Standing(Ads) = {} /\ Standing(before) = {}
    BY <1>2, <2>1, StandingIs
  <2> QED BY <2>2
<1>6. CASE snapshot[p].status \notin Healthy /\ snapshot[p].status \notin Condition
  <2>1. /\ {q \in Ads : Usable(q)} = {q \in before : Usable(q)}
        /\ {q \in Ads : snapshot[q].status \in Healthy} = {q \in before : snapshot[q].status \in Healthy}
    BY <1>6 DEF Usable
  <2> QED BY <2>1 DEF Standing
<1> QED BY <1>1, <1>4, <1>5, <1>6

\* After an orderly past, all of it, the conditions are those that stand.
LEMMA OrderlyStanding ==
    ASSUME IInv, Linked, CodesRight, Quiet("ADS_TXT"), NEW t, OrderlyBefore(t),
           \A k \in Seen("ADS_TXT") : snapshot[k].at < t
    PROVE  Codes = Standing(Ads)
<1>1. Ads \in SUBSET DOMAIN snapshot /\ Ads \subseteq Seen("ADS_TXT")
  BY Typing DEF Ads, Seen
<1>2. CASE Ads = {}
  <2>1. Codes = {}
    BY <1>2 DEF Codes, ActiveNow, Linked
  <2>2. Standing(Ads) = {}
    BY <1>2, StandingIs
  <2> QED BY <2>1, <2>2
<1>3. CASE Ads # {}
  <2> PICK p : p = Latest(Ads)
    OBVIOUS
  <2>1. Last(p) /\ p \in Ads
    BY <1>1, <1>3, LatestAll DEF Last
  <2>2. OrderlyBefore(snapshot[p].at)
    <3>1. Scheduled("ADS_TXT", snapshot[p].at) \subseteq Scheduled("ADS_TXT", t)
      BY <1>1 DEF Scheduled, Ads
    <3>2. \A k \in Seen("ADS_TXT") : Usable(k) => k \in heard
      BY DEF OrderlyBefore
    <3> QED BY <3>1, <3>2 DEF OrderlyBefore
  <2>3. Codes = Standing(IF Validated(p) THEN Ads ELSE Ads \ {p})
    BY <2>1, <2>2 DEF CodesRight
  <2>4. ~Validated(p) => ~Called(p)
    <3>1. p \in Scheduled("ADS_TXT", t)
      BY <1>1, <2>1 DEF Scheduled, Ads
    <3> QED BY <3>1 DEF OrderlyBefore
  <2>5. ~Validated(p) => Standing(Ads) = Standing(Ads \ {p})
    BY <2>1, <2>4, UncalledStanding
  <2> QED BY <2>3, <2>5
<1> QED BY <1>2, <1>3
------------------------------------------------------------------------------
(* What the transaction of the last validation leaves active.                *)

\* It ends every active condition of another status: none refers to its primary.
LEMMA EndsOthers ==
    ASSUME IInv, Read, Alone, Holds, Linked, Quiet("ADS_TXT"), NEW w \in Worker, Commit(w),
           TypeOfJob(job[w]) = "ADS_TXT", Tells(value[w]) \in {"UPSERT", "SUPPORT", "RESOLVE"},
           Last(value[w].primary)
    PROVE  \A e \in ActiveNow(Condition) : e[1] # Code(value[w]) => Ends(e, value[w])
<1> DEFINE v == value[w]
           p == v.primary
<1> SUFFICES ASSUME NEW e \in ActiveNow(Condition), e[1] # Code(v)
             PROVE  Ends(e, v)
  OBVIOUS
<1>1. e \in DOMAIN event /\ event[e].status = "ACTIVE" /\ LinkedRow(e[1], event[e])
  BY DEF ActiveNow, Linked
<1>2. \A k \in Seen("ADS_TXT") : snapshot[k].at <= Detected(v)
  BY ConditionCommit
<1>3. event[e].detected <= Detected(v)
  BY <1>1, <1>2 DEF LinkedRow
<1>4. p \in Evidence(v) /\ Code(v) = snapshot[p].status
  BY EvidenceIs DEF Code
<1>5. ASSUME p \in event[e].linked
      PROVE  FALSE
  <2>1. PICK s \in event[e].linked : snapshot[s].at > snapshot[p].at
    BY <1>1, <1>4, <1>5 DEF LinkedRow
  <2>2. s \in Ads /\ p \in Ads
    BY <1>1, <1>5 DEF LinkedRow
  <2>3. snapshot[s].at <= snapshot[p].at /\ snapshot[s].at \in Nat /\ snapshot[p].at \in Nat
    BY <2>2, Named DEF Last, Ads
  <2> QED BY <2>1, <2>3
<1> QED BY <1>3, <1>4, <1>5 DEF Ends

LEMMA CommitCodes ==
    ASSUME IInv, Read, Alone, Holds, Linked, Quiet("ADS_TXT"), NEW w \in Worker, Commit(w),
           Upsert(w) \/ Support(w) \/ Resolve(w), TypeOfJob(job[w]) = "ADS_TXT",
           Last(value[w].primary)
    PROVE  LET v == value[w] IN
           \/ Tells(v) = "SUPPORT" /\ Codes' = Codes
           \/ Tells(v) = "UPSERT" /\ Codes' = {Code(v)}
           \/ Tells(v) = "RESOLVE" /\ Codes' = {}
<1> DEFINE v == value[w]
           rows == ActiveNow(Concerned(v))
           more(r, n) == [r EXCEPT !.linked = @ \cup Evidence(v), !.support = n]
           others == {i \in rows : i[1] # Code(v)}
<1>1. Tells(v) \in {"UPSERT", "SUPPORT", "RESOLVE"}
  BY DEF Upsert, Support, Resolve
<1>2. \A e \in ActiveNow(Condition) : e[1] # Code(v) => Ends(e, v)
  BY <1>1, EndsOthers
<1>3. /\ \A e \in DOMAIN event : event[e] \in Event /\ e[1] \in Condition
      /\ Tells(v) # "SUPPORT" => rows = ActiveNow(Condition)
  BY <1>1 DEF IInv, Events, Concerned
<1>4. /\ Tells(v) = "RESOLVE" => Code(v) \notin Condition
      /\ Tells(v) = "UPSERT" => Code(v) \in Condition
  <2>1. Healthy \cap Condition = {}
    BY DEF Healthy, Condition
  <2> QED BY <1>1, <2>1, ConditionCommit DEF Code
<1>5. \A e : e \in ActiveNow(Condition) <=> e \in DOMAIN event /\ event[e].status = "ACTIVE"
  BY <1>3 DEF ActiveNow
<1>6. \A r \in Event : \A n : more(r, n).status = r.status
  BY DEF Event
<1>7. Codes' = {e[1] : e \in {i \in DOMAIN event' : event'[i].status = "ACTIVE" /\ i[1] \in Condition}}
  BY DEF Codes, ActiveNow
<1> PICK after : after = Resolved(others, v)
  OBVIOUS
<1>8. ASSUME Tells(v) = "UPSERT"
      PROVE  /\ DOMAIN after = DOMAIN event
             /\ \A e \in DOMAIN event : after[e].status = "ACTIVE" => e[1] = Code(v)
             /\ \A e \in DOMAIN event : e[1] = Code(v) => after[e] = event[e]
  <2>1. ASSUME NEW e \in DOMAIN event, after[e].status = "ACTIVE", e[1] # Code(v)
        PROVE  FALSE
    <3>1. ~ (e \in others /\ Ends(e, v))
      BY <2>1, ResolvedLinked
    <3>2. after[e] = event[e]
      BY <3>1, ResolvedLinked
    <3>3. e \in ActiveNow(Condition)
      BY <1>5, <2>1, <3>2
    <3> QED BY <1>2, <1>3, <1>8, <2>1, <3>1, <3>3
  <2> QED BY <2>1, ResolvedLinked
<1>9. CASE Tells(v) = "RESOLVE" /\ event' = Resolved(rows, v)
  <2>1. ASSUME NEW e \in DOMAIN event', event'[e].status = "ACTIVE"
        PROVE  FALSE
    <3>1. e \in DOMAIN event /\ ~ (e \in rows /\ Ends(e, v))
      BY <1>9, <2>1, ResolvedLinked
    <3>2. event'[e] = event[e]
      BY <1>9, <3>1, ResolvedLinked
    <3>3. e \in ActiveNow(Condition) /\ e[1] # Code(v)
      BY <1>3, <1>4, <1>5, <1>9, <2>1, <3>1, <3>2
    <3> QED BY <1>2, <1>3, <1>9, <3>1, <3>3
  <2>2. Codes' = {}
    BY <1>7, <2>1
  <2> QED BY <1>9, <2>2
<1>10. CASE Tells(v) = "SUPPORT" /\ event' = event
  BY <1>10 DEF Codes, ActiveNow
<1>11. ASSUME Tells(v) = "SUPPORT", NEW i \in rows, NEW n \in Int,
              event' = [event EXCEPT ![i] = more(event[i], n)]
       PROVE  Codes' = Codes
  <2>1. i \in DOMAIN event
    BY DEF ActiveNow
  <2>2. event[i] \in Event
    BY <1>3, <2>1
  <2> HIDE DEF more
  <2>3. DOMAIN event' = DOMAIN event /\ \A e \in DOMAIN event : event'[e].status = event[e].status
    BY <1>6, <1>11, <2>1, <2>2
  <2> QED BY <2>3 DEF Codes, ActiveNow
<1>12. CASE Tells(v) = "UPSERT" /\ event' = Opened(after, <<Code(v), v.primary>>, v)
  <2> PICK id : id = <<Code(v), v.primary>>
    OBVIOUS
  <2>1. /\ DOMAIN event' = DOMAIN event \cup {id} /\ event'[id].status = "ACTIVE" /\ id[1] = Code(v)
        /\ \A e \in DOMAIN event : e # id => event'[e] = after[e]
    BY <1>8, <1>12 DEF Opened
  <2>2. \A e \in DOMAIN event' : event'[e].status = "ACTIVE" => e[1] = Code(v)
    BY <1>8, <1>12, <2>1
  <2>3. id \in {i \in DOMAIN event' : event'[i].status = "ACTIVE" /\ i[1] \in Condition}
    BY <1>4, <1>12, <2>1
  <2>4. Codes' = {Code(v)}
    BY <1>7, <2>1, <2>2, <2>3
  <2> QED BY <1>12, <2>4
<1>13. ASSUME Tells(v) = "UPSERT", NEW i \in ActiveNow({Code(v)}), NEW n \in Int,
              event' = [after EXCEPT ![i] = more(after[i], n)]
       PROVE  Codes' = {Code(v)}
  <2>1. i \in DOMAIN event /\ i[1] = Code(v) /\ event[i].status = "ACTIVE" /\ after[i] = event[i]
        /\ after[i] \in Event
    BY <1>3, <1>8, <1>13 DEF ActiveNow
  <2> HIDE DEF more
  <2>2. /\ DOMAIN event' = DOMAIN event /\ event'[i].status = "ACTIVE"
        /\ \A e \in DOMAIN event : e # i => event'[e] = after[e]
    BY <1>6, <1>8, <1>13, <2>1
  <2>3. \A e \in DOMAIN event' : event'[e].status = "ACTIVE" => e[1] = Code(v)
    BY <1>8, <1>13, <2>1, <2>2
  <2>4. i \in {j \in DOMAIN event' : event'[j].status = "ACTIVE" /\ j[1] \in Condition}
    BY SMTT(60), <1>4, <1>13, <2>1, <2>2
  <2> QED BY <1>7, <2>1, <2>3, <2>4
<1>14. \/ Tells(v) = "RESOLVE" /\ event' = Resolved(rows, v)
       \/ Tells(v) = "SUPPORT" /\ event' = event
       \/ /\ Tells(v) = "SUPPORT"
          /\ \E i \in rows, n \in Int : event' = [event EXCEPT ![i] = more(event[i], n)]
       \/ /\ Tells(v) = "UPSERT"
          /\ event' = Opened(Resolved(others, v), <<Code(v), v.primary>>, v)
       \/ /\ Tells(v) = "UPSERT"
          /\ \E i \in ActiveNow({Code(v)}), n \in Int :
                event' = [Resolved(others, v) EXCEPT ![i] = more(Resolved(others, v)[i], n)]
  BY CommitRows
<1>15. after = Resolved(others, v)
  OBVIOUS
<1> QED BY ZenonT(60), <1>9, <1>10, <1>11, <1>12, <1>13, <1>14, <1>15
------------------------------------------------------------------------------
(* The active conditions after a step.                                       *)

LEMMA StandingStays ==
    ASSUME IInv, IInv', Grows, NEW S \in SUBSET DOMAIN snapshot
    PROVE  Standing(S)' = Standing(S)
<1> DEFINE fit(H) == {q \in S : snapshot[q].status \in H}
<1>1. \A H : fit(H)' = fit(H) /\ fit(H) \in SUBSET DOMAIN snapshot
  BY DEF Grows
<1>2. \A H : Latest(fit(H))' = Latest(fit(H))
  BY <1>1, LatestStays
<1> PICK last : last = Latest(fit(Healthy \cup Condition))
  OBVIOUS
<1>3. last # Null => last \in DOMAIN snapshot /\ snapshot'[last] = snapshot[last]
  <2>1. last # Null => last \in fit(Healthy \cup Condition)
    BY <1>1, LatestAll
  <2> QED BY <1>1, <2>1 DEF Grows
<1>4. Latest({q \in S : Usable(q)}) = last /\ Latest({q \in S : Usable(q)})' = last
  BY <1>2 DEF Usable
<1>5. Latest({q \in S : snapshot[q].status \in Healthy})' = Latest({q \in S : snapshot[q].status \in Healthy})
  BY <1>2
<1> QED BY <1>3, <1>4, <1>5 DEF Standing

\* A past that is orderly after a step was orderly before it.
LEMMA OrderlyBack ==
    ASSUME IInv, IInv', Attempts, Alone, PointsKept, [Next]_vars, Quiet("ADS_TXT")',
           NEW t, OrderlyBefore(t)',
           \A k \in Ads' \ Ads : ~ (snapshot'[k].at < t),
           \A k \in heard' \ heard : k \in Seen("ADS_TXT") => ~ (snapshot[k].at < t),
           \A q \in Scheduled("ADS_TXT", t) : Validated(q)' => Validated(q)
    PROVE  OrderlyBefore(t)
<1>0. (\A k \in DOMAIN snapshot : snapshot[k].at \in Nat)'
  BY Instanced, PTL
<1>1. Grows /\ Quiet("ADS_TXT")
  BY SnapshotStep DEF Quiet
<1>2. \A k \in DOMAIN snapshot : snapshot'[k] = snapshot[k] /\ k \in DOMAIN snapshot'
  BY <1>1 DEF Grows
<1>3. \A k \in Seen("ADS_TXT") : k \in DOMAIN snapshot /\ k \in Seen("ADS_TXT")'
  BY <1>2 DEF Seen, TypeOfJob
<1>4. ASSUME NEW k \in Seen("ADS_TXT"), snapshot[k].at < t, Usable(k)
      PROVE  k \in heard
  <2>1. k \in heard'
    BY <1>2, <1>3, <1>4 DEF OrderlyBefore, Usable
  <2> QED BY <1>4, <2>1
<1>5. ASSUME NEW k \in Seen("ADS_TXT"), k[1] \in Validate
      PROVE  InTurn(k)
  <2> PICK u : u = snapshot[k].at
    OBVIOUS
  <2>1. \A l \in DOMAIN snapshot' \ DOMAIN snapshot :
            l \in Primary /\ TypeOf[l[1]] = "ADS_TXT" => ~ (snapshot'[l].at < u)
    <3> SUFFICES ASSUME NEW l \in DOMAIN snapshot' \ DOMAIN snapshot, l \in Primary,
                        TypeOf[l[1]] = "ADS_TXT"
                 PROVE  ~ (snapshot'[l].at < u)
      OBVIOUS
    <3>1. snapshot'[l].at > u
      BY <1>1, Typing, AddedLater
    <3>2. snapshot'[l].at \in Nat
      BY <1>0
    <3>3. u \in Nat
      BY <1>3, Named
    <3> QED BY <3>1, <3>2, <3>3
  <2>2. Latest(Scheduled("ADS_TXT", u))' = Latest(Scheduled("ADS_TXT", u))
    BY <1>1, <2>1, PastStays
  <2>3. TypeOfJob(k[1]) = "ADS_TXT" /\ snapshot'[k].at = u
    BY <1>2, <1>3 DEF Seen
  <2>4. InTurn(k)'
    BY <1>3, <1>5 DEF OrderlyBefore
  <2>5. k[1][2] = Latest(Scheduled("ADS_TXT", u))'
    BY <2>3, <2>4 DEF InTurn, TypeOfJob
  <2> QED BY <2>2, <2>3, <2>5 DEF InTurn
<1>6. ASSUME NEW q \in Scheduled("ADS_TXT", t), Called(q)
      PROVE  Validated(q)
  <2>1. q \in DOMAIN snapshot /\ q \in Primary /\ TypeOf[q[1]] = "ADS_TXT"
    BY DEF Scheduled
  <2>2. Called(q)'
    BY <1>6, <2>1, QuietStays
  <2>3. q \in Scheduled("ADS_TXT", t)'
    BY <1>2, <2>1 DEF Scheduled
  <2>4. Validated(q)'
    BY <2>2, <2>3 DEF OrderlyBefore
  <2> QED BY <2>4
<1> QED BY <1>4, <1>5, <1>6 DEF OrderlyBefore

\* What was validated stays so, and no more than the transaction adds.
LEMMA ValidatedStays ==
    ASSUME IInv, Grows, PointsKept, NEW q \in DOMAIN snapshot
    PROVE  /\ heard \subseteq heard' /\ Validated(q) => Validated(q)'
           /\ Validated(q)' => \/ Validated(q)
                               \/ \E v \in heard' \ heard : v[1] = <<"validate", q>> /\ Agrees(q, v)'
<1>1. heard \subseteq DOMAIN snapshot
  BY DEF PointsKept
<1>2. \A v \in DOMAIN snapshot : Agrees(q, v)' = Agrees(q, v)
  BY DEF Agrees, Grows
<1> QED BY <1>1, <1>2 DEF Validated

\* A snapshot that is added to ads.txt is the last, and its validation is to come.
LEMMA CodesAfterFetch ==
    ASSUME IInv, IInv', Attempts, Alone, PointsKept, Linked, CodesRight, [Next]_vars,
           Quiet("ADS_TXT")', UNCHANGED <<event, heard>>, Ads' # Ads,
           NEW p \in Ads', Last(p)', NEW t, t = snapshot'[p].at, OrderlyBefore(t)'
    PROVE  ~Validated(p)' /\ Codes' = Standing(Ads \ {p})'
<1>0. (\A k \in DOMAIN snapshot : snapshot[k].at \in Nat)'
  BY Instanced, PTL
<1>1. Grows /\ Quiet("ADS_TXT")
  BY SnapshotStep DEF Quiet
<1>2. Ads \subseteq Ads' /\ Ads \subseteq DOMAIN snapshot /\ Ads \subseteq Seen("ADS_TXT")
      /\ Ads' \subseteq DOMAIN snapshot'
  BY <1>1, Typing DEF Ads, Grows, Seen
<1>3. PICK k \in Ads' : k \notin Ads
  BY <1>2
<1>4. k \in DOMAIN snapshot' \ DOMAIN snapshot /\ k \in Primary /\ TypeOf[k[1]] = "ADS_TXT"
  BY <1>1, <1>3 DEF Ads, Grows
<1>5. DOMAIN snapshot' = DOMAIN snapshot \cup {k}
  BY ZenonT(60), <1>4, SnapshotStep, RespondStep
<1>6. \A l \in Seen("ADS_TXT") : snapshot'[k].at > snapshot[l].at
  BY <1>1, <1>4, Typing, AddedLater
<1>7. p = k
  <2>1. ASSUME p # k PROVE FALSE
    <3>1. p \in Ads /\ snapshot'[p] = snapshot[p] /\ snapshot'[k].at <= snapshot'[p].at
      BY <1>1, <1>3, <1>5, <2>1 DEF Ads, Grows, Last
    <3>2. snapshot'[k].at \in Nat /\ snapshot'[p].at \in Nat
      BY <1>0, <1>2, <1>3
    <3> QED BY <1>2, <1>6, <3>1, <3>2
  <2> QED BY <2>1
<1>8. Ads' = Ads \cup {k}
  BY <1>1, <1>2, <1>3, <1>5 DEF Ads, Grows
<1>9. ~Validated(k)'
  <2>1. ASSUME NEW v \in heard, v[1] = <<"validate", k>> PROVE FALSE
    <3>1. v \in DOMAIN snapshot /\ v[1] \in Validate
      BY <1>4, <2>1, ValidateJob DEF PointsKept
    <3>2. v[1][2] \in DOMAIN snapshot
      BY <3>1, Named
    <3> QED BY <1>4, <2>1, <3>2
  <2> QED BY <2>1 DEF Validated
<1>10. OrderlyBefore(t)
  <2>1. \A q \in Scheduled("ADS_TXT", t) : Validated(q)' => Validated(q)
    BY <1>1, ValidatedStays DEF Scheduled
  <2>2. \A l \in Ads' \ Ads : ~ (snapshot'[l].at < t)
    BY <1>0, <1>2, <1>7, <1>8
  <2> QED BY <2>1, <2>2, OrderlyBack
<1>11. Codes = Standing(Ads)
  BY <1>1, <1>6, <1>7, <1>10, OrderlyStanding
<1> PICK S : S = Ads
  OBVIOUS
<1>12. Ads' \ {p} = S
  BY <1>3, <1>7, <1>8
<1>13. Standing(Ads \ {p})' = Standing(S)'
  BY <1>12 DEF Standing
<1>14. Standing(S)' = Standing(S)
  BY <1>1, <1>2, StandingStays
<1>15. Codes' = Codes
  BY DEF Codes, ActiveNow
<1> QED BY <1>7, <1>9, <1>11, <1>13, <1>14, <1>15

\* Nothing is heard and no observation is scheduled: nothing changes.
LEMMA CodesAfterOther ==
    ASSUME IInv, IInv', Attempts, Alone, PointsKept, Linked, CodesRight, [Next]_vars,
           Quiet("ADS_TXT")', Codes' = Codes, Ads' = Ads,
           NEW p \in Ads, Last(p)', NEW t, t = snapshot'[p].at, OrderlyBefore(t)',
           \A k \in heard' \ heard : k \in Seen("ADS_TXT") => ~ (snapshot[k].at < t),
           \A q \in Ads : Validated(q)' => Validated(q),
           heard \subseteq heard'
    PROVE  Codes' = IF Validated(p)' THEN Standing(Ads)' ELSE Standing(Ads \ {p})'
<1>1. Grows /\ Quiet("ADS_TXT")
  BY SnapshotStep DEF Quiet
<1>2. Ads \in SUBSET DOMAIN snapshot /\ Ads \ {p} \in SUBSET DOMAIN snapshot
      /\ \A q \in Ads : snapshot'[q] = snapshot[q]
  BY <1>1 DEF Ads, Grows
<1>3. Last(p)
  BY <1>2 DEF Last
<1>4. OrderlyBefore(t)
  <2>1. Scheduled("ADS_TXT", t) \subseteq Ads
    BY DEF Scheduled, Ads
  <2> QED BY <2>1, OrderlyBack
<1>5. Codes = Standing(IF Validated(p) THEN Ads ELSE Ads \ {p})
  BY <1>1, <1>2, <1>3, <1>4 DEF CodesRight
<1>6. Validated(p)' <=> Validated(p)
  BY <1>1, <1>2, ValidatedStays
<1> PICK S : S = Ads
  OBVIOUS
<1>7. Standing(S)' = Standing(S) /\ Standing(S \ {p})' = Standing(S \ {p})
  BY <1>1, <1>2, StandingStays
<1>8. Standing(Ads)' = Standing(S)' /\ Standing(Ads \ {p})' = Standing(S \ {p})'
  BY DEF Standing
<1>9. CASE Validated(p)
  BY <1>5, <1>6, <1>7, <1>8, <1>9
<1>10. CASE ~Validated(p)
  BY SMTT(60), <1>5, <1>6, <1>7, <1>8, <1>10
<1> QED BY <1>9, <1>10

\* What the last validation of ads.txt tells when it agrees with its primary.
LEMMA LastTells ==
    ASSUME IInv, Read, Quiet("ADS_TXT"), NEW w \in Worker, Commits(w), Commit(w),
           NEW p, p = value[w].primary, Last(p), Called(p), Agrees(p, value[w].validation)
    PROVE  LET b == Neighbour(p) IN
           /\ Upsert(w) \/ Support(w) \/ Resolve(w)
           /\ snapshot[p].status \in Healthy \cup Condition
           /\ snapshot[p].status \in Healthy => Tells(value[w]) = "RESOLVE"
           /\ snapshot[p].status \in Condition => Tells(value[w]) # "RESOLVE"
           /\ Tells(value[w]) = "SUPPORT" => /\ b \in Ads \ {p} /\ snapshot[b].status = snapshot[p].status
                                             /\ \A q \in Ads \ {p} : snapshot[q].at <= snapshot[b].at
           /\ \E q \in Ads \ {p} : snapshot[q].status \in Healthy
<1> DEFINE v == value[w]
           before == Ads \ {p}
<1> PICK healthy : healthy = PreviousHealthy("ADS_TXT", snapshot[p].at)
  OBVIOUS
<1> PICK affected : affected = PreviousAffected("ADS_TXT", snapshot[p].at)
  OBVIOUS
<1> PICK b : b = Neighbour(p)
  OBVIOUS
<1> PICK prev : prev = v.previous
  OBVIOUS
<1>1. /\ p \in DOMAIN snapshot /\ p \in Primary /\ TypeOf[p[1]] = "ADS_TXT"
      /\ Scheduled("ADS_TXT", snapshot[p].at) = before
  BY BeforeLast
<1>2. /\ pc[w] = "commit" /\ TypeOfJob(job[w]) = "ADS_TXT"
  BY <1>1, CommitIs
<1>3. prev = Previous(p)
  BY SMTT(60), <1>1, <1>2 DEF Read
<1>4. /\ healthy \in before /\ snapshot[healthy].status \in Healthy
      /\ \/ snapshot[p].status \in Condition
         \/ snapshot[p].status \in Healthy /\ After(affected, healthy)
  BY SMTT(60), LastCalled
<1>5. affected # Null => affected \in before /\ snapshot[affected].status \in Condition
  BY SMTT(60), LastCalled
<1>6. b \in before /\ \A q \in before : snapshot[q].at <= snapshot[b].at
  BY ZenonT(60), <1>1, <1>4, NeighbourIs
<1>7. \A q \in before : q # Null
  BY Named DEF Ads
<1>8. Healthy \cap Condition = {}
  BY DEF Healthy, Condition
<1>9. snapshot[p].status \in Condition => prev = b
  BY <1>1, <1>3, <1>8, PreviousOrNeighbour
<1>10. ASSUME snapshot[p].status \in Healthy
       PROVE  prev \in before /\ snapshot[prev].status \in Condition
  <2>1. After(affected, healthy) /\ affected # Null
    BY <1>4, <1>8, <1>10 DEF After
  <2>2. b = Latest(Scheduled("ADS_TXT", snapshot[p].at))
    BY <1>1 DEF Neighbour
  <2>3. CASE snapshot[b].status \in Condition
    <3>1. prev = b
      BY SMTT(60), <1>1, <1>3, <1>6, <1>7, <2>2, <2>3 DEF Previous
    <3> QED BY SMTT(60), <1>6, <2>3, <3>1
  <2>4. CASE snapshot[b].status \notin Condition
    <3>1. prev = affected
      BY <1>1, <1>3, <1>10, <2>1, <2>2, <2>4 DEF Previous
    <3> QED BY <1>5, <2>1, <3>1
  <2> QED BY SMTT(60), <2>3, <2>4
<1>11. Tells(v) = AdsTells(snapshot[prev], snapshot[p], TRUE)
  <2>1. prev # Null
    BY <1>4, <1>6, <1>7, <1>9, <1>10
  <2>2. Agrees(v.primary, v.validation) = TRUE
    BY SMTT(60) DEF Agrees
  <2> QED BY SMTT(60), <1>1, <2>1, <2>2 DEF Tells
<1> DEFINE told == Tells(v)
<1> HIDE DEF told
<1>12. /\ snapshot[p].status \in Healthy => told = "RESOLVE"
       /\ snapshot[p].status \in Condition =>
             told = IF snapshot[prev].status = snapshot[p].status THEN "SUPPORT" ELSE "UPSERT"
  BY <1>8, <1>10, <1>11 DEF AdsTells, told
<1>13. told \in {"RESOLVE", "SUPPORT", "UPSERT"}
  BY <1>4, <1>12
<1>14. Upsert(w) \/ Support(w) \/ Resolve(w)
  <2>1. DOMAIN pc = Worker
    BY DEF IInv, WorkerTypeOK
  <2>2. ~Conflict(w)
    BY <2>1 DEF Conflict, Commit, Rollback, Goes, Onward
  <2>3. ~Record(w) /\ ~Ignore(w)
    BY <1>13 DEF Record, Ignore, Point, told
  <2> QED BY <2>2, <2>3 DEF Commits
<1> QED BY <1>4, <1>6, <1>8, <1>9, <1>12, <1>14 DEF told

\* A transaction that is heard: the last one decides what is active.
LEMMA CodesAfterCommit ==
    ASSUME IInv, IInv', Attempts, Alone, Read, CalledFor, PointsKept, Linked, Holds, CodesRight,
           [Next]_vars, Quiet("ADS_TXT")', NEW w \in Worker, Commits(w), Commit(w),
           NEW p \in Ads', Last(p)', NEW t, t = snapshot'[p].at, OrderlyBefore(t)'
    PROVE  Codes' = IF Validated(p)' THEN Standing(Ads)' ELSE Standing(Ads \ {p})'
<1> PICK k : k = Key(w)
  OBVIOUS
<1>1. Grows /\ Quiet("ADS_TXT")
  BY SnapshotStep DEF Quiet
<1>2. /\ pc[w] = "commit" /\ UNCHANGED snapshot /\ heard' = heard \cup {k}
      /\ k[1] = job[w] /\ job[w] \in PublicJob /\ k \in Seen(TypeOfJob(job[w]))
      /\ value[w].primary = PrimaryOf(k) /\ PrimaryOf(k) \in Primary
      /\ TypeOf[PrimaryOf(k)[1]] = TypeOfJob(job[w])
      /\ value[w].validation = (IF job[w] \in Fetch THEN Null ELSE k)
  BY CommitIs
<1>3. Ads' = Ads /\ Last(p) /\ p \in Ads /\ t = snapshot[p].at
  BY <1>2 DEF Ads, Last
<1>4. Ads \in SUBSET DOMAIN snapshot /\ \A q \in Ads : snapshot[q].at \in Nat /\ q \in Primary
  BY Named DEF Ads
<1>5. k \in Seen("ADS_TXT") => TypeOfJob(job[w]) = "ADS_TXT" /\ t <= snapshot[k].at /\ snapshot[k].at \in Nat
  <2>1. k \in Seen("ADS_TXT") => TypeOfJob(job[w]) = "ADS_TXT"
    BY <1>2 DEF Seen
  <2>2. p \in Seen("ADS_TXT")
    BY <1>3, Typing DEF Ads, Seen
  <2>3. TypeOfJob(job[w]) = "ADS_TXT" => snapshot[p].at <= snapshot[k].at
    BY <1>1, <1>2, <2>2 DEF Alone, Busy, At
  <2> QED BY <1>3, <2>1, <2>3, Named DEF Seen
<1>6. \A l \in heard' \ heard : l \in Seen("ADS_TXT") => ~ (snapshot[l].at < t)
  BY <1>2, <1>3, <1>4, <1>5
<1>7. ASSUME NEW q \in Ads, Validated(q)', ~Validated(q)
      PROVE  /\ k[1] = <<"validate", q>> /\ Agrees(q, k) /\ job[w] \in Validate /\ PrimaryOf(k) = q
             /\ TypeOfJob(job[w]) = "ADS_TXT"
  <2>1. k[1] = <<"validate", q>> /\ Agrees(q, k)'
    BY <1>1, <1>2, <1>4, <1>7, ValidatedStays
  <2>2. Agrees(q, k)
    BY <1>2, <2>1 DEF Agrees
  <2>3. job[w] \in Validate /\ job[w] \notin Fetch
    BY <1>2, <1>4, <2>1, ValidateJob
  <2>4. PrimaryOf(k) = q
    BY <1>2, <2>1, <2>3 DEF PrimaryOf
  <2>5. TypeOfJob(job[w]) = "ADS_TXT"
    BY <1>2, <2>4 DEF Ads
  <2> QED BY <2>1, <2>2, <2>3, <2>4, <2>5
<1>8. CASE ~ (job[w] \in Validate /\ TypeOfJob(job[w]) = "ADS_TXT" /\ Agrees(PrimaryOf(k), k))
  <2>1. \A q \in Ads : Validated(q)' => Validated(q)
    BY <1>7, <1>8
  <2>2. UNCHANGED event
    <3>1. ASSUME Upsert(w) \/ Support(w) \/ Resolve(w), TypeOfJob(job[w]) = "ADS_TXT"
          PROVE  FALSE
      <4>1. Tells(value[w]) \in {"UPSERT", "SUPPORT", "RESOLVE"}
        BY <3>1 DEF Upsert, Support, Resolve
      <4>2. job[w] \in Validate /\ Agrees(value[w].primary, value[w].validation)
            /\ value[w].validation = k
        BY <3>1, <4>1, ConditionCommit
      <4> QED BY <1>2, <1>8, <3>1, <4>2
    <3> QED BY <3>1, CommitEvent
  <2>3. Codes' = Codes
    BY <2>2 DEF Codes, ActiveNow
  <2> QED BY <1>2, <1>3, <1>6, <2>1, <2>3, CodesAfterOther
<1>9. CASE job[w] \in Validate /\ TypeOfJob(job[w]) = "ADS_TXT" /\ Agrees(PrimaryOf(k), k)
  <2>1. job[w] \notin Fetch /\ job[w] = <<"validate", job[w][2]>> /\ PrimaryOf(k) = job[w][2]
        /\ k \in Seen("ADS_TXT") /\ k \in DOMAIN snapshot /\ k \notin Primary
    BY <1>2, <1>9, ValidateJob DEF PrimaryOf, Seen
  <2>2. PrimaryOf(k) = p
    <3>1. InTurn(k)'
      BY <1>2, <1>9, <2>1 DEF OrderlyBefore, Seen
    <3>2. PrimaryOf(k) = Latest(Scheduled("ADS_TXT", snapshot[k].at))
      <4> PICK u : u = snapshot[k].at
        OBVIOUS
      <4>1. Latest(Scheduled("ADS_TXT", u))' = Latest(Scheduled("ADS_TXT", u))
        BY <1>1, <1>2, PastStays
      <4>2. PrimaryOf(k) = Latest(Scheduled("ADS_TXT", u))'
        BY <1>2, <1>9, <2>1, <3>1 DEF InTurn, TypeOfJob
      <4> QED BY <4>1, <4>2
    <3>3. \A q \in Ads : snapshot[q].at < snapshot[k].at
      <4>1. \A q \in Ads : snapshot[q].at <= snapshot[p].at
        BY <1>3 DEF Last
      <4>2. \A q \in Ads : snapshot[q].at # snapshot[k].at
        BY <1>4, <2>1, Named
      <4> QED BY <1>3, <1>4, <1>5, <2>1, <4>1, <4>2
    <3>4. Scheduled("ADS_TXT", snapshot[k].at) = Ads
      BY <3>3 DEF Scheduled, Ads
    <3>5. Latest(Ads) = p
      BY <1>3, <1>4, LatestUnique DEF Last
    <3> QED BY <3>2, <3>4, <3>5
  <2>3. Called(p)
    BY <1>1, <1>2, <1>9, <2>1, <2>2 DEF CalledFor
  <2>4. value[w].primary = p /\ value[w].validation = k /\ Agrees(p, k)
    BY <1>2, <1>9, <2>1, <2>2
  <2> PICK b : b = Neighbour(p)
    OBVIOUS
  <2>5. /\ Upsert(w) \/ Support(w) \/ Resolve(w)
        /\ snapshot[p].status \in Healthy \cup Condition
        /\ snapshot[p].status \in Healthy => Tells(value[w]) = "RESOLVE"
        /\ snapshot[p].status \in Condition => Tells(value[w]) # "RESOLVE"
        /\ Tells(value[w]) = "SUPPORT" => /\ b \in Ads \ {p} /\ snapshot[b].status = snapshot[p].status
                                          /\ \A q \in Ads \ {p} : snapshot[q].at <= snapshot[b].at
        /\ \E q \in Ads \ {p} : snapshot[q].status \in Healthy
    BY <1>1, <1>3, <2>3, <2>4, LastTells
  <2>6. Standing(Ads) = {snapshot[p].status} \cap Condition
    <3>1. Usable(p) /\ \E q \in Ads : snapshot[q].status \in Healthy
      BY <2>5 DEF Usable
    <3> QED BY <1>3, <3>1, StandingIs DEF Last
  <2>7. Validated(p)'
    <3>1. k[1] = <<"validate", p>>
      BY <1>2, <2>1, <2>2
    <3>2. Agrees(p, k)'
      BY <1>2, <2>4 DEF Agrees
    <3> QED BY <1>2, <3>1, <3>2 DEF Validated
  <2>8. Standing(Ads)' = Standing(Ads)
    BY <1>2, <1>3 DEF Standing, Latest, Usable
  <2>9. Code(value[w]) = snapshot[p].status /\ Healthy \cap Condition = {}
    BY <2>4 DEF Code, Healthy, Condition
  <2>10. ASSUME Tells(value[w]) = "SUPPORT"
         PROVE  Codes = {snapshot[p].status} \cap Condition
    <3>1. OrderlyBefore(t)
      <4>1. \A q \in Scheduled("ADS_TXT", t) : Validated(q)' => Validated(q)
        <5> SUFFICES ASSUME NEW q \in Scheduled("ADS_TXT", t), Validated(q)', ~Validated(q)
                     PROVE  FALSE
          OBVIOUS
        <5>1. q \in Ads /\ snapshot[q].at < t
          BY DEF Scheduled, Ads
        <5>2. q = p
          BY <1>7, <2>2, <5>1
        <5> QED BY <1>3, <1>4, <5>1, <5>2
      <4> QED BY <1>3, <1>6, <4>1, OrderlyBack
    <3>2. Codes = Standing(IF Validated(p) THEN Ads ELSE Ads \ {p})
      BY <1>1, <1>3, <3>1 DEF CodesRight
    <3>3. Standing(Ads \ {p}) = {snapshot[b].status} \cap Condition
      <4>1. Usable(b) /\ Ads \ {p} \in SUBSET Ads
        BY <2>5, <2>10 DEF Usable
      <4> QED BY <2>5, <2>10, <4>1, StandingIs
    <3> QED BY <2>5, <2>6, <2>10, <3>2, <3>3
  <2>11. \/ Tells(value[w]) = "SUPPORT" /\ Codes' = Codes
         \/ Tells(value[w]) = "UPSERT" /\ Codes' = {Code(value[w])}
         \/ Tells(value[w]) = "RESOLVE" /\ Codes' = {}
    BY <1>1, <1>3, <1>9, <2>4, <2>5, CommitCodes
  <2>12. Codes' = {snapshot[p].status} \cap Condition
    BY <2>5, <2>9, <2>10, <2>11
  <2> QED BY <2>6, <2>7, <2>8, <2>12
<1> QED BY <1>8, <1>9

LEMMA CodesRightStep ==
    ASSUME IInv, IInv', Attempts, Alone, Read, CalledFor, PointsKept, Linked, Holds, CodesRight,
           [Next]_vars
    PROVE  CodesRight'
<1> SUFFICES ASSUME Quiet("ADS_TXT")', NEW p \in Ads', Last(p)', NEW t, t = snapshot'[p].at,
                    OrderlyBefore(t)'
             PROVE  Codes' = IF Validated(p)' THEN Standing(Ads)' ELSE Standing(Ads \ {p})'
  <2>1. ASSUME NEW p \in Ads', OrderlyBefore(snapshot[p].at)', NEW t, t = snapshot'[p].at
        PROVE  OrderlyBefore(t)'
    BY <2>1 DEF OrderlyBefore
  <2>2. ASSUME NEW p \in Ads'
        PROVE  Standing(IF Validated(p) THEN Ads ELSE Ads \ {p})' =
                  IF Validated(p)' THEN Standing(Ads)' ELSE Standing(Ads \ {p})'
    OBVIOUS
  <2> QED BY <2>1, <2>2 DEF CodesRight
<1>1. CASE \E w \in Worker : Commits(w) /\ Commit(w)
  BY <1>1, CodesAfterCommit
<1>2. CASE UNCHANGED <<event, heard>> /\ Ads' # Ads
  BY <1>2, CodesAfterFetch
<1>3. CASE UNCHANGED <<event, heard>> /\ Ads' = Ads
  <2>1. Codes' = Codes
    BY <1>3 DEF Codes, ActiveNow
  <2>2. Grows /\ \A q \in Ads : q \in DOMAIN snapshot
    BY SnapshotStep DEF Ads
  <2>3. \A q \in Ads : Validated(q)' => Validated(q)
    BY <1>3, <2>2, ValidatedStays
  <2> QED BY <1>3, <2>1, <2>3, CodesAfterOther
<1> QED BY <1>1, <1>2, <1>3, RecordsStep
------------------------------------------------------------------------------
(* The theorem.                                                              *)

LEMMA InitTold == Init => ToldInv
<1> SUFFICES ASSUME Init PROVE ToldInv
  OBVIOUS
<1>1. DOMAIN snapshot = {} /\ DOMAIN event = {} /\ point = {} /\ heard = {}
  BY DEF Init
<1>2. \A w \in Worker : pc[w] = "idle" /\ job[w] = Null
  BY DEF Init, WorkerInit
<1>3. Attempts /\ Alone /\ AdsOpen /\ Read /\ CalledFor
  BY <1>1, <1>2 DEF Attempts, Alone, Busy, AdsOpen, Seen, Read, CalledFor
<1>4. PointsRight /\ PointsKept /\ Linked /\ Holds /\ CodesRight
  BY <1>1, <1>2 DEF PointsRight, PointsKept, Linked, Holds, CodesRight, Ads
<1> QED BY <1>3, <1>4 DEF ToldInv

LEMMA NextTold ==
    ASSUME IInv, IInv', ToldInv, [Next]_vars
    PROVE  ToldInv'
BY AttemptsStep, AloneStep, AdsOpenStep, ReadStep, CalledForStep, PointsRightStep, PointsKeptStep,
   LinkedStep, HoldsStep, CodesRightStep DEF ToldInv

\* An orderly file has its point events.
LEMMA ChangesAreTold ==
    ASSUME IInv, ToldInv, NEW type \in ConfigType, Orderly(type)
    PROVE  ChangesTold(type)
<1> SUFFICES ASSUME NEW p \in Scheduled(type, clock + 1), NEW b, b = Latest(Scheduled(type, snapshot[p].at))
             PROVE  {e \in point : e.primary = p} =
                        IF b = Null \/ Kind(b, p) = "NOTHING" THEN {}
                        ELSE {[code |-> Kind(b, p), primary |-> p, previous |-> b]}
  BY DEF ChangesTold
<1>1. p \in DOMAIN snapshot /\ p \in Primary /\ TypeOf[p[1]] = type /\ Quiet(type)
      /\ p \in Seen(type) /\ p[1] \in Fetch
  BY Typing, ValidateJob DEF Scheduled, Orderly, Quiet, Seen
<1>2. b = Neighbour(p) /\ (b # Null => b \in DOMAIN snapshot)
  BY <1>1, NeighbourThere DEF Neighbour
<1>3. ASSUME NEW e \in point, e.primary = p
      PROVE  /\ e = [code |-> Kind(b, p), primary |-> p, previous |-> b]
             /\ b # Null /\ Kind(b, p) # "NOTHING"
  <2>1. e \in [code : Point, primary : DOMAIN snapshot, previous : DOMAIN snapshot]
    BY DEF IInv, Events
  <2>2. e.previous = b /\ e.code = Kind(b, p)
    BY <1>1, <1>2, <1>3 DEF ToldInv, PointsRight
  <2>3. b # Null
    BY <2>1, <2>2, Named
  <2>4. Kind(b, p) # "NOTHING"
    BY <2>1, <2>2 DEF Point
  <2> QED BY <1>3, <2>1, <2>2, <2>3, <2>4
<1>4. ASSUME b # Null, Kind(b, p) # "NOTHING"
      PROVE  \E e \in point : e.primary = p /\ e.code = Kind(b, p)
  <2>1. {snapshot[b].status, snapshot[p].status} \subseteq Healthy
        /\ (Kind(b, p) = "BROAD_BLOCK_ADDED" => snapshot[p].broad /\ ~snapshot[b].broad)
    BY <1>4 DEF Kind
  <2>2. CASE Kind(b, p) # "BROAD_BLOCK_ADDED"
    <3>1. p \in heard /\ PrimaryOf(p) = p
      BY <1>1, <2>1 DEF Orderly, Usable, PrimaryOf
    <3> QED BY <1>1, <1>2, <1>4, <2>2, <3>1 DEF ToldInv, PointsKept
  <2>3. CASE Kind(b, p) = "BROAD_BLOCK_ADDED"
    <3>1. type = "ROBOTS_TXT"
      BY <1>1, <2>1, <2>3 DEF ToldInv, AdsOpen, ConfigType
    <3>2. PreviousHealthy(type, snapshot[p].at) = b
      BY <1>1, <1>2, <1>4, <2>1, NeighbourIs
    <3>3. Called(p)
      BY <1>1, <1>4, <2>1, <2>3, <3>1, <3>2 DEF Called, RequiresValidation
    <3>4. PICK v \in heard : v[1] = <<"validate", p>> /\ Agrees(p, v)
      BY <3>3 DEF Orderly
    <3>5. v[1] \in Validate /\ PrimaryOf(v) = p
      BY <1>1, <3>4, ValidateJob DEF PrimaryOf
    <3> QED BY <1>1, <1>2, <1>4, <3>4, <3>5 DEF ToldInv, PointsKept
  <2> QED BY <2>2, <2>3
<1> QED BY <1>3, <1>4

\* Orderly ads.txt has its conditions.
LEMMA ConditionIsTold ==
    ASSUME IInv, ToldInv, Orderly("ADS_TXT")
    PROVE  ConditionTold
<1>1. clock \in Nat /\ \A k \in DOMAIN snapshot : snapshot[k].at \in Nat /\ snapshot[k].at <= clock
  BY Named
<1>2. \A k \in Seen("ADS_TXT") : snapshot[k].at < clock + 1
  BY <1>1 DEF Seen
<1>3. Scheduled("ADS_TXT", clock + 1) = Ads
  <2>1. \A k \in DOMAIN snapshot : snapshot[k].at < clock + 1
    BY <1>1
  <2> QED BY <2>1 DEF Scheduled, Ads
<1>4. OrderlyBefore(clock + 1) /\ Quiet("ADS_TXT")
  BY DEF Orderly, OrderlyBefore, Quiet, Validated
<1>5. Codes = Standing(Ads)
  BY <1>2, <1>4, OrderlyStanding DEF ToldInv
<1> QED BY <1>3, <1>5 DEF ConditionTold, Codes, Standing, PreviousHealthy

\* Told: when the observations of a file and their derivations came one after the
\* other, each change has its event and the active conditions are what was seen last
\* (evaluate, persist and _resolve_condition).
THEOREM ChangesAndConditionsTold == Spec => []Told
<1>1. IInv /\ ToldInv => Told
  BY ChangesAreTold, ConditionIsTold DEF Told
<1>2. IInv /\ ToldInv /\ [Next]_vars => ToldInv'
  <2> SUFFICES ASSUME IInv, ToldInv, [Next]_vars PROVE ToldInv'
    OBVIOUS
  <2>1. IInv'
    BY NextInv
  <2> QED BY <2>1, NextTold
<1> QED BY <1>1, <1>2, InitTold, PublicConfigInvariant, PTL DEF Spec
------------------------------------------------------------------------------
(* The conditions of ads.txt implement ConditionStore.                       *)

\* Events are named by a code and a scheduled observation and refer to such; of a
\* code one is active; and a transaction holds active ones.
NamedRows ==
    /\ DOMAIN event \subseteq Condition \X Primary
    /\ \A e \in DOMAIN event : event[e].linked \subseteq Primary
OnePerCode == \A d, e \in DOMAIN event :
    event[d].status = "ACTIVE" /\ event[e].status = "ACTIVE" /\ d[1] = e[1] => d = e
Held == \A w \in Worker : \A e \in found[w] : e \in DOMAIN event /\ event[e].status = "ACTIVE"
StoredInv == NamedRows /\ OnePerCode /\ Held

\* What a transaction may do to a row, and to all of them.
Same(e) == event'[e].status = event[e].status /\ event'[e].linked = event[e].linked
Grown(e) ==
    /\ event[e].status = "ACTIVE" /\ event'[e].status = "ACTIVE"
    /\ event[e].linked \subseteq event'[e].linked /\ event'[e].linked \subseteq Primary
Ended(w, e) ==
    /\ e \in found[w] /\ event'[e].status = "RESOLVED"
    /\ event[e].linked \subseteq event'[e].linked /\ event'[e].linked \subseteq Primary
    /\ event[e].linked # event'[e].linked
NewRow(e) ==
    /\ e \in Condition \X Primary /\ event'[e].status = "ACTIVE"
    /\ event'[e].linked \subseteq Primary /\ event'[e].linked # {}
    /\ \A d \in DOMAIN event : event[d].status = "ACTIVE" => d[1] # e[1]
RowsMove(w) ==
    /\ DOMAIN event \subseteq DOMAIN event'
    /\ \A e \in DOMAIN event : Same(e) \/ Grown(e) \/ Ended(w, e)
    /\ \A e \in DOMAIN event' \ DOMAIN event : NewRow(e)
    /\ \A d, e \in DOMAIN event' \ DOMAIN event : d = e

\* The evidence of a transaction that touches conditions: scheduled observations.
LEMMA EvidenceScheduled ==
    ASSUME IInv, Read, NEW w \in Worker, Commit(w),
           Tells(value[w]) \in {"UPSERT", "SUPPORT", "RESOLVE"}
    PROVE  LET v == value[w] IN
           /\ pc[w] = "commit" /\ v.primary \in Primary
           /\ Evidence(v) \subseteq Primary /\ Evidence(v) # {}
           /\ Tells(v) = "UPSERT" => Code(v) \in Condition
<1> DEFINE v == value[w]
<1>1. /\ pc[w] = "commit" /\ v.primary \in DOMAIN snapshot /\ v.primary \in Primary
      /\ v.previous \in DOMAIN snapshot \cup {Null}
  BY CommitIs
<1>2. v.previous # Null
  BY DEF Tells
<1>3. v.previous \in Primary
  BY <1>1, <1>2 DEF Read, Scheduled
<1> HIDE DEF v
<1>4. Tells(v) = "UPSERT" => Code(v) \in Condition
  BY <1>1, WhatIsTold DEF IInv
<1>5. Evidence(v) \subseteq Primary /\ Evidence(v) # {}
  BY <1>1, <1>3 DEF Evidence
<1> QED BY <1>1, <1>4, <1>5 DEF v

\* Rows that end do so with more evidence; the others stay.
LEMMA RowsResolved ==
    ASSUME IInv, StoredInv, NEW w \in Worker, NEW v, Evidence(v) \subseteq Primary,
           NEW ids \in SUBSET found[w]
    PROVE  LET after == Resolved(ids, v) IN
           /\ DOMAIN after = DOMAIN event
           /\ \A e \in DOMAIN event :
                 \/ after[e] = event[e]
                 \/ /\ e \in ids /\ after[e].status = "RESOLVED"
                    /\ event[e].linked \subseteq after[e].linked /\ after[e].linked \subseteq Primary
                    /\ event[e].linked # after[e].linked
<1> DEFINE after == Resolved(ids, v)
           more == Evidence(v)
<1>1. DOMAIN after = DOMAIN event
  BY DEF Resolved
<1>2. ASSUME NEW e \in DOMAIN event, after[e] # event[e]
      PROVE  /\ e \in ids /\ after[e].status = "RESOLVED"
             /\ event[e].linked \subseteq after[e].linked /\ after[e].linked \subseteq Primary
             /\ event[e].linked # after[e].linked
  <2>1. e \in ids /\ Ends(e, v)
    BY <1>2 DEF Resolved
  <2>2. more \ event[e].linked # {} /\ more \subseteq Primary
    BY <2>1 DEF Ends
  <2>3. after[e] = [event[e] EXCEPT !.status = "RESOLVED", !.linked = @ \cup more]
    BY <2>1 DEF Resolved
  <2>4. event[e] \in Event /\ event[e].linked \subseteq Primary
    BY DEF IInv, Events, StoredInv, NamedRows
  <2> HIDE DEF after, more
  <2>5. after[e].status = "RESOLVED" /\ after[e].linked = event[e].linked \cup more
    BY <2>3, <2>4 DEF Event
  <2> QED BY <2>1, <2>2, <2>4, <2>5
<1> HIDE DEF after, more
<1> QED BY <1>1, <1>2 DEF after

\* A row that gathers evidence keeps its status.
LEMMA RowSupported ==
    ASSUME NEW events, NEW e \in DOMAIN events, events[e] \in Event, NEW v
    PROVE  LET row == Supported(events, e, v)[e] IN
           /\ row.status = events[e].status
           /\ row.linked = events[e].linked \cup Evidence(v)
           /\ DOMAIN Supported(events, e, v) = DOMAIN events
           /\ \A d \in DOMAIN events : d # e => Supported(events, e, v)[d] = events[d]
<1> DEFINE more == Evidence(v)
           n == Cardinality(more \ events[e].linked)
<1>1. Supported(events, e, v) = [events EXCEPT ![e].linked = @ \cup more, ![e].support = @ + n]
  BY DEF Supported
<1> HIDE DEF more, n
<1> QED BY <1>1 DEF Event, more

\* What the transactions that confirm or end a condition do.
LEMMA RowsOfCommit ==
    ASSUME IInv, Read, StoredInv, NEW w \in Worker, Commit(w),
           Upsert(w) \/ Support(w) \/ Resolve(w)
    PROVE  RowsMove(w)
<1> DEFINE v == value[w]
<1>1. Tells(v) \in {"UPSERT", "SUPPORT", "RESOLVE"}
  BY DEF Upsert, Support, Resolve
<1>2. /\ v.primary \in Primary /\ Evidence(v) \subseteq Primary /\ Evidence(v) # {}
      /\ Tells(v) = "UPSERT" => Code(v) \in Condition
  BY <1>1, EvidenceScheduled
<1>3. /\ \A e \in DOMAIN event : event[e] \in Event /\ event[e].linked \subseteq Primary
      /\ \A e \in found[w] : e \in DOMAIN event /\ event[e].status = "ACTIVE"
  BY DEF IInv, Events, StoredInv, NamedRows, Held
<1>4. CASE Resolve(w)
  <2>1. event' = Resolved(found[w], v)
    BY <1>4 DEF Resolve
  <2> QED BY <1>2, <2>1, RowsResolved DEF RowsMove, Same, Ended
<1>5. CASE Support(w)
  <2>1. CASE found[w] = {}
    <3>1. event' = event
      BY <1>5, <2>1 DEF Support
    <3> QED BY <3>1 DEF RowsMove, Same
  <2>2. CASE found[w] # {}
    <3>1. PICK e \in found[w] : e = CHOOSE i \in found[w] : TRUE
      BY <2>2
    <3>2. event' = Supported(event, e, v)
      BY <1>5, <2>2, <3>1 DEF Support
    <3>3. e \in DOMAIN event /\ event[e].status = "ACTIVE" /\ event[e] \in Event
          /\ event[e].linked \subseteq Primary
      BY <1>3, <3>1
    <3>4. /\ event'[e].status = event[e].status
          /\ event'[e].linked = event[e].linked \cup Evidence(v)
          /\ DOMAIN event' = DOMAIN event
          /\ \A d \in DOMAIN event : d # e => event'[d] = event[d]
      BY <3>2, <3>3, RowSupported
    <3>5. Grown(e)
      BY <1>2, <3>3, <3>4 DEF Grown
    <3> QED BY <3>4, <3>5 DEF RowsMove, Same
  <2> QED BY <2>1, <2>2
<1>6. CASE Upsert(w)
  <2> DEFINE c == Code(v)
             id == <<c, v.primary>>
             ids == {e \in found[w] : e[1] # c}
             after == Resolved(ids, v)
             mine == ActiveNow({c})
  <2>1. ~Rollback(w)
    <3>1. DOMAIN pc = Worker
      BY DEF IInv, WorkerTypeOK
    <3> QED BY <3>1 DEF Commit, Rollback, Goes, Onward
  <2>2. /\ Tells(v) = "UPSERT" /\ c \in Condition
        /\ ~ (mine = {} /\ id \in DOMAIN event)
        /\ event' = IF mine = {} THEN Opened(after, id, v)
                    ELSE Supported(after, CHOOSE e \in mine : TRUE, v)
    BY <1>2, <1>6, <2>1 DEF Upsert
  <2>3. \A e \in mine : e \in DOMAIN event /\ e[1] = c /\ event[e].status = "ACTIVE"
    BY DEF ActiveNow
  <2>4. \A e \in DOMAIN event : event[e].status = "ACTIVE" /\ e \notin mine => e[1] # c
    BY DEF ActiveNow
  <2>5. ids \in SUBSET found[w] /\ \A e \in mine : e \notin ids
    BY <2>3
  <2> DEFINE Over(e) == /\ e \in found[w] /\ after[e].status = "RESOLVED"
                        /\ event[e].linked \subseteq after[e].linked
                        /\ after[e].linked \subseteq Primary /\ event[e].linked # after[e].linked
  <2> HIDE DEF mine, ids
  <2>6. /\ DOMAIN after = DOMAIN event
        /\ \A e \in DOMAIN event : after[e] = event[e] \/ (e \in ids /\ Over(e))
    BY <1>2, <2>5, RowsResolved
  <2> HIDE DEF after, c
  <2>7. CASE mine = {}
    <3>1. id \notin DOMAIN event /\ id[1] = c /\ id \in Condition \X Primary
      BY <1>2, <2>2, <2>7
    <3> HIDE DEF id
    <3>2. /\ DOMAIN event' = DOMAIN event \cup {id}
          /\ event'[id].status = "ACTIVE" /\ event'[id].linked = Evidence(v)
          /\ \A e \in DOMAIN event : event'[e] = after[e]
      BY <2>2, <2>6, <2>7, <3>1 DEF Opened
    <3>3. \A e \in DOMAIN event : Same(e) \/ Ended(w, e)
      BY <2>6, <3>2 DEF Same, Ended
    <3>4. NewRow(id)
      BY <1>2, <2>4, <2>7, <3>1, <3>2 DEF NewRow
    <3> QED BY <3>2, <3>3, <3>4 DEF RowsMove
  <2>8. CASE mine # {}
    <3>1. PICK e \in mine : e = CHOOSE i \in mine : TRUE
      BY <2>8
    <3>2. /\ e \in DOMAIN event /\ event[e].status = "ACTIVE" /\ after[e] = event[e]
          /\ event[e] \in Event /\ event[e].linked \subseteq Primary
      BY <1>3, <2>3, <2>5, <2>6, <3>1
    <3>3. event' = Supported(after, e, v)
      BY <2>2, <2>8, <3>1
    <3>4. /\ event'[e].status = after[e].status
          /\ event'[e].linked = after[e].linked \cup Evidence(v)
          /\ DOMAIN event' = DOMAIN after
          /\ \A d \in DOMAIN after : d # e => event'[d] = after[d]
      BY <2>6, <3>2, <3>3, RowSupported
    <3>5. Grown(e)
      BY <1>2, <3>2, <3>4 DEF Grown
    <3>6. \A d \in DOMAIN event : d # e => Same(d) \/ Ended(w, d)
      BY <2>6, <3>4 DEF Same, Ended
    <3> QED BY <2>6, <3>4, <3>5, <3>6 DEF RowsMove
  <2> QED BY <2>7, <2>8
<1> QED BY <1>4, <1>5, <1>6

\* So does every step, or it leaves the events alone.
LEMMA RowsStep ==
    ASSUME IInv, Read, StoredInv, [Next]_vars
    PROVE  UNCHANGED event \/ \E w \in Worker : Commit(w) /\ RowsMove(w)
BY EventStep, RowsOfCommit

\* What a transaction holds was active when it was locked, and no other ends it.
LEMMA HeldStep ==
    ASSUME IInv, IInv', Attempts, Read, StoredInv, [Next]_vars
    PROVE  Held'
<1> SUFFICES ASSUME NEW x \in Worker, NEW e \in found'[x]
             PROVE  e \in DOMAIN event' /\ event'[e].status = "ACTIVE"
  BY DEF Held
<1>1. pc'[x] = "commit"
  BY DEF IInv, Locks
<1>2. CASE Look(x)
  <2>1. event' = event /\ found'[x] = ActiveNow(Concerned(value[x]))
    BY <1>2 DEF Look, recordVars, IInv, Locks
  <2> QED BY <2>1 DEF ActiveNow
<1>3. CASE pc[x] = "commit" /\ found'[x] = found[x]
  <2>1. e \in found[x] /\ e \in DOMAIN event /\ event[e].status = "ACTIVE"
    BY <1>3 DEF StoredInv, Held
  <2>2. ASSUME NEW w \in Worker, Commit(w), RowsMove(w)
        PROVE  e \in DOMAIN event' /\ event'[e].status = "ACTIVE"
    <3>1. w # x
      <4>1. PICK t \in {"ask", "done", "raised", "failed"} : pc' = [pc EXCEPT ![w] = t]
        BY <2>2, CommitOrRollback
      <4>2. DOMAIN pc = Worker
        BY DEF IInv, WorkerTypeOK
      <4> QED BY <1>1, <4>1, <4>2
    <3>2. e \notin found[w]
      BY <2>1, <3>1 DEF IInv, Locks
    <3> QED BY <2>1, <2>2, <3>2 DEF RowsMove, Same, Grown, Ended
  <2> QED BY <2>1, <2>2, RowsStep
<1>4. Look(x) \/ (pc[x] = "commit" /\ found'[x] = found[x])
  BY <1>1, ValueStep
<1> QED BY <1>2, <1>3, <1>4

LEMMA StoredInvStep ==
    ASSUME IInv, IInv', Attempts, Read, StoredInv, [Next]_vars
    PROVE  StoredInv'
<1>1. Held'
  BY HeldStep
<1>2. CASE UNCHANGED event
  BY <1>1, <1>2 DEF StoredInv, NamedRows, OnePerCode
<1>3. ASSUME NEW w \in Worker, RowsMove(w)
      PROVE  NamedRows' /\ OnePerCode'
  <2>1. ASSUME NEW e \in DOMAIN event'
        PROVE  e \in Condition \X Primary /\ event'[e].linked \subseteq Primary
    BY <1>3 DEF RowsMove, Same, Grown, Ended, NewRow, StoredInv, NamedRows
  <2>2. ASSUME NEW e \in DOMAIN event, event'[e].status = "ACTIVE"
        PROVE  event[e].status = "ACTIVE"
    BY <1>3, <2>2 DEF RowsMove, Same, Grown, Ended
  <2>3. ASSUME NEW d \in DOMAIN event', NEW e \in DOMAIN event',
               event'[d].status = "ACTIVE", event'[e].status = "ACTIVE", d[1] = e[1]
        PROVE  d = e
    <3>1. CASE d \in DOMAIN event /\ e \in DOMAIN event
      BY <2>2, <2>3, <3>1 DEF StoredInv, OnePerCode
    <3>2. CASE d \notin DOMAIN event /\ e \notin DOMAIN event
      BY <1>3, <3>2 DEF RowsMove
    <3>3. CASE d \in DOMAIN event /\ e \notin DOMAIN event
      BY <1>3, <2>2, <2>3, <3>3 DEF RowsMove, NewRow
    <3>4. CASE d \notin DOMAIN event /\ e \in DOMAIN event
      BY <1>3, <2>2, <2>3, <3>4 DEF RowsMove, NewRow
    <3> QED BY <3>1, <3>2, <3>3, <3>4
  <2> QED BY <2>1, <2>3 DEF NamedRows, OnePerCode
<1> QED BY <1>1, <1>2, <1>3, RowsStep DEF StoredInv

\* The rows of the store are the events and what they refer to.
LEMMA StoredRows ==
    ASSUME IInv, StoredInv
    PROVE  /\ DOMAIN Conditions = DOMAIN event /\ DOMAIN event \subseteq Condition \X Primary
           /\ \A e \in DOMAIN event : /\ Conditions[e].status = event[e].status
                                      /\ Conditions[e].refs = event[e].linked
                                      /\ Conditions[e] \in Store!Row
<1>1. \A e \in DOMAIN event :
          event[e].status \in {"ACTIVE", "RESOLVED"} /\ event[e].linked \subseteq Primary
  BY DEF IInv, Events, Event, StoredInv, NamedRows
<1> QED BY <1>1 DEF Conditions, Store!Row, StoredInv, NamedRows

LEMMA StoredRowsNext ==
    ASSUME IInv', StoredInv'
    PROVE  /\ DOMAIN Conditions' = DOMAIN event' /\ DOMAIN event' \subseteq Condition \X Primary
           /\ \A e \in DOMAIN event' : /\ Conditions'[e].status = event'[e].status
                                       /\ Conditions'[e].refs = event'[e].linked
                                       /\ Conditions'[e] \in Store!Row
<1>1. \A e \in DOMAIN event' :
          event'[e].status \in {"ACTIVE", "RESOLVED"} /\ event'[e].linked \subseteq Primary
  BY DEF IInv, Events, Event, StoredInv, NamedRows
<1> QED BY <1>1 DEF Conditions, Store!Row, StoredInv, NamedRows

LEMMA StoreStep ==
    ASSUME IInv, IInv', Attempts, Read, StoredInv, StoredInv', [Next]_vars
    PROVE  [Store!Next]_Conditions
<1>1. CASE UNCHANGED event
  BY <1>1 DEF Conditions
<1>2. ASSUME NEW w \in Worker, RowsMove(w) PROVE Store!Next
  <2>1. Store!TypeOK' /\ DOMAIN Conditions \subseteq DOMAIN Conditions'
    BY <1>2, StoredRows, StoredRowsNext DEF Store!TypeOK, Store!Row, RowsMove
  <2>2. Store!OneActive'
    <3>1. ASSUME NEW d \in DOMAIN Conditions', Conditions'[d].status = "ACTIVE"
          PROVE  d \in DOMAIN event' /\ event'[d].status = "ACTIVE" /\ d \in Condition \X Primary
      BY <3>1, StoredRowsNext
    <3> QED BY <3>1 DEF Store!OneActive, Store!Active, StoredInv, OnePerCode
  <2>3. ASSUME NEW e \in DOMAIN Conditions
        PROVE  Conditions'[e] = Conditions[e] \/ Store!Supported(e) \/ Store!Resolved(e)
    <3>1. e \in DOMAIN event /\ e \in DOMAIN event'
      BY <2>1, <2>3, StoredRows, StoredRowsNext
    <3>2. /\ Conditions[e].status = event[e].status /\ Conditions[e].refs = event[e].linked
          /\ Conditions'[e].status = event'[e].status /\ Conditions'[e].refs = event'[e].linked
          /\ Conditions[e] \in Store!Row /\ Conditions'[e] \in Store!Row
      BY <3>1, StoredRows, StoredRowsNext
    <3>3. CASE Same(e)
      BY <3>2, <3>3 DEF Same, Store!Row
    <3>4. CASE Grown(e)
      BY <3>2, <3>4 DEF Grown, Store!Supported
    <3>5. CASE Ended(w, e)
      <4>1. event[e].status = "ACTIVE"
        BY <3>5 DEF Ended, StoredInv, Held
      <4> QED BY <3>2, <3>5, <4>1 DEF Ended, Store!Resolved
    <3> QED BY <1>2, <3>1, <3>3, <3>4, <3>5 DEF RowsMove
  <2>4. ASSUME NEW e \in DOMAIN Conditions' \ DOMAIN Conditions PROVE Store!Opened(e)
    <3>1. e \in DOMAIN event' \ DOMAIN event
      BY <2>4, StoredRows, StoredRowsNext
    <3> QED BY <1>2, <3>1, StoredRowsNext DEF RowsMove, NewRow, Store!Opened
  <2> QED BY <2>1, <2>2, <2>3, <2>4 DEF Store!Next
<1> QED BY <1>1, <1>2, RowsStep

\* PublicConfigEventPersistence: several transactions may end, open or support
\* conditions at once and on what they read before; still one of a code is active at
\* a time, evidence is only added, an event is resolved once and by new evidence, and
\* it stays.
THEOREM PublicConfigKeepsConditions == Spec => KeepsConditions
<1>1. Init => Store!Init /\ StoredInv
  <2> SUFFICES ASSUME Init PROVE DOMAIN Conditions = {} /\ StoredInv
    BY DEF Store!Init
  <2>1. DOMAIN event = {} /\ found = [w \in Worker |-> {}]
    BY DEF Init
  <2> QED BY <2>1 DEF Conditions, StoredInv, NamedRows, OnePerCode, Held
<1>2. IInv /\ IInv' /\ ToldInv /\ StoredInv /\ [Next]_vars => StoredInv'
  BY StoredInvStep DEF ToldInv
<1>3. IInv /\ IInv' /\ ToldInv /\ StoredInv /\ StoredInv' /\ [Next]_vars => [Store!Next]_Conditions
  BY StoreStep DEF ToldInv
<1>4. Spec => [](IInv /\ ToldInv)
  BY InitIInv, NextInv, InitTold, NextTold, PTL DEF Spec
<1> QED BY <1>1, <1>2, <1>3, <1>4, PTL DEF Spec, KeepsConditions, Store!Spec
=============================================================================

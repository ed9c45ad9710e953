--------------------------- MODULE RetentionProofs ---------------------------
(***************************************************************************)
(* Theorems about Retention, for any number of artifacts, holds, enforcers  *)
(* and any size of a batch.                                                 *)
(*                                                                          *)
(* What carries them is the row lock: between the FOR UPDATE and the commit *)
(* an enforcer's item still has its row, no other enforcer has it, and no   *)
(* hold on it is being inserted (LockProtects).  The object of an item that *)
(* is about to lose its row is gone (StoredHasNoObject), and a hold exists  *)
(* only for an artifact with a row (HoldHasRow), also before it commits.    *)
(***************************************************************************)
EXTENDS Retention, TLAPS

Locking == {"locked", "stored"}

\* An enforcer that is finalizing an artifact knows which.
ItemIsChosen == \A w \in Enforcer :
    pc[w] \in Locking \cup {"locking"} => item[w] \in Artifact

LockProtects == \A w \in Enforcer : pc[w] \in Locking =>
    /\ item[w] \in rows
    /\ hold[item[w]] # "inserting"
    /\ \A v \in Enforcer : pc[v] \in Locking /\ item[v] = item[w] => v = w

StoredHasNoObject == \A w \in Enforcer : pc[w] = "stored" => item[w] \notin objects

HoldHasRow == \A a \in Artifact : hold[a] # "none" => a \in rows

IInv ==
    /\ TypeOK
    /\ ItemIsChosen
    /\ LockProtects
    /\ StoredHasNoObject
    /\ HoldHasRow
    /\ NoOrphanObject
    /\ AuditedOnce
    /\ FinishedMeansDrained

------------------------------------------------------------------------------
LEMMA InitIInv == Init => IInv
BY RetentionAssumption
   DEF Init, IInv, TypeOK, Steps, ItemIsChosen, LockProtects, StoredHasNoObject, HoldHasRow,
       NoOrphanObject, AuditedOnce, FinishedMeansDrained, Locking

\* Steps of time and of incidents: the enforcers and the store stay as they are.
LEMMA ExpireInv ==
    ASSUME IInv, NEW a \in Artifact, Expire(a)
    PROVE  IInv'
BY DEF Expire, store, holds, loop, IInv, TypeOK, ItemIsChosen, LockProtects, StoredHasNoObject,
       HoldHasRow, NoOrphanObject, AuditedOnce, FinishedMeansDrained, Referenced, Held

LEMMA HoldStartsInv ==
    ASSUME IInv, NEW a \in Artifact, HoldStarts(a)
    PROVE  IInv'
<1>1. TypeOK'
  BY DEF IInv, TypeOK, HoldStarts, store, loop
<1>2. ItemIsChosen' /\ StoredHasNoObject' /\ NoOrphanObject' /\ AuditedOnce'
  BY DEF IInv, HoldStarts, store, loop, ItemIsChosen, StoredHasNoObject, NoOrphanObject,
         AuditedOnce
<1>3. LockProtects'
  BY DEF IInv, TypeOK, HoldStarts, store, loop, LockProtects, Locked, HasLocked, Locking
<1>4. HoldHasRow'
  BY DEF IInv, TypeOK, HoldStarts, store, HoldHasRow
<1>5. FinishedMeansDrained'
  BY DEF IInv, TypeOK, HoldStarts, store, loop, FinishedMeansDrained, Referenced, Held
<1> QED BY <1>1, <1>2, <1>3, <1>4, <1>5 DEF IInv

LEMMA HoldEndsInv ==
    ASSUME IInv, NEW a \in Artifact, HoldEnds(a)
    PROVE  IInv'
<1>1. PICK outcome \in {"active", "none"} : hold' = [hold EXCEPT ![a] = outcome]
  BY DEF HoldEnds
<1>2. TypeOK'
  BY <1>1 DEF IInv, TypeOK, HoldEnds, store, loop
<1>3. ItemIsChosen' /\ StoredHasNoObject' /\ NoOrphanObject' /\ AuditedOnce'
  BY DEF IInv, HoldEnds, store, loop, ItemIsChosen, StoredHasNoObject, NoOrphanObject,
         AuditedOnce
<1>4. LockProtects'
  BY <1>1 DEF IInv, TypeOK, HoldEnds, store, loop, LockProtects, Locking
<1>5. HoldHasRow'
  BY <1>1 DEF IInv, TypeOK, HoldEnds, store, HoldHasRow
<1>6. FinishedMeansDrained'
  BY <1>1 DEF IInv, TypeOK, HoldEnds, store, loop, FinishedMeansDrained, Referenced, Held
<1> QED BY <1>2, <1>3, <1>4, <1>5, <1>6 DEF IInv

LEMMA ReleaseInv ==
    ASSUME IInv, NEW a \in Artifact, Release(a)
    PROVE  IInv'
<1>1. TypeOK'
  BY DEF IInv, TypeOK, Release, store, loop
<1>2. ItemIsChosen' /\ StoredHasNoObject' /\ NoOrphanObject' /\ AuditedOnce'
  BY DEF IInv, Release, store, loop, ItemIsChosen, StoredHasNoObject, NoOrphanObject,
         AuditedOnce
<1>3. LockProtects'
  BY DEF IInv, TypeOK, Release, store, loop, LockProtects, Locking
<1>4. HoldHasRow'
  BY DEF IInv, TypeOK, Release, store, HoldHasRow
<1>5. FinishedMeansDrained'
  BY DEF IInv, TypeOK, Release, store, loop, FinishedMeansDrained, Referenced, Held
<1> QED BY <1>1, <1>2, <1>3, <1>4, <1>5 DEF IInv

------------------------------------------------------------------------------
(* Steps of an enforcer before it has locked a row.                           *)

LEMMA StartInv ==
    ASSUME IInv, NEW w \in Enforcer, Start(w)
    PROVE  IInv'
<1>1. TypeOK'
  BY DEF IInv, TypeOK, Start, store, holds, Steps
<1>2. ItemIsChosen' /\ LockProtects' /\ StoredHasNoObject'
  BY DEF IInv, TypeOK, Start, store, holds, ItemIsChosen, LockProtects, StoredHasNoObject, Locking
<1>3. HoldHasRow' /\ NoOrphanObject' /\ AuditedOnce'
  BY DEF IInv, Start, store, holds, HoldHasRow, NoOrphanObject, AuditedOnce
<1>4. FinishedMeansDrained'
  BY DEF IInv, TypeOK, Start, store, holds, FinishedMeansDrained, Referenced, Held
<1> QED BY <1>1, <1>2, <1>3, <1>4 DEF IInv

LEMMA SelectBatchInv ==
    ASSUME IInv, NEW w \in Enforcer, SelectBatch(w)
    PROVE  IInv'
<1>1. PICK B \in SUBSET Eligible(w) : /\ todo' = [todo EXCEPT ![w] = B]
                                      /\ blocked' = [blocked EXCEPT ![w] = B]
  BY DEF SelectBatch
<1>2. B \subseteq Artifact
  BY <1>1 DEF Eligible, IInv, TypeOK
<1>3. TypeOK'
  BY <1>1, <1>2 DEF IInv, TypeOK, SelectBatch, store, holds
<1>4. /\ ItemIsChosen' /\ LockProtects' /\ StoredHasNoObject'
      /\ HoldHasRow' /\ NoOrphanObject' /\ AuditedOnce' /\ FinishedMeansDrained'
  BY DEF IInv, SelectBatch, store, holds, ItemIsChosen, LockProtects, StoredHasNoObject,
         HoldHasRow, NoOrphanObject, AuditedOnce, FinishedMeansDrained, Referenced, Held
<1> QED BY <1>3, <1>4 DEF IInv

LEMMA SelectNoneInv ==
    ASSUME IInv, NEW w \in Enforcer, SelectNone(w)
    PROVE  IInv'
<1>1. TypeOK'
  BY DEF IInv, TypeOK, SelectNone, store, holds, loop, Steps
<1>2. ItemIsChosen' /\ LockProtects' /\ StoredHasNoObject'
  BY DEF IInv, TypeOK, SelectNone, store, holds, loop, ItemIsChosen, LockProtects,
         StoredHasNoObject, Locking
<1>3. HoldHasRow' /\ NoOrphanObject' /\ AuditedOnce'
  BY DEF IInv, SelectNone, store, holds, HoldHasRow, NoOrphanObject, AuditedOnce
<1>4. FinishedMeansDrained'
  BY DEF IInv, TypeOK, SelectNone, store, holds, loop, Eligible, FinishedMeansDrained,
         Referenced, Held
<1> QED BY <1>1, <1>2, <1>3, <1>4 DEF IInv

LEMMA CheckInv ==
    ASSUME IInv, NEW w \in Enforcer, Check(w)
    PROVE  IInv'
<1>1. PICK a \in todo[w] :
          \/ /\ pc' = [pc EXCEPT ![w] = "locking"]
             /\ item' = [item EXCEPT ![w] = a]
             /\ UNCHANGED todo
          \/ /\ todo' = [todo EXCEPT ![w] = @ \ {a}]
             /\ UNCHANGED <<pc, item>>
  BY DEF Check
<1>2. a \in Artifact
  BY <1>1 DEF IInv, TypeOK
<1>3. TypeOK'
  BY <1>1, <1>2 DEF IInv, TypeOK, Check, store, holds, Steps
<1>4. ItemIsChosen' /\ LockProtects' /\ StoredHasNoObject'
  BY <1>1, <1>2 DEF IInv, TypeOK, Check, store, holds, ItemIsChosen, LockProtects,
                    StoredHasNoObject, Locking
<1>5. HoldHasRow' /\ NoOrphanObject' /\ AuditedOnce'
  BY DEF IInv, Check, store, holds, HoldHasRow, NoOrphanObject, AuditedOnce
<1>6. FinishedMeansDrained'
  BY <1>1 DEF IInv, TypeOK, Check, store, holds, FinishedMeansDrained, Referenced, Held
<1> QED BY <1>3, <1>4, <1>5, <1>6 DEF IInv

\* Going on with the batch drops the item and with it the lock.
LEMMA NextItemKeeps ==
    ASSUME IInv, NEW w \in Enforcer, NextItem(w)
    PROVE  /\ pc' \in [Enforcer -> Steps]
           /\ todo' \in [Enforcer -> SUBSET Artifact]
           /\ item' \in [Enforcer -> Artifact \cup {Null}]
           /\ pc'[w] = "drain"
           /\ \A v \in Enforcer : v # w => pc'[v] = pc[v] /\ item'[v] = item[v]
BY DEF IInv, TypeOK, NextItem, Steps

LEMMA LockInv ==
    ASSUME IInv, NEW w \in Enforcer, Lock(w)
    PROVE  IInv'
<1> DEFINE a == item[w]
<1>1. /\ pc[w] = "locking" /\ ~Locked(a) /\ hold[a] # "inserting"
      /\ UNCHANGED <<store, expired, holds, due, blocked, gone, told>>
  BY DEF Lock
<1>2. HoldHasRow' /\ NoOrphanObject' /\ AuditedOnce'
  BY <1>1 DEF IInv, store, holds, HoldHasRow, NoOrphanObject, AuditedOnce
<1>3. CASE /\ a \in rows
           /\ pc' = [pc EXCEPT ![w] = "locked"]
           /\ UNCHANGED <<todo, item>>
  <2>1. TypeOK' /\ ItemIsChosen'
    BY <1>1, <1>3 DEF IInv, TypeOK, store, holds, Steps, ItemIsChosen, Locking
  <2>2. LockProtects'
    BY <1>1, <1>3 DEF IInv, TypeOK, store, holds, LockProtects, Locked, HasLocked, Locking
  <2>3. StoredHasNoObject' /\ FinishedMeansDrained'
    BY <1>1, <1>3 DEF IInv, TypeOK, store, holds, StoredHasNoObject, FinishedMeansDrained,
                      Referenced, Held
  <2> QED BY <1>2, <2>1, <2>2, <2>3 DEF IInv
<1>4. CASE NextItem(w)
  <2>1. TypeOK' /\ ItemIsChosen'
    BY <1>1, <1>4, NextItemKeeps DEF IInv, TypeOK, store, holds, ItemIsChosen, Locking
  <2>2. LockProtects' /\ StoredHasNoObject' /\ FinishedMeansDrained'
    BY <1>1, <1>4, NextItemKeeps
       DEF IInv, store, holds, LockProtects, StoredHasNoObject, FinishedMeansDrained,
           Referenced, Held, Locking
  <2> QED BY <1>2, <2>1, <2>2 DEF IInv
<1> QED BY <1>3, <1>4 DEF Lock

------------------------------------------------------------------------------
(* Steps under the row lock, and the end of the execution.                    *)

LEMMA DeleteObjectInv ==
    ASSUME IInv, NEW w \in Enforcer, DeleteObject(w)
    PROVE  IInv'
<1>1. TypeOK'
  BY DEF IInv, TypeOK, DeleteObject, holds, loop, Steps
<1>2. ItemIsChosen' /\ LockProtects'
  BY DEF IInv, TypeOK, DeleteObject, holds, loop, ItemIsChosen, LockProtects, Locking
<1>3. StoredHasNoObject'
  BY DEF IInv, TypeOK, DeleteObject, loop, StoredHasNoObject
<1>4. HoldHasRow' /\ NoOrphanObject' /\ AuditedOnce'
  BY DEF IInv, DeleteObject, holds, HoldHasRow, NoOrphanObject, AuditedOnce
<1>5. FinishedMeansDrained'
  BY DEF IInv, TypeOK, DeleteObject, holds, loop, FinishedMeansDrained, Referenced, Held
<1> QED BY <1>1, <1>2, <1>3, <1>4, <1>5 DEF IInv

LEMMA DeleteRowInv ==
    ASSUME IInv, NEW w \in Enforcer, DeleteRow(w)
    PROVE  IInv'
<1> DEFINE a == item[w]
<1>1. /\ pc[w] = "stored" /\ ~Referenced(a) /\ NextItem(w)
      /\ rows' = rows \ {a}
      /\ gone' = [gone EXCEPT ![w] = @ \cup {a}]
      /\ blocked' = [blocked EXCEPT ![w] = {}]
      /\ UNCHANGED <<objects, expired, hold, released, due, told>>
  BY DEF DeleteRow, holds
<1>2. /\ a \in rows /\ a \in Artifact /\ a \notin objects /\ hold[a] = "none"
      /\ \A v \in Enforcer : pc[v] \in Locking /\ item[v] = a => v = w
  BY <1>1 DEF IInv, TypeOK, LockProtects, StoredHasNoObject, Referenced, Held, Locking
<1>3. TypeOK'
  BY <1>1, <1>2, NextItemKeeps DEF IInv, TypeOK
<1>4. ItemIsChosen' /\ StoredHasNoObject'
  BY <1>1, NextItemKeeps DEF IInv, ItemIsChosen, StoredHasNoObject, Locking
<1>5. LockProtects'
  BY <1>1, <1>2, NextItemKeeps DEF IInv, LockProtects, Locking
<1>6. HoldHasRow' /\ NoOrphanObject'
  BY <1>1, <1>2 DEF IInv, HoldHasRow, NoOrphanObject
<1>7. AuditedOnce'
  <2>1. gone'[w] = gone[w] \cup {a} /\ \A v \in Enforcer : v # w => gone'[v] = gone[v]
    BY <1>1 DEF IInv, TypeOK
  <2>2. a \notin told /\ \A v \in Enforcer : a \notin gone[v]
    BY <1>2 DEF IInv, AuditedOnce
  <2>3. \A v \in Enforcer : gone'[v] \cap told' = {} /\ gone'[v] \cap rows' = {}
    BY <1>1, <2>1, <2>2 DEF IInv, AuditedOnce
  <2>4. \A u, v \in Enforcer : u # v => gone'[u] \cap gone'[v] = {}
    BY <2>1, <2>2 DEF IInv, AuditedOnce
  <2>5. told' \cap rows' = {}
    BY <1>1 DEF IInv, AuditedOnce
  <2> QED BY <2>3, <2>4, <2>5 DEF AuditedOnce
<1>8. FinishedMeansDrained'
  BY <1>1, NextItemKeeps DEF IInv, FinishedMeansDrained, Referenced, Held
<1> QED BY <1>3, <1>4, <1>5, <1>6, <1>7, <1>8 DEF IInv

\* Leaving enforce() forgets what the enforcer knew.
LEMMA LeavesKeeps ==
    ASSUME IInv, NEW w \in Enforcer, Leaves(w), UNCHANGED <<store, expired, holds>>
    PROVE  /\ (told' \subseteq Artifact => TypeOK')
           /\ ItemIsChosen' /\ LockProtects' /\ StoredHasNoObject'
           /\ HoldHasRow' /\ NoOrphanObject' /\ FinishedMeansDrained'
<1>1. told' \subseteq Artifact => TypeOK'
  BY DEF IInv, TypeOK, Leaves, store, holds, Steps
<1>2. ItemIsChosen' /\ LockProtects' /\ StoredHasNoObject'
  BY DEF IInv, TypeOK, Leaves, store, holds, ItemIsChosen, LockProtects, StoredHasNoObject,
         Locking
<1>3. HoldHasRow' /\ NoOrphanObject'
  BY DEF IInv, store, holds, HoldHasRow, NoOrphanObject
<1>4. FinishedMeansDrained'
  BY DEF IInv, TypeOK, Leaves, store, holds, FinishedMeansDrained, Referenced, Held
<1> QED BY <1>1, <1>2, <1>3, <1>4

LEMMA FinishInv ==
    ASSUME IInv, NEW w \in Enforcer, Finish(w)
    PROVE  IInv'
<1>1. told' \subseteq Artifact
  BY DEF IInv, TypeOK, Finish
<1>2. AuditedOnce'
  BY DEF IInv, TypeOK, Finish, Leaves, store, AuditedOnce
<1> QED BY <1>1, <1>2, LeavesKeeps DEF Finish, IInv

LEMMA FailsInv ==
    ASSUME IInv, NEW w \in Enforcer, Fails(w)
    PROVE  IInv'
<1>1. told' \subseteq Artifact
  BY DEF IInv, TypeOK, Fails
<1>2. AuditedOnce'
  BY DEF IInv, TypeOK, Fails, Leaves, store, AuditedOnce
<1> QED BY <1>1, <1>2, LeavesKeeps DEF Fails, IInv

LEMMA NextIInv == IInv /\ [Next]_vars => IInv'
<1> SUFFICES ASSUME IInv, [Next]_vars PROVE IInv'
  OBVIOUS
<1>1. CASE UNCHANGED vars
  BY <1>1 DEF vars, store, holds, loop, IInv, TypeOK, ItemIsChosen, LockProtects,
              StoredHasNoObject, HoldHasRow, NoOrphanObject, AuditedOnce, FinishedMeansDrained,
              Referenced, Held
<1>2. ASSUME NEW a \in Artifact, Expire(a) \/ HoldStarts(a) \/ HoldEnds(a) \/ Release(a)
      PROVE  IInv'
  BY <1>2, ExpireInv, HoldStartsInv, HoldEndsInv, ReleaseInv
<1>3. ASSUME NEW w \in Enforcer, Start(w) \/ Enforce(w)
      PROVE  IInv'
  BY <1>3, StartInv, SelectBatchInv, SelectNoneInv, CheckInv, LockInv, DeleteObjectInv,
     DeleteRowInv, FinishInv, FailsInv DEF Enforce
<1> QED BY <1>1, <1>2, <1>3 DEF Next

LEMMA Invariance == Spec => []IInv
BY InitIInv, NextIInv, PTL DEF Spec

------------------------------------------------------------------------------
(* The theorems.                                                              *)

\* Rows, objects, holds and the enforcers' loops keep their types.
THEOREM RetentionTypeCorrect == Spec => []TypeOK
<1>1. IInv => TypeOK
  BY DEF IInv
<1> QED BY <1>1, Invariance, PTL

\* A granted hold has its artifact's row: the FOR UPDATE of an enforcer and the
\* key-share lock of a new hold exclude each other.
THEOREM RetentionHoldKeepsRow == Spec => []HoldKeepsRow
<1>1. IInv => HoldKeepsRow
  BY DEF IInv, HoldHasRow, HoldKeepsRow, Held
<1> QED BY <1>1, Invariance, PTL

\* No object is ever left without a row, wherever enforcers fail.
THEOREM RetentionNoOrphanObject == Spec => []NoOrphanObject
<1>1. IInv => NoOrphanObject
  BY DEF IInv
<1> QED BY <1>1, Invariance, PTL

\* No artifact is counted as deleted by two runs.
THEOREM RetentionAuditedOnce == Spec => []AuditedOnce
<1>1. IInv => AuditedOnce
  BY DEF IInv
<1> QED BY <1>1, Invariance, PTL

\* A run that finishes has drained what no hold protects or protected.
THEOREM RetentionDrains == Spec => []FinishedMeansDrained
<1>1. IInv => FinishedMeansDrained
  BY DEF IInv
<1> QED BY <1>1, Invariance, PTL
==============================================================================

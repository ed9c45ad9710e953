------------------------------ MODULE Retention ------------------------------
(***************************************************************************)
(* Retention enforcement, app/retention/service.py: expired artifacts lose  *)
(* their object in S3 and then their row, unless a RetentionHold protects   *)
(* them.                                                                     *)
(*                                                                          *)
(* Every execution of an ENFORCE_RETENTION job is an enforcer.  Two may be   *)
(* at work together: the general worker sends no heartbeat, so the job of a  *)
(* long drain is reclaimed and claimed again beside the first handler.  The  *)
(* holds of incidents are placed and released meanwhile.                     *)
(*                                                                          *)
(* Artifact has the rows of a type and class the policy names, numbered by   *)
(* (created_at, id); no statement here selects another.  hold[a] stands for  *)
(* the holds that may name a.  What hold_conflicts_skipped counts and the    *)
(* times of a run are left out: no step depends on them.                     *)
(***************************************************************************)
EXTENDS Integers, FiniteSets

CONSTANTS
    Artifact,       \* the artifacts, oldest first
    Holdable,       \* those of them that a hold may come to name
    BatchSize,      \* BATCH_SIZE
    Enforcer,       \* processes that may be inside enforce()
    Null

ASSUME RetentionAssumption ==
    /\ Artifact \subseteq Nat /\ IsFiniteSet(Artifact)
    /\ Holdable \subseteq Artifact
    /\ BatchSize \in Nat \ {0}
    /\ Null \notin Artifact

VARIABLES
    rows,           \* artifacts whose row is in the table
    objects,        \* artifacts whose bytes are in S3
    expired,        \* artifacts older than the age the policy gives their type
    hold,           \* "inserting": a transaction has inserted a hold, uncommitted
    released,       \* artifacts that a released hold row still names
    pc,             \* where each enforcer is; "idle" outside enforce()
    due,            \* eligible at the enforcer's `now`
    todo,           \* candidates of the batch it has still to finalize
    item,           \* artifact_id of _finalize_artifact
    blocked,        \* stalled_on, and candidate_ids until the batch progresses
    gone,           \* what its deleted_total counts
    told            \* what rows_deleted_per_table of finished runs counts

store == <<rows, objects>>
holds == <<hold, released>>
loop == <<due, todo, item, blocked>>
vars == <<store, expired, holds, pc, loop, gone, told>>

Steps == {"idle", "drain", "locking", "locked", "stored", "finish"}

TypeOK ==
    /\ rows \subseteq Artifact /\ objects \subseteq Artifact
    /\ expired \subseteq Artifact
    /\ hold \in [Artifact -> {"none", "inserting", "active"}]
    /\ released \subseteq Artifact
    /\ pc \in [Enforcer -> Steps]
    /\ due \in [Enforcer -> SUBSET Artifact]
    /\ todo \in [Enforcer -> SUBSET Artifact]
    /\ item \in [Enforcer -> Artifact \cup {Null}]
    /\ blocked \in [Enforcer -> SUBSET Artifact]
    /\ gone \in [Enforcer -> SUBSET Artifact]
    /\ told \subseteq Artifact

Init ==
    /\ rows = Artifact /\ objects = Artifact
    /\ expired = {}
    /\ hold = [a \in Artifact |-> "none"] /\ released = {}
    /\ pc = [w \in Enforcer |-> "idle"]
    /\ due = [w \in Enforcer |-> {}]
    /\ todo = [w \in Enforcer |-> {}]
    /\ item = [w \in Enforcer |-> Null]
    /\ blocked = [w \in Enforcer |-> {}]
    /\ gone = [w \in Enforcer |-> {}]
    /\ told = {}

------------------------------------------------------------------------------
(* Row locks, references and the conditions of the statements.               *)

\* The transaction of w has the row of a FOR UPDATE.
HasLocked(w, a) == pc[w] \in {"locked", "stored"} /\ item[w] = a
Locked(a) == \E w \in Enforcer : HasLocked(w, a)

\* _active_hold_clause sees what was committed when its statement began.
Held(a) == hold[a] = "active"

\* The foreign key of retention_holds, ON DELETE RESTRICT: it does not ask
\* whether a hold is still active.
Referenced(a) == Held(a) \/ a \in released

\* What _select_batch may select.
Eligible(w) == {a \in due[w] \cap rows : ~Held(a)}

\* The first BatchSize of S, or all of it.
Batch(S, B) ==
    /\ B \subseteq S
    /\ \/ Cardinality(B) = BatchSize
       \/ B = S /\ Cardinality(S) < BatchSize
    /\ \A a \in B, b \in S \ B : a < b

------------------------------------------------------------------------------
(* Time and the holds of incidents.                                          *)

Expire(a) ==
    /\ a \notin expired
    /\ expired' = expired \cup {a}
    /\ UNCHANGED <<store, holds, pc, loop, gone, told>>

\* create_retention_hold: the foreign key takes FOR KEY SHARE on the row, which
\* waits for a FOR UPDATE and fails when the row is gone.
HoldStarts(a) ==
    /\ a \in Holdable \cap rows /\ hold[a] = "none" /\ ~Locked(a)
    /\ hold' = [hold EXCEPT ![a] = "inserting"]
    /\ UNCHANGED <<store, expired, released, pc, loop, gone, told>>

\* It commits, or it does not.
HoldEnds(a) ==
    /\ hold[a] = "inserting"
    /\ \E outcome \in {"active", "none"} : hold' = [hold EXCEPT ![a] = outcome]
    /\ UNCHANGED <<store, expired, released, pc, loop, gone, told>>

\* A plausible bug: the release is recorded in place of the hold.
ReleaseAsStatus(a) ==
    /\ Held(a)
    /\ hold' = [hold EXCEPT ![a] = "released"]
    /\ UNCHANGED <<store, expired, released, pc, loop, gone, told>>

\* release_retention_hold sets released_at; the row stays.
Release(a) ==
    /\ Held(a)
    /\ hold' = [hold EXCEPT ![a] = "none"]
    /\ released' = released \cup {a}
    /\ UNCHANGED <<store, expired, pc, loop, gone, told>>

------------------------------------------------------------------------------
(* enforce().                                                                *)

\* The enforcer leaves enforce(); its open transaction is rolled back.
Leaves(w) ==
    /\ pc' = [pc EXCEPT ![w] = "idle"]
    /\ due' = [due EXCEPT ![w] = {}]
    /\ todo' = [todo EXCEPT ![w] = {}]
    /\ item' = [item EXCEPT ![w] = Null]
    /\ blocked' = [blocked EXCEPT ![w] = {}]
    /\ gone' = [gone EXCEPT ![w] = {}]

\* The enforcer is done with its item: it goes on with the batch.
NextItem(w) ==
    /\ pc' = [pc EXCEPT ![w] = "drain"]
    /\ todo' = [todo EXCEPT ![w] = @ \ {item[w]}]
    /\ item' = [item EXCEPT ![w] = Null]

\* A job is claimed and its run opened, for what has expired by now.
Start(w) ==
    /\ pc[w] = "idle"
    /\ pc' = [pc EXCEPT ![w] = "drain"]
    /\ due' = [due EXCEPT ![w] = expired]
    /\ UNCHANGED <<store, expired, holds, todo, item, blocked, gone, told>>

\* _select_batch and the non-progress guard.
SelectBatch(w) ==
    /\ pc[w] = "drain" /\ todo[w] = {}
    /\ \E B \in SUBSET Eligible(w) :
          /\ Batch(Eligible(w), B) /\ B # {}
          /\ ~(B \subseteq blocked[w])
          /\ todo' = [todo EXCEPT ![w] = B]
          /\ blocked' = [blocked EXCEPT ![w] = B]
    /\ UNCHANGED <<store, expired, holds, pc, due, item, gone, told>>

\* A plausible bug: BATCH_SIZE caps what one run deletes.
SelectNoMore(w) ==
    /\ pc[w] = "drain" /\ todo[w] = {}
    /\ Eligible(w) = {} \/ Cardinality(gone[w]) >= BatchSize
    /\ pc' = [pc EXCEPT ![w] = "finish"]
    /\ UNCHANGED <<store, expired, holds, loop, gone, told>>

\* ... nothing is left to select.
SelectNone(w) ==
    /\ pc[w] = "drain" /\ todo[w] = {}
    /\ Eligible(w) = {}
    /\ pc' = [pc EXCEPT ![w] = "finish"]
    /\ UNCHANGED <<store, expired, holds, loop, gone, told>>

\* _finalize_artifact: the statement that selects the row reads its snapshot.
\* An artifact that is held or gone by then is skipped.
Check(w) ==
    /\ pc[w] = "drain"
    /\ \E a \in todo[w] :
          /\ \A b \in todo[w] : a <= b
          /\ \/ /\ a \in rows \cap expired /\ ~Held(a)
                /\ pc' = [pc EXCEPT ![w] = "locking"]
                /\ item' = [item EXCEPT ![w] = a]
                /\ UNCHANGED todo
             \/ /\ a \notin rows \cap expired \/ Held(a)
                /\ todo' = [todo EXCEPT ![w] = @ \ {a}]
                /\ UNCHANGED <<pc, item>>
    /\ UNCHANGED <<store, expired, holds, due, blocked, gone, told>>

\* A plausible bug: the row is selected without FOR UPDATE.
LockNothing(w) ==
    /\ pc[w] = "locking"
    /\ pc' = [pc EXCEPT ![w] = "locked"]
    /\ UNCHANGED <<store, expired, holds, loop, gone, told>>

\* ... and then locks it FOR UPDATE.  It waits for the lock of another enforcer,
\* whose deletion makes it return nothing, and for the key-share lock of a hold
\* that is being inserted, which changes nothing: a row that was only locked is
\* returned as the snapshot selected it.
Lock(w) ==
    /\ pc[w] = "locking"
    /\ ~Locked(item[w]) /\ hold[item[w]] # "inserting"
    /\ \/ /\ item[w] \in rows
          /\ pc' = [pc EXCEPT ![w] = "locked"]
          /\ UNCHANGED <<todo, item>>
       \/ item[w] \notin rows /\ NextItem(w)
    /\ UNCHANGED <<store, expired, holds, due, blocked, gone, told>>

\* A plausible bug: a failed or absent object is an error the handler swallows.
DeleteObjectOrNot(w) ==
    /\ pc[w] = "locked"
    /\ objects' \in {objects, objects \ {item[w]}}
    /\ pc' = [pc EXCEPT ![w] = "stored"]
    /\ UNCHANGED <<rows, expired, holds, loop, gone, told>>

\* A plausible bug: deleting an absent object raises.
DeletePresentObject(w) ==
    /\ pc[w] = "locked" /\ item[w] \in objects
    /\ objects' = objects \ {item[w]}
    /\ pc' = [pc EXCEPT ![w] = "stored"]
    /\ UNCHANGED <<rows, expired, holds, loop, gone, told>>

\* storage.delete, for which an absent object is as good as a deleted one.
DeleteObject(w) ==
    /\ pc[w] = "locked"
    /\ objects' = objects \ {item[w]}
    /\ pc' = [pc EXCEPT ![w] = "stored"]
    /\ UNCHANGED <<rows, expired, holds, loop, gone, told>>

\* The row is deleted and the transaction commits.
DeleteRow(w) ==
    /\ pc[w] = "stored" /\ ~Referenced(item[w])
    /\ rows' = rows \ {item[w]}
    /\ gone' = [gone EXCEPT ![w] = @ \cup {item[w]}]
    /\ blocked' = [blocked EXCEPT ![w] = {}]
    /\ NextItem(w)
    /\ UNCHANGED <<objects, expired, holds, due, told>>

\* _finish_run.
Finish(w) ==
    /\ pc[w] = "finish"
    /\ told' = told \cup gone[w]
    /\ Leaves(w)
    /\ UNCHANGED <<store, expired, holds>>

\* An exception: the guard's, one of S3 or of the database, the foreign key's
\* among them; or the process dies.  The run stays open, its job is retried.
Fails(w) ==
    /\ pc[w] # "idle"
    /\ Leaves(w)
    /\ UNCHANGED <<store, expired, holds, told>>

Enforce(w) ==
    \/ SelectBatch(w) \/ SelectNone(w) \/ Check(w)
    \/ Lock(w) \/ DeleteObject(w) \/ DeleteRow(w) \/ Finish(w) \/ Fails(w)

Next ==
    \/ \E a \in Artifact : Expire(a) \/ HoldStarts(a) \/ HoldEnds(a) \/ Release(a)
    \/ \E w \in Enforcer : Start(w) \/ Enforce(w)

Spec == Init /\ [][Next]_vars

\* The scheduler queues a job every day, and outages and crashes do not strike
\* the same step for ever: a step that comes up again and again is taken.  A
\* hold's transaction ends, and a step that cannot succeed fails.
Fairness ==
    /\ \A a \in Artifact : WF_vars(HoldEnds(a))
    /\ \A w \in Enforcer :
          /\ WF_vars(Enforce(w))
          /\ SF_vars(Start(w)) /\ SF_vars(SelectBatch(w)) /\ SF_vars(Check(w))
          /\ SF_vars(Lock(w)) /\ SF_vars(DeleteObject(w)) /\ SF_vars(DeleteRow(w))

FairSpec == Spec /\ Fairness

------------------------------------------------------------------------------
(* Properties.                                                               *)

\* _finalize_artifact, "a hold cannot become ACTIVE between this check and the
\* committed deletion": a hold that was granted always has its artifact's row,
\* whichever enforcers were half through with it.
HoldKeepsRow == \A a \in Artifact : Held(a) => a \in rows

\* "Object-store deletion happens BEFORE DB row deletion": wherever an enforcer
\* fails or dies, no object is left that no row leads to.
NoOrphanObject == objects \subseteq rows

\* "No false audit count is ever produced": an artifact is counted by one run,
\* however many enforcers found it in their batches and however they ended.
AuditedOnce ==
    /\ \A w \in Enforcer : gone[w] \cap told = {} /\ gone[w] \cap rows = {}
    /\ \A v, w \in Enforcer : v # w => gone[v] \cap gone[w] = {}
    /\ told \cap rows = {}

\* "BATCH_SIZE is a per-query safety bound, never a per-run deletion cap": a
\* run that finishes leaves nothing that had expired when it began, unless a
\* hold protects it or did.
FinishedMeansDrained == \A w \in Enforcer :
    pc[w] = "finish" => \A a \in due[w] \cap rows : Referenced(a)

\* a has expired, no hold protects it, and none is being placed anywhere.
Disposable(a) == a \in expired /\ hold[a] = "none" /\ \A b \in Artifact : hold[b] # "inserting"

\* As long as no hold has been released, an artifact that stays expired and
\* unheld is deleted in the end, whatever failed before and wherever that left
\* object, row and batches, and although other artifacts are held.
UnheldIsDeleted == \A a \in Artifact :
    [](released = {}) /\ <>[]Disposable(a) => <>(a \notin rows)

(* What the documents say and the code does not keep.                         *)

\* SECURITY.md section 108, pinned "until the relevant retention hold ends":
\* what no hold protects any more is deleted like everything else.
ReleasedIsDeleted == \A a \in Artifact :
    <>[]Disposable(a) => <>(a \notin rows)
==============================================================================

------------------------ MODULE EventConditionsProofs ------------------------
(***************************************************************************)
(* Theorems about EventConditions, for any number of windows, pages and     *)
(* workers, any history of which pages the windows show affected and any    *)
(* bound on how often each derivation is started.                           *)
(*                                                                          *)
(* A window is never lost because one of its runs is always still to be     *)
(* derived, and will evaluate it, or has been (Pending, OnsetInv).  The     *)
(* events agree with the rules as long as nothing is overtaken because the  *)
(* windows are then derived one after the other (InTurn), an onset leaves   *)
(* an event, or supports one that no window resolves in between, a recovery *)
(* leaves no older one active, and who is about to open an event is not     *)
(* late (Opens, Closes, FreshOpen).                                         *)
(***************************************************************************)
EXTENDS EventConditions, FiniteSetTheorems, TLAPS

\* The run of a handler is finalised, and what it is about to do is what its
\* window calls for, or nothing.
HandlerInv == \A w \in Worker :
    /\ pc[w] # "idle" => job[w] \in final
    /\ pc[w] \in {"persist", "locked"} => action[w] \in {Action(job[w][1]), "NONE"}

\* The jobs are those of the finalised runs, which are runs of the history.
Queued ==
    /\ final \subseteq Observing
    /\ \A r \in Run : phase[r] # "absent" => r \in final

\* One active event, and one transaction that has it locked.
OneActive == \A d, e \in Active : d = e
OneLock == \A v, w \in Worker : found[v] = found[w] /\ found[v] # 0 => v = w

\* How an event came about, how it ended, and what may be linked to it.
EventInv == \A e \in 1 .. Windows :
    /\ event[e].status = "ABSENT" => event[e] = Absent
    /\ event[e].status # "ABSENT" =>
          e \in 1 .. Last /\ Action(e) = "UPSERT" /\ \E q \in facts : q[1] = e
    /\ event[e].status = "RESOLVED" =>
          /\ event[e].ended \in e + 1 .. Last
          /\ Action(event[e].ended) = "RESOLVE"
          /\ \E q \in facts : q[1] = event[e].ended
    /\ event[e].status = "ACTIVE" =>
          \A ref \in event[e].refs : ref[1][1] >= e => Action(ref[1][1]) # "RESOLVE"

\* A run of window n is still to be derived, and its derivation will evaluate the
\* window: every handler of it that has loaded its input saw the window complete.
ToEvaluate(n, r) ==
    /\ r \notin facts
    /\ \A w \in Worker :
          job[w] = r /\ pc[w] \in {"persist", "locked"} => action[w] = Action(n)
Pending(n) == \E r \in At(n) : ToEvaluate(n, r)

OnsetInv == \A n \in 1 .. Last :
    Complete(n) /\ Action(n) = "UPSERT" =>
        Pending(n) \/ \E e \in 1 .. Windows : Affected(n) \subseteq Linked(e)

\* The windows before n are derived.
Before(n) == \A q \in Observing : q[1] < n => q \in facts

InTurn ==
    /\ \A r \in facts : Before(r[1])
    /\ \A w \in Worker : pc[w] = "locked" => Before(job[w][1])

\* No active event is as old as window n.
NoneUpTo(n) == \A e \in Active : e > n

\* A window that calls for an event has one, of its own or of an earlier window
\* with no recovery in between.
Opens == \A n \in 1 .. Last :
    Complete(n) /\ Action(n) = "UPSERT" =>
        Pending(n) \/ \E e \in 1 .. n :
            event[e].status # "ABSENT" /\ \A k \in e .. n : Action(k) # "RESOLVE"

\* A handler that is about to open an event of its own finds none active when it
\* commits, and no later window was derived before.
ToOpen(w) ==
    /\ pc[w] = "locked" /\ action[w] = "UPSERT" /\ found[w] = 0
    /\ event[job[w][1]].status = "ABSENT"
FreshOpen == \A w \in Worker :
    ToOpen(w) => Active = {} /\ \A q \in facts : q[1] <= job[w][1]

\* A window that resolves leaves no event of its past active, and a handler that
\* found nothing to resolve will not be proved wrong.
Closes ==
    /\ \A n \in 1 .. Last :
          Complete(n) /\ Action(n) = "RESOLVE" =>
              Pending(n) \/ (NoneUpTo(n) /\ \E r \in At(n) : r \in facts)
    /\ \A w \in Worker :
          pc[w] = "locked" /\ action[w] = "RESOLVE" /\ found[w] = 0 => NoneUpTo(job[w][1])

OrderInv == InTurn /\ Opens /\ Closes /\ FreshOpen

IInv ==
    /\ TypeOK
    /\ Queued /\ HandlerInv /\ OneActive /\ OneLock /\ EventInv
    /\ SupportCounted
    /\ OnsetInv
    /\ ~overtaken => OrderInv
    /\ OnlyOvertakenRaise
------------------------------------------------------------------------------
(* Lemmas about the rules.                                                   *)

HistoryOK == <<rule, seen>> \in Histories

\* The last window is a number within the bound, and the windows show pages.
LEMMA HistoryFacts ==
    ASSUME HistoryOK
    PROVE  /\ Last \in 1 .. Windows
           /\ seen \in [0 .. Last -> SUBSET Page]
           /\ rule \in Rules
<1>1. <<rule, seen>> \in History
  BY EventsAssumption DEF HistoryOK
<1>2. PICK n \in 1 .. Windows : seen \in [0 .. n -> SUBSET Page]
  BY <1>1 DEF History
<1>3. DOMAIN seen = 0 .. n
  BY <1>2
<1>4. Cardinality(0 .. n) = n + 1
  <2>1. n \in Int /\ 0 \in Int /\ ~ (0 > n)
    BY EventsAssumption
  <2>2. Cardinality(0 .. n) = n - 0 + 1
    BY <2>1, FS_Interval
  <2> QED BY <2>1, <2>2
<1>5. Last = n
  BY <1>3, <1>4 DEF Last
<1>6. rule \in Rules
  BY <1>1 DEF History
<1> QED BY <1>2, <1>5, <1>6

LEMMA ActionType == \A n : Action(n) \in Actions
BY DEF Action, JsAction, GptAction, Actions

\* The runs that observe a window are runs of it, and there is one.
LEMMA RunsOfWindow ==
    ASSUME HistoryOK
    PROVE  /\ Observing \subseteq Run
           /\ \A n : At(n) # {} /\ At(n) \subseteq {n} \X Page
           /\ \A n : \A r \in At(n) : r[1] = n
           /\ \A n \in 1 .. Last : At(n) \subseteq Observing
           /\ \A r \in Observing : r[1] \in 1 .. Last /\ r \in At(r[1])
<1>1. Last \in 1 .. Windows /\ ErrorPage \in Page /\ Windows \in Nat
  BY HistoryFacts, EventsAssumption
<1>2. ASSUME NEW n PROVE At(n) # {} /\ At(n) \subseteq {n} \X Page
  <2>1. CASE rule = "JS_ERROR_STARTED"
    <3>1. At(n) = {n} \X {ErrorPage}
      BY <2>1 DEF At
    <3>2. <<n, ErrorPage>> \in At(n)
      BY <3>1
    <3> QED BY <1>1, <3>1, <3>2
  <2>2. CASE rule # "JS_ERROR_STARTED"
    <3>1. At(n) = {n} \X Page
      BY <2>2 DEF At
    <3>2. <<n, ErrorPage>> \in At(n)
      BY <1>1, <3>1
    <3> QED BY <3>1, <3>2
  <2> QED BY <2>1, <2>2
<1>3. \A n : \A r \in At(n) : r[1] = n
  BY <1>2
<1>4. \A n \in 1 .. Last : At(n) \subseteq Observing
  BY DEF Observing
<1>5. \A r \in Observing : r[1] \in 1 .. Last /\ r \in At(r[1])
  BY <1>3 DEF Observing
<1>6. Observing \subseteq Run
  BY <1>1, <1>2, <1>5 DEF Run
<1> QED BY <1>2, <1>3, <1>4, <1>5, <1>6

\* The evidence that opens a condition is of windows there are, none later than
\* the one that opens it, and none of them resolves a condition but a first one
\* that comes before.
LEMMA TriggerFacts ==
    ASSUME HistoryOK, NEW n \in 1 .. Last, Action(n) = "UPSERT"
    PROVE  /\ Trigger(n) \subseteq ((0 .. Windows) \X Page) \X Relation
           /\ \A ref \in Trigger(n) : ref[1][1] <= n
           /\ Trigger(n) # {}
           /\ \A ref \in Trigger(n) : ref[2] # "TRIGGER_BEFORE" =>
                 /\ ref[2] \in {"TRIGGER_AFTER", "SUPPORTING"}
                 /\ ref[1][1] >= 1 /\ Action(ref[1][1]) # "RESOLVE"
<1>1. /\ Last \in 1 .. Windows /\ Windows \in Nat
      /\ \A k : At(k) # {} /\ At(k) \subseteq {k} \X Page
      /\ n \in Nat /\ n >= 1 /\ n <= Windows
  BY HistoryFacts, RunsOfWindow, EventsAssumption
<1>2. ASSUME NEW m \in 0 .. n, NEW k \in Relation, NEW S \in SUBSET ({m} \X Page)
      PROVE  /\ S \X {k} \subseteq ((0 .. Windows) \X Page) \X Relation
             /\ \A ref \in S \X {k} : ref[1] \in S /\ ref[2] = k /\ ref[1][1] = m
             /\ S # {} => S \X {k} # {}
  <2>1. m \in 0 .. Windows
    BY <1>1
  <2>2. S \subseteq (0 .. Windows) \X Page /\ \A r \in S : r[1] = m
    BY <2>1
  <2>3. ASSUME NEW r \in S PROVE <<r, k>> \in S \X {k}
    OBVIOUS
  <2>4. S # {} => S \X {k} # {}
    BY <2>3
  <2>5. \A ref \in S \X {k} : ref[1] \in S /\ ref[2] = k /\ ref[1][1] = m
    BY <2>2
  <2>6. S \X {k} \subseteq ((0 .. Windows) \X Page) \X Relation
    BY <2>2
  <2> QED BY <2>4, <2>5, <2>6
<1>3. {"TRIGGER_BEFORE", "TRIGGER_AFTER", "SUPPORTING"} \subseteq Relation
  BY DEF Relation
<1>4. CASE rule = "JS_ERROR_STARTED"
  <2>1. n > 1 /\ ErrorPage \notin seen[n - 2]
    BY <1>4 DEF Action, JsAction
  <2>2. Action(n - 1) # "RESOLVE"
    <3>1. (n - 1) - 1 = n - 2
      BY <1>1
    <3> QED BY <1>4, <2>1, <3>1 DEF Action, JsAction
  <2>3. n - 2 \in 0 .. n /\ n - 1 \in 0 .. n /\ n \in 0 .. n /\ n - 1 >= 1
    BY <1>1, <2>1
  <2> DEFINE B == At(n - 2) \X {"TRIGGER_BEFORE"}
             A == At(n - 1) \X {"TRIGGER_AFTER"}
             S == At(n) \X {"SUPPORTING"}
  <2>4. Trigger(n) = B \cup A \cup S
    BY <1>4 DEF Trigger, JsTrigger
  <2>5. /\ B \subseteq ((0 .. Windows) \X Page) \X Relation
        /\ \A ref \in B : ref[2] = "TRIGGER_BEFORE" /\ ref[1][1] = n - 2
    BY <1>1, <1>2, <1>3, <2>3
  <2>6. /\ A \subseteq ((0 .. Windows) \X Page) \X Relation
        /\ \A ref \in A : ref[2] = "TRIGGER_AFTER" /\ ref[1][1] = n - 1
    BY <1>1, <1>2, <1>3, <2>3
  <2>7. /\ S \subseteq ((0 .. Windows) \X Page) \X Relation
        /\ \A ref \in S : ref[2] = "SUPPORTING" /\ ref[1][1] = n
        /\ S # {}
    BY <1>1, <1>2, <1>3, <2>3
  <2> HIDE DEF B, A, S
  <2>8. Trigger(n) # {}
    BY <2>4, <2>7
  <2>9. ASSUME NEW ref \in Trigger(n)
        PROVE  /\ ref[1][1] <= n
               /\ ref[2] # "TRIGGER_BEFORE" =>
                    /\ ref[2] \in {"TRIGGER_AFTER", "SUPPORTING"}
                    /\ ref[1][1] >= 1 /\ Action(ref[1][1]) # "RESOLVE"
    BY <1>1, <2>2, <2>3, <2>4, <2>5, <2>6, <2>7
  <2> QED BY <2>4, <2>5, <2>6, <2>7, <2>8, <2>9
<1>5. CASE rule # "JS_ERROR_STARTED"
  <2> DEFINE Had == {n - 1} \X Lost(n)
             Has == {n} \X seen[n]
             B == Had \X {"TRIGGER_BEFORE"}
             A == Has \X {"TRIGGER_AFTER"}
  <2>1. n - 1 \in 0 .. n /\ n \in 0 .. n /\ n \in 0 .. Last
    BY <1>1
  <2>2. Trigger(n) = B \cup A
    BY <1>5 DEF Trigger, GptTrigger
  <2>3. seen[n] \subseteq Page /\ Lost(n) \subseteq Page
    BY <2>1, HistoryFacts DEF Lost
  <2>4. PICK p \in seen[n] : TRUE
    BY <1>5 DEF Action, GptAction
  <2>5. Had \subseteq {n - 1} \X Page /\ Has \subseteq {n} \X Page
    BY <2>3
  <2>6. <<n, p>> \in Has
    BY <2>4
  <2> HIDE DEF Had, Has
  <2>7. /\ B \subseteq ((0 .. Windows) \X Page) \X Relation
        /\ \A ref \in B : ref[2] = "TRIGGER_BEFORE" /\ ref[1][1] = n - 1
    BY <1>2, <1>3, <2>1, <2>5, <2>6
  <2>8. /\ A \subseteq ((0 .. Windows) \X Page) \X Relation
        /\ \A ref \in A : ref[2] = "TRIGGER_AFTER" /\ ref[1][1] = n
        /\ A # {}
    BY <1>2, <1>3, <2>1, <2>5, <2>6
  <2> HIDE DEF B, A
  <2>9. Trigger(n) # {}
    BY <2>2, <2>8
  <2>10. ASSUME NEW ref \in Trigger(n)
        PROVE  /\ ref[1][1] <= n
               /\ ref[2] # "TRIGGER_BEFORE" =>
                    /\ ref[2] \in {"TRIGGER_AFTER", "SUPPORTING"}
                    /\ ref[1][1] >= 1 /\ Action(ref[1][1]) # "RESOLVE"
    BY <1>1, <2>2, <2>7, <2>8
  <2> QED BY <2>2, <2>7, <2>8, <2>9, <2>10
<1> QED BY <1>4, <1>5

\* The history of the windows is fixed, and with it all that the rules say.
LEMMA RulesStay ==
    ASSUME rule' = rule, seen' = seen
    PROVE  /\ Last' = Last /\ Observing' = Observing
           /\ \A n : Action(n)' = Action(n)
           /\ \A n : At(n)' = At(n)
           /\ \A n : Affected(n)' = Affected(n)
<1>1. Last' = Last
  BY DEF Last
<1>2. \A n : At(n)' = At(n)
  BY DEF At
<1>3. \A n : Action(n)' = Action(n)
  BY DEF Action, JsAction, GptAction, Lost
<1>4. \A n : Affected(n)' = Affected(n)
  BY <1>3 DEF Affected, Trigger, JsTrigger, GptTrigger, Lost, At
<1>5. Observing' = Observing
  BY <1>1, <1>2 DEF Observing
<1> QED BY <1>1, <1>2, <1>3, <1>4, <1>5
------------------------------------------------------------------------------
(* Lemmas about the events.                                                  *)

Ref == ((0 .. Windows) \X Page) \X Relation
EventRow == [status : {"ABSENT", "ACTIVE", "RESOLVED"}, ended : 0 .. Windows,
             refs : SUBSET Ref, supporting : Nat]
EventsOK == event \in [1 .. Windows -> EventRow]

LEMMA RefsFinite == IsFiniteSet(Ref) /\ IsFiniteSet((0 .. Windows) \X Page)
<1>1. IsFiniteSet(0 .. Windows) /\ IsFiniteSet(Page)
  BY FS_Interval, EventsAssumption
<1>2. IsFiniteSet({"TRIGGER_BEFORE"} \cup {"TRIGGER_AFTER"} \cup {"SUPPORTING"} \cup {"RECOVERY"})
  BY FS_Singleton, FS_Union
<1>3. Relation = {"TRIGGER_BEFORE"} \cup {"TRIGGER_AFTER"} \cup {"SUPPORTING"} \cup {"RECOVERY"}
  BY DEF Relation
<1>4. IsFiniteSet((0 .. Windows) \X Page)
  BY <1>1, FS_Product
<1>5. IsFiniteSet(((0 .. Windows) \X Page) \X Relation)
  BY <1>2, <1>3, <1>4, FS_Product
<1> QED BY <1>4, <1>5 DEF Ref

\* The links to runs that are affected: what supporting_count counts.
Affecting(refs) == {ref \in refs : ref[2] \in {"TRIGGER_AFTER", "SUPPORTING"}}

\* The runs a candidate brings are of windows that do not resolve.
LEMMA AffectedFacts ==
    ASSUME HistoryOK, NEW n \in 1 .. Last, Action(n) \in {"UPSERT", "SUPPORT"}
    PROVE  /\ Affected(n) \subseteq (0 .. Windows) \X Page
           /\ \A r \in Affected(n) : r[1] >= 1 /\ Action(r[1]) # "RESOLVE"
<1>1. Last \in 1 .. Windows /\ Windows \in Nat
  BY HistoryFacts, EventsAssumption
<1>2. CASE Action(n) = "UPSERT"
  <2>1. Affected(n) = {ref[1] : ref \in {t \in Trigger(n) : t[2] # "TRIGGER_BEFORE"}}
    BY <1>2 DEF Affected
  <2>2. /\ Trigger(n) \subseteq ((0 .. Windows) \X Page) \X Relation
        /\ \A ref \in Trigger(n) : ref[2] # "TRIGGER_BEFORE" =>
              ref[1][1] >= 1 /\ Action(ref[1][1]) # "RESOLVE"
    BY <1>2, TriggerFacts
  <2>3. Affected(n) \subseteq (0 .. Windows) \X Page
    BY <2>1, <2>2
  <2>4. \A r \in Affected(n) : r[1] >= 1 /\ Action(r[1]) # "RESOLVE"
    BY <2>1, <2>2
  <2> QED BY <2>3, <2>4
<1>3. CASE Action(n) = "SUPPORT"
  <2>1. Affected(n) \subseteq At(n)
    BY <1>3 DEF Affected
  <2>2. At(n) \subseteq {n} \X Page /\ \A r \in At(n) : r[1] = n
    BY RunsOfWindow
  <2>3. At(n) \subseteq (0 .. Windows) \X Page
    BY <1>1, <2>2
  <2> QED BY <1>1, <1>3, <2>1, <2>2, <2>3
<1> QED BY <1>2, <1>3

\* A link for each of a set of runs: as many links as runs.
LEMMA LinksCount ==
    ASSUME NEW S, IsFiniteSet(S), NEW k
    PROVE  IsFiniteSet(S \X {k}) /\ Cardinality(S \X {k}) = Cardinality(S)
<1>1. IsFiniteSet({k}) /\ Cardinality({k}) = 1
  BY FS_Singleton
<1>2. IsFiniteSet(S \X {k}) /\ Cardinality(S \X {k}) = Cardinality(S) * Cardinality({k})
  BY <1>1, FS_Product
<1>3. Cardinality(S) \in Nat
  BY FS_CardinalityType
<1> QED BY <1>1, <1>2, <1>3

\* A condition that is opened is counted with the links that open it.
LEMMA OpenedCounts ==
    ASSUME HistoryOK, EventsOK, NEW n \in 1 .. Last, Action(n) = "UPSERT"
    PROVE  /\ Opened(n) \in [1 .. Windows -> EventRow]
           /\ \A e \in 1 .. Windows : e # n => Opened(n)[e] = event[e]
           /\ Opened(n)[n].status = "ACTIVE" /\ Opened(n)[n].refs = Trigger(n)
           /\ Opened(n)[n].supporting = Cardinality(Affecting(Trigger(n)))
<1>1. Last \in 1 .. Windows /\ n \in 1 .. Windows /\ 0 \in 0 .. Windows
  BY HistoryFacts, EventsAssumption
<1>2. Trigger(n) \subseteq Ref
  BY TriggerFacts DEF Ref
<1>3. {ref \in Trigger(n) : ref[2] # "TRIGGER_BEFORE"} = Affecting(Trigger(n))
  BY TriggerFacts DEF Affecting
<1>4. Affecting(Trigger(n)) \in SUBSET Ref
  BY <1>2 DEF Affecting
<1>5. Cardinality(Affecting(Trigger(n))) \in Nat
  BY <1>4, RefsFinite, FS_Subset, FS_CardinalityType
<1> DEFINE row == [status |-> "ACTIVE", ended |-> 0, refs |-> Trigger(n),
                   supporting |-> Cardinality(Affecting(Trigger(n)))]
<1>6. row \in EventRow
  BY <1>1, <1>2, <1>5 DEF EventRow
<1>7. Opened(n) = [event EXCEPT ![n] = row]
  BY <1>3 DEF Opened, EventId
<1> HIDE DEF row
<1>8. /\ Opened(n) \in [1 .. Windows -> EventRow]
      /\ \A e \in 1 .. Windows : e # n => Opened(n)[e] = event[e]
      /\ Opened(n)[n] = row
  BY <1>1, <1>6, <1>7 DEF EventsOK
<1> QED BY <1>8 DEF row

\* Evidence is linked and counted once.
LEMMA SupportedCounts ==
    ASSUME HistoryOK, EventsOK, NEW n \in 1 .. Last, Action(n) \in {"UPSERT", "SUPPORT"},
           NEW e \in 1 .. Windows,
           event[e].supporting = Cardinality(Affecting(event[e].refs))
    PROVE  LET ev == Supported(e, n) IN
           /\ ev \in [1 .. Windows -> EventRow]
           /\ \A d \in 1 .. Windows : d # e => ev[d] = event[d]
           /\ ev[e].status = event[e].status /\ ev[e].ended = event[e].ended
           /\ ev[e].refs = event[e].refs \cup (Added(e, Affected(n)) \X {"SUPPORTING"})
           /\ ev[e].supporting = Cardinality(Affecting(ev[e].refs))
<1> DEFINE new == Added(e, Affected(n))
           refs == event[e].refs
<1>1. refs \in SUBSET Ref /\ event[e].supporting \in Nat /\ event[e] \in EventRow
  BY DEF EventsOK, EventRow
<1>2. Affected(n) \subseteq (0 .. Windows) \X Page
  BY AffectedFacts
<1>3. new \in SUBSET ((0 .. Windows) \X Page) /\ \A ref \in refs : ref[1] \notin new
  BY <1>2 DEF Added, Linked
<1>4. IsFiniteSet(new) /\ Cardinality(new) \in Nat
  BY <1>3, RefsFinite, FS_Subset, FS_CardinalityType
<1> HIDE DEF new
<1>5. IsFiniteSet(new \X {"SUPPORTING"}) /\ Cardinality(new \X {"SUPPORTING"}) = Cardinality(new)
  BY <1>4, LinksCount
<1>6. Affecting(refs) \in SUBSET Ref
  BY <1>1 DEF Affecting
<1>7. IsFiniteSet(Affecting(refs)) /\ Cardinality(Affecting(refs)) \in Nat
  BY <1>6, RefsFinite, FS_Subset, FS_CardinalityType
<1>8. Affecting(refs \cup (new \X {"SUPPORTING"})) = Affecting(refs) \cup (new \X {"SUPPORTING"})
  BY DEF Affecting
<1>9. Affecting(refs) \cap (new \X {"SUPPORTING"}) = {}
  BY <1>3 DEF Affecting
<1>10. Cardinality(Affecting(refs \cup (new \X {"SUPPORTING"})))
          = event[e].supporting + Cardinality(new)
  <2>1. Cardinality(Affecting(refs) \cup (new \X {"SUPPORTING"}))
          = Cardinality(Affecting(refs)) + Cardinality(new \X {"SUPPORTING"})
              - Cardinality(Affecting(refs) \cap (new \X {"SUPPORTING"}))
    BY <1>5, <1>7, FS_Union
  <2>2. Cardinality(Affecting(refs) \cap (new \X {"SUPPORTING"})) = 0
    BY <1>9, FS_EmptySet
  <2>3. Cardinality(Affecting(refs \cup (new \X {"SUPPORTING"})))
          = Cardinality(Affecting(refs) \cup (new \X {"SUPPORTING"}))
    BY <1>8
  <2>4. Cardinality(Affecting(refs)) = event[e].supporting
    OBVIOUS
  <2> QED BY <1>1, <1>4, <1>5, <2>1, <2>2, <2>3, <2>4
<1>11. "SUPPORTING" \in Relation
  BY DEF Relation
<1>12. refs \cup (new \X {"SUPPORTING"}) \in SUBSET Ref
  BY <1>1, <1>3, <1>11 DEF Ref
<1> DEFINE row == [event[e] EXCEPT !.refs = refs \cup (new \X {"SUPPORTING"}),
                                   !.supporting = event[e].supporting + Cardinality(new)]
<1>13. row \in EventRow
  <2>1. event[e].supporting + Cardinality(new) \in Nat
    BY <1>1, <1>4
  <2> QED BY <1>1, <1>12, <2>1 DEF EventRow
<1>14. Supported(e, n) = [event EXCEPT ![e] = row]
  BY DEF Supported, new, EventsOK
<1>15. row.refs = refs \cup (new \X {"SUPPORTING"})
       /\ row.supporting = event[e].supporting + Cardinality(new)
       /\ row.status = event[e].status /\ row.ended = event[e].ended
  BY <1>1 DEF EventRow
<1> HIDE DEF row, refs
<1>16. /\ Supported(e, n) \in [1 .. Windows -> EventRow]
       /\ \A d \in 1 .. Windows : d # e => Supported(e, n)[d] = event[d]
       /\ Supported(e, n)[e] = row
  BY <1>13, <1>14 DEF EventsOK
<1> QED BY <1>10, <1>15, <1>16 DEF new, refs

\* A recovery closes the event and counts nothing.
LEMMA ResolvedCounts ==
    ASSUME HistoryOK, EventsOK, NEW n \in 1 .. Last, NEW e \in 1 .. Windows
    PROVE  LET ev == Resolved(e, n) IN
           /\ ev \in [1 .. Windows -> EventRow]
           /\ \A d \in 1 .. Windows : d # e => ev[d] = event[d]
           /\ ev[e].status = "RESOLVED" /\ ev[e].ended = n
           /\ event[e].refs \subseteq ev[e].refs
           /\ ev[e].supporting = event[e].supporting
           /\ Affecting(ev[e].refs) = Affecting(event[e].refs)
<1> DEFINE new == At(n) \ Linked(e)
           refs == event[e].refs
<1>1. refs \in SUBSET Ref /\ event[e] \in EventRow
  BY DEF EventsOK, EventRow
<1>2. Last \in 1 .. Windows /\ Windows \in Nat /\ n \in 0 .. Windows
  BY HistoryFacts, EventsAssumption
<1>3. new \subseteq (0 .. Windows) \X Page
  BY <1>2, RunsOfWindow
<1> HIDE DEF new
<1>4. "RECOVERY" \in Relation
  BY DEF Relation
<1>5. refs \cup (new \X {"RECOVERY"}) \in SUBSET Ref
  BY <1>1, <1>3, <1>4 DEF Ref
<1>6. Affecting(refs \cup (new \X {"RECOVERY"})) = Affecting(refs)
  BY DEF Affecting
<1> DEFINE row == [event[e] EXCEPT !.status = "RESOLVED", !.ended = n,
                                   !.refs = refs \cup (new \X {"RECOVERY"})]
<1>7. row \in EventRow
  BY <1>1, <1>2, <1>5 DEF EventRow
<1>8. Resolved(e, n) = [event EXCEPT ![e] = row]
  BY DEF Resolved, new, EventsOK
<1>9. /\ row.refs = refs \cup (new \X {"RECOVERY"}) /\ row.supporting = event[e].supporting
      /\ row.status = "RESOLVED" /\ row.ended = n
  BY <1>1 DEF EventRow
<1> HIDE DEF row, refs
<1>10. /\ Resolved(e, n) \in [1 .. Windows -> EventRow]
       /\ \A d \in 1 .. Windows : d # e => Resolved(e, n)[d] = event[d]
       /\ Resolved(e, n)[e] = row
  BY <1>7, <1>8 DEF EventsOK
<1> QED BY <1>6, <1>9, <1>10 DEF refs
------------------------------------------------------------------------------
(* What a handler's transaction does.                                        *)

\* A handler is about a run that observes its window.
LEMMA HandlerRun ==
    ASSUME TypeOK, Queued, HandlerInv, NEW w \in Worker, pc[w] # "idle"
    PROVE  /\ job[w] \in Run /\ job[w] \in final /\ job[w] \in Observing
           /\ job[w][1] \in 1 .. Last /\ job[w][1] \in 1 .. Windows
           /\ job[w] \in At(job[w][1])
<1>1. job[w] \in final /\ job[w] \in Observing
  BY DEF HandlerInv, Queued
<1>2. HistoryOK
  BY DEF TypeOK, HistoryOK
<1>3. Last \in 1 .. Windows /\ Windows \in Nat
  BY <1>2, HistoryFacts, EventsAssumption
<1> QED BY <1>1, <1>2, <1>3, RunsOfWindow

CommitStep(w) == Ignore(w) \/ Open(w) \/ Support(w) \/ Resolve(w)

OthersStay(e) == \A d \in 1 .. Windows : d # e => event'[d] = event[d]

Opening(w) ==
    LET n == job[w][1] IN
    /\ Open(w)
    /\ Action(n) = "UPSERT" /\ Active = {} /\ event[n].status = "ABSENT"
    /\ event'[n].status = "ACTIVE" /\ event'[n].refs = Trigger(n)
    /\ OthersStay(n)

Supporting(w, e) ==
    LET n == job[w][1] IN
    /\ Support(w)
    /\ Action(n) = action[w] /\ Action(n) \in {"UPSERT", "SUPPORT"}
    /\ event'[e].status = "ACTIVE"
    /\ event'[e].refs = event[e].refs \cup (Added(e, Affected(n)) \X {"SUPPORTING"})
    /\ OthersStay(e)

Resolving(w, e) ==
    LET n == job[w][1] IN
    /\ Resolve(w)
    /\ e = found[w] /\ Recovers(e, n) /\ Action(n) = "RESOLVE"
    /\ event'[e].status = "RESOLVED" /\ event'[e].ended = n
    /\ event[e].refs \subseteq event'[e].refs
    /\ OthersStay(e)

EventMove(w) ==
    \/ Ignore(w) /\ event' = event
    \/ Opening(w)
    \/ \E e \in Active : Supporting(w, e) \/ Resolving(w, e)

LEMMA SupportIs ==
    SupportCounted <=> \A e \in DOMAIN event :
        event[e].supporting = Cardinality(Affecting(event[e].refs))
BY DEF SupportCounted, Affecting

LEMMA SupportIsNext ==
    SupportCounted' <=> \A e \in DOMAIN event' :
        event'[e].supporting = Cardinality(Affecting(event'[e].refs))
BY DEF SupportCounted, Affecting

LEMMA CommitMoves ==
    ASSUME TypeOK, Queued, HandlerInv, SupportCounted, NEW w \in Worker, CommitStep(w)
    PROVE  /\ pc[w] = "locked" /\ Commits(w) /\ EventMove(w)
           /\ EventsOK' /\ SupportCounted'
<1> DEFINE n == job[w][1]
<1>1. pc[w] = "locked" /\ Commits(w) /\ rule' = rule /\ seen' = seen
  BY DEF CommitStep, Ignore, Open, Support, Resolve, Commits, Goes
<1>2. HistoryOK /\ EventsOK /\ DOMAIN event = 1 .. Windows
  BY DEF TypeOK, HistoryOK, EventsOK, EventRow, Ref
<1>3. n \in 1 .. Last /\ n \in 1 .. Windows
  BY <1>1, HandlerRun
<1>4. action[w] # "NONE" => action[w] = Action(n)
  BY <1>1 DEF HandlerInv
<1>5. \A e \in 1 .. Windows : event[e].supporting = Cardinality(Affecting(event[e].refs))
  BY <1>2, SupportIs
<1>6. Active \subseteq 1 .. Windows /\ \A e \in Active : event[e].status = "ACTIVE"
  BY <1>2 DEF Active
<1>7. ASSUME NEW ev \in [1 .. Windows -> EventRow], event' = ev,
             \A e \in 1 .. Windows : ev[e].supporting = Cardinality(Affecting(ev[e].refs))
      PROVE  EventsOK' /\ SupportCounted'
  <2>1. EventsOK'
    BY <1>7 DEF EventsOK, EventRow, Ref
  <2>2. DOMAIN event' = 1 .. Windows
    BY <1>7
  <2> QED BY <1>7, <2>1, <2>2, SupportIsNext
<1>8. CASE Ignore(w)
  <2>1. event' = event
    BY <1>8 DEF Ignore
  <2>2. EventsOK' /\ SupportCounted'
    BY <1>2, <1>5, <1>7, <2>1 DEF EventsOK
  <2> QED BY <1>1, <1>8, <2>1, <2>2 DEF EventMove
<1>9. CASE Open(w)
  <2>1. Action(n) = "UPSERT" /\ ~ Conflict(n) /\ event' = Opened(n)
    BY <1>4, <1>9 DEF Open
  <2>2. Active = {} /\ event[n].status = "ABSENT"
    BY <2>1 DEF Conflict, EventId
  <2>3. /\ Opened(n) \in [1 .. Windows -> EventRow]
        /\ \A e \in 1 .. Windows : e # n => Opened(n)[e] = event[e]
        /\ Opened(n)[n].status = "ACTIVE" /\ Opened(n)[n].refs = Trigger(n)
        /\ Opened(n)[n].supporting = Cardinality(Affecting(Trigger(n)))
    BY <1>2, <1>3, <2>1, OpenedCounts
  <2>4. \A e \in 1 .. Windows :
            Opened(n)[e].supporting = Cardinality(Affecting(Opened(n)[e].refs))
    BY <1>5, <2>3
  <2>5. EventsOK' /\ SupportCounted'
    BY <1>7, <2>1, <2>3, <2>4
  <2>6. Opening(w)
    BY <1>9, <2>1, <2>2, <2>3 DEF Opening, OthersStay
  <2> QED BY <1>1, <2>5, <2>6 DEF EventMove
<1>10. CASE Support(w)
  <2>1. PICK e \in Active : event' = Supported(e, n)
    <3>1. CASE found[w] # 0 /\ event' = Supported(found[w], n)
      <4>1. found[w] \in Active
        BY <3>1 DEF TypeOK, Active
      <4> QED BY <3>1, <4>1
    <3>2. CASE \E e \in Active : ~Locked(e) /\ event' = Supported(e, n)
      BY <3>2
    <3> QED BY <1>10, <3>1, <3>2 DEF Support
  <2>2. Action(n) = action[w] /\ Action(n) \in {"UPSERT", "SUPPORT"}
    BY <1>4, <1>10 DEF Support
  <2> DEFINE ev == Supported(e, n)
  <2>3. /\ ev \in [1 .. Windows -> EventRow]
        /\ \A d \in 1 .. Windows : d # e => ev[d] = event[d]
        /\ ev[e].status = event[e].status /\ ev[e].ended = event[e].ended
        /\ ev[e].refs = event[e].refs \cup (Added(e, Affected(n)) \X {"SUPPORTING"})
        /\ ev[e].supporting = Cardinality(Affecting(ev[e].refs))
    BY <1>2, <1>3, <1>5, <1>6, <2>2, SupportedCounts
  <2> HIDE DEF ev
  <2>4. \A d \in 1 .. Windows : ev[d].supporting = Cardinality(Affecting(ev[d].refs))
    BY <1>5, <2>3
  <2>5. event' = ev
    BY <2>1 DEF ev
  <2>6. EventsOK' /\ SupportCounted'
    BY <1>7, <2>3, <2>4, <2>5
  <2>7. Supporting(w, e)
    BY <1>6, <1>10, <2>2, <2>3, <2>5 DEF Supporting, OthersStay
  <2> QED BY <1>1, <2>1, <2>6, <2>7 DEF EventMove
<1>11. CASE Resolve(w)
  <2> DEFINE e == found[w]
             ev == Resolved(e, n)
  <2>1. e \in Active /\ Recovers(e, n) /\ Action(n) = "RESOLVE" /\ event' = ev
    BY <1>4, <1>11 DEF Resolve, TypeOK, Active
  <2>2. /\ ev \in [1 .. Windows -> EventRow]
        /\ \A d \in 1 .. Windows : d # e => ev[d] = event[d]
        /\ ev[e].status = "RESOLVED" /\ ev[e].ended = n
        /\ event[e].refs \subseteq ev[e].refs
        /\ ev[e].supporting = event[e].supporting
        /\ Affecting(ev[e].refs) = Affecting(event[e].refs)
    <3>1. e \in 1 .. Windows
      BY <1>6, <2>1
    <3> HIDE DEF e
    <3> QED BY <1>2, <1>3, <3>1, ResolvedCounts DEF ev
  <2> HIDE DEF ev
  <2>3. \A d \in 1 .. Windows : ev[d].supporting = Cardinality(Affecting(ev[d].refs))
    BY <1>5, <2>2
  <2>4. EventsOK' /\ SupportCounted'
    BY <1>7, <2>1, <2>2, <2>3
  <2>5. Resolving(w, e)
    BY <1>11, <2>1, <2>2 DEF Resolving, OthersStay
  <2> QED BY <1>1, <2>1, <2>4, <2>5 DEF EventMove
<1> QED BY <1>1, <1>8, <1>9, <1>10, <1>11 DEF CommitStep

\* Every other step leaves the events and the recorded runs alone.
Quiet == event' = event /\ facts' = facts

\* A step is quiet or the commit of a handler's transaction; the history stays.
LEMMA StepKinds ==
    ASSUME [Next]_vars
    PROVE  /\ rule' = rule /\ seen' = seen
           /\ Quiet \/ \E w \in Worker : CommitStep(w)
<1>1. ASSUME NEW r \in Run, Finalize(r) \/ TakeBack(r)
      PROVE  rule' = rule /\ seen' = seen /\ Quiet
  BY <1>1 DEF Finalize, TakeBack, Quiet, eventVars
<1>2. ASSUME NEW w \in Worker, NEW r \in Run, Claim(w, r)
      PROVE  rule' = rule /\ seen' = seen /\ Quiet
  BY <1>2 DEF Claim, Quiet, eventVars
<1>3. ASSUME NEW w \in Worker,
             Load(w) \/ Lookup(w) \/ Raise(w) \/ Fails(w) \/ Report(w)
      PROVE  rule' = rule /\ seen' = seen /\ Quiet
  BY <1>3 DEF Load, Lookup, Raise, Fails, Report, Leaves, Quiet, eventVars
<1>4. ASSUME NEW w \in Worker, CommitStep(w)
      PROVE  rule' = rule /\ seen' = seen
  BY <1>4 DEF CommitStep, Ignore, Open, Support, Resolve, Commits
<1>5. CASE UNCHANGED vars
  BY <1>5 DEF vars, eventVars, Quiet
<1> QED BY <1>1, <1>2, <1>3, <1>4, <1>5 DEF Next, CommitStep
------------------------------------------------------------------------------
(* Every step keeps the types, the jobs and the handlers in order.           *)

QueueOK ==
    /\ phase \in [Run -> Queue!Phase]
    /\ runs \in [Run -> Nat] /\ \A r \in Run : runs[r] <= MaxAttempts[r]
    /\ owner \in [Run -> Worker \cup {Null}]

LEMMA QueueStep ==
    ASSUME TypeOK, Queued, HandlerInv, [Next]_vars
    PROVE  QueueOK' /\ Queued'
<1>1. rule' = rule /\ seen' = seen /\ Observing' = Observing
  BY StepKinds, RulesStay
<1>2. QueueOK /\ Queued /\ MaxAttempts \in [Run -> Nat \ {0}]
  BY EventsAssumption DEF TypeOK, QueueOK
<1>3. ASSUME NEW r \in Run, Finalize(r) PROVE QueueOK' /\ Queued'
  <2>1. Queue!Submit(r) /\ final' = final \cup {r} /\ r \in Observing
    BY <1>3 DEF Finalize
  <2> QED BY <1>1, <1>2, <2>1 DEF Queue!Submit, QueueOK, Queued, Queue!Phase
<1>4. ASSUME NEW r \in Run, TakeBack(r) PROVE QueueOK' /\ Queued'
  <2>1. Queue!TakeBack({r}) /\ final' = final
    BY <1>4 DEF TakeBack
  <2> QED BY <1>1, <1>2, <2>1 DEF Queue!TakeBack, QueueOK, Queued, Queue!Phase
<1>5. ASSUME NEW w \in Worker, NEW r \in Run, Claim(w, r) PROVE QueueOK' /\ Queued'
  <2>1. Queue!Start(r, w) /\ final' = final
    BY <1>5 DEF Claim
  <2> QED BY <1>1, <1>2, <2>1 DEF Queue!Start, QueueOK, Queued, Queue!Phase
<1>6. ASSUME NEW w \in Worker, Report(w) PROVE QueueOK' /\ Queued'
  <2>1. final' = final /\ pc[w] # "idle"
    BY <1>6 DEF Report, Leaves
  <2>2. job[w] \in Run
    BY <2>1, HandlerRun
  <2>3. \/ Queue!Succeed(job[w], w)
        \/ Queue!Fail(job[w], w)
        \/ UNCHANGED queueVars
    BY <1>6 DEF Report
  <2>4. CASE Queue!Succeed(job[w], w)
    BY <1>1, <1>2, <2>1, <2>2, <2>4 DEF Queue!Succeed, QueueOK, Queued, Queue!Phase
  <2>5. CASE Queue!Fail(job[w], w)
    BY <1>1, <1>2, <2>1, <2>2, <2>5 DEF Queue!Fail, QueueOK, Queued, Queue!Phase
  <2>6. CASE UNCHANGED queueVars
    BY <1>1, <1>2, <2>1, <2>6 DEF queueVars, QueueOK, Queued
  <2> QED BY <2>3, <2>4, <2>5, <2>6
<1>7. ASSUME UNCHANGED queueVars, final' = final PROVE QueueOK' /\ Queued'
  BY <1>1, <1>2, <1>7 DEF queueVars, QueueOK, Queued
<1>8. ASSUME NEW w \in Worker, Load(w) \/ Lookup(w) \/ Raise(w) \/ Fails(w)
      PROVE  QueueOK' /\ Queued'
  BY <1>7, <1>8 DEF Load, Lookup, Raise, Fails
<1>9. ASSUME NEW w \in Worker, CommitStep(w) PROVE QueueOK' /\ Queued'
  BY <1>7, <1>9 DEF CommitStep, Ignore, Open, Support, Resolve, Commits
<1>10. CASE UNCHANGED vars
  BY <1>7, <1>10 DEF vars
<1> QED BY <1>3, <1>4, <1>5, <1>6, <1>8, <1>9, <1>10 DEF Next, CommitStep

HandlerOK ==
    /\ pc \in [Worker -> {"idle", "loading", "persist", "locked", "done", "raised", "failed"}]
    /\ job \in [Worker -> Run \cup {Null}]
    /\ action \in [Worker -> Actions]
    /\ found \in [Worker -> 0 .. Windows]
    /\ facts \subseteq final
    /\ overtaken \in BOOLEAN

Holding == \A w \in Worker : found[w] # 0 =>
    pc[w] = "locked" /\ event[found[w]].status = "ACTIVE"

\* One step of one handler, or none: who holds an event holds it alone, until it
\* lets go, and the run that is recorded is final.
LEMMA HandlerStep ==
    ASSUME TypeOK, Queued, HandlerInv, OneLock, [Next]_vars
    PROVE  HandlerOK' /\ HandlerInv' /\ OneLock'
<1>1. /\ rule' = rule /\ seen' = seen /\ \A n : Action(n)' = Action(n)
  BY StepKinds, RulesStay
<1>2. HandlerOK /\ Holding /\ HandlerInv /\ OneLock
      /\ final \subseteq Run
  BY DEF TypeOK, HandlerOK, Holding
<1>3. Windows \in Nat /\ Null \notin Worker /\ \A n : Action(n) \in Actions
      /\ "NONE" \in Actions
  BY EventsAssumption, ActionType DEF Actions
<1> DEFINE Goal == HandlerOK' /\ HandlerInv' /\ OneLock'
<1>4. ASSUME NEW r \in Run, Finalize(r) PROVE Goal
  <2>1. final' = final \cup {r} /\ UNCHANGED handlerVars /\ UNCHANGED eventVars
    BY <1>4 DEF Finalize
  <2> QED BY <1>1, <1>2, <2>1 DEF handlerVars, eventVars, HandlerOK, HandlerInv, OneLock
<1>5. ASSUME NEW r \in Run, TakeBack(r) PROVE Goal
  <2>1. final' = final /\ UNCHANGED handlerVars /\ UNCHANGED eventVars
    BY <1>5 DEF TakeBack
  <2> QED BY <1>1, <1>2, <2>1 DEF handlerVars, eventVars, HandlerOK, HandlerInv, OneLock
<1>6. ASSUME NEW w \in Worker, NEW r \in Run, Claim(w, r) PROVE Goal
  <2>1. /\ pc' = [pc EXCEPT ![w] = "loading"] /\ job' = [job EXCEPT ![w] = r]
        /\ UNCHANGED <<final, action, found, eventVars>> /\ phase[r] = "waiting"
    BY <1>6 DEF Claim, Queue!Start
  <2>2. r \in final
    BY <2>1 DEF Queued
  <2> QED BY <1>1, <1>2, <2>1, <2>2 DEF eventVars, HandlerOK, HandlerInv, OneLock
<1>7. ASSUME NEW w \in Worker, Load(w) PROVE Goal
  <2>1. /\ pc[w] = "loading" /\ pc' = [pc EXCEPT ![w] = "persist"]
        /\ action' = [action EXCEPT ![w] =
                        IF Evaluates(job[w]) THEN Action(job[w][1]) ELSE "NONE"]
        /\ UNCHANGED <<final, job, found, eventVars>>
    BY <1>7 DEF Load, Goes
  <2> QED BY <1>1, <1>2, <1>3, <2>1 DEF eventVars, HandlerOK, HandlerInv, OneLock
<1>8. ASSUME NEW w \in Worker, Lookup(w) PROVE Goal
  <2>1. /\ pc[w] = "persist" /\ pc' = [pc EXCEPT ![w] = "locked"]
        /\ UNCHANGED <<final, job, action, facts>>
        /\ overtaken' = (overtaken \/ Overtakes(w) \/ Late(w))
    BY <1>8 DEF Lookup, Goes
  <2>2. overtaken' \in BOOLEAN
    BY <1>2, <2>1 DEF HandlerOK, Overtakes, Late
  <2>3. CASE found' = found
    BY <1>1, <1>2, <2>1, <2>2, <2>3 DEF HandlerOK, HandlerInv, OneLock
  <2>4. ASSUME NEW e \in Active, ~ Locked(e), found' = [found EXCEPT ![w] = e] PROVE Goal
    <3>1. e \in 1 .. Windows
      BY DEF Active, TypeOK
    <3>2. \A v \in Worker : found[v] # e
      <4>1. e # 0
        BY <1>3, <3>1
      <4> QED BY <1>2, <2>4, <4>1 DEF Locked, Holding
    <3> QED BY <1>1, <1>2, <1>3, <2>1, <2>2, <2>4, <3>1, <3>2
          DEF HandlerOK, HandlerInv, OneLock
  <2> QED BY <1>8, <2>3, <2>4 DEF Lookup
<1>9. ASSUME NEW w \in Worker, CommitStep(w) PROVE Goal
  <2>1. Commits(w)
    BY <1>9 DEF CommitStep, Ignore, Open, Support, Resolve
  <2>2. /\ pc[w] = "locked" /\ pc' = [pc EXCEPT ![w] = "done"]
        /\ facts' = facts \cup {job[w]}
        /\ found' = [found EXCEPT ![w] = 0] /\ action' = [action EXCEPT ![w] = "NONE"]
        /\ UNCHANGED <<final, job, overtaken>>
    BY <2>1 DEF Commits, Goes
  <2>3. job[w] \in final
    BY <2>2, HandlerRun
  <2> QED BY <1>1, <1>2, <1>3, <2>2, <2>3 DEF HandlerOK, HandlerInv, OneLock
<1>10. ASSUME NEW w \in Worker, Raise(w) PROVE Goal
  <2>1. /\ pc[w] = "locked" /\ pc' = [pc EXCEPT ![w] = "raised"]
        /\ action' = [action EXCEPT ![w] = "NONE"]
        /\ UNCHANGED <<final, job, found, eventVars>>
    BY <1>10 DEF Raise, Goes
  <2> QED BY <1>1, <1>2, <1>3, <2>1 DEF eventVars, HandlerOK, HandlerInv, OneLock
<1>11. ASSUME NEW w \in Worker, Fails(w) PROVE Goal
  <2>1. /\ pc[w] # "idle" /\ pc' = [pc EXCEPT ![w] = "failed"]
        /\ found' = [found EXCEPT ![w] = 0] /\ action' = [action EXCEPT ![w] = "NONE"]
        /\ UNCHANGED <<final, job, eventVars>>
    BY <1>11 DEF Fails
  <2> QED BY <1>1, <1>2, <1>3, <2>1 DEF eventVars, HandlerOK, HandlerInv, OneLock
<1>12. ASSUME NEW w \in Worker, Report(w) PROVE Goal
  <2>1. /\ pc' = [pc EXCEPT ![w] = "idle"] /\ job' = [job EXCEPT ![w] = Null]
        /\ found' = [found EXCEPT ![w] = 0] /\ action' = [action EXCEPT ![w] = "NONE"]
        /\ UNCHANGED <<final, eventVars>>
    BY <1>12 DEF Report, Leaves
  <2> QED BY <1>1, <1>2, <1>3, <2>1 DEF eventVars, HandlerOK, HandlerInv, OneLock
<1>13. CASE UNCHANGED vars
  BY <1>1, <1>2, <1>13 DEF vars, handlerVars, eventVars, HandlerOK, HandlerInv, OneLock
<1> QED BY <1>4, <1>5, <1>6, <1>7, <1>8, <1>9, <1>10, <1>11, <1>12, <1>13
      DEF Next, CommitStep

\* What a handler has locked stays active while it holds it.
LEMMA HoldingStep ==
    ASSUME TypeOK, Queued, HandlerInv, OneLock, SupportCounted, [Next]_vars
    PROVE  Holding'
<1>1. /\ Holding /\ pc \in [Worker -> {"idle", "loading", "persist", "locked", "done", "raised", "failed"}]
      /\ found \in [Worker -> 0 .. Windows]
  BY DEF TypeOK, Holding
<1>2. ASSUME event' = event, found' = found, pc' = pc PROVE Holding'
  BY <1>1, <1>2 DEF Holding
<1>3. ASSUME NEW r \in Run, Finalize(r) \/ TakeBack(r) PROVE Holding'
  BY <1>2, <1>3 DEF Finalize, TakeBack, handlerVars, eventVars
<1>4. ASSUME NEW w \in Worker, NEW r \in Run, Claim(w, r) PROVE Holding'
  <2>1. /\ pc[w] = "idle" /\ pc' = [pc EXCEPT ![w] = "loading"]
        /\ found' = found /\ event' = event
    BY <1>4 DEF Claim, eventVars
  <2> QED BY <1>1, <2>1 DEF Holding
<1>5. ASSUME NEW w \in Worker, Load(w) PROVE Holding'
  <2>1. /\ pc[w] = "loading" /\ pc' = [pc EXCEPT ![w] = "persist"]
        /\ found' = found /\ event' = event
    BY <1>5 DEF Load, Goes, eventVars
  <2> QED BY <1>1, <2>1 DEF Holding
<1>6. ASSUME NEW w \in Worker, Lookup(w) PROVE Holding'
  <2>1. /\ pc[w] = "persist" /\ pc' = [pc EXCEPT ![w] = "locked"] /\ event' = event
        /\ \/ found' = found
           \/ \E e \in Active : found' = [found EXCEPT ![w] = e]
    BY <1>6 DEF Lookup, Goes
  <2> QED BY <1>1, <2>1 DEF Holding, Active
<1>7. ASSUME NEW w \in Worker, Raise(w) PROVE Holding'
  <2>1. /\ found[w] = 0 /\ pc' = [pc EXCEPT ![w] = "raised"]
        /\ found' = found /\ event' = event
    BY <1>7 DEF Raise, Goes, eventVars
  <2> QED BY <1>1, <2>1 DEF Holding
<1>8. ASSUME NEW w \in Worker, Fails(w) \/ Report(w) PROVE Holding'
  <2>1. /\ \E p : pc' = [pc EXCEPT ![w] = p]
        /\ found' = [found EXCEPT ![w] = 0] /\ event' = event
    BY <1>8 DEF Fails, Report, Leaves, eventVars
  <2> QED BY <1>1, <2>1 DEF Holding
<1>9. ASSUME NEW w \in Worker, CommitStep(w) PROVE Holding'
  <2>1. Commits(w) /\ EventMove(w) /\ pc[w] = "locked"
    BY <1>9, CommitMoves
  <2>2. pc' = [pc EXCEPT ![w] = "done"] /\ found' = [found EXCEPT ![w] = 0]
    BY <2>1 DEF Commits, Goes
  <2>3. ASSUME NEW v \in Worker, found'[v] # 0
        PROVE  pc'[v] = "locked" /\ event'[found'[v]].status = "ACTIVE"
    <3>1. v # w /\ found'[v] = found[v] /\ pc'[v] = pc[v]
      BY <1>1, <2>2, <2>3
    <3>2. pc[v] = "locked" /\ event[found[v]].status = "ACTIVE" /\ found[v] \in 1 .. Windows
      BY <1>1, <2>3, <3>1 DEF Holding
    <3>3. found[v] \in Active
      BY <3>2 DEF Active, TypeOK
    <3>4. CASE event' = event
      BY <3>1, <3>2, <3>4
    <3>5. CASE Opening(w)
      BY <3>3, <3>5 DEF Opening
    <3>6. ASSUME NEW e \in Active, Supporting(w, e) PROVE event'[found[v]].status = "ACTIVE"
      BY <3>2, <3>6 DEF Supporting, OthersStay
    <3>7. ASSUME NEW e \in Active, Resolving(w, e) PROVE event'[found[v]].status = "ACTIVE"
      <4>1. found[v] # e
        BY <3>1, <3>7, <2>3 DEF Resolving, OneLock
      <4> QED BY <3>2, <3>7, <4>1 DEF Resolving, OthersStay
    <3> QED BY <2>1, <3>1, <3>2, <3>4, <3>5, <3>6, <3>7 DEF EventMove
  <2> QED BY <2>3 DEF Holding
<1>10. CASE UNCHANGED vars
  BY <1>2, <1>10 DEF vars, handlerVars, eventVars
<1> QED BY <1>3, <1>4, <1>5, <1>6, <1>7, <1>8, <1>9, <1>10 DEF Next, CommitStep

LEMMA TypeIs == TypeOK <=> HistoryOK /\ final \subseteq Run /\ QueueOK /\ HandlerOK
                             /\ EventsOK /\ Holding
BY DEF TypeOK, HistoryOK, QueueOK, HandlerOK, EventsOK, EventRow, Ref, Holding

LEMMA TypeStep ==
    ASSUME TypeOK, Queued, HandlerInv, OneLock, SupportCounted, [Next]_vars
    PROVE  TypeOK' /\ SupportCounted' /\ Queued' /\ HandlerInv' /\ OneLock'
<1>1. QueueOK' /\ Queued' /\ HandlerOK' /\ HandlerInv' /\ OneLock' /\ Holding'
  BY QueueStep, HandlerStep, HoldingStep
<1>2. rule' = rule /\ seen' = seen /\ Observing' = Observing
  BY StepKinds, RulesStay
<1>3. HistoryOK /\ EventsOK
  BY TypeIs
<1>4. HistoryOK'
  BY <1>2, <1>3 DEF HistoryOK
<1>5. final' \subseteq Run
  BY <1>1, <1>2, <1>3, RunsOfWindow DEF Queued
<1>6. EventsOK' /\ SupportCounted'
  <2>1. CASE Quiet
    BY <1>3, <2>1 DEF Quiet, EventsOK, SupportCounted
  <2>2. ASSUME NEW w \in Worker, CommitStep(w) PROVE EventsOK' /\ SupportCounted'
    BY <2>2, CommitMoves
  <2> QED BY <2>1, <2>2, StepKinds
<1>7. TypeOK'
  <2>1. TypeOK' <=> (HistoryOK /\ final \subseteq Run /\ QueueOK /\ HandlerOK
                        /\ EventsOK /\ Holding)'
    BY TypeIs, PTL
  <2> QED BY <1>1, <1>4, <1>5, <1>6, <2>1
<1> QED BY <1>1, <1>6, <1>7
------------------------------------------------------------------------------
(* Every step keeps the events in order.                                     *)

\* One event at a time is active, and each is opened and resolved by the windows
\* that call for it.
LEMMA EventStep ==
    ASSUME TypeOK, Queued, HandlerInv, SupportCounted, OneActive, EventInv, [Next]_vars
    PROVE  OneActive' /\ EventInv'
<1>1. HistoryOK /\ EventsOK
  BY TypeIs
<1>2. rule' = rule /\ seen' = seen /\ Last' = Last /\ \A n : Action(n)' = Action(n)
  BY StepKinds, RulesStay
<1>3. Windows \in Nat /\ DOMAIN event = 1 .. Windows
  BY <1>1, EventsAssumption DEF EventsOK
<1>4. CASE Quiet
  BY <1>2, <1>4 DEF Quiet, OneActive, Active, EventInv
<1>5. ASSUME NEW w \in Worker, CommitStep(w) PROVE OneActive' /\ EventInv'
  <2> DEFINE n == job[w][1]
  <2>1. Commits(w) /\ EventMove(w) /\ pc[w] = "locked" /\ EventsOK'
    BY <1>5, CommitMoves
  <2>2. facts' = facts \cup {job[w]} /\ DOMAIN event' = 1 .. Windows
    BY <2>1 DEF Commits, EventsOK
  <2>3. n \in 1 .. Last /\ n \in 1 .. Windows /\ Last \in 1 .. Windows
    BY <1>1, <2>1, HandlerRun, HistoryFacts
  <2>4. CASE event' = event
    BY <1>2, <2>2, <2>4 DEF OneActive, Active, EventInv
  <2>5. CASE Opening(w)
    <3>1. OneActive'
      BY <1>3, <2>2, <2>3, <2>5 DEF Opening, OneActive, Active, OthersStay
    <3>2. \A ref \in event'[n].refs : ref[1][1] >= n => Action(ref[1][1]) # "RESOLVE"
      <4>1. ASSUME NEW ref \in Trigger(n), ref[1][1] >= n PROVE Action(ref[1][1]) # "RESOLVE"
        <5>1. ref[1][1] <= n /\ Trigger(n) \subseteq ((0 .. Windows) \X Page) \X Relation
          BY <1>1, <2>3, <2>5, TriggerFacts DEF Opening
        <5>2. ref[1][1] = n
          BY <2>3, <4>1, <5>1
        <5> QED BY <2>5, <5>2 DEF Opening
      <4> QED BY <2>5, <4>1 DEF Opening
    <3>3. EventInv'
      BY <1>2, <1>3, <2>2, <2>3, <2>5, <3>2 DEF Opening, EventInv, OthersStay
    <3> QED BY <3>1, <3>3
  <2>6. ASSUME NEW e \in Active, Supporting(w, e) PROVE OneActive' /\ EventInv'
    <3>1. e \in 1 .. Windows /\ event[e].status = "ACTIVE"
      BY <1>3 DEF Active
    <3>2. Active' = Active
      BY <1>3, <2>2, <2>6, <3>1 DEF Active, Supporting, OthersStay
    <3>3. OneActive'
      BY <3>2 DEF OneActive
    <3>4. \A ref \in event'[e].refs : ref[1][1] >= e => Action(ref[1][1]) # "RESOLVE"
      <4>1. \A r \in Affected(n) : Action(r[1]) # "RESOLVE"
        BY <1>1, <2>3, <2>6, AffectedFacts DEF Supporting
      <4>2. \A ref \in Added(e, Affected(n)) \X {"SUPPORTING"} : ref[1] \in Affected(n)
        BY DEF Added
      <4>3. \A ref \in event[e].refs : ref[1][1] >= e => Action(ref[1][1]) # "RESOLVE"
        BY <3>1 DEF EventInv
      <4> QED BY <2>6, <4>1, <4>2, <4>3 DEF Supporting
    <3>5. EventInv'
      BY <1>2, <1>3, <2>2, <2>3, <2>6, <3>1, <3>4 DEF Supporting, EventInv, OthersStay
    <3> QED BY <3>3, <3>5
  <2>7. ASSUME NEW e \in Active, Resolving(w, e) PROVE OneActive' /\ EventInv'
    <3>1. e \in 1 .. Windows /\ event[e].status = "ACTIVE"
      BY <1>3 DEF Active
    <3>2. OneActive'
      BY <1>3, <2>2, <2>7, <3>1 DEF OneActive, Active, Resolving, OthersStay
    <3>3. n \in e + 1 .. Last
      <4>1. n >= e /\ Action(n) = "RESOLVE" /\ Action(e) = "UPSERT"
        BY <2>7, <3>1 DEF Resolving, Recovers, EventInv
      <4> QED BY <2>3, <3>1, <4>1
    <3>4. EventInv'
      BY <1>2, <1>3, <2>2, <2>3, <2>7, <3>1, <3>3 DEF Resolving, EventInv, OthersStay
    <3> QED BY <3>2, <3>4
  <2> QED BY <2>1, <2>4, <2>5, <2>6, <2>7 DEF EventMove
<1> QED BY <1>4, <1>5, StepKinds

\* Links are added and never taken back, and an event that is there stays there.
LEMMA LinksGrow ==
    ASSUME TypeOK, Queued, HandlerInv, SupportCounted, EventInv, [Next]_vars,
           NEW e \in 1 .. Windows
    PROVE  /\ Linked(e) \subseteq Linked(e)'
           /\ event[e].status # "ABSENT" => event'[e].status # "ABSENT"
<1>1. HistoryOK /\ DOMAIN event = 1 .. Windows
  BY TypeIs DEF EventsOK
<1>2. event[e].refs \subseteq event'[e].refs
      /\ (event[e].status # "ABSENT" => event'[e].status # "ABSENT")
  <2>1. CASE Quiet
    BY <2>1 DEF Quiet
  <2>2. ASSUME NEW w \in Worker, CommitStep(w)
        PROVE  event[e].refs \subseteq event'[e].refs
               /\ (event[e].status # "ABSENT" => event'[e].status # "ABSENT")
    <3> DEFINE n == job[w][1]
    <3>1. EventMove(w) /\ pc[w] = "locked"
      BY <2>2, CommitMoves
    <3>2. n \in 1 .. Windows
      BY <3>1, HandlerRun
    <3>3. CASE event' = event
      BY <3>3
    <3>4. CASE Opening(w)
      <4>1. event[n].refs = {}
        BY <3>2, <3>4 DEF Opening, EventInv, Absent
      <4> QED BY <3>2, <3>4, <4>1 DEF Opening, OthersStay
    <3>5. ASSUME NEW d \in Active, Supporting(w, d)
          PROVE  event[e].refs \subseteq event'[e].refs
                 /\ (event[e].status # "ABSENT" => event'[e].status # "ABSENT")
      BY <3>5 DEF Supporting, OthersStay
    <3>6. ASSUME NEW d \in Active, Resolving(w, d)
          PROVE  event[e].refs \subseteq event'[e].refs
                 /\ (event[e].status # "ABSENT" => event'[e].status # "ABSENT")
      BY <3>6 DEF Resolving, OthersStay
    <3> QED BY <3>1, <3>3, <3>4, <3>5, <3>6 DEF EventMove
  <2> QED BY <2>1, <2>2, StepKinds
<1> QED BY <1>2 DEF Linked

\* A window that becomes complete is to be evaluated by the run that completes
\* it; and a run that is to evaluate its window remains so until it does.
LEMMA PendingMoves ==
    ASSUME TypeOK, Queued, HandlerInv, [Next]_vars, NEW n \in 1 .. Last,
           Complete(n)', ~ Complete(n) \/ Pending(n)
    PROVE  \/ Pending(n)'
           \/ \E w \in Worker : CommitStep(w) /\ job[w] \in At(n) /\ action[w] = Action(n)
<1>1. HistoryOK /\ HandlerOK
  BY TypeIs
<1>2. rule' = rule /\ At(n)' = At(n) /\ Action(n)' = Action(n)
  BY StepKinds, RulesStay
<1>3. \A r \in At(n) : r[1] = n
  BY <1>1, RunsOfWindow
<1>4. CASE ~ Complete(n)
  <2>1. final' # final
    BY <1>2, <1>4 DEF Complete
  <2>2. PICK r \in Run : Finalize(r)
    BY <2>1 DEF Next, TakeBack, Claim, Load, Lookup, Ignore, Open, Support, Resolve,
               Commits, Raise, Fails, Report, Leaves, vars
  <2>3. /\ r \notin final /\ final' = final \cup {r}
        /\ UNCHANGED handlerVars /\ UNCHANGED eventVars
    BY <2>2 DEF Finalize
  <2>4. r \in At(n)
    BY <1>2, <1>4, <2>3 DEF Complete
  <2>5. r \notin facts' /\ \A w \in Worker : job'[w] = r => pc'[w] = "idle"
    BY <1>1, <2>3 DEF HandlerOK, HandlerInv, handlerVars, eventVars
  <2> QED BY <1>2, <2>4, <2>5 DEF Pending, ToEvaluate
<1>5. ASSUME Complete(n), NEW r \in At(n), ToEvaluate(n, r)
      PROVE  \/ ToEvaluate(n, r)'
             \/ \E w \in Worker : CommitStep(w) /\ job[w] \in At(n) /\ action[w] = Action(n)
  <2>1. ASSUME NEW q \in Run, Finalize(q) \/ TakeBack(q) PROVE ToEvaluate(n, r)'
    BY <1>2, <1>5, <2>1 DEF Finalize, TakeBack, handlerVars, eventVars, ToEvaluate
  <2>2. ASSUME NEW w \in Worker, NEW q \in Run, Claim(w, q) PROVE ToEvaluate(n, r)'
    <3>1. /\ pc' = [pc EXCEPT ![w] = "loading"] /\ job' = [job EXCEPT ![w] = q]
          /\ action' = action /\ facts' = facts
      BY <2>2 DEF Claim, eventVars
    <3> QED BY <1>1, <1>2, <1>5, <3>1 DEF ToEvaluate, HandlerOK
  <2>3. ASSUME NEW w \in Worker, Load(w) PROVE ToEvaluate(n, r)'
    <3>1. /\ pc' = [pc EXCEPT ![w] = "persist"] /\ job' = job /\ facts' = facts
          /\ action' = [action EXCEPT ![w] =
                          IF Evaluates(job[w]) THEN Action(job[w][1]) ELSE "NONE"]
      BY <2>3 DEF Load, Goes, eventVars
    <3>2. job[w] = r => action'[w] = Action(n)
      BY <1>1, <1>3, <1>5, <3>1 DEF Evaluates, HandlerOK
    <3> QED BY <1>1, <1>2, <1>5, <3>1, <3>2 DEF ToEvaluate, HandlerOK
  <2>4. ASSUME NEW w \in Worker, Lookup(w) PROVE ToEvaluate(n, r)'
    <3>1. /\ pc[w] = "persist" /\ pc' = [pc EXCEPT ![w] = "locked"]
          /\ job' = job /\ action' = action /\ facts' = facts
      BY <2>4 DEF Lookup, Goes
    <3> QED BY <1>1, <1>2, <1>5, <3>1 DEF ToEvaluate, HandlerOK
  <2>5. ASSUME NEW w \in Worker, Raise(w) \/ Fails(w) PROVE ToEvaluate(n, r)'
    <3>1. /\ pc' = [pc EXCEPT ![w] = "raised"] \/ pc' = [pc EXCEPT ![w] = "failed"]
          /\ action' = [action EXCEPT ![w] = "NONE"] /\ job' = job /\ facts' = facts
      BY <2>5 DEF Raise, Fails, Goes, eventVars
    <3> QED BY <1>1, <1>2, <1>5, <3>1 DEF ToEvaluate, HandlerOK
  <2>6. ASSUME NEW w \in Worker, Report(w) PROVE ToEvaluate(n, r)'
    <3>1. /\ pc' = [pc EXCEPT ![w] = "idle"] /\ job' = [job EXCEPT ![w] = Null]
          /\ action' = [action EXCEPT ![w] = "NONE"] /\ facts' = facts
      BY <2>6 DEF Report, Leaves, eventVars
    <3> QED BY <1>1, <1>2, <1>5, <3>1 DEF ToEvaluate, HandlerOK
  <2>7. ASSUME NEW w \in Worker, CommitStep(w), job[w] # r PROVE ToEvaluate(n, r)'
    <3>1. Commits(w)
      BY <2>7 DEF CommitStep, Ignore, Open, Support, Resolve
    <3>2. /\ pc' = [pc EXCEPT ![w] = "done"] /\ facts' = facts \cup {job[w]}
          /\ action' = [action EXCEPT ![w] = "NONE"] /\ job' = job
      BY <3>1 DEF Commits, Goes
    <3> QED BY <1>1, <1>2, <1>5, <2>7, <3>2 DEF ToEvaluate, HandlerOK
  <2>8. ASSUME NEW w \in Worker, CommitStep(w), job[w] = r
        PROVE  CommitStep(w) /\ job[w] \in At(n) /\ action[w] = Action(n)
    <3>1. pc[w] = "locked"
      BY <2>8 DEF CommitStep, Ignore, Open, Support, Resolve, Commits, Goes
    <3> QED BY <1>5, <2>8, <3>1 DEF ToEvaluate
  <2>9. CASE UNCHANGED vars
    BY <1>2, <1>5, <2>9 DEF vars, handlerVars, eventVars, ToEvaluate
  <2> QED BY <2>1, <2>2, <2>3, <2>4, <2>5, <2>6, <2>7, <2>8, <2>9 DEF Next, CommitStep
<1>6. CASE Complete(n)
  <2>1. PICK r \in At(n) : ToEvaluate(n, r)
    BY <1>6 DEF Pending
  <2>2. CASE ToEvaluate(n, r)'
    BY <1>2, <2>2 DEF Pending
  <2> QED BY <1>5, <1>6, <2>1, <2>2
<1> QED BY <1>4, <1>6

\* A window that calls for an event is still to be evaluated, or its runs are
\* evidence of one.
LEMMA OnsetStep ==
    ASSUME TypeOK, Queued, HandlerInv, SupportCounted, EventInv, OnsetInv, [Next]_vars
    PROVE  OnsetInv'
<1>1. HistoryOK /\ Active \subseteq 1 .. Windows
  BY TypeIs DEF Active, EventsOK
<1>2. Last' = Last /\ \A n : Action(n)' = Action(n) /\ Affected(n)' = Affected(n)
  BY StepKinds, RulesStay
<1>3. ASSUME NEW n \in 1 .. Last, Complete(n)', Action(n) = "UPSERT"
      PROVE  Pending(n)' \/ \E e \in 1 .. Windows : Affected(n) \subseteq Linked(e)'
  <2>1. CASE \E e \in 1 .. Windows : Affected(n) \subseteq Linked(e)
    BY <2>1, LinksGrow
  <2>2. ASSUME NEW w \in Worker, CommitStep(w), job[w] \in At(n), action[w] = "UPSERT"
        PROVE  \E e \in 1 .. Windows : Affected(n) \subseteq Linked(e)'
    <3>1. job[w][1] = n /\ EventMove(w) /\ n \in 1 .. Windows
      BY <1>1, <2>2, RunsOfWindow, CommitMoves, HistoryFacts, EventsAssumption
    <3>2. CASE Ignore(w)
      BY <2>2, <3>2 DEF Ignore
    <3>3. CASE Opening(w)
      <4>1. event'[n].refs = Trigger(n)
        BY <3>1, <3>3 DEF Opening
      <4>2. Affected(n) \subseteq Linked(n)'
        BY <1>3, <4>1 DEF Affected, Linked
      <4> QED BY <3>1, <4>2
    <3>4. ASSUME NEW e \in Active, Supporting(w, e) PROVE Affected(n) \subseteq Linked(e)'
      <4>1. event'[e].refs = event[e].refs \cup (Added(e, Affected(n)) \X {"SUPPORTING"})
        BY <3>1, <3>4 DEF Supporting
      <4>2. ASSUME NEW r \in Affected(n) PROVE \E ref \in event'[e].refs : ref[1] = r
        <5>1. CASE r \in Linked(e)
          BY <4>1, <5>1 DEF Linked
        <5>2. CASE r \notin Linked(e)
          <6>1. <<r, "SUPPORTING">> \in event'[e].refs
            BY <4>1, <5>2 DEF Added
          <6> QED BY <6>1
        <5> QED BY <5>1, <5>2
      <4> QED BY <4>2 DEF Linked
    <3>5. ASSUME NEW e \in Active, Resolving(w, e) PROVE FALSE
      BY <1>3, <3>1, <3>5 DEF Resolving
    <3> QED BY <1>1, <3>1, <3>2, <3>3, <3>4, <3>5 DEF EventMove
  <2>3. CASE ~ Complete(n) \/ Pending(n)
    BY <1>3, <2>2, <2>3, PendingMoves
  <2> QED BY <1>3, <2>1, <2>3 DEF OnsetInv
<1> QED BY <1>2, <1>3 DEF OnsetInv

\* A derivation that fails for good finds the event of its window resolved by a
\* later one.
LEMMA RaiseStep ==
    ASSUME TypeOK, Queued, HandlerInv, EventInv, OnlyOvertakenRaise, [Next]_vars
    PROVE  OnlyOvertakenRaise'
<1>1. HandlerOK /\ EventsOK
  BY TypeIs
<1>2. facts \subseteq facts'
  BY StepKinds DEF Quiet, CommitStep, Ignore, Open, Support, Resolve, Commits
<1>3. ASSUME NEW w \in Worker, Raise(w) PROVE \E q \in facts : q[1] > job[w][1]
  <2> DEFINE n == job[w][1]
  <2>1. n \in 1 .. Windows /\ event[n].status # "ABSENT" /\ Active = {}
    <3>1. pc[w] # "idle" /\ Conflict(n) /\ Active = {}
      BY <1>3 DEF Raise, Goes
    <3> QED BY <3>1, HandlerRun DEF Conflict, EventId
  <2>2. event[n].status = "RESOLVED"
    BY <1>1, <2>1 DEF Active, EventsOK, EventRow
  <2>3. event[n].ended \in n + 1 .. Last /\ \E q \in facts : q[1] = event[n].ended
    BY <2>1, <2>2 DEF EventInv
  <2> QED BY <2>1, <2>3
<1>4. ASSUME NEW v \in Worker, pc'[v] = "raised"
      PROVE  job'[v] = job[v] /\ (pc[v] = "raised" \/ Raise(v))
  <2>1. ASSUME NEW w \in Worker, NEW r \in Run, Claim(w, r)
        PROVE  job'[v] = job[v] /\ (pc[v] = "raised" \/ Raise(v))
    BY <1>1, <1>4, <2>1 DEF Claim, HandlerOK
  <2>2. ASSUME NEW w \in Worker, Load(w) \/ Lookup(w) \/ Fails(w) \/ CommitStep(w)
        PROVE  job'[v] = job[v] /\ (pc[v] = "raised" \/ Raise(v))
    BY <1>1, <1>4, <2>2 DEF Load, Lookup, Fails, CommitStep, Ignore, Open, Support, Resolve,
                            Commits, Goes, HandlerOK
  <2>3. ASSUME NEW w \in Worker, Raise(w)
        PROVE  job'[v] = job[v] /\ (pc[v] = "raised" \/ Raise(v))
    <3>1. job' = job /\ pc' = [pc EXCEPT ![w] = "raised"]
      BY <2>3 DEF Raise, Goes
    <3> QED BY <1>1, <1>4, <2>3, <3>1 DEF HandlerOK
  <2>4. ASSUME NEW w \in Worker, Report(w)
        PROVE  job'[v] = job[v] /\ (pc[v] = "raised" \/ Raise(v))
    BY <1>1, <1>4, <2>4 DEF Report, Leaves, HandlerOK
  <2>5. ASSUME NEW r \in Run, Finalize(r) \/ TakeBack(r)
        PROVE  job'[v] = job[v] /\ (pc[v] = "raised" \/ Raise(v))
    BY <1>4, <2>5 DEF Finalize, TakeBack, handlerVars
  <2>6. CASE UNCHANGED vars
    BY <1>4, <2>6 DEF vars, handlerVars
  <2> QED BY <2>1, <2>2, <2>3, <2>4, <2>5, <2>6 DEF Next, CommitStep
<1> QED BY <1>2, <1>3, <1>4 DEF OnlyOvertakenRaise
------------------------------------------------------------------------------
(* As long as nothing is overtaken, every step keeps the windows in turn.    *)

\* A window before one whose turn it is has been evaluated.
LEMMA BeforeFacts ==
    ASSUME TypeOK, NEW n, Before(n), NEW k \in 1 .. Last, k < n
    PROVE  Complete(k) /\ ~ Pending(k)
<1>1. HistoryOK /\ facts \subseteq final
  BY TypeIs DEF HandlerOK
<1>2. At(k) \subseteq facts
  BY <1>1, RunsOfWindow DEF Before
<1> QED BY <1>1, <1>2 DEF Complete, Pending, ToEvaluate

\* The turn of a handler that is about to open an event is not past: had its window
\* been derived, the event it supported then would be active, or resolved later.
LEMMA OpensInTurn ==
    ASSUME TypeOK, Queued, HandlerInv, EventInv, Opens, FreshOpen,
           NEW w \in Worker, ToOpen(w), NEW n \in 1 .. Last, Before(n)
    PROVE  job[w][1] >= n
<1> DEFINE m == job[w][1]
<1>1. pc[w] = "locked" /\ action[w] = "UPSERT" /\ event[m].status = "ABSENT"
  BY DEF ToOpen
<1>2. m \in 1 .. Last /\ Last \in 1 .. Windows /\ Windows \in Nat /\ Action(m) = "UPSERT"
  BY <1>1, HandlerRun, TypeIs, HistoryFacts, EventsAssumption DEF HandlerInv
<1>3. Active = {} /\ \A q \in facts : q[1] <= m
  BY DEF FreshOpen
<1>4. ASSUME m < n PROVE FALSE
  <2>1. Complete(m) /\ ~ Pending(m)
    BY <1>2, <1>4, BeforeFacts
  <2>2. PICK e \in 1 .. m : event[e].status # "ABSENT" /\ \A k \in e .. m : Action(k) # "RESOLVE"
    BY <1>2, <2>1 DEF Opens
  <2>3. e \in 1 .. Windows
    BY <1>2
  <2>4. event[e].status = "RESOLVED"
    BY <1>3, <2>2, <2>3, TypeIs DEF Active, EventsOK, EventRow
  <2>5. /\ event[e].ended \in e + 1 .. Last /\ Action(event[e].ended) = "RESOLVE"
        /\ event[e].ended <= m
    BY <1>3, <2>3, <2>4 DEF EventInv
  <2>6. event[e].ended \in e .. m
    BY <1>2, <2>5
  <2> QED BY <2>2, <2>5, <2>6
<1> QED BY <1>2, <1>4

\* An event that becomes active is opened by a commit of its own window.
LEMMA ActiveMoves ==
    ASSUME TypeOK, Queued, HandlerInv, SupportCounted, NEW w \in Worker, CommitStep(w)
    PROVE  Active' \subseteq Active \/ (Opening(w) /\ Active' \subseteq {job[w][1]})
<1>1. DOMAIN event = 1 .. Windows
  BY TypeIs DEF EventsOK
<1>2. EventMove(w) /\ DOMAIN event' = 1 .. Windows
  BY CommitMoves DEF EventsOK
<1>3. CASE event' = event
  BY <1>3 DEF Active
<1>4. CASE Opening(w)
  BY <1>1, <1>2, <1>4 DEF Opening, OthersStay, Active
<1>5. ASSUME NEW e \in Active, Supporting(w, e) \/ Resolving(w, e)
      PROVE  Active' \subseteq Active
  BY <1>1, <1>2, <1>5 DEF Supporting, Resolving, OthersStay, Active
<1> QED BY <1>2, <1>3, <1>4, <1>5 DEF EventMove

\* While it is the turn of a window that resolves, no old event comes back.
LEMMA NoneUpToStays ==
    ASSUME TypeOK, Queued, HandlerInv, SupportCounted, EventInv, Opens, FreshOpen,
           NEW n \in 1 .. Last, Before(n), Action(n) = "RESOLVE", NoneUpTo(n),
           NEW w \in Worker, CommitStep(w)
    PROVE  NoneUpTo(n)'
<1>1. pc[w] = "locked" /\ job[w][1] \in 1 .. Last /\ Last \in Nat
  BY CommitMoves, HandlerRun, TypeIs, HistoryFacts
<1>2. CASE Active' \subseteq Active
  BY <1>2 DEF NoneUpTo
<1>3. CASE Opening(w) /\ Active' \subseteq {job[w][1]}
  <2>1. ToOpen(w) /\ Action(job[w][1]) = "UPSERT"
    BY <1>1, <1>3 DEF Opening, Open, ToOpen
  <2>2. job[w][1] >= n /\ job[w][1] # n
    BY <2>1, OpensInTurn
  <2> QED BY <1>1, <1>3, <2>2 DEF NoneUpTo
<1> QED BY <1>2, <1>3, ActiveMoves

\* The windows are evaluated in turn, by the ghost's own definition.
LEMMA InTurnStep ==
    ASSUME TypeOK, Queued, HandlerInv, InTurn, [Next]_vars, ~ overtaken'
    PROVE  InTurn'
<1>1. HandlerOK /\ HistoryOK
  BY TypeIs
<1>2. Observing' = Observing
  BY StepKinds, RulesStay
<1>3. facts \subseteq facts'
  BY StepKinds DEF Quiet, CommitStep, Ignore, Open, Support, Resolve, Commits
<1>4. \A n : Before(n) => Before(n)'
  BY <1>2, <1>3 DEF Before
<1>5. ASSUME NEW w \in Worker, CommitStep(w) PROVE InTurn'
  <2>1. Commits(w)
    BY <1>5 DEF CommitStep, Ignore, Open, Support, Resolve
  <2>2. /\ pc[w] = "locked" /\ pc' = [pc EXCEPT ![w] = "done"] /\ job' = job
        /\ facts' = facts \cup {job[w]}
    BY <2>1 DEF Commits, Goes
  <2> QED BY <1>1, <1>4, <2>2 DEF InTurn, HandlerOK
<1>6. ASSUME NEW w \in Worker, Lookup(w) PROVE InTurn'
  <2>1. /\ pc' = [pc EXCEPT ![w] = "locked"] /\ job' = job /\ facts' = facts
        /\ ~ Overtakes(w)
    BY <1>6 DEF Lookup, Goes
  <2>2. Before(job[w][1])
    BY <2>1 DEF Overtakes, Before
  <2> QED BY <1>1, <1>4, <2>1, <2>2 DEF InTurn, HandlerOK
<1>7. ASSUME NEW w \in Worker, \E p : p # "locked" /\ pc' = [pc EXCEPT ![w] = p],
             \E j : job' = [job EXCEPT ![w] = j], facts' = facts
      PROVE  InTurn'
  BY <1>1, <1>4, <1>7 DEF InTurn, HandlerOK
<1>8. ASSUME NEW w \in Worker, NEW r \in Run, Claim(w, r) PROVE InTurn'
  BY <1>7, <1>8 DEF Claim, eventVars
<1>9. ASSUME NEW w \in Worker, Load(w) \/ Raise(w) \/ Fails(w) PROVE InTurn'
  <2>1. job' = [job EXCEPT ![w] = job[w]] /\ facts' = facts
    BY <1>1, <1>9 DEF Load, Raise, Fails, eventVars, HandlerOK
  <2>2. \E p : p # "locked" /\ pc' = [pc EXCEPT ![w] = p]
    BY <1>9 DEF Load, Raise, Fails, Goes
  <2> QED BY <1>7, <2>1, <2>2
<1>10. ASSUME NEW w \in Worker, Report(w) PROVE InTurn'
  BY <1>7, <1>10 DEF Report, Leaves, eventVars
<1>11. ASSUME pc' = pc, job' = job, facts' = facts PROVE InTurn'
  BY <1>4, <1>11 DEF InTurn
<1>12. ASSUME NEW r \in Run, Finalize(r) \/ TakeBack(r) PROVE InTurn'
  BY <1>11, <1>12 DEF Finalize, TakeBack, handlerVars, eventVars
<1>13. CASE UNCHANGED vars
  BY <1>11, <1>13 DEF vars, handlerVars, eventVars
<1> QED BY <1>5, <1>6, <1>8, <1>9, <1>10, <1>12, <1>13 DEF Next, CommitStep

\* A window that calls for an event gets its own, or supports one that no window
\* in between has resolved: their turn came before.
LEMMA OpensStep ==
    ASSUME TypeOK, Queued, HandlerInv, SupportCounted, EventInv, OrderInv, [Next]_vars
    PROVE  Opens'
<1>1. HistoryOK /\ Last \in 1 .. Windows /\ Windows \in Nat
  BY TypeIs, HistoryFacts, EventsAssumption
<1>2. Last' = Last /\ \A n : Action(n)' = Action(n)
  BY StepKinds, RulesStay
<1>3. ASSUME NEW n \in 1 .. Last, Complete(n)', Action(n) = "UPSERT"
      PROVE  Pending(n)' \/ \E e \in 1 .. n :
                event'[e].status # "ABSENT" /\ \A k \in e .. n : Action(k) # "RESOLVE"
  <2>1. n \in 1 .. Windows /\ \A e \in 1 .. n : e \in 1 .. Windows
    BY <1>1
  <2>2. CASE \E e \in 1 .. n :
                event[e].status # "ABSENT" /\ \A k \in e .. n : Action(k) # "RESOLVE"
    BY <2>1, <2>2, LinksGrow
  <2>3. ASSUME NEW w \in Worker, CommitStep(w), job[w] \in At(n), action[w] = "UPSERT",
               ~ Complete(n) \/ Pending(n)
        PROVE  \E e \in 1 .. n :
                  event'[e].status # "ABSENT" /\ \A k \in e .. n : Action(k) # "RESOLVE"
    <3>1. job[w][1] = n /\ EventMove(w) /\ pc[w] = "locked"
      BY <1>1, <2>3, RunsOfWindow, CommitMoves
    <3>2. Before(n)
      BY <3>1 DEF OrderInv, InTurn
    <3>3. CASE Ignore(w)
      BY <2>3, <3>3 DEF Ignore
    <3>4. CASE Opening(w)
      <4>1. event'[n].status # "ABSENT" /\ n \in 1 .. n /\ \A k \in n .. n : k = n
        BY <3>1, <3>4 DEF Opening
      <4> QED BY <1>3, <4>1
    <3>5. ASSUME NEW e \in Active, Supporting(w, e)
          PROVE  e \in 1 .. n /\ event'[e].status # "ABSENT"
                 /\ \A k \in e .. n : Action(k) # "RESOLVE"
      <4>1. e \in 1 .. Windows /\ event[e].status = "ACTIVE" /\ event'[e].status # "ABSENT"
        BY <3>5, TypeIs DEF Active, EventsOK, Supporting
      <4>2. ASSUME e > n PROVE FALSE
        <5>1. PICK q \in facts : q[1] = e
          BY <4>1 DEF EventInv
        <5>2. Before(e)
          BY <5>1 DEF OrderInv, InTurn
        <5> QED BY <2>3, <4>2, <5>2, BeforeFacts
      <4>3. ASSUME NEW k \in e .. n, Action(k) = "RESOLVE" PROVE FALSE
        <5>1. k \in 1 .. Last /\ k < n
          BY <1>1, <1>3, <4>1, <4>3
        <5>2. Complete(k) /\ ~ Pending(k)
          BY <3>2, <5>1, BeforeFacts
        <5>3. e > k
          BY <4>3, <5>1, <5>2 DEF OrderInv, Closes, NoneUpTo
        <5> QED BY <4>1, <4>3, <5>1, <5>3
      <4> QED BY <4>1, <4>2, <4>3
    <3>6. ASSUME NEW e \in Active, Resolving(w, e) PROVE FALSE
      BY <1>3, <3>1, <3>6 DEF Resolving
    <3> QED BY <3>1, <3>3, <3>4, <3>5, <3>6 DEF EventMove
  <2>4. CASE ~ Complete(n) \/ Pending(n)
    BY <1>3, <2>3, <2>4, PendingMoves
  <2> QED BY <1>3, <2>2, <2>4 DEF OrderInv, Opens
<1> QED BY <1>2, <1>3 DEF Opens

\* Who goes on with an observation and holds no event has found none: just now, or
\* before this step.
LEMMA EmptyHanded ==
    ASSUME TypeOK, [Next]_vars, NEW v \in Worker,
           pc'[v] = "locked", action'[v] # "NONE", found'[v] = 0
    PROVE  /\ job'[v] = job[v] /\ action'[v] = action[v]
           /\ \/ pc[v] = "locked" /\ found[v] = 0
              \/ Lookup(v) /\ Active = {} /\ event' = event /\ facts' = facts
<1>1. HandlerOK /\ Active \subseteq 1 .. Windows /\ Windows \in Nat
  BY TypeIs, EventsAssumption DEF Active, EventsOK
<1> DEFINE Same == job'[v] = job[v] /\ action'[v] = action[v]
           Was == Same /\ pc[v] = "locked" /\ found[v] = 0
<1>2. ASSUME NEW w \in Worker, Lookup(w)
      PROVE  Was \/ (Same /\ Lookup(v) /\ Active = {} /\ event' = event /\ facts' = facts)
  <2>1. CASE v # w
    BY <1>1, <1>2, <2>1 DEF Lookup, Goes, HandlerOK
  <2>2. CASE v = w
    <3>1. Same /\ action[w] # "NONE" /\ event' = event /\ facts' = facts
      BY <1>2, <2>2 DEF Lookup
    <3>2. ASSUME NEW e \in Active, found' = [found EXCEPT ![w] = e] PROVE FALSE
      BY <1>1, <2>2, <3>2 DEF HandlerOK
    <3>3. Active = {}
      BY <1>2, <3>1, <3>2 DEF Lookup
    <3> QED BY <1>2, <2>2, <3>1, <3>3
  <2> QED BY <2>1, <2>2
<1>3. ASSUME NEW w \in Worker, NEW r \in Run, Claim(w, r) PROVE Was
  BY <1>1, <1>3 DEF Claim, HandlerOK
<1>4. ASSUME NEW w \in Worker, Load(w) \/ Raise(w) \/ Fails(w) PROVE Was
  BY <1>1, <1>4 DEF Load, Raise, Fails, Goes, HandlerOK
<1>5. ASSUME NEW w \in Worker, CommitStep(w) PROVE Was
  <2>1. Commits(w)
    BY <1>5 DEF CommitStep, Ignore, Open, Support, Resolve
  <2> QED BY <1>1, <2>1 DEF Commits, Goes, HandlerOK
<1>6. ASSUME NEW w \in Worker, Report(w) PROVE Was
  BY <1>1, <1>6 DEF Report, Leaves, HandlerOK
<1>7. ASSUME NEW r \in Run, Finalize(r) \/ TakeBack(r) PROVE Was
  BY <1>7 DEF Finalize, TakeBack, handlerVars
<1>8. CASE UNCHANGED vars
  BY <1>8 DEF vars, handlerVars
<1> QED BY <1>2, <1>3, <1>4, <1>5, <1>6, <1>7, <1>8 DEF Next, CommitStep

\* Nobody else opens an event beside a handler that is about to, unless of the
\* same window; and no later window is derived before it is done.
LEMMA FreshOpenStep ==
    ASSUME TypeOK, Queued, HandlerInv, SupportCounted, EventInv, OrderInv,
           [Next]_vars, ~ overtaken'
    PROVE  FreshOpen'
<1>1. HandlerOK /\ EventsOK /\ Last \in Nat
  BY TypeIs, HistoryFacts
<1>2. ASSUME NEW v \in Worker, ToOpen(v)'
      PROVE  Active' = {} /\ \A q \in facts' : q[1] <= job'[v][1]
  <2> DEFINE m == job[v][1]
  <2>1. /\ pc'[v] = "locked" /\ action'[v] = "UPSERT" /\ found'[v] = 0
        /\ event'[job'[v][1]].status = "ABSENT"
    BY <1>2 DEF ToOpen
  <2>2. /\ job'[v] = job[v] /\ action[v] = "UPSERT" /\ event'[m].status = "ABSENT"
        /\ \/ pc[v] = "locked" /\ found[v] = 0
           \/ Lookup(v) /\ Active = {} /\ event' = event /\ facts' = facts
    BY <2>1, EmptyHanded
  <2>3. CASE Lookup(v) /\ Active = {} /\ event' = event /\ facts' = facts
    <3>1. ~ Late(v) /\ pc[v] # "idle"
      BY <2>3 DEF Lookup, Goes
    <3>2. facts \subseteq Observing /\ m \in 1 .. Last
      BY <1>1, <3>1, HandlerRun DEF HandlerOK, Queued
    <3>3. \A q \in facts : q[1] \in 1 .. Last
      BY <3>2, TypeIs, RunsOfWindow
    <3>4. \A q \in facts : ~ (q[1] > m)
      BY <2>2, <2>3, <3>1 DEF Late, EventId
    <3> QED BY <1>1, <2>2, <2>3, <3>2, <3>3, <3>4 DEF Active
  <2>4. CASE pc[v] = "locked" /\ found[v] = 0
    <3>1. m \in 1 .. Last /\ m \in 1 .. Windows /\ Before(m)
      BY <2>4, HandlerRun DEF OrderInv, InTurn
    <3>2. ToOpen(v)
      <4>1. event[m].status = "ABSENT"
        BY <2>2, <3>1, LinksGrow
      <4> QED BY <2>2, <2>4, <4>1 DEF ToOpen
    <3>3. Active = {} /\ \A q \in facts : q[1] <= m
      BY <3>2 DEF OrderInv, FreshOpen
    <3>4. CASE Quiet
      BY <2>2, <3>3, <3>4 DEF Quiet, Active
    <3>5. ASSUME NEW w \in Worker, CommitStep(w)
          PROVE  Active' = {} /\ \A q \in facts' : q[1] <= m
      <4>1. pc[w] = "locked" /\ facts' = facts \cup {job[w]}
        BY <3>5, CommitMoves DEF Commits
      <4>2. job[w][1] \in 1 .. Last /\ Before(job[w][1])
        BY <4>1, HandlerRun DEF OrderInv, InTurn
      <4>3. m >= job[w][1]
        BY <3>2, <4>2, OpensInTurn DEF OrderInv
      <4>4. \A q \in facts' : q[1] <= m
        BY <1>1, <3>1, <3>3, <4>1, <4>2, <4>3
      <4>5. ASSUME Opening(w) PROVE FALSE
        <5>1. ToOpen(w) /\ event'[job[w][1]].status = "ACTIVE"
          BY <4>1, <4>5 DEF Opening, Open, ToOpen
        <5>2. job[w][1] >= m
          BY <3>1, <5>1, OpensInTurn DEF OrderInv
        <5>3. job[w][1] = m
          BY <1>1, <3>1, <4>2, <4>3, <5>2
        <5> QED BY <2>2, <5>1, <5>3
      <4>6. Active' \subseteq Active
        BY <3>5, <4>5, ActiveMoves
      <4> QED BY <3>3, <4>4, <4>6
    <3> QED BY <2>2, <3>4, <3>5, StepKinds
  <2> QED BY <2>2, <2>3, <2>4
<1> QED BY <1>2 DEF FreshOpen

\* A window that resolves leaves nothing of its past active.
LEMMA ClosesStep ==
    ASSUME TypeOK, Queued, HandlerInv, SupportCounted, EventInv, OneActive, OrderInv,
           [Next]_vars
    PROVE  Closes'
<1>1. HistoryOK /\ HandlerOK /\ Active \subseteq 1 .. Windows /\ Windows \in Nat
  BY TypeIs, EventsAssumption DEF Active, EventsOK
<1>2. rule' = rule /\ Last' = Last /\ \A n : Action(n)' = Action(n) /\ At(n)' = At(n)
  BY StepKinds, RulesStay
<1>3. facts \subseteq facts'
  BY StepKinds DEF Quiet, CommitStep, Ignore, Open, Support, Resolve, Commits
<1>4. ASSUME NEW n \in 1 .. Last, Before(n), Action(n) = "RESOLVE", NoneUpTo(n)
      PROVE  NoneUpTo(n)'
  <2>1. CASE Quiet
    BY <1>4, <2>1 DEF Quiet, NoneUpTo, Active
  <2>2. ASSUME NEW w \in Worker, CommitStep(w) PROVE NoneUpTo(n)'
    BY <1>4, <2>2, NoneUpToStays DEF OrderInv
  <2> QED BY <2>1, <2>2, StepKinds
<1>5. ASSUME NEW n \in 1 .. Last, Complete(n)', Action(n) = "RESOLVE"
      PROVE  Pending(n)' \/ (NoneUpTo(n)' /\ \E r \in At(n) : r \in facts')
  <2>1. CASE NoneUpTo(n) /\ \E r \in At(n) : r \in facts
    <3>1. Before(n)
      BY <1>1, <2>1, RunsOfWindow DEF OrderInv, InTurn
    <3> QED BY <1>3, <1>4, <1>5, <2>1, <3>1
  <2>2. ASSUME NEW w \in Worker, CommitStep(w), job[w] \in At(n), action[w] = "RESOLVE"
        PROVE  NoneUpTo(n)' /\ \E r \in At(n) : r \in facts'
    <3>1. job[w][1] = n /\ EventMove(w) /\ pc[w] = "locked" /\ job[w] \in facts'
      BY <1>1, <2>2, RunsOfWindow, CommitMoves DEF Commits
    <3>2. Before(n)
      BY <3>1 DEF OrderInv, InTurn
    <3>3. ASSUME Ignore(w), event' = event PROVE NoneUpTo(n)
      <4>1. CASE found[w] = 0
        BY <2>2, <3>1, <4>1 DEF OrderInv, Closes
      <4>2. CASE found[w] # 0 /\ ~ Recovers(found[w], n)
        <5> DEFINE e == found[w]
        <5>1. e \in Active
          BY <4>2 DEF TypeOK, Active
        <5>2. ASSUME e <= n PROVE FALSE
          <6>1. At(n) \subseteq Linked(e)
            BY <1>1, <4>2, <5>1, <5>2 DEF Recovers
          <6>2. PICK ref \in event[e].refs : ref[1] = job[w]
            BY <2>2, <6>1 DEF Linked
          <6>3. ref[1][1] = n
            BY <3>1, <6>2
          <6>4. Action(n) # "RESOLVE"
            BY <1>1, <5>1, <5>2, <6>2, <6>3 DEF EventInv, Active
          <6> QED BY <1>5, <6>4
        <5>3. \A d \in Active : d = e
          BY <5>1 DEF OneActive
        <5> QED BY <1>1, <5>1, <5>2, <5>3 DEF NoneUpTo
      <4> QED BY <2>2, <3>1, <3>3, <4>1, <4>2 DEF Ignore
    <3>4. ASSUME Ignore(w), event' = event PROVE NoneUpTo(n)'
      BY <3>3, <3>4 DEF NoneUpTo, Active
    <3>5. CASE Opening(w)
      BY <1>5, <3>1, <3>5 DEF Opening
    <3>6. ASSUME NEW e \in Active, Supporting(w, e) PROVE FALSE
      BY <1>5, <3>1, <3>6 DEF Supporting
    <3>7. ASSUME NEW e \in Active, Resolving(w, e) PROVE NoneUpTo(n)'
      <4>1. Active \subseteq {e} /\ e \notin Active'
        BY <3>7 DEF OneActive, Resolving, Active
      <4>2. Active' \subseteq Active
        BY <2>2, <3>7, ActiveMoves DEF Opening
      <4> QED BY <4>1, <4>2 DEF NoneUpTo
    <3> QED BY <2>2, <3>1, <3>4, <3>5, <3>6, <3>7 DEF EventMove
  <2>3. CASE ~ Complete(n) \/ Pending(n)
    BY <1>5, <2>2, <2>3, PendingMoves
  <2> QED BY <1>5, <2>1, <2>3 DEF OrderInv, Closes
<1>6. ASSUME NEW v \in Worker, pc'[v] = "locked", action'[v] = "RESOLVE", found'[v] = 0
      PROVE  \A e \in Active' : e > job'[v][1]
  <2>1. CASE pc[v] = "locked" /\ action[v] = "RESOLVE" /\ found[v] = 0 /\ job'[v] = job[v]
    <3>1. job[v][1] \in 1 .. Last /\ Action(job[v][1]) = "RESOLVE"
      BY <2>1, HandlerRun DEF HandlerInv
    <3>2. Before(job[v][1]) /\ NoneUpTo(job[v][1])
      BY <2>1 DEF OrderInv, InTurn, Closes
    <3>3. \A n \in 1 .. Last :
              Before(n) /\ Action(n) = "RESOLVE" /\ NoneUpTo(n) => NoneUpTo(n)'
      BY <1>4
    <3>4. PICK n \in 1 .. Last : n = job[v][1] /\ NoneUpTo(n)'
      BY <3>1, <3>2, <3>3
    <3> QED BY <2>1, <3>4 DEF NoneUpTo
  <2>2. \/ pc[v] = "locked" /\ action[v] = "RESOLVE" /\ found[v] = 0 /\ job'[v] = job[v]
        \/ Active = {} /\ event' = event
    BY <1>6, EmptyHanded
  <2> QED BY <2>1, <2>2 DEF Active
<1> QED BY <1>2, <1>5, <1>6 DEF Closes, NoneUpTo
------------------------------------------------------------------------------
(* The inductive invariant.                                                  *)

LEMMA OvertakenStays == [Next]_vars /\ overtaken => overtaken'
BY DEF Next, Finalize, TakeBack, Claim, Load, Lookup, Ignore, Open, Support, Resolve,
       Commits, Raise, Fails, Report, Leaves, eventVars, vars

LEMMA InitIInv == Init => IInv
<1> SUFFICES ASSUME Init PROVE IInv
  OBVIOUS
<1>1. HistoryOK
  <2>1. PICK h \in Histories : rule = h[1] /\ seen = h[2]
    BY DEF Init
  <2>2. h \in History
    BY <2>1, EventsAssumption
  <2>3. h = <<h[1], h[2]>>
    BY <2>2 DEF History
  <2> QED BY <2>1, <2>3 DEF HistoryOK
<1>2. /\ final = {} /\ facts = {} /\ overtaken = FALSE
      /\ phase = [r \in Run |-> "absent"] /\ runs = [r \in Run |-> 0]
      /\ owner = [r \in Run |-> Null]
      /\ pc = [w \in Worker |-> "idle"] /\ job = [w \in Worker |-> Null]
      /\ action = [w \in Worker |-> "NONE"] /\ found = [w \in Worker |-> 0]
      /\ event = [e \in 1 .. Windows |-> Absent]
  BY DEF Init, Queue!Init
<1>3. Windows \in Nat /\ MaxAttempts \in [Run -> Nat \ {0}]
  BY EventsAssumption
<1>4. QueueOK /\ HandlerOK /\ Holding
  <2>1. QueueOK
    BY <1>2, <1>3 DEF QueueOK, Queue!Phase
  <2>2. HandlerOK
    <3>1. overtaken \in BOOLEAN /\ facts \subseteq final
      BY <1>2
    <3>2. "NONE" \in Actions /\ 0 \in 0 .. Windows
      BY <1>3 DEF Actions
    <3>3. /\ job \in [Worker -> Run \cup {Null}]
          /\ action \in [Worker -> Actions] /\ found \in [Worker -> 0 .. Windows]
      BY <1>2, <3>2
    <3>4. pc \in [Worker -> {"idle", "loading", "persist", "locked", "done", "raised", "failed"}]
      BY <1>2
    <3> QED BY <3>1, <3>3, <3>4 DEF HandlerOK
  <2>3. Holding
    BY <1>2 DEF Holding
  <2> QED BY <2>1, <2>2, <2>3
<1>5. Absent \in EventRow
  BY <1>3 DEF Absent, EventRow
<1>6. EventsOK
  BY <1>2, <1>5 DEF EventsOK
<1>7. TypeOK
  BY <1>1, <1>2, <1>4, <1>6, TypeIs
<1>8. Queued /\ HandlerInv /\ OneLock /\ OnlyOvertakenRaise
  BY <1>2 DEF Queued, HandlerInv, OneLock, OnlyOvertakenRaise
<1>9. Active = {} /\ \A e \in 1 .. Windows : event[e] = Absent
  BY <1>2 DEF Active, Absent
<1>10. OneActive
  BY <1>9 DEF OneActive
<1>11. EventInv
  BY <1>9 DEF EventInv, Absent
<1>12. SupportCounted
  <2>1. Affecting({}) = {} /\ Cardinality({}) = 0
    BY FS_EmptySet DEF Affecting
  <2>2. DOMAIN event = 1 .. Windows
    BY <1>2
  <2>3. Absent.refs = {} /\ Absent.supporting = 0
    BY DEF Absent
  <2>4. \A e \in DOMAIN event : event[e].supporting = Cardinality(Affecting(event[e].refs))
    BY <1>9, <2>1, <2>2, <2>3
  <2> QED BY <2>4, SupportIs
<1>13. \A n \in 1 .. Last : ~ Complete(n)
  BY <1>1, <1>2, RunsOfWindow DEF Complete
<1>14. OnsetInv
  BY <1>13 DEF OnsetInv
<1>15. OrderInv
  BY <1>2, <1>13 DEF OrderInv, InTurn, Opens, Closes, FreshOpen, ToOpen
<1> QED BY <1>7, <1>8, <1>10, <1>11, <1>12, <1>14, <1>15 DEF IInv

LEMMA NextIInv == IInv /\ [Next]_vars => IInv'
<1> SUFFICES ASSUME IInv, [Next]_vars PROVE IInv'
  OBVIOUS
<1>1. /\ TypeOK /\ Queued /\ HandlerInv /\ OneActive /\ OneLock /\ EventInv
      /\ SupportCounted /\ OnsetInv /\ OnlyOvertakenRaise
  BY DEF IInv
<1>2. TypeOK' /\ SupportCounted' /\ Queued' /\ HandlerInv' /\ OneLock'
  BY <1>1, TypeStep
<1>3. OneActive' /\ EventInv'
  BY <1>1, EventStep
<1>4. OnsetInv'
  BY <1>1, OnsetStep
<1>5. OnlyOvertakenRaise'
  BY <1>1, RaiseStep
<1>6. ASSUME ~ overtaken' PROVE OrderInv'
  <2>1. OrderInv
    BY <1>6, OvertakenStays DEF IInv
  <2>2. InTurn'
    BY <1>1, <1>6, <2>1, InTurnStep DEF OrderInv
  <2>3. Opens' /\ Closes' /\ FreshOpen'
    BY <1>1, <1>6, <2>1, OpensStep, ClosesStep, FreshOpenStep
  <2> QED BY <2>2, <2>3 DEF OrderInv
<1> QED BY <1>2, <1>3, <1>4, <1>5, <1>6 DEF IInv

LEMMA Invariance == Spec => []IInv
BY InitIInv, NextIInv, PTL DEF Spec
------------------------------------------------------------------------------
(* Theorems.                                                                 *)

\* The rows, the locks and the handlers are of the types app/events gives them;
\* what a transaction has locked is an active event until it ends.
THEOREM EventConditionsTypeCorrect == Spec => []TypeOK
<1>1. IInv => TypeOK
  BY DEF IInv
<1> QED BY <1>1, Invariance, PTL

\* supporting_count is the number of affected runs that are linked, for any order
\* and any number of repeats of the derivations (_insert_candidate_evidence).
THEOREM EventConditionsSupportCounted == Spec => []SupportCounted
<1>1. IInv => SupportCounted
  BY DEF IInv
<1> QED BY <1>1, Invariance, PTL

\* When all runs of a window are derived, an onset they show has an event that the
\* affected ones are evidence of, of however many pages: one of their derivations
\* saw the window complete (EP-016, load_window_inputs).
THEOREM EventConditionsOnsetRecorded == Spec => []OnsetRecorded
<1>1. ASSUME IInv PROVE OnsetRecorded
  <2>1. ASSUME NEW n \in 1 .. Last, At(n) \subseteq facts, Action(n) = "UPSERT"
        PROVE  \E e \in DOMAIN event : Affected(n) \subseteq Linked(e)
    <3>1. Complete(n) /\ ~ Pending(n)
      BY <1>1, <2>1, TypeIs DEF IInv, HandlerOK, Complete, Pending, ToEvaluate
    <3>2. DOMAIN event = 1 .. Windows
      BY <1>1, TypeIs DEF IInv, EventsOK
    <3> QED BY <1>1, <2>1, <3>1, <3>2 DEF IInv, OnsetInv
  <2> QED BY <2>1 DEF OnsetRecorded
<1> QED BY <1>1, Invariance, PTL

\* A derivation fails for good only when a later window's was committed before
\* it (EventStateError of _persist_condition).
THEOREM EventConditionsRaise == Spec => []OnlyOvertakenRaise
<1>1. IInv => OnlyOvertakenRaise
  BY DEF IInv
<1> QED BY <1>1, Invariance, PTL

\* As long as no derivation is overtaken by one of a later window, and no onset that
\* had no event of its own is derived again after one, there is an active event
\* exactly when the rules say the condition is there: repeated, racing and failing
\* derivations lose and invent nothing (_active_condition, _persist_condition).
THEOREM EventConditionsOrderlyAgrees == Spec => []OrderlyAgrees
<1>1. ASSUME IInv, ~ overtaken, NEW n \in 1 .. Last,
             UNION {At(m) : m \in 1 .. n} = final, facts = final
      PROVE  Active # {} <=> Present(n)
  <2>1. HistoryOK /\ Last \in Nat /\ DOMAIN event = 1 .. Windows
        /\ EventInv /\ Opens /\ Closes /\ EventsOK
    BY <1>1, TypeIs, HistoryFacts DEF IInv, OrderInv, EventsOK
  <2>2. \A k \in 1 .. n : k \in 1 .. Last /\ Complete(k) /\ ~ Pending(k)
    <3>1. \A k \in 1 .. n : At(k) \subseteq facts
      BY <1>1
    <3> QED BY <1>1, <2>1, <3>1 DEF Complete, Pending, ToEvaluate
  <2>3. \A q \in facts : q[1] <= n
    <3>1. \A k : \A r \in At(k) : r[1] = k
      BY <2>1, RunsOfWindow
    <3> QED BY <1>1, <2>1, <3>1
  <2>4. ASSUME NEW e \in Active PROVE Present(n)
    <3>1. e \in 1 .. Last /\ Action(e) = "UPSERT" /\ \E q \in facts : q[1] = e
      BY <2>1 DEF Active, EventInv
    <3>2. e \in 1 .. n
      BY <2>1, <2>3, <3>1
    <3>3. \A k \in e .. n : Action(k) # "RESOLVE"
      <4>1. ASSUME NEW k \in e .. n, Action(k) = "RESOLVE" PROVE FALSE
        <5>1. k \in 1 .. n
          BY <2>1, <3>2
        <5>2. e > k
          BY <2>1, <2>2, <4>1, <5>1 DEF Closes, NoneUpTo
        <5> QED BY <2>1, <3>2, <5>1, <5>2
      <4> QED BY <4>1
    <3> QED BY <3>1, <3>2, <3>3 DEF Present
  <2>5. ASSUME Present(n) PROVE Active # {}
    <3>1. PICK m \in 1 .. n : Action(m) = "UPSERT" /\ \A k \in m .. n : Action(k) # "RESOLVE"
      BY <2>5 DEF Present
    <3>2. PICK e \in 1 .. m :
              event[e].status # "ABSENT" /\ \A k \in e .. m : Action(k) # "RESOLVE"
      BY <2>2, <3>1, <2>1 DEF Opens
    <3>3. e \in 1 .. Windows /\ m \in 1 .. Last
      BY <2>1, <2>2, HistoryFacts, EventsAssumption
    <3>4. event[e].status # "RESOLVED"
      <4>1. ASSUME event[e].status = "RESOLVED" PROVE FALSE
        <5>1. /\ event[e].ended \in e + 1 .. Last /\ Action(event[e].ended) = "RESOLVE"
              /\ event[e].ended <= n
          BY <2>1, <2>3, <3>3, <4>1 DEF EventInv
        <5>2. event[e].ended \in e .. m \/ event[e].ended \in m .. n
          BY <2>1, <3>3, <5>1
        <5> QED BY <3>1, <3>2, <5>1, <5>2
      <4> QED BY <4>1
    <3>5. event[e].status = "ACTIVE"
      BY <2>1, <3>2, <3>4, <3>3 DEF EventsOK, EventRow
    <3> QED BY <2>1, <3>5, <3>3 DEF Active
  <2> QED BY <2>4, <2>5
<1>2. IInv => OrderlyAgrees
  BY <1>1 DEF OrderlyAgrees, Agrees
<1> QED BY <1>2, Invariance, PTL

\* Recovery closes conditions without erasing history: no step, of a stale or of
\* a repeated derivation, changes a resolved event.
THEOREM EventConditionsHistoryStays == Spec => HistoryStays
<1>1. ASSUME IInv, [Next]_vars, NEW e \in DOMAIN event, event[e].status = "RESOLVED"
      PROVE  event'[e] = event[e]
  <2>1. e \in 1 .. Windows
    BY <1>1, TypeIs DEF IInv, EventsOK
  <2>2. ASSUME NEW w \in Worker, CommitStep(w) PROVE event'[e] = event[e]
    <3>1. EventMove(w)
      BY <1>1, <2>2, CommitMoves DEF IInv
    <3>2. e \notin Active
      BY <1>1 DEF Active
    <3> QED BY <1>1, <2>1, <3>1, <3>2
          DEF EventMove, Opening, Supporting, Resolving, OthersStay
  <2> QED BY <1>1, <2>2, StepKinds DEF Quiet
<1>2. IInv /\ [Next]_vars =>
        [\A e \in DOMAIN event : event[e].status = "RESOLVED" => event'[e] = event[e]]_vars
  BY <1>1
<1> QED BY <1>2, Invariance, PTL DEF Spec, HistoryStays
------------------------------------------------------------------------------
(* The events implement ConditionStore.                                      *)

\* The rows of the store are the events there are, and their links.
LEMMA StoredRows ==
    ASSUME EventsOK
    PROVE  /\ DOMAIN Conditions \subseteq 1 .. Windows
           /\ \A e \in 1 .. Windows : e \in DOMAIN Conditions <=> event[e].status # "ABSENT"
           /\ \A e \in DOMAIN Conditions :
                 /\ Conditions[e].status = event[e].status /\ Conditions[e].refs = Linked(e)
                 /\ Conditions[e] \in Store!Row
<1>1. DOMAIN event = 1 .. Windows /\ \A e \in 1 .. Windows : event[e] \in EventRow
  BY DEF EventsOK
<1>2. \A e \in 1 .. Windows : Linked(e) \subseteq (0 .. Windows) \X Page
  BY <1>1 DEF Linked, EventRow, Ref
<1>3. \A e \in DOMAIN Conditions :
          e \in 1 .. Windows /\ event[e].status # "ABSENT"
          /\ Conditions[e] = [status |-> event[e].status, refs |-> Linked(e)]
  BY <1>1 DEF Conditions
<1>4. \A e \in 1 .. Windows : event[e].status # "ABSENT" => e \in DOMAIN Conditions
  BY <1>1 DEF Conditions
<1>5. \A e \in DOMAIN Conditions : Conditions[e] \in Store!Row
  BY <1>1, <1>2, <1>3 DEF EventRow, Store!Row
<1> QED BY <1>3, <1>4, <1>5

LEMMA StoredRowsNext ==
    ASSUME EventsOK'
    PROVE  /\ DOMAIN Conditions' \subseteq 1 .. Windows
           /\ \A e \in 1 .. Windows : e \in DOMAIN Conditions' <=> event'[e].status # "ABSENT"
           /\ \A e \in DOMAIN Conditions' :
                 /\ Conditions'[e].status = event'[e].status /\ Conditions'[e].refs = Linked(e)'
                 /\ Conditions'[e] \in Store!Row
<1>1. DOMAIN event' = 1 .. Windows /\ \A e \in 1 .. Windows : event'[e] \in EventRow
  BY DEF EventsOK, EventRow, Ref
<1>2. \A e \in 1 .. Windows : Linked(e)' \subseteq (0 .. Windows) \X Page
  BY <1>1 DEF Linked, EventRow, Ref
<1>3. \A e \in DOMAIN Conditions' :
          e \in 1 .. Windows /\ event'[e].status # "ABSENT"
          /\ Conditions'[e] = [status |-> event'[e].status, refs |-> Linked(e)']
  BY <1>1 DEF Conditions
<1>4. \A e \in 1 .. Windows : event'[e].status # "ABSENT" => e \in DOMAIN Conditions'
  BY <1>1 DEF Conditions
<1>5. \A e \in DOMAIN Conditions' : Conditions'[e] \in Store!Row
  BY <1>1, <1>2, <1>3 DEF EventRow, Store!Row
<1> QED BY <1>3, <1>4, <1>5

\* One row changes at most, and as the store allows it.
LEMMA StoreMoves ==
    ASSUME EventsOK, EventsOK', OneActive', NEW e \in 1 .. Windows, OthersStay(e),
           \/ event[e].status = "ABSENT" /\ Linked(e)' # {} /\ event'[e].status = "ACTIVE"
           \/ /\ event[e].status = "ACTIVE" /\ event'[e].status \in {"ACTIVE", "RESOLVED"}
              /\ Linked(e) \subseteq Linked(e)'
              /\ event'[e].status = "RESOLVED" => Linked(e) # Linked(e)'
    PROVE  Store!Next
<1>1. \A d \in 1 .. Windows : d # e => event'[d] = event[d] /\ Linked(d)' = Linked(d)
  BY DEF OthersStay, Linked
<1>2. Store!TypeOK'
  BY StoredRowsNext DEF Store!TypeOK, Store!Row
<1>3. Store!OneActive'
  <2>1. ASSUME NEW d \in DOMAIN Conditions', Conditions'[d].status = "ACTIVE" PROVE d \in Active'
    <3>1. d \in DOMAIN event' /\ event'[d].status = "ACTIVE"
      BY <2>1, StoredRowsNext DEF EventsOK
    <3> QED BY <3>1 DEF Active
  <2> QED BY <2>1 DEF Store!OneActive, Store!Active, OneActive
<1>4. DOMAIN Conditions \subseteq DOMAIN Conditions'
  BY <1>1, StoredRows, StoredRowsNext
<1>5. ASSUME NEW d \in DOMAIN Conditions
      PROVE  Conditions'[d] = Conditions[d] \/ Store!Supported(d) \/ Store!Resolved(d)
  <2>1. d \in 1 .. Windows /\ d \in DOMAIN Conditions' /\ event[d].status # "ABSENT"
    BY <1>4, StoredRows
  <2>2. /\ Conditions[d].status = event[d].status /\ Conditions[d].refs = Linked(d)
        /\ Conditions'[d].status = event'[d].status /\ Conditions'[d].refs = Linked(d)'
    BY <2>1, <1>5, StoredRows, StoredRowsNext
  <2>3. CASE d = e
    BY <2>1, <2>2, <2>3 DEF Store!Supported, Store!Resolved
  <2>4. CASE d # e
    <3>1. Conditions[d] \in Store!Row /\ Conditions'[d] \in Store!Row
      BY <2>1, <1>5, StoredRows, StoredRowsNext
    <3> QED BY <1>1, <2>1, <2>2, <2>4, <3>1 DEF Store!Row
  <2> QED BY <2>3, <2>4
<1>6. ASSUME NEW d \in DOMAIN Conditions' \ DOMAIN Conditions PROVE Store!Opened(d)
  <2>1. d = e
    BY <1>1, <1>6, StoredRows, StoredRowsNext
  <2> QED BY <1>6, <2>1, StoredRows, StoredRowsNext DEF Store!Opened
<1> QED BY <1>2, <1>3, <1>4, <1>5, <1>6 DEF Store!Next

\* Every step of the derivations is a step of the store, or none.
LEMMA StoreStep ==
    ASSUME IInv, IInv', [Next]_vars
    PROVE  [Store!Next]_Conditions
<1>1. /\ TypeOK /\ Queued /\ HandlerInv /\ SupportCounted /\ EventInv
      /\ HistoryOK /\ EventsOK /\ EventsOK' /\ OneActive'
  <2>1. EventsOK'
    BY DEF IInv, TypeOK, EventsOK, EventRow, Ref
  <2> QED BY <2>1, TypeIs DEF IInv
<1>2. CASE event' = event
  BY <1>2 DEF Conditions, Linked
<1>3. ASSUME NEW w \in Worker, CommitStep(w), event' # event PROVE Store!Next
  <2>1. EventMove(w) /\ pc[w] = "locked"
    BY <1>1, <1>3, CommitMoves
  <2>2. PICK n \in 1 .. Last : n = job[w][1] /\ n \in 1 .. Windows
    BY <1>1, <2>1, HandlerRun
  <2>3. CASE Opening(w)
    <3>1. /\ event[n].status = "ABSENT" /\ event'[n].status = "ACTIVE"
          /\ event'[n].refs = Trigger(n) /\ OthersStay(n) /\ Action(n) = "UPSERT"
      BY <2>2, <2>3 DEF Opening
    <3>2. PICK ref \in Trigger(n) : TRUE
      BY <1>1, <2>2, <3>1, TriggerFacts
    <3>3. ref[1] \in Linked(n)'
      BY <3>1, <3>2 DEF Linked
    <3> QED BY <1>1, <2>2, <3>1, <3>3, StoreMoves
  <2>4. ASSUME NEW e \in Active, Supporting(w, e) PROVE Store!Next
    <3>1. e \in 1 .. Windows /\ event[e].status = "ACTIVE"
      BY <1>1 DEF Active, EventsOK
    <3>2. event'[e].status = "ACTIVE" /\ event[e].refs \subseteq event'[e].refs /\ OthersStay(e)
      BY <2>4 DEF Supporting
    <3>3. Linked(e) \subseteq Linked(e)'
      BY <3>2 DEF Linked
    <3> QED BY <1>1, <3>1, <3>2, <3>3, StoreMoves
  <2>5. ASSUME NEW e \in Active, Resolving(w, e) PROVE Store!Next
    <3>1. e \in 1 .. Windows /\ event[e].status = "ACTIVE"
      BY <1>1 DEF Active, EventsOK
    <3>2. event'[e].status = "RESOLVED" /\ event[e].refs \subseteq event'[e].refs /\ OthersStay(e)
      BY <2>5 DEF Resolving
    <3>3. Linked(e) \subseteq Linked(e)'
      BY <3>2 DEF Linked
    <3>4. Linked(e) # Linked(e)'
      <4>1. PICK r \in At(n) : r \notin Linked(e)
        BY <2>2, <2>5 DEF Resolving, Recovers
      <4>2. event' = Resolved(e, n)
        BY <2>2, <2>5 DEF Resolving, Resolve
      <4>3. <<r, "RECOVERY">> \in event'[e].refs
        BY <1>1, <3>1, <4>1, <4>2 DEF Resolved, EventsOK
      <4>4. r \in Linked(e)'
        BY <4>3 DEF Linked
      <4> QED BY <4>1, <4>4
    <3> QED BY <1>1, <3>1, <3>2, <3>3, <3>4, StoreMoves
  <2> QED BY <1>3, <2>1, <2>3, <2>4, <2>5 DEF EventMove
<1> QED BY <1>2, <1>3, StepKinds DEF Quiet

\* The events keep ConditionStore: at most one of the condition is active, evidence
\* is only added, an event is resolved once and by new evidence, and stays
\* (_persist_condition, _resolve_condition, uq_events_active_condition).
THEOREM EventConditionsKeepsConditions == Spec => KeepsConditions
<1>1. Init => Store!Init
  <2> SUFFICES ASSUME Init PROVE DOMAIN Conditions = {}
    BY DEF Store!Init
  <2>1. event = [e \in 1 .. Windows |-> Absent]
    BY DEF Init
  <2>2. \A d \in DOMAIN event : event[d].status = "ABSENT"
    BY <2>1 DEF Absent
  <2> QED BY <2>2 DEF Conditions
<1>2. IInv /\ IInv' /\ [Next]_vars => [Store!Next]_Conditions
  BY StoreStep
<1> QED BY <1>1, <1>2, Invariance, PTL DEF Spec, KeepsConditions, Store!Spec
==============================================================================

---------------------------- MODULE IncidentsProofs ----------------------------
(***************************************************************************)
(* Theorems about Incidents, for any number of operators, scenarios, runs   *)
(* and calls and any limit.                                                 *)
(*                                                                          *)
(* The ledger is bounded because an entry under way was within the limit    *)
(* when it was counted: the entries, and one for each operator between      *)
(* Count and Consume, stay below the limit plus the operators (Overdraft).  *)
(* The baseline does not drift because the runs an operator has read stay   *)
(* COMPLETE and keep their end (ReadIsFinal), and the reference is the last *)
(* healthy one among them (Chosen).                                         *)
(*                                                                          *)
(* Two diagnostics share an entry only if their calls overlapped, because a *)
(* key made now is beyond every one consumed (KeysBehind): a call that has  *)
(* the key of a diagnostic at hand made it before that was committed        *)
(* (KeyShared).                                                             *)
(***************************************************************************)
EXTENDS Incidents, WellFoundedInduction, FiniteSetTheorems, TLAPS

\* An operator's call is numbered, and has found the incident.
CallsAreNumbered == \A o \in Operator : pc[o] \in Asking => call[o] >= 1
OpenedFirst == ~opened => refs = {} /\ \A o \in Operator : pc[o] = "idle"

\* A key is at hand from Count to Commit.
KeyAtHand == \A o \in Operator : pc[o] \in {"consume", "enqueue", "commit"} => key[o] \in Keys

EndsInThePast == \A r \in Run :
    /\ status[r] # "RUNNING" => ended[r] \in Nat /\ ended[r] < clock

\* What a localisation has read, or a reference was chosen among.
ReadIsFinal ==
    /\ \A o \in Operator : \A r \in seen[o] : status[r] = "COMPLETE"
    /\ \A x \in refs : \A r \in x.seen : status[r] = "COMPLETE"
Readable == \A o \in Operator : pc[o] = "freeze" => Healthy(seen[o]) # {}

Chosen == \A x \in refs :
    /\ x.run \in Healthy(x.seen)
    /\ \A r \in Healthy(x.seen) : ended[r] <= ended[x.run]

\* Operators between the test of the budget and its consumption.
Between == {o \in Operator : pc[o] = "consume"}
Overdraft ==
    /\ IsFiniteSet(ledger)
    /\ Used + Cardinality(Between) <= Limit + Cardinality(Operator) - 1

\* Between Consume and Commit the entry of a call is there, and then its job.
EntryFirst == \A o \in Operator :
    /\ pc[o] \in {"enqueue", "commit"} => key[o] \in ledger
    /\ pc[o] = "commit" => <<key[o], call[o]>> \in jobs
PaidFirst == \A d \in diagnostics : d[1] \in ledger

IInv ==
    /\ TypeOK
    /\ CallsAreNumbered /\ OpenedFirst /\ KeyAtHand
    /\ EndsInThePast /\ ReadIsFinal /\ Readable /\ Chosen
    /\ Overdraft
    /\ EntryFirst /\ PaidFirst
------------------------------------------------------------------------------
(* Lemmas about the operators.                                               *)

\* Any set of numbers that is not empty has a least one.
LEMMA Least ==
    ASSUME NEW S \in SUBSET Nat, S # {}
    PROVE  \E m \in S : \A k \in S : m <= k
<1>1. IsWellFoundedOn(OpToRel(<, Nat), Nat)
  BY NatLessThanWellFounded
<1>2. PICK m \in S : \A k \in S : <<k, m>> \notin OpToRel(<, Nat)
  BY <1>1, WFMin
<1>3. ASSUME NEW k \in S PROVE m <= k
  <2>1. ~ (k < m)
    BY <1>2 DEF OpToRel
  <2> QED BY <2>1
<1> QED BY <1>3

\* Turn takes a scenario that is left, by the least code.
LEMMA TurnIsLeft ==
    ASSUME NEW o \in Operator, todo[o] \in SUBSET Scenario, todo[o] # {}
    PROVE  Turn(o) \in todo[o]
<1>1. todo[o] \in SUBSET Nat
  BY IncidentsAssumption
<1>2. PICK m \in todo[o] : \A k \in todo[o] : m <= k
  BY <1>1, Least
<1>3. Ahead(m, todo[o]) = {}
  BY <1>1, <1>2 DEF Ahead
<1> QED BY <1>3 DEF Turn

\* Of runs that have ended, Latest takes one that ended last.
LEMMA LatestIsLast ==
    ASSUME NEW S, S # {}, clock \in Nat,
           \A r \in S : ended[r] \in Nat /\ ended[r] < clock
    PROVE  Latest(S) \in S /\ \A r \in S : ended[r] <= ended[Latest(S)]
<1> DEFINE ages == {clock - ended[r] : r \in S}
<1>1. ages \in SUBSET Nat /\ ages # {}
  OBVIOUS
<1>2. PICK a \in ages : \A b \in ages : a <= b
  BY <1>1, Least
<1>3. PICK r \in S : a = clock - ended[r]
  BY <1>2
<1>4. ASSUME NEW q \in S PROVE ended[q] <= ended[r]
  <2>1. clock - ended[q] \in ages
    OBVIOUS
  <2>2. a <= clock - ended[q]
    BY <1>2, <2>1
  <2>3. ended[q] \in Nat /\ ended[r] \in Nat
    OBVIOUS
  <2> QED BY <1>3, <2>2, <2>3
<1> QED BY <1>3, <1>4 DEF Latest

LEMMA OperatorsFinite ==
    ASSUME NEW B \in SUBSET Operator
    PROVE  /\ IsFiniteSet(B) /\ Cardinality(B) \in Nat
           /\ Cardinality(B) <= Cardinality(Operator)
           /\ Cardinality(Operator) \in Nat \ {0}
<1>1. IsFiniteSet(Operator) /\ Operator # {}
  BY IncidentsAssumption
<1>2. IsFiniteSet(B) /\ Cardinality(B) <= Cardinality(Operator)
  BY <1>1, FS_Subset
<1>3. Cardinality(B) \in Nat /\ Cardinality(Operator) \in Nat
  BY <1>1, <1>2, FS_CardinalityType
<1>4. Cardinality(Operator) # 0
  BY <1>1, FS_EmptySet
<1> QED BY <1>2, <1>3, <1>4

\* Who leaves the place between test and consumption without consuming.
LEMMA OverdraftKept ==
    ASSUME IInv, ledger' = ledger, Between' \in SUBSET Between
    PROVE  Overdraft'
<1>1. Between \in SUBSET Operator
  BY DEF Between
<1>2. IsFiniteSet(Between) /\ Cardinality(Between) \in Nat /\ Cardinality(Operator) \in Nat
  BY <1>1, OperatorsFinite
<1>3. IsFiniteSet(Between') /\ Cardinality(Between') <= Cardinality(Between)
  BY <1>2, FS_Subset
<1>4. Cardinality(Between') \in Nat
  BY <1>3, FS_CardinalityType
<1>5. IsFiniteSet(ledger) /\ Used \in Nat
  BY FS_CardinalityType DEF IInv, Overdraft, Used
<1>6. Used' = Used
  BY DEF Used
<1>7. Limit \in Nat /\ Used + Cardinality(Between) <= Limit + Cardinality(Operator) - 1
  BY IncidentsAssumption DEF IInv, Overdraft
<1>8. Used' + Cardinality(Between') <= Limit + Cardinality(Operator) - 1
  BY <1>2, <1>3, <1>4, <1>5, <1>6, <1>7
<1> QED BY <1>5, <1>8 DEF Overdraft

------------------------------------------------------------------------------
(* Steps of the site.                                                        *)

LEMMA InitIInv == Init => IInv
<1> SUFFICES ASSUME Init PROVE IInv
  OBVIOUS
<1>1. TypeOK
  <2>1. scenario \in [Scenario -> {"ABSENT", "ACTIVE", "RETIRED"}]
    BY DEF Init
  <2>2. \A o \in Operator : pc[o] \in Asking <=> todo[o] # {}
    BY DEF Init, Asking
  <2>3. /\ call \in [Operator -> 0 .. calls] /\ todo \in [Operator -> SUBSET Scenario]
        /\ calls \in Nat /\ together \subseteq SUBSET (1 .. calls)
    BY DEF Init
  <2>4. /\ pc \in [Operator -> {"idle", "freeze"} \cup Asking]
        /\ seen \in [Operator -> SUBSET Run] /\ grants \in [Operator -> Nat]
        /\ key \in [Operator -> Keys \cup {Null}] /\ place \in [Scenario -> Nat]
    BY DEF Init
  <2> QED BY <2>1, <2>2, <2>3, <2>4 DEF Init, TypeOK
<1>5. CallsAreNumbered /\ OpenedFirst /\ KeyAtHand
  BY DEF Init, Asking, CallsAreNumbered, OpenedFirst, KeyAtHand
<1>2. EndsInThePast /\ ReadIsFinal /\ Readable /\ Chosen /\ EntryFirst /\ PaidFirst
  BY DEF Init, EndsInThePast, ReadIsFinal, Readable, Chosen, EntryFirst, PaidFirst
<1>3. IsFiniteSet(ledger) /\ Used = 0 /\ Between = {} /\ Cardinality(Between) = 0
  BY FS_EmptySet DEF Init, Used, Between
<1>4. Overdraft
  <2>1. Cardinality(Operator) \in Nat \ {0}
    BY <1>3, OperatorsFinite
  <2> QED BY <1>3, <2>1, IncidentsAssumption DEF Overdraft
<1> QED BY <1>1, <1>2, <1>4, <1>5 DEF IInv

\* The end of a run that nobody has read.
LEMMA EndsInv ==
    ASSUME IInv, NEW r \in Run, Ends(r)
    PROVE  IInv'
<1> USE DEF Ends, runVars, incident, stored, callVars, history
<1>1. TypeOK' /\ CallsAreNumbered' /\ OpenedFirst' /\ KeyAtHand'
  BY DEF IInv, TypeOK, Asking, Keys, CallsAreNumbered, OpenedFirst, KeyAtHand
<1>2. EndsInThePast'
  BY DEF IInv, TypeOK, EndsInThePast
<1>3. ReadIsFinal'
  BY DEF IInv, TypeOK, ReadIsFinal
<1>4. /\ \A o \in Operator : \A q \in seen[o] : q # r
      /\ \A x \in refs : \A q \in x.seen : q # r
  BY DEF IInv, ReadIsFinal
<1>5. Readable'
  <2>1. \A o \in Operator : Healthy(seen[o])' = Healthy(seen[o])
    BY <1>4 DEF IInv, TypeOK, Healthy
  <2> QED BY <2>1 DEF IInv, Readable
<1>6. Chosen'
  <2>1. \A x \in refs : Healthy(x.seen)' = Healthy(x.seen)
    BY <1>4 DEF IInv, TypeOK, Healthy
  <2>2. \A x \in refs : \A q \in x.seen : ended'[q] = ended[q]
    BY <1>4 DEF IInv, TypeOK
  <2>3. \A x \in refs : Healthy(x.seen) \subseteq x.seen
    BY DEF Healthy
  <2> QED BY <2>1, <2>2, <2>3 DEF IInv, Chosen
<1>7. Overdraft' /\ EntryFirst' /\ PaidFirst'
  BY DEF IInv, Overdraft, Used, Between, EntryFirst, PaidFirst
<1> QED BY <1>1, <1>2, <1>3, <1>5, <1>6, <1>7 DEF IInv

LEMMA FinalizeInv ==
    ASSUME IInv, NEW r \in Run, NEW s \in {"COMPLETE", "FAILED"}, Finalize(r, s)
    PROVE  IInv'
<1> USE DEF Finalize, incident, stored, callVars, history
<1>1. TypeOK' /\ CallsAreNumbered' /\ OpenedFirst' /\ KeyAtHand'
  BY DEF IInv, TypeOK, Asking, Keys, CallsAreNumbered, OpenedFirst, KeyAtHand
<1>2. EndsInThePast' /\ ReadIsFinal'
  BY DEF IInv, TypeOK, EndsInThePast, ReadIsFinal
<1>3. Readable' /\ Chosen'
  BY DEF IInv, Readable, Chosen, Healthy
<1>4. Overdraft' /\ EntryFirst' /\ PaidFirst'
  BY DEF IInv, Overdraft, Used, Between, EntryFirst, PaidFirst
<1> QED BY <1>1, <1>2, <1>3, <1>4 DEF IInv

LEMMA ScenarioInv ==
    ASSUME IInv, NEW s \in Scenario, AddScenario(s) \/ Retire(s)
    PROVE  IInv'
<1>0. /\ scenario \in [Scenario -> {"ABSENT", "ACTIVE", "RETIRED"}]
         => scenario' \in [Scenario -> {"ABSENT", "ACTIVE", "RETIRED"}]
      /\ UNCHANGED <<runVars, incident, stored, pc, seen, callVars, history>>
  BY DEF AddScenario, Retire
<1> USE <1>0 DEF runVars, incident, stored, callVars, history
<1>1. TypeOK' /\ CallsAreNumbered' /\ OpenedFirst' /\ KeyAtHand'
  BY DEF IInv, TypeOK, Asking, Keys, CallsAreNumbered, OpenedFirst, KeyAtHand
<1>2. EndsInThePast' /\ ReadIsFinal' /\ Readable' /\ Chosen'
  BY DEF IInv, EndsInThePast, ReadIsFinal, Readable, Chosen, Healthy
<1>3. Overdraft' /\ EntryFirst' /\ PaidFirst'
  BY DEF IInv, Overdraft, Used, Between, EntryFirst, PaidFirst
<1> QED BY <1>1, <1>2, <1>3 DEF IInv

\* Nothing is frozen, and nobody is about to, before the incident is there.
LEMMA OpenInv ==
    ASSUME IInv, NEW t \in Reported, Open(t)
    PROVE  IInv'
<1> USE DEF Open, runVars, incident, stored, callVars, history
<1>1. TypeOK' /\ CallsAreNumbered' /\ OpenedFirst' /\ KeyAtHand'
  BY DEF IInv, TypeOK, Reported, Asking, Keys, CallsAreNumbered, OpenedFirst, KeyAtHand
<1>2. EndsInThePast' /\ ReadIsFinal'
  BY DEF IInv, EndsInThePast, ReadIsFinal
<1>3. Readable' /\ Chosen'
  BY DEF IInv, OpenedFirst, Readable, Chosen
<1>4. Overdraft' /\ EntryFirst' /\ PaidFirst'
  BY DEF IInv, Overdraft, Used, Between, EntryFirst, PaidFirst
<1> QED BY <1>1, <1>2, <1>3, <1>4 DEF IInv

------------------------------------------------------------------------------
(* Localisation.                                                             *)

LEMMA LocalizeInv ==
    ASSUME IInv, NEW o \in Operator, Localize(o)
    PROVE  IInv'
<1> USE DEF Localize, runVars, incident, stored, callVars, history
<1>1. TypeOK' /\ CallsAreNumbered' /\ OpenedFirst' /\ KeyAtHand'
  BY DEF IInv, TypeOK, Complete, Asking, Keys, CallsAreNumbered, OpenedFirst, KeyAtHand
<1>2. EndsInThePast' /\ ReadIsFinal' /\ Chosen'
  BY DEF IInv, TypeOK, EndsInThePast, ReadIsFinal, Chosen, Complete, Healthy
<1>3. Readable'
  BY DEF IInv, TypeOK, Readable, Healthy
<1>4. Between' = Between
  BY DEF IInv, TypeOK, Between
<1>5. Overdraft' /\ EntryFirst' /\ PaidFirst'
  BY <1>4 DEF IInv, TypeOK, Overdraft, Used, EntryFirst, PaidFirst
<1> QED BY <1>1, <1>2, <1>3, <1>5 DEF IInv

\* The reference that is added is the last of the healthy runs that were read.
LEMMA FreezeInv ==
    ASSUME IInv, NEW o \in Operator, Freeze(o)
    PROVE  IInv'
<1> DEFINE good == Latest(Healthy(seen[o]))
           ref == [run |-> good, seen |-> seen[o]]
<1>1. /\ good \in Healthy(seen[o])
      /\ \A r \in Healthy(seen[o]) : ended[r] <= ended[good]
  <2>1. Healthy(seen[o]) # {} /\ clock \in Nat
    BY DEF Freeze, IInv, TypeOK, Readable
  <2>2. \A r \in Healthy(seen[o]) : ended[r] \in Nat /\ ended[r] < clock
    BY DEF IInv, TypeOK, Healthy, ReadIsFinal, EndsInThePast
  <2> HIDE DEF good
  <2> QED BY <2>1, <2>2, LatestIsLast DEF good
<1>2. seen[o] \subseteq Run /\ good \in seen[o]
  BY <1>1 DEF IInv, TypeOK, Healthy
<1>3. refs' \subseteq refs \cup {ref}
  BY DEF Freeze
<1>4. ref.run = good /\ ref.seen = seen[o]
  OBVIOUS
<1>5. UNCHANGED <<runVars, scenario, incident, ledger, jobs, diagnostics, callVars, history>>
  BY DEF Freeze
<1>6. pc' = [pc EXCEPT ![o] = "idle"] /\ seen' = [seen EXCEPT ![o] = {}] /\ pc[o] = "freeze"
  BY DEF Freeze
<1> HIDE DEF good, ref
<1> USE DEF runVars, incident, callVars, history
<1>7. \A x \in refs' : x.run \in x.seen /\ x.seen \subseteq Run
  BY <1>2, <1>3, <1>4 DEF IInv, TypeOK
<1>8. TypeOK' /\ CallsAreNumbered' /\ KeyAtHand'
  BY <1>5, <1>6, <1>7 DEF IInv, TypeOK, Asking, Keys, CallsAreNumbered, KeyAtHand
<1>9. OpenedFirst'
  BY <1>5, <1>6 DEF IInv, OpenedFirst
<1>10. EndsInThePast' /\ ReadIsFinal'
  BY <1>3, <1>4, <1>5, <1>6 DEF IInv, TypeOK, EndsInThePast, ReadIsFinal
<1>11. Readable'
  BY <1>5, <1>6 DEF IInv, TypeOK, Readable, Healthy
<1>12. Chosen'
  BY <1>1, <1>3, <1>4, <1>5 DEF IInv, Chosen, Healthy
<1>13. Between' = Between
  BY <1>6 DEF IInv, TypeOK, Between
<1>14. Overdraft' /\ EntryFirst' /\ PaidFirst'
  BY <1>5, <1>6, <1>13 DEF IInv, TypeOK, Overdraft, Used, EntryFirst, PaidFirst
<1> QED BY <1>8, <1>9, <1>10, <1>11, <1>12, <1>14 DEF IInv

------------------------------------------------------------------------------
(* Diagnostics.                                                              *)

\* What no step of a request for diagnostics disturbs.
LEMMA AskingKeepsBaseline ==
    ASSUME IInv, UNCHANGED <<runVars, incident, refs>>, seen' = seen,
           \A o \in Operator : pc'[o] = "freeze" => pc[o] = "freeze"
    PROVE  EndsInThePast' /\ ReadIsFinal' /\ Readable' /\ Chosen'
<1> USE DEF runVars, incident
<1>1. EndsInThePast' /\ ReadIsFinal' /\ Chosen'
  BY DEF IInv, EndsInThePast, ReadIsFinal, Chosen, Healthy
<1>2. Readable'
  BY DEF IInv, Readable, Healthy
<1> QED BY <1>1, <1>2

LEMMA RequestInv ==
    ASSUME IInv, NEW o \in Operator, NEW n \in 1 .. MaxScenarios, Request(o, n)
    PROVE  IInv'
<1>1. /\ UNCHANGED <<runVars, scenario, incident, stored, seen, key, place, moved>>
      /\ opened /\ pc[o] = "idle" /\ pc' = [pc EXCEPT ![o] = "count"]
      /\ grants' = [grants EXCEPT ![o] = 0]
      /\ calls' = calls + 1 /\ call' = [call EXCEPT ![o] = calls']
  BY DEF Request
<1>2. todo' \in [Operator -> SUBSET Scenario] /\ todo'[o] # {}
      /\ \A p \in Operator : p # o => todo'[p] = todo[p]
  <2>1. \A k : FirstActive(k) \in SUBSET Scenario
    BY DEF FirstActive, Active
  <2> QED BY <2>1 DEF Request, IInv, TypeOK
<1>3. together' \subseteq SUBSET (1 .. calls')
  <2>1. \A p \in Operator : pc[p] \in Asking => call[p] \in 1 .. calls /\ calls \in Nat
    BY DEF IInv, TypeOK, CallsAreNumbered
  <2>2. \A p \in Operator : pc[p] \in Asking => {call[p], calls'} \in SUBSET (1 .. calls')
    BY <1>1, <2>1
  <2>3. together \subseteq SUBSET (1 .. calls) /\ calls \in Nat
    BY DEF IInv, TypeOK
  <2>4. 1 .. calls \subseteq 1 .. calls'
    BY <1>1, <2>3
  <2>5. together' = together \cup {{call[p], calls'} : p \in {q \in Operator : pc[q] \in Asking}}
    BY DEF Request
  <2>6. ASSUME NEW S \in together' PROVE S \in SUBSET (1 .. calls')
    <3>1. CASE S \in together
      BY <3>1, <2>3, <2>4
    <3>2. CASE S \in {{call[p], calls'} : p \in {q \in Operator : pc[q] \in Asking}}
      BY <3>2, <2>2
    <3> QED BY <2>5, <3>1, <3>2
  <2> QED BY <2>6
<1> USE DEF runVars, incident, stored
<1>4. call' \in [Operator -> 0 .. calls'] /\ calls' \in Nat
  BY <1>1 DEF IInv, TypeOK
<1>5. pc' \in [Operator -> {"idle", "freeze"} \cup Asking]
      /\ \A p \in Operator : pc'[p] \in Asking <=> todo'[p] # {}
  BY <1>1, <1>2 DEF IInv, TypeOK, Asking
<1>6. TypeOK'
  BY <1>1, <1>2, <1>3, <1>4, <1>5 DEF IInv, TypeOK, Keys
<1>7. CallsAreNumbered' /\ OpenedFirst' /\ KeyAtHand'
  BY <1>1 DEF IInv, TypeOK, CallsAreNumbered, OpenedFirst, KeyAtHand, Keys
<1>8. EndsInThePast' /\ ReadIsFinal' /\ Readable' /\ Chosen'
  BY <1>1, AskingKeepsBaseline DEF IInv, TypeOK
<1>9. Overdraft'
  BY <1>1, OverdraftKept DEF IInv, TypeOK, Between
<1>10. EntryFirst' /\ PaidFirst'
  BY <1>1 DEF IInv, TypeOK, EntryFirst, PaidFirst
<1> QED BY <1>6, <1>7, <1>8, <1>9, <1>10 DEF IInv

\* The entry that Count allows is one below the limit for this operator.
LEMMA CountInv ==
    ASSUME IInv, NEW o \in Operator, Count(o)
    PROVE  IInv'
<1> USE DEF Count, runVars, incident, stored
<1>1. Used \in Nat /\ IsFiniteSet(ledger)
  BY FS_CardinalityType DEF IInv, Overdraft, Used
<1>2. UsageKey(o) \in Keys
  <2>1. todo[o] \in SUBSET Scenario /\ todo[o] # {} /\ grants[o] \in Nat
    BY DEF IInv, TypeOK, Asking
  <2>2. Turn(o) \in Scenario
    BY <2>1, TurnIsLeft
  <2> QED BY <1>1, <2>1, <2>2 DEF UsageKey, Keys
<1>3. pc' = [pc EXCEPT ![o] = "consume"] /\ pc[o] = "count" /\ key' = [key EXCEPT ![o] = UsageKey(o)]
  OBVIOUS
<1>4. moved' \in BOOLEAN
  BY DEF IInv, TypeOK
<1>5. place' \in [Scenario -> Nat]
  BY DEF IInv, TypeOK
<1>6. key' \in [Operator -> Keys \cup {Null}]
  BY <1>2, <1>3 DEF IInv, TypeOK
<1>7. pc' \in [Operator -> {"idle", "freeze"} \cup Asking]
      /\ \A p \in Operator : pc'[p] \in Asking <=> todo'[p] # {}
  BY <1>3 DEF IInv, TypeOK, Asking
<1>8. TypeOK'
  BY <1>4, <1>5, <1>6, <1>7 DEF IInv, TypeOK, Keys
<1>9. CallsAreNumbered' /\ OpenedFirst' /\ KeyAtHand'
  BY <1>2, <1>3 DEF IInv, TypeOK, Asking, CallsAreNumbered, OpenedFirst, KeyAtHand, Keys
<1>10. EndsInThePast' /\ ReadIsFinal' /\ Readable' /\ Chosen'
  BY <1>3, AskingKeepsBaseline DEF IInv, TypeOK
<1>11. Overdraft'
  <2>1. Between' \in SUBSET Operator
    BY DEF Between
  <2>2. Cardinality(Between') \in Nat /\ Cardinality(Between') <= Cardinality(Operator)
        /\ Cardinality(Operator) \in Nat
    BY <2>1, OperatorsFinite
  <2>3. Used < Limit /\ Limit \in Nat /\ Used' = Used
    BY IncidentsAssumption DEF WithinLimit, Used
  <2> QED BY <1>1, <2>2, <2>3 DEF Overdraft
<1>12. EntryFirst' /\ PaidFirst'
  BY <1>3 DEF IInv, TypeOK, EntryFirst, PaidFirst
<1> QED BY <1>8, <1>9, <1>10, <1>11, <1>12 DEF IInv

\* A call that is over, or failed at any step.
LEMMA LeavesInv ==
    ASSUME IInv, NEW o \in Operator, Leaves(o),
           UNCHANGED <<runVars, scenario, incident, stored, history>>
    PROVE  IInv'
<1> USE DEF Leaves, runVars, incident, stored, history
<1>1. TypeOK'
  BY DEF IInv, TypeOK, Asking, Keys
<1>2. CallsAreNumbered' /\ OpenedFirst' /\ KeyAtHand'
  BY DEF IInv, TypeOK, Asking, CallsAreNumbered, OpenedFirst, KeyAtHand, Keys
<1>3. EndsInThePast' /\ ReadIsFinal' /\ Readable' /\ Chosen'
  BY DEF IInv, TypeOK, EndsInThePast, ReadIsFinal, Readable, Chosen, Healthy
<1>4. Overdraft'
  BY OverdraftKept DEF IInv, TypeOK, Between
<1>5. EntryFirst' /\ PaidFirst'
  BY DEF IInv, TypeOK, EntryFirst, PaidFirst
<1> QED BY <1>1, <1>2, <1>3, <1>4, <1>5 DEF IInv

\* One entry more, and one operator less that may add one.
LEMMA ConsumeInv ==
    ASSUME IInv, NEW o \in Operator, Consume(o)
    PROVE  IInv'
<1> USE DEF Consume, runVars, incident, callVars, history
<1>1. key[o] \in Keys
  BY DEF IInv, KeyAtHand
<1>2. TypeOK'
  BY <1>1 DEF IInv, TypeOK, Asking, Keys
<1>3. CallsAreNumbered' /\ OpenedFirst' /\ KeyAtHand'
  BY DEF IInv, TypeOK, Asking, CallsAreNumbered, OpenedFirst, KeyAtHand, Keys
<1>4. EndsInThePast' /\ ReadIsFinal' /\ Readable' /\ Chosen'
  BY AskingKeepsBaseline DEF IInv, TypeOK
<1>5. Overdraft'
  <2>1. Between \in SUBSET Operator /\ o \in Between /\ Between' = Between \ {o}
    BY DEF IInv, TypeOK, Between
  <2>2. IsFiniteSet(Between) /\ Cardinality(Between) \in Nat /\ Cardinality(Operator) \in Nat
    BY <2>1, OperatorsFinite
  <2>3. Cardinality(Between') = Cardinality(Between) - 1
    BY <2>1, <2>2, FS_RemoveElement
  <2>4. IsFiniteSet(ledger) /\ Used \in Nat
    BY FS_CardinalityType DEF IInv, Overdraft, Used
  <2>5. /\ IsFiniteSet(ledger \cup {key[o]})
        /\ Cardinality(ledger \cup {key[o]}) =
              IF key[o] \in ledger THEN Cardinality(ledger) ELSE Cardinality(ledger) + 1
    BY <2>4, FS_AddElement
  <2>6. IsFiniteSet(ledger') /\ Used' <= Used + 1 /\ Used' \in Nat
    BY <2>4, <2>5 DEF Used
  <2>7. Limit \in Nat /\ Used + Cardinality(Between) <= Limit + Cardinality(Operator) - 1
    BY IncidentsAssumption DEF IInv, Overdraft
  <2>8. Used' + Cardinality(Between') <= Limit + Cardinality(Operator) - 1
    BY <2>2, <2>3, <2>4, <2>6, <2>7
  <2> QED BY <2>6, <2>8 DEF Overdraft
<1>6. EntryFirst' /\ PaidFirst'
  BY DEF IInv, TypeOK, EntryFirst, PaidFirst
<1> QED BY <1>2, <1>3, <1>4, <1>5, <1>6 DEF IInv

LEMMA EnqueueInv ==
    ASSUME IInv, NEW o \in Operator, Enqueue(o)
    PROVE  IInv'
<1> USE DEF Enqueue, runVars, incident, callVars, history
<1>1. <<key[o], call[o]>> \in Keys \X Nat
  BY DEF IInv, TypeOK, KeyAtHand
<1>2. TypeOK'
  BY <1>1 DEF IInv, TypeOK, Asking, Keys
<1>3. CallsAreNumbered' /\ OpenedFirst' /\ KeyAtHand'
  BY DEF IInv, TypeOK, Asking, CallsAreNumbered, OpenedFirst, KeyAtHand, Keys
<1>4. EndsInThePast' /\ ReadIsFinal' /\ Readable' /\ Chosen'
  BY AskingKeepsBaseline DEF IInv, TypeOK
<1>5. Overdraft'
  BY OverdraftKept DEF IInv, TypeOK, Between
<1>6. EntryFirst' /\ PaidFirst'
  BY DEF IInv, TypeOK, EntryFirst, PaidFirst
<1> QED BY <1>2, <1>3, <1>4, <1>5, <1>6 DEF IInv

LEMMA CommitInv ==
    ASSUME IInv, NEW o \in Operator, Commit(o)
    PROVE  IInv'
<1> USE DEF Commit, runVars, incident, history
<1>1. <<key[o], call[o]>> \in jobs /\ key[o] \in ledger
  BY DEF IInv, EntryFirst
<1>2. pc'[o] \in {"idle", "count"} /\ \A p \in Operator : p # o => pc'[p] = pc[p]
  BY DEF IInv, TypeOK
<1>3. diagnostics' \subseteq jobs'
  BY <1>1 DEF IInv, TypeOK
<1>4. todo' \in [Operator -> SUBSET Scenario]
  BY DEF IInv, TypeOK
<1>5. pc' \in [Operator -> {"idle", "freeze"} \cup Asking]
      /\ \A p \in Operator : pc'[p] \in Asking <=> todo'[p] # {}
  BY <1>4 DEF IInv, TypeOK, Asking
<1>6. grants' \in [Operator -> Nat] /\ key' \in [Operator -> Keys \cup {Null}]
  BY DEF IInv, TypeOK
<1>7. TypeOK'
  BY <1>3, <1>4, <1>5, <1>6 DEF IInv, TypeOK, Keys
<1>8. CallsAreNumbered' /\ OpenedFirst' /\ KeyAtHand'
  BY <1>2 DEF IInv, TypeOK, Asking, CallsAreNumbered, OpenedFirst, KeyAtHand, Keys
<1>9. EndsInThePast' /\ ReadIsFinal' /\ Readable' /\ Chosen'
  BY <1>2, AskingKeepsBaseline DEF IInv, TypeOK
<1>10. Overdraft'
  BY <1>2, OverdraftKept DEF IInv, TypeOK, Between
<1>11. EntryFirst' /\ PaidFirst'
  BY <1>1, <1>2 DEF IInv, TypeOK, EntryFirst, PaidFirst
<1> QED BY <1>7, <1>8, <1>9, <1>10, <1>11 DEF IInv

------------------------------------------------------------------------------
(* The invariant and the theorems.                                           *)

LEMMA StutterInv ==
    ASSUME IInv, UNCHANGED vars
    PROVE  IInv'
<1> USE DEF vars, runVars, incident, stored, callVars, history
<1>1. TypeOK' /\ CallsAreNumbered' /\ OpenedFirst' /\ KeyAtHand'
  BY DEF IInv, TypeOK, Asking, Keys, CallsAreNumbered, OpenedFirst, KeyAtHand
<1>2. EndsInThePast' /\ ReadIsFinal' /\ Readable' /\ Chosen'
  BY DEF IInv, EndsInThePast, ReadIsFinal, Readable, Chosen, Healthy
<1>3. Overdraft' /\ EntryFirst' /\ PaidFirst'
  BY DEF IInv, Overdraft, Used, Between, EntryFirst, PaidFirst
<1> QED BY <1>1, <1>2, <1>3 DEF IInv

LEMMA NextInv == IInv /\ [Next]_vars => IInv'
<1> SUFFICES ASSUME IInv, [Next]_vars PROVE IInv'
  OBVIOUS
<1>1. CASE UNCHANGED vars
  BY <1>1, StutterInv
<1>2. CASE \E r \in Run : Ends(r) \/ \E s \in {"COMPLETE", "FAILED"} : Finalize(r, s)
  BY <1>2, EndsInv, FinalizeInv
<1>3. CASE \E s \in Scenario : AddScenario(s) \/ Retire(s)
  BY <1>3, ScenarioInv
<1>4. CASE \E t \in Reported : Open(t)
  BY <1>4, OpenInv
<1>5. CASE \E o \in Operator : Localize(o) \/ Freeze(o)
  BY <1>5, LocalizeInv, FreezeInv
<1>6. CASE \E o \in Operator : Diagnose(o)
  <2>1. PICK o \in Operator : Diagnose(o)
    BY <1>6
  <2>2. CASE \E n \in 1 .. MaxScenarios : Request(o, n)
    BY <2>2, RequestInv
  <2>3. CASE Count(o)
    BY <2>3, CountInv
  <2>4. CASE Exhausted(o)
    BY <2>4, LeavesInv DEF Exhausted
  <2>5. CASE Consume(o) \/ Enqueue(o) \/ Commit(o)
    BY <2>5, ConsumeInv, EnqueueInv, CommitInv
  <2> QED BY <2>1, <2>2, <2>3, <2>4, <2>5 DEF Diagnose
<1>7. CASE \E o \in Operator : Fails(o)
  BY <1>7, LeavesInv DEF Fails
<1> QED BY <1>1, <1>2, <1>3, <1>4, <1>5, <1>6, <1>7 DEF Next

\* The inductive invariant holds.
THEOREM IncidentsInvariant == Spec => []IInv
BY InitIInv, NextInv, PTL DEF Spec

\* Every variable keeps its type: a call under way has its scenarios, and no
\* diagnostic is inserted whose job was not queued.
THEOREM IncidentsTypeCorrect == Spec => []TypeOK
<1>1. IInv => TypeOK
  BY DEF IInv
<1> QED BY <1>1, IncidentsInvariant, PTL

\* request_initial_diagnostics tests the budget and consumes it in transactions of
\* their own: n operators may overdraw it by n - 1 entries and by no more.
THEOREM IncidentsLedgerBounded == Spec => []LedgerBounded
<1>1. IInv => LedgerBounded
  <2> SUFFICES ASSUME IInv PROVE LedgerBounded
    OBVIOUS
  <2>1. Between \in SUBSET Operator
    BY DEF Between
  <2>2. Cardinality(Between) \in Nat /\ Cardinality(Operator) \in Nat
    BY <2>1, OperatorsFinite
  <2>3. Used \in Nat /\ Used + Cardinality(Between) <= Limit + Cardinality(Operator) - 1
    BY FS_CardinalityType DEF IInv, Overdraft, Used
  <2>4. Limit \in Nat
    BY IncidentsAssumption
  <2> QED BY <2>2, <2>3, <2>4 DEF LedgerBounded
<1> QED BY <1>1, IncidentsInvariant, PTL

\* No diagnostic run is there without an entry of the ledger, wherever calls fail.
THEOREM IncidentsPaidFirst == Spec => []PaidFirst
<1>1. IInv => PaidFirst
  BY DEF IInv
<1> QED BY <1>1, IncidentsInvariant, PTL

\* freeze_lkg_selection: a reference to a run that ended later than another's
\* is frozen only for a run that the other's localisation could not read.
THEOREM IncidentsOneBaseline == Spec => []OneBaseline
<1>1. IInv => OneBaseline
  <2> SUFFICES ASSUME IInv, onset # Null PROVE OneBaseline
    BY DEF OneBaseline
  <2>1. \A x \in refs : x.run \in Run /\ ended[x.run] \in Nat /\ ended[x.run] <= onset
    <3>1. \A x \in refs : x.run \in Run /\ ended[x.run] <= onset /\ status[x.run] = "COMPLETE"
      BY DEF IInv, TypeOK, Chosen, Healthy, ReadIsFinal
    <3> QED BY <3>1 DEF IInv, EndsInThePast
  <2>2. ASSUME NEW x \in refs, NEW y \in refs, ended[x.run] < ended[y.run], y.run \in x.seen
        PROVE  FALSE
    <3>1. y.run \in Healthy(x.seen)
      BY <2>1, <2>2 DEF Healthy
    <3>2. ended[y.run] <= ended[x.run]
      BY <3>1 DEF IInv, Chosen
    <3> QED BY <2>1, <2>2, <3>2
  <2> QED BY <2>1, <2>2 DEF OneBaseline
<1> QED BY <1>1, IncidentsInvariant, PTL

------------------------------------------------------------------------------
(* Which diagnostics share an entry.                                         *)

\* As long as no scenario moved forward, the sequence in a usage key is at most
\* the number of entries and the place of its scenario among the grants; a key
\* about to be consumed may be one ahead.
KeysBehind == ~moved =>
    /\ \A k \in ledger : k[2] <= Used + place[k[1]]
    /\ \A o \in Operator : pc[o] = "consume" => key[o][2] <= Used + place[key[o][1]] + 1

\* Calls that are under way at the same time are recorded to have overlapped.
UnderWay == \A o, p \in Operator :
    o # p /\ pc[o] \in Asking /\ pc[p] \in Asking =>
        call[o] # call[p] /\ {call[o], call[p]} \in together

\* A diagnostic that has the key at hand is of a call that overlapped this one.
KeyShared == ~moved =>
    \A o \in Operator : pc[o] \in {"consume", "enqueue", "commit"} =>
        \A d \in diagnostics :
            d[1] = key[o] /\ d[2] # call[o] => {d[2], call[o]} \in together

SharedInv == KeysBehind /\ UnderWay /\ KeyShared /\ RunsPaid

\* The entries and the places only grow while no scenario moves forward.
LEMMA KeysBehindKept ==
    ASSUME IInv, IInv', SharedInv, ledger' = ledger, UNCHANGED <<place, moved>>,
           \A o \in Operator : pc'[o] = "consume" => pc[o] = "consume" /\ key'[o] = key[o]
    PROVE  KeysBehind'
<1> SUFFICES ASSUME ~moved PROVE KeysBehind'
  BY DEF KeysBehind
<1>1. Used' = Used
  BY DEF Used
<1> QED BY <1>1 DEF SharedInv, KeysBehind

LEMMA KeySharedKept ==
    ASSUME IInv, SharedInv, UNCHANGED <<diagnostics, moved>>, together \subseteq together',
           \A o \in Operator : pc'[o] \in {"consume", "enqueue", "commit"} =>
               /\ pc[o] \in {"consume", "enqueue", "commit"}
               /\ key'[o] = key[o] /\ call'[o] = call[o]
    PROVE  KeyShared'
<1> SUFFICES ASSUME ~moved PROVE KeyShared'
  BY DEF KeyShared
<1>1. ASSUME NEW o \in Operator, pc'[o] \in {"consume", "enqueue", "commit"},
             NEW d \in diagnostics, d[1] = key'[o], d[2] # call'[o]
      PROVE  {d[2], call'[o]} \in together'
  <2>1. /\ pc[o] \in {"consume", "enqueue", "commit"}
        /\ key'[o] = key[o] /\ call'[o] = call[o]
    BY <1>1
  <2>2. {d[2], call[o]} \in together
    BY <1>1, <2>1 DEF SharedInv, KeyShared
  <2> QED BY <2>1, <2>2
<1> QED BY <1>1 DEF KeyShared

LEMMA RunsPaidKept ==
    ASSUME IInv, SharedInv, UNCHANGED <<diagnostics, moved>>,
           ledger \subseteq ledger', together \subseteq together'
    PROVE  RunsPaid'
BY DEF SharedInv, RunsPaid

\* Steps in which no call begins, counts, consumes or commits.
LEMMA OtherShared ==
    ASSUME IInv, IInv', SharedInv, UNCHANGED <<ledger, diagnostics, history>>,
           \A o \in Operator :
               /\ pc'[o] \in Asking => pc[o] \in Asking /\ call'[o] = call[o]
               /\ pc'[o] = "consume" => pc[o] = "consume"
               /\ pc'[o] \in {"consume", "enqueue", "commit"} =>
                     pc[o] \in {"consume", "enqueue", "commit"} /\ key'[o] = key[o]
    PROVE  SharedInv'
<1> USE DEF history
<1>1. KeysBehind'
  BY KeysBehindKept
<1>2. UnderWay'
  BY DEF SharedInv, UnderWay
<1>3. KeyShared'
  BY KeySharedKept DEF Asking
<1>4. RunsPaid'
  BY RunsPaidKept
<1> QED BY <1>1, <1>2, <1>3, <1>4 DEF SharedInv

\* The call that begins overlaps every one that is under way, and is numbered anew.
LEMMA RequestShared ==
    ASSUME IInv, IInv', SharedInv, NEW o \in Operator, NEW n \in 1 .. MaxScenarios, Request(o, n)
    PROVE  SharedInv'
<1>1. /\ UNCHANGED <<stored, key, place, moved>>
      /\ pc[o] = "idle" /\ pc' = [pc EXCEPT ![o] = "count"]
      /\ calls' = calls + 1 /\ call' = [call EXCEPT ![o] = calls']
      /\ together' = together \cup {{call[p], calls'} : p \in {q \in Operator : pc[q] \in Asking}}
  BY DEF Request
<1> USE DEF stored
<1>2. /\ pc'[o] = "count" /\ call'[o] = calls'
      /\ \A p \in Operator : p # o => pc'[p] = pc[p] /\ call'[p] = call[p]
  BY <1>1 DEF IInv, TypeOK
<1>3. KeysBehind'
  BY <1>1, <1>2, KeysBehindKept
<1>4. UnderWay'
  <2>1. ASSUME NEW p \in Operator, p # o, pc[p] \in Asking
        PROVE  call[p] # calls' /\ {call[p], calls'} \in together'
    <3>1. call[p] \in 0 .. calls /\ calls \in Nat
      BY DEF IInv, TypeOK
    <3>2. call[p] # calls'
      BY <1>1, <3>1
    <3>3. {call[p], calls'} \in together'
      BY <1>1, <2>1
    <3> QED BY <3>2, <3>3
  <2>2. ASSUME NEW p \in Operator, NEW q \in Operator, p # q, pc'[p] \in Asking, pc'[q] \in Asking
        PROVE  call'[p] # call'[q] /\ {call'[p], call'[q]} \in together'
    <3>1. CASE p # o /\ q # o
      <4>1. call[p] # call[q] /\ {call[p], call[q]} \in together
        BY <1>2, <2>2, <3>1 DEF SharedInv, UnderWay
      <4> QED BY <1>1, <1>2, <3>1, <4>1
    <3>2. CASE p = o
      <4>1. call[q] # calls' /\ {call[q], calls'} \in together'
        BY <1>2, <2>1, <2>2, <3>2
      <4>2. {calls', call[q]} = {call[q], calls'}
        OBVIOUS
      <4> QED BY <1>2, <2>2, <3>2, <4>1, <4>2
    <3>3. CASE q = o
      <4>1. call[p] # calls' /\ {call[p], calls'} \in together'
        BY <1>2, <2>1, <2>2, <3>3
      <4> QED BY <1>2, <2>2, <3>3, <4>1
    <3> QED BY <3>1, <3>2, <3>3
  <2> QED BY <2>2 DEF UnderWay
<1>5. KeyShared'
  BY <1>1, <1>2, KeySharedKept
<1>6. RunsPaid'
  BY <1>1, RunsPaidKept
<1> QED BY <1>3, <1>4, <1>5, <1>6 DEF SharedInv

\* The key that Count makes is beyond every one in the ledger, so that no
\* diagnostic has it.
LEMMA CountShared ==
    ASSUME IInv, IInv', SharedInv, NEW o \in Operator, Count(o)
    PROVE  SharedInv'
<1> DEFINE s == Turn(o)
           k == UsageKey(o)
<1>1. /\ UNCHANGED <<stored, call, calls, together>>
      /\ pc[o] = "count" /\ pc' = [pc EXCEPT ![o] = "consume"]
      /\ key' = [key EXCEPT ![o] = k]
      /\ place' = [place EXCEPT ![s] = grants[o]]
      /\ moved' = (moved \/ grants[o] < place[s])
  BY DEF Count
<1> USE DEF stored
<1>2. s \in Scenario /\ grants[o] \in Nat /\ k = <<s, Used + grants[o] + 1>>
  <2>1. todo[o] \in SUBSET Scenario /\ todo[o] # {} /\ grants[o] \in Nat
    BY <1>1 DEF IInv, TypeOK, Asking
  <2>2. s \in todo[o]
    BY <2>1, TurnIsLeft
  <2> QED BY <2>1, <2>2 DEF UsageKey
<1> HIDE DEF s, k
<1>3. /\ pc'[o] = "consume" /\ key'[o] = k
      /\ \A p \in Operator : p # o => pc'[p] = pc[p] /\ key'[p] = key[p]
      /\ place'[s] = grants[o] /\ \A t \in Scenario : t # s => place'[t] = place[t]
  BY <1>1, <1>2 DEF IInv, TypeOK
<1>4. Used' = Used /\ Used \in Nat
  BY <1>1, FS_CardinalityType DEF IInv, Overdraft, Used
<1>5. place \in [Scenario -> Nat] /\ place' \in [Scenario -> Nat] /\ ledger \subseteq Scenario \X Nat
  BY DEF IInv, TypeOK, Keys
<1>6. ~moved' => ~moved /\ \A t \in Scenario : place[t] <= place'[t]
  <2>1. ~moved' => ~moved /\ ~ (grants[o] < place[s])
    BY <1>1, Zenon
  <2>2. ~ (grants[o] < place[s]) => \A t \in Scenario : place[t] <= place'[t]
    BY <1>2, <1>3, <1>5
  <2> QED BY <2>1, <2>2
<1>7. KeysBehind'
  <2> SUFFICES ASSUME ~moved'
               PROVE  /\ \A e \in ledger : e[2] <= Used + place'[e[1]]
                      /\ \A p \in Operator : pc'[p] = "consume" =>
                            key'[p][2] <= Used + place'[key'[p][1]] + 1
    BY <1>1, <1>4 DEF KeysBehind
  <2>1. ASSUME NEW e \in ledger PROVE e[2] <= Used + place'[e[1]]
    <3>1. e[1] \in Scenario /\ e[2] \in Nat
      BY <1>5
    <3>2. e[2] <= Used + place[e[1]]
      BY <1>6 DEF SharedInv, KeysBehind
    <3>3. place[e[1]] \in Nat /\ place'[e[1]] \in Nat /\ place[e[1]] <= place'[e[1]]
      BY <1>5, <1>6, <3>1
    <3> QED BY <1>4, <3>1, <3>2, <3>3
  <2>2. ASSUME NEW p \in Operator, pc'[p] = "consume"
        PROVE  key'[p][2] <= Used + place'[key'[p][1]] + 1
    <3>1. CASE p = o
      <4>1. key'[p][2] = Used + grants[o] + 1 /\ key'[p][1] = s
        BY <1>2, <1>3, <3>1
      <4> QED BY <1>2, <1>3, <1>4, <4>1
    <3>2. CASE p # o
      <4>1. pc[p] = "consume" /\ key'[p] = key[p]
        BY <1>3, <2>2, <3>2
      <4>2. key[p][1] \in Scenario /\ key[p][2] \in Nat
        BY <4>1 DEF IInv, KeyAtHand, Keys
      <4>3. key[p][2] <= Used + place[key[p][1]] + 1
        BY <1>6, <4>1 DEF SharedInv, KeysBehind
      <4>4. place[key[p][1]] \in Nat /\ place'[key[p][1]] \in Nat
            /\ place[key[p][1]] <= place'[key[p][1]]
        BY <1>5, <1>6, <4>2
      <4> QED BY <1>4, <4>1, <4>2, <4>3, <4>4
    <3> QED BY <3>1, <3>2
  <2> QED BY <2>1, <2>2
<1>8. UnderWay'
  <2>1. \A p \in Operator : pc'[p] \in Asking => pc[p] \in Asking
    BY <1>1, <1>3 DEF Asking
  <2> QED BY <1>1, <2>1 DEF SharedInv, UnderWay
<1>9. ~moved' => k \notin ledger
  <2> SUFFICES ASSUME ~moved', k \in ledger PROVE FALSE
    OBVIOUS
  <2>1. k[1] = s /\ k[2] = Used + grants[o] + 1
    BY <1>2
  <2>2. k[2] <= Used + place[s]
    BY <1>6, <2>1 DEF SharedInv, KeysBehind
  <2>3. place[s] \in Nat /\ place[s] <= grants[o]
    BY <1>2, <1>3, <1>5, <1>6
  <2> QED BY <1>2, <1>4, <2>1, <2>2, <2>3
<1>10. KeyShared'
  <2> SUFFICES ASSUME ~moved',
                      NEW p \in Operator, pc'[p] \in {"consume", "enqueue", "commit"},
                      NEW d \in diagnostics, d[1] = key'[p], d[2] # call[p]
               PROVE  {d[2], call[p]} \in together
    BY <1>1 DEF KeyShared
  <2>1. p # o
    BY <1>3, <1>9 DEF IInv, PaidFirst
  <2>2. pc'[p] = pc[p] /\ key'[p] = key[p]
    BY <1>3, <2>1
  <2> QED BY <1>6, <2>2 DEF SharedInv, KeyShared
<1>11. RunsPaid'
  BY <1>1, <1>6 DEF SharedInv, RunsPaid
<1> QED BY <1>7, <1>8, <1>10, <1>11 DEF SharedInv

\* A key that is consumed was one ahead of the entries, and now there is one more.
LEMMA ConsumeShared ==
    ASSUME IInv, IInv', SharedInv, NEW o \in Operator, Consume(o)
    PROVE  SharedInv'
<1>1. /\ UNCHANGED <<diagnostics, callVars, history>>
      /\ pc[o] = "consume" /\ pc' = [pc EXCEPT ![o] = "enqueue"]
      /\ ledger' = ledger \cup {key[o]}
  BY DEF Consume
<1> USE DEF callVars, history
<1>2. pc'[o] = "enqueue" /\ \A p \in Operator : p # o => pc'[p] = pc[p]
  BY <1>1 DEF IInv, TypeOK
<1>3. IsFiniteSet(ledger) /\ Used \in Nat
  BY FS_CardinalityType DEF IInv, Overdraft, Used
<1>4. Used' = IF key[o] \in ledger THEN Used ELSE Used + 1
  BY <1>1, <1>3, FS_AddElement DEF Used
<1>5. place \in [Scenario -> Nat] /\ ledger \subseteq Scenario \X Nat
  BY DEF IInv, TypeOK, Keys
<1>6. \A p \in Operator : pc[p] = "consume" => key[p][1] \in Scenario /\ key[p][2] \in Nat
  BY DEF IInv, KeyAtHand, Keys
<1>7. KeysBehind'
  <2> SUFFICES ASSUME ~moved
               PROVE  /\ \A e \in ledger' : e[2] <= Used' + place[e[1]]
                      /\ \A p \in Operator : pc'[p] = "consume" =>
                            key[p][2] <= Used' + place[key[p][1]] + 1
    BY <1>1 DEF KeysBehind
  <2>1. ASSUME NEW e \in ledger PROVE e[2] <= Used' + place[e[1]]
    <3>1. e[2] \in Nat /\ place[e[1]] \in Nat /\ e[2] <= Used + place[e[1]]
      BY <1>5 DEF SharedInv, KeysBehind
    <3> QED BY <1>3, <1>4, <3>1
  <2>2. key[o] \notin ledger => key[o][2] <= Used' + place[key[o][1]]
    <3>1. key[o][2] <= Used + place[key[o][1]] + 1
      BY <1>1 DEF SharedInv, KeysBehind
    <3>2. key[o][2] \in Nat /\ place[key[o][1]] \in Nat
      BY <1>1, <1>5, <1>6
    <3> QED BY <1>3, <1>4, <3>1, <3>2
  <2>3. \A e \in ledger' : e[2] <= Used' + place[e[1]]
    BY <1>1, <2>1, <2>2
  <2>4. ASSUME NEW p \in Operator, pc'[p] = "consume"
        PROVE  key[p][2] <= Used' + place[key[p][1]] + 1
    <3>1. pc[p] = "consume"
      BY <1>2, <2>4
    <3>2. key[p][2] \in Nat /\ place[key[p][1]] \in Nat
      BY <1>5, <1>6, <3>1
    <3>3. key[p][2] <= Used + place[key[p][1]] + 1
      BY <3>1 DEF SharedInv, KeysBehind
    <3> QED BY <1>3, <1>4, <3>2, <3>3
  <2> QED BY <2>3, <2>4
<1>8. UnderWay'
  <2>1. \A p \in Operator : pc'[p] \in Asking => pc[p] \in Asking
    BY <1>1, <1>2 DEF Asking
  <2> QED BY <1>1, <2>1 DEF SharedInv, UnderWay
<1>9. KeyShared'
  BY <1>1, <1>2, KeySharedKept
<1>10. RunsPaid'
  BY <1>1, RunsPaidKept
<1> QED BY <1>7, <1>8, <1>9, <1>10 DEF SharedInv

\* Whoever has the key of the new diagnostic at hand is under way as it is.
LEMMA CommitShared ==
    ASSUME IInv, IInv', SharedInv, NEW o \in Operator, Commit(o)
    PROVE  SharedInv'
<1> DEFINE new == <<key[o], call[o]>>
<1>1. /\ UNCHANGED <<ledger, call, history>>
      /\ pc[o] = "commit" /\ diagnostics' = diagnostics \cup {new}
      /\ key' = [key EXCEPT ![o] = Null]
  BY DEF Commit
<1>2. pc'[o] \in {"idle", "count"} /\ \A p \in Operator : p # o => pc'[p] = pc[p]
  BY DEF Commit, IInv, TypeOK
<1> USE DEF history
<1>3. \A p \in Operator : p # o => key'[p] = key[p]
  BY <1>1 DEF IInv, TypeOK
<1>4. new[1] = key[o] /\ new[2] = call[o]
  OBVIOUS
<1> HIDE DEF new
<1>5. KeysBehind'
  BY <1>1, <1>2, <1>3, KeysBehindKept
<1>6. UnderWay'
  <2>1. \A p \in Operator : pc'[p] \in Asking => pc[p] \in Asking
    BY <1>1, <1>2 DEF Asking
  <2> QED BY <1>1, <2>1 DEF SharedInv, UnderWay
<1>7. KeyShared'
  <2> SUFFICES ASSUME ~moved,
                      NEW p \in Operator, pc'[p] \in {"consume", "enqueue", "commit"},
                      NEW d \in diagnostics', d[1] = key'[p], d[2] # call[p]
               PROVE  {d[2], call[p]} \in together
    BY <1>1 DEF KeyShared
  <2>1. p # o /\ pc'[p] = pc[p] /\ key'[p] = key[p]
    BY <1>2, <1>3
  <2>2. CASE d \in diagnostics
    BY <2>1, <2>2 DEF SharedInv, KeyShared
  <2>3. CASE d = new
    <3>1. pc[p] \in Asking /\ pc[o] \in Asking
      BY <1>1, <2>1 DEF Asking
    <3>2. {call[o], call[p]} \in together
      BY <2>1, <3>1 DEF SharedInv, UnderWay
    <3> QED BY <1>4, <2>3, <3>2
  <2> QED BY <1>1, <2>2, <2>3
<1>8. RunsPaid'
  <2>1. \A d \in diagnostics' : d[1] \in ledger'
    BY DEF IInv, PaidFirst
  <2>2. ASSUME ~moved, NEW d \in diagnostics, d # new, d[1] = new[1]
        PROVE  {d[2], new[2]} \in together
    <3>1. d \in Keys \X Nat /\ new = <<key[o], call[o]>>
      BY DEF IInv, TypeOK, new
    <3>2. d[2] # call[o]
      BY <1>4, <2>2, <3>1
    <3> QED BY <1>1, <1>4, <2>2, <3>2 DEF SharedInv, KeyShared
  <2>3. ASSUME ~moved, NEW d \in diagnostics', NEW e \in diagnostics', d # e, d[1] = e[1]
        PROVE  {d[2], e[2]} \in together
    <3>1. CASE d \in diagnostics /\ e \in diagnostics
      BY <2>3, <3>1 DEF SharedInv, RunsPaid
    <3>2. CASE e = new /\ d \in diagnostics
      BY <2>2, <2>3, <3>2
    <3>3. CASE d = new /\ e \in diagnostics
      <4>1. {e[2], d[2]} \in together
        BY <2>2, <2>3, <3>3
      <4>2. {e[2], d[2]} = {d[2], e[2]}
        OBVIOUS
      <4> QED BY <4>1, <4>2
    <3> QED BY <1>1, <2>3, <3>1, <3>2, <3>3
  <2> QED BY <1>1, <2>1, <2>3 DEF RunsPaid
<1> QED BY <1>5, <1>6, <1>7, <1>8 DEF SharedInv

LEMMA InitShared == Init => SharedInv
<1> SUFFICES ASSUME Init PROVE SharedInv
  OBVIOUS
<1> QED BY DEF Init, SharedInv, KeysBehind, UnderWay, KeyShared, RunsPaid, Asking

LEMMA NextShared == IInv /\ IInv' /\ SharedInv /\ [Next]_vars => SharedInv'
<1> SUFFICES ASSUME IInv, IInv', SharedInv, [Next]_vars PROVE SharedInv'
  OBVIOUS
<1>1. CASE UNCHANGED vars
  BY <1>1, OtherShared DEF vars, stored, callVars
<1>2. CASE \E r \in Run : Ends(r) \/ \E s \in {"COMPLETE", "FAILED"} : Finalize(r, s)
  BY <1>2, OtherShared DEF Ends, Finalize, stored, callVars
<1>3. CASE \E s \in Scenario : AddScenario(s) \/ Retire(s)
  BY <1>3, OtherShared DEF AddScenario, Retire, stored, callVars
<1>4. CASE \E t \in Reported : Open(t)
  BY <1>4, OtherShared DEF Open, stored, callVars
<1>5. ASSUME NEW o \in Operator, Localize(o) \/ Freeze(o) \/ Enqueue(o) \/ Exhausted(o) \/ Fails(o)
      PROVE  SharedInv'
  <2>1. CASE Localize(o)
    BY <2>1, OtherShared DEF Localize, stored, callVars, IInv, TypeOK, Asking
  <2>2. CASE Freeze(o)
    BY <2>2, OtherShared DEF Freeze, callVars, IInv, TypeOK, Asking
  <2>3. CASE Enqueue(o)
    BY <2>3, OtherShared DEF Enqueue, callVars, IInv, TypeOK, Asking
  <2>4. CASE Exhausted(o) \/ Fails(o)
    BY <2>4, OtherShared DEF Exhausted, Fails, Leaves, stored, IInv, TypeOK, Asking
  <2> QED BY <1>5, <2>1, <2>2, <2>3, <2>4
<1>6. ASSUME NEW o \in Operator, Diagnose(o) PROVE SharedInv'
  <2>1. CASE \E n \in 1 .. MaxScenarios : Request(o, n)
    BY <2>1, RequestShared
  <2>2. CASE Count(o)
    BY <2>2, CountShared
  <2>3. CASE Consume(o)
    BY <2>3, ConsumeShared
  <2>4. CASE Commit(o)
    BY <2>4, CommitShared
  <2> QED BY <1>5, <1>6, <2>1, <2>2, <2>3, <2>4 DEF Diagnose
<1> QED BY <1>1, <1>2, <1>3, <1>4, <1>5, <1>6 DEF Next

\* consume_budget keeps one entry for a usage key: every diagnostic run has an
\* entry, and two of them share one only if the calls that asked for them were
\* under way at the same time, as long as no scenario moved forward among the
\* active ones.
THEOREM IncidentsRunsPaid == Spec => []RunsPaid
<1>1. SharedInv => RunsPaid
  BY DEF SharedInv
<1>2. Spec => []SharedInv
  BY InitShared, NextShared, IncidentsInvariant, PTL DEF Spec
<1> QED BY <1>1, <1>2, PTL

==============================================================================

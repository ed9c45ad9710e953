------------------------------ MODULE MCIncidents ------------------------------
(* The instance of Incidents that TLC checks.                                *)
EXTENDS Incidents, TLC

CONSTANTS o1, o2, r1, r2, r3

\* Operators are alike, and so are runs.
Alike == Permutations(Operator) \cup Permutations(Run)

\* Diagnostics do not read the runs, nor localize the ledger: one of the two is
\* looked at, as the first step decides.  One scenario comes and one goes, or
\* there is none.
Bounded ==
    /\ clock = 0 \/ calls = 0
    /\ clock > 0 => scenario = [s \in Scenario |-> "ACTIVE"]
    /\ \/ \A s, t \in Scenario : scenario[s] = scenario[t] /\ s # t => scenario[s] = "ACTIVE"
       \/ \A s \in Scenario : scenario[s] = "ABSENT"
===============================================================================

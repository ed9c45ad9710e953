------------------------------- MODULE MCMetrics -------------------------------
(* The instances of Metrics that TLC checks.                                 *)
EXTENDS Metrics, TLC

CONSTANTS w1, w2, unassigned, organic

\* Days of four hours; the clock goes forward in the first and back in the second,
\* so that hour 2 is never shown and hour 6 twice.
MCWall == [u \in 0 .. 13 |-> IF u < 2 THEN u ELSE IF u < 6 THEN u + 1 ELSE u]
MCProfile == [TODAY |-> [days |-> 1, ago |-> 0], LAST_7_DAYS |-> [days |-> 3, ago |-> 1]]

GA4Jobs(slots, days) == {[kind |-> "GA4", freshness |-> "PRELIMINARY", at |-> s] : s \in slots}
    \cup {[kind |-> "GA4", freshness |-> "MATURE", at |-> d] : d \in days}
GAMJobs(slots, days) == {[kind |-> "GAM", profile |-> "TODAY", at |-> s] : s \in slots}
    \cup {[kind |-> "GAM", profile |-> "LAST_7_DAYS", at |-> d] : d \in days}
Derivations(slots) == {[kind |-> "DERIVE", at |-> s] : s \in slots}

MCJob == GA4Jobs({7, 8}, {2}) \cup GAMJobs({7}, {3}) \cup Derivations({13})
MCMaxAttempts == [j \in MCJob |-> IF j.kind = "DERIVE" THEN 2 ELSE 1]

\* Between these the scheduler has nothing to plan.
Times == now \in {0, 7, 8, 13}

\* Extracts that fail are in Connectors; what a provider answers concerns no
\* derivation before it is written; views are attributed anew when there is an
\* extract to differ from, and at the latest when there is none left.
Bounded ==
    /\ \A j \in Job : j.kind # "DERIVE" => phase[j] # "dead"
    /\ \A w \in Worker : pc[w] = "failed" => job[w].kind = "DERIVE" /\ loaded[w] # {}
    /\ channel[7] = unassigned /\ (points = {} => channel[6] = unassigned)
    /\ \A w, x \in Worker : w # x /\ pc[w] = "ask" => pc[x] = "idle"
    /\ (\A j \in Job : j.kind = "GA4" => phase[j] = "done") => channel[6] = organic

Alike == Permutations(Worker)
=============================================================================

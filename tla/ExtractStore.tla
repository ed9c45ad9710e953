---------------------------- MODULE ExtractStore ----------------------------
(***************************************************************************)
(* What the connectors promise of source_extracts and metric_points to the  *)
(* code that reads them, with no attempt, no failure and no connection:     *)
(* CONNECTORS.md sections 97 and 98.  A logical extract is complete at once *)
(* or not at all, its points are those of one answer of the provider, and   *)
(* nothing changes it afterwards.  Connectors.tla implements it.            *)
(***************************************************************************)
CONSTANTS
    Extract,        \* logical extracts: one for each scheduled_run_key
    Answer,         \* answers of the provider that may be stored
    Nothing         \* an extract no reader sees

VARIABLE stored     \* what readers of COMPLETE extracts find

Init == stored = [x \in Extract |-> Nothing]

\* Any answer, and no other extract with it.
Store(x) ==
    /\ stored[x] = Nothing
    /\ \E a \in Answer : stored' = [stored EXCEPT ![x] = a]

Next == \E x \in Extract : Store(x)

Spec == Init /\ [][Next]_stored
=============================================================================

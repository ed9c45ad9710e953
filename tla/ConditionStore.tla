--------------------------- MODULE ConditionStore ---------------------------
(***************************************************************************)
(* What the table of condition events promises to those who read it,        *)
(* whoever writes to it and however often: EP-016, rules 6 to 8, and        *)
(* EVENTS.md, section 29.  A condition has at most one active event; an     *)
(* active event gathers evidence and loses none; it is resolved once, by    *)
(* evidence it did not have, and stays as it is from then on; a condition   *)
(* that comes back has another event.  Two parts of the program write to    *)
(* the table, each with code of its own: EventConditions.tla and            *)
(* PublicConfig.tla both implement this specification.                      *)
(***************************************************************************)
CONSTANTS
    Id,             \* event ids, made of what triggers an event
    KeyOf,          \* the condition each is about: events.condition_key
    Observation     \* what evidence references name

VARIABLE record     \* the events there are: of each its status and references

Row == [status : {"ACTIVE", "RESOLVED"}, refs : SUBSET Observation]

TypeOK == DOMAIN record \subseteq Id /\ \A e \in DOMAIN record : record[e] \in Row

Active == {e \in DOMAIN record : record[e].status = "ACTIVE"}
OneActive == \A d, e \in Active : KeyOf[d] = KeyOf[e] => d = e

Init == DOMAIN record = {}

Opened(e) == record'[e].status = "ACTIVE" /\ record'[e].refs # {}

Supported(e) ==
    /\ record[e].status = "ACTIVE" /\ record'[e].status = "ACTIVE"
    /\ record[e].refs \subseteq record'[e].refs

Resolved(e) ==
    /\ record[e].status = "ACTIVE" /\ record'[e].status = "RESOLVED"
    /\ record[e].refs \subseteq record'[e].refs /\ record[e].refs # record'[e].refs

\* A transaction may do so to several events, each of a condition of its own.
Next ==
    /\ DOMAIN record \subseteq DOMAIN record'
    /\ \A e \in DOMAIN record : record'[e] = record[e] \/ Supported(e) \/ Resolved(e)
    /\ \A e \in DOMAIN record' \ DOMAIN record : Opened(e)
    /\ TypeOK' /\ OneActive'

Spec == Init /\ [][Next]_record
=============================================================================

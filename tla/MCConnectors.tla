---------------------------- MODULE MCConnectors ----------------------------
(* The instances of Connectors that TLC checks.                              *)
EXTENDS Connectors, TLC

CONSTANTS ga4, gsc, gam, a1, s1, m1, d1, d2, d3, d4, d5, i1, i2, w1, w2, q1, q2

MCProviderOf == [c \in Connection |-> CASE c = ga4 -> "GA4" [] c = gsc -> "GSC" [] c = gam -> "GAM"]
MCConnectionOf == [x \in ExtractJob |->
    CASE x \in {a1, d4} -> ga4 [] x \in {s1, d5} -> gsc [] OTHER -> gam]
MCInvestigationOf == [d \in Drilldown |-> IF d = d3 THEN i2 ELSE i1]
MCMaxAttempts == [x \in Job |-> IF x = a1 THEN 2 ELSE 1]

\* Two days of four hours; clocks do not change.
MCWall == [u \in 0 .. 8 |-> u]
MCProfile == [TODAY |-> [days |-> 1, ago |-> 0], LAST_7_DAYS |-> [days |-> 2, ago |-> 1]]

MCSecret == {[vault |-> 200, bundle |-> "sound",
              refresh |-> [http |-> 200, token |-> "token", error |-> Missing]]}
MCColumns == {[http |-> 200, columns |-> {"sessions", "pagePath"}]}

Row == [wall |-> 4, series |-> "all", value |-> 1]
MCGA4Exchange ==
    {[http |-> 200, headers |-> "asked", zone |-> "zone", rows |-> <<Row>>],
     [http |-> 429, headers |-> Missing, zone |-> Missing, rows |-> <<>>]}

\* A second page that says more data is incomplete than the first.
Page(rows, incomplete) == [http |-> 200, aggregation |-> "auto", incomplete |-> incomplete,
    unit |-> "day", rows |-> [i \in 1 .. rows |-> [day |-> 0, clicks |-> 1, impressions |-> 2]]]
MCGSCExchange ==
    {[state |-> "all", pages |-> <<Page(2, 1), Page(1, Missing)>>],
     [state |-> "all", pages |-> <<Page(2, 1), Page(1, 0)>>],
     [state |-> "all", pages |-> <<Page(2, 1)>>]}

\* Two pages; an operation that never ends; a page that is missing at the end.
Poll(state) == [http |-> 200, state |-> state]
GAMPage(next, total) == [http |-> 200, rows |-> <<Row>>, next |-> next, total |-> total]
GAMRun(polls, pages) ==
    [profile |-> "TODAY", polls |-> polls, pages |-> pages, dates |-> 1 .. 1, today |-> 1]
MCGAMExchange ==
    {GAMRun(<<Poll("running"), Poll("done")>>, <<GAMPage("next", 2), GAMPage(Missing, Missing)>>),
     GAMRun(<<Poll("running"), Poll("running"), Poll("running")>>, <<>>),
     GAMRun(<<Poll("done")>>, <<GAMPage(Missing, 2)>>),
     GAMRun(<<Poll("running"), [http |-> 429, state |-> Missing]>>, <<>>)}

\* Connections share nothing but workers: one is looked at in each behaviour.
Touched == {c \in Connection : conn[c] # Nowhere \/ grant[c] # "good" \/ report[c] # "fits"}

\* Requests race with each other and with a validation; what is planned is
\* handled once nothing is being planned.
Planning == \E q \in Requester : plan[q] # Idle
Quiet == \A w \in Worker : pc[w] = "idle"

\* A request for a drill-down that is planned already changes nothing; budgets are
\* looked at where three compete for them, and one way of losing the grant for
\* each provider.
Bounded ==
    /\ Cardinality(Touched) <= 1
    /\ Planning => Quiet /\ \A x \in Routine : phase[x] = "absent"
    /\ \A q \in Requester : plan[q] # Idle => planned[plan[q].drilldown] = 0
    /\ \A q \in Requester : plan[q] # Idle => ConnectionOf[plan[q].drilldown] \in Touched
    /\ Quiet \/ planned[d2] + planned[d3] = 0
    /\ day = 2 => Quiet /\ \A x \in Routine : phase[x] = "absent"
    /\ \A c \in Connection : probing[c] # "idle" =>
          Cardinality({d \in Drilldown : planned[d] # 0}) <= 1
    /\ (\E c \in Connection : probing[c] # "idle") => \E w \in Worker : pc[w] = "idle"
    /\ \A c \in Connection : probing[c] = "ask" => conn[c].status # "CONNECTED"
    /\ \A c \in Connection : conn[c].capable = {"ROUTINE"} => c = gam
    /\ \A c \in Connection : grant[c] # (IF c = ga4 THEN "denied" ELSE "expired")

Alike == Permutations(Worker)
=============================================================================

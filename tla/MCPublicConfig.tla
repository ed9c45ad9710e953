--------------------------- MODULE MCPublicConfig ---------------------------
(* The instances of PublicConfig that TLC checks.                            *)
EXTENDS PublicConfig, TLC

CONSTANTS r1, r2, r3, f1, f2, f3, w1, w2, again

MCTypeOf == [f \in Fetch |-> IF f \in {r1, r2, r3} THEN "ROBOTS_TXT" ELSE "ADS_TXT"]
MCSlotOf == [f \in Fetch |-> CASE f \in {r1, f1} -> 1 [] f \in {r2, f2} -> 2 [] OTHER -> 3]
MCMaxAttempts == [j \in Job |-> IF j \in again \cup {<<"validate", <<f, 1>>>> : f \in again} THEN 2 ELSE 1]

Served(lines) == [fault |-> Null, hops |-> 0, http |-> 200, lines |-> lines]
Line(field, text) == [field |-> field, value |-> text]
Status(code) == [Served(<<>>) EXCEPT !.http = code]

Everyone == Line("user-agent", "*")
Open == Served(<<Everyone, Line("rule", "disallow /x")>>)
Shut == Served(<<Everyone, Line("rule", "disallow /")>>)
ShutButX == Served(<<Line("comment", ""), Everyone, Line("rule", "disallow /"), Line("rule", "allow /x"),
                     Line("user-agent", "bot"), Line("rule", "disallow /")>>)
Sellers(S) == [i \in 1 .. Cardinality(S) |-> Line("record", CHOOSE x \in S : Cardinality({y \in S : y < x}) = i - 1)]

Sold == Served(Sellers({1}))

MCResponse == [t \in ConfigType |->
    IF t = "ROBOTS_TXT" THEN {Open, Shut, ShutButX, [Open EXCEPT !.fault = "large"]}
    ELSE {Sold, Served(Sellers({1, 2})), Status(404), Served(<<Line("malformed", 0)>>)}]

MCJob == PublicJob

\* A behaviour is about one of the files.
Started(t) == \E f \in Fetch : TypeOf[f] = t /\ phase[f] # "absent"
\* What goes wrong with a behaviour: at most one job is lost or started again, or
\* the switch is thrown.  Two handlers are at work in the first two slots, and later
\* only when one of them is the second on its job.
Busy == {w \in Worker : pc[w] # "idle"}
Harmed == {j \in PublicJob : phase[j] = "dead" \/ runs[j] = 2}
    \cup {job[w] : w \in {x \in Worker : pc[x] \in {"failed", "raised"}}}
Plain(k) == snapshot[k].status = "MISSING" \/ snapshot[k].hash = Normalized("ADS_TXT", Sold).hash
Bounded ==
    /\ \E t \in ConfigType : ~Started(t)
    /\ Cardinality(Harmed) + Min({switches, 1}) <= 1
    /\ switches <= IF Cardinality(Busy) < 2 THEN 2 ELSE 0
    /\ Cardinality(Busy) = 2 => Slot = 2 \/ (Slot = 3 /\ Harmed # {})
    /\ Slot = 3 /\ Harmed # {} =>
          /\ \E j \in Harmed : j \in Validate /\ phase[j] # "dead"
          /\ \A k \in Seen("ADS_TXT") : k[1] \in Validate => Agrees(k[1][2], k)
    /\ Slot = 3 => switches = 0
    /\ Harmed # {} \/ switches # 0 \/ overlapped # {} => \A k \in Seen("ADS_TXT") : Plain(k)
    /\ pass # NoPass => \E f \in Fetch : SlotOf[f] = pass.slot /\ phase[f] \in {"absent", "waiting"}
    /\ pass # NoPass => Busy \subseteq {w \in Worker : job[w] \in Validate}

Alike == Permutations(Worker)
=============================================================================

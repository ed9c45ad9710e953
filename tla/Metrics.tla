-------------------------------- MODULE Metrics --------------------------------
(***************************************************************************)
(* The ratios of Ad Manager to GA4: the scheduler plans hourly extracts and *)
(* derivations (connectors/*/scheduling.py, metrics/scheduling.py), workers *)
(* store the points of extracts that overlap, and DERIVE_CROSS_SOURCE jobs  *)
(* select current points, align them and persist ratios (metrics/).         *)
(*                                                                          *)
(* Time is that of Normalization: hours of UTC, and what the wall of the    *)
(* property shows.  Traffic is looked at in a few hours of the wall, Busy;  *)
(* GA4 reports each under a channel, which it may assign anew, and Ad       *)
(* Manager each of its metrics in one series.  Every value is one.          *)
(***************************************************************************)
EXTENDS GeneralWorker, Normalization

CONSTANTS
    Busy,                       \* hours of the wall with traffic
    Channel,                    \* dimensions of the views of GA4
    Ratio,                      \* definitions, each named by its numerator
    SlotHours,                  \* distance of the slots of a scheduler
    GA4After, GAMAfter,         \* hour of the day from which reconciling jobs are due
    MatureDays,                 \* days of a reconciling extract of GA4
    Window                      \* hours a derivation looks back

Kind == {"GA4", "GAM", "DERIVE"}

\* A job stands for its idempotency key: what is asked for, and the slot or day.
ASSUME MetricsAssumption ==
    /\ \A j \in Job : j.kind \in Kind /\ j.at \in Int
    /\ \A j \in Job : j.kind = "GA4" => j.freshness \in {"PRELIMINARY", "MATURE"}
    /\ IsFiniteSet(Ratio)
    /\ Busy \subseteq {Wall[u] : u \in DOMAIN Wall}
    /\ SlotHours \in Nat \ {0} /\ MatureDays \in Nat \ {0} /\ Window \in Nat
    /\ GA4After \in Nat /\ GAMAfter \in Nat

Seqs == INSTANCE SequencesExt

VARIABLES
    now,        \* hours of UTC
    channel,    \* the channel GA4 has each busy hour under
    points,     \* metric_points of COMPLETE extracts
    complete,   \* the extracts that are COMPLETE, in the order of retrieved_at
    answer,     \* the points a handler holds
    loaded,     \* the candidates a derivation found
    todo,       \* those it has still to persist
    derived     \* metric_derivations with their points and inputs, in order

dataVars == <<points, complete, derived>>
callVars == <<answer, loaded, todo>>
vars == <<queueVars, handlerVars, now, channel, dataVars, callVars>>

Today == Day(Wall[now])
HourOfDay(wall) == wall % HoursPerDay
Slot(hour) == hour - (hour % SlotHours)

Place == {"ask", "write", "load", "persist"}
Fresh == {"PRELIMINARY", "MATURE"}

\* A point before it is stored; its extract is counted when it is complete.
Reading == [source : {"GA4", "GAM"}, series : Channel \cup Ratio, wall : Busy,
            interval : Int \X Int, value : {1}, retrieved : {0}, freshness : Fresh]

TypeOK ==
    /\ WorkerTypeOK(Place)
    /\ now \in DOMAIN Wall /\ channel \in [Busy -> Channel]
    /\ complete \in Seq(Job)
    /\ \A p \in points :
          /\ p.source \in {"GA4", "GAM"} /\ p.wall \in Busy
          /\ p.series \in Channel \cup Ratio
          /\ p.freshness \in Fresh /\ p.retrieved \in DOMAIN complete
    /\ answer \in [Worker -> SUBSET Reading]
    /\ \A w \in Worker :
          /\ pc[w] # "write" => answer[w] = {}
          /\ todo[w] # <<>> => pc[w] = "persist"
    /\ \A i \in DOMAIN derived : derived[i].inputs \subseteq points

Init ==
    /\ WorkerInit
    /\ now = First(DOMAIN Wall)
    /\ channel \in [Busy -> Channel] /\ \A g, h \in Busy : channel[g] = channel[h]
    /\ points = {} /\ complete = <<>> /\ derived = <<>>
    /\ answer = [w \in Worker |-> {}] /\ loaded = [w \in Worker |-> {}]
    /\ todo = [w \in Worker |-> <<>>]

------------------------------------------------------------------------------
(* The world.                                                                *)

Tick(later) ==
    /\ later \in DOMAIN Wall /\ now < later /\ now' = later
    /\ UNCHANGED <<queueVars, handlerVars, channel, dataVars, callVars>>

\* GA4 attributes the views of an hour to another channel.
Reattribute(h) ==
    /\ \E c \in Channel \ {channel[h]} : channel' = [channel EXCEPT ![h] = c]
    /\ UNCHANGED <<queueVars, handlerVars, now, dataVars, callVars>>

------------------------------------------------------------------------------
(* The scheduler.                                                            *)

Plan(j) == Enqueue(j) /\ UNCHANGED <<handlerVars, now, channel, dataVars, callVars>>

\* An operational extract of yesterday and today in every slot, and once a day,
\* from GA4After on, a reconciling one of the days before.
GA4Schedule(j) ==
    /\ j.kind = "GA4"
    /\ \/ j.freshness = "PRELIMINARY" /\ j.at = Slot(Wall[now])
       \/ j.freshness = "MATURE" /\ j.at = Today - 1 /\ HourOfDay(Wall[now]) >= GA4After
    /\ Plan(j)

GA4Days(j) == IF j.freshness = "PRELIMINARY" THEN (Day(j.at) - 1) .. Day(j.at)
              ELSE (j.at - MatureDays + 1) .. j.at

\* The same of Ad Manager, whose reports span days of their own.
GAMSchedule(j) ==
    /\ j.kind = "GAM"
    /\ \/ j.profile = "TODAY" /\ j.at = Slot(Wall[now])
       \/ j.profile = "LAST_7_DAYS" /\ j.at = Today /\ HourOfDay(Wall[now]) >= GAMAfter
    /\ Plan(j)

\* A derivation in every slot of UTC.
CrossSourceSchedule(j) == j.kind = "DERIVE" /\ j.at = Slot(now) /\ Plan(j)

------------------------------------------------------------------------------
(* Extracts.  How they fail is in Connectors.                                *)

Take(w, j) ==
    /\ Claim(w, j, IF j.kind = "DERIVE" THEN "load" ELSE "ask")
    /\ UNCHANGED <<now, channel, dataVars, callVars>>

Lose(j) == TakeBack(j) /\ UNCHANGED <<now, channel, dataVars, callVars>>

\* What the provider has of these days at the moment: the hours that have begun.
Reported(days) == {h \in Busy : Day(h) \in days /\ h <= Wall[now]}

GA4Rows(days) == Seqs!SetToSeq(
    {[wall |-> h, series |-> channel[h], value |-> 1] : h \in Reported(days)})
GAMRows(days) == Seqs!SetToSeq(
    {[wall |-> h, series |-> m, value |-> 1] : h \in Reported(days), m \in Ratio})

\* A plausible bug: a point has no freshness but its own.
HeldAsReported(source, rows, r, freshness) == {
    [source |-> source, series |-> rows[i].series, wall |-> rows[i].wall,
     interval |-> r.points[i].interval, value |-> r.points[i].value, retrieved |-> 0,
     freshness |-> r.points[i].freshness] : i \in DOMAIN r.points}

\* The points of normalised rows; a point without freshness of its own has that
\* of the extract.
Held(source, rows, r, freshness) == {
    [source |-> source, series |-> rows[i].series, wall |-> rows[i].wall,
     interval |-> r.points[i].interval, value |-> r.points[i].value, retrieved |-> 0,
     freshness |-> IF r.points[i].freshness = Missing THEN freshness ELSE r.points[i].freshness]
    : i \in DOMAIN r.points}

Ask(w, held) ==
    /\ Goes(w, "ask", "write")
    /\ answer' = [answer EXCEPT ![w] = held]
    /\ UNCHANGED <<queueVars, now, channel, dataVars, loaded, todo>>

\* The days of an extract of GA4 are fixed with its job.
GA4Ask(w) ==
    LET j == job[w]
        rows == GA4Rows(GA4Days(j))
        r == GA4Normalized([headers |-> "asked", zone |-> "zone", rows |-> rows])
    IN j # Null /\ j.kind = "GA4" /\ Ask(w, Held("GA4", rows, r, j.freshness))

\* Those of Ad Manager are counted from the day its report is run.
GAMAsk(w) ==
    LET j == job[w]
        days == GAMPeriod(j.profile, Today)
        rows == GAMRows(days)
        r == GAMNormalized([rows |-> rows, total |-> Len(rows), dates |-> days,
                            today |-> Today], j.profile)
    IN j # Null /\ j.kind = "GAM" /\ Ask(w, Held("GAM", rows, r, "PRELIMINARY"))

\* complete_extract: retrieved_at is when it writes, not when it asked, and an
\* extract that is COMPLETE gets no more points.
Write(w) ==
    LET first == ~\E i \in DOMAIN complete : complete[i] = job[w] IN
    /\ Goes(w, "write", "done")
    /\ IF first
       THEN /\ complete' = Append(complete, job[w])
            /\ points' = points \cup {[p EXCEPT !.retrieved = Len(complete')] : p \in answer[w]}
       ELSE UNCHANGED <<complete, points>>
    /\ answer' = [answer EXCEPT ![w] = {}]
    /\ UNCHANGED <<queueVars, now, channel, derived, loaded, todo>>

------------------------------------------------------------------------------
(* Derivation: metrics/derivation.py and metrics/persistence.py.             *)

\* load_source_points.
InWindow(j) == {p \in points : j.at - Window <= p.interval[1] /\ p.interval[2] <= j.at}

\* _matches_definition: one metric of Ad Manager, and the views of GA4.
Relevant(ps, m) == {p \in ps : p.source = "GA4" \/ p.series = m}

\* A plausible bug: every point of a series is current.
EveryPoint(ps) == ps

\* _selection_key: MATURE before PRELIMINARY, then the one retrieved last.
Supersedes(p, q) ==
    \/ p.freshness = "MATURE" /\ q.freshness = "PRELIMINARY"
    \/ p.freshness = q.freshness /\ p.retrieved > q.retrieved

BestCurrent(ps) == {p \in ps :
    ~\E q \in ps : q.series = p.series /\ q.interval = p.interval /\ Supersedes(q, p)}

Total(ps) == Seqs!FoldFunction(+, 0, [p \in ps |-> p.value])

\* _compatible_freshness: that of all of them.
Freshness(n, d) == {p.freshness : p \in n \cup d}

OfSource(ps, source, i) == {p \in ps : p.source = source /\ p.interval = i}

\* derive_ratios: a ratio of every interval that both sources have, with points
\* of one freshness.
Comparable(ps, i) ==
    /\ OfSource(ps, "GAM", i) # {} /\ OfSource(ps, "GA4", i) # {}
    /\ Cardinality(Freshness(OfSource(ps, "GAM", i), OfSource(ps, "GA4", i))) = 1

RatioOf(ps, m, i) ==
    LET n == OfSource(ps, "GAM", i)
        d == OfSource(ps, "GA4", i)
    IN [definition |-> m, interval |-> i, freshness |-> CHOOSE f \in Freshness(n, d) : TRUE,
        numerator |-> Total(n), denominator |-> Total(d), inputs |-> n \cup d]

RatiosOf(ps, m) ==
    LET best == BestCurrent(Relevant(ps, m))
    IN {RatioOf(best, m, i) : i \in {j \in {p.interval : p \in best} : Comparable(best, j)}}

Found(j) == UNION {RatiosOf(InWindow(j), m) : m \in Ratio}

\* derive_site finds its candidates in one snapshot.
Load(w) ==
    LET found == Found(job[w]) IN
    /\ Goes(w, "load", IF found = {} THEN "done" ELSE "persist")
    /\ loaded' = [loaded EXCEPT ![w] = found]
    /\ todo' = [todo EXCEPT ![w] = Seqs!SetToSeq(found)]
    /\ UNCHANGED <<queueVars, now, channel, dataVars, answer>>

\* The definition, the interval and the fingerprint of the inputs.
SameKey(d, c) == d.definition = c.definition /\ d.interval = c.interval /\ d.inputs = c.inputs
Known(c) == \E i \in DOMAIN derived : SameKey(derived[i], c)

\* A plausible bug: a derivation that is there ends the job.
PersistOrStop(w) ==
    LET c == Head(todo[w])
        rest == IF Known(c) THEN <<>> ELSE Tail(todo[w])
    IN /\ todo[w] # <<>>
       /\ Goes(w, "persist", IF rest = <<>> THEN "done" ELSE "persist")
       /\ derived' = IF Known(c) THEN derived ELSE Append(derived, c)
       /\ todo' = [todo EXCEPT ![w] = rest]
       /\ UNCHANGED <<queueVars, now, channel, points, complete, answer, loaded>>

\* _validate_inputs: they are points of COMPLETE extracts, and of the interval, the
\* freshness and the metrics of the ratio.
Valid(c) == \A p \in c.inputs :
    /\ p \in points /\ p.retrieved \in DOMAIN complete
    /\ p.interval = c.interval /\ p.freshness = c.freshness
    /\ p.source = "GA4" \/ p.series = c.definition

\* persist_candidate: a transaction for each; a derivation that is there adds
\* nothing, and inputs that are no longer valid end the job for good.
Persist(w) ==
    LET c == Head(todo[w])
        rest == IF Valid(c) THEN Tail(todo[w]) ELSE <<>>
    IN /\ todo[w] # <<>>
       /\ Goes(w, "persist", CASE ~Valid(c) -> "raised" [] rest # <<>> -> "persist" [] OTHER -> "done")
       /\ derived' = IF Valid(c) /\ ~Known(c) THEN Append(derived, c) ELSE derived
       /\ todo' = [todo EXCEPT ![w] = rest]
       /\ UNCHANGED <<queueVars, now, channel, points, complete, answer, loaded>>

\* Any other exception.
Break(w) ==
    /\ pc[w] \in Place /\ pc' = [pc EXCEPT ![w] = "failed"]
    /\ answer' = [answer EXCEPT ![w] = {}] /\ todo' = [todo EXCEPT ![w] = <<>>]
    /\ UNCHANGED <<queueVars, job, now, channel, dataVars, loaded>>

Finish(w) ==
    /\ Report(w)
    /\ loaded' = [loaded EXCEPT ![w] = {}]
    /\ UNCHANGED <<now, channel, dataVars, answer, todo>>

Next ==
    \/ \E later \in DOMAIN Wall : Tick(later)
    \/ \E h \in Busy : Reattribute(h)
    \/ \E j \in Job : GA4Schedule(j) \/ GAMSchedule(j) \/ CrossSourceSchedule(j) \/ Lose(j)
    \/ \E w \in Worker :
          \/ \E j \in Job : Take(w, j)
          \/ GA4Ask(w) \/ GAMAsk(w) \/ Write(w) \/ Load(w) \/ Persist(w)
          \/ Break(w) \/ Finish(w)

Spec == Init /\ [][Next]_vars

------------------------------------------------------------------------------
(* Properties.                                                               *)

\* EP-013, "for every exact UTC interval and source series it selects one
\* current observation" and "requires compatible freshness across both sides": of
\* whatever extracts overlapped, a ratio is made of one point of each series, all
\* of its interval and freshness, and no inputs make it twice.
DerivationsSound ==
    /\ \A i \in DOMAIN derived :
          LET d == derived[i] IN
          /\ \A p \in d.inputs : p.interval = d.interval /\ p.freshness = d.freshness
          /\ \A p, q \in d.inputs : p.series = q.series => p = q
          /\ {p.source : p \in d.inputs} = {"GA4", "GAM"}
    /\ \A i, k \in DOMAIN derived : SameKey(derived[i], derived[k]) => i = k

\* EP-013, "exact UTC intervals avoid label errors": both sources place an hour of
\* the wall in the same interval, and no two hours share any of UTC, whatever the
\* clocks do.
HoursPartition == \A p, q \in points :
    IF p.wall = q.wall THEN p.interval = q.interval
    ELSE p.interval[2] <= q.interval[1] \/ q.interval[2] <= p.interval[1]

\* A derivation that reports success has persisted every ratio it found, also when
\* an earlier attempt, or a later one, persisted some of them.
DoneIsDerived == \A w \in Worker : pc[w] = "done" => \A c \in loaded[w] : Known(c)
=============================================================================

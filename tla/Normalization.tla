----------------------------- MODULE Normalization -----------------------------
(***************************************************************************)
(* How the connectors turn rows of GA4, Search Console and Ad Manager into  *)
(* points of UTC intervals: connectors/*/normalization.py.                  *)
(*                                                                          *)
(* Time is counted in hours of UTC.  Wall tells what the clock of the       *)
(* property shows at each of them, as a count of hours too: it skips one    *)
(* where clocks go forward, and shows one twice where they go back.  A row  *)
(* is a record; a field the answer lacks or spoils is Missing.              *)
(***************************************************************************)
EXTENDS Integers, Sequences, FiniteSets

CONSTANTS
    Missing,
    Wall,           \* [hours of UTC -> hours on the wall]
    HoursPerDay,
    GA4MaxRows,     \* rows a report of GA4 may have
    Profile         \* rolling profiles of Ad Manager, and the days each spans

ASSUME NormalizationAssumption ==
    /\ DOMAIN Wall \subseteq Int /\ \A u \in DOMAIN Wall : Wall[u] \in Int
    /\ HoursPerDay \in Nat \ {0} /\ GA4MaxRows \in Nat
    /\ DOMAIN Profile = {"TODAY", "LAST_7_DAYS"}
    /\ \A p \in DOMAIN Profile : Profile[p].days \in Nat \ {0} /\ Profile[p].ago \in Nat

\* Clocks are changed by showing hours twice or by skipping some, and no hour that
\* is shown twice is followed by one that is skipped.
ASSUME ClockAssumption ==
    /\ \E a, b \in DOMAIN Wall : DOMAIN Wall = a .. b
    /\ \A u, v \in DOMAIN Wall : u <= v => Wall[u] <= Wall[v]
    /\ \A u, v \in DOMAIN Wall : u # v /\ Wall[u] = Wall[v] =>
          \E x \in DOMAIN Wall : Wall[x] = Wall[u] + 1

Says(code, retryable) == [code |-> code, retryable |-> retryable]
Success == Says("OK", FALSE)
Unreadable == Says("INVALID_RESPONSE", FALSE)

Refused(error) == [error |-> error, points |-> <<>>]
Points(points) == [error |-> Success, points |-> points]

Day(wall) == wall \div HoursPerDay

------------------------------------------------------------------------------
(* Local hours.                                                              *)

\* The hours of UTC at which the wall shows this one: none, one or two.
Candidates(wall) == {u \in DOMAIN Wall : Wall[u] = wall}
First(hours) == CHOOSE u \in hours : \A v \in hours : u <= v
Last(hours) == CHOOSE u \in hours : \A v \in hours : v <= u

Before(wall) == {u \in DOMAIN Wall : Wall[u] <= wall}
Latest(hours) == CHOOSE v \in hours : \A x \in hours : Wall[x] <= Wall[v]

\* replace(tzinfo=zone, fold=0): the first of two, and for an hour that is skipped
\* the offset from before the change.
ToUTC(wall) ==
    IF Candidates(wall) # {} THEN First(Candidates(wall))
    ELSE LET u == Latest(Before(wall)) IN u + (wall - Wall[u])

\* GA4: both ends of the hour are converted.
GA4Interval(wall) == <<ToUTC(wall), ToUTC(wall + 1)>>

\* A plausible bug: the hour that is shown twice is taken for one hour.
OneHourInterval(wall) == <<First(Candidates(wall)), First(Candidates(wall)) + 1>>

\* Ad Manager: from the first hour of UTC that shows it to the end of the last.
LocalHourInterval(wall) == <<First(Candidates(wall)), Last(Candidates(wall)) + 1>>

------------------------------------------------------------------------------
(* GA4.                                                                      *)

\* A report has headers and a zone, and rows of an hour, the dimensions of its
\* series and a value.
GA4Sound(row) == row.wall # Missing /\ row.series # Missing /\ row.value # Missing

GA4Normalized(r) ==
    IF \/ r.headers # "asked" \/ r.zone = Missing \/ Len(r.rows) > GA4MaxRows
       \/ \E i \in DOMAIN r.rows : ~GA4Sound(r.rows[i])
    THEN Refused(Unreadable)
    ELSE Points([i \in DOMAIN r.rows |->
            [series |-> r.rows[i].series, interval |-> GA4Interval(r.rows[i].wall),
             value |-> r.rows[i].value, freshness |-> Missing]])

------------------------------------------------------------------------------
(* Search Console: daily rows, in the zone of its source.                     *)

\* incomplete: the first day whose data may still change, or Missing; unit: what
\* the metadata counts it in.
GSCFreshness(day, incomplete) ==
    IF incomplete # Missing /\ day >= incomplete THEN "PRELIMINARY" ELSE "MATURE"

GSCSound(row) ==
    /\ row.day # Missing /\ row.clicks # Missing /\ row.impressions # Missing

GSCNormalized(r, state) ==
    IF \/ r.aggregation \notin {Missing, "auto", "byPage", "byProperty"}
       \/ r.incomplete # Missing
          /\ \/ state = "final"
             \/ state = "all" /\ r.unit = "hour"
             \/ state = "hourly_all" /\ r.unit = "day"
       \/ \E i \in DOMAIN r.rows : ~GSCSound(r.rows[i])
    THEN Refused(Unreadable)
    ELSE Points([i \in DOMAIN r.rows |->
            [interval |-> <<ToUTC(r.rows[i].day * HoursPerDay),
                            ToUTC((r.rows[i].day + 1) * HoursPerDay)>>,
             numerator |-> r.rows[i].clicks, denominator |-> r.rows[i].impressions,
             freshness |-> GSCFreshness(r.rows[i].day, r.incomplete)]])

------------------------------------------------------------------------------
(* Ad Manager.                                                               *)

\* The days of a profile on the day its report ran.
GAMPeriod(profile, today) ==
    LET last == today - Profile[profile].ago
    IN (last - Profile[profile].days + 1) .. last

\* Rows of the day of the run and of the day before it may still change.
GAMFreshness(day, today) == IF day >= today - 1 THEN "PRELIMINARY" ELSE "MATURE"

GAMSound(row, days) ==
    /\ row.wall # Missing /\ row.series # Missing /\ row.value # Missing
    /\ Day(row.wall) \in days
    /\ Candidates(row.wall) # {}

\* dates are those of the result, today the day it ran on.
GAMNormalized(r, profile) ==
    IF r.total # Len(r.rows) THEN Refused(Says("PARTIAL_RESULT", FALSE))
    ELSE IF \/ r.dates # GAMPeriod(profile, r.today)
            \/ \E i \in DOMAIN r.rows : ~GAMSound(r.rows[i], r.dates)
    THEN Refused(Unreadable)
    ELSE Points([i \in DOMAIN r.rows |->
            [series |-> r.rows[i].series, interval |-> LocalHourInterval(r.rows[i].wall),
             value |-> r.rows[i].value, freshness |-> GAMFreshness(Day(r.rows[i].wall), r.today)]])

------------------------------------------------------------------------------
(* What a validation or an inspection compares.                              *)

\* validate_metadata: the columns of the property hold those the definition needs.
GA4Metadata(columns, needed) ==
    IF needed \subseteq columns THEN Success ELSE Says("SCHEMA_INCOMPATIBLE", FALSE)

\* validate_property_access: level is that of the credential on the property.
GSCAccess(level) ==
    CASE level \in {Missing, "siteUnverifiedUser"} -> Says("PERMISSION_ERROR", FALSE)
      [] level \in {"siteOwner", "siteFullUser", "siteRestrictedUser"} -> Success
      [] OTHER -> Unreadable

\* validate_network_access and normalize_network.
GAMAccess(listed) == IF listed THEN Success ELSE Says("PERMISSION_ERROR", FALSE)
GAMNetwork(network) == IF network = "sound" THEN Success ELSE Unreadable

\* validate_report: columns, type, zone, currency, filters and dates, all of them.
GAMDefinition(report, expected) ==
    IF report = expected THEN Success ELSE Says("REPORT_INCOMPATIBLE", FALSE)
=============================================================================

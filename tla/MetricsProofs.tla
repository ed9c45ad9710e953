----------------------------- MODULE MetricsProofs -----------------------------
(***************************************************************************)
(* Theorems about Metrics, for any hours of traffic, channels, ratios,      *)
(* extracts, derivations, workers and clocks.                               *)
(*                                                                          *)
(* Both sources place an hour of the wall in one interval, from the first   *)
(* hour of UTC that shows it to the last (Placed), so that an interval has  *)
(* one hour of the wall, and an extract one point of each series in it      *)
(* (Single).  Of the points of a series and an interval, the one that no    *)
(* other supersedes is therefore one.  What a derivation found stays sound  *)
(* while it persists it (Sound), since no point ever goes, and what is left *)
(* to do covers what is not there yet (Progress).                           *)
(***************************************************************************)
EXTENDS Metrics, FiniteSetTheorems, TLAPS

Placed(ps) == \A p \in ps : p.interval = LocalHourInterval(p.wall)
Single(ps) == \A p, q \in ps :
    p.series = q.series /\ p.wall = q.wall /\ p.retrieved = q.retrieved => p = q

\* One point of each series, of both sources.
Sound(c) ==
    /\ c.inputs \subseteq points
    /\ \A p, q \in c.inputs : p.series = q.series => p = q
    /\ {p.source : p \in c.inputs} = {"GA4", "GAM"}

\* What a derivation found is sound, and there or still to do.
Progress(w) ==
    /\ loaded[w] # {} => pc[w] \in {"persist"} \cup Outcome
    /\ todo[w] \in Seq(loaded[w]) /\ (todo[w] # <<>> => pc[w] = "persist")
    /\ \A c \in loaded[w] : Sound(c)
    /\ pc[w] = "persist" =>
          \A c \in loaded[w] : Known(c) \/ \E i \in DOMAIN todo[w] : todo[w][i] = c
    /\ pc[w] = "done" => \A c \in loaded[w] : Known(c)

Work == WorkerTypeOK(Place)
World == now \in DOMAIN Wall /\ channel \in [Busy -> Channel]
Stored == /\ complete \in Seq(Job)
          /\ \A p \in points :
                /\ p.source \in {"GA4", "GAM"} /\ p.wall \in Busy
                /\ p.series \in Channel \cup Ratio
                /\ p.freshness \in Fresh /\ p.retrieved \in DOMAIN complete
          /\ Placed(points) /\ Single(points)
Calls == /\ answer \in [Worker -> SUBSET Reading]
         /\ \A w \in Worker : /\ pc[w] # "write" => answer[w] = {}
                              /\ Placed(answer[w]) /\ Single(answer[w])
Handling == /\ loaded = [w \in Worker |-> loaded[w]] /\ todo = [w \in Worker |-> todo[w]]
            /\ \A w \in Worker : Progress(w)
Persisted == /\ derived \in Seq({derived[i] : i \in DOMAIN derived})
             /\ \A i \in DOMAIN derived :
                   /\ Sound(derived[i])
                   /\ \A p \in derived[i].inputs : p.interval = derived[i].interval
                                                 /\ p.freshness = derived[i].freshness
             /\ \A i, k \in DOMAIN derived : SameKey(derived[i], derived[k]) => i = k

IInv == Work /\ World /\ Stored /\ Calls /\ Handling /\ Persisted

------------------------------------------------------------------------------
(* Clocks.                                                                   *)

\* Any set of numbers that is not empty has a least one.
LEMMA Least ==
    ASSUME NEW S \in SUBSET Nat, S # {}
    PROVE  \E m \in S : \A k \in S : m <= k
<1>1. IsWellFoundedOn(OpToRel(<, Nat), Nat)
  BY NatLessThanWellFounded
<1>2. PICK m \in S : \A k \in S : <<k, m>> \notin OpToRel(<, Nat)
  BY <1>1, WFMin
<1>3. ASSUME NEW k \in S PROVE m <= k
  <2>1. ~ (k < m)
    BY <1>2 DEF OpToRel
  <2> QED BY <2>1
<1> QED BY <1>3

\* Hours of UTC have a first and a last.
LEMMA Extremes ==
    ASSUME NEW S \in SUBSET DOMAIN Wall, S # {}
    PROVE  /\ First(S) \in S /\ \A v \in S : First(S) <= v
           /\ Last(S) \in S /\ \A v \in S : v <= Last(S)
<1>1. PICK a, b \in DOMAIN Wall : DOMAIN Wall = a .. b
  BY ClockAssumption
<1>2. a \in Int /\ b \in Int /\ S \subseteq a .. b
  BY <1>1, NormalizationAssumption
<1>3. \E u \in S : \A v \in S : u <= v
  <2> DEFINE T == {n \in Nat : a + n \in S}
  <2>1. \A v \in S : v - a \in T
    BY <1>2
  <2>2. PICK n \in T : \A k \in T : n <= k
    BY <2>1, Least
  <2>3. n \in Nat /\ a + n \in S
    OBVIOUS
  <2> HIDE DEF T
  <2>4. \A v \in S : v \in Int /\ n <= v - a
    BY <1>2, <2>1, <2>2
  <2>5. \A v \in S : a + n <= v
    BY <1>2, <2>3, <2>4
  <2> QED BY <2>3, <2>5
<1>4. \E u \in S : \A v \in S : v <= u
  <2> DEFINE T == {n \in Nat : b - n \in S}
  <2>1. \A v \in S : b - v \in T
    BY <1>2
  <2>2. PICK n \in T : \A k \in T : n <= k
    BY <2>1, Least
  <2>3. n \in Nat /\ b - n \in S
    OBVIOUS
  <2> HIDE DEF T
  <2>4. \A v \in S : v \in Int /\ n <= b - v
    BY <1>2, <2>1, <2>2
  <2>5. \A v \in S : v <= b - n
    BY <1>2, <2>3, <2>4
  <2> QED BY <2>3, <2>5
<1> QED BY <1>3, <1>4 DEF First, Last

\* The hours that show an hour of the wall; they follow each other.
LEMMA Shown ==
    ASSUME NEW h \in Busy
    PROVE  /\ h \in Int /\ Candidates(h) \in SUBSET DOMAIN Wall /\ Candidates(h) # {}
           /\ First(Candidates(h)) \in DOMAIN Wall /\ Last(Candidates(h)) \in DOMAIN Wall
           /\ First(Candidates(h)) \in Int /\ Last(Candidates(h)) \in Int
           /\ Wall[First(Candidates(h))] = h /\ Wall[Last(Candidates(h))] = h
           /\ \A v \in DOMAIN Wall : Wall[v] = h => First(Candidates(h)) <= v /\ v <= Last(Candidates(h))
<1>1. h \in Int /\ Candidates(h) \in SUBSET DOMAIN Wall /\ Candidates(h) # {}
  BY MetricsAssumption, NormalizationAssumption DEF Candidates
<1>2. /\ First(Candidates(h)) \in Candidates(h) /\ \A v \in Candidates(h) : First(Candidates(h)) <= v
      /\ Last(Candidates(h)) \in Candidates(h) /\ \A v \in Candidates(h) : v <= Last(Candidates(h))
  BY <1>1, Extremes
<1>3. \A v \in Candidates(h) : v \in DOMAIN Wall /\ v \in Int /\ Wall[v] = h
  BY NormalizationAssumption DEF Candidates
<1> QED BY <1>1, <1>2, <1>3 DEF Candidates

\* The two ends that GA4's normaliser converts are those of Ad Manager's.
LEMMA SameInterval ==
    ASSUME NEW h \in Busy
    PROVE  GA4Interval(h) = LocalHourInterval(h)
<1> DEFINE last == Last(Candidates(h))
<1>1. PICK a, b \in DOMAIN Wall : DOMAIN Wall = a .. b
  BY ClockAssumption
<1>2. a \in Int /\ b \in Int /\ last \in a .. b /\ h \in Int /\ Wall[last] = h
  BY <1>1, Shown, NormalizationAssumption
<1>3. \A v \in DOMAIN Wall : v > last => Wall[v] > h
  <2> SUFFICES ASSUME NEW v \in DOMAIN Wall, v > last PROVE Wall[v] > h
    OBVIOUS
  <2>1. Wall[v] \in Int /\ v \in Int /\ last \in DOMAIN Wall /\ last \in Int
    BY Shown, NormalizationAssumption
  <2>2. Wall[last] <= Wall[v]
    BY <2>1, ClockAssumption
  <2>3. Wall[v] # h
    BY <2>1, Shown
  <2> QED BY <1>2, <2>1, <2>2, <2>3
<1>4. ToUTC(h) = First(Candidates(h))
  BY Shown DEF ToUTC
<1>5. CASE Candidates(h + 1) # {}
  <2> DEFINE next == First(Candidates(h + 1))
  <2>1. Candidates(h + 1) \in SUBSET DOMAIN Wall
    BY DEF Candidates
  <2>2. next \in Candidates(h + 1) /\ \A v \in Candidates(h + 1) : next <= v
    BY <1>5, <2>1, Extremes
  <2>3. next \in DOMAIN Wall /\ next \in a .. b /\ next \in Int /\ Wall[next] = h + 1
    BY <1>1, <2>2 DEF Candidates
  <2>4. last < next
    <3>1. next <= last => Wall[next] <= Wall[last]
      BY <2>3, Shown, ClockAssumption
    <3> QED BY <1>2, <2>3, <3>1
  <2>5. last + 1 \in DOMAIN Wall
    <3> HIDE DEF last, next
    <3>1. last + 1 \in a .. b
      BY <1>2, <2>3, <2>4
    <3> QED BY <1>1, <3>1
  <2>6. Wall[last + 1] \in Int /\ Wall[last + 1] <= h + 1
    BY SMTT(60), <1>2, <2>3, <2>4, <2>5, ClockAssumption, NormalizationAssumption
  <2>7. last + 1 \in Candidates(h + 1)
    <3> HIDE DEF last, next
    <3>1. Wall[last + 1] > h
      BY <1>2, <1>3, <2>5
    <3>2. Wall[last + 1] = h + 1
      BY <1>2, <2>6, <3>1
    <3> QED BY <2>5, <3>2 DEF Candidates
  <2>8. next = last + 1
    BY <1>2, <2>2, <2>3, <2>4, <2>7
  <2>9. ToUTC(h + 1) = last + 1
    BY <1>5, <2>8 DEF ToUTC
  <2> QED BY <1>4, <2>9 DEF GA4Interval, LocalHourInterval
<1>6. CASE Candidates(h + 1) = {}
  <2> DEFINE before == Before(h + 1)
             latest == Latest(before)
  <2>1. \A x \in before : Wall[x] \in Int /\ Wall[x] <= h
    BY <1>2, <1>6, NormalizationAssumption DEF Candidates, Before
  <2>2. last \in before
    BY <1>1, <1>2 DEF Before
  <2>3. latest \in before /\ \A x \in before : Wall[x] <= Wall[latest]
    BY <1>2, <2>1, <2>2 DEF Latest
  <2>4. Wall[latest] = h /\ latest \in DOMAIN Wall
    BY <1>2, <2>1, <2>2, <2>3 DEF Before
  <2>5. last \in DOMAIN Wall /\ \A x \in DOMAIN Wall : Wall[x] # h + 1
    BY <1>1, <1>2, <1>6 DEF Candidates
  <2>6. ToUTC(h + 1) = latest + ((h + 1) - Wall[latest])
    BY <1>6, Zenon DEF ToUTC
  <2> HIDE DEF last, latest
  <2>7. latest = last
    BY <1>2, <2>4, <2>5, ClockAssumption
  <2>8. ToUTC(h + 1) = last + 1
    BY <1>2, <2>4, <2>6, <2>7
  <2> QED BY <1>4, <2>8 DEF GA4Interval, LocalHourInterval, last
<1> QED BY <1>5, <1>6

\* Another hour of the wall is another interval, which has ended by the time the
\* later one begins.
LEMMA HoursApart ==
    ASSUME NEW g \in Busy, NEW h \in Busy, g < h
    PROVE  /\ LocalHourInterval(g)[2] <= LocalHourInterval(h)[1]
           /\ LocalHourInterval(g)[1] # LocalHourInterval(h)[1]
<1> DEFINE u == Last(Candidates(g))
           v == First(Candidates(h))
<1>1. /\ u \in DOMAIN Wall /\ v \in DOMAIN Wall /\ u \in Int /\ v \in Int
      /\ Wall[u] = g /\ Wall[v] = h /\ g \in Int /\ h \in Int
  BY Shown
<1>2. v <= u => Wall[v] <= Wall[u]
  BY <1>1, ClockAssumption
<1>3. u < v
  BY <1>1, <1>2
<1>4. First(Candidates(g)) \in Int /\ First(Candidates(g)) <= u
  BY <1>1, Shown
<1> QED BY <1>1, <1>3, <1>4 DEF LocalHourInterval

LEMMA OneHour ==
    ASSUME NEW g \in Busy, NEW h \in Busy, LocalHourInterval(g) = LocalHourInterval(h)
    PROVE  g = h
<1>1. g \in Int /\ h \in Int
  BY Shown
<1> QED BY <1>1, HoursApart

------------------------------------------------------------------------------
(* Finite sets and their sequences.                                          *)

LEMMA SeqOf ==
    ASSUME NEW S, IsFiniteSet(S)
    PROVE  /\ Seqs!SetToSeq(S) \in Seq(S)
           /\ \A x \in S : \E i \in DOMAIN Seqs!SetToSeq(S) : Seqs!SetToSeq(S)[i] = x
<1>1. PICK n \in Nat : ExistsBijection(1 .. n, S)
  BY FS_NatBijection
<1>2. Cardinality(S) = n /\ Seqs!Cardinality(S) = n
  <2>1. Seqs!Cardinality(S) = Cardinality(S)
    BY DEF Seqs!Cardinality, Cardinality
  <2> QED BY <1>1, <2>1, FS_CountingElements
<1>3. PICK f : f \in Bijection(1 .. n, S)
  BY <1>1 DEF ExistsBijection
<1>4. f \in [1 .. n -> S] /\ Seqs!IsInjective(f)
  BY <1>3 DEF Bijection, Injection, IsInjective, Seqs!IsInjective
<1> DEFINE s == Seqs!SetToSeq(S)
<1>5. s \in [1 .. n -> S] /\ Seqs!IsInjective(s)
  <2>1. \E g \in [1 .. Seqs!Cardinality(S) -> S] : Seqs!IsInjective(g)
    BY <1>2, <1>4
  <2>2. s \in [1 .. Seqs!Cardinality(S) -> S] /\ Seqs!IsInjective(s)
    BY <2>1 DEF Seqs!SetToSeq
  <2> QED BY <1>2, <2>2
<1> HIDE DEF s
<1>6. s \in Injection(1 .. n, S)
  BY <1>5 DEF Injection, IsInjective, Seqs!IsInjective
<1>7. Cardinality(1 .. n) = n
  BY <1>1, FS_Interval
<1>8. s \in Surjection(1 .. n, S)
  BY <1>2, <1>6, <1>7, FS_Injection
<1>9. s \in Seq(S)
  BY <1>5
<1>10. \A x \in S : \E i \in DOMAIN s : s[i] = x
  BY <1>5, <1>8 DEF Surjection, Range
<1> QED BY <1>9, <1>10 DEF s

\* A set that a function maps a finite set onto.
LEMMA FiniteImage ==
    ASSUME NEW S, IsFiniteSet(S), NEW T, NEW f \in [S -> T], \A t \in T : \E s \in S : f[s] = t
    PROVE  IsFiniteSet(T)
<1>1. f \in Surjection(S, T)
  BY DEF Surjection, Range
<1> QED BY <1>1, FS_Surjection

LEMMA BusyFinite == IsFiniteSet(Busy)
<1>1. PICK a, b \in DOMAIN Wall : DOMAIN Wall = a .. b
  BY ClockAssumption
<1>2. IsFiniteSet(DOMAIN Wall)
  BY <1>1, NormalizationAssumption, FS_Interval
<1> DEFINE T == {Wall[u] : u \in DOMAIN Wall}
           f == [u \in DOMAIN Wall |-> Wall[u]]
<1>3. f \in [DOMAIN Wall -> T]
  OBVIOUS
<1>4. \A t \in T : \E u \in DOMAIN Wall : f[u] = t
  OBVIOUS
<1>5. IsFiniteSet(T)
  <2> HIDE DEF f, T
  <2> QED BY <1>2, <1>3, <1>4, FiniteImage
<1> QED BY <1>5, FS_Subset, MetricsAssumption

LEMMA ReportedFinite ==
    ASSUME NEW days
    PROVE  Reported(days) \subseteq Busy /\ IsFiniteSet(Reported(days))
BY BusyFinite, FS_Subset DEF Reported

LEMMA WiderSeq ==
    ASSUME NEW S, NEW T, S \subseteq T, NEW s \in Seq(S)
    PROVE  s \in Seq(T)
<1>1. Len(s) \in Nat /\ s \in [1 .. Len(s) -> T]
  OBVIOUS
<1> QED BY <1>1

\* Rows are of busy hours, and of the series of their source.
LEMMA GA4RowsType ==
    ASSUME TypeOK, NEW days
    PROVE  GA4Rows(days) \in Seq([wall : Busy, series : Channel, value : {1}])
<1> DEFINE T == {[wall |-> h, series |-> channel[h], value |-> 1] : h \in Reported(days)}
           f == [h \in Reported(days) |-> [wall |-> h, series |-> channel[h], value |-> 1]]
<1>1. f \in [Reported(days) -> T] /\ \A t \in T : \E h \in Reported(days) : f[h] = t
  OBVIOUS
<1>2. IsFiniteSet(T)
  <2> HIDE DEF f, T
  <2> QED BY <1>1, ReportedFinite, FiniteImage
<1>3. T \subseteq [wall : Busy, series : Channel, value : {1}]
  BY ReportedFinite DEF TypeOK
<1>4. Seqs!SetToSeq(T) \in Seq(T)
  BY <1>2, SeqOf
<1>5. GA4Rows(days) = Seqs!SetToSeq(T)
  BY DEF GA4Rows
<1> QED BY ZenonT(60), <1>3, <1>4, <1>5, WiderSeq

LEMMA GAMRowsType ==
    ASSUME NEW days
    PROVE  GAMRows(days) \in Seq([wall : Busy, series : Ratio, value : {1}])
<1> DEFINE S == Reported(days) \X Ratio
           T == {[wall |-> h, series |-> m, value |-> 1] : h \in Reported(days), m \in Ratio}
           f == [s \in S |-> [wall |-> s[1], series |-> s[2], value |-> 1]]
<1>1. f \in [S -> T]
  OBVIOUS
<1>2. \A t \in T : \E s \in S : f[s] = t
  <2>1. ASSUME NEW t \in T PROVE \E s \in S : f[s] = t
    <3>1. PICK h \in Reported(days), m \in Ratio : t = [wall |-> h, series |-> m, value |-> 1]
      OBVIOUS
    <3>2. <<h, m>> \in S /\ f[<<h, m>>] = t
      BY <3>1
    <3> QED BY <3>2
  <2> QED BY <2>1
<1>3. IsFiniteSet(S)
  BY ReportedFinite, MetricsAssumption, FS_Product
<1>4. IsFiniteSet(T)
  <2> HIDE DEF S, T, f
  <2> QED BY <1>1, <1>2, <1>3, FiniteImage
<1>5. T \subseteq [wall : Busy, series : Ratio, value : {1}]
  BY ReportedFinite
<1>6. Seqs!SetToSeq(T) \in Seq(T)
  BY <1>4, SeqOf
<1>7. GAMRows(days) = Seqs!SetToSeq(T)
  BY DEF GAMRows
<1> HIDE DEF T
<1> QED BY <1>5, <1>6, <1>7, WiderSeq

LEMMA GoesType ==
    ASSUME WorkerTypeOK(Place), NEW w \in Worker, pc[w] # "idle",
           NEW t \in Outcome \cup Place, pc' = [pc EXCEPT ![w] = t],
           UNCHANGED <<queueVars, job>>
    PROVE  WorkerTypeOK(Place)'
<1> USE DEF queueVars
<1>1. pc' \in [Worker -> {"idle"} \cup Outcome \cup Place]
  BY DEF WorkerTypeOK
<1>2. \A x \in Worker : pc'[x] = "idle" <=> job'[x] = Null
  BY DEF WorkerTypeOK, Outcome, Place
<1> QED BY <1>1, <1>2 DEF WorkerTypeOK

LEMMA EnqueueType ==
    ASSUME WorkerTypeOK(Place), NEW j \in Job, Enqueue(j), UNCHANGED handlerVars
    PROVE  /\ WorkerTypeOK(Place)'
           /\ phase'[j] # "absent" /\ \A i \in Job : i # j => phase'[i] = phase[i]
<1> USE DEF Enqueue, Queue!Submit, handlerVars
<1>1. phase' \in [Job -> Queue!Phase]
  BY DEF WorkerTypeOK, Queue!Phase
<1>2. WorkerTypeOK(Place)'
  BY <1>1 DEF WorkerTypeOK
<1> QED BY <1>2 DEF WorkerTypeOK

LEMMA ClaimType ==
    ASSUME WorkerTypeOK(Place), NEW w \in Worker, NEW j \in Job, NEW s \in Place, Claim(w, j, s)
    PROVE  /\ WorkerTypeOK(Place)'
           /\ phase[j] = "waiting" /\ runs'[j] \in 1 .. MaxAttempts[j]
           /\ \A i \in Job : phase'[i] = "absent" <=> phase[i] = "absent"
<1> USE DEF Claim, Queue!Start
<1>1. MaxAttempts[j] \in Nat /\ j # Null
  BY WorkerAssumption
<1>2. runs[j] \in Nat /\ runs[j] < MaxAttempts[j] /\ runs'[j] = runs[j] + 1
  BY DEF WorkerTypeOK
<1>3. runs' \in [Job -> Nat] /\ \A i \in Job : runs'[i] <= MaxAttempts[i]
  BY <1>1, <1>2 DEF WorkerTypeOK
<1>4. phase' \in [Job -> Queue!Phase] /\ owner' \in [Job -> Worker \cup {Null}]
  BY DEF WorkerTypeOK, Queue!Phase
<1>5. pc' \in [Worker -> {"idle"} \cup Outcome \cup Place] /\ job' \in [Worker -> Job \cup {Null}]
  BY DEF WorkerTypeOK
<1>6. \A x \in Worker : pc'[x] = "idle" <=> job'[x] = Null
  BY <1>1 DEF WorkerTypeOK, Place
<1>7. WorkerTypeOK(Place)'
  BY <1>3, <1>4, <1>5, <1>6 DEF WorkerTypeOK
<1> QED BY <1>1, <1>2, <1>7 DEF WorkerTypeOK

LEMMA TakeBackType ==
    ASSUME WorkerTypeOK(Place), NEW j \in Job, TakeBack(j)
    PROVE  /\ WorkerTypeOK(Place)'
           /\ \A i \in Job : phase'[i] = "absent" <=> phase[i] = "absent"
<1> USE DEF TakeBack, Queue!TakeBack, handlerVars
<1>1. phase' \in [Job -> Queue!Phase] /\ owner' \in [Job -> Worker \cup {Null}]
  BY DEF WorkerTypeOK, Queue!Phase
<1>2. \A i \in Job : phase'[i] = "absent" <=> phase[i] = "absent"
  BY DEF WorkerTypeOK
<1> QED BY <1>1, <1>2 DEF WorkerTypeOK

LEMMA ReportType ==
    ASSUME WorkerTypeOK(Place), NEW w \in Worker, Report(w)
    PROVE  /\ WorkerTypeOK(Place)'
           /\ \A i \in Job : phase'[i] = "absent" <=> phase[i] = "absent"
<1> DEFINE j == job[w]
<1>1. /\ UNCHANGED runs
      /\ \/ UNCHANGED <<phase, owner>>
         \/ /\ phase[j] = "running" /\ owner' = [owner EXCEPT ![j] = Null]
            /\ \E p \in {"done", "dead", "waiting"} : phase' = [phase EXCEPT ![j] = p]
  <2>1. CASE Queue!Succeed(j, w)
    BY <2>1 DEF Queue!Succeed
  <2>2. CASE Queue!Fail(j, w)
    BY <2>2 DEF Queue!Fail
  <2>3. CASE UNCHANGED queueVars
    BY <2>3 DEF queueVars
  <2> QED BY <2>1, <2>2, <2>3 DEF Report
<1>2. pc' = [pc EXCEPT ![w] = "idle"] /\ job' = [job EXCEPT ![w] = Null]
  BY DEF Report
<1>3. phase' \in [Job -> Queue!Phase] /\ owner' \in [Job -> Worker \cup {Null}]
  BY <1>1 DEF WorkerTypeOK, Queue!Phase
<1>4. \A i \in Job : phase'[i] = "absent" <=> phase[i] = "absent"
  BY <1>1 DEF WorkerTypeOK
<1>5. pc' \in [Worker -> {"idle"} \cup Outcome \cup Place] /\ job' \in [Worker -> Job \cup {Null}]
  BY <1>2 DEF WorkerTypeOK
<1>6. \A x \in Worker : pc'[x] = "idle" <=> job'[x] = Null
  BY <1>2 DEF WorkerTypeOK
<1>7. WorkerTypeOK(Place)'
  BY <1>1, <1>3, <1>5, <1>6 DEF WorkerTypeOK
<1> QED BY <1>4, <1>7

------------------------------------------------------------------------------
(* Points.                                                                   *)

LEMMA IntervalType ==
    ASSUME NEW h \in Busy
    PROVE  LocalHourInterval(h) \in Int \X Int
BY Shown DEF LocalHourInterval

LEMMA InSeq ==
    ASSUME NEW S, NEW s \in Seq(S), NEW i \in DOMAIN s
    PROVE  s[i] \in S
OBVIOUS

\* What an extract holds is placed by its hours, and one point for each row.
LEMMA HeldSound ==
    ASSUME NEW source \in {"GA4", "GAM"}, NEW freshness \in Fresh,
           NEW rows \in Seq([wall : Busy, series : Channel \cup Ratio, value : {1}]), NEW r,
           \A i \in DOMAIN r.points :
              /\ i \in DOMAIN rows /\ r.points[i].value = 1
              /\ r.points[i].interval = LocalHourInterval(rows[i].wall)
              /\ r.points[i].freshness \in Fresh \cup {Missing}
              /\ \A k \in DOMAIN r.points :
                    rows[i].wall = rows[k].wall => r.points[i].freshness = r.points[k].freshness
    PROVE  LET held == Held(source, rows, r, freshness)
           IN held \subseteq Reading /\ Placed(held) /\ Single(held)
<1> DEFINE held == Held(source, rows, r, freshness)
           Point(i) == [source |-> source, series |-> rows[i].series, wall |-> rows[i].wall,
                interval |-> r.points[i].interval, value |-> r.points[i].value, retrieved |-> 0,
                freshness |-> IF r.points[i].freshness = Missing THEN freshness
                              ELSE r.points[i].freshness]
<1>1. held = {Point(i) : i \in DOMAIN r.points}
  BY DEF Held
<1>2. ASSUME NEW i \in DOMAIN r.points
      PROVE  /\ Point(i) \in Reading
             /\ Point(i).interval = LocalHourInterval(Point(i).wall)
             /\ \A k \in DOMAIN r.points :
                   Point(i).series = Point(k).series /\ Point(i).wall = Point(k).wall => Point(i) = Point(k)
  <2>1. rows[i].wall \in Busy /\ rows[i].series \in Channel \cup Ratio
    <3>1. rows[i] \in [wall : Busy, series : Channel \cup Ratio, value : {1}]
      BY <1>2, InSeq
    <3> QED BY <3>1
  <2>2. r.points[i].interval \in Int \X Int
    BY <2>1, IntervalType
  <2>3. Point(i) \in Reading
    BY <2>1, <2>2 DEF Reading
  <2>4. ASSUME NEW k \in DOMAIN r.points, rows[i].series = rows[k].series, rows[i].wall = rows[k].wall
        PROVE  Point(i) = Point(k)
    <3>1. /\ r.points[i].interval = r.points[k].interval /\ r.points[i].value = r.points[k].value
          /\ r.points[i].freshness = r.points[k].freshness
      BY <2>4
    <3> QED BY <2>4, <3>1
  <2> QED BY <2>3, <2>4
<1> HIDE DEF Point, held
<1>3. held \subseteq Reading /\ Placed(held)
  BY <1>1, <1>2 DEF Placed
<1>4. Single(held)
  BY <1>1, <1>2 DEF Single
<1> QED BY <1>3, <1>4 DEF held

\* The rows of both sources, normalised.
LEMMA GA4Points ==
    ASSUME TypeOK, NEW days
    PROVE  LET rows == GA4Rows(days)
               r == GA4Normalized([headers |-> "asked", zone |-> "zone", rows |-> rows])
           IN \A i \in DOMAIN r.points :
                 /\ i \in DOMAIN rows /\ r.points[i].value = 1
                 /\ r.points[i].interval = LocalHourInterval(rows[i].wall)
                 /\ r.points[i].freshness = Missing
<1> DEFINE rows == GA4Rows(days)
           r == GA4Normalized([headers |-> "asked", zone |-> "zone", rows |-> rows])
<1>1. \A i \in DOMAIN rows : rows[i] \in [wall : Busy, series : Channel, value : {1}]
  BY GA4RowsType, InSeq
<1>2. \/ r.points = <<>>
      \/ r.points = [i \in DOMAIN rows |->
            [series |-> rows[i].series, interval |-> GA4Interval(rows[i].wall),
             value |-> rows[i].value, freshness |-> Missing]]
  BY DEF GA4Normalized, Refused, Points
<1> HIDE DEF rows, r
<1>3. \A i \in DOMAIN rows : rows[i].wall \in Busy /\ rows[i].value = 1
  BY <1>1
<1>4. CASE r.points = <<>>
  BY <1>4 DEF rows, r
<1>5. CASE r.points # <<>>
  BY <1>2, <1>3, <1>5, SameInterval DEF rows, r
<1> QED BY <1>4, <1>5

LEMMA GAMPoints ==
    ASSUME NEW days, NEW profile, NEW today
    PROVE  LET rows == GAMRows(days)
               r == GAMNormalized([rows |-> rows, total |-> Len(rows), dates |-> days,
                                   today |-> today], profile)
           IN \A i \in DOMAIN r.points :
                 /\ i \in DOMAIN rows /\ r.points[i].value = 1
                 /\ r.points[i].interval = LocalHourInterval(rows[i].wall)
                 /\ r.points[i].freshness = GAMFreshness(Day(rows[i].wall), today)
<1> DEFINE rows == GAMRows(days)
           r == GAMNormalized([rows |-> rows, total |-> Len(rows), dates |-> days,
                               today |-> today], profile)
<1>1. \A i \in DOMAIN rows : rows[i] \in [wall : Busy, series : Ratio, value : {1}]
  BY GAMRowsType, InSeq
<1>2. \/ r.points = <<>>
      \/ r.points = [i \in DOMAIN rows |->
            [series |-> rows[i].series, interval |-> LocalHourInterval(rows[i].wall),
             value |-> rows[i].value, freshness |-> GAMFreshness(Day(rows[i].wall), today)]]
  BY DEF GAMNormalized, Refused, Points
<1> HIDE DEF rows, r
<1>3. \A i \in DOMAIN rows : rows[i].wall \in Busy /\ rows[i].value = 1
  BY <1>1
<1>4. CASE r.points = <<>>
  BY <1>4 DEF rows, r
<1>5. CASE r.points # <<>>
  BY <1>2, <1>3, <1>5 DEF rows, r
<1> QED BY <1>4, <1>5

------------------------------------------------------------------------------
(* Ratios.                                                                   *)

\* Of a series and an interval, one point is current.
LEMMA OneCurrent ==
    ASSUME Stored, NEW ps \in SUBSET points,
           NEW p \in BestCurrent(ps), NEW q \in BestCurrent(ps),
           p.series = q.series, p.interval = q.interval
    PROVE  p = q
<1>1. p \in points /\ q \in points
  BY DEF BestCurrent
<1>2. p.wall = q.wall
  <2>1. p.wall \in Busy /\ q.wall \in Busy
    BY <1>1 DEF Stored
  <2>2. LocalHourInterval(p.wall) = LocalHourInterval(q.wall)
    BY <1>1 DEF Stored, Placed
  <2> QED BY <2>1, <2>2, OneHour
<1>3. ~Supersedes(p, q) /\ ~Supersedes(q, p)
  BY DEF BestCurrent
<1>4. p.freshness \in Fresh /\ q.freshness \in Fresh /\ p.retrieved \in Int /\ q.retrieved \in Int
  BY <1>1 DEF Stored
<1>5. p.retrieved = q.retrieved
  BY <1>3, <1>4 DEF Supersedes, Fresh
<1> QED BY <1>1, <1>2, <1>5 DEF Stored, Single

LEMMA RatioSound ==
    ASSUME Stored, NEW ps \in SUBSET points, NEW m, NEW i, Comparable(BestCurrent(ps), i)
    PROVE  Sound(RatioOf(BestCurrent(ps), m, i))
<1> DEFINE best == BestCurrent(ps)
           n == OfSource(best, "GAM", i)
           d == OfSource(best, "GA4", i)
<1>1. RatioOf(best, m, i).inputs = n \cup d
  BY DEF RatioOf
<1>2. n \cup d \subseteq points
  BY DEF OfSource, BestCurrent
<1>3. ASSUME NEW p \in n \cup d, NEW q \in n \cup d, p.series = q.series
      PROVE  p = q
  <2>1. p \in best /\ q \in best /\ p.interval = q.interval
    BY <1>3 DEF OfSource
  <2> QED BY <1>3, <2>1, OneCurrent
<1>4. {p.source : p \in n \cup d} = {"GA4", "GAM"}
  <2>1. n # {} /\ d # {}
    BY DEF Comparable
  <2>2. (\A p \in n : p.source = "GAM") /\ (\A p \in d : p.source = "GA4")
    BY DEF OfSource
  <2> HIDE DEF n, d
  <2> QED BY <2>1, <2>2
<1> HIDE DEF n, d, best
<1> QED BY <1>1, <1>2, <1>3, <1>4 DEF Sound, best

LEMMA RatiosFinite ==
    ASSUME Stored, NEW ps \in SUBSET points, NEW m
    PROVE  IsFiniteSet(RatiosOf(ps, m))
<1> DEFINE best == BestCurrent(Relevant(ps, m))
           I == {j \in {p.interval : p \in best} : Comparable(best, j)}
           T == {LocalHourInterval(h) : h \in Busy}
           R == RatiosOf(ps, m)
<1> DEFINE f == [h \in Busy |-> LocalHourInterval(h)]
<1>1. f \in [Busy -> T] /\ \A t \in T : \E h \in Busy : f[h] = t
  OBVIOUS
<1>2. IsFiniteSet(T)
  <2> HIDE DEF f, T
  <2> QED BY <1>1, BusyFinite, FiniteImage
<1>3. I \subseteq T
  <2>1. \A p \in best : p \in points
    BY DEF BestCurrent, Relevant
  <2> QED BY <2>1 DEF Stored, Placed
<1>4. IsFiniteSet(I)
  BY <1>2, <1>3, FS_Subset
<1>5. R = {RatioOf(best, m, i) : i \in I}
  BY DEF RatiosOf
<1> HIDE DEF best, I, R
<1> DEFINE g == [i \in I |-> RatioOf(best, m, i)]
<1>6. g \in [I -> R] /\ \A t \in R : \E i \in I : g[i] = t
  BY <1>5
<1>7. IsFiniteSet(R)
  <2> HIDE DEF g
  <2> QED BY <1>4, <1>6, FiniteImage
<1> QED BY <1>7 DEF R

LEMMA FoundSound ==
    ASSUME Stored, NEW j
    PROVE  IsFiniteSet(Found(j)) /\ \A c \in Found(j) : Sound(c)
<1>1. InWindow(j) \in SUBSET points
  BY DEF InWindow
<1>2. \A m : Relevant(InWindow(j), m) \in SUBSET points
  BY <1>1 DEF Relevant
<1>3. ASSUME NEW c \in Found(j) PROVE Sound(c)
  <2>1. PICK m \in Ratio : c \in RatiosOf(InWindow(j), m)
    BY DEF Found
  <2>2. PICK i : /\ c = RatioOf(BestCurrent(Relevant(InWindow(j), m)), m, i)
                 /\ Comparable(BestCurrent(Relevant(InWindow(j), m)), i)
    BY <2>1 DEF RatiosOf
  <2> QED BY <1>2, <2>2, RatioSound
<1> DEFINE R(m) == RatiosOf(InWindow(j), m)
           T == {R(m) : m \in Ratio}
<1>4. \A t \in T : IsFiniteSet(t)
  BY <1>1, RatiosFinite
<1> DEFINE f == [m \in Ratio |-> R(m)]
<1>5. f \in [Ratio -> T] /\ \A t \in T : \E m \in Ratio : f[m] = t
  OBVIOUS
<1>6. IsFiniteSet(T)
  <2> HIDE DEF f, T
  <2> QED BY <1>5, FiniteImage, MetricsAssumption
<1>7. IsFiniteSet(UNION T)
  BY <1>4, <1>6, FS_UNION
<1> QED BY <1>3, <1>7 DEF Found

------------------------------------------------------------------------------
(* Steps.                                                                    *)

LEMMA SoundStays ==
    ASSUME points \subseteq points', NEW c, Sound(c)
    PROVE  Sound(c)'
BY DEF Sound

LEMMA KnownStays == UNCHANGED derived => \A c : Known(c) => Known(c)'
BY DEF Known

LEMMA ProgressStays ==
    ASSUME NEW w \in Worker, Progress(w), UNCHANGED <<pc[w], loaded[w], todo[w]>>,
           points \subseteq points', \A c : Known(c) => Known(c)'
    PROVE  Progress(w)'
<1>1. \A c \in loaded'[w] : Sound(c)'
  BY SoundStays DEF Progress
<1> QED BY <1>1 DEF Progress

\* The other handlers.
LEMMA OthersProgress ==
    ASSUME Handling, NEW w \in Worker, Progress(w)',
           loaded' = [x \in Worker |-> loaded'[x]], todo' = [x \in Worker |-> todo'[x]],
           \A x \in Worker \ {w} : UNCHANGED <<pc[x], loaded[x], todo[x]>>,
           points \subseteq points', \A c : Known(c) => Known(c)'
    PROVE  Handling'
<1>1. ASSUME NEW x \in Worker \ {w} PROVE Progress(x)'
  BY ProgressStays DEF Handling
<1>2. \A x \in Worker : Progress(x)'
  BY <1>1
<1> QED BY <1>2 DEF Handling

LEMMA PersistedStays ==
    ASSUME Persisted, UNCHANGED derived, points \subseteq points'
    PROVE  Persisted'
BY DEF Persisted, Sound, SameKey

LEMMA StoredStays ==
    ASSUME Stored, UNCHANGED <<points, complete>>
    PROVE  Stored'
BY DEF Stored, Placed, Single

LEMMA CallsStay ==
    ASSUME Calls, UNCHANGED answer, \A w \in Worker : pc[w] = "write" => pc'[w] = "write"
    PROVE  Calls'
BY DEF Calls, Placed, Single

\* The world goes on, or the scheduler plans.
LEMMA RestStays ==
    ASSUME IInv, UNCHANGED <<pc, dataVars, callVars>>
    PROVE  Stored' /\ Calls' /\ Handling' /\ Persisted'
<1> USE DEF dataVars, callVars
<1>1. Stored' /\ Calls' /\ Persisted'
  BY StoredStays, CallsStay, PersistedStays DEF IInv
<1>2. ASSUME NEW w \in Worker PROVE Progress(w)'
  BY ProgressStays, KnownStays DEF IInv, Handling
<1>3. Handling'
  BY <1>2 DEF IInv, Handling
<1> QED BY <1>1, <1>3

LEMMA WorkStays ==
    ASSUME Work, UNCHANGED <<queueVars, handlerVars>>
    PROVE  Work'
BY DEF Work, WorkerTypeOK, queueVars, handlerVars

LEMMA WorldSteps ==
    ASSUME IInv, \/ \E later \in DOMAIN Wall : Tick(later)
                 \/ \E h \in Busy : Reattribute(h)
    PROVE  IInv'
<1>1. CASE \E later \in DOMAIN Wall : Tick(later)
  <2>1. Work'
    BY <1>1, WorkStays DEF Tick, IInv
  <2>2. World'
    BY <1>1 DEF Tick, IInv, World
  <2>3. Stored' /\ Calls' /\ Handling' /\ Persisted'
    BY <1>1, RestStays DEF Tick, handlerVars
  <2> QED BY <2>1, <2>2, <2>3 DEF IInv
<1>2. CASE \E h \in Busy : Reattribute(h)
  <2>1. Work'
    BY <1>2, WorkStays DEF Reattribute, IInv
  <2>2. World'
    BY <1>2 DEF Reattribute, IInv, World
  <2>3. Stored' /\ Calls' /\ Handling' /\ Persisted'
    BY <1>2, RestStays DEF Reattribute, handlerVars
  <2> QED BY <2>1, <2>2, <2>3 DEF IInv
<1> QED BY <1>1, <1>2

LEMMA QueueSteps ==
    ASSUME IInv, NEW j \in Job,
           GA4Schedule(j) \/ GAMSchedule(j) \/ CrossSourceSchedule(j) \/ Lose(j)
    PROVE  IInv'
<1>1. CASE Plan(j)
  <2>1. Work'
    BY <1>1, EnqueueType DEF Plan, IInv, Work
  <2>2. World'
    BY <1>1 DEF Plan, IInv, World
  <2>3. Stored' /\ Calls' /\ Handling' /\ Persisted'
    BY <1>1, RestStays DEF Plan, handlerVars
  <2> QED BY <2>1, <2>2, <2>3 DEF IInv
<1>2. CASE Lose(j)
  <2>1. Work'
    BY <1>2, TakeBackType DEF Lose, IInv, Work
  <2>2. World'
    BY <1>2 DEF Lose, IInv, World
  <2>3. Stored' /\ Calls' /\ Handling' /\ Persisted'
    BY <1>2, RestStays DEF Lose, TakeBack, handlerVars
  <2> QED BY <2>1, <2>2, <2>3 DEF IInv
<1> QED BY <1>1, <1>2 DEF GA4Schedule, GAMSchedule, CrossSourceSchedule

LEMMA TakeKeeps ==
    ASSUME IInv, NEW w \in Worker, NEW j \in Job, Take(w, j)
    PROVE  IInv'
<1>1. PICK s \in {"ask", "load"} : Claim(w, j, s)
  BY DEF Take
<1>2. pc[w] = "idle" /\ pc' = [pc EXCEPT ![w] = s] /\ UNCHANGED <<now, channel, dataVars, callVars>>
  BY <1>1 DEF Take, Claim
<1>3. /\ pc'[w] = s /\ \A x \in Worker \ {w} : pc'[x] = pc[x]
  BY <1>2 DEF IInv, Work, WorkerTypeOK
<1>4. Work'
  BY <1>1, ClaimType DEF IInv, Work, Place
<1>5. World' /\ Stored' /\ Persisted'
  BY <1>2, StoredStays, PersistedStays DEF IInv, World, dataVars
<1>6. Calls'
  BY <1>2, <1>3, CallsStay DEF IInv, callVars
<1>7. loaded[w] = {} /\ todo[w] = <<>>
  BY <1>2 DEF IInv, Handling, Progress, Outcome
<1>8. Progress(w)'
  BY <1>2, <1>3, <1>7 DEF Progress, callVars, IInv, Handling
<1>9. Handling'
  BY <1>2, <1>3, <1>8, OthersProgress, KnownStays DEF IInv, Handling, callVars, dataVars
<1> QED BY <1>4, <1>5, <1>6, <1>9 DEF IInv

LEMMA FinishKeeps ==
    ASSUME IInv, NEW w \in Worker, Finish(w)
    PROVE  IInv'
<1>1. /\ pc[w] \in Outcome /\ pc' = [pc EXCEPT ![w] = "idle"] /\ loaded' = [loaded EXCEPT ![w] = {}]
      /\ UNCHANGED <<now, channel, dataVars, answer, todo>>
  BY DEF Finish, Report
<1>2. /\ pc'[w] = "idle" /\ \A x \in Worker \ {w} : pc'[x] = pc[x]
  BY <1>1 DEF IInv, Work, WorkerTypeOK
<1>3. Work'
  BY ReportType DEF Finish, IInv, Work
<1>4. World' /\ Stored' /\ Persisted'
  BY <1>1, StoredStays, PersistedStays DEF IInv, World, dataVars
<1>5. Calls'
  BY <1>1, <1>2, CallsStay DEF IInv, Outcome
<1>6. /\ loaded'[w] = {} /\ \A x \in Worker \ {w} : loaded'[x] = loaded[x]
      /\ loaded' = [x \in Worker |-> loaded'[x]]
  BY <1>1 DEF IInv, Handling
<1>7. todo[w] = <<>>
  BY <1>1 DEF IInv, Handling, Progress, Outcome
<1>8. Progress(w)'
  BY <1>1, <1>2, <1>6, <1>7 DEF Progress
<1>9. Handling'
  BY <1>1, <1>2, <1>6, <1>8, OthersProgress, KnownStays DEF IInv, Handling, dataVars
<1> QED BY <1>3, <1>4, <1>5, <1>9 DEF IInv

LEMMA BreakKeeps ==
    ASSUME IInv, NEW w \in Worker, Break(w)
    PROVE  IInv'
<1>1. /\ pc[w] \in Place /\ pc' = [pc EXCEPT ![w] = "failed"]
      /\ answer' = [answer EXCEPT ![w] = {}] /\ todo' = [todo EXCEPT ![w] = <<>>]
      /\ UNCHANGED <<queueVars, job, now, channel, dataVars, loaded>>
  BY DEF Break
<1>2. /\ pc'[w] = "failed" /\ \A x \in Worker \ {w} : pc'[x] = pc[x]
  BY <1>1 DEF IInv, Work, WorkerTypeOK
<1>3. Work'
  BY <1>1, GoesType DEF IInv, Work, Outcome, Place
<1>4. World' /\ Stored' /\ Persisted'
  BY <1>1, StoredStays, PersistedStays DEF IInv, World, dataVars
<1>5. Calls'
  BY <1>1, <1>2 DEF IInv, Calls, Placed, Single
<1>6. /\ todo'[w] = <<>> /\ \A x \in Worker \ {w} : todo'[x] = todo[x]
      /\ todo' = [x \in Worker |-> todo'[x]]
  BY <1>1 DEF IInv, Handling
<1>7. \A c \in loaded'[w] : Sound(c)'
  BY <1>1, SoundStays DEF IInv, Handling, Progress, dataVars
<1>8. Progress(w)'
  <2>1. pc'[w] \in Outcome /\ pc'[w] # "persist" /\ pc'[w] # "done"
    BY <1>2 DEF Outcome
  <2>2. todo'[w] \in Seq(loaded'[w])
    BY <1>6
  <2> QED BY <1>6, <1>7, <2>1, <2>2 DEF Progress
<1>9. Handling'
  BY <1>1, <1>2, <1>6, <1>8, OthersProgress, KnownStays DEF IInv, Handling, dataVars
<1> QED BY <1>3, <1>4, <1>5, <1>9 DEF IInv

LEMMA AskKeeps ==
    ASSUME IInv, NEW w \in Worker, NEW held \in SUBSET Reading,
           Placed(held), Single(held), Ask(w, held)
    PROVE  IInv'
<1>1. /\ pc[w] = "ask" /\ pc' = [pc EXCEPT ![w] = "write"]
      /\ answer' = [answer EXCEPT ![w] = held]
      /\ UNCHANGED <<queueVars, job, now, channel, dataVars, loaded, todo>>
  BY DEF Ask, Goes
<1>2. /\ pc'[w] = "write" /\ \A x \in Worker \ {w} : pc'[x] = pc[x]
  BY <1>1 DEF IInv, Work, WorkerTypeOK
<1>3. Work'
  BY <1>1, GoesType DEF IInv, Work, Place
<1>4. World' /\ Stored' /\ Persisted'
  BY <1>1, StoredStays, PersistedStays DEF IInv, World, dataVars
<1>5. Calls'
  <2>1. answer'[w] = held /\ \A x \in Worker \ {w} : answer'[x] = answer[x]
    BY <1>1 DEF IInv, Calls
  <2>2. answer' \in [Worker -> SUBSET Reading]
    BY <1>1 DEF IInv, Calls
  <2> QED BY <1>2, <2>1, <2>2 DEF IInv, Calls, Placed, Single
<1>6. loaded[w] = {} /\ todo[w] = <<>>
  BY <1>1 DEF IInv, Handling, Progress, Outcome
<1>7. Progress(w)'
  BY <1>1, <1>2, <1>6 DEF Progress, IInv, Handling
<1>8. Handling'
  BY <1>1, <1>2, <1>7, OthersProgress, KnownStays DEF IInv, Handling, dataVars
<1> QED BY <1>3, <1>4, <1>5, <1>8 DEF IInv

LEMMA AsksKeep ==
    ASSUME IInv, TypeOK, NEW w \in Worker, GA4Ask(w) \/ GAMAsk(w)
    PROVE  IInv'
<1>1. CASE GA4Ask(w)
  <2> DEFINE j == job[w]
  <2>1. PICK days : days = GA4Days(j)
    OBVIOUS
  <2> DEFINE rows == GA4Rows(days)
             r == GA4Normalized([headers |-> "asked", zone |-> "zone", rows |-> rows])
             held == Held("GA4", rows, r, j.freshness)
  <2>2. j # Null /\ j.kind = "GA4" /\ Ask(w, held)
    BY <1>1, <2>1 DEF GA4Ask
  <2>3. j.freshness \in Fresh
    BY <2>2, MetricsAssumption DEF TypeOK, WorkerTypeOK, Fresh
  <2>4. rows \in Seq([wall : Busy, series : Channel \cup Ratio, value : {1}])
    <3>1. rows \in Seq([wall : Busy, series : Channel, value : {1}])
      BY GA4RowsType
    <3>2. [wall : Busy, series : Channel, value : {1}]
             \subseteq [wall : Busy, series : Channel \cup Ratio, value : {1}]
      OBVIOUS
    <3> HIDE DEF rows
    <3> QED BY <3>1, <3>2, WiderSeq
  <2>5. \A i \in DOMAIN r.points :
              /\ i \in DOMAIN rows /\ r.points[i].value = 1
              /\ r.points[i].interval = LocalHourInterval(rows[i].wall)
              /\ r.points[i].freshness = Missing
    BY GA4Points
  <2> HIDE DEF rows, r, j
  <2>6. held \subseteq Reading /\ Placed(held) /\ Single(held)
    BY <2>3, <2>4, <2>5, HeldSound
  <2> HIDE DEF held
  <2>7. PICK h \in SUBSET Reading : h = held
    BY <2>6
  <2>8. Ask(w, h) /\ Placed(h) /\ Single(h)
    BY <2>2, <2>6, <2>7
  <2> QED BY <2>8, AskKeeps
<1>2. CASE GAMAsk(w)
  <2>1. PICK profile, today : profile = job[w].profile /\ today = Today
    OBVIOUS
  <2> DEFINE days == GAMPeriod(profile, today)
             rows == GAMRows(days)
             r == GAMNormalized([rows |-> rows, total |-> Len(rows), dates |-> days,
                                 today |-> today], profile)
             held == Held("GAM", rows, r, "PRELIMINARY")
  <2>2. Ask(w, held)
    BY <1>2, <2>1 DEF GAMAsk
  <2>3. rows \in Seq([wall : Busy, series : Channel \cup Ratio, value : {1}])
    <3>1. rows \in Seq([wall : Busy, series : Ratio, value : {1}])
      BY GAMRowsType
    <3>2. [wall : Busy, series : Ratio, value : {1}]
             \subseteq [wall : Busy, series : Channel \cup Ratio, value : {1}]
      OBVIOUS
    <3> HIDE DEF rows
    <3> QED BY <3>1, <3>2, WiderSeq
  <2>4. \A i \in DOMAIN r.points :
              /\ i \in DOMAIN rows /\ r.points[i].value = 1
              /\ r.points[i].interval = LocalHourInterval(rows[i].wall)
              /\ r.points[i].freshness = GAMFreshness(Day(rows[i].wall), today)
    BY GAMPoints
  <2>5. \A day : GAMFreshness(day, today) \in Fresh
    BY DEF GAMFreshness, Fresh
  <2> HIDE DEF rows, r
  <2>6. \A i \in DOMAIN r.points :
              /\ i \in DOMAIN rows /\ r.points[i].value = 1
              /\ r.points[i].interval = LocalHourInterval(rows[i].wall)
              /\ r.points[i].freshness \in Fresh \cup {Missing}
              /\ \A k \in DOMAIN r.points :
                    rows[i].wall = rows[k].wall => r.points[i].freshness = r.points[k].freshness
    BY <2>4, <2>5
  <2>7. held \subseteq Reading /\ Placed(held) /\ Single(held)
    BY <2>3, <2>6, HeldSound DEF Fresh
  <2> HIDE DEF held
  <2>8. PICK h \in SUBSET Reading : h = held
    BY <2>7
  <2>9. Ask(w, h) /\ Placed(h) /\ Single(h)
    BY <2>2, <2>7, <2>8
  <2> QED BY <2>9, AskKeeps
<1> QED BY <1>1, <1>2

LEMMA WriteKeeps ==
    ASSUME IInv, NEW w \in Worker, Write(w)
    PROVE  IInv'
<1>1. /\ pc[w] = "write" /\ pc' = [pc EXCEPT ![w] = "done"]
      /\ answer' = [answer EXCEPT ![w] = {}]
      /\ UNCHANGED <<queueVars, job, now, channel, derived, loaded, todo>>
  BY DEF Write, Goes
<1>2. /\ pc'[w] = "done" /\ \A x \in Worker \ {w} : pc'[x] = pc[x]
  BY <1>1 DEF IInv, Work, WorkerTypeOK
<1>3. Work'
  BY <1>1, GoesType DEF IInv, Work, Outcome
<1>4. \/ UNCHANGED <<points, complete>>
      \/ /\ complete' = Append(complete, job[w])
         /\ points' = points \cup {[p EXCEPT !.retrieved = Len(complete')] : p \in answer[w]}
  BY DEF Write
<1>5. Stored'
  <2>1. CASE UNCHANGED <<points, complete>>
    BY <2>1, StoredStays DEF IInv
  <2>2. CASE /\ complete' = Append(complete, job[w])
             /\ points' = points \cup {[p EXCEPT !.retrieved = Len(complete')] : p \in answer[w]}
    <3>1. job[w] \in Job
      BY <1>1 DEF IInv, Work, WorkerTypeOK
    <3>2. PICK n : n = Len(complete')
      OBVIOUS
    <3>3. /\ n \in Nat /\ n = Len(complete) + 1 /\ DOMAIN complete' = 1 .. n
          /\ DOMAIN complete = 1 .. (n - 1) /\ complete' \in Seq(Job)
      BY <2>2, <3>1, <3>2 DEF IInv, Stored
    <3> DEFINE new == {[p EXCEPT !.retrieved = n] : p \in answer[w]}
    <3>4. points' = points \cup new
      BY <2>2, <3>2
    <3>5. answer[w] \subseteq Reading /\ Placed(answer[w]) /\ Single(answer[w])
      BY DEF IInv, Calls
    <3>6. \A p \in Reading : LET q == [p EXCEPT !.retrieved = n] IN
             /\ q.source = p.source /\ q.wall = p.wall /\ q.series = p.series
             /\ q.freshness = p.freshness /\ q.interval = p.interval /\ q.retrieved = n
             /\ p.retrieved = 0
      BY DEF Reading
    <3>7. \A p \in new :
             /\ p.source \in {"GA4", "GAM"} /\ p.wall \in Busy
             /\ p.series \in Channel \cup Ratio
             /\ p.freshness \in Fresh /\ p.retrieved = n
      BY <3>5, <3>6 DEF Reading
    <3>8. Placed(new)
      <4>1. ASSUME NEW x \in new PROVE x.interval = LocalHourInterval(x.wall)
        <5>1. PICK p \in answer[w] : x = [p EXCEPT !.retrieved = n]
          OBVIOUS
        <5>2. x.interval = p.interval /\ x.wall = p.wall
          BY <3>5, <3>6, <5>1
        <5>3. p.interval = LocalHourInterval(p.wall)
          BY <3>5 DEF Placed
        <5> QED BY <5>2, <5>3
      <4> QED BY <4>1 DEF Placed
    <3>9. Single(new)
      <4>1. ASSUME NEW p \in answer[w], NEW q \in answer[w], p.series = q.series, p.wall = q.wall
            PROVE  p = q
        <5>1. p.retrieved = q.retrieved
          BY <3>5, <3>6
        <5> QED BY <3>5, <4>1, <5>1 DEF Single
      <4>2. ASSUME NEW x \in new, NEW y \in new, x.series = y.series, x.wall = y.wall
            PROVE  x = y
        <5>1. PICK p \in answer[w] : x = [p EXCEPT !.retrieved = n]
          OBVIOUS
        <5>2. PICK q \in answer[w] : y = [q EXCEPT !.retrieved = n]
          OBVIOUS
        <5>3. p.series = q.series /\ p.wall = q.wall
          BY <3>5, <3>6, <4>2, <5>1, <5>2
        <5> QED BY <4>1, <5>1, <5>2, <5>3
      <4> QED BY <4>2 DEF Single
    <3>10. \A p \in points : p.retrieved \in 1 .. (n - 1)
      BY <3>3 DEF IInv, Stored
    <3> HIDE DEF new
    <3>11. Single(points \cup new)
      <4>1. \A p \in points, q \in new : p.retrieved # q.retrieved
        BY <3>3, <3>7, <3>10
      <4> QED BY <3>9, <4>1 DEF Single, IInv, Stored
    <3>12. Placed(points \cup new)
      BY <3>8 DEF Placed, IInv, Stored
    <3>13. Placed(points)' /\ Single(points)'
      BY <3>4, <3>11, <3>12 DEF Placed, Single
    <3>14. \A p \in points' :
             /\ p.source \in {"GA4", "GAM"} /\ p.wall \in Busy
             /\ p.series \in Channel \cup Ratio
             /\ p.freshness \in Fresh /\ p.retrieved \in 1 .. n
      BY <3>3, <3>4, <3>7, <3>10 DEF IInv, Stored
    <3> QED BY <3>3, <3>13, <3>14 DEF Stored
  <2> QED BY <1>4, <2>1, <2>2
<1>6. points \subseteq points'
  BY <1>4
<1>7. World' /\ Persisted'
  BY <1>1, <1>6, PersistedStays DEF IInv, World
<1>8. Calls'
  <2>1. answer'[w] = {} /\ \A x \in Worker \ {w} : answer'[x] = answer[x]
    BY <1>1 DEF IInv, Calls
  <2>2. answer' \in [Worker -> SUBSET Reading]
    BY <1>1 DEF IInv, Calls
  <2> QED BY <1>2, <2>1, <2>2 DEF IInv, Calls, Placed, Single
<1>9. loaded[w] = {} /\ todo[w] = <<>>
  BY <1>1 DEF IInv, Handling, Progress, Outcome
<1>10. Progress(w)'
  BY <1>1, <1>2, <1>9 DEF Progress, IInv, Handling
<1>11. Handling'
  BY <1>1, <1>2, <1>6, <1>10, OthersProgress, KnownStays DEF IInv, Handling
<1> QED BY <1>3, <1>5, <1>7, <1>8, <1>11 DEF IInv

LEMMA LoadKeeps ==
    ASSUME IInv, NEW w \in Worker, Load(w)
    PROVE  IInv'
<1>1. PICK found : found = Found(job[w])
  OBVIOUS
<1>2. /\ pc[w] = "load" /\ pc' = [pc EXCEPT ![w] = IF found = {} THEN "done" ELSE "persist"]
      /\ loaded' = [loaded EXCEPT ![w] = found]
      /\ todo' = [todo EXCEPT ![w] = Seqs!SetToSeq(found)]
      /\ UNCHANGED <<queueVars, job, now, channel, dataVars, answer>>
  BY <1>1 DEF Load, Goes
<1>3. /\ pc'[w] = IF found = {} THEN "done" ELSE "persist"
      /\ \A x \in Worker \ {w} : pc'[x] = pc[x]
  BY <1>2 DEF IInv, Work, WorkerTypeOK
<1>4. Work'
  BY <1>2, GoesType DEF IInv, Work, Outcome, Place
<1>5. World' /\ Stored' /\ Persisted'
  BY <1>2, StoredStays, PersistedStays DEF IInv, World, dataVars
<1>6. Calls'
  BY <1>2, <1>3, CallsStay DEF IInv
<1>7. /\ loaded'[w] = found /\ \A x \in Worker \ {w} : loaded'[x] = loaded[x]
      /\ loaded' = [x \in Worker |-> loaded'[x]]
  BY <1>2 DEF IInv, Handling
<1>8. /\ todo'[w] = Seqs!SetToSeq(found) /\ \A x \in Worker \ {w} : todo'[x] = todo[x]
      /\ todo' = [x \in Worker |-> todo'[x]]
  BY <1>2 DEF IInv, Handling
<1>9. IsFiniteSet(found) /\ \A c \in found : Sound(c)
  BY <1>1, FoundSound DEF IInv
<1>10. todo'[w] \in Seq(found) /\ \A c \in found : \E i \in DOMAIN todo'[w] : todo'[w][i] = c
  BY <1>8, <1>9, SeqOf
<1>11. \A c \in found : Sound(c)'
  BY <1>2, <1>9, SoundStays DEF dataVars
<1>12. Progress(w)'
  <2>1. CASE found = {}
    <3>1. todo'[w] = <<>>
      BY <1>10, <2>1
    <3> QED BY <1>3, <1>7, <1>10, <2>1, <3>1 DEF Progress
  <2>2. CASE found # {}
    <3>1. pc'[w] = "persist"
      BY <1>3, <2>2
    <3> QED BY <1>7, <1>10, <1>11, <3>1 DEF Progress
  <2> QED BY <2>1, <2>2
<1>13. Handling'
  BY <1>2, <1>3, <1>7, <1>8, <1>12, OthersProgress, KnownStays DEF IInv, Handling, dataVars
<1> QED BY <1>4, <1>5, <1>6, <1>13 DEF IInv

LEMMA OfItsOwn ==
    ASSUME NEW S, NEW t \in Seq(S)
    PROVE  t \in Seq({t[i] : i \in DOMAIN t})
<1> DEFINE R == {t[i] : i \in DOMAIN t}
<1>1. Len(t) \in Nat /\ t \in [1 .. Len(t) -> S] /\ DOMAIN t = 1 .. Len(t)
  OBVIOUS
<1>2. \A i \in 1 .. Len(t) : t[i] \in R
  BY <1>1
<1> HIDE DEF R
<1>3. t \in [1 .. Len(t) -> R]
  BY <1>1, <1>2
<1>4. t \in Seq(R)
  BY <1>1, <1>3
<1> QED BY <1>4 DEF R

\* One more at the end.
LEMMA Appended ==
    ASSUME NEW s, s \in Seq({s[i] : i \in DOMAIN s}), NEW c, NEW t, t = Append(s, c)
    PROVE  /\ t \in Seq({t[i] : i \in DOMAIN t})
           /\ DOMAIN s = 1 .. Len(s) /\ Len(s) \in Nat /\ DOMAIN t = 1 .. (Len(s) + 1)
           /\ t[Len(s) + 1] = c /\ \A i \in 1 .. Len(s) : t[i] = s[i]
<1> DEFINE S == {s[i] : i \in DOMAIN s} \cup {c}
<1>1. s \in Seq(S) /\ c \in S
  BY WiderSeq
<1> HIDE DEF S
<1>2. /\ t \in Seq(S) /\ Len(s) \in Nat /\ DOMAIN s = 1 .. Len(s)
      /\ Len(t) = Len(s) + 1 /\ DOMAIN t = 1 .. (Len(s) + 1)
      /\ t[Len(s) + 1] = c /\ \A i \in 1 .. Len(s) : t[i] = s[i]
  <2>1. /\ Len(s) \in Nat /\ DOMAIN s = 1 .. Len(s) /\ \A i \in 1 .. Len(s) : s[i] \in S
        /\ Append(s, c) \in Seq(S) /\ Len(Append(s, c)) = Len(s) + 1
    BY <1>1
  <2>2. /\ t[Len(s) + 1] = c /\ \A i \in 1 .. Len(s) : t[i] = s[i]
    BY <1>1
  <2> QED BY <2>1, <2>2
<1> QED BY <1>2, OfItsOwn

\* A derivation that is persisted is sound, and no other has its key.
LEMMA PersistedGrows ==
    ASSUME Persisted, NEW c, Sound(c), Valid(c), ~Known(c),
           UNCHANGED points, derived' = Append(derived, c)
    PROVE  Persisted' /\ Known(c)' /\ \A b : Known(b) => Known(b)'
<1> DEFINE n == Len(derived)
<1>1. /\ derived' \in Seq({derived'[i] : i \in DOMAIN derived'})
      /\ DOMAIN derived = 1 .. n /\ n \in Nat /\ DOMAIN derived' = 1 .. (n + 1)
      /\ derived'[n + 1] = c /\ \A i \in 1 .. n : derived'[i] = derived[i]
  BY SMTT(60), Appended DEF Persisted
<1> HIDE DEF n
<1>2. \A p \in c.inputs : p.interval = c.interval /\ p.freshness = c.freshness
  BY DEF Valid
<1>3. ASSUME NEW i \in DOMAIN derived'
      PROVE  /\ derived'[i].inputs \subseteq points'
             /\ \A p, q \in derived'[i].inputs : p.series = q.series => p = q
             /\ {p.source : p \in derived'[i].inputs} = {"GA4", "GAM"}
             /\ \A p \in derived'[i].inputs : p.interval = derived'[i].interval
                                           /\ p.freshness = derived'[i].freshness
  <2>1. PICK d : d = derived'[i]
    OBVIOUS
  <2>2. Sound(d) /\ \A p \in d.inputs : p.interval = d.interval /\ p.freshness = d.freshness
    <3>1. CASE i = n + 1
      BY <1>1, <1>2, <2>1, <3>1
    <3>2. CASE i \in 1 .. n
      <4>1. d = derived[i] /\ i \in DOMAIN derived
        BY <1>1, <2>1, <3>2
      <4> QED BY <4>1 DEF Persisted
    <3> QED BY <1>1, <3>1, <3>2
  <2> QED BY <2>1, <2>2 DEF Sound
<1>4. ASSUME NEW i \in DOMAIN derived', NEW k \in DOMAIN derived', SameKey(derived'[i], derived'[k])
      PROVE  i = k
  <2>1. CASE i \in 1 .. n /\ k \in 1 .. n
    BY <1>1, <1>4, <2>1 DEF Persisted
  <2>2. CASE i \in 1 .. n /\ k = n + 1
    BY <1>1, <1>4, <2>2 DEF Known
  <2>3. CASE i = n + 1 /\ k \in 1 .. n
    BY <1>1, <1>4, <2>3 DEF Known, SameKey
  <2> QED BY <1>1, <2>1, <2>2, <2>3
<1>5. Persisted'
  <2>1. \A i \in DOMAIN derived' : Sound(derived[i])'
    BY <1>3 DEF Sound
  <2> QED BY <1>1, <1>3, <1>4, <2>1 DEF Persisted, SameKey
<1>6. Known(c)'
  BY <1>1 DEF Known, SameKey
<1>7. ASSUME NEW b, Known(b) PROVE Known(b)'
  BY <1>1, <1>7 DEF Known, SameKey
<1> QED BY <1>5, <1>6, <1>7

LEMMA PersistKeeps ==
    ASSUME IInv, NEW w \in Worker, Persist(w)
    PROVE  IInv'
<1>1. PICK c, rest : c = Head(todo[w]) /\ rest = IF Valid(c) THEN Tail(todo[w]) ELSE <<>>
  OBVIOUS
<1>2. PICK to \in {"raised", "persist", "done"} :
         /\ to = IF ~Valid(c) THEN "raised" ELSE IF rest # <<>> THEN "persist" ELSE "done"
         /\ pc[w] = "persist" /\ pc' = [pc EXCEPT ![w] = to]
  BY <1>1 DEF Persist, Goes
<1>3. /\ todo[w] # <<>> /\ todo' = [todo EXCEPT ![w] = rest]
      /\ derived' = IF Valid(c) /\ ~Known(c) THEN Append(derived, c) ELSE derived
      /\ UNCHANGED <<queueVars, job, now, channel, points, complete, answer, loaded>>
  BY <1>1 DEF Persist, Goes
<1>4. /\ pc'[w] = to /\ \A x \in Worker \ {w} : pc'[x] = pc[x]
  BY <1>2 DEF IInv, Work, WorkerTypeOK
<1>5. Work'
  BY <1>2, <1>3, GoesType DEF IInv, Work, Outcome, Place
<1>6. World' /\ Stored'
  BY <1>3, StoredStays DEF IInv, World
<1>7. Calls'
  BY <1>2, <1>3, <1>4, CallsStay DEF IInv
<1>8. Progress(w) /\ todo[w] \in Seq(loaded[w])
  BY DEF IInv, Handling, Progress
<1>9. PICK s : s = todo[w]
  OBVIOUS
<1>10. /\ c = s[1] /\ c \in loaded[w] /\ Len(s) \in Nat /\ DOMAIN s = 1 .. Len(s)
       /\ Tail(s) \in Seq(loaded[w]) /\ DOMAIN Tail(s) = 1 .. (Len(s) - 1)
       /\ \A i \in 1 .. (Len(s) - 1) : Tail(s)[i] = s[i + 1]
  <2>1. PICK S : S = loaded[w]
    OBVIOUS
  <2>2. s \in Seq(S) /\ s # <<>> /\ c = Head(s)
    BY <1>1, <1>3, <1>8, <1>9, <2>1
  <2>3. c = s[1] /\ c \in S /\ Len(s) \in Nat /\ DOMAIN s = 1 .. Len(s)
    BY <2>2
  <2>4. /\ Tail(s) \in Seq(S) /\ DOMAIN Tail(s) = 1 .. (Len(s) - 1)
        /\ \A i \in 1 .. (Len(s) - 1) : Tail(s)[i] = s[i + 1]
    BY <2>2
  <2> QED BY <2>1, <2>3, <2>4
<1>11. Sound(c)
  BY <1>8, <1>10 DEF Progress
<1>12. /\ Persisted' /\ (Valid(c) => Known(c)')
       /\ \A b : Known(b) => Known(b)'
  <2>1. CASE Valid(c) /\ ~Known(c)
    BY <1>3, <1>11, <2>1, PersistedGrows DEF IInv
  <2>2. CASE ~(Valid(c) /\ ~Known(c))
    BY <1>3, <2>2, PersistedStays, KnownStays DEF IInv
  <2> QED BY <2>1, <2>2
<1>13. /\ todo'[w] = rest /\ \A x \in Worker \ {w} : todo'[x] = todo[x]
       /\ todo' = [x \in Worker |-> todo'[x]]
  BY <1>3 DEF IInv, Handling
<1>14. \A b \in loaded'[w] : Sound(b)'
  BY <1>3, <1>8, SoundStays DEF Progress
<1>15. rest \in Seq(loaded'[w])
  <2>1. <<>> \in Seq(loaded'[w])
    OBVIOUS
  <2>2. CASE Valid(c)
    BY <1>1, <1>3, <1>9, <1>10, <2>2
  <2>3. CASE ~Valid(c)
    BY <1>1, <2>1, <2>3
  <2> QED BY <2>2, <2>3
<1>16. ASSUME Valid(c), NEW b \in loaded[w]
       PROVE  Known(b)' \/ \E i \in DOMAIN rest : rest[i] = b
  <2>1. rest = Tail(s)
    BY <1>1, <1>9, <1>16
  <2>2. CASE Known(b)
    BY <1>12, <2>2
  <2>3. CASE \E i \in DOMAIN s : s[i] = b
    <3>1. PICK i \in 1 .. Len(s) : s[i] = b
      BY <1>10, <2>3
    <3>2. CASE i = 1
      BY <1>10, <1>12, <1>16, <3>1, <3>2
    <3>3. CASE i # 1
      <4>1. i - 1 \in 1 .. (Len(s) - 1) /\ Tail(s)[i - 1] = b
        BY <1>10, <3>1, <3>3
      <4> QED BY <1>10, <2>1, <4>1
    <3> QED BY <3>2, <3>3
  <2> QED BY <1>2, <1>8, <1>9, <2>2, <2>3 DEF Progress
<1>17. Progress(w)'
  <2>1. CASE ~Valid(c)
    <3>1. to = "raised" /\ rest = <<>>
      BY <1>1, <1>2, <2>1
    <3> QED BY <1>4, <1>13, <1>14, <1>15, <3>1 DEF Progress, Outcome
  <2>2. CASE Valid(c) /\ rest # <<>>
    <3>1. to = "persist"
      BY <1>2, <2>2
    <3> QED BY <1>3, <1>4, <1>13, <1>14, <1>15, <1>16, <2>2, <3>1 DEF Progress
  <2>3. CASE Valid(c) /\ rest = <<>>
    <3>1. to = "done" /\ \A b \in loaded[w] : Known(b)'
      BY <1>2, <1>16, <2>3
    <3> QED BY <1>3, <1>4, <1>13, <1>14, <1>15, <2>3, <3>1 DEF Progress, Outcome
  <2> QED BY <2>1, <2>2, <2>3
<1>18. Handling'
  BY <1>3, <1>4, <1>12, <1>13, <1>17, OthersProgress DEF IInv, Handling
<1> QED BY <1>5, <1>6, <1>7, <1>12, <1>18 DEF IInv

------------------------------------------------------------------------------
(* The theorems.                                                             *)

LEMMA IInvTyped == IInv => TypeOK
BY DEF IInv, TypeOK, Work, World, Stored, Calls, Handling, Progress, Persisted, Sound

LEMMA InitIInv == Init => IInv
<1> SUFFICES ASSUME Init PROVE IInv
  OBVIOUS
<1>1. Work
  BY WorkerAssumption DEF Init, WorkerInit, Queue!Init, Work, WorkerTypeOK, Queue!Phase, Outcome, Place
<1>2. World
  <2>1. First(DOMAIN Wall) \in DOMAIN Wall
    BY Extremes, ClockAssumption
  <2> QED BY <2>1 DEF Init, World
<1>3. Stored /\ Calls
  BY DEF Init, Stored, Calls, Placed, Single
<1>4. Handling
  BY DEF Init, WorkerInit, Handling, Progress, Outcome
<1>5. Persisted
  BY DEF Init, Persisted
<1> QED BY <1>1, <1>2, <1>3, <1>4, <1>5 DEF IInv

LEMMA NextIInv == IInv /\ [Next]_vars => IInv'
<1> SUFFICES ASSUME IInv, [Next]_vars PROVE IInv'
  OBVIOUS
<1>1. CASE Next
  BY <1>1, WorldSteps, QueueSteps, TakeKeeps, FinishKeeps, BreakKeeps, AsksKeep, WriteKeeps,
     LoadKeeps, PersistKeeps, IInvTyped DEF Next
<1>2. CASE UNCHANGED vars
  <2>1. Work' /\ World'
    BY <1>2, WorkStays DEF vars, IInv, World
  <2>2. Stored' /\ Calls' /\ Handling' /\ Persisted'
    BY <1>2, RestStays DEF vars, handlerVars
  <2> QED BY <2>1, <2>2 DEF IInv
<1> QED BY <1>1, <1>2

\* The inductive invariant holds.
THEOREM MetricsInvariant == Spec => []IInv
BY InitIInv, NextIInv, PTL DEF Spec

\* Every variable keeps its type; a handler holds points only until it has written
\* them, and the inputs of derivations are points that are stored.
THEOREM MetricsTypeCorrect == Spec => []TypeOK
BY MetricsInvariant, IInvTyped, PTL

\* derive_ratios and persist_candidate: a ratio is made of one current point of
\* each series, of both sources, of its interval and freshness, and no inputs
\* make it twice.
THEOREM MetricsDerivationsSound == Spec => []DerivationsSound
<1>1. IInv => DerivationsSound
  BY DEF IInv, Persisted, Sound, DerivationsSound
<1> QED BY <1>1, MetricsInvariant, PTL

\* _period of GA4 and _local_hour_interval of Ad Manager agree on every hour,
\* and hours of the wall share none of UTC, however the clocks are changed.
THEOREM MetricsHoursPartition == Spec => []HoursPartition
<1>1. ASSUME Stored PROVE HoursPartition
  <2> SUFFICES ASSUME NEW p \in points, NEW q \in points, p.wall # q.wall
               PROVE  p.interval[2] <= q.interval[1] \/ q.interval[2] <= p.interval[1]
    BY <1>1 DEF HoursPartition, Stored, Placed
  <2>1. /\ p.wall \in Busy /\ q.wall \in Busy
        /\ p.interval = LocalHourInterval(p.wall) /\ q.interval = LocalHourInterval(q.wall)
    BY <1>1 DEF Stored, Placed
  <2>2. p.wall \in Int /\ q.wall \in Int
    BY <2>1, Shown
  <2>3. p.wall < q.wall \/ q.wall < p.wall
    BY <2>2
  <2> QED BY <2>1, <2>3, HoursApart
<1>2. IInv => HoursPartition
  BY <1>1 DEF IInv
<1> QED BY <1>2, MetricsInvariant, PTL

\* derive_site: a derivation that reports success has persisted every ratio it found.
THEOREM MetricsDoneIsDerived == Spec => []DoneIsDerived
<1>1. IInv => DoneIsDerived
  BY DEF IInv, Handling, Progress, DoneIsDerived
<1> QED BY <1>1, MetricsInvariant, PTL
==============================================================================

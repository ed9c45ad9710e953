\* One scheduled run, two workers: stale handlers, crashes, skips, the breaker.
CONSTANTS
    s1 = s1
    s2 = s2
    d1 = d1
    i1 = i1
    b1 = b1
    b2 = b2
    Null = Null
    Run = {s1}
    Scheduled <- MCScheduled
    Incident <- MCIncident
    Windows = 3
    Slots = 1
    WindowOf <- MCWindowOf
    RunCap = 1
    Worker = {b1, b2}
    LeaseTicks = 0
    BackoffTicks = 0

SPECIFICATION FairSpec

INVARIANT TypeOK
INVARIANT AttemptsExplainRun
INVARIANT EvidenceBehindRows
PROPERTY FinalRunImmutable
PROPERTY ReportedFailureIsFinal
PROPERTY RunningEnds

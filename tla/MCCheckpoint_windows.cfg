\* Two runs of one window, and an operator's and an incident's run; two workers.
CONSTANTS
    s1 = s1
    s2 = s2
    d1 = d1
    i1 = i1
    b1 = b1
    b2 = b2
    Null = Null
    Run = {s1, s2, d1, i1}
    Scheduled <- MCScheduled
    Incident <- MCIncident
    Windows = 3
    Slots = 1
    WindowOf <- MCWindowOf
    RunCap = 3
    Worker = {b1, b2}
    LeaseTicks = 0
    BackoffTicks = 0

SPECIFICATION Spec

SYMMETRY Alike
VIEW ControlView
CONSTRAINT WatermarkTells
CONSTRAINT OneWorkload
CONSTRAINT FewAttempts
INVARIANT WindowTellsRuns
INVARIANT CompleteJobHasFinalRun

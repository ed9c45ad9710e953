\* Two extracts of each source that overlap, and two derivations, around a change of clocks.
CONSTANTS
    w1 = w1
    w2 = w2
    unassigned = unassigned
    organic = organic
    Null = Null
    Missing = Missing
    Worker = {w1, w2}
    Job <- MCJob
    MaxAttempts <- MCMaxAttempts
    Wall <- MCWall
    HoursPerDay = 4
    GA4MaxRows = 10
    Profile <- MCProfile
    Busy = {6, 7}
    Channel = {unassigned, organic}
    Ratio = {"requests"}
    SlotHours = 1
    GA4After = 1
    GAMAfter = 1
    MatureDays = 2
    Window = 8
SPECIFICATION Spec
CHECK_DEADLOCK FALSE
CONSTRAINT Times
CONSTRAINT Bounded
SYMMETRY Alike
INVARIANT TypeOK
INVARIANT DerivationsSound
INVARIANT HoursPartition
INVARIANT DoneIsDerived

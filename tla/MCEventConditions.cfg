\* Both rules, three pages, two workers, histories of two to five windows.
CONSTANTS
    p1 = p1
    p2 = p2
    p3 = p3
    g1 = g1
    g2 = g2
    Null = Null
    Windows = 5
    Page = {p1, p2, p3}
    ErrorPage = p3
    Histories <- MCHistories
    Worker = {g1, g2}
    MaxAttempts <- MCMaxAttempts

SPECIFICATION Spec
\* The windows are over, and so are their jobs.
CHECK_DEADLOCK FALSE

CONSTRAINT Bounded
SYMMETRY Alike
INVARIANT TypeOK
INVARIANT SupportCounted
INVARIANT OnsetRecorded
INVARIANT OrderlyAgrees
INVARIANT OnlyOvertakenRaise
PROPERTY KeepsConditions

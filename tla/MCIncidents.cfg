\* Two operators, three requests for up to two of three scenarios, and three runs.
CONSTANTS
    o1 = o1
    o2 = o2
    r1 = r1
    r2 = r2
    r3 = r3
    Null = Null
    Operator = {o1, o2}
    Scenario = {1, 2, 3}
    Run = {r1, r2, r3}
    Limit = 3
    MaxScenarios = 2
    MaxCalls = 3
SPECIFICATION Spec
CHECK_DEADLOCK FALSE
CONSTRAINT Bounded
SYMMETRY Alike
INVARIANT TypeOK
INVARIANT LedgerBounded
INVARIANT RunsPaid
INVARIANT OneBaseline

CONSTANTS
    r1 = r1
    r2 = r2
    r3 = r3
    f1 = f1
    f2 = f2
    f3 = f3
    w1 = w1
    w2 = w2
    again = {f2}
    Null = Null
    Fetch = {r1, r2, f1, f2, f3}
    Worker = {w1, w2}
    TypeOf <- MCTypeOf
    SlotOf <- MCSlotOf
    MaxAttempts <- MCMaxAttempts
    Response <- MCResponse
    Job <- MCJob
    Tries = 2
    Slots = 3
    Ticks = 4
    MaxRedirects = 3
SPECIFICATION Spec
CHECK_DEADLOCK FALSE
SYMMETRY Alike
CONSTRAINT Bounded
INVARIANT TypeOK
INVARIANT ConfirmedByTwo
INVARIANT Told
PROPERTY KeepsConditions

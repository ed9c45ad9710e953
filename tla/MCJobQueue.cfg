\* One checkpoint row, one general row, three processes.
CONSTANTS
    b1 = b1
    b2 = b2
    g1 = g1
    check = check
    ingest = ingest
    Null = Null
    Job <- MCJob
    Worker <- MCWorker
    BrowserJob <- MCBrowserJob
    BrowserWorker <- MCBrowserWorker
    MaxAttempts <- MCMaxAttempts
    Key = {k}
    LeaseTicks = 1
    BackoffTicks = 1
    DelayTicks = 0

SPECIFICATION FairSpec

INVARIANT OneOwner
INVARIANT ExecutionsBounded
PROPERTY Fenced
PROPERTY EveryJobFinishes
PROPERTY KeepsContract


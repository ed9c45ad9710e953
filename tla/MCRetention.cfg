\* Two enforcers, two artifacts, one of them holdable; holds placed and released at any time.
CONSTANTS
    e1 = e1
    e2 = e2
    Null = Null
    Artifact <- MCArtifact
    Holdable = {1}
    BatchSize = 1
    Enforcer = {e1, e2}

SPECIFICATION FairSpec

INVARIANT TypeOK
INVARIANT NoOrphanObject
INVARIANT AuditedOnce
INVARIANT FinishedMeansDrained
PROPERTY UnheldIsDeleted

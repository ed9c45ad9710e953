\* One enforcer, one artifact: a hold is placed and released.
CONSTANTS
    e1 = e1
    e2 = e2
    Null = Null
    Artifact <- MCArtifact
    Holdable = {1}
    BatchSize = 1
    Enforcer = {e1}

SPECIFICATION FairSpec

PROPERTY ReleasedIsDeleted

SPECIFICATION FairSpec
CONSTANTS
    p = p
    q = q
    None = None
    Procs <- Two
    Artifacts <- TwoArtifacts
    MaxFiles = 1
    MaxOps = 2
    Faults <- Deaths
INVARIANTS TypeOK PublishedStays IndexTruthful
PROPERTIES OperationsEnd
CHECK_DEADLOCK FALSE

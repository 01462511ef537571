SPECIFICATION Spec
CONSTANTS
    p = p
    q = q
    None = None
    Procs <- Two
    Artifacts <- ThreeArtifacts
    MaxFiles = 2
    MaxOps = 1
    Faults <- EveryFault
INVARIANTS NoRedundantDownload
PROPERTIES NoNeedlessEviction
SYMMETRY Symmetry
CHECK_DEADLOCK FALSE

SPECIFICATION Spec
CONSTANTS
    p = p
    q = q
    None = None
    Procs <- Two
    Artifacts <- TwoArtifacts
    MaxFiles = 1
    MaxOps = 2
    Faults <- NoFaults
INVARIANTS LeaseProtects
SYMMETRY Symmetry
CHECK_DEADLOCK FALSE

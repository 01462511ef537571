SPECIFICATION Spec
CONSTANTS
    old = old
    new = new
    unsigned = unsigned
    Bad = Bad
    None = None
    Gens <- ThreeGens
    Authentic <- Signed
    ImageSize = 2
    MaxAttempts = 3
    Faults <- NoAsideFault
INVARIANTS TypeOK DownloadedWhole PublishedVerified OneGeneration FailureKeepsPrior SuccessAccepted
SYMMETRY Symmetry
CHECK_DEADLOCK FALSE

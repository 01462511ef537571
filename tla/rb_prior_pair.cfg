SPECIFICATION Spec
CONSTANTS
    old = old
    new = new
    unsigned = unsigned
    Bad = Bad
    None = None
    Gens <- ThreeGens
    Authentic <- Signed
    ImageSize = 2
    MaxAttempts = 2
    Faults <- OnlyAsideFault
INVARIANTS FailureKeepsPrior
CHECK_DEADLOCK FALSE

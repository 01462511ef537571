SPECIFICATION Spec
CONSTANTS
    None = None
    MaxPresses = 5
    MaxOthers = 1
    Faults <- NoFaults
INVARIANTS TypeOK EfiCurrent OneCurrent
PROPERTIES WorkerKeepsEdits RecoveryForCurrentEfi
CHECK_DEADLOCK FALSE

SPECIFICATION Spec
CONSTANTS
    None = None
    first = first  second = second
    Bundles <- TwoBundles
    MaxAttempts = 3
    Faults <- EveryFault
INVARIANTS TypeOK SuccessIsComplete FailureIsUnbootable
PROPERTIES TouchedOnlyLocked NeverUnderMount
CHECK_DEADLOCK FALSE

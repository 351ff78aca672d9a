SPECIFICATION Spec
CONSTANTS
    MaxPreparations = 2
    MaxTime = 1
    Lifetimes = {1}
    LeaseEnd = 1
    MaxFaults = 1
INVARIANTS VerifiedIsDurable OriginalIsTrue FramesInForce
PROPERTIES RestoredInTheEnd
CHECK_DEADLOCK FALSE

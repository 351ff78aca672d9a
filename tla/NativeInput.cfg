\* Two disturbances: a target that leaves and comes back, or a stop beside a
\* cut injection.
CONSTANTS
    Relations = {"ExactTarget", "Other"}
    Nudges <- OnePixel
    MaxFaults = 2
    Foreground <- ForegroundRequests
    Guarded <- GuardedRequests
SPECIFICATION InputSpec
INVARIANTS NothingLeftHeld StrayBounded HonestResult
PROPERTY InputEnds
CHECK_DEADLOCK FALSE

CONSTANTS
    Capacity = 2
    MaxSequence = 4
SPECIFICATION FairSpec
INVARIANTS ResyncIffOverflow ViewAtCursor
PROPERTY PollerCatchesUp

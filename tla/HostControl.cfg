CONSTANTS
    Conns = {c1, c2}
    Slots = {s1}
    Kinds = {"pixels", "leased", "desktop"}
    MaxSessions = 1
    MaxGeneration = 1
SPECIFICATION FairSpec
INVARIANTS InputTurns StopReachesQueued TombstoneIsFinal
PROPERTIES EndingsArrive QueuedIsServed

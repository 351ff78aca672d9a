CONSTANTS
    MaxRequests = 6
    MaxOutstanding = 3
    MaxParallel = 2
SPECIFICATION FairSpec
INVARIANTS  ReadyIsDrained
PROPERTY OperationsEnd
CHECK_DEADLOCK FALSE

SPECIFICATION Spec
CONSTANTS
    None = None
    Origins = {"o1"}
    MaxTtl = 2
    MaxActions = 2
    Sessions = {"s1", "s2"}
    Proposals <- MCProposals
    Grants <- MCGrants
    Actions <- MCActions
    Directories = {"journal"}
    Expiries = {3}
    MaxTime = 3
    MaxId = 2
    MaxChallenge = 1
    MaxPending = 1
    MaxRecords = 2
INVARIANTS DispatchAllowed IssuedLeaseAccepted
PROPERTIES ImplementsLedger EndedSessionStops
CHECK_DEADLOCK FALSE

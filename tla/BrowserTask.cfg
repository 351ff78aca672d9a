CONSTANTS
    MaxEpoch = 3
    MaxCapture = 3
    Leases <- MCLeases
    Targets = {"browser"}
    Pages <- MCPages
    Values = {"text"}
    MaxAsked = 2
SPECIFICATION TaskSpec
INVARIANTS InputOnFreshEvidence BrowserCallsAllowed
PROPERTY SecretKept
CHECK_DEADLOCK FALSE

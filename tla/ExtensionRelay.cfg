SPECIFICATION Spec
CONSTANTS
    None = None
    Tasks = {t1, t2}
    FirstTask = t1
    Hellos <- MCHellos
    MaxPairs = 2
    MaxCalls = 2
    MaxTime = 3
    Timeout = 1
    StaleAfter = 2
    MaxAge = 1
    Capacity = 1
    MaxEvents = 1
CHECK_DEADLOCK FALSE
INVARIANTS OnePairingOneTask NavigationRevokes
PROPERTIES DispatchedWhileAwaited RemovedProviderEnds

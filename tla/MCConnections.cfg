SPECIFICATION FairSpec
CONSTANTS
    Sockets = {p}
    Keys = {k1, k2}
    MaxTracked = 1
    UpdateInterval = 1
    OnlineWindow = 2
    StaleWindow = 3
    Retention = 3
    PurgeWindows = {2, 4}
    MaxCloses = 1
CHECK_DEADLOCK FALSE
INVARIANTS
    EverySessionIsReached
    NoSocketOutlivesSession
    HeardCountsAsPresent
PROPERTIES
    DeadRowIsClosed
    LiveDeviceIsLoggedOut

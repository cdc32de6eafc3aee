\* One tunnelled and one local session, two launches: an instance and the one
\* that replaces it, or one of each kind; every goroutine fair.
CONSTANTS
    remoteKey = remoteKey
    localKey = localKey
    i1 = i1
    i2 = i2
    None = None
    Key = {remoteKey, localKey}
    TunnelKey = {remoteKey}
    Instance = {i1, i2}
SPECIFICATION FairSpec
INVARIANTS
    ActiveReachable
    ClosedHasNoTunnel
    TeardownsOnce
    LeftBehind
PROPERTIES
    RunningFailsByDeath
    ImplementsSlots
    StartResolves
    StopReleases
\* The pool of launches runs out.
CHECK_DEADLOCK FALSE

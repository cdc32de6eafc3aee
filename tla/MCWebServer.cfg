\* Two handlers and two refresh goroutines of the cache, state changes, renames,
\* loads that fail; or the local terminal and one session, two requests, one
\* launch, where browsers read on.
SPECIFICATION MCSpec
CONSTANTS
    Caller = {c1, c2}
    Refresher = {b1, b2}
    TTL = 2
    MaxState = 2
    MaxName = 2
    MayFail = TRUE
    None = None
    LocalKey = local
    Key = {local, session}
    Terminal = {t1}
    Request = {r1, r2}
PROPERTIES
    RefreshesInOrder
    CatchesUp
    RequestsServed
\* The server may have been shut down.
CHECK_DEADLOCK FALSE

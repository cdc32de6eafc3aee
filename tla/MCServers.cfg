\* The local terminal and one session, two requests, two launches; a server and a
\* GUI of either, three starts; one shell that starts and stops watchers under
\* three pids; two sessions with editors, two launches, two requests.
CONSTANTS
    local = local
    session = session
    t1 = t1
    t2 = t2
    r1 = r1
    r2 = r2
    None = None
    LocalKey = local
    Key = {local, session}
    Terminal = {t1, t2}
    Request = {r1, r2}
    Parts = {"registry", "servers", "watcher", "editors"}
    Server = {v1}
    App = {g1}
    MaxStart = 3
    Torn = Torn
    Command = {shell}
    Pid = {pid1, pid2, pid3}
    EditorKey = {k1, k2}
    Instance = {i1, i2}
SPECIFICATION MCSpec
SYMMETRY Symmetry
INVARIANTS
    OpenIsRegistered
    TeardownSparesSuccessor
    SoleServerOwnsAll
    OneWatcher
    WatcherEnsured
    DialsOwnServer
\* The server may have been shut down; the starts of servers are bounded.
CHECK_DEADLOCK FALSE

\* Two clients of a terminal, four chunks, room for two in the ring; logs of up
\* to four events with two things open; two panes for three remote sessions; two
\* processes that fetch from two remotes.
SPECIFICATION DiscoverySpec
CONSTANTS
    Parts = {"stream", "log", "panes", "remotes"}
    None = None
    Client = {c1, c2}
    MaxChunk = 4
    Capacity = 2
    MaxSeen = 4
    MaxOpen = 2
    h1 = h1
    h2 = h2
    s1 = s1
    s2 = s2
    s3 = s3
    Home = {h1, h2}
    RSession = {s1, s2, s3}
    HomeOf <- MCHomeOf
    Matches <- MCMatches
    Alike <- MCAlike
    Panes = 2
    Fetcher = {f1, f2}
    Remote = {bare, devbox}
    InPath = {devbox}
    MaxCheck = 1
INVARIANTS
    TypesHold
    SeamOnly
    ExitShown
    LogTells
    ReportIsTrue
    RemotePanesAreOwn
    EveryRemoteAccounted
    RunsWholeBinary
\* The process in the terminal may have exited.
CHECK_DEADLOCK FALSE

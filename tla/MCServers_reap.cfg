\* Two servers and a GUI: more than MCServers.cfg has, and nothing else.
CONSTANTS
    local = local
    session = session
    t1 = t1
    t2 = t2
    r1 = r1
    r2 = r2
    None = None
    LocalKey = local
    Key = {local, session}
    Terminal = {t1, t2}
    Request = {r1, r2}
    Parts = {"servers"}
    Server = {v1, v2}
    App = {g1}
    MaxStart = 3
    Torn = Torn
    Command = {shell}
    Pid = {pid1, pid2, pid3}
    EditorKey = {k1, k2}
    Instance = {i1, i2}
SPECIFICATION MCSpec
SYMMETRY Symmetry
PROPERTIES
    ReapSparesUsed
\* The starts of servers are bounded.
CHECK_DEADLOCK FALSE

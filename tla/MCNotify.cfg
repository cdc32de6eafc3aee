\* Two observers of one source that may fail, lag or lose its session; failed
\* saves and crashes.
CONSTANTS
    o1 = o1
    o2 = o2
    s1 = s1
    None = None
    Observer = {o1, o2}
    Session = {s1}
    NSources = 1
    Web = {}
    Flaky = {1}
    Lagging = {1}
    MayVanish = TRUE
    MaxMoves = 2
    MayCrash = TRUE
    MaySaveFail = TRUE
SPECIFICATION FairSpec
INVARIANTS
    AtMostOnceInOrder
PROPERTIES
    ImplementsStore
    DoneIsAnnounced

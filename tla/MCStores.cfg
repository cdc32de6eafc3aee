\* Two processes that merge and clear the done markers of two sessions; or two
\* watchers and a reader of their file, with one remote.  Processes may die.
SPECIFICATION StoresSpec
CONSTANTS
    None = None
    MayCrash = TRUE
    Process = {p1, p2}
    Session = {s1, s2}
    MaxMoves = 2
    Watcher = {v1, v2}
    Reader = {q1}
    Remote = {h1}
    Local = local
    Tolerance = 1
    MaxChange = 1
INVARIANTS
    DoneIsEarned
    ListedOnce
PROPERTIES
    FinishedIsMarked
    MarkersSettle
    ListsSettle

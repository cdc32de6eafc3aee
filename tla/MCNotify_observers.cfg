\* Two observers of one source.
CONSTANTS
    o1 = o1
    o2 = o2
    s1 = s1
    None = None
    Observer = {o1, o2}
    Session = {s1}
    NSources = 1
    Web = {}
    Flaky = {}
    Lagging = {}
    MayVanish = FALSE
    MaxMoves = 2
    MayCrash = FALSE
    MaySaveFail = FALSE
SPECIFICATION Spec
INVARIANTS
    AtMostOnce

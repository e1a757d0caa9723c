CONSTANTS
    c1 = c1
    c2 = c2
    c3 = c3
    Conns = {c1, c2, c3}
    Ttl = 3
    Beat = 2
    Failures = {"redis", "crash"}
SPECIFICATION Spec
SYMMETRY Symmetry
INVARIANTS
    OnlineWhileThere
    BackWithinABeat
    OfflineWhenOver
    ShownNoLonger
CHECK_DEADLOCK FALSE

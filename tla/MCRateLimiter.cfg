CONSTANTS
    Users = {"u1", "u2"}
    MaxAllowed = 2
    Window = 3
    MaxExtra = 1
SPECIFICATION LimiterFairSpec
INVARIANTS
    WindowBound
    TwiceBound
PROPERTIES
    LimitedUserReturns

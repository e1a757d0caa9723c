CONSTANTS
    p1 = p1
    p2 = p2
    r1 = r1
    r2 = r2
    Partners = {p1, p2}
    Nobody = Nobody
    Mine = {"m1"}
    Theirs = {"t1"}
    From <- FromValue
    Pasted = {p2}
    Chats = {"k1"}
    Requests = {r1, r2}
    Pushes = 2
    MaxTimers = 2
SPECIFICATION AppSpec
SYMMETRY Symmetry
INVARIANTS
    UnderItsPartner
    ShownIsAcked
    ReadMeansShown
    LitHasTimer
PROPERTIES
    DraftStays
    SubmitIsAnswered
CHECK_DEADLOCK FALSE

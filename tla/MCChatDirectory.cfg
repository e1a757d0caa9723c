CONSTANTS
    a = a
    b = b
    c = c
    c1 = c1
    c2 = c2
    c3 = c3
    Users = {a, b, c}
    Callers = {c1, c2, c3}
    Chats = {"k1", "k2", "k3"}
    NoChat = NoChat
    Failures = {"db"}
SPECIFICATION DirectorySpec
SYMMETRY Symmetry
INVARIANTS
    DirectoryTypeOK
    HistoryIsOfThePair
PROPERTIES
    SettledStays
CHECK_DEADLOCK FALSE

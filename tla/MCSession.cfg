CONSTANTS
    s1 = s1
    s2 = s2
    s3 = s3
    p1 = p1
    p2 = p2
    Sockets = {s1, s2, s3}
    NoSocket = NoSocket
    FirstDelay = 1
    LastDelay = 3
    Pages = {p1, p2}
    Me = p1
    Names = {"n1"}
    Nobody = Nobody
    Retries = 2
SPECIFICATION FairSession
INVARIANTS
    LiveIsCurrent
    QuietAfterLogout
    TokenIsOwners
PROPERTIES
    Reconnects
CHECK_DEADLOCK FALSE

CONSTANTS
    c1 = c1
    c2 = c2
    c3 = c3
    Users = {"u1"}
    Clients = {c1, c2, c3}
    UserOf <- MCUserOf
    NoClient = NoClient
    InboxRoom = 1
SPECIFICATION FairSpec
INVARIANTS
    StillSubscribed
PROPERTIES
    EventuallyListening

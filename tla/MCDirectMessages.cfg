CONSTANTS
    a1 = a1
    b1 = b1
    b2 = b2
    i1 = i1
    i2 = i2
    m1 = m1
    m2 = m2
    Instances = {i1}
    Users = {"alice", "bob"}
    Clients = {a1, b1, b2}
    UserOf <- MCUserOf
    NoClient = NoClient
    InstanceOf <- OneProcess
    Messages = {m1, m2}
    SenderOf <- MCSenderOf
    ReceiverOf <- NoteToSelf
    MemberOf <- MCMemberOf
    Queued <- OneQueued
    Capacity = 1
    InboxRoom = 1
    PendingLimit = 2
    Failures = {}
    Leavers = {b1}
    Readers = {}
    MaxNamed = 1
    NoMsg = NoMsg
    NoFrame = NoFrame
SPECIFICATION Spec
INVARIANTS
    TypeOK
    NoneStranded
    FramesFit
PROPERTIES
    SettledIsNotResent
CHECK_DEADLOCK FALSE

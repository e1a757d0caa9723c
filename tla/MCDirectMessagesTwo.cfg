CONSTANTS
    a1 = a1
    b1 = b1
    b2 = b2
    i1 = i1
    i2 = i2
    m1 = m1
    m2 = m2
    Instances = {i1, i2}
    Users = {"alice", "bob"}
    Clients = {a1, b2}
    UserOf <- MCUserOf
    NoClient = NoClient
    InstanceOf <- TwoProcesses
    Messages = {m1}
    SenderOf <- MCSenderOf
    ReceiverOf <- AllToBob
    MemberOf <- MCMemberOf
    Queued <- NoneQueued
    Capacity = 1
    InboxRoom = 1
    PendingLimit = 1
    Failures = {"db", "redis", "crash"}
    Leavers = {b2}
    Readers = {b2}
    MaxNamed = 1
    NoMsg = NoMsg
    NoFrame = NoFrame
SPECIFICATION Spec
INVARIANTS
    FramesFit
    AckedWasRouted
PROPERTIES
    ComponentsImplemented
CHECK_DEADLOCK FALSE

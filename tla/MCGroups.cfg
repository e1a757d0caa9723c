CONSTANTS
    a = a
    b = b
    c = c
    a1 = a1
    b1 = b1
    b2 = b2
    i1 = i1
    Users = {a, b, c}
    Instances = {i1}
    Sessions = {a1, b1, b2}
    UserOf <- MCUserOf
    InstanceOf <- MCInstanceOf
    Groups = {"g1"}
    Messages = {"m1"}
    Slow = {b1}
    Failures = {"db"}
    NoUser = NoUser
    NoSession = NoSession
    NoRow = NoRow
    NoArgs = NoArgs
SPECIFICATION Spec
INVARIANTS
    DepartedHearNothing
    AckedReachedSteady
PROPERTIES
    DeadGroupsStayDead
CHECK_DEADLOCK FALSE

CONSTANTS
    Users = {u1}
    Clients = {c1, c2}
    UserOf <- MCUserOf
    NoClient = NoClient
    Capacity = 1
    Forwarders = {f1}
    MaxBacklog = 1
SPECIFICATION Spec
INVARIANTS
    SendNeverPanics

---------------------------- MODULE HubConstants ----------------------------
(***************************************************************************)
(* Who connects to a server process: the parameters that module Hub and    *)
(* the modules about its callers share.                                    *)
(***************************************************************************)
EXTENDS Naturals

CONSTANTS
    Users,      \* the user ids
    Clients,    \* the *ws.Client values ServeWS allocates, one per connection
    UserOf,     \* UserOf[c]: the UserID field of client c
    NoClient,   \* "no entry" in the clients map
    Capacity    \* room of the channel `send` (256 in the code)

ASSUME UserOfAssumption == UserOf \in [Clients -> Users]
ASSUME NoClientAssumption == NoClient \notin Clients
ASSUME CapacityAssumption == Capacity \in Nat \ {0}
=============================================================================

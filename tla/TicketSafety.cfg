SPECIFICATION Spec
CONSTANTS
    Lobbies = {l1, l2}
    l1 = l1
    l2 = l2
    Users = {alice, bob}
    alice = alice
    bob = bob
    Endpoints = {e1, e2}
    e1 = e1
    e2 = e2
    NoUser = NoUser
    NoLobby = NoLobby
    NoEndpoint = NoEndpoint
    MaxTickets = 2
    TicketTTL = 1
    MaxFaults = 1
    MaxRestarts = 1
SYMMETRY Symmetry
INVARIANTS
    TypeOK
    FreshAtMostOnce
    OneConsumableTicketPerSeat
    NoStaleEndpoint
PROPERTIES
    ImplementsLedger

SPECIFICATION Spec
CONSTANTS
    Lobbies = {l1}
    l1 = l1
    Users = {alice}
    alice = alice
    Endpoints = {e1}
    e1 = e1
    NoUser = NoUser
    NoLobby = NoLobby
    NoEndpoint = NoEndpoint
    MaxTickets = 2
    TicketTTL = 1
    MaxFaults = 0
    MaxRestarts = 0
INVARIANTS
    ExpiredTicketReplaced

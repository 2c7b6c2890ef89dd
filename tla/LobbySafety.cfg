SPECIFICATION Spec
CONSTANTS
    Users = {alice, bob, carol}
    alice = alice
    bob = bob
    carol = carol
    NoUser = NoUser
    Sizes = {2, 3}
    MaxPlayers = 3
    MaxTickets = 3
    MaxRooms = 1
    MaxMatches = 2
    MaxFaults = 1
    MaxCrashes = 1
    MaxRestarts = 1
CONSTRAINT OneTrouble
SYMMETRY Symmetry
CHECK_DEADLOCK FALSE
INVARIANTS
    TypeOK
    NoGhostSeat
    OnePlacePerUser
    WaitingRoomUsable
    SeatsAgreeWithRoom
    MatchIsItsTickets
PROPERTIES
    TicketDecisionIsFinal

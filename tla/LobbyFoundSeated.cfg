SPECIFICATION Spec
CONSTANTS
    Users = {alice, bob, carol}
    alice = alice
    bob = bob
    carol = carol
    NoUser = NoUser
    Sizes = {2, 3}
    MaxPlayers = 3
    MaxTickets = 3
    MaxRooms = 1
    MaxMatches = 1
    MaxFaults = 0
    MaxCrashes = 0
    MaxRestarts = 1
SYMMETRY Symmetry
CHECK_DEADLOCK FALSE
INVARIANT FoundMeansSeated

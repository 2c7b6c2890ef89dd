SPECIFICATION Spec
CONSTANTS
    Matches = {m1}
    NoMatch = NoMatch
    Servers = {a}
    Agent = a
    Local = local
    NoServer = NoServer
    Capacity <- CapacityOne
    PortMin = 1
    PortMax = 2
    MaxSpawns = 3
    Slots = {p1, p2}
    NoProc = NoProc
    MaxFaults = 1
    MaxCrashes = 1
SYMMETRY Symmetry
INVARIANT OneProcessPerMatch
CHECK_DEADLOCK FALSE

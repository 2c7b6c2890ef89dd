SPECIFICATION Spec
CONSTANTS
    Matches = {m1, m2}
    NoMatch = NoMatch
    Servers = {a, b}
    Agent = a
    Local = local
    NoServer = NoServer
    Capacity <- CapacityOne
    PortMin = 1
    PortMax = 2
    MaxSpawns = 2
    Slots = {p1, p2}
    NoProc = NoProc
    MaxFaults = 1
    MaxCrashes = 1
SYMMETRY Symmetry
INVARIANTS TypeOK PendingIsCurrent NoLostPort
CHECK_DEADLOCK FALSE
CONSTRAINT OneTrouble

SPECIFICATION ProgressSpec
CONSTANTS
    Matches = {m1}
    m1 = m1
    Players = {alice, bob}
    alice = alice
    bob = bob
    Hashes = {h1}
    h1 = h1
    NoHash = NoHash
    NoMatch = NoMatch
    AllocTTL = 2
    MatchTTL = 2
    ReconnectWindow = 1
    MaxFaults = 1
    MaxRestarts = 1
    SpawnMatches = {s1, s2}
    Procs = {q1, q2}
    NoProc = NoProc
    Stubborn = {q2}
    Registry = "registry"
    Reported = {"e1", "e2"}
    NoEndpoint = "none"
    MaxDialFails = 1
INVARIANT NothingLeaks
PROPERTIES MatchEnds EveryProcessEnds RelayFollows
CHECK_DEADLOCK FALSE

SPECIFICATION Spec
CONSTANTS
    Matches = {m1}
    m1 = m1
    Players = {alice, bob}
    alice = alice
    bob = bob
    Hashes = {h1}
    h1 = h1
    NoHash = NoHash
    NoMatch = NoMatch
    AllocTTL = 2
    MatchTTL = 2
    ReconnectWindow = 1
    MaxFaults = 1
    MaxRestarts = 0
SYMMETRY Symmetry
INVARIANTS
    DuplicateHasSettlement

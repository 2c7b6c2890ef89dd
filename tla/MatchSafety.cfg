SPECIFICATION Spec
CONSTANTS
    Matches = {m1, m2, m3}
    m1 = m1
    m2 = m2
    m3 = m3
    Players = {alice, bob}
    alice = alice
    bob = bob
    Hashes = {h1, h2}
    h1 = h1
    h2 = h2
    NoHash = NoHash
    NoMatch = NoMatch
    AllocTTL = 2
    MatchTTL = 1
    ReconnectWindow = 1
    MaxFaults = 1
    MaxRestarts = 1
SYMMETRY Symmetry
INVARIANTS
    TypeOK
    PaidAtMostOnce
    PaidOnlyOnceDurable
    EndedIsSettled
    PaidNeverAssigned
    OneRematch
PROPERTIES
    DurableEndIsFinal
    SettlementStable
CONSTRAINT RematchesIdle

SPECIFICATION Spec
CONSTANTS
    Nonces = {n1}
    Catalog <- SmallCatalog
    MaxQuantity = 1
    LegacyPrice = 2
    LegacyGrant = 1
    Counts = {0, 5, 7}
    IntLimit = 8
    Cards <- SmallCards
    CardRarity <- SmallCardRarity
    Shots <- SmallShots
    ShotRarity <- SmallShotRarity
    StarterShots = {"s0"}
    DustValue <- SmallDust
    StartWallet <- SmallWallet
    SingleCost = 1
    TenCost = 2
    TenCount = 2
    RareEvery <- SmallRareEvery
    EpicEvery <- SmallEpicEvery
    FaithCost = 3
    MaxLevel = 2
    CycleDays = 2
    CheckinGold <- SmallCheckin
    TicketDays = {2}
    MaxChestOpen = 2
    DeckIds = {"default", "d1"}
    DefaultDeck = "default"
    MaxDay = 2
    MaxOps = 4
    Users = {u1, u2}
    BossMatches = {b1, b2}
    NoBossMatch = NoBossMatch
    BossMaxHP = 3
    DailyLimit = 2
    PartySize = 2
    MaxDamage = 2
    MaxDays = 1
    Players = {p1, p2}
    Nobody = Nobody
    Tokens = {t1, t2}
    NoToken = NoToken
    Conns = {c1, c2}
    NoConn = NoConn
    MaxLogins = 2
    MaxListed = 1
    MaxCodes = 3
    MaxClock = 2
    MaxCalls = 1
    CodeTTL = 2
    Cooldown = 1
    Hour = 2
    HourlyLimit = 2
    MaxAttempts = 2
    CallbackNonces = {k1, k2}
    Second = 2
    Window = 2
    NonceCap = 1
    MaxLead = 2
    MaxWait = 1
    MaxFlying = 2
    MaxTicks = 9
    MaxLegacy = 1
    MaxSeq = 2
    EnvelopeNonceCap = 1
    MaxSkew = 1
    MaxNow = 3
    Containers <- SmallContainers
    NoContainer = "none"
    Total <- SmallTotal
    Size <- SmallSize
    Digest <- SmallDigest
    BadHeaders = {"headless"}
    MaxUploadSize = 2
    MaxRestarts = 2
    Fighters <- SmallFighters
    NoFighter = "none"
    DeckOf <- SmallDecks
    NoCard = "none"
    HandLimit = 1
    CardCost <- SmallCosts
    CardDraws <- SmallDraws
    CardGain <- SmallGains
    CardCooldown = 1
    StartEnergy = 1
    MaxEnergy = 1
    DraftPickCount = 2
    ChoiceTicks = 1
    MaxJump = 2
    MaxLate = 1
    DraftBosses = {"x", "y"}
    MaxTick = 1
    MaxRounds = 2
    Seats = {"p", "q"}
    SeatDeck <- SmallSeatDeck
    GiftCost <- SmallGifts
    GiftBudget = 1
    RoundTicks = 1
    MatchTicks = 2
    RoundCap = 3
    SelectionCap = 2
    ActionCap = 2
    EventCap = 2
    PageSize = 2
    MaxActions = 3
    MaxEvents = 6
    Replicas = {l1, l2}
    RoomLimit = 2
    RoomWindow = 2
    MaxInstant = 4
    MaxAsks = 4
    MaxLives = 1
    Callers = {g1, g2}
    PoolSize = 1
    MaxCommands = 3
    MaxDials = 3
    Roles = {"lobby", "relay"}
    WriteWait = 1
    PingPeriod = 1
    PongWait = 2
    SendCap = 1
    MaxParts = 2
    MaxFrames = 3
    MaxUp = 1
    MaxStalls = 0
INVARIANTS ServicesTypeOK PityHolds GrantedOnce BossLedger OneSession DeliveredCodeWorks
           AcceptedOnce EnvelopeOnce NothingInPieces DraftHolds
           ModeRecordHolds CreationsBounded RepliesMatch
SYMMETRY Alike
CHECK_DEADLOCK FALSE

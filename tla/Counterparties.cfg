SPECIFICATION CounterpartiesSpec
CONSTANTS
    Threads = {t1, t2}
    Payees <- MCPayees
    Kinds <- Settlements
    Zero = "mint"
    Advertised <- Catalog
    Category <- Categories
    Quotes = {4, 40}
    Asked = {"x"}
    MaxRows = 4
    MaxDay = 1
    TimedRows = 1
    PriceHistoryLimit = 4
    MinDistinctPayers = 2
    MinClassObservations = 2
    MinTierSettlements = 2
    MinTierPayers = 2
    MinPeers = 3
    AnchorMinDistinct = 3
    PayerRepSaturation = 2
    EstablishedMinBreadth = 2
    CaptiveMaxDistinct = 2
    BurstMinDistinct = 2
    StaleDays = 0
    MinBuyers = 2
    MinPayments = 2
    DivergenceWatchRatio = 2
    ThinHistory = 2
    Subjects = {"s"}
    Records <- Audits
    BadgeTTL = 1
    LastDay = 1
    MaxBadges = 2
    MaxLines = 2
    Addresses = {"a", "b"}
    Feeds <- Published
    VisitedKeys = {"p", "b", "?"}
    Rows <- Listings
    CacheTTL = 1
    CacheMax = 1
    Cooldown = 2
    CooldownMax = 1
    MaxProbes = 2
    LastTick = 2
    Configs <- Environments
    Worlds <- Facilitators
    Corpus <- Sellers
    Asks <- Calls
    Base = 100
    DefaultRatio = 20
    CdpCost = 2
    Clients = {"a", "b"}
    Burst = 2
    Cost = 2
    MaxKeys = 1
    Skew = 1
    MaxTime = 3
    MaxRequests = 6
SYMMETRY ThreadSymmetry
INVARIANT CounterpartiesTypeOK
 
INVARIANT CounterpartiesSound
 
CHECK_DEADLOCK FALSE

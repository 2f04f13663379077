SPECIFICATION CorpusSpec
CONSTANTS
    Payees = {p, q}
    Transfers <- MCTransfers
    MaxChain = 2
    MaxDay = 1
    PageSize = 1
    RefreshAfter = 1
    MaxPages = 2
    GateSettlements = 1
    GatePayers = 1
    WarnDays = 0
    Hosts = {"h", "g"}
    PageLimit = 1
    CrawlPages = 2
    MaxAge = 1
    LastDay = 3
    MaxListing = 2
    MaxChanges = 2
    Writers = {"w1", "w2"}
    ProbeHosts = {"h"}
    MaxProbes = 4
    CompactAbove = 2
    KeepPerHost = 2
    RunForConcern = 2
    DaysForConcern = 2
    LockMayFail = TRUE
    Receipts = {"r1", "r2"}
    Jobs = {"j1", "j2"}
    BuyKinds <- Bought
    Readings <- Found
    Horizon = 1
    MaxLabels = 1
    MinOutcomes = 1
    LastTick = 1
    MaxArrivals = 1
    MaxLines = 3
SYMMETRY PayeeSymmetry
INVARIANT CorpusTypeOK
 
 
CHECK_DEADLOCK FALSE

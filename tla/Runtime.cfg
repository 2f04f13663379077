SPECIFICATION RuntimeSpec
CONSTANTS
    Payees = {"p"}
    Transfers <- MCTransfers
    MaxChain = 3
    MaxDay = 1
    PageSize = 2
    RefreshAfter = 2
    Threads = {t1, t2}
    Keys = {"a", "b"}
    TTL = 1
    MaxEntries = 1
    Wait = 1
    Lag = 1
    Deployments <- Flags
    Movements <- Changes
    MaxHistory = 4
    Limit = 2
    MaxPages = 3
    Tries = 2
INVARIANT RuntimeTypeOK
 
PROPERTY RuntimeGoesOn
CHECK_DEADLOCK FALSE

SPECIFICATION ProxyFairSpec
CONSTANTS
    Conns = {c1, c2}
    Hosts = {"good", "bad"}
    Allowed = {"good"}
    Modes = {"observe", "enforce"}
    MaxConcurrent = 1
    BufCap = 1
    MaxChunks = 2
INVARIANTS ProxyTypeOK  EgressAccounted
 
CHECK_DEADLOCK FALSE

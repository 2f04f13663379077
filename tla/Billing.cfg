SPECIFICATION BillingSpec
CONSTANTS
    Nonces <- MCNonces
    Value <- MCValue
    Prices = {0, 1}
    SessionPrice = 2
    SessionCredits = 2
    SessionTtl = 2
    Sids = {"s1", "s2"}
    Threads = {t1, t2, t3}
    Worlds <- MCWorlds
    MaxTime = 2
INVARIANTS BillingTypeOK ChargesSound  ReleasedIsUnspent
SYMMETRY MCSymmetry

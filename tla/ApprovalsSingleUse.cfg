SPECIFICATION Spec
CONSTANTS
    Ids = {i1, i2}
    small = small
    large = large
    dSmall = dSmall
    dLarge = dLarge
    Claims <- MCClaims
    Digests <- MCDigests
    ClaimDigest <- MCClaimDigest
    Actors = {"alice"}
    Threads = {t1, t2}
    Ttls <- MCTtls
    DefaultTtl = 1
    Limit = 1
    MaxTime = 1
INVARIANT SingleUse

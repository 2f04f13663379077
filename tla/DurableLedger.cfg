SPECIFICATION FairSpec
CONSTANTS
    Threads = {t1, t2}
    QueueMax = 1
    MirrorAttempts = 2
    MaxHydrate = 4
    MaxRows = 2
    MaxLives = 3
    MaxKey = 2
INVARIANTS TypeOK Accounted CountedOnce MirrorSound AckedSurvives
PROPERTY LedgerGoesOn

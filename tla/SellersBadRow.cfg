SPECIFICATION Spec
CONSTANTS
    Subjects = {"s"}
    Records <- MCRecords
    TTL = 1
    MaxDay = 1
    MaxBadges = 1
    MaxRows = 2
INVARIANT BadRowErasesNothing
CHECK_DEADLOCK FALSE

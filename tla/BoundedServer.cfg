SPECIFICATION ServerFairSpec
CONSTANTS
    Connections = {c1, c2, h1, h2}
    Health = {h1, h2}
    MaxInflight = 1
    MaxRefuse = 2
    MaxExempt = 1
INVARIANTS ServerTypeOK SlotsConserved
PROPERTY DoorStaysOpen

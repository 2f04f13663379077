SPECIFICATION Spec
CONSTANTS
    NoTx = 0
    Rids = {r1, r2}
    Cps = {x}
    Wallets = {a}
    Amounts = {1}
    Watchers = {w1, w2}
    PageSize = 2
    Reports = {"delivered", "disputed"}
    Verdicts = {"GO", "HOLD"}
    Flaky = TRUE
    ByTx = TRUE
    Duplicates = TRUE
    MaxPayments = 2
    MaxEvents = 3
    MaxTime = 1
CHECK_DEADLOCK FALSE
INVARIANTS TypeOK CountSound TxConfirmsOne
PROPERTY CountIsSticky
SYMMETRY MCSymmetry

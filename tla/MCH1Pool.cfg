CONSTANTS
    Pools = {p1}
    Requests = {r1, r2}
    Clients = {c1, c2, c3, c4}
    PoolSize = 1
    MAX_DISPOSABLE = 1
    MaxDisposables = 1
    ClientsDisconnect = TRUE
SYMMETRY Symmetry
SPECIFICATION Spec
INVARIANTS PoolSound SingleStream NoSwapUnderRequest FlagsTellTheTruth
    NeverUndercounted OverflowWithinBudget
PROPERTIES ReplaceOnlyDead

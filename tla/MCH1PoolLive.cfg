CONSTANTS
    Pools = {p1}
    Requests = {r1}
    Clients = {c1, c2, c3, c4}
    PoolSize = 1
    MAX_DISPOSABLE = 0
    MaxDisposables = 0
    ClientsDisconnect = FALSE
SPECIFICATION RecoverSpec
PROPERTIES GetConnectionReturns NoEntryIsLost

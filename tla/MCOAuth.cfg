CONSTANTS
    Requests = {r1, r2}
    Loads = {l1, l2}
    Blocks <- MCBlocks
    Asks <- MCAsks
    AllowedRedirects = {"callback", "loopback"}
    Places <- MCPlaces
    MAX_CODES = 2
    AUTH_CODE_TTL_SEC = 2
    AccessTtl = 1
    RefreshTtl = 2
    MaxIssued = 3
    MaxContexts = 2
    MaxKeys = 2
    MaxTime = 2
SPECIFICATION Spec
INVARIANTS TypeOK CodeUsedOnce TokensTraceToConsent GateHonoursConsent TokensSurviveUnlessRaced
PROPERTIES CodesKept
SYMMETRY Alike
CONSTRAINT Small

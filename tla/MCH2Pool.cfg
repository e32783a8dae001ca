CONSTANTS
    Requests = {r1}
    Sup = Sup
    PoolSize = 2
CONSTRAINT TwoAtATime
SPECIFICATION FairSpec
INVARIANTS PoolSound
PROPERTIES ReplaceOnlyDead BrokenIsReplaced

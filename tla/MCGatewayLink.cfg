CONSTANTS
    MaxSessions = 2
    MaxVersion = 2
    MaxRequests = 2
SPECIFICATION FairSpec
INVARIANTS LinkSound
PROPERTIES OnlyOlderEvicts LinkRecovers LocalUntouched Converges
CHECK_DEADLOCK FALSE
CONSTRAINT Small

CONSTANTS
    Ids = {1}
    Pieces <- OneTalks
    Requesters = {"client"}
    WRITE_CHANNEL_CAPACITY = 2
SPECIFICATION FairSpec
INVARIANTS TunnelSound InOrder OnlyTwinCuts
CONSTRAINT Small
PROPERTIES WaitersReturn EndsArrive
CHECK_DEADLOCK FALSE

CONSTANTS
    Payload <- MCPayload
    Block <- MCShortBlock
    Genesis <- MCGenesis
    Threads = {t1, t2}
    Readers = {}
    NoDB = NoDB
    Torn = Torn
    EmptyRangeClears = TRUE
    MaxCheckPointCount = 2
    ClearInterval = 2
    MaxMoves = 3
    MaxInvalidations = 0
    MaxInvalidBlocks = 0
    MaxRestarts = 1
    MaxReadErrors = 1
    MaxBackupErrors = 0
SPECIFICATION FairSpec
CHECK_DEADLOCK FALSE
INVARIANTS  IndexInv
PROPERTIES  UpdateEnds

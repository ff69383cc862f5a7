CONSTANTS
    Payload <- MCPayload
    Block <- MCBlock
    Genesis <- MCGenesis
    Threads = {t1}
    Readers = {}
    NoDB = NoDB
    Torn = Torn
    EmptyRangeClears = TRUE
    MaxCheckPointCount = 2
    ClearInterval = 2
    MaxMoves = 2
    MaxInvalidations = 0
    MaxInvalidBlocks = 0
    MaxRestarts = 1
    MaxReadErrors = 0
    MaxBackupErrors = 0
SPECIFICATION Spec
CHECK_DEADLOCK FALSE
INVARIANT SnapshotAlwaysTracksIndex

CONSTANTS
    Payload <- MCPayload
    Block <- MCBlock
    Genesis <- MCGenesis
    Threads = {t1}
    Readers = {r1}
    NoDB = NoDB
    Torn = Torn
    EmptyRangeClears = TRUE
    MaxCheckPointCount = 2
    ClearInterval = 2
    MaxMoves = 3
    MaxInvalidations = 1
    MaxInvalidBlocks = 1
    MaxRestarts = 1
    MaxReadErrors = 0
    MaxBackupErrors = 1
SPECIFICATION Spec
CHECK_DEADLOCK FALSE
INVARIANTS IndexIsBranch   
PROPERTIES ReadersSeeOneState 

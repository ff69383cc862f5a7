CONSTANTS
    Payload <- MCPayload
    Block <- MCTwoBranches
    Genesis <- MCGenesis
    Threads = {t1, t2}
    NoBlock = NoBlock
    Work <- MCWork
    Address <- MCAddress
    GPoWEnabled = TRUE
    Time <- MCTime
    PrecisionTime <- MCPrecisionTime
    HashGPoW <- MCHashGPoW
    TimeError = 1
    Malformed <- MCNone
    Invalid <- MCNone
    MinBlocksToKeep = 3
    MinSequenceId <- MCMinSequenceId
    MaxInvalidations = 1
    MaxReconsiders = 0
    MaxPreciouses = 0
    MaxFlushes = 0
    MaxRestarts = 0
SPECIFICATION Spec
CHECK_DEADLOCK FALSE
INVARIANTS CandidatesLeft

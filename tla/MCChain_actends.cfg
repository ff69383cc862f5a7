CONSTANTS
    Payload <- MCPayload
    Block <- MCTwoBranches
    Genesis <- MCGenesis
    Threads = {t1, t2}
    NoBlock = NoBlock
    Work <- MCWork
    Address <- MCAddress
    GPoWEnabled = FALSE
    Time <- MCTime
    PrecisionTime <- MCPrecisionTime
    HashGPoW <- MCHashGPoW
    TimeError = 1
    Malformed <- MCb
    Invalid <- MCd
    MinBlocksToKeep = 3
    MinSequenceId <- MCMinSequenceId
    MaxInvalidations = 0
    MaxReconsiders = 1
    MaxPreciouses = 1
    MaxFlushes = 0
    MaxRestarts = 0
SPECIFICATION FairSpec
CHECK_DEADLOCK FALSE
INVARIANTS CandidatesLeft
PROPERTIES ActivationEnds

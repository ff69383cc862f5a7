CONSTANTS
    Payload <- MCPayload
    Block <- MCTwoBranches
    Genesis <- MCGenesis
    Threads = {t1}
    NoBlock = NoBlock
    Work <- MCWork
    Address <- MCAddress
    GPoWEnabled = FALSE
    Time <- MCTime
    PrecisionTime <- MCPrecisionTime
    HashGPoW <- MCHashGPoW
    TimeError = 1
    Malformed <- MCNone
    Invalid <- MCe
    MinBlocksToKeep = 3
    MinSequenceId <- MCMinSequenceId
    MaxInvalidations = 1
    MaxReconsiders = 0
    MaxPreciouses = 3
    MaxFlushes = 0
    MaxRestarts = 0
SPECIFICATION Spec
CHECK_DEADLOCK FALSE
INVARIANTS FailedHaveCause CandidatesExact TipIsBest ActiveChainValid
PROPERTIES TipImproves 

CONSTANTS
    Payload <- MCPayload
    Block <- MCTwoBranches
    Genesis <- MCGenesis
    Threads = {t1}
    NoBlock = NoBlock
    Work <- MCWork
    Address <- MCAddress
    GPoWEnabled = TRUE
    Time <- MCTime
    PrecisionTime <- MCPrecisionTime
    HashGPoW <- MCHashGPoW
    TimeError = 1
    Malformed <- MCb
    Invalid <- MCe
    MinBlocksToKeep = 3
    MinSequenceId <- MCMinSequenceId
    MaxInvalidations = 0
    MaxReconsiders = 0
    MaxPreciouses = 0
    MaxFlushes = 2
    MaxRestarts = 1
SPECIFICATION Spec
CHECK_DEADLOCK FALSE
INVARIANTS TipIsBest SoundInv CoinsHaveUndo LinksConsistent

CONSTANTS
    Payload <- MCPayload
    Block <- MCBlock
    Genesis <- MCGenesis
    GPoWEnabled = TRUE
    Work <- MCWork
    Time <- MCTime
    PrecisionTime <- MCPrecisionTime
    HashGPoW <- MCHashGPoW
    TimeError = 3
    Address <- MCAddress
SPECIFICATION Spec
CHECK_DEADLOCK FALSE
 
PROPERTY PruneDeletesWorse

SPECIFICATION FairSpec
CONSTANTS
    g = g
    a = a
    b = b
    c = c
    d = d
    e = e
    f = f
    h = h
    w = w
    x = x
    y = y
    z = z
    NoBlock = NoBlock
    Payload <- MCPayload
    Block <- MCBlock
    Genesis <- MCGenesis
    Outpoint <- MCOutpoint
    Txs <- MCTxs
INVARIANTS
    TipIsUnspent
    DatabaseIsUnspent
    CachesSound
    NeverAborts
PROPERTIES
    CoinsMoveWithTip
    WorkEnds
    ImplementsDurableTip

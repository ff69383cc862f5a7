SPECIFICATION FairSpec
CONSTANTS
    w1 = w1
    w2 = w2
    m1 = m1
    m2 = m2
    Workers <- MCWorkers
    Masters <- MCMasters
    Group <- MCGroup
    nBatchSize = 2
    MaxChecks = 4
    Batches <- MCBatches
INVARIANTS
    VerdictIsExact
    TodoIsExact
PROPERTY WaitReturns

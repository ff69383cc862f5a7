SPECIFICATION FairSpec
CONSTANTS
    a = a
    b = b
    s = s
    Address <- MCAddress
    Value <- MCValue
    Null = Null
    Absent = Absent
    MaxOps = 3
    MaxDaemons = 1
CHECK_DEADLOCK FALSE
INVARIANTS
    CallIsAtomic
    InStep
    
PROPERTIES
    AnswerIsFinal
    CallEnds

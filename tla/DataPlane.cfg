SPECIFICATION Spec
CONSTANTS
    c1 = c1
    c2 = c2
    Garbage <- MCGarbage
    Configs <- MCConfigs
    ChunkSize = 2
    MinBlock = 3
    RefOverhead = 1
    SavingsDen = 4
    SeqWidth = 5
    ZeroCell = 0
    Threshold = 4
    DiffHeader = 1
    ChunkHeader = 1
    WireCapacity = 2
    MaxRefused = 3
    MaxLostAsks = 1
INVARIANTS EndsAgree
PROPERTIES StreamsPayloads ResyncHeals
CHECK_DEADLOCK FALSE

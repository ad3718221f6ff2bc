CONSTANTS
    Depth = 4
    WordAddrs = {"w1", "w2"}
    Stores <- MCStores
SPECIFICATION BufferSpec
INVARIANTS
    BufferTypeOK
    PointersAgree
    QueryMatchesDrainedMemory
PROPERTY IsFifo

CONSTANTS
    RobDepth = 3
    PcNum = 3
    SbDepth = 1
    InstretMod = 3
    TrapVector = 0
    Kinds <- PassKinds
SPECIFICATION Spec
INVARIANTS
    RetiresInProgramOrder
    CsrsArePrecise
    

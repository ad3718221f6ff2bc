CONSTANTS
    WordsPerLine = 4
    SetNum = 2
    AddrNum = 16
    Depth = 4
    ResetPc = 0
    ControlWords <- Controls
    Targets <- MCTargets
    ZeroWords <- NoZeros
SPECIFICATION FairSpec
VIEW View
INVARIANTS
    FetchedWordsAreRight
    OneRequestEverywhere
    StreamIsContiguous
    ClassifiedOnce
PROPERTY
    FetchDelivers

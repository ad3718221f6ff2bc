SPECIFICATION AdapterSpec
VIEW View
CONSTANTS
    Insns <- MCInsns
    HistoryWidth = 2
    PathWidth = 1
    FoldShapes <- MCFoldShapes
    AlgebraWidth = 6
    WindowDepth = 2
    RobSize = 2
    QueueDepth = 2
    SlotNum = 4
    InFlight = 3
    PieceNum = 2
INVARIANTS
    FoldsExact
    HistoryExact
    TrainingKeepsUp

    TrainsOnOwnPrediction
    CallsLeaveNothingBehind

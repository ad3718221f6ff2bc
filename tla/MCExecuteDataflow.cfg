CONSTANTS
    RobDepth = 4
    IqDepth = 3
    Regs = {p1, p2, p3, p4}
    ArchNum = 2
    Groups <- DataflowGroups
SPECIFICATION Spec
INVARIANTS
    OperandsAreRight
    EveryUopHasOneHome
    WakeupsMatchRegisterFile
SYMMETRY Symmetry
VIEW RotatedView

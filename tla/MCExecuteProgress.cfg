CONSTANTS
    RobDepth = 3
    IqDepth = 2
    Regs = {p1, p2}
    ArchNum = 1
    Groups <- ProgressGroups
SPECIFICATION FairSpec
PROPERTIES HeadLeaves

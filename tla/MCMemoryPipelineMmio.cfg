CONSTANTS
    LsqDepth = 2
    RobDepth = 2
    SbDepth = 1
    Addresses <- MCAddresses
    Workloads <- MmioWorkloads
SPECIFICATION FairSpec
INVARIANT StoreDataArrives
PROPERTIES MmioInOrder HeadLeaves

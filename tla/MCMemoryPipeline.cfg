CONSTANTS
    LsqDepth = 3
    RobDepth = 3
    SbDepth = 2
    Addresses <- MCAddresses
    Workloads <- MCWorkloads
SPECIFICATION Spec
INVARIANTS
    LoadsSeeProgramOrder
    RetiredStoresConserved
    LsqMatchesRob
    ResultsFindTheirOwner
VIEW RotatedView

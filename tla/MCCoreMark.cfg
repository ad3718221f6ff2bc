CONSTANTS
    Configs <- MCConfigs
    CORE_CLOCK_HZ = 3
    TickModulus = 128
    TrialTicks = {0, 31}
    MaxTrial = 10
    RunTicks = {1, 27, 28, 125, 133}
SPECIFICATION FairSpec
VIEW View
INVARIANTS
    
    DataRestored
    LogTellsTheOutcome
PROPERTY Finishes

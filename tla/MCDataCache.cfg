CONSTANTS
    Sets = {0, 1}
    LineTags = {0, 1}
    WordsPerLine = 4
    Ids = {0, 1}
    Requests <- MCRequests
    FromHosts <- MCFromHosts
SPECIFICATION Spec
INVARIANTS
    CopiesAreCurrent
    IdleMeansDone
PROPERTIES
    IsLinearMemory
    EveryLoadAnswered

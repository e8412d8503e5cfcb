SPECIFICATION Spec
CONSTANTS
    NumProc = 2
    Configs <- MCConfigs
    CheaperCount = 1
    CheaperOverload = 1
    MaxEvents = 2
INVARIANTS
    WorkersAreKnown
    EnoughWorkers

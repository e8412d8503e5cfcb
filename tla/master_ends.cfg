SPECIFICATION Spec
CONSTANTS
    NumProc = 2
    Configs <- LiveConfigs
    CheaperCount = 1
    CheaperOverload = 1
    MaxEvents = 2
PROPERTIES
    OperationsEnd

SPECIFICATION DriverSpec
CONSTANTS
    Argvs <- CommandLines
    Addresses <- SixAddresses
    MaxSymbols = 5
    MaxUndone = 1
INVARIANTS
    DriverTypeOK
    ArgumentsInOrder
    StaysInArgv
    FilesClosed
    OutputSurvives
    OwnedOnce
    FreedOnce
    NodesLive
PROPERTY ArgsEnd

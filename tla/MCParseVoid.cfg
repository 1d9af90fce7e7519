SPECIFICATION Spec
CONSTANTS
    nameX = nameX
    nameF = nameF
    NoName = NoName
    Number = Number
    Names <- Two
    ParamLists <- VoidParams
    Exprs <- Reads
    DeclTypes <- IntOnly
    MaxTypes = 2
    MaxVars = 2
    MaxBlocks = 1
    MaxExprs = 2
    MaxFuncs = 1
INVARIANTS LookupNeverFaults

CHECK_DEADLOCK FALSE

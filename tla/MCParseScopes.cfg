SPECIFICATION Spec
CONSTANTS
    nameX = nameX
    nameF = nameF
    NoName = NoName
    Number = Number
    Names <- One
    ParamLists <- SessionParams
    Exprs <- AssignX
    DeclTypes <- SessionTypes
    MaxTypes = 2
    MaxVars = 2
    MaxBlocks = 3
    MaxExprs = 3
    MaxFuncs = 2
INVARIANTS TypeOK ScopeChain ResolvesLexically VariablesOwnedOnce NodesOwnedOnce EntriesInSourceOrder ConstNeverAssigned
PROPERTIES ConstPreserved
CHECK_DEADLOCK FALSE

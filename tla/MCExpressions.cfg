SPECIFICATION Spec
CONSTANTS
    VarTypes <- MCVarTypes
    Funcs <- MCFuncs
    Numbers = {0}
    BinaryOps = {"+", "<"}
    UnaryOps <- AllUnary
    CompoundOps = {"+"}
    CastTypes <- MCCasts
    MaxOperands = 3
    MaxReductions = 2
INVARIANTS OperandsWide CallsConverted ConstRespected
CHECK_DEADLOCK FALSE

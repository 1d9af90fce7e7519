SPECIFICATION Spec
CONSTANTS
    VarTypes <- MCVarTypes
    Funcs <- MCFuncs
    Numbers = {0}
    BinaryOps = {"+", "-"}
    UnaryOps = {}
    CompoundOps = {"+"}
    CastTypes = {}
    MaxOperands = 2
    MaxReductions = 1
INVARIANTS PointerArithmeticBuilt
CHECK_DEADLOCK FALSE

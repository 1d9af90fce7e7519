SPECIFICATION Spec
CONSTANTS
    ByteBits = 4
    MemSize = 72
    Programs <- NotProgram
    Images <- Compiled
    Runs <- Meanings
    Junk = {0}
INVARIANT CodeAssembles
CHECK_DEADLOCK FALSE

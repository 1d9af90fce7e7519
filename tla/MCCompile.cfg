SPECIFICATION Spec
CONSTANTS
    ByteBits = 4
    MemSize = 128
    Programs <- AllPrograms
    Images <- Compiled
    Runs <- Meanings
    Junk = {0, 15}
INVARIANTS
    CodeAssembles
    StackBalanced
    FramesLinked
    DumpsTellApart
PROPERTY ImplementsExecution
CHECK_DEADLOCK FALSE

SPECIFICATION LiteralsSpec
CONSTANTS
    Sources <- AllTexts
    Operators <- SomeOperators
    Keywords <- SomeKeywords
    Chunk = 3
    IntBits = 16
    InitialCapacity = 2
    EscapeCapacity = 2
INVARIANTS TypeOK BuffersHold TokensLocated FileReadInOrder LiteralsMeanC StringsReachTheProgram
CHECK_DEADLOCK FALSE

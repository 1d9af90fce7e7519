SPECIFICATION Spec
CONSTANTS
    MaxBase = 4
    MaxStars = 3
    MaxParens = 2
    NameSize = 24
INVARIANTS BaseMeansC RejectsWhatCRejects DeclaratorMeansC NamesStayInBuffer
CHECK_DEADLOCK FALSE

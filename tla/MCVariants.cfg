SPECIFICATION Spec
CONSTANTS
    W8 = 2
    W16 = 3
    W32 = 4
    W64 = 5
    Literals <- MCLiterals
    ColumnType <- MCColumnType
    NotNull <- MCNotNull
    Inexact = Inexact
    MaxSteps = 5
INVARIANTS
    ExactWhileInRange
    DescribedTypeIsActual
    OrderIsExact
CHECK_DEADLOCK FALSE

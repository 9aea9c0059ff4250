SPECIFICATION Spec
CONSTANTS
    NumColumns = 2
    NotNull <- MCNotNull
    TextColumns <- MCTextColumns
    v1 = v1
    v2 = v2
    Values <- MCValues
    Null = Null
    Absent = Absent
    N = 2
    MaxTrid = 3
    MaxRows = 2
    MaxFailures = 2
    MaxRecords = 4
INVARIANTS
    RowsIntact
    HistoryIsChained
    StatementIsComplete
PROPERTY TridsNotReused
CHECK_DEADLOCK FALSE
SYMMETRY Symmetry

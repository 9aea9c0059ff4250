SPECIFICATION Spec
CONSTANTS
    Contents <- MCContents
    NumTables = 2
    N = 4
    Statements <- MCStatements
    None = None
INVARIANTS
    RowsAreTheResult
PROPERTY QueryEnds
CHECK_DEADLOCK FALSE

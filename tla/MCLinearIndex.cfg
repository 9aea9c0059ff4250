SPECIFICATION Spec
CONSTANTS
    N = 2
    MaxKey = 5
    a = a
    b = b
    Values <- MCValues
    Zero = Zero
    Torn = Torn
    Absent = Absent
    Unknown = Unknown
    NoKey = NoKey
    NoRequest = NoRequest
    CacheCapacity = 1
    MaxRequests = 3
INVARIANTS
    EndsAreExact
    NeighboursFoundInFile
PROPERTY ImplementsAtomicIndex
CHECK_DEADLOCK FALSE
SYMMETRY Symmetry

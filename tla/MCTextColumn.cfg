SPECIFICATION Spec
CONSTANTS
    AreaSize = 6
    HeaderSize = 3
    MinRequired = 2
    Threshold = 1
    SmallLimit = 3
    Lengths <- MCLengths
    MaxBlocks = 5
    MaxTexts = 4
    MaxFailures = 1
INVARIANT TextsReadBack
CHECK_DEADLOCK FALSE

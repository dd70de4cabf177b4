SPECIFICATION Spec
CONSTANTS
    Tokens <- AllTokens
    MaxLines = 3
    Parts = 10
INVARIANT SmallListLoads
CHECK_DEADLOCK FALSE

SPECIFICATION Spec
CONSTANTS
    Tokens <- AllTokens
    MaxLines = 3
    Parts = 2
INVARIANTS ListedIsBlocked BlockedOnlyIfListed
CHECK_DEADLOCK FALSE

CONSTANTS
    Plans <- MCPlans
    MAX_TEXT = 2
    MAX_SETBACKS = 4
    NoRow = NoRow
SPECIFICATION FairSpec
INVARIANTS InOrder DmlOnce NotReissued
PROPERTIES Completes
CHECK_DEADLOCK FALSE

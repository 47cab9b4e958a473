CONSTANTS
    Names = {i1, i2}
    Keys = {k1, k2}
    Items = {x1, x2}
    MAX_DEPLOYS = 3
    Sandbox = {TRUE, FALSE}
    Unreadable = TRUE
    Crashes = TRUE
    None = None
SPECIFICATION FairSpec
INVARIANTS RestMeansServed
PROPERTIES OrphanKeepsIndexes OldServesUntilNew NothingLost RequestEnds
CHECK_DEADLOCK FALSE

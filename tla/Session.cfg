CONSTANTS
    Requests = {r1, r2}
    Containers = {c1, c2}
    Kinds = {"verify", "refresh", "signOut"}
    STALE = 1
    LIFETIME = 3
    MAX_TIME = 2
    StaleReads = TRUE
    StoreErrors = TRUE
    IdpFaults = TRUE
    Crashes = TRUE
    NoRow = NoRow
    NoRequest = NoRequest
SPECIFICATION FairSpec
INVARIANTS OneHolder OneRefreshAtATime ExpiredForCause
PROPERTIES NoResurrection EveryRequestEnds
CHECK_DEADLOCK FALSE

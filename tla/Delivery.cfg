CONSTANTS
    Writers <- MCWriters
    Submitter = submitter
    MAX_CAS_ATTEMPTS = 2
    RETENTION = 1
    MaxAttempt = 1
    MaxSkew = 0
    MaxClock = 1
    MaxWrites = 0
    StaleReads = FALSE
    PutErrors = TRUE
    LostReplies = FALSE
    NoRecord = NoRecord
    MAX_RETRIES = 2
    EarlyLapse = TRUE
    Crashes = TRUE
SPECIFICATION FairDeliverySpec
INVARIANTS CalmPromise
PROPERTIES KeepsPromise Resolves SubmissionConverges
CHECK_DEADLOCK FALSE

CONSTANTS
    Writers = {w1, w2}
    Submitter = submitter
    MAX_CAS_ATTEMPTS = 2
    RETENTION = 1
    MaxAttempt = 1
    MaxSkew = 1
    MaxClock = 1
    MaxWrites = 1
    StaleReads = TRUE
    PutErrors = TRUE
    LostReplies = TRUE
    NoRecord = NoRecord
SPECIFICATION Spec
SYMMETRY WriterSymmetry
INVARIANTS SubmissionAgrees SubmissionSettled
CHECK_DEADLOCK FALSE
PROPERTIES RefinesHistory

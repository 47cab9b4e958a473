CONSTANTS
    Requests = {r1, r2}
    MAX_REQUESTS = 5
    MAX_CODE_ATTEMPTS = 2
    MAX_EPOCH_BUMP_ATTEMPTS = 2
    MAX_CODES = 2
    None = None
SPECIFICATION Spec
SYMMETRY RequestSymmetry
INVARIANTS AttemptsBounded CodeUsedOnce NoSessionOutlivesReset
CHECK_DEADLOCK FALSE

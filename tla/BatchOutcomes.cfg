CONSTANTS
    Sizes = {1, 2, 4}
    MaxPayloads = 5
    MAX_BATCH_PAYLOADS = 4
    MAX_BATCH_SIZE = 2
    MAX_PAYLOAD_BYTES = 3
    MAX_BATCH_CONCURRENCY = 2
    STATUS_WRITE_GROUP = 2
    LostReplies = TRUE
SPECIFICATION BatchSpec
INVARIANTS OneOutcomeEach ChunksOptimal
CHECK_DEADLOCK FALSE

CONSTANTS
    Messages = {m1}
    Tasks = {t1, t2}
    MAX_RETRIES = 3
    MAX_CONCURRENCY = 2
    RECEIVE_BATCH = 2
    VISIBILITY = 2
    INTERVAL = 1
    Timeouts = TRUE
    SqsErrors = TRUE
    ExtensionErrors = FALSE
    Crashes = TRUE
    Fallible = {t1}
SPECIFICATION FairSpec
INVARIANTS SlotsAccounted OneHandlerAtATime
PROPERTIES KeepsPromise EveryMessageResolves StoppedTaskEnds

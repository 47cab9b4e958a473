CONSTANTS
    Tasks = {t1, t2}
    Blocks = {users, orders}
    MAX_CALLS = 3
    MAX_SAVEPOINTS = 3
    MAX_WORKS = 2
    None = None
SPECIFICATION FairSpec
INVARIANTS InnermostSchema ListenersMatch
PROPERTIES CallsReturn
CHECK_DEADLOCK FALSE

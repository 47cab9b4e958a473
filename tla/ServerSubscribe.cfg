CONSTANTS
    Local = {m1, m2}
    Remote = {r1}
    EarlyUnsubscribe = FALSE
SPECIFICATION ServerSpec
INVARIANTS OnceWhenSteady TwiceOnlyAtHandover
PROPERTIES SilentAfterUnsubscribe
CHECK_DEADLOCK FALSE

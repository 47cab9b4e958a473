CONSTANTS
    s1 = s1
    s2 = s2
    a = a
    b = b
    None = None
    Subscribers = {s1, s2}
    Channels = {a, b}
    ChannelOf <- TwoOnTwo
    Refreshing = {s1}
    Urls = {u1, u2}
    MAX_RECONNECT = 2
    Callbacks = {"unsubscribe"}
SPECIFICATION FairSpec
INVARIANTS OneWayForward NobodyForgotten
PROPERTIES EstablishedSettles
CHECK_DEADLOCK FALSE

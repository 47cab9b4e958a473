CONSTANTS
    s1 = s1
    s2 = s2
    a = a
    b = b
    None = None
    Subscribers = {s1, s2}
    Channels = {a, b}
    ChannelOf <- TwoOnTwo
    Refreshing = {s1}
    Urls = {u1}
    MAX_RECONNECT = 1
    Callbacks = {"subscribe", "unsubscribe"}
SPECIFICATION Spec
PROPERTIES NoForeignEviction
CHECK_DEADLOCK FALSE

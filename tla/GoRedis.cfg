\* Two callers of Subscribe and of Close, two messages in a channel.
CONSTANTS
    Subscribers = {s1, s2}
    Closers = {k1, k2}
    Listener = Listener
    Streams = {p1, p2, p3}
    None = None
    MaxBuffered = 2
SPECIFICATION FairSpec
CHECK_DEADLOCK FALSE
INVARIANTS SilentAfterClose NothingLeaked OneStream
PROPERTIES CloseReturns SubscriptionRecovers

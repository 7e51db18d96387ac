\* Every teardown ends, whatever the other connection does and the adapter answers, and a join_ack does not depend on it.
CONSTANTS
    Conns = {a, b}
    Rooms = {root}
    Root = root
    Shards = {s1}
    ShardOf <- OneShard
    Incs = {1, 2, 3, 4, 5}
    None = None
    MaxRequests = 0
    AdapterMayFail = TRUE
SPECIFICATION FairSpec
INVARIANTS AckListsSelf
PROPERTIES TeardownCompletes

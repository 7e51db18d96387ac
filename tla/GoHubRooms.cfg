\* Two connections and two rooms behind one shard lock.
CONSTANTS
    Conns = {a, b}
    Rooms = {root, lobby}
    Root = root
    Shards = {s1}
    ShardOf <- OneShard
    Incs = {1, 2, 3, 4, 5}
    None = None
    MaxRequests = 2
    AdapterMayFail = FALSE
SPECIFICATION Spec
SYMMETRY ConnSymmetry
INVARIANTS NoOrphanRoom NoZombieMembers TrackedIffMember AckListsSelf PresenceOfLiveConns

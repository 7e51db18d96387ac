\* Two producers and two closers under each of the policies.
CONSTANTS
    Producers = {p1, p2}
    MaxSends = 2
    Capacity = 2
    Policies = {"DropSlowClient", "DropOldest", "DropNewest"}
    k1 = k1
    k2 = k2
    Kickers = {k1, k2}
    CodeOf <- KickCodes
    Slow = Slow
    Reader = Reader
    Writer = Writer
    PeerMayFail = TRUE
SPECIFICATION Spec
SYMMETRY ProducerSymmetry
INVARIANTS OneCloseFrame InOrder NoSilentLoss OldestEvicted

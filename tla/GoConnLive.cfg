\* The connection and its pumps come to an end.
CONSTANTS
    Producers = {p1}
    MaxSends = 2
    Capacity = 1
    Policies = {"DropSlowClient", "DropOldest", "DropNewest"}
    k1 = k1
    k2 = k2
    Kickers = {k1, k2}
    CodeOf <- KickCodes
    Slow = Slow
    Reader = Reader
    Writer = Writer
    PeerMayFail = TRUE
SPECIFICATION FairSpec
PROPERTIES PumpsReturn SlowClientCloses AcceptedDelivered

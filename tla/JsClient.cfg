\* Two rooms besides root that can be joined and one the server refuses; codes that are retried, refused and rejected.
CONSTANTS
    Rooms = {root, lobby, hall, den}
    Root = root
    Refused = {den}
    ServerCodes = {1006, 1008}
    ClientCodes = {1000, 1001}
    MaxFaults = 2
    MaxCalls = 5
SPECIFICATION FairSpec
INVARIANTS ClosedForGood OpenMeansMember JoinUnderWay
PROPERTIES RoomsRecover

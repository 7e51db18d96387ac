\* A client's frames may arrive after the server has called ws.close().
CONSTANTS
    Conns = {c1, c2}
    Rooms = {root}
    Root = root
    Adapter = "local"
    Strategy = "DropSlowClient"
    Events = {"join", "kick"}
    MaxSlow = 0
    MaxInputs = 2
    MaxFaults = 0
    LateFrames = TRUE
SPECIFICATION Spec
INVARIANTS NoZombieMembers

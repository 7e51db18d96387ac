\* Two clients whose joins, leaves and closes overlap with Redis' answers.
CONSTANTS
    Conns = {c1, c2}
    Rooms = {root, a}
    Root = root
    Adapter = "redis"
    Strategy = "DropNewest"
    Events = {"join", "leave", "incoming", "peerCloses"}
    MaxSlow = 1
    MaxInputs = 3
    MaxFaults = 1
    LateFrames = FALSE
SPECIFICATION Spec
SYMMETRY ConnSymmetry
INVARIANTS PresenceExact RosterComplete

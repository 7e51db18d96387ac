\* Three clients of a server with the local adapter, two of them slow.
CONSTANTS
    Conns = {c1, c2, c3}
    Rooms = {root}
    Root = root
    Adapter = "local"
    Strategy = "DropSlowClient"
    Events = {"leave", "broadcast", "direct", "kick", "malformed", "refuse",
              "peerCloses", "error", "timer", "pong",
              "shutdown"}
    MaxSlow = 2
    MaxInputs = 2
    MaxFaults = 0
    LateFrames = FALSE
SPECIFICATION Spec
SYMMETRY ConnSymmetry
INVARIANTS NoZombieMembers OneSlowClientIsSafe
PROPERTIES ShutdownClosesAll

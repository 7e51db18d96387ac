\* Three clients of a mixed cluster, two messages, one fault.
CONSTANTS
    g = g
    j = j
    c1 = c1
    c2 = c2
    c3 = c3
    lobby = lobby
    roomLobby = roomLobby
    nodeLobby = nodeLobby
    Nodes = {g, j}
    Kind <- Kinds
    Conns = {c1, c2, c3}
    Home <- Homes
    Rooms = {lobby, roomLobby, nodeLobby}
    Root = lobby
    Alias <- Aliases
    NodeNamed = {nodeLobby}
    Joins <- Joined
    Sends <- Sent
    Residents = {c2}
    None = None
    MaxSends = 2
    MaxFaults = 1
SPECIFICATION Spec
INVARIANTS NothingLost InOrder
PROPERTIES KeepsPromise

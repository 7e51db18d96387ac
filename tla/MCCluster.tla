----------------------------- MODULE MCCluster -----------------------------
(* A Go node with two clients and a Node node with one. *)
EXTENDS Cluster

CONSTANTS g, j, c1, c2, c3, lobby, roomLobby, nodeLobby

Kinds == [n \in Nodes |-> IF n = g THEN "go" ELSE "node"]

Homes == [c \in Conns |-> IF c = c3 THEN j ELSE g]

(* "room:lobby" is heard as "lobby". *)
Aliases == [r \in Rooms |-> IF r = roomLobby THEN lobby ELSE r]

Joined == [c \in Conns |-> CASE c = c1 -> {lobby}
                            [] c = c2 -> {lobby, nodeLobby}
                            [] OTHER -> {lobby}]

Sent == [c \in Conns |-> CASE c = c1 -> {lobby}
                          [] c = c2 -> {}
                          [] OTHER -> {lobby, roomLobby, nodeLobby}]

=============================================================================

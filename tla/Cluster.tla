------------------------------ MODULE Cluster ------------------------------
(***************************************************************************)
(* Messages between the nodes of a cluster, each a Go or a Node server:     *)
(* the routing part of dispatch and of the hub (src/server/go/conn.go,      *)
(* hub.go, room.go; src/server/node/hub.js) over the Redis adapters         *)
(* (src/server/go/adapter/redis/redis.go, src/server/node/adapter_redis.js).*)
(*                                                                         *)
(* A Go node makes every call to Redis in a goroutine of its own, so that   *)
(* they happen in any order; a Node node sends them over one connection,    *)
(* which keeps their order, and goes on when the answer comes.  Redis keeps *)
(* the registry of connections and forwards what is published to the nodes  *)
(* subscribed at that moment, in order, and to no other.                    *)
(* How a connection enters and leaves a hub and its rooms is the subject of *)
(* GoHub and NodeHub, what a full buffer does to a message that of GoConn   *)
(* and NodeHub: here each is one step, and a message that TrySend is called *)
(* with is received.                                                        *)
(***************************************************************************)
EXTENDS Naturals, SequencesExt

CONSTANTS
    Nodes,          \* server instances
    Kind,           \* "go" or "node", for each of them
    Conns,          \* connection identifiers
    Home,           \* the node each of them connects to
    Rooms,          \* room names
    Root,           \* the room name direct messages travel under
    Alias,          \* a room name without "room:" in front
    NodeNamed,      \* room names that begin with "node:"
    Joins,          \* bound: the rooms each client joins
    Sends,          \* bound: the rooms each client sends to, if it sends at all
    Residents,      \* bound: clients there from the start, who stay
    None,           \* no node, no destination, no message
    MaxSends,       \* bound: messages sent by clients
    MaxFaults       \* bound: calls that fail and subscriptions that break

ASSUME KindAssumption == IsFiniteSet(Nodes) /\ Kind \in [Nodes -> {"go", "node"}]
ASSUME HomeAssumption == Home \in [Conns -> Nodes]
ASSUME RoomAssumption ==
    Root \in Rooms /\ Alias \in [Rooms -> Rooms] /\ NodeNamed \subseteq Rooms
ASSUME ClientAssumption ==
    /\ Joins \in [Conns -> SUBSET Rooms] /\ Sends \in [Conns -> SUBSET Rooms]
    /\ Residents \subseteq Conns
ASSUME NoneAssumption ==
    /\ None \notin Nodes \cup Conns \cup Rooms
    /\ None \notin [src : Conns, dst : Conns \cup {None}, room : Rooms]
ASSUME BoundAssumption == MaxSends \in Nat /\ MaxFaults \in Nat

Ids == 1..MaxSends

VARIABLES
    conn,           \* the connections of all hubs: "new", "open" or "gone"
    rooms,          \* the rooms each connection is a member of
    registry,       \* Redis keys conn_node:*
    calls,          \* calls to Redis each node has under way
    answers,        \* answers to Node nodes' lookups that have not arrived
    link,           \* the channels each node is subscribed to
    wire,           \* envelopes Redis has for each node
    msg,            \* the messages sent, by number
    got,            \* the messages each connection was handed, in order
    owed,           \* who could hear each message, and has been there since
    unsure,         \* direct messages published again after an unclear error
    faults          \* faults so far

connVars == <<conn, rooms>>
redisVars == <<registry, calls, answers, link, wire>>
vars == <<connVars, redisVars, msg, got, owed, unsure, faults>>

RoomChannel == "room"
NodeChannel == "node"

Message(src, dst, room) == [src |-> src, dst |-> dst, room |-> room]
Envelope(channel, from, id) == [channel |-> channel, from |-> from, id |-> id]

(* set and del of the registry, get of a destination's node, publish to a   *)
(* node, publish to a room; arg is a connection or a message.               *)
Call(op, arg, to) == [op |-> op, arg |-> arg, to |-> to]

(* Configure has subscribed every node.  When Subscribe fails on a Go node  *)
(* the error is logged and the node serves its clients without hearing from *)
(* the others; on a Node node configure throws.                             *)
Init ==
    /\ conn = [c \in Conns |-> IF c \in Residents THEN "open" ELSE "new"]
    /\ rooms = [c \in Conns |-> IF c \in Residents THEN Joins[c] ELSE {}]
    /\ registry = [c \in Conns |-> IF c \in Residents THEN Home[c] ELSE None]
    /\ calls = [n \in Nodes |-> << >>]
    /\ answers = [n \in Nodes |-> << >>]
    /\ \E deaf \in SUBSET {n \in Nodes : Kind[n] = "go"} :
          /\ Cardinality(deaf) <= MaxFaults
          /\ link = [n \in Nodes |-> IF n \in deaf THEN {"never"}
                                     ELSE {RoomChannel, NodeChannel}]
          /\ faults = Cardinality(deaf)
    /\ wire = [n \in Nodes |-> << >>]
    /\ msg = [i \in Ids |-> None]
    /\ got = [c \in Conns |-> << >>]
    /\ owed = [i \in Ids |-> {}]
    /\ unsure = {}

-----------------------------------------------------------------------------
(* Connections *)

Local(n) == {c \in Conns : Home[c] = n /\ conn[c] = "open"}

Starts(n, call) == calls' = [calls EXCEPT ![n] = Append(@, call)]

(* addConn, add_conn *)
Connect(c) ==
    /\ conn[c] = "new"
    /\ conn' = [conn EXCEPT ![c] = "open"]
    /\ Starts(Home[c], Call("set", c, None))
    /\ UNCHANGED <<rooms, registry, answers, link, wire, msg, got, owed, unsure, faults>>

(* cleanup: every room is left and the connection removed. *)
Disconnect(c) ==
    /\ conn[c] = "open" /\ c \notin Residents
    /\ conn' = [conn EXCEPT ![c] = "gone"]
    /\ rooms' = [rooms EXCEPT ![c] = {}]
    /\ owed' = [i \in Ids |-> owed[i] \ {c}]
    /\ Starts(Home[c], Call("del", c, None))
    /\ UNCHANGED <<registry, answers, link, wire, msg, got, unsure, faults>>

JoinRoom(c, r) ==
    /\ conn[c] = "open" /\ r \in Joins[c] \ rooms[c]
    /\ rooms' = [rooms EXCEPT ![c] = @ \cup {r}]
    /\ UNCHANGED <<conn, redisVars, msg, got, owed, unsure, faults>>

LeaveRoom(c, r) ==
    /\ r \in rooms[c] /\ c \notin Residents
    /\ rooms' = [rooms EXCEPT ![c] = @ \ {r}]
    /\ owed' = [i \in Ids |-> IF msg[i] # None /\ msg[i].dst = None /\ msg[i].room = r
                              THEN owed[i] \ {c} ELSE owed[i]]
    /\ UNCHANGED <<conn, redisVars, msg, got, unsure, faults>>

-----------------------------------------------------------------------------
(* Sending *)

(* TrySend of message i to every connection of a set. *)
Receive(cs, i) == got' = [c \in Conns |-> IF c \in cs THEN Append(got[c], i) ELSE got[c]]

(* i is the number of the next message. *)
Unused(i) == msg[i] = None /\ \A j \in Ids : j < i => msg[j] # None

(* dispatch, or SendToClient, with a destination: on the same node the      *)
(* message is handed over, otherwise its node is looked up.                 *)
SendDirect(c, d, i) ==
    /\ conn[c] = "open" /\ conn[d] # "new" /\ Unused(i)
    /\ msg' = [msg EXCEPT ![i] = Message(c, d, Root)]
    /\ owed' = [owed EXCEPT ![i] = {d} \cap {e \in Conns : conn[e] = "open"}]
    /\ IF d \in Local(Home[c])
         THEN Receive({d}, i) /\ UNCHANGED calls
         ELSE Starts(Home[c], Call("get", i, None)) /\ UNCHANGED got
    /\ UNCHANGED <<connVars, registry, answers, link, wire, unsure, faults>>

(* Is a broadcast published for certain?  Go does it through the room       *)
(* object, which a node has while the room has members there, and may still *)
(* have, empty, after a join it refused.                                    *)
Publishes(n, r) == Kind[n] = "node" \/ \E d \in Local(n) : r \in rooms[d]

(* Can c hear what is sent to r on node n? *)
Audible(n, c, r) ==
    Home[c] = n \/ (Alias[r] = r /\ (Kind[Home[c]] = "node" \/ r \notin NodeNamed))

(* room.emit, of dispatch's default branch or SendToRoom; broadcast_room. *)
Broadcast(c, r, i) ==
    LET n == Home[c]
        members == {d \in Conns : r \in rooms[d]} \ {c}
    IN  /\ conn[c] = "open" /\ Unused(i)
        /\ msg' = [msg EXCEPT ![i] = Message(c, None, r)]
        /\ Receive(members \cap Local(n), i)
        /\ \/ /\ Starts(n, Call("publish", i, None))
              /\ owed' = [owed EXCEPT ![i] = {d \in members : Audible(n, d, r)}]
           \/ /\ ~Publishes(n, r)
              /\ owed' = [owed EXCEPT ![i] = {}]
              /\ UNCHANGED calls
        /\ UNCHANGED <<connVars, registry, answers, link, wire, unsure, faults>>

-----------------------------------------------------------------------------
(* Calls to Redis *)

(* Mutant: commands of a Node node overtake each other. *)
Due_AnyOrder(n) == DOMAIN calls[n]

(* The calls that Redis may carry out next. *)
Due(n) == IF Kind[n] = "go" THEN DOMAIN calls[n] ELSE {1} \cap DOMAIN calls[n]

Ends(n, k) == calls' = [calls EXCEPT ![n] = RemoveAt(@, k)]

Continues(n, k, call) == calls' = [calls EXCEPT ![n] = Append(RemoveAt(@, k), call)]

(* A call may fail, and it may be reported as failed after Redis has        *)
(* carried it out: "late", where that makes a difference.                   *)
Outcome(o) ==
    /\ faults' = IF o = "ok" THEN faults ELSE faults + 1
    /\ faults' <= MaxFaults

(* RegisterNode and UnregisterNode; errors are ignored. *)
Register(n, k, o) ==
    LET call == calls[n][k]
    IN  /\ call.op \in {"set", "del"}
        /\ o \in {"ok", "error"} /\ Outcome(o)
        /\ Ends(n, k)
        /\ registry' = IF o = "error" THEN registry
                       ELSE [registry EXCEPT ![call.arg] =
                                 IF call.op = "set" THEN n ELSE None]
        /\ UNCHANGED <<connVars, answers, link, wire, msg, got, owed, unsure>>

(* Mutant: without a mapping there is nowhere to send to. *)
Onward_NoFallback(i, node) == Call("direct", i, node)

(* The call that follows the lookup of the destination's node. *)
Onward(i, node) == IF node = None THEN Call("publish", i, None) ELSE Call("direct", i, node)

(* GetNodeForConn in sendDirectToCluster's goroutine: without an answer the *)
(* message goes to the channel of root, which every node hears.             *)
GetNodeGo(n, k, o) ==
    LET i == calls[n][k].arg
    IN  /\ Kind[n] = "go" /\ calls[n][k].op = "get"
        /\ o \in {"ok", "error"} /\ Outcome(o)
        /\ Continues(n, k, Onward(i, IF o = "ok" THEN registry[msg[i].dst] ELSE None))
        /\ UNCHANGED <<connVars, registry, answers, link, wire, msg, got, owed, unsure>>

(* get_node_for_conn in send_direct_to_cluster: after an error the message  *)
(* is given up.                                                             *)
GetNodeJs(n, k, o) ==
    LET i == calls[n][k].arg
    IN  /\ Kind[n] = "node" /\ calls[n][k].op = "get"
        /\ o \in {"ok", "error"} /\ Outcome(o)
        /\ Ends(n, k)
        /\ answers' = IF o = "error" THEN answers
                      ELSE [answers EXCEPT ![n] = Append(@, Onward(i, registry[msg[i].dst]))]
        /\ UNCHANGED <<connVars, registry, link, wire, msg, got, owed, unsure>>

(* The answer arrives and the next command is sent. *)
Resolved(n) ==
    /\ answers[n] # << >>
    /\ Starts(n, Head(answers[n]))
    /\ answers' = [answers EXCEPT ![n] = Tail(@)]
    /\ UNCHANGED <<connVars, registry, link, wire, msg, got, owed, unsure, faults>>

(* PUBLISH: Redis appends to what it has for the subscribed nodes. *)
Published(ns, env, o) ==
    wire' = [n \in Nodes |-> IF n \in ns /\ o # "error" THEN Append(wire[n], env)
                             ELSE wire[n]]

(* Mutant: a Node node falls back too. *)
FallsBack_Always(n, o) == o # "ok"

(* After an error of PublishDirect a Go node falls back to root. *)
FallsBack(n, o) == Kind[n] = "go" /\ o # "ok"

PublishDirect(n, k, o) ==
    LET call == calls[n][k]
        again == FallsBack(n, o)
    IN  /\ call.op = "direct"
        /\ Outcome(o)
        /\ Published({m \in Nodes : m = call.to /\ NodeChannel \in link[m]},
                     Envelope(NodeChannel, n, call.arg), o)
        /\ IF again THEN Continues(n, k, Call("publish", call.arg, None)) ELSE Ends(n, k)
        /\ unsure' = IF again /\ o = "late" THEN unsure \cup {call.arg} ELSE unsure
        /\ UNCHANGED <<connVars, registry, answers, link, msg, got, owed>>

(* Publish, publish_raw: errors end it. *)
PublishRoom(n, k, o) ==
    LET i == calls[n][k].arg
    IN  /\ calls[n][k].op = "publish"
        /\ o \in {"ok", "error"} /\ Outcome(o)
        /\ Published({m \in Nodes : RoomChannel \in link[m]},
                     Envelope(msg[i].room, n, i), o)
        /\ Ends(n, k)
        /\ UNCHANGED <<connVars, registry, answers, link, msg, got, owed, unsure>>

-----------------------------------------------------------------------------
(* Receiving *)

(* Mutant: no loopback suppression. *)
Recipients_Loopback(n, env) ==
    LET m == msg[env.id]
    IN  IF m.dst # None THEN {m.dst} \cap Local(n)
        ELSE {c \in Local(n) : Alias[env.channel] \in rooms[c]}

(* handleIncoming and the handler of Configure, handle_incoming and the     *)
(* callback of configure: a message of this node's own is dropped; one with *)
(* a destination goes to that connection; any other goes to the room whose  *)
(* name is left of the channel's, which has "room:" taken off once by each  *)
(* of the two.  A Go node takes a room named "node:..." for a node's        *)
(* channel.                                                                 *)
Recipients(n, env) ==
    LET m == msg[env.id]
    IN  IF env.from = n THEN {}
        ELSE IF m.dst # None THEN {m.dst} \cap Local(n)
        ELSE IF Kind[n] = "go" /\ env.channel \in NodeNamed THEN {}
        ELSE {c \in Local(n) : Alias[env.channel] \in rooms[c]} \ {m.src}

(* A Go node reads again once both subscriptions are there. *)
Listens(n) == Kind[n] = "node" \/ link[n] = {RoomChannel, NodeChannel}

Deliver(n) ==
    /\ wire[n] # << >> /\ Listens(n)
    /\ Receive(Recipients(n, Head(wire[n])), Head(wire[n]).id)
    /\ wire' = [wire EXCEPT ![n] = Tail(@)]
    /\ UNCHANGED <<connVars, registry, calls, answers, link, msg, owed, unsure, faults>>

(* The stream ends, with what was in it. *)
LinkBreaks(n) ==
    /\ link[n] \notin {{}, {"never"}}
    /\ Outcome("lost")
    /\ link' = [link EXCEPT ![n] = {}]
    /\ wire' = [wire EXCEPT ![n] = << >>]
    /\ UNCHANGED <<connVars, registry, calls, answers, msg, got, owed, unsure>>

(* listenLoop subscribes to the rooms and then to the node's channel;       *)
(* ioredis, for a Node node, the other way round.                           *)
Resubscribe(n, channel) ==
    /\ "never" \notin link[n] /\ channel \notin link[n]
    /\ link[n] = {} <=> channel = IF Kind[n] = "go" THEN RoomChannel ELSE NodeChannel
    /\ link' = [link EXCEPT ![n] = @ \cup {channel}]
    /\ UNCHANGED <<connVars, registry, calls, answers, wire, msg, got, owed, unsure, faults>>

-----------------------------------------------------------------------------
(* Specification *)

Client(c) ==
    \/ Connect(c) \/ Disconnect(c)
    \/ \E r \in Rooms : JoinRoom(c, r) \/ LeaveRoom(c, r)
    \/ /\ Sends[c] # {}
       /\ \E i \in Ids : \/ \E d \in Conns \ {c} : SendDirect(c, d, i)
                         \/ \E r \in Sends[c] : Broadcast(c, r, i)

Redis(n) ==
    \E k \in Due(n), o \in {"ok", "error", "late"} :
        \/ Register(n, k, o) \/ GetNodeGo(n, k, o) \/ GetNodeJs(n, k, o)
        \/ PublishDirect(n, k, o) \/ PublishRoom(n, k, o)

Listen(n) ==
    \/ Deliver(n) \/ LinkBreaks(n)
    \/ \E ch \in {RoomChannel, NodeChannel} : Resubscribe(n, ch)

AtRest == \A n \in Nodes : calls[n] = << >> /\ answers[n] = << >> /\ wire[n] = << >>

(* Every other client has gone, and what they started has ended. *)
Quiet == AtRest /\ (\A c \in Conns \ Residents : conn[c] = "gone") /\ UNCHANGED vars

Next ==
    \/ \E c \in Conns : Client(c)
    \/ \E n \in Nodes : Redis(n) \/ Resolved(n) \/ Listen(n)
    \/ Quiet

Spec == Init /\ [][Next]_vars

-----------------------------------------------------------------------------
(* Properties *)

(* The promise of the cluster, kept by nodes of either kind and by both     *)
(* together: only Go repeats a message, only a direct one, and only when    *)
(* PublishDirect failed after it was carried out.                           *)
Promise == INSTANCE Delivery WITH Repeating <- {c \in Conns : Kind[Home[c]] = "go"}

KeepsPromise == Promise!Spec

(* Without faults no message is lost between the nodes: when all is quiet,  *)
(* the destination, registered or not when the message was sent, has it, or *)
(* every member of the room since then.                                     *)
NothingLost ==
    AtRest /\ faults = 0 =>
        \A i \in Ids : \A c \in owed[i] : \E k \in DOMAIN got[c] : got[c][k] = i

(* Two messages of a client on a Node node that go the same way arrive in   *)
(* the order they were sent, whatever fails in between.                     *)
InOrder ==
    \A c \in Conns : \A k \in DOMAIN got[c] : \A h \in 1..(k - 1) :
        LET later == msg[got[c][k]]
        IN  msg[got[c][h]] = later /\ Kind[Home[later.src]] = "node"
              => got[c][h] <= got[c][k]

=============================================================================

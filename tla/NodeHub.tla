------------------------------ MODULE NodeHub ------------------------------
(***************************************************************************)
(* One Node.js server: hub.js, room.js, conn.js, server.js of              *)
(* src/server/node, over either of its adapters (adapter.js,               *)
(* adapter_redis.js).                                                      *)
(*                                                                         *)
(* The process has one thread.  A handler of an event runs until its call  *)
(* stack is empty, then the promise continuations that have become ready   *)
(* run, first in first out, and only then the next event.  What makes the  *)
(* stack worth modelling is that try_send of a slow client closes it, which *)
(* announces its departure in all its rooms, which sends again: the loops  *)
(* over members and rooms run inside one another, each over the keys it    *)
(* found when it began.  Commands to Redis go out on one connection and    *)
(* are answered in order.                                                  *)
(*                                                                         *)
(* A message refused by allow_control_event or authorize_room changes      *)
(* nothing and is no step here (TokenBucket has the former).  What is      *)
(* published to other nodes is the subject of Cluster.                     *)
(***************************************************************************)
EXTENDS Naturals, Sequences, FiniteSets, SequencesExt

CONSTANTS
    Conns,          \* connection identifiers
    Rooms,          \* room names
    Root,           \* the room every connection is put in
    Adapter,        \* "local" or "redis"
    Strategy,       \* conn.js's strategy
    Events,         \* the kinds of events that happen
    MaxSlow,        \* bound: clients whose buffer is ever found full
    MaxInputs,      \* bound: frames and closes of clients, frames of other nodes
    MaxFaults,      \* bound: Redis commands that fail
    LateFrames      \* may a client's frames arrive after ws.close()?

ASSUME RootAssumption == Root \in Rooms
ASSUME AdapterAssumption == Adapter \in {"local", "redis"}
ASSUME StrategyAssumption == Strategy \in {"DropSlowClient", "DropOldest", "DropNewest"}
ASSUME BoundAssumption == MaxSlow \in Nat /\ MaxInputs \in Nat /\ MaxFaults \in Nat
ASSUME LateAssumption == LateFrames \in BOOLEAN

VARIABLES
    ws,             \* readyState; "ending": CLOSING and nothing more to read
    closed,         \* conn.js is_closed
    closeSent,      \* conn.js close_sent
    alive,          \* conn.js is_alive
    joined,         \* conn.js rooms, in the order of their keys
    members,        \* room.js members, in the order of their keys
    conns,          \* hub.js conns, in the order of its keys
    active,         \* server.js active_connections, likewise
    stack,          \* calls in progress, the innermost first
    ready,          \* continuations whose promise is resolved
    pipe,           \* commands Redis has not answered
    presence,       \* the presence sets
    roster,         \* members of each room as each client knows them
    slow,           \* clients whose buffer was found full
    lost,           \* <<room, conn>> of failed presence updates
    inputs,         \* how many of them so far
    process         \* "up", "down" (after shutdown), "threw" (an exception was
                    \* caught) or "crashed"

flags == <<closed, closeSent>>
hubVars == <<joined, members, conns>>
loop == <<stack, ready>>
redis == <<presence, lost>>
counts == <<inputs, slow>>
vars == <<ws, flags, alive, hubVars, active, loop, pipe, redis, roster, counts, process>>

(* A frame a client receives.  ids is what its payload names. *)
Frame(event, r, ids) == [event |-> event, room |-> r, ids |-> ids]

Members(r) == ToSet(members[r])

Init ==
    /\ ws = [c \in Conns |-> "none"]
    /\ closed = [c \in Conns |-> FALSE]
    /\ closeSent = [c \in Conns |-> FALSE]
    /\ alive = [c \in Conns |-> TRUE]
    /\ joined = [c \in Conns |-> << >>]
    /\ members = [r \in Rooms |-> << >>]
    /\ conns = << >>
    /\ active = << >>
    /\ stack = << >>
    /\ ready = << >>
    /\ pipe = << >>
    /\ presence = [r \in Rooms |-> {}]
    /\ roster = [c \in Conns |-> [r \in Rooms |-> {}]]
    /\ slow = {}
    /\ lost = {}
    /\ inputs = 0
    /\ process = "up"

-----------------------------------------------------------------------------
(* Calls.  A frame of the stack is what its function has still to do; a     *)
(* loop's frame goes when it has nothing left.                              *)

Call(op, c, r, rest, f) == [op |-> op, conn |-> c, room |-> r, rest |-> rest, frame |-> f]
None == "none"
NoFrame == Frame(None, Root, {})

(* The .catch on the promise of dispatch, at the bottom of the stack. *)
Caught == <<Call("catch", None, Root, << >>, NoFrame)>>

Return(st) == IF st = Caught THEN << >> ELSE st

Loop(call, st) == IF call.rest = << >> THEN Return(st) ELSE <<call>> \o st

Below == Return(Tail(stack))

(* The loop at the top of the stack moves on. *)
Rest == Loop([Head(stack) EXCEPT !.rest = Tail(@)], Tail(stack))

(* The keys of an object with k added, and with k deleted. *)
AddKey(s, k) == IF k \in ToSet(s) THEN s ELSE Append(s, k)
DeleteKey(s, k) == RemoveFirst(s, k)

(* emit_local(exclude_id, frame) of a room whose members are ms. *)
EmitLocal(ms, exclude, f, st) ==
    Loop(Call("emit", None, f.room, DeleteKey(ms, exclude), f), st)

(* The call of try_send(frame) on c. *)
Send(c, f, st) == <<Call("send", c, f.room, <<c>>, f)>> \o st

(* Mutant: the rooms are left only while the socket is open. *)
CloseWith_OnlyOpen(c, st) ==
    IF closed[c] \/ closeSent[c]
    THEN stack' = Return(st) /\ UNCHANGED flags
    ELSE /\ closeSent' = [closeSent EXCEPT ![c] = TRUE]
         /\ closed' = [closed EXCEPT ![c] = TRUE]
         /\ stack' = IF ws[c] = "open"
                     THEN Loop(Call("leaveAll", c, Root, joined[c], NoFrame),
                               <<Call("close", c, Root, <<c>>, NoFrame)>> \o st)
                     ELSE <<Call("close", c, Root, <<c>>, NoFrame)>> \o st

(* close_with: nothing the second time; leave_all_rooms, remove_conn and    *)
(* ws.close come after the flags are set.                                   *)
CloseWith(c, st) ==
    IF closed[c] \/ closeSent[c]
    THEN stack' = Return(st) /\ UNCHANGED flags
    ELSE /\ closeSent' = [closeSent EXCEPT ![c] = TRUE]
         /\ closed' = [closed EXCEPT ![c] = TRUE]
         /\ stack' = Loop(Call("leaveAll", c, Root, joined[c], NoFrame),
                          <<Call("close", c, Root, <<c>>, NoFrame)>> \o st)

(* cleanup: the same, but for close_sent. *)
Cleanup(c, st) ==
    IF closed[c]
    THEN stack' = st /\ UNCHANGED flags
    ELSE /\ closed' = [closed EXCEPT ![c] = TRUE]
         /\ stack' = Loop(Call("leaveAll", c, Root, joined[c], NoFrame),
                          <<Call("cleanup", c, Root, <<c>>, NoFrame)>> \o st)
         /\ UNCHANGED closeSent

(* What a client makes of a frame (src/client/roomer.js). *)
Read(c, f) ==
    LET r == f.room
    IN  roster' = [roster EXCEPT ![c][r] =
            CASE f.event = "join_ack"    -> f.ids
              [] f.event = "new_member"  -> @ \cup f.ids
              [] f.event = "member_left" -> @ \ f.ids
              [] f.event = "leave_ack"   -> {}
              [] OTHER                   -> @]

(* A client whose connection ends has no use for what it knew. *)
Forget(c) == roster' = [roster EXCEPT ![c] = [r \in Rooms |-> {}]]

(* try_send *)
TrySend(c, f, st) ==
    \/ /\ closed[c] \/ ws[c] # "open"
       /\ stack' = st
       /\ UNCHANGED <<flags, roster, slow>>
    \/ /\ ~closed[c] /\ ws[c] = "open"
       /\ Read(c, f)
       /\ stack' = st
       /\ UNCHANGED <<flags, slow>>
    \/ /\ ~closed[c] /\ ws[c] = "open"
       /\ Cardinality(slow \cup {c}) <= MaxSlow
       /\ slow' = slow \cup {c}
       /\ IF Strategy = "DropSlowClient"
            THEN CloseWith(c, st)
            ELSE stack' = st /\ UNCHANGED flags
       /\ UNCHANGED roster

Command(op, r, c, ids, ack) == [op |-> op, room |-> r, conn |-> c, ids |-> ids, ack |-> ack]

(* Mutant: the members are listed before c is removed. *)
LeaveRoom_OldKeys(r, c, st) ==
    /\ joined' = [joined EXCEPT ![c] = DeleteKey(@, r)]
    /\ IF members[r] = << >>
         THEN stack' = st /\ UNCHANGED <<members, pipe>>
         ELSE /\ members' = [members EXCEPT ![r] = DeleteKey(@, c)]
              /\ pipe' = Append(pipe, Command("srem", r, c, {}, FALSE))
              /\ stack' = EmitLocal(members[r], None, Frame("member_left", r, {c}), st)

(* Mutant: the last member leaves without remove_presence. *)
LeaveRoom_EmptyReturns(r, c, st) ==
    /\ joined' = [joined EXCEPT ![c] = DeleteKey(@, r)]
    /\ members' = [members EXCEPT ![r] = DeleteKey(@, c)]
    /\ IF members'[r] = << >>
         THEN stack' = st /\ UNCHANGED pipe
         ELSE /\ pipe' = Append(pipe, Command("srem", r, c, {}, FALSE))
              /\ stack' = EmitLocal(members'[r], c, Frame("member_left", r, {c}), st)

(* leave_room: the departure is announced whether or not c was a member. *)
LeaveRoom(r, c, st) ==
    /\ joined' = [joined EXCEPT ![c] = DeleteKey(@, r)]
    /\ IF members[r] = << >>
         THEN stack' = st /\ UNCHANGED <<members, pipe>>
         ELSE /\ members' = [members EXCEPT ![r] = DeleteKey(@, c)]
              /\ pipe' = Append(pipe, Command("srem", r, c, {}, FALSE))
              /\ stack' = EmitLocal(members'[r], c, Frame("member_left", r, {c}), st)

-----------------------------------------------------------------------------
(* The thread at work: one step of the innermost call. *)

Top(op) == process # "crashed" /\ stack # << >> /\ Head(stack).op = op

(* emit_local's next member: members[id].try_send(...) *)
EmitNext ==
    /\ Top("emit")
    /\ LET c == Head(Head(stack).rest)
       IN  /\ c \in Members(Head(stack).room)
           /\ TrySend(c, Head(stack).frame, Rest)
    /\ UNCHANGED <<ws, alive, hubVars, active, ready, pipe, redis, inputs, process>>

(* The member has been removed since the loop began: members[id] is         *)
(* undefined and the call throws.  The exception ends every call up to a    *)
(* catch: shutdown's, around each of its calls, or the one on dispatch.     *)
EmitThrows ==
    /\ Top("emit")
    /\ Head(Head(stack).rest) \notin Members(Head(stack).room)
    /\ IF Last(stack).op \in {"shutdown", "catch"}
         THEN process' = "threw" /\ stack' = Return(<<Last(stack)>>)
         ELSE process' = "crashed" /\ stack' = << >>
    /\ UNCHANGED <<ws, flags, alive, hubVars, active, ready, pipe, redis, roster, counts>>

SendNext ==
    /\ Top("send")
    /\ TrySend(Head(stack).conn, Head(stack).frame, Below)
    /\ UNCHANGED <<ws, alive, hubVars, active, ready, pipe, redis, inputs, process>>

(* leave_all_rooms' next room. *)
LeaveNext ==
    /\ Top("leaveAll")
    /\ LeaveRoom(Head(Head(stack).rest), Head(stack).conn, Rest)
    /\ UNCHANGED <<ws, flags, alive, conns, active, ready, redis, roster, counts, process>>

(* The rest of close_with and of cleanup: remove_conn, and ws.close unless  *)
(* the socket is closing already.                                           *)
CloseSocket ==
    /\ Top("close") \/ Top("cleanup")
    /\ LET c == Head(stack).conn
       IN  /\ conns' = DeleteKey(conns, c)
           /\ IF ws[c] = "open" /\ (Top("close") \/ ~closeSent[c])
                THEN /\ ws' = [ws EXCEPT ![c] = "closing"]
                     /\ closeSent' = [closeSent EXCEPT ![c] = TRUE]
                     /\ Forget(c)
                ELSE UNCHANGED <<ws, closeSent, roster>>
    /\ stack' = Below
    /\ UNCHANGED <<closed, alive, joined, members, active, ready, pipe, redis, counts,
                   process>>

(* ping_timer's next connection: check_heartbeat. *)
HeartbeatNext ==
    /\ Top("timer")
    /\ LET c == Head(Head(stack).rest)
       IN  IF alive[c]
           THEN /\ alive' = [alive EXCEPT ![c] = FALSE]
                /\ stack' = Rest
                /\ UNCHANGED flags
           ELSE CloseWith(c, Rest) /\ UNCHANGED alive
    /\ UNCHANGED <<ws, hubVars, active, ready, pipe, redis, roster, counts, process>>

(* Mutant: one try around the whole loop. *)
ShutdownNext_OneTry ==
    /\ Top("shutdown") /\ Head(stack).rest # << >>
    /\ LET c == Head(Head(stack).rest)
           st == <<[Head(stack) EXCEPT !.rest = Tail(@)]>>
       IN  IF c \in ToSet(conns) THEN CloseWith(c, st)
           ELSE stack' = <<[Head(stack) EXCEPT !.rest = << >>]>> /\ UNCHANGED flags
    /\ UNCHANGED <<ws, alive, hubVars, active, ready, pipe, redis, roster, counts, process>>

(* shutdown's next connection; one that a nested call has removed from      *)
(* conns throws, which shutdown catches.                                    *)
ShutdownNext ==
    /\ Top("shutdown") /\ Head(stack).rest # << >>
    /\ LET c == Head(Head(stack).rest)
           st == <<[Head(stack) EXCEPT !.rest = Tail(@)]>>
       IN  IF c \in ToSet(conns) THEN CloseWith(c, st) ELSE stack' = st /\ UNCHANGED flags
    /\ UNCHANGED <<ws, alive, hubVars, active, ready, pipe, redis, roster, counts, process>>

ShutdownEnds ==
    /\ Top("shutdown") /\ Head(stack).rest = << >>
    /\ conns' = << >>
    /\ members' = [r \in Rooms |-> << >>]
    /\ stack' = << >>
    /\ process' = IF process = "up" THEN "down" ELSE process
    /\ UNCHANGED <<ws, flags, alive, joined, active, ready, pipe, redis, roster, counts>>

(* join_room's promise resolves: dispatch will go on. *)
Resolve ==
    /\ Top("resolve")
    /\ ready' = Append(ready, Command("list", Head(stack).room, Head(stack).conn, {}, TRUE))
    /\ stack' = Below
    /\ UNCHANGED <<ws, flags, alive, hubVars, active, pipe, redis, roster, counts, process>>

-----------------------------------------------------------------------------
(* Answers of Redis, and the continuations they make ready. *)

AddPresence(r, c) == [presence EXCEPT ![r] = @ \cup {c}]
RemovePresence(r, c) == [presence EXCEPT ![r] = @ \ {c}]
GetPresence(r) == presence[r]

(* The continuation that waits for the answer to k: join_room's, that of    *)
(* get_cluster_presence with the local members in ids, or none.             *)
Continue(k, ids) ==
    CASE k.op = "sadd"     -> Append(ready, [k EXCEPT !.op = "announce"])
      [] k.op = "smembers" -> Append(ready, [k EXCEPT !.op = "ack", !.ids = @ \cup ids])
      [] OTHER             -> ready

Answered ==
    /\ process # "crashed" /\ stack = << >> /\ pipe # << >>
    /\ LET k == Head(pipe)
       IN  /\ presence' = CASE k.op = "sadd" -> AddPresence(k.room, k.conn)
                            [] k.op = "srem" -> RemovePresence(k.room, k.conn)
                            [] OTHER         -> presence
           /\ ready' = Continue(k, GetPresence(k.room))
    /\ pipe' = Tail(pipe)
    /\ UNCHANGED <<ws, flags, alive, hubVars, active, stack, lost, roster, counts, process>>

(* The command fails; every caller goes on as if it had not.  After         *)
(* adapter.close any command may.                                           *)
Failed ==
    /\ process # "crashed" /\ stack = << >> /\ pipe # << >>
    /\ LET k == Head(pipe)
       IN  /\ lost' = IF k.op = "smembers" THEN lost ELSE lost \cup {<<k.room, k.conn>>}
           /\ Cardinality(lost') <= MaxFaults \/ process = "down"
           /\ ready' = Continue(k, {})
    /\ pipe' = Tail(pipe)
    /\ UNCHANGED <<ws, flags, alive, hubVars, active, stack, presence, roster, counts,
                   process>>

Continuation(op) ==
    process # "crashed" /\ stack = << >> /\ ready # << >> /\ Head(ready).op = op

(* join_room after its await: new_member.  The promise of server.js's own   *)
(* call is neither awaited nor caught.                                      *)
Announce ==
    /\ Continuation("announce")
    /\ LET k == Head(ready)
       IN  stack' = EmitLocal(members[k.room], k.conn, Frame("new_member", k.room, {k.conn}),
                       IF k.ack
                       THEN <<Call("resolve", k.conn, k.room, << >>, NoFrame)>> \o Caught
                       ELSE << >>)
    /\ ready' = Tail(ready)
    /\ UNCHANGED <<ws, flags, alive, hubVars, active, pipe, redis, roster, counts, process>>

(* Mutant: only the adapter is asked. *)
List_AdapterOnly ==
    /\ Continuation("list")
    /\ LET k == Head(ready)
       IN  pipe' = Append(pipe, Command("smembers", k.room, k.conn, {}, TRUE))
    /\ ready' = Tail(ready)
    /\ UNCHANGED <<ws, flags, alive, hubVars, active, stack, redis, roster, counts, process>>

(* dispatch after join_room: get_cluster_presence takes the local members   *)
(* and asks the adapter.                                                    *)
List ==
    /\ Continuation("list")
    /\ LET k == Head(ready)
       IN  pipe' = Append(pipe, Command("smembers", k.room, k.conn, Members(k.room), TRUE))
    /\ ready' = Tail(ready)
    /\ UNCHANGED <<ws, flags, alive, hubVars, active, stack, redis, roster, counts, process>>

(* dispatch, or the connection handler, after get_cluster_presence. *)
Acknowledge ==
    /\ Continuation("ack")
    /\ LET k == Head(ready)
       IN  stack' = Send(k.conn, Frame("join_ack", k.room, k.ids), Caught)
    /\ ready' = Tail(ready)
    /\ UNCHANGED <<ws, flags, alive, hubVars, active, pipe, redis, roster, counts, process>>

-----------------------------------------------------------------------------
(* Events *)

Idle ==
    /\ process # "crashed" /\ stack = << >> /\ ready = << >>
    /\ Adapter = "local" => pipe = << >>

Event(kind) == Idle /\ kind \in Events

Input(kind) == Event(kind) /\ inputs < MaxInputs /\ inputs' = inputs + 1

(* join_room up to its await. *)
JoinRoom(r, c) ==
    /\ joined' = [joined EXCEPT ![c] = AddKey(@, r)]
    /\ members' = [members EXCEPT ![r] = AddKey(@, c)]

(* The connection handler. *)
Connect(c) ==
    /\ Idle /\ ws[c] = "none"
    /\ ws' = [ws EXCEPT ![c] = "open"]
    /\ active' = AddKey(active, c)
    /\ conns' = AddKey(conns, c)
    /\ JoinRoom(Root, c)
    /\ pipe' = pipe \o <<Command("sadd", Root, c, {}, FALSE),
                         Command("smembers", Root, c, ToSet(members'[Root]), TRUE)>>
    /\ UNCHANGED <<flags, alive, loop, redis, roster, counts, process>>

(* authorize throws: the socket is closed and nothing knows of it. *)
Refuse(c) ==
    /\ Event("refuse") /\ ws[c] = "none"
    /\ ws' = [ws EXCEPT ![c] = "closed"]
    /\ UNCHANGED <<flags, alive, hubVars, active, loop, pipe, redis, roster, counts, process>>

(* The "message" event of c.  ws emits it while it waits for the answer to  *)
(* a close frame, too, and no handler looks at is_closed.                   *)
Receives(c, kind) ==
    /\ Input(kind)
    /\ ws[c] = "open" \/ (LateFrames /\ ws[c] = "closing")

Join(c, r) ==
    /\ Receives(c, "join")
    /\ JoinRoom(r, c)
    /\ pipe' = Append(pipe, Command("sadd", r, c, {}, TRUE))
    /\ UNCHANGED <<ws, flags, alive, conns, active, loop, redis, roster, slow, process>>

Leave(c, r) ==
    /\ Receives(c, "leave")
    /\ LeaveRoom(r, c, Send(c, Frame("leave_ack", r, {c}), Caught))
    /\ UNCHANGED <<ws, flags, alive, conns, active, ready, redis, roster, slow, process>>

(* No destination and no handler: broadcast_room, to a room c need not be   *)
(* a member of.                                                             *)
Broadcast(c, r) ==
    /\ Receives(c, "broadcast")
    /\ stack' = EmitLocal(members[r], c, Frame("data", r, {}), Caught)
    /\ UNCHANGED <<ws, flags, alive, hubVars, active, ready, pipe, redis, roster, slow,
                   process>>

(* A destination on this node. *)
Direct(c, d) ==
    /\ Receives(c, "direct") /\ d \in ToSet(conns)
    /\ stack' = Send(d, Frame("data", Root, {}), Caught)
    /\ UNCHANGED <<ws, flags, alive, hubVars, active, ready, pipe, redis, roster, slow,
                   process>>

(* A handler of the application that calls hub.disconnect(d). *)
Kick(c, d) ==
    /\ Receives(c, "kick") /\ d \in ToSet(conns)
    /\ CloseWith(d, Caught)
    /\ UNCHANGED <<ws, alive, hubVars, active, ready, pipe, redis, roster, slow, process>>

(* Too long, or not decodable. *)
Malformed(c) ==
    /\ Receives(c, "malformed")
    /\ CloseWith(c, << >>)
    /\ UNCHANGED <<ws, alive, hubVars, active, ready, pipe, redis, roster, slow, process>>

(* A message from another node, for a client that is here ... *)
Unicast(d) ==
    /\ Adapter = "redis" /\ Input("incoming") /\ d \in ToSet(conns)
    /\ stack' = Send(d, Frame("data", Root, {}), << >>)
    /\ UNCHANGED <<ws, flags, alive, hubVars, active, ready, pipe, redis, roster, slow,
                   process>>

(* ... or for a room: the callback of configure. *)
Incoming(r) ==
    /\ Adapter = "redis" /\ Input("incoming")
    /\ members[r] # << >>
    /\ stack' = EmitLocal(members[r], None, Frame("data", r, {}), << >>)
    /\ UNCHANGED <<ws, flags, alive, hubVars, active, ready, pipe, redis, roster, slow,
                   process>>

(* The peer's close frame, and what follows it or the close timeout of ws. *)
PeerCloses(c) ==
    /\ Input("peerCloses") /\ ws[c] \in {"open", "closing"}
    /\ ws' = [ws EXCEPT ![c] = "ending"]
    /\ Forget(c)
    /\ UNCHANGED <<flags, alive, hubVars, active, loop, pipe, redis, slow, process>>

CloseEvent(c) ==
    /\ Idle /\ ws[c] \in {"closing", "ending"}
    /\ ws' = [ws EXCEPT ![c] = "closed"]
    /\ active' = DeleteKey(active, c)
    /\ Cleanup(c, << >>)
    /\ UNCHANGED <<alive, hubVars, ready, pipe, redis, roster, counts, process>>

ErrorEvent(c) ==
    /\ Input("error") /\ ws[c] \in {"open", "closing"}
    /\ ws' = [ws EXCEPT ![c] = "ending"]
    /\ active' = DeleteKey(active, c)
    /\ Cleanup(c, << >>)
    /\ Forget(c)
    /\ UNCHANGED <<alive, hubVars, ready, pipe, redis, slow, process>>

Pong(c) ==
    /\ Event("pong") /\ ws[c] = "open" /\ ~alive[c]
    /\ alive' = [alive EXCEPT ![c] = TRUE]
    /\ UNCHANGED <<ws, flags, hubVars, active, loop, pipe, redis, roster, counts, process>>

Timer ==
    /\ Event("timer") /\ active # << >>
    /\ stack' = <<Call("timer", None, Root, active, NoFrame)>>
    /\ UNCHANGED <<ws, flags, alive, hubVars, active, ready, pipe, redis, roster, counts,
                   process>>

Shutdown ==
    /\ Event("shutdown") /\ process # "down"
    /\ stack' = <<Call("shutdown", None, Root, conns, NoFrame)>>
    /\ UNCHANGED <<ws, flags, alive, hubVars, active, ready, pipe, redis, roster, counts,
                   process>>

-----------------------------------------------------------------------------
(* Specification *)

Step ==
    \/ EmitNext \/ EmitThrows \/ SendNext \/ LeaveNext \/ CloseSocket
    \/ HeartbeatNext \/ ShutdownNext \/ ShutdownEnds \/ Resolve

Promise == Answered \/ Failed \/ Announce \/ List \/ Acknowledge

Client(c) ==
    \/ Connect(c) \/ Refuse(c) \/ Malformed(c) \/ Pong(c)
    \/ \E r \in Rooms : Join(c, r) \/ Leave(c, r) \/ Broadcast(c, r)
    \/ \E d \in Conns : Direct(c, d) \/ Kick(c, d)
    \/ PeerCloses(c) \/ CloseEvent(c) \/ ErrorEvent(c)

(* The event loop waits, or the process has crashed. *)
Wait ==
    /\ (Idle /\ pipe = << >>) \/ process = "crashed"
    /\ UNCHANGED vars

Next ==
    \/ Step \/ Promise \/ Timer \/ Shutdown \/ Wait
    \/ \E c \in Conns : Client(c) \/ Unicast(c)
    \/ \E r \in Rooms : Incoming(r)

Spec == Init /\ [][Next]_vars

-----------------------------------------------------------------------------
(* Properties *)

AtRest == process \in {"up", "down"} /\ stack = << >> /\ ready = << >> /\ pipe = << >>

(* Between events a closed connection is known to nobody: no room, no map,  *)
(* no open socket.  An exception that is caught, or crashes the process,    *)
(* may leave one half removed.                                              *)
NoZombieMembers ==
    process \in {"up", "down"} /\ stack = << >> =>
        \A c \in Conns : closed[c] =>
            /\ ws[c] # "open"
            /\ c \notin ToSet(conns) /\ joined[c] = << >>
            /\ \A r \in Rooms : c \notin Members(r)

(* sadd and srem go out in the order of the joins and leaves they report,   *)
(* so once Redis has answered, presence is membership, but for the pairs    *)
(* whose update failed.                                                     *)
PresenceExact ==
    AtRest => \A r \in Rooms, c \in Conns :
        <<r, c>> \in lost \/ (c \in presence[r] <=> c \in Members(r))

(* Whatever joins and answers overlap, every member a client shares a room  *)
(* with has been named to it, by join_ack or by a new_member after it,      *)
(* unless frames for it were dropped.                                       *)
RosterComplete ==
    AtRest => \A r \in Rooms : \A c \in Members(r) \ slow :
                 ws[c] = "open" => Members(r) \subseteq roster[c][r]

(* The loops over members survive the eviction of one slow client, from     *)
(* wherever it is noticed; an exception takes a second slow client.         *)
OneSlowClientIsSafe ==
    process \in {"threw", "crashed"} => Cardinality(slow) > 1

(* When shutdown drops the hub's maps it has closed every connection, even  *)
(* those its own announcements have taken out of the map before their turn. *)
(* A socket it leaves open belongs to a connection whose closing an         *)
(* exception has broken off, and which nothing will close any more.         *)
ShutdownClosesAll ==
    [][ShutdownEnds => \A c \in Conns :
          ws[c] = "open" => closed[c] /\ process = "threw"]_vars

=============================================================================

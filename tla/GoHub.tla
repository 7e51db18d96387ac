------------------------------- MODULE GoHub -------------------------------
(***************************************************************************)
(* Membership in the Go server: Hub, room and the lifecycle part of Conn   *)
(* (src/server/go/hub.go, room.go, conn.go, handler.go, adapter.go).       *)
(*                                                                         *)
(* Two goroutines act for a connection c.  "main" is the HTTP handler that *)
(* registers c and joins "root", and afterwards the readPump that          *)
(* dispatches the client's join and leave requests one at a time.  "clean" *)
(* is whichever goroutine wins cleanupOnce: main itself after a read       *)
(* error, writePump, Hub.Disconnect, Shutdown or the teardown of a slow    *)
(* client.  A step is what one goroutine does between two points where     *)
(* another one can get in: the shard lock, room.mu, roomsMu, or the close  *)
(* of the done channel.                                                    *)
(***************************************************************************)
EXTENDS Naturals

CONSTANTS
    Conns,          \* connection identifiers (UUIDs, never reused)
    Rooms,          \* room names
    Root,           \* the room every connection is put into
    Shards,         \* indices of the room shards
    ShardOf,        \* getShardIndex: the shard of each room name
    Incs,           \* addresses a *room can have: incarnations of one name
    None,           \* the nil *room, and "nobody" as a lock's holder
    MaxRequests,    \* bound: join and leave requests that are sent
    AdapterMayFail  \* may calls to the cluster adapter fail or time out?

ASSUME RootAssumption == Root \in Rooms
ASSUME ShardAssumption == ShardOf \in [Rooms -> Shards]
ASSUME NoneAssumption == None \notin Conns /\ None \notin Incs
ASSUME BoundAssumption == MaxRequests \in Nat
ASSUME AdapterAssumption == AdapterMayFail \in BOOLEAN

VARIABLES
    conns,      \* connShards: the registered connections
    done,       \* connections whose done channel is closed
    tracked,    \* Conn.rooms
    live,       \* roomShards: room name -> its *room, or None
    members,    \* room.members of every incarnation of every name
    lock,       \* roomShard.mu: the joiner that holds it across steps
    pc,         \* where each of the two goroutines of a connection is
    cur,        \* the room name it is working on
    ptr,        \* the *room it has looked up
    op,         \* what main is doing: "open", "join" or "leave"
    todo,       \* rooms leaveAllRooms has still to leave
    snap,       \* the member list getClusterPresence has built so far
    slow,       \* connections with a CloseWith goroutine of a full buffer ahead
    presence,   \* the adapter's presence sets
    removals,   \* RemovePresence goroutines that have not run yet
    requests    \* how many requests have been sent

hubVars == <<conns, done, tracked, live, members, lock>>
threadVars == <<pc, cur, ptr, op, todo, snap>>
adapterVars == <<presence, removals>>
vars == <<hubVars, threadVars, slow, adapterVars, requests>>

Roles == {"main", "clean"}

MainPC == {"new", "join", "lock", "track", "member", "presence", "announce",
           "snapLocal", "snapCluster", "idle", "untrack", "lookup", "remove",
           "gc", "depart", "ack", "exit"}

CleanPC == {"none", "collect", "next", "lookup", "remove", "gc", "depart",
            "closed"}

(* The one type invariant of the module. *)
TypeOK ==
    /\ conns \subseteq Conns
    /\ done \subseteq Conns
    /\ tracked \in [Conns -> SUBSET Rooms]
    /\ live \in [Rooms -> Incs \cup {None}]
    /\ members \in [Rooms -> [Incs -> SUBSET Conns]]
    /\ lock \in [Shards -> Conns \cup {None}]
    /\ pc \in [Roles -> [Conns -> MainPC \cup CleanPC]]
    /\ \A c \in Conns : pc["main"][c] \in MainPC /\ pc["clean"][c] \in CleanPC
    /\ cur \in [Roles -> [Conns -> Rooms]]
    /\ ptr \in [Roles -> [Conns -> Incs \cup {None}]]
    /\ op \in [Conns -> {"open", "join", "leave"}]
    /\ todo \in [Conns -> SUBSET Rooms]
    /\ snap \in [Conns -> SUBSET Conns]
    /\ slow \subseteq Conns
    /\ presence \in [Rooms -> SUBSET Conns]
    /\ removals \in [Rooms -> [Conns -> Nat]]
    /\ requests \in 0..MaxRequests

(* NewHub and newLocalAdapter: empty maps, nobody connected. *)
Init ==
    /\ conns = {}
    /\ done = {}
    /\ tracked = [c \in Conns |-> {}]
    /\ live = [r \in Rooms |-> None]
    /\ members = [r \in Rooms |-> [i \in Incs |-> {}]]
    /\ lock = [s \in Shards |-> None]
    /\ pc = [w \in Roles |-> [c \in Conns |->
                 IF w = "main" THEN "new" ELSE "none"]]
    /\ cur = [w \in Roles |-> [c \in Conns |-> Root]]
    /\ ptr = [w \in Roles |-> [c \in Conns |-> None]]
    /\ op = [c \in Conns |-> "open"]
    /\ todo = [c \in Conns |-> {}]
    /\ snap = [c \in Conns |-> {}]
    /\ slow = {}
    /\ presence = [r \in Rooms |-> {}]
    /\ removals = [r \in Rooms |-> [c \in Conns |-> 0]]
    /\ requests = 0

-----------------------------------------------------------------------------
(* Helpers *)

(* roomShard.mu can be taken: no joiner is inside its critical section. *)
Unlocked(r) == lock[ShardOf[r]] = None

(* newRoom allocates: an address no map entry and no goroutine refers to. *)
FreshIncs(r) ==
    {i \in Incs : /\ live[r] # i
                  /\ \A w \in Roles, c \in Conns :
                        cur[w][c] = r => ptr[w][c] # i}

(* cleanupOnce.Do by main, after its own work has ended (pc "exit"): the   *)
(* first caller closes done and starts the teardown, a later one (a slow   *)
(* client's CloseWith too) has nothing left to do but wait.                *)
ExitAndCleanup(c) ==
    /\ done' = done \cup {c}
    /\ pc' = [pc EXCEPT
                 !["main"][c] = "exit",
                 !["clean"][c] = IF pc["clean"][c] = "none"
                                 THEN "collect" ELSE pc["clean"][c]]

(* room.emit under room.mu: a TrySend to every member but the sender.  A   *)
(* member whose done is closed takes nothing; one whose buffer is full     *)
(* loses the message and, under DropSlowClient, gets a CloseWith goroutine. *)
Emit(c, r, i) ==
    \E full \in SUBSET ((members[r][i] \ {c}) \ done) : slow' = slow \cup full

Goto(w, c, label) == pc' = [pc EXCEPT ![w][c] = label]

-----------------------------------------------------------------------------
(* The HTTP handler: register, then join "root" *)

(* hub.addConn: into the shard map.  The RegisterNode goroutine it starts,  *)
(* and removeConn's UnregisterNode, touch only the cluster's node registry: *)
(* they are steps of Cluster.                                               *)
Accept(c) ==
    /\ pc["main"][c] = "new"
    /\ conns' = conns \cup {c}
    /\ op' = [op EXCEPT ![c] = "open"]
    /\ cur' = [cur EXCEPT !["main"][c] = Root]
    /\ Goto("main", c, "join")
    /\ UNCHANGED <<done, tracked, live, members, lock, ptr, todo, snap, slow,
                   adapterVars, requests>>

(* dispatch of "join" or "leave" for room r: nothing is done for a closed   *)
(* connection.  A request the rate limiter or RoomAuthorize turns down      *)
(* changes nothing here and is not a step.                                  *)
Request(c, r, kind) ==
    /\ pc["main"][c] = "idle"
    /\ c \notin done
    /\ requests < MaxRequests
    /\ requests' = requests + 1
    /\ op' = [op EXCEPT ![c] = kind]
    /\ cur' = [cur EXCEPT !["main"][c] = r]
    /\ Goto("main", c, IF kind = "join" THEN "join" ELSE "untrack")
    /\ UNCHANGED <<hubVars, ptr, todo, snap, slow, adapterVars>>

(* readPump: ReadMessage fails (peer gone, pong deadline, socket closed by  *)
(* the teardown), or the frame is refused and readPump calls CloseWith.     *)
ReadFails(c) ==
    /\ pc["main"][c] = "idle"
    /\ ExitAndCleanup(c)
    /\ slow' = slow \ {c}
    /\ UNCHANGED <<conns, tracked, live, members, lock, cur, ptr, op, todo,
                   snap, adapterVars, requests>>

-----------------------------------------------------------------------------
(* hub.joinRoom *)

(* The first look at done. *)
JoinCheck(c) ==
    /\ pc["main"][c] = "join"
    /\ Goto("main", c, IF c \in done THEN "snapLocal" ELSE "lock")
    /\ UNCHANGED <<hubVars, cur, ptr, op, todo, snap, slow, adapterVars,
                   requests>>

(* shard.mu.Lock and the lookup, creating the room when there is none. *)
JoinLock(c) ==
    LET r == cur["main"][c]
        i == IF live[r] # None THEN live[r]
             ELSE CHOOSE j \in FreshIncs(r) : TRUE
    IN  /\ pc["main"][c] = "lock"
        /\ Unlocked(r)
        /\ live[r] # None \/ FreshIncs(r) # {}
        /\ lock' = [lock EXCEPT ![ShardOf[r]] = c]
        /\ live' = [live EXCEPT ![r] = i]
        /\ ptr' = [ptr EXCEPT !["main"][c] = i]
        /\ Goto("main", c, "track")
        /\ UNCHANGED <<conns, done, tracked, members, cur, op, todo, snap,
                       slow, adapterVars, requests>>

(* Mutant: trackRoom without its second look at done. *)
MayTrack_Unchecked(c) == TRUE

(* c.trackRoom looks at done again, under roomsMu. *)
MayTrack(c) == c \notin done

(* c.trackRoom succeeds; the shard lock is still held. *)
JoinTrack(c) ==
    /\ pc["main"][c] = "track"
    /\ MayTrack(c)
    /\ tracked' = [tracked EXCEPT ![c] = @ \cup {cur["main"][c]}]
    /\ Goto("main", c, "member")
    /\ UNCHANGED <<conns, done, live, members, lock, cur, ptr, op, todo, snap,
                   slow, adapterVars, requests>>

(* Mutant: the early return forgets shard.mu.Unlock. *)
JoinRefused_KeepsLock(c) ==
    /\ pc["main"][c] = "track"
    /\ ~MayTrack(c)
    /\ ptr' = [ptr EXCEPT !["main"][c] = None]
    /\ Goto("main", c, "snapLocal")
    /\ UNCHANGED <<hubVars, cur, op, todo, snap, slow, adapterVars, requests>>

(* c.trackRoom refuses: unlock and return. *)
JoinRefused(c) ==
    /\ pc["main"][c] = "track"
    /\ ~MayTrack(c)
    /\ lock' = [lock EXCEPT ![ShardOf[cur["main"][c]]] = None]
    /\ ptr' = [ptr EXCEPT !["main"][c] = None]
    /\ Goto("main", c, "snapLocal")
    /\ UNCHANGED <<conns, done, tracked, live, members, cur, op, todo, snap,
                   slow, adapterVars, requests>>

(* r.addMember and shard.mu.Unlock. *)
JoinMember(c) ==
    LET r == cur["main"][c]
    IN  /\ pc["main"][c] = "member"
        /\ members' = [members EXCEPT ![r][ptr["main"][c]] = @ \cup {c}]
        /\ lock' = [lock EXCEPT ![ShardOf[r]] = None]
        /\ Goto("main", c, "presence")
        /\ UNCHANGED <<conns, done, tracked, live, cur, ptr, op, todo, snap,
                       slow, adapterVars, requests>>

(* adapter.AddPresence, synchronous; its error is ignored. *)
JoinPresence(c) ==
    /\ pc["main"][c] = "presence"
    /\ \/ presence' = [presence EXCEPT ![cur["main"][c]] = @ \cup {c}]
       \/ AdapterMayFail /\ UNCHANGED presence
    /\ Goto("main", c, "announce")
    /\ UNCHANGED <<hubVars, cur, ptr, op, todo, snap, slow, removals,
                   requests>>

(* r.emit of new_member. *)
JoinAnnounce(c) ==
    /\ pc["main"][c] = "announce"
    /\ Emit(c, cur["main"][c], ptr["main"][c])
    /\ ptr' = [ptr EXCEPT !["main"][c] = None]
    /\ Goto("main", c, "snapLocal")
    /\ UNCHANGED <<hubVars, cur, op, todo, snap, adapterVars, requests>>

-----------------------------------------------------------------------------
(* The join_ack: hub.getClusterPresence, then TrySend *)

(* Mutant: getClusterPresence asks the adapter alone. *)
LocalMembers_AdapterOnly(r) == {}

(* The members the hub's own map gives for room r (getRoom and snapshot). *)
LocalMembers(r) == IF live[r] = None THEN {} ELSE members[r][live[r]]

SnapLocal(c) ==
    LET r == cur["main"][c]
    IN  /\ pc["main"][c] = "snapLocal"
        /\ Unlocked(r)
        /\ snap' = [snap EXCEPT ![c] = LocalMembers(r)]
        /\ Goto("main", c, "snapCluster")
        /\ UNCHANGED <<hubVars, cur, ptr, op, todo, slow, adapterVars,
                       requests>>

(* Mutant: an error of the adapter leaves no list. *)
SnapCluster_Empty(c) ==
    /\ pc["main"][c] = "snapCluster"
    /\ \/ snap' = [snap EXCEPT ![c] = @ \cup presence[cur["main"][c]]]
       \/ AdapterMayFail /\ snap' = [snap EXCEPT ![c] = {}]
    /\ Goto("main", c, "ack")
    /\ UNCHANGED <<hubVars, cur, ptr, op, todo, slow, adapterVars, requests>>

(* adapter.GetPresence; on an error the local list stands. *)
SnapCluster(c) ==
    /\ pc["main"][c] = "snapCluster"
    /\ \/ snap' = [snap EXCEPT ![c] = @ \cup presence[cur["main"][c]]]
       \/ AdapterMayFail /\ UNCHANGED snap
    /\ Goto("main", c, "ack")
    /\ UNCHANGED <<hubVars, cur, ptr, op, todo, slow, adapterVars, requests>>

(* TrySend puts the join_ack or leave_ack into the buffer; after the first  *)
(* one the pumps start.                                                     *)
AckQueued(c) ==
    /\ pc["main"][c] = "ack"
    /\ c \notin done
    /\ Goto("main", c, "idle")
    /\ snap' = [snap EXCEPT ![c] = {}]
    /\ UNCHANGED <<hubVars, cur, ptr, op, todo, slow, adapterVars, requests>>

(* TrySend fails: done is closed, or the buffer is full and the connection  *)
(* is marked slow.  The handler of a new connection then cleans up and      *)
(* returns; dispatch ignores the result and goes back to reading.           *)
AckDropped(c) ==
    /\ pc["main"][c] = "ack"
    /\ \/ op[c] = "open" /\ ExitAndCleanup(c) /\ slow' = slow \ {c}
       \/ /\ op[c] # "open"
          /\ Goto("main", c, "idle")
          /\ slow' = IF c \in done THEN slow ELSE slow \cup {c}
          /\ UNCHANGED done
    /\ snap' = [snap EXCEPT ![c] = {}]
    /\ UNCHANGED <<conns, tracked, live, members, lock, cur, ptr, op, todo,
                   adapterVars, requests>>

-----------------------------------------------------------------------------
(* hub.leaveRoom, by main for a leave request (w = "main") or by the        *)
(* teardown for one of the rooms it collected (w = "clean")                 *)

(* Mutant: leaveRoom forgets untrackRoom. *)
Untrack_Forgotten(c) ==
    /\ pc["main"][c] = "untrack"
    /\ Goto("main", c, "lookup")
    /\ UNCHANGED <<hubVars, cur, ptr, op, todo, snap, slow, adapterVars,
                   requests>>

(* c.untrackRoom for a leave request. *)
Untrack(c) ==
    /\ pc["main"][c] = "untrack"
    /\ tracked' = [tracked EXCEPT ![c] = @ \ {cur["main"][c]}]
    /\ Goto("main", c, "lookup")
    /\ UNCHANGED <<conns, done, live, members, lock, cur, ptr, op, todo, snap,
                   slow, adapterVars, requests>>

(* Where leaveRoom returns to: dispatch, or the loop of leaveAllRooms. *)
AfterLeave(w) == IF w = "main" THEN "ack" ELSE "next"

(* The lookup under shard.mu.RLock; without a room there is nothing to do.  *)
LeaveLookup(w, c) ==
    LET r == cur[w][c]
    IN  /\ pc[w][c] = "lookup"
        /\ Unlocked(r)
        /\ ptr' = [ptr EXCEPT ![w][c] = live[r]]
        /\ Goto(w, c, IF live[r] = None THEN AfterLeave(w) ELSE "remove")
        /\ UNCHANGED <<hubVars, cur, op, todo, snap, slow, adapterVars,
                       requests>>

(* r.removeMember, on the room that was looked up. *)
LeaveRemove(w, c) ==
    LET r == cur[w][c]
        i == ptr[w][c]
    IN  /\ pc[w][c] = "remove"
        /\ members' = [members EXCEPT ![r][i] = @ \ {c}]
        /\ Goto(w, c, IF members'[r][i] = {} THEN "gc" ELSE "depart")
        /\ UNCHANGED <<conns, done, tracked, live, lock, cur, ptr, op, todo,
                       snap, slow, adapterVars, requests>>

(* Mutant: removeRoom trusts the emptiness removeMember reported. *)
Removable_NotRechecked(r, i) == live[r] = i

(* hub.removeRoom's test, under shard.mu and room.mu: this very room is     *)
(* still in the map and is still empty.                                     *)
Removable(r, i) == live[r] = i /\ members[r][i] = {}

LeaveGC(w, c) ==
    LET r == cur[w][c]
    IN  /\ pc[w][c] = "gc"
        /\ Unlocked(r)
        /\ live' = IF Removable(r, ptr[w][c])
                   THEN [live EXCEPT ![r] = None] ELSE live
        /\ Goto(w, c, "depart")
        /\ UNCHANGED <<conns, done, tracked, members, lock, cur, ptr, op, todo,
                       snap, slow, adapterVars, requests>>

(* Mutant: no RemovePresence is started. *)
LeaveDepart_KeepsPresence(w, c) ==
    /\ pc[w][c] = "depart"
    /\ Emit(c, cur[w][c], ptr[w][c])
    /\ ptr' = [ptr EXCEPT ![w][c] = None]
    /\ Goto(w, c, AfterLeave(w))
    /\ UNCHANGED <<hubVars, cur, op, todo, snap, adapterVars, requests>>

(* Start a RemovePresence goroutine, then r.emit of member_left. *)
LeaveDepart(w, c) ==
    LET r == cur[w][c]
    IN  /\ pc[w][c] = "depart"
        /\ removals' = [removals EXCEPT ![r][c] = @ + 1]
        /\ Emit(c, r, ptr[w][c])
        /\ ptr' = [ptr EXCEPT ![w][c] = None]
        /\ Goto(w, c, AfterLeave(w))
        /\ UNCHANGED <<hubVars, cur, op, todo, snap, presence, requests>>

-----------------------------------------------------------------------------
(* Conn.cleanup *)

(* Some goroutine other than main reaches cleanupOnce first: Disconnect or  *)
(* Shutdown (which find c in the shard map), writePump, a slow client's     *)
(* CloseWith.                                                               *)
StartCleanup(c) ==
    /\ c \in conns
    /\ pc["clean"][c] = "none"
    /\ done' = done \cup {c}
    /\ slow' = slow \ {c}
    /\ Goto("clean", c, "collect")
    /\ UNCHANGED <<conns, tracked, live, members, lock, cur, ptr, op, todo,
                   snap, adapterVars, requests>>

(* c.joinedRooms: the copy of c.rooms that leaveAllRooms walks through. *)
Collect(c) ==
    /\ pc["clean"][c] = "collect"
    /\ todo' = [todo EXCEPT ![c] = tracked[c]]
    /\ Goto("clean", c, "next")
    /\ UNCHANGED <<hubVars, cur, ptr, op, snap, slow, adapterVars, requests>>

(* The next leaveRoom of leaveAllRooms, up to and with its untrackRoom. *)
NextRoom(c, r) ==
    /\ pc["clean"][c] = "next"
    /\ r \in todo[c]
    /\ todo' = [todo EXCEPT ![c] = @ \ {r}]
    /\ tracked' = [tracked EXCEPT ![c] = @ \ {r}]
    /\ cur' = [cur EXCEPT !["clean"][c] = r]
    /\ Goto("clean", c, "lookup")
    /\ UNCHANGED <<conns, done, live, members, lock, ptr, op, snap, slow,
                   adapterVars, requests>>

(* hub.removeConn and socket.Close. *)
Unregister(c) ==
    /\ pc["clean"][c] = "next"
    /\ todo[c] = {}
    /\ conns' = conns \ {c}
    /\ Goto("clean", c, "closed")
    /\ UNCHANGED <<done, tracked, live, members, lock, cur, ptr, op, todo,
                   snap, slow, adapterVars, requests>>

-----------------------------------------------------------------------------
(* Goroutines the hub has started, at the adapter *)

(* adapter.RemovePresence. *)
RunRemoval(r, c) ==
    /\ removals[r][c] > 0
    /\ removals' = [removals EXCEPT ![r][c] = @ - 1]
    /\ \/ presence' = [presence EXCEPT ![r] = @ \ {c}]
       \/ AdapterMayFail /\ UNCHANGED presence
    /\ UNCHANGED <<hubVars, threadVars, slow, requests>>

-----------------------------------------------------------------------------
(* Specification *)

(* Everybody has come and gone and no goroutine is left. *)
AllGone ==
    /\ \A c \in Conns : pc["main"][c] = "exit" /\ pc["clean"][c] = "closed"
    /\ \A r \in Rooms, c \in Conns : removals[r][c] = 0
    /\ UNCHANGED vars

Join(c) ==
    \/ JoinCheck(c) \/ JoinLock(c) \/ JoinTrack(c) \/ JoinRefused(c)
    \/ JoinMember(c) \/ JoinPresence(c) \/ JoinAnnounce(c)

Ack(c) == SnapLocal(c) \/ SnapCluster(c) \/ AckQueued(c) \/ AckDropped(c)

Leave(w, c) ==
    \/ LeaveLookup(w, c) \/ LeaveRemove(w, c) \/ LeaveGC(w, c)
    \/ LeaveDepart(w, c)

Teardown(c) ==
    \/ Collect(c) \/ (\E r \in Rooms : NextRoom(c, r)) \/ Unregister(c)
    \/ Leave("clean", c)

(* What main does without waiting for its client. *)
MainStep(c) == Join(c) \/ Ack(c) \/ Untrack(c) \/ Leave("main", c)

Background == \E r \in Rooms, c \in Conns : RunRemoval(r, c)

Next ==
    \/ \E c \in Conns :
          \/ Accept(c)
          \/ \E r \in Rooms, kind \in {"join", "leave"} : Request(c, r, kind)
          \/ ReadFails(c)
          \/ MainStep(c)
          \/ StartCleanup(c)
          \/ Teardown(c)
    \/ Background
    \/ AllGone

Spec == Init /\ [][Next]_vars

(* Running goroutines go on; a slow client's CloseWith is one of them.      *)
(* Nothing is assumed of clients, of Disconnect, or of a connection's end.  *)
FairSpec ==
    /\ Spec
    /\ \A c \in Conns : /\ WF_vars(MainStep(c))
                        /\ WF_vars(Teardown(c))
                        /\ WF_vars(c \in slow /\ StartCleanup(c))
    /\ WF_vars(Background)

-----------------------------------------------------------------------------
(* Properties *)

(* A room with members is the room the shard map has under its name, so    *)
(* broadcasts and later joins find them: removeRoom never unmaps a room    *)
(* that a concurrent joinRoom has just entered.                            *)
NoOrphanRoom ==
    \A r \in Rooms, i \in Incs : members[r][i] # {} => live[r] = i

(* Between looking a member up and removing it. *)
Leaving(w, c) == pc[w][c] \in {"lookup", "remove"}

(* When cleanup has finished, the connection is in no room, even if its    *)
(* readPump was in the middle of joinRoom when done was closed; only a     *)
(* leaveRoom that readPump is still executing may have its removal ahead.  *)
NoZombieMembers ==
    \A c \in Conns :
        pc["clean"][c] = "closed" /\ ~Leaving("main", c)
            => \A r \in Rooms, i \in Incs : c \notin members[r][i]

(* Conn.rooms and room.members agree whenever the connection is between    *)
(* requests and not being torn down.                                       *)
TrackedIffMember ==
    \A c \in Conns :
        pc["main"][c] = "idle" /\ pc["clean"][c] = "none"
            => \A r \in Rooms : r \in tracked[c] <=> c \in LocalMembers(r)

(* A join_ack that can still be queued lists the joiner itself. *)
AckListsSelf ==
    \A c \in Conns :
        pc["main"][c] = "ack" /\ op[c] # "leave" /\ c \notin done
            => c \in snap[c]

(* The presence set does not keep a live connection in a room it has left, *)
(* once its removals have run (with an adapter that does not fail).        *)
PresenceOfLiveConns ==
    \A c \in Conns, r \in Rooms :
        (/\ ~AdapterMayFail
         /\ c \in presence[r]
         /\ c \notin done
         /\ pc["main"][c] = "idle"
         /\ removals[r][c] = 0) => r \in tracked[c]

(* A room leaves the map only when it is empty. *)
OnlyEmptyRoomsRemoved ==
    [][\A r \in Rooms : live[r] # None /\ live'[r] # live[r]
                            => members[r][live[r]] = {}]_vars

(* A closed connection, and one whose buffer has overflowed, is eventually  *)
(* out of every room and unregistered: the goroutine that CloseWith was     *)
(* started in gets to cleanup, no lock of the join and leave paths is left  *)
(* held, and no one waits on another for ever.                              *)
TeardownCompletes ==
    \A c \in Conns :
        c \in done \cup slow ~> /\ c \notin conns
                              /\ \A r \in Rooms, i \in Incs : c \notin members[r][i]

-----------------------------------------------------------------------------
(* What the documentation says, and the code does not keep *)

(* No goroutine is in the middle of anything. *)
AtRest ==
    /\ \A c \in Conns : /\ pc["main"][c] \in {"new", "idle", "exit"}
                        /\ pc["clean"][c] \in {"none", "closed"}
    /\ \A r \in Rooms, c \in Conns : removals[r][c] = 0

-----------------------------------------------------------------------------
(* The inductive invariant behind the safety properties *)

(* Past the lookup of joinRoom and of leaveRoom, until the announcement. *)
HoldsRoom(w, c) ==
    pc[w][c] \in {"track", "member", "presence", "announce",
                  "remove", "gc", "depart"}

(* A goroutine that goes on to use the room it looked up has one. *)
PtrInv == \A w \in Roles, c \in Conns : HoldsRoom(w, c) => ptr[w][c] \in Incs

InCritical(c) == pc["main"][c] \in {"track", "member"}

(* A shard lock is held exactly by the joiner inside its critical section,  *)
(* and the room it has looked up stays the mapped one.                      *)
LockInv ==
    /\ \A s \in Shards, c \in Conns :
          lock[s] = c => InCritical(c) /\ ShardOf[cur["main"][c]] = s
    /\ \A c \in Conns : InCritical(c) =>
          /\ lock[ShardOf[cur["main"][c]]] = c
          /\ ptr["main"][c] = live[cur["main"][c]]

(* cleanupOnce runs exactly for the closed connections, and after its       *)
(* joinedRooms nothing is tracked that it will not leave.                   *)
CleanInv ==
    \A c \in Conns :
        /\ c \in done <=> pc["clean"][c] # "none"
        /\ pc["clean"][c] \in {"none", "collect", "closed"} => todo[c] = {}
        /\ pc["clean"][c] \notin {"none", "collect"} => tracked[c] \subseteq todo[c]

(* Goroutine w of c has untracked r and will still remove c from its room. *)
Removing(w, c, r, i) ==
    /\ cur[w][c] = r
    /\ \/ pc[w][c] = "lookup"
       \/ pc[w][c] = "remove" /\ ptr[w][c] = i

(* Every member of a room is a member of the mapped room, and somebody      *)
(* still knows that it has to be removed.                                   *)
MemberInv ==
    \A r \in Rooms, i \in Incs, c \in Conns : c \in members[r][i] =>
        /\ live[r] = i
        /\ \/ r \in tracked[c]
           \/ r \in todo[c]
           \/ \E w \in Roles : Removing(w, c, r, i)

(* So does a joiner between trackRoom and addMember: the teardown can have  *)
(* gone no further than the lookup, which waits for the shard lock.         *)
JoinerInv ==
    \A c \in Conns : pc["main"][c] = "member" =>
        \/ cur["main"][c] \in tracked[c]
        \/ cur["main"][c] \in todo[c]
        \/ cur["clean"][c] = cur["main"][c] /\ pc["clean"][c] = "lookup"

(* A tracked room has the connection as a member, except in that window. *)
TrackedInv ==
    /\ \A c \in Conns, r \in Rooms : r \in tracked[c] =>
          \/ c \in LocalMembers(r)
          \/ pc["main"][c] = "member" /\ cur["main"][c] = r
    /\ \A w \in Roles, c \in Conns :
          Leaving(w, c) => cur[w][c] \notin tracked[c]

(* A connection that is not closed stays in the room it has just joined     *)
(* until its join_ack has been built.                                       *)
AckInv ==
    \A c \in Conns :
        /\ pc["main"][c] \in {"untrack", "lookup", "remove", "gc", "depart"}
              => op[c] = "leave"
        /\ c \notin done =>
              /\ pc["main"][c] \in {"presence", "announce", "snapLocal"}
                    => cur["main"][c] \in tracked[c]
              /\ pc["main"][c] = "snapCluster" => c \in snap[c]
              /\ pc["main"][c] = "ack" /\ op[c] # "leave" => c \in snap[c]

(* The presence set's entry of a live connection is justified by its        *)
(* membership or by a removal that is due.                                  *)
PresenceInv ==
    \A c \in Conns, r \in Rooms :
        c \in presence[r] /\ c \notin done /\ ~AdapterMayFail =>
            \/ r \in tracked[c]
            \/ removals[r][c] > 0
            \/ /\ cur["main"][c] = r
               /\ \/ pc["main"][c] = "lookup" /\ c \in LocalMembers(r)
                  \/ pc["main"][c] \in {"remove", "gc", "depart"}

(* The safety invariants above follow from this one, and every step keeps   *)
(* it: what joinRoom and cleanup may assume of each other at every point.   *)
IndInv ==
    /\ TypeOK /\ PtrInv /\ LockInv /\ CleanInv /\ MemberInv /\ JoinerInv
    /\ TrackedInv /\ AckInv /\ PresenceInv

=============================================================================

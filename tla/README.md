# Roomer: a TLA+ verification project

Roomer is a WebSocket library. Clients connect to a server, are put into the room
`root`, join and leave other rooms, and send messages to a room or to one client. Several
server nodes form a cluster over Redis. The repository has three servers with the same protocol
(Go, Rust, Node) and two clients (JavaScript, Python), and a short abstract TLA+ model of
membership (`src/spec/roomer.tla`). This project models the code: the Go server, whose goroutines and
locks are the hardest to test, the Node server, whose one thread re-enters its own loops and awaits
Redis in the middle of a join, the cluster both can form together, the JavaScript client, and the
frame they all exchange.

## 1. Inventory

| Part | State | Operations | Talks to |
|---|---|---|---|
| Go hub and rooms (`hub.go`, `room.go`) | connection shards, room shards (a mutex each), `room.members`, the connection's own `rooms`, presence sets | `addConn`, `joinRoom`, `leaveRoom`, `removeRoom`, `leaveAllRooms`, `removeConn`, `getClusterPresence` | connections (`TrySend`), adapter (synchronous `AddPresence`, `RemovePresence` in a goroutine) |
| Go connection (`conn.go`) | send channel, `closeSent`, `cleanupOnce`, `done`, close code | `TrySend` (three backpressure policies), `CloseWith`, `cleanup`, `readPump`, `writePump` | hub, socket |
| Go rate limiter (`conn.go`) | `controlTokens`, `controlLast` | `allowControlEvent` | called by `dispatch` |
| Cluster routing (`hub.go`, `conn.go`, `redis.go`, `hub.js`, `adapter_redis.js`) | node registry in Redis, published envelopes | direct send with lookup and fallback, broadcast, the receiving handlers | Redis, local connections |
| Go Redis subscriber (`redis.go`) | `pubsub`, `subMu`, `isClosed`, `subCancel` | `Subscribe`, `listenLoop`, `Close` | Redis, handler of `Configure` |
| Go presence in Redis, local adapter, handler options, Shutdown | presence keys with expiry; configuration | see `PROJECT.json`, "components" | |
| Go codec, metrics | none; counters | encode, decode | |
| Node server (`hub.js`, `room.js`, `conn.js`, `server.js`) | maps of connections, rooms and members, `is_closed`, `close_sent`, `is_alive` | the listeners of the socket, `dispatch`, `join_room`, `leave_room`, `try_send`, `close_with`, `cleanup`, heartbeat, `shutdown` | an adapter, whose answers are awaited |
| Node adapters (`adapter.js`, `adapter_redis.js`) | presence sets, registry | presence, registry, publication, subscription, envelope | Redis over one connection |
| Frame (`message.js`, `roomer.js`, `bytecursor.js`) | a cursor in a view of a buffer | `new_message`, `onmessage`, `encode`, `decode_message`, the cursor's reads and writes | |
| Rust server | DashMap of rooms, mpsc channels | the same operations | Redis |
| JavaScript client (`roomer.js`) | the socket, `manual_close`, `reconnect_timer`, the `rooms` map, each handle's `is_open` | `connect`, `schedule_reconnect`, the socket's callbacks, `join`, `leave`, `purge`, `forceClose`, `close` | a server; the application's listeners |
| Python client | the same, over asyncio | the same | a server |

What is hard in this code:

* **Interleavings.** A connection has a reading goroutine, a writing goroutine and any number of
  goroutines that may end it; `joinRoom` and `cleanup` of the same connection overlap, and so do
  the last `leaveRoom` of a room and a `joinRoom` of another connection.
* **Order.** Presence removals, registrations and publications are goroutines that are started
  and forgotten; in Node they are commands on one connection, and what follows them waits.
* **Re-entrancy.** In Node, sending to a slow client closes it, which announces its departure, which
  sends again, all inside the loop that was sending.
* **Limits.** The send buffer is full; the token bucket is empty or has been idle.
* **Failure.** Redis calls fail or time out, the subscription breaks, the peer goes away.
* **Progress.** `cleanup` waits for shard locks, `Close` waits for `listenLoop`, which needs the
  lock `Close` uses.

The properties that make each part correct:

* hub: no member in an unmapped room, no member after teardown, `Conn.rooms` and `room.members`
  agree, a `join_ack` lists the joiner, teardown ends;
* connection: one close frame, order, no silent loss, the pumps return;
* limiter: the bound of a token bucket in every window, and no refusal that the bound does not
  justify;
* routing: to its recipients only, once each, and arrival when Redis works;
* Node hub: nobody who is closed is a member, presence is membership, rosters are complete, one slow
  client breaks no loop, `shutdown` leaves no socket open that anything could still close;
* frame: what one side writes the other reads, whatever is not a frame is refused without an
  exception, the cursor never leaves its view;
* subscriber: `Close` returns, nothing runs or stays open after it, a broken subscription comes back;
* client: closed stays closed, an open handle stands for a membership, a handle that waits has its
  join under way, connections and rooms come back.

## 2. Modules

### GoHub (`GoHub`, `MCGoHub`, `GoHubProofs`)

Two goroutines act for a connection: `main` (the HTTP handler, then `readPump` and its `dispatch`)
and `clean` (whichever goroutine wins `cleanupOnce`). A step is what a goroutine does between two
points where another can get in: a shard lock, `room.mu`, `roomsMu`, `close(done)`. Locks released
within a step need no variable; the one held across steps is the shard lock of `joinRoom`,
which spans `trackRoom` and `addMember` (`lock`).

| Code | Actions |
|---|---|
| handler up to the pumps | `Accept`, then a join with `op = "open"` |
| `dispatch` of join and leave | `Request` |
| `joinRoom` | `JoinCheck`, `JoinLock`, `JoinTrack` or `JoinRefused`, `JoinMember`, `JoinPresence`, `JoinAnnounce` |
| `getClusterPresence`, the acks | `SnapLocal`, `SnapCluster`, `AckQueued`, `AckDropped` |
| `leaveRoom` (by a request or by the teardown) | `Untrack`, `LeaveLookup`, `LeaveRemove`, `LeaveGC`, `LeaveDepart` |
| `cleanup` | `StartCleanup` (others) or `ReadFails` (its own `readPump`), `Collect`, `NextRoom`, `Unregister` |
| the goroutine of `RemovePresence` | `RunRemoval` |

A `*room` is an incarnation of its name, so an unmapped room that a goroutine still points to is
another object than the one mapped later; an address is reused once nobody refers to it.
`Emit` chooses which receivers have a full buffer, and these get a
`CloseWith` goroutine (`slow`). Messages themselves are GoConn's and Cluster's subject.

### GoConn (`GoConn`, `MCGoConn`, `GoConnProofs`)

One connection: producers that call `TrySend`, closers (callers of `Disconnect`
and `Shutdown`, the slow-client goroutine, both pumps), the buffer, the socket. The policy is
chosen once, at the start. `CleanupFirst` to `CleanupEnds` is the time in which the hub's part
of `cleanup` runs; `sync.Once` makes every other caller wait (`CleanupAgain`). gorilla/websocket is external:
it refuses writes after a close frame or on a closed socket, and a write may fail when the peer
has gone.

### TokenBucket (`TokenBucket`, `TokenBucketProofs`)

`allowControlEvent` in exact integers: ticks, and tokens in units of a tick's worth, so
`elapsed * rate` is an integer. float64 rounding is left out. Two history variables remember an
arbitrary earlier moment (`markTime`) and the last moment the bucket was full; they let
statements about windows be statements about states.

### Cluster (`Cluster`, `MCCluster`, `ClusterProofs`) and Delivery

Nodes of two kinds, clients with a home node, the registry in Redis, and the calls to Redis each node
has under way (`calls`). A Go node makes each in a goroutine, so any of them may be next; a Node node
sends them over one connection, so only the first may be (`Due`). What follows a lookup is part of the goroutine in
Go (`GetNodeGo`) and a promise continuation in Node (`GetNodeJs`, `Resolved`). The two differ in what an error does: Go
falls back to the channel of `root`, Node gives up (`FallsBack`); and in when a broadcast is published
at all: Go needs the room object, which a node has for certain only while it has a member of the room (`Publishes`); after a join it
refused, an empty one may have stayed behind, so without a member a broadcast may be published or not. Redis is external: a call takes effect, or fails, or
takes effect and is still reported as failed ("late"), and a publication is appended to the stream
of every node subscribed at that moment. Commands that a Redis library repeats by itself are not modelled. `Deliver` is the adapter's handler with that of
`Configure`: loopback suppression, destination, then the room whose name is what two passes of prefix
removal leave (`Alias`). Joining and leaving are one step here; GoHub and NodeHub have their inside.

`Delivery` is the abstract specification: a message is handed to those who may hear it, once each, and twice only
when it is direct, comes from a node that falls back, and a call had an unclear end. `KeepsPromise` says that `Cluster` implements it
(`INSTANCE Delivery WITH Repeating <- ...`; the other variables are Cluster's own).

### NodeHub (`NodeHub`, `MCNodeHub`, `NodeHubProofs`)

One thread. `stack` holds the calls in progress as far as they have something left to do: the loops of
`emit_local`, `leave_all_rooms`, the heartbeat and `shutdown`, each over the keys it found when it began, and the
rest of `close_with` and `cleanup`. A step is one turn of the innermost loop; the next event comes
when the stack is empty and the ready continuations (`ready`, first in first out) have run. `pipe` holds the commands
Redis has not answered, in order.

| Code | Actions |
|---|---|
| `server.js`, listeners | `Connect`, `Refuse`, `Receives` (`Join`, `Leave`, `Broadcast`, `Direct`, `Kick` by an application handler, `Malformed`), `CloseEvent`, `ErrorEvent`, `Timer` |
| `emit_local`, `try_send` | `EmitNext`, `SendNext`; `EmitThrows` when the member is no longer there |
| `close_with`, `cleanup`, `leave_all_rooms`, `leave_room` | `CloseWith`, `Cleanup`, `LeaveNext`, `CloseSocket` |
| `join_room`, `get_cluster_presence`, acks | `JoinRoom`, then the continuations `Announce`, `List`, `Acknowledge` |
| the adapter | `Answered`, `Failed`; with the local adapter the answer is always ready |
| callback of `configure` | `Incoming` (a broadcast from the cluster), `Unicast` (a direct message) |
| `shutdown` | `Shutdown`, `ShutdownNext`, `ShutdownEnds` |

The roster each client builds from `join_ack`, `new_member`, `member_left` and `leave_ack` is in `Read`, from `roomer.js`. A frame is handed over at once; what
the socket's buffer does to it is the choice in `TrySend`.

### ByteCursor and Wire (`ByteCursor`, `Wire`, `MCWire`, `WireProofs`)

`ByteCursor` is the client's cursor on a view at any offset of a buffer; every call is an action with every small argument, valid or
not. `Wire` takes a message from `new_message`, written through that cursor, to `decode_message`, `encode`, the envelope and
`onmessage`. A byte has `Base` values, which keeps the layout, the widths and every length computation of the
code and lets the limits of a field (`Power[w]`, `Base` to the `w`) be reached. On the way a frame may be cut, extended or
have a byte replaced.

### GoRedis (`GoRedis`, `GoRedisProofs`)

Callers of `Subscribe` and `Close` and the `listenLoop` goroutine, with `subMu`, the PubSub objects
and the reconnection. The critical sections that hold `subMu` across a network round trip are two steps, the
others one. What Redis has sent waits in the channel of the PubSub object (`buffered`, `Arrive`); `listenLoop` takes it from there
even when the stream has been closed meanwhile, and reconnects once the channel is closed and empty.

### JsClient (`JsClient`, `JsClientProofs`)

One event loop: a step is a call by the application (`Join`, `Leave`, `Purge`, `ForceClose`, `Close`), the
timer (`Connect`, `ConnectThrows`) or an event of the socket (`OnOpen`, `OnMessage`, `OnClose`). Control
frames (`up`) and acknowledgements (`down`) are FIFO channels of the present connection. The server is
seen through its `dispatch` (`Serve`): it may refuse a room, its rate limiter may discard a join or a leave
without an answer (`Limited`), and its send buffer may not take an acknowledgement (`TrySend`) or give it up later (`Evicted`);
what was given up is in `lost`. A handle is a room and the how manieth of that room it is: the map has the last one or none, and an
application may still call `leave` or `forceClose` on the others. `forceClose` deletes the map's entry of the room
whichever handle it is called on; `orphaned` records that this has taken out a handle that was open. The browser's WebSocket is external: it may throw in its
constructor, fail before it opens, break later, and refuses some codes in `close`. `OnClose` runs
the "close" listeners in the middle of its work, and one of them may call `close`.

## 3. Runs

Times are for two workers on a small machine.

| Run | Instance | Shows |
|---|---|---|
| `hub` | 2 connections, 2 rooms, one shard, 2 requests; 2.3 M states, 90 s | `NoOrphanRoom`, `NoZombieMembers`, `TrackedIffMember`, `AckListsSelf`, `PresenceOfLiveConns`; no deadlock |
| `hub_live` | 2 connections, root, no requests, any adapter call may fail; 0.1 M states, 45 s | `AckListsSelf`, `TeardownCompletes` |
| `conn_policies` | 2 producers of 2 messages, buffer of 2, 2 kickers, all policies; 3.3 M states, 90 s | `OneCloseFrame`, `InOrder`, `NoSilentLoss`, `OldestEvicted` |
| `conn_live` | 1 producer, buffer of 1, 2 kickers, all policies; 0.2 M states, 90 s | `PumpsReturn`, `SlowClientCloses`, `AcceptedDelivered` |
| `bucket` | burst 3, rate 10/s, 16 ticks/s, 12 ticks; 55 k states | `WindowBound`, `RefusedOnlyOverBound` |
| `cluster` | a Go node with 2 clients, a Node node with 1, rooms `lobby`, `room:lobby`, `node:lobby`, 2 messages, 1 fault; 0.8 M states, 70 s | `KeepsPromise` (refinement of `Delivery`), `NothingLost`, `InOrder` |
| `redis_sub` | 2 callers of `Subscribe`, 2 of `Close`, 3 streams, 2 messages buffered; 956 states | `SilentAfterClose`, `NothingLeaked`, `OneStream`, `CloseReturns`, `SubscriptionRecovers` |
| `client` | root, 2 rooms, 1 refused room, 5 calls, 2 failures, with and without `reconnect`; 0.3 M states, 60 s | `ClosedForGood`, `OpenMeansMember`, `JoinUnderWay`, `RoomsRecover` |
| `node` | 3 clients, root, local adapter, every kind of event, 2 inputs, up to 2 slow clients; 1.9 M states, 70 s | `NoZombieMembers`, `OneSlowClientIsSafe`, `ShutdownClosesAll` |
| `node_redis` | 2 clients, 2 rooms, Redis with 1 failing command, 3 inputs; 3.1 M states, 80 s | `PresenceExact`, `RosterComplete` |
| `node_late` | 2 clients; frames may arrive after `ws.close()` | violation: a kicked client is a member again |
| `wire` | views of up to 3 bytes; 1536 messages and their variants, bytes of 4 values; 0.2 M states, 25 s | `InView`, `ReadBack`, `WritesInPlace`, `ArrivesUnchanged`, `ForwardedVerbatim`, `DecodeNeverThrows`, `PrefixFree` |

**Why the bounds are enough.** The races of the hub are between two goroutines of one connection or
of two connections in one room, or in two rooms behind one lock; two requests give leave and
rejoin. `hub_live` is without requests: with a single one, checking liveness takes more than five minutes. It is also where the adapter
fails, which the joins into root and the teardowns meet; leave and rejoin with a failing adapter are left to the theorems, which have
`AdapterMayFail` as a constant. `Incs` has one address more than goroutines can hold (`EnoughIncs`), so the model never
waits for a free address. Overflow needs one message more than the buffer holds,
and a race for the slot DropOldest frees needs two producers; a buffer of two tells oldest from newest. With a burst of 3 and more
than one tick per token, empty, partly filled and full buckets all occur, as do windows that
start inside one. Three clients on two nodes, one of each kind, give a local recipient, a remote one and
loopback, and two messages an order; one client is there from the start and stays (`Residents`), the others come, join,
leave and go. Of the room names one is ordinary, one loses its prefix on the way and one is taken
for a node's channel by Go (`Joins` and `Sends` say who uses which). One fault is enough for every single failure; two at once are not
checked. In NodeHub a loop broken by the removal of a member takes two slow clients and a third to
send to (`MaxSlow`); a leave and a rejoin around the answers of Redis take three inputs (`MaxInputs`). `LateFrames` is off in `node`, so that what else could
leave a zombie is seen; `node_late` has it on. In Wire the texts are empty, one character, one that is too long for a
one-byte length, and one with a byte order mark; `MaxMessage` lies between the sizes that occur. Two failures of the client's connection are one on the first attempt and one on
the next, or one that breaks a connection in use and one frame or acknowledgement the server gives up on the next; five calls are enough to join, leave twice and join
again with the acknowledgements crossing, and then to close. The safety properties listed in section 5 are proved for
every value of the constants. Symmetry (connections, producers) is used in the
safety runs only. Deadlock is checked in all runs except `redis_sub`, where after `Close` the
adapter really stops; the other modules have an explicit last action (`AllGone`, `AllEnded`, `Quiet`, `Idle`)
for the state in which everybody has gone.

**Fairness.** Weak fairness of the steps a started goroutine takes by itself: the Go
scheduler runs every runnable goroutine, and Go's mutexes hand over to waiters, so none starves.
That is assumed of `joinRoom`, `leaveRoom`, `cleanup`, `TrySend`, `CloseWith`, `writePump`, `listenLoop` and the
started publications and removals. Nothing is assumed of clients, of callers of `Disconnect` or `Close`,
of the peer, or of when the connection ends; a blocked read returns once its socket is closed.
`SubscriptionRecovers` further assumes that a reconnection that is tried again and again is
accepted at some time, and `CloseReturns` that `Close`, waiting for `subMu`, gets it although `listenLoop`
keeps taking it (Go's mutex hands over to a starving waiter); both are strong fairness in `GoRedis`'s
`FairSpec`. Of the client's surroundings it is assumed that timers fire,
that the browser ends what is closing, that the server takes the frames while the connection lasts, whether it answers them or not, and that it can be reached
after at most `MaxFaults` failures; nothing is assumed of the application. Cluster, NodeHub and Wire have no fairness: what must have
happened is stated of the states in which nothing is left to do (`AtRest`), and that the models get there is
seen from the absence of deadlock before it. `NothingLost` makes no claim after a fault: what is published while a subscription is
down is lost, by design of Redis's publish and subscribe.

## 4. Disagreements with the documentation

The run `node_late` ends in a violation that shows the code not doing what a document says; the quotation is
in `PROJECT.json`, "findings". In Node, `close_with` sets `is_closed`, leaves the rooms and calls `ws.close`, but the message listener stays:
a `join` that was already on its way is dispatched, `join_room` does not look at `is_closed`, and `cleanup` returns at once because the flag
is set. The client stays a member of the room, and in the presence set, for as long as the process lives.

Five more came out of the models; they are recorded as hazards, and where a property would be false because of one, the property
names the exception:

1. In Node, `shutdown` closes `a`; its `member_left` overflows `b`, whose own `member_left` overflows `c`; the outer loop then
   meets `c`, who is gone, and throws. The exception ends `close_with` of `a` before `ws.close`, the `catch` in `shutdown` drops it, and as
   `is_closed` is set nothing closes the socket of `a` any more, although `src/server/node/README.md:141` says that `shutdown` "Broadcasts
   `1001 Going Away` close frames". `ShutdownClosesAll` says that this is the only way: whoever's closing ran to its end has no open socket,
   also if the announcements of others closed it.
2. In the JavaScript client an application may keep a handle whose room it has left and joined again. `forceClose` on the old one deletes the map's
   entry of the room without looking whose it is; the newer handle stays open, gets no messages, and `close`, which walks the map, leaves it open,
   although its comment (`src/client/roomer.js:750`) says that it closes "all active rooms". `ClosedForGood` and `OpenMeansMember` allow exactly
   this (`orphaned`).
3. `joinRoom` calls `AddPresence` after it has let go of the locks. A teardown in between removes
   the entry first, and the client stays in the presence set after it has gone.
4. A closer that loses `closeSent` goes to `cleanup` at once and may close the socket before
   the winner has written its frame.
5. The prefix `room:` is removed twice, so a broadcast in the room `room:lobby` is handed to the members of
   `lobby` on other nodes; `KeepsPromise` allows exactly that. A room named `node:...` is never heard by other Go nodes.

The models show further, smaller differences, recorded as hazards: the `RemovePresence` goroutine of a leave may run after
the `AddPresence` of the rejoin and hide a present member; a refused join leaves an
empty room in the map; a late `RegisterNode` outlives `UnregisterNode`; the fallback of a
direct message is heard by every node; DropOldest can lose the new message along with the oldest when
another producer takes the slot; a broadcast from a node without members of the room is
published nowhere, unless a refused join has left the room behind. In the Node server: with two slow clients, `emit_local` meets a member that is gone and throws, which ends
the process when a timer, a close or a new connection started the loop; a client that leaves while another's member list is
being fetched stays in that client's roster; DROP_OLDEST drops the newest; text that is not UTF-8 and a version of 0 come out of
the server changed. In the client: a byte order mark in front of a name is dropped; bytes after the payload are ignored; a second `leave` may end a newer handle of the room; `close` with a code the
browser rejects leaves the connection open; `purge` stops at the first room that is not open. A client that has more rooms than the server's
limiter lets through in one burst (20 by default) sends all its joins when it reconnects; those beyond are discarded without an answer, and since
the client never asks again their handles wait for as long as the connection lasts. No document promises otherwise; `JoinUnderWay` and
`RoomsRecover` say that only a room whose join or `join_ack` the server gave up is left behind.

## 5. Theorems

All are proved from the named assumptions on the constants (`RootAssumption`, `ShardAssumption`, ...;
TLC evaluates these in the runs), which only say that the constants have their types and that
names are distinct.

* **GoHubProofs**: `TypeCorrect`, `Inductive`, `OrphanFree`, `ZombieFree`, `TrackingExact`,
  `AckComplete`, `PresenceSound`, `OnlyEmptyRemoved`. The safety properties are not inductive: why a
  member cannot be left behind depends on where both goroutines of its connection are.
  `IndInv` says it: whoever is between `trackRoom` and `addMember` holds the shard lock (`LockInv`) and is still on
  some list of the teardown (`JoinerInv`); every member of any incarnation is in the
  mapped one and is tracked, collected, or about to be removed (`MemberInv`); a tracked room has
  the member, except inside that window (`TrackedInv`); after `joinedRooms` nothing new is
  tracked, because `trackRoom` looks at `done` under `roomsMu` (`CleanInv`). `AckInv` and `PresenceInv`
  carry this to the ack and to the presence set.
* **GoConnProofs**: `ConnTypeCorrect` (the buffer keeps to its capacity) and `SingleCloseFrame`, with
  `ClaimedInv` (`closeSent` is set from the moment someone may write) and `BusyInv`; `FramesInOrder`,
  `AnswersAreKept` and `EvictsOldest`, for any producers, closers, buffer and policy, from `FlowInv`. Its parts: what is written, in
  `writePump`'s hand and in the buffer is in order within and across the three (`OrderInv`); `TrySend` has
  answered once for every message but the one its producer is sending, which makes that one newer than all that
  is on its way (`AnswerInv`); only `writePump` and, under DropOldest, producers take messages out (`TakenInv`); what has been given
  up is older than what is left of the same producer (`GivenUpInv`).
* **TokenBucketProofs**: `BucketTypeCorrect`, `RateLimited`, `RefusalJustified`, for any rate, burst and
  resolution. `MarkInv` relates the tokens of now to the requests granted since the mark, `FullInv` to those since
  the bucket was last full.
* **GoRedisProofs**: `Silence`, `NoLeak`, `SingleStream`, with `LockInv` (who holds `subMu` and why),
  `StreamInv` (which streams are open) and `ClosedInv` (how far `Close` has come).
* **JsClientProofs**: `ClientTypeCorrect`, `StaysClosed`, `OpenIsMember`, for any rooms, codes, number of failures, lost frames and
  calls. `AckInv` is what `OpenMeansMember` lacks to be inductive: a `join_ack` on its way is still true,
  or a `leave_ack` is behind it or was given up. That a listener cannot undo `close` follows because a handle of the map is open
  only while a socket is alive, when no timer is set, and `schedule_reconnect` looks at `manual_close` again. The timer part of
  `StaysClosed` has no exception; that no handle is left has one, `orphaned` (section 4).
  `JoinsAreSent`: `onopen` sends a join for every handle of the map but root's (`FramesAll`: the
  sequence of frames built from the set of rooms has them all), and only the server takes a join off the channel,
  which it answers or gives up, or the client a `join_ack`, which opens the handle.
* **ClusterProofs**: `PromiseKept`, the refinement of Delivery, for any finite set of nodes of either kind, any clients, rooms, aliases, messages and
  faults. The abstract step of a delivery is allowed only if the receiver has not had the message, which no
  state of the receiver says: `CountInv` counts, for a message and a receiver on another node, the copies handed over, on the wire
  and still to come from the calls and answers of the sender's node, and says that they are at most
  one, or two when a Go command of the message had an unclear end. It rests on `Base` (a message is carried by
  one call or answer at most; the registry has a connection under its own node or not at all) and `WireInv` (an
  envelope is of a message that was sent, from its sender's node, on its channel). `NothingIsLost`, from `LossInv`: until something
  fails, what is owed has arrived, is on the receiver's wire, or is under way at the sender's node, which a lookup in the
  registry does not change, whatever it answers. `ArrivesInOrder`, from `OrderInv`: of two messages of a Node node's client that
  go the same way the earlier is nowhere behind the later, in the calls, in the promise continuations, on the wire and at the receiver.
* **NodeHubProofs**: `NoZombies`, `PresenceIsExact`, `ShutdownClosesEveryone`, for any clients, rooms, strategy, adapter and number of slow clients and
  failures. The hypothesis `LateFrames = FALSE`, under which `node` and `node_redis` run, is that of the first two; without it the first is false (section 4). In the middle of an
  event nothing of the kind holds: a closed connection is still a member while the loops that will remove it wait
  for the loops they have started. `NodeInv` therefore speaks of the calls on the stack: a room a closed
  connection is still in is on the list of a `leave_all_rooms` below (`Leaving`), its removal from the map and the
  end of its socket belong to a `close_with` or `cleanup` below (`Closing`), and `shutdown` has closed whatever it has gone past (`Fit`).
  For presence, `PairFits` says that the last command under way for a member and a room tells the truth, or,
  when there is none, the set does. Both hold until an exception has broken a loop (`process`).
  `ShutdownClosesEveryone` needs neither hypothesis: `ShutInv` says that whoever `shutdown` has gone past is closed, that a connection
  not closed is still in the map it walks, and that a closed one with an open socket has its `close_with` on the stack unless an exception was thrown.
  `OneSlowClient` needs no hypothesis on late frames. `emit_local` throws when a member it has still to come to has
  left the room, which a call it has itself started may bring about. `OneSlowInv`: only the slow client can be closed from
  within a loop, so every loop in progress stands at it (`Inside`) and has only other members to come (`SafeLoopsOverMembers`).
  `RostersAreComplete`, again without late frames: a client learns of a member from its `join_ack` or from a `new_member`, and the two
  cross. `TellingInv` says that a member an open client does not know yet will be named to it by a call, a continuation or a command (`Told`),
  that a `join_ack` that leaves it out is read before it is announced (`InOrder`), and that no `member_left` is on its way
  for one who is a member (`FramesFit`).

* **WireProofs**: `StaysInView`, `NumbersReadBack`, `WritesWhereItStands`, `DecodingIsSafe`, `FramesArePrefixFree`,
  `ForwardsVerbatim` and `MessagesArriveUnchanged`, for bytes of any number of values (four at least), buffers, texts and payloads of any length, and any limit on the size of a
  frame. The assumptions say that texts and payloads are made of bytes and that the length of a node's identifier fits the
  four bytes the envelope has for it (`writeUInt32BE` throws otherwise). Values and texts are folds, and a power is a recursive function,
  so the facts about them are proved by induction: `Induction`, from the well-foundedness of `<` on `Nat`, is applied to the set of the
  numbers a fact holds of; `FoldExists` gives the partial results of a fold. `ValueOfBytes` and `DigitsOfValue` say that
  a number is the value of its bytes and the bytes those of their value, `SignedBack` the same through two's complement. `CallInv`
  (the cursor fits its buffer, and what was just written reads back) is inductive for the cursor.
  `Take` is five steps (`TakeSteps`); a throw can only be the first of them, and a frame has twelve bytes (`TakeNeverThrows`); each step
  makes the same of the beginning of a frame as of the whole, except that the payload cannot end with both (`NoBeginning`); the
  fields taken, flattened, are the frame up to where the step ends (`TakenBack`, `TakenApart`). `FrameInv` and `ForwardInv` carry
  this along the way of a message.
  `MessagesArriveUnchanged` compares two encoders and two decoders, each written in its own way, by where the fields of a message lie in its
  frame (`Carries`): `encode` flattens them (`FlattenLaid`), the client's cursor writes them one behind the other (`WritingLaid`);
  `decode_message` and `onmessage` find in a frame that carries a message its parts (`TakeCarried`, `ReadCarried`). A part is decoded to
  the text it was encoded from (`DecodedBack`): the characters read from some position on depend only on the bytes from there, and no character
  begins another. `ArriveInv` says at each stage which of this holds. Two hypotheses: texts are made of valid characters (others are replaced
  in decoding), and `MaxMessage` is at most `Power[4]`, 2^32 in the code, where the default is 16 MiB: a longer payload would be announced with a truncated length.

Every invariant and every action property of the passing runs, and the refinement of Delivery, is stated by a theorem. Only
model-checked: the seven liveness properties of `hub_live`, `conn_live`, `redis_sub` and `client`, since fairness and `ENABLED` are beyond the prover. Hypotheses a
theorem has beyond the assumptions on the constants are stated in it: `LateFrames = FALSE` for `NoZombies`, `PresenceIsExact` and `RostersAreComplete` (and the lemmas under them), the two of
`MessagesArriveUnchanged`.

## 6. Not modelled

* Go: the functions of the codec (the frame itself is Wire's), metrics (counters nothing depends on), logging, authorisation
  callbacks (a refusal changes nothing), expiry of Redis keys, TLS and HTTP upgrade.
* Node: the control-plane limiter's clock (`Date.now` may step back; the arithmetic is TokenBucket's), application handlers and what only they
  call, metrics, expiry of Redis keys.
* JavaScript client: listeners other than one that calls `close`, the emitter, the length of the backoff; of the byte cursor the
  floats, `slice`, `eof` and `tell`, and arguments that are not integers.
* Rust server and Python client: see the plan.
* Examples, load test and benchmarks: demonstration programs.

## 7. Plan

1. *done* GoHub, GoConn, TokenBucket, GoRedis, JsClient, with theorems.
2. *done* NodeHub, Cluster with Delivery, ByteCursor, Wire.
3. Theorems: *done* the refinement of Delivery, `NothingLost` and `InOrder` of Cluster, `InOrder`, `NoSilentLoss` and `OldestEvicted` of GoConn, `JoinUnderWay` of
   JsClient, all invariants of NodeHub, all of ByteCursor and Wire.
4. Rust hub and connection: the clone of a room out of the DashMap against `remove_if`; the 1008
   frame on a full channel; DropOldest that cannot evict.
5. TokenBucket with a second clock, for Node; the emitter; the Python client.
6. An abstract membership specification in the shape of `src/spec/roomer.tla`, and GoHub shown to
   implement it.

Runs are kept to one or two a component: a safety run with symmetry and a liveness run without.

------------------------------ MODULE JsClient ------------------------------
(***************************************************************************)
(* The JavaScript client (src/client/roomer.js): one WebSocket at a time,  *)
(* the reconnection timer, and the room handles an application joins and   *)
(* leaves.  The client runs on an event loop: a step is a call by the      *)
(* application, a timer, or one event of the socket.                       *)
(*                                                                         *)
(* Control frames go up and acknowledgements come down in order; the       *)
(* server is seen through dispatch of src/server/go/conn.go, which answers *)
(* no frame its rate limiter refuses and may give up an acknowledgement    *)
(* for want of room in its buffer.  How long a timer waits, rosters and    *)
(* the application's own messages are left out.                            *)
(*                                                                         *)
(* A room may have had several handles one after the other; the rooms map  *)
(* has the last or none.  The application keeps the others, and forceClose *)
(* of any of them takes the room's handle out of the map, even another one *)
(* that is open.                                                           *)
(***************************************************************************)
EXTENDS Naturals, SequencesExt

CONSTANTS
    Rooms,          \* room names
    Root,           \* the room of the connection itself
    Refused,        \* rooms the server does not let the client into
    ServerCodes,    \* close codes a connection may end with
    ClientCodes,    \* close codes the application may pass to close
    MaxFaults,      \* bound: connections that fail or break, frames not answered
    MaxCalls        \* bound: calls by the application

ASSUME RoomAssumption ==
    IsFiniteSet(Rooms) /\ Root \in Rooms /\ Refused \subseteq Rooms \ {Root}
ASSUME CodeAssumption == ServerCodes \subseteq Nat /\ ClientCodes \subseteq Nat
ASSUME BoundAssumption == MaxFaults \in Nat /\ MaxCalls \in Nat

VARIABLES
    reconnect,      \* opts.reconnect
    manual_close,   \* has the application closed the connection?
    timer,          \* is reconnect_timer set?
    socket,         \* readyState of the WebSocket, "none" before the first
    rooms,          \* the rooms map: names that have a handle in it
    made,           \* how many handles get_room has made for each name
    open,           \* handles with is_open
    up,             \* control frames on their way to the server
    down,           \* acknowledgements on their way to the client
    member,         \* rooms the server has this connection in
    lost,           \* frames and acknowledgements it gave up on this connection
    orphaned,       \* has forceClose of another handle taken out an open one?
    faults,         \* failures so far
    calls           \* calls so far

wireVars == <<up, down, member, lost>>
roomVars == <<rooms, made, open, orphaned>>
vars == <<reconnect, manual_close, timer, socket, roomVars, wireVars, faults,
          calls>>

(* A handle is the name of its room and the how manieth of that name it is. *)
Handles == UNION {{r} \X (1..made[r]) : r \in Rooms}

(* The last handle made for r, which is the one the map has if it has any. *)
Current(r) == <<r, made[r]>>

Mapped == {Current(r) : r \in rooms}

Frame == {"join", "leave"} \X Rooms
Ack == {"join_ack", "leave_ack"} \X Rooms

(* The one type invariant of the module; a timer is set only while no       *)
(* socket is alive, so that there is never a second one.                    *)
TypeOK ==
    /\ reconnect \in BOOLEAN
    /\ manual_close \in BOOLEAN
    /\ timer \in BOOLEAN
    /\ socket \in {"none", "connecting", "open", "closing", "closed"}
    /\ made \in [Rooms -> Nat]
    /\ rooms \subseteq {r \in Rooms : made[r] > 0}
    /\ open \subseteq Handles
    /\ orphaned \in BOOLEAN
    /\ up \in Seq(Frame)
    /\ down \in Seq(Ack)
    /\ member \subseteq Rooms
    /\ lost \subseteq Frame \cup Ack
    /\ faults \in 0..MaxFaults
    /\ calls \in 0..MaxCalls
    /\ timer => socket \in {"none", "closed"}

-----------------------------------------------------------------------------
(* Helpers *)

(* Every order in which the keys of the rooms map may be walked through. *)
Orders(R) ==
    {s \in [1..Cardinality(R) -> R] :
        \A i, j \in 1..Cardinality(R) : i # j => s[i] # s[j]}

Frames(kind, s) == [i \in 1..Len(s) |-> <<kind, s[i]>>]

(* opts.should_reconnect, as it is when the application gives none. *)
ShouldReconnect(code) == code \notin {1000, 1008} /\ ~(code >= 4000 /\ code < 5000)

(* Codes WebSocket.close takes; it throws for any other. *)
CloseAccepts(code) == code = 1000 \/ (code >= 3000 /\ code < 5000)

Fault == faults < MaxFaults /\ faults' = faults + 1

Call == calls < MaxCalls /\ calls' = calls + 1

(* Mutant: schedule_reconnect does not look at manual_close again. *)
ScheduleReconnect_Always(closed) == timer' = reconnect

(* schedule_reconnect: not after close, even when the application has       *)
(* called close from a "close" listener while onclose was at work.          *)
ScheduleReconnect(closed) == timer' = (~closed /\ reconnect)

(* roomer: connect, then get_room("root").  The constructor of WebSocket    *)
(* may throw at once.                                                       *)
Init ==
    /\ reconnect \in BOOLEAN
    /\ manual_close = FALSE
    /\ rooms = {Root}
    /\ made = [r \in Rooms |-> IF r = Root THEN 1 ELSE 0]
    /\ open = {} /\ orphaned = FALSE
    /\ up = << >> /\ down = << >> /\ member = {} /\ lost = {}
    /\ \/ socket = "connecting" /\ timer = FALSE /\ faults = 0
       \/ MaxFaults > 0 /\ socket = "none" /\ timer = reconnect /\ faults = 1
    /\ calls = 0

-----------------------------------------------------------------------------
(* Timer and socket events *)

(* The timer fires and connect makes a new WebSocket ... *)
Connect ==
    /\ timer
    /\ ~manual_close
    /\ timer' = FALSE
    /\ socket' = "connecting"
    /\ UNCHANGED <<reconnect, manual_close, roomVars, wireVars, faults, calls>>

(* ... or its constructor throws: the handles in the map are kept, and      *)
(* closed already.                                                          *)
ConnectThrows ==
    /\ timer
    /\ ~manual_close
    /\ Fault
    /\ ScheduleReconnect(manual_close)
    /\ UNCHANGED <<reconnect, manual_close, socket, roomVars, wireVars, calls>>

(* Mutant: the rooms are not joined again. *)
Rejoin_Nothing == up' = << >>

(* The loop of onopen: a join for every handle but root's. *)
Rejoin == \E s \in Orders(rooms \ {Root}) : up' = Frames("join", s)

(* onopen.  The server has put the connection into root. *)
OnOpen ==
    /\ socket = "connecting"
    /\ socket' = "open"
    /\ Rejoin
    /\ down' = << <<"join_ack", Root>> >>
    /\ member' = {Root}
    /\ lost' = {}
    /\ UNCHANGED <<reconnect, manual_close, timer, roomVars, faults, calls>>

(* The server or the network ends the connection: frames are no longer      *)
(* taken in either direction.  onerror only writes to the console.          *)
PeerCloses ==
    /\ socket = "open"
    /\ Fault
    /\ socket' = "closing"
    /\ UNCHANGED <<reconnect, manual_close, timer, roomVars, wireVars, calls>>

(* onclose: forceClose of every handle in the map, with the handles kept if *)
(* the client is going to reconnect.  If one was open its "close" listener  *)
(* runs, and may call close on root.                                        *)
OnClose(code) ==
    /\ \/ socket = "closing" /\ UNCHANGED faults
       \/ socket = "connecting" /\ code = 1006 /\ Fault
    /\ socket' = "closed"
    /\ \E called \in {FALSE, open \cap Mapped # {}} :
          LET retry == ~manual_close /\ reconnect /\ ShouldReconnect(code)
          IN  /\ manual_close' = (manual_close \/ called)
              /\ rooms' = IF retry /\ ~called THEN rooms ELSE {}
              /\ IF retry THEN ScheduleReconnect(manual_close') ELSE UNCHANGED timer
    /\ open' = open \ Mapped
    /\ up' = << >> /\ down' = << >> /\ member' = {} /\ lost' = {}
    /\ UNCHANGED <<reconnect, made, orphaned, calls>>

(* The server gives up a frame or an acknowledgement. *)
Lose(x) == Fault /\ lost' = lost \cup {x}

(* TrySend of an acknowledgement, which a full buffer may not take. *)
TrySend(ack) ==
    \/ down' = Append(down, ack) /\ UNCHANGED <<lost, faults>>
    \/ Lose(ack) /\ UNCHANGED down

(* dispatch of a control frame by the server ... *)
Dispatch ==
    LET kind == Head(up)[1]
        r == Head(up)[2]
    IN  /\ socket = "open"
        /\ up # << >>
        /\ up' = Tail(up)
        /\ \/ /\ kind = "join" /\ r \in Refused
              /\ UNCHANGED <<down, member, lost, faults>>
           \/ /\ kind = "join" /\ r \notin Refused
              /\ member' = member \cup {r}
              /\ TrySend(<<"join_ack", r>>)
           \/ /\ kind = "leave"
              /\ member' = member \ {r}
              /\ TrySend(<<"leave_ack", r>>)
        /\ UNCHANGED <<reconnect, manual_close, timer, socket, roomVars, calls>>

(* ... which allow_control_event refuses: nothing is done or answered. *)
Limited ==
    /\ socket = "open"
    /\ up # << >>
    /\ up' = Tail(up)
    /\ Lose(Head(up))
    /\ UNCHANGED <<reconnect, manual_close, timer, socket, roomVars, down, member,
                   calls>>

(* Under DropOldest any message the server sends this client may take the   *)
(* place of an acknowledgement still in its buffer.                         *)
Evicted ==
    /\ socket = "open"
    /\ \E i \in DOMAIN down : Lose(down[i]) /\ down' = RemoveAt(down, i)
    /\ UNCHANGED <<reconnect, manual_close, timer, socket, roomVars, up, member,
                   calls>>

(* Mutant: leave_ack takes the handle out of the map and leaves it open. *)
Parse_StaysOpen(kind, r) ==
    IF kind = "join_ack"
    THEN open' = open \cup {Current(r)} /\ UNCHANGED rooms
    ELSE rooms' = rooms \ {r} /\ UNCHANGED open

(* parse of an acknowledgement, on the handle the map has for its room. *)
Parse(kind, r) ==
    IF kind = "join_ack"
    THEN open' = open \cup {Current(r)} /\ UNCHANGED rooms
    ELSE open' = open \ {Current(r)} /\ rooms' = rooms \ {r}

(* onmessage: nothing is done for a room without a handle. *)
OnMessage ==
    LET kind == Head(down)[1]
        r == Head(down)[2]
    IN  /\ socket = "open"
        /\ down # << >>
        /\ down' = Tail(down)
        /\ IF r \in rooms THEN Parse(kind, r) ELSE UNCHANGED <<rooms, open>>
        /\ UNCHANGED <<reconnect, manual_close, timer, socket, made, orphaned, up,
                       member, lost, faults, calls>>

-----------------------------------------------------------------------------
(* Calls by the application *)

(* Mutant: get_room leaves every join to onopen. *)
JoinFrame_Never(r) == UNCHANGED up

(* get_room sends a join when the socket is open; if it is not, onopen      *)
(* will.  Root is never asked for.                                          *)
JoinFrame(r) ==
    up' = IF r # Root /\ socket = "open" THEN Append(up, <<"join", r>>) ELSE up

(* join, on any open handle, of a room that has no handle in the map.  For  *)
(* a room that has one, join returns it and changes nothing.                *)
Join(r) ==
    /\ Call
    /\ open # {}
    /\ r \notin rooms
    /\ rooms' = rooms \cup {r}
    /\ made' = [made EXCEPT ![r] = @ + 1]
    /\ JoinFrame(r)
    /\ UNCHANGED <<reconnect, manual_close, timer, socket, open, orphaned, down,
                   member, lost, faults>>

(* leave of an open handle, in the map or not.  Unless the socket is open   *)
(* nothing is sent, and nothing changes.                                    *)
Leave(h) ==
    /\ Call
    /\ h \in open
    /\ socket = "open"
    /\ up' = Append(up, <<"leave", h[1]>>)
    /\ UNCHANGED <<reconnect, manual_close, timer, socket, roomVars, down, member,
                   lost, faults>>

(* purge: leave of one handle after the other.  The first that is not open  *)
(* throws, and those behind it in the map are not left.                     *)
Purge ==
    LET others == rooms \ {Root}
        ready == {r \in others : Current(r) \in open}
    IN  /\ Call
        /\ socket = "open"
        /\ \E R \in SUBSET ready :
              /\ ready = others => R = others
              /\ \E s \in Orders(R) : up' = up \o Frames("leave", s)
        /\ UNCHANGED <<reconnect, manual_close, timer, socket, roomVars, down,
                       member, lost, faults>>

(* forceClose by the application, of any handle it has ever got: the server *)
(* is not told, and what the map has under the name is gone from it, this   *)
(* handle or a newer one.                                                   *)
ForceClose(h) ==
    LET r == h[1]
    IN  /\ Call
        /\ open' = open \ {h}
        /\ rooms' = rooms \ {r}
        /\ orphaned' = (orphaned \/ (h # Current(r) /\ Current(r) \in open \cap Mapped))
        /\ UNCHANGED <<reconnect, manual_close, timer, socket, made, wireVars, faults>>

(* close of root, with forceClose of the handles in the map.  A code        *)
(* WebSocket.close does not take is an exception that is caught and logged: *)
(* the socket stays as it is.                                               *)
Close(code) ==
    /\ Call
    /\ manual_close' = TRUE
    /\ timer' = FALSE
    /\ socket' = IF socket \in {"open", "connecting"} /\ CloseAccepts(code)
                 THEN "closing" ELSE socket
    /\ rooms' = {}
    /\ open' = open \ Mapped
    /\ UNCHANGED <<reconnect, made, orphaned, wireVars, faults>>

-----------------------------------------------------------------------------
(* Specification *)

Application ==
    \/ \E r \in Rooms : Join(r)
    \/ \E h \in Handles : Leave(h) \/ ForceClose(h)
    \/ Purge
    \/ \E code \in ClientCodes : Close(code)

Retry == Connect \/ ConnectThrows

(* readPump takes the next control frame. *)
Serve == Dispatch \/ Limited

Closed == \E code \in ServerCodes : OnClose(code)

(* Nothing is under way. *)
Idle ==
    /\ up = << >> /\ down = << >>
    /\ ~timer
    /\ socket \notin {"connecting", "closing"}
    /\ UNCHANGED vars

Next ==
    \/ Application
    \/ Retry \/ OnOpen \/ PeerCloses \/ Closed
    \/ Serve \/ Evicted \/ OnMessage
    \/ Idle

Spec == Init /\ [][Next]_vars

(* Timers fire, the browser ends what is closing, and while the connection  *)
(* lasts the server takes its frames, whether it answers them or not, and   *)
(* what it answers arrives.  A server that can be reached lets a connection *)
(* through after at most MaxFaults failures.  Nothing is assumed of the     *)
(* application.                                                             *)
FairSpec ==
    /\ Spec
    /\ WF_vars(Retry)
    /\ WF_vars(OnOpen)
    /\ WF_vars(Closed)
    /\ WF_vars(Serve)
    /\ WF_vars(OnMessage)

-----------------------------------------------------------------------------
(* Properties *)

(* After close no attempt to reconnect is under way or will be: not through *)
(* a timer that was set before, and not through an onclose that had decided *)
(* to reconnect when a listener called close.  And no handle is left, in    *)
(* the map or open, unless forceClose of an old handle has once taken an    *)
(* open one out of the map, where close does not find it.                   *)
ClosedForGood == manual_close => ~timer /\ (orphaned \/ (rooms = {} /\ open = {}))

(* A handle that says it is open is in the map, where messages find it: no  *)
(* way out of the map but the one above leaves it open.  And while it is in *)
(* the map, the server has the client in the room, or has already said      *)
(* otherwise, or could not say so.                                          *)
OpenMeansMember ==
    /\ orphaned \/ open \subseteq Mapped
    /\ \A r \in rooms : Current(r) \in open =>
          /\ socket \in {"open", "closing"}
          /\ \/ r \in member
             \/ <<"leave_ack", r>> \in Range(down) \cup lost

(* The server has given up a join or its answer on this connection. *)
JoinLost(r) == lost \cap {<<"join", r>>, <<"join_ack", r>>} # {}

(* A handle that waits to be opened has a join or its answer under way on   *)
(* the present connection, whether it was made before or after onopen,      *)
(* unless the server has given up one of the two.                           *)
JoinUnderWay ==
    \A r \in rooms \ (Refused \cup {Root}) :
        socket = "open" /\ Current(r) \notin open =>
            \/ <<"join", r>> \in Range(up)
            \/ <<"join_ack", r>> \in Range(down)
            \/ JoinLost(r)

(* A client that waits to reconnect gets a connection, unless it is closed, *)
(* and its rooms come back: a handle that survives is opened again, through *)
(* all the failures on the way, unless the connection it has in the end is  *)
(* one on which the server gave up the join or its answer.  (Handles that   *)
(* an orphan made after the end of the last connection wait for ever.)      *)
RoomsRecover ==
    /\ timer ~> socket = "open" \/ manual_close
    /\ \A r \in Rooms \ (Refused \cup {Root}) :
          r \in rooms ~> \/ r \notin rooms \/ Current(r) \in open
                        \/ JoinLost(r) \/ orphaned

=============================================================================

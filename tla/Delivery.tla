------------------------------ MODULE Delivery ------------------------------
(***************************************************************************)
(* What a cluster promises about the messages of its clients, whatever its  *)
(* nodes are written in: a message is handed only to its destination, or to *)
(* members of its room other than its sender, and to each of them once.     *)
(* A client whose node sends again when it cannot tell whether a call to    *)
(* Redis succeeded may be heard twice by the destination of a message.      *)
(***************************************************************************)
EXTENDS Naturals, Sequences, FiniteSetsExt

CONSTANTS
    Conns,          \* clients
    Ids,            \* numbers of messages
    Rooms,          \* room names
    Alias,          \* the room a room name is taken for on other nodes
    Repeating,      \* clients whose node sends again
    None

VARIABLES
    msg,            \* the messages sent, by number
    rooms,          \* the rooms each client is in
    got,            \* the messages each client was handed, in order
    unsure          \* messages that may have been sent twice

vars == <<msg, rooms, got, unsure>>

Copies(s, i) == Cardinality({k \in DOMAIN s : s[k] = i})

Init ==
    /\ msg = [i \in Ids |-> None]
    /\ rooms \in [Conns -> SUBSET Rooms]
    /\ got = [c \in Conns |-> << >>]
    /\ unsure = {}

(* May c be handed m? *)
MayHear(c, m) ==
    IF m.dst # None THEN c = m.dst
    ELSE c # m.src /\ {m.room, Alias[m.room]} \cap rooms[c] # {}

(* Message i is handed to the clients of cs. *)
Hand(i, cs) ==
    /\ \A c \in cs : Copies(got[c], i) = 0 \/ (i \in unsure /\ Copies(got[c], i) = 1)
    /\ got' = [c \in Conns |-> IF c \in cs THEN Append(got[c], i) ELSE got[c]]

(* A client sends a message, and those of its own node are handed it. *)
Send(i) ==
    /\ msg[i] = None
    /\ \E src \in Conns, dst \in Conns \cup {None}, room \in Rooms :
          msg' = [msg EXCEPT ![i] = [src |-> src, dst |-> dst, room |-> room]]
    /\ \E cs \in SUBSET {c \in Conns : MayHear(c, msg'[i])} : Hand(i, cs)
    /\ UNCHANGED <<rooms, unsure>>

(* The clients of another node are handed it. *)
Deliver(i) ==
    /\ msg[i] # None
    /\ \E cs \in SUBSET {c \in Conns : MayHear(c, msg[i])} : Hand(i, cs)
    /\ UNCHANGED <<msg, rooms, unsure>>

(* A direct message is sent again, at most once. *)
SendAgain(i) ==
    /\ msg[i] # None /\ msg[i].dst # None /\ msg[i].src \in Repeating
    /\ i \notin unsure
    /\ unsure' = unsure \cup {i}
    /\ UNCHANGED <<msg, rooms, got>>

(* Clients join, leave and go. *)
Move == rooms' \in [Conns -> SUBSET Rooms] /\ UNCHANGED <<msg, got, unsure>>

Next == (\E i \in Ids : Send(i) \/ Deliver(i) \/ SendAgain(i)) \/ Move

Spec == Init /\ [][Next]_vars

=============================================================================

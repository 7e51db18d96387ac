-------------------------- MODULE JsClientProofs --------------------------
(***************************************************************************)
(* Proofs about JsClient: types, that a closed client stays closed, that an *)
(* open handle stands for a membership and that one that waits to be opened *)
(* has its join under way.  OpenMeansMember is not inductive alone: a       *)
(* join_ack that arrives must still be true, or a leave_ack must be behind  *)
(* it or lost, which is AckInv.  JoinUnderWay is, but rests on onopen's     *)
(* loop coming to every key of the rooms map, in whatever order             *)
(* (FramesAll).                                                             *)
(***************************************************************************)
EXTENDS JsClient, FiniteSetTheorems, SequenceTheorems, TLAPS

(* A join_ack under way is of a room the server still has the client in, or *)
(* a leave_ack follows it or could not be sent.                             *)
AckInv ==
    \A i \in 1..Len(down), r \in Rooms :
        down[i] = <<"join_ack", r>> =>
            \/ r \in member
            \/ <<"leave_ack", r>> \in lost
            \/ \E j \in (i + 1)..Len(down) : down[j] = <<"leave_ack", r>>

(* The inductive invariant. *)
ClientInv == TypeOK /\ ClosedForGood /\ OpenMeansMember /\ AckInv

-----------------------------------------------------------------------------
(* Sequences *)

(* What is under way: a sequence carries what it has at some place. *)
Carries(s, x) == \E i \in 1..Len(s) : s[i] = x

(* A frame stays among those under way until it is the first and taken off. *)
LEMMA CarriesStep ==
    ASSUME NEW S, NEW s \in Seq(S)
    PROVE  /\ \A x, y \in S : Carries(Append(s, y), x) <=> Carries(s, x) \/ x = y
           /\ \A x : s # << >> /\ Carries(s, x) => x = Head(s) \/ Carries(Tail(s), x)
           /\ \A t \in Seq(S) : \A x : Carries(s, x) => Carries(s \o t, x)
<1>1. \A x, y \in S : Carries(Append(s, y), x) <=> Carries(s, x) \/ x = y
  <2> SUFFICES ASSUME NEW x \in S, NEW y \in S
               PROVE  Carries(Append(s, y), x) <=> Carries(s, x) \/ x = y
    OBVIOUS
  <2> DEFINE t == Append(s, y)
  <2>1. /\ Len(t) = Len(s) + 1 /\ Len(s) \in Nat
        /\ \A i \in 1..Len(s) : t[i] = s[i]
        /\ t[Len(s) + 1] = y
    OBVIOUS
  <2> HIDE DEF t
  <2>2. Carries(t, x) <=> Carries(s, x) \/ x = y
    BY <2>1 DEF Carries
  <2> QED
    BY <2>2 DEF t
<1>2. ASSUME NEW x, s # << >>, Carries(s, x) PROVE x = Head(s) \/ Carries(Tail(s), x)
  <2> DEFINE t == Tail(s)
  <2>1. /\ Len(s) \in Nat \ {0} /\ Len(t) = Len(s) - 1 /\ Head(s) = s[1]
        /\ \A i \in 1..Len(t) : t[i] = s[i + 1]
    BY <1>2
  <2>2. PICK i \in 1..Len(s) : s[i] = x
    BY <1>2 DEF Carries
  <2> HIDE DEF t
  <2>3. CASE i # 1
    <3>1. i - 1 \in 1..Len(t) /\ (i - 1) + 1 = i
      BY <2>1, <2>3
    <3>2. t[i - 1] = x
      BY <2>1, <2>2, <3>1
    <3> QED
      BY <3>1, <3>2 DEF Carries, t
  <2> QED
    BY <2>1, <2>2, <2>3
<1>3. ASSUME NEW t \in Seq(S), NEW x, Carries(s, x) PROVE Carries(s \o t, x)
  <2>1. PICK i \in 1..Len(s) : s[i] = x
    BY <1>3 DEF Carries
  <2>2. i \in 1..Len(s \o t) /\ (s \o t)[i] = x
    BY <2>1
  <2> QED
    BY <2>2 DEF Carries
<1> QED
  BY <1>1, <1>2, <1>3

(* The element at k is taken out and those behind it move up. *)
LEMMA RemoveAtProperties ==
    ASSUME NEW S, NEW s \in Seq(S), NEW k \in DOMAIN s
    PROVE  /\ RemoveAt(s, k) \in Seq(S)
           /\ Len(RemoveAt(s, k)) = Len(s) - 1
           /\ \A i \in 1..(Len(s) - 1) :
                 RemoveAt(s, k)[i] = IF i < k THEN s[i] ELSE s[i + 1]
<1> DEFINE a == SubSeq(s, 1, k - 1)
           b == SubSeq(s, k + 1, Len(s))
<1>0. Len(s) \in Nat /\ k \in 1..Len(s)
  OBVIOUS
<1>1. a \in Seq(S) /\ Len(a) = k - 1 /\ \A i \in 1..(k - 1) : a[i] = s[i]
  BY <1>0
<1>2. b \in Seq(S) /\ Len(b) = Len(s) - k /\ \A i \in 1..(Len(s) - k) : b[i] = s[k + i]
  BY <1>0
<1>3. RemoveAt(s, k) = a \o b
  BY DEF RemoveAt
<1> HIDE DEF a, b
<1>4. /\ a \o b \in Seq(S)
      /\ Len(a \o b) = Len(a) + Len(b)
      /\ \A i \in 1..(Len(a) + Len(b)) :
            (a \o b)[i] = IF i <= Len(a) THEN a[i] ELSE b[i - Len(a)]
  BY <1>1, <1>2, ConcatProperties
<1>5. Len(a \o b) = Len(s) - 1
  BY <1>0, <1>1, <1>2, <1>4
<1>6. ASSUME NEW i \in 1..(Len(s) - 1)
      PROVE  (a \o b)[i] = IF i < k THEN s[i] ELSE s[i + 1]
  <2>0. /\ i \in Nat /\ k \in Nat /\ Len(s) \in Nat /\ 1 <= i /\ i <= Len(s) - 1
        /\ 1 <= k /\ k <= Len(s)
    BY <1>0
  <2>a. Len(a) = k - 1 /\ Len(b) = Len(s) - k
    BY <1>1, <1>2
  <2>1. CASE i < k
    <3>1. i \in 1..(k - 1) /\ i \in 1..((k - 1) + (Len(s) - k)) /\ i <= k - 1
      BY <2>0, <2>1
    <3>2. (a \o b)[i] = a[i] /\ a[i] = s[i]
      BY <1>1, <1>4, <2>a, <3>1
    <3> QED
      BY <2>1, <3>2
  <2>2. CASE ~(i < k)
    <3>0. /\ i - (k - 1) \in 1..(Len(s) - k) /\ k + (i - (k - 1)) = i + 1
          /\ i \in 1..((k - 1) + (Len(s) - k)) /\ ~(i <= k - 1)
      BY <2>0, <2>2
    <3>1. /\ i - Len(a) \in 1..(Len(s) - k) /\ k + (i - Len(a)) = i + 1
          /\ i \in 1..(Len(a) + Len(b)) /\ ~(i <= Len(a))
      BY <2>a, <3>0
    <3>2. b[i - Len(a)] = s[i + 1]
      BY <1>2, <3>1
    <3>3. (a \o b)[i] = b[i - Len(a)]
      BY <1>4, <3>1
    <3> QED
      BY <2>2, <3>2, <3>3
  <2> QED
    BY <2>1, <2>2
<1> QED
  BY <1>3, <1>4, <1>5, <1>6

(* Nothing else is lost with it. *)
LEMMA CarriesRemoveAt ==
    ASSUME NEW S, NEW s \in Seq(S), NEW k \in DOMAIN s, NEW x, Carries(s, x)
    PROVE  s[k] = x \/ Carries(RemoveAt(s, k), x)
<1> DEFINE t == RemoveAt(s, k)
<1>1. PICK i \in 1..Len(s) : s[i] = x
  BY DEF Carries
<1>a. Len(s) \in Nat /\ k \in 1..Len(s)
  OBVIOUS
<1>b. /\ Len(t) = Len(s) - 1
      /\ \A j \in 1..(Len(s) - 1) : t[j] = IF j < k THEN s[j] ELSE s[j + 1]
  BY RemoveAtProperties, Zenon
<1>2. /\ Len(t) = Len(s) - 1 /\ Len(s) \in Nat /\ k \in 1..Len(s)
      /\ \A j \in 1..(Len(s) - 1) : t[j] = IF j < k THEN s[j] ELSE s[j + 1]
  BY <1>a, <1>b, Zenon
<1> HIDE DEF t
<1>3. CASE i < k
  <2>1. i \in 1..(Len(s) - 1) /\ t[i] = s[i]
    BY <1>2, <1>3
  <2> QED
    BY <1>1, <1>2, <2>1 DEF Carries, t
<1>4. CASE i > k
  <2>1. i - 1 \in 1..(Len(s) - 1) /\ ~(i - 1 < k) /\ (i - 1) + 1 = i
    BY <1>2, <1>4
  <2>2. t[i - 1] = s[i]
    BY <1>2, <2>1
  <2> QED
    BY <1>1, <1>2, <2>1, <2>2 DEF Carries, t
<1> QED
  BY <1>1, <1>2, <1>3, <1>4

(* Frames made from the keys of the rooms map, in any order, are frames. *)
LEMMA FramesType ==
    ASSUME NEW R \in SUBSET Rooms, NEW s \in Orders(R), NEW kind \in {"join", "leave"}
    PROVE  Frames(kind, s) \in Seq(Frame)
<1>1. IsFiniteSet(R)
  BY FS_Subset, RoomAssumption
<1>2. Cardinality(R) \in Nat
  BY <1>1, FS_CardinalityType
<1>3. s \in [1..Cardinality(R) -> R]
  BY DEF Orders
<1>4. s \in Seq(R) /\ Len(s) = Cardinality(R)
  BY <1>2, <1>3
<1>5. \A i \in 1..Len(s) : <<kind, s[i]>> \in Frame
  BY <1>3, <1>4 DEF Frame
<1> QED
  BY <1>2, <1>4, <1>5 DEF Frames

(* A handle is of a room, and the last one made for a room with a handle is *)
(* one of them.                                                             *)
LEMMA HandleRooms ==
    ASSUME TypeOK
    PROVE  /\ \A h \in Handles : h[1] \in Rooms
           /\ \A r \in rooms : Current(r) \in Handles
<1>1. \A h \in Handles : h[1] \in Rooms
  BY DEF Handles
<1>2. ASSUME NEW r \in rooms PROVE Current(r) \in Handles
  <2>1. r \in Rooms /\ made[r] \in Nat /\ made[r] > 0
    BY <1>2 DEF TypeOK
  <2>2. made[r] \in 1..made[r]
    BY <2>1
  <2>3. Current(r) \in {r} \X (1..made[r])
    BY <2>2 DEF Current
  <2> QED
    BY <2>1, <2>3 DEF Handles
<1> QED
  BY <1>1, <1>2

(* Join makes one handle more for its room, and the rest of the handles     *)
(* stay the last of theirs.                                                 *)
LEMMA JoinHandles ==
    ASSUME TypeOK, NEW r \in Rooms, Join(r)
    PROVE  /\ made' \in [Rooms -> Nat] /\ rooms' = rooms \cup {r}
           /\ \A q \in rooms' : made'[q] > 0
           /\ Handles \subseteq Handles'
           /\ Current(r)' \notin Handles
           /\ \A q \in Rooms \ {r} : Current(q)' = Current(q)
<1>1. /\ made' = [made EXCEPT ![r] = @ + 1] /\ made \in [Rooms -> Nat]
      /\ rooms' = rooms \cup {r} /\ \A q \in rooms : q \in Rooms /\ made[q] > 0
  BY DEF Join, TypeOK
<1>2. made' \in [Rooms -> Nat] /\ \A q \in Rooms : made'[q] >= made[q] /\ made[q] \in Nat
  BY <1>1
<1>3. \A q \in rooms' : made'[q] > 0
  BY <1>1
<1>4. Handles \subseteq Handles'
  <2> SUFFICES ASSUME NEW q \in Rooms, NEW h \in {q} \X (1..made[q])
               PROVE  h \in {q} \X (1..made'[q])
    BY DEF Handles
  <2>1. made'[q] >= made[q] /\ made[q] \in Nat /\ made'[q] \in Nat
    BY <1>2
  <2>2. \A n \in 1..made[q] : n \in 1..made'[q]
    BY <2>1
  <2> QED
    BY <2>2
<1>5. Current(r)' \notin Handles
  <2> SUFFICES ASSUME NEW q \in Rooms, Current(r)' \in {q} \X (1..made[q]) PROVE FALSE
    BY DEF Handles
  <2>1. Current(r)' = <<r, made[r] + 1>>
    BY <1>1 DEF Current
  <2>2. q = r /\ made[r] + 1 \in 1..made[q]
    BY <2>1
  <2> QED
    BY <1>2, <2>2
<1>6. \A q \in Rooms \ {r} : Current(q)' = Current(q)
  BY <1>1 DEF Current
<1> QED
  BY <1>1, <1>2, <1>3, <1>4, <1>5, <1>6

(* roomer starts in the invariant. *)
LEMMA ClientInit == Init => ClientInv
<1> SUFFICES ASSUME Init PROVE ClientInv
  OBVIOUS
<1>1. /\ up \in Seq(Frame) /\ down \in Seq(Ack) /\ Len(down) = 0
      /\ member \subseteq Rooms /\ lost \subseteq Frame \cup Ack
  BY DEF Init
<1>2. timer \in BOOLEAN /\ manual_close \in BOOLEAN /\ orphaned \in BOOLEAN
  BY DEF Init
<1>3. faults \in 0..MaxFaults /\ calls \in 0..MaxCalls
  BY BoundAssumption DEF Init
<1>4. socket \in {"none", "connecting"} /\ (timer => socket = "none")
  BY DEF Init
<1>5. /\ made \in [Rooms -> Nat] /\ rooms \subseteq {r \in Rooms : made[r] > 0}
      /\ open \subseteq Handles /\ reconnect \in BOOLEAN
  BY RoomAssumption DEF Init
<1>6. TypeOK
  BY <1>1, <1>2, <1>3, <1>4, <1>5 DEF TypeOK
<1> QED
  BY <1>1, <1>6 DEF Init, ClientInv, ClosedForGood, OpenMeansMember, AckInv

(* Types of what the loops of an event leave alone. *)
Steady == UNCHANGED <<reconnect, manual_close, timer, socket>>

(* Every step keeps the types and sets no timer beside a living socket. *)
LEMMA TypeStep == TypeOK /\ [Next]_vars => TypeOK'
<1> SUFFICES ASSUME TypeOK, [Next]_vars PROVE TypeOK'
  OBVIOUS
<1> USE RoomAssumption, BoundAssumption
<1>h. UNCHANGED made => Handles' = Handles
  BY DEF Handles
<1>r. UNCHANGED roomVars =>
          /\ made' \in [Rooms -> Nat] /\ rooms' \subseteq {r \in Rooms : made'[r] > 0}
          /\ open' \subseteq Handles' /\ orphaned' \in BOOLEAN
  BY <1>h DEF TypeOK, roomVars
<1>w. UNCHANGED wireVars =>
          /\ up' \in Seq(Frame) /\ down' \in Seq(Ack)
          /\ member' \subseteq Rooms /\ lost' \subseteq Frame \cup Ack
  BY DEF TypeOK, wireVars
<1>s. Steady => /\ reconnect' \in BOOLEAN /\ manual_close' \in BOOLEAN /\ timer' \in BOOLEAN
                /\ socket' \in {"none", "connecting", "open", "closing", "closed"}
                /\ timer' => socket' \in {"none", "closed"}
  BY DEF TypeOK, Steady
<1>f. /\ Fault \/ UNCHANGED faults => faults' \in 0..MaxFaults
      /\ Call \/ UNCHANGED calls => calls' \in 0..MaxCalls
  BY DEF TypeOK, Fault, Call
<1>1. CASE Connect
  <2>1. /\ reconnect' \in BOOLEAN /\ manual_close' \in BOOLEAN /\ timer' \in BOOLEAN
        /\ socket' \in {"none", "connecting", "open", "closing", "closed"}
        /\ timer' => socket' \in {"none", "closed"}
    BY <1>1 DEF Connect, TypeOK
  <2>2. UNCHANGED <<roomVars, wireVars, faults, calls>>
    BY <1>1 DEF Connect
  <2> QED
    BY <1>r, <1>w, <1>f, <2>1, <2>2 DEF TypeOK
<1>2. CASE ConnectThrows
  <2>1. /\ reconnect' \in BOOLEAN /\ manual_close' \in BOOLEAN /\ timer' \in BOOLEAN
        /\ socket' \in {"none", "connecting", "open", "closing", "closed"}
        /\ timer' => socket' \in {"none", "closed"}
    BY <1>2 DEF ConnectThrows, ScheduleReconnect, TypeOK
  <2>2. UNCHANGED <<roomVars, wireVars, calls>> /\ Fault
    BY <1>2 DEF ConnectThrows
  <2> QED
    BY <1>r, <1>w, <1>f, <2>1, <2>2 DEF TypeOK
<1>3. CASE OnOpen
  <2>1. up' \in Seq(Frame)
    <3>1. rooms \ {Root} \in SUBSET Rooms
      BY DEF TypeOK
    <3> QED
      BY <1>3, <3>1, FramesType DEF OnOpen, Rejoin
  <2>2. <<"join_ack", Root>> \in Ack
    BY DEF Ack
  <2>3. down' \in Seq(Ack)
    BY <1>3, <2>2 DEF OnOpen
  <2>4. /\ reconnect' \in BOOLEAN /\ manual_close' \in BOOLEAN /\ timer' \in BOOLEAN
        /\ socket' = "open" /\ ~timer'
        /\ member' \subseteq Rooms /\ lost' = {}
        /\ UNCHANGED <<roomVars, faults, calls>>
    BY <1>3 DEF OnOpen, TypeOK
  <2> QED
    BY <1>r, <1>f, <2>1, <2>3, <2>4 DEF TypeOK
<1>4. CASE PeerCloses
  <2>1. /\ reconnect' \in BOOLEAN /\ manual_close' \in BOOLEAN /\ timer' \in BOOLEAN
        /\ socket' = "closing" /\ ~timer'
        /\ UNCHANGED <<roomVars, wireVars, calls>> /\ Fault
    BY <1>4 DEF PeerCloses, TypeOK
  <2> QED
    BY <1>r, <1>w, <1>f, <2>1 DEF TypeOK
<1>5. ASSUME NEW code \in ServerCodes, OnClose(code) PROVE TypeOK'
  <2>1. Fault \/ UNCHANGED faults
    BY <1>5 DEF OnClose
  <2>2. PICK called \in {FALSE, open \cap Mapped # {}} :
           LET retry == ~manual_close /\ reconnect /\ ShouldReconnect(code)
           IN  /\ manual_close' = (manual_close \/ called)
               /\ rooms' = IF retry /\ ~called THEN rooms ELSE {}
               /\ IF retry THEN ScheduleReconnect(manual_close') ELSE UNCHANGED timer
    BY <1>5 DEF OnClose
  <2>3. manual_close' \in BOOLEAN /\ rooms' \subseteq rooms
    BY <2>2 DEF TypeOK
  <2>4. timer' \in BOOLEAN
    <3>1. CASE UNCHANGED timer
      BY <3>1 DEF TypeOK
    <3>2. CASE timer' = (~manual_close' /\ reconnect)
      BY <3>2 DEF TypeOK
    <3> QED
      BY <2>2, <3>1, <3>2 DEF ScheduleReconnect
  <2>5. /\ UNCHANGED <<reconnect, made, orphaned, calls>> /\ socket' = "closed"
        /\ open' \subseteq open
        /\ up' = << >> /\ down' = << >> /\ member' = {} /\ lost' = {}
    BY <1>5 DEF OnClose
  <2>6. open' \subseteq Handles' /\ rooms' \subseteq {r \in Rooms : made'[r] > 0}
    BY <1>h, <2>3, <2>5 DEF TypeOK
  <2>7. up' \in Seq(Frame) /\ down' \in Seq(Ack)
    BY <2>5
  <2> QED
    BY <1>f, <2>1, <2>3, <2>4, <2>5, <2>6, <2>7 DEF TypeOK
<1>6. CASE Dispatch
  <2>1. up # << >> /\ up' = Tail(up) /\ Head(up) \in Frame /\ up' \in Seq(Frame)
    BY <1>6 DEF Dispatch, TypeOK
  <2>2. PICK kind \in {"join", "leave"}, r \in Rooms : Head(up) = <<kind, r>>
    BY <2>1 DEF Frame
  <2>3. <<"join_ack", r>> \in Ack /\ <<"leave_ack", r>> \in Ack
    BY DEF Ack
  <2>4. \/ UNCHANGED <<down, member, lost, faults>>
        \/ member' = member \cup {r} /\ TrySend(<<"join_ack", r>>)
        \/ member' = member \ {r} /\ TrySend(<<"leave_ack", r>>)
    <3>1. Head(up)[1] = kind /\ Head(up)[2] = r
      BY <2>2
    <3>2. \/ UNCHANGED <<down, member, lost, faults>>
          \/ member' = member \cup {Head(up)[2]} /\ TrySend(<<"join_ack", Head(up)[2]>>)
          \/ member' = member \ {Head(up)[2]} /\ TrySend(<<"leave_ack", Head(up)[2]>>)
      BY ONLY <1>6, Zenon DEF Dispatch
    <3> QED
      BY <3>1, <3>2
  <2>5. ASSUME NEW a \in Ack, TrySend(a)
        PROVE  /\ down' \in Seq(Ack) /\ lost' \subseteq Frame \cup Ack
               /\ Fault \/ UNCHANGED faults
    <3>1. Append(down, a) \in Seq(Ack)
      BY DEF TypeOK
    <3> QED
      BY <2>5, <3>1 DEF TrySend, Lose, TypeOK
  <2>6. member' \subseteq Rooms
    BY <2>4 DEF TypeOK
  <2>7. /\ down' \in Seq(Ack) /\ lost' \subseteq Frame \cup Ack
        /\ Fault \/ UNCHANGED faults
    <3>1. CASE UNCHANGED <<down, lost, faults>>
      BY <3>1 DEF TypeOK
    <3> QED
      BY <2>3, <2>4, <2>5, <3>1
  <2>8. UNCHANGED <<reconnect, manual_close, timer, socket, roomVars, calls>>
    BY <1>6 DEF Dispatch
  <2> QED
    BY <1>r, <1>f, <1>s, <2>1, <2>6, <2>7, <2>8 DEF TypeOK, Steady
<1>6a. CASE Limited
  <2>1. up' \in Seq(Frame) /\ Head(up) \in Frame
    BY <1>6a DEF Limited, TypeOK
  <2>2. lost' \subseteq Frame \cup Ack /\ Fault
    BY <1>6a, <2>1 DEF Limited, Lose, TypeOK
  <2>3. UNCHANGED <<reconnect, manual_close, timer, socket, roomVars, down, member, calls>>
    BY <1>6a DEF Limited
  <2>4. down' \in Seq(Ack) /\ member' \subseteq Rooms
    BY <2>3 DEF TypeOK
  <2> QED
    BY <1>r, <1>f, <1>s, <2>1, <2>2, <2>3, <2>4 DEF TypeOK, Steady
<1>6b. CASE Evicted
  <2>1. PICK i \in DOMAIN down : Lose(down[i]) /\ down' = RemoveAt(down, i)
    BY <1>6b DEF Evicted
  <2>2. down \in Seq(Ack)
    BY DEF TypeOK
  <2>3. down' \in Seq(Ack) /\ down[i] \in Ack
    BY <2>1, <2>2, RemoveAtProperties
  <2>4. lost' \subseteq Frame \cup Ack /\ Fault
    BY <2>1, <2>3 DEF Lose, TypeOK
  <2>5. UNCHANGED <<reconnect, manual_close, timer, socket, roomVars, up, member, calls>>
    BY <1>6b DEF Evicted
  <2>6. up' \in Seq(Frame) /\ member' \subseteq Rooms
    BY <2>5 DEF TypeOK
  <2> QED
    BY <1>r, <1>f, <1>s, <2>3, <2>4, <2>5, <2>6 DEF TypeOK, Steady
<1>7. CASE OnMessage
  <2>1. down # << >> /\ down' = Tail(down) /\ Head(down) \in Ack /\ down' \in Seq(Ack)
    BY <1>7 DEF OnMessage, TypeOK
  <2>2. UNCHANGED <<reconnect, manual_close, timer, socket, made, orphaned, up, member,
                    lost, faults, calls>>
    BY <1>7 DEF OnMessage
  <2>3. rooms' \subseteq rooms /\ open' \subseteq Handles
    BY <1>7, HandleRooms DEF OnMessage, Parse, TypeOK
  <2>4. /\ made' \in [Rooms -> Nat] /\ rooms' \subseteq {r \in Rooms : made'[r] > 0}
        /\ open' \subseteq Handles' /\ orphaned' \in BOOLEAN
    BY <1>h, <2>2, <2>3 DEF TypeOK
  <2>5. up' \in Seq(Frame) /\ member' \subseteq Rooms /\ lost' \subseteq Frame \cup Ack
    BY <2>2 DEF TypeOK
  <2> QED
    BY <1>f, <1>s, <2>1, <2>2, <2>4, <2>5 DEF TypeOK, Steady
<1>8. ASSUME NEW r \in Rooms, Join(r) PROVE TypeOK'
  <2>1. <<"join", r>> \in Frame
    BY DEF Frame
  <2>2. up' \in Seq(Frame)
    BY <1>8, <2>1 DEF Join, JoinFrame, TypeOK
  <2>3. UNCHANGED <<reconnect, manual_close, timer, socket, open, orphaned, down, member,
                    lost, faults>> /\ Call
    BY <1>8 DEF Join
  <2>4. /\ made' \in [Rooms -> Nat] /\ rooms' \subseteq {q \in Rooms : made'[q] > 0}
        /\ open' \subseteq Handles' /\ orphaned' \in BOOLEAN
    BY <1>8, <2>3, JoinHandles DEF TypeOK
  <2>5. down' \in Seq(Ack) /\ member' \subseteq Rooms /\ lost' \subseteq Frame \cup Ack
    BY <2>3 DEF TypeOK
  <2> QED
    BY <1>f, <1>s, <2>2, <2>3, <2>4, <2>5 DEF TypeOK, Steady
<1>9. ASSUME NEW h \in Handles, Leave(h) PROVE TypeOK'
  <2>1. <<"leave", h[1]>> \in Frame
    BY HandleRooms DEF Frame
  <2>2. up' \in Seq(Frame)
    BY <1>9, <2>1 DEF Leave, TypeOK
  <2>3. UNCHANGED <<reconnect, manual_close, timer, socket, roomVars, down, member, lost,
                    faults>> /\ Call
    BY <1>9 DEF Leave
  <2>4. down' \in Seq(Ack) /\ member' \subseteq Rooms /\ lost' \subseteq Frame \cup Ack
    BY <2>3 DEF TypeOK
  <2> QED
    BY <1>r, <1>f, <1>s, <2>2, <2>3, <2>4 DEF TypeOK, Steady
<1>10. CASE Purge
  <2>0. PICK R \in SUBSET rooms : \E s \in Orders(R) : up' = up \o Frames("leave", s)
    BY <1>10 DEF Purge
  <2>1. PICK s \in Orders(R) : up' = up \o Frames("leave", s)
    BY <2>0
  <2>2. Frames("leave", s) \in Seq(Frame)
    BY <2>1, FramesType DEF TypeOK
  <2>3. up' \in Seq(Frame)
    BY <2>1, <2>2 DEF TypeOK
  <2>4. UNCHANGED <<reconnect, manual_close, timer, socket, roomVars, down, member, lost,
                    faults>> /\ Call
    BY <1>10 DEF Purge
  <2>5. down' \in Seq(Ack) /\ member' \subseteq Rooms /\ lost' \subseteq Frame \cup Ack
    BY <2>4 DEF TypeOK
  <2> QED
    BY <1>r, <1>f, <1>s, <2>3, <2>4, <2>5 DEF TypeOK, Steady
<1>11. ASSUME NEW h \in Handles, ForceClose(h) PROVE TypeOK'
  <2>1. UNCHANGED <<reconnect, manual_close, timer, socket, made, wireVars, faults>> /\ Call
    BY <1>11 DEF ForceClose
  <2>2. rooms' \subseteq rooms /\ open' \subseteq open /\ orphaned' \in BOOLEAN
    BY <1>11 DEF ForceClose, TypeOK
  <2>3. /\ made' \in [Rooms -> Nat] /\ rooms' \subseteq {r \in Rooms : made'[r] > 0}
        /\ open' \subseteq Handles'
    BY <1>h, <2>1, <2>2 DEF TypeOK
  <2> QED
    BY <1>w, <1>f, <1>s, <2>1, <2>2, <2>3 DEF TypeOK, Steady
<1>12. ASSUME NEW code \in ClientCodes, Close(code) PROVE TypeOK'
  <2>1. socket' \in {"none", "connecting", "open", "closing", "closed"}
    BY <1>12 DEF Close, TypeOK
  <2>2. UNCHANGED <<reconnect, made, orphaned, wireVars, faults>> /\ Call
    BY <1>12 DEF Close
  <2>3. manual_close' = TRUE /\ timer' = FALSE /\ rooms' = {} /\ open' \subseteq open
    BY <1>12 DEF Close
  <2>4. made' \in [Rooms -> Nat] /\ open' \subseteq Handles' /\ orphaned' \in BOOLEAN
    BY <1>h, <2>2, <2>3 DEF TypeOK
  <2>5. reconnect' \in BOOLEAN
    BY <2>2 DEF TypeOK
  <2> QED
    BY <1>w, <1>f, <2>1, <2>2, <2>3, <2>4, <2>5 DEF TypeOK
<1>13. CASE UNCHANGED vars
  <2>1. UNCHANGED <<reconnect, manual_close, timer, socket, roomVars, wireVars, faults, calls>>
    BY <1>13 DEF vars
  <2> QED
    BY <1>r, <1>w, <1>f, <1>s, <2>1 DEF TypeOK, Steady
<1> QED
  BY <1>1, <1>2, <1>3, <1>4, <1>5, <1>6, <1>6a, <1>6b, <1>7, <1>8, <1>9, <1>10, <1>11,
     <1>12, <1>13
  DEF Next, Application, Retry, Serve, Closed, Idle

(* Every step keeps a closed client closed: schedule_reconnect looks at     *)
(* manual_close after the listeners have run.                               *)
LEMMA ClosedStep == TypeOK /\ OpenMeansMember /\ ClosedForGood /\ [Next]_vars => ClosedForGood'
<1> SUFFICES ASSUME TypeOK, OpenMeansMember, ClosedForGood, [Next]_vars
             PROVE  ClosedForGood'
  OBVIOUS
<1> USE DEF ClosedForGood
<1>1. CASE Retry
  BY <1>1 DEF Retry, Connect, ConnectThrows, roomVars
<1>2. CASE OnOpen \/ PeerCloses \/ Dispatch \/ Limited \/ Evicted
  BY <1>2 DEF OnOpen, PeerCloses, Dispatch, Limited, Evicted, roomVars
<1>3. ASSUME NEW code \in ServerCodes, OnClose(code) PROVE ClosedForGood'
  <2>1. PICK called \in {FALSE, open \cap Mapped # {}} :
           LET retry == ~manual_close /\ reconnect /\ ShouldReconnect(code)
           IN  /\ manual_close' = (manual_close \/ called)
               /\ rooms' = IF retry /\ ~called THEN rooms ELSE {}
               /\ IF retry THEN ScheduleReconnect(manual_close') ELSE UNCHANGED timer
    BY <1>3 DEF OnClose
  <2>2. open' = open \ Mapped /\ orphaned' = orphaned
    BY <1>3 DEF OnClose
  <2>3. orphaned' \/ open' = {}
    BY <2>2 DEF OpenMeansMember
  <2>4. manual_close' => ~timer'
    <3>1. CASE manual_close
      BY <2>1, <3>1
    <3>2. CASE ~manual_close /\ called /\ UNCHANGED timer
      <4>1. PICK r \in rooms : Current(r) \in open
        BY <2>1, <3>2 DEF Mapped
      <4>2. socket \in {"open", "closing"}
        BY <4>1 DEF OpenMeansMember
      <4> QED
        BY <3>2, <4>2 DEF TypeOK
    <3> QED
      BY <2>1, <3>1, <3>2 DEF ScheduleReconnect, TypeOK
  <2>5. manual_close' => rooms' = {}
    BY <2>1 DEF TypeOK
  <2> QED
    BY <2>3, <2>4, <2>5
<1>4. CASE OnMessage
  <2>1. UNCHANGED <<manual_close, timer, orphaned>> /\ rooms' \subseteq rooms
    BY <1>4 DEF OnMessage, Parse
  <2>2. rooms = {} => UNCHANGED open
    BY <1>4 DEF OnMessage, Parse
  <2> QED
    BY <2>1, <2>2
<1>5. ASSUME NEW r \in Rooms, Join(r) PROVE ClosedForGood'
  BY <1>5 DEF Join
<1>6. ASSUME NEW h \in Handles, Leave(h) \/ ForceClose(h) PROVE ClosedForGood'
  BY <1>6 DEF Leave, ForceClose, roomVars
<1>7. CASE Purge
  BY <1>7 DEF Purge, roomVars
<1>8. ASSUME NEW code \in ClientCodes, Close(code) PROVE ClosedForGood'
  BY <1>8 DEF Close, OpenMeansMember
<1>9. CASE UNCHANGED vars
  BY <1>9 DEF vars, roomVars
<1> QED
  BY <1>1, <1>2, <1>3, <1>4, <1>5, <1>6, <1>7, <1>8, <1>9
  DEF Next, Application, Serve, Closed, Idle

(* What stands behind an open handle for r. *)
Backed(r) ==
    r \in member \/ Carries(down, <<"leave_ack", r>>) \/ <<"leave_ack", r>> \in lost

(* OpenMeansMember with the sequence of acknowledgements taken apart. *)
LEMMA OpenMeansBacked ==
    ASSUME TypeOK
    PROVE  OpenMeansMember <=>
              /\ orphaned \/ open \subseteq Mapped
              /\ \A r \in rooms : Current(r) \in open =>
                    socket \in {"open", "closing"} /\ Backed(r)
<1>1. DOMAIN down = 1..Len(down)
  BY DEF TypeOK
<1>2. \A x : x \in Range(down) <=> Carries(down, x)
  BY <1>1, Zenon DEF Range, Carries
<1>3. ASSUME NEW r
      PROVE  Backed(r) <=> r \in member \/ <<"leave_ack", r>> \in Range(down) \cup lost
  BY <1>2 DEF Backed
<1> QED
  BY <1>3 DEF OpenMeansMember

(* No way out of the map but forceClose of an older handle leaves a handle  *)
(* open.                                                                    *)
LEMMA MapStep ==
    ASSUME TypeOK, orphaned \/ open \subseteq Mapped, [Next]_vars
    PROVE  orphaned' \/ open' \subseteq Mapped'
<1>0. \A r \in rooms : r \in Rooms
  BY DEF TypeOK
<1>1. CASE UNCHANGED roomVars
  BY <1>1 DEF roomVars, Mapped, Current
<1>2. ASSUME NEW code \in ServerCodes, OnClose(code) PROVE orphaned' \/ open' \subseteq Mapped'
  BY <1>2 DEF OnClose
<1>3. CASE OnMessage
  <2>1. UNCHANGED <<made, orphaned>>
    BY <1>3 DEF OnMessage
  <2>2. PICK r : r = Head(down)[2]
    OBVIOUS
  <2>3. \/ UNCHANGED <<rooms, open>>
        \/ r \in rooms /\ open' = open \cup {Current(r)} /\ rooms' = rooms
        \/ r \in rooms /\ open' = open \ {Current(r)} /\ rooms' = rooms \ {r}
    BY <1>3, <2>2 DEF OnMessage, Parse
  <2> QED
    BY <2>1, <2>3 DEF Mapped, Current
<1>4. ASSUME NEW r \in Rooms, Join(r) PROVE orphaned' \/ open' \subseteq Mapped'
  <2>1. UNCHANGED <<open, orphaned>> /\ r \notin rooms
    BY <1>4 DEF Join
  <2>2. \A q \in rooms : Current(q)' = Current(q) /\ q \in rooms'
    BY <1>0, <1>4, <2>1, JoinHandles
  <2> QED
    BY <2>1, <2>2 DEF Mapped
<1>5. ASSUME NEW h \in Handles, ForceClose(h) PROVE orphaned' \/ open' \subseteq Mapped'
  <2>1. /\ open' = open \ {h} /\ rooms' = rooms \ {h[1]} /\ UNCHANGED made
        /\ orphaned' = (orphaned \/ (h # Current(h[1]) /\ Current(h[1]) \in open \cap Mapped))
    BY <1>5 DEF ForceClose
  <2>2. SUFFICES ASSUME ~orphaned', NEW g \in open' PROVE g \in Mapped'
    OBVIOUS
  <2>3. PICK r \in rooms : g = Current(r)
    BY <2>1, <2>2 DEF Mapped
  <2>4. r # h[1]
    BY <2>1, <2>2, <2>3 DEF Mapped
  <2> QED
    BY <2>1, <2>3, <2>4 DEF Mapped, Current
<1>6. ASSUME NEW code \in ClientCodes, Close(code) PROVE orphaned' \/ open' \subseteq Mapped'
  BY <1>6 DEF Close
<1>7. ASSUME NEW h \in Handles, Leave(h) PROVE UNCHANGED roomVars
  BY <1>7 DEF Leave
<1>8. CASE \/ Connect \/ ConnectThrows \/ OnOpen \/ PeerCloses \/ Dispatch \/ Limited
           \/ Evicted \/ Purge \/ UNCHANGED vars
  BY <1>1, <1>8 DEF Connect, ConnectThrows, OnOpen, PeerCloses, Dispatch, Limited, Evicted,
                    Purge, vars
<1> QED
  BY <1>1, <1>2, <1>3, <1>4, <1>5, <1>6, <1>7, <1>8
  DEF Next, Application, Retry, Serve, Closed, Idle

(* Every step keeps open handles in the map to rooms the client is in, or   *)
(* that it has left, or been told it has.                                   *)
LEMMA BackedStep ==
    ASSUME TypeOK, AckInv, [Next]_vars,
           \A q \in rooms : Current(q) \in open => socket \in {"open", "closing"} /\ Backed(q),
           NEW r \in rooms', Current(r)' \in open'
    PROVE  socket' \in {"open", "closing"} /\ Backed(r)'
<1> USE DEF Backed
<1>d. down \in Seq(Ack) /\ Len(down) \in Nat
  BY DEF TypeOK
<1>t. <<"leave_ack", r>> \in Ack /\ r \in Rooms
  <2>1. r \in Rooms
    BY TypeStep DEF TypeOK
  <2> QED
    BY <2>1 DEF Ack
<1>1. CASE UNCHANGED <<rooms, made, open>> /\ UNCHANGED <<socket, down, member, lost>>
  BY <1>1 DEF Current, Carries
<1>2. CASE Retry
  BY <1>2 DEF Retry, Connect, ConnectThrows, roomVars, Current, TypeOK
<1>3. CASE OnOpen
  BY <1>3 DEF OnOpen, roomVars, Current
<1>4. CASE PeerCloses
  BY <1>4 DEF PeerCloses, roomVars, wireVars, Current, Carries
<1>5. ASSUME NEW code \in ServerCodes, OnClose(code) PROVE FALSE
  <2>1. rooms' \subseteq rooms /\ UNCHANGED made /\ open' = open \ Mapped
    BY <1>5 DEF OnClose
  <2> QED
    BY <2>1 DEF Mapped, Current
<1>6. CASE Dispatch
  <2>1. up # << >> /\ Head(up) \in Frame
    BY <1>6 DEF Dispatch, TypeOK
  <2>2. PICK kind \in {"join", "leave"}, s \in Rooms : Head(up) = <<kind, s>>
    BY <2>1 DEF Frame
  <2>3. UNCHANGED <<socket, rooms, made, open>> /\ Current(r)' = Current(r)
    BY <1>6 DEF Dispatch, roomVars, Current
  <2>4. \/ UNCHANGED <<down, member, lost, faults>>
        \/ member' = member \cup {s} /\ TrySend(<<"join_ack", s>>)
        \/ member' = member \ {s} /\ TrySend(<<"leave_ack", s>>)
    <3>1. Head(up)[1] = kind /\ Head(up)[2] = s
      BY <2>2
    <3>2. \/ UNCHANGED <<down, member, lost, faults>>
          \/ member' = member \cup {Head(up)[2]} /\ TrySend(<<"join_ack", Head(up)[2]>>)
          \/ member' = member \ {Head(up)[2]} /\ TrySend(<<"leave_ack", Head(up)[2]>>)
      BY ONLY <1>6, Zenon DEF Dispatch
    <3> QED
      BY <3>1, <3>2
  <2>5. <<"join_ack", s>> \in Ack /\ <<"leave_ack", s>> \in Ack
    BY DEF Ack
  <2>6. ASSUME NEW a \in Ack, TrySend(a)
        PROVE  /\ lost \subseteq lost'
               /\ Carries(down, <<"leave_ack", r>>) => Carries(down', <<"leave_ack", r>>)
               /\ Carries(down', a) \/ a \in lost'
    <3>1. CASE down' = Append(down, a) /\ UNCHANGED lost
      BY <1>d, <1>t, <3>1, CarriesStep
    <3>2. CASE Lose(a) /\ UNCHANGED down
      BY <3>2 DEF Lose, Carries
    <3> QED
      BY <2>6, <3>1, <3>2 DEF TrySend
  <2>7. socket \in {"open", "closing"} /\ Backed(r)
    BY <2>3
  <2>8. CASE UNCHANGED <<down, member, lost, faults>>
    BY <2>3, <2>7, <2>8 DEF Carries
  <2>9. CASE member' = member \cup {s} /\ TrySend(<<"join_ack", s>>)
    BY <2>3, <2>5, <2>6, <2>7, <2>9
  <2>10. CASE member' = member \ {s} /\ TrySend(<<"leave_ack", s>>)
    BY <2>3, <2>5, <2>6, <2>7, <2>10
  <2> QED
    BY <2>4, <2>8, <2>9, <2>10
<1>7. CASE Limited
  BY <1>7 DEF Limited, Lose, roomVars, Current, Carries
<1>8. CASE Evicted
  <2>1. PICK i \in DOMAIN down : Lose(down[i]) /\ down' = RemoveAt(down, i)
    BY <1>8 DEF Evicted
  <2>2. UNCHANGED <<socket, rooms, made, open, member>> /\ Current(r)' = Current(r)
    BY <1>8 DEF Evicted, roomVars, Current
  <2>3. lost' = lost \cup {down[i]}
    BY <2>1 DEF Lose
  <2>4. Carries(down, <<"leave_ack", r>>) =>
           down[i] = <<"leave_ack", r>> \/ Carries(down', <<"leave_ack", r>>)
    BY <1>d, <2>1, CarriesRemoveAt
  <2> QED
    BY <2>2, <2>3, <2>4
<1>9. CASE OnMessage
  <2>1. down # << >> /\ down' = Tail(down) /\ Head(down) = down[1] /\ Head(down) \in Ack
    BY <1>9 DEF OnMessage, TypeOK
  <2>2. PICK kind \in {"join_ack", "leave_ack"}, s \in Rooms : down[1] = <<kind, s>>
    BY <2>1 DEF Ack
  <2>3. /\ Len(down) \in Nat \ {0}
        /\ Len(down') = Len(down) - 1
        /\ \A i \in 1..(Len(down) - 1) : down'[i] = down[i + 1]
    BY <1>d, <2>1
  <2>4. /\ UNCHANGED <<socket, member, lost, made>> /\ socket = "open"
        /\ Current(r)' = Current(r)
    BY <1>9 DEF OnMessage, Current
  <2>5. /\ s \notin rooms => UNCHANGED <<rooms, open>>
        /\ s \in rooms /\ kind = "join_ack" =>
              open' = open \cup {Current(s)} /\ UNCHANGED rooms
        /\ s \in rooms /\ kind = "leave_ack" =>
              open' = open \ {Current(s)} /\ rooms' = rooms \ {s}
    <3>1. Head(down)[1] = kind /\ Head(down)[2] = s
      BY <2>1, <2>2
    <3>2. IF Head(down)[2] \in rooms THEN Parse(Head(down)[1], Head(down)[2])
          ELSE UNCHANGED <<rooms, open>>
      BY ONLY <1>9, Zenon DEF OnMessage
    <3> QED
      BY <3>1, <3>2 DEF Parse
  <2>6. CASE s = r /\ kind = "join_ack"
    <3>1. 1 \in 1..Len(down) /\ down[1] = <<"join_ack", r>>
      BY <2>2, <2>3, <2>6
    <3>2. \/ r \in member \/ <<"leave_ack", r>> \in lost
          \/ \E j \in (1 + 1)..Len(down) : down[j] = <<"leave_ack", r>>
      BY <1>t, <3>1 DEF AckInv
    <3>3. ASSUME NEW j \in (1 + 1)..Len(down), down[j] = <<"leave_ack", r>>
          PROVE  Carries(down', <<"leave_ack", r>>)
      <4>1. j - 1 \in 1..Len(down') /\ down'[j - 1] = down[j]
        BY <2>3
      <4> QED
        BY <3>3, <4>1 DEF Carries
    <3> QED
      BY <2>4, <3>2, <3>3
  <2>7. CASE ~(s = r /\ kind = "join_ack")
    <3>1. ~(s = r /\ kind = "leave_ack" /\ r \in rooms)
      BY <2>5
    <3>2. Current(s) = Current(r) => s = r
      BY DEF Current
    <3>3. r \in rooms /\ Current(r) \in open
      BY <2>4, <2>5, <2>7, <3>2
    <3>4. Backed(r)
      BY <3>3
    <3>5. <<"leave_ack", r>> # Head(down)
      BY <2>1, <2>2, <3>1, <3>3
    <3>6. Carries(down, <<"leave_ack", r>>) => Carries(down', <<"leave_ack", r>>)
      BY <1>d, <2>1, <3>5, CarriesStep
    <3> QED
      BY <2>4, <3>4, <3>6
  <2> QED
    BY <2>6, <2>7
<1>10. ASSUME NEW q \in Rooms, Join(q) PROVE socket' \in {"open", "closing"} /\ Backed(r)'
  <2>1. UNCHANGED <<open, socket, down, member, lost>> /\ rooms' = rooms \cup {q}
    BY <1>10 DEF Join
  <2>2. r # q
    BY <1>10, <2>1, JoinHandles DEF TypeOK
  <2>3. Current(r)' = Current(r)
    BY <1>10, <1>t, <2>2, JoinHandles
  <2> QED
    BY <2>1, <2>2, <2>3 DEF Carries
<1>11. ASSUME NEW h \in Handles, Leave(h) \/ ForceClose(h)
       PROVE  socket' \in {"open", "closing"} /\ Backed(r)'
  <2>1. UNCHANGED <<made, socket, down, member, lost>> /\ rooms' \subseteq rooms
        /\ open' \subseteq open
    BY <1>11 DEF Leave, ForceClose, roomVars, wireVars
  <2> QED
    BY <2>1 DEF Current, Carries
<1>12. CASE Purge
  BY <1>1, <1>12 DEF Purge, roomVars
<1>13. ASSUME NEW code \in ClientCodes, Close(code) PROVE FALSE
  BY <1>13 DEF Close
<1>14. CASE UNCHANGED vars
  BY <1>1, <1>14 DEF vars, roomVars, wireVars
<1> QED
  BY <1>2, <1>3, <1>4, <1>5, <1>6, <1>7, <1>8, <1>9, <1>10, <1>11, <1>12, <1>13, <1>14
  DEF Next, Application, Serve, Closed, Idle

(* Every step keeps open handles to rooms the client is in. *)
LEMMA MemberStep ==
    TypeOK /\ OpenMeansMember /\ AckInv /\ [Next]_vars => OpenMeansMember'
<1> SUFFICES ASSUME TypeOK, OpenMeansMember, AckInv, [Next]_vars
             PROVE  OpenMeansMember'
  OBVIOUS
<1>1. /\ orphaned \/ open \subseteq Mapped
      /\ \A r \in rooms : Current(r) \in open => socket \in {"open", "closing"} /\ Backed(r)
  BY OpenMeansBacked
<1>2. orphaned' \/ open' \subseteq Mapped'
  BY <1>1, MapStep
<1>3. \A r \in rooms' : Current(r)' \in open' => socket' \in {"open", "closing"} /\ Backed(r)'
  BY <1>1, BackedStep
<1>4. TypeOK'
  BY TypeStep
<1>5. DOMAIN down' = 1..Len(down')
  BY <1>4 DEF TypeOK
<1>6. \A x : Carries(down', x) => x \in Range(down')
  BY <1>5, Zenon DEF Range, Carries
<1>7. ASSUME NEW r, Backed(r)'
      PROVE  r \in member' \/ <<"leave_ack", r>> \in Range(down') \cup lost'
  BY <1>6, <1>7 DEF Backed
<1> QED
  BY <1>2, <1>3, <1>7 DEF OpenMeansMember

(* Every step keeps join_acks true, or followed by a leave_ack, or by one   *)
(* that was lost: the server answers in the order in which it changes its   *)
(* membership.                                                              *)
LEMMA AckStep == TypeOK /\ AckInv /\ [Next]_vars => AckInv'
<1> SUFFICES ASSUME TypeOK, AckInv, [Next]_vars PROVE AckInv'
  OBVIOUS
<1>d. down \in Seq(Ack) /\ Len(down) \in Nat
  BY DEF TypeOK
<1>1. CASE OnOpen
  <2>1. Len(down') = 1 /\ down'[1] = <<"join_ack", Root>> /\ member' = {Root}
    BY <1>1 DEF OnOpen
  <2> QED
    BY <2>1 DEF AckInv
<1>2. ASSUME NEW code \in ServerCodes, OnClose(code) PROVE AckInv'
  <2>1. Len(down') = 0
    BY <1>2 DEF OnClose
  <2> QED
    BY <2>1 DEF AckInv
<1>3. CASE Dispatch
  <2>1. up # << >> /\ Head(up) \in Frame
    BY <1>3 DEF Dispatch, TypeOK
  <2>2. PICK kind \in {"join", "leave"}, s \in Rooms : Head(up) = <<kind, s>>
    BY <2>1 DEF Frame
  <2>3. \/ UNCHANGED <<down, member, lost, faults>>
        \/ member' = member \cup {s} /\ TrySend(<<"join_ack", s>>)
        \/ member' = member \ {s} /\ TrySend(<<"leave_ack", s>>)
    <3>1. Head(up)[1] = kind /\ Head(up)[2] = s
      BY <2>2
    <3>2. \/ UNCHANGED <<down, member, lost, faults>>
          \/ member' = member \cup {Head(up)[2]} /\ TrySend(<<"join_ack", Head(up)[2]>>)
          \/ member' = member \ {Head(up)[2]} /\ TrySend(<<"leave_ack", Head(up)[2]>>)
      BY ONLY <1>3, Zenon DEF Dispatch
    <3> QED
      BY <3>1, <3>2
  <2>4. ASSUME NEW a \in Ack, down' = Append(down, a)
        PROVE  /\ Len(down') = Len(down) + 1
               /\ \A i \in 1..Len(down) : down'[i] = down[i]
               /\ down'[Len(down) + 1] = a
    BY <1>d, <2>4
  <2>5. <<"join_ack", s>> \in Ack /\ <<"leave_ack", s>> \in Ack
    BY DEF Ack
  <2>6. ASSUME NEW a \in Ack, TrySend(a)
        PROVE  lost \subseteq lost' /\ (down' = Append(down, a) \/ (a \in lost' /\ down' = down))
    BY <2>6 DEF TrySend, Lose
  <2> DEFINE n == Len(down)
  <2>7. CASE UNCHANGED <<down, member, lost, faults>>
    BY <2>7 DEF AckInv
  <2>8. CASE member' = member \cup {s} /\ TrySend(<<"join_ack", s>>)
    <3>1. SUFFICES ASSUME NEW i \in 1..Len(down'), NEW r \in Rooms,
                          down'[i] = <<"join_ack", r>>, r \notin member',
                          <<"leave_ack", r>> \notin lost'
                   PROVE  \E j \in (i + 1)..Len(down') : down'[j] = <<"leave_ack", r>>
      BY DEF AckInv
    <3>2. i \in 1..n /\ down[i] = <<"join_ack", r>> /\ <<"leave_ack", r>> \notin lost
      BY <1>d, <2>4, <2>5, <2>6, <2>8, <3>1
    <3>3. PICK j \in (i + 1)..n : down[j] = <<"leave_ack", r>>
      BY <2>8, <3>1, <3>2 DEF AckInv
    <3>4. j \in (i + 1)..Len(down') /\ down'[j] = down[j]
      BY <1>d, <2>4, <2>5, <2>6, <2>8
    <3> QED
      BY <3>3, <3>4
  <2>9. CASE member' = member \ {s} /\ TrySend(<<"leave_ack", s>>)
    <3>1. SUFFICES ASSUME NEW i \in 1..Len(down'), NEW r \in Rooms,
                          down'[i] = <<"join_ack", r>>, r \notin member',
                          <<"leave_ack", r>> \notin lost'
                   PROVE  \E j \in (i + 1)..Len(down') : down'[j] = <<"leave_ack", r>>
      BY DEF AckInv
    <3>2. i \in 1..n /\ down[i] = <<"join_ack", r>> /\ <<"leave_ack", r>> \notin lost
      BY <1>d, <2>4, <2>5, <2>6, <2>9, <3>1
    <3>3. CASE r = s
      <4>1. down' = Append(down, <<"leave_ack", r>>)
        BY <2>5, <2>6, <2>9, <3>1, <3>3
      <4>2. n + 1 \in (i + 1)..Len(down') /\ down'[n + 1] = <<"leave_ack", r>>
        BY <1>d, <2>4, <2>5, <3>2, <3>3, <4>1
      <4> QED
        BY <4>2
    <3>4. CASE r # s
      <4>1. PICK j \in (i + 1)..n : down[j] = <<"leave_ack", r>>
        BY <2>9, <3>1, <3>2, <3>4 DEF AckInv
      <4>2. j \in (i + 1)..Len(down') /\ down'[j] = down[j]
        BY <1>d, <2>4, <2>5, <2>6, <2>9
      <4> QED
        BY <4>1, <4>2
    <3> QED
      BY <3>3, <3>4
  <2> QED
    BY <2>3, <2>7, <2>8, <2>9
<1>4. CASE OnMessage
  <2>1. down # << >> /\ down' = Tail(down) /\ member' = member /\ lost' = lost
    BY <1>4 DEF OnMessage
  <2>2. /\ Len(down) \in Nat \ {0}
        /\ Len(down') = Len(down) - 1
        /\ \A i \in 1..(Len(down) - 1) : down'[i] = down[i + 1]
    BY <1>d, <2>1
  <2> SUFFICES ASSUME NEW i \in 1..Len(down'), NEW r \in Rooms,
                      down'[i] = <<"join_ack", r>>, r \notin member,
                      <<"leave_ack", r>> \notin lost
               PROVE  \E j \in (i + 1)..Len(down') : down'[j] = <<"leave_ack", r>>
    BY <2>1 DEF AckInv
  <2>3. PICK j \in (i + 2)..Len(down) : down[j] = <<"leave_ack", r>>
    <3>1. i + 1 \in 1..Len(down) /\ down[i + 1] = <<"join_ack", r>>
      BY <2>2
    <3>2. \E j \in ((i + 1) + 1)..Len(down) : down[j] = <<"leave_ack", r>>
      BY <3>1 DEF AckInv
    <3> QED
      BY <3>2
  <2>4. j - 1 \in (i + 1)..Len(down')
    BY <2>2
  <2>5. j - 1 \in 1..(Len(down) - 1) /\ (j - 1) + 1 = j
    BY <2>2
  <2>6. down'[j - 1] = <<"leave_ack", r>>
    BY <2>2, <2>3, <2>5
  <2> QED
    BY <2>4, <2>6
<1>5. CASE Evicted
  <2>1. PICK k \in DOMAIN down : Lose(down[k]) /\ down' = RemoveAt(down, k)
    BY <1>5 DEF Evicted
  <2>2. lost' = lost \cup {down[k]} /\ member' = member
    BY <1>5, <2>1 DEF Evicted, Lose
  <2>a. /\ Len(RemoveAt(down, k)) = Len(down) - 1
        /\ \A i \in 1..(Len(down) - 1) :
              RemoveAt(down, k)[i] = IF i < k THEN down[i] ELSE down[i + 1]
    BY <1>d, RemoveAtProperties, Zenon
  <2>3. /\ Len(down') = Len(down) - 1 /\ k \in 1..Len(down)
        /\ \A i \in 1..(Len(down) - 1) :
              down'[i] = IF i < k THEN down[i] ELSE down[i + 1]
    BY <1>d, <2>1, <2>a
  <2> SUFFICES ASSUME NEW i \in 1..Len(down'), NEW r \in Rooms,
                      down'[i] = <<"join_ack", r>>, r \notin member,
                      <<"leave_ack", r>> \notin lost'
               PROVE  \E j \in (i + 1)..Len(down') : down'[j] = <<"leave_ack", r>>
    BY <2>2 DEF AckInv
  <2> DEFINE m == IF i < k THEN i ELSE i + 1
  <2>4. m \in 1..Len(down) /\ down[m] = <<"join_ack", r>>
    BY <1>d, <2>3
  <2>5. PICK j \in (m + 1)..Len(down) : down[j] = <<"leave_ack", r>>
    BY <2>2, <2>4 DEF AckInv
  <2>6. j # k
    BY <2>2, <2>5
  <2>7. CASE j < k
    <3>1. j \in (i + 1)..Len(down') /\ down'[j] = down[j]
      BY <1>d, <2>3, <2>5, <2>7
    <3> QED
      BY <2>5, <3>1
  <2>8. CASE j > k
    <3>1. /\ j - 1 \in (i + 1)..Len(down') /\ j - 1 \in 1..(Len(down) - 1)
          /\ ~(j - 1 < k) /\ (j - 1) + 1 = j
      BY <1>d, <2>3, <2>5, <2>8
    <3>2. down'[j - 1] = down[j]
      BY <2>3, <3>1
    <3> QED
      BY <2>5, <3>1, <3>2
  <2> QED
    BY <1>d, <2>3, <2>4, <2>6, <2>7, <2>8
<1>6. CASE UNCHANGED <<down, member>> /\ lost \subseteq lost'
  BY <1>6 DEF AckInv
<1>7. CASE Retry \/ PeerCloses \/ Limited \/ Purge \/ UNCHANGED vars
  <2>1. UNCHANGED <<down, member>> /\ lost \subseteq lost'
    BY <1>7 DEF Retry, Connect, ConnectThrows, PeerCloses, Limited, Lose, Purge, vars, wireVars
  <2> QED
    BY <1>6, <2>1
<1>8. ASSUME NEW r \in Rooms, Join(r) PROVE AckInv'
  BY <1>6, <1>8 DEF Join
<1>9. ASSUME NEW h \in Handles, Leave(h) \/ ForceClose(h) PROVE AckInv'
  BY <1>6, <1>9 DEF Leave, ForceClose, wireVars
<1>10. ASSUME NEW code \in ClientCodes, Close(code) PROVE AckInv'
  BY <1>6, <1>10 DEF Close, wireVars
<1> QED
  BY <1>1, <1>2, <1>3, <1>4, <1>5, <1>7, <1>8, <1>9, <1>10
  DEF Next, Application, Serve, Closed, Idle

-----------------------------------------------------------------------------
(* The invariant holds in every reachable state of the client. *)
THEOREM ClientInductive == Spec => []ClientInv
<1>1. ClientInv /\ [Next]_vars => ClientInv'
  BY TypeStep, ClosedStep, MemberStep, AckStep DEF ClientInv
<1> QED
  BY <1>1, ClientInit, PTL DEF Spec

(* Types; with them, that schedule_reconnect never sets a timer while a     *)
(* socket is connecting, open or closing.                                   *)
THEOREM ClientTypeCorrect == Spec => []TypeOK
<1>1. ClientInv => TypeOK
  BY DEF ClientInv
<1> QED
  BY <1>1, ClientInductive, PTL

(* After close no timer is set and no handle is left, whatever the socket,  *)
(* the listeners of onclose and the application do, unless forceClose of an *)
(* old handle has taken an open one out of the map.                         *)
THEOREM StaysClosed == Spec => []ClosedForGood
<1>1. ClientInv => ClosedForGood
  BY DEF ClientInv
<1> QED
  BY <1>1, ClientInductive, PTL

(* An open handle is in the rooms map, with the same exception, and the     *)
(* server has the client in its room, or has sent its leave_ack, or has     *)
(* given that up.                                                           *)
THEOREM OpenIsMember == Spec => []OpenMeansMember
<1>1. ClientInv => OpenMeansMember
  BY DEF ClientInv
<1> QED
  BY <1>1, ClientInductive, PTL

-----------------------------------------------------------------------------
(* Handles that wait to be opened *)

(* Walking through the keys of the map in any order comes to each of them:  *)
(* onopen sends a join for every room.                                      *)
LEMMA FramesAll ==
    ASSUME NEW R \in SUBSET Rooms, NEW s \in Orders(R), NEW kind, NEW r \in R
    PROVE  Carries(Frames(kind, s), <<kind, r>>)
<1> DEFINE n == Cardinality(R)
<1>1. IsFiniteSet(R) /\ n \in Nat
  BY FS_Subset, FS_CardinalityType, RoomAssumption
<1> HIDE DEF n
<1>2. IsFiniteSet(1..n) /\ Cardinality(1..n) = n
  BY <1>1, FS_Interval
<1>3. s \in [1..n -> R] /\ \A i, j \in 1..n : i # j => s[i] # s[j]
  BY DEF Orders, n
<1>4. s \in Injection(1..n, R)
  BY <1>3 DEF Injection, IsInjective
<1>5. s \in Surjection(1..n, R)
  BY <1>1, <1>2, <1>4, FS_Injection DEF n
<1>6. PICK i \in 1..n : s[i] = r
  BY <1>5 DEF Surjection
<1>7. s \in Seq(R) /\ Len(s) = n
  BY <1>1, <1>3
<1>8. /\ Frames(kind, s) = [k \in 1..n |-> <<kind, s[k]>>]
      /\ Len([k \in 1..n |-> <<kind, s[k]>>]) = n
  BY <1>1, <1>7 DEF Frames
<1> QED
  BY <1>6, <1>8 DEF Carries

(* What a handle that waits for r can still expect, or will not get. *)
Awaited(r) ==
    \/ Carries(up, <<"join", r>>)
    \/ Carries(down, <<"join_ack", r>>)
    \/ JoinLost(r)

(* JoinUnderWay with the sequences taken apart. *)
LEMMA JoinUnderWayCarries ==
    ASSUME TypeOK
    PROVE  JoinUnderWay <=> \A r \in rooms \ (Refused \cup {Root}) :
               socket = "open" /\ Current(r) \notin open => Awaited(r)
<1>1. DOMAIN down = 1..Len(down) /\ DOMAIN up = 1..Len(up)
  BY DEF TypeOK
<1>2. \A x : x \in Range(down) <=> Carries(down, x)
  BY <1>1, Zenon DEF Range, Carries
<1>3. \A x : x \in Range(up) <=> Carries(up, x)
  BY <1>1, Zenon DEF Range, Carries
<1> QED
  BY <1>2, <1>3 DEF JoinUnderWay, Awaited

(* JoinUnderWay is inductive: what takes a join or its answer away opens    *)
(* the handle, or drops it, or is given up by the server.                   *)
LEMMA AwaitedStep ==
    ASSUME TypeOK, [Next]_vars,
           \A q \in rooms \ (Refused \cup {Root}) :
               socket = "open" /\ Current(q) \notin open => Awaited(q),
           NEW r \in rooms' \ (Refused \cup {Root}), socket' = "open", Current(r)' \notin open'
    PROVE  Awaited(r)'
<1>1. up \in Seq(Frame) /\ down \in Seq(Ack) /\ r \in Rooms
  BY TypeStep DEF TypeOK
<1>2. <<"join", r>> \in Frame /\ <<"join_ack", r>> \in Ack
  BY <1>1 DEF Frame, Ack
<1>a. /\ \A x \in Frame : Carries(Append(up, x), <<"join", r>>)
                             <=> Carries(up, <<"join", r>>) \/ <<"join", r>> = x
      /\ \A x \in Ack : Carries(Append(down, x), <<"join_ack", r>>)
                           <=> Carries(down, <<"join_ack", r>>) \/ <<"join_ack", r>> = x
  BY <1>1, <1>2, CarriesStep
<1>3. ASSUME r \in rooms, Current(r) \notin open, socket = "open" PROVE Awaited(r)
  BY <1>3
<1>l. \A x : Lose(x) /\ JoinLost(r) => JoinLost(r)'
  BY DEF Lose, JoinLost
<1>4. CASE UNCHANGED <<rooms, made, open, socket, up, down, lost>>
  BY <1>3, <1>4 DEF Awaited, JoinLost, Current, Carries
<1>5. CASE Retry \/ PeerCloses
  BY <1>5 DEF Retry, Connect, ConnectThrows, PeerCloses, TypeOK
<1>6. CASE OnOpen
  <2>1. PICK s \in Orders(rooms \ {Root}) : up' = Frames("join", s)
    BY <1>6 DEF OnOpen, Rejoin
  <2>2. rooms \ {Root} \in SUBSET Rooms /\ r \in rooms \ {Root}
    BY <1>6 DEF OnOpen, roomVars, TypeOK
  <2> QED
    BY <2>1, <2>2, FramesAll DEF Awaited
<1>7. ASSUME NEW code \in ServerCodes, OnClose(code) PROVE FALSE
  BY <1>7 DEF OnClose
<1>8. CASE Dispatch
  <2>1. up # << >> /\ up' = Tail(up) /\ Head(up) \in Frame
    BY <1>8 DEF Dispatch, TypeOK
  <2>2. PICK kind \in {"join", "leave"}, q \in Rooms : Head(up) = <<kind, q>>
    BY <2>1 DEF Frame
  <2>3. UNCHANGED <<socket, rooms, open>> /\ Current(r)' = Current(r)
    BY <1>8 DEF Dispatch, roomVars, Current
  <2>4. /\ <<"join_ack", q>> \in Ack /\ <<"leave_ack", q>> \in Ack
        /\ <<"join", r>> = <<kind, q>> => kind = "join" /\ q = r
    BY DEF Ack
  <2>5. \/ UNCHANGED <<down, lost>> /\ (kind = "join" => q \in Refused)
        \/ TrySend(<<"join_ack", q>>)
        \/ TrySend(<<"leave_ack", q>>) /\ kind = "leave"
    <3>1. Head(up)[1] = kind /\ Head(up)[2] = q
      BY <2>2
    <3>2. \/ UNCHANGED <<down, member, lost, faults>> /\ Head(up)[1] = "join"
             /\ Head(up)[2] \in Refused
          \/ TrySend(<<"join_ack", Head(up)[2]>>)
          \/ TrySend(<<"leave_ack", Head(up)[2]>>) /\ Head(up)[1] = "leave"
      BY ONLY <1>8, Zenon DEF Dispatch
    <3> QED
      BY <3>1, <3>2
  <2>a. ASSUME NEW a \in Ack, TrySend(a)
        PROVE  /\ Carries(down, <<"join_ack", r>>) => Carries(down', <<"join_ack", r>>)
               /\ a = <<"join_ack", r>> => Carries(down', a) \/ JoinLost(r)'
               /\ JoinLost(r) => JoinLost(r)'
    <3>1. CASE down' = Append(down, a) /\ UNCHANGED <<lost, faults>>
      BY <1>a, <2>a, <3>1 DEF JoinLost
    <3>2. CASE Lose(a) /\ UNCHANGED down
      BY <1>l, <3>2 DEF Lose, JoinLost, Carries
    <3> QED
      BY <2>a, <3>1, <3>2 DEF TrySend
  <2>6. /\ Carries(down, <<"join_ack", r>>) => Carries(down', <<"join_ack", r>>)
        /\ JoinLost(r) => JoinLost(r)'
    <3>1. CASE UNCHANGED <<down, lost>>
      BY <3>1 DEF JoinLost, Carries
    <3> QED
      BY <2>4, <2>5, <2>a, <3>1
  <2>7. CASE Carries(up, <<"join", r>>) /\ ~Carries(up', <<"join", r>>)
    <3>1. <<"join", r>> = Head(up)
      BY <1>1, <2>1, <2>7, CarriesStep
    <3>2. kind = "join" /\ q = r
      BY <2>2, <2>4, <3>1
    <3>3. TrySend(<<"join_ack", r>>)
      BY <2>5, <3>2
    <3> QED
      BY <1>2, <2>a, <3>3 DEF Awaited
  <2>8. Awaited(r)
    BY <1>3, <2>3
  <2> QED
    BY <2>6, <2>7, <2>8 DEF Awaited
<1>9. CASE Limited
  <2>1. up # << >> /\ up' = Tail(up) /\ Lose(Head(up))
    BY <1>9 DEF Limited
  <2>2. UNCHANGED <<socket, rooms, open, down>> /\ Current(r)' = Current(r)
    BY <1>9 DEF Limited, roomVars, Current
  <2>3. Awaited(r)
    BY <1>3, <2>2
  <2>4. ASSUME Carries(up, <<"join", r>>), ~Carries(up', <<"join", r>>) PROVE JoinLost(r)'
    <3>1. <<"join", r>> = Head(up)
      BY <1>1, <2>1, <2>4, CarriesStep
    <3> QED
      BY <2>1, <3>1 DEF Lose, JoinLost
  <2>5. Carries(down, <<"join_ack", r>>) => Carries(down', <<"join_ack", r>>)
    BY <2>2 DEF Carries
  <2> QED
    BY <1>l, <2>1, <2>3, <2>4, <2>5 DEF Awaited
<1>10. CASE Evicted
  <2>1. PICK i \in DOMAIN down : Lose(down[i]) /\ down' = RemoveAt(down, i)
    BY <1>10 DEF Evicted
  <2>2. UNCHANGED <<socket, rooms, open, up>> /\ Current(r)' = Current(r)
    BY <1>10 DEF Evicted, roomVars, Current
  <2>3. Awaited(r)
    BY <1>3, <2>2
  <2>4. Carries(down, <<"join_ack", r>>) =>
           down[i] = <<"join_ack", r>> \/ Carries(down', <<"join_ack", r>>)
    BY <1>1, <2>1, CarriesRemoveAt
  <2>5. down[i] = <<"join_ack", r>> => JoinLost(r)'
    BY <2>1 DEF Lose, JoinLost
  <2>6. Carries(up, <<"join", r>>) => Carries(up', <<"join", r>>)
    BY <2>2 DEF Carries
  <2> QED
    BY <1>l, <2>1, <2>3, <2>4, <2>5, <2>6 DEF Awaited
<1>11. CASE OnMessage
  <2>1. down # << >> /\ down' = Tail(down) /\ Head(down) \in Ack
    BY <1>11 DEF OnMessage, TypeOK
  <2>2. PICK kind \in {"join_ack", "leave_ack"}, q \in Rooms : Head(down) = <<kind, q>>
    BY <2>1 DEF Ack
  <2>3. UNCHANGED <<socket, up, lost>> /\ Current(r)' = Current(r)
    BY <1>11 DEF OnMessage, Current
  <2>4. /\ q \notin rooms => UNCHANGED <<rooms, open>>
        /\ q \in rooms /\ kind = "join_ack" =>
              open' = open \cup {Current(q)} /\ UNCHANGED rooms
        /\ q \in rooms /\ kind = "leave_ack" =>
              open' = open \ {Current(q)} /\ rooms' = rooms \ {q}
    <3>1. Head(down)[1] = kind /\ Head(down)[2] = q
      BY <2>2
    <3>2. IF Head(down)[2] \in rooms THEN Parse(Head(down)[1], Head(down)[2])
          ELSE UNCHANGED <<rooms, open>>
      BY ONLY <1>11, Zenon DEF OnMessage
    <3> QED
      BY <3>1, <3>2 DEF Parse
  <2>5. r \in rooms /\ ~(q = r /\ kind = "leave_ack")
    BY <2>4
  <2>6. Current(q) = Current(r) => q = r
    BY DEF Current
  <2>7. Current(r) \notin open /\ ~(q = r /\ kind = "join_ack")
    BY <2>3, <2>4, <2>5, <2>6
  <2>8. Head(down) # <<"join_ack", r>>
    BY <2>2, <2>7
  <2>9. Awaited(r)
    BY <1>3, <2>3, <2>5, <2>7
  <2>10. Carries(down, <<"join_ack", r>>) => Carries(down', <<"join_ack", r>>)
    BY <1>1, <2>1, <2>8, CarriesStep
  <2> QED
    BY <2>3, <2>9, <2>10 DEF Awaited, JoinLost, Carries
<1>12. ASSUME NEW q \in Rooms, Join(q) PROVE Awaited(r)'
  <2>1. /\ UNCHANGED <<socket, open, down, lost>> /\ rooms' = rooms \cup {q}
        /\ <<"join", q>> \in Frame
    BY <1>12 DEF Join, Frame
  <2>2. up' = up \/ up' = Append(up, <<"join", q>>)
    BY <1>12 DEF Join, JoinFrame
  <2>3. q = r => up' = Append(up, <<"join", r>>)
    BY <1>12, <2>1 DEF Join, JoinFrame
  <2>4. CASE q = r
    BY <1>a, <1>2, <2>3, <2>4 DEF Awaited
  <2>5. CASE q # r
    <3>1. Current(r)' = Current(r)
      BY <1>1, <1>12, <2>5, JoinHandles
    <3>2. Awaited(r)
      BY <1>3, <2>1, <2>5, <3>1
    <3>3. Carries(up, <<"join", r>>) => Carries(up', <<"join", r>>)
      BY <1>a, <2>1, <2>2 DEF Carries
    <3> QED
      BY <2>1, <3>2, <3>3 DEF Awaited, JoinLost, Carries
  <2> QED
    BY <2>4, <2>5
<1>13. ASSUME NEW h \in Handles, Leave(h) PROVE Awaited(r)'
  <2>1. <<"leave", h[1]>> \in Frame
    BY HandleRooms DEF Frame
  <2>2. /\ up' = Append(up, <<"leave", h[1]>>)
        /\ UNCHANGED <<socket, rooms, open, down, lost>> /\ Current(r)' = Current(r)
    BY <1>13 DEF Leave, roomVars, Current
  <2>3. Awaited(r)
    BY <1>3, <2>2
  <2>4. Carries(up, <<"join", r>>) => Carries(up', <<"join", r>>)
    BY <1>a, <2>1, <2>2
  <2> QED
    BY <2>2, <2>3, <2>4 DEF Awaited, JoinLost, Carries
<1>14. CASE Purge
  <2>0. PICK R \in SUBSET rooms : \E s \in Orders(R) : up' = up \o Frames("leave", s)
    BY <1>14 DEF Purge
  <2>1. PICK s \in Orders(R) : up' = up \o Frames("leave", s)
    BY <2>0
  <2>2. Frames("leave", s) \in Seq(Frame)
    BY <2>1, FramesType DEF TypeOK
  <2>3. UNCHANGED <<socket, rooms, open, down, lost>> /\ Current(r)' = Current(r)
    BY <1>14 DEF Purge, roomVars, Current
  <2>4. Awaited(r)
    BY <1>3, <2>3
  <2>5. Carries(up, <<"join", r>>) => Carries(up', <<"join", r>>)
    BY <1>1, <2>1, <2>2, CarriesStep
  <2> QED
    BY <2>3, <2>4, <2>5 DEF Awaited, JoinLost, Carries
<1>15. ASSUME NEW h \in Handles, ForceClose(h) PROVE Awaited(r)'
  <2>1. /\ UNCHANGED <<socket, made, up, down, lost>>
        /\ open' = open \ {h} /\ rooms' = rooms \ {h[1]}
    BY <1>15 DEF ForceClose, wireVars
  <2>2. Current(r)' = Current(r) /\ r \in rooms /\ Current(r) # h
    BY <2>1 DEF Current
  <2>3. Awaited(r)
    BY <1>3, <2>1, <2>2
  <2> QED
    BY <2>1, <2>3 DEF Awaited, JoinLost, Carries
<1>16. ASSUME NEW code \in ClientCodes, Close(code) PROVE FALSE
  BY <1>16 DEF Close
<1>17. CASE UNCHANGED vars
  BY <1>4, <1>17 DEF vars, roomVars, wireVars
<1> QED
  BY <1>5, <1>6, <1>7, <1>8, <1>9, <1>10, <1>11, <1>12, <1>13, <1>14, <1>15, <1>16, <1>17
  DEF Next, Application, Serve, Closed, Idle

(* Every step keeps the joins of waiting handles under way. *)
LEMMA JoinStep == TypeOK /\ JoinUnderWay /\ [Next]_vars => JoinUnderWay'
<1> SUFFICES ASSUME TypeOK, JoinUnderWay, [Next]_vars PROVE JoinUnderWay'
  OBVIOUS
<1>1. \A q \in rooms \ (Refused \cup {Root}) :
          socket = "open" /\ Current(q) \notin open => Awaited(q)
  BY JoinUnderWayCarries
<1>2. \A r \in rooms' \ (Refused \cup {Root}) :
          socket' = "open" /\ Current(r)' \notin open' => Awaited(r)'
  BY <1>1, AwaitedStep
<1>3. DOMAIN down' = 1..Len(down') /\ DOMAIN up' = 1..Len(up')
  BY TypeStep DEF TypeOK
<1>4. \A x : Carries(down', x) => x \in Range(down')
  BY <1>3, Zenon DEF Range, Carries
<1>5. \A x : Carries(up', x) => x \in Range(up')
  BY <1>3, Zenon DEF Range, Carries
<1> QED
  BY <1>2, <1>4, <1>5 DEF JoinUnderWay, Awaited

(* get_room and onopen between them leave no handle behind: one that waits  *)
(* to be opened has a join or a join_ack under way, however its making, the *)
(* opening of the socket, forceClose and leave are interleaved, or the      *)
(* server has given one of the two up.                                      *)
THEOREM JoinsAreSent == Spec => []JoinUnderWay
<1>1. Init => JoinUnderWay
  BY DEF Init, JoinUnderWay
<1>2. ClientInv => TypeOK
  BY DEF ClientInv
<1> QED
  BY <1>1, <1>2, ClientInductive, JoinStep, PTL DEF Spec

=============================================================================

--------------------------- MODULE ClusterProofs ---------------------------
(***************************************************************************)
(* What Cluster guarantees for any number of nodes of either kind,         *)
(* connections, rooms, messages and faults: it implements Delivery, loses  *)
(* nothing while nothing fails, and a Node node keeps the order.           *)
(*                                                                         *)
(* None of the three is inductive.  All rest on Base: a message is under   *)
(* way on its sender's node only, in one call or answer at most (CarryInv),*)
(* and the registry names a connection's own node or none.  A copy too     *)
(* many is ruled out by counting the copies that a connection has, that    *)
(* are on its node's wire and that are still to come (CountInv); a loss by *)
(* following a message owed to someone (LiveInv) from the calls to the     *)
(* wire to the receiver; a change of order by keeping the earlier of two   *)
(* messages ahead in each of the four queues and across them (OrderInv).   *)
(***************************************************************************)
EXTENDS Cluster, FiniteSetTheorems, SequenceTheorems, TLAPS

(* A message, a call and an envelope. *)
Record == [src : Conns, dst : Conns \cup {None}, room : Rooms]

(* The commands that carry a message. *)
MessageOps == {"get", "direct", "publish"}

Calls ==
    [op : {"set", "del"}, arg : Conns, to : {None}]
        \cup [op : MessageOps, arg : Ids, to : Nodes \cup {None}]

Envelopes == [channel : Rooms \cup {NodeChannel}, from : Nodes, id : Ids]

Links == {{}, {RoomChannel}, {NodeChannel}, {RoomChannel, NodeChannel}, {"never"}}

ClusterType ==
    /\ conn \in [Conns -> {"new", "open", "gone"}]
    /\ rooms \in [Conns -> SUBSET Rooms]
    /\ registry \in [Conns -> Nodes \cup {None}]
    /\ calls \in [Nodes -> Seq(Calls)]
    /\ answers \in [Nodes -> Seq(Calls)]
    /\ link \in [Nodes -> Links]
    /\ wire \in [Nodes -> Seq(Envelopes)]
    /\ msg \in [Ids -> Record \cup {None}]
    /\ got \in [Conns -> Seq(Ids)]
    /\ owed \in [Ids -> SUBSET Conns]
    /\ unsure \subseteq Ids
    /\ faults \in Nat

(* With the messages ms and the unsure ones us, x carries a message for     *)
(* node n: one of a client of n, and until it has been published again only *)
(* a direct one is looked up or sent to a node, its destination's.          *)
Fits(ms, us, n, x) ==
    /\ x.op \in MessageOps
    /\ ms[x.arg] # None /\ Home[ms[x.arg].src] = n
    /\ x.op # "publish" => ms[x.arg].dst # None /\ x.arg \notin us
    /\ x.op = "direct" => x.to = Home[ms[x.arg].dst]

(* Every call of node n fits, and it registers its own clients. *)
CallsFit(ms, us, n, cs) ==
    \A k \in DOMAIN cs :
        /\ cs[k].op \in MessageOps => Fits(ms, us, n, cs[k])
        /\ cs[k].op = "set" => Home[cs[k].arg] = n

(* Every answer that a continuation of node n waits for fits a direct       *)
(* message.                                                                 *)
AnswersFit(ms, us, n, as) ==
    \A k \in DOMAIN as :
        Fits(ms, us, n, as[k]) /\ as[k].op # "get" /\ ms[as[k].arg].dst # None

CallsInv == \A n \in Nodes : CallsFit(msg, unsure, n, calls[n])

AnswersInv == \A n \in Nodes : AnswersFit(msg, unsure, n, answers[n])

(* x carries message i. *)
Bears(x, i) == x.op \in MessageOps /\ x.arg = i

(* With the calls cs and the answers as of a node, message i is under way. *)
Under(cs, as, i) ==
    \/ \E k \in DOMAIN cs : Bears(cs[k], i)
    \/ \E k \in DOMAIN as : Bears(as[k], i)

(* At most one call or answer is under way for a message. *)
Unique(cs, as) ==
    \A i \in Ids :
        /\ \A k, l \in DOMAIN cs : Bears(cs[k], i) /\ Bears(cs[l], i) => k = l
        /\ \A k, l \in DOMAIN as : Bears(as[k], i) /\ Bears(as[l], i) => k = l
        /\ \A k \in DOMAIN cs, l \in DOMAIN as : ~(Bears(cs[k], i) /\ Bears(as[l], i))

UniqueInv == \A n \in Nodes : Unique(calls[n], answers[n])

Pending(n, i) == Under(calls[n], answers[n], i)

(* The registry has a connection under its own node or not at all. *)
RegistryInv == \A c \in Conns : registry[c] \in {None, Home[c]}

(* Only a message that has been sent is published again. *)
UnsureInv == \A i \in unsure : msg[i] # None

CarryInv == CallsInv /\ AnswersInv /\ UniqueInv

-----------------------------------------------------------------------------
(* Sequences *)

(* The call at k is taken out and those behind it move up. *)
LEMMA RemoveAtProperties ==
    ASSUME NEW S, NEW s \in Seq(S), NEW k \in DOMAIN s
    PROVE  /\ RemoveAt(s, k) \in Seq(S)
           /\ Len(RemoveAt(s, k)) = Len(s) - 1
           /\ \A i \in 1..(Len(s) - 1) :
                 RemoveAt(s, k)[i] = IF i < k THEN s[i] ELSE s[i + 1]
<1> DEFINE a == SubSeq(s, 1, k - 1)
           b == SubSeq(s, k + 1, Len(s))
<1>0. Len(s) \in Nat /\ k \in 1..Len(s)
  OBVIOUS
<1>1. a \in Seq(S) /\ Len(a) = k - 1 /\ \A i \in 1..(k - 1) : a[i] = s[i]
  BY <1>0
<1>2. b \in Seq(S) /\ Len(b) = Len(s) - k /\ \A i \in 1..(Len(s) - k) : b[i] = s[k + i]
  BY <1>0
<1>3. RemoveAt(s, k) = a \o b
  BY DEF RemoveAt
<1> HIDE DEF a, b
<1>4. /\ a \o b \in Seq(S)
      /\ Len(a \o b) = Len(a) + Len(b)
      /\ \A i \in 1..(Len(a) + Len(b)) :
            (a \o b)[i] = IF i <= Len(a) THEN a[i] ELSE b[i - Len(a)]
  BY <1>1, <1>2, ConcatProperties
<1>5. Len(a \o b) = Len(s) - 1
  BY <1>0, <1>1, <1>2, <1>4
<1>6. ASSUME NEW i \in 1..(Len(s) - 1)
      PROVE  (a \o b)[i] = IF i < k THEN s[i] ELSE s[i + 1]
  <2>0. /\ i \in Nat /\ k \in Nat /\ Len(s) \in Nat /\ 1 <= i /\ i <= Len(s) - 1
        /\ 1 <= k /\ k <= Len(s)
    BY <1>0
  <2>a. Len(a) = k - 1 /\ Len(b) = Len(s) - k
    BY <1>1, <1>2
  <2>1. CASE i < k
    <3>1. i \in 1..(k - 1) /\ i \in 1..((k - 1) + (Len(s) - k)) /\ i <= k - 1
      BY <2>0, <2>1
    <3>2. (a \o b)[i] = a[i] /\ a[i] = s[i]
      BY <1>1, <1>4, <2>a, <3>1
    <3> QED
      BY <2>1, <3>2
  <2>2. CASE ~(i < k)
    <3>0. /\ i - (k - 1) \in 1..(Len(s) - k) /\ k + (i - (k - 1)) = i + 1
          /\ i \in 1..((k - 1) + (Len(s) - k)) /\ ~(i <= k - 1)
      BY <2>0, <2>2
    <3>1. /\ i - Len(a) \in 1..(Len(s) - k) /\ k + (i - Len(a)) = i + 1
          /\ i \in 1..(Len(a) + Len(b)) /\ ~(i <= Len(a))
      BY <2>a, <3>0
    <3>2. b[i - Len(a)] = s[i + 1]
      BY <1>2, <3>1
    <3>3. (a \o b)[i] = b[i - Len(a)]
      BY <1>4, <3>1
    <3> QED
      BY <2>2, <3>2, <3>3
  <2> QED
    BY <2>1, <2>2
<1> QED
  BY <1>3, <1>4, <1>5, <1>6

(* Where the elements of RemoveAt(s, k) come from, and that nothing else is *)
(* lost.                                                                    *)
LEMMA RemoveAtElements ==
    ASSUME NEW S, NEW s \in Seq(S), NEW k \in DOMAIN s
    PROVE  /\ \A l \in DOMAIN RemoveAt(s, k) :
                 LET j == IF l < k THEN l ELSE l + 1
                 IN  j \in DOMAIN s /\ j # k /\ RemoveAt(s, k)[l] = s[j]
           /\ \A j \in DOMAIN s : j # k =>
                 LET l == IF j < k THEN j ELSE j - 1
                 IN  l \in DOMAIN RemoveAt(s, k) /\ RemoveAt(s, k)[l] = s[j]
           /\ DOMAIN s \subseteq Nat /\ DOMAIN RemoveAt(s, k) \subseteq Nat
<1> DEFINE t == RemoveAt(s, k)
<1>1. /\ DOMAIN t = 1..(Len(s) - 1)
      /\ DOMAIN s = 1..Len(s) /\ Len(s) \in Nat /\ k \in Nat
      /\ \A i \in 1..(Len(s) - 1) : t[i] = IF i < k THEN s[i] ELSE s[i + 1]
  <2>1. s \in Seq(S) /\ DOMAIN s = 1..Len(s) /\ Len(s) \in Nat /\ k \in Nat
    OBVIOUS
  <2>2. /\ t \in Seq(S) /\ Len(t) = Len(s) - 1
        /\ \A i \in 1..(Len(s) - 1) : t[i] = IF i < k THEN s[i] ELSE s[i + 1]
    BY RemoveAtProperties
  <2> HIDE DEF t
  <2>3. DOMAIN t = 1..Len(t)
    BY <2>2
  <2> QED
    BY <2>1, <2>2, <2>3
<1> HIDE DEF t
<1>2. \A l \in DOMAIN t :
          LET j == IF l < k THEN l ELSE l + 1
          IN  j \in DOMAIN s /\ j # k /\ t[l] = s[j]
  BY <1>1
<1>3. ASSUME NEW j \in DOMAIN s, j # k
      PROVE  LET l == IF j < k THEN j ELSE j - 1
             IN  l \in DOMAIN t /\ t[l] = s[j]
  <2>1. CASE j < k
    BY <1>1, <2>1
  <2>2. CASE ~(j < k)
    <3>1. j - 1 \in 1..(Len(s) - 1) /\ ~(j - 1 < k) /\ (j - 1) + 1 = j
      BY <1>1, <1>3, <2>2
    <3> QED
      BY <1>1, <2>2, <3>1
  <2> QED
    BY <2>1, <2>2
<1> QED
  BY <1>1, <1>2, <1>3 DEF t

(* What Append and Tail make of a sequence. *)
LEMMA AppendElements ==
    ASSUME NEW S, NEW s \in Seq(S), NEW x \in S
    PROVE  /\ DOMAIN Append(s, x) = DOMAIN s \cup {Len(s) + 1}
           /\ \A k \in DOMAIN s : Append(s, x)[k] = s[k] /\ k \in Nat /\ k < Len(s) + 1
           /\ Append(s, x)[Len(s) + 1] = x
           /\ Len(s) \in Nat
  OBVIOUS

(* Taking the head off a sequence shifts the other elements down by one. *)
LEMMA TailElements ==
    ASSUME NEW S, NEW s \in Seq(S), s # << >>
    PROVE  /\ 1 \in DOMAIN s /\ Head(s) = s[1]
           /\ DOMAIN s \subseteq Nat /\ DOMAIN Tail(s) \subseteq Nat
           /\ \A k \in DOMAIN s :
                 k = 1 \/ (k - 1 \in DOMAIN Tail(s) /\ Tail(s)[k - 1] = s[k])
           /\ \A k \in DOMAIN Tail(s) :
                 k + 1 \in DOMAIN s /\ Tail(s)[k] = s[k + 1] /\ k + 1 # 1
<1>1. /\ Len(s) \in Nat \ {0} /\ DOMAIN s = 1..Len(s) /\ Head(s) = s[1]
      /\ DOMAIN Tail(s) = 1..(Len(s) - 1)
      /\ \A k \in 1..(Len(s) - 1) : Tail(s)[k] = s[k + 1]
  OBVIOUS
<1>2. \A k \in DOMAIN s : k = 1 \/ (k - 1 \in DOMAIN Tail(s) /\ Tail(s)[k - 1] = s[k])
  <2> TAKE k \in DOMAIN s
  <2>1. CASE k # 1
    <3>1. k - 1 \in 1..(Len(s) - 1) /\ (k - 1) + 1 = k
      BY <1>1, <2>1
    <3> QED
      BY <1>1, <3>1
  <2> QED
    BY <2>1
<1> QED
  BY <1>1, <1>2

(* How many elements of s are in T. *)
Hits(s, T) == {k \in DOMAIN s : s[k] \in T}

Times(s, T) == Cardinality(Hits(s, T))

(* How often a sequence meets a set is a natural number. *)
LEMMA HitsFinite ==
    ASSUME NEW S, NEW s \in Seq(S), NEW T
    PROVE  IsFiniteSet(Hits(s, T)) /\ Times(s, T) \in Nat
<1>1. IsFiniteSet(1..Len(s))
  BY FS_Interval
<1>2. Hits(s, T) \subseteq 1..Len(s)
  BY DEF Hits
<1> QED
  BY <1>1, <1>2, FS_Subset, FS_CardinalityType DEF Times

(* Appending an element adds one meeting at most: itself. *)
LEMMA TimesAppend ==
    ASSUME NEW S, NEW s \in Seq(S), NEW x \in S, NEW T
    PROVE  Times(Append(s, x), T) = Times(s, T) + (IF x \in T THEN 1 ELSE 0)
<1>1. IsFiniteSet(Hits(s, T)) /\ Times(s, T) \in Nat
  BY HitsFinite
<1>2. CASE x \in T
  <2>1. Hits(Append(s, x), T) = Hits(s, T) \cup {Len(s) + 1}
    BY <1>2 DEF Hits
  <2>2. Len(s) + 1 \notin Hits(s, T)
    BY DEF Hits
  <2> QED
    BY <1>1, <1>2, <2>1, <2>2, FS_AddElement DEF Times
<1>3. CASE x \notin T
  <2>1. Hits(Append(s, x), T) = Hits(s, T)
    BY <1>3 DEF Hits
  <2> QED
    BY <1>1, <1>3, <2>1 DEF Times
<1> QED
  BY <1>2, <1>3

(* Taking the head off removes one meeting at most: the head. *)
LEMMA TimesTail ==
    ASSUME NEW S, NEW s \in Seq(S), s # << >>, NEW T
    PROVE  Times(s, T) = Times(Tail(s), T) + (IF Head(s) \in T THEN 1 ELSE 0)
<1> DEFINE A == Hits(Tail(s), T)
           B == Hits(s, T) \ {1}
           f == [k \in A |-> k + 1]
<1>1. /\ Tail(s) \in Seq(S) /\ Len(Tail(s)) = Len(s) - 1 /\ Len(s) \in Nat \ {0}
      /\ \A i \in 1..(Len(s) - 1) : Tail(s)[i] = s[i + 1]
      /\ Head(s) = s[1]
  OBVIOUS
<1>2. \A k : k \in A <=> k \in 1..(Len(s) - 1) /\ s[k + 1] \in T
  BY <1>1 DEF Hits
<1>3. \A k : k \in B <=> k \in 2..Len(s) /\ s[k] \in T
  BY <1>1 DEF Hits
<1>4. IsFiniteSet(A) /\ IsFiniteSet(Hits(s, T)) /\ IsFiniteSet(B) /\ Times(Tail(s), T) \in Nat
  BY <1>1, HitsFinite, FS_RemoveElement
<1>5. f \in Bijection(A, B)
  <2>1. \A k \in A : k + 1 \in B
    BY <1>1, <1>2, <1>3
  <2>2. f \in [A -> B]
    BY <2>1
  <2>3. \A a, b \in A : f[a] = f[b] => a = b
    <3> TAKE a, b \in A
    <3>1. a \in Int /\ b \in Int
      BY <1>2
    <3> QED
      BY <3>1
  <2>4. \A b \in B : \E a \in A : f[a] = b
    <3> TAKE b \in B
    <3>1. b - 1 \in A /\ (b - 1) + 1 = b
      BY <1>1, <1>2, <1>3
    <3> QED
      BY <3>1
  <2> HIDE DEF A, B, f
  <2>5. f \in Injection(A, B)
    BY <2>2, <2>3 DEF Injection, IsInjective
  <2>6. f \in Surjection(A, B)
    BY <2>2, <2>4 DEF Surjection
  <2> QED
    BY <2>5, <2>6 DEF Bijection
<1>6. Cardinality(A) = Cardinality(B)
  <2> HIDE DEF A, B, f
  <2> QED
    BY <1>4, <1>5, FS_Bijection DEF ExistsBijection
<1>7. CASE Head(s) \in T
  <2>1. 1 \in Hits(s, T)
    BY <1>1, <1>7 DEF Hits
  <2>2. Cardinality(B) = Cardinality(Hits(s, T)) - 1 /\ Cardinality(Hits(s, T)) \in Nat
    BY <1>4, <2>1, FS_RemoveElement, FS_CardinalityType
  <2> QED
    BY <1>4, <1>6, <1>7, <2>2 DEF Times
<1>8. CASE Head(s) \notin T
  <2>1. B = Hits(s, T)
    BY <1>1, <1>8 DEF Hits
  <2>2. Times(s, T) = Times(Tail(s), T)
    BY <1>6, <2>1 DEF Times
  <2> QED
    BY <1>4, <1>8, <2>2
<1> QED
  BY <1>7, <1>8

(* A sequence meets a set zero times exactly when none of its elements is   *)
(* in it.                                                                   *)
LEMMA TimesZero ==
    ASSUME NEW S, NEW s \in Seq(S), NEW T
    PROVE  /\ (\A k \in DOMAIN s : s[k] \notin T) => Times(s, T) = 0
           /\ (\E k \in DOMAIN s : s[k] \in T) => Times(s, T) > 0
<1>1. IsFiniteSet(Hits(s, T)) /\ Times(s, T) \in Nat
  BY HitsFinite
<1>2. Hits(s, T) = {} <=> Times(s, T) = 0
  BY <1>1, FS_EmptySet DEF Times
<1> QED
  BY <1>1, <1>2 DEF Hits

-----------------------------------------------------------------------------
(* Types *)

(* A call that a node starts is a call. *)
LEMMA StartsType ==
    ASSUME ClusterType, NEW n \in Nodes, NEW x \in Calls, Starts(n, x)
    PROVE  calls' \in [Nodes -> Seq(Calls)]
  BY DEF ClusterType, Starts

(* What connections are handed are messages. *)
LEMMA ReceiveType ==
    ASSUME ClusterType, NEW cs, NEW i \in Ids, Receive(cs, i)
    PROVE  got' \in [Conns -> Seq(Ids)]
  BY DEF ClusterType, Receive

(* A call that ends, or is replaced by the next of its chain, leaves calls. *)
LEMMA EndsType ==
    ASSUME ClusterType, NEW n \in Nodes, NEW k \in DOMAIN calls[n], NEW x \in Calls,
           Ends(n, k) \/ Continues(n, k, x)
    PROVE  calls' \in [Nodes -> Seq(Calls)]
<1>1. RemoveAt(calls[n], k) \in Seq(Calls)
  BY RemoveAtProperties DEF ClusterType
<1>2. CASE Ends(n, k)
  BY <1>1, <1>2 DEF ClusterType, Ends
<1>3. CASE Continues(n, k, x)
  BY <1>1, <1>3 DEF ClusterType, Continues
<1> QED
  BY <1>2, <1>3

(* The calls that setNode, delNode, getNode and publish make have the type  *)
(* of calls.                                                                *)
LEMMA CallTypes ==
    /\ \A c \in Conns : Call("set", c, None) \in Calls /\ Call("del", c, None) \in Calls
    /\ \A i \in Ids : Call("get", i, None) \in Calls /\ Call("publish", i, None) \in Calls
    /\ \A i \in Ids, n \in Nodes \cup {None} : Onward(i, n) \in Calls
  BY DEF Call, Calls, MessageOps, Onward

(* What is known of a call by its kind. *)
LEMMA CallFields ==
    ASSUME NEW x \in Calls
    PROVE  /\ x.op \in {"set", "del"} \/ x.op \in MessageOps
           /\ x.op \in {"set", "del"} => x.arg \in Conns
           /\ x.op \in MessageOps => x.arg \in Ids /\ x.to \in Nodes \cup {None}
  BY DEF Calls, MessageOps

(* The cluster starts with the types it keeps. *)
LEMMA TypeInit == Init => ClusterType
<1> SUFFICES ASSUME Init PROVE ClusterType
  OBVIOUS
<1>1. PICK deaf \in SUBSET {n \in Nodes : Kind[n] = "go"} :
          /\ Cardinality(deaf) <= MaxFaults
          /\ link = [n \in Nodes |-> IF n \in deaf THEN {"never"}
                                     ELSE {RoomChannel, NodeChannel}]
          /\ faults = Cardinality(deaf)
  BY DEF Init
<1>2. faults \in Nat
  BY <1>1, KindAssumption, FS_Subset, FS_CardinalityType
<1>3. link \in [Nodes -> Links]
  BY <1>1 DEF Links
<1>4. rooms \in [Conns -> SUBSET Rooms] /\ registry \in [Conns -> Nodes \cup {None}]
  BY HomeAssumption, ClientAssumption DEF Init
<1>5. /\ conn \in [Conns -> {"new", "open", "gone"}]
      /\ calls \in [Nodes -> Seq(Calls)] /\ answers \in [Nodes -> Seq(Calls)]
      /\ wire \in [Nodes -> Seq(Envelopes)] /\ got \in [Conns -> Seq(Ids)]
  BY DEF Init
<1>6. /\ msg \in [Ids -> Record \cup {None}] /\ owed \in [Ids -> SUBSET Conns]
      /\ unsure \subseteq Ids
  BY DEF Init
<1> QED
  BY <1>2, <1>3, <1>4, <1>5, <1>6 DEF ClusterType

(* A connection that opens or closes keeps the types. *)
LEMMA ConnectionType ==
    ASSUME ClusterType, NEW c \in Conns, Connect(c) \/ Disconnect(c)
    PROVE  ClusterType'
<1>1. Home[c] \in Nodes
  BY HomeAssumption
<1>2. calls' \in [Nodes -> Seq(Calls)]
  BY <1>1, StartsType, CallTypes DEF Connect, Disconnect
<1>3. CASE Connect(c)
  BY <1>2, <1>3 DEF Connect, ClusterType
<1>4. CASE Disconnect(c)
  BY <1>2, <1>4 DEF Disconnect, ClusterType
<1> QED
  BY <1>3, <1>4

(* A join or a leave keeps the types. *)
LEMMA MembershipType ==
    ASSUME ClusterType, NEW c \in Conns, NEW r \in Rooms, JoinRoom(c, r) \/ LeaveRoom(c, r)
    PROVE  ClusterType'
<1>1. CASE JoinRoom(c, r)
  BY <1>1 DEF JoinRoom, redisVars, ClusterType
<1>2. CASE LeaveRoom(c, r)
  BY <1>2 DEF LeaveRoom, redisVars, ClusterType
<1> QED
  BY <1>1, <1>2

(* A message that a client sends, direct or to a room, keeps the types. *)
LEMMA SendType ==
    ASSUME ClusterType, NEW c \in Conns, NEW i \in Ids,
           (\E d \in Conns : SendDirect(c, d, i)) \/ (\E r \in Rooms : Broadcast(c, r, i))
    PROVE  ClusterType'
<1>1. Home[c] \in Nodes
  BY HomeAssumption
<1>2. ASSUME NEW d \in Conns, SendDirect(c, d, i) PROVE ClusterType'
  <2>1. Message(c, d, Root) \in Record
    BY RoomAssumption DEF Message, Record
  <2>2. calls' \in [Nodes -> Seq(Calls)]
    <3>1. CASE d \in Local(Home[c])
      BY <1>2, <3>1 DEF SendDirect, ClusterType
    <3>2. CASE d \notin Local(Home[c])
      BY <1>1, <1>2, <3>2, StartsType, CallTypes DEF SendDirect
    <3> QED
      BY <3>1, <3>2
  <2>3. got' \in [Conns -> Seq(Ids)]
    <3>1. CASE d \in Local(Home[c])
      BY <1>2, <3>1, ReceiveType DEF SendDirect
    <3>2. CASE d \notin Local(Home[c])
      BY <1>2, <3>2 DEF SendDirect, ClusterType
    <3> QED
      BY <3>1, <3>2
  <2>4. msg' \in [Ids -> Record \cup {None}] /\ owed' \in [Ids -> SUBSET Conns]
    BY <1>2, <2>1 DEF SendDirect, ClusterType
  <2> QED
    BY <1>2, <2>2, <2>3, <2>4 DEF SendDirect, ClusterType, connVars
<1>3. ASSUME NEW r \in Rooms, Broadcast(c, r, i) PROVE ClusterType'
  <2>1. Message(c, None, r) \in Record
    BY DEF Message, Record
  <2>2. calls' \in [Nodes -> Seq(Calls)]
    <3>1. CASE Starts(Home[c], Call("publish", i, None))
      BY <1>1, <1>3, <3>1, StartsType, CallTypes
    <3>2. CASE UNCHANGED calls
      BY <1>3, <3>2 DEF ClusterType
    <3> QED
      BY <1>3, <3>1, <3>2 DEF Broadcast
  <2>3. got' \in [Conns -> Seq(Ids)]
    BY <1>3, ReceiveType DEF Broadcast
  <2>4. msg' \in [Ids -> Record \cup {None}] /\ owed' \in [Ids -> SUBSET Conns]
    <3>1. \E s \in SUBSET Conns : owed' = [owed EXCEPT ![i] = s]
      <4> DEFINE s == {d \in {d \in Conns : r \in rooms[d]} \ {c} : Audible(Home[c], d, r)}
      <4>1. s \in SUBSET Conns /\ {} \in SUBSET Conns
        OBVIOUS
      <4>2. owed' = [owed EXCEPT ![i] = s] \/ owed' = [owed EXCEPT ![i] = {}]
        BY <1>3 DEF Broadcast
      <4> HIDE DEF s
      <4> QED
        BY <4>1, <4>2
    <3>2. msg' = [msg EXCEPT ![i] = Message(c, None, r)]
      BY <1>3 DEF Broadcast
    <3> QED
      BY <2>1, <3>1, <3>2 DEF ClusterType
  <2> QED
    BY <1>3, <2>2, <2>3, <2>4 DEF Broadcast, ClusterType, connVars
<1> QED
  BY <1>2, <1>3

(* Faults are only ever added up, and a command that fails is one. *)
LEMMA OutcomeType ==
    ASSUME ClusterType, NEW o, Outcome(o)
    PROVE  faults' \in Nat /\ faults' >= faults /\ (o # "ok" => faults' # 0)
  BY DEF ClusterType, Outcome

(* The registry's answer about the destination of a message. *)
LEMMA LookupType ==
    ASSUME ClusterType, NEW i \in Ids, msg[i] # None, msg[i].dst # None
    PROVE  registry[msg[i].dst] \in Nodes \cup {None} /\ msg[i].dst \in Conns
  BY DEF ClusterType, Record

(* Redis's answer to a command keeps the types, whichever command it is and *)
(* whether it succeeds, fails or times out.                                 *)
LEMMA RedisType ==
    ASSUME ClusterType, CallsInv, NEW n \in Nodes, NEW k \in DOMAIN calls[n],
           NEW o \in {"ok", "error", "late"},
           \/ Register(n, k, o) \/ GetNodeGo(n, k, o) \/ GetNodeJs(n, k, o)
           \/ PublishDirect(n, k, o) \/ PublishRoom(n, k, o)
    PROVE  ClusterType'
<1> DEFINE x == calls[n][k]
<1>1. x \in Calls
  BY DEF ClusterType
<1>2. /\ x.op \in {"set", "del"} => x.arg \in Conns
      /\ x.op \in MessageOps => x.arg \in Ids /\ x.to \in Nodes \cup {None}
      /\ x.op \in MessageOps => Fits(msg, unsure, n, x)
  BY <1>1, CallFields DEF CallsInv, CallsFit
<1>3. CASE Register(n, k, o)
  <2>1. calls' \in [Nodes -> Seq(Calls)] /\ faults' \in Nat
    BY <1>1, <1>3, EndsType, OutcomeType DEF Register
  <2>2. registry' \in [Conns -> Nodes \cup {None}]
    BY <1>3 DEF Register, ClusterType
  <2> QED
    BY <1>3, <2>1, <2>2 DEF Register, ClusterType, connVars
<1>4. ASSUME x.op = "get"
      PROVE  x.arg \in Ids /\ registry[msg[x.arg].dst] \in Nodes \cup {None}
  BY <1>2, <1>4, LookupType DEF MessageOps, Fits
<1>5. CASE GetNodeGo(n, k, o)
  <2> DEFINE to == IF o = "ok" THEN registry[msg[x.arg].dst] ELSE None
  <2>1. Onward(x.arg, to) \in Calls
    BY <1>4, <1>5, CallTypes DEF GetNodeGo
  <2>2. Continues(n, k, Onward(x.arg, to)) /\ Outcome(o)
    BY <1>5 DEF GetNodeGo
  <2>3. calls' \in [Nodes -> Seq(Calls)] /\ faults' \in Nat
    BY <2>1, <2>2, EndsType, OutcomeType
  <2> QED
    BY <1>5, <2>3 DEF GetNodeGo, ClusterType, connVars
<1>6. CASE GetNodeJs(n, k, o)
  <2> DEFINE y == Onward(x.arg, registry[msg[x.arg].dst])
  <2>1. y \in Calls
    BY <1>4, <1>6, CallTypes DEF GetNodeJs
  <2>2. calls' \in [Nodes -> Seq(Calls)] /\ faults' \in Nat
    BY <1>1, <1>6, EndsType, OutcomeType DEF GetNodeJs
  <2>3. answers' = answers \/ answers' = [answers EXCEPT ![n] = Append(@, y)]
    BY <1>6 DEF GetNodeJs
  <2>4. answers' \in [Nodes -> Seq(Calls)]
    <3> HIDE DEF y
    <3>1. CASE answers' = answers
      BY <3>1 DEF ClusterType
    <3>2. CASE answers' = [answers EXCEPT ![n] = Append(@, y)]
      BY <2>1, <3>2 DEF ClusterType
    <3> QED
      BY <2>3, <3>1, <3>2
  <2> QED
    BY <1>6, <2>2, <2>4 DEF GetNodeJs, ClusterType, connVars
<1>7. ASSUME NEW ns, NEW env \in Envelopes, Published(ns, env, o)
      PROVE  wire' \in [Nodes -> Seq(Envelopes)]
  BY <1>7 DEF Published, ClusterType
<1>8. CASE PublishDirect(n, k, o)
  <2>1. x.arg \in Ids
    BY <1>2, <1>8 DEF PublishDirect, MessageOps
  <2>2. Envelope(NodeChannel, n, x.arg) \in Envelopes
    BY <2>1 DEF Envelope, Envelopes
  <2>3. wire' \in [Nodes -> Seq(Envelopes)]
    BY <1>7, <1>8, <2>2 DEF PublishDirect
  <2>4. calls' \in [Nodes -> Seq(Calls)] /\ faults' \in Nat
    BY <1>1, <1>8, <2>1, EndsType, OutcomeType, CallTypes DEF PublishDirect
  <2> QED
    BY <1>8, <2>1, <2>3, <2>4 DEF PublishDirect, ClusterType, connVars
<1>9. CASE PublishRoom(n, k, o)
  <2>1. x.arg \in Ids /\ msg[x.arg] # None
    BY <1>2, <1>9 DEF PublishRoom, MessageOps, Fits
  <2>2. Envelope(msg[x.arg].room, n, x.arg) \in Envelopes
    BY <2>1 DEF Envelope, Envelopes, ClusterType, Record
  <2>3. wire' \in [Nodes -> Seq(Envelopes)]
    BY <1>7, <1>9, <2>2 DEF PublishRoom
  <2>4. calls' \in [Nodes -> Seq(Calls)] /\ faults' \in Nat
    BY <1>1, <1>9, EndsType, OutcomeType DEF PublishRoom
  <2> QED
    BY <1>9, <2>3, <2>4 DEF PublishRoom, ClusterType, connVars
<1> QED
  BY <1>3, <1>5, <1>6, <1>8, <1>9

(* The continuation of a promise and what a subscriber hears keep the       *)
(* types.                                                                   *)
LEMMA ListenType ==
    ASSUME ClusterType, NEW n \in Nodes, Resolved(n) \/ Listen(n)
    PROVE  ClusterType'
<1>1. CASE Resolved(n)
  <2>1. /\ Head(answers[n]) \in Calls
        /\ answers' \in [Nodes -> Seq(Calls)]
    BY <1>1 DEF Resolved, ClusterType
  <2>2. calls' \in [Nodes -> Seq(Calls)]
    BY <1>1, <2>1, StartsType DEF Resolved
  <2> QED
    BY <1>1, <2>1, <2>2 DEF Resolved, ClusterType, connVars
<1>2. CASE Deliver(n)
  <2>1. Head(wire[n]) \in Envelopes /\ wire' \in [Nodes -> Seq(Envelopes)]
    BY <1>2 DEF Deliver, ClusterType
  <2>2. Head(wire[n]).id \in Ids
    BY <2>1 DEF Envelopes
  <2>3. got' \in [Conns -> Seq(Ids)]
    BY <1>2, <2>2, ReceiveType DEF Deliver
  <2> QED
    BY <1>2, <2>1, <2>3 DEF Deliver, ClusterType, connVars
<1>3. CASE LinkBreaks(n)
  <2>1. link' \in [Nodes -> Links]
    BY <1>3 DEF LinkBreaks, ClusterType, Links
  <2>2. wire' \in [Nodes -> Seq(Envelopes)] /\ faults' \in Nat
    BY <1>3, OutcomeType DEF LinkBreaks, ClusterType
  <2> QED
    BY <1>3, <2>1, <2>2 DEF LinkBreaks, ClusterType, connVars
<1>4. ASSUME NEW ch \in {RoomChannel, NodeChannel}, Resubscribe(n, ch)
      PROVE  ClusterType'
  <2>1. link' \in [Nodes -> Links]
    <3>1. link[n] \in Links /\ link[n] \cup {ch} \in Links
      BY <1>4 DEF Resubscribe, ClusterType, Links, RoomChannel, NodeChannel
    <3> QED
      BY <1>4, <3>1 DEF Resubscribe, ClusterType
  <2> QED
    BY <1>4, <2>1 DEF Resubscribe, ClusterType, connVars
<1> QED
  BY <1>1, <1>2, <1>3, <1>4 DEF Listen

(* Every kind of step, as the lemmas below take them. *)
LEMMA Steps ==
    ASSUME [Next]_vars
    PROVE  \/ \E c \in Conns : Connect(c) \/ Disconnect(c)
           \/ \E c \in Conns, r \in Rooms : JoinRoom(c, r) \/ LeaveRoom(c, r)
           \/ \E c \in Conns, d \in Conns, i \in Ids : SendDirect(c, d, i)
           \/ \E c \in Conns, r \in Rooms, i \in Ids : Broadcast(c, r, i)
           \/ \E n \in Nodes : \E k \in Due(n), o \in {"ok", "error", "late"} :
                 \/ Register(n, k, o) \/ GetNodeGo(n, k, o) \/ GetNodeJs(n, k, o)
                 \/ PublishDirect(n, k, o) \/ PublishRoom(n, k, o)
           \/ \E n \in Nodes : Resolved(n) \/ Listen(n)
           \/ UNCHANGED vars
  BY ClientAssumption DEF Next, Client, Redis, Quiet

(* Every step keeps the types. *)
LEMMA TypeStep ==
    ASSUME ClusterType, CallsInv, [Next]_vars
    PROVE  ClusterType'
<1>1. \A n \in Nodes : Due(n) \subseteq DOMAIN calls[n]
  BY DEF Due
<1>2. CASE UNCHANGED vars
  BY <1>2 DEF vars, connVars, redisVars, ClusterType
<1> QED
  BY <1>1, <1>2, Steps, ConnectionType, MembershipType, SendType, RedisType, ListenType

-----------------------------------------------------------------------------
(* Calls and answers *)

(* A message once sent stays as it is. *)
LEMMA MessageStable ==
    ASSUME ClusterType, [Next]_vars, NEW i \in Ids, msg[i] # None
    PROVE  msg'[i] = msg[i]
<1>1. ASSUME NEW c \in Conns, NEW d \in Conns, NEW j \in Ids, SendDirect(c, d, j)
      PROVE  msg'[i] = msg[i]
  BY <1>1 DEF SendDirect, Unused, ClusterType
<1>2. ASSUME NEW c \in Conns, NEW r \in Rooms, NEW j \in Ids, Broadcast(c, r, j)
      PROVE  msg'[i] = msg[i]
  BY <1>2 DEF Broadcast, Unused, ClusterType
<1>3. CASE UNCHANGED msg
  BY <1>3
<1>4. ASSUME NEW c \in Conns, Connect(c) \/ Disconnect(c) PROVE UNCHANGED msg
  BY <1>4 DEF Connect, Disconnect
<1>5. ASSUME NEW c \in Conns, NEW r \in Rooms, JoinRoom(c, r) \/ LeaveRoom(c, r)
      PROVE  UNCHANGED msg
  BY <1>5 DEF JoinRoom, LeaveRoom
<1>6. ASSUME NEW n \in Nodes, NEW k \in Due(n), NEW o \in {"ok", "error", "late"},
             \/ Register(n, k, o) \/ GetNodeGo(n, k, o) \/ GetNodeJs(n, k, o)
             \/ PublishDirect(n, k, o) \/ PublishRoom(n, k, o)
      PROVE  UNCHANGED msg
  BY <1>6 DEF Register, GetNodeGo, GetNodeJs, PublishDirect, PublishRoom
<1>7. ASSUME NEW n \in Nodes, Resolved(n) \/ Listen(n) PROVE UNCHANGED msg
  BY <1>7 DEF Resolved, Listen, Deliver, LinkBreaks, Resubscribe
<1>8. CASE UNCHANGED vars
  BY <1>3, <1>8 DEF vars
<1> QED
  BY <1>1, <1>2, <1>3, <1>4, <1>5, <1>6, <1>7, <1>8, Steps

(* What carries a message keeps fitting it in every step that does not      *)
(* publish a message again: messages are sent once and never change.        *)
LEMMA FitsStable ==
    ASSUME ClusterType, [Next]_vars, unsure' = unsure
    PROVE  /\ \A n \in Nodes, x \in Calls :
                 Fits(msg, unsure, n, x) => Fits(msg', unsure', n, x)
           /\ \A n \in Nodes, cs \in Seq(Calls) :
                 CallsFit(msg, unsure, n, cs) => CallsFit(msg', unsure', n, cs)
           /\ \A n \in Nodes, as \in Seq(Calls) :
                 AnswersFit(msg, unsure, n, as) => AnswersFit(msg', unsure', n, as)
<1>1. ASSUME NEW n \in Nodes, NEW x \in Calls, Fits(msg, unsure, n, x)
      PROVE  Fits(msg', unsure', n, x) /\ msg'[x.arg] = msg[x.arg]
  <2>1. x.arg \in Ids
    BY <1>1, CallFields DEF Fits
  <2>2. msg'[x.arg] = msg[x.arg]
    BY <1>1, <2>1, MessageStable DEF Fits
  <2> QED
    BY <1>1, <2>2 DEF Fits
<1>2. ASSUME NEW cs \in Seq(Calls), NEW k \in DOMAIN cs PROVE cs[k] \in Calls
  BY <1>2
<1> QED
  BY <1>1, <1>2 DEF CallsFit, AnswersFit

(* A node starts a call. *)
LEMMA TokenAppend ==
    ASSUME NEW cs \in Seq(Calls), NEW as \in Seq(Calls), NEW x \in Calls, Unique(cs, as),
           \A i \in Ids : Bears(x, i) => ~Under(cs, as, i)
    PROVE  /\ Unique(Append(cs, x), as)
           /\ \A i \in Ids : Under(Append(cs, x), as, i) <=> Under(cs, as, i) \/ Bears(x, i)
<1>1. /\ DOMAIN Append(cs, x) = DOMAIN cs \cup {Len(cs) + 1}
      /\ \A k \in DOMAIN cs : Append(cs, x)[k] = cs[k]
      /\ Append(cs, x)[Len(cs) + 1] = x
  BY AppendElements
<1> QED
  BY <1>1 DEF Unique, Under

(* The answer to one arrives at the end of the line. *)
LEMMA AnswerAppend ==
    ASSUME NEW cs \in Seq(Calls), NEW as \in Seq(Calls), NEW x \in Calls, Unique(cs, as),
           \A i \in Ids : Bears(x, i) => ~Under(cs, as, i)
    PROVE  /\ Unique(cs, Append(as, x))
           /\ \A i \in Ids : Under(cs, Append(as, x), i) <=> Under(cs, as, i) \/ Bears(x, i)
<1>0. \A s \in Seq(Calls) :
          /\ DOMAIN Append(s, x) = DOMAIN s \cup {Len(s) + 1}
          /\ \A k \in DOMAIN s : Append(s, x)[k] = s[k]
          /\ Append(s, x)[Len(s) + 1] = x
  BY AppendElements
<1>1. /\ DOMAIN Append(as, x) = DOMAIN as \cup {Len(as) + 1}
      /\ \A k \in DOMAIN as : Append(as, x)[k] = as[k]
      /\ Append(as, x)[Len(as) + 1] = x
  BY <1>0
<1> QED
  BY <1>1 DEF Unique, Under

(* A call ends. *)
LEMMA TokenRemove ==
    ASSUME NEW cs \in Seq(Calls), NEW as \in Seq(Calls), NEW k \in DOMAIN cs, Unique(cs, as)
    PROVE  /\ Unique(RemoveAt(cs, k), as)
           /\ \A i \in Ids :
                 Under(RemoveAt(cs, k), as, i) <=> Under(cs, as, i) /\ ~Bears(cs[k], i)
<1> DEFINE s == RemoveAt(cs, k)
<1>1. /\ \A l \in DOMAIN s :
            LET j == IF l < k THEN l ELSE l + 1
            IN  j \in DOMAIN cs /\ j # k /\ s[l] = cs[j]
      /\ \A j \in DOMAIN cs : j # k =>
            LET l == IF j < k THEN j ELSE j - 1
            IN  l \in DOMAIN s /\ s[l] = cs[j]
      /\ DOMAIN cs \subseteq Nat /\ DOMAIN s \subseteq Nat
  BY RemoveAtElements
<1> HIDE DEF s
<1>2. ASSUME NEW i \in Ids PROVE Under(s, as, i) <=> Under(cs, as, i) /\ ~Bears(cs[k], i)
  <2>1. CASE Bears(cs[k], i)
    BY <1>1, <2>1 DEF Under, Unique
  <2>2. CASE ~Bears(cs[k], i)
    BY <1>1, <2>2 DEF Under
  <2> QED
    BY <2>1, <2>2
<1>3. ASSUME NEW i \in Ids, NEW a \in DOMAIN s, NEW b \in DOMAIN s, Bears(s[a], i), Bears(s[b], i)
      PROVE  a = b
  <2> DEFINE old(l) == IF l < k THEN l ELSE l + 1
  <2>1. /\ old(a) \in DOMAIN cs /\ s[a] = cs[old(a)]
        /\ old(b) \in DOMAIN cs /\ s[b] = cs[old(b)]
    BY <1>1
  <2>2. old(a) = old(b)
    BY <1>3, <2>1 DEF Unique
  <2> QED
    BY <1>1, <2>2
<1>4. Unique(s, as)
  <2>1. ASSUME NEW i \in Ids, NEW a \in DOMAIN s, NEW b \in DOMAIN as
        PROVE  ~(Bears(s[a], i) /\ Bears(as[b], i))
    BY <1>1 DEF Unique
  <2> QED
    BY <1>3, <2>1 DEF Unique
<1> QED
  BY <1>2, <1>4 DEF s

(* The first answer is taken. *)
LEMMA AnswerTail ==
    ASSUME NEW cs \in Seq(Calls), NEW as \in Seq(Calls), as # << >>, Unique(cs, as)
    PROVE  /\ Unique(cs, Tail(as))
           /\ \A i \in Ids :
                 Under(cs, Tail(as), i) <=> Under(cs, as, i) /\ ~Bears(Head(as), i)
<1>2. \A k \in DOMAIN as : k = 1 \/ (k - 1 \in DOMAIN Tail(as) /\ Tail(as)[k - 1] = as[k])
  BY TailElements
<1>3. \A k \in DOMAIN Tail(as) : k + 1 \in DOMAIN as /\ Tail(as)[k] = as[k + 1] /\ k + 1 # 1
  BY TailElements
<1>4. 1 \in DOMAIN as /\ DOMAIN Tail(as) \subseteq Nat /\ Head(as) = as[1]
  BY TailElements
<1> DEFINE t == Tail(as)
<1> HIDE DEF t
<1>5. ASSUME NEW i \in Ids PROVE Under(cs, t, i) <=> Under(cs, as, i) /\ ~Bears(Head(as), i)
  <2>1. CASE Bears(Head(as), i)
    BY <1>3, <1>4, <2>1 DEF Under, Unique, t
  <2>2. CASE ~Bears(Head(as), i)
    BY <1>2, <1>3, <1>4, <2>2 DEF Under, t
  <2> QED
    BY <2>1, <2>2
<1>6. ASSUME NEW i \in Ids, NEW a \in DOMAIN t, NEW b \in DOMAIN t, Bears(t[a], i), Bears(t[b], i)
      PROVE  a = b
  <2>1. a + 1 = b + 1
    BY <1>3, <1>6 DEF Unique, t
  <2> QED
    BY <1>4, <2>1 DEF t
<1>7. Unique(cs, t)
  <2>1. ASSUME NEW i \in Ids, NEW a \in DOMAIN cs, NEW b \in DOMAIN t
        PROVE  ~(Bears(cs[a], i) /\ Bears(t[b], i))
    BY <1>3 DEF Unique, t
  <2> QED
    BY <1>6, <2>1 DEF Unique
<1> QED
  BY <1>5, <1>7 DEF t

(* A call or an answer that fits can be put behind those that fit. *)
LEMMA FitAppend ==
    ASSUME NEW ms, NEW us, NEW n, NEW s \in Seq(Calls), NEW x \in Calls
    PROVE  /\ CallsFit(ms, us, n, s) /\ (x.op \in MessageOps => Fits(ms, us, n, x))
              /\ (x.op = "set" => Home[x.arg] = n)
                => CallsFit(ms, us, n, Append(s, x))
           /\ AnswersFit(ms, us, n, s) /\ Fits(ms, us, n, x) /\ x.op # "get"
              /\ ms[x.arg].dst # None
                => AnswersFit(ms, us, n, Append(s, x))
           /\ CallsFit(ms, us, n, s) /\ Fits(ms, us, n, x)
                => CallsFit(ms, us, n, Append(s, x))
<1>1. /\ DOMAIN Append(s, x) = DOMAIN s \cup {Len(s) + 1}
      /\ \A k \in DOMAIN s : Append(s, x)[k] = s[k]
      /\ Append(s, x)[Len(s) + 1] = x
  BY AppendElements
<1> QED
  BY <1>1 DEF CallsFit, AnswersFit, Fits, MessageOps

(* Calls fit when one of them is gone. *)
LEMMA FitRemove ==
    ASSUME NEW ms, NEW us, NEW n, NEW s \in Seq(Calls), NEW k \in DOMAIN s,
           CallsFit(ms, us, n, s)
    PROVE  CallsFit(ms, us, n, RemoveAt(s, k))
<1>1. \A l \in DOMAIN RemoveAt(s, k) :
          LET j == IF l < k THEN l ELSE l + 1
          IN  j \in DOMAIN s /\ RemoveAt(s, k)[l] = s[j]
  BY RemoveAtElements
<1> QED
  BY <1>1 DEF CallsFit

(* Answers fit when the first of them is taken, and the first one fits. *)
LEMMA FitTail ==
    ASSUME NEW ms, NEW us, NEW n, NEW s \in Seq(Calls), s # << >>, AnswersFit(ms, us, n, s)
    PROVE  /\ AnswersFit(ms, us, n, Tail(s))
           /\ Fits(ms, us, n, Head(s)) /\ Head(s).op # "get" /\ ms[Head(s).arg].dst # None
           /\ Head(s) \in Calls
<1>1. /\ \A k \in DOMAIN Tail(s) : k + 1 \in DOMAIN s /\ Tail(s)[k] = s[k + 1]
      /\ 1 \in DOMAIN s /\ Head(s) = s[1]
  BY TailElements
<1> QED
  BY <1>1 DEF AnswersFit

(* The invariant of the calls, with the steps sorted by what becomes of     *)
(* them.                                                                    *)
LEMMA CarryKept ==
    ASSUME ClusterType, [Next]_vars, CarryInv, UNCHANGED <<calls, answers, unsure>>
    PROVE  /\ CarryInv'
           /\ \A m \in Nodes, i \in Ids : Pending(m, i)' <=> Pending(m, i)
<1>1. \A m \in Nodes : calls[m] \in Seq(Calls) /\ answers[m] \in Seq(Calls)
  BY DEF ClusterType
<1>2. CallsInv' /\ AnswersInv'
  BY <1>1, FitsStable DEF CarryInv, CallsInv, AnswersInv
<1>3. UniqueInv' /\ \A m \in Nodes, i \in Ids : Pending(m, i)' <=> Pending(m, i)
  BY DEF CarryInv, UniqueInv, Pending
<1> QED
  BY <1>2, <1>3 DEF CarryInv

(* A call begins: of a connection, or one that carries a message of which   *)
(* nothing is under way.                                                    *)
LEMMA CarryBegun ==
    ASSUME ClusterType, [Next]_vars, CarryInv, NEW n \in Nodes, NEW x \in Calls,
           Starts(n, x), UNCHANGED <<answers, unsure>>,
           x.op \in MessageOps => Fits(msg', unsure', n, x) /\ ~Pending(n, x.arg),
           x.op = "set" => Home[x.arg] = n
    PROVE  /\ CarryInv'
           /\ \A m \in Nodes, i \in Ids :
                 Pending(m, i)' <=> Pending(m, i) \/ (m = n /\ Bears(x, i))
<1>1. \A m \in Nodes : calls[m] \in Seq(Calls) /\ answers[m] \in Seq(Calls)
  BY DEF ClusterType
<1>2. /\ calls'[n] = Append(calls[n], x) /\ \A m \in Nodes : m # n => calls'[m] = calls[m]
  BY DEF Starts, ClusterType
<1>3. CallsInv' /\ AnswersInv'
  <2>1. \A m \in Nodes : CallsFit(msg', unsure', m, calls[m])
                         /\ AnswersFit(msg', unsure', m, answers'[m])
    BY <1>1, FitsStable DEF CarryInv, CallsInv, AnswersInv
  <2>2. CallsFit(msg', unsure', n, Append(calls[n], x))
    BY <1>1, <2>1, FitAppend
  <2> QED
    BY <1>2, <2>1, <2>2 DEF CallsInv, AnswersInv
<1>4. /\ Unique(Append(calls[n], x), answers[n])
      /\ \A i \in Ids : Under(Append(calls[n], x), answers[n], i)
                           <=> Under(calls[n], answers[n], i) \/ Bears(x, i)
  <2>1. \A i \in Ids : Bears(x, i) => ~Under(calls[n], answers[n], i)
    BY DEF Pending, Bears
  <2>2. Unique(calls[n], answers[n])
    BY DEF CarryInv, UniqueInv
  <2> QED
    BY <1>1, <2>1, <2>2, TokenAppend
<1>5. UniqueInv'
  BY <1>2, <1>4 DEF CarryInv, UniqueInv
<1>6. ASSUME NEW m \in Nodes, NEW i \in Ids
      PROVE  Pending(m, i)' <=> Pending(m, i) \/ (m = n /\ Bears(x, i))
  BY <1>2, <1>4 DEF Pending
<1> QED
  BY <1>3, <1>5, <1>6 DEF CarryInv

(* A call that ends takes its message with it, and only that one. *)
LEMMA CarryEnded ==
    ASSUME ClusterType, [Next]_vars, CarryInv, NEW n \in Nodes, NEW k \in DOMAIN calls[n],
           Ends(n, k), UNCHANGED <<answers, unsure>>
    PROVE  /\ CarryInv'
           /\ \A m \in Nodes, i \in Ids :
                 Pending(m, i)' <=> Pending(m, i) /\ ~(m = n /\ Bears(calls[n][k], i))
<1>1. \A m \in Nodes : calls[m] \in Seq(Calls) /\ answers[m] \in Seq(Calls)
  BY DEF ClusterType
<1>2. /\ calls'[n] = RemoveAt(calls[n], k) /\ \A m \in Nodes : m # n => calls'[m] = calls[m]
  BY DEF Ends, ClusterType
<1>3. CallsInv' /\ AnswersInv'
  <2>1. \A m \in Nodes : CallsFit(msg', unsure', m, calls[m])
                         /\ AnswersFit(msg', unsure', m, answers'[m])
    BY <1>1, FitsStable DEF CarryInv, CallsInv, AnswersInv
  <2>2. CallsFit(msg', unsure', n, RemoveAt(calls[n], k))
    BY <1>1, <2>1, FitRemove
  <2> QED
    BY <1>2, <2>1, <2>2 DEF CallsInv, AnswersInv
<1>4. /\ Unique(RemoveAt(calls[n], k), answers[n])
      /\ \A i \in Ids : Under(RemoveAt(calls[n], k), answers[n], i)
                           <=> Under(calls[n], answers[n], i) /\ ~Bears(calls[n][k], i)
  <2>1. Unique(calls[n], answers[n])
    BY DEF CarryInv, UniqueInv
  <2> QED
    BY <1>1, <2>1, TokenRemove
<1>5. UniqueInv'
  BY <1>2, <1>4 DEF CarryInv, UniqueInv
<1>6. ASSUME NEW m \in Nodes, NEW i \in Ids
      PROVE  Pending(m, i)' <=> Pending(m, i) /\ ~(m = n /\ Bears(calls[n][k], i))
  BY <1>2, <1>4 DEF Pending
<1> QED
  BY <1>3, <1>5, <1>6 DEF CarryInv

(* A call that carries message i is followed by another one; i may become   *)
(* unsure, since nothing else is under way for it.                          *)
LEMMA CarryContinued ==
    ASSUME ClusterType, CarryInv, NEW n \in Nodes, NEW k \in DOMAIN calls[n],
           NEW y \in Calls, NEW i \in Ids, Bears(calls[n][k], i), Bears(y, i),
           Continues(n, k, y), UNCHANGED <<answers, msg>>,
           unsure' \subseteq unsure \cup {i}, Fits(msg, unsure', n, y)
    PROVE  /\ CarryInv'
           /\ \A m \in Nodes, j \in Ids : Pending(m, j)' <=> Pending(m, j)
<1> DEFINE s == RemoveAt(calls[n], k)
<1>1. \A m \in Nodes : calls[m] \in Seq(Calls) /\ answers[m] \in Seq(Calls)
  BY DEF ClusterType
<1>2. /\ calls'[n] = Append(s, y) /\ \A m \in Nodes : m # n => calls'[m] = calls[m]
  BY DEF Continues, ClusterType
<1>3. Unique(calls[n], answers[n])
  BY DEF CarryInv, UniqueInv
<1>4. /\ s \in Seq(Calls) /\ Unique(s, answers[n]) 
      /\ \A j \in Ids : Under(s, answers[n], j) <=> Under(calls[n], answers[n], j) /\ j # i
  <2>1. \A j \in Ids : Bears(calls[n][k], j) <=> j = i
    BY DEF Bears
  <2> QED
    BY <1>1, <1>3, <2>1, TokenRemove, RemoveAtProperties
<1>5. CallsFit(msg, unsure, n, s)
  BY <1>1, FitRemove DEF CarryInv, CallsInv
<1> HIDE DEF s
<1>6. ~Under(s, answers[n], i) /\ Under(calls[n], answers[n], i)
  BY <1>4 DEF Under
<1>7. /\ Unique(Append(s, y), answers[n])
      /\ \A j \in Ids : Under(Append(s, y), answers[n], j) <=> Under(s, answers[n], j) \/ j = i
  <2>1. \A j \in Ids : Bears(y, j) <=> j = i
    BY DEF Bears
  <2> QED
    BY <1>1, <1>4, <1>6, <2>1, TokenAppend
<1>8. UniqueInv'
  BY <1>2, <1>7 DEF CarryInv, UniqueInv
<1>9. ASSUME NEW m \in Nodes, NEW j \in Ids PROVE Pending(m, j)' <=> Pending(m, j)
  BY <1>2, <1>4, <1>6, <1>7 DEF Pending
<1>10. ASSUME NEW m, NEW x, Fits(msg, unsure, m, x), x.arg # i
       PROVE  Fits(msg', unsure', m, x)
  BY <1>10 DEF Fits
<1>11. Home[msg[i].src] = n
  BY DEF Fits, Bears
<1>12. CallsFit(msg', unsure', n, s)
  <2>1. \A l \in DOMAIN s : ~Bears(s[l], i)
    BY <1>6 DEF Under
  <2> QED
    BY <1>5, <1>10, <2>1 DEF CallsFit, Bears
<1>13. CallsFit(msg', unsure', n, Append(s, y))
  BY <1>4, <1>12, FitAppend
<1>14. AnswersFit(msg', unsure', n, answers[n])
  <2>1. \A l \in DOMAIN answers[n] : ~Bears(answers[n][l], i)
    BY <1>6 DEF Under
  <2> QED
    BY <1>10, <2>1 DEF CarryInv, AnswersInv, AnswersFit, Bears, Fits
<1>15. ASSUME NEW m \in Nodes, m # n
       PROVE  CallsFit(msg', unsure', m, calls[m]) /\ AnswersFit(msg', unsure', m, answers[m])
  <2>1. \A x : Fits(msg, unsure, m, x) => Fits(msg', unsure', m, x)
    BY <1>10, <1>11, <1>15 DEF Fits
  <2> QED
    BY <2>1 DEF CarryInv, CallsInv, AnswersInv, CallsFit, AnswersFit
<1>16. CallsInv' /\ AnswersInv'
  BY <1>2, <1>13, <1>14, <1>15 DEF CallsInv, AnswersInv
<1> QED
  BY <1>8, <1>9, <1>16 DEF CarryInv

(* A lookup of a Node node has been carried out. *)
LEMMA CarryAnswered ==
    ASSUME ClusterType, CarryInv, NEW n \in Nodes, NEW k \in DOMAIN calls[n],
           NEW y \in Calls, NEW i \in Ids, Bears(calls[n][k], i), Bears(y, i),
           Ends(n, k), answers' = [answers EXCEPT ![n] = Append(@, y)],
           UNCHANGED <<msg, unsure>>, Fits(msg, unsure, n, y), y.op # "get",
           msg[i].dst # None
    PROVE  /\ CarryInv'
           /\ \A m \in Nodes, j \in Ids : Pending(m, j)' <=> Pending(m, j)
<1> DEFINE s == RemoveAt(calls[n], k)
<1>1. \A m \in Nodes : calls[m] \in Seq(Calls) /\ answers[m] \in Seq(Calls)
  BY DEF ClusterType
<1>2. /\ calls'[n] = s /\ \A m \in Nodes : m # n => calls'[m] = calls[m]
      /\ answers'[n] = Append(answers[n], y)
      /\ \A m \in Nodes : m # n => answers'[m] = answers[m]
  BY DEF Ends, ClusterType
<1>3. Unique(calls[n], answers[n])
  BY DEF CarryInv, UniqueInv
<1>4. /\ s \in Seq(Calls) /\ Unique(s, answers[n]) 
      /\ \A j \in Ids : Under(s, answers[n], j) <=> Under(calls[n], answers[n], j) /\ j # i
  <2>1. \A j \in Ids : Bears(calls[n][k], j) <=> j = i
    BY DEF Bears
  <2> QED
    BY <1>1, <1>3, <2>1, TokenRemove, RemoveAtProperties
<1>5. CallsFit(msg, unsure, n, s)
  BY <1>1, FitRemove DEF CarryInv, CallsInv
<1> HIDE DEF s
<1>6. ~Under(s, answers[n], i) /\ Under(calls[n], answers[n], i)
  BY <1>4 DEF Under
<1>7. /\ Unique(s, Append(answers[n], y))
      /\ \A j \in Ids : Under(s, Append(answers[n], y), j) <=> Under(s, answers[n], j) \/ j = i
  <2>1. \A j \in Ids : Bears(y, j) <=> j = i
    BY DEF Bears
  <2> QED
    BY <1>1, <1>4, <1>6, <2>1, AnswerAppend
<1>8. UniqueInv'
  BY <1>2, <1>7 DEF CarryInv, UniqueInv
<1>9. ASSUME NEW m \in Nodes, NEW j \in Ids PROVE Pending(m, j)' <=> Pending(m, j)
  BY <1>2, <1>4, <1>6, <1>7 DEF Pending
<1>10. AnswersFit(msg, unsure, n, Append(answers[n], y))
  BY <1>1, FitAppend DEF CarryInv, AnswersInv, Bears
<1>11. CallsInv' /\ AnswersInv'
  BY <1>2, <1>5, <1>10 DEF CarryInv, CallsInv, AnswersInv
<1> QED
  BY <1>8, <1>9, <1>11 DEF CarryInv

(* An answer arrives. *)
LEMMA CarryArrived ==
    ASSUME ClusterType, CarryInv, NEW n \in Nodes, Resolved(n)
    PROVE  /\ CarryInv'
           /\ \A m \in Nodes, j \in Ids : Pending(m, j)' <=> Pending(m, j)
<1> DEFINE x == Head(answers[n])
           s == Tail(answers[n])
<1>1. \A m \in Nodes : calls[m] \in Seq(Calls) /\ answers[m] \in Seq(Calls)
  BY DEF ClusterType
<1>2. /\ calls'[n] = Append(calls[n], x)
      /\ \A m \in Nodes : m # n => calls'[m] = calls[m]
      /\ answers'[n] = s
      /\ \A m \in Nodes : m # n => answers'[m] = answers[m]
      /\ answers[n] # << >> /\ UNCHANGED <<msg, unsure>>
  BY DEF Resolved, Starts, ClusterType
<1>3. Unique(calls[n], answers[n])
  BY DEF CarryInv, UniqueInv
<1>4. /\ AnswersFit(msg, unsure, n, s) /\ Fits(msg, unsure, n, x) /\ x \in Calls
  BY <1>1, <1>2, FitTail DEF CarryInv, AnswersInv
<1>5. PICK i \in Ids : \A j \in Ids : Bears(x, j) <=> j = i
  <2>1. x.op \in MessageOps /\ x.arg \in Ids
    BY <1>4, CallFields DEF Fits
  <2> QED
    BY <2>1 DEF Bears
<1>6. /\ Unique(calls[n], s) /\ s \in Seq(Calls)
      /\ \A j \in Ids : Under(calls[n], s, j) <=> Under(calls[n], answers[n], j) /\ j # i
  BY <1>1, <1>2, <1>3, <1>5, AnswerTail
<1>7. Under(calls[n], answers[n], i)
  <2>1. 1 \in DOMAIN answers[n] /\ Head(answers[n]) = answers[n][1]
    BY <1>1, <1>2, TailElements
  <2> QED
    BY <1>5, <2>1 DEF Under
<1>8. CallsFit(msg, unsure, n, Append(calls[n], x))
  BY <1>1, <1>4, FitAppend DEF CarryInv, CallsInv
<1> HIDE DEF s, x
<1>9. /\ Unique(Append(calls[n], x), s)
      /\ \A j \in Ids : Under(Append(calls[n], x), s, j) <=> Under(calls[n], s, j) \/ j = i
  BY <1>1, <1>4, <1>5, <1>6, TokenAppend
<1>10. UniqueInv'
  BY <1>2, <1>9 DEF CarryInv, UniqueInv
<1>11. ASSUME NEW m \in Nodes, NEW j \in Ids PROVE Pending(m, j)' <=> Pending(m, j)
  BY <1>2, <1>6, <1>7, <1>9 DEF Pending
<1>12. CallsInv' /\ AnswersInv'
  BY <1>2, <1>4, <1>8 DEF CarryInv, CallsInv, AnswersInv
<1> QED
  BY <1>10, <1>11, <1>12 DEF CarryInv

-----------------------------------------------------------------------------
(* What each step does to the calls *)

SideInv == CarryInv /\ RegistryInv /\ UnsureInv

Base == ClusterType /\ SideInv

(* Nothing is under way for a message that has not been sent. *)
LEMMA PendingSent ==
    ASSUME Base, NEW n \in Nodes, NEW i \in Ids, Pending(n, i)
    PROVE  msg[i] # None /\ Home[msg[i].src] = n
<1>1. CASE \E k \in DOMAIN calls[n] : Bears(calls[n][k], i)
  BY <1>1 DEF Base, SideInv, CarryInv, CallsInv, CallsFit, Fits, Bears
<1>2. CASE \E k \in DOMAIN answers[n] : Bears(answers[n][k], i)
  BY <1>2 DEF Base, SideInv, CarryInv, AnswersInv, AnswersFit, Fits, Bears
<1> QED
  BY <1>1, <1>2 DEF Pending, Under

(* Messages published again remain sent messages. *)
LEMMA UnsureKept ==
    ASSUME Base, [Next]_vars, unsure' = unsure
    PROVE  UnsureInv'
  BY MessageStable DEF Base, SideInv, UnsureInv, ClusterType

(* setNode and delNode carry no message: opening and closing a connection   *)
(* leaves what is under way alone.                                          *)
LEMMA CarryConnection ==
    ASSUME Base, [Next]_vars, NEW c \in Conns, Connect(c) \/ Disconnect(c)
    PROVE  /\ SideInv'
           /\ \A m \in Nodes, j \in Ids : Pending(m, j)' <=> Pending(m, j)
<1>1. PICK x \in Calls : /\ Starts(Home[c], x) /\ x.op \notin MessageOps
                         /\ x.op = "set" => Home[x.arg] = Home[c]
  <2>1. CASE Connect(c)
    BY <2>1, CallTypes DEF Connect, Call, MessageOps
  <2>2. CASE Disconnect(c)
    BY <2>2, CallTypes DEF Disconnect, Call, MessageOps
  <2> QED
    BY <2>1, <2>2
<1>2. UNCHANGED <<registry, answers, unsure>>
  BY DEF Connect, Disconnect
<1>3. /\ CarryInv'
      /\ \A m \in Nodes, j \in Ids :
            Pending(m, j)' <=> Pending(m, j) \/ (m = Home[c] /\ Bears(x, j))
  BY <1>1, <1>2, CarryBegun, HomeAssumption DEF Base, SideInv
<1> QED
  BY <1>1, <1>2, <1>3, UnsureKept DEF Base, SideInv, RegistryInv, Bears

(* A step that touches neither calls nor answers leaves what is under way   *)
(* alone.                                                                   *)
LEMMA CarryStill ==
    ASSUME Base, [Next]_vars, UNCHANGED <<registry, calls, answers, unsure>>
    PROVE  /\ SideInv'
           /\ \A m \in Nodes, j \in Ids : Pending(m, j)' <=> Pending(m, j)
  BY CarryKept, UnsureKept DEF Base, SideInv, RegistryInv

(* A message that is sent is under way if a call is started for it. *)
LEMMA CarrySendDirect ==
    ASSUME Base, [Next]_vars, NEW c \in Conns, NEW d \in Conns, NEW i \in Ids,
           SendDirect(c, d, i)
    PROVE  /\ SideInv'
           /\ \A m \in Nodes, j \in Ids :
                 Pending(m, j)' <=> \/ Pending(m, j)
                                    \/ m = Home[c] /\ j = i /\ d \notin Local(Home[c])
<1>1. CASE d \in Local(Home[c])
  BY <1>1, CarryStill DEF SendDirect
<1>2. CASE d \notin Local(Home[c])
  <2> DEFINE x == Call("get", i, None)
  <2>1. Starts(Home[c], x) /\ x \in Calls /\ UNCHANGED <<registry, answers, unsure>>
    BY <1>2, CallTypes DEF SendDirect
  <2>2. Home[c] \in Nodes
    BY HomeAssumption
  <2>3. x.op \in MessageOps /\ x.arg = i /\ x.op = "get"
    BY DEF Call, MessageOps
  <2>4. msg[i] = None /\ msg'[i] = Message(c, d, Root)
    BY DEF SendDirect, Unused, Base, ClusterType
  <2>5. Fits(msg', unsure', Home[c], x)
    <3>1. Message(c, d, Root) \in Record
      BY RoomAssumption DEF Message, Record
    <3>2. Message(c, d, Root) # None /\ d # None
      BY <3>1, NoneAssumption DEF Record
    <3>3. i \notin unsure
      BY <2>4 DEF Base, SideInv, UnsureInv
    <3> QED
      BY <2>1, <2>3, <2>4, <3>2, <3>3 DEF Fits, Message
  <2>6. ~Pending(Home[c], i)
    BY <2>2, <2>4, PendingSent
  <2> HIDE DEF x
  <2>7. /\ CarryInv'
        /\ \A m \in Nodes, j \in Ids :
              Pending(m, j)' <=> Pending(m, j) \/ (m = Home[c] /\ Bears(x, j))
    BY <2>1, <2>2, <2>3, <2>5, <2>6, CarryBegun DEF Base, SideInv
  <2> QED
    BY <1>2, <2>1, <2>3, <2>7, UnsureKept DEF Base, SideInv, RegistryInv, Bears
<1> QED
  BY <1>1, <1>2

(* A broadcast puts its message under way, or owes it to nobody. *)
LEMMA CarryBroadcast ==
    ASSUME Base, [Next]_vars, NEW c \in Conns, NEW r \in Rooms, NEW i \in Ids,
           Broadcast(c, r, i)
    PROVE  /\ SideInv'
           /\ \A m \in Nodes, j \in Ids :
                 /\ Pending(m, j) => Pending(m, j)'
                 /\ Pending(m, j)' => Pending(m, j) \/ (m = Home[c] /\ j = i)
           /\ owed'[i] = {} \/ Pending(Home[c], i)'
<1>1. CASE UNCHANGED calls /\ owed' = [owed EXCEPT ![i] = {}]
  <2>1. owed'[i] = {}
    BY <1>1 DEF Base, ClusterType
  <2>2. SideInv' /\ \A m \in Nodes, j \in Ids : Pending(m, j)' <=> Pending(m, j)
    BY <1>1, CarryStill DEF Broadcast
  <2> QED
    BY <2>1, <2>2
<1>2. CASE Starts(Home[c], Call("publish", i, None))
  <2> DEFINE x == Call("publish", i, None)
  <2>1. Starts(Home[c], x) /\ x \in Calls /\ UNCHANGED <<registry, answers, unsure>>
    BY <1>2, CallTypes DEF Broadcast
  <2>2. Home[c] \in Nodes
    BY HomeAssumption
  <2>3. x.op \in MessageOps /\ x.arg = i /\ x.op = "publish"
    BY DEF Call, MessageOps
  <2>4. msg[i] = None /\ msg'[i] = Message(c, None, r)
    BY DEF Broadcast, Unused, Base, ClusterType
  <2>5. Fits(msg', unsure', Home[c], x)
    <3>1. Message(c, None, r) \in Record
      BY DEF Message, Record
    <3>2. Message(c, None, r) # None
      BY <3>1, NoneAssumption DEF Record
    <3> QED
      BY <2>1, <2>3, <2>4, <3>2 DEF Fits, Message
  <2>6. ~Pending(Home[c], i)
    BY <2>2, <2>4, PendingSent
  <2> HIDE DEF x
  <2>7. /\ CarryInv'
        /\ \A m \in Nodes, j \in Ids :
              Pending(m, j)' <=> Pending(m, j) \/ (m = Home[c] /\ Bears(x, j))
    BY <2>1, <2>2, <2>3, <2>5, <2>6, CarryBegun DEF Base, SideInv
  <2>8. SideInv'
    BY <1>2, <2>1, <2>3, <2>7, UnsureKept DEF Base, SideInv, RegistryInv, Bears
  <2> QED
    BY <2>2, <2>3, <2>7, <2>8 DEF Bears
<1> QED
  BY <1>1, <1>2 DEF Broadcast

(* What is known of a call of node n. *)
LEMMA CallAt ==
    ASSUME Base, NEW n \in Nodes, NEW k \in DOMAIN calls[n]
    PROVE  LET x == calls[n][k]
           IN  /\ x \in Calls
               /\ x.op = "set" => Home[x.arg] = n
               /\ x.op \in {"set", "del"} => x.arg \in Conns
               /\ x.op \in MessageOps =>
                     /\ x.arg \in Ids /\ Fits(msg, unsure, n, x) /\ Bears(x, x.arg)
                     /\ Pending(n, x.arg)
<1>1. calls[n][k] \in Calls
  BY DEF Base, ClusterType
<1>2. CallsFit(msg, unsure, n, calls[n])
  BY DEF Base, SideInv, CarryInv, CallsInv
<1> QED
  BY <1>1, <1>2, CallFields DEF CallsFit, Bears, Pending, Under

(* The answer to setNode or delNode leaves what is under way alone, and the *)
(* registry names homes only.                                               *)
LEMMA CarryRegister ==
    ASSUME Base, [Next]_vars, NEW n \in Nodes, NEW k \in DOMAIN calls[n], NEW o,
           Register(n, k, o)
    PROVE  /\ SideInv'
           /\ \A m \in Nodes, j \in Ids : Pending(m, j)' <=> Pending(m, j)
<1> DEFINE x == calls[n][k]
<1>1. x.op \in {"set", "del"} /\ x.arg \in Conns /\ (x.op = "set" => Home[x.arg] = n)
  BY CallAt DEF Register
<1>2. \A j \in Ids : ~Bears(x, j)
  BY <1>1 DEF Bears, MessageOps
<1>3. CarryInv' /\ \A m \in Nodes, j \in Ids : Pending(m, j)' <=> Pending(m, j)
  BY <1>2, CarryEnded DEF Register, Base, SideInv
<1>4. RegistryInv'
  BY <1>1 DEF Register, Base, SideInv, RegistryInv, ClusterType
<1> QED
  BY <1>3, <1>4, UnsureKept DEF SideInv, Register

(* What follows the lookup of a destination goes to the destination's node  *)
(* or to all.                                                               *)
LEMMA OnwardFits ==
    ASSUME Base, NEW n \in Nodes, NEW i \in Ids, NEW to,
           msg[i] # None, msg[i].dst # None, Home[msg[i].src] = n, i \notin unsure,
           to \in {None, Home[msg[i].dst]}
    PROVE  /\ Onward(i, to) \in Calls /\ Bears(Onward(i, to), i)
           /\ Fits(msg, unsure, n, Onward(i, to)) /\ Onward(i, to).op # "get"
<1>1. Home[msg[i].dst] \in Nodes
  BY LookupType, HomeAssumption DEF Base
<1> QED
  BY <1>1, CallTypes DEF Onward, Fits, Call, Bears, MessageOps

(* The Go adapter's lookup, whatever its outcome, passes its message on. *)
LEMMA CarryGetNodeGo ==
    ASSUME Base, [Next]_vars, NEW n \in Nodes, NEW k \in DOMAIN calls[n], NEW o,
           GetNodeGo(n, k, o)
    PROVE  /\ SideInv'
           /\ \A m \in Nodes, j \in Ids : Pending(m, j)' <=> Pending(m, j)
<1> DEFINE x == calls[n][k]
           i == x.arg
           to == IF o = "ok" THEN registry[msg[i].dst] ELSE None
           y == Onward(i, to)
<1>1. i \in Ids /\ Fits(msg, unsure, n, x) /\ Bears(x, i) /\ x.op = "get"
  BY CallAt DEF GetNodeGo, MessageOps
<1>2. to \in {None, Home[msg[i].dst]}
  BY <1>1, LookupType DEF Fits, Base, SideInv, RegistryInv
<1>3. y \in Calls /\ Bears(y, i) /\ Fits(msg, unsure, n, y)
  <2>1. msg[i] # None /\ msg[i].dst # None /\ Home[msg[i].src] = n /\ i \notin unsure
    BY <1>1 DEF Fits
  <2> HIDE DEF i, to
  <2> QED
    BY <1>1, <1>2, <2>1, OnwardFits
<1>4. Continues(n, k, y) /\ UNCHANGED <<registry, answers, msg, unsure>>
  BY DEF GetNodeGo
<1> HIDE DEF y, i
<1>5. CarryInv' /\ \A m \in Nodes, j \in Ids : Pending(m, j)' <=> Pending(m, j)
  BY <1>1, <1>3, <1>4, CarryContinued DEF Base, SideInv
<1> QED
  BY <1>4, <1>5, UnsureKept DEF Base, SideInv, RegistryInv

(* The Node adapter's lookup passes its message to the continuation, unless *)
(* the lookup fails.                                                        *)
LEMMA CarryGetNodeJs ==
    ASSUME Base, [Next]_vars, NEW n \in Nodes, NEW k \in DOMAIN calls[n], NEW o,
           GetNodeJs(n, k, o)
    PROVE  /\ SideInv'
           /\ \A m \in Nodes, j \in Ids :
                 Pending(m, j)' <=> /\ Pending(m, j)
                                    /\ ~(o = "error" /\ m = n /\ j = calls[n][k].arg)
<1> DEFINE x == calls[n][k]
           i == x.arg
           to == registry[msg[i].dst]
           y == Onward(i, to)
<1>1. i \in Ids /\ Fits(msg, unsure, n, x) /\ Bears(x, i) /\ x.op = "get"
  BY CallAt DEF GetNodeJs, MessageOps
<1>2. to \in {None, Home[msg[i].dst]} /\ msg[i].dst # None
  BY <1>1, LookupType DEF Fits, Base, SideInv, RegistryInv
<1>3. y \in Calls /\ Bears(y, i) /\ Fits(msg, unsure, n, y) /\ y.op # "get"
  <2>1. msg[i] # None /\ msg[i].dst # None /\ Home[msg[i].src] = n /\ i \notin unsure
    BY <1>1 DEF Fits
  <2> HIDE DEF i, to
  <2> QED
    BY <1>1, <1>2, <2>1, OnwardFits
<1>4. /\ Ends(n, k) /\ UNCHANGED <<registry, msg, unsure>>
      /\ answers' = IF o = "error" THEN answers ELSE [answers EXCEPT ![n] = Append(@, y)]
  BY DEF GetNodeJs
<1>5. CASE o = "error"
  <2>1. /\ CarryInv'
        /\ \A m \in Nodes, j \in Ids : Pending(m, j)' <=> Pending(m, j) /\ ~(m = n /\ Bears(x, j))
    BY <1>4, <1>5, CarryEnded DEF Base, SideInv
  <2> QED
    BY <1>1, <1>4, <1>5, <2>1, UnsureKept DEF Base, SideInv, RegistryInv, Bears
<1>6. CASE o # "error"
  <2> HIDE DEF y, i
  <2>1. CarryInv' /\ \A m \in Nodes, j \in Ids : Pending(m, j)' <=> Pending(m, j)
    BY <1>1, <1>2, <1>3, <1>4, <1>6, CarryAnswered DEF Base, SideInv
  <2> QED
    BY <1>4, <1>6, <2>1, UnsureKept DEF Base, SideInv, RegistryInv
<1> QED
  BY <1>5, <1>6

(* A message published to a node is no longer under way there, unless the   *)
(* Go adapter falls back to its room.                                       *)
LEMMA CarryPublishDirect ==
    ASSUME Base, [Next]_vars, NEW n \in Nodes, NEW k \in DOMAIN calls[n], NEW o,
           PublishDirect(n, k, o)
    PROVE  /\ SideInv'
           /\ \A m \in Nodes, j \in Ids :
                 Pending(m, j)' <=> /\ Pending(m, j)
                                    /\ FallsBack(n, o) \/ m # n \/ j # calls[n][k].arg
<1> DEFINE x == calls[n][k]
           i == x.arg
           y == Call("publish", i, None)
<1>1. i \in Ids /\ Fits(msg, unsure, n, x) /\ Bears(x, i) /\ x.op = "direct"
  BY CallAt DEF PublishDirect, MessageOps
<1>2. y \in Calls /\ Bears(y, i) /\ Fits(msg, unsure', n, y)
  BY <1>1, CallTypes DEF Call, Bears, Fits, MessageOps
<1>3. /\ UNCHANGED <<registry, answers, msg>>
      /\ IF FallsBack(n, o) THEN Continues(n, k, y) ELSE Ends(n, k)
      /\ unsure' = unsure \/ (FallsBack(n, o) /\ unsure' = unsure \cup {i})
  BY DEF PublishDirect
<1>4. RegistryInv' /\ UnsureInv'
  BY <1>1, <1>3 DEF Base, SideInv, RegistryInv, UnsureInv, Fits
<1>5. CASE FallsBack(n, o)
  <2>1. Continues(n, k, y) /\ unsure' \subseteq unsure \cup {i}
    BY <1>3, <1>5
  <2> HIDE DEF y, i
  <2>2. CarryInv' /\ \A m \in Nodes, j \in Ids : Pending(m, j)' <=> Pending(m, j)
    BY <1>1, <1>2, <1>3, <2>1, CarryContinued DEF Base, SideInv
  <2> QED
    BY <1>4, <1>5, <2>2 DEF SideInv
<1>6. CASE ~FallsBack(n, o)
  <2>1. /\ CarryInv'
        /\ \A m \in Nodes, j \in Ids : Pending(m, j)' <=> Pending(m, j) /\ ~(m = n /\ Bears(x, j))
    BY <1>3, <1>6, CarryEnded DEF Base, SideInv
  <2> QED
    BY <1>1, <1>4, <1>6, <2>1 DEF SideInv, Bears
<1> QED
  BY <1>5, <1>6

(* A message published to a room is no longer under way. *)
LEMMA CarryPublishRoom ==
    ASSUME Base, [Next]_vars, NEW n \in Nodes, NEW k \in DOMAIN calls[n], NEW o,
           PublishRoom(n, k, o)
    PROVE  /\ SideInv'
           /\ \A m \in Nodes, j \in Ids :
                 Pending(m, j)' <=> Pending(m, j) /\ ~(m = n /\ j = calls[n][k].arg)
<1> DEFINE x == calls[n][k]
           i == x.arg
<1>1. i \in Ids /\ Fits(msg, unsure, n, x) /\ Bears(x, i) /\ x.op = "publish"
  BY CallAt DEF PublishRoom, MessageOps
<1>2. Ends(n, k) /\ UNCHANGED <<registry, answers, msg, unsure>>
  BY DEF PublishRoom
<1>3. /\ CarryInv'
      /\ \A m \in Nodes, j \in Ids : Pending(m, j)' <=> Pending(m, j) /\ ~(m = n /\ Bears(x, j))
  BY <1>2, CarryEnded DEF Base, SideInv
<1> QED
  BY <1>1, <1>2, <1>3, UnsureKept DEF Base, SideInv, RegistryInv, Bears

(* A continuation turns an answer into a call for the same message. *)
LEMMA CarryResolved ==
    ASSUME Base, [Next]_vars, NEW n \in Nodes, Resolved(n)
    PROVE  /\ SideInv'
           /\ \A m \in Nodes, j \in Ids : Pending(m, j)' <=> Pending(m, j)
  BY CarryArrived, UnsureKept DEF Base, SideInv, RegistryInv, Resolved

(* Every step keeps the base invariant. *)
LEMMA BaseStep ==
    ASSUME Base, [Next]_vars
    PROVE  Base'
<1>1. ClusterType'
  BY TypeStep DEF Base, SideInv, CarryInv
<1>2. \A n \in Nodes : Due(n) \subseteq DOMAIN calls[n]
  BY DEF Due
<1>3. ASSUME NEW c \in Conns, NEW r \in Rooms, JoinRoom(c, r) \/ LeaveRoom(c, r) PROVE SideInv'
  BY <1>3, CarryStill DEF JoinRoom, LeaveRoom, redisVars
<1>4. ASSUME NEW n \in Nodes, Listen(n) PROVE SideInv'
  BY <1>4, CarryStill DEF Listen, Deliver, LinkBreaks, Resubscribe
<1>5. ASSUME UNCHANGED vars PROVE SideInv'
  BY <1>5, CarryStill DEF vars, redisVars
<1>6. ASSUME NEW n \in Nodes, NEW k \in DOMAIN calls[n], NEW o \in {"ok", "error", "late"},
             \/ Register(n, k, o) \/ GetNodeGo(n, k, o) \/ GetNodeJs(n, k, o)
             \/ PublishDirect(n, k, o) \/ PublishRoom(n, k, o)
      PROVE  SideInv'
  BY <1>6, CarryRegister, CarryGetNodeGo, CarryGetNodeJs, CarryPublishDirect, CarryPublishRoom
<1>7. SideInv'
  BY <1>2, <1>3, <1>4, <1>5, <1>6, Steps, CarryConnection, CarrySendDirect, CarryBroadcast,
     CarryResolved
<1> QED
  BY <1>1, <1>7 DEF Base

(* The base invariant holds at the start. *)
LEMMA BaseInit == Init => Base
<1> SUFFICES ASSUME Init PROVE Base
  OBVIOUS
<1>1. SideInv
  BY DEF Init, SideInv, CarryInv, CallsInv, AnswersInv, UniqueInv, CallsFit, AnswersFit, Unique,
         RegistryInv, UnsureInv
<1> QED
  BY <1>1, TypeInit DEF Base

-----------------------------------------------------------------------------
(* Envelopes and what was received *)

(* An envelope is of a message that was sent, from its sender's node; one   *)
(* for a room has the room's channel.                                       *)
EnvFits(ms, e) ==
    /\ ms[e.id] # None /\ e.from = Home[ms[e.id].src]
    /\ ms[e.id].dst = None => e.channel = ms[e.id].room

WireInv == \A n \in Nodes : \A k \in DOMAIN wire[n] : EnvFits(msg, wire[n][k])

GotInv == \A c \in Conns : \A k \in DOMAIN got[c] : msg[got[c][k]] # None

(* Only messages that were sent are on the wire or received. *)
LEMMA EnvStable ==
    ASSUME ClusterType, [Next]_vars, NEW e \in Envelopes, EnvFits(msg, e)
    PROVE  EnvFits(msg', e)
<1>1. e.id \in Ids
  BY DEF Envelopes
<1> QED
  BY <1>1, MessageStable DEF EnvFits

(* A step that publishes nothing keeps what the wire carries fitting. *)
LEMMA WireStays ==
    ASSUME ClusterType, [Next]_vars, WireInv, UNCHANGED wire
    PROVE  WireInv'
  BY EnvStable DEF WireInv, ClusterType

(* Publishing an envelope that fits keeps the wire fitting. *)
LEMMA WirePublished ==
    ASSUME ClusterType, [Next]_vars, WireInv, NEW ns, NEW env \in Envelopes, NEW o,
           Published(ns, env, o), EnvFits(msg', env)
    PROVE  WireInv'
<1> SUFFICES ASSUME NEW n \in Nodes, NEW k \in DOMAIN wire'[n]
             PROVE  EnvFits(msg', wire'[n][k])
  BY DEF WireInv
<1>1. /\ wire[n] \in Seq(Envelopes)
      /\ wire'[n] = wire[n] \/ wire'[n] = Append(wire[n], env)
  BY DEF Published, ClusterType
<1>2. \A l \in DOMAIN wire[n] : EnvFits(msg', wire[n][l])
  BY <1>1, EnvStable DEF WireInv
<1>3. /\ DOMAIN Append(wire[n], env) = DOMAIN wire[n] \cup {Len(wire[n]) + 1}
      /\ \A l \in DOMAIN wire[n] : Append(wire[n], env)[l] = wire[n][l]
      /\ Append(wire[n], env)[Len(wire[n]) + 1] = env
  BY <1>1, AppendElements
<1> QED
  BY <1>1, <1>2, <1>3

(* A step that hands nothing over keeps what was handed over sent. *)
LEMMA GotStays ==
    ASSUME ClusterType, [Next]_vars, GotInv, UNCHANGED got
    PROVE  GotInv'
  BY MessageStable DEF GotInv, ClusterType

(* Handing over a message that was sent does too. *)
LEMMA GotReceived ==
    ASSUME ClusterType, [Next]_vars, GotInv, NEW cs, NEW i \in Ids,
           Receive(cs, i), msg'[i] # None
    PROVE  GotInv'
<1> SUFFICES ASSUME NEW c \in Conns, NEW k \in DOMAIN got'[c]
             PROVE  msg'[got'[c][k]] # None
  BY DEF GotInv
<1>1. /\ got[c] \in Seq(Ids)
      /\ got'[c] = got[c] \/ got'[c] = Append(got[c], i)
  BY DEF Receive, ClusterType
<1>2. \A l \in DOMAIN got[c] : msg'[got[c][l]] # None
  BY <1>1, MessageStable DEF GotInv
<1>3. /\ DOMAIN Append(got[c], i) = DOMAIN got[c] \cup {Len(got[c]) + 1}
      /\ \A l \in DOMAIN got[c] : Append(got[c], i)[l] = got[c][l]
      /\ Append(got[c], i)[Len(got[c]) + 1] = i
  BY <1>1, AppendElements
<1> QED
  BY <1>1, <1>2, <1>3

(* Sending a message keeps the wire and the inboxes fitting. *)
LEMMA TransitSend ==
    ASSUME ClusterType, [Next]_vars, WireInv, GotInv, NEW c \in Conns, NEW i \in Ids,
           (\E d \in Conns : SendDirect(c, d, i)) \/ (\E r \in Rooms : Broadcast(c, r, i))
    PROVE  WireInv' /\ GotInv'
<1>1. PICK m \in Record : msg'[i] = m /\ m.src = c
  <2>1. \A d \in Conns : Message(c, d, Root) \in Record /\ Message(c, d, Root).src = c
    BY RoomAssumption DEF Message, Record
  <2>2. \A r \in Rooms : Message(c, None, r) \in Record /\ Message(c, None, r).src = c
    BY DEF Message, Record
  <2>3. CASE \E d \in Conns : SendDirect(c, d, i)
    BY <2>1, <2>3 DEF SendDirect, ClusterType
  <2>4. CASE \E r \in Rooms : Broadcast(c, r, i)
    BY <2>2, <2>4 DEF Broadcast, ClusterType
  <2> QED
    BY <2>3, <2>4
<1>2. msg'[i] # None
  BY <1>1, NoneAssumption DEF Record
<1>3. UNCHANGED wire
  BY DEF SendDirect, Broadcast
<1>4. UNCHANGED got \/ \E cs : Receive(cs, i)
  BY DEF SendDirect, Broadcast
<1> QED
  BY <1>2, <1>3, <1>4, WireStays, GotStays, GotReceived

(* So does every answer of Redis. *)
LEMMA TransitRedis ==
    ASSUME Base, [Next]_vars, WireInv, GotInv, NEW n \in Nodes, NEW k \in DOMAIN calls[n],
           NEW o \in {"ok", "error", "late"},
           \/ Register(n, k, o) \/ GetNodeGo(n, k, o) \/ GetNodeJs(n, k, o)
           \/ PublishDirect(n, k, o) \/ PublishRoom(n, k, o)
    PROVE  WireInv' /\ GotInv'
<1> DEFINE x == calls[n][k]
<1>1. GotInv'
  BY GotStays DEF Register, GetNodeGo, GetNodeJs, PublishDirect, PublishRoom, Base
<1>2. CASE Register(n, k, o) \/ GetNodeGo(n, k, o) \/ GetNodeJs(n, k, o)
  BY <1>1, <1>2, WireStays DEF Register, GetNodeGo, GetNodeJs, Base
<1>3. CASE PublishDirect(n, k, o)
  <2>1. x.arg \in Ids /\ Fits(msg, unsure, n, x) /\ x.op = "direct"
    BY <1>3, CallAt DEF PublishDirect, MessageOps
  <2> DEFINE env == Envelope(NodeChannel, n, x.arg)
  <2>2. env \in Envelopes /\ EnvFits(msg, env)
    BY <2>1 DEF Envelope, Envelopes, EnvFits, Fits
  <2>3. /\ msg' = msg
        /\ Published({m \in Nodes : m = x.to /\ NodeChannel \in link[m]}, env, o)
    BY <1>3 DEF PublishDirect
  <2> HIDE DEF env
  <2> QED
    BY <1>1, <2>2, <2>3, WirePublished DEF Base
<1>4. CASE PublishRoom(n, k, o)
  <2>1. x.arg \in Ids /\ Fits(msg, unsure, n, x)
    BY <1>4, CallAt DEF PublishRoom, MessageOps
  <2> DEFINE env == Envelope(msg[x.arg].room, n, x.arg)
  <2>2. env \in Envelopes /\ EnvFits(msg, env)
    BY <2>1 DEF Envelope, Envelopes, EnvFits, Fits, Base, ClusterType, Record
  <2>3. /\ msg' = msg
        /\ Published({m \in Nodes : RoomChannel \in link[m]}, env, o)
    BY <1>4 DEF PublishRoom
  <2> HIDE DEF env
  <2> QED
    BY <1>1, <2>2, <2>3, WirePublished DEF Base
<1> QED
  BY <1>2, <1>3, <1>4

(* The first envelope for a node. *)
LEMMA HeadOfWire ==
    ASSUME ClusterType, WireInv, NEW n \in Nodes, wire[n] # << >>
    PROVE  /\ Head(wire[n]) \in Envelopes /\ Head(wire[n]).id \in Ids
           /\ EnvFits(msg, Head(wire[n]))
<1>1. wire[n] \in Seq(Envelopes)
  BY DEF ClusterType
<1>2. 1 \in DOMAIN wire[n] /\ Head(wire[n]) = wire[n][1]
  BY <1>1, TailElements
<1>3. Head(wire[n]) \in Envelopes
  BY <1>1, <1>2
<1> QED
  BY <1>2, <1>3 DEF WireInv, Envelopes

(* So do continuations and subscribers. *)
LEMMA TransitListen ==
    ASSUME ClusterType, [Next]_vars, WireInv, GotInv, NEW n \in Nodes, Resolved(n) \/ Listen(n)
    PROVE  WireInv' /\ GotInv'
<1>1. CASE Deliver(n)
  <2>1. GotInv'
    BY <1>1, HeadOfWire, GotReceived DEF Deliver, EnvFits
  <2>2. WireInv'
    <3> SUFFICES ASSUME NEW m \in Nodes, NEW k \in DOMAIN wire'[m]
                 PROVE  EnvFits(msg', wire'[m][k])
      BY DEF WireInv
    <3>1. msg' = msg /\ wire[n] # << >> /\ wire[m] \in Seq(Envelopes) 
          /\ (m # n => wire'[m] = wire[m]) /\ wire'[n] = Tail(wire[n])
      BY <1>1 DEF Deliver, ClusterType
    <3>2. CASE m = n
      <4>1. \A l \in DOMAIN Tail(wire[n]) :
                l + 1 \in DOMAIN wire[n] /\ Tail(wire[n])[l] = wire[n][l + 1]
        BY <3>1, <3>2, TailElements
      <4> QED
        BY <3>1, <3>2, <4>1 DEF WireInv
    <3>3. CASE m # n
      BY <3>1, <3>3 DEF WireInv
    <3> QED
      BY <3>2, <3>3
  <2> QED
    BY <2>1, <2>2
<1>2. CASE LinkBreaks(n)
  <2>1. GotInv'
    BY <1>2, GotStays DEF LinkBreaks
  <2>2. \A m \in Nodes : wire'[m] = << >> \/ wire'[m] = wire[m]
    BY <1>2 DEF LinkBreaks, ClusterType
  <2>3. msg' = msg
    BY <1>2 DEF LinkBreaks
  <2> QED
    BY <2>1, <2>2, <2>3 DEF WireInv
<1>3. CASE Resolved(n) \/ \E ch \in {RoomChannel, NodeChannel} : Resubscribe(n, ch)
  BY <1>3, WireStays, GotStays DEF Resolved, Resubscribe
<1> QED
  BY <1>1, <1>2, <1>3 DEF Listen

(* Every step keeps the wire and the inboxes fitting. *)
LEMMA TransitStep ==
    ASSUME Base, [Next]_vars, WireInv, GotInv
    PROVE  WireInv' /\ GotInv'
<1>1. ClusterType /\ \A n \in Nodes : Due(n) \subseteq DOMAIN calls[n]
  BY DEF Due, Base
<1>2. ASSUME UNCHANGED <<wire, got>> PROVE WireInv' /\ GotInv'
  BY <1>1, <1>2, WireStays, GotStays
<1>3. ASSUME NEW c \in Conns, Connect(c) \/ Disconnect(c) PROVE UNCHANGED <<wire, got>>
  BY <1>3 DEF Connect, Disconnect
<1>4. ASSUME NEW c \in Conns, NEW r \in Rooms, JoinRoom(c, r) \/ LeaveRoom(c, r)
      PROVE  UNCHANGED <<wire, got>>
  BY <1>4 DEF JoinRoom, LeaveRoom, redisVars
<1>5. ASSUME UNCHANGED vars PROVE UNCHANGED <<wire, got>>
  BY <1>5 DEF vars, redisVars
<1> QED
  BY <1>1, <1>2, <1>3, <1>4, <1>5, Steps, TransitSend, TransitRedis, TransitListen

-----------------------------------------------------------------------------
(* How often a message arrives *)

Env(i) == {e \in Envelopes : e.id = i}

(* Copies of message i that c has, and that its node will hear of. *)
Stock(c, i) == Times(got[c], {i}) + Times(wire[Home[c]], Env(i))

(* Copies that can still be published. *)
ToCome(i) == IF Pending(Home[msg[i].src], i) THEN 1 ELSE 0

Limit(i) == IF i \in unsure THEN 2 ELSE 1

Abroad(c, i) == msg[i] # None /\ Home[c] # Home[msg[i].src]

(* On the other nodes a message arrives once, or twice if it was published  *)
(* again.                                                                   *)
CountInv ==
    \A c \in Conns, i \in Ids : Abroad(c, i) => Stock(c, i) + ToCome(i) <= Limit(i)

(* The copies of a message are counted in natural numbers. *)
LEMMA StockType ==
    ASSUME ClusterType, NEW c \in Conns, NEW i
    PROVE  /\ Times(got[c], {i}) \in Nat /\ Times(wire[Home[c]], Env(i)) \in Nat
           /\ Stock(c, i) \in Nat
<1>1. got[c] \in Seq(Ids) /\ wire[Home[c]] \in Seq(Envelopes)
  BY HomeAssumption DEF ClusterType
<1>2. Times(got[c], {i}) \in Nat
  BY <1>1, HitsFinite
<1>3. Times(wire[Home[c]], Env(i)) \in Nat
  BY <1>1, HitsFinite
<1> QED
  BY <1>2, <1>3 DEF Stock

(* The same of the next state. *)
LEMMA StockNext ==
    ASSUME ClusterType', NEW c \in Conns, NEW i
    PROVE  /\ Times(got'[c], {i}) \in Nat /\ Times(wire'[Home[c]], Env(i)) \in Nat
           /\ Stock(c, i)' \in Nat
<1>1. got'[c] \in Seq(Ids) /\ wire'[Home[c]] \in Seq(Envelopes)
  BY HomeAssumption DEF ClusterType
<1>2. Times(got'[c], {i}) \in Nat
  BY <1>1, HitsFinite
<1>3. Times(wire'[Home[c]], Env(i)) \in Nat
  BY <1>1, HitsFinite
<1> QED
  BY <1>2, <1>3 DEF Stock

(* Where nothing is added and nothing begins, the count still holds. *)
LEMMA CountDown ==
    ASSUME ClusterType, ClusterType', CountInv, [Next]_vars, msg' = msg, unsure \subseteq unsure',
           \A m \in Nodes, j \in Ids : Pending(m, j)' => Pending(m, j),
           \A c \in Conns, j \in Ids : Abroad(c, j) => Stock(c, j)' <= Stock(c, j)
    PROVE  CountInv'
<1> SUFFICES ASSUME NEW c \in Conns, NEW i \in Ids, Abroad(c, i)'
             PROVE  Stock(c, i)' + ToCome(i)' <= Limit(i)'
  BY DEF CountInv
<1>1. Abroad(c, i)
  BY DEF Abroad
<1>2. Stock(c, i) + ToCome(i) <= Limit(i) /\ Stock(c, i)' <= Stock(c, i)
  BY <1>1 DEF CountInv
<1>3. Home[msg[i].src] \in Nodes
  BY <1>1, HomeAssumption DEF Abroad, ClusterType, Record
<1>4. ToCome(i)' <= ToCome(i) /\ ToCome(i) \in Nat /\ ToCome(i)' \in Nat
  BY <1>3 DEF ToCome
<1>5. Limit(i) <= Limit(i)' /\ Limit(i) \in Nat /\ Limit(i)' \in Nat
  BY DEF Limit
<1>6. Stock(c, i) \in Nat
  BY StockType
<1>7. Stock(c, i)' \in Nat
  BY StockNext
<1> QED
  BY <1>2, <1>4, <1>5, <1>6, <1>7

(* A step that moves no message keeps the count. *)
LEMMA CountStill ==
    ASSUME ClusterType, ClusterType', CountInv, [Next]_vars, UNCHANGED <<msg, wire, got, unsure>>,
           \A m \in Nodes, j \in Ids : Pending(m, j)' => Pending(m, j)
    PROVE  CountInv'
<1>1. \A c \in Conns, j \in Ids : Stock(c, j)' = Stock(c, j) /\ Stock(c, j) \in Nat
  BY StockType DEF Stock
<1> QED
  BY <1>1, CountDown

(* A message that is sent: on the other nodes nobody has it. *)
LEMMA CountSent ==
    ASSUME Base, Base', WireInv, GotInv, CountInv, [Next]_vars,
           NEW c \in Conns, NEW i \in Ids, NEW m \in Record, m.src = c, msg[i] = None,
           msg' = [msg EXCEPT ![i] = m], UNCHANGED <<wire, unsure>>,
           UNCHANGED got \/ \E cs \in SUBSET Local(Home[c]) : Receive(cs, i),
           \A n \in Nodes, j \in Ids : j # i /\ Pending(n, j)' => Pending(n, j)
    PROVE  CountInv'
<1> SUFFICES ASSUME NEW d \in Conns, NEW j \in Ids, Abroad(d, j)'
             PROVE  Stock(d, j)' + ToCome(j)' <= Limit(j)'
  BY DEF CountInv
<1>1. /\ got[d] \in Seq(Ids) /\ wire[Home[d]] \in Seq(Envelopes)
      /\ msg \in [Ids -> Record \cup {None}] /\ Home[d] \in Nodes
  BY HomeAssumption DEF Base, ClusterType
<1>2. ToCome(j)' \in 0..1 /\ Limit(j)' \in 1..2 /\ ToCome(j) \in 0..1 /\ Limit(j) \in 1..2
  BY DEF ToCome, Limit
<1>3. CASE j = i
  <2>1. msg'[i] = m
    BY <1>1
  <2>2. got'[d] = got[d]
    BY <1>1, <1>3, <2>1 DEF Abroad, Receive, Local
  <2>3. \A k \in DOMAIN got[d] : got[d][k] \notin {i}
    BY DEF GotInv
  <2>4. \A k \in DOMAIN wire[Home[d]] : wire[Home[d]][k] \notin Env(i)
    BY <1>1 DEF WireInv, EnvFits, Env
  <2>5. Times(got[d], {i}) = 0
    BY <1>1, <2>3, TimesZero
  <2>6. Times(wire[Home[d]], Env(i)) = 0
    BY <1>1, <2>4, TimesZero
  <2> QED
    BY <1>2, <1>3, <2>2, <2>5, <2>6 DEF Stock
<1>4. CASE j # i
  <2>1. msg'[j] = msg[j]
    BY <1>1, <1>4
  <2>2. Abroad(d, j)
    BY <2>1 DEF Abroad
  <2>3. Home[msg[j].src] \in Nodes
    BY <1>1, <2>2, HomeAssumption DEF Abroad, Record
  <2>4. ToCome(j)' <= ToCome(j)
    BY <1>4, <2>1, <2>3 DEF ToCome
  <2>5. Limit(j)' = Limit(j)
    BY DEF Limit
  <2>6. Times(got'[d], {j}) = Times(got[d], {j}) 
    <3>1. got'[d] = got[d] \/ got'[d] = Append(got[d], i)
      BY DEF Receive
    <3>2. Times(Append(got[d], i), {j}) = Times(got[d], {j}) + (IF i \in {j} THEN 1 ELSE 0)
      BY <1>1, TimesAppend
    <3>3. Times(got[d], {j}) \in Nat
      BY StockType DEF Base
    <3>4. Times(Append(got[d], i), {j}) = Times(got[d], {j})
      BY <1>4, <3>2, <3>3
    <3> QED
      BY <3>1, <3>4
  <2>7. Stock(d, j)' = Stock(d, j) /\ Stock(d, j) \in Nat
    BY <2>6, StockType DEF Stock, Base
  <2>8. Stock(d, j) + ToCome(j) <= Limit(j)
    BY <2>2 DEF CountInv
  <2> QED
    BY <1>2, <2>4, <2>5, <2>7, <2>8
<1> QED
  BY <1>3, <1>4

(* A copy is published: none is to come then, or the message is unsure, or  *)
(* it was not published.                                                    *)
LEMMA CountPublished ==
    ASSUME Base, Base', CountInv, NEW n \in Nodes, NEW i \in Ids, Pending(n, i),
           NEW env \in Envelopes, env.id = i, NEW ns, NEW o, Published(ns, env, o),
           UNCHANGED <<msg, got>>,
           \A m \in Nodes, j \in Ids : Pending(m, j)' => Pending(m, j),
           \/ ~Pending(n, i)' /\ unsure' = unsure
           \/ o = "error" /\ unsure' = unsure
           \/ i \notin unsure /\ unsure' = unsure \cup {i}
    PROVE  CountInv'
<1> SUFFICES ASSUME NEW d \in Conns, NEW j \in Ids, Abroad(d, j)'
             PROVE  Stock(d, j)' + ToCome(j)' <= Limit(j)'
  BY DEF CountInv
<1> DEFINE w == wire[Home[d]]
           a == Times(got[d], {j})
           b == Times(w, Env(j))
<1>1. Home[d] \in Nodes /\ w \in Seq(Envelopes) /\ Abroad(d, j)
  BY HomeAssumption DEF Base, ClusterType, Abroad
<1>2. Home[msg[j].src] \in Nodes /\ Home[msg[i].src] = n
  <2>1. Home[msg[i].src] = n
    BY PendingSent
  <2>2. msg[j] \in Record
    BY <1>1 DEF Abroad, Base, ClusterType
  <2> QED
    BY <2>1, <2>2, HomeAssumption DEF Record
<1>3. a \in Nat /\ b \in Nat /\ a + b + ToCome(j) <= Limit(j)
  BY <1>1, StockType DEF CountInv, Stock, Base
<1>4. Stock(d, j)' = a + Times(wire'[Home[d]], Env(j))
  BY DEF Stock
<1>5. wire'[Home[d]] = w \/ (o # "error" /\ wire'[Home[d]] = Append(w, env))
  BY <1>1 DEF Published
<1>6. Times(Append(w, env), Env(j)) = b + (IF env \in Env(j) THEN 1 ELSE 0)
  <2> HIDE DEF w
  <2> QED
    BY <1>1, TimesAppend
<1>7. env \in Env(j) <=> j = i
  BY DEF Env
<1> HIDE DEF a, b, w
<1>8. CASE j # i
  <2>1. Times(Append(w, env), Env(j)) = b
    BY <1>3, <1>6, <1>7, <1>8
  <2>2. Stock(d, j)' = a + b
    BY <1>4, <1>5, <2>1 DEF b, w
  <2>3. ToCome(j)' <= ToCome(j) /\ ToCome(j)' \in 0..1 /\ ToCome(j) \in 0..1
    BY <1>2 DEF ToCome
  <2>4. Limit(j)' = Limit(j) /\ Limit(j) \in Nat
    BY <1>8 DEF Limit
  <2> QED
    BY <1>3, <2>2, <2>3, <2>4
<1>9. CASE j = i
  <2>1. Times(Append(w, env), Env(j)) = b + 1
    BY <1>3, <1>6, <1>7, <1>9
  <2>2. Stock(d, j)' = a + b \/ (o # "error" /\ Stock(d, j)' = a + b + 1)
    <3>1. CASE wire'[Home[d]] = w
      BY <1>4, <3>1 DEF b
    <3>2. CASE o # "error" /\ wire'[Home[d]] = Append(w, env)
      <4>1. Stock(d, j)' = a + (b + 1)
        BY <1>4, <2>1, <3>2
      <4> QED
        BY <1>3, <3>2, <4>1
    <3> QED
      BY <1>5, <3>1, <3>2
  <2>3. ToCome(j) = 1 /\ ToCome(j)' \in 0..1 /\ (~Pending(n, i)' => ToCome(j)' = 0)
    BY <1>2, <1>9 DEF ToCome
  <2>4. /\ Limit(j) \in Nat
        /\ unsure' = unsure => Limit(j)' = Limit(j)
        /\ i \notin unsure /\ unsure' = unsure \cup {i} => Limit(j) = 1 /\ Limit(j)' = 2
    BY <1>9 DEF Limit
  <2> QED
    BY <1>3, <2>2, <2>3, <2>4
<1> QED
  BY <1>8, <1>9

(* Publishing to a node makes one copy out of the one to come; when it      *)
(* times out and falls back, the second copy is accounted for as unsure.    *)
LEMMA CountPublishDirect ==
    ASSUME Base, Base', CountInv, [Next]_vars, NEW n \in Nodes, NEW k \in DOMAIN calls[n],
           NEW o \in {"ok", "error", "late"}, PublishDirect(n, k, o)
    PROVE  CountInv'
<1> DEFINE i == calls[n][k].arg
           env == Envelope(NodeChannel, n, i)
<1>1. i \in Ids /\ Fits(msg, unsure, n, calls[n][k]) /\ Pending(n, i)
  BY CallAt DEF PublishDirect, MessageOps
<1>2. env \in Envelopes /\ env.id = i
  BY <1>1 DEF Envelope, Envelopes
<1>3. PICK ns : Published(ns, env, o)
  BY DEF PublishDirect
<1>4. \A m \in Nodes, j \in Ids :
          Pending(m, j)' <=> Pending(m, j) /\ (FallsBack(n, o) \/ m # n \/ j # i)
  BY CarryPublishDirect
<1>5. UNCHANGED <<msg, got>> /\ i \notin unsure
  BY <1>1 DEF PublishDirect, Fits
<1>6. \/ ~FallsBack(n, o) /\ unsure' = unsure
      \/ o = "error" /\ unsure' = unsure
      \/ unsure' = unsure \cup {i}
  BY DEF PublishDirect, FallsBack
<1> HIDE DEF env, i
<1> QED
  BY <1>1, <1>2, <1>3, <1>4, <1>5, <1>6, CountPublished

(* Publishing to a room makes one copy on each other node out of the one to *)
(* come.                                                                    *)
LEMMA CountPublishRoom ==
    ASSUME Base, Base', CountInv, [Next]_vars, NEW n \in Nodes, NEW k \in DOMAIN calls[n],
           NEW o, PublishRoom(n, k, o)
    PROVE  CountInv'
<1> DEFINE i == calls[n][k].arg
           env == Envelope(msg[i].room, n, i)
<1>1. i \in Ids /\ Fits(msg, unsure, n, calls[n][k]) /\ Pending(n, i)
  BY CallAt DEF PublishRoom, MessageOps
<1>2. env \in Envelopes /\ env.id = i
  BY <1>1 DEF Envelope, Envelopes, Fits, Base, ClusterType, Record
<1>3. PICK ns : Published(ns, env, o)
  BY DEF PublishRoom
<1>4. \A m \in Nodes, j \in Ids : Pending(m, j)' <=> Pending(m, j) /\ ~(m = n /\ j = i)
  BY CarryPublishRoom
<1>5. UNCHANGED <<msg, got, unsure>>
  BY DEF PublishRoom
<1> HIDE DEF env, i
<1> QED
  BY <1>1, <1>2, <1>3, <1>4, <1>5, CountPublished

(* What is taken off the wire of a node is handed to its clients only, once.*)
LEMMA CountDeliver ==
    ASSUME Base, Base', CountInv, [Next]_vars, NEW n \in Nodes, Deliver(n)
    PROVE  CountInv'
<1> DEFINE e == Head(wire[n])
           i == e.id
<1>1. /\ wire[n] # << >> /\ wire' = [wire EXCEPT ![n] = Tail(@)]
      /\ Receive(Recipients(n, e), i)
      /\ UNCHANGED <<msg, unsure, registry, calls, answers>>
  BY DEF Deliver
<1>2. \A m \in Nodes, j \in Ids : Pending(m, j)' => Pending(m, j)
  BY <1>1, CarryStill
<1>3. Recipients(n, e) \subseteq Local(n)
  BY DEF Recipients
<1>4. /\ wire \in [Nodes -> Seq(Envelopes)] /\ got \in [Conns -> Seq(Ids)] /\ e \in Envelopes
  BY <1>1 DEF Base, ClusterType
<1>5. i \in Ids
  BY <1>4 DEF Envelopes
<1> HIDE DEF e, i
<1>6. ASSUME NEW c \in Conns, NEW j \in Ids PROVE Stock(c, j)' <= Stock(c, j)
  <2> DEFINE a == Times(got[c], {j})
             b == Times(wire[Home[c]], Env(j))
             one == IF i = j THEN 1 ELSE 0
  <2>1. a \in Nat /\ b \in Nat /\ one \in 0..1
    BY StockType DEF Base
  <2>2. got'[c] = IF c \in Recipients(n, e) THEN Append(got[c], i) ELSE got[c]
    BY <1>1 DEF Receive
  <2>3. Times(Append(got[c], i), {j}) = a + one
    BY <1>4, <1>5, TimesAppend
  <2>4. Times(got'[c], {j}) = a \/ (c \in Recipients(n, e) /\ Times(got'[c], {j}) = a + one)
    BY <2>2, <2>3
  <2>5. CASE Home[c] = n
    <3>1. wire'[n] = Tail(wire[n])
      BY <1>1, <1>4
    <3>2. \A T : Times(wire[n], T) = Times(Tail(wire[n]), T) + (IF e \in T THEN 1 ELSE 0)
      BY <1>1, <1>4, TimesTail DEF e
    <3>3. e \in Env(j) <=> i = j
      BY <1>4 DEF i, Env
    <3>4. Times(wire'[n], Env(j)) \in Nat
      BY <2>5, StockNext DEF Base
    <3>5. b = Times(wire'[n], Env(j)) + one
      BY <2>5, <3>1, <3>2, <3>3
    <3> HIDE DEF a, b, one
    <3>6. Stock(c, j) = a + b /\ Stock(c, j)' = Times(got'[c], {j}) + Times(wire'[n], Env(j))
      BY <2>5 DEF Stock, a, b
    <3> QED
      BY <2>1, <2>4, <3>4, <3>5, <3>6
  <2>6. CASE Home[c] # n
    <3>1. wire'[Home[c]] = wire[Home[c]]
      BY <1>1, <1>4, <2>6, HomeAssumption
    <3>2. c \notin Recipients(n, e)
      BY <1>3, <2>6 DEF Local
    <3> QED
      BY <2>1, <2>4, <3>1, <3>2 DEF Stock
  <2> QED
    BY <2>5, <2>6
<1> QED
  BY <1>1, <1>2, <1>6, CountDown DEF Base

(* A link that breaks only takes copies away. *)
LEMMA CountLinkBreaks ==
    ASSUME Base, Base', CountInv, [Next]_vars, NEW n \in Nodes, LinkBreaks(n)
    PROVE  CountInv'
<1>1. /\ wire' = [wire EXCEPT ![n] = << >>]
      /\ UNCHANGED <<msg, got, unsure, registry, calls, answers>>
  BY DEF LinkBreaks
<1>2. \A m \in Nodes, j \in Ids : Pending(m, j)' => Pending(m, j)
  BY <1>1, CarryStill
<1>3. ASSUME NEW c \in Conns, NEW j \in Ids PROVE Stock(c, j)' <= Stock(c, j)
  <2>1. wire'[Home[c]] = wire[Home[c]] \/ wire'[Home[c]] = << >>
    BY <1>1, HomeAssumption DEF Base, ClusterType
  <2>2. Times(<< >>, Env(j)) = 0
    <3>1. << >> \in Seq(Envelopes) /\ DOMAIN << >> = {}
      OBVIOUS
    <3> QED
      BY <3>1, TimesZero
  <2>3. Times(got[c], {j}) \in Nat /\ Times(wire[Home[c]], Env(j)) \in Nat
    BY StockType DEF Base
  <2> QED
    BY <1>1, <2>1, <2>2, <2>3 DEF Stock
<1> QED
  BY <1>1, <1>2, <1>3, CountDown DEF Base

(* A message that is sent has at most one copy to come for the other nodes. *)
LEMMA CountSend ==
    ASSUME Base, Base', WireInv, GotInv, CountInv, [Next]_vars, NEW c \in Conns, NEW i \in Ids,
           (\E d \in Conns : SendDirect(c, d, i)) \/ (\E r \in Rooms : Broadcast(c, r, i))
    PROVE  CountInv'
<1>1. CASE \E d \in Conns : SendDirect(c, d, i)
  <2>1. PICK d \in Conns : SendDirect(c, d, i)
    BY <1>1
  <2>2. Message(c, d, Root) \in Record /\ Message(c, d, Root).src = c
    BY RoomAssumption DEF Message, Record
  <2>3. /\ msg[i] = None /\ msg' = [msg EXCEPT ![i] = Message(c, d, Root)]
        /\ UNCHANGED <<wire, unsure>>
        /\ UNCHANGED got \/ \E cs \in SUBSET Local(Home[c]) : Receive(cs, i)
    BY <2>1 DEF SendDirect, Unused
  <2>4. \A m \in Nodes, j \in Ids : j # i /\ Pending(m, j)' => Pending(m, j)
    BY <2>1, CarrySendDirect
  <2> QED
    BY <2>2, <2>3, <2>4, CountSent
<1>2. CASE \E r \in Rooms : Broadcast(c, r, i)
  <2>1. PICK r \in Rooms : Broadcast(c, r, i)
    BY <1>2
  <2>2. Message(c, None, r) \in Record /\ Message(c, None, r).src = c
    BY DEF Message, Record
  <2>3. /\ msg[i] = None /\ msg' = [msg EXCEPT ![i] = Message(c, None, r)]
        /\ UNCHANGED <<wire, unsure>>
        /\ \E cs \in SUBSET Local(Home[c]) : Receive(cs, i)
    BY <2>1 DEF Broadcast, Unused
  <2>4. \A m \in Nodes, j \in Ids : j # i /\ Pending(m, j)' => Pending(m, j)
    BY <2>1, CarryBroadcast
  <2> QED
    BY <2>2, <2>3, <2>4, CountSent
<1> QED
  BY <1>1, <1>2

(* Every step keeps the count. *)
LEMMA CountStep ==
    ASSUME Base, WireInv, GotInv, CountInv, [Next]_vars
    PROVE  CountInv'
<1>1. Base' /\ \A n \in Nodes : Due(n) \subseteq DOMAIN calls[n]
  BY BaseStep DEF Due
<1>2. ASSUME UNCHANGED <<msg, wire, got, unsure>>,
             \A m \in Nodes, j \in Ids : Pending(m, j)' => Pending(m, j)
      PROVE  CountInv'
  BY <1>1, <1>2, CountStill DEF Base
<1>3. ASSUME NEW c \in Conns, Connect(c) \/ Disconnect(c) PROVE CountInv'
  <2>1. UNCHANGED <<msg, wire, got, unsure>>
    BY <1>3 DEF Connect, Disconnect
  <2> QED
    BY <1>2, <1>3, <2>1, CarryConnection
<1>4. ASSUME UNCHANGED <<registry, calls, answers, msg, wire, got, unsure>> PROVE CountInv'
  BY <1>2, <1>4, CarryStill
<1>5. ASSUME NEW c \in Conns, NEW r \in Rooms, JoinRoom(c, r) \/ LeaveRoom(c, r)
      PROVE  CountInv'
  BY <1>4, <1>5 DEF JoinRoom, LeaveRoom, redisVars
<1>6. ASSUME UNCHANGED vars PROVE CountInv'
  BY <1>4, <1>6 DEF vars, redisVars
<1>7. ASSUME NEW n \in Nodes, NEW k \in DOMAIN calls[n], NEW o \in {"ok", "error", "late"},
             Register(n, k, o) \/ GetNodeGo(n, k, o) \/ GetNodeJs(n, k, o)
      PROVE  CountInv'
  <2>1. UNCHANGED <<msg, wire, got, unsure>>
    BY <1>7 DEF Register, GetNodeGo, GetNodeJs
  <2> QED
    BY <1>2, <1>7, <2>1, CarryRegister, CarryGetNodeGo, CarryGetNodeJs
<1>8. ASSUME NEW n \in Nodes, NEW k \in DOMAIN calls[n], NEW o \in {"ok", "error", "late"},
             PublishDirect(n, k, o) \/ PublishRoom(n, k, o)
      PROVE  CountInv'
  BY <1>1, <1>8, CountPublishDirect, CountPublishRoom
<1>9. ASSUME NEW n \in Nodes, Resolved(n) PROVE CountInv'
  <2>1. UNCHANGED <<msg, wire, got, unsure>>
    BY <1>9 DEF Resolved
  <2> QED
    BY <1>2, <1>9, <2>1, CarryResolved
<1>10. ASSUME NEW n \in Nodes, Listen(n) PROVE CountInv'
  <2>1. CASE \E ch \in {RoomChannel, NodeChannel} : Resubscribe(n, ch)
    BY <1>4, <2>1 DEF Resubscribe
  <2> QED
    BY <1>1, <1>10, <2>1, CountDeliver, CountLinkBreaks DEF Listen
<1> QED
  BY <1>1, <1>3, <1>5, <1>6, <1>7, <1>8, <1>9, <1>10, CountSend, Steps

-----------------------------------------------------------------------------
(* The promise *)

DeliveryInv == Base /\ WireInv /\ GotInv /\ CountInv

(* The delivery invariant holds at the start. *)
LEMMA DeliveryInit == Init => DeliveryInv
<1> SUFFICES ASSUME Init PROVE DeliveryInv
  OBVIOUS
<1>1. WireInv /\ GotInv /\ CountInv
  BY DEF Init, WireInv, GotInv, CountInv, Abroad
<1> QED
  BY <1>1, BaseInit DEF DeliveryInv

(* Every step keeps the delivery invariant. *)
LEMMA DeliveryStep ==
    ASSUME DeliveryInv, [Next]_vars
    PROVE  DeliveryInv'
  BY BaseStep, TransitStep, CountStep DEF DeliveryInv

(* The copies that the promise counts are the meetings counted here. *)
LEMMA CopiesAreTimes ==
    ASSUME NEW s, NEW i
    PROVE  Promise!Copies(s, i) = Times(s, {i})
<1>1. \A S : Promise!Cardinality(S) = Cardinality(S)
  BY DEF Promise!Cardinality, Cardinality
<1>2. {k \in DOMAIN s : s[k] = i} = Hits(s, {i})
  BY DEF Hits
<1> QED
  BY <1>1, <1>2 DEF Promise!Copies, Times

(* A message that has just been sent is handed to connections that may hear *)
(* it and do not have it.                                                   *)
LEMMA PromiseSent ==
    ASSUME DeliveryInv, NEW i \in Ids, msg[i] = None, NEW m \in Record,
           msg' = [msg EXCEPT ![i] = m], UNCHANGED <<rooms, unsure>>,
           NEW cs \in SUBSET Conns, Receive(cs, i),
           \A e \in cs : /\ m.dst # None => e = m.dst
                         /\ m.dst = None => e # m.src /\ m.room \in rooms[e]
    PROVE  Promise!Send(i)
<1>1. msg'[i] = m
  BY DEF DeliveryInv, Base, ClusterType
<1>2. \A e \in cs : Promise!MayHear(e, msg'[i])
  BY <1>1 DEF Promise!MayHear
<1>3. \A e \in cs : Promise!Copies(got[e], i) = 0
  <2> TAKE e \in cs
  <2>1. got[e] \in Seq(Ids) /\ \A k \in DOMAIN got[e] : got[e][k] \notin {i}
    BY DEF DeliveryInv, Base, ClusterType, GotInv
  <2> QED
    BY <2>1, TimesZero, CopiesAreTimes
<1>4. Promise!Hand(i, cs)
  BY <1>3 DEF Promise!Hand, Receive
<1>5. cs \in SUBSET {e \in Conns : Promise!MayHear(e, msg'[i])}
  BY <1>2
<1>6. PICK src \in Conns, dst \in Conns \cup {None}, room \in Rooms :
          m = [src |-> src, dst |-> dst, room |-> room]
  BY DEF Record
<1> QED
  BY <1>4, <1>5, <1>6 DEF Promise!Send

(* Sending a message, with what the sender's node hands over at once, is    *)
(* the promise's Send.                                                      *)
LEMMA PromiseSend ==
    ASSUME DeliveryInv, NEW c \in Conns, NEW i \in Ids,
           (\E d \in Conns : SendDirect(c, d, i)) \/ (\E r \in Rooms : Broadcast(c, r, i))
    PROVE  Promise!Send(i)
<1>1. ASSUME NEW d \in Conns, SendDirect(c, d, i) PROVE Promise!Send(i)
  <2> DEFINE m == Message(c, d, Root)
             cs == IF d \in Local(Home[c]) THEN {d} ELSE {}
  <2>1. m \in Record /\ m.dst = d /\ d # None
    BY RoomAssumption, NoneAssumption DEF Message, Record
  <2>2. /\ msg[i] = None /\ msg' = [msg EXCEPT ![i] = m] /\ UNCHANGED <<rooms, unsure>>
    BY <1>1 DEF SendDirect, Unused, connVars
  <2>3. Receive(cs, i)
    BY <1>1 DEF SendDirect, Receive, DeliveryInv, Base, ClusterType
  <2>4. cs \in SUBSET Conns /\ \A e \in cs : e = d
    OBVIOUS
  <2> HIDE DEF cs, m
  <2> QED
    BY <2>1, <2>2, <2>3, <2>4, PromiseSent
<1>2. ASSUME NEW r \in Rooms, Broadcast(c, r, i) PROVE Promise!Send(i)
  <2> DEFINE m == Message(c, None, r)
             cs == ({d \in Conns : r \in rooms[d]} \ {c}) \cap Local(Home[c])
  <2>1. m \in Record /\ m.dst = None /\ m.src = c /\ m.room = r
    BY DEF Message, Record
  <2>2. /\ msg[i] = None /\ msg' = [msg EXCEPT ![i] = m] /\ UNCHANGED <<rooms, unsure>>
        /\ Receive(cs, i)
    BY <1>2 DEF Broadcast, Unused, connVars
  <2>3. cs \in SUBSET Conns /\ \A e \in cs : e # c /\ r \in rooms[e]
    BY DEF Local
  <2> HIDE DEF cs, m
  <2> QED
    BY <2>1, <2>2, <2>3, PromiseSent
<1> QED
  BY <1>1, <1>2

(* What is taken off the wire goes to connections that may hear it and have *)
(* room for it in their count.                                              *)
LEMMA PromiseDeliver ==
    ASSUME DeliveryInv, NEW n \in Nodes, Deliver(n)
    PROVE  \E i \in Ids : Promise!Deliver(i)
<1> DEFINE e == Head(wire[n])
           i == e.id
           cs == Recipients(n, e)
<1>1. /\ wire[n] # << >> /\ wire[n] \in Seq(Envelopes) /\ Receive(cs, i)
      /\ UNCHANGED <<msg, rooms, unsure>>
  BY DEF Deliver, DeliveryInv, Base, ClusterType, connVars
<1>2. e \in Envelopes /\ i \in Ids /\ EnvFits(msg, e)
  BY <1>1, HeadOfWire DEF DeliveryInv, Base
<1>3. ASSUME NEW c \in cs
      PROVE  /\ c \in Conns /\ Promise!MayHear(c, msg[i])
             /\ Home[c] = n /\ Abroad(c, i)
  <2>1. c \in Local(n) /\ e.from # n
    BY DEF Recipients
  <2>2. c \in Conns /\ Home[c] = n /\ Abroad(c, i)
    BY <1>2, <2>1 DEF Local, Abroad, EnvFits
  <2>3. CASE msg[i].dst # None
    BY <2>2, <2>3 DEF Recipients, Promise!MayHear
  <2>4. CASE msg[i].dst = None
    <3>1. Alias[e.channel] \in rooms[c] /\ c # msg[i].src /\ e.channel = msg[i].room
      BY <1>2, <2>4 DEF Recipients, EnvFits
    <3> QED
      BY <2>2, <2>4, <3>1 DEF Promise!MayHear
  <2> QED
    BY <2>2, <2>3, <2>4
<1>4. ASSUME NEW c \in cs
      PROVE  Promise!Copies(got[c], i) = 0 \/ (i \in unsure /\ Promise!Copies(got[c], i) = 1)
  <2>1. c \in Conns /\ Home[c] = n /\ Abroad(c, i)
    BY <1>3
  <2>2. Stock(c, i) + ToCome(i) <= Limit(i)
    BY <1>2, <2>1 DEF DeliveryInv, CountInv
  <2>3. Times(wire[n], Env(i)) > 0
    <3>1. 1 \in DOMAIN wire[n] /\ wire[n][1] = e
      BY <1>1, TailElements
    <3>2. e \in Env(i)
      BY <1>2 DEF Env
    <3>3. \E k \in DOMAIN wire[n] : wire[n][k] \in Env(i)
      BY <3>1, <3>2
    <3> QED
      BY <1>1, <3>3, TimesZero
  <2>4. Times(got[c], {i}) \in Nat /\ Times(wire[n], Env(i)) \in Nat
    BY <2>1, StockType DEF DeliveryInv, Base
  <2>5. ToCome(i) \in 0..1 /\ Limit(i) = IF i \in unsure THEN 2 ELSE 1
    BY DEF ToCome, Limit
  <2>6. Times(got[c], {i}) = 0 \/ (i \in unsure /\ Times(got[c], {i}) = 1)
    BY <2>1, <2>2, <2>3, <2>4, <2>5 DEF Stock
  <2> QED
    BY <2>6, CopiesAreTimes
<1> HIDE DEF i, cs
<1>5. Promise!Hand(i, cs)
  BY <1>1, <1>4 DEF Promise!Hand, Receive
<1>6. cs \in SUBSET {c \in Conns : Promise!MayHear(c, msg[i])}
  BY <1>3
<1>7. Promise!Deliver(i)
  BY <1>1, <1>2, <1>5, <1>6 DEF Promise!Deliver, EnvFits, i
<1> QED
  BY <1>2, <1>7 DEF i

(* Publishing to a node is invisible, or the promise's SendAgain when the   *)
(* command timed out after it took effect.                                  *)
LEMMA PromiseRepeat ==
    ASSUME DeliveryInv, NEW n \in Nodes, NEW k \in DOMAIN calls[n], NEW o, PublishDirect(n, k, o)
    PROVE  UNCHANGED Promise!vars \/ \E i \in Ids : Promise!SendAgain(i)
<1> DEFINE i == calls[n][k].arg
<1>1. i \in Ids /\ Fits(msg, unsure, n, calls[n][k]) /\ calls[n][k].op = "direct"
  BY CallAt DEF PublishDirect, MessageOps, DeliveryInv
<1>2. msg[i] # None /\ msg[i].dst # None /\ Home[msg[i].src] = n /\ i \notin unsure
  BY <1>1 DEF Fits
<1>3. UNCHANGED <<msg, rooms, got>>
  BY DEF PublishDirect, connVars
<1>4. CASE unsure' = unsure
  BY <1>3, <1>4 DEF Promise!vars
<1>5. CASE unsure' # unsure
  <2>1. Kind[n] = "go" /\ unsure' = unsure \cup {i}
    BY <1>5 DEF PublishDirect, FallsBack
  <2>2. msg[i].src \in Conns
    BY <1>1, <1>2 DEF DeliveryInv, Base, ClusterType, Record
  <2>3. Promise!SendAgain(i)
    BY <1>2, <1>3, <2>1, <2>2 DEF Promise!SendAgain
  <2> QED
    BY <1>1, <2>3
<1> QED
  BY <1>4, <1>5

(* Every step of the cluster is a step of the promise or invisible to it. *)
LEMMA PromiseStep ==
    ASSUME DeliveryInv, DeliveryInv', [Next]_vars
    PROVE  [Promise!Next]_(Promise!vars)
<1>1. \A n \in Nodes : Due(n) \subseteq DOMAIN calls[n]
  BY DEF Due
<1>2. ASSUME NEW c \in Conns, Connect(c) \/ Disconnect(c)
      PROVE  [Promise!Next]_(Promise!vars)
  <2>1. UNCHANGED <<msg, got, unsure>>
    BY <1>2 DEF Connect, Disconnect
  <2> QED
    BY <2>1 DEF DeliveryInv, Base, ClusterType, Promise!Next, Promise!Move
<1>3. ASSUME NEW c \in Conns, NEW r \in Rooms, JoinRoom(c, r) \/ LeaveRoom(c, r)
      PROVE  [Promise!Next]_(Promise!vars)
  <2>1. UNCHANGED <<msg, got, unsure>>
    BY <1>3 DEF JoinRoom, LeaveRoom
  <2> QED
    BY <2>1 DEF DeliveryInv, Base, ClusterType, Promise!Next, Promise!Move
<1>4. ASSUME NEW n \in Nodes, NEW k \in DOMAIN calls[n], NEW o \in {"ok", "error", "late"},
             \/ Register(n, k, o) \/ GetNodeGo(n, k, o) \/ GetNodeJs(n, k, o)
             \/ PublishRoom(n, k, o)
      PROVE  [Promise!Next]_(Promise!vars)
  BY <1>4 DEF Register, GetNodeGo, GetNodeJs, PublishRoom, connVars, Promise!vars
<1>5. ASSUME NEW n \in Nodes, NEW k \in DOMAIN calls[n], NEW o \in {"ok", "error", "late"},
             PublishDirect(n, k, o)
      PROVE  [Promise!Next]_(Promise!vars)
  BY <1>5, PromiseRepeat DEF Promise!Next
<1>6. ASSUME NEW n \in Nodes, Resolved(n) \/ Listen(n)
      PROVE  [Promise!Next]_(Promise!vars)
  <2>1. CASE Deliver(n)
    BY <2>1, PromiseDeliver DEF Promise!Next
  <2>2. CASE Resolved(n) \/ LinkBreaks(n) \/ \E ch \in {RoomChannel, NodeChannel} : Resubscribe(n, ch)
    BY <2>2 DEF Resolved, LinkBreaks, Resubscribe, connVars, Promise!vars
  <2> QED
    BY <1>6, <2>1, <2>2 DEF Listen
<1>7. ASSUME NEW c \in Conns, NEW i \in Ids,
             (\E d \in Conns : SendDirect(c, d, i)) \/ (\E r \in Rooms : Broadcast(c, r, i))
      PROVE  [Promise!Next]_(Promise!vars)
  BY <1>7, PromiseSend DEF Promise!Next
<1>8. ASSUME UNCHANGED vars PROVE [Promise!Next]_(Promise!vars)
  BY <1>8 DEF vars, connVars, Promise!vars
<1> QED
  BY <1>1, <1>2, <1>3, <1>4, <1>5, <1>6, <1>7, <1>8, Steps

(* The cluster starts where the promise does. *)
LEMMA PromiseInit == Init => Promise!Init
<1> SUFFICES ASSUME Init PROVE Promise!Init
  OBVIOUS
<1>1. rooms \in [Conns -> SUBSET Rooms]
  BY TypeInit DEF ClusterType
<1> QED
  BY <1>1 DEF Init, Promise!Init

(* At most one copy of a message, two after a publish of Go's that timed    *)
(* out, ever exists for a connection of another node, delivered, on the     *)
(* wire and to come together, whatever commands fail, time out or are heard *)
(* late (sendDirectToCluster, send_direct_to_cluster).                      *)
THEOREM DeliveryInvariant == Spec => []DeliveryInv
<1>1. DeliveryInv /\ [Next]_vars => DeliveryInv'
  BY DeliveryStep
<1> QED
  BY <1>1, DeliveryInit, PTL DEF Spec

(* The cluster keeps the promise of Delivery: no connection is handed a     *)
(* message it was not sent, nor one twice, except that sendDirectToCluster  *)
(* of Go may repeat one when PublishDirect failed after it was carried out  *)
(* (hub.go:333).                                                            *)
THEOREM PromiseKept == Spec => KeepsPromise
<1>1. DeliveryInv /\ DeliveryInv' /\ [Next]_vars => [Promise!Next]_(Promise!vars)
  BY PromiseStep
<1> QED
  BY <1>1, DeliveryInvariant, PromiseInit, PTL DEF Spec, KeepsPromise, Promise!Spec

-----------------------------------------------------------------------------
(* Nothing is lost without faults *)

(* Only an open connection is a member of a room. *)
RoomsInv == \A c \in Conns : rooms[c] # {} => conn[c] = "open"

(* Until something fails every node is subscribed to both channels. *)
LinkInv == faults = 0 => \A n \in Nodes : link[n] = {RoomChannel, NodeChannel}

(* Who is owed a message is open, and its destination or an audible member  *)
(* of its room.                                                             *)
Entitled(c, m) ==
    /\ m # None /\ conn[c] = "open"
    /\ m.dst # None => c = m.dst
    /\ m.dst = None => /\ c # m.src /\ m.room \in rooms[c]
                       /\ Audible(Home[m.src], c, m.room)

OwedInv == \A i \in Ids : \A c \in owed[i] : Entitled(c, msg[i])

Has(c, i) == \E k \in DOMAIN got[c] : got[c][k] = i

OnWay(c, i) == \E k \in DOMAIN wire[Home[c]] : wire[Home[c]][k].id = i

Coming(c, i) == Home[c] # Home[msg[i].src] /\ Pending(Home[msg[i].src], i)

(* Until something fails, a message that is owed has arrived, is on the     *)
(* wire, or is under way on its sender's node.                              *)
LiveFor(i) == \A c \in owed[i] : Has(c, i) \/ OnWay(c, i) \/ Coming(c, i)

LiveInv == faults = 0 => \A i \in Ids : LiveFor(i)

(* On its sender's own node a message is handed over at once. *)
NearInv == \A i \in Ids : \A c \in owed[i] : Home[c] = Home[msg[i].src] => Has(c, i)

LossInv == RoomsInv /\ LinkInv /\ OwedInv /\ NearInv /\ LiveInv

(* Every step keeps members open: closing leaves every room. *)
LEMMA RoomsStep ==
    ASSUME ClusterType, RoomsInv, [Next]_vars
    PROVE  RoomsInv'
<1>1. ASSUME NEW c \in Conns, Connect(c) \/ Disconnect(c) PROVE RoomsInv'
  BY <1>1 DEF Connect, Disconnect, RoomsInv, ClusterType
<1>2. ASSUME NEW c \in Conns, NEW r \in Rooms, JoinRoom(c, r) \/ LeaveRoom(c, r) PROVE RoomsInv'
  BY <1>2 DEF JoinRoom, LeaveRoom, RoomsInv, ClusterType
<1>3. ASSUME UNCHANGED <<conn, rooms>> PROVE RoomsInv'
  BY <1>3 DEF RoomsInv
<1>4. ASSUME NEW c \in Conns, NEW i \in Ids,
             (\E d \in Conns : SendDirect(c, d, i)) \/ (\E r \in Rooms : Broadcast(c, r, i))
      PROVE  UNCHANGED <<conn, rooms>>
  BY <1>4 DEF SendDirect, Broadcast, connVars
<1>5. ASSUME NEW n \in Nodes, NEW k \in Due(n), NEW o \in {"ok", "error", "late"},
             \/ Register(n, k, o) \/ GetNodeGo(n, k, o) \/ GetNodeJs(n, k, o)
             \/ PublishDirect(n, k, o) \/ PublishRoom(n, k, o)
      PROVE  UNCHANGED <<conn, rooms>>
  BY <1>5 DEF Register, GetNodeGo, GetNodeJs, PublishDirect, PublishRoom, connVars
<1>6. ASSUME NEW n \in Nodes, Resolved(n) \/ Listen(n) PROVE UNCHANGED <<conn, rooms>>
  BY <1>6 DEF Resolved, Listen, Deliver, LinkBreaks, Resubscribe, connVars
<1>7. ASSUME UNCHANGED vars PROVE UNCHANGED <<conn, rooms>>
  BY <1>7 DEF vars, connVars
<1> QED
  BY <1>1, <1>2, <1>3, <1>4, <1>5, <1>6, <1>7, Steps

(* A fault is not forgotten. *)
LEMMA FaultsGrow ==
    ASSUME ClusterType, [Next]_vars, faults' = 0
    PROVE  faults = 0
<1>1. CASE UNCHANGED faults
  BY <1>1
<1>2. ASSUME NEW o, Outcome(o) PROVE faults = 0
  BY <1>2, OutcomeType DEF ClusterType
<1>3. ASSUME NEW c \in Conns, Connect(c) \/ Disconnect(c) PROVE UNCHANGED faults
  BY <1>3 DEF Connect, Disconnect
<1>4. ASSUME NEW c \in Conns, NEW r \in Rooms, JoinRoom(c, r) \/ LeaveRoom(c, r)
      PROVE  UNCHANGED faults
  BY <1>4 DEF JoinRoom, LeaveRoom
<1>5. ASSUME NEW c \in Conns, NEW i \in Ids,
             (\E d \in Conns : SendDirect(c, d, i)) \/ (\E r \in Rooms : Broadcast(c, r, i))
      PROVE  UNCHANGED faults
  BY <1>5 DEF SendDirect, Broadcast
<1>6. ASSUME NEW n \in Nodes, NEW k \in Due(n), NEW o \in {"ok", "error", "late"},
             \/ Register(n, k, o) \/ GetNodeGo(n, k, o) \/ GetNodeJs(n, k, o)
             \/ PublishDirect(n, k, o) \/ PublishRoom(n, k, o)
      PROVE  Outcome(o)
  BY <1>6 DEF Register, GetNodeGo, GetNodeJs, PublishDirect, PublishRoom
<1>7. ASSUME NEW n \in Nodes, Resolved(n) \/ Listen(n)
      PROVE  UNCHANGED faults \/ Outcome("lost")
  BY <1>7 DEF Resolved, Listen, Deliver, LinkBreaks, Resubscribe
<1>8. ASSUME UNCHANGED vars PROVE UNCHANGED faults
  BY <1>8 DEF vars
<1> QED
  BY <1>1, <1>2, <1>3, <1>4, <1>5, <1>6, <1>7, <1>8, Steps

(* Only a fault unsubscribes a node. *)
LEMMA LinkStep ==
    ASSUME ClusterType, LinkInv, [Next]_vars
    PROVE  LinkInv'
<1> SUFFICES ASSUME faults' = 0 PROVE \A n \in Nodes : link'[n] = {RoomChannel, NodeChannel}
  BY DEF LinkInv
<1>1. \A n \in Nodes : link[n] = {RoomChannel, NodeChannel}
  BY FaultsGrow DEF LinkInv
<1>2. ASSUME UNCHANGED link PROVE \A n \in Nodes : link'[n] = {RoomChannel, NodeChannel}
  BY <1>1, <1>2
<1>3. ASSUME NEW c \in Conns, Connect(c) \/ Disconnect(c) PROVE UNCHANGED link
  BY <1>3 DEF Connect, Disconnect
<1>4. ASSUME NEW c \in Conns, NEW r \in Rooms, JoinRoom(c, r) \/ LeaveRoom(c, r)
      PROVE  UNCHANGED link
  BY <1>4 DEF JoinRoom, LeaveRoom, redisVars
<1>5. ASSUME NEW c \in Conns, NEW i \in Ids,
             (\E d \in Conns : SendDirect(c, d, i)) \/ (\E r \in Rooms : Broadcast(c, r, i))
      PROVE  UNCHANGED link
  BY <1>5 DEF SendDirect, Broadcast
<1>6. ASSUME NEW n \in Nodes, NEW k \in Due(n), NEW o \in {"ok", "error", "late"},
             \/ Register(n, k, o) \/ GetNodeGo(n, k, o) \/ GetNodeJs(n, k, o)
             \/ PublishDirect(n, k, o) \/ PublishRoom(n, k, o)
      PROVE  UNCHANGED link
  BY <1>6 DEF Register, GetNodeGo, GetNodeJs, PublishDirect, PublishRoom
<1>7. ASSUME NEW n \in Nodes, Resolved(n) \/ Listen(n) PROVE UNCHANGED link
  <2>1. CASE Resolved(n) \/ Deliver(n)
    BY <2>1 DEF Resolved, Deliver
  <2>2. CASE LinkBreaks(n)
    <3>1. Outcome("lost") /\ "lost" # "ok"
      BY <2>2 DEF LinkBreaks
    <3> QED
      BY <3>1, OutcomeType
  <2>3. CASE \E ch \in {RoomChannel, NodeChannel} : Resubscribe(n, ch)
    BY <1>1, <2>3 DEF Resubscribe
  <2> QED
    BY <1>7, <2>1, <2>2, <2>3 DEF Listen
<1>8. ASSUME UNCHANGED vars PROVE UNCHANGED link
  BY <1>8 DEF vars, redisVars
<1> QED
  BY <1>2, <1>3, <1>4, <1>5, <1>6, <1>7, <1>8, Steps

(* Who leaves or closes is no longer owed anything. *)
LEMMA OwedStep ==
    ASSUME ClusterType, OwedInv, RoomsInv, [Next]_vars
    PROVE  OwedInv'
<1>1. ASSUME NEW c \in Conns, Connect(c) PROVE OwedInv'
  BY <1>1 DEF Connect, OwedInv, Entitled, Audible, ClusterType
<1>2. ASSUME NEW c \in Conns, Disconnect(c) PROVE OwedInv'
  <2>1. ASSUME NEW i \in Ids, NEW d \in owed'[i]
        PROVE  /\ d \in owed[i] /\ d \in Conns /\ msg' = msg
               /\ conn'[d] = conn[d] /\ rooms'[d] = rooms[d]
    BY <1>2, <2>1 DEF Disconnect, ClusterType
  <2> QED
    BY <2>1 DEF OwedInv, Entitled, Audible
<1>3. ASSUME NEW c \in Conns, NEW r \in Rooms, JoinRoom(c, r) PROVE OwedInv'
  <2>1. /\ msg' = msg /\ owed' = owed /\ conn' = conn
        /\ \A d \in Conns : rooms[d] \subseteq rooms'[d]
    BY <1>3 DEF JoinRoom, ClusterType
  <2>2. \A i \in Ids : \A d \in owed[i] : d \in Conns
    BY DEF ClusterType
  <2> QED
    BY <2>1, <2>2 DEF OwedInv, Entitled, Audible
<1>4. ASSUME NEW c \in Conns, NEW r \in Rooms, LeaveRoom(c, r) PROVE OwedInv'
  <2>1. ASSUME NEW i \in Ids, NEW d \in owed'[i]
        PROVE  /\ d \in owed[i] /\ d \in Conns /\ msg' = msg /\ conn' = conn
               /\ \/ rooms'[d] = rooms[d]
                  \/ /\ rooms'[d] = rooms[d] \ {r}
                     /\ msg[i] = None \/ msg[i].dst # None \/ msg[i].room # r
    BY <1>4, <2>1 DEF LeaveRoom, ClusterType
  <2> QED
    BY <2>1 DEF OwedInv, Entitled, Audible
<1>5. ASSUME UNCHANGED <<conn, rooms, msg, owed>> PROVE OwedInv'
  BY <1>5 DEF OwedInv, Entitled, Audible
<1>6. ASSUME NEW c \in Conns, NEW d \in Conns, NEW i \in Ids, SendDirect(c, d, i) PROVE OwedInv'
  <2>1. /\ conn' = conn /\ rooms' = rooms /\ msg'[i] = Message(c, d, Root)
        /\ owed'[i] = {d} \cap {e \in Conns : conn[e] = "open"}
        /\ \A j \in Ids : j # i => msg'[j] = msg[j] /\ owed'[j] = owed[j]
    BY <1>6 DEF SendDirect, connVars, ClusterType
  <2>2. Message(c, d, Root) \in Record /\ d # None
    BY RoomAssumption, NoneAssumption DEF Message, Record
  <2>3. Message(c, d, Root) # None /\ Message(c, d, Root).dst = d
    BY <2>2, NoneAssumption DEF Record, Message
  <2>4. \A e \in owed'[i] : Entitled(e, msg[i])'
    BY <2>1, <2>2, <2>3 DEF Entitled
  <2>5. ASSUME NEW j \in Ids, j # i, NEW e \in owed'[j] PROVE Entitled(e, msg[j])'
    BY <2>1, <2>5 DEF OwedInv, Entitled, Audible
  <2> QED
    BY <2>4, <2>5 DEF OwedInv
<1>7. ASSUME NEW c \in Conns, NEW r \in Rooms, NEW i \in Ids, Broadcast(c, r, i) PROVE OwedInv'
  <2>1. /\ conn' = conn /\ rooms' = rooms /\ msg'[i] = Message(c, None, r)
        /\ owed'[i] \subseteq {d \in {d \in Conns : r \in rooms[d]} \ {c} : Audible(Home[c], d, r)}
        /\ \A j \in Ids : j # i => msg'[j] = msg[j] /\ owed'[j] = owed[j]
    BY <1>7 DEF Broadcast, connVars, ClusterType
  <2>2. Message(c, None, r) \in Record
    BY DEF Message, Record
  <2>3. /\ Message(c, None, r) # None /\ Message(c, None, r).dst = None
        /\ Message(c, None, r).src = c /\ Message(c, None, r).room = r
    BY <2>2, NoneAssumption DEF Record, Message
  <2>4. \A e \in owed'[i] : Entitled(e, msg[i])'
    BY <2>1, <2>3 DEF Entitled, RoomsInv, Audible
  <2>5. ASSUME NEW j \in Ids, j # i, NEW e \in owed'[j] PROVE Entitled(e, msg[j])'
    BY <2>1, <2>5 DEF OwedInv, Entitled, Audible
  <2> QED
    BY <2>4, <2>5 DEF OwedInv
<1>8. ASSUME NEW n \in Nodes, NEW k \in Due(n), NEW o \in {"ok", "error", "late"},
             \/ Register(n, k, o) \/ GetNodeGo(n, k, o) \/ GetNodeJs(n, k, o)
             \/ PublishDirect(n, k, o) \/ PublishRoom(n, k, o)
      PROVE  UNCHANGED <<conn, rooms, msg, owed>>
  BY <1>8 DEF Register, GetNodeGo, GetNodeJs, PublishDirect, PublishRoom, connVars
<1>9. ASSUME NEW n \in Nodes, Resolved(n) \/ Listen(n) PROVE UNCHANGED <<conn, rooms, msg, owed>>
  BY <1>9 DEF Resolved, Listen, Deliver, LinkBreaks, Resubscribe, connVars
<1>10. ASSUME UNCHANGED vars PROVE UNCHANGED <<conn, rooms, msg, owed>>
  BY <1>10 DEF vars, connVars
<1> QED
  BY <1>1, <1>2, <1>3, <1>4, <1>5, <1>6, <1>7, <1>8, <1>9, <1>10, Steps

(* What was received stays, and what was on the wire of a node too unless   *)
(* it is taken.                                                             *)
LEMMA HasGrows ==
    ASSUME ClusterType, UNCHANGED got \/ \E j \in Ids : \E cs : Receive(cs, j),
           NEW c \in Conns, NEW i \in Ids, Has(c, i)
    PROVE  Has(c, i)'
<1>1. CASE UNCHANGED got
  BY <1>1 DEF Has
<1>2. CASE \E j \in Ids : \E cs : Receive(cs, j)
  <2>1. PICK j \in Ids : got'[c] = got[c] \/ got'[c] = Append(got[c], j)
    BY <1>2 DEF Receive
  <2>2. got[c] \in Seq(Ids)
    BY DEF ClusterType
  <2>3. \A k \in DOMAIN got[c] : k \in DOMAIN Append(got[c], j) /\ Append(got[c], j)[k] = got[c][k]
    BY <2>2, AppendElements
  <2> QED
    BY <2>1, <2>3 DEF Has
<1> QED
  BY <1>1, <1>2

(* Who is handed a message has it. *)
LEMMA HasReceived ==
    ASSUME ClusterType, NEW cs, NEW i \in Ids, Receive(cs, i), NEW c \in Conns, c \in cs
    PROVE  Has(c, i)'
<1>1. got[c] \in Seq(Ids) /\ got'[c] = Append(got[c], i)
  BY DEF ClusterType, Receive
<1>2. Len(got[c]) + 1 \in DOMAIN Append(got[c], i) /\ Append(got[c], i)[Len(got[c]) + 1] = i
  BY <1>1, AppendElements
<1> QED
  BY <1>1, <1>2 DEF Has

(* What is published is on the way to every node that hears it, and nothing *)
(* leaves the wire by it.                                                   *)
LEMMA OnWayPublished ==
    ASSUME ClusterType, NEW ns, NEW env \in Envelopes, NEW o, Published(ns, env, o),
           NEW c \in Conns
    PROVE  /\ \A i \in Ids : OnWay(c, i) => OnWay(c, i)'
           /\ o # "error" /\ Home[c] \in ns => OnWay(c, env.id)'
<1>1. wire[Home[c]] \in Seq(Envelopes) /\ Home[c] \in Nodes
  BY HomeAssumption DEF ClusterType
<1>2. wire'[Home[c]] = IF Home[c] \in ns /\ o # "error" THEN Append(wire[Home[c]], env)
                       ELSE wire[Home[c]]
  BY <1>1 DEF Published
<1>3. \A s \in Seq(Envelopes) :
          /\ \A k \in DOMAIN s : k \in DOMAIN Append(s, env) /\ Append(s, env)[k] = s[k]
          /\ Len(s) + 1 \in DOMAIN Append(s, env) /\ Append(s, env)[Len(s) + 1] = env
  BY AppendElements
<1> QED
  BY <1>1, <1>2, <1>3 DEF OnWay

(* A message that is owed was sent, by a client of some node. *)
LEMMA OwedSent ==
    ASSUME ClusterType, OwedInv, NEW i \in Ids, NEW c \in owed[i]
    PROVE  /\ c \in Conns /\ msg[i] # None /\ msg[i] \in Record /\ Entitled(c, msg[i])
           /\ msg[i].src \in Conns /\ Home[msg[i].src] \in Nodes /\ Home[c] \in Nodes
<1>1. c \in Conns /\ Entitled(c, msg[i])
  BY DEF ClusterType, OwedInv
<1>2. msg[i] # None /\ msg[i] \in Record
  BY <1>1 DEF Entitled, ClusterType
<1> QED
  BY <1>1, <1>2, HomeAssumption DEF Record

(* Where nobody more is owed anything and nothing ends. *)
LEMMA LiveStill ==
    ASSUME ClusterType, OwedInv, LiveInv, [Next]_vars, UNCHANGED <<msg, wire, got>>,
           faults' = 0 => \A m \in Nodes, j \in Ids : Pending(m, j) => Pending(m, j)',
           \A i \in Ids : owed'[i] \subseteq owed[i]
    PROVE  LiveInv'
<1> SUFFICES ASSUME faults' = 0, NEW i \in Ids, NEW c \in owed'[i]
             PROVE  Has(c, i)' \/ OnWay(c, i)' \/ Coming(c, i)'
  BY DEF LiveInv, LiveFor
<1>1. c \in owed[i] /\ Home[msg[i].src] \in Nodes
  BY OwedSent
<1>2. Has(c, i) \/ OnWay(c, i) \/ Coming(c, i)
  BY <1>1, FaultsGrow DEF LiveInv, LiveFor
<1> QED
  BY <1>1, <1>2 DEF Has, OnWay, Coming

(* A message is sent: those it is owed to on the same node have it, and for *)
(* the others it is under way.                                              *)
LEMMA LiveSent ==
    ASSUME Base, OwedInv, LiveInv, [Next]_vars, NEW c \in Conns, NEW i \in Ids, NEW m \in Record,
           m.src = c, msg[i] = None, msg' = [msg EXCEPT ![i] = m], UNCHANGED wire,
           UNCHANGED got \/ \E cs : Receive(cs, i),
           \A j \in Ids : j # i => owed'[j] = owed[j],
           \A n \in Nodes, j \in Ids : Pending(n, j) => Pending(n, j)',
           LiveFor(i)'
    PROVE  LiveInv'
<1> SUFFICES ASSUME faults' = 0, NEW j \in Ids, NEW d \in owed'[j]
             PROVE  Has(d, j)' \/ OnWay(d, j)' \/ Coming(d, j)'
  BY DEF LiveInv, LiveFor
<1>0. ClusterType /\ msg \in [Ids -> Record \cup {None}]
  BY DEF Base, ClusterType
<1>1. CASE j = i
  BY <1>1 DEF LiveFor
<1>2. CASE j # i
  <2>1. d \in owed[j] /\ d \in Conns /\ Home[msg[j].src] \in Nodes
    BY <1>0, <1>2, OwedSent
  <2>2. Has(d, j) \/ OnWay(d, j) \/ Coming(d, j)
    BY <1>0, <2>1, FaultsGrow DEF LiveInv, LiveFor
  <2>3. msg'[j] = msg[j]
    BY <1>0, <1>2
  <2>4. Has(d, j) => Has(d, j)'
    BY <1>0, <2>1, HasGrows
  <2> QED
    BY <2>1, <2>2, <2>3, <2>4 DEF OnWay, Coming
<1> QED
  BY <1>1, <1>2

(* A message that is sent has arrived, or is under way, for everyone it is  *)
(* owed to.                                                                 *)
LEMMA LiveSend ==
    ASSUME Base, RoomsInv, OwedInv, LiveInv, [Next]_vars, NEW c \in Conns, NEW i \in Ids,
           (\E d \in Conns : SendDirect(c, d, i)) \/ (\E r \in Rooms : Broadcast(c, r, i))
    PROVE  LiveInv'
<1>0. ClusterType /\ Home[c] \in Nodes
  BY HomeAssumption DEF Base
<1>1. ASSUME NEW d \in Conns, SendDirect(c, d, i) PROVE LiveInv'
  <2> DEFINE m == Message(c, d, Root)
  <2>1. m \in Record /\ m.src = c
    BY RoomAssumption DEF Message, Record
  <2>2. /\ msg[i] = None /\ msg' = [msg EXCEPT ![i] = m] /\ UNCHANGED wire
        /\ UNCHANGED got \/ \E cs : Receive(cs, i)
        /\ owed'[i] = {d} \cap {e \in Conns : conn[e] = "open"}
        /\ \A j \in Ids : j # i => owed'[j] = owed[j]
        /\ d \in Local(Home[c]) => Receive({d}, i)
    BY <1>1 DEF SendDirect, Unused, Base, ClusterType
  <2>3. \A n \in Nodes, j \in Ids :
            Pending(n, j)' <=> Pending(n, j) \/ (n = Home[c] /\ j = i /\ d \notin Local(Home[c]))
    BY <1>1, CarrySendDirect
  <2>4. d \in Local(Home[c]) => Has(d, i)'
    BY <1>0, <2>2, HasReceived
  <2>5. LiveFor(i)'
    <3>1. msg'[i] = m /\ m.src = c
      BY <1>0, <2>1, <2>2 DEF ClusterType
    <3> HIDE DEF m
    <3> QED
      BY <1>0, <2>2, <2>3, <2>4, <3>1 DEF Local, LiveFor, Coming
  <2> HIDE DEF m
  <2> QED
    BY <2>1, <2>2, <2>3, <2>5, LiveSent
<1>2. ASSUME NEW r \in Rooms, Broadcast(c, r, i) PROVE LiveInv'
  <2> DEFINE m == Message(c, None, r)
             members == {d \in Conns : r \in rooms[d]} \ {c}
             cs == members \cap Local(Home[c])
  <2>1. m \in Record /\ m.src = c
    BY DEF Message, Record
  <2>2. /\ msg[i] = None /\ msg' = [msg EXCEPT ![i] = m] /\ UNCHANGED wire
        /\ Receive(cs, i)
        /\ owed'[i] \subseteq members
        /\ \A j \in Ids : j # i => owed'[j] = owed[j]
    BY <1>2 DEF Broadcast, Unused, Base, ClusterType
  <2>3. /\ \A n \in Nodes, j \in Ids : Pending(n, j) => Pending(n, j)'
        /\ owed'[i] = {} \/ Pending(Home[c], i)'
    BY <1>2, CarryBroadcast
  <2>4. \A e \in members : e \in Conns /\ (Home[e] = Home[c] => e \in cs)
    BY DEF RoomsInv, Local
  <2> HIDE DEF m, members, cs
  <2>5. \A e \in members : Home[e] = Home[c] => Has(e, i)'
    BY <1>0, <2>2, <2>4, HasReceived
  <2>6. LiveFor(i)'
    <3>1. msg'[i] = m /\ m.src = c
      BY <1>0, <2>1, <2>2 DEF ClusterType
    <3> HIDE DEF m
    <3> QED
      BY <1>0, <2>2, <2>3, <2>5, <3>1 DEF LiveFor, Coming
  <2>7. UNCHANGED got \/ \E ds : Receive(ds, i)
    BY <2>2
  <2>8. \A n \in Nodes, j \in Ids : Pending(n, j) => Pending(n, j)'
    BY <2>3
  <2>9. /\ msg[i] = None /\ msg' = [msg EXCEPT ![i] = m] /\ UNCHANGED wire
        /\ \A j \in Ids : j # i => owed'[j] = owed[j]
    BY <2>2
  <2> QED
    BY <2>1, <2>6, <2>7, <2>8, <2>9, LiveSent
<1> QED
  BY <1>1, <1>2

(* A message that is published is on the wire of every node where it is     *)
(* owed.                                                                    *)
LEMMA LivePublished ==
    ASSUME Base, OwedInv, LiveInv, [Next]_vars, NEW n \in Nodes, NEW i \in Ids,
           NEW env \in Envelopes, env.id = i, NEW ns, NEW o, Published(ns, env, o), Outcome(o),
           UNCHANGED <<msg, got, owed>>, Home[msg[i].src] = n,
           \A m \in Nodes, j \in Ids : Pending(m, j) /\ j # i => Pending(m, j)',
           faults = 0 => \A c \in owed[i] : Home[c] \in ns
    PROVE  LiveInv'
<1> SUFFICES ASSUME faults' = 0, NEW j \in Ids, NEW c \in owed'[j]
             PROVE  Has(c, j)' \/ OnWay(c, j)' \/ Coming(c, j)'
  BY DEF LiveInv, LiveFor
<1>0. ClusterType /\ faults = 0 /\ o = "ok"
  BY FaultsGrow, OutcomeType DEF Base
<1>1. c \in owed[j] /\ c \in Conns /\ Home[msg[j].src] \in Nodes
  BY <1>0, OwedSent
<1>2. Has(c, j) \/ OnWay(c, j) \/ Coming(c, j)
  BY <1>0, <1>1 DEF LiveInv, LiveFor
<1>3. OnWay(c, j) => OnWay(c, j)'
  BY <1>0, <1>1, OnWayPublished
<1>4. CASE j = i
  <2>1. Home[c] \in ns
    BY <1>0, <1>1, <1>4
  <2>2. OnWay(c, i)'
    BY <1>0, <1>1, <2>1, OnWayPublished
  <2> QED
    BY <1>4, <2>2
<1>5. CASE j # i
  BY <1>1, <1>2, <1>3, <1>5 DEF Has, Coming
<1> QED
  BY <1>4, <1>5

(* Publishing, while nothing fails, brings a message onto the wire of       *)
(* everyone it is owed to elsewhere.                                        *)
LEMMA LivePublish ==
    ASSUME Base, LinkInv, OwedInv, LiveInv, [Next]_vars, NEW n \in Nodes,
           NEW k \in DOMAIN calls[n], NEW o \in {"ok", "error", "late"},
           PublishDirect(n, k, o) \/ PublishRoom(n, k, o)
    PROVE  LiveInv'
<1> DEFINE i == calls[n][k].arg
<1>0. ClusterType
  BY DEF Base
<1>1. /\ i \in Ids /\ Fits(msg, unsure, n, calls[n][k])
      /\ calls[n][k].op \in {"direct", "publish"}
  BY CallAt DEF PublishDirect, PublishRoom, MessageOps
<1>2. Home[msg[i].src] = n /\ msg[i] # None
  BY <1>1 DEF Fits
<1>3. CASE PublishDirect(n, k, o)
  <2> DEFINE env == Envelope(NodeChannel, n, i)
             ns == {m \in Nodes : m = calls[n][k].to /\ NodeChannel \in link[m]}
  <2>1. env \in Envelopes /\ env.id = i
    BY <1>1 DEF Envelope, Envelopes
  <2>2. Published(ns, env, o) /\ Outcome(o) /\ UNCHANGED <<msg, got, owed>>
    BY <1>3 DEF PublishDirect
  <2>3. \A m \in Nodes, j \in Ids : Pending(m, j) /\ j # i => Pending(m, j)'
    BY <1>3, CarryPublishDirect
  <2>4. ASSUME faults = 0, NEW c \in owed[i] PROVE Home[c] \in ns
    <3>1. Entitled(c, msg[i]) /\ Home[c] \in Nodes
      BY <1>0, <1>1, OwedSent
    <3>2. msg[i].dst # None /\ calls[n][k].to = Home[msg[i].dst]
      BY <1>1, <1>3 DEF PublishDirect, Fits
    <3>3. NodeChannel \in link[Home[c]]
      BY <2>4, <3>1 DEF LinkInv
    <3> QED
      BY <3>1, <3>2, <3>3 DEF Entitled
  <2> HIDE DEF env, ns, i
  <2> QED
    BY <1>1, <1>2, <2>1, <2>2, <2>3, <2>4, LivePublished
<1>4. CASE PublishRoom(n, k, o)
  <2> DEFINE env == Envelope(msg[i].room, n, i)
             ns == {m \in Nodes : RoomChannel \in link[m]}
  <2>1. env \in Envelopes /\ env.id = i
    BY <1>1, <1>2 DEF Envelope, Envelopes, Base, ClusterType, Record
  <2>2. Published(ns, env, o) /\ Outcome(o) /\ UNCHANGED <<msg, got, owed>>
    BY <1>4 DEF PublishRoom
  <2>3. \A m \in Nodes, j \in Ids : Pending(m, j) /\ j # i => Pending(m, j)'
    BY <1>4, CarryPublishRoom
  <2>4. ASSUME faults = 0, NEW c \in owed[i] PROVE Home[c] \in ns
    <3>1. Home[c] \in Nodes
      BY <1>0, <1>1, OwedSent
    <3> QED
      BY <2>4, <3>1 DEF LinkInv
  <2> HIDE DEF env, ns, i
  <2> QED
    BY <1>1, <1>2, <2>1, <2>2, <2>3, <2>4, LivePublished
<1> QED
  BY <1>3, <1>4

(* A node hands what it hears to everyone there it is owed to. *)
LEMMA LiveDeliver ==
    ASSUME Base, WireInv, OwedInv, NearInv, LiveInv, [Next]_vars, NEW n \in Nodes, Deliver(n)
    PROVE  LiveInv'
<1> SUFFICES ASSUME faults' = 0, NEW j \in Ids, NEW c \in owed'[j]
             PROVE  Has(c, j)' \/ OnWay(c, j)' \/ Coming(c, j)'
  BY DEF LiveInv, LiveFor
<1> DEFINE e == Head(wire[n])
<1>1. /\ ClusterType /\ wire[n] # << >> /\ wire' = [wire EXCEPT ![n] = Tail(@)]
      /\ Receive(Recipients(n, e), e.id)
      /\ UNCHANGED <<msg, owed, unsure, registry, calls, answers>>
  BY DEF Deliver, Base
<1>2. e.id \in Ids /\ EnvFits(msg, e)
  BY <1>1, HeadOfWire
<1>3. c \in owed[j] /\ c \in Conns /\ Entitled(c, msg[j]) /\ Home[c] \in Nodes
  BY <1>1, OwedSent
<1>4. Has(c, j) \/ OnWay(c, j) \/ Coming(c, j)
  BY <1>1, <1>3, FaultsGrow DEF LiveInv, LiveFor
<1>5. Has(c, j) => Has(c, j)'
  BY <1>1, <1>2, <1>3, HasGrows
<1>6. Coming(c, j) => Coming(c, j)'
  BY <1>1 DEF Coming, Pending
<1>7. CASE OnWay(c, j) /\ ~Coming(c, j) /\ ~Has(c, j)
  <2>1. CASE Home[c] # n
    <3>1. wire'[Home[c]] = wire[Home[c]]
      BY <1>1, <1>3, <2>1 DEF ClusterType
    <3> QED
      BY <1>7, <3>1 DEF OnWay
  <2>2. CASE Home[c] = n /\ e.id # j
    <3>1. wire[n] \in Seq(Envelopes) /\ wire'[n] = Tail(wire[n])
      BY <1>1 DEF ClusterType
    <3>2. PICK k \in DOMAIN wire[n] : wire[n][k].id = j
      BY <1>7, <2>2 DEF OnWay
    <3>3. /\ \A l \in DOMAIN wire[n] :
                l = 1 \/ (l - 1 \in DOMAIN Tail(wire[n]) /\ Tail(wire[n])[l - 1] = wire[n][l])
          /\ wire[n][1] = e
      BY <1>1, <3>1, TailElements
    <3>4. k - 1 \in DOMAIN wire'[n] /\ wire'[n][k - 1] = wire[n][k]
      BY <2>2, <3>1, <3>2, <3>3
    <3> QED
      BY <2>2, <3>2, <3>4 DEF OnWay
  <2>3. CASE Home[c] = n /\ e.id = j
    <3>1. CASE e.from # n
      <4>1. c \in Local(n)
        BY <1>3, <2>3 DEF Local, Entitled
      <4>2. c \in Recipients(n, e)
        <5>1. CASE msg[j].dst # None
          BY <1>3, <2>3, <3>1, <4>1, <5>1 DEF Recipients, Entitled
        <5>2. CASE msg[j].dst = None
          <6>1. /\ e.channel = msg[j].room /\ Home[msg[j].src] # Home[c]
                /\ c # msg[j].src /\ msg[j].room \in rooms[c]
                /\ Audible(Home[msg[j].src], c, msg[j].room)
            BY <1>2, <1>3, <2>3, <3>1, <5>2 DEF EnvFits, Entitled
          <6>2. Alias[e.channel] = e.channel /\ ~(Kind[n] = "go" /\ e.channel \in NodeNamed)
            BY <2>3, <6>1 DEF Audible
          <6> QED
            BY <2>3, <3>1, <4>1, <5>2, <6>1, <6>2 DEF Recipients
        <5> QED
          BY <5>1, <5>2
      <4> QED
        BY <1>1, <1>2, <1>3, <2>3, <4>2, HasReceived
    <3>2. CASE e.from = n
      BY <1>2, <1>3, <1>7, <2>3, <3>2 DEF EnvFits, NearInv
    <3> QED
      BY <3>1, <3>2
  <2> QED
    BY <2>1, <2>2, <2>3
<1> QED
  BY <1>4, <1>5, <1>6, <1>7

(* Every step keeps the near deliveries made. *)
LEMMA NearStep ==
    ASSUME Base, WireInv, RoomsInv, OwedInv, NearInv, [Next]_vars
    PROVE  NearInv'
<1>0. ClusterType
  BY DEF Base
<1>1. ASSUME UNCHANGED got \/ \E j \in Ids : \E cs : Receive(cs, j),
             NEW i \in Ids, NEW c \in owed[i],
             Home[c] = Home[msg'[i].src]
      PROVE  Has(c, i)'
  <2>1. c \in Conns /\ msg'[i] = msg[i]
    BY <1>0, OwedSent, MessageStable
  <2> QED
    BY <1>0, <1>1, <2>1, HasGrows DEF NearInv
<1>2. ASSUME UNCHANGED got \/ \E j \in Ids : \E cs : Receive(cs, j),
             \A i \in Ids : owed'[i] \subseteq owed[i]
      PROVE  NearInv'
  BY <1>1, <1>2 DEF NearInv
<1>3. ASSUME NEW c \in Conns, Connect(c) \/ Disconnect(c) PROVE NearInv'
  BY <1>2, <1>3 DEF Connect, Disconnect
<1>4. ASSUME NEW c \in Conns, NEW r \in Rooms, JoinRoom(c, r) \/ LeaveRoom(c, r) PROVE NearInv'
  BY <1>2, <1>4 DEF JoinRoom, LeaveRoom
<1>5. ASSUME NEW c \in Conns, NEW d \in Conns, NEW i \in Ids, SendDirect(c, d, i) PROVE NearInv'
  <2>1. /\ UNCHANGED got \/ \E j \in Ids : \E cs : Receive(cs, j)
        /\ owed'[i] = {d} \cap {e \in Conns : conn[e] = "open"}
        /\ \A j \in Ids : j # i => owed'[j] = owed[j]
        /\ d \in Local(Home[c]) => Receive({d}, i)
        /\ msg'[i] = Message(c, d, Root)
    BY <1>5 DEF SendDirect, Base, ClusterType
  <2>2. d \in Local(Home[c]) => Has(d, i)'
    BY <1>0, <2>1, HasReceived
  <2>3. \A e \in owed'[i] : Home[e] = Home[msg'[i].src] => Has(e, i)'
    BY <2>1, <2>2 DEF Local, Message
  <2> QED
    BY <1>1, <2>1, <2>3 DEF NearInv
<1>6. ASSUME NEW c \in Conns, NEW r \in Rooms, NEW i \in Ids, Broadcast(c, r, i) PROVE NearInv'
  <2> DEFINE members == {d \in Conns : r \in rooms[d]} \ {c}
             cs == members \cap Local(Home[c])
  <2>1. /\ Receive(cs, i) /\ owed'[i] \subseteq members
        /\ \A j \in Ids : j # i => owed'[j] = owed[j]
        /\ msg'[i] = Message(c, None, r)
    BY <1>6 DEF Broadcast, Base, ClusterType
  <2>2. \A e \in members : e \in Conns /\ (Home[e] = Home[c] => e \in cs)
    BY DEF RoomsInv, Local
  <2> HIDE DEF members, cs
  <2>3. \A e \in members : Home[e] = Home[c] => Has(e, i)'
    BY <1>0, <2>1, <2>2, HasReceived
  <2>4. \A e \in owed'[i] : Home[e] = Home[msg'[i].src] => Has(e, i)'
    BY <2>1, <2>3 DEF Message
  <2>5. UNCHANGED got \/ \E j \in Ids : \E ds : Receive(ds, j)
    BY <2>1
  <2> QED
    BY <1>1, <2>1, <2>4, <2>5 DEF NearInv
<1>7. ASSUME NEW n \in Nodes, NEW k \in Due(n), NEW o \in {"ok", "error", "late"},
             \/ Register(n, k, o) \/ GetNodeGo(n, k, o) \/ GetNodeJs(n, k, o)
             \/ PublishDirect(n, k, o) \/ PublishRoom(n, k, o)
      PROVE  NearInv'
  BY <1>2, <1>7 DEF Register, GetNodeGo, GetNodeJs, PublishDirect, PublishRoom
<1>8. ASSUME NEW n \in Nodes, Resolved(n) \/ Listen(n) PROVE NearInv'
  <2>1. CASE Deliver(n)
    BY <1>0, <1>2, <2>1, HeadOfWire DEF Deliver
  <2>2. CASE Resolved(n) \/ LinkBreaks(n) \/ \E ch \in {RoomChannel, NodeChannel} : Resubscribe(n, ch)
    BY <1>2, <2>2 DEF Resolved, LinkBreaks, Resubscribe
  <2> QED
    BY <1>8, <2>1, <2>2 DEF Listen
<1>9. ASSUME UNCHANGED vars PROVE NearInv'
  BY <1>2, <1>9 DEF vars
<1> QED
  BY <1>3, <1>4, <1>5, <1>6, <1>7, <1>8, <1>9, Steps

(* Every step keeps owed messages arrived or coming. *)
LEMMA LiveStep ==
    ASSUME Base, WireInv, LossInv, [Next]_vars
    PROVE  LiveInv'
<1>0. /\ ClusterType /\ RoomsInv /\ LinkInv /\ OwedInv /\ NearInv /\ LiveInv
      /\ \A n \in Nodes : Due(n) \subseteq DOMAIN calls[n]
  BY DEF Due, Base, LossInv
<1>1. ASSUME UNCHANGED <<msg, wire, got>>,
             faults' = 0 => \A m \in Nodes, j \in Ids : Pending(m, j) => Pending(m, j)',
             \A i \in Ids : owed'[i] \subseteq owed[i]
      PROVE  LiveInv'
  BY <1>0, <1>1, LiveStill
<1>2. ASSUME NEW c \in Conns, Connect(c) \/ Disconnect(c) PROVE LiveInv'
  <2>1. UNCHANGED <<msg, wire, got>> /\ \A i \in Ids : owed'[i] \subseteq owed[i]
    BY <1>2 DEF Connect, Disconnect
  <2> QED
    BY <1>1, <1>2, <2>1, CarryConnection
<1>3. ASSUME UNCHANGED <<registry, calls, answers, msg, wire, got, unsure>>,
             \A i \in Ids : owed'[i] \subseteq owed[i]
      PROVE  LiveInv'
  BY <1>1, <1>3, CarryStill
<1>4. ASSUME NEW c \in Conns, NEW r \in Rooms, JoinRoom(c, r) \/ LeaveRoom(c, r) PROVE LiveInv'
  BY <1>3, <1>4 DEF JoinRoom, LeaveRoom, redisVars
<1>5. ASSUME UNCHANGED vars PROVE LiveInv'
  BY <1>3, <1>5 DEF vars, redisVars
<1>6. ASSUME NEW n \in Nodes, NEW k \in DOMAIN calls[n], NEW o \in {"ok", "error", "late"},
             Register(n, k, o) \/ GetNodeGo(n, k, o) \/ GetNodeJs(n, k, o)
      PROVE  LiveInv'
  <2>1. /\ UNCHANGED <<msg, wire, got>> /\ Outcome(o) /\ \A i \in Ids : owed'[i] \subseteq owed[i]
    BY <1>6 DEF Register, GetNodeGo, GetNodeJs
  <2>2. faults' = 0 => o # "error"
    BY <1>0, <2>1, OutcomeType
  <2> QED
    BY <1>1, <1>6, <2>1, <2>2, CarryRegister, CarryGetNodeGo, CarryGetNodeJs
<1>7. ASSUME NEW n \in Nodes, NEW k \in DOMAIN calls[n], NEW o \in {"ok", "error", "late"},
             PublishDirect(n, k, o) \/ PublishRoom(n, k, o)
      PROVE  LiveInv'
  BY <1>0, <1>7, LivePublish
<1>8. ASSUME NEW n \in Nodes, Resolved(n) PROVE LiveInv'
  <2>1. UNCHANGED <<msg, wire, got>> /\ \A i \in Ids : owed'[i] \subseteq owed[i]
    BY <1>8 DEF Resolved
  <2> QED
    BY <1>1, <1>8, <2>1, CarryResolved
<1>9. ASSUME NEW n \in Nodes, Listen(n) PROVE LiveInv'
  <2>1. CASE Deliver(n)
    BY <1>0, <2>1, LiveDeliver
  <2>2. CASE LinkBreaks(n)
    <3>1. Outcome("lost") /\ "lost" # "ok"
      BY <2>2 DEF LinkBreaks
    <3> QED
      BY <1>0, <3>1, OutcomeType DEF LiveInv, LiveFor
  <2>3. CASE \E ch \in {RoomChannel, NodeChannel} : Resubscribe(n, ch)
    BY <1>3, <2>3 DEF Resubscribe
  <2> QED
    BY <1>9, <2>1, <2>2, <2>3 DEF Listen
<1> QED
  BY <1>0, <1>2, <1>4, <1>5, <1>6, <1>7, <1>8, <1>9, LiveSend, Steps

(* Nothing is owed at the start. *)
LEMMA LossInit == Init => LossInv
<1> SUFFICES ASSUME Init PROVE LossInv
  OBVIOUS
<1>1. PICK deaf \in SUBSET {n \in Nodes : Kind[n] = "go"} :
          /\ link = [n \in Nodes |-> IF n \in deaf THEN {"never"}
                                     ELSE {RoomChannel, NodeChannel}]
          /\ faults = Cardinality(deaf)
  BY DEF Init
<1>2. faults = 0 => deaf = {}
  BY <1>1, KindAssumption, FS_Subset, FS_EmptySet
<1>3. LinkInv
  BY <1>1, <1>2 DEF LinkInv
<1>4. RoomsInv /\ OwedInv /\ NearInv /\ LiveInv
  BY DEF Init, RoomsInv, OwedInv, NearInv, LiveInv, LiveFor
<1> QED
  BY <1>3, <1>4 DEF LossInv

(* Whoever is owed a message on the sender's own node has it, and as long   *)
(* as nothing has failed everyone else has it, or it is on the wire or      *)
(* still to be published (broadcast_room, send_direct_to_cluster,           *)
(* handle_incoming).                                                        *)
THEOREM LossInvariant == Spec => []LossInv
<1>1. DeliveryInv /\ LossInv /\ [Next]_vars => LossInv'
  <2> SUFFICES ASSUME DeliveryInv, LossInv, [Next]_vars PROVE LossInv'
    OBVIOUS
  <2>1. /\ Base /\ WireInv /\ ClusterType
        /\ RoomsInv /\ LinkInv /\ OwedInv /\ NearInv
    BY DEF DeliveryInv, LossInv, Base
  <2> QED
    BY <2>1, RoomsStep, LinkStep, OwedStep, NearStep, LiveStep DEF LossInv
<1> QED
  BY <1>1, LossInit, DeliveryInvariant, PTL DEF Spec

(* Without faults no message is lost: when the cluster is at rest everyone  *)
(* a message is owed to has it, although a lookup, a publish and the        *)
(* subscriber interleave with joins, leaves and other messages              *)
(* (sendDirectToCluster, handle_incoming).                                  *)
THEOREM NothingIsLost == Spec => []NothingLost
<1>1. DeliveryInv /\ LossInv => NothingLost
  <2> SUFFICES ASSUME DeliveryInv, LossInv, AtRest, faults = 0,
                      NEW i \in Ids, NEW c \in owed[i]
               PROVE  \E k \in DOMAIN got[c] : got[c][k] = i
    BY DEF NothingLost
  <2>1. Home[c] \in Nodes /\ Home[msg[i].src] \in Nodes
    BY OwedSent DEF DeliveryInv, Base, LossInv
  <2>2. Has(c, i) \/ OnWay(c, i) \/ Coming(c, i)
    BY DEF LossInv, LiveInv, LiveFor
  <2>3. DOMAIN << >> = {}
    OBVIOUS
  <2> QED
    BY <2>1, <2>2, <2>3 DEF AtRest, Has, OnWay, Coming, Pending, Under
<1> QED
  BY <1>1, DeliveryInvariant, LossInvariant, PTL

-----------------------------------------------------------------------------
(* Order *)

(* Something of P is in s. *)
Holds(s, P) == \E k \in DOMAIN s : s[k] \in P

(* Everything of P in s comes before everything of Q. *)
InLine(s, P, Q) == \A p, q \in DOMAIN s : s[p] \in P /\ s[q] \in Q => p < q

(* An element put at the end keeps two kinds of element in line unless it   *)
(* is of the first kind and finds one of the second.                        *)
LEMMA LineAppend ==
    ASSUME NEW S, NEW s \in Seq(S), NEW x \in S
    PROVE  /\ \A P : Holds(Append(s, x), P) <=> Holds(s, P) \/ x \in P
           /\ \A P, Q : InLine(s, P, Q) /\ (x \in P => x \notin Q /\ ~Holds(s, Q))
                          => InLine(Append(s, x), P, Q)
<1>1. /\ DOMAIN Append(s, x) = DOMAIN s \cup {Len(s) + 1}
      /\ \A k \in DOMAIN s : Append(s, x)[k] = s[k] /\ k \in Nat /\ k < Len(s) + 1
      /\ Append(s, x)[Len(s) + 1] = x
      /\ Len(s) \in Nat
  BY AppendElements
<1> DEFINE t == Append(s, x)
<1> HIDE DEF t
<1>2. \A P : Holds(t, P) <=> Holds(s, P) \/ x \in P
  BY <1>1 DEF Holds, t
<1>3. ASSUME NEW P, NEW Q, InLine(s, P, Q), x \in P => x \notin Q /\ ~Holds(s, Q),
             NEW p \in DOMAIN t, NEW q \in DOMAIN t, t[p] \in P, t[q] \in Q
      PROVE  p < q
  <2>1. CASE p \in DOMAIN s /\ q \in DOMAIN s
    BY <1>1, <1>3, <2>1 DEF InLine, t
  <2>2. CASE p \in DOMAIN s /\ q = Len(s) + 1
    BY <1>1, <2>2
  <2>3. CASE p = Len(s) + 1
    BY <1>1, <1>3, <2>3 DEF Holds, t
  <2> QED
    BY <1>1, <2>1, <2>2, <2>3 DEF t
<1>4. \A P, Q : InLine(s, P, Q) /\ (x \in P => x \notin Q /\ ~Holds(s, Q)) => InLine(t, P, Q)
  BY <1>3 DEF InLine
<1> QED
  BY <1>2, <1>4 DEF t

(* Elements in line stay in line when one is removed. *)
LEMMA LineRemove ==
    ASSUME NEW S, NEW s \in Seq(S), NEW k \in DOMAIN s
    PROVE  /\ \A P : Holds(RemoveAt(s, k), P) => Holds(s, P)
           /\ \A P, Q : InLine(s, P, Q) => InLine(RemoveAt(s, k), P, Q)
<1> DEFINE t == RemoveAt(s, k)
           old(l) == IF l < k THEN l ELSE l + 1
<1>1. /\ \A l \in DOMAIN t : old(l) \in DOMAIN s /\ t[l] = s[old(l)]
      /\ DOMAIN s \subseteq Nat /\ DOMAIN t \subseteq Nat
  BY RemoveAtElements
<1>2. \A p, q \in DOMAIN t : old(p) < old(q) => p < q
  BY <1>1
<1> HIDE DEF t, old
<1>3. \A P : Holds(t, P) => Holds(s, P)
  BY <1>1 DEF Holds
<1>4. \A P, Q : InLine(s, P, Q) => InLine(t, P, Q)
  BY <1>1, <1>2 DEF InLine
<1> QED
  BY <1>3, <1>4 DEF t

(* And when the head is taken. *)
LEMMA LineTail ==
    ASSUME NEW S, NEW s \in Seq(S), s # << >>
    PROVE  /\ \A P : Holds(Tail(s), P) => Holds(s, P)
           /\ \A P, Q : InLine(s, P, Q) => InLine(Tail(s), P, Q)
<1> DEFINE t == Tail(s)
<1>1. /\ \A l \in DOMAIN t : l + 1 \in DOMAIN s /\ t[l] = s[l + 1]
      /\ DOMAIN t \subseteq Nat
  BY TailElements
<1> HIDE DEF t
<1>2. \A P : Holds(t, P) => Holds(s, P)
  BY <1>1 DEF Holds
<1>3. ASSUME NEW P, NEW Q, InLine(s, P, Q), NEW p \in DOMAIN t, NEW q \in DOMAIN t,
             t[p] \in P, t[q] \in Q
      PROVE  p < q
  <2>1. p + 1 < q + 1
    BY <1>1, <1>3 DEF InLine
  <2> QED
    BY <1>1, <2>1
<1>4. \A P, Q : InLine(s, P, Q) => InLine(t, P, Q)
  BY <1>3 DEF InLine
<1> QED
  BY <1>2, <1>4 DEF t

(* What is first comes after nothing. *)
LEMMA LineFirst ==
    ASSUME NEW S, NEW s \in Seq(S), NEW P, NEW Q, InLine(s, P, Q), 1 \in DOMAIN s, s[1] \in Q
    PROVE  ~Holds(s, P)
  BY DEF InLine, Holds

(* Lookups of message i, calls that publish it, and both. *)
Get(i) == {x \in Calls : x.op = "get" /\ x.arg = i}

Out(i) == {x \in Calls : x.op \in {"direct", "publish"} /\ x.arg = i}

Token(i) == {x \in Calls : Bears(x, i)}

(* With the calls cs and the answers as of a node, message j does not       *)
(* overtake i.                                                              *)
NodeOrder(cs, as, i, j) ==
    /\ InLine(cs, Get(i), Get(j)) /\ InLine(cs, Out(i), Out(j))
    /\ InLine(as, Token(i), Token(j))
    /\ Holds(cs, Get(i)) => ~Holds(cs, Out(j)) /\ ~Holds(as, Token(j))
    /\ Holds(as, Token(i)) => ~Holds(cs, Out(j))

(* Nor on the way from node n to a connection of another one, and while i   *)
(* has not been published j has not either.                                 *)
WayOrder(n, c, i, j) ==
    /\ InLine(wire[Home[c]], Env(i), Env(j))
    /\ Holds(wire[Home[c]], Env(i)) => ~Holds(got[c], {j})
    /\ Pending(n, i) => ~Holds(wire[Home[c]], Env(j)) /\ ~Holds(got[c], {j})

Orderly(n, i, j) ==
    /\ NodeOrder(calls[n], answers[n], i, j)
    /\ \A c \in Conns : InLine(got[c], {i}, {j})
    /\ \A c \in Conns : Home[c] # n => WayOrder(n, c, i, j)

(* i was sent before j by a client of a Node node, and j is the same        *)
(* message or has not been sent.                                            *)
Pair(i, j) ==
    /\ i < j /\ msg[i] # None /\ Kind[Home[msg[i].src]] = "node"
    /\ msg[j] \in {None, msg[i]}

OrderInv ==
    \A n \in Nodes : \A i, j \in Ids : Pair(i, j) /\ Home[msg[i].src] = n => Orderly(n, i, j)

PrefixInv == \A i, j \in Ids : i < j /\ msg[j] # None => msg[i] # None

(* What carries a message looks it up or publishes it, and carries no       *)
(* other.                                                                   *)
LEMMA TokenSplit ==
    ASSUME NEW i, NEW x \in Calls
    PROVE  /\ Bears(x, i) <=> x \in Token(i)
           /\ Token(i) = Get(i) \cup Out(i)
           /\ \A j : j # i => Token(i) \cap Token(j) = {}
           /\ x \in Get(i) <=> x.op = "get" /\ x.arg = i
           /\ x \in Out(i) <=> x.op \in {"direct", "publish"} /\ x.arg = i
           /\ Get(i) \cap Out(i) = {}
  BY DEF Token, Get, Out, Bears, MessageOps

(* A message is under way when a call or an answer of the node carries it. *)
LEMMA PendingHolds ==
    ASSUME ClusterType, NEW n \in Nodes, NEW i
    PROVE  Pending(n, i) <=> Holds(calls[n], Token(i)) \/ Holds(answers[n], Token(i))
<1>1. /\ \A k \in DOMAIN calls[n] : calls[n][k] \in Calls
      /\ \A k \in DOMAIN answers[n] : answers[n][k] \in Calls
  BY DEF ClusterType
<1> QED
  BY <1>1 DEF Pending, Under, Holds, Token

(* A message that has not been sent is nowhere. *)
LEMMA Nowhere ==
    ASSUME Base, WireInv, GotInv, NEW j \in Ids, msg[j] = None
    PROVE  /\ \A n \in Nodes : ~Holds(calls[n], Token(j)) /\ ~Holds(answers[n], Token(j))
           /\ \A n \in Nodes : ~Holds(wire[n], Env(j))
           /\ \A c \in Conns : ~Holds(got[c], {j})
<1>1. \A n \in Nodes : ~Holds(calls[n], Token(j)) /\ ~Holds(answers[n], Token(j))
  BY PendingSent, PendingHolds DEF Base
<1>2. \A n \in Nodes : ~Holds(wire[n], Env(j))
  BY DEF WireInv, EnvFits, Holds, Env
<1>3. \A c \in Conns : ~Holds(got[c], {j})
  BY DEF GotInv, Holds
<1> QED
  BY <1>1, <1>2, <1>3

(* Nothing overtakes, or is overtaken by, a message that was not sent. *)
LEMMA NowhereOrderly ==
    ASSUME Base, WireInv, GotInv, NEW j \in Ids, msg[j] = None, NEW n \in Nodes, NEW i \in Ids
    PROVE  Orderly(n, i, j)
<1>1. ASSUME NEW s, NEW P, NEW Q, ~Holds(s, Q) PROVE InLine(s, P, Q)
  BY <1>1 DEF InLine, Holds
<1>2. Get(j) \subseteq Token(j) /\ Out(j) \subseteq Token(j)
  BY DEF Get, Out, Token, Bears, MessageOps
<1>3. \A m \in Nodes : ~Holds(calls[m], Get(j)) /\ ~Holds(calls[m], Out(j))
                      /\ ~Holds(answers[m], Token(j))
  BY <1>2, Nowhere DEF Holds
<1>4. NodeOrder(calls[n], answers[n], i, j)
  BY <1>1, <1>3 DEF NodeOrder
<1>5. ASSUME NEW c \in Conns PROVE InLine(got[c], {i}, {j}) /\ WayOrder(n, c, i, j)
  <2>1. ~Holds(got[c], {j}) /\ ~Holds(wire[Home[c]], Env(j))
    BY Nowhere, HomeAssumption
  <2> QED
    BY <1>1, <2>1 DEF WayOrder
<1> QED
  BY <1>4, <1>5 DEF Orderly

(* What a node does with its calls and answers keeps them in order. *)
LEMMA OrderEnds ==
    ASSUME NEW cs \in Seq(Calls), NEW as, NEW i, NEW j, NEW k \in DOMAIN cs,
           NodeOrder(cs, as, i, j)
    PROVE  NodeOrder(RemoveAt(cs, k), as, i, j)
<1>1. /\ \A P : Holds(RemoveAt(cs, k), P) => Holds(cs, P)
      /\ \A P, Q : InLine(cs, P, Q) => InLine(RemoveAt(cs, k), P, Q)
  BY LineRemove
<1> QED
  BY <1>1 DEF NodeOrder

(* A continuation that takes the first answer keeps the order. *)
LEMMA OrderTakes ==
    ASSUME NEW cs, NEW as \in Seq(Calls), as # << >>, NEW i, NEW j, NodeOrder(cs, as, i, j)
    PROVE  NodeOrder(cs, Tail(as), i, j)
<1>1. /\ \A P : Holds(Tail(as), P) => Holds(as, P)
      /\ \A P, Q : InLine(as, P, Q) => InLine(Tail(as), P, Q)
  BY LineTail
<1> QED
  BY <1>1 DEF NodeOrder

(* A call started behind the others keeps the order if it is not an earlier *)
(* message's behind a later one.                                            *)
LEMMA OrderStarts ==
    ASSUME NEW cs \in Seq(Calls), NEW as, NEW i, NEW j, i # j, NEW x \in Calls,
           NodeOrder(cs, as, i, j),
           x \in Get(i) => ~Holds(cs, Token(j)) /\ ~Holds(as, Token(j)),
           x \in Out(i) => ~Holds(cs, Out(j)),
           x \in Out(j) => ~Holds(cs, Get(i)) /\ ~Holds(as, Token(i))
    PROVE  NodeOrder(Append(cs, x), as, i, j)
<1>1. /\ \A P : Holds(Append(cs, x), P) <=> Holds(cs, P) \/ x \in P
      /\ \A P, Q : InLine(cs, P, Q) /\ (x \in P => x \notin Q /\ ~Holds(cs, Q))
                     => InLine(Append(cs, x), P, Q)
  BY LineAppend
<1>2. /\ ~(x \in Get(i) /\ x \in Get(j)) /\ ~(x \in Out(i) /\ x \in Out(j))
      /\ ~(x \in Get(i) /\ x \in Out(j))
  BY DEF Get, Out
<1>3. ~Holds(cs, Token(j)) => ~Holds(cs, Get(j)) /\ ~Holds(cs, Out(j))
  BY DEF Holds, Token, Get, Out, Bears, MessageOps
<1>4. InLine(Append(cs, x), Get(i), Get(j))
  BY <1>1, <1>2, <1>3 DEF NodeOrder
<1>5. InLine(Append(cs, x), Out(i), Out(j))
  BY <1>1, <1>2 DEF NodeOrder
<1>6. ASSUME Holds(Append(cs, x), Get(i))
      PROVE  ~Holds(Append(cs, x), Out(j)) /\ ~Holds(as, Token(j))
  BY <1>1, <1>2, <1>3, <1>6 DEF NodeOrder
<1>7. ASSUME Holds(as, Token(i)) PROVE ~Holds(Append(cs, x), Out(j))
  BY <1>1, <1>7 DEF NodeOrder
<1> QED
  BY <1>4, <1>5, <1>6, <1>7 DEF NodeOrder

(* So does an answer put behind the others. *)
LEMMA OrderAnswers ==
    ASSUME NEW cs, NEW as \in Seq(Calls), NEW i, NEW j, i # j, NEW x \in Calls,
           NodeOrder(cs, as, i, j),
           x \in Token(i) => ~Holds(as, Token(j)) /\ ~Holds(cs, Out(j)),
           x \in Token(j) => ~Holds(cs, Get(i))
    PROVE  NodeOrder(cs, Append(as, x), i, j)
<1>1. /\ \A P : Holds(Append(as, x), P) <=> Holds(as, P) \/ x \in P
      /\ \A P, Q : InLine(as, P, Q) /\ (x \in P => x \notin Q /\ ~Holds(as, Q))
                     => InLine(Append(as, x), P, Q)
  BY LineAppend
<1>2. ~(x \in Token(i) /\ x \in Token(j))
  BY DEF Token, Bears
<1> QED
  BY <1>1, <1>2 DEF NodeOrder

(* Only the calls change. *)
LEMMA OrderlyCalls ==
    ASSUME NEW n, NEW i, NEW j, Orderly(n, i, j), UNCHANGED <<wire, got>>,
           NodeOrder(calls'[n], answers'[n], i, j), Pending(n, i)' => Pending(n, i)
    PROVE  Orderly(n, i, j)'
<1>1. \A c \in Conns : WayOrder(n, c, i, j) => WayOrder(n, c, i, j)'
  BY DEF WayOrder
<1> QED
  BY <1>1 DEF Orderly

(* The assumptions under which a step is shown to keep i before j. *)
OrderBase == DeliveryInv /\ PrefixInv

(* Continuations run in the order of their answers. *)
LEMMA OrderlyResolved ==
    ASSUME OrderBase, [Next]_vars, NEW n \in Nodes, NEW i \in Ids, NEW j \in Ids, i # j,
           Orderly(n, i, j), NEW m \in Nodes, Resolved(m)
    PROVE  Orderly(n, i, j)'
<1>0. Base /\ ClusterType
  BY DEF OrderBase, DeliveryInv, Base
<1> DEFINE cs == calls[n]
           as == answers[n]
           x == Head(as)
<1>1. UNCHANGED <<wire, got>> /\ (Pending(n, i)' => Pending(n, i))
  BY <1>0, CarryResolved DEF Resolved
<1>2. cs \in Seq(Calls) /\ as \in Seq(Calls) /\ NodeOrder(cs, as, i, j)
  BY <1>0 DEF ClusterType, Orderly
<1>3. CASE m # n
  <2>1. calls'[n] = cs /\ answers'[n] = as
    BY <1>0, <1>3 DEF Resolved, Starts, ClusterType
  <2> QED
    BY <1>1, <1>2, <2>1, OrderlyCalls
<1>4. CASE m = n
  <2>1. calls'[n] = Append(cs, x) /\ answers'[n] = Tail(as) /\ as # << >>
    BY <1>0, <1>4 DEF Resolved, Starts, ClusterType
  <2>2. AnswersFit(msg, unsure, n, as)
    BY <1>0 DEF Base, SideInv, CarryInv, AnswersInv
  <2> HIDE DEF cs, as
  <2>3. x \in Calls /\ x.op # "get"
    BY <1>2, <2>1, <2>2, FitTail
  <2>4. 1 \in DOMAIN as /\ x = as[1]
    BY <1>2, <2>1, TailElements
  <2>5. NodeOrder(cs, Tail(as), i, j) /\ \A P : Holds(Tail(as), P) => Holds(as, P)
    BY <1>2, <2>1, OrderTakes, LineTail
  <2>6. \A l : x \in Out(l) => x \in Token(l) /\ Holds(as, Token(l))
    BY <2>4 DEF Holds, Out, Token, Bears, MessageOps
  <2>7. x \in Out(j) => ~Holds(as, Token(i))
    BY <1>2, <2>4, <2>6, LineFirst DEF NodeOrder
  <2>8. /\ x \notin Get(i)
        /\ x \in Out(i) => ~Holds(cs, Out(j))
        /\ x \in Out(j) => ~Holds(cs, Get(i)) /\ ~Holds(Tail(as), Token(i))
    BY <1>2, <2>3, <2>5, <2>6, <2>7 DEF NodeOrder, Get
  <2> HIDE DEF x
  <2>9. NodeOrder(Append(cs, x), Tail(as), i, j)
    BY <1>2, <2>3, <2>5, <2>8, OrderStarts
  <2> QED
    BY <1>1, <2>1, <2>9, OrderlyCalls
<1> QED
  BY <1>3, <1>4

(* A Node node's commands are answered in order, and lookups queue their    *)
(* continuations in it.                                                     *)
LEMMA OrderlyGetNode ==
    ASSUME OrderBase, [Next]_vars, NEW n \in Nodes, NEW i \in Ids, NEW j \in Ids, i # j,
           Kind[n] = "node", Orderly(n, i, j), NEW m \in Nodes, NEW k \in Due(m), NEW o,
           Register(m, k, o) \/ GetNodeGo(m, k, o) \/ GetNodeJs(m, k, o)
    PROVE  Orderly(n, i, j)'
<1>0. Base /\ ClusterType /\ k \in DOMAIN calls[m]
  BY DEF OrderBase, DeliveryInv, Base, Due
<1> DEFINE cs == calls[n]
           as == answers[n]
           x == cs[1]
           to == registry[msg[x.arg].dst]
           y == Onward(x.arg, to)
<1>1. UNCHANGED <<wire, got>> /\ (Pending(n, i)' => Pending(n, i))
  BY <1>0, CarryRegister, CarryGetNodeGo, CarryGetNodeJs DEF Register, GetNodeGo, GetNodeJs
<1>2. cs \in Seq(Calls) /\ as \in Seq(Calls) /\ NodeOrder(cs, as, i, j)
  BY <1>0 DEF ClusterType, Orderly
<1>3. CASE m # n
  <2>1. calls'[n] = cs /\ answers'[n] = as
    BY <1>0, <1>3 DEF Register, GetNodeGo, GetNodeJs, Ends, Continues, ClusterType
  <2> QED
    BY <1>1, <1>2, <2>1, OrderlyCalls
<1>4. CASE m = n
  <2>1. k = 1 /\ 1 \in DOMAIN cs
    BY <1>4, KindAssumption DEF Due
  <2>2. NodeOrder(RemoveAt(cs, 1), as, i, j) /\ \A P : Holds(RemoveAt(cs, 1), P) => Holds(cs, P)
    <3> HIDE DEF cs, as
    <3> QED
      BY <1>2, <2>1, OrderEnds, LineRemove
  <2>3. CASE Register(m, k, o) \/ (GetNodeJs(m, k, o) /\ o = "error")
    <3>1. calls'[n] = RemoveAt(cs, 1) /\ answers'[n] = as
      BY <1>0, <1>4, <2>1, <2>3 DEF Register, GetNodeJs, Ends, ClusterType
    <3> QED
      BY <1>1, <2>2, <3>1, OrderlyCalls
  <2>4. CASE GetNodeJs(m, k, o) /\ o # "error"
    <3>1. calls'[n] = RemoveAt(cs, 1) /\ answers'[n] = Append(as, y) /\ x.op = "get"
      BY <1>0, <1>4, <2>1, <2>4 DEF GetNodeJs, Ends, ClusterType
    <3>2. x \in Calls /\ x.arg \in Ids /\ Fits(msg, unsure, n, x)
      BY <1>0, <1>4, <2>1, <3>1, CallAt DEF MessageOps
    <3>3. to \in {None, Home[msg[x.arg].dst]}
      BY <1>0, <3>1, <3>2, LookupType DEF Fits, Base, SideInv, RegistryInv
    <3>4. y \in Calls /\ Bears(y, x.arg)
      <4>1. /\ msg[x.arg] # None /\ msg[x.arg].dst # None /\ Home[msg[x.arg].src] = n
            /\ x.arg \notin unsure
        BY <3>1, <3>2 DEF Fits
      <4> HIDE DEF x, to
      <4> QED
        BY <1>0, <3>2, <3>3, <4>1, OnwardFits
    <3>5. x \in Get(x.arg) /\ Holds(cs, Get(x.arg))
      BY <2>1, <3>1, <3>2 DEF Get, Holds
    <3> HIDE DEF cs, as, y
    <3>6. \A l : y \in Token(l) <=> l = x.arg
      BY <3>4 DEF Token, Bears
    <3>7. x.arg = j => ~Holds(cs, Get(i))
      BY <1>2, <2>1, <3>5, LineFirst DEF NodeOrder
    <3>8. x.arg = i => ~Holds(cs, Out(j)) /\ ~Holds(as, Token(j))
      BY <1>2, <3>5 DEF NodeOrder
    <3>9. NodeOrder(RemoveAt(cs, 1), Append(as, y), i, j)
      <4> DEFINE ds == RemoveAt(cs, 1)
      <4>1. /\ y \in Token(i) => ~Holds(as, Token(j)) /\ ~Holds(ds, Out(j))
            /\ y \in Token(j) => ~Holds(ds, Get(i))
        BY <2>2, <3>6, <3>7, <3>8
      <4>2. NodeOrder(ds, as, i, j) /\ y \in Calls
        BY <2>2, <3>4
      <4> HIDE DEF ds
      <4>3. NodeOrder(ds, Append(as, y), i, j)
        BY <1>2, <4>1, <4>2, OrderAnswers
      <4> QED
        BY <4>3 DEF ds
    <3> QED
      BY <1>1, <3>1, <3>9, OrderlyCalls
  <2> QED
    BY <1>4, <2>3, <2>4 DEF GetNodeGo
<1> QED
  BY <1>3, <1>4

(* The first call of a Node node publishes a message. *)
LEMMA OrderlyPublish ==
    ASSUME OrderBase, [Next]_vars, NEW n \in Nodes, NEW i \in Ids, NEW j \in Ids, i # j,
           Kind[n] = "node", Home[msg[i].src] = n, msg[j] \in {None, msg[i]}, Orderly(n, i, j),
           NEW m \in Nodes, NEW k \in Due(m), NEW o \in {"ok", "error", "late"},
           PublishDirect(m, k, o) \/ PublishRoom(m, k, o)
    PROVE  Orderly(n, i, j)'
<1>0. Base /\ ClusterType /\ k \in DOMAIN calls[m] /\ DOMAIN calls[m] \subseteq Nat
  BY DEF OrderBase, DeliveryInv, Base, Due, ClusterType
<1> DEFINE cs == calls[n]
           as == answers[n]
           l == calls[m][k].arg
<1>1. /\ l \in Ids /\ Fits(msg, unsure, m, calls[m][k]) /\ Pending(m, l)
      /\ calls[m][k] \in Out(l)
  BY <1>0, CallAt DEF PublishDirect, PublishRoom, MessageOps, Out
<1>2. PICK env, ns : env \in Envelopes /\ env.id = l /\ Published(ns, env, o)
  <2>1. msg[l].room \in Rooms
    BY <1>1 DEF Fits, Base, ClusterType, Record, OrderBase, DeliveryInv
  <2>2. /\ Envelope(NodeChannel, m, l) \in Envelopes /\ Envelope(NodeChannel, m, l).id = l
        /\ Envelope(msg[l].room, m, l) \in Envelopes /\ Envelope(msg[l].room, m, l).id = l
    BY <1>1, <2>1 DEF Envelope, Envelopes
  <2> QED
    BY <2>2 DEF PublishDirect, PublishRoom
<1>3. UNCHANGED <<msg, got>> /\ \A h \in Ids : Pending(n, h)' => Pending(n, h)
  BY <1>0, CarryPublishDirect, CarryPublishRoom DEF PublishDirect, PublishRoom
<1>4. cs \in Seq(Calls) /\ as \in Seq(Calls) /\ NodeOrder(cs, as, i, j)
  BY <1>0 DEF ClusterType, Orderly
<1>5. NodeOrder(calls'[n], answers'[n], i, j)
  <2>1. CASE m # n
    <3>1. calls'[n] = cs /\ answers'[n] = as
      BY <1>0, <2>1 DEF PublishDirect, PublishRoom, Ends, Continues, ClusterType
    <3> QED
      BY <1>4, <3>1
  <2>2. CASE m = n
    <3>1. calls'[n] = RemoveAt(cs, k) /\ answers'[n] = as
      BY <1>0, <2>2 DEF PublishDirect, PublishRoom, FallsBack, Ends, ClusterType
    <3>2. NodeOrder(RemoveAt(cs, k), as, i, j)
      <4>1. k \in DOMAIN cs
        BY <1>0, <2>2
      <4> HIDE DEF cs, as
      <4> QED
        BY <1>4, <4>1, OrderEnds
    <3> QED
      BY <3>1, <3>2
  <2> QED
    BY <2>1, <2>2
<1>6. l = i \/ l = j => m = n
  BY <1>1 DEF Fits
<1>7. l = i => Pending(n, i)
  BY <1>1, <1>6
<1>8. l = j => ~Pending(n, i)
  <2> SUFFICES ASSUME l = j PROVE ~Pending(n, i)
    OBVIOUS
  <2>1. k = 1 /\ 1 \in DOMAIN cs /\ cs[1] \in Out(j) /\ Holds(cs, Out(j))
    BY <1>0, <1>1, <1>6, KindAssumption DEF Due, Holds
  <2>2. ~Holds(cs, Out(i))
    <3> HIDE DEF cs
    <3> QED
      BY <1>4, <2>1, LineFirst DEF NodeOrder
  <2>3. ~Holds(cs, Get(i)) /\ ~Holds(as, Token(i))
    BY <1>4, <2>1 DEF NodeOrder
  <2>4. ~Holds(cs, Token(i))
    BY <2>2, <2>3 DEF Holds, Token, Get, Out, Bears, MessageOps
  <2> QED
    BY <1>0, <2>3, <2>4, PendingHolds
<1> HIDE DEF l
<1>9. ASSUME NEW c \in Conns, Home[c] # n PROVE WayOrder(n, c, i, j)'
  <2> DEFINE w == wire[Home[c]]
             v == wire'[Home[c]]
  <2>1. WayOrder(n, c, i, j)
    BY <1>9 DEF Orderly
  <2>2. w \in Seq(Envelopes) /\ (v = w \/ v = Append(w, env))
    BY <1>0, <1>2, HomeAssumption DEF ClusterType, Published
  <2>3. \A h : env \in Env(h) <=> h = l
    BY <1>2 DEF Env
  <2>4. /\ InLine(w, Env(i), Env(j))
        /\ Holds(w, Env(i)) => ~Holds(got[c], {j})
        /\ Pending(n, i) => ~Holds(w, Env(j)) /\ ~Holds(got[c], {j})
    BY <2>1 DEF WayOrder
  <2> HIDE DEF w
  <2>5. /\ \A P : Holds(Append(w, env), P) <=> Holds(w, P) \/ env \in P
        /\ \A P, Q : InLine(w, P, Q) /\ (env \in P => env \notin Q /\ ~Holds(w, Q))
                       => InLine(Append(w, env), P, Q)
    <3>1. env \in Envelopes
      BY <1>2
    <3> QED
      BY <2>2, <3>1, LineAppend
  <2>6. InLine(v, Env(i), Env(j))
    <3>1. env \in Env(i) => env \notin Env(j) /\ ~Holds(w, Env(j))
      BY <1>7, <2>3, <2>4
    <3>2. InLine(Append(w, env), Env(i), Env(j))
      BY <2>4, <2>5, <3>1
    <3> QED
      BY <2>2, <2>4, <3>2
  <2>7. Holds(v, Env(i)) => ~Holds(got[c], {j})
    BY <1>7, <2>2, <2>3, <2>4, <2>5
  <2>8. Pending(n, i) => ~Holds(v, Env(j)) /\ ~Holds(got[c], {j})
    BY <1>8, <2>2, <2>3, <2>4, <2>5
  <2> QED
    BY <1>3, <2>6, <2>7, <2>8 DEF WayOrder
<1> QED
  BY <1>3, <1>5, <1>9 DEF Orderly

(* A message is taken off the wire and handed over. *)
LEMMA OrderlyDeliver ==
    ASSUME OrderBase, [Next]_vars, NEW n \in Nodes, NEW i \in Ids, NEW j \in Ids, i # j,
           Home[msg[i].src] = n, msg[i] # None, Orderly(n, i, j), NEW m \in Nodes, Deliver(m)
    PROVE  Orderly(n, i, j)'
<1>0. Base /\ ClusterType /\ WireInv
  BY DEF OrderBase, DeliveryInv, Base
<1> DEFINE e == Head(wire[m])
           l == e.id
<1>1. /\ wire[m] # << >> /\ wire' = [wire EXCEPT ![m] = Tail(@)]
      /\ Receive(Recipients(m, e), l)
      /\ UNCHANGED <<msg, calls, answers>>
  BY DEF Deliver
<1>2. l \in Ids /\ EnvFits(msg, e) /\ e \in Envelopes
  BY <1>0, <1>1, HeadOfWire
<1>3. ASSUME NEW c \in Recipients(m, e) PROVE Home[c] = m /\ (l = i => m # n)
  BY <1>2 DEF Recipients, Local, EnvFits
<1>4. wire[m] \in Seq(Envelopes) /\ 1 \in DOMAIN wire[m] /\ wire[m][1] = e
  <2>1. wire[m] \in Seq(Envelopes)
    BY <1>0 DEF ClusterType
  <2> QED
    BY <1>1, <2>1, TailElements
<1>5. \A h : e \in Env(h) <=> h = l
  BY <1>2 DEF Env
<1> HIDE DEF e, l
<1>6. l \in Ids => Holds(wire[m], Env(l))
  BY <1>4, <1>5 DEF Holds
<1>7. ASSUME NEW c \in Conns
      PROVE  /\ \A h : Holds(got'[c], {h}) =>
                          Holds(got[c], {h}) \/ (h = l /\ c \in Recipients(m, e))
             /\ InLine(got'[c], {i}, {j})
  <2>1. got[c] \in Seq(Ids) /\ (\/ got'[c] = got[c]
                                \/ c \in Recipients(m, e) /\ got'[c] = Append(got[c], l))
    BY <1>0, <1>1 DEF ClusterType, Receive
  <2>2. InLine(got[c], {i}, {j})
    BY DEF Orderly
  <2>3. /\ \A P : Holds(Append(got[c], l), P) <=> Holds(got[c], P) \/ l \in P
        /\ \A P, Q : InLine(got[c], P, Q) /\ (l \in P => l \notin Q /\ ~Holds(got[c], Q))
                       => InLine(Append(got[c], l), P, Q)
    BY <1>2, <2>1, LineAppend
  <2>4. ASSUME c \in Recipients(m, e), l = i PROVE ~Holds(got[c], {j})
    <3>1. Home[c] = m /\ Home[c] # n
      BY <1>3, <2>4
    <3>2. WayOrder(n, c, i, j)
      BY <3>1 DEF Orderly
    <3> QED
      BY <1>2, <1>6, <2>4, <3>1, <3>2 DEF WayOrder
  <2>5. c \in Recipients(m, e) => InLine(Append(got[c], l), {i}, {j})
    BY <2>2, <2>3, <2>4
  <2> QED
    BY <2>1, <2>2, <2>3, <2>5
<1>8. ASSUME NEW c \in Conns, Home[c] # n PROVE WayOrder(n, c, i, j)'
  <2>1. WayOrder(n, c, i, j) /\ (Pending(n, i)' <=> Pending(n, i))
    BY <1>1, <1>8 DEF Orderly, Pending
  <2>2. CASE Home[c] # m
    <3>1. wire'[Home[c]] = wire[Home[c]] /\ got'[c] = got[c]
      BY <1>0, <1>1, <1>3, <2>2, HomeAssumption DEF Receive, ClusterType
    <3> QED
      BY <2>1, <3>1 DEF WayOrder
  <2>3. CASE Home[c] = m
    <3>1. wire'[m] = Tail(wire[m])
      BY <1>0, <1>1 DEF ClusterType
    <3>2. /\ \A P : Holds(Tail(wire[m]), P) => Holds(wire[m], P)
          /\ \A P, Q : InLine(wire[m], P, Q) => InLine(Tail(wire[m]), P, Q)
      BY <1>1, <1>4, LineTail
    <3>3. InLine(wire[m], Env(i), Env(j))
      BY <2>1, <2>3 DEF WayOrder
    <3>4. l = j => ~Holds(wire[m], Env(i))
      BY <1>4, <1>5, <3>3, LineFirst
    <3>5. Holds(got'[c], {j}) => Holds(got[c], {j}) \/ j = l
      BY <1>7
    <3>6. InLine(wire'[m], Env(i), Env(j))
      BY <3>1, <3>2, <3>3
    <3>7. Holds(wire'[m], Env(i)) => ~Holds(got'[c], {j})
      BY <2>1, <2>3, <3>1, <3>2, <3>4, <3>5 DEF WayOrder
    <3>8. Pending(n, i) => ~Holds(wire'[m], Env(j)) /\ ~Holds(got'[c], {j})
      BY <1>2, <1>6, <2>1, <2>3, <3>1, <3>2, <3>5 DEF WayOrder
    <3> QED
      BY <2>1, <2>3, <3>6, <3>7, <3>8 DEF WayOrder
  <2> QED
    BY <2>2, <2>3
<1> QED
  BY <1>1, <1>7, <1>8 DEF Orderly

(* A link that breaks only drops messages. *)
LEMMA OrderlyLinkBreaks ==
    ASSUME OrderBase, NEW n \in Nodes, NEW i \in Ids, NEW j \in Ids,
           Orderly(n, i, j), NEW m \in Nodes, LinkBreaks(m)
    PROVE  Orderly(n, i, j)'
<1>1. /\ UNCHANGED <<calls, answers, got>>
      /\ \A c \in Conns : wire'[Home[c]] = << >> \/ wire'[Home[c]] = wire[Home[c]]
  BY HomeAssumption DEF LinkBreaks, OrderBase, DeliveryInv, Base, ClusterType
<1>2. \A P, Q : ~Holds(<< >>, P) /\ InLine(<< >>, P, Q)
  <2>1. DOMAIN << >> = {}
    OBVIOUS
  <2> QED
    BY <2>1 DEF Holds, InLine
<1>3. ASSUME NEW c \in Conns, WayOrder(n, c, i, j) PROVE WayOrder(n, c, i, j)'
  BY <1>1, <1>2, <1>3 DEF WayOrder, Pending
<1> QED
  BY <1>1, <1>3 DEF Orderly

(* Message l is sent from node m: with l = i nothing is anywhere of j, with *)
(* l = j it comes last.                                                     *)
LEMMA OrderlySent ==
    ASSUME OrderBase, [Next]_vars, NEW n \in Nodes, NEW i \in Ids, NEW j \in Ids, i # j,
           Orderly(n, i, j), NEW m \in Nodes, NEW l \in Ids, NEW x \in Calls,
           x \in Get(l) \cup Out(l), msg[l] = None, l = i => msg[j] = None,
           \/ UNCHANGED calls
           \/ Starts(m, x) /\ (x \in Out(j) => ~Holds(calls[n], Get(i)) /\ ~Holds(answers[n], Token(i))),
           UNCHANGED got \/ \E cs \in SUBSET Local(m) : Receive(cs, l),
           l \in {i, j} => m = n, UNCHANGED <<answers, wire>>,
           \A h \in Ids : h # l /\ Pending(n, h)' => Pending(n, h)
    PROVE  Orderly(n, i, j)'
<1>0. Base /\ ClusterType /\ WireInv /\ GotInv
  BY DEF OrderBase, DeliveryInv, Base
<1>1. /\ \A h \in Ids : msg[h] = None =>
            /\ ~Holds(calls[n], Token(h)) /\ ~Holds(answers[n], Token(h))
            /\ \A c \in Conns : ~Holds(got[c], {h}) /\ ~Holds(wire[Home[c]], Env(h))
  BY <1>0, Nowhere, HomeAssumption
<1>2. calls[n] \in Seq(Calls) /\ NodeOrder(calls[n], answers[n], i, j)
  BY <1>0 DEF ClusterType, Orderly
<1>3. NodeOrder(calls'[n], answers'[n], i, j)
  <2>1. CASE calls'[n] = calls[n]
    BY <1>2, <2>1
  <2>2. CASE Starts(m, x) /\ m = n
    <3>1. calls'[n] = Append(calls[n], x)
      BY <1>0, <2>2 DEF Starts, ClusterType
    <3>2. x \in Get(i) \/ x \in Out(i) => l = i
      BY DEF Get, Out
    <3>3. ~Holds(calls[n], Token(j)) => ~Holds(calls[n], Out(j))
      BY DEF Holds, Token, Out, Bears, MessageOps
    <3>4. /\ x \in Get(i) => ~Holds(calls[n], Token(j)) /\ ~Holds(answers[n], Token(j))
          /\ x \in Out(i) => ~Holds(calls[n], Out(j))
      BY <1>1, <3>2, <3>3
    <3>5. x \in Out(j) => ~Holds(calls[n], Get(i)) /\ ~Holds(answers[n], Token(i))
      <4>1. CASE UNCHANGED calls
        <5>1. Append(calls[n], x) = calls[n]
          BY <3>1, <4>1
        <5>2. Len(Append(calls[n], x)) = Len(calls[n]) + 1 /\ Len(calls[n]) \in Nat
          BY <1>2
        <5> QED
          BY <5>1, <5>2
      <4> QED
        BY <4>1
    <3> QED
      BY <1>2, <3>1, <3>4, <3>5, OrderStarts
  <2> QED
    BY <1>0, <2>1, <2>2 DEF Starts, ClusterType
<1>4. ASSUME NEW c \in Conns
      PROVE  /\ InLine(got'[c], {i}, {j})
             /\ Home[c] # n => (Holds(got'[c], {j}) => Holds(got[c], {j}))
  <2>1. got[c] \in Seq(Ids) /\ (got'[c] = got[c] \/ (Home[c] = m /\ got'[c] = Append(got[c], l)))
    BY <1>0 DEF ClusterType, Receive, Local
  <2>2. InLine(got[c], {i}, {j})
    BY DEF Orderly
  <2>3. /\ \A P : Holds(Append(got[c], l), P) <=> Holds(got[c], P) \/ l \in P
        /\ \A P, Q : InLine(got[c], P, Q) /\ (l \in P => l \notin Q /\ ~Holds(got[c], Q))
                       => InLine(Append(got[c], l), P, Q)
    BY <2>1, LineAppend
  <2>4. l \in {i} => l \notin {j} /\ ~Holds(got[c], {j})
    BY <1>1
  <2>5. InLine(Append(got[c], l), {i}, {j})
    BY <2>2, <2>3, <2>4
  <2> QED
    BY <2>1, <2>2, <2>3, <2>5
<1>5. ASSUME NEW c \in Conns, Home[c] # n PROVE WayOrder(n, c, i, j)'
  <2>1. WayOrder(n, c, i, j) /\ (Holds(got'[c], {j}) => Holds(got[c], {j}))
    BY <1>4, <1>5 DEF Orderly
  <2>2. Pending(n, i)' => ~Holds(wire[Home[c]], Env(j)) /\ ~Holds(got[c], {j})
    <3>1. CASE l = i
      BY <1>1, <3>1
    <3>2. CASE l # i
      BY <2>1, <3>2 DEF WayOrder
    <3> QED
      BY <3>1, <3>2
  <2> QED
    BY <2>1, <2>2 DEF WayOrder
<1> QED
  BY <1>3, <1>4, <1>5 DEF Orderly

(* A message sent later starts behind those that its node has under way. *)
LEMMA OrderlySend ==
    ASSUME OrderBase, [Next]_vars, NEW i \in Ids, NEW j \in Ids, Pair(i, j)',
           NEW n \in Nodes, n = Home[msg'[i].src], Orderly(n, i, j),
           NEW c \in Conns, NEW l \in Ids,
           (\E d \in Conns : SendDirect(c, d, l)) \/ (\E r \in Rooms : Broadcast(c, r, l))
    PROVE  Orderly(n, i, j)'
<1>0. /\ Base /\ ClusterType /\ Home[c] \in Nodes /\ i \in Nat /\ j \in Nat /\ i < j /\ i # j
  BY HomeAssumption DEF OrderBase, DeliveryInv, Base, Pair, Ids
<1>1. /\ msg[l] = None /\ msg \in [Ids -> Record \cup {None}]
      /\ UNCHANGED <<answers, wire>>
      /\ UNCHANGED got \/ \E cs \in SUBSET Local(Home[c]) : Receive(cs, l)
  BY <1>0 DEF SendDirect, Broadcast, Unused, ClusterType
<1>2. /\ msg'[l] \in Record /\ msg'[l].src = c
      /\ \A h \in Ids : h # l => msg'[h] = msg[h]
  <2>1. \A d \in Conns : Message(c, d, Root) \in Record /\ Message(c, d, Root).src = c
    BY RoomAssumption DEF Message, Record
  <2>2. \A r \in Rooms : Message(c, None, r) \in Record /\ Message(c, None, r).src = c
    BY DEF Message, Record
  <2>3. CASE \E d \in Conns : SendDirect(c, d, l)
    BY <1>1, <2>1, <2>3 DEF SendDirect
  <2>4. CASE \E r \in Rooms : Broadcast(c, r, l)
    BY <1>1, <2>2, <2>4 DEF Broadcast
  <2> QED
    BY <2>3, <2>4
<1>3. msg'[l] # None
  BY <1>2, NoneAssumption DEF Record
<1>4. l = i => msg[j] = None
  BY <1>0, <1>1 DEF OrderBase, PrefixInv
<1>5. l = j => msg'[j] = msg[i] /\ msg[i] # None
  BY <1>0, <1>2, <1>3 DEF Pair
<1>6. l \in {i, j} => Home[c] = n
  BY <1>0, <1>2, <1>5
<1>7. ASSUME NEW d \in Conns, SendDirect(c, d, l) PROVE Orderly(n, i, j)'
  <2> DEFINE x == Call("get", l, None)
  <2>1. x \in Calls /\ x \in Get(l) /\ x \notin Out(j)
    BY CallTypes DEF Call, Get, Out
  <2>2. UNCHANGED calls \/ Starts(Home[c], x)
    BY <1>7 DEF SendDirect
  <2>3. \A h \in Ids : h # l /\ Pending(n, h)' => Pending(n, h)
    BY <1>0, <1>7, CarrySendDirect
  <2> HIDE DEF x
  <2>4. x \in Get(l) \cup Out(l)
    BY <2>1
  <2> QED
    BY <1>0, <1>1, <1>4, <1>6, <2>1, <2>2, <2>3, <2>4, OrderlySent
<1>8. ASSUME NEW r \in Rooms, Broadcast(c, r, l) PROVE Orderly(n, i, j)'
  <2> DEFINE x == Call("publish", l, None)
  <2>1. x \in Calls /\ x \in Out(l) /\ (x \in Out(j) => l = j)
    BY CallTypes DEF Call, Out
  <2>2. UNCHANGED calls \/ Starts(Home[c], x)
    BY <1>8 DEF Broadcast
  <2>3. \A h \in Ids : h # l /\ Pending(n, h)' => Pending(n, h)
    BY <1>0, <1>8, CarryBroadcast
  <2>4. l = j => ~Holds(calls[n], Get(i)) /\ ~Holds(answers[n], Token(i))
    <3> SUFFICES ASSUME l = j PROVE ~Holds(calls[n], Get(i)) /\ ~Holds(answers[n], Token(i))
      OBVIOUS
    <3>1. msg'[j] = Message(c, None, r)
      BY <1>1, <1>8 DEF Broadcast
    <3>2. msg[i].dst = None
      BY <1>5, <3>1 DEF Message
    <3>3. CallsFit(msg, unsure, n, calls[n]) /\ AnswersFit(msg, unsure, n, answers[n])
      BY <1>0 DEF Base, SideInv, CarryInv, CallsInv, AnswersInv
    <3> QED
      BY <3>2, <3>3 DEF Holds, Get, Token, Bears, CallsFit, AnswersFit, Fits, MessageOps
  <2> HIDE DEF x
  <2>5. x \in Get(l) \cup Out(l)
    BY <2>1
  <2>6. x \in Out(j) => ~Holds(calls[n], Get(i)) /\ ~Holds(answers[n], Token(i))
    BY <2>1, <2>4
  <2> QED
    BY <1>0, <1>1, <1>4, <1>6, <2>1, <2>2, <2>3, <2>5, <2>6, OrderlySent
<1> QED
  BY <1>7, <1>8

(* Message identifiers are used in order. *)
LEMMA PrefixStep ==
    ASSUME ClusterType, PrefixInv, [Next]_vars
    PROVE  PrefixInv'
<1>1. ASSUME NEW c \in Conns, NEW l \in Ids,
             (\E d \in Conns : SendDirect(c, d, l)) \/ (\E r \in Rooms : Broadcast(c, r, l))
      PROVE  PrefixInv'
  <2>1. /\ \A j \in Ids : j < l => msg[j] # None
        /\ \A j \in Ids : j # l => msg'[j] = msg[j]
    BY <1>1 DEF SendDirect, Broadcast, Unused, ClusterType
  <2>2. \A j \in Ids : msg[j] # None => msg'[j] # None
    BY MessageStable
  <2> QED
    BY <2>1, <2>2 DEF PrefixInv
<1>2. ASSUME UNCHANGED msg PROVE PrefixInv'
  BY <1>2 DEF PrefixInv
<1>3. ASSUME NEW c \in Conns, Connect(c) \/ Disconnect(c) PROVE UNCHANGED msg
  BY <1>3 DEF Connect, Disconnect
<1>4. ASSUME NEW c \in Conns, NEW r \in Rooms, JoinRoom(c, r) \/ LeaveRoom(c, r)
      PROVE  UNCHANGED msg
  BY <1>4 DEF JoinRoom, LeaveRoom
<1>5. ASSUME NEW n \in Nodes, NEW k \in Due(n), NEW o \in {"ok", "error", "late"},
             \/ Register(n, k, o) \/ GetNodeGo(n, k, o) \/ GetNodeJs(n, k, o)
             \/ PublishDirect(n, k, o) \/ PublishRoom(n, k, o)
      PROVE  UNCHANGED msg
  BY <1>5 DEF Register, GetNodeGo, GetNodeJs, PublishDirect, PublishRoom
<1>6. ASSUME NEW n \in Nodes, Resolved(n) \/ Listen(n) PROVE UNCHANGED msg
  BY <1>6 DEF Resolved, Listen, Deliver, LinkBreaks, Resubscribe
<1>7. ASSUME UNCHANGED vars PROVE UNCHANGED msg
  BY <1>7 DEF vars
<1> QED
  BY <1>1, <1>2, <1>3, <1>4, <1>5, <1>6, <1>7, Steps

(* Every step keeps the order. *)
LEMMA OrderStep ==
    ASSUME OrderBase, OrderInv, [Next]_vars
    PROVE  OrderInv'
<1> SUFFICES ASSUME NEW n \in Nodes, NEW i \in Ids, NEW j \in Ids, Pair(i, j)',
                    Home[msg'[i].src] = n
             PROVE  Orderly(n, i, j)'
  BY DEF OrderInv
<1>0. /\ Base /\ ClusterType /\ WireInv /\ GotInv /\ i # j /\ Kind[n] = "node"
  BY BoundAssumption DEF OrderBase, DeliveryInv, Base, Pair, Ids
<1>2. Orderly(n, i, j)
  <2>1. CASE msg[i] # None /\ msg[j] # None
    <3>1. msg'[i] = msg[i] /\ msg'[j] = msg[j]
      BY <1>0, <2>1, MessageStable
    <3>2. Pair(i, j)
      BY <2>1, <3>1 DEF Pair
    <3> QED
      BY <3>1, <3>2 DEF OrderInv
  <2>2. CASE msg[j] = None
    BY <1>0, <2>2, NowhereOrderly
  <2>3. CASE msg[i] = None
    <3>1. msg[j] = None
      BY <2>3 DEF OrderBase, PrefixInv, Pair
    <3> QED
      BY <2>2, <3>1
  <2> QED
    BY <2>1, <2>2, <2>3
<1>3. ASSUME NEW m \in Nodes, NEW k \in Due(m), NEW o \in {"ok", "error", "late"},
             \/ Register(m, k, o) \/ GetNodeGo(m, k, o) \/ GetNodeJs(m, k, o)
             \/ PublishDirect(m, k, o) \/ PublishRoom(m, k, o)
      PROVE  Orderly(n, i, j)'
  <2>1. msg' = msg
    BY <1>3 DEF Register, GetNodeGo, GetNodeJs, PublishDirect, PublishRoom
  <2>2. Home[msg[i].src] = n /\ msg[j] \in {None, msg[i]}
    BY <2>1 DEF Pair
  <2> QED
    BY <1>0, <1>2, <1>3, <2>2, OrderlyGetNode, OrderlyPublish
<1>4. ASSUME UNCHANGED <<calls, answers, wire, got>> PROVE Orderly(n, i, j)'
  BY <1>2, <1>4 DEF Orderly, WayOrder, Pending
<1>5. ASSUME NEW c \in Conns, Connect(c) \/ Disconnect(c) PROVE Orderly(n, i, j)'
  <2>1. PICK x \in Calls : Starts(Home[c], x) /\ x.op \in {"set", "del"}
    BY <1>5, CallTypes DEF Connect, Disconnect, Call
  <2>2. UNCHANGED <<wire, got, answers>> /\ (Pending(n, i)' => Pending(n, i))
    BY <1>0, <1>5, CarryConnection DEF Connect, Disconnect
  <2>3. \A l : x \notin Get(l) /\ x \notin Out(l)
    BY <2>1 DEF Get, Out
  <2>4. calls[n] \in Seq(Calls) /\ NodeOrder(calls[n], answers[n], i, j)
    BY <1>0, <1>2 DEF ClusterType, Orderly
  <2>5. calls'[n] = calls[n] \/ calls'[n] = Append(calls[n], x)
    BY <1>0, <2>1 DEF Starts, ClusterType
  <2>6. NodeOrder(Append(calls[n], x), answers[n], i, j)
    BY <1>0, <2>3, <2>4, OrderStarts
  <2>7. NodeOrder(calls'[n], answers'[n], i, j)
    BY <2>2, <2>4, <2>5, <2>6
  <2> QED
    BY <1>2, <2>2, <2>7, OrderlyCalls
<1>6. ASSUME NEW c \in Conns, NEW r \in Rooms, JoinRoom(c, r) \/ LeaveRoom(c, r)
      PROVE  Orderly(n, i, j)'
  BY <1>4, <1>6 DEF JoinRoom, LeaveRoom, redisVars
<1>7. ASSUME NEW m \in Nodes, Resolved(m) \/ Listen(m) PROVE Orderly(n, i, j)'
  <2>1. CASE Resolved(m)
    BY <1>0, <1>2, <2>1, OrderlyResolved
  <2>2. CASE Deliver(m)
    <3>1. msg' = msg
      BY <2>2 DEF Deliver
    <3>2. Home[msg[i].src] = n /\ msg[i] # None
      BY <3>1 DEF Pair
    <3> QED
      BY <1>0, <1>2, <2>2, <3>2, OrderlyDeliver
  <2>3. CASE LinkBreaks(m)
    BY <1>2, <2>3, OrderlyLinkBreaks
  <2>4. CASE \E ch \in {RoomChannel, NodeChannel} : Resubscribe(m, ch)
    BY <1>4, <2>4 DEF Resubscribe
  <2> QED
    BY <1>7, <2>1, <2>2, <2>3, <2>4 DEF Listen
<1>8. ASSUME UNCHANGED vars PROVE Orderly(n, i, j)'
  BY <1>4, <1>8 DEF vars, redisVars
<1>9. ASSUME NEW c \in Conns, NEW l \in Ids,
             (\E d \in Conns : SendDirect(c, d, l)) \/ (\E r \in Rooms : Broadcast(c, r, l))
      PROVE  Orderly(n, i, j)'
  BY <1>2, <1>9, OrderlySend
<1> QED
  BY <1>3, <1>5, <1>6, <1>7, <1>8, <1>9, Steps

(* Two messages that a client of a Node node sends the same way are in the  *)
(* order of sending wherever they are: in the calls and answers of the      *)
(* node, on the wire and at every receiver (send_direct_to_cluster and      *)
(* publish_raw over one ioredis connection).                                *)
THEOREM OrderInvariant == Spec => [](PrefixInv /\ OrderInv)
<1>1. Init => PrefixInv /\ OrderInv
  BY DEF Init, PrefixInv, OrderInv, Pair
<1>2. DeliveryInv /\ PrefixInv /\ OrderInv /\ [Next]_vars => PrefixInv' /\ OrderInv'
  <2> SUFFICES ASSUME DeliveryInv, PrefixInv, OrderInv, [Next]_vars
               PROVE  PrefixInv' /\ OrderInv'
    OBVIOUS
  <2>1. ClusterType /\ OrderBase
    BY DEF OrderBase, DeliveryInv, Base
  <2> QED
    BY <2>1, PrefixStep, OrderStep
<1> QED
  BY <1>1, <1>2, DeliveryInvariant, PTL DEF Spec

(* Messages of a Node node's client that go the same way arrive in the      *)
(* order of sending, whatever fails in between (hub.js                      *)
(* send_direct_to_cluster and broadcast_room).                              *)
THEOREM ArrivesInOrder == Spec => []InOrder
<1>1. DeliveryInv /\ OrderInv => InOrder
  <2> SUFFICES ASSUME DeliveryInv, OrderInv, NEW c \in Conns, NEW k \in DOMAIN got[c],
                      NEW h \in 1..(k - 1), msg[got[c][h]] = msg[got[c][k]],
                      Kind[Home[msg[got[c][k]].src]] = "node"
               PROVE  got[c][h] <= got[c][k]
    BY DEF InOrder
  <2>1. got[c] \in Seq(Ids)
    BY DEF DeliveryInv, Base, ClusterType
  <2>2. /\ h \in DOMAIN got[c] /\ h < k /\ h \in Nat /\ k \in Nat
    BY <2>1
  <2> DEFINE a == got[c][h]
             b == got[c][k]
  <2>3. a \in Ids /\ b \in Ids
    BY <2>1, <2>2, ElementOfSeq
  <2>4. a \in Nat /\ b \in Nat
    BY <2>3, BoundAssumption DEF Ids
  <2>5. msg[a] = msg[b] /\ Kind[Home[msg[b].src]] = "node" /\ msg[b] # None
    BY DEF DeliveryInv, GotInv
  <2>6. ~InLine(got[c], {b}, {a})
    BY <2>2 DEF InLine
  <2> HIDE DEF a, b
  <2>7. Home[msg[b].src] \in Nodes
    BY <2>3, <2>5, HomeAssumption DEF DeliveryInv, Base, ClusterType, Record
  <2>8. ~(b < a)
    BY <2>3, <2>5, <2>6, <2>7 DEF OrderInv, Orderly, Pair
  <2>9. a <= b
    BY <2>4, <2>8
  <2> QED
    BY <2>9 DEF a, b
<1> QED
  BY <1>1, DeliveryInvariant, OrderInvariant, PTL
=============================================================================

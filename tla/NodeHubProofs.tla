--------------------------- MODULE NodeHubProofs ---------------------------
(***************************************************************************)
(* What NodeHub guarantees for any number of connections and rooms, either *)
(* adapter and any strategy, when no frame of a client arrives after       *)
(* ws.close() (LateFrames = FALSE; with them NoZombieMembers is false, the *)
(* run NodeHubLate shows how).                                             *)
(*                                                                         *)
(* NoZombieMembers speaks of an empty stack, so the invariant has to say   *)
(* what holds while calls are in progress, which run inside one another:   *)
(* whatever a closed connection is still in is the duty of some call on    *)
(* the stack, leave_all_rooms for a room, close_with or cleanup for the    *)
(* maps and the socket (ConnFits).  The proofs are about stacks first: a   *)
(* push adds the duties of a call, a loop that moves on gives up one, a    *)
(* return none that is not done.  shutdown knows besides that what it has  *)
(* gone through is closed (Fit).  For presence the last update under way   *)
(* decides (PairFits).                                                     *)
(*                                                                         *)
(* OneSlowClientIsSafe needs no such assumption.  Its invariant is that a  *)
(* loop of emit_local has only members to come; leave_room deletes one of  *)
(* them only under a loop that has it to come no more, because every loop  *)
(* in progress was interrupted at that member (Inside).                    *)
(*                                                                         *)
(* RosterComplete speaks of a moment when nothing is under way.  Before    *)
(* it, a member a client does not know will be named to it by a call, a    *)
(* continuation or a command (Told), and no join_ack made before the       *)
(* member's join was announced will be read after it (InOrder).            *)
(*                                                                         *)
(* ShutdownClosesAll needs neither assumption, so ShutInv is much weaker:  *)
(* shutdown has every connection that is not closed before it, and a       *)
(* closed one keeps its socket only until a call in progress ends it, or   *)
(* for good once an exception was thrown.                                  *)
(***************************************************************************)
EXTENDS NodeHub, SequenceTheorems, FiniteSetTheorems, TLAPS

-----------------------------------------------------------------------------
(* Keys of an object *)

(* Sequences without repetition. *)
Keys(S) == {s \in Seq(S) : \A i, j \in DOMAIN s : s[i] = s[j] => i = j}

(* What is left of a sequence without one of its elements. *)
LEMMA RemoveAtProperties ==
    ASSUME NEW S, NEW s \in Seq(S), NEW k \in DOMAIN s
    PROVE  /\ RemoveAt(s, k) \in Seq(S)
           /\ Len(RemoveAt(s, k)) = Len(s) - 1
           /\ \A i \in 1..(Len(s) - 1) :
                 RemoveAt(s, k)[i] = IF i < k THEN s[i] ELSE s[i + 1]
<1> DEFINE a == SubSeq(s, 1, k - 1)
           b == SubSeq(s, k + 1, Len(s))
<1>0. Len(s) \in Nat /\ k \in 1..Len(s)
  OBVIOUS
<1>1. a \in Seq(S) /\ Len(a) = k - 1 /\ \A i \in 1..(k - 1) : a[i] = s[i]
  BY <1>0
<1>2. b \in Seq(S) /\ Len(b) = Len(s) - k /\ \A i \in 1..(Len(s) - k) : b[i] = s[k + i]
  BY <1>0
<1>3. RemoveAt(s, k) = a \o b
  BY DEF RemoveAt
<1> HIDE DEF a, b
<1>4. /\ a \o b \in Seq(S)
      /\ Len(a \o b) = Len(a) + Len(b)
      /\ \A i \in 1..(Len(a) + Len(b)) :
            (a \o b)[i] = IF i <= Len(a) THEN a[i] ELSE b[i - Len(a)]
  BY <1>1, <1>2, ConcatProperties
<1>5. Len(a \o b) = Len(s) - 1
  BY <1>0, <1>1, <1>2, <1>4
<1>6. ASSUME NEW i \in 1..(Len(s) - 1)
      PROVE  (a \o b)[i] = IF i < k THEN s[i] ELSE s[i + 1]
  <2>0. /\ i \in Nat /\ k \in Nat /\ Len(s) \in Nat /\ 1 <= i /\ i <= Len(s) - 1
        /\ 1 <= k /\ k <= Len(s)
    BY <1>0
  <2>a. Len(a) = k - 1 /\ Len(b) = Len(s) - k
    BY <1>1, <1>2
  <2>1. CASE i < k
    <3>1. i \in 1..(k - 1) /\ i \in 1..((k - 1) + (Len(s) - k)) /\ i <= k - 1
      BY <2>0, <2>1
    <3>2. (a \o b)[i] = a[i] /\ a[i] = s[i]
      BY <1>1, <1>4, <2>a, <3>1
    <3> QED
      BY <2>1, <3>2
  <2>2. CASE ~(i < k)
    <3>0. /\ i - (k - 1) \in 1..(Len(s) - k) /\ k + (i - (k - 1)) = i + 1
          /\ i \in 1..((k - 1) + (Len(s) - k)) /\ ~(i <= k - 1)
      BY <2>0, <2>2
    <3>1. /\ i - Len(a) \in 1..(Len(s) - k) /\ k + (i - Len(a)) = i + 1
          /\ i \in 1..(Len(a) + Len(b)) /\ ~(i <= Len(a))
      BY <2>a, <3>0
    <3>2. b[i - Len(a)] = s[i + 1]
      BY <1>2, <3>1
    <3>3. (a \o b)[i] = b[i - Len(a)]
      BY <1>4, <3>1
    <3> QED
      BY <2>2, <3>2, <3>3
  <2> QED
    BY <2>1, <2>2
<1> QED
  BY <1>3, <1>4, <1>5, <1>6

(* Where the elements of RemoveAt(s, k) come from, and that nothing else is *)
(* lost.                                                                    *)
LEMMA RemoveAtElements ==
    ASSUME NEW S, NEW s \in Seq(S), NEW k \in DOMAIN s
    PROVE  /\ \A l \in DOMAIN RemoveAt(s, k) :
                 LET j == IF l < k THEN l ELSE l + 1
                 IN  j \in DOMAIN s /\ j # k /\ RemoveAt(s, k)[l] = s[j]
           /\ \A j \in DOMAIN s : j # k =>
                 LET l == IF j < k THEN j ELSE j - 1
                 IN  l \in DOMAIN RemoveAt(s, k) /\ RemoveAt(s, k)[l] = s[j]
           /\ DOMAIN s \subseteq Nat /\ DOMAIN RemoveAt(s, k) \subseteq Nat
<1> DEFINE t == RemoveAt(s, k)
<1>1. /\ DOMAIN t = 1..(Len(s) - 1)
      /\ DOMAIN s = 1..Len(s) /\ Len(s) \in Nat /\ k \in Nat
      /\ \A i \in 1..(Len(s) - 1) : t[i] = IF i < k THEN s[i] ELSE s[i + 1]
  <2>1. s \in Seq(S) /\ DOMAIN s = 1..Len(s) /\ Len(s) \in Nat /\ k \in Nat
    OBVIOUS
  <2>2. /\ t \in Seq(S) /\ Len(t) = Len(s) - 1
        /\ \A i \in 1..(Len(s) - 1) : t[i] = IF i < k THEN s[i] ELSE s[i + 1]
    BY RemoveAtProperties
  <2> HIDE DEF t
  <2>3. DOMAIN t = 1..Len(t)
    BY <2>2
  <2> QED
    BY <2>1, <2>2, <2>3
<1> HIDE DEF t
<1>2. \A l \in DOMAIN t :
          LET j == IF l < k THEN l ELSE l + 1
          IN  j \in DOMAIN s /\ j # k /\ t[l] = s[j]
  BY <1>1
<1>3. ASSUME NEW j \in DOMAIN s, j # k
      PROVE  LET l == IF j < k THEN j ELSE j - 1
             IN  l \in DOMAIN t /\ t[l] = s[j]
  <2>1. CASE j < k
    BY <1>1, <2>1
  <2>2. CASE ~(j < k)
    <3>1. j - 1 \in 1..(Len(s) - 1) /\ ~(j - 1 < k) /\ (j - 1) + 1 = j
      BY <1>1, <1>3, <2>2
    <3> QED
      BY <1>1, <2>2, <3>1
  <2> QED
    BY <2>1, <2>2
<1> QED
  BY <1>1, <1>2, <1>3 DEF t

(* Adding a key. *)
LEMMA AddKeyIsUnion ==
    ASSUME NEW S, NEW s \in Keys(S), NEW k \in S
    PROVE  AddKey(s, k) \in Keys(S) /\ ToSet(AddKey(s, k)) = ToSet(s) \cup {k}
<1>1. CASE k \in ToSet(s)
  BY <1>1 DEF AddKey
<1>2. CASE k \notin ToSet(s)
  <2> DEFINE t == Append(s, k)
  <2>1. s \in Seq(S) /\ \A i, j \in DOMAIN s : s[i] = s[j] => i = j
    BY DEF Keys
  <2>2. /\ t \in Seq(S) /\ DOMAIN t = DOMAIN s \cup {Len(s) + 1}
        /\ \A i \in DOMAIN s : t[i] = s[i]
        /\ t[Len(s) + 1] = k
    BY <2>1
  <2>3. \A i \in DOMAIN s : s[i] # k
    BY <1>2 DEF ToSet
  <2>4. AddKey(s, k) = t
    BY <1>2 DEF AddKey
  <2> HIDE DEF t
  <2>5. ToSet(t) = ToSet(s) \cup {k}
    BY <2>2 DEF ToSet
  <2>6. t \in Keys(S)
    BY <2>1, <2>2, <2>3 DEF Keys
  <2> QED
    BY <2>4, <2>5, <2>6
<1> QED
  BY <1>1, <1>2

(* Deleting a key. *)
LEMMA DeleteKeyIsMinus ==
    ASSUME NEW S, NEW s \in Keys(S), NEW k
    PROVE  DeleteKey(s, k) \in Keys(S) /\ ToSet(DeleteKey(s, k)) = ToSet(s) \ {k}
<1>0. s \in Seq(S) /\ \A i, j \in DOMAIN s : s[i] = s[j] => i = j
  BY DEF Keys
<1>a. DOMAIN s = 1..Len(s)
  BY <1>0
<1>1. CASE k \notin ToSet(s)
  <2>1. ~ \E i \in 1..Len(s) : s[i] = k
    BY <1>a, <1>1 DEF ToSet
  <2> QED
    BY <1>1, <2>1 DEF DeleteKey, RemoveFirst
<1>2. CASE k \in ToSet(s)
  <2>1. PICK n \in DOMAIN s : s[n] = k
    BY <1>2 DEF ToSet
  <2>2. {i \in 1..Len(s) : s[i] = k} = {n}
    BY <1>0, <1>a, <2>1
  <2>3. Min({n}) = n
    BY <1>0, <2>1 DEF Min
  <2>4. SelectInSeq(s, LAMBDA v : v = k) = n
    BY <2>2, <2>3 DEF SelectInSeq
  <2> DEFINE t == RemoveAt(s, n)
  <2>5. DeleteKey(s, k) = t
    BY <1>a, <2>1, <2>4 DEF DeleteKey, RemoveFirst
  <2>6. t \in Seq(S)
    BY <1>0, RemoveAtProperties
  <2>7. /\ \A l \in DOMAIN t :
                 LET j == IF l < n THEN l ELSE l + 1
                 IN  j \in DOMAIN s /\ j # n /\ t[l] = s[j]
        /\ \A j \in DOMAIN s : j # n =>
                 LET l == IF j < n THEN j ELSE j - 1
                 IN  l \in DOMAIN t /\ t[l] = s[j]
        /\ DOMAIN s \subseteq Nat /\ DOMAIN t \subseteq Nat
    BY <1>0, RemoveAtElements
  <2> HIDE DEF t
  <2>8. ToSet(t) \subseteq ToSet(s) \ {k}
    BY <1>0, <2>1, <2>7 DEF ToSet
  <2>9. ToSet(s) \ {k} \subseteq ToSet(t)
    BY <2>1, <2>7 DEF ToSet
  <2>10. t \in Keys(S)
    <3>1. ASSUME NEW i \in DOMAIN t, NEW j \in DOMAIN t, t[i] = t[j] PROVE i = j
      <4>1. (IF i < n THEN i ELSE i + 1) = (IF j < n THEN j ELSE j + 1)
        BY <1>0, <2>7, <3>1
      <4> QED
        BY <2>1, <2>7, <4>1
    <3> QED
      BY <2>6, <3>1 DEF Keys
  <2> QED
    BY <2>5, <2>8, <2>9, <2>10
<1> QED
  BY <1>1, <1>2

-----------------------------------------------------------------------------
(* The invariant *)

Ops ==
    {"emit", "send", "leaveAll", "close", "cleanup", "timer", "shutdown", "resolve", "catch"}

FrameEvents == {"none", "join_ack", "new_member", "member_left", "leave_ack", "data"}

Frames == [event : FrameEvents, room : Rooms, ids : SUBSET Conns]

Calls ==
    [op : Ops, conn : Conns \cup {None}, room : Rooms, rest : Seq(Conns) \cup Seq(Rooms),
     frame : Frames]

Commands ==
    [op : {"sadd", "srem", "smembers", "announce", "list", "ack"}, room : Rooms,
     conn : Conns, ids : SUBSET Conns, ack : BOOLEAN]

(* No exception has been thrown. *)
Sane == process \in {"up", "down"}

HubType ==
    /\ ws \in [Conns -> {"none", "open", "closing", "ending", "closed"}]
    /\ closed \in [Conns -> BOOLEAN] /\ closeSent \in [Conns -> BOOLEAN]
    /\ joined \in [Conns -> Keys(Rooms)] /\ members \in [Rooms -> Keys(Conns)]
    /\ conns \in Keys(Conns) /\ active \in Keys(Conns)

QueueType ==
    /\ ready \in Seq(Commands) /\ pipe \in Seq(Commands)
    /\ presence \in [Rooms -> SUBSET Conns]

(* What a call has still to do is something it can do, and the connection   *)
(* it is closing is closed; shutdown has closed what it has gone through.   *)
(* w, cl and cs are the values of ws, closed and conns.                     *)
Fit(w, cl, cs, x) ==
    /\ x \in Calls
    /\ x.op \in {"emit", "timer"} => x.rest \in Seq(Conns) /\ x.rest # << >>
    /\ x.op = "timer" => \A c \in ToSet(x.rest) : w[c] # "none"
    /\ x.op = "leaveAll" => x.rest \in Seq(Rooms) /\ x.rest # << >>
    /\ x.op \in {"leaveAll", "close", "cleanup"} => x.conn \in Conns /\ cl[x.conn]
    /\ x.op = "cleanup" => w[x.conn] \notin {"none", "open"}
    /\ x.op \in {"send", "resolve"} => x.conn \in Conns
    /\ x.op = "shutdown" =>
          x.rest \in Seq(Conns) /\ \A c \in ToSet(cs) : c \in ToSet(x.rest) \/ cl[c]

StackFits(w, cl, cs, st) ==
    /\ st \in Seq(Calls)
    /\ \A k \in DOMAIN st : Fit(w, cl, cs, st[k]) /\ (st[k].op = "shutdown" => k = Len(st))

(* leave_all_rooms of c will come to r. *)
Leaving(st, c, r) ==
    \E k \in DOMAIN st : st[k].op = "leaveAll" /\ st[k].conn = c /\ r \in ToSet(st[k].rest)

(* remove_conn of c and the end of its socket will come. *)
Closing(st, c) == \E k \in DOMAIN st : st[k].op \in {"close", "cleanup"} /\ st[k].conn = c

(* A closed connection is out of everything, or will be when the calls in   *)
(* progress have returned; one that is not closed is in conns.              *)
ConnFits(st, c) ==
    /\ closeSent[c] => closed[c]
    /\ ws[c] = "none" => ~closed[c] /\ c \notin ToSet(conns) /\ c \notin ToSet(active)
    /\ closed[c] => Closing(st, c) \/ (ws[c] # "open" /\ c \notin ToSet(conns))
    /\ ws[c] = "open" => closed[c] \/ c \in ToSet(conns)
    /\ \A r \in ToSet(joined[c]) :
          (closed[c] => Leaving(st, c, r)) /\ (~closed[c] => c \in ToSet(conns))

MemberInv == \A r \in Rooms, c \in Conns : c \in Members(r) => r \in ToSet(joined[c])

HubInv ==
    /\ HubType /\ StackFits(ws, closed, conns, stack)
    /\ (\A c \in Conns : ConnFits(stack, c)) /\ MemberInv

(* k tells Redis of c in r. *)
Updates(k, r, c) == k.op \in {"sadd", "srem"} /\ k.room = r /\ k.conn = c

(* The last update of c in r under way is true, or, when there is none,     *)
(* presence is.                                                             *)
PairFits(ps, p, r, c, is) ==
    \/ \E k \in DOMAIN p :
          /\ Updates(p[k], r, c) /\ (p[k].op = "sadd" <=> is)
          /\ \A l \in DOMAIN p : l > k => ~Updates(p[l], r, c)
    \/ (\A l \in DOMAIN p : ~Updates(p[l], r, c)) /\ (c \in ps <=> is)

PresenceInv ==
    \A r \in Rooms, c \in Conns :
        <<r, c>> \in lost \/ PairFits(presence[r], pipe, r, c, c \in Members(r))

NodeInv ==
    /\ process \in {"up", "down", "threw", "crashed"}
    /\ Sane => HubInv /\ QueueType /\ PresenceInv

-----------------------------------------------------------------------------
(* The stack *)

(* x on top of st. *)
Push(x, st) == <<x>> \o st

(* What is on a stack after a push. *)
LEMMA PushElements ==
    ASSUME NEW st \in Seq(Calls), NEW x \in Calls
    PROVE  /\ Push(x, st) \in Seq(Calls) /\ Len(Push(x, st)) = Len(st) + 1
           /\ Push(x, st) # << >> /\ Head(Push(x, st)) = x /\ Tail(Push(x, st)) = st
           /\ 1 \in DOMAIN Push(x, st) /\ Push(x, st)[1] = x
           /\ \A k \in DOMAIN st : k + 1 \in DOMAIN Push(x, st) /\ Push(x, st)[k + 1] = st[k]
           /\ \A k \in DOMAIN Push(x, st) :
                 k = 1 \/ (k - 1 \in DOMAIN st /\ Push(x, st)[k] = st[k - 1])
           /\ Len(st) \in Nat /\ DOMAIN st \subseteq Nat /\ DOMAIN Push(x, st) \subseteq Nat
<1> DEFINE a == <<x>>
<1>1. a \in Seq(Calls) /\ Len(a) = 1 /\ a[1] = x
  OBVIOUS
<1>2. Push(x, st) = a \o st
  BY DEF Push
<1> HIDE DEF a
<1> DEFINE p == a \o st
<1>3. /\ p \in Seq(Calls) /\ Len(p) = Len(st) + 1 /\ Len(st) \in Nat
      /\ DOMAIN p = 1..(Len(st) + 1) /\ DOMAIN st = 1..Len(st)
      /\ \A k \in 1..(Len(st) + 1) : p[k] = IF k <= 1 THEN a[k] ELSE st[k - 1]
  <2>1. /\ p \in Seq(Calls) /\ Len(p) = Len(a) + Len(st)
        /\ \A k \in 1..(Len(a) + Len(st)) :
              p[k] = IF k <= Len(a) THEN a[k] ELSE st[k - Len(a)]
    BY <1>1, ConcatProperties
  <2>2. Len(st) \in Nat /\ DOMAIN st = 1..Len(st) /\ Len(a) + Len(st) = Len(st) + 1
    BY <1>1
  <2> HIDE DEF p
  <2>3. DOMAIN p = 1..Len(p)
    BY <2>1
  <2> QED
    BY <1>1, <2>1, <2>2, <2>3
<1> HIDE DEF p
<1>4. p[1] = x /\ 1 \in DOMAIN p /\ p # << >> /\ Head(p) = x
  BY <1>1, <1>3
<1>5. \A k \in DOMAIN p : k = 1 \/ (k - 1 \in DOMAIN st /\ p[k] = st[k - 1])
  BY <1>3
<1>6. ASSUME NEW k \in DOMAIN st PROVE k + 1 \in DOMAIN p /\ p[k + 1] = st[k]
  <2>1. k + 1 \in DOMAIN p /\ k + 1 # 1 /\ (k + 1) - 1 = k
    BY <1>3
  <2> QED
    BY <1>5, <2>1
<1>7. Tail(p) = st
  <2>1. Tail(p) \in Seq(Calls) /\ Len(Tail(p)) = Len(st)
    BY <1>3, <1>4
  <2>2. \A k \in 1..Len(st) : Tail(p)[k] = p[k + 1] /\ p[k + 1] = st[k]
    BY <1>3, <1>4, <1>6
  <2> QED
    BY <2>1, <2>2, SeqEqual
<1> QED
  BY <1>2, <1>3, <1>4, <1>5, <1>6, <1>7 DEF p

(* The duties of a call: the rooms it will leave, the connection it will    *)
(* remove.                                                                  *)
Leaves(x, c, r) == x.op = "leaveAll" /\ x.conn = c /\ r \in ToSet(x.rest)

Closes(x, c) == x.op \in {"close", "cleanup"} /\ x.conn = c

(* A push adds the duties of the call. *)
LEMMA PushDuties ==
    ASSUME NEW st \in Seq(Calls), NEW x \in Calls
    PROVE  /\ \A c, r : Leaving(Push(x, st), c, r) <=> Leaves(x, c, r) \/ Leaving(st, c, r)
           /\ \A c : Closing(Push(x, st), c) <=> Closes(x, c) \/ Closing(st, c)
<1> DEFINE p == Push(x, st)
<1>1. /\ 1 \in DOMAIN p /\ p[1] = x
      /\ \A k \in DOMAIN st : k + 1 \in DOMAIN p /\ p[k + 1] = st[k]
      /\ \A k \in DOMAIN p : k = 1 \/ (k - 1 \in DOMAIN st /\ p[k] = st[k - 1])
  BY PushElements
<1> HIDE DEF p
<1>2. \A c, r : Leaving(p, c, r) <=> Leaves(x, c, r) \/ Leaving(st, c, r)
  BY <1>1 DEF Leaving, Leaves
<1>3. \A c : Closing(p, c) <=> Closes(x, c) \/ Closing(st, c)
  BY <1>1 DEF Closing, Closes
<1> QED
  BY <1>2, <1>3 DEF p

(* A push keeps the stack fit if the call is, and no shutdown. *)
LEMMA PushFits ==
    ASSUME NEW w, NEW cl, NEW cs, NEW st, NEW x, StackFits(w, cl, cs, st), Fit(w, cl, cs, x), x.op # "shutdown" \/ st = << >>
    PROVE  StackFits(w, cl, cs, Push(x, st))
<1> DEFINE p == Push(x, st)
<1>0. st \in Seq(Calls) /\ x \in Calls
  BY DEF StackFits, Fit
<1>1. /\ p \in Seq(Calls) /\ p[1] = x /\ Len(p) = Len(st) + 1 /\ Len(st) \in Nat
      /\ \A k \in DOMAIN p : k = 1 \/ (k - 1 \in DOMAIN st /\ p[k] = st[k - 1])
      /\ DOMAIN p \subseteq Nat
  BY <1>0, PushElements
<1> HIDE DEF p
<1>2. ASSUME NEW k \in DOMAIN p PROVE Fit(w, cl, cs, p[k]) /\ (p[k].op = "shutdown" => k = Len(p))
  <2>1. CASE k = 1
    BY <1>1, <2>1
  <2>2. CASE k # 1
    <3>1. k - 1 \in DOMAIN st /\ p[k] = st[k - 1] /\ k \in Nat
      BY <1>1, <2>2
    <3>2. Fit(w, cl, cs, st[k - 1]) /\ (st[k - 1].op = "shutdown" => k - 1 = Len(st))
      BY <3>1 DEF StackFits
    <3> QED
      BY <1>1, <3>1, <3>2
  <2> QED
    BY <2>1, <2>2
<1> QED
  BY <1>1, <1>2 DEF StackFits, p

(* The stack without its top. *)
LEMMA PopFits ==
    ASSUME NEW w, NEW cl, NEW cs, NEW st, StackFits(w, cl, cs, st), st # << >>
    PROVE  /\ Fit(w, cl, cs, Head(st)) /\ StackFits(w, cl, cs, Tail(st)) /\ st = Push(Head(st), Tail(st))
           /\ Head(st).op = "shutdown" => Tail(st) = << >>
<1>0. st \in Seq(Calls)
  BY DEF StackFits
<1>1. /\ Len(st) \in Nat \ {0} /\ DOMAIN st = 1..Len(st) /\ Head(st) = st[1]
      /\ Tail(st) \in Seq(Calls) /\ Len(Tail(st)) = Len(st) - 1
      /\ DOMAIN Tail(st) = 1..(Len(st) - 1)
      /\ \A k \in 1..(Len(st) - 1) : Tail(st)[k] = st[k + 1]
      /\ Head(st) \in Calls
  BY <1>0
<1>2. Fit(w, cl, cs, Head(st))
  BY <1>1 DEF StackFits
<1>3. ASSUME NEW k \in DOMAIN Tail(st)
      PROVE  Fit(w, cl, cs, Tail(st)[k]) /\ (Tail(st)[k].op = "shutdown" => k = Len(Tail(st)))
  <2>1. k + 1 \in DOMAIN st /\ Tail(st)[k] = st[k + 1]
    BY <1>1
  <2>2. Fit(w, cl, cs, st[k + 1]) /\ (st[k + 1].op = "shutdown" => k + 1 = Len(st))
    BY <2>1 DEF StackFits
  <2> QED
    BY <1>1, <2>1, <2>2
<1>4. StackFits(w, cl, cs, Tail(st))
  BY <1>1, <1>3 DEF StackFits
<1>5. Head(st).op = "shutdown" => Tail(st) = << >>
  <2>1. Head(st).op = "shutdown" => Len(st) = 1
    BY <1>1 DEF StackFits
  <2> QED
    BY <1>1, <2>1
<1>6. st = Push(Head(st), Tail(st))
  <2> DEFINE h == Head(st)
             t == Tail(st)
             p == Push(h, t)
  <2>0. h \in Calls /\ t \in Seq(Calls) /\ Len(t) + 1 = Len(st) /\ h = st[1]
    BY <1>1
  <2> HIDE DEF h, t
  <2>a. /\ p \in Seq(Calls) /\ Len(p) = Len(t) + 1 /\ p[1] = h
        /\ \A k \in DOMAIN p : k = 1 \/ (k - 1 \in DOMAIN t /\ p[k] = t[k - 1])
    BY <2>0, PushElements
  <2>1. /\ p \in Seq(Calls) /\ Len(p) = Len(st) /\ p[1] = st[1]
        /\ \A k \in DOMAIN p : k = 1 \/ (k - 1 \in DOMAIN Tail(st) /\ p[k] = Tail(st)[k - 1])
    BY <2>0, <2>a DEF t
  <2> HIDE DEF p
  <2>2. ASSUME NEW k \in 1..Len(p) PROVE p[k] = st[k]
    <3>1. CASE k = 1
      BY <2>1, <3>1
    <3>2. CASE k # 1
      <4>1. k \in DOMAIN p
        BY <2>1
      <4>2. /\ k - 1 \in DOMAIN Tail(st) /\ p[k] = Tail(st)[k - 1]
            /\ k - 1 \in 1..(Len(st) - 1) /\ (k - 1) + 1 = k
        BY <1>1, <2>1, <3>2, <4>1
      <4> QED
        BY <1>1, <4>2
    <3> QED
      BY <3>1, <3>2
  <2>3. p = st
    BY <1>0, <2>1, <2>2, SeqEqual
  <2> QED
    BY <2>3 DEF p, h, t
<1> QED
  BY <1>2, <1>4, <1>5, <1>6

(* The catch at the bottom has no duties: returning past it loses none. *)
LEMMA ReturnFits ==
    ASSUME NEW w, NEW cl, NEW cs, NEW st, StackFits(w, cl, cs, st)
    PROVE  /\ StackFits(w, cl, cs, Return(st))
           /\ \A c, r : Leaving(st, c, r) => Leaving(Return(st), c, r)
           /\ \A c : Closing(st, c) => Closing(Return(st), c)
<1>1. CASE st # Caught
  BY <1>1 DEF Return
<1>2. CASE st = Caught
  <2>1. DOMAIN st = {1} /\ st[1].op = "catch"
    BY <1>2 DEF Caught, Call
  <2>2. ~(\E c, r : Leaving(st, c, r)) /\ ~(\E c : Closing(st, c))
    BY <2>1 DEF Leaving, Closing
  <2>3. StackFits(w, cl, cs, << >>)
    BY DEF StackFits
  <2> QED
    BY <1>2, <2>2, <2>3 DEF Return
<1> QED
  BY <1>1, <1>2

(* A loop that has nothing left returns; one that has stays on the stack.   *)
LEMMA LoopFits ==
    ASSUME NEW w, NEW cl, NEW cs, NEW st, NEW x, StackFits(w, cl, cs, st), x \in Calls, x.rest # << >> => Fit(w, cl, cs, x),
           x.op \notin {"shutdown", "close", "cleanup"}
    PROVE  /\ StackFits(w, cl, cs, Loop(x, st))
           /\ \A c, r : Leaves(x, c, r) \/ Leaving(st, c, r) => Leaving(Loop(x, st), c, r)
           /\ \A c : Closing(st, c) => Closing(Loop(x, st), c)
<1>0. st \in Seq(Calls)
  BY DEF StackFits
<1>1. CASE x.rest = << >>
  <2>1. \A c, r : ~Leaves(x, c, r)
    BY <1>1 DEF Leaves, ToSet
  <2>2. Loop(x, st) = Return(st)
    BY <1>1 DEF Loop
  <2> QED
    BY <2>1, <2>2, ReturnFits
<1>2. CASE x.rest # << >>
  <2>1. Loop(x, st) = Push(x, st)
    BY <1>2 DEF Loop, Push
  <2>2. StackFits(w, cl, cs, Push(x, st))
    BY <1>2, PushFits
  <2> QED
    BY <1>0, <2>1, <2>2, PushDuties
<1> QED
  BY <1>1, <1>2

(* A call stays fit: connections are not opened again, and none is added to *)
(* conns while calls are in progress.                                       *)
LEMMA StackStays ==
    ASSUME NEW w, NEW cl, NEW cs, NEW v, NEW dl, NEW ds, NEW st, StackFits(w, cl, cs, st),
           \A c \in Conns : cl[c] => dl[c],
           \A c \in Conns : w[c] # "none" => v[c] # "none",
           \A c \in Conns : w[c] \notin {"none", "open"} => v[c] \notin {"none", "open"},
           ToSet(ds) \subseteq ToSet(cs), ToSet(cs) \subseteq Conns
    PROVE  StackFits(v, dl, ds, st)
<1>1. ASSUME NEW x, Fit(w, cl, cs, x) PROVE Fit(v, dl, ds, x)
  <2>1. x.op = "timer" => \A c \in ToSet(x.rest) : c \in Conns
    BY <1>1 DEF Fit, ToSet
  <2> QED
    BY <1>1, <2>1 DEF Fit
<1> QED
  BY <1>1 DEF StackFits

(* tt has the duties of st. *)
Keeps(st, tt) ==
    /\ \A c, r : Leaving(st, c, r) => Leaving(tt, c, r)
    /\ \A c : Closing(st, c) => Closing(tt, c)

(* What is left of a stack whose top loop moves on. *)
Onwards(st) == Loop([Head(st) EXCEPT !.rest = Tail(@)], Tail(st))

(* A loop moves on: leave_all_rooms has done with one room. *)
LEMMA RestFits ==
    ASSUME NEW w, NEW cl, NEW cs, NEW st, StackFits(w, cl, cs, st), st # << >>,
           Head(st).op \in {"emit", "timer", "leaveAll"}
    PROVE  /\ StackFits(w, cl, cs, Onwards(st))
           /\ \A c, r : Leaving(st, c, r) =>
                 \/ Leaving(Onwards(st), c, r)
                 \/ Leaves(Head(st), c, Head(Head(st).rest)) /\ r = Head(Head(st).rest)
           /\ \A c : Closing(st, c) => Closing(Onwards(st), c)
<1> DEFINE x == Head(st)
           y == [x EXCEPT !.rest = Tail(@)]
           tl == Tail(st)
<1>1. Fit(w, cl, cs, x) /\ StackFits(w, cl, cs, tl) /\ st = Push(x, tl)
  BY PopFits
<1>2. x \in Calls /\ tl \in Seq(Calls) /\ x.op \in {"emit", "timer", "leaveAll"}
  BY <1>1 DEF Fit, StackFits
<1> HIDE DEF x, tl
<1>3. PICK S \in {Conns, Rooms} : x.rest \in Seq(S) /\ x.rest # << >>
                                    /\ (x.op = "leaveAll" => S = Rooms)
                                    /\ (x.op # "leaveAll" => S = Conns)
  BY <1>1, <1>2 DEF Fit
<1>4. /\ Tail(x.rest) \in Seq(S)
      /\ \A e \in ToSet(x.rest) : e = Head(x.rest) \/ e \in ToSet(Tail(x.rest))
      /\ ToSet(Tail(x.rest)) \subseteq ToSet(x.rest)
  <2> DEFINE s == x.rest
             u == Tail(s)
  <2>1. /\ u \in Seq(S) /\ Len(s) \in Nat \ {0} /\ DOMAIN s = 1..Len(s) /\ Head(s) = s[1]
        /\ DOMAIN u = 1..(Len(s) - 1) /\ \A k \in 1..(Len(s) - 1) : u[k] = s[k + 1]
    BY <1>3
  <2> HIDE DEF s, u
  <2>2. ASSUME NEW k \in DOMAIN s, k # 1 PROVE s[k] \in ToSet(u)
    <3>1. k - 1 \in 1..(Len(s) - 1) /\ (k - 1) + 1 = k
      BY <2>1, <2>2
    <3> QED
      BY <2>1, <3>1 DEF ToSet
  <2>3. \A e \in ToSet(s) : e = Head(s) \/ e \in ToSet(u)
    BY <2>1, <2>2 DEF ToSet
  <2>4. ToSet(u) \subseteq ToSet(s)
    BY <2>1 DEF ToSet
  <2> QED
    BY <2>1, <2>3, <2>4 DEF s, u
<1>5. /\ y \in Calls /\ y.op = x.op /\ y.conn = x.conn /\ y.rest = Tail(x.rest)
  BY <1>2, <1>3, <1>4 DEF Calls
<1> HIDE DEF y
<1>6. y.rest # << >> => Fit(w, cl, cs, y)
  BY <1>1, <1>2, <1>3, <1>4, <1>5 DEF Fit
<1>7. /\ StackFits(w, cl, cs, Loop(y, tl))
      /\ \A c, r : Leaves(y, c, r) \/ Leaving(tl, c, r) => Leaving(Loop(y, tl), c, r)
      /\ \A c : Closing(tl, c) => Closing(Loop(y, tl), c)
  BY <1>1, <1>2, <1>5, <1>6, LoopFits
<1>8. /\ \A c, r : Leaving(st, c, r) => Leaves(x, c, r) \/ Leaving(tl, c, r)
      /\ \A c : Closing(st, c) => Closes(x, c) \/ Closing(tl, c)
  BY <1>1, <1>2, PushDuties
<1>9. \A c, r : Leaves(x, c, r) => Leaves(y, c, r) \/ (Leaves(x, c, Head(x.rest)) /\ r = Head(x.rest))
  BY <1>4, <1>5 DEF Leaves
<1>10. \A c : ~Closes(x, c)
  BY <1>2 DEF Closes
<1>11. Onwards(st) = Loop(y, tl)
  BY DEF Onwards, x, y, tl
<1> QED
  BY <1>7, <1>8, <1>9, <1>10, <1>11 DEF x

(* So does one of emit_local or ping_timer, which has no duties. *)
LEMMA RestKeeps ==
    ASSUME HubInv, Top("emit") \/ Top("timer")
    PROVE  StackFits(ws, closed, conns, Rest) /\ Keeps(stack, Rest)
<1>1. StackFits(ws, closed, conns, stack) /\ stack # << >> /\ Head(stack).op \in {"emit", "timer"}
  BY DEF HubInv, Top
<1>2. \A c, r : ~Leaves(Head(stack), c, r)
  BY <1>1 DEF Leaves
<1> QED
  BY <1>1, <1>2, RestFits DEF Rest, Onwards, Keeps

(* A call that returns takes its own duty along. *)
LEMMA BelowFits ==
    ASSUME HubInv, stack # << >>
    PROVE  /\ StackFits(ws, closed, conns, Below)
           /\ \A c, r : Leaving(stack, c, r) => Leaves(Head(stack), c, r) \/ Leaving(Below, c, r)
           /\ \A c : Closing(stack, c) => Closes(Head(stack), c) \/ Closing(Below, c)
<1> DEFINE x == Head(stack)
           tl == Tail(stack)
<1>1. Fit(ws, closed, conns, x) /\ StackFits(ws, closed, conns, tl) /\ stack = Push(x, tl)
  BY PopFits DEF HubInv
<1>2. x \in Calls /\ tl \in Seq(Calls)
  BY <1>1 DEF Fit, StackFits
<1>3. Below = Return(tl)
  BY DEF Below
<1> HIDE DEF x, tl
<1>4. /\ \A c, r : Leaving(stack, c, r) => Leaves(x, c, r) \/ Leaving(tl, c, r)
      /\ \A c : Closing(stack, c) => Closes(x, c) \/ Closing(tl, c)
  BY <1>1, <1>2, PushDuties
<1>5. /\ StackFits(ws, closed, conns, Return(tl))
      /\ \A c, r : Leaving(tl, c, r) => Leaving(Return(tl), c, r)
      /\ \A c : Closing(tl, c) => Closing(Return(tl), c)
  BY <1>1, ReturnFits
<1> QED
  BY <1>3, <1>4, <1>5 DEF x

(* Frames and the calls made of them. *)
LEMMA CallTypes ==
    ASSUME NEW c \in Conns \cup {None}, NEW r \in Rooms, NEW op \in Ops,
           NEW rest \in Seq(Conns) \cup Seq(Rooms), NEW f \in Frames
    PROVE  /\ Call(op, c, r, rest, f) \in Calls /\ Call(op, c, r, rest, f).op = op
           /\ Call(op, c, r, rest, f).conn = c /\ Call(op, c, r, rest, f).rest = rest
           /\ Call(op, c, r, rest, f).room = r
  BY DEF Call, Calls

(* The frames of the hub, and NoFrame, are frames. *)
LEMMA FrameTypes ==
    /\ NoFrame \in Frames
    /\ \A r \in Rooms, ids \in SUBSET Conns :
          \A e \in {"join_ack", "new_member", "member_left", "leave_ack", "data"} :
             Frame(e, r, ids) \in Frames /\ Frame(e, r, ids).room = r
  BY RootAssumption DEF NoFrame, Frame, Frames, FrameEvents, None

(* emit_local and try_send add calls without duties. *)
LEMMA EmitFits ==
    ASSUME NEW w, NEW cl, NEW cs, NEW st, StackFits(w, cl, cs, st), NEW ms \in Keys(Conns),
           NEW e, NEW f \in Frames
    PROVE  StackFits(w, cl, cs, EmitLocal(ms, e, f, st)) /\ Keeps(st, EmitLocal(ms, e, f, st))
<1> DEFINE rest == DeleteKey(ms, e)
           x == Call("emit", None, f.room, rest, f)
<1>1. rest \in Seq(Conns)
  BY DeleteKeyIsMinus DEF Keys
<1>2. f.room \in Rooms
  BY DEF Frames
<1> HIDE DEF rest
<1>3. x \in Calls /\ x.op = "emit" /\ x.rest = rest
  BY <1>1, <1>2, CallTypes DEF Ops
<1>4. EmitLocal(ms, e, f, st) = Loop(x, st)
  BY DEF EmitLocal, rest
<1> HIDE DEF x
<1>5. x.rest # << >> => Fit(w, cl, cs, x)
  BY <1>1, <1>3 DEF Fit
<1> QED
  BY <1>3, <1>4, <1>5, LoopFits DEF Keeps

(* So does the call of try_send. *)
LEMMA SendFits ==
    ASSUME NEW w, NEW cl, NEW cs, NEW st, StackFits(w, cl, cs, st), NEW c \in Conns,
           NEW f \in Frames
    PROVE  StackFits(w, cl, cs, Send(c, f, st)) /\ Keeps(st, Send(c, f, st))
<1> DEFINE x == Call("send", c, f.room, <<c>>, f)
<1>1. f.room \in Rooms
  BY DEF Frames
<1>2. x \in Calls /\ x.op = "send" /\ x.conn = c
  BY <1>1 DEF Call, Calls, Ops
<1>3. Send(c, f, st) = Push(x, st)
  BY DEF Send, Push
<1> HIDE DEF x
<1>4. Fit(w, cl, cs, x)
  BY <1>2 DEF Fit
<1>5. st \in Seq(Calls)
  BY DEF StackFits
<1> QED
  BY <1>2, <1>3, <1>4, <1>5, PushFits, PushDuties DEF Keeps

(* An empty stack, and the catch alone, are fit. *)
LEMMA BottomFits ==
    ASSUME NEW w, NEW cl, NEW cs
    PROVE  /\ StackFits(w, cl, cs, << >>) /\ StackFits(w, cl, cs, Caught)
           /\ \A st : Keeps(<< >>, st)
<1>1. StackFits(w, cl, cs, << >>)
  BY DEF StackFits
<1> DEFINE x == Call("catch", None, Root, << >>, NoFrame)
<1>2. x \in Calls /\ x.op = "catch"
  <2>1. NoFrame \in Frames
    BY FrameTypes
  <2> QED
    BY <2>1, RootAssumption DEF Call, Calls, Ops
<1> HIDE DEF x
<1>3. Caught = <<x>>
  BY DEF Caught, x
<1>4. <<x>> \in Seq(Calls) /\ DOMAIN <<x>> = {1} /\ <<x>>[1] = x
  BY <1>2
<1>5. StackFits(w, cl, cs, Caught)
  BY <1>2, <1>3, <1>4 DEF StackFits, Fit
<1> QED
  BY <1>1, <1>5 DEF Keeps, Leaving, Closing

-----------------------------------------------------------------------------
(* What the handlers share *)

(* Calls come and go, and nothing else happens. *)
LEMMA Moves ==
    ASSUME HubInv, StackFits(ws, closed, conns, stack'), Keeps(stack, stack'),
           UNCHANGED <<ws, flags, joined, members, conns, active>>
    PROVE  HubInv'
<1>1. HubType'
  BY DEF HubInv, HubType, flags
<1>2. StackFits(ws, closed, conns, stack)'
  BY DEF flags
<1>3. ASSUME NEW c \in Conns PROVE ConnFits(stack, c)'
  BY DEF HubInv, ConnFits, Keeps, flags
<1>4. MemberInv'
  BY DEF HubInv, MemberInv, Members
<1> QED
  BY <1>1, <1>2, <1>3, <1>4 DEF HubInv

(* The calls of close_with and of cleanup, for a connection in the rooms js. *)
Parting(op, c, js, st) ==
    Loop(Call("leaveAll", c, Root, js, NoFrame), <<Call(op, c, Root, <<c>>, NoFrame)>> \o st)

(* The calls that close_with and cleanup make: their duties make up for     *)
(* what they leave for later.                                               *)
LEMMA ClosingFits ==
    ASSUME NEW w, NEW cl, NEW cs, NEW st, StackFits(w, cl, cs, st), NEW c \in Conns, cl[c],
           NEW js \in Seq(Rooms), NEW op \in {"close", "cleanup"},
           op = "cleanup" => w[c] \notin {"none", "open"}
    PROVE  /\ StackFits(w, cl, cs, Parting(op, c, js, st)) /\ Keeps(st, Parting(op, c, js, st))
           /\ Closing(Parting(op, c, js, st), c)
           /\ \A r \in ToSet(js) : Leaving(Parting(op, c, js, st), c, r)
<1> DEFINE x == Call("leaveAll", c, Root, js, NoFrame)
           y == Call(op, c, Root, <<c>>, NoFrame)
<1>0. NoFrame \in Frames /\ st \in Seq(Calls)
  BY FrameTypes DEF StackFits
<1>1. x \in Calls /\ x.op = "leaveAll" /\ x.conn = c /\ x.rest = js
  BY <1>0, RootAssumption DEF Call, Calls, Ops
<1>2. y \in Calls /\ y.op = op /\ y.conn = c
  BY <1>0, RootAssumption DEF Call, Calls, Ops
<1> DEFINE p == Push(y, st)
           tt == Loop(x, p)
<1>3. Parting(op, c, js, st) = tt
  BY DEF Parting, Push
<1> HIDE DEF x, y
<1>4. Fit(w, cl, cs, y)
  BY <1>2 DEF Fit
<1>5. StackFits(w, cl, cs, p)
  BY <1>2, <1>4, PushFits
<1>6. /\ \A d, r : Leaving(st, d, r) => Leaving(p, d, r)
      /\ \A d : Closing(st, d) => Closing(p, d)
      /\ Closing(p, c)
  <2>1. Closes(y, c)
    BY <1>2 DEF Closes
  <2> QED
    BY <1>0, <1>2, <2>1, PushDuties
<1> HIDE DEF p
<1>7. x.rest # << >> => Fit(w, cl, cs, x)
  BY <1>1 DEF Fit
<1>8. /\ StackFits(w, cl, cs, tt)
      /\ \A d, r : Leaves(x, d, r) \/ Leaving(p, d, r) => Leaving(tt, d, r)
      /\ \A d : Closing(p, d) => Closing(tt, d)
  <2>1. x.op \notin {"shutdown", "close", "cleanup"}
    BY <1>1
  <2> QED
    BY <1>1, <1>5, <1>7, <2>1, LoopFits
<1> HIDE DEF tt
<1>9. \A r \in ToSet(js) : Leaves(x, c, r)
  BY <1>1 DEF Leaves
<1>10. Keeps(st, tt) /\ Closing(tt, c) /\ \A r \in ToSet(js) : Leaving(tt, c, r)
  BY <1>6, <1>8, <1>9 DEF Keeps
<1> QED
  BY <1>3, <1>8, <1>10

(* close_with: what follows the flags is on the stack. *)
LEMMA CloseWithStep ==
    ASSUME HubInv, NEW c \in Conns, NEW st,
           StackFits(ws, [closed EXCEPT ![c] = TRUE], conns, st), Keeps(stack, st),
           ws[c] # "none", CloseWith(c, st), UNCHANGED <<ws, joined, members, conns, active>>
    PROVE  HubInv'
<1> DEFINE cl == [closed EXCEPT ![c] = TRUE]
<1>0. /\ closed \in [Conns -> BOOLEAN] /\ closeSent \in [Conns -> BOOLEAN]
      /\ joined[c] \in Seq(Rooms) /\ HubType
  BY DEF HubInv, HubType, Keys
<1>1. CASE closed[c] \/ closeSent[c]
  <2>1. closed[c]
    BY <1>1 DEF HubInv, ConnFits
  <2>2. cl = closed
    BY <1>0, <2>1
  <2>3. StackFits(ws, closed, conns, st)
    BY <2>2
  <2>4. stack' = Return(st) /\ UNCHANGED flags
    BY <1>1 DEF CloseWith
  <2>5. StackFits(ws, closed, conns, stack') /\ Keeps(stack, stack')
    BY <2>3, <2>4, ReturnFits DEF Keeps
  <2> QED
    BY <2>4, <2>5, Moves
<1>2. CASE ~(closed[c] \/ closeSent[c])
  <2> DEFINE tt == Parting("close", c, joined[c], st)
  <2>1. /\ closed' = cl /\ closeSent' = [closeSent EXCEPT ![c] = TRUE]
        /\ stack' = tt
    BY <1>2 DEF CloseWith, Parting
  <2>2. cl[c] /\ StackFits(ws, cl, conns, st)
    BY <1>0
  <2> HIDE DEF cl
  <2>3. /\ StackFits(ws, cl, conns, tt) /\ Keeps(st, tt) /\ Closing(tt, c)
        /\ \A r \in ToSet(joined[c]) : Leaving(tt, c, r)
    BY <1>0, <2>2, ClosingFits
  <2> HIDE DEF tt
  <2>4. StackFits(ws, closed, conns, stack)'
    BY <2>1, <2>3
  <2>5. HubType'
    BY <1>0, <2>1 DEF HubType, cl
  <2>6. Keeps(stack, stack')
    BY <2>1, <2>3 DEF Keeps
  <2>7. ASSUME NEW d \in Conns PROVE ConnFits(stack, d)'
    <3>1. CASE d = c
      BY <1>0, <2>1, <2>2, <2>3, <3>1 DEF ConnFits
    <3>2. CASE d # c
      <4>1. closed'[d] = closed[d] /\ closeSent'[d] = closeSent[d]
        BY <1>0, <2>1, <3>2 DEF cl
      <4>2. ConnFits(stack, d)
        BY DEF HubInv
      <4> QED
        BY <2>6, <4>1, <4>2 DEF ConnFits, Keeps
    <3> QED
      BY <3>1, <3>2
  <2>8. MemberInv'
    BY DEF HubInv, MemberInv, Members
  <2> QED
    BY <2>4, <2>5, <2>7, <2>8 DEF HubInv
<1> QED
  BY <1>1, <1>2

(* What fits while c is open fits when it is closed. *)
LEMMA ClosedFits ==
    ASSUME HubType, NEW c \in Conns, NEW st, StackFits(ws, closed, conns, st)
    PROVE  StackFits(ws, [closed EXCEPT ![c] = TRUE], conns, st)
<1> DEFINE cl == [closed EXCEPT ![c] = TRUE]
<1>1. \A d \in Conns : closed[d] => cl[d]
  BY DEF HubType
<1>2. ToSet(conns) \subseteq Conns
  BY DEF HubType, Keys, ToSet
<1> HIDE DEF cl
<1>3. StackFits(ws, cl, conns, st)
  BY <1>1, <1>2, StackStays
<1> QED
  BY <1>3 DEF cl

(* try_send: a slow client is closed, whatever calls are in progress. *)
LEMMA TrySendStep ==
    ASSUME HubInv, NEW c \in Conns, NEW f, NEW st, StackFits(ws, closed, conns, st),
           Keeps(stack, st), TrySend(c, f, st), UNCHANGED <<ws, joined, members, conns, active>>
    PROVE  HubInv'
<1>1. CASE stack' = st /\ UNCHANGED flags
  BY <1>1, Moves
<1>2. CASE ws[c] = "open" /\ CloseWith(c, st)
  <2>1. StackFits(ws, [closed EXCEPT ![c] = TRUE], conns, st)
    BY ClosedFits DEF HubInv
  <2>2. ws[c] # "none"
    BY <1>2
  <2> QED
    BY <1>2, <2>1, <2>2, CloseWithStep
<1> QED
  BY <1>1, <1>2 DEF TrySend

(* leave_room: r is no longer among c's rooms nor c among its members, and  *)
(* leave_all_rooms need not come to it.                                     *)
LEMMA LeaveRoomStep ==
    ASSUME HubInv, NEW c \in Conns, NEW r \in Rooms, NEW st, StackFits(ws, closed, conns, st),
           \A d, q : Leaving(stack, d, q) => Leaving(st, d, q) \/ (d = c /\ q = r),
           \A d : Closing(stack, d) => Closing(st, d),
           LeaveRoom(r, c, st), UNCHANGED <<ws, flags, conns, active>>
    PROVE  HubInv'
<1>0. HubType /\ joined \in [Conns -> Keys(Rooms)] /\ members \in [Rooms -> Keys(Conns)]
  BY DEF HubInv, HubType
<1>1. /\ joined' \in [Conns -> Keys(Rooms)] /\ ToSet(joined'[c]) = ToSet(joined[c]) \ {r}
      /\ \A d \in Conns : d # c => joined'[d] = joined[d]
  BY <1>0, DeleteKeyIsMinus DEF LeaveRoom
<1>2. /\ members' \in [Rooms -> Keys(Conns)] /\ c \notin ToSet(members'[r])
      /\ ToSet(members'[r]) \subseteq ToSet(members[r])
      /\ \A q \in Rooms : q # r => members'[q] = members[q]
  <2>1. CASE members[r] = << >>
    BY <1>0, <2>1 DEF LeaveRoom, ToSet
  <2>2. CASE members[r] # << >>
    BY <1>0, <2>2, DeleteKeyIsMinus DEF LeaveRoom
  <2> QED
    BY <2>1, <2>2
<1>3. StackFits(ws, closed, conns, stack') /\ Keeps(st, stack')
  <2>1. CASE stack' = st
    BY <2>1 DEF Keeps
  <2>2. CASE stack' = EmitLocal(members'[r], c, Frame("member_left", r, {c}), st)
    <3> DEFINE f == Frame("member_left", r, {c})
               ms == members'[r]
    <3>1. f \in Frames /\ ms \in Keys(Conns)
      BY <1>2, FrameTypes
    <3> HIDE DEF f, ms
    <3>2. StackFits(ws, closed, conns, EmitLocal(ms, c, f, st)) /\ Keeps(st, EmitLocal(ms, c, f, st))
      BY <3>1, EmitFits
    <3> QED
      BY <2>2, <3>2 DEF f, ms
  <2> QED
    BY <2>1, <2>2 DEF LeaveRoom
<1>4. ASSUME NEW d \in Conns PROVE ConnFits(stack, d)'
  <2>1. ConnFits(stack, d)
    BY DEF HubInv
  <2>2. /\ \A q : Leaving(stack, d, q) => Leaving(stack', d, q) \/ (d = c /\ q = r)
        /\ Closing(stack, d) => Closing(stack', d)
    BY <1>3 DEF Keeps
  <2>3. /\ ToSet(joined'[d]) \subseteq ToSet(joined[d])
        /\ d = c => r \notin ToSet(joined'[d])
    BY <1>1
  <2> QED
    BY <2>1, <2>2, <2>3 DEF ConnFits, flags
<1>5. MemberInv'
  <2> SUFFICES ASSUME NEW q \in Rooms, NEW d \in Conns, d \in ToSet(members'[q])
               PROVE  q \in ToSet(joined'[d])
    BY DEF MemberInv, Members
  <2>1. d \in ToSet(members[q]) /\ ~(d = c /\ q = r)
    BY <1>2
  <2>2. q \in ToSet(joined[d])
    BY <2>1 DEF HubInv, MemberInv, Members
  <2> QED
    BY <1>1, <2>1, <2>2
<1>6. HubType'
  BY <1>0, <1>1, <1>2 DEF HubType, flags
<1>7. StackFits(ws, closed, conns, stack)'
  BY <1>3 DEF flags
<1> QED
  BY <1>4, <1>5, <1>6, <1>7 DEF HubInv

-----------------------------------------------------------------------------
(* The steps of the calls in progress keep the hub's invariant *)

(* emit_local's next member. *)
LEMMA HubEmitNext ==
    ASSUME HubInv, EmitNext
    PROVE  HubInv'
<1> DEFINE c == Head(Head(stack).rest)
<1>1. Top("emit") /\ stack # << >> /\ StackFits(ws, closed, conns, stack)
  BY DEF EmitNext, Top, HubInv
<1>2. Fit(ws, closed, conns, Head(stack)) /\ Head(stack).op = "emit"
  BY <1>1, PopFits DEF Top
<1>3. c \in Conns
  BY <1>2 DEF Fit
<1>4. StackFits(ws, closed, conns, Rest) /\ Keeps(stack, Rest)
  BY <1>1, RestKeeps
<1>5. TrySend(c, Head(stack).frame, Rest) /\ UNCHANGED <<ws, joined, members, conns, active>>
  BY DEF EmitNext, hubVars
<1> HIDE DEF c
<1> QED
  BY <1>3, <1>4, <1>5, TrySendStep

(* try_send, called outside a loop. *)
LEMMA HubSendNext ==
    ASSUME HubInv, SendNext
    PROVE  HubInv'
<1> DEFINE c == Head(stack).conn
<1>1. stack # << >> /\ StackFits(ws, closed, conns, stack) /\ Head(stack).op = "send"
  BY DEF SendNext, Top, HubInv
<1>2. Fit(ws, closed, conns, Head(stack))
  BY <1>1, PopFits
<1>3. c \in Conns
  BY <1>1, <1>2 DEF Fit
<1>4. StackFits(ws, closed, conns, Below) /\ Keeps(stack, Below)
  BY <1>1, BelowFits DEF Keeps, Leaves, Closes
<1>5. TrySend(c, Head(stack).frame, Below) /\ UNCHANGED <<ws, joined, members, conns, active>>
  BY DEF SendNext, hubVars
<1> HIDE DEF c
<1> QED
  BY <1>3, <1>4, <1>5, TrySendStep

(* leave_all_rooms' next room. *)
LEMMA HubLeaveNext ==
    ASSUME HubInv, LeaveNext
    PROVE  HubInv'
<1> DEFINE x == Head(stack)
           c == x.conn
           r == Head(x.rest)
<1>1. stack # << >> /\ StackFits(ws, closed, conns, stack) /\ x.op = "leaveAll"
  BY DEF LeaveNext, Top, HubInv
<1>2. Fit(ws, closed, conns, x)
  BY <1>1, PopFits
<1>3. c \in Conns /\ r \in Rooms
  BY <1>1, <1>2 DEF Fit
<1>4. Rest = Onwards(stack)
  BY DEF Rest, Onwards
<1>5. /\ StackFits(ws, closed, conns, Rest)
      /\ \A d, q : Leaving(stack, d, q) => Leaving(Rest, d, q) \/ (Leaves(x, d, r) /\ q = r)
      /\ \A d : Closing(stack, d) => Closing(Rest, d)
  BY <1>1, <1>4, RestFits
<1>6. \A d, q : Leaving(stack, d, q) => Leaving(Rest, d, q) \/ (d = c /\ q = r)
  BY <1>5 DEF Leaves
<1>7. LeaveRoom(r, c, Rest) /\ UNCHANGED <<ws, flags, conns, active>>
  BY DEF LeaveNext
<1> HIDE DEF c, r
<1> QED
  BY <1>3, <1>5, <1>6, <1>7, LeaveRoomStep

(* remove_conn and ws.close. *)
LEMMA HubCloseSocket ==
    ASSUME HubInv, CloseSocket
    PROVE  HubInv'
<1> DEFINE x == Head(stack)
           c == x.conn
<1>1. stack # << >> /\ StackFits(ws, closed, conns, stack) /\ x.op \in {"close", "cleanup"}
  BY DEF CloseSocket, Top, HubInv
<1>2. Fit(ws, closed, conns, x)
  BY <1>1, PopFits
<1>3. c \in Conns /\ closed[c] /\ (x.op = "cleanup" => ws[c] # "open")
  BY <1>1, <1>2 DEF Fit
<1>4. /\ StackFits(ws, closed, conns, Below)
      /\ \A d, q : Leaving(stack, d, q) => Leaving(Below, d, q)
      /\ \A d : Closing(stack, d) => d = c \/ Closing(Below, d)
  BY <1>1, BelowFits DEF Leaves, Closes
<1>5. HubType /\ ConnFits(stack, c)
  BY <1>3 DEF HubInv
<1>6. ws[c] # "none"
  BY <1>3, <1>5 DEF ConnFits
<1>7. /\ conns' \in Keys(Conns) /\ ToSet(conns') = ToSet(conns) \ {c}
      /\ UNCHANGED <<closed, joined, members, active>> /\ stack' = Below
  BY <1>5, DeleteKeyIsMinus DEF HubType, CloseSocket
<1>8. /\ ws' \in [Conns -> {"none", "open", "closing", "ending", "closed"}]
      /\ closeSent' \in [Conns -> BOOLEAN]
      /\ \A d \in Conns : d # c => ws'[d] = ws[d] /\ closeSent'[d] = closeSent[d]
      /\ ws'[c] \notin {"none", "open"}
  <2>1. CASE ws[c] = "open"
    <3>1. x.op = "close" /\ Top("close")
      BY <1>1, <1>3, <2>1 DEF Top, CloseSocket
    <3>2. /\ ws' = [ws EXCEPT ![c] = "closing"]
          /\ closeSent' = [closeSent EXCEPT ![c] = TRUE]
      BY <2>1, <3>1 DEF CloseSocket
    <3> QED
      BY <1>3, <1>5, <3>2 DEF HubType
  <2>2. CASE ws[c] # "open"
    <3>1. UNCHANGED <<ws, closeSent>>
      BY <2>2 DEF CloseSocket
    <3> QED
      BY <1>5, <1>6, <2>2, <3>1 DEF HubType
  <2> QED
    BY <2>1, <2>2
<1>9. StackFits(ws, closed, conns, stack)'
  <2>1. \A d \in Conns : closed[d] => closed'[d]
    BY <1>7
  <2>2. \A d \in Conns : ws[d] # "none" => ws'[d] # "none"
    BY <1>8
  <2>3. \A d \in Conns : ws[d] \notin {"none", "open"} => ws'[d] \notin {"none", "open"}
    BY <1>8
  <2>4. ToSet(conns') \subseteq ToSet(conns) /\ ToSet(conns) \subseteq Conns
    <3>1. ToSet(conns) \subseteq Conns
      BY <1>5 DEF HubType, Keys, ToSet
    <3> QED
      BY <1>7, <3>1
  <2>5. StackFits(ws', closed', conns', Below)
    BY <1>4, <2>1, <2>2, <2>3, <2>4, StackStays
  <2> QED
    BY <1>7, <2>5
<1>10. ASSUME NEW d \in Conns PROVE ConnFits(stack, d)'
  <2>1. ConnFits(stack, d)
    BY DEF HubInv
  <2>2. CASE d = c
    BY <1>3, <1>4, <1>7, <1>8, <2>1, <2>2 DEF ConnFits
  <2>3. CASE d # c
    BY <1>3, <1>4, <1>7, <1>8, <2>1, <2>3 DEF ConnFits
  <2> QED
    BY <2>2, <2>3
<1>11. MemberInv'
  BY <1>7 DEF HubInv, MemberInv, Members
<1>12. HubType'
  BY <1>5, <1>7, <1>8 DEF HubType
<1> QED
  BY <1>9, <1>10, <1>11, <1>12 DEF HubInv

(* ping_timer's next connection. *)
LEMMA HubHeartbeatNext ==
    ASSUME HubInv, HeartbeatNext
    PROVE  HubInv'
<1> DEFINE c == Head(Head(stack).rest)
<1>1. Top("timer") /\ stack # << >> /\ StackFits(ws, closed, conns, stack)
  BY DEF HeartbeatNext, Top, HubInv
<1>2. Fit(ws, closed, conns, Head(stack)) /\ Head(stack).op = "timer"
  BY <1>1, PopFits DEF Top
<1>3. c \in Conns /\ ws[c] # "none"
  <2>1. Head(stack).rest \in Seq(Conns) /\ Head(stack).rest # << >>
    BY <1>2 DEF Fit
  <2>2. c \in Conns /\ c \in ToSet(Head(stack).rest)
    BY <2>1 DEF ToSet
  <2> QED
    BY <1>2, <2>2 DEF Fit
<1>4. StackFits(ws, closed, conns, Rest) /\ Keeps(stack, Rest)
  BY <1>1, RestKeeps
<1>5. UNCHANGED <<ws, joined, members, conns, active>>
  BY DEF HeartbeatNext, hubVars
<1>6. (stack' = Rest /\ UNCHANGED flags) \/ CloseWith(c, Rest)
  BY DEF HeartbeatNext
<1> HIDE DEF c
<1>7. StackFits(ws, [closed EXCEPT ![c] = TRUE], conns, Rest)
  BY <1>3, <1>4, ClosedFits DEF HubInv
<1>8. CASE stack' = Rest /\ UNCHANGED flags
  BY <1>4, <1>5, <1>8, Moves
<1>9. CASE CloseWith(c, Rest)
  BY <1>3, <1>4, <1>5, <1>7, <1>9, CloseWithStep
<1> QED
  BY <1>6, <1>8, <1>9

(* While shutdown waits for its next connection nothing else is in          *)
(* progress.                                                                *)
LEMMA ShutdownTop ==
    ASSUME HubInv, Top("shutdown")
    PROVE  /\ Head(stack) \in Calls /\ Fit(ws, closed, conns, Head(stack))
           /\ \A c, r : ~Leaving(stack, c, r)
           /\ \A c : ~Closing(stack, c)
<1> DEFINE x == Head(stack)
<1>1. stack # << >> /\ StackFits(ws, closed, conns, stack) /\ x.op = "shutdown"
  BY DEF Top, HubInv
<1>2. Fit(ws, closed, conns, x) /\ Tail(stack) = << >> /\ stack \in Seq(Calls) /\ x \in Calls
  BY <1>1, PopFits DEF StackFits, Fit
<1>3. stack = Push(x, << >>) /\ << >> \in Seq(Calls)
  <2>1. stack = Push(x, Tail(stack))
    BY <1>1, PopFits
  <2>2. Push(x, Tail(stack)) = Push(x, << >>)
    BY <1>2
  <2>3. << >> \in Seq(Calls)
    OBVIOUS
  <2> HIDE DEF x
  <2> QED
    BY <2>1, <2>2, <2>3
<1>4. \A c, r : ~Leaving(<< >>, c, r) /\ ~Closing(<< >>, c)
  BY DEF Leaving, Closing
<1>5. \A c, r : ~Leaves(x, c, r) /\ ~Closes(x, c)
  BY <1>1 DEF Leaves, Closes
<1> HIDE DEF x
<1>6. /\ \A c, r : Leaving(Push(x, << >>), c, r) <=> Leaves(x, c, r) \/ Leaving(<< >>, c, r)
      /\ \A c : Closing(Push(x, << >>), c) <=> Closes(x, c) \/ Closing(<< >>, c)
  BY <1>2, <1>3, PushDuties
<1> QED
  BY <1>2, <1>3, <1>4, <1>5, <1>6 DEF x

(* shutdown's next connection. *)
LEMMA HubShutdownNext ==
    ASSUME HubInv, ShutdownNext
    PROVE  HubInv'
<1> DEFINE x == Head(stack)
           c == Head(x.rest)
           y == [x EXCEPT !.rest = Tail(@)]
           cl == [closed EXCEPT ![c] = TRUE]
<1>1. /\ x \in Calls /\ x.op = "shutdown" /\ Fit(ws, closed, conns, x) /\ x.rest # << >>
      /\ x.rest \in Seq(Conns) /\ HubType
  BY ShutdownTop DEF ShutdownNext, Top, HubInv, Fit
<1>2. Keeps(stack, <<y>>)
  BY ShutdownTop DEF Keeps, ShutdownNext
<1>3. UNCHANGED <<ws, joined, members, conns, active>>
  BY DEF ShutdownNext, hubVars
<1>4. (c \in ToSet(conns) /\ CloseWith(c, <<y>>)) \/ (c \notin ToSet(conns) /\ stack' = <<y>> /\ UNCHANGED flags)
  BY DEF ShutdownNext
<1> HIDE DEF x
<1>5. c \in Conns /\ \A d \in ToSet(x.rest) : d = c \/ d \in ToSet(Tail(x.rest))
  <2> DEFINE s == x.rest
             u == Tail(s)
  <2>1. /\ s \in Seq(Conns) /\ Len(s) \in Nat \ {0} /\ DOMAIN s = 1..Len(s) /\ Head(s) = s[1]
        /\ DOMAIN u = 1..(Len(s) - 1) /\ \A k \in 1..(Len(s) - 1) : u[k] = s[k + 1]
    BY <1>1
  <2> HIDE DEF s, u
  <2>2. ASSUME NEW k \in DOMAIN s, k # 1 PROVE s[k] \in ToSet(u)
    <3>1. k - 1 \in 1..(Len(s) - 1) /\ (k - 1) + 1 = k
      BY <2>1, <2>2
    <3> QED
      BY <2>1, <3>1 DEF ToSet
  <2>3. Head(s) \in Conns /\ \A e \in ToSet(s) : e = Head(s) \/ e \in ToSet(u)
    BY <2>1, <2>2 DEF ToSet
  <2> QED
    BY <2>3 DEF s, u
<1>6. y \in Calls /\ y.op = "shutdown" /\ y.rest = Tail(x.rest) /\ y.rest \in Seq(Conns)
  BY <1>1 DEF Calls
<1> HIDE DEF y, c
<1>7. ASSUME NEW dl, Fit(ws, dl, conns, y) PROVE StackFits(ws, dl, conns, <<y>>)
  <2>1. <<y>> \in Seq(Calls) /\ DOMAIN <<y>> = {1} /\ <<y>>[1] = y /\ Len(<<y>>) = 1
    BY <1>6
  <2> QED
    BY <1>7, <2>1 DEF StackFits
<1>8. CASE c \in ToSet(conns) /\ CloseWith(c, <<y>>)
  <2>1. cl[c] /\ \A d \in Conns : closed[d] => cl[d]
    BY <1>1, <1>5 DEF HubType
  <2>2. ws[c] # "none"
    BY <1>5, <1>8 DEF HubInv, ConnFits
  <2>3. ToSet(conns) \subseteq Conns
    BY <1>1 DEF HubType, Keys, ToSet
  <2> HIDE DEF cl
  <2>4. \A d \in ToSet(conns) : d \in ToSet(y.rest) \/ cl[d]
    BY <1>1, <1>5, <1>6, <2>1, <2>3 DEF Fit
  <2>5. Fit(ws, cl, conns, y)
    BY <1>6, <2>4 DEF Fit
  <2>6. StackFits(ws, cl, conns, <<y>>)
    BY <1>7, <2>5
  <2> QED
    BY <1>2, <1>3, <1>5, <1>8, <2>2, <2>6, CloseWithStep DEF cl
<1>9. CASE c \notin ToSet(conns) /\ stack' = <<y>> /\ UNCHANGED flags
  <2>1. Fit(ws, closed, conns, y)
    BY <1>1, <1>5, <1>6, <1>9 DEF Fit
  <2>2. StackFits(ws, closed, conns, stack') /\ Keeps(stack, stack')
    BY <1>2, <1>7, <1>9, <2>1
  <2> QED
    BY <1>3, <1>9, <2>2, Moves
<1> QED
  BY <1>4, <1>8, <1>9

(* When shutdown has gone through its connections all are closed and gone:  *)
(* what it drops is empty already.                                          *)
LEMMA ShutdownDone ==
    ASSUME HubInv, Top("shutdown"), Head(stack).rest = << >>
    PROVE  /\ ToSet(conns) = {}
           /\ \A c \in Conns : ws[c] # "open" /\ ToSet(joined[c]) = {}
           /\ \A r \in Rooms : ToSet(members[r]) = {}
<1>1. /\ Fit(ws, closed, conns, Head(stack)) /\ Head(stack).op = "shutdown"
      /\ \A c, r : ~Leaving(stack, c, r)
      /\ \A c : ~Closing(stack, c)
  BY ShutdownTop DEF Top
<1>2. ToSet(conns) \subseteq Conns /\ \A r \in Rooms : ToSet(members[r]) \subseteq Conns
  BY DEF HubInv, HubType, Keys, ToSet
<1>3. \A c \in ToSet(conns) : closed[c]
  BY <1>1 DEF Fit, ToSet
<1>4. ToSet(conns) = {}
  BY <1>1, <1>2, <1>3 DEF HubInv, ConnFits
<1>5. \A c \in Conns : ws[c] # "open" /\ ToSet(joined[c]) = {}
  BY <1>1, <1>4 DEF HubInv, ConnFits
<1>6. \A r \in Rooms : ToSet(members[r]) = {}
  BY <1>2, <1>5 DEF HubInv, MemberInv, Members
<1> QED
  BY <1>4, <1>5, <1>6

(* shutdown drops the maps. *)
LEMMA HubShutdownEnds ==
    ASSUME HubInv, ShutdownEnds
    PROVE  HubInv'
<1>1. /\ ToSet(conns) = {}
      /\ \A c \in Conns : ws[c] # "open" /\ ToSet(joined[c]) = {}
      /\ \A r \in Rooms : ToSet(members[r]) = {}
  BY ShutdownDone DEF ShutdownEnds
<1>2. << >> \in Keys(Conns) /\ ToSet(<< >>) = {}
  BY DEF Keys, ToSet
<1>3. /\ conns' = << >> /\ members' = [r \in Rooms |-> << >>] /\ stack' = << >>
      /\ UNCHANGED <<ws, flags, joined, active>>
  BY DEF ShutdownEnds
<1>4. HubType'
  BY <1>2, <1>3 DEF HubInv, HubType, flags
<1>5. StackFits(ws, closed, conns, stack)'
  BY <1>3 DEF StackFits
<1>6. \A c, r : ~Leaving(stack, c, r) /\ ~Closing(stack, c)
  BY ShutdownTop DEF ShutdownEnds
<1>7. ASSUME NEW c \in Conns PROVE ConnFits(stack, c)'
  <2>1. ConnFits(stack, c)
    BY DEF HubInv
  <2> QED
    BY <1>1, <1>2, <1>3, <1>6, <2>1 DEF ConnFits, flags
<1>8. MemberInv'
  BY <1>2, <1>3 DEF MemberInv, Members
<1> QED
  BY <1>4, <1>5, <1>7, <1>8 DEF HubInv

(* join_room's promise resolves. *)
LEMMA HubResolve ==
    ASSUME HubInv, Resolve
    PROVE  HubInv'
<1>1. stack # << >> /\ Head(stack).op = "resolve"
  BY DEF Resolve, Top
<1>2. StackFits(ws, closed, conns, Below) /\ Keeps(stack, Below)
  BY <1>1, BelowFits DEF Keeps, Leaves, Closes
<1>3. stack' = Below /\ UNCHANGED <<ws, flags, joined, members, conns, active>>
  BY DEF Resolve, hubVars
<1> QED
  BY <1>2, <1>3, Moves

-----------------------------------------------------------------------------
(* Continuations and events keep the hub's invariant *)

(* A handler that starts on an empty stack owes nothing. *)
LEMMA Begins ==
    ASSUME HubInv, stack = << >>, StackFits(ws, closed, conns, stack'),
           UNCHANGED <<ws, flags, joined, members, conns, active>>
    PROVE  HubInv'
<1>1. Keeps(stack, stack')
  BY BottomFits
<1> QED
  BY <1>1, Moves

(* The first of the continuations. *)
LEMMA HeadOfReady ==
    ASSUME QueueType, ready # << >>
    PROVE  /\ Head(ready) \in Commands /\ Head(ready).room \in Rooms
           /\ Head(ready).conn \in Conns /\ Head(ready).ids \in SUBSET Conns
<1>1. Head(ready) \in Commands
  BY DEF QueueType
<1> QED
  BY <1>1 DEF Commands

(* join_room after its await. *)
LEMMA HubAnnounce ==
    ASSUME HubInv, QueueType, Announce
    PROVE  HubInv'
<1> DEFINE k == Head(ready)
           r == k.room
           c == k.conn
           f == Frame("new_member", r, {c})
           ms == members[r]
           x == Call("resolve", c, r, << >>, NoFrame)
           st == IF k.ack THEN <<x>> \o Caught ELSE << >>
<1>1. stack = << >> /\ UNCHANGED <<ws, flags, joined, members, conns, active>>
  BY DEF Announce, Continuation, hubVars
<1>2. r \in Rooms /\ c \in Conns
  BY HeadOfReady DEF Announce, Continuation
<1>3. stack' = EmitLocal(ms, c, f, st)
  BY DEF Announce
<1> HIDE DEF r, c, k
<1>4. f \in Frames /\ ms \in Keys(Conns) /\ NoFrame \in Frames
  BY <1>2, FrameTypes DEF HubInv, HubType
<1>5. StackFits(ws, closed, conns, st)
  <2>1. x \in Calls /\ x.op = "resolve" /\ x.conn = c
    BY <1>2, <1>4 DEF Call, Calls, Ops
  <2> HIDE DEF x
  <2>2. Fit(ws, closed, conns, x)
    BY <1>2, <2>1 DEF Fit
  <2>3. StackFits(ws, closed, conns, Push(x, Caught))
    BY <2>1, <2>2, BottomFits, PushFits
  <2>4. StackFits(ws, closed, conns, << >>)
    BY BottomFits
  <2> QED
    BY <2>3, <2>4 DEF Push
<1> HIDE DEF f, ms, st
<1>6. StackFits(ws, closed, conns, EmitLocal(ms, c, f, st))
  BY <1>4, <1>5, EmitFits
<1>7. StackFits(ws, closed, conns, stack')
  BY <1>3, <1>6
<1> QED
  BY <1>1, <1>7, Begins

(* dispatch after get_cluster_presence. *)
LEMMA HubAcknowledge ==
    ASSUME HubInv, QueueType, Acknowledge
    PROVE  HubInv'
<1> DEFINE k == Head(ready)
           f == Frame("join_ack", k.room, k.ids)
           c == k.conn
<1>1. stack = << >> /\ UNCHANGED <<ws, flags, joined, members, conns, active>>
  BY DEF Acknowledge, Continuation, hubVars
<1>2. k.room \in Rooms /\ c \in Conns /\ k.ids \in SUBSET Conns
  BY HeadOfReady DEF Acknowledge, Continuation
<1>3. stack' = Send(c, f, Caught)
  BY DEF Acknowledge
<1> HIDE DEF k, c
<1>4. f \in Frames
  BY <1>2, FrameTypes
<1> HIDE DEF f
<1>5. StackFits(ws, closed, conns, Caught)
  BY BottomFits
<1>6. StackFits(ws, closed, conns, stack')
  BY <1>2, <1>3, <1>4, <1>5, SendFits
<1> QED
  BY <1>1, <1>6, Begins

(* The answers of Redis, get_cluster_presence and pongs leave the hub       *)
(* alone.                                                                   *)
LEMMA HubElsewhere ==
    ASSUME HubInv,
           \/ Answered \/ Failed \/ List \/ Wait \/ UNCHANGED vars
           \/ \E c \in Conns : Pong(c)
    PROVE  HubInv'
<1>1. UNCHANGED <<ws, flags, joined, members, conns, active>> /\ stack' = stack
  BY DEF Answered, Failed, List, Wait, Pong, vars, hubVars, loop
<1>2. StackFits(ws, closed, conns, stack') /\ Keeps(stack, stack')
  BY <1>1 DEF HubInv, Keeps
<1> QED
  BY <1>1, <1>2, Moves

(* The connection handler. *)
LEMMA HubConnect ==
    ASSUME HubInv, NEW c \in Conns, Connect(c)
    PROVE  HubInv'
<1>0. HubType /\ stack = << >> /\ ws[c] = "none" /\ ConnFits(stack, c)
  BY DEF HubInv, Connect, Idle
<1>1. /\ ws' = [ws EXCEPT ![c] = "open"] /\ UNCHANGED <<flags, stack>>
      /\ ws' \in [Conns -> {"none", "open", "closing", "ending", "closed"}]
  BY <1>0 DEF Connect, HubType, loop
<1>2. /\ active' \in Keys(Conns) /\ ToSet(active') = ToSet(active) \cup {c}
      /\ conns' \in Keys(Conns) /\ ToSet(conns') = ToSet(conns) \cup {c}
  BY <1>0, AddKeyIsUnion DEF Connect, HubType
<1>3. /\ joined' \in [Conns -> Keys(Rooms)] /\ ToSet(joined'[c]) = ToSet(joined[c]) \cup {Root}
      /\ \A d \in Conns : d # c => joined'[d] = joined[d]
  BY <1>0, AddKeyIsUnion, RootAssumption DEF Connect, JoinRoom, HubType
<1>4. /\ members' \in [Rooms -> Keys(Conns)] /\ ToSet(members'[Root]) = ToSet(members[Root]) \cup {c}
      /\ \A q \in Rooms : q # Root => members'[q] = members[q]
  BY <1>0, AddKeyIsUnion, RootAssumption DEF Connect, JoinRoom, HubType
<1>5. HubType'
  BY <1>0, <1>1, <1>2, <1>3, <1>4 DEF HubType, flags
<1>6. StackFits(ws, closed, conns, stack)'
  BY <1>0, <1>1, BottomFits
<1>7. ASSUME NEW d \in Conns PROVE ConnFits(stack, d)'
  <2>1. ConnFits(stack, d)
    BY DEF HubInv
  <2>2. CASE d = c
    <3>1. ~closed[c] /\ ~closeSent[c] /\ ws'[c] = "open"
      BY <1>0, <1>1 DEF ConnFits, HubType
    <3> QED
      BY <1>1, <1>2, <2>2, <3>1 DEF ConnFits, flags
  <2>3. CASE d # c
    <3>1. ws'[d] = ws[d] /\ joined'[d] = joined[d]
      BY <1>0, <1>1, <1>3, <2>3 DEF HubType
    <3> QED
      BY <1>1, <1>2, <2>1, <2>3, <3>1 DEF ConnFits, flags
  <2> QED
    BY <2>2, <2>3
<1>8. MemberInv'
  <2> SUFFICES ASSUME NEW q \in Rooms, NEW d \in Conns, d \in ToSet(members'[q])
               PROVE  q \in ToSet(joined'[d])
    BY DEF MemberInv, Members
  <2>1. d \in ToSet(members[q]) => q \in ToSet(joined[d])
    BY DEF HubInv, MemberInv, Members
  <2> QED
    BY <1>3, <1>4, <2>1
<1> QED
  BY <1>5, <1>6, <1>7, <1>8 DEF HubInv

(* The sender of a frame is open, in conns and not closed: frames after     *)
(* ws.close are excluded.                                                   *)
LEMMA SenderIsOpen ==
    ASSUME LateFrames = FALSE, HubInv, NEW c \in Conns, NEW kind, Receives(c, kind)
    PROVE  /\ stack = << >> /\ ws[c] = "open" /\ ~closed[c] /\ c \in ToSet(conns)
           /\ HubType /\ ConnFits(stack, c)
<1>1. stack = << >> /\ ws[c] = "open" /\ ConnFits(stack, c) /\ HubType
  BY DEF Receives, Input, Event, Idle, HubInv
<1>2. ~Closing(stack, c)
  BY <1>1 DEF Closing
<1> QED
  BY <1>1, <1>2 DEF ConnFits

(* join_room. *)
LEMMA HubJoin ==
    ASSUME LateFrames = FALSE, HubInv, NEW c \in Conns, NEW r \in Rooms, Join(c, r)
    PROVE  HubInv'
<1>0. /\ stack = << >> /\ ws[c] = "open" /\ ~closed[c] /\ c \in ToSet(conns)
      /\ HubType /\ ConnFits(stack, c)
  BY SenderIsOpen DEF Join
<1>1. UNCHANGED <<ws, flags, conns, active, stack>>
  BY DEF Join, loop
<1>2. /\ joined' \in [Conns -> Keys(Rooms)] /\ ToSet(joined'[c]) = ToSet(joined[c]) \cup {r}
      /\ \A d \in Conns : d # c => joined'[d] = joined[d]
  BY <1>0, AddKeyIsUnion DEF Join, JoinRoom, HubType
<1>3. /\ members' \in [Rooms -> Keys(Conns)] /\ ToSet(members'[r]) = ToSet(members[r]) \cup {c}
      /\ \A q \in Rooms : q # r => members'[q] = members[q]
  BY <1>0, AddKeyIsUnion DEF Join, JoinRoom, HubType
<1>4. HubType'
  BY <1>0, <1>1, <1>2, <1>3 DEF HubType, flags
<1>5. StackFits(ws, closed, conns, stack)'
  BY <1>0, <1>1, BottomFits
<1>6. ASSUME NEW d \in Conns PROVE ConnFits(stack, d)'
  <2>1. ConnFits(stack, d)
    BY DEF HubInv
  <2>2. CASE d = c
    BY <1>0, <1>1, <2>1, <2>2 DEF ConnFits, flags
  <2>3. CASE d # c
    BY <1>1, <1>2, <2>1, <2>3 DEF ConnFits, flags
  <2> QED
    BY <2>2, <2>3
<1>7. MemberInv'
  <2> SUFFICES ASSUME NEW q \in Rooms, NEW d \in Conns, d \in ToSet(members'[q])
               PROVE  q \in ToSet(joined'[d])
    BY DEF MemberInv, Members
  <2>1. d \in ToSet(members[q]) => q \in ToSet(joined[d])
    BY DEF HubInv, MemberInv, Members
  <2> QED
    BY <1>2, <1>3, <2>1
<1> QED
  BY <1>4, <1>5, <1>6, <1>7 DEF HubInv

(* leave_room, and the leave_ack after it. *)
LEMMA HubLeave ==
    ASSUME LateFrames = FALSE, HubInv, NEW c \in Conns, NEW r \in Rooms, Leave(c, r)
    PROVE  HubInv'
<1> DEFINE f == Frame("leave_ack", r, {c})
           st == Send(c, f, Caught)
<1>0. stack = << >>
  BY SenderIsOpen DEF Leave
<1>1. LeaveRoom(r, c, st) /\ UNCHANGED <<ws, flags, conns, active>>
  BY DEF Leave
<1>2. f \in Frames
  BY FrameTypes
<1> HIDE DEF f
<1>3. StackFits(ws, closed, conns, st)
  BY <1>2, BottomFits, SendFits
<1> HIDE DEF st
<1>4. \A d, q : ~Leaving(stack, d, q) /\ ~Closing(stack, d)
  BY <1>0 DEF Leaving, Closing
<1> QED
  BY <1>1, <1>3, <1>4, LeaveRoomStep

(* Messages for a room or for one connection. *)
LEMMA HubMessage ==
    ASSUME HubInv,
           \/ \E c \in Conns, r \in Rooms : Broadcast(c, r)
           \/ \E c, d \in Conns : Direct(c, d)
           \/ \E d \in Conns : Unicast(d)
           \/ \E r \in Rooms : Incoming(r)
    PROVE  HubInv'
<1>1. stack = << >> /\ UNCHANGED <<ws, flags, joined, members, conns, active>>
  BY DEF Broadcast, Direct, Unicast, Incoming, Receives, Input, Event, Idle, hubVars
<1>2. StackFits(ws, closed, conns, Caught) /\ StackFits(ws, closed, conns, << >>)
  BY BottomFits
<1>3. \A r \in Rooms : Frame("data", r, {}) \in Frames
  BY FrameTypes
<1>4. ASSUME NEW c \in Conns, NEW r \in Rooms, Broadcast(c, r)
      PROVE  StackFits(ws, closed, conns, stack')
  <2> DEFINE f == Frame("data", r, {})
             ms == members[r]
  <2>1. stack' = EmitLocal(ms, c, f, Caught)
    BY <1>4 DEF Broadcast
  <2>2. f \in Frames /\ ms \in Keys(Conns)
    BY <1>3 DEF HubInv, HubType
  <2> HIDE DEF f, ms
  <2> QED
    BY <1>2, <2>1, <2>2, EmitFits
<1>5. ASSUME NEW r \in Rooms, Incoming(r)
      PROVE  StackFits(ws, closed, conns, stack')
  <2> DEFINE f == Frame("data", r, {})
             ms == members[r]
  <2>1. stack' = EmitLocal(ms, None, f, << >>)
    BY <1>5 DEF Incoming
  <2>2. f \in Frames /\ ms \in Keys(Conns)
    BY <1>3 DEF HubInv, HubType
  <2> HIDE DEF f, ms
  <2> QED
    BY <1>2, <2>1, <2>2, EmitFits
<1>6. ASSUME NEW c \in Conns, NEW d \in Conns, Direct(c, d) \/ Unicast(d)
      PROVE  StackFits(ws, closed, conns, stack')
  <2> DEFINE f == Frame("data", Root, {})
  <2>1. stack' = Send(d, f, Caught) \/ stack' = Send(d, f, << >>)
    BY <1>6 DEF Direct, Unicast
  <2>2. f \in Frames
    BY <1>3, RootAssumption
  <2> HIDE DEF f
  <2> QED
    BY <1>2, <2>1, <2>2, SendFits
<1>7. StackFits(ws, closed, conns, stack')
  BY <1>4, <1>5, <1>6
<1> QED
  BY <1>1, <1>7, Begins

(* disconnect, and a frame that is too long or cannot be decoded. *)
LEMMA HubKick ==
    ASSUME LateFrames = FALSE, HubInv, NEW c \in Conns,
           Malformed(c) \/ \E d \in Conns : Kick(c, d)
    PROVE  HubInv'
<1>1. /\ stack = << >> /\ ws[c] = "open" /\ HubType
      /\ UNCHANGED <<ws, joined, members, conns, active>>
  BY SenderIsOpen DEF Malformed, Kick, hubVars
<1>2. PICK d \in Conns, st \in {Caught, << >>} : CloseWith(d, st) /\ ws[d] # "none"
  <2>1. CASE Malformed(c)
    BY <1>1, <2>1 DEF Malformed
  <2>2. ASSUME NEW d \in Conns, Kick(c, d) PROVE CloseWith(d, Caught) /\ ws[d] # "none"
    BY <2>2 DEF Kick, HubInv, ConnFits
  <2> QED
    BY <2>1, <2>2
<1>3. StackFits(ws, closed, conns, st) /\ Keeps(stack, st)
  BY <1>1, <1>2, BottomFits
<1>4. StackFits(ws, [closed EXCEPT ![d] = TRUE], conns, st)
  BY <1>1, <1>3, ClosedFits
<1> QED
  BY <1>1, <1>2, <1>3, <1>4, CloseWithStep

(* A socket that ends, or was refused, is closed for the hub or has still   *)
(* its close event to come.                                                 *)
LEMMA HubSocketEnds ==
    ASSUME HubInv, NEW c \in Conns, Refuse(c) \/ PeerCloses(c)
    PROVE  HubInv'
<1>0. HubType /\ stack = << >> /\ UNCHANGED <<flags, joined, members, conns, active, stack>>
  BY DEF Refuse, PeerCloses, Input, Event, Idle, HubInv, hubVars, loop
<1>1. /\ ws' \in [Conns -> {"none", "open", "closing", "ending", "closed"}]
      /\ ws'[c] \in {"ending", "closed"}
      /\ \A d \in Conns : d # c => ws'[d] = ws[d]
  BY <1>0 DEF Refuse, PeerCloses, HubType
<1>2. HubType'
  BY <1>0, <1>1 DEF HubType, flags
<1>3. StackFits(ws, closed, conns, stack)'
  BY <1>0, BottomFits
<1>4. ASSUME NEW d \in Conns PROVE ConnFits(stack, d)'
  <2>1. ConnFits(stack, d)
    BY DEF HubInv
  <2>2. CASE d = c
    BY <1>0, <1>1, <2>1, <2>2 DEF ConnFits, flags, Closing
  <2>3. CASE d # c
    BY <1>0, <1>1, <2>1, <2>3 DEF ConnFits, flags
  <2> QED
    BY <2>2, <2>3
<1>5. MemberInv'
  BY <1>0 DEF HubInv, MemberInv, Members
<1> QED
  BY <1>2, <1>3, <1>4, <1>5 DEF HubInv

(* The close and error events: cleanup. *)
LEMMA HubCleanup ==
    ASSUME HubInv, NEW c \in Conns, CloseEvent(c) \/ ErrorEvent(c)
    PROVE  HubInv'
<1> DEFINE js == joined[c]
           tt == Parting("cleanup", c, js, << >>)
<1>0. /\ HubType /\ stack = << >> /\ UNCHANGED <<joined, members, conns>> /\ ws[c] # "none"
      /\ ConnFits(stack, c) /\ ~Closing(stack, c)
  <2>1. stack = << >>
    BY DEF CloseEvent, ErrorEvent, Input, Event, Idle
  <2> QED
    BY <2>1 DEF CloseEvent, ErrorEvent, HubInv, hubVars, Closing
<1>1. /\ ws' \in [Conns -> {"none", "open", "closing", "ending", "closed"}]
      /\ ws'[c] \in {"ending", "closed"}
      /\ \A d \in Conns : d # c => ws'[d] = ws[d]
  BY <1>0 DEF CloseEvent, ErrorEvent, HubType
<1>2. active' \in Keys(Conns) /\ ToSet(active') = ToSet(active) \ {c}
  BY <1>0, DeleteKeyIsMinus DEF CloseEvent, ErrorEvent, HubType
<1>3. MemberInv'
  BY <1>0 DEF HubInv, MemberInv, Members
<1>4. CASE closed[c]
  <2>1. stack' = << >> /\ UNCHANGED flags
    BY <1>4 DEF CloseEvent, ErrorEvent, Cleanup
  <2>2. HubType'
    BY <1>0, <1>1, <1>2, <2>1 DEF HubType, flags
  <2>3. StackFits(ws, closed, conns, stack)'
    BY <2>1, BottomFits
  <2>4. ASSUME NEW d \in Conns PROVE ConnFits(stack, d)'
    <3>1. ConnFits(stack, d)
      BY DEF HubInv
    <3>2. CASE d = c
      BY <1>0, <1>1, <1>2, <1>4, <2>1, <3>1, <3>2 DEF ConnFits, flags
    <3>3. CASE d # c
      BY <1>0, <1>1, <1>2, <2>1, <3>1, <3>3 DEF ConnFits, flags
    <3> QED
      BY <3>2, <3>3
  <2> QED
    BY <1>3, <2>2, <2>3, <2>4 DEF HubInv
<1>5. CASE ~closed[c]
  <2>1. /\ closed' = [closed EXCEPT ![c] = TRUE] /\ closeSent' = closeSent /\ stack' = tt
    BY <1>5 DEF CloseEvent, ErrorEvent, Cleanup, Parting
  <2>2. HubType'
    BY <1>0, <1>1, <1>2, <2>1 DEF HubType
  <2>3. /\ closed'[c] /\ js \in Seq(Rooms) /\ ws'[c] \notin {"none", "open"}
        /\ \A d \in Conns : d # c => closed'[d] = closed[d]
    BY <1>0, <1>1, <2>1 DEF HubType, Keys
  <2>4. StackFits(ws', closed', conns', << >>)
    BY BottomFits
  <2>5. /\ StackFits(ws', closed', conns', tt) /\ Closing(tt, c)
        /\ \A r \in ToSet(js) : Leaving(tt, c, r)
    <3> HIDE DEF js
    <3> DEFINE w == ws'
               cl == closed'
               cs == conns'
    <3>1. cl[c] /\ js \in Seq(Rooms) /\ w[c] \notin {"none", "open"} /\ StackFits(w, cl, cs, << >>)
      BY <2>3, <2>4
    <3> HIDE DEF w, cl, cs
    <3>2. /\ StackFits(w, cl, cs, tt) /\ Closing(tt, c)
          /\ \A r \in ToSet(js) : Leaving(tt, c, r)
      BY <3>1, ClosingFits
    <3> QED
      BY <3>2 DEF w, cl, cs
  <2> HIDE DEF tt
  <2>6. StackFits(ws, closed, conns, stack)'
    BY <2>1, <2>5
  <2>7. ASSUME NEW d \in Conns PROVE ConnFits(stack, d)'
    <3>1. ConnFits(stack, d)
      BY DEF HubInv
    <3>2. CASE d = c
      BY <1>0, <1>1, <1>2, <2>1, <2>3, <2>5, <3>1, <3>2 DEF ConnFits
    <3>3. CASE d # c
      <4>1. \A r : ~Leaving(stack, d, r) /\ ~Closing(stack, d)
        BY <1>0 DEF Leaving, Closing
      <4> QED
        BY <1>0, <1>1, <1>2, <2>1, <2>3, <3>1, <3>3, <4>1 DEF ConnFits
    <3> QED
      BY <3>2, <3>3
  <2> QED
    BY <1>3, <2>2, <2>6, <2>7 DEF HubInv
<1> QED
  BY <1>4, <1>5

(* ping_timer and shutdown begin. *)
LEMMA HubLoops ==
    ASSUME HubInv, Timer \/ Shutdown
    PROVE  HubInv'
<1>1. /\ stack = << >> /\ UNCHANGED <<ws, flags, joined, members, conns, active>>
      /\ active \in Seq(Conns) /\ conns \in Seq(Conns) /\ NoFrame \in Frames
  BY FrameTypes DEF Timer, Shutdown, Event, Idle, HubInv, HubType, Keys, hubVars
<1>2. PICK x \in Calls : Fit(ws, closed, conns, x) /\ stack' = <<x>>
  <2>1. CASE Timer
    <3> DEFINE x == Call("timer", None, Root, active, NoFrame)
    <3>1. x \in Calls /\ x.op = "timer" /\ x.rest = active /\ stack' = <<x>> /\ active # << >>
      BY <1>1, <2>1, RootAssumption DEF Timer, Call, Calls, Ops
    <3>2. \A c \in ToSet(active) : ws[c] # "none"
      <4>1. ToSet(active) \subseteq Conns
        BY <1>1 DEF ToSet
      <4> QED
        BY <4>1 DEF HubInv, ConnFits
    <3> HIDE DEF x
    <3>3. Fit(ws, closed, conns, x)
      BY <1>1, <3>1, <3>2 DEF Fit
    <3> QED
      BY <3>1, <3>3
  <2>2. CASE Shutdown
    <3> DEFINE x == Call("shutdown", None, Root, conns, NoFrame)
    <3>1. x \in Calls /\ x.op = "shutdown" /\ x.rest = conns /\ stack' = <<x>>
      BY <1>1, <2>2, RootAssumption DEF Shutdown, Call, Calls, Ops
    <3> HIDE DEF x
    <3>2. Fit(ws, closed, conns, x)
      BY <1>1, <3>1 DEF Fit
    <3> QED
      BY <3>1, <3>2
  <2> QED
    BY <2>1, <2>2
<1>3. <<x>> \in Seq(Calls) /\ DOMAIN <<x>> = {1} /\ <<x>>[1] = x /\ Len(<<x>>) = 1
  OBVIOUS
<1>4. StackFits(ws, closed, conns, stack')
  BY <1>2, <1>3 DEF StackFits
<1> QED
  BY <1>1, <1>4, Begins

-----------------------------------------------------------------------------
(* Presence *)

(* An update at the end of the pipe is the one that counts. *)
LEMMA PairAppend ==
    ASSUME NEW p \in Seq(Commands), NEW k \in Commands, NEW ps, NEW r, NEW c, NEW is \in BOOLEAN
    PROVE  /\ Updates(k, r, c) /\ (k.op = "sadd" <=> is) => PairFits(ps, Append(p, k), r, c, is)
           /\ ~Updates(k, r, c) /\ PairFits(ps, p, r, c, is) => PairFits(ps, Append(p, k), r, c, is)
<1> DEFINE q == Append(p, k)
<1>1. /\ Len(p) \in Nat /\ DOMAIN p = 1..Len(p) /\ DOMAIN q = 1..(Len(p) + 1)
      /\ q[Len(p) + 1] = k /\ \A l \in 1..Len(p) : q[l] = p[l]
  OBVIOUS
<1>2. Append(p, k) = q
  OBVIOUS
<1> HIDE DEF q
<1>3. \A l \in DOMAIN q : l = Len(p) + 1 \/ (l \in DOMAIN p /\ q[l] = p[l] /\ l < Len(p) + 1)
  BY <1>1
<1>4. ASSUME Updates(k, r, c), k.op = "sadd" <=> is PROVE PairFits(ps, q, r, c, is)
  <2> DEFINE n == Len(p) + 1
  <2>1. n \in DOMAIN q /\ q[n] = k /\ \A l \in DOMAIN q : ~(l > n)
    BY <1>1
  <2> HIDE DEF n
  <2>2. Updates(q[n], r, c) /\ (q[n].op = "sadd" <=> is)
    BY <1>4, <2>1
  <2> QED
    BY <2>1, <2>2 DEF PairFits
<1>5. ASSUME ~Updates(k, r, c), PairFits(ps, p, r, c, is) PROVE PairFits(ps, q, r, c, is)
  <2>1. CASE (\A l \in DOMAIN p : ~Updates(p[l], r, c)) /\ (c \in ps <=> is)
    <3>1. \A l \in DOMAIN q : ~Updates(q[l], r, c)
      BY <1>1, <1>3, <1>5, <2>1
    <3> QED
      BY <2>1, <3>1 DEF PairFits
  <2>2. ASSUME NEW n \in DOMAIN p, Updates(p[n], r, c), p[n].op = "sadd" <=> is,
               \A l \in DOMAIN p : l > n => ~Updates(p[l], r, c)
        PROVE  PairFits(ps, q, r, c, is)
    <3>1. n \in DOMAIN q /\ q[n] = p[n]
      BY <1>1
    <3>2. \A l \in DOMAIN q : l > n => ~Updates(q[l], r, c)
      BY <1>1, <1>3, <1>5, <2>2
    <3>3. Updates(q[n], r, c) /\ (q[n].op = "sadd" <=> is)
      BY <2>2, <3>1
    <3> QED
      BY <3>1, <3>2, <3>3 DEF PairFits
  <2> QED
    BY <1>5, <2>1, <2>2 DEF PairFits
<1> QED
  BY <1>2, <1>4, <1>5

(* The first command is answered: carried out, it may now be presence that  *)
(* counts.                                                                  *)
LEMMA PairTail ==
    ASSUME NEW p \in Seq(Commands), p # << >>, NEW ps, NEW qs, NEW r, NEW c, NEW is \in BOOLEAN,
           PairFits(ps, p, r, c, is),
           Updates(Head(p), r, c) => (c \in qs <=> Head(p).op = "sadd"),
           ~Updates(Head(p), r, c) => (c \in qs <=> c \in ps)
    PROVE  PairFits(qs, Tail(p), r, c, is)
<1> DEFINE q == Tail(p)
<1>1. /\ Len(p) \in Nat \ {0} /\ DOMAIN p = 1..Len(p) /\ Head(p) = p[1]
      /\ DOMAIN q = 1..(Len(p) - 1) /\ \A l \in 1..(Len(p) - 1) : q[l] = p[l + 1]
  OBVIOUS
<1>2. Tail(p) = q
  OBVIOUS
<1> HIDE DEF q
<1>3. \A l \in DOMAIN q : l + 1 \in DOMAIN p /\ q[l] = p[l + 1] /\ l \in Nat /\ l + 1 > 1
  BY <1>1
<1>4. CASE (\A l \in DOMAIN p : ~Updates(p[l], r, c)) /\ (c \in ps <=> is)
  <2>1. \A l \in DOMAIN q : ~Updates(q[l], r, c)
    BY <1>3, <1>4
  <2>2. ~Updates(Head(p), r, c)
    BY <1>1, <1>4
  <2>3. c \in qs <=> is
    BY <1>4, <2>2
  <2> QED
    BY <1>2, <2>1, <2>3 DEF PairFits
<1>5. ASSUME NEW n \in DOMAIN p, Updates(p[n], r, c), p[n].op = "sadd" <=> is,
             \A l \in DOMAIN p : l > n => ~Updates(p[l], r, c)
      PROVE  PairFits(qs, q, r, c, is)
  <2>1. CASE n = 1
    <3>1. \A l \in DOMAIN q : ~Updates(q[l], r, c)
      BY <1>3, <1>5, <2>1
    <3>2. Updates(Head(p), r, c) /\ (Head(p).op = "sadd" <=> is)
      BY <1>1, <1>5, <2>1
    <3>3. c \in qs <=> is
      BY <3>2
    <3> QED
      BY <3>1, <3>3 DEF PairFits
  <2>2. CASE n # 1
    <3> DEFINE m == n - 1
    <3>1. m \in DOMAIN q /\ q[m] = p[n] /\ \A l \in DOMAIN q : l > m => l + 1 > n
      BY <1>1, <2>2
    <3> HIDE DEF m
    <3>2. \A l \in DOMAIN q : l > m => ~Updates(q[l], r, c)
      BY <1>3, <1>5, <3>1
    <3>3. Updates(q[m], r, c) /\ (q[m].op = "sadd" <=> is)
      BY <1>5, <3>1
    <3> QED
      BY <3>1, <3>2, <3>3 DEF PairFits
  <2> QED
    BY <2>1, <2>2
<1> QED
  BY <1>2, <1>4, <1>5 DEF PairFits

(* What must stay when nobody joins, leaves or is answered. *)
LEMMA PresenceStays ==
    ASSUME PresenceInv, UNCHANGED <<members, pipe, presence, lost>>
    PROVE  PresenceInv'
  BY DEF PresenceInv, Members

(* Who is in a room changes together with the pipe. *)
LEMMA PresenceSent ==
    ASSUME QueueType, PresenceInv, HubType, NEW r \in Rooms, NEW c \in Conns, NEW ack \in BOOLEAN,
           NEW op \in {"sadd", "srem"},
           pipe' = Append(pipe, Command(op, r, c, {}, ack)), UNCHANGED <<presence, lost>>,
           c \in ToSet(members'[r]) <=> op = "sadd",
           \A q \in Rooms, d \in Conns :
              ~(q = r /\ d = c) => (d \in ToSet(members'[q]) <=> d \in ToSet(members[q]))
    PROVE  PresenceInv'
<1> DEFINE k == Command(op, r, c, {}, ack)
<1>1. /\ k \in Commands /\ pipe \in Seq(Commands) /\ k.op = op
      /\ \A q, d : Updates(k, q, d) <=> q = r /\ d = c
  BY DEF QueueType, Command, Commands, Updates
<1>2. pipe' = Append(pipe, k)
  OBVIOUS
<1> HIDE DEF k
<1> SUFFICES ASSUME NEW q \in Rooms, NEW d \in Conns, <<q, d>> \notin lost
             PROVE  PairFits(presence[q], pipe', q, d, d \in ToSet(members'[q]))
  BY DEF PresenceInv, Members
<1> DEFINE is == d \in ToSet(members'[q])
           was == d \in ToSet(members[q])
           ps == presence[q]
<1>3. PairFits(ps, pipe, q, d, was)
  BY DEF PresenceInv, Members
<1>4. is \in BOOLEAN /\ was \in BOOLEAN
  OBVIOUS
<1>5. CASE q = r /\ d = c
  <2>1. is <=> op = "sadd"
    BY <1>5
  <2> HIDE DEF is, ps
  <2>2. Updates(k, q, d) /\ (k.op = "sadd" <=> is)
    BY <1>1, <1>5, <2>1
  <2>3. PairFits(ps, Append(pipe, k), q, d, is)
    BY <1>1, <1>4, <2>2, PairAppend
  <2> QED
    BY <1>2, <2>3 DEF is, ps
<1>6. CASE ~(q = r /\ d = c)
  <2>1. is <=> was
    BY <1>6
  <2> HIDE DEF is, was, ps
  <2>2. is = was
    BY <1>4, <2>1
  <2>3. ~Updates(k, q, d) /\ PairFits(ps, pipe, q, d, is)
    BY <1>1, <1>3, <1>6, <2>2
  <2>4. PairFits(ps, Append(pipe, k), q, d, is)
    BY <1>1, <1>4, <2>3, PairAppend
  <2> QED
    BY <1>2, <2>4 DEF is, ps
<1> QED
  BY <1>5, <1>6

(* A listing changes nothing. *)
LEMMA PresenceListed ==
    ASSUME NEW p \in Seq(Commands), NEW k \in Commands, k.op = "smembers", NEW ps, NEW r, NEW c,
           NEW is \in BOOLEAN, PairFits(ps, p, r, c, is)
    PROVE  PairFits(ps, Append(p, k), r, c, is)
<1>1. ~Updates(k, r, c)
  BY DEF Updates
<1> QED
  BY <1>1, PairAppend

-----------------------------------------------------------------------------
(* Every step keeps the queues and presence *)

QueueInv == QueueType /\ PresenceInv

(* leave_room sends srem, unless the room is empty. *)
LEMMA QueueLeaveRoom ==
    ASSUME HubInv, QueueInv, NEW r \in Rooms, NEW c \in Conns, NEW st, LeaveRoom(r, c, st),
           UNCHANGED <<ready, presence, lost>>
    PROVE  QueueInv'
<1> DEFINE k == Command("srem", r, c, {}, FALSE)
<1>0. QueueType /\ PresenceInv /\ HubType /\ k \in Commands
  BY DEF QueueInv, HubInv, Command, Commands
<1>1. CASE members[r] = << >>
  <2>1. UNCHANGED <<members, pipe>>
    BY <1>1 DEF LeaveRoom
  <2>2. PresenceInv'
    BY <1>0, <2>1, PresenceStays
  <2>3. QueueType'
    BY <1>0, <2>1 DEF QueueType
  <2> QED
    BY <2>2, <2>3 DEF QueueInv
<1>2. CASE members[r] # << >>
  <2>1. pipe' = Append(pipe, k) /\ members' = [members EXCEPT ![r] = DeleteKey(@, c)]
    BY <1>2 DEF LeaveRoom
  <2>2. /\ ToSet(members'[r]) = ToSet(members[r]) \ {c}
        /\ \A q \in Rooms : q # r => members'[q] = members[q]
    BY <1>0, <2>1, DeleteKeyIsMinus DEF HubType
  <2>3. QueueType'
    <3> HIDE DEF k
    <3> QED
      BY <1>0, <2>1 DEF QueueType
  <2>4. c \in ToSet(members'[r]) <=> "srem" = "sadd"
    BY <2>2
  <2>5. \A q \in Rooms, d \in Conns :
           ~(q = r /\ d = c) => (d \in ToSet(members'[q]) <=> d \in ToSet(members[q]))
    BY <2>2
  <2>6. PresenceInv'
    BY <1>0, <2>1, <2>4, <2>5, PresenceSent
  <2> QED
    BY <2>3, <2>6 DEF QueueInv
<1> QED
  BY <1>1, <1>2

(* join_room sends sadd. *)
LEMMA QueueJoin ==
    ASSUME HubInv, QueueInv, NEW c \in Conns, NEW r \in Rooms, Join(c, r)
    PROVE  QueueInv'
<1> DEFINE k == Command("sadd", r, c, {}, TRUE)
<1>0. QueueType /\ PresenceInv /\ HubType /\ k \in Commands
  BY DEF QueueInv, HubInv, Command, Commands
<1>1. /\ pipe' = Append(pipe, k) /\ members' = [members EXCEPT ![r] = AddKey(@, c)]
      /\ UNCHANGED <<ready, presence, lost>>
  BY DEF Join, JoinRoom, loop, redis
<1>2. /\ ToSet(members'[r]) = ToSet(members[r]) \cup {c}
      /\ \A q \in Rooms : q # r => members'[q] = members[q]
  BY <1>0, <1>1, AddKeyIsUnion DEF HubType
<1>3. QueueType'
  <2> HIDE DEF k
  <2> QED
    BY <1>0, <1>1 DEF QueueType
<1>4. c \in ToSet(members'[r]) <=> "sadd" = "sadd"
  BY <1>2
<1>5. \A q \in Rooms, d \in Conns :
         ~(q = r /\ d = c) => (d \in ToSet(members'[q]) <=> d \in ToSet(members[q]))
  BY <1>2
<1>6. PresenceInv'
  <2> DEFINE op == "sadd"
             ack == TRUE
  <2>1. op \in {"sadd", "srem"} /\ ack \in BOOLEAN
    OBVIOUS
  <2>2. pipe' = Append(pipe, Command(op, r, c, {}, ack)) /\ (c \in ToSet(members'[r]) <=> op = "sadd")
    BY <1>1, <1>4
  <2>3. UNCHANGED <<presence, lost>> /\ QueueType /\ PresenceInv /\ HubType
    BY <1>0, <1>1
  <2> HIDE DEF op, ack
  <2> QED
    BY <1>5, <2>1, <2>2, <2>3, PresenceSent
<1> QED
  BY <1>3, <1>6 DEF QueueInv

(* The connection handler sends sadd and smembers. *)
LEMMA QueueConnect ==
    ASSUME HubInv, QueueInv, NEW c \in Conns, Connect(c)
    PROVE  QueueInv'
<1> DEFINE k == Command("sadd", Root, c, {}, FALSE)
           ids == ToSet(members'[Root])
           l == Command("smembers", Root, c, ids, TRUE)
           p == Append(pipe, k)
<1>0. QueueType /\ PresenceInv /\ HubType /\ k \in Commands /\ k.op = "sadd"
  BY RootAssumption DEF QueueInv, HubInv, Command, Commands
<1>1. /\ pipe' = pipe \o <<k, l>> /\ members' = [members EXCEPT ![Root] = AddKey(@, c)]
      /\ UNCHANGED <<ready, presence, lost>>
  BY DEF Connect, JoinRoom, loop, redis
<1>2. /\ ids = ToSet(members[Root]) \cup {c} /\ members'[Root] \in Keys(Conns)
      /\ \A q \in Rooms : q # Root => members'[q] = members[q]
  BY <1>0, <1>1, AddKeyIsUnion, RootAssumption DEF HubType
<1>3. ids \subseteq Conns
  BY <1>2 DEF Keys, ToSet
<1>4. l \in Commands /\ l.op = "smembers" /\ \A q, d : Updates(k, q, d) <=> q = Root /\ d = c
  <2> HIDE DEF ids
  <2> QED
    BY <1>3, RootAssumption DEF Command, Commands, Updates
<1>5. c \in ToSet(members'[Root]) /\ \A q \in Rooms, d \in Conns :
         ~(q = Root /\ d = c) => (d \in ToSet(members'[q]) <=> d \in ToSet(members[q]))
  BY <1>2
<1> HIDE DEF k, l
<1>6. pipe \in Seq(Commands) /\ p \in Seq(Commands)
  BY <1>0 DEF QueueType
<1>7. pipe \o <<k, l>> = Append(p, l)
  BY <1>0, <1>4, <1>6
<1> HIDE DEF p
<1>8. QueueType'
  BY <1>0, <1>1, <1>4, <1>6, <1>7 DEF QueueType
<1>9. ASSUME NEW q \in Rooms, NEW d \in Conns, <<q, d>> \notin lost
      PROVE  PairFits(presence[q], pipe', q, d, d \in ToSet(members'[q]))
  <2> DEFINE is == d \in ToSet(members'[q])
             was == d \in ToSet(members[q])
             ps == presence[q]
  <2>1. PairFits(ps, pipe, q, d, was) /\ is \in BOOLEAN /\ was \in BOOLEAN
    BY <1>0, <1>9 DEF PresenceInv, Members
  <2>2. PairFits(ps, p, q, d, is)
    <3>1. CASE q = Root /\ d = c
      <4>1. is <=> k.op = "sadd"
        BY <1>0, <1>5, <3>1
      <4> HIDE DEF is, ps
      <4>2. Updates(k, q, d)
        BY <1>4, <3>1
      <4>3. PairFits(ps, Append(pipe, k), q, d, is)
        BY <1>0, <1>6, <2>1, <4>1, <4>2, PairAppend
      <4> QED
        BY <4>3 DEF p
    <3>2. CASE ~(q = Root /\ d = c)
      <4>1. is = was /\ ~Updates(k, q, d)
        BY <1>4, <1>5, <2>1, <3>2
      <4> HIDE DEF is, was, ps
      <4>2. PairFits(ps, pipe, q, d, is)
        BY <2>1, <4>1
      <4>3. PairFits(ps, Append(pipe, k), q, d, is)
        BY <1>0, <1>6, <2>1, <4>1, <4>2, PairAppend
      <4> QED
        BY <4>3 DEF p
    <3> QED
      BY <3>1, <3>2
  <2> HIDE DEF is, ps
  <2>3. PairFits(ps, Append(p, l), q, d, is)
    BY <1>4, <1>6, <2>1, <2>2, PresenceListed
  <2> QED
    BY <1>1, <1>7, <2>3 DEF is, ps
<1>10. PresenceInv'
  BY <1>1, <1>9 DEF PresenceInv, Members
<1> QED
  BY <1>8, <1>10 DEF QueueInv

(* get_cluster_presence sends smembers. *)
LEMMA QueueList ==
    ASSUME HubInv, QueueInv, List
    PROVE  QueueInv'
<1> DEFINE h == Head(ready)
           ids == ToSet(members[h.room])
           k == Command("smembers", h.room, h.conn, ids, TRUE)
<1>0. QueueType /\ PresenceInv /\ HubType /\ ready # << >>
  BY DEF QueueInv, HubInv, List, Continuation
<1>1. h.room \in Rooms /\ h.conn \in Conns
  BY <1>0, HeadOfReady
<1>2. /\ pipe' = Append(pipe, k) /\ ready' = Tail(ready)
      /\ UNCHANGED <<presence, lost, members>>
  BY DEF List, Members, redis, hubVars
<1> HIDE DEF h
<1>3. ids \subseteq Conns
  BY <1>0, <1>1 DEF HubType, Keys, ToSet
<1> HIDE DEF ids
<1>4. k \in Commands /\ k.op = "smembers"
  BY <1>1, <1>3 DEF Command, Commands
<1> HIDE DEF k
<1>5. QueueType'
  BY <1>0, <1>2, <1>4 DEF QueueType
<1>6. ASSUME NEW q \in Rooms, NEW d \in Conns, <<q, d>> \notin lost
      PROVE  PairFits(presence[q], Append(pipe, k), q, d, d \in ToSet(members[q]))
  <2> DEFINE is == d \in ToSet(members[q])
             ps == presence[q]
  <2>1. PairFits(ps, pipe, q, d, is) /\ is \in BOOLEAN /\ pipe \in Seq(Commands)
    BY <1>0, <1>6 DEF PresenceInv, Members, QueueType
  <2> HIDE DEF is, ps
  <2>2. PairFits(ps, Append(pipe, k), q, d, is)
    BY <1>4, <2>1, PresenceListed
  <2> QED
    BY <2>2 DEF is, ps
<1>7. PresenceInv'
  BY <1>2, <1>6 DEF PresenceInv, Members
<1> QED
  BY <1>5, <1>7 DEF QueueInv

(* The continuation of an answered or failed command is a continuation. *)
LEMMA ContinueType ==
    ASSUME QueueType, NEW k \in Commands, NEW ids \in SUBSET Conns
    PROVE  Continue(k, ids) \in Seq(Commands)
<1>1. [k EXCEPT !.op = "announce"] \in Commands
  BY DEF Commands
<1>2. [k EXCEPT !.op = "ack", !.ids = @ \cup ids] \in Commands
  BY DEF Commands
<1>3. ready \in Seq(Commands)
  BY DEF QueueType
<1> DEFINE a == [k EXCEPT !.op = "announce"]
           b == [k EXCEPT !.op = "ack", !.ids = @ \cup ids]
<1>4. Continue(k, ids) = CASE k.op = "sadd" -> Append(ready, a)
                           [] k.op = "smembers" -> Append(ready, b)
                           [] OTHER -> ready
  BY DEF Continue
<1> HIDE DEF a, b
<1>5. Append(ready, a) \in Seq(Commands) /\ Append(ready, b) \in Seq(Commands)
  BY <1>1, <1>2, <1>3 DEF a, b
<1> QED
  BY <1>3, <1>4, <1>5

(* Redis carries out the first command. *)
LEMMA QueueAnswered ==
    ASSUME QueueInv, Answered
    PROVE  QueueInv'
<1> DEFINE k == Head(pipe)
<1>0. QueueType /\ PresenceInv /\ pipe # << >> /\ pipe \in Seq(Commands)
  BY DEF QueueInv, QueueType, Answered
<1>1. k \in Commands /\ k.room \in Rooms /\ k.conn \in Conns
  <2>1. k \in Commands
    BY <1>0
  <2> QED
    BY <2>1 DEF Commands
<1>2. /\ pipe' = Tail(pipe) /\ UNCHANGED <<lost, members>>
      /\ ready' = Continue(k, presence[k.room])
      /\ presence' = CASE k.op = "sadd" -> AddPresence(k.room, k.conn)
                       [] k.op = "srem" -> RemovePresence(k.room, k.conn)
                       [] OTHER         -> presence
  BY DEF Answered, GetPresence, hubVars
<1> HIDE DEF k
<1>3. presence \in [Rooms -> SUBSET Conns]
  BY <1>0 DEF QueueType
<1>4. /\ presence' \in [Rooms -> SUBSET Conns]
      /\ \A q \in Rooms, d \in Conns :
            /\ Updates(k, q, d) => (d \in presence'[q] <=> k.op = "sadd")
            /\ ~Updates(k, q, d) => (d \in presence'[q] <=> d \in presence[q])
  <2>1. CASE k.op = "sadd"
    BY <1>1, <1>2, <1>3, <2>1 DEF AddPresence, Updates
  <2>2. CASE k.op = "srem"
    BY <1>1, <1>2, <1>3, <2>2 DEF RemovePresence, Updates
  <2>3. CASE k.op \notin {"sadd", "srem"}
    <3>1. presence' = presence
      BY <1>2, <2>3
    <3> QED
      BY <1>3, <2>3, <3>1 DEF Updates
  <2> QED
    BY <2>1, <2>2, <2>3
<1>5. ready' \in Seq(Commands)
  <2>1. presence[k.room] \in SUBSET Conns
    BY <1>1, <1>3
  <2> QED
    BY <1>0, <1>1, <1>2, <2>1, ContinueType
<1>6. QueueType'
  BY <1>0, <1>2, <1>4, <1>5 DEF QueueType
<1>7. ASSUME NEW q \in Rooms, NEW d \in Conns, <<q, d>> \notin lost
      PROVE  PairFits(presence'[q], Tail(pipe), q, d, d \in ToSet(members[q]))
  <2> DEFINE is == d \in ToSet(members[q])
             ps == presence[q]
             qs == presence'[q]
  <2>1. PairFits(ps, pipe, q, d, is) /\ is \in BOOLEAN
    BY <1>0, <1>7 DEF PresenceInv, Members
  <2>2. /\ Updates(Head(pipe), q, d) => (d \in qs <=> Head(pipe).op = "sadd")
        /\ ~Updates(Head(pipe), q, d) => (d \in qs <=> d \in ps)
    BY <1>4 DEF k
  <2> HIDE DEF is, ps, qs
  <2>3. PairFits(qs, Tail(pipe), q, d, is)
    BY <1>0, <2>1, <2>2, PairTail
  <2> QED
    BY <2>3 DEF is, qs
<1>8. PresenceInv'
  BY <1>2, <1>7 DEF PresenceInv, Members
<1> QED
  BY <1>6, <1>8 DEF QueueInv

(* Redis fails the first command: what it was to update is lost. *)
LEMMA QueueFailed ==
    ASSUME QueueInv, Failed
    PROVE  QueueInv'
<1> DEFINE k == Head(pipe)
<1>0. QueueType /\ PresenceInv /\ pipe # << >> /\ pipe \in Seq(Commands)
  BY DEF QueueInv, QueueType, Failed
<1>1. k \in Commands
  BY <1>0
<1>2. /\ pipe' = Tail(pipe) /\ UNCHANGED <<presence, members>>
      /\ ready' = Continue(k, {})
      /\ lost' = IF k.op = "smembers" THEN lost ELSE lost \cup {<<k.room, k.conn>>}
  BY DEF Failed, hubVars
<1> HIDE DEF k
<1>3. ready' \in Seq(Commands)
  BY <1>0, <1>1, <1>2, ContinueType
<1>4. QueueType'
  BY <1>0, <1>2, <1>3 DEF QueueType
<1>5. ASSUME NEW q \in Rooms, NEW d \in Conns, <<q, d>> \notin lost'
      PROVE  PairFits(presence[q], Tail(pipe), q, d, d \in ToSet(members[q]))
  <2> DEFINE is == d \in ToSet(members[q])
             ps == presence[q]
  <2>1. <<q, d>> \notin lost /\ ~Updates(k, q, d)
    BY <1>2, <1>5 DEF Updates
  <2>2. PairFits(ps, pipe, q, d, is) /\ is \in BOOLEAN
    BY <1>0, <2>1 DEF PresenceInv, Members
  <2>3. ~Updates(Head(pipe), q, d)
    BY <2>1 DEF k
  <2> HIDE DEF is, ps
  <2>4. PairFits(ps, Tail(pipe), q, d, is)
    BY <1>0, <2>2, <2>3, PairTail
  <2> QED
    BY <2>4 DEF is, ps
<1>6. PresenceInv'
  BY <1>2, <1>5 DEF PresenceInv, Members
<1> QED
  BY <1>4, <1>6 DEF QueueInv

(* Continuations that run, and join_room's that becomes ready. *)
LEMMA QueueReady ==
    ASSUME HubInv, QueueInv, Resolve \/ Announce \/ Acknowledge
    PROVE  QueueInv'
<1>0. /\ QueueType /\ PresenceInv /\ ready \in Seq(Commands)
      /\ UNCHANGED <<members, pipe, presence, lost>>
  BY DEF QueueInv, QueueType, Resolve, Announce, Acknowledge, hubVars, redis
<1>1. ready' \in Seq(Commands)
  <2>1. CASE Resolve
    <3> DEFINE x == Head(stack)
               k == Command("list", x.room, x.conn, {}, TRUE)
    <3>1. stack # << >> /\ StackFits(ws, closed, conns, stack) /\ x.op = "resolve"
      BY <2>1 DEF Resolve, Top, HubInv
    <3>2. Fit(ws, closed, conns, x)
      BY <3>1, PopFits
    <3>3. x.room \in Rooms /\ x.conn \in Conns
      BY <3>1, <3>2 DEF Fit, Calls
    <3>4. ready' = Append(ready, k)
      BY <2>1 DEF Resolve
    <3> HIDE DEF x
    <3>5. k \in Commands
      BY <3>3 DEF Command, Commands
    <3> HIDE DEF k
    <3> QED
      BY <1>0, <3>4, <3>5
  <2>2. CASE Announce \/ Acknowledge
    BY <1>0, <2>2 DEF Announce, Acknowledge, Continuation
  <2> QED
    BY <2>1, <2>2
<1> QED
  BY <1>0, <1>1, PresenceStays DEF QueueInv, QueueType

(* shutdown drops maps that are empty. *)
LEMMA QueueShutdownEnds ==
    ASSUME HubInv, QueueInv, ShutdownEnds
    PROVE  QueueInv'
<1>1. /\ \A r \in Rooms : ToSet(members[r]) = {}
      /\ QueueType /\ PresenceInv
  BY ShutdownDone DEF ShutdownEnds, QueueInv
<1>2. /\ \A r \in Rooms : ToSet(members'[r]) = {}
      /\ UNCHANGED <<ready, pipe, presence, lost>>
  BY DEF ShutdownEnds, redis, ToSet
<1>3. PresenceInv'
  BY <1>1, <1>2 DEF PresenceInv, Members
<1> QED
  BY <1>1, <1>2, <1>3 DEF QueueInv, QueueType

(* Everything else leaves rooms, queues and presence alone. *)
LEMMA QueueStays ==
    ASSUME QueueInv, UNCHANGED <<members, ready, pipe, presence, lost>>
    PROVE  QueueInv'
  BY PresenceStays DEF QueueInv, QueueType

-----------------------------------------------------------------------------
(* The theorems *)

(* Nothing but shutdown's end and an exception changes what the process is. *)
LEMMA ProcessStays ==
    ASSUME [Next]_vars, ~EmitThrows, ~ShutdownEnds
    PROVE  process' = process
<1>1. CASE Step
  BY <1>1 DEF Step, EmitNext, SendNext, LeaveNext, CloseSocket, HeartbeatNext, ShutdownNext,
              Resolve
<1>2. CASE Promise \/ Timer \/ Shutdown \/ Wait \/ UNCHANGED vars
  BY <1>2 DEF Promise, Answered, Failed, Announce, List, Acknowledge, Timer, Shutdown, Wait,
              vars
<1>3. ASSUME NEW c \in Conns, Client(c) PROVE process' = process
  BY <1>3 DEF Client, Connect, Refuse, Malformed, Pong, Join, Leave, Broadcast, Direct, Kick,
              PeerCloses, CloseEvent, ErrorEvent
<1>4. ASSUME NEW r \in Rooms, Incoming(r) PROVE process' = process
  BY <1>4 DEF Incoming
<1>5. ASSUME NEW c \in Conns, Unicast(c) PROVE process' = process
  BY <1>5 DEF Unicast
<1> QED
  BY <1>1, <1>2, <1>3, <1>4, <1>5 DEF Next

(* An exception is never undone. *)
LEMMA ProcessStep ==
    ASSUME process \in {"up", "down", "threw", "crashed"}, [Next]_vars
    PROVE  /\ process' \in {"up", "down", "threw", "crashed"}
           /\ Sane' => Sane /\ ~EmitThrows
<1>1. CASE EmitThrows
  BY <1>1 DEF EmitThrows, Sane
<1>2. CASE ShutdownEnds
  <2>1. ~EmitThrows
    BY <1>2 DEF ShutdownEnds, EmitThrows, Top
  <2> QED
    BY <1>2, <2>1 DEF ShutdownEnds, Sane
<1>3. CASE ~EmitThrows /\ ~ShutdownEnds
  BY <1>3, ProcessStays DEF Sane
<1> QED
  BY <1>1, <1>2, <1>3

(* Every step without an exception keeps the hub's invariant. *)
LEMMA HubStep ==
    ASSUME LateFrames = FALSE, HubInv, QueueType, [Next]_vars, ~EmitThrows
    PROVE  HubInv'
<1>1. CASE Step
  BY <1>1, HubEmitNext, HubSendNext, HubLeaveNext, HubCloseSocket, HubHeartbeatNext,
     HubShutdownNext, HubShutdownEnds, HubResolve DEF Step
<1>2. CASE Promise
  BY <1>2, HubElsewhere, HubAnnounce, HubAcknowledge DEF Promise
<1>3. CASE Timer \/ Shutdown
  BY <1>3, HubLoops
<1>4. CASE Wait \/ UNCHANGED vars
  BY <1>4, HubElsewhere
<1>5. ASSUME NEW c \in Conns, Client(c) PROVE HubInv'
  <2>1. CASE Connect(c)
    BY <2>1, HubConnect
  <2>2. CASE Refuse(c) \/ PeerCloses(c)
    BY <2>2, HubSocketEnds
  <2>3. CASE Malformed(c) \/ \E d \in Conns : Kick(c, d)
    BY <2>3, HubKick
  <2>4. CASE Pong(c)
    BY <2>4, HubElsewhere
  <2>5. ASSUME NEW r \in Rooms, Join(c, r) PROVE HubInv'
    BY <2>5, HubJoin
  <2>6. ASSUME NEW r \in Rooms, Leave(c, r) PROVE HubInv'
    BY <2>6, HubLeave
  <2>7. CASE (\E r \in Rooms : Broadcast(c, r)) \/ \E d \in Conns : Direct(c, d)
    BY <2>7, HubMessage
  <2>8. CASE CloseEvent(c) \/ ErrorEvent(c)
    BY <2>8, HubCleanup
  <2> QED
    BY <1>5, <2>1, <2>2, <2>3, <2>4, <2>5, <2>6, <2>7, <2>8 DEF Client
<1>6. ASSUME NEW r \in Rooms, Incoming(r) PROVE HubInv'
  BY <1>6, HubMessage
<1>7. ASSUME NEW c \in Conns, Unicast(c) PROVE HubInv'
  BY <1>7, HubMessage
<1> QED
  BY <1>1, <1>2, <1>3, <1>4, <1>5, <1>6, <1>7 DEF Next

(* And the queues' and presence's. *)
LEMMA QueueStep ==
    ASSUME HubInv, QueueInv, [Next]_vars, ~EmitThrows
    PROVE  QueueInv'
<1>1. CASE Step
  <2>1. CASE LeaveNext
    <3> DEFINE x == Head(stack)
               r == Head(x.rest)
               c == x.conn
    <3>1. stack # << >> /\ StackFits(ws, closed, conns, stack) /\ x.op = "leaveAll"
      BY <2>1 DEF LeaveNext, Top, HubInv
    <3>2. Fit(ws, closed, conns, x)
      BY <3>1, PopFits
    <3>3. c \in Conns /\ r \in Rooms
      BY <3>1, <3>2 DEF Fit
    <3>4. LeaveRoom(r, c, Rest) /\ UNCHANGED <<ready, presence, lost>>
      BY <2>1 DEF LeaveNext, redis
    <3> HIDE DEF r, c
    <3> QED
      BY <3>3, <3>4, QueueLeaveRoom
  <2>2. CASE ShutdownEnds
    BY <2>2, QueueShutdownEnds
  <2>3. CASE Resolve
    BY <2>3, QueueReady
  <2>4. CASE EmitNext \/ SendNext \/ CloseSocket \/ HeartbeatNext \/ ShutdownNext
    <3>1. UNCHANGED <<members, ready, pipe, presence, lost>>
      BY <2>4 DEF EmitNext, SendNext, CloseSocket, HeartbeatNext, ShutdownNext, hubVars, redis
    <3> QED
      BY <3>1, QueueStays
  <2> QED
    BY <1>1, <2>1, <2>2, <2>3, <2>4 DEF Step
<1>2. CASE Promise
  BY <1>2, QueueAnswered, QueueFailed, QueueReady, QueueList DEF Promise
<1>3. CASE Timer \/ Shutdown \/ Wait \/ UNCHANGED vars
  <2>1. UNCHANGED <<members, ready, pipe, presence, lost>>
    BY <1>3 DEF Timer, Shutdown, Wait, vars, hubVars, redis, loop
  <2> QED
    BY <2>1, QueueStays
<1>4. ASSUME NEW c \in Conns, Client(c) PROVE QueueInv'
  <2>1. CASE Connect(c)
    BY <2>1, QueueConnect
  <2>2. ASSUME NEW r \in Rooms, Join(c, r) PROVE QueueInv'
    BY <2>2, QueueJoin
  <2>3. ASSUME NEW r \in Rooms, Leave(c, r) PROVE QueueInv'
    <3>1. LeaveRoom(r, c, Send(c, Frame("leave_ack", r, {c}), Caught))
          /\ UNCHANGED <<ready, presence, lost>>
      BY <2>3 DEF Leave, redis
    <3> QED
      BY <3>1, QueueLeaveRoom
  <2>4. CASE \/ Refuse(c) \/ PeerCloses(c) \/ Malformed(c) \/ Pong(c)
             \/ CloseEvent(c) \/ ErrorEvent(c)
             \/ (\E r \in Rooms : Broadcast(c, r))
             \/ \E d \in Conns : Direct(c, d) \/ Kick(c, d)
    <3>1. UNCHANGED <<members, ready, pipe, presence, lost>>
      BY <2>4 DEF Refuse, PeerCloses, Malformed, Pong, CloseEvent, ErrorEvent, Broadcast,
                  Direct, Kick, hubVars, redis, loop
    <3> QED
      BY <3>1, QueueStays
  <2> QED
    BY <1>4, <2>1, <2>2, <2>3, <2>4 DEF Client
<1>5. ASSUME NEW r \in Rooms, Incoming(r) PROVE QueueInv'
  <2>1. UNCHANGED <<members, ready, pipe, presence, lost>>
    BY <1>5 DEF Incoming, hubVars, redis
  <2> QED
    BY <2>1, QueueStays
<1>6. ASSUME NEW c \in Conns, Unicast(c) PROVE QueueInv'
  <2>1. UNCHANGED <<members, ready, pipe, presence, lost>>
    BY <1>6 DEF Unicast, hubVars, redis
  <2> QED
    BY <2>1, QueueStays
<1> QED
  BY <1>1, <1>2, <1>3, <1>4, <1>5, <1>6 DEF Next

(* The server starts with nothing in it. *)
LEMMA NodeInit == Init => NodeInv
<1> SUFFICES ASSUME Init PROVE NodeInv
  OBVIOUS
<1>1. << >> \in Keys(Rooms) /\ << >> \in Keys(Conns) /\ ToSet(<< >>) = {}
  BY DEF Keys, ToSet
<1>2. HubType
  BY <1>1 DEF HubType, Init
<1>3. StackFits(ws, closed, conns, stack)
  BY BottomFits DEF Init
<1>4. \A c \in Conns : ConnFits(stack, c)
  BY <1>1 DEF ConnFits, Init
<1>5. MemberInv
  BY <1>1 DEF MemberInv, Members, Init
<1>6. QueueType
  BY DEF QueueType, Init
<1>7. PresenceInv
  BY <1>1 DEF PresenceInv, PairFits, Members, Init
<1> QED
  BY <1>2, <1>3, <1>4, <1>5, <1>6, <1>7 DEF NodeInv, HubInv, Init

(* Without late frames, and until an exception is thrown, a closed          *)
(* connection is out of the hub or the calls in progress will take it out,  *)
(* and the updates under way to Redis end in the membership there is.       *)
THEOREM NodeInductive ==
    ASSUME LateFrames = FALSE
    PROVE  Spec => []NodeInv
<1>1. NodeInv /\ [Next]_vars => NodeInv'
  <2> SUFFICES ASSUME NodeInv, [Next]_vars PROVE NodeInv'
    OBVIOUS
  <2>1. /\ process' \in {"up", "down", "threw", "crashed"}
        /\ Sane' => Sane /\ ~EmitThrows
    BY ProcessStep DEF NodeInv
  <2>2. ASSUME Sane' PROVE HubInv' /\ QueueInv'
    <3>1. HubInv /\ QueueType /\ QueueInv /\ ~EmitThrows
      BY <2>1, <2>2 DEF NodeInv, QueueInv
    <3> QED
      BY <3>1, HubStep, QueueStep
  <2> QED
    BY <2>1, <2>2 DEF NodeInv, QueueInv
<1> QED
  BY <1>1, NodeInit, PTL DEF Spec

(* Between events a closed connection is in no room and no map, and its     *)
(* socket is not open, wherever close_with or cleanup was called from: the  *)
(* frames a client sends after ws.close() excepted (conn.js), for which the *)
(* run NodeHubLate shows the opposite.                                      *)
THEOREM NoZombies ==
    ASSUME LateFrames = FALSE
    PROVE  Spec => []NoZombieMembers
<1>1. NodeInv => NoZombieMembers
  <2> SUFFICES ASSUME NodeInv, Sane, stack = << >>, NEW c \in Conns, closed[c]
               PROVE  /\ ws[c] # "open"
                      /\ c \notin ToSet(conns) /\ joined[c] = << >>
                      /\ \A r \in Rooms : c \notin Members(r)
    BY DEF NoZombieMembers, Sane
  <2>1. HubInv /\ ConnFits(stack, c)
    BY DEF NodeInv, HubInv
  <2>2. \A r : ~Leaving(stack, c, r) /\ ~Closing(stack, c)
    BY DEF Leaving, Closing
  <2>3. ws[c] # "open" /\ c \notin ToSet(conns) /\ ToSet(joined[c]) = {}
    BY <2>1, <2>2 DEF ConnFits
  <2>4. joined[c] = << >>
    <3>1. joined[c] \in Seq(Rooms)
      BY <2>1 DEF HubInv, HubType, Keys
    <3> DEFINE s == joined[c]
    <3> HIDE DEF s
    <3>2. s \in Seq(Rooms) /\ ToSet(s) = {}
      BY <2>3, <3>1 DEF s
    <3>3. DOMAIN s = {}
      BY <3>2 DEF ToSet
    <3>4. Len(s) = 0
      BY <3>2, <3>3
    <3>5. s = << >>
      BY <3>2, <3>4
    <3> QED
      BY <3>5 DEF s
  <2>5. \A r \in Rooms : c \notin Members(r)
    BY <2>1, <2>3 DEF HubInv, MemberInv
  <2> QED
    BY <2>3, <2>4, <2>5
<1> QED
  BY <1>1, NodeInductive, PTL

(* When Redis has answered everything, presence is membership, but for      *)
(* pairs whose update failed: sadd and srem leave in the order of the       *)
(* joins and leaves, and shutdown finds the rooms empty (hub.js).           *)
THEOREM PresenceIsExact ==
    ASSUME LateFrames = FALSE
    PROVE  Spec => []PresenceExact
<1>1. NodeInv => PresenceExact
  <2> SUFFICES ASSUME NodeInv, AtRest, NEW r \in Rooms, NEW c \in Conns, <<r, c>> \notin lost
               PROVE  c \in presence[r] <=> c \in Members(r)
    BY DEF PresenceExact
  <2>1. PairFits(presence[r], pipe, r, c, c \in Members(r)) /\ pipe = << >>
    BY DEF NodeInv, Sane, AtRest, PresenceInv
  <2>2. DOMAIN pipe = {}
    BY <2>1
  <2> QED
    BY <2>1, <2>2 DEF PairFits
<1> QED
  BY <1>1, NodeInductive, PTL

-----------------------------------------------------------------------------
(* Loops over members *)

(* At most one client has been slow. *)
Lonely(sl) == \A c, d \in sl : c = d

(* What a call has still to do is something it can do; a loop of emit_local *)
(* has members of its room to come, each once.                              *)
SafeCall(ms, x) ==
    /\ x \in Calls
    /\ x.op \in {"emit", "timer"} => x.rest \in Keys(Conns) /\ x.rest # << >>
    /\ x.op = "emit" => ToSet(x.rest) \subseteq ToSet(ms[x.room])
    /\ x.op = "leaveAll" => x.rest \in Seq(Rooms) /\ x.rest # << >>
    /\ x.op = "shutdown" => x.rest \in Seq(Conns)
    /\ x.op \in {"send", "leaveAll", "close", "cleanup", "resolve"} => x.conn \in Conns

(* x runs inside y: inside a loop of emit_local only what the eviction of a *)
(* slow client does, which is not among those the loop has still to come to. *)
Inside(cl, sl, x, y) ==
    y.op = "emit" =>
        /\ x.op \notin {"send", "timer"}
        /\ x.op = "leaveAll" => x.conn \notin ToSet(y.rest)
        /\ \E c \in sl : cl[c]

SafeStack(ms, cl, sl, st) ==
    /\ st \in Seq(Calls)
    /\ \A k \in DOMAIN st : SafeCall(ms, st[k])
    /\ \A j, k \in DOMAIN st : j < k => Inside(cl, sl, st[j], st[k])

SafeType ==
    /\ closed \in [Conns -> BOOLEAN] /\ joined \in [Conns -> Keys(Rooms)]
    /\ members \in [Rooms -> Keys(Conns)] /\ conns \in Keys(Conns) /\ active \in Keys(Conns)
    /\ QueueType

SafeInv == SafeType /\ SafeStack(members, closed, slow, stack)

OneSlowInv ==
    /\ process \in {"up", "down", "threw", "crashed"} /\ IsFiniteSet(slow)
    /\ Lonely(slow) => Sane /\ SafeInv

(* The elements of a stack after a push, and of one without its top. *)
LEMMA PushSet ==
    ASSUME NEW st \in Seq(Calls), NEW x \in Calls
    PROVE  ToSet(Push(x, st)) = ToSet(st) \cup {x}
<1> DEFINE p == Push(x, st)
<1>1. /\ 1 \in DOMAIN p /\ p[1] = x
      /\ \A k \in DOMAIN st : k + 1 \in DOMAIN p /\ p[k + 1] = st[k]
      /\ \A k \in DOMAIN p : k = 1 \/ (k - 1 \in DOMAIN st /\ p[k] = st[k - 1])
  BY PushElements
<1> HIDE DEF p
<1>2. ToSet(p) \subseteq ToSet(st) \cup {x}
  BY <1>1 DEF ToSet
<1>3. ToSet(st) \cup {x} \subseteq ToSet(p)
  BY <1>1 DEF ToSet
<1> QED
  BY <1>2, <1>3 DEF p

(* A stack that is not empty is its top pushed on the rest. *)
LEMMA PopPush ==
    ASSUME NEW st \in Seq(Calls), st # << >>
    PROVE  /\ Head(st) \in Calls /\ Tail(st) \in Seq(Calls) /\ st = Push(Head(st), Tail(st))
           /\ ToSet(st) = ToSet(Tail(st)) \cup {Head(st)}
<1> DEFINE h == Head(st)
           t == Tail(st)
           p == Push(h, t)
<1>1. /\ Len(st) \in Nat \ {0} /\ h = st[1] /\ h \in Calls
      /\ t \in Seq(Calls) /\ Len(t) + 1 = Len(st)
      /\ \A k \in 1..(Len(st) - 1) : t[k] = st[k + 1]
  OBVIOUS
<1> HIDE DEF h, t
<1>2. /\ p \in Seq(Calls) /\ Len(p) = Len(t) + 1 /\ p[1] = h
      /\ \A k \in DOMAIN p : k = 1 \/ (k - 1 \in DOMAIN t /\ p[k] = t[k - 1])
  BY <1>1, PushElements
<1>3. ToSet(p) = ToSet(t) \cup {h}
  BY <1>1, PushSet
<1> HIDE DEF p
<1>4. ASSUME NEW k \in 1..Len(p) PROVE p[k] = st[k]
  <2>1. CASE k = 1
    BY <1>1, <1>2, <2>1
  <2>2. CASE k # 1
    <3>1. k \in DOMAIN p
      BY <1>2
    <3>2. p[k] = t[k - 1] /\ k - 1 \in 1..(Len(st) - 1) /\ (k - 1) + 1 = k
      BY <1>1, <1>2, <2>2, <3>1
    <3> QED
      BY <1>1, <3>2
  <2> QED
    BY <2>1, <2>2
<1>5. p = st
  BY <1>1, <1>2, <1>4, SeqEqual
<1> QED
  BY <1>1, <1>3, <1>5 DEF h, t, p

(* Some call of st is a loop over members only while a slow client is       *)
(* closed.                                                                  *)
Evicting(cl, sl, st) == (\E y \in ToSet(st) : y.op = "emit") => \E c \in sl : cl[c]

(* No loop over members in st has c to come. *)
Clear(st, c) == \A y \in ToSet(st) : y.op = "emit" => c \notin ToSet(y.rest)

(* A push keeps the stack safe. *)
LEMMA SafePush ==
    ASSUME NEW ms, NEW cl, NEW sl, NEW st, SafeStack(ms, cl, sl, st), NEW x, SafeCall(ms, x),
           \A y \in ToSet(st) : Inside(cl, sl, x, y)
    PROVE  SafeStack(ms, cl, sl, Push(x, st)) /\ ToSet(Push(x, st)) = ToSet(st) \cup {x}
<1> DEFINE p == Push(x, st)
<1>0. st \in Seq(Calls) /\ x \in Calls
  BY DEF SafeStack, SafeCall
<1>1. /\ p \in Seq(Calls) /\ p[1] = x
      /\ \A k \in DOMAIN p : k = 1 \/ (k - 1 \in DOMAIN st /\ p[k] = st[k - 1])
      /\ DOMAIN p \subseteq Nat /\ DOMAIN st \subseteq Nat
  BY <1>0, PushElements
<1>2. \A k \in DOMAIN p : k >= 1
  BY <1>1
<1> HIDE DEF p
<1>3. \A k \in DOMAIN p : SafeCall(ms, p[k])
  BY <1>1 DEF SafeStack
<1>4. ASSUME NEW j \in DOMAIN p, NEW k \in DOMAIN p, j < k PROVE Inside(cl, sl, p[j], p[k])
  <2>1. k - 1 \in DOMAIN st /\ p[k] = st[k - 1] /\ j \in Nat /\ k \in Nat
    BY <1>1, <1>2, <1>4
  <2>2. CASE j = 1
    BY <1>1, <2>1, <2>2 DEF ToSet
  <2>3. CASE j # 1
    <3>1. j - 1 \in DOMAIN st /\ p[j] = st[j - 1] /\ j - 1 < k - 1
      BY <1>1, <1>4, <2>1, <2>3
    <3> QED
      BY <2>1, <3>1 DEF SafeStack
  <2> QED
    BY <2>2, <2>3
<1> QED
  BY <1>0, <1>1, <1>3, <1>4, PushSet DEF SafeStack, p

(* The stack without its top, and what the top runs inside. *)
LEMMA SafePop ==
    ASSUME NEW ms, NEW cl, NEW sl, NEW st, SafeStack(ms, cl, sl, st), st # << >>
    PROVE  /\ SafeCall(ms, Head(st)) /\ SafeStack(ms, cl, sl, Tail(st))
           /\ \A y \in ToSet(Tail(st)) : Inside(cl, sl, Head(st), y)
           /\ Head(st) \in Calls /\ ToSet(st) = ToSet(Tail(st)) \cup {Head(st)}
<1>0. st \in Seq(Calls)
  BY DEF SafeStack
<1> DEFINE t == Tail(st)
<1>1. /\ Len(st) \in Nat \ {0} /\ DOMAIN st = 1..Len(st) /\ Head(st) = st[1]
      /\ t \in Seq(Calls) /\ DOMAIN t = 1..(Len(st) - 1)
      /\ \A k \in 1..(Len(st) - 1) : t[k] = st[k + 1]
  BY <1>0
<1> HIDE DEF t
<1>2. \A k \in DOMAIN t : k + 1 \in DOMAIN st /\ t[k] = st[k + 1] /\ 1 < k + 1 /\ k \in Nat
  BY <1>1
<1>3. SafeCall(ms, Head(st)) /\ \A k \in DOMAIN t : SafeCall(ms, t[k])
  BY <1>1, <1>2 DEF SafeStack
<1>4. ASSUME NEW j \in DOMAIN t, NEW k \in DOMAIN t, j < k PROVE Inside(cl, sl, t[j], t[k])
  <2>1. j + 1 < k + 1
    BY <1>2, <1>4
  <2> QED
    BY <1>2, <2>1 DEF SafeStack
<1>5. \A k \in DOMAIN t : Inside(cl, sl, Head(st), t[k])
  BY <1>1, <1>2 DEF SafeStack
<1>6. SafeStack(ms, cl, sl, t)
  BY <1>1, <1>3, <1>4 DEF SafeStack
<1>7. Head(st) \in Calls /\ ToSet(st) = ToSet(Tail(st)) \cup {Head(st)}
  BY <1>0, PopPush
<1> QED
  BY <1>3, <1>5, <1>6, <1>7 DEF t, ToSet

(* A return leaves what is below. *)
LEMMA SafeReturn ==
    ASSUME NEW ms, NEW cl, NEW sl, NEW st, SafeStack(ms, cl, sl, st)
    PROVE  SafeStack(ms, cl, sl, Return(st)) /\ ToSet(Return(st)) \subseteq ToSet(st)
<1>1. SafeStack(ms, cl, sl, << >>) /\ ToSet(<< >>) = {}
  BY DEF SafeStack, ToSet
<1> QED
  BY <1>1 DEF Return

(* A loop that has nothing left returns; one that has stays on the stack.   *)
LEMMA SafeLoop ==
    ASSUME NEW ms, NEW cl, NEW sl, NEW st, SafeStack(ms, cl, sl, st), NEW x,
           x.rest # << >> => SafeCall(ms, x) /\ \A y \in ToSet(st) : Inside(cl, sl, x, y)
    PROVE  /\ SafeStack(ms, cl, sl, Loop(x, st))
           /\ ToSet(Loop(x, st)) \subseteq ToSet(st) \cup {x}
           /\ x \in ToSet(Loop(x, st)) => x.rest # << >> \/ x \in ToSet(st)
<1>1. CASE x.rest = << >>
  <2>1. Loop(x, st) = Return(st)
    BY <1>1 DEF Loop
  <2>2. SafeStack(ms, cl, sl, Return(st)) /\ ToSet(Return(st)) \subseteq ToSet(st)
    BY SafeReturn
  <2> QED
    BY <2>1, <2>2
<1>2. CASE x.rest # << >>
  <2>1. Loop(x, st) = Push(x, st)
    BY <1>2 DEF Loop, Push
  <2>2. SafeStack(ms, cl, sl, Push(x, st)) /\ ToSet(Push(x, st)) = ToSet(st) \cup {x}
    BY <1>2, SafePush
  <2> QED
    BY <1>2, <2>1, <2>2
<1> QED
  BY <1>1, <1>2

(* Members may leave that no loop has to come, clients be closed and found  *)
(* slow.                                                                    *)
LEMMA SafeStays ==
    ASSUME NEW ms, NEW cl, NEW sl, NEW st, SafeStack(ms, cl, sl, st),
           NEW ns, NEW dl, NEW tl, \A c \in sl : c \in tl /\ (cl[c] => dl[c]),
           \A y \in ToSet(st) :
              y.op = "emit" /\ ToSet(y.rest) \subseteq ToSet(ms[y.room]) =>
                 ToSet(y.rest) \subseteq ToSet(ns[y.room])
    PROVE  SafeStack(ns, dl, tl, st)
<1>1. ASSUME NEW k \in DOMAIN st PROVE SafeCall(ns, st[k])
  <2>1. SafeCall(ms, st[k]) /\ st[k] \in ToSet(st)
    BY DEF SafeStack, ToSet
  <2> QED
    BY <2>1 DEF SafeCall
<1>2. ASSUME NEW x, NEW y, Inside(cl, sl, x, y) PROVE Inside(dl, tl, x, y)
  BY <1>2 DEF Inside
<1> QED
  BY <1>1, <1>2 DEF SafeStack

(* The calls of a stack. *)
LEMMA SafeElements ==
    ASSUME NEW ms, NEW cl, NEW sl, NEW st, SafeStack(ms, cl, sl, st), NEW y \in ToSet(st)
    PROVE  SafeCall(ms, y) /\ y \in Calls /\ y.room \in Rooms
<1>1. PICK k \in DOMAIN st : y = st[k]
  BY DEF ToSet
<1>2. SafeCall(ms, y)
  BY <1>1 DEF SafeStack
<1>3. y \in Calls
  BY <1>2 DEF SafeCall
<1> QED
  BY <1>2, <1>3 DEF Calls

(* A sequence that is not empty without its head. *)
LEMMA TailElements ==
    ASSUME NEW S, NEW s \in Seq(S), s # << >>
    PROVE  /\ Head(s) \in S /\ Tail(s) \in Seq(S) /\ ToSet(s) = ToSet(Tail(s)) \cup {Head(s)}
           /\ s \in Keys(S) => Tail(s) \in Keys(S) /\ Head(s) \notin ToSet(Tail(s))
<1> DEFINE u == Tail(s)
<1>1. /\ u \in Seq(S) /\ Len(s) \in Nat \ {0} /\ DOMAIN s = 1..Len(s) /\ Head(s) = s[1]
      /\ Head(s) \in S
      /\ DOMAIN u = 1..(Len(s) - 1) /\ \A k \in 1..(Len(s) - 1) : u[k] = s[k + 1]
  OBVIOUS
<1> HIDE DEF u
<1>2. ASSUME NEW k \in DOMAIN s, k # 1 PROVE s[k] \in ToSet(u)
  <2>1. k - 1 \in 1..(Len(s) - 1) /\ (k - 1) + 1 = k
    BY <1>1, <1>2
  <2> QED
    BY <1>1, <2>1 DEF ToSet
<1>3. \A k \in DOMAIN u : k + 1 \in DOMAIN s /\ u[k] = s[k + 1] /\ k \in Nat /\ k + 1 # 1
  BY <1>1
<1>4. ToSet(s) = ToSet(u) \cup {Head(s)}
  <2>1. ToSet(s) \subseteq ToSet(u) \cup {Head(s)}
    BY <1>1, <1>2 DEF ToSet
  <2>2. ToSet(u) \cup {Head(s)} \subseteq ToSet(s)
    BY <1>1, <1>3 DEF ToSet
  <2> QED
    BY <2>1, <2>2
<1>5. ASSUME s \in Keys(S) PROVE u \in Keys(S) /\ Head(s) \notin ToSet(u)
  <2>1. \A i, j \in DOMAIN s : s[i] = s[j] => i = j
    BY <1>5 DEF Keys
  <2>2. ASSUME NEW i \in DOMAIN u, NEW j \in DOMAIN u, u[i] = u[j] PROVE i = j
    <3>1. i + 1 = j + 1
      BY <1>3, <2>1, <2>2
    <3> QED
      BY <1>3, <3>1
  <2>3. \A k \in DOMAIN u : u[k] # Head(s)
    BY <1>1, <1>3, <2>1
  <2> QED
    BY <1>1, <2>2, <2>3 DEF Keys, ToSet
<1> QED
  BY <1>1, <1>4, <1>5 DEF u

(* A loop moves on: what is left of it has not its head to come again. *)
LEMMA SafeRest ==
    ASSUME NEW ms, NEW cl, NEW sl, NEW st, SafeStack(ms, cl, sl, st), st # << >>,
           Head(st).op \in {"emit", "timer", "leaveAll"}
    PROVE  /\ SafeStack(ms, cl, sl, Onwards(st))
           /\ \A y \in ToSet(Onwards(st)) : y \in ToSet(Tail(st)) \/
                 (y.op = Head(st).op /\ (y.op = "emit" => Head(Head(st).rest) \notin ToSet(y.rest)))
           /\ Head(st).op \in {"emit", "timer"} => Head(Head(st).rest) \in Conns
           /\ Head(st).op = "leaveAll" => Head(Head(st).rest) \in Rooms
<1> DEFINE x == Head(st)
           t == Tail(st)
           s == x.rest
           y == [x EXCEPT !.rest = Tail(@)]
<1>1. /\ SafeCall(ms, x) /\ SafeStack(ms, cl, sl, t) /\ x \in Calls
      /\ \A z \in ToSet(t) : Inside(cl, sl, x, z)
  BY SafePop
<1>a. x.op \in {"emit", "timer", "leaveAll"} /\ Onwards(st) = Loop(y, t)
  BY DEF Onwards
<1> HIDE DEF x, t
<1>2. /\ y.op = x.op /\ y.conn = x.conn /\ y.room = x.room /\ y.rest = Tail(s)
      /\ (Tail(s) \in Seq(Conns) \cup Seq(Rooms) => y \in Calls)
  BY <1>1 DEF Calls
<1> HIDE DEF y, s
<1>3. ASSUME x.op # "leaveAll"
      PROVE  /\ Head(s) \in Conns /\ Tail(s) \in Keys(Conns) /\ Head(s) \notin ToSet(Tail(s))
             /\ ToSet(Tail(s)) \subseteq ToSet(s) /\ y \in Calls
  <2>1. s \in Keys(Conns) /\ s \in Seq(Conns) /\ s # << >>
    BY <1>1, <1>3, <1>a DEF SafeCall, Keys, s
  <2>2. /\ Head(s) \in Conns /\ Tail(s) \in Keys(Conns) /\ Head(s) \notin ToSet(Tail(s))
        /\ ToSet(Tail(s)) \subseteq ToSet(s)
    BY <2>1, TailElements
  <2>3. Tail(s) \in Seq(Conns)
    BY <2>2 DEF Keys
  <2> QED
    BY <1>2, <2>2, <2>3
<1>4. ASSUME x.op = "leaveAll" PROVE Head(s) \in Rooms /\ Tail(s) \in Seq(Rooms) /\ y \in Calls
  <2>1. s \in Seq(Rooms) /\ s # << >>
    BY <1>1, <1>4 DEF SafeCall, s
  <2> QED
    BY <1>2, <2>1, TailElements
<1>5. y.rest # << >> => SafeCall(ms, y)
  <2>1. x.op = "emit" => ToSet(s) \subseteq ToSet(ms[x.room])
    BY <1>1 DEF SafeCall, s
  <2>2. x.op = "leaveAll" => x.conn \in Conns
    BY <1>1 DEF SafeCall
  <2> QED
    BY <1>a, <1>2, <1>3, <1>4, <2>1, <2>2 DEF SafeCall
<1>6. \A z \in ToSet(t) : Inside(cl, sl, y, z)
  BY <1>1, <1>2 DEF Inside
<1>7. SafeStack(ms, cl, sl, Loop(y, t)) /\ ToSet(Loop(y, t)) \subseteq ToSet(t) \cup {y}
  BY <1>1, <1>5, <1>6, SafeLoop
<1>8. y.op = "emit" => Head(s) \notin ToSet(y.rest)
  BY <1>2, <1>3
<1> QED
  BY <1>a, <1>2, <1>3, <1>4, <1>7, <1>8 DEF x, t, s

(* emit_local goes through members of its room. *)
LEMMA SafeEmit ==
    ASSUME NEW ms, NEW cl, NEW sl, NEW st, SafeStack(ms, cl, sl, st), Evicting(cl, sl, st),
           NEW f \in Frames, NEW e, ms[f.room] \in Keys(Conns)
    PROVE  SafeStack(ms, cl, sl, EmitLocal(ms[f.room], e, f, st))
<1> DEFINE rest == DeleteKey(ms[f.room], e)
           x == Call("emit", None, f.room, rest, f)
<1>1. /\ rest \in Keys(Conns) /\ rest \in Seq(Conns) /\ f.room \in Rooms
      /\ ToSet(rest) \subseteq ToSet(ms[f.room])
  <2> DEFINE m == ms[f.room]
  <2>1. m \in Keys(Conns) /\ f.room \in Rooms
    BY DEF Frames
  <2> HIDE DEF m
  <2>2. DeleteKey(m, e) \in Keys(Conns) /\ ToSet(DeleteKey(m, e)) = ToSet(m) \ {e}
    BY <2>1, DeleteKeyIsMinus
  <2> QED
    BY <2>1, <2>2 DEF m, Keys
<1> HIDE DEF rest
<1>2. x \in Calls /\ x.op = "emit" /\ x.rest = rest /\ x.room = f.room
  BY <1>1 DEF Call, Calls, Ops
<1>3. EmitLocal(ms[f.room], e, f, st) = Loop(x, st)
  BY DEF EmitLocal, rest
<1> HIDE DEF x
<1>4. x.rest # << >> => SafeCall(ms, x)
  BY <1>1, <1>2 DEF SafeCall
<1>5. \A y \in ToSet(st) : Inside(cl, sl, x, y)
  BY <1>2 DEF Evicting, Inside
<1> QED
  BY <1>3, <1>4, <1>5, SafeLoop

(* The calls of close_with and cleanup. *)
LEMMA SafeParting ==
    ASSUME NEW ms, NEW cl, NEW sl, NEW st, SafeStack(ms, cl, sl, st), Evicting(cl, sl, st),
           NEW c \in Conns, Clear(st, c), NEW js \in Seq(Rooms), NEW op \in {"close", "cleanup"}
    PROVE  SafeStack(ms, cl, sl, Parting(op, c, js, st))
<1> DEFINE x == Call("leaveAll", c, Root, js, NoFrame)
           y == Call(op, c, Root, <<c>>, NoFrame)
           p == Push(y, st)
<1>0. NoFrame \in Frames
  BY FrameTypes
<1>1. x \in Calls /\ x.op = "leaveAll" /\ x.conn = c /\ x.rest = js
  BY <1>0, RootAssumption DEF Call, Calls, Ops
<1>2. y \in Calls /\ y.op = op /\ y.conn = c
  BY <1>0, RootAssumption DEF Call, Calls, Ops
<1>3. Parting(op, c, js, st) = Loop(x, p)
  BY DEF Parting, Push
<1> HIDE DEF x, y
<1>4. SafeCall(ms, y)
  BY <1>2 DEF SafeCall
<1>5. \A z \in ToSet(st) : Inside(cl, sl, y, z) /\ Inside(cl, sl, x, z)
  BY <1>1, <1>2 DEF Evicting, Clear, Inside
<1>6. SafeStack(ms, cl, sl, p) /\ ToSet(p) = ToSet(st) \cup {y}
  BY <1>4, <1>5, SafePush
<1>7. Inside(cl, sl, x, y)
  BY <1>2 DEF Inside
<1>8. x.rest # << >> => SafeCall(ms, x)
  BY <1>1 DEF SafeCall
<1> HIDE DEF p
<1>9. \A z \in ToSet(p) : Inside(cl, sl, x, z)
  BY <1>5, <1>6, <1>7
<1> QED
  BY <1>3, <1>6, <1>8, <1>9, SafeLoop

(* What a handler does not touch keeps its type. *)
LEMMA SafeTypeStays ==
    ASSUME SafeType, closed' \in [Conns -> BOOLEAN],
           UNCHANGED <<joined, members, conns, active, ready, pipe, presence>>
    PROVE  SafeType'
  BY DEF SafeType, QueueType

(* close_with: no loop in progress has c to come, and one is in progress    *)
(* only when c is found slow.                                               *)
LEMMA SafeCloseWith ==
    ASSUME SafeType, NEW c \in Conns, NEW st, SafeStack(members, closed, slow, st), Clear(st, c),
           (\E y \in ToSet(st) : y.op = "emit") => c \in slow',
           slow \subseteq slow', CloseWith(c, st),
           UNCHANGED <<joined, members, conns, active, ready, pipe, presence>>
    PROVE  SafeInv'
<1> DEFINE cl == [closed EXCEPT ![c] = TRUE]
           sl == slow'
           js == joined[c]
<1>0. /\ closed \in [Conns -> BOOLEAN] /\ cl \in [Conns -> BOOLEAN] /\ cl[c] /\ js \in Seq(Rooms)
      /\ \A d \in Conns : closed[d] => cl[d]
  BY DEF SafeType, Keys
<1>1. CASE closed[c] \/ closeSent[c]
  <2>1. stack' = Return(st) /\ UNCHANGED flags
    BY <1>1 DEF CloseWith
  <2>2. closed' = closed
    BY <2>1 DEF flags
  <2>3. SafeStack(members, closed, slow, Return(st))
    BY SafeReturn
  <2> HIDE DEF sl
  <2>4. SafeStack(members, closed, sl, Return(st))
    <3>1. \A d \in slow : d \in sl
      BY DEF sl
    <3> QED
      BY <2>3, <3>1, SafeStays
  <2>5. SafeType'
    BY <1>0, <2>2, SafeTypeStays
  <2> QED
    BY <2>1, <2>2, <2>4, <2>5 DEF SafeInv, sl
<1>2. CASE ~(closed[c] \/ closeSent[c])
  <2> DEFINE tt == Parting("close", c, js, st)
  <2>1. closed' = cl /\ stack' = tt
    BY <1>2 DEF CloseWith, Parting
  <2>2. \A d \in slow : d \in sl /\ (closed[d] => cl[d])
    BY <1>0 DEF SafeType
  <2> HIDE DEF cl, sl, js
  <2>3. SafeStack(members, cl, sl, st)
    BY <2>2, SafeStays
  <2>4. Evicting(cl, sl, st)
    BY <1>0 DEF Evicting, sl
  <2>5. SafeStack(members, cl, sl, tt)
    BY <1>0, <2>3, <2>4, SafeParting
  <2> HIDE DEF tt
  <2>6. SafeType'
    BY <1>0, <2>1, SafeTypeStays
  <2> QED
    BY <2>1, <2>5, <2>6 DEF SafeInv, sl
<1> QED
  BY <1>1, <1>2

(* try_send: were a loop that has c to come in progress, another client     *)
(* would be slow.                                                           *)
LEMMA SafeTrySend ==
    ASSUME SafeType, NEW c \in Conns, NEW f, NEW st, SafeStack(members, closed, slow, st),
           \A y \in ToSet(st) : y.op = "emit" =>
              c \notin ToSet(y.rest) \/ \E s \in slow : closed[s],
           Lonely(slow'), TrySend(c, f, st),
           UNCHANGED <<joined, members, conns, active, ready, pipe, presence>>
    PROVE  SafeInv'
<1>1. CASE stack' = st /\ UNCHANGED flags /\ slow \subseteq slow'
  <2> DEFINE sl == slow'
  <2>1. \A d \in slow : d \in sl
    BY <1>1
  <2>2. closed' = closed
    BY <1>1 DEF flags
  <2> HIDE DEF sl
  <2>3. SafeStack(members, closed, sl, st)
    BY <2>1, SafeStays
  <2>4. SafeType'
    BY <2>2, SafeTypeStays DEF SafeType
  <2> QED
    BY <1>1, <2>2, <2>3, <2>4 DEF SafeInv, sl
<1>2. CASE CloseWith(c, st) /\ slow' = slow \cup {c} /\ ~closed[c]
  <2>1. ~\E s \in slow : closed[s]
    BY <1>2 DEF Lonely
  <2>2. Clear(st, c)
    BY <2>1 DEF Clear
  <2>3. slow \subseteq slow' /\ c \in slow'
    BY <1>2
  <2> QED
    BY <1>2, <2>2, <2>3, SafeCloseWith
<1>3. \/ stack' = st /\ UNCHANGED flags /\ slow \subseteq slow'
      \/ CloseWith(c, st) /\ slow' = slow \cup {c} /\ ~closed[c]
  BY DEF TrySend
<1> QED
  BY <1>1, <1>2, <1>3

(* leave_room: no loop in progress has c to come. *)
LEMMA SafeLeaveRoom ==
    ASSUME SafeType, NEW c \in Conns, NEW r \in Rooms, NEW st,
           SafeStack(members, closed, slow, st), Clear(st, c), Evicting(closed, slow, st),
           LeaveRoom(r, c, st), UNCHANGED <<closed, slow, conns, active, ready, presence>>
    PROVE  SafeInv'
<1> DEFINE f == Frame("member_left", r, {c})
           ms == members'
<1>0. /\ closed \in [Conns -> BOOLEAN] /\ joined \in [Conns -> Keys(Rooms)]
      /\ members \in [Rooms -> Keys(Conns)] /\ pipe \in Seq(Commands)
  BY DEF SafeType, QueueType
<1>1. joined' \in [Conns -> Keys(Rooms)]
  BY <1>0, DeleteKeyIsMinus DEF LeaveRoom
<1>2. CASE members[r] = << >>
  <2>1. stack' = st /\ UNCHANGED <<members, pipe>>
    BY <1>2 DEF LeaveRoom
  <2>2. SafeType'
    BY <1>1, <2>1 DEF SafeType, QueueType
  <2> QED
    BY <2>1, <2>2 DEF SafeInv
<1>3. CASE members[r] # << >>
  <2> DEFINE k == Command("srem", r, c, {}, FALSE)
  <2>1. /\ ms = [members EXCEPT ![r] = DeleteKey(@, c)] /\ pipe' = Append(pipe, k)
        /\ stack' = EmitLocal(ms[r], c, f, st)
    BY <1>3 DEF LeaveRoom
  <2>2. k \in Commands
    BY DEF Command, Commands
  <2> HIDE DEF k
  <2>3. pipe' \in Seq(Commands)
    BY <1>0, <2>1, <2>2
  <2>4. /\ ms \in [Rooms -> Keys(Conns)]
        /\ \A q \in Rooms : ToSet(ms[q]) = ToSet(members[q]) \/ ToSet(ms[q]) = ToSet(members[q]) \ {c}
    BY <1>0, <2>1, DeleteKeyIsMinus
  <2>5. SafeType'
    BY <1>1, <2>3, <2>4 DEF SafeType, QueueType
  <2>6. f \in Frames /\ f.room = r
    BY FrameTypes
  <2>7. ASSUME NEW y \in ToSet(st), y.op = "emit", ToSet(y.rest) \subseteq ToSet(members[y.room])
        PROVE  ToSet(y.rest) \subseteq ToSet(ms[y.room])
    <3>1. y.room \in Rooms /\ c \notin ToSet(y.rest)
      BY <2>7, SafeElements DEF Clear
    <3> QED
      BY <2>4, <2>7, <3>1
  <2> HIDE DEF f, ms
  <2>8. SafeStack(ms, closed, slow, st)
    BY <2>7, SafeStays
  <2>9. ms[f.room] \in Keys(Conns)
    BY <2>4, <2>6
  <2>10. SafeStack(ms, closed, slow, EmitLocal(ms[f.room], c, f, st))
    BY <2>6, <2>8, <2>9, SafeEmit
  <2> QED
    BY <2>1, <2>5, <2>6, <2>10 DEF SafeInv, ms
<1> QED
  BY <1>2, <1>3

-----------------------------------------------------------------------------
(* The steps keep the loops over members safe *)

(* emit_local's next member. *)
LEMMA SafeEmitNext ==
    ASSUME SafeInv, Lonely(slow'), EmitNext
    PROVE  SafeInv'
<1> DEFINE c == Head(Head(stack).rest)
           f == Head(stack).frame
<1>1. /\ SafeType /\ SafeStack(members, closed, slow, stack) /\ stack # << >>
      /\ Head(stack).op = "emit"
  BY DEF EmitNext, Top, SafeInv
<1>2. /\ SafeStack(members, closed, slow, Onwards(stack)) /\ c \in Conns
      /\ \A y \in ToSet(Onwards(stack)) : y \in ToSet(Tail(stack)) \/ c \notin ToSet(y.rest) \/ y.op # "emit"
  BY <1>1, SafeRest
<1>3. \A y \in ToSet(Tail(stack)) : Inside(closed, slow, Head(stack), y)
  BY <1>1, SafePop
<1>4. Rest = Onwards(stack)
  BY DEF Rest, Onwards
<1>5. TrySend(c, f, Rest) /\ UNCHANGED <<joined, members, conns, active, ready, pipe, presence>>
  BY DEF EmitNext, hubVars, redis
<1> HIDE DEF c, f
<1>6. \A y \in ToSet(Rest) : y.op = "emit" => c \notin ToSet(y.rest) \/ \E s \in slow : closed[s]
  BY <1>2, <1>3, <1>4 DEF Inside
<1> QED
  BY <1>1, <1>2, <1>4, <1>5, <1>6, SafeTrySend

(* try_send, called outside a loop. *)
LEMMA SafeSendNext ==
    ASSUME SafeInv, Lonely(slow'), SendNext
    PROVE  SafeInv'
<1> DEFINE c == Head(stack).conn
           f == Head(stack).frame
<1>1. /\ SafeType /\ SafeStack(members, closed, slow, stack) /\ stack # << >>
      /\ Head(stack).op = "send"
  BY DEF SendNext, Top, SafeInv
<1>2. /\ c \in Conns /\ SafeStack(members, closed, slow, Tail(stack))
      /\ \A y \in ToSet(Tail(stack)) : y.op # "emit"
  BY <1>1, SafePop DEF SafeCall, Inside
<1>3. SafeStack(members, closed, slow, Below) /\ ToSet(Below) \subseteq ToSet(Tail(stack))
  BY <1>2, SafeReturn DEF Below
<1>4. TrySend(c, f, Below) /\ UNCHANGED <<joined, members, conns, active, ready, pipe, presence>>
  BY DEF SendNext, hubVars, redis
<1> HIDE DEF c, f
<1> QED
  BY <1>1, <1>2, <1>3, <1>4, SafeTrySend

(* leave_all_rooms' next room. *)
LEMMA SafeLeaveNext ==
    ASSUME SafeInv, LeaveNext
    PROVE  SafeInv'
<1> DEFINE c == Head(stack).conn
           r == Head(Head(stack).rest)
<1>1. /\ SafeType /\ SafeStack(members, closed, slow, stack) /\ stack # << >>
      /\ Head(stack).op = "leaveAll"
  BY DEF LeaveNext, Top, SafeInv
<1>2. /\ SafeStack(members, closed, slow, Onwards(stack)) /\ r \in Rooms
      /\ \A y \in ToSet(Onwards(stack)) : y \in ToSet(Tail(stack)) \/ y.op = "leaveAll"
  BY <1>1, SafeRest
<1>3. c \in Conns /\ \A y \in ToSet(Tail(stack)) : Inside(closed, slow, Head(stack), y)
  BY <1>1, SafePop DEF SafeCall
<1>4. Rest = Onwards(stack)
  BY DEF Rest, Onwards
<1>5. LeaveRoom(r, c, Rest) /\ UNCHANGED <<closed, slow, conns, active, ready, presence>>
  BY DEF LeaveNext, redis, flags, counts
<1>6. Clear(Rest, c) /\ Evicting(closed, slow, Rest)
  BY <1>1, <1>2, <1>3, <1>4 DEF Inside, Clear, Evicting
<1> HIDE DEF c, r
<1> QED
  BY <1>1, <1>2, <1>3, <1>4, <1>5, <1>6, SafeLeaveRoom

(* remove_conn and ws.close. *)
LEMMA SafeCloseSocket ==
    ASSUME SafeInv, CloseSocket
    PROVE  SafeInv'
<1>1. SafeType /\ SafeStack(members, closed, slow, stack) /\ stack # << >>
  BY DEF CloseSocket, Top, SafeInv
<1>2. SafeStack(members, closed, slow, Below)
  BY <1>1, SafePop, SafeReturn DEF Below
<1>3. /\ UNCHANGED <<closed, joined, members, active, ready, pipe, presence, slow>>
      /\ stack' = Below
  BY DEF CloseSocket, redis, counts
<1>4. conns' \in Keys(Conns)
  BY <1>1, DeleteKeyIsMinus DEF CloseSocket, SafeType
<1>5. SafeType'
  BY <1>1, <1>3, <1>4 DEF SafeType, QueueType
<1> QED
  BY <1>2, <1>3, <1>5 DEF SafeInv

(* ping_timer's next connection. *)
LEMMA SafeHeartbeatNext ==
    ASSUME SafeInv, HeartbeatNext
    PROVE  SafeInv'
<1> DEFINE c == Head(Head(stack).rest)
<1>1. /\ SafeType /\ SafeStack(members, closed, slow, stack) /\ stack # << >>
      /\ Head(stack).op = "timer"
  BY DEF HeartbeatNext, Top, SafeInv
<1>2. /\ SafeStack(members, closed, slow, Onwards(stack)) /\ c \in Conns
      /\ \A y \in ToSet(Onwards(stack)) : y \in ToSet(Tail(stack)) \/ y.op = "timer"
  BY <1>1, SafeRest
<1>3. \A y \in ToSet(Tail(stack)) : Inside(closed, slow, Head(stack), y)
  BY <1>1, SafePop
<1>4. Rest = Onwards(stack)
  BY DEF Rest, Onwards
<1>5. UNCHANGED <<joined, members, conns, active, ready, pipe, presence, slow>>
  BY DEF HeartbeatNext, hubVars, redis, counts
<1>6. (stack' = Rest /\ UNCHANGED flags) \/ CloseWith(c, Rest)
  BY DEF HeartbeatNext
<1>7. \A y \in ToSet(Rest) : y.op # "emit"
  BY <1>1, <1>2, <1>3, <1>4 DEF Inside
<1> HIDE DEF c
<1>8. CASE stack' = Rest /\ UNCHANGED flags
  <2>1. SafeType' /\ closed' = closed
    BY <1>1, <1>5, <1>8, SafeTypeStays DEF SafeType, flags
  <2> QED
    BY <1>2, <1>4, <1>5, <1>8, <2>1 DEF SafeInv
<1>9. CASE CloseWith(c, Rest)
  <2>1. Clear(Rest, c)
    BY <1>7 DEF Clear
  <2> QED
    BY <1>1, <1>2, <1>4, <1>5, <1>7, <1>9, <2>1, SafeCloseWith
<1> QED
  BY <1>6, <1>8, <1>9

(* One call alone, and the stacks on which handlers begin. *)
LEMMA SafeSingle ==
    ASSUME NEW ms, NEW cl, NEW sl, NEW x, SafeCall(ms, x)
    PROVE  SafeStack(ms, cl, sl, <<x>>) /\ ToSet(<<x>>) = {x}
<1>1. x \in Calls
  BY DEF SafeCall
<1>2. <<x>> \in Seq(Calls) /\ DOMAIN <<x>> = {1} /\ <<x>>[1] = x
  BY <1>1
<1> QED
  BY <1>2 DEF SafeStack, ToSet

(* None of them has a loop over members. *)
LEMMA SafeBottom ==
    ASSUME NEW ms, NEW cl, NEW sl
    PROVE  /\ SafeStack(ms, cl, sl, << >>) /\ SafeStack(ms, cl, sl, Caught)
           /\ \A y \in ToSet(<< >>) \cup ToSet(Caught) : y.op # "emit"
<1> DEFINE x == Call("catch", None, Root, << >>, NoFrame)
<1>1. x \in Calls /\ x.op = "catch"
  <2>1. NoFrame \in Frames
    BY FrameTypes
  <2> QED
    BY <2>1, RootAssumption DEF Call, Calls, Ops
<1>2. Caught = <<x>>
  BY DEF Caught
<1> HIDE DEF x
<1>3. SafeCall(ms, x)
  BY <1>1 DEF SafeCall
<1>4. SafeStack(ms, cl, sl, <<x>>) /\ ToSet(<<x>>) = {x}
  BY <1>3, SafeSingle
<1>5. SafeStack(ms, cl, sl, << >>) /\ ToSet(<< >>) = {}
  BY DEF SafeStack, ToSet
<1> QED
  BY <1>1, <1>2, <1>4, <1>5

(* try_send from a handler. *)
LEMMA SafeSend ==
    ASSUME NEW ms, NEW cl, NEW sl, NEW c \in Conns, NEW f \in Frames
    PROVE  \A st \in {<< >>, Caught} :
               /\ SafeStack(ms, cl, sl, Send(c, f, st))
               /\ \A y \in ToSet(Send(c, f, st)) : y.op # "emit"
<1> DEFINE x == Call("send", c, f.room, <<c>>, f)
<1>1. x \in Calls /\ x.op = "send" /\ x.conn = c
  <2>1. f.room \in Rooms
    BY DEF Frames
  <2> QED
    BY <2>1 DEF Call, Calls, Ops
<1> HIDE DEF x
<1> SUFFICES ASSUME NEW st \in {<< >>, Caught}
             PROVE  /\ SafeStack(ms, cl, sl, Send(c, f, st))
                    /\ \A y \in ToSet(Send(c, f, st)) : y.op # "emit"
  OBVIOUS
<1>2. Send(c, f, st) = Push(x, st)
  BY DEF Send, Push, x
<1>3. SafeStack(ms, cl, sl, st) /\ \A y \in ToSet(st) : y.op # "emit"
  BY SafeBottom
<1>4. SafeCall(ms, x) /\ \A y \in ToSet(st) : Inside(cl, sl, x, y)
  BY <1>1, <1>3 DEF SafeCall, Inside
<1>5. SafeStack(ms, cl, sl, Push(x, st)) /\ ToSet(Push(x, st)) = ToSet(st) \cup {x}
  BY <1>3, <1>4, SafePush
<1> QED
  BY <1>1, <1>2, <1>3, <1>5

(* The steps that only exchange the calls in progress. *)
LEMMA SafeMoves ==
    ASSUME SafeType, SafeStack(members, closed, slow, stack'),
           UNCHANGED <<closed, joined, members, conns, active, ready, pipe, presence, slow>>
    PROVE  SafeInv'
<1>1. closed' \in [Conns -> BOOLEAN]
  BY DEF SafeType
<1>2. SafeType'
  BY <1>1, SafeTypeStays
<1>3. SafeStack(members, closed, slow, stack)'
  OBVIOUS
<1> QED
  BY <1>2, <1>3 DEF SafeInv

(* shutdown's next connection. *)
LEMMA SafeShutdownNext ==
    ASSUME SafeInv, ShutdownNext
    PROVE  SafeInv'
<1> DEFINE x == Head(stack)
           c == Head(x.rest)
           y == [x EXCEPT !.rest = Tail(@)]
<1>1. /\ SafeType /\ SafeStack(members, closed, slow, stack) /\ stack # << >>
      /\ x.op = "shutdown" /\ x.rest # << >>
  BY DEF ShutdownNext, Top, SafeInv
<1>2. SafeCall(members, x) /\ x \in Calls
  BY <1>1, SafePop
<1>3. UNCHANGED <<joined, members, conns, active, ready, pipe, presence, slow>>
  BY DEF ShutdownNext, hubVars, redis, counts
<1>4. CloseWith(c, <<y>>) \/ (stack' = <<y>> /\ UNCHANGED flags)
  BY DEF ShutdownNext
<1> HIDE DEF x
<1>5. x.rest \in Seq(Conns) /\ x.rest # << >>
  BY <1>1, <1>2 DEF SafeCall
<1>6. c \in Conns /\ Tail(x.rest) \in Seq(Conns)
  BY <1>5, TailElements
<1>7. y \in Calls /\ y.op = "shutdown" /\ y.rest = Tail(x.rest)
  BY <1>1, <1>2, <1>6 DEF Calls
<1> HIDE DEF y, c
<1>8. SafeCall(members, y)
  BY <1>6, <1>7 DEF SafeCall
<1>9. SafeStack(members, closed, slow, <<y>>) /\ ToSet(<<y>>) = {y}
  BY <1>8, SafeSingle
<1>10. CASE CloseWith(c, <<y>>)
  <2>1. Clear(<<y>>, c) /\ ~\E z \in ToSet(<<y>>) : z.op = "emit"
    BY <1>7, <1>9 DEF Clear
  <2> QED
    BY <1>1, <1>3, <1>6, <1>9, <1>10, <2>1, SafeCloseWith
<1>11. CASE stack' = <<y>> /\ UNCHANGED flags
  BY <1>1, <1>3, <1>9, <1>11, SafeMoves DEF flags
<1> QED
  BY <1>4, <1>10, <1>11

(* shutdown drops the hub's maps. *)
LEMMA SafeShutdownEnds ==
    ASSUME SafeInv, ShutdownEnds
    PROVE  SafeInv'
<1>1. << >> \in Keys(Conns)
  BY DEF Keys
<1>2. /\ conns' = << >> /\ members' = [r \in Rooms |-> << >>] /\ stack' = << >>
      /\ UNCHANGED <<closed, joined, active, ready, pipe, presence, slow>>
  BY DEF ShutdownEnds, flags, redis, counts
<1>3. SafeType'
  BY <1>1, <1>2 DEF SafeInv, SafeType, QueueType
<1>4. SafeStack(members', closed', slow', << >>)
  BY SafeBottom
<1> QED
  BY <1>2, <1>3, <1>4 DEF SafeInv

(* join_room's promise resolves. *)
LEMMA SafeResolve ==
    ASSUME SafeInv, Resolve
    PROVE  SafeInv'
<1> DEFINE x == Head(stack)
           k == Command("list", x.room, x.conn, {}, TRUE)
<1>1. /\ SafeType /\ SafeStack(members, closed, slow, stack) /\ stack # << >>
      /\ x.op = "resolve"
  BY DEF Resolve, Top, SafeInv
<1>2. /\ SafeCall(members, x) /\ x \in Calls /\ SafeStack(members, closed, slow, Below)
  BY <1>1, SafePop, SafeReturn DEF Below
<1>3. /\ ready' = Append(ready, k) /\ stack' = Below
      /\ UNCHANGED <<closed, joined, members, conns, active, pipe, presence, slow>>
  BY DEF Resolve, flags, hubVars, redis, counts
<1>4. x.room \in Rooms /\ x.conn \in Conns
  BY <1>1, <1>2 DEF SafeCall, Calls
<1> HIDE DEF x
<1>5. k \in Commands
  BY <1>4 DEF Command, Commands
<1> HIDE DEF k
<1>6. ready' \in Seq(Commands)
  BY <1>1, <1>3, <1>5 DEF SafeType, QueueType
<1>7. SafeType'
  BY <1>1, <1>3, <1>6 DEF SafeType, QueueType
<1> QED
  BY <1>2, <1>3, <1>7 DEF SafeInv

(* Redis answers, and get_cluster_presence asks. *)
LEMMA SafeQueues ==
    ASSUME SafeInv, Answered \/ Failed \/ List
    PROVE  SafeInv'
<1>1. /\ SafeType /\ SafeStack(members, closed, slow, stack) /\ QueueType
      /\ ready \in Seq(Commands) /\ pipe \in Seq(Commands)
      /\ presence \in [Rooms -> SUBSET Conns] /\ members \in [Rooms -> Keys(Conns)]
      /\ UNCHANGED <<closed, joined, members, conns, active, slow, stack>>
  BY DEF SafeInv, SafeType, QueueType, Answered, Failed, List, flags, hubVars, counts
<1>2. CASE Answered \/ Failed
  <2> DEFINE k == Head(pipe)
  <2>1. k \in Commands /\ k.room \in Rooms /\ k.conn \in Conns /\ pipe' = Tail(pipe)
        /\ pipe # << >>
    <3>1. pipe # << >> /\ pipe' = Tail(pipe)
      BY <1>2 DEF Answered, Failed
    <3>2. k \in Commands
      BY <1>1, <3>1
    <3> QED
      BY <3>1, <3>2 DEF Commands
  <2>2. \/ /\ ready' = Continue(k, presence[k.room])
           /\ presence' = CASE k.op = "sadd" -> AddPresence(k.room, k.conn)
                            [] k.op = "srem" -> RemovePresence(k.room, k.conn)
                            [] OTHER         -> presence
        \/ ready' = Continue(k, {}) /\ presence' = presence
    BY <1>2 DEF Answered, Failed, GetPresence
  <2> HIDE DEF k
  <2>3. presence' \in [Rooms -> SUBSET Conns]
    BY <1>1, <2>1, <2>2 DEF AddPresence, RemovePresence
  <2>4. presence[k.room] \in SUBSET Conns /\ {} \in SUBSET Conns
    BY <1>1, <2>1
  <2>5. ready' \in Seq(Commands)
    BY <1>1, <2>1, <2>2, <2>4, ContinueType
  <2>6. SafeType'
    BY <1>1, <2>1, <2>3, <2>5 DEF SafeType, QueueType
  <2> QED
    BY <1>1, <2>6 DEF SafeInv
<1>3. CASE List
  <2> DEFINE h == Head(ready)
             ids == ToSet(members[h.room])
             k == Command("smembers", h.room, h.conn, ids, TRUE)
  <2>1. h.room \in Rooms /\ h.conn \in Conns /\ ready # << >>
    BY <1>1, <1>3, HeadOfReady DEF List, Continuation
  <2>2. pipe' = Append(pipe, k) /\ ready' = Tail(ready) /\ presence' = presence
    BY <1>3 DEF List, Members, redis
  <2> HIDE DEF h
  <2>3. ids \subseteq Conns
    BY <1>1, <2>1 DEF Keys, ToSet
  <2> HIDE DEF ids
  <2>4. k \in Commands
    BY <2>1, <2>3 DEF Command, Commands
  <2> HIDE DEF k
  <2>5. SafeType'
    BY <1>1, <2>1, <2>2, <2>4 DEF SafeType, QueueType
  <2> QED
    BY <1>1, <2>5 DEF SafeInv
<1> QED
  BY <1>2, <1>3

(* join_room and dispatch after their awaits. *)
LEMMA SafeContinues ==
    ASSUME SafeInv, Announce \/ Acknowledge
    PROVE  SafeInv'
<1> DEFINE k == Head(ready)
           r == k.room
           c == k.conn
<1>1. /\ SafeType /\ QueueType /\ ready \in Seq(Commands) /\ ready # << >>
      /\ ready' = Tail(ready)
      /\ UNCHANGED <<closed, joined, members, conns, active, pipe, presence, slow>>
  BY DEF SafeInv, SafeType, QueueType, Announce, Acknowledge, Continuation, flags, hubVars,
         redis, counts
<1>2. r \in Rooms /\ c \in Conns /\ k.ids \in SUBSET Conns
  BY <1>1, HeadOfReady
<1>3. SafeType'
  BY <1>1 DEF SafeType, QueueType
<1>4. ASSUME Announce PROVE SafeStack(members, closed, slow, stack')
  <2> DEFINE f == Frame("new_member", r, {c})
             x == Call("resolve", c, r, << >>, NoFrame)
             st == IF k.ack THEN <<x>> \o Caught ELSE << >>
  <2>1. stack' = EmitLocal(members[r], c, f, st)
    BY <1>4 DEF Announce
  <2> HIDE DEF k, r, c
  <2>2. f \in Frames /\ f.room = r /\ NoFrame \in Frames /\ members[r] \in Keys(Conns)
    BY <1>1, <1>2, FrameTypes DEF SafeType
  <2>3. x \in Calls /\ x.op = "resolve" /\ x.conn = c
    BY <1>2, <2>2 DEF Call, Calls, Ops
  <2>4. st = IF k.ack THEN Push(x, Caught) ELSE << >>
    BY DEF Push
  <2> HIDE DEF x, st, f
  <2>5. /\ SafeStack(members, closed, slow, << >>) /\ SafeStack(members, closed, slow, Caught)
        /\ \A y \in ToSet(<< >>) \cup ToSet(Caught) : y.op # "emit"
    BY SafeBottom
  <2>6. SafeCall(members, x) /\ \A y \in ToSet(Caught) : Inside(closed, slow, x, y)
    BY <1>2, <2>3, <2>5 DEF SafeCall, Inside
  <2>7. /\ SafeStack(members, closed, slow, Push(x, Caught))
        /\ ToSet(Push(x, Caught)) = ToSet(Caught) \cup {x}
    BY <2>5, <2>6, SafePush
  <2>8. SafeStack(members, closed, slow, st) /\ Evicting(closed, slow, st)
    BY <2>3, <2>4, <2>5, <2>7 DEF Evicting
  <2>9. SafeStack(members, closed, slow, EmitLocal(members[f.room], c, f, st))
    BY <2>2, <2>8, SafeEmit
  <2> QED
    BY <2>1, <2>2, <2>9
<1>5. ASSUME Acknowledge PROVE SafeStack(members, closed, slow, stack')
  <2> DEFINE f == Frame("join_ack", r, k.ids)
  <2>1. stack' = Send(c, f, Caught)
    BY <1>5 DEF Acknowledge
  <2> HIDE DEF k, r, c
  <2>2. f \in Frames
    BY <1>2, FrameTypes
  <2> HIDE DEF f
  <2> QED
    BY <1>2, <2>1, <2>2, SafeSend
<1> QED
  BY <1>1, <1>3, <1>4, <1>5 DEF SafeInv

(* Only a member that is gone makes the process throw. *)
LEMMA SaneStays ==
    ASSUME Sane, [Next]_vars, ~EmitThrows
    PROVE  Sane'
<1>1. CASE ShutdownEnds
  BY <1>1 DEF ShutdownEnds, Sane
<1>2. CASE ~ShutdownEnds
  BY <1>2, ProcessStays DEF Sane
<1> QED
  BY <1>1, <1>2

(* The connection handler, and join_room: nothing is in progress. *)
LEMMA SafeJoins ==
    ASSUME SafeInv, NEW c \in Conns, Connect(c) \/ \E r \in Rooms : Join(c, r)
    PROVE  SafeInv'
<1>1. /\ SafeType /\ stack = << >> /\ pipe \in Seq(Commands)
      /\ UNCHANGED <<closed, stack, ready, presence, slow>>
  BY DEF SafeInv, SafeType, QueueType, Connect, Join, Receives, Input, Event, Idle, flags,
         loop, redis, counts
<1>2. SafeStack(members', closed', slow', << >>)
  BY SafeBottom
<1>3. ASSUME NEW r \in Rooms, JoinRoom(r, c)
      PROVE  joined' \in [Conns -> Keys(Rooms)] /\ members' \in [Rooms -> Keys(Conns)]
  BY <1>1, <1>3, AddKeyIsUnion DEF JoinRoom, SafeType
<1>4. CASE Connect(c)
  <2> DEFINE ids == ToSet(members'[Root])
             k == Command("sadd", Root, c, {}, FALSE)
             l == Command("smembers", Root, c, ids, TRUE)
  <2>1. pipe' = pipe \o <<k, l>> /\ JoinRoom(Root, c)
    BY <1>4 DEF Connect
  <2>2. /\ active' \in Keys(Conns) /\ conns' \in Keys(Conns)
        /\ joined' \in [Conns -> Keys(Rooms)] /\ members' \in [Rooms -> Keys(Conns)]
    BY <1>1, <1>3, <1>4, <2>1, AddKeyIsUnion, RootAssumption DEF Connect, SafeType
  <2>3. ids \subseteq Conns
    BY <2>2, RootAssumption DEF Keys, ToSet
  <2> HIDE DEF ids
  <2>4. k \in Commands /\ l \in Commands
    BY <2>3, RootAssumption DEF Command, Commands
  <2> HIDE DEF k, l
  <2>5. pipe' \in Seq(Commands)
    BY <1>1, <2>1, <2>4
  <2>6. SafeType'
    BY <1>1, <2>2, <2>5 DEF SafeType, QueueType
  <2> QED
    BY <1>1, <1>2, <2>6 DEF SafeInv
<1>5. ASSUME NEW r \in Rooms, Join(c, r) PROVE SafeInv'
  <2> DEFINE k == Command("sadd", r, c, {}, TRUE)
  <2>1. pipe' = Append(pipe, k) /\ JoinRoom(r, c) /\ UNCHANGED <<conns, active>>
    BY <1>5 DEF Join
  <2>2. k \in Commands
    BY DEF Command, Commands
  <2> HIDE DEF k
  <2>3. SafeType'
    BY <1>1, <1>3, <2>1, <2>2 DEF SafeType, QueueType
  <2> QED
    BY <1>1, <1>2, <2>3 DEF SafeInv
<1> QED
  BY <1>4, <1>5

(* leave_room from dispatch: the call of try_send below is not yet made. *)
LEMMA SafeLeave ==
    ASSUME SafeInv, NEW c \in Conns, NEW r \in Rooms, Leave(c, r)
    PROVE  SafeInv'
<1> DEFINE f == Frame("leave_ack", r, {c})
           st == Send(c, f, Caught)
<1>1. LeaveRoom(r, c, st) /\ UNCHANGED <<closed, slow, conns, active, ready, presence>>
  BY DEF Leave, flags, redis
<1>2. f \in Frames
  BY FrameTypes
<1> HIDE DEF f
<1>3. SafeStack(members, closed, slow, st) /\ \A y \in ToSet(st) : y.op # "emit"
  BY <1>2, SafeSend
<1> HIDE DEF st
<1>4. Clear(st, c) /\ Evicting(closed, slow, st)
  BY <1>3 DEF Clear, Evicting
<1> QED
  BY <1>1, <1>3, <1>4, SafeLeaveRoom DEF SafeInv

(* Messages for a room or for one connection. *)
LEMMA SafeMessage ==
    ASSUME SafeInv,
           \/ \E c \in Conns, r \in Rooms : Broadcast(c, r)
           \/ \E c, d \in Conns : Direct(c, d)
           \/ \E d \in Conns : Unicast(d)
           \/ \E r \in Rooms : Incoming(r)
    PROVE  SafeInv'
<1>1. UNCHANGED <<closed, joined, members, conns, active, ready, pipe, presence, slow>>
  BY DEF Broadcast, Direct, Unicast, Incoming, flags, hubVars, redis
<1>2. \A r \in Rooms : Frame("data", r, {}) \in Frames /\ Frame("data", r, {}).room = r
  BY FrameTypes
<1>3. ASSUME NEW r \in Rooms, NEW e, NEW st \in {<< >>, Caught},
             stack' = EmitLocal(members[r], e, Frame("data", r, {}), st)
      PROVE  SafeStack(members, closed, slow, stack')
  <2> DEFINE f == Frame("data", r, {})
  <2>1. f \in Frames /\ f.room = r
    BY <1>2
  <2> HIDE DEF f
  <2>2. SafeStack(members, closed, slow, st) /\ \A y \in ToSet(st) : y.op # "emit"
    BY SafeBottom
  <2>3. Evicting(closed, slow, st) /\ members[f.room] \in Keys(Conns)
    BY <2>1, <2>2 DEF Evicting, SafeInv, SafeType
  <2>4. SafeStack(members, closed, slow, EmitLocal(members[f.room], e, f, st))
    BY <2>1, <2>2, <2>3, SafeEmit
  <2> QED
    BY <1>3, <2>1, <2>4 DEF f
<1>4. ASSUME NEW c \in Conns, NEW d \in Conns, Direct(c, d) \/ Unicast(d)
      PROVE  SafeStack(members, closed, slow, stack')
  <2> DEFINE f == Frame("data", Root, {})
  <2>1. (\E st \in {<< >>, Caught} : stack' = Send(d, f, st)) /\ f \in Frames
    BY <1>2, <1>4, RootAssumption DEF Direct, Unicast
  <2> HIDE DEF f
  <2> QED
    BY <2>1, SafeSend
<1>5. ASSUME NEW c \in Conns, NEW r \in Rooms, Broadcast(c, r)
      PROVE  SafeStack(members, closed, slow, stack')
  BY <1>3, <1>5 DEF Broadcast
<1>6. ASSUME NEW r \in Rooms, Incoming(r)
      PROVE  SafeStack(members, closed, slow, stack')
  BY <1>3, <1>6 DEF Incoming
<1>7. SafeStack(members, closed, slow, stack')
  BY <1>4, <1>5, <1>6
<1> QED
  BY <1>1, <1>7, SafeMoves DEF SafeInv

(* disconnect, and a frame that is too long or cannot be decoded. *)
LEMMA SafeKick ==
    ASSUME SafeInv, NEW c \in Conns, Malformed(c) \/ \E d \in Conns : Kick(c, d)
    PROVE  SafeInv'
<1>1. UNCHANGED <<joined, members, conns, active, ready, pipe, presence, slow>>
  BY DEF Malformed, Kick, hubVars, redis
<1>2. PICK d \in Conns, st \in {Caught, << >>} : CloseWith(d, st)
  BY DEF Malformed, Kick
<1>3. SafeStack(members, closed, slow, st) /\ \A y \in ToSet(st) : y.op # "emit"
  BY <1>2, SafeBottom
<1>4. Clear(st, d)
  BY <1>3 DEF Clear
<1> QED
  BY <1>1, <1>2, <1>3, <1>4, SafeCloseWith DEF SafeInv

(* The close and error events: cleanup. *)
LEMMA SafeCleanup ==
    ASSUME SafeInv, NEW c \in Conns, CloseEvent(c) \/ ErrorEvent(c)
    PROVE  SafeInv'
<1> DEFINE js == joined[c]
           cl == [closed EXCEPT ![c] = TRUE]
<1>1. /\ SafeType /\ UNCHANGED <<joined, members, conns, ready, pipe, presence, slow>>
      /\ Cleanup(c, << >>) /\ active' = DeleteKey(active, c)
  BY DEF SafeInv, CloseEvent, ErrorEvent, hubVars, redis, counts
<1>2. /\ active' \in Keys(Conns) /\ js \in Seq(Rooms) /\ closed \in [Conns -> BOOLEAN]
      /\ cl \in [Conns -> BOOLEAN]
  BY <1>1, DeleteKeyIsMinus DEF SafeType, Keys
<1>3. CASE closed[c]
  <2>1. stack' = << >> /\ closed' = closed
    BY <1>1, <1>3 DEF Cleanup, flags
  <2>2. SafeStack(members, closed, slow, << >>)
    BY SafeBottom
  <2>3. SafeType'
    BY <1>1, <1>2, <2>1 DEF SafeType, QueueType
  <2> QED
    BY <1>1, <2>1, <2>2, <2>3 DEF SafeInv
<1>4. CASE ~closed[c]
  <2>1. stack' = Parting("cleanup", c, js, << >>) /\ closed' = cl
    BY <1>1, <1>4 DEF Cleanup, Parting
  <2> HIDE DEF cl, js
  <2>2. SafeStack(members, cl, slow, << >>) /\ \A y \in ToSet(<< >>) : y.op # "emit"
    BY SafeBottom
  <2>3. Evicting(cl, slow, << >>) /\ Clear(<< >>, c)
    BY <2>2 DEF Evicting, Clear
  <2>4. SafeStack(members, cl, slow, Parting("cleanup", c, js, << >>))
    BY <1>2, <2>2, <2>3, SafeParting
  <2>5. SafeType'
    BY <1>1, <1>2, <2>1 DEF SafeType, QueueType
  <2> QED
    BY <1>1, <2>1, <2>4, <2>5 DEF SafeInv
<1> QED
  BY <1>3, <1>4

(* ping_timer and shutdown begin. *)
LEMMA SafeLoops ==
    ASSUME SafeInv, Timer \/ Shutdown
    PROVE  SafeInv'
<1>1. /\ SafeType
      /\ UNCHANGED <<closed, joined, members, conns, active, ready, pipe, presence, slow>>
      /\ active \in Keys(Conns) /\ conns \in Keys(Conns)
      /\ active \in Seq(Conns) /\ conns \in Seq(Conns) /\ NoFrame \in Frames
  BY FrameTypes DEF Timer, Shutdown, SafeInv, SafeType, Keys, flags, hubVars, redis, counts
<1>2. PICK x : SafeCall(members, x) /\ stack' = <<x>>
  <2>1. CASE Timer
    <3> DEFINE x == Call("timer", None, Root, active, NoFrame)
    <3>1. x \in Calls /\ x.op = "timer" /\ x.rest = active /\ stack' = <<x>> /\ active # << >>
      BY <1>1, <2>1, RootAssumption DEF Timer, Call, Calls, Ops
    <3> HIDE DEF x
    <3>2. SafeCall(members, x)
      BY <1>1, <3>1 DEF SafeCall
    <3> QED
      BY <3>1, <3>2
  <2>2. CASE Shutdown
    <3> DEFINE x == Call("shutdown", None, Root, conns, NoFrame)
    <3>1. x \in Calls /\ x.op = "shutdown" /\ x.rest = conns /\ stack' = <<x>>
      BY <1>1, <2>2, RootAssumption DEF Shutdown, Call, Calls, Ops
    <3> HIDE DEF x
    <3>2. SafeCall(members, x)
      BY <1>1, <3>1 DEF SafeCall
    <3> QED
      BY <3>1, <3>2
  <2> QED
    BY <2>1, <2>2
<1>3. SafeStack(members, closed, slow, stack')
  BY <1>2, SafeSingle
<1> QED
  BY <1>1, <1>3, SafeMoves

(* Sockets, pongs and waiting. *)
LEMMA SafeElsewhere ==
    ASSUME SafeInv,
           Wait \/ UNCHANGED vars \/ \E c \in Conns : Pong(c) \/ Refuse(c) \/ PeerCloses(c)
    PROVE  SafeInv'
<1>1. UNCHANGED <<closed, joined, members, conns, active, ready, pipe, presence, slow, stack>>
  BY DEF Wait, Pong, Refuse, PeerCloses, vars, flags, hubVars, redis, counts, loop
<1>2. SafeStack(members, closed, slow, stack')
  BY <1>1 DEF SafeInv
<1> QED
  BY <1>1, <1>2, SafeMoves DEF SafeInv

(* emit_local finds every member it comes to. *)
LEMMA SafeNeverThrows ==
    ASSUME SafeInv
    PROVE  ~EmitThrows
<1> SUFFICES ASSUME EmitThrows PROVE FALSE
  OBVIOUS
<1> DEFINE x == Head(stack)
<1>1. /\ stack # << >> /\ x.op = "emit" /\ Head(x.rest) \notin ToSet(members[x.room])
      /\ SafeStack(members, closed, slow, stack)
  BY DEF EmitThrows, Top, Members, SafeInv
<1>2. SafeCall(members, x)
  BY <1>1, SafePop
<1> HIDE DEF x
<1>3. /\ x.rest \in Seq(Conns) /\ x.rest # << >>
      /\ ToSet(x.rest) \subseteq ToSet(members[x.room])
  BY <1>1, <1>2 DEF SafeCall, Keys
<1>4. Head(x.rest) \in ToSet(x.rest)
  BY <1>3, TailElements
<1> QED
  BY <1>1, <1>3, <1>4

(* A client that was slow stays one that was. *)
LEMMA SlowGrows ==
    ASSUME [Next]_vars
    PROVE  slow \subseteq slow' /\ (IsFiniteSet(slow) => IsFiniteSet(slow'))
<1>1. \/ slow' = slow \/ \E c : slow' = slow \cup {c}
  <2>1. CASE Step
    BY <2>1 DEF Step, EmitNext, EmitThrows, SendNext, LeaveNext, CloseSocket, HeartbeatNext,
                ShutdownNext, ShutdownEnds, Resolve, TrySend, counts
  <2>2. CASE Promise \/ Timer \/ Shutdown \/ Wait \/ UNCHANGED vars
    BY <2>2 DEF Promise, Answered, Failed, Announce, List, Acknowledge, Timer, Shutdown,
                Wait, vars, counts
  <2>3. ASSUME NEW c \in Conns, Client(c) PROVE slow' = slow
    BY <2>3 DEF Client, Connect, Refuse, Malformed, Pong, Join, Leave, Broadcast, Direct,
                Kick, PeerCloses, CloseEvent, ErrorEvent, counts
  <2>4. ASSUME NEW r \in Rooms, Incoming(r) PROVE slow' = slow
    BY <2>4 DEF Incoming
  <2>5. ASSUME NEW c \in Conns, Unicast(c) PROVE slow' = slow
    BY <2>5 DEF Unicast
  <2> QED
    BY <2>1, <2>2, <2>3, <2>4, <2>5 DEF Next
<1> QED
  BY <1>1, FS_AddElement

(* Every step keeps the loops over members safe while no second client is   *)
(* found slow.                                                              *)
LEMMA SafeStep ==
    ASSUME SafeInv, Lonely(slow'), [Next]_vars
    PROVE  SafeInv' /\ ~EmitThrows
<1>0. ~EmitThrows
  BY SafeNeverThrows
<1>1. CASE Step
  BY <1>0, <1>1, SafeEmitNext, SafeSendNext, SafeLeaveNext, SafeCloseSocket,
     SafeHeartbeatNext, SafeShutdownNext, SafeShutdownEnds, SafeResolve DEF Step
<1>2. CASE Promise
  BY <1>0, <1>2, SafeQueues, SafeContinues DEF Promise
<1>3. CASE Timer \/ Shutdown
  BY <1>0, <1>3, SafeLoops
<1>4. CASE Wait \/ UNCHANGED vars
  BY <1>0, <1>4, SafeElsewhere
<1>5. ASSUME NEW c \in Conns, Client(c) PROVE SafeInv'
  <2>1. CASE Connect(c) \/ \E r \in Rooms : Join(c, r)
    BY <2>1, SafeJoins
  <2>2. CASE Refuse(c) \/ PeerCloses(c) \/ Pong(c)
    BY <2>2, SafeElsewhere
  <2>3. CASE Malformed(c) \/ \E d \in Conns : Kick(c, d)
    BY <2>3, SafeKick
  <2>4. ASSUME NEW r \in Rooms, Leave(c, r) PROVE SafeInv'
    BY <2>4, SafeLeave
  <2>5. CASE (\E r \in Rooms : Broadcast(c, r)) \/ \E d \in Conns : Direct(c, d)
    BY <2>5, SafeMessage
  <2>6. CASE CloseEvent(c) \/ ErrorEvent(c)
    BY <2>6, SafeCleanup
  <2> QED
    BY <1>5, <2>1, <2>2, <2>3, <2>4, <2>5, <2>6 DEF Client
<1>6. ASSUME NEW r \in Rooms, Incoming(r) PROVE SafeInv'
  BY <1>6, SafeMessage
<1>7. ASSUME NEW c \in Conns, Unicast(c) PROVE SafeInv'
  BY <1>7, SafeMessage
<1> QED
  BY <1>0, <1>1, <1>2, <1>3, <1>4, <1>5, <1>6, <1>7 DEF Next

(* As long as at most one client has been slow no exception is thrown, and  *)
(* every loop of emit_local has members of its room to come, late frames or *)
(* not.                                                                     *)
THEOREM SafeLoopsOverMembers == Spec => []OneSlowInv
<1>1. Init => OneSlowInv
  <2> SUFFICES ASSUME Init PROVE OneSlowInv
    OBVIOUS
  <2>1. << >> \in Keys(Rooms) /\ << >> \in Keys(Conns)
    BY DEF Keys
  <2>2. SafeType
    BY <2>1 DEF SafeType, QueueType, Init
  <2>3. SafeStack(members, closed, slow, stack)
    BY SafeBottom DEF Init
  <2>4. IsFiniteSet(slow)
    BY FS_EmptySet DEF Init
  <2> QED
    BY <2>2, <2>3, <2>4 DEF OneSlowInv, SafeInv, Sane, Init
<1>2. OneSlowInv /\ [Next]_vars => OneSlowInv'
  <2> SUFFICES ASSUME OneSlowInv, [Next]_vars PROVE OneSlowInv'
    OBVIOUS
  <2>1. /\ process' \in {"up", "down", "threw", "crashed"}
    BY ProcessStep DEF OneSlowInv
  <2>2. IsFiniteSet(slow') /\ slow \subseteq slow'
    BY SlowGrows DEF OneSlowInv
  <2>3. ASSUME Lonely(slow') PROVE Sane' /\ SafeInv'
    <3>1. Lonely(slow)
      BY <2>2, <2>3 DEF Lonely
    <3>2. Sane /\ SafeInv
      BY <3>1 DEF OneSlowInv
    <3>3. SafeInv' /\ ~EmitThrows
      BY <2>3, <3>2, SafeStep
    <3>4. Sane'
      BY <3>2, <3>3, SaneStays
    <3> QED
      BY <3>3, <3>4
  <2> QED
    BY <2>1, <2>2, <2>3 DEF OneSlowInv
<1> QED
  BY <1>1, <1>2, PTL DEF Spec

(* The loops of emit_local survive the eviction of one slow client, from    *)
(* wherever try_send notices it: an exception for a member that is gone     *)
(* takes a second slow client (room.js emit_local, conn.js try_send).       *)
THEOREM OneSlowClient == Spec => []OneSlowClientIsSafe
<1>1. OneSlowInv => OneSlowClientIsSafe
  <2> SUFFICES ASSUME OneSlowInv, process \in {"threw", "crashed"} PROVE Cardinality(slow) > 1
    BY DEF OneSlowClientIsSafe
  <2>1. IsFiniteSet(slow) /\ ~Lonely(slow)
    BY DEF OneSlowInv, Sane
  <2>2. PICK c \in slow : \E d \in slow : c # d
    BY <2>1 DEF Lonely
  <2>3. PICK d \in slow : c # d
    BY <2>2
  <2>4. Cardinality({c, d}) = 2 /\ Cardinality({c, d}) <= Cardinality(slow)
    <3>1. IsFiniteSet({c}) /\ Cardinality({c}) = 1
      BY FS_Singleton
    <3>2. {c, d} = {c} \cup {d} /\ d \notin {c}
      BY <2>3
    <3>3. Cardinality({c, d}) = 2
      BY <3>1, <3>2, FS_AddElement
    <3>4. {c, d} \subseteq slow
      BY <2>2, <2>3
    <3> QED
      BY <2>1, <3>3, <3>4, FS_Subset
  <2>5. Cardinality(slow) \in Nat
    BY <2>1, FS_CardinalityType
  <2> QED
    BY <2>4, <2>5
<1> QED
  BY <1>1, SafeLoopsOverMembers, PTL

-----------------------------------------------------------------------------
(* What clients are told *)

(* c reads what it is sent. *)
Hears(c) == ws[c] = "open" /\ ~closed[c] /\ c \notin slow

(* k is c's join of r on its way to be announced, or, later, the question   *)
(* who is in r.                                                             *)
Asks(k, r, c) ==
    k.room = r /\ k.conn = c /\ (k.op = "list" \/ (k.op \in {"sadd", "announce"} /\ k.ack))

(* k announces d's join of r, and if d is c itself will end in an answer. *)
Again(k, r, c, d) ==
    k.op \in {"sadd", "announce"} /\ k.room = r /\ k.conn = d /\ (d = c => k.ack)

(* k answers c who is in r. *)
Answers(k, r, c) == k.op \in {"smembers", "ack"} /\ k.room = r /\ k.conn = c

(* k will have d named to c as a member of r. *)
Will(k, r, c, d) ==
    Asks(k, r, c) \/ Again(k, r, c, d) \/ (Answers(k, r, c) /\ d \in k.ids)

(* So will the call x. *)
Tells(x, r, c, d) ==
    \/ x.op = "emit" /\ x.frame.event = "new_member" /\ x.frame.room = r
          /\ d \in x.frame.ids /\ c \in ToSet(x.rest)
    \/ x.op = "send" /\ x.frame.event = "join_ack" /\ x.frame.room = r
          /\ d \in x.frame.ids /\ x.conn = c
    \/ x.op = "resolve" /\ x.conn = c /\ x.room = r

(* The call x sends c an answer that does not name d. *)
Omits(x, r, c, d) ==
    x.op = "send" /\ x.frame.event = "join_ack" /\ x.frame.room = r /\ x.conn = c
        /\ d \notin x.frame.ids

(* c knows of d in r, or will when all that is under way has been done. *)
Told(r, c, d) ==
    \/ d \in roster[c][r]
    \/ \E k \in ToSet(pipe) : Will(k, r, c, d)
    \/ \E k \in ToSet(ready) : Will(k, r, c, d)
    \/ \E x \in ToSet(stack) : Tells(x, r, c, d)

(* d will be announced out of q. *)
Has(q, r, c, d) == \E k \in ToSet(q) : Again(k, r, c, d)

(* An answer in q that does not name d comes before an announcement of d,   *)
(* in q or elsewhere.                                                       *)
Followed(q, r, c, d, elsewhere) ==
    \A i \in DOMAIN q : Answers(q[i], r, c) /\ d \notin q[i].ids =>
        elsewhere \/ \E j \in DOMAIN q : j > i /\ Again(q[j], r, c, d)

(* No answer to c that does not name d comes after d's announcement. *)
InOrder(r, c, d) ==
    /\ Followed(pipe, r, c, d, FALSE)
    /\ Followed(ready, r, c, d, Has(pipe, r, c, d))
    /\ \A x \in ToSet(stack) : Omits(x, r, c, d) => Has(ready, r, c, d) \/ Has(pipe, r, c, d)

(* No frame on its way takes a member from a roster.  Only one client gets  *)
(* an answer.                                                               *)
FrameFits(ms, x) ==
    x.op \in {"emit", "send"} =>
        /\ x.frame.event = "member_left" => x.frame.ids \cap ToSet(ms[x.frame.room]) = {}
        /\ x.frame.event = "leave_ack" => x.op = "send" /\ x.conn \notin ToSet(ms[x.frame.room])
        /\ x.frame.event = "join_ack" => x.op = "send"

(* Redis is asked, and continuations run, for connections there have been.  *)
Known ==
    /\ \A k \in ToSet(pipe) : k.op \in {"sadd", "srem", "smembers"}
    /\ \A k \in ToSet(pipe) \cup ToSet(ready) : k.op # "srem" => ws[k.conn] # "none"
    /\ \A x \in ToSet(stack) : x.op = "resolve" => ws[x.conn] # "none"

(* Every call's frame fits. *)
FramesFit == \A x \in ToSet(stack) : FrameFits(members, x)

(* For every member the answers are in order. *)
OrderInv == \A r \in Rooms, c \in Conns, d \in Conns : d \in Members(r) => InOrder(r, c, d)

(* Whoever is in a room with d and reads what it is sent knows d or will.   *)
ToldInv ==
    \A r \in Rooms, c \in Conns, d \in Conns :
        c \in Members(r) /\ d \in Members(r) /\ Hears(c) => Told(r, c, d)

(* The names a client knows. *)
RosterType == roster \in [Conns -> [Rooms -> SUBSET Conns]]

(* What keeps the rosters complete. *)
RosterInv == Known /\ FramesFit /\ OrderInv /\ ToldInv

-----------------------------------------------------------------------------
(* Queues, and stacks that follow from one another *)

(* A call that brings no client an answer and takes nobody from a roster. *)
Inert(ms, x) ==
    /\ x.op # "resolve" /\ FrameFits(ms, x)
    /\ x.op = "send" => x.frame.event # "join_ack"

(* The same call, but for what a loop has still to come to. *)
Alike(x, z) == x.op = z.op /\ x.conn = z.conn /\ x.room = z.room /\ x.frame = z.frame

(* tt has calls of st and inert ones. *)
Derived(ms, st, tt) == \A x \in ToSet(tt) : Inert(ms, x) \/ \E z \in ToSet(st) : Alike(x, z)

(* What st has clients told, tt has. *)
KeepsTelling(st, tt) ==
    \A r, c, d : (\E x \in ToSet(st) : Tells(x, r, c, d)) => \E x \in ToSet(tt) : Tells(x, r, c, d)

(* What tt has in place of st keeps every promise of st and makes no other  *)
(* answer.                                                                  *)
Follows(ms, st, tt) == Derived(ms, st, tt) /\ KeepsTelling(st, tt)

(* A queue with a command more. *)
LEMMA AppendElements ==
    ASSUME NEW q \in Seq(Commands), NEW k \in Commands
    PROVE  /\ Append(q, k) \in Seq(Commands) /\ ToSet(Append(q, k)) = ToSet(q) \cup {k}
           /\ DOMAIN Append(q, k) = DOMAIN q \cup {Len(q) + 1} /\ Append(q, k)[Len(q) + 1] = k
           /\ \A i \in DOMAIN q : Append(q, k)[i] = q[i] /\ i < Len(q) + 1 /\ i \in Nat
           /\ Len(q) \in Nat
<1> DEFINE t == Append(q, k)
<1>1. /\ t \in Seq(Commands) /\ Len(q) \in Nat /\ DOMAIN q = 1..Len(q)
      /\ DOMAIN t = DOMAIN q \cup {Len(q) + 1} /\ t[Len(q) + 1] = k
      /\ \A i \in DOMAIN q : t[i] = q[i]
  OBVIOUS
<1> HIDE DEF t
<1>2. ToSet(t) = ToSet(q) \cup {k}
  BY <1>1 DEF ToSet
<1> QED
  BY <1>1, <1>2 DEF t

(* An announcement at the end of a queue follows everything in it. *)
LEMMA FollowedAppend ==
    ASSUME NEW q \in Seq(Commands), NEW k \in Commands, NEW r, NEW c, NEW d, NEW e \in BOOLEAN
    PROVE  /\ Followed(q, r, c, d, e) /\ (Answers(k, r, c) /\ d \notin k.ids => e)
                 => Followed(Append(q, k), r, c, d, e)
           /\ Again(k, r, c, d) => Followed(Append(q, k), r, c, d, e)
<1> DEFINE t == Append(q, k)
           n == Len(q) + 1
<1>1. /\ DOMAIN t = DOMAIN q \cup {n} /\ t[n] = k
      /\ \A i \in DOMAIN q : t[i] = q[i] /\ i < n /\ i \in Nat
  BY AppendElements
<1> HIDE DEF t, n
<1>2. ASSUME Followed(q, r, c, d, e), Answers(k, r, c) /\ d \notin k.ids => e
      PROVE  Followed(t, r, c, d, e)
  BY <1>1, <1>2 DEF Followed
<1>3. ASSUME Again(k, r, c, d) PROVE Followed(t, r, c, d, e)
  <2>1. ~Answers(k, r, c)
    BY <1>3 DEF Again, Answers
  <2>2. \A i \in DOMAIN q : n > i
    BY <1>1
  <2> QED
    BY <1>1, <1>3, <2>1, <2>2 DEF Followed
<1> QED
  BY <1>2, <1>3 DEF t

(* A queue without its head. *)
LEMMA FollowedTail ==
    ASSUME NEW q \in Seq(Commands), q # << >>, NEW r, NEW c, NEW d, NEW e \in BOOLEAN,
           Followed(q, r, c, d, e)
    PROVE  /\ Followed(Tail(q), r, c, d, e)
           /\ Answers(Head(q), r, c) /\ d \notin Head(q).ids => e \/ Has(Tail(q), r, c, d)
<1> DEFINE t == Tail(q)
<1>1. /\ t \in Seq(Commands) /\ Len(q) \in Nat \ {0} /\ DOMAIN q = 1..Len(q) /\ Head(q) = q[1]
      /\ DOMAIN t = 1..(Len(q) - 1) /\ \A i \in 1..(Len(q) - 1) : t[i] = q[i + 1]
  OBVIOUS
<1> HIDE DEF t
<1>2. \A i \in DOMAIN t : i + 1 \in DOMAIN q /\ t[i] = q[i + 1] /\ i \in Nat
  BY <1>1
<1>3. ASSUME NEW j \in DOMAIN q, j > 1
      PROVE  j - 1 \in DOMAIN t /\ t[j - 1] = q[j]
  <2>1. j - 1 \in 1..(Len(q) - 1) /\ (j - 1) + 1 = j
    BY <1>1, <1>3
  <2> QED
    BY <1>1, <2>1
<1>4. ASSUME NEW i \in DOMAIN t, Answers(t[i], r, c), d \notin t[i].ids, ~e
      PROVE  \E j \in DOMAIN t : j > i /\ Again(t[j], r, c, d)
  <2>1. PICK j \in DOMAIN q : j > i + 1 /\ Again(q[j], r, c, d)
    BY <1>2, <1>4 DEF Followed
  <2>2. j > 1 /\ j - 1 > i
    BY <1>1, <1>2, <2>1
  <2>3. j - 1 \in DOMAIN t /\ t[j - 1] = q[j]
    BY <1>3, <2>2
  <2> QED
    BY <2>1, <2>2, <2>3
<1>5. ASSUME Answers(Head(q), r, c), d \notin Head(q).ids, ~e PROVE Has(t, r, c, d)
  <2>1. 1 \in DOMAIN q
    BY <1>1
  <2>2. PICK j \in DOMAIN q : j > 1 /\ Again(q[j], r, c, d)
    BY <1>1, <1>5, <2>1 DEF Followed
  <2>3. j - 1 \in DOMAIN t /\ t[j - 1] = q[j]
    BY <1>3, <2>2
  <2> QED
    BY <2>2, <2>3 DEF Has, ToSet
<1> QED
  BY <1>4, <1>5 DEF Followed, t

(* A queue of which less is asked. *)
LEMMA FollowedWeaker ==
    ASSUME NEW q, NEW r, NEW c, NEW d, NEW e \in BOOLEAN, NEW g \in BOOLEAN,
           Followed(q, r, c, d, e), e => g
    PROVE  Followed(q, r, c, d, g)
  BY DEF Followed

(* A stack follows itself. *)
LEMMA FollowsSelf ==
    ASSUME NEW ms, NEW st
    PROVE  Follows(ms, st, st)
  BY DEF Follows, Derived, KeepsTelling, Alike

(* What is derived from calls that are derived. *)
LEMMA FollowsOn ==
    ASSUME NEW ms, NEW b, NEW st, NEW tt, Derived(ms, b, st), Derived(ms, st, tt)
    PROVE  Derived(ms, b, tt)
  BY DEF Derived, Alike, Inert, FrameFits

(* An inert call on top. *)
LEMMA FollowsPush ==
    ASSUME NEW ms, NEW b, NEW st \in Seq(Calls), NEW x \in Calls, Inert(ms, x), Follows(ms, b, st)
    PROVE  Follows(ms, b, Push(x, st))
<1>1. ToSet(Push(x, st)) = ToSet(st) \cup {x}
  BY PushSet
<1> QED
  BY <1>1 DEF Follows, Derived, KeepsTelling

(* A return. *)
LEMMA FollowsReturn ==
    ASSUME NEW ms, NEW b, NEW st, Follows(ms, b, st)
    PROVE  Follows(ms, b, Return(st))
<1>1. CASE st # Caught
  BY <1>1 DEF Return
<1>2. CASE st = Caught
  <2>1. \A x \in ToSet(st) : x.op = "catch"
    BY <1>2 DEF Caught, Call, ToSet
  <2>2. \A r, c, d : ~\E x \in ToSet(st) : Tells(x, r, c, d)
    BY <2>1 DEF Tells
  <2>3. ToSet(<< >>) = {}
    BY DEF ToSet
  <2> QED
    BY <1>2, <2>2, <2>3 DEF Follows, Derived, KeepsTelling, Return
<1> QED
  BY <1>1, <1>2

(* An inert loop on top. *)
LEMMA FollowsLoop ==
    ASSUME NEW ms, NEW b, NEW st \in Seq(Calls), NEW x \in Calls, Inert(ms, x), Follows(ms, b, st)
    PROVE  Follows(ms, b, Loop(x, st))
<1>1. Loop(x, st) = Return(st) \/ Loop(x, st) = Push(x, st)
  BY DEF Loop, Push
<1> QED
  BY <1>1, FollowsReturn, FollowsPush

(* The calls of close_with and cleanup. *)
LEMMA FollowsParting ==
    ASSUME NEW ms, NEW st \in Seq(Calls), NEW c \in Conns, NEW js \in Seq(Rooms),
           NEW op \in {"close", "cleanup"}
    PROVE  Follows(ms, st, Parting(op, c, js, st))
<1> DEFINE x == Call("leaveAll", c, Root, js, NoFrame)
           y == Call(op, c, Root, <<c>>, NoFrame)
           p == Push(y, st)
<1>0. NoFrame \in Frames
  BY FrameTypes
<1>1. x \in Calls /\ x.op = "leaveAll"
  BY <1>0, RootAssumption DEF Call, Calls, Ops
<1>2. y \in Calls /\ y.op = op
  BY <1>0, RootAssumption DEF Call, Calls, Ops
<1>3. Parting(op, c, js, st) = Loop(x, p)
  BY DEF Parting, Push
<1> HIDE DEF x, y
<1>4. Inert(ms, x) /\ Inert(ms, y)
  BY <1>1, <1>2 DEF Inert, FrameFits
<1>5. Follows(ms, st, p)
  BY <1>2, <1>4, FollowsSelf, FollowsPush
<1>6. p \in Seq(Calls)
  BY <1>2, PushElements
<1> HIDE DEF p
<1> QED
  BY <1>1, <1>3, <1>4, <1>5, <1>6, FollowsLoop

(* emit_local and try_send of a frame that is inert. *)
LEMMA FollowsEmit ==
    ASSUME NEW ms, NEW b, NEW st \in Seq(Calls), Follows(ms, b, st), NEW mm \in Keys(Conns),
           NEW e, NEW f \in Frames, f.event \in {"new_member", "member_left", "data"},
           f.event = "member_left" => f.ids \cap ToSet(ms[f.room]) = {}
    PROVE  Follows(ms, b, EmitLocal(mm, e, f, st))
<1> DEFINE rest == DeleteKey(mm, e)
           x == Call("emit", None, f.room, rest, f)
<1>1. rest \in Seq(Conns) /\ f.room \in Rooms
  BY DeleteKeyIsMinus DEF Keys, Frames
<1> HIDE DEF rest
<1>2. x \in Calls /\ x.op = "emit" /\ x.frame = f
  BY <1>1 DEF Call, Calls, Ops
<1>3. EmitLocal(mm, e, f, st) = Loop(x, st)
  BY DEF EmitLocal, rest
<1> HIDE DEF x
<1>4. Inert(ms, x)
  BY <1>2 DEF Inert, FrameFits
<1> QED
  BY <1>2, <1>3, <1>4, FollowsLoop

(* So for try_send from a handler. *)
LEMMA FollowsSend ==
    ASSUME NEW ms, NEW c \in Conns, NEW f \in Frames,
           f.event = "data" \/ (f.event = "leave_ack" /\ c \notin ToSet(ms[f.room]))
    PROVE  \A st \in {<< >>, Caught} :
               Follows(ms, << >>, Send(c, f, st)) /\ Send(c, f, st) \in Seq(Calls)
<1> DEFINE x == Call("send", c, f.room, <<c>>, f)
           z == Call("catch", None, Root, << >>, NoFrame)
<1>1. x \in Calls /\ x.op = "send" /\ x.conn = c /\ x.frame = f
  <2>1. f.room \in Rooms
    BY DEF Frames
  <2> QED
    BY <2>1 DEF Call, Calls, Ops
<1>2. z \in Calls /\ z.op = "catch"
  <2>1. NoFrame \in Frames
    BY FrameTypes
  <2> QED
    BY <2>1, RootAssumption DEF Call, Calls, Ops
<1>3. /\ \A st : Send(c, f, st) = Push(x, st)
      /\ Caught = Push(z, << >>) /\ << >> \in Seq(Calls)
  <2>1. Caught = <<z>>
    BY DEF Caught
  <2> HIDE DEF z
  <2>2. Push(z, << >>) = <<z>>
    BY <1>2 DEF Push
  <2> QED
    BY <2>1, <2>2 DEF Send, Push
<1> HIDE DEF x, z
<1>4. Inert(ms, x) /\ Inert(ms, z)
  BY <1>1, <1>2 DEF Inert, FrameFits
<1>5. Follows(ms, << >>, << >>)
  BY FollowsSelf
<1>6. Follows(ms, << >>, Caught) /\ Caught \in Seq(Calls)
  BY <1>2, <1>3, <1>4, <1>5, FollowsPush, PushElements
<1>7. ASSUME NEW st \in Seq(Calls), Follows(ms, << >>, st)
      PROVE  Follows(ms, << >>, Send(c, f, st)) /\ Send(c, f, st) \in Seq(Calls)
  <2>1. Send(c, f, st) = Push(x, st)
    BY <1>3
  <2>2. Push(x, st) \in Seq(Calls)
    BY <1>1, PushElements
  <2>3. Follows(ms, << >>, Push(x, st))
    BY <1>1, <1>4, <1>7, FollowsPush
  <2> QED
    BY <2>1, <2>2, <2>3
<1>8. /\ Follows(ms, << >>, Send(c, f, << >>)) /\ Send(c, f, << >>) \in Seq(Calls)
      /\ Follows(ms, << >>, Send(c, f, Caught)) /\ Send(c, f, Caught) \in Seq(Calls)
  BY <1>3, <1>5, <1>6, <1>7
<1> QED
  BY <1>8

(* The commands of a queue. *)
LEMMA QueueElements ==
    ASSUME NEW q \in Seq(Commands)
    PROVE  ToSet(q) \subseteq Commands
  BY DEF ToSet

(* The calls in progress are calls. *)
LEMMA StackElements ==
    ASSUME HubInv
    PROVE  /\ stack \in Seq(Calls)
           /\ \A x \in ToSet(stack) : x \in Calls /\ Fit(ws, closed, conns, x)
<1>1. StackFits(ws, closed, conns, stack)
  BY DEF HubInv
<1> QED
  BY <1>1 DEF StackFits, Fit, ToSet

(* Calls that go on, members that leave and departures sent to Redis leave  *)
(* the answers and announcements under way in their order.                  *)
LEMMA OrderMoves ==
    ASSUME HubInv, QueueType, RosterInv, Derived(members', stack, stack'),
           \A r \in Rooms : ToSet(members'[r]) \subseteq ToSet(members[r]), ready' = ready,
           pipe' = pipe \/ \E k \in Commands : k.op = "srem" /\ pipe' = Append(pipe, k),
           \A c \in Conns : ws[c] # "none" => ws'[c] # "none"
    PROVE  Known' /\ FramesFit' /\ OrderInv' /\ ToSet(pipe) \subseteq ToSet(pipe')
<1>1. /\ stack \in Seq(Calls) /\ pipe \in Seq(Commands) /\ ready \in Seq(Commands)
      /\ \A x \in ToSet(stack) : x \in Calls /\ Fit(ws, closed, conns, x)
  BY StackElements DEF QueueType
<1>2. ASSUME NEW x \in ToSet(stack'), ~Inert(members', x)
      PROVE  \E z \in ToSet(stack) : Alike(x, z)
  BY <1>2 DEF Derived
<1>3. /\ ToSet(pipe) \subseteq ToSet(pipe')
      /\ \A k \in ToSet(pipe') : k \in ToSet(pipe) \/ k.op = "srem"
  <2>1. ASSUME NEW k \in Commands, k.op = "srem", pipe' = Append(pipe, k)
        PROVE  ToSet(pipe') = ToSet(pipe) \cup {k}
    BY <1>1, <2>1, AppendElements
  <2> QED
    BY <2>1
<1>4. Known'
  <2>0. \A k \in ToSet(pipe') : k.op \in {"sadd", "srem", "smembers"}
    BY <1>3 DEF RosterInv, Known
  <2>1. ASSUME NEW k \in ToSet(pipe') \cup ToSet(ready'), k.op # "srem"
        PROVE  ws'[k.conn] # "none"
    <3>1. k \in ToSet(pipe) \cup ToSet(ready)
      BY <1>3, <2>1
    <3>2. k \in Commands
      BY <1>1, <3>1, QueueElements
    <3>3. k.conn \in Conns
      BY <3>2 DEF Commands
    <3> QED
      BY <2>1, <3>1, <3>3 DEF RosterInv, Known
  <2>2. ASSUME NEW x \in ToSet(stack'), x.op = "resolve" PROVE ws'[x.conn] # "none"
    <3>1. PICK z \in ToSet(stack) : Alike(x, z)
      BY <1>2, <2>2 DEF Inert
    <3>2. z.op = "resolve" /\ z.conn = x.conn
      BY <2>2, <3>1 DEF Alike
    <3>3. z.conn \in Conns /\ ws[z.conn] # "none"
      BY <1>1, <3>2 DEF Fit, RosterInv, Known
    <3> QED
      BY <3>2, <3>3
  <2> QED
    BY <2>0, <2>1, <2>2 DEF Known
<1>5. FramesFit'
  <2>1. ASSUME NEW x \in ToSet(stack') PROVE FrameFits(members', x)
    <3>1. CASE Inert(members', x)
      BY <3>1 DEF Inert
    <3>2. CASE ~Inert(members', x)
      <4>1. PICK z \in ToSet(stack) : Alike(x, z)
        BY <1>2, <3>2
      <4>2. FrameFits(members, z) /\ z \in Calls
        BY <1>1 DEF RosterInv, FramesFit
      <4>3. z.frame.room \in Rooms
        BY <4>2 DEF Calls, Frames
      <4>4. ToSet(members'[z.frame.room]) \subseteq ToSet(members[z.frame.room])
        BY <4>3
      <4>5. FrameFits(members', z)
        BY <4>2, <4>4 DEF FrameFits
      <4> QED
        BY <4>1, <4>5 DEF FrameFits, Alike
    <3> QED
      BY <3>1, <3>2
  <2> QED
    BY <2>1 DEF FramesFit
<1>6. ASSUME NEW r \in Rooms, NEW c, NEW d, Has(pipe, r, c, d) PROVE Has(pipe', r, c, d)
  BY <1>3, <1>6 DEF Has
<1>7. OrderInv'
  <2>1. SUFFICES ASSUME NEW r \in Rooms, NEW c \in Conns, NEW d \in Conns, d \in Members(r)'
                 PROVE  InOrder(r, c, d)'
    BY DEF OrderInv
  <2>2. InOrder(r, c, d)
    BY <2>1 DEF RosterInv, OrderInv, Members
  <2>3. Followed(pipe', r, c, d, FALSE)
    <3>1. CASE pipe' = pipe
      BY <2>2, <3>1 DEF InOrder
    <3>2. ASSUME NEW k \in Commands, k.op = "srem", pipe' = Append(pipe, k)
          PROVE  Followed(pipe', r, c, d, FALSE)
      <4>1. ~Answers(k, r, c) /\ Followed(pipe, r, c, d, FALSE)
        BY <2>2, <3>2 DEF Answers, InOrder
      <4> QED
        BY <1>1, <3>2, <4>1, FollowedAppend
    <3> QED
      BY <3>1, <3>2
  <2>4. Followed(ready', r, c, d, Has(pipe', r, c, d))
    <3>1. Has(pipe, r, c, d) \in BOOLEAN /\ Has(pipe', r, c, d) \in BOOLEAN
      BY DEF Has
    <3>2. Followed(ready, r, c, d, Has(pipe, r, c, d)) /\ ready' = ready
      BY <2>2 DEF InOrder
    <3> QED
      BY <1>6, <3>1, <3>2, FollowedWeaker
  <2>5. ASSUME NEW x \in ToSet(stack'), Omits(x, r, c, d)
        PROVE  Has(ready', r, c, d) \/ Has(pipe', r, c, d)
    <3>1. PICK z \in ToSet(stack) : Alike(x, z)
      BY <1>2, <2>5 DEF Omits, Inert
    <3>2. Omits(z, r, c, d)
      BY <2>5, <3>1 DEF Omits, Alike
    <3>3. Has(ready, r, c, d) \/ Has(pipe, r, c, d)
      BY <2>2, <3>2 DEF InOrder
    <3> QED
      BY <1>6, <3>3
  <2> QED
    BY <2>3, <2>4, <2>5 DEF InOrder
<1> QED
  BY <1>3, <1>4, <1>5, <1>7

(* Nothing a client has to be told is lost by a step that only goes on with *)
(* the calls in progress, takes members out of rooms or closes sockets.     *)
LEMMA RosterMoves ==
    ASSUME HubInv, QueueType, RosterInv, Follows(members', stack, stack'),
           \A r \in Rooms : ToSet(members'[r]) \subseteq ToSet(members[r]), ready' = ready,
           pipe' = pipe \/ \E k \in Commands : k.op = "srem" /\ pipe' = Append(pipe, k),
           \A c \in Conns : ws[c] # "none" => ws'[c] # "none",
           \A c \in Conns : Hears(c)' => Hears(c) /\ roster'[c] = roster[c]
    PROVE  RosterInv'
<1>1. Known' /\ FramesFit' /\ OrderInv' /\ ToSet(pipe) \subseteq ToSet(pipe')
  BY OrderMoves DEF Follows
<1>2. ToldInv'
  <2>1. SUFFICES ASSUME NEW r \in Rooms, NEW c \in Conns, NEW d \in Conns,
                        c \in Members(r)', d \in Members(r)', Hears(c)'
                 PROVE  Told(r, c, d)'
    BY DEF ToldInv
  <2>2. Told(r, c, d) /\ roster'[c] = roster[c]
    BY <2>1 DEF RosterInv, ToldInv, Members
  <2>3. ASSUME NEW x \in ToSet(stack), Tells(x, r, c, d)
        PROVE  \E z \in ToSet(stack') : Tells(z, r, c, d)
    BY <2>3 DEF Follows, KeepsTelling
  <2> QED
    BY <1>1, <2>2, <2>3 DEF Told
<1> QED
  BY <1>1, <1>2 DEF RosterInv

(* One stack follows from another by way of a third. *)
LEMMA FollowsChain ==
    ASSUME NEW ms, NEW b, NEW st, NEW tt, Follows(ms, b, st), Follows(ms, st, tt)
    PROVE  Follows(ms, b, tt)
<1>1. Derived(ms, b, tt)
  BY FollowsOn DEF Follows
<1>2. KeepsTelling(b, tt)
  BY DEF Follows, KeepsTelling
<1> QED
  BY <1>1, <1>2 DEF Follows

(* The stack without its top tells what the top does not. *)
LEMMA FollowsBelow ==
    ASSUME NEW ms, NEW st \in Seq(Calls), st # << >>
    PROVE  /\ Derived(ms, st, Return(Tail(st)))
           /\ \A r, c, d : (\E x \in ToSet(st) : Tells(x, r, c, d)) =>
                 Tells(Head(st), r, c, d) \/ \E x \in ToSet(Return(Tail(st))) : Tells(x, r, c, d)
<1> DEFINE t == Tail(st)
<1>1. ToSet(st) = ToSet(t) \cup {Head(st)}
  BY TailElements
<1> HIDE DEF t
<1>2. Follows(ms, t, Return(t))
  BY FollowsSelf, FollowsReturn
<1>3. Derived(ms, st, t)
  BY <1>1 DEF Derived, Alike
<1>4. Derived(ms, st, Return(t))
  BY <1>2, <1>3, FollowsOn DEF Follows
<1>5. KeepsTelling(t, Return(t))
  BY <1>2 DEF Follows
<1> QED
  BY <1>1, <1>4, <1>5 DEF t, KeepsTelling

(* A loop that moves on tells what it did, but for the client it was at.    *)
LEMMA FollowsRest ==
    ASSUME NEW ms, NEW st \in Seq(Calls), st # << >>, NEW S \in {Conns, Rooms},
           Head(st).op # "send", Head(st).op # "resolve",
           Head(st).rest \in Seq(S), Head(st).rest # << >>
    PROVE  /\ Onwards(st) \in Seq(Calls) /\ Derived(ms, st, Onwards(st))
           /\ \A r, c, d : (\E x \in ToSet(st) : Tells(x, r, c, d)) =>
                 \/ c = Head(Head(st).rest) /\ Tells(Head(st), r, c, d)
                 \/ \E x \in ToSet(Onwards(st)) : Tells(x, r, c, d)
<1> DEFINE x == Head(st)
           t == Tail(st)
           s == x.rest
           y == [x EXCEPT !.rest = Tail(@)]
<1>1. ToSet(st) = ToSet(t) \cup {x} /\ t \in Seq(Calls) /\ x \in Calls
  BY TailElements
<1>2. Tail(s) \in Seq(S) /\ ToSet(s) = ToSet(Tail(s)) \cup {Head(s)}
  BY TailElements
<1>3. /\ y.op = x.op /\ y.conn = x.conn /\ y.room = x.room /\ y.rest = Tail(s) /\ y.frame = x.frame
      /\ y \in Calls
  BY <1>1, <1>2 DEF Calls
<1>4. Onwards(st) = Loop(y, t)
  BY DEF Onwards
<1>5. /\ Derived(ms, st, Return(t))
      /\ \A r, c, d : (\E z \in ToSet(st) : Tells(z, r, c, d)) =>
            Tells(x, r, c, d) \/ \E z \in ToSet(Return(t)) : Tells(z, r, c, d)
  BY FollowsBelow
<1>6. x.op # "send" /\ x.op # "resolve"
  OBVIOUS
<1> HIDE DEF x, t, y, s
<1>7. \A r, c, d : Tells(x, r, c, d) => c = Head(s) \/ Tells(y, r, c, d)
  <2>1. SUFFICES ASSUME NEW r, NEW c, NEW d, Tells(x, r, c, d), c # Head(s)
                 PROVE  Tells(y, r, c, d)
    OBVIOUS
  <2>2. x.op = "emit" /\ c \in ToSet(x.rest)
    BY <1>6, <2>1 DEF Tells
  <2>3. c \in ToSet(y.rest)
    BY <1>2, <1>3, <2>1, <2>2 DEF s
  <2> QED
    BY <1>3, <2>1, <2>2, <2>3 DEF Tells
<1>8. CASE y.rest = << >>
  <2>1. Loop(y, t) = Return(t)
    BY <1>8 DEF Loop
  <2>2. \A r, c, d : ~Tells(y, r, c, d)
    <3>1. ToSet(y.rest) = {}
      BY <1>8 DEF ToSet
    <3> QED
      BY <1>3, <1>6, <3>1 DEF Tells
  <2>3. Return(t) \in Seq(Calls)
    BY <1>1 DEF Return
  <2>4. \A r, c, d : Tells(x, r, c, d) => c = Head(s)
    BY <1>7, <2>2
  <2> QED
    BY <1>4, <1>5, <2>1, <2>3, <2>4 DEF x, s
<1>9. CASE y.rest # << >>
  <2>1. Loop(y, t) = Push(y, t)
    BY <1>9 DEF Loop, Push
  <2>2. ToSet(Push(y, t)) = ToSet(t) \cup {y} /\ Push(y, t) \in Seq(Calls)
    BY <1>1, <1>3, PushSet, PushElements
  <2>3. Alike(y, x)
    BY <1>3 DEF Alike
  <2>4. Derived(ms, st, Push(y, t))
    BY <1>1, <2>2, <2>3 DEF Derived, Alike
  <2>5. \A r, c, d : (\E z \in ToSet(st) : Tells(z, r, c, d)) =>
                 \/ c = Head(s) /\ Tells(x, r, c, d)
                 \/ \E z \in ToSet(Push(y, t)) : Tells(z, r, c, d)
    BY <1>1, <1>7, <2>2
  <2> QED
    BY <1>4, <2>1, <2>2, <2>4, <2>5 DEF x, s
<1> QED
  BY <1>8, <1>9

(* close_with and cleanup: their calls bring no answers, and who is closed  *)
(* hears no more.                                                           *)
LEMMA FollowsClosing ==
    ASSUME HubType, NEW c \in Conns, NEW ms, NEW b, NEW st \in Seq(Calls), Follows(ms, b, st),
           CloseWith(c, st) \/ Cleanup(c, st)
    PROVE  Follows(ms, b, stack') /\ \A e \in Conns : closed[e] => closed'[e]
<1> DEFINE js == joined[c]
<1>1. js \in Seq(Rooms)
  BY DEF HubType, Keys
<1>2. \A op \in {"close", "cleanup"} : Follows(ms, st, Parting(op, c, js, st))
  BY <1>1, FollowsParting
<1>3. \/ stack' = st \/ stack' = Return(st)
      \/ \E op \in {"close", "cleanup"} : stack' = Parting(op, c, js, st)
  BY DEF CloseWith, Cleanup, Parting
<1> HIDE DEF js
<1>4. Follows(ms, b, stack')
  BY <1>2, <1>3, FollowsReturn, FollowsChain
<1>5. closed \in [Conns -> BOOLEAN] /\ (closed' = closed \/ closed' = [closed EXCEPT ![c] = TRUE])
  BY DEF CloseWith, Cleanup, flags, HubType
<1> QED
  BY <1>4, <1>5

-----------------------------------------------------------------------------
(* The steps that only go on, or take members out of rooms *)

(* Calls that go on while no room, queue or roster changes. *)
LEMMA RosterStays ==
    ASSUME HubInv, QueueType, RosterInv, Follows(members, stack, stack'),
           UNCHANGED <<ws, members, ready, pipe, roster, slow>>,
           \A c \in Conns : closed[c] => closed'[c]
    PROVE  RosterInv'
  BY RosterMoves DEF Hears

(* leave_room: the member_left takes nobody from a roster who is a member. *)
LEMMA RosterLeaveRoom ==
    ASSUME HubInv, QueueType, RosterInv, NEW r \in Rooms, NEW c \in Conns, NEW st \in Seq(Calls),
           LeaveRoom(r, c, st), UNCHANGED <<ready, ws, closed, slow, roster>>,
           c \notin ToSet(members'[r]) => Follows(members', stack, st)
    PROVE  RosterInv'
<1>1. HubType
  BY DEF HubInv
<1>2. /\ ToSet(DeleteKey(members[r], c)) = ToSet(members[r]) \ {c}
      /\ DeleteKey(members[r], c) \in Keys(Conns)
  BY <1>1, DeleteKeyIsMinus DEF HubType
<1>3. /\ c \notin ToSet(members'[r]) /\ members' \in [Rooms -> Keys(Conns)]
      /\ \A s \in Rooms : ToSet(members'[s]) \subseteq ToSet(members[s])
  <2>1. CASE members[r] = << >>
    BY <1>1, <2>1 DEF LeaveRoom, HubType, ToSet
  <2>2. CASE members[r] # << >>
    BY <1>1, <1>2, <2>2 DEF LeaveRoom, HubType
  <2> QED
    BY <2>1, <2>2
<1>4. Follows(members', stack, st)
  BY <1>3
<1>5. Follows(members', stack, stack')
  <2>1. CASE members[r] = << >>
    BY <1>4, <2>1 DEF LeaveRoom
  <2>2. CASE members[r] # << >>
    <3> DEFINE f == Frame("member_left", r, {c})
               mm == members'[r]
    <3>1. f \in Frames /\ f.event = "member_left" /\ f.ids = {c} /\ f.room = r
      BY DEF Frame, Frames, FrameEvents
    <3>2. stack' = EmitLocal(mm, c, f, st) /\ mm \in Keys(Conns)
      BY <1>3, <2>2 DEF LeaveRoom
    <3> HIDE DEF f
    <3>3. f.ids \cap ToSet(members'[f.room]) = {}
      BY <1>3, <3>1
    <3> HIDE DEF mm
    <3> QED
      BY <1>4, <3>1, <3>2, <3>3, FollowsEmit
  <2> QED
    BY <2>1, <2>2
<1>6. pipe' = pipe \/ \E k \in Commands : k.op = "srem" /\ pipe' = Append(pipe, k)
  <2>1. /\ Command("srem", r, c, {}, FALSE) \in Commands
        /\ Command("srem", r, c, {}, FALSE).op = "srem"
    BY DEF Command, Commands
  <2> QED
    BY <2>1 DEF LeaveRoom
<1> QED
  BY <1>3, <1>5, <1>6, RosterMoves DEF Hears

(* leave_all_rooms' next room. *)
LEMMA RosterLeaveNext ==
    ASSUME HubInv, QueueType, RosterInv, LeaveNext
    PROVE  RosterInv'
<1> DEFINE x == Head(stack)
           r == Head(x.rest)
           c == x.conn
<1>1. /\ stack \in Seq(Calls) /\ stack # << >> /\ x.op = "leaveAll" /\ LeaveRoom(r, c, Rest)
      /\ UNCHANGED <<ready, ws, closed, slow, roster>>
  BY StackElements DEF LeaveNext, Top, flags, counts
<1>2. Fit(ws, closed, conns, x)
  BY <1>1, PopPush, StackElements
<1>3. x.rest \in Seq(Rooms) /\ x.rest # << >> /\ c \in Conns
  BY <1>1, <1>2 DEF Fit
<1>4. r \in Rooms
  BY <1>3
<1>5. Rest \in Seq(Calls) /\ Follows(members', stack, Rest)
  <2>1. Rest = Onwards(stack)
    BY DEF Rest, Onwards
  <2>2. \A q, e, d : ~Tells(x, q, e, d)
    BY <1>1 DEF Tells
  <2>3. /\ Onwards(stack) \in Seq(Calls) /\ Derived(members', stack, Onwards(stack))
        /\ \A q, e, d : (\E z \in ToSet(stack) : Tells(z, q, e, d)) =>
                 \/ e = Head(x.rest) /\ Tells(x, q, e, d)
                 \/ \E z \in ToSet(Onwards(stack)) : Tells(z, q, e, d)
    BY <1>1, <1>3, FollowsRest
  <2> QED
    BY <2>1, <2>2, <2>3 DEF Follows, KeepsTelling
<1> HIDE DEF x, r, c
<1> QED
  BY <1>1, <1>3, <1>4, <1>5, RosterLeaveRoom

(* leave_room from dispatch: the leave_ack is for one who is no member now. *)
LEMMA RosterLeave ==
    ASSUME HubInv, QueueType, RosterInv, NEW c \in Conns, NEW r \in Rooms, Leave(c, r)
    PROVE  RosterInv'
<1> DEFINE f == Frame("leave_ack", r, {c})
           st == Send(c, f, Caught)
<1>1. LeaveRoom(r, c, st) /\ UNCHANGED <<ready, ws, closed, slow, roster>> /\ stack = << >>
  BY DEF Leave, Receives, Input, Event, Idle, flags
<1>2. f \in Frames /\ f.event = "leave_ack" /\ f.room = r
  BY DEF Frame, Frames, FrameEvents
<1> HIDE DEF f
<1>3. ASSUME c \notin ToSet(members'[r]) PROVE Follows(members', << >>, st) /\ st \in Seq(Calls)
  BY <1>2, <1>3, FollowsSend
<1>4. st \in Seq(Calls)
  BY <1>2, SafeSend DEF SafeStack
<1> HIDE DEF st
<1> QED
  BY <1>1, <1>3, <1>4, RosterLeaveRoom

(* remove_conn and ws.close: the client of a socket that closes forgets. *)
LEMMA RosterCloseSocket ==
    ASSUME HubInv, QueueType, RosterType, RosterInv, CloseSocket
    PROVE  RosterInv'
<1> DEFINE x == Head(stack)
           c == x.conn
<1>1. /\ stack \in Seq(Calls) /\ stack # << >> /\ x.op \in {"close", "cleanup"}
      /\ UNCHANGED <<closed, members, ready, pipe, slow>> /\ stack' = Return(Tail(stack))
      /\ HubType
  BY StackElements DEF CloseSocket, Top, counts, Below, HubInv
<1>2. Follows(members, stack, Return(Tail(stack)))
  <2>1. \A q, e, d : ~Tells(x, q, e, d)
    BY <1>1 DEF Tells
  <2> QED
    BY <1>1, <2>1, FollowsBelow DEF Follows, KeepsTelling
<1>3. \/ UNCHANGED <<ws, roster>>
      \/ /\ ws[c] = "open" /\ ws' = [ws EXCEPT ![c] = "closing"]
         /\ roster' = [roster EXCEPT ![c] = [r \in Rooms |-> {}]]
  BY DEF CloseSocket, Forget
<1> HIDE DEF x, c
<1>4. \A e \in Conns : ws[e] # "none" => ws'[e] # "none"
  BY <1>1, <1>3 DEF HubType
<1>5. \A e \in Conns : Hears(e)' => Hears(e) /\ roster'[e] = roster[e]
  <2>1. CASE UNCHANGED <<ws, roster>>
    BY <1>1, <2>1 DEF Hears
  <2>2. CASE /\ ws' = [ws EXCEPT ![c] = "closing"]
             /\ roster' = [roster EXCEPT ![c] = [r \in Rooms |-> {}]]
    <3>1. ASSUME NEW e \in Conns, Hears(e)' PROVE Hears(e) /\ roster'[e] = roster[e]
      <4>1. ws'[e] = "open" /\ ws \in [Conns -> {"none", "open", "closing", "ending", "closed"}]
        BY <1>1, <3>1 DEF Hears, HubType
      <4>2. e # c
        BY <2>2, <4>1
      <4> QED
        BY <1>1, <2>2, <3>1, <4>1, <4>2 DEF Hears, RosterType
    <3> QED
      BY <3>1
  <2> QED
    BY <1>3, <2>1, <2>2
<1> QED
  BY <1>1, <1>2, <1>4, <1>5, RosterMoves

(* ping_timer's next connection. *)
LEMMA RosterHeartbeatNext ==
    ASSUME HubInv, QueueType, RosterInv, HeartbeatNext
    PROVE  RosterInv'
<1> DEFINE x == Head(stack)
           c == Head(x.rest)
<1>1. /\ stack \in Seq(Calls) /\ stack # << >> /\ x.op = "timer" /\ HubType
      /\ UNCHANGED <<ws, members, ready, pipe, roster, slow>>
      /\ (stack' = Rest /\ UNCHANGED closed) \/ CloseWith(c, Rest)
  BY StackElements DEF HeartbeatNext, Top, hubVars, counts, flags, HubInv
<1>2. Fit(ws, closed, conns, x)
  BY <1>1, PopPush, StackElements
<1>3. x.rest \in Seq(Conns) /\ x.rest # << >>
  BY <1>1, <1>2 DEF Fit
<1>4. c \in Conns
  BY <1>3
<1>5. Rest \in Seq(Calls) /\ Follows(members, stack, Rest)
  <2>1. Rest = Onwards(stack)
    BY DEF Rest, Onwards
  <2>2. \A q, e, d : ~Tells(x, q, e, d)
    BY <1>1 DEF Tells
  <2>3. /\ Onwards(stack) \in Seq(Calls) /\ Derived(members, stack, Onwards(stack))
        /\ \A q, e, d : (\E z \in ToSet(stack) : Tells(z, q, e, d)) =>
                 \/ e = Head(x.rest) /\ Tells(x, q, e, d)
                 \/ \E z \in ToSet(Onwards(stack)) : Tells(z, q, e, d)
    BY <1>1, <1>3, FollowsRest
  <2> QED
    BY <2>1, <2>2, <2>3 DEF Follows, KeepsTelling
<1> HIDE DEF x, c
<1>6. Follows(members, stack, stack') /\ \A e \in Conns : closed[e] => closed'[e]
  BY <1>1, <1>4, <1>5, FollowsClosing
<1> QED
  BY <1>1, <1>6, RosterStays

(* shutdown's next connection. *)
LEMMA RosterShutdownNext ==
    ASSUME HubInv, QueueType, RosterInv, ShutdownNext
    PROVE  RosterInv'
<1> DEFINE x == Head(stack)
           c == Head(x.rest)
           y == [x EXCEPT !.rest = Tail(@)]
<1>1. /\ stack \in Seq(Calls) /\ stack # << >> /\ x.op = "shutdown" /\ x.rest # << >> /\ HubType
      /\ UNCHANGED <<ws, members, ready, pipe, roster, slow>>
      /\ (stack' = <<y>> /\ UNCHANGED closed) \/ CloseWith(c, <<y>>)
  BY StackElements DEF ShutdownNext, Top, hubVars, counts, flags, HubInv
<1>2. Fit(ws, closed, conns, x) /\ x \in Calls
  BY <1>1, PopPush, StackElements
<1>3. x.rest \in Seq(Conns)
  BY <1>1, <1>2 DEF Fit
<1>4. c \in Conns /\ Tail(x.rest) \in Seq(Conns)
  BY <1>1, <1>3
<1>5. ToSet(stack) = {x}
  <2>1. Tail(stack) = << >>
    BY <1>1, PopFits DEF HubInv
  <2>2. ToSet(stack) = ToSet(Tail(stack)) \cup {x}
    BY <1>1, PopPush
  <2> QED
    BY <2>1, <2>2 DEF ToSet
<1>6. y \in Calls /\ y.op = "shutdown"
  BY <1>1, <1>2, <1>4 DEF Calls
<1> HIDE DEF x, c, y
<1>7. <<y>> \in Seq(Calls) /\ ToSet(<<y>>) = {y}
  BY <1>6 DEF ToSet
<1>8. Follows(members, stack, <<y>>)
  <2>1. Inert(members, y)
    BY <1>6 DEF Inert, FrameFits
  <2>2. \A q, e, d : ~Tells(x, q, e, d)
    BY <1>1 DEF Tells
  <2> QED
    BY <1>5, <1>7, <2>1, <2>2 DEF Follows, Derived, KeepsTelling
<1>9. Follows(members, stack, stack') /\ \A e \in Conns : closed[e] => closed'[e]
  BY <1>1, <1>4, <1>7, <1>8, FollowsClosing
<1> QED
  BY <1>1, <1>9, RosterStays

(* The stacks on which handlers begin. *)
LEMMA FollowsBottom ==
    ASSUME NEW ms
    PROVE  /\ << >> \in Seq(Calls) /\ Caught \in Seq(Calls)
           /\ Follows(ms, << >>, << >>) /\ Follows(ms, << >>, Caught)
<1> DEFINE x == Call("catch", None, Root, << >>, NoFrame)
<1>1. x \in Calls /\ x.op = "catch"
  <2>1. NoFrame \in Frames
    BY FrameTypes
  <2> QED
    BY <2>1, RootAssumption DEF Call, Calls, Ops
<1>2. Caught = <<x>>
  BY DEF Caught
<1> HIDE DEF x
<1>3. <<x>> \in Seq(Calls) /\ ToSet(<<x>>) = {x}
  BY <1>1 DEF ToSet
<1>4. Inert(ms, x)
  BY <1>1 DEF Inert, FrameFits
<1>5. ToSet(<< >>) = {}
  BY DEF ToSet
<1>6. Follows(ms, << >>, <<x>>)
  BY <1>3, <1>4, <1>5 DEF Follows, Derived, KeepsTelling
<1> QED
  BY <1>2, <1>3, <1>6, FollowsSelf

(* disconnect, and a frame that is too long or cannot be decoded. *)
LEMMA RosterKick ==
    ASSUME HubInv, QueueType, RosterInv, NEW c \in Conns,
           Malformed(c) \/ \E d \in Conns : Kick(c, d)
    PROVE  RosterInv'
<1>1. /\ UNCHANGED <<ws, members, ready, pipe, roster, slow>> /\ stack = << >> /\ HubType
  BY DEF Malformed, Kick, Receives, Input, Event, Idle, hubVars, HubInv
<1>2. PICK d \in Conns, st \in {Caught, << >>} : CloseWith(d, st)
  BY DEF Malformed, Kick
<1>3. st \in Seq(Calls) /\ Follows(members, stack, st)
  BY <1>1, <1>2, FollowsBottom
<1>4. Follows(members, stack, stack') /\ \A e \in Conns : closed[e] => closed'[e]
  BY <1>1, <1>2, <1>3, FollowsClosing
<1> QED
  BY <1>1, <1>4, RosterStays

(* Messages for a room or for one connection. *)
LEMMA RosterMessage ==
    ASSUME HubInv, QueueType, RosterInv,
           \/ \E c \in Conns, r \in Rooms : Broadcast(c, r)
           \/ \E c, d \in Conns : Direct(c, d)
           \/ \E d \in Conns : Unicast(d)
           \/ \E r \in Rooms : Incoming(r)
    PROVE  RosterInv'
<1>1. UNCHANGED <<ws, closed, members, ready, pipe, roster, slow>> /\ stack = << >> /\ HubType
  BY DEF Broadcast, Direct, Unicast, Incoming, Receives, Input, Event, Idle, flags,
         hubVars, HubInv
<1>2. \A r \in Rooms : Frame("data", r, {}) \in Frames /\ Frame("data", r, {}).event = "data"
  BY DEF Frame, Frames, FrameEvents
<1>3. ASSUME NEW r \in Rooms, NEW e, NEW st \in {<< >>, Caught},
             stack' = EmitLocal(members[r], e, Frame("data", r, {}), st)
      PROVE  Follows(members, stack, stack')
  <2> DEFINE f == Frame("data", r, {})
             mm == members[r]
  <2>1. f \in Frames /\ f.event = "data"
    BY <1>2
  <2> HIDE DEF f
  <2>2. st \in Seq(Calls) /\ Follows(members, << >>, st) /\ mm \in Keys(Conns)
    BY <1>1, FollowsBottom DEF HubType
  <2> HIDE DEF mm
  <2>3. Follows(members, << >>, EmitLocal(mm, e, f, st))
    BY <2>1, <2>2, FollowsEmit
  <2> QED
    BY <1>1, <1>3, <2>3 DEF f, mm
<1>4. ASSUME NEW c \in Conns, NEW d \in Conns, Direct(c, d) \/ Unicast(d)
      PROVE  Follows(members, stack, stack')
  <2> DEFINE f == Frame("data", Root, {})
  <2>1. (\E st \in {<< >>, Caught} : stack' = Send(d, f, st)) /\ f \in Frames
        /\ f.event = "data"
    BY <1>2, <1>4, RootAssumption DEF Direct, Unicast
  <2> HIDE DEF f
  <2> QED
    BY <1>1, <2>1, FollowsSend
<1>5. ASSUME NEW c \in Conns, NEW r \in Rooms, Broadcast(c, r)
      PROVE  Follows(members, stack, stack')
  BY <1>3, <1>5 DEF Broadcast
<1>6. ASSUME NEW r \in Rooms, Incoming(r)
      PROVE  Follows(members, stack, stack')
  BY <1>3, <1>6 DEF Incoming
<1>7. Follows(members, stack, stack')
  BY <1>4, <1>5, <1>6
<1> QED
  BY <1>1, <1>7, RosterStays

(* A socket that ends, and its close and error events. *)
LEMMA RosterSocketEnds ==
    ASSUME HubInv, QueueType, RosterType, RosterInv, NEW c \in Conns,
           PeerCloses(c) \/ CloseEvent(c) \/ ErrorEvent(c) \/ Refuse(c)
    PROVE  RosterInv'
<1>1. HubType /\ stack = << >> /\ UNCHANGED <<members, ready, pipe, slow>>
  BY DEF PeerCloses, CloseEvent, ErrorEvent, Refuse, Input, Event, Idle, hubVars, counts, loop,
         HubInv
<1>2. Follows(members, stack, stack') /\ \A e \in Conns : closed[e] => closed'[e]
  <2>1. CASE PeerCloses(c) \/ Refuse(c)
    BY <1>1, <2>1, FollowsBottom DEF PeerCloses, Refuse, flags, loop
  <2>2. CASE CloseEvent(c) \/ ErrorEvent(c)
    <3>1. Cleanup(c, << >>)
      BY <2>2 DEF CloseEvent, ErrorEvent
    <3> QED
      BY <1>1, <3>1, FollowsBottom, FollowsClosing
  <2> QED
    BY <2>1, <2>2
<1>3. \E v \in {"ending", "closed"} : ws' = [ws EXCEPT ![c] = v]
  BY DEF PeerCloses, CloseEvent, ErrorEvent, Refuse
<1>4. roster' = roster \/ Forget(c)
  BY DEF PeerCloses, CloseEvent, ErrorEvent, Refuse
<1>5. \A e \in Conns : ws[e] # "none" => ws'[e] # "none"
  BY <1>1, <1>3 DEF HubType
<1>6. ASSUME NEW e \in Conns, Hears(e)' PROVE Hears(e) /\ roster'[e] = roster[e]
  <2>1. ws'[e] = "open" /\ e # c /\ ws[e] = "open"
    BY <1>1, <1>3, <1>6 DEF HubType, Hears
  <2>2. ~closed[e] /\ e \notin slow
    BY <1>1, <1>2, <1>6 DEF Hears
  <2>3. roster'[e] = roster[e]
    BY <1>4, <2>1 DEF Forget, RosterType
  <2> QED
    BY <2>1, <2>2, <2>3 DEF Hears
<1> QED
  BY <1>1, <1>2, <1>5, <1>6, RosterMoves

(* ping_timer and shutdown begin, a pong comes, or nothing does. *)
LEMMA RosterElsewhere ==
    ASSUME HubInv, QueueType, RosterInv,
           Timer \/ Shutdown \/ Wait \/ UNCHANGED vars \/ \E c \in Conns : Pong(c)
    PROVE  RosterInv'
<1>1. UNCHANGED <<ws, closed, members, ready, pipe, roster, slow>>
  BY DEF Timer, Shutdown, Wait, Pong, vars, flags, hubVars, loop, counts
<1>2. Follows(members, stack, stack')
  <2>1. CASE stack' = stack
    BY <2>1, FollowsSelf
  <2>2. CASE Timer \/ Shutdown
    <3>1. PICK x : stack' = <<x>> /\ x.op \in {"timer", "shutdown"}
      BY <2>2 DEF Timer, Shutdown, Call
    <3>2. stack = << >>
      BY <2>2 DEF Timer, Shutdown, Event, Idle
    <3>3. Inert(members, x) /\ ToSet(<<x>>) = {x} /\ ToSet(<< >>) = {}
      BY <3>1 DEF Inert, FrameFits, ToSet
    <3> QED
      BY <3>1, <3>2, <3>3 DEF Follows, Derived, KeepsTelling
  <2> QED
    BY <2>1, <2>2 DEF Wait, Pong, vars, loop
<1> QED
  BY <1>1, <1>2, RosterStays

-----------------------------------------------------------------------------
(* Frames that arrive *)

(* try_send: what a client is told by a frame it reads, and all it was to   *)
(* be told by what the frame replaces, it knows or will be told.            *)
LEMMA RosterTrySend ==
    ASSUME HubInv, QueueType, RosterType, RosterInv,
           NEW c \in Conns, NEW f \in Frames, NEW st \in Seq(Calls), TrySend(c, f, st),
           UNCHANGED <<ws, members, ready, pipe>>, Derived(members, stack, st),
           \A q, e, d : (\E z \in ToSet(stack) : Tells(z, q, e, d)) =>
              \/ e = c /\ q = f.room /\ d \in f.ids /\ f.event \in {"new_member", "join_ack"}
              \/ \E z \in ToSet(st) : Tells(z, q, e, d),
           f.event = "member_left" => f.ids \cap ToSet(members[f.room]) = {},
           f.event = "leave_ack" => c \notin ToSet(members[f.room]),
           f.event = "join_ack" => \A d \in ToSet(members[f.room]) :
              d \in f.ids \/ Has(ready, f.room, c, d) \/ Has(pipe, f.room, c, d)
    PROVE  RosterInv'
<1> DEFINE r == f.room
<1>0. r \in Rooms /\ HubType
  BY DEF Frames, HubInv
<1> HIDE DEF r
<1>1. /\ Derived(members', stack, stack') /\ KeepsTelling(st, stack')
      /\ \A e \in Conns : closed[e] => closed'[e]
  <2>1. CASE stack' = st /\ UNCHANGED flags
    <3>1. KeepsTelling(st, st)
      BY DEF KeepsTelling
    <3> QED
      BY <2>1, <3>1 DEF flags
  <2>2. CASE CloseWith(c, st)
    <3>1. Follows(members, st, st)
      BY FollowsSelf
    <3>2. Follows(members, st, stack') /\ \A e \in Conns : closed[e] => closed'[e]
      BY <1>0, <2>2, <3>1, FollowsClosing
    <3> QED
      BY <3>2, FollowsOn DEF Follows
  <2> QED
    BY <2>1, <2>2 DEF TrySend
<1>2. Known' /\ FramesFit' /\ OrderInv'
  BY <1>1, OrderMoves
<1>3. \/ roster' = roster /\ \A e \in Conns : Hears(e)' => Hears(e) /\ e # c
      \/ Read(c, f) /\ Hears(c) /\ \A e \in Conns : Hears(e)' => Hears(e)
      \/ Read(c, f) /\ \A e \in Conns : Hears(e)' => Hears(e) /\ e # c
  BY <1>1 DEF TrySend, Hears
<1>4. ToldInv'
  <2>1. SUFFICES ASSUME NEW q \in Rooms, NEW e \in Conns, NEW d \in Conns,
                        e \in Members(q), d \in Members(q), Hears(e)'
                 PROVE  Told(q, e, d)'
    BY DEF ToldInv, Members
  <2>2. Hears(e)
    BY <1>3, <2>1
  <2>3. Told(q, e, d)
    BY <2>1, <2>2 DEF RosterInv, ToldInv
  <2>4. CASE \E k \in ToSet(pipe) \cup ToSet(ready) : Will(k, q, e, d)
    BY <2>4 DEF Told
  <2>5. ASSUME NEW z \in ToSet(st), Tells(z, q, e, d)
        PROVE  Told(q, e, d)'
    BY <1>1, <2>5 DEF KeepsTelling, Told
  <2>6. ASSUME e # c \/ q # r, d \in roster[e][q]
        PROVE  d \in roster'[e][q]
    BY <1>3, <2>6 DEF Read, RosterType, r
  <2>7. CASE e # c \/ q # r
    <3>1. ~(e = c /\ q = f.room)
      BY <2>7 DEF r
    <3> QED
      BY <2>3, <2>4, <2>5, <2>6, <2>7, <3>1 DEF Told
  <2>8. CASE e = c /\ q = r
    <3>1. Read(c, f)
      BY <1>3, <2>1, <2>8
    <3> DEFINE old == roster[c][r]
    <3>2. roster'[c][r] = CASE f.event = "join_ack"    -> f.ids
              [] f.event = "new_member"  -> old \cup f.ids
              [] f.event = "member_left" -> old \ f.ids
              [] f.event = "leave_ack"   -> {}
              [] OTHER                   -> old
      BY <1>0, <3>1 DEF Read, RosterType, r
    <3> HIDE DEF old
    <3>3. f.event # "leave_ack"
      BY <2>1, <2>8 DEF r, Members
    <3>4. CASE f.event = "join_ack"
      <4>1. CASE d \in f.ids
        BY <2>8, <3>2, <3>4, <4>1 DEF Told
      <4>2. CASE Has(ready, q, e, d) \/ Has(pipe, q, e, d)
        BY <4>2 DEF Told, Has, Will
      <4> QED
        BY <2>1, <2>8, <3>4, <4>1, <4>2 DEF r, Members
    <3>5. CASE f.event # "join_ack"
      <4>1. d \in old => d \in roster'[c][r]
        <5>1. f.event = "member_left" => d \notin f.ids
          BY <2>1, <2>8 DEF r, Members
        <5> QED
          BY <3>2, <3>3, <3>5, <5>1
      <4>2. d \in f.ids /\ f.event = "new_member" => d \in roster'[c][r]
        BY <3>2
      <4> QED
        BY <2>3, <2>4, <2>5, <2>8, <3>5, <4>1, <4>2 DEF Told, old, r
    <3> QED
      BY <3>4, <3>5
  <2> QED
    BY <2>7, <2>8
<1> QED
  BY <1>2, <1>4 DEF RosterInv

(* The frame of a call fits. *)
LEMMA TopFits ==
    ASSUME HubInv, RosterInv, stack # << >>
    PROVE  /\ stack \in Seq(Calls) /\ Head(stack) \in Calls /\ Head(stack).frame \in Frames
           /\ Head(stack) \in ToSet(stack) /\ FrameFits(members, Head(stack))
           /\ Fit(ws, closed, conns, Head(stack))
<1>1. stack \in Seq(Calls)
  BY StackElements
<1>2. Head(stack) \in ToSet(stack) /\ Head(stack) \in Calls
  BY <1>1, PopPush
<1>3. FrameFits(members, Head(stack)) /\ Fit(ws, closed, conns, Head(stack))
  BY <1>2, StackElements DEF RosterInv, FramesFit
<1> QED
  BY <1>1, <1>2, <1>3 DEF Calls

(* emit_local's next member. *)
LEMMA RosterEmitNext ==
    ASSUME HubInv, QueueType, RosterType, RosterInv, EmitNext
    PROVE  RosterInv'
<1> DEFINE x == Head(stack)
           f == x.frame
           c == Head(x.rest)
<1>1. /\ stack # << >> /\ x.op = "emit" /\ TrySend(c, f, Rest)
      /\ UNCHANGED <<ws, members, ready, pipe>>
  BY DEF EmitNext, Top, hubVars
<1>2. /\ stack \in Seq(Calls) /\ f \in Frames /\ FrameFits(members, x)
      /\ Fit(ws, closed, conns, x)
  BY <1>1, TopFits
<1>3. x.rest \in Seq(Conns) /\ x.rest # << >> /\ Rest = Onwards(stack)
  BY <1>1, <1>2 DEF Fit, Rest, Onwards
<1>4. c \in Conns
  BY <1>3
<1>5. /\ Rest \in Seq(Calls) /\ Derived(members, stack, Rest)
      /\ \A q, e, d : (\E z \in ToSet(stack) : Tells(z, q, e, d)) =>
            (e = c /\ Tells(x, q, e, d)) \/ \E z \in ToSet(Rest) : Tells(z, q, e, d)
  BY <1>1, <1>2, <1>3, FollowsRest
<1> HIDE DEF c
<1>6. \A q, e, d : (\E z \in ToSet(stack) : Tells(z, q, e, d)) =>
         \/ e = c /\ q = f.room /\ d \in f.ids /\ f.event \in {"new_member", "join_ack"}
         \/ \E z \in ToSet(Rest) : Tells(z, q, e, d)
  <2>1. \A q, e, d : Tells(x, q, e, d) => q = f.room /\ d \in f.ids /\ f.event = "new_member"
    BY <1>1 DEF Tells
  <2> QED
    BY <1>5, <2>1
<1>7. /\ f.event = "member_left" => f.ids \cap ToSet(members[f.room]) = {}
      /\ f.event # "leave_ack" /\ f.event # "join_ack"
  BY <1>1, <1>2 DEF FrameFits
<1> HIDE DEF x, f
<1> QED
  BY <1>1, <1>2, <1>4, <1>5, <1>6, <1>7, RosterTrySend

(* try_send, called outside a loop: an answer that does not name a member   *)
(* comes before the member's announcement.                                  *)
LEMMA RosterSendNext ==
    ASSUME HubInv, QueueType, RosterType, RosterInv, SendNext
    PROVE  RosterInv'
<1> DEFINE x == Head(stack)
           f == x.frame
           c == x.conn
<1>1. /\ stack # << >> /\ x.op = "send" /\ TrySend(c, f, Below)
      /\ UNCHANGED <<ws, members, ready, pipe>> /\ Below = Return(Tail(stack))
  BY DEF SendNext, Top, hubVars, Below
<1>2. /\ stack \in Seq(Calls) /\ f \in Frames /\ FrameFits(members, x) /\ x \in ToSet(stack)
      /\ Fit(ws, closed, conns, x)
  BY <1>1, TopFits
<1>3. c \in Conns /\ f.room \in Rooms /\ HubType
  BY <1>1, <1>2 DEF Fit, Frames, HubInv
<1>4. /\ Below \in Seq(Calls) /\ Derived(members, stack, Below)
      /\ \A q, e, d : (\E z \in ToSet(stack) : Tells(z, q, e, d)) =>
            Tells(x, q, e, d) \/ \E z \in ToSet(Below) : Tells(z, q, e, d)
  <2> DEFINE t == Return(Tail(stack))
  <2>1. t \in Seq(Calls)
    BY <1>1, <1>2 DEF Return
  <2>2. /\ Derived(members, stack, t)
        /\ \A q, e, d : (\E z \in ToSet(stack) : Tells(z, q, e, d)) =>
              Tells(x, q, e, d) \/ \E z \in ToSet(t) : Tells(z, q, e, d)
    BY <1>1, <1>2, FollowsBelow
  <2> HIDE DEF t, x
  <2> QED
    BY <1>1, <2>1, <2>2 DEF t
<1>5. \A q, e, d : (\E z \in ToSet(stack) : Tells(z, q, e, d)) =>
         \/ e = c /\ q = f.room /\ d \in f.ids /\ f.event \in {"new_member", "join_ack"}
         \/ \E z \in ToSet(Below) : Tells(z, q, e, d)
  <2>1. \A q, e, d : Tells(x, q, e, d) =>
           e = c /\ q = f.room /\ d \in f.ids /\ f.event = "join_ack"
    BY <1>1 DEF Tells
  <2> QED
    BY <1>4, <2>1
<1>6. /\ f.event = "member_left" => f.ids \cap ToSet(members[f.room]) = {}
      /\ f.event = "leave_ack" => c \notin ToSet(members[f.room])
  BY <1>1, <1>2 DEF FrameFits
<1>7. ASSUME f.event = "join_ack", NEW d \in ToSet(members[f.room])
      PROVE  d \in f.ids \/ Has(ready, f.room, c, d) \/ Has(pipe, f.room, c, d)
  <2>1. d \in Conns
    BY <1>3 DEF HubType, Keys, ToSet
  <2>2. InOrder(f.room, c, d)
    BY <1>3, <1>7, <2>1 DEF RosterInv, OrderInv, Members
  <2>3. d \notin f.ids => Omits(x, f.room, c, d)
    BY <1>1, <1>7 DEF Omits
  <2> QED
    BY <1>2, <2>2, <2>3 DEF InOrder
<1> HIDE DEF x, f, c
<1> QED
  BY <1>1, <1>2, <1>3, <1>4, <1>5, <1>6, <1>7, RosterTrySend

-----------------------------------------------------------------------------
(* Queues and joins *)

(* More in a queue can only announce more. *)
LEMMA HasMore ==
    ASSUME NEW q, NEW t, ToSet(q) \subseteq ToSet(t), NEW r, NEW c, NEW d
    PROVE  /\ Has(q, r, c, d) \in BOOLEAN /\ Has(t, r, c, d) \in BOOLEAN
           /\ Has(q, r, c, d) => Has(t, r, c, d)
  BY DEF Has

(* join_room's promise resolves. *)
LEMMA RosterResolve ==
    ASSUME HubInv, QueueType, RosterType, RosterInv, Resolve
    PROVE  RosterInv'
<1> DEFINE x == Head(stack)
           k == Command("list", x.room, x.conn, {}, TRUE)
<1>1. /\ stack # << >> /\ x.op = "resolve" /\ ready' = Append(ready, k)
      /\ stack' = Return(Tail(stack))
      /\ UNCHANGED <<ws, closed, members, pipe, roster, slow>>
  BY DEF Resolve, Top, Below, flags, hubVars, counts
<1>2. /\ stack \in Seq(Calls) /\ x \in Calls /\ x \in ToSet(stack) /\ ready \in Seq(Commands)
      /\ Fit(ws, closed, conns, x)
  BY <1>1, TopFits DEF QueueType
<1>3. x.conn \in Conns /\ x.room \in Rooms /\ ws[x.conn] # "none"
  BY <1>1, <1>2 DEF Fit, Calls, RosterInv, Known
<1>4. k \in Commands /\ k.op = "list" /\ k.room = x.room /\ k.conn = x.conn
  BY <1>3 DEF Command, Commands
<1>5. ToSet(ready') = ToSet(ready) \cup {k}
  BY <1>1, <1>2, <1>4, AppendElements
<1>6. /\ Derived(members, stack, stack')
      /\ \A q, e, d : (\E z \in ToSet(stack) : Tells(z, q, e, d)) =>
            Tells(x, q, e, d) \/ \E z \in ToSet(stack') : Tells(z, q, e, d)
  BY <1>1, <1>2, FollowsBelow
<1> HIDE DEF x, k
<1>7. ASSUME NEW z \in ToSet(stack'), ~Inert(members, z) PROVE \E y \in ToSet(stack) : Alike(z, y)
  BY <1>6, <1>7 DEF Derived
<1>8. Known'
  <2>1. ASSUME NEW z \in ToSet(stack'), z.op = "resolve" PROVE ws[z.conn] # "none"
    <3>1. PICK y \in ToSet(stack) : Alike(z, y)
      BY <1>7, <2>1 DEF Inert
    <3> QED
      BY <2>1, <3>1 DEF Alike, RosterInv, Known
  <2> QED
    BY <1>1, <1>3, <1>4, <1>5, <2>1 DEF RosterInv, Known
<1>9. FramesFit'
  <2>1. ASSUME NEW z \in ToSet(stack') PROVE FrameFits(members, z)
    <3>1. CASE Inert(members, z)
      BY <3>1 DEF Inert
    <3>2. CASE ~Inert(members, z)
      <4>1. PICK y \in ToSet(stack) : Alike(z, y)
        BY <1>7, <3>2
      <4> QED
        BY <4>1 DEF FrameFits, Alike, RosterInv, FramesFit
    <3> QED
      BY <3>1, <3>2
  <2> QED
    BY <1>1, <2>1 DEF FramesFit
<1>10. OrderInv'
  <2>1. SUFFICES ASSUME NEW r \in Rooms, NEW c \in Conns, NEW d \in Conns, d \in Members(r)'
                 PROVE  InOrder(r, c, d)'
    BY DEF OrderInv
  <2>2. InOrder(r, c, d)
    BY <1>1, <2>1 DEF RosterInv, OrderInv, Members
  <2>3. Followed(ready', r, c, d, Has(pipe, r, c, d))
    <3>1. ~Answers(k, r, c) /\ Has(pipe, r, c, d) \in BOOLEAN
      BY <1>4 DEF Answers, Has
    <3> QED
      BY <1>1, <1>2, <1>4, <2>2, <3>1, FollowedAppend DEF InOrder
  <2>4. ASSUME NEW z \in ToSet(stack'), Omits(z, r, c, d)
        PROVE  Has(ready', r, c, d) \/ Has(pipe, r, c, d)
    <3>1. PICK y \in ToSet(stack) : Alike(z, y)
      BY <1>7, <2>4 DEF Omits, Inert
    <3>2. Omits(y, r, c, d)
      BY <2>4, <3>1 DEF Omits, Alike
    <3>3. Has(ready, r, c, d) \/ Has(pipe, r, c, d)
      BY <2>2, <3>2 DEF InOrder
    <3> QED
      BY <1>5, <3>3, HasMore
  <2> QED
    BY <1>1, <2>2, <2>3, <2>4 DEF InOrder
<1>11. ToldInv'
  <2>1. SUFFICES ASSUME NEW r \in Rooms, NEW c \in Conns, NEW d \in Conns,
                        c \in Members(r)', d \in Members(r)', Hears(c)'
                 PROVE  Told(r, c, d)'
    BY DEF ToldInv
  <2>2. Told(r, c, d)
    BY <1>1, <2>1 DEF RosterInv, ToldInv, Members, Hears
  <2>3. Tells(x, r, c, d) => Will(k, r, c, d)
    BY <1>1, <1>4 DEF Tells, Will, Asks
  <2> QED
    BY <1>1, <1>5, <1>6, <2>2, <2>3 DEF Told
<1> QED
  BY <1>8, <1>9, <1>10, <1>11 DEF RosterInv

(* The first command is answered, or fails: what waits for it takes its     *)
(* place.                                                                   *)
LEMMA RosterAnswered ==
    ASSUME HubInv, QueueType, RosterType, RosterInv, Answered \/ Failed
    PROVE  RosterInv'
<1> DEFINE k == Head(pipe)
<1>1. /\ stack = << >> /\ stack' = << >> /\ pipe # << >> /\ pipe' = Tail(pipe)
      /\ UNCHANGED <<ws, closed, members, roster, slow>>
      /\ pipe \in Seq(Commands) /\ ready \in Seq(Commands)
      /\ presence \in [Rooms -> SUBSET Conns]
  BY DEF Answered, Failed, flags, hubVars, counts, QueueType
<1>2. /\ k \in Commands /\ ToSet(pipe) = ToSet(pipe') \cup {k} /\ pipe' \in Seq(Commands)
  BY <1>1, TailElements
<1>3. k.op \in {"sadd", "srem", "smembers"}
  BY <1>2 DEF RosterInv, Known
<1>4. PICK ids \in SUBSET Conns : ready' = Continue(k, ids)
  <2>1. presence[k.room] \in SUBSET Conns
    BY <1>1, <1>2 DEF Commands
  <2> QED
    BY <2>1 DEF Answered, Failed, GetPresence
<1> HIDE DEF k
<1>5. ASSUME NEW r, NEW c, NEW d
      PROVE  Has(pipe, r, c, d) => Has(pipe', r, c, d) \/ Again(k, r, c, d)
  BY <1>2 DEF Has
<1>6. ToSet(<< >>) = {}
  BY DEF ToSet
<1>7. ASSUME NEW l \in Commands, ready' = Append(ready, l), l.room = k.room, l.conn = k.conn,
             k.op # "srem",
             \A r, c, d : Again(k, r, c, d) => Again(l, r, c, d),
             \A r, c, d : Will(k, r, c, d) => Will(l, r, c, d),
             \A r, c, d : Answers(l, r, c) /\ d \notin l.ids => Answers(k, r, c) /\ d \notin k.ids
      PROVE  RosterInv'
  <2>1. ToSet(ready') = ToSet(ready) \cup {l}
    BY <1>1, <1>7, AppendElements
  <2>2. Known'
    <3>1. ws[l.conn] # "none"
      BY <1>2, <1>7 DEF RosterInv, Known
    <3> QED
      BY <1>1, <1>2, <1>6, <2>1, <3>1 DEF RosterInv, Known
  <2>3. OrderInv'
    <3>1. SUFFICES ASSUME NEW r \in Rooms, NEW c \in Conns, NEW d \in Conns, d \in Members(r)'
                   PROVE  InOrder(r, c, d)'
      BY DEF OrderInv
    <3>2. InOrder(r, c, d)
      BY <1>1, <3>1 DEF RosterInv, OrderInv, Members
    <3> DEFINE h == Has(pipe, r, c, d)
               g == Has(pipe', r, c, d)
    <3>3. h \in BOOLEAN /\ g \in BOOLEAN
      BY DEF Has
    <3>4. /\ Followed(pipe', r, c, d, FALSE)
          /\ Answers(k, r, c) /\ d \notin k.ids => g
      BY <1>1, <3>2, FollowedTail DEF InOrder, k
    <3>5. h => g \/ Again(k, r, c, d)
      BY <1>5
    <3>6. Followed(ready, r, c, d, h)
      BY <3>2 DEF InOrder
    <3>7. Followed(ready', r, c, d, g)
      <4> HIDE DEF h, g
      <4>1. CASE Again(k, r, c, d)
        BY <1>1, <1>7, <3>3, <4>1, FollowedAppend
      <4>2. CASE ~Again(k, r, c, d)
        <5>1. Followed(ready, r, c, d, g)
          BY <3>3, <3>5, <3>6, <4>2, FollowedWeaker
        <5>2. Answers(l, r, c) /\ d \notin l.ids => g
          BY <1>7, <3>4
        <5> QED
          BY <1>1, <1>7, <3>3, <5>1, <5>2, FollowedAppend
      <4> QED
        BY <4>1, <4>2
    <3> QED
      BY <1>1, <1>6, <3>4, <3>7 DEF InOrder
  <2>4. ToldInv'
    <3>1. SUFFICES ASSUME NEW r \in Rooms, NEW c \in Conns, NEW d \in Conns,
                          c \in Members(r)', d \in Members(r)', Hears(c)'
                   PROVE  Told(r, c, d)'
      BY DEF ToldInv
    <3>2. Told(r, c, d)
      BY <1>1, <3>1 DEF RosterInv, ToldInv, Members, Hears
    <3> QED
      BY <1>1, <1>2, <1>6, <1>7, <2>1, <3>2 DEF Told
  <2>5. FramesFit'
    BY <1>1, <1>6 DEF FramesFit
  <2> QED
    BY <2>2, <2>3, <2>4, <2>5 DEF RosterInv
<1>8. CASE k.op = "sadd"
  <2> DEFINE l == [k EXCEPT !.op = "announce"]
  <2>1. /\ l \in Commands /\ l.op = "announce" /\ l.room = k.room /\ l.conn = k.conn
        /\ l.ack = k.ack
    BY <1>2 DEF Commands
  <2>2. ready' = Append(ready, l)
    BY <1>4, <1>8 DEF Continue
  <2> HIDE DEF l
  <2>3. \A r, c, d : Again(k, r, c, d) => Again(l, r, c, d)
    BY <1>8, <2>1 DEF Again
  <2>4. \A r, c, d : Will(k, r, c, d) => Will(l, r, c, d)
    BY <1>8, <2>1, <2>3 DEF Will, Asks, Answers
  <2>5. \A r, c : ~Answers(l, r, c)
    BY <2>1 DEF Answers
  <2> QED
    BY <1>7, <1>8, <2>1, <2>2, <2>3, <2>4, <2>5
<1>9. CASE k.op = "smembers"
  <2> DEFINE l == [k EXCEPT !.op = "ack", !.ids = @ \cup ids]
  <2>1. /\ l \in Commands /\ l.op = "ack" /\ l.room = k.room /\ l.conn = k.conn
        /\ l.ids = k.ids \cup ids
    BY <1>2 DEF Commands
  <2>2. ready' = Append(ready, l)
    BY <1>4, <1>9 DEF Continue
  <2> HIDE DEF l
  <2>3. \A r, c, d : ~Again(k, r, c, d)
    BY <1>9 DEF Again
  <2>4. \A r, c, d : Will(k, r, c, d) => Will(l, r, c, d)
    BY <1>9, <2>1, <2>3 DEF Will, Asks, Answers
  <2>5. \A r, c, d : Answers(l, r, c) /\ d \notin l.ids => Answers(k, r, c) /\ d \notin k.ids
    BY <1>9, <2>1 DEF Answers
  <2> QED
    BY <1>7, <1>9, <2>1, <2>2, <2>3, <2>4, <2>5
<1>10. CASE k.op = "srem"
  <2>1. ready' = ready
    BY <1>4, <1>10 DEF Continue
  <2>2. \A r, c, d : ~Again(k, r, c, d) /\ ~Will(k, r, c, d)
    BY <1>10 DEF Will, Asks, Answers, Again
  <2>3. Known' /\ FramesFit'
    BY <1>1, <1>2, <1>6, <2>1 DEF RosterInv, Known, FramesFit
  <2>4. OrderInv'
    <3>1. SUFFICES ASSUME NEW r \in Rooms, NEW c \in Conns, NEW d \in Conns, d \in Members(r)'
                   PROVE  InOrder(r, c, d)'
      BY DEF OrderInv
    <3>2. InOrder(r, c, d)
      BY <1>1, <3>1 DEF RosterInv, OrderInv, Members
    <3>3. Has(pipe, r, c, d) \in BOOLEAN /\ Has(pipe', r, c, d) \in BOOLEAN
      BY DEF Has
    <3>4. Followed(pipe', r, c, d, FALSE)
      BY <1>1, <3>2, FollowedTail DEF InOrder
    <3>5. Has(pipe, r, c, d) => Has(pipe', r, c, d)
      BY <1>5, <2>2
    <3>6. Followed(ready, r, c, d, Has(pipe, r, c, d))
      BY <3>2 DEF InOrder
    <3>7. Followed(ready', r, c, d, Has(pipe', r, c, d))
      BY <2>1, <3>3, <3>5, <3>6, FollowedWeaker
    <3> QED
      BY <1>1, <1>6, <3>4, <3>7 DEF InOrder
  <2>5. ToldInv'
    <3>1. SUFFICES ASSUME NEW r \in Rooms, NEW c \in Conns, NEW d \in Conns,
                          c \in Members(r)', d \in Members(r)', Hears(c)'
                   PROVE  Told(r, c, d)'
      BY DEF ToldInv
    <3>2. Told(r, c, d)
      BY <1>1, <3>1 DEF RosterInv, ToldInv, Members, Hears
    <3> QED
      BY <1>1, <1>2, <1>6, <2>1, <2>2, <3>2 DEF Told
  <2> QED
    BY <2>3, <2>4, <2>5 DEF RosterInv
<1> QED
  BY <1>3, <1>8, <1>9, <1>10

(* The first continuation runs. *)
LEMMA FirstReady ==
    ASSUME HubInv, QueueType, RosterInv, NEW op, Continuation(op)
    PROVE  /\ stack = << >> /\ ready # << >> /\ ready \in Seq(Commands) /\ pipe \in Seq(Commands)
           /\ Head(ready).op = op /\ Head(ready) \in Commands /\ HubType
           /\ ToSet(ready) = ToSet(Tail(ready)) \cup {Head(ready)} /\ ToSet(<< >>) = {}
           /\ \A z \in ToSet(ready) : z.op # "srem" => ws[z.conn] # "none"
           /\ \A r \in Rooms, c \in Conns, d \in Conns : d \in Members(r) =>
                 /\ Followed(pipe, r, c, d, FALSE)
                 /\ Followed(Tail(ready), r, c, d, Has(pipe, r, c, d))
                 /\ Answers(Head(ready), r, c) /\ d \notin Head(ready).ids =>
                       Has(pipe, r, c, d) \/ Has(Tail(ready), r, c, d)
<1>1. /\ stack = << >> /\ ready # << >> /\ ready \in Seq(Commands) /\ pipe \in Seq(Commands)
      /\ Head(ready).op = op /\ HubType
  BY DEF Continuation, QueueType, HubInv
<1>2. Head(ready) \in Commands /\ ToSet(ready) = ToSet(Tail(ready)) \cup {Head(ready)}
  BY <1>1, TailElements
<1>3. \A z \in ToSet(ready) : z.op # "srem" => ws[z.conn] # "none"
  BY DEF RosterInv, Known
<1>4. ASSUME NEW r \in Rooms, NEW c \in Conns, NEW d \in Conns, d \in Members(r)
      PROVE  /\ Followed(pipe, r, c, d, FALSE)
             /\ Followed(Tail(ready), r, c, d, Has(pipe, r, c, d))
             /\ Answers(Head(ready), r, c) /\ d \notin Head(ready).ids =>
                   Has(pipe, r, c, d) \/ Has(Tail(ready), r, c, d)
  <2>1. Followed(pipe, r, c, d, FALSE) /\ Followed(ready, r, c, d, Has(pipe, r, c, d))
    BY <1>4 DEF RosterInv, OrderInv, InOrder
  <2>2. Has(pipe, r, c, d) \in BOOLEAN
    BY DEF Has
  <2> QED
    BY <1>1, <2>1, <2>2, FollowedTail
<1>5. ToSet(<< >>) = {}
  BY DEF ToSet
<1> QED
  BY <1>1, <1>2, <1>3, <1>4, <1>5

(* get_cluster_presence asks the adapter, and names who is in the room now. *)
LEMMA RosterList ==
    ASSUME HubInv, QueueType, RosterType, RosterInv, List
    PROVE  RosterInv'
<1> DEFINE k == Head(ready)
           ms == Members(k.room)
           l == Command("smembers", k.room, k.conn, ms, TRUE)
           t == Tail(ready)
<1>1. /\ stack = << >> /\ ready # << >> /\ ready \in Seq(Commands) /\ pipe \in Seq(Commands)
      /\ k.op = "list" /\ k \in Commands /\ HubType
      /\ ToSet(ready) = ToSet(t) \cup {k} /\ ToSet(<< >>) = {}
      /\ \A z \in ToSet(ready) : z.op # "srem" => ws[z.conn] # "none"
      /\ \A r \in Rooms, c \in Conns, d \in Conns : d \in Members(r) =>
            Followed(pipe, r, c, d, FALSE) /\ Followed(t, r, c, d, Has(pipe, r, c, d))
  BY FirstReady DEF List
<1>2. /\ ready' = t /\ pipe' = Append(pipe, l) /\ stack' = stack
      /\ UNCHANGED <<ws, closed, members, roster, slow>>
  BY DEF List, flags, hubVars, counts
<1>3. k.room \in Rooms /\ k.conn \in Conns /\ ms \subseteq Conns
  BY <1>1 DEF Commands, HubType, Members, Keys, ToSet
<1> HIDE DEF k, t
<1>a. ms = Members(k.room)
  OBVIOUS
<1> HIDE DEF ms
<1>4. /\ l \in Commands /\ l.op = "smembers" /\ l.room = k.room /\ l.conn = k.conn
      /\ l.ids = ms
  BY <1>3 DEF Command, Commands
<1> HIDE DEF l
<1>5. ToSet(pipe') = ToSet(pipe) \cup {l}
  BY <1>1, <1>2, <1>4, AppendElements
<1>6. Known' /\ FramesFit'
  <2>1. ws[l.conn] # "none"
    BY <1>1, <1>4
  <2> QED
    BY <1>1, <1>2, <1>4, <1>5, <2>1 DEF RosterInv, Known, FramesFit
<1>7. OrderInv'
  <2>1. SUFFICES ASSUME NEW r \in Rooms, NEW c \in Conns, NEW d \in Conns, d \in Members(r)'
                 PROVE  InOrder(r, c, d)'
    BY DEF OrderInv
  <2>2. d \in Members(r)
    BY <1>2, <2>1 DEF Members
  <2>3. Followed(pipe, r, c, d, FALSE) /\ Followed(t, r, c, d, Has(pipe, r, c, d))
    BY <1>1, <2>2
  <2>4. Answers(l, r, c) /\ d \notin l.ids => FALSE
    BY <1>a, <1>4, <2>2 DEF Answers
  <2>5. Followed(pipe', r, c, d, FALSE)
    BY <1>1, <1>2, <1>4, <2>3, <2>4, FollowedAppend
  <2>6. Followed(ready', r, c, d, Has(pipe', r, c, d))
    <3>1. /\ Has(pipe, r, c, d) \in BOOLEAN /\ Has(pipe', r, c, d) \in BOOLEAN
          /\ Has(pipe, r, c, d) => Has(pipe', r, c, d)
      BY <1>5, HasMore
    <3> QED
      BY <1>2, <2>3, <3>1, FollowedWeaker
  <2> QED
    BY <1>1, <1>2, <2>5, <2>6 DEF InOrder
<1>8. ToldInv'
  <2>1. SUFFICES ASSUME NEW r \in Rooms, NEW c \in Conns, NEW d \in Conns,
                        c \in Members(r)', d \in Members(r)', Hears(c)'
                 PROVE  Told(r, c, d)'
    BY DEF ToldInv
  <2>2. Told(r, c, d) /\ d \in Members(r)
    BY <1>2, <2>1 DEF RosterInv, ToldInv, Members, Hears
  <2>3. Will(k, r, c, d) => Will(l, r, c, d)
    BY <1>a, <1>1, <1>4, <2>2 DEF Will, Asks, Again, Answers
  <2> QED
    BY <1>1, <1>2, <1>5, <2>2, <2>3 DEF Told
<1> QED
  BY <1>6, <1>7, <1>8 DEF RosterInv

(* join_ack: whom it does not name is announced later. *)
LEMMA RosterAcknowledge ==
    ASSUME HubInv, QueueType, RosterType, RosterInv, Acknowledge
    PROVE  RosterInv'
<1> DEFINE k == Head(ready)
           t == Tail(ready)
           f == Frame("join_ack", k.room, k.ids)
           x == Call("send", k.conn, f.room, <<k.conn>>, f)
<1>1. /\ stack = << >> /\ ready # << >> /\ ready \in Seq(Commands) /\ pipe \in Seq(Commands)
      /\ k.op = "ack" /\ k \in Commands /\ HubType
      /\ ToSet(ready) = ToSet(t) \cup {k} /\ ToSet(<< >>) = {}
      /\ \A z \in ToSet(ready) : z.op # "srem" => ws[z.conn] # "none"
      /\ \A r \in Rooms, c \in Conns, d \in Conns : d \in Members(r) =>
            /\ Followed(pipe, r, c, d, FALSE) /\ Followed(t, r, c, d, Has(pipe, r, c, d))
            /\ Answers(k, r, c) /\ d \notin k.ids => Has(pipe, r, c, d) \/ Has(t, r, c, d)
  BY FirstReady DEF Acknowledge
<1>2. /\ ready' = t /\ pipe' = pipe /\ stack' = Push(x, Caught)
      /\ UNCHANGED <<ws, closed, members, roster, slow>>
  BY DEF Acknowledge, Send, Push, flags, hubVars, counts
<1>3. k.room \in Rooms /\ k.conn \in Conns /\ k.ids \subseteq Conns
  BY <1>1 DEF Commands
<1> HIDE DEF k, t
<1>4. f \in Frames /\ f.event = "join_ack" /\ f.room = k.room /\ f.ids = k.ids
  BY <1>3 DEF Frame, Frames, FrameEvents
<1> HIDE DEF f
<1>5. x \in Calls /\ x.op = "send" /\ x.conn = k.conn /\ x.frame = f
  BY <1>3, <1>4 DEF Call, Calls, Ops
<1> HIDE DEF x
<1>6. ToSet(stack') = ToSet(Caught) \cup {x} /\ \A z \in ToSet(Caught) : Inert(members, z)
  <2>1. Caught \in Seq(Calls) /\ Follows(members, << >>, Caught)
    BY FollowsBottom
  <2> QED
    BY <1>1, <1>2, <1>5, <2>1, PushSet DEF Follows, Derived
<1>7. Known'
  <2>1. \A z \in ToSet(stack') : z.op # "resolve"
    BY <1>5, <1>6 DEF Inert
  <2> QED
    BY <1>1, <1>2, <2>1 DEF RosterInv, Known
<1>8. FramesFit'
  <2>1. FrameFits(members, x)
    BY <1>4, <1>5 DEF FrameFits
  <2> QED
    BY <1>2, <1>6, <2>1 DEF FramesFit, Inert
<1>9. OrderInv'
  <2>1. SUFFICES ASSUME NEW r \in Rooms, NEW c \in Conns, NEW d \in Conns, d \in Members(r)'
                 PROVE  InOrder(r, c, d)'
    BY DEF OrderInv
  <2>2. d \in Members(r)
    BY <1>2, <2>1 DEF Members
  <2>3. /\ Followed(pipe, r, c, d, FALSE) /\ Followed(t, r, c, d, Has(pipe, r, c, d))
        /\ Answers(k, r, c) /\ d \notin k.ids => Has(pipe, r, c, d) \/ Has(t, r, c, d)
    BY <1>1, <2>2
  <2>4. ASSUME NEW z \in ToSet(stack'), Omits(z, r, c, d)
        PROVE  Has(t, r, c, d) \/ Has(pipe, r, c, d)
    <3>1. z = x
      BY <1>6, <2>4 DEF Omits, Inert
    <3>2. Answers(k, r, c) /\ d \notin k.ids
      BY <1>1, <1>4, <1>5, <2>4, <3>1 DEF Omits, Answers
    <3> QED
      BY <2>3, <3>2
  <2> QED
    BY <1>2, <2>3, <2>4 DEF InOrder
<1>10. ToldInv'
  <2>1. SUFFICES ASSUME NEW r \in Rooms, NEW c \in Conns, NEW d \in Conns,
                        c \in Members(r)', d \in Members(r)', Hears(c)'
                 PROVE  Told(r, c, d)'
    BY DEF ToldInv
  <2>2. Told(r, c, d)
    BY <1>2, <2>1 DEF RosterInv, ToldInv, Members, Hears
  <2>3. Will(k, r, c, d) => Tells(x, r, c, d)
    BY <1>1, <1>4, <1>5 DEF Will, Asks, Again, Answers, Tells
  <2> QED
    BY <1>1, <1>2, <1>6, <2>2, <2>3 DEF Told
<1> QED
  BY <1>7, <1>8, <1>9, <1>10 DEF RosterInv

(* join_room after its await: everyone who is in the room is sent the       *)
(* new_member, and c itself will get its answer.                            *)
LEMMA RosterAnnounce ==
    ASSUME HubInv, QueueType, RosterType, RosterInv, Announce
    PROVE  RosterInv'
<1> DEFINE k == Head(ready)
           t == Tail(ready)
           f == Frame("new_member", k.room, {k.conn})
           rest == DeleteKey(members[k.room], k.conn)
           x == Call("emit", None, f.room, rest, f)
           y == Call("resolve", k.conn, k.room, << >>, NoFrame)
           st == IF k.ack THEN Push(y, Caught) ELSE << >>
<1>1. /\ stack = << >> /\ ready # << >> /\ ready \in Seq(Commands) /\ pipe \in Seq(Commands)
      /\ k.op = "announce" /\ k \in Commands /\ HubType
      /\ ToSet(ready) = ToSet(t) \cup {k} /\ ToSet(<< >>) = {}
      /\ \A z \in ToSet(ready) : z.op # "srem" => ws[z.conn] # "none"
      /\ \A r \in Rooms, c \in Conns, d \in Conns : d \in Members(r) =>
            Followed(pipe, r, c, d, FALSE) /\ Followed(t, r, c, d, Has(pipe, r, c, d))
  BY FirstReady DEF Announce
<1>2. /\ ready' = t /\ pipe' = pipe /\ stack' = Loop(x, st)
      /\ UNCHANGED <<ws, closed, members, roster, slow>>
  BY DEF Announce, EmitLocal, Push, flags, hubVars, counts
<1>3. k.room \in Rooms /\ k.conn \in Conns /\ k.ack \in BOOLEAN
  BY <1>1 DEF Commands
<1>a. members[k.room] \in Keys(Conns)
  BY <1>1, <1>3 DEF HubType
<1>b. rest \in Seq(Conns) /\ ToSet(rest) = ToSet(members[k.room]) \ {k.conn}
  BY <1>a, DeleteKeyIsMinus DEF Keys
<1> HIDE DEF k, t, rest
<1>4. f \in Frames /\ f.event = "new_member" /\ f.room = k.room /\ f.ids = {k.conn}
  BY <1>3 DEF Frame, Frames, FrameEvents
<1> HIDE DEF f
<1>5. x \in Calls /\ x.op = "emit" /\ x.rest = rest /\ x.frame = f
  BY <1>3, <1>4, <1>b DEF Call, Calls, Ops
<1>6. y \in Calls /\ y.op = "resolve" /\ y.conn = k.conn /\ y.room = k.room
  <2>1. NoFrame \in Frames
    BY FrameTypes
  <2> QED
    BY <1>3, <2>1 DEF Call, Calls, Ops
<1> HIDE DEF x, y
<1>7. /\ \A z \in ToSet(stack') : Inert(members, z) \/ (z = y /\ k.ack)
      /\ rest # << >> => x \in ToSet(stack')
      /\ k.ack => y \in ToSet(stack')
  <2>1. Caught \in Seq(Calls) /\ << >> \in Seq(Calls) /\ \A z \in ToSet(Caught) : Inert(members, z)
    BY <1>1, FollowsBottom DEF Follows, Derived
  <2>2. ToSet(Push(y, Caught)) = ToSet(Caught) \cup {y} /\ Push(y, Caught) \in Seq(Calls)
    BY <1>6, <2>1, PushSet, PushElements
  <2>3. st \in Seq(Calls) /\ \A z \in ToSet(st) : Inert(members, z) \/ (z = y /\ k.ack)
    BY <1>1, <2>1, <2>2
  <2>4. k.ack => y \in ToSet(st)
    BY <2>2
  <2>5. Inert(members, x)
    BY <1>4, <1>5 DEF Inert, FrameFits
  <2>6. Return(st) = st
    <3>1. ~k.ack => Return(st) = st
      BY DEF Return
    <3>2. k.ack => y \in ToSet(st) /\ ~Inert(members, y)
      BY <1>6, <2>4 DEF Inert
    <3>3. k.ack => st # Caught
      BY <2>1, <3>2
    <3> QED
      BY <3>1, <3>3 DEF Return
  <2> HIDE DEF st
  <2>7. CASE rest = << >>
    <3>1. stack' = st
      BY <1>2, <1>5, <2>6, <2>7 DEF Loop
    <3> QED
      BY <2>3, <2>4, <2>7, <3>1
  <2>8. CASE rest # << >>
    <3>1. stack' = Push(x, st)
      BY <1>2, <1>5, <2>8 DEF Loop, Push
    <3>2. ToSet(Push(x, st)) = ToSet(st) \cup {x}
      BY <1>5, <2>3, PushSet
    <3> QED
      BY <2>3, <2>4, <2>5, <3>1, <3>2
  <2> QED
    BY <2>7, <2>8
<1> HIDE DEF st
<1>8. Known'
  <2>1. ws[k.conn] # "none"
    BY <1>1
  <2>2. \A z \in ToSet(stack') : z.op = "resolve" => ws[z.conn] # "none"
    BY <1>6, <1>7, <2>1 DEF Inert
  <2> QED
    BY <1>1, <1>2, <2>2 DEF RosterInv, Known
<1>9. FramesFit'
  <2>1. FrameFits(members, y)
    BY <1>6 DEF FrameFits
  <2> QED
    BY <1>2, <1>7, <2>1 DEF FramesFit, Inert
<1>10. OrderInv'
  <2>1. SUFFICES ASSUME NEW r \in Rooms, NEW c \in Conns, NEW d \in Conns, d \in Members(r)'
                 PROVE  InOrder(r, c, d)'
    BY DEF OrderInv
  <2>2. Followed(pipe, r, c, d, FALSE) /\ Followed(t, r, c, d, Has(pipe, r, c, d))
    BY <1>1, <1>2, <2>1 DEF Members
  <2>3. \A z \in ToSet(stack') : ~Omits(z, r, c, d)
    BY <1>6, <1>7 DEF Omits, Inert
  <2> QED
    BY <1>2, <2>2, <2>3 DEF InOrder
<1>11. ToldInv'
  <2>1. SUFFICES ASSUME NEW r \in Rooms, NEW c \in Conns, NEW d \in Conns,
                        c \in Members(r)', d \in Members(r)', Hears(c)'
                 PROVE  Told(r, c, d)'
    BY DEF ToldInv
  <2>2. Told(r, c, d) /\ c \in Members(r)
    BY <1>2, <2>1 DEF RosterInv, ToldInv, Members, Hears
  <2>3. ASSUME Will(k, r, c, d)
        PROVE  \E z \in ToSet(stack') : Tells(z, r, c, d)
    <3>1. CASE k.ack /\ k.conn = c /\ k.room = r
      <4>1. Tells(y, r, c, d)
        BY <1>6, <3>1 DEF Tells
      <4> QED
        BY <1>7, <3>1, <4>1
    <3>2. CASE k.room = r /\ k.conn = d /\ d # c
      <4>1. c \in ToSet(rest)
        BY <1>b, <2>2, <3>2 DEF Members
      <4>2. Tells(x, r, c, d)
        BY <1>4, <1>5, <3>2, <4>1 DEF Tells
      <4>3. rest # << >>
        BY <1>1, <4>1
      <4> QED
        BY <1>7, <4>2, <4>3
    <3> QED
      BY <1>1, <2>3, <3>1, <3>2 DEF Will, Asks, Again, Answers
  <2> QED
    BY <1>1, <1>2, <2>2, <2>3 DEF Told
<1> QED
  BY <1>8, <1>9, <1>10, <1>11 DEF RosterInv

(* A queue without answers for c. *)
LEMMA FollowedNone ==
    ASSUME NEW q \in Seq(Commands), NEW r, NEW c, NEW d, NEW e \in BOOLEAN,
           \A k \in ToSet(q) : ~Answers(k, r, c)
    PROVE  Followed(q, r, c, d, e)
  BY DEF Followed, ToSet

(* join_room, from dispatch: the join will be announced, and answered.      *)
LEMMA RosterJoin ==
    ASSUME HubInv, QueueType, RosterType, RosterInv, NEW a \in Conns, NEW s \in Rooms, Join(a, s)
    PROVE  RosterInv'
<1> DEFINE k == Command("sadd", s, a, {}, TRUE)
<1>1. /\ stack = << >> /\ stack' = << >> /\ ready = << >> /\ ready' = << >>
      /\ pipe' = Append(pipe, k) /\ JoinRoom(s, a) /\ ws[a] # "none"
      /\ UNCHANGED <<ws, closed, roster, slow>> /\ HubType /\ pipe \in Seq(Commands)
  BY DEF Join, Receives, Input, Event, Idle, loop, flags, HubInv, QueueType
<1>2. /\ k \in Commands /\ k.op = "sadd" /\ k.room = s /\ k.conn = a /\ k.ack
  BY DEF Command, Commands
<1> HIDE DEF k
<1>3. ToSet(pipe') = ToSet(pipe) \cup {k} /\ ToSet(<< >>) = {}
  <2>1. ToSet(pipe') = ToSet(pipe) \cup {k}
    BY <1>1, <1>2, AppendElements
  <2> QED
    BY <2>1 DEF ToSet
<1>4. \A r \in Rooms, d \in Conns :
         d \in ToSet(members'[r]) => d \in ToSet(members[r]) \/ (d = a /\ r = s)
  <2>1. members[s] \in Keys(Conns)
    BY <1>1 DEF HubType
  <2>2. ToSet(AddKey(members[s], a)) = ToSet(members[s]) \cup {a}
    BY <2>1, AddKeyIsUnion
  <2> QED
    BY <1>1, <2>2 DEF JoinRoom, HubType
<1>5. Known' /\ FramesFit'
  BY <1>1, <1>2, <1>3 DEF RosterInv, Known, FramesFit
<1>6. OrderInv'
  <2>1. SUFFICES ASSUME NEW r \in Rooms, NEW c \in Conns, NEW d \in Conns, d \in Members(r)'
                 PROVE  InOrder(r, c, d)'
    BY DEF OrderInv
  <2>2. Followed(ready', r, c, d, Has(pipe', r, c, d))
    BY <1>1 DEF Followed
  <2>3. Followed(pipe', r, c, d, FALSE)
    <3>1. CASE d \in ToSet(members[r])
      <4>1. Followed(pipe, r, c, d, FALSE)
        BY <3>1 DEF RosterInv, OrderInv, InOrder, Members
      <4>2. ~Answers(k, r, c)
        BY <1>2 DEF Answers
      <4> QED
        BY <1>1, <1>2, <4>1, <4>2, FollowedAppend
    <3>2. CASE d = a /\ r = s
      <4>1. Again(k, r, c, d)
        BY <1>2, <3>2 DEF Again
      <4> QED
        BY <1>1, <1>2, <4>1, FollowedAppend
    <3> QED
      BY <1>4, <2>1, <3>1, <3>2 DEF Members
  <2> QED
    BY <1>1, <1>3, <2>2, <2>3 DEF InOrder
<1>7. ToldInv'
  <2>1. SUFFICES ASSUME NEW r \in Rooms, NEW c \in Conns, NEW d \in Conns,
                        c \in Members(r)', d \in Members(r)', Hears(c)'
                 PROVE  Told(r, c, d)'
    BY DEF ToldInv
  <2>2. CASE c \in Members(r) /\ d \in Members(r)
    <3>1. Told(r, c, d)
      BY <1>1, <2>1, <2>2 DEF RosterInv, ToldInv, Hears
    <3> QED
      BY <1>1, <1>3, <3>1 DEF Told
  <2>3. CASE r = s /\ (c = a \/ d = a)
    <3>1. Will(k, r, c, d)
      BY <1>2, <2>3 DEF Will, Asks, Again
    <3> QED
      BY <1>3, <3>1 DEF Told
  <2> QED
    BY <1>4, <2>1, <2>2, <2>3 DEF Members
<1> QED
  BY <1>5, <1>6, <1>7 DEF RosterInv

(* The connection handler: its smembers goes out behind its sadd, with who  *)
(* is in the room; those who come later will be announced.                  *)
LEMMA RosterConnect ==
    ASSUME HubInv, QueueType, RosterType, RosterInv, NEW a \in Conns, Connect(a)
    PROVE  RosterInv'
<1> DEFINE ids == ToSet(members'[Root])
           k == Command("sadd", Root, a, {}, FALSE)
           l == Command("smembers", Root, a, ids, TRUE)
           q == Append(pipe, k)
<1>1. /\ stack = << >> /\ stack' = << >> /\ ready = << >> /\ ready' = << >>
      /\ pipe' = pipe \o <<k, l>> /\ JoinRoom(Root, a) /\ ws[a] = "none"
      /\ ws' = [ws EXCEPT ![a] = "open"]
      /\ UNCHANGED <<closed, roster, slow>> /\ HubType /\ pipe \in Seq(Commands)
  BY DEF Connect, Idle, loop, flags, counts, HubInv, QueueType
<1>2. /\ \A r \in Rooms, d \in Conns :
            d \in ToSet(members'[r]) => d \in ToSet(members[r]) \/ (d = a /\ r = Root)
      /\ ids \subseteq Conns
  <2>1. members[Root] \in Keys(Conns)
    BY <1>1, RootAssumption DEF HubType
  <2>2. ToSet(AddKey(members[Root], a)) = ToSet(members[Root]) \cup {a}
    BY <2>1, AddKeyIsUnion
  <2>3. members' = [members EXCEPT ![Root] = AddKey(members[Root], a)]
    BY <1>1 DEF JoinRoom
  <2>4. ToSet(members[Root]) \subseteq Conns
    BY <2>1 DEF Keys, ToSet
  <2> QED
    BY <1>1, <2>2, <2>3, <2>4, RootAssumption DEF HubType
<1>a. ids = ToSet(members'[Root])
  OBVIOUS
<1> HIDE DEF ids
<1>3. /\ k \in Commands /\ k.op = "sadd" /\ k.room = Root /\ k.conn = a
      /\ l \in Commands /\ l.op = "smembers" /\ l.room = Root /\ l.conn = a /\ l.ids = ids
  BY <1>2, RootAssumption DEF Command, Commands
<1> HIDE DEF k, l
<1>4. /\ q \in Seq(Commands) /\ pipe' = Append(q, l)
      /\ ToSet(pipe') = ToSet(pipe) \cup {k, l} /\ ToSet(<< >>) = {}
  <2>1. q \in Seq(Commands) /\ ToSet(q) = ToSet(pipe) \cup {k}
    BY <1>1, <1>3, AppendElements
  <2>2. pipe' = Append(q, l)
    BY <1>1, <1>3
  <2> HIDE DEF q
  <2>3. ToSet(pipe') = ToSet(q) \cup {l}
    BY <1>3, <2>1, <2>2, AppendElements
  <2>4. ToSet(<< >>) = {}
    BY DEF ToSet
  <2> QED
    BY <2>1, <2>2, <2>3, <2>4
<1>5. \A r \in Rooms : a \notin ToSet(members[r])
  <2>1. ConnFits(stack, a) /\ ~closed[a] /\ a \notin ToSet(conns)
    BY <1>1 DEF HubInv, ConnFits
  <2>2. ToSet(joined[a]) = {}
    BY <2>1 DEF ConnFits
  <2> QED
    BY <2>2 DEF HubInv, MemberInv, Members
<1>6. Known' /\ FramesFit'
  <2>1. \A c \in Conns : ws[c] # "none" => ws'[c] # "none"
    BY <1>1 DEF HubType
  <2>2. ws'[a] = "open"
    BY <1>1 DEF HubType
  <2>3. ASSUME NEW z \in ToSet(pipe') \cup ToSet(ready'), z.op # "srem"
        PROVE  ws'[z.conn] # "none"
    <3>1. CASE z \in {k, l}
      BY <1>3, <2>2, <3>1
    <3>2. CASE z \in ToSet(pipe)
      <4>1. z \in Commands /\ ws[z.conn] # "none"
        BY <1>1, <2>3, <3>2, QueueElements DEF RosterInv, Known
      <4> QED
        BY <2>1, <4>1 DEF Commands
    <3> QED
      BY <1>1, <1>4, <2>3, <3>1, <3>2
  <2>4. \A z \in ToSet(pipe') : z.op \in {"sadd", "srem", "smembers"}
    BY <1>3, <1>4 DEF RosterInv, Known
  <2> QED
    BY <1>1, <1>4, <2>3, <2>4 DEF Known, FramesFit
<1>7. OrderInv'
  <2>1. SUFFICES ASSUME NEW r \in Rooms, NEW c \in Conns, NEW d \in Conns, d \in Members(r)'
                 PROVE  InOrder(r, c, d)'
    BY DEF OrderInv
  <2>2. Followed(ready', r, c, d, Has(pipe', r, c, d))
    BY <1>1 DEF Followed
  <2>3. Answers(l, r, c) /\ d \notin l.ids => FALSE
    BY <1>a, <1>3, <2>1 DEF Answers, Members
  <2>4. ~Answers(k, r, c)
    BY <1>3 DEF Answers
  <2>5. Followed(q, r, c, d, FALSE)
    <3>1. CASE d \in ToSet(members[r])
      <4>1. Followed(pipe, r, c, d, FALSE)
        BY <3>1 DEF RosterInv, OrderInv, InOrder, Members
      <4> QED
        BY <1>1, <1>3, <2>4, <4>1, FollowedAppend
    <3>2. CASE d = a /\ r = Root /\ c # a
      <4>1. Again(k, r, c, d)
        BY <1>3, <3>2 DEF Again
      <4> QED
        BY <1>1, <1>3, <4>1, FollowedAppend
    <3>3. CASE c = a
      <4>1. \A z \in ToSet(pipe) : ~Answers(z, r, c)
        BY <1>1, <3>3 DEF RosterInv, Known, Answers
      <4>2. Followed(pipe, r, c, d, FALSE)
        BY <1>1, <4>1, FollowedNone
      <4> QED
        BY <1>1, <1>3, <2>4, <4>2, FollowedAppend
    <3> QED
      BY <1>2, <2>1, <3>1, <3>2, <3>3 DEF Members
  <2>6. Followed(pipe', r, c, d, FALSE)
    <3> HIDE DEF q
    <3> QED
      BY <1>3, <1>4, <2>3, <2>5, FollowedAppend
  <2> QED
    BY <1>1, <1>4, <2>2, <2>6 DEF InOrder
<1>8. ToldInv'
  <2>1. SUFFICES ASSUME NEW r \in Rooms, NEW c \in Conns, NEW d \in Conns,
                        c \in Members(r)', d \in Members(r)', Hears(c)'
                 PROVE  Told(r, c, d)'
    BY DEF ToldInv
  <2>2. CASE c = a
    <3>1. r = Root
      BY <1>2, <1>5, <2>1, <2>2 DEF Members
    <3>2. Will(l, r, c, d)
      BY <1>a, <1>3, <2>1, <2>2, <3>1 DEF Will, Answers, Members
    <3> QED
      BY <1>4, <3>2 DEF Told
  <2>3. CASE c # a /\ d \in Members(r)
    <3>1. c \in Members(r) /\ Hears(c)
      BY <1>1, <1>2, <2>1, <2>3 DEF Members, Hears, HubType
    <3>2. Told(r, c, d)
      BY <2>3, <3>1 DEF RosterInv, ToldInv
    <3> QED
      BY <1>1, <1>4, <3>2 DEF Told
  <2>4. CASE c # a /\ d = a /\ r = Root
    <3>1. Will(k, r, c, d)
      BY <1>3, <2>4 DEF Will, Again
    <3> QED
      BY <1>4, <3>1 DEF Told
  <2> QED
    BY <1>2, <2>1, <2>2, <2>3, <2>4 DEF Members
<1> QED
  BY <1>6, <1>7, <1>8 DEF RosterInv

(* shutdown drops the maps: nobody shares a room. *)
LEMMA RosterShutdownEnds ==
    ASSUME HubInv, QueueType, RosterType, RosterInv, ShutdownEnds
    PROVE  RosterInv'
<1>1. /\ \A r \in Rooms : members'[r] = << >>
      /\ stack' = << >> /\ UNCHANGED <<ws, ready, pipe>>
  BY DEF ShutdownEnds
<1>2. ToSet(<< >>) = {}
  BY DEF ToSet
<1>3. \A r \in Rooms, d \in Conns : d \notin Members(r)'
  BY <1>1, <1>2 DEF Members
<1>4. Known' /\ FramesFit'
  BY <1>1, <1>2 DEF RosterInv, Known, FramesFit
<1>5. OrderInv' /\ ToldInv'
  BY <1>3 DEF OrderInv, ToldInv
<1> QED
  BY <1>4, <1>5 DEF RosterInv

-----------------------------------------------------------------------------
(* The theorems about what clients know *)

(* A roster has connections in it. *)
LEMMA RosterTypeStep ==
    ASSUME HubInv, RosterInv, RosterType, [Next]_vars, ~EmitThrows
    PROVE  RosterType'
<1>1. ASSUME NEW c, Forget(c) PROVE RosterType'
  BY <1>1 DEF Forget, RosterType
<1>2. ASSUME NEW c, NEW f \in Frames, Read(c, f) PROVE RosterType'
  <2>1. f.ids \subseteq Conns
    BY DEF Frames
  <2> DEFINE new == CASE f.event = "join_ack"    -> f.ids
                 [] f.event = "new_member"  -> roster[c][f.room] \cup f.ids
                 [] f.event = "member_left" -> roster[c][f.room] \ f.ids
                 [] f.event = "leave_ack"   -> {}
                 [] OTHER                   -> roster[c][f.room]
  <2>2. ASSUME c \in Conns, f.room \in Rooms PROVE new \subseteq Conns
    BY <2>1, <2>2 DEF RosterType
  <2>3. roster' = [roster EXCEPT ![c][f.room] = new]
    BY <1>2 DEF Read
  <2> HIDE DEF new
  <2> QED
    BY <2>2, <2>3 DEF RosterType
<1>3. ASSUME roster' = roster PROVE RosterType'
  BY <1>3 DEF RosterType
<1>4. CASE EmitNext \/ SendNext
  <2>1. stack # << >> /\ (roster' = roster \/ \E c : Read(c, Head(stack).frame))
    BY <1>4 DEF EmitNext, SendNext, Top, TrySend
  <2>2. Head(stack).frame \in Frames
    BY <2>1, TopFits
  <2> QED
    BY <1>2, <1>3, <2>1, <2>2
<1>5. CASE Step /\ ~EmitNext /\ ~SendNext
  <2>1. roster' = roster \/ \E c : Forget(c)
    BY <1>5 DEF Step, LeaveNext, CloseSocket, HeartbeatNext, ShutdownNext, ShutdownEnds, Resolve
  <2> QED
    BY <1>1, <1>3, <2>1
<1>6. CASE Promise \/ Timer \/ Shutdown \/ Wait \/ UNCHANGED vars
  BY <1>3, <1>6 DEF Promise, Answered, Failed, Announce, List, Acknowledge, Timer, Shutdown,
              Wait, vars
<1>7. ASSUME NEW c \in Conns, Client(c) PROVE RosterType'
  <2>1. roster' = roster \/ Forget(c)
    BY <1>7 DEF Client, Connect, Refuse, Malformed, Pong, Join, Leave, Broadcast, Direct,
              Kick, PeerCloses, CloseEvent, ErrorEvent
  <2> QED
    BY <1>1, <1>3, <2>1
<1>8. ASSUME NEW r \in Rooms, Incoming(r) PROVE RosterType'
  BY <1>3, <1>8 DEF Incoming
<1>9. ASSUME NEW c \in Conns, Unicast(c) PROVE RosterType'
  BY <1>3, <1>9 DEF Unicast
<1> QED
  BY <1>4, <1>5, <1>6, <1>7, <1>8, <1>9 DEF Next

(* Every step keeps what clients are to be told under way. *)
LEMMA RosterStep ==
    ASSUME HubInv, QueueType, RosterType, RosterInv, [Next]_vars, ~EmitThrows
    PROVE  RosterInv'
<1>1. CASE Step
  BY <1>1, RosterEmitNext, RosterSendNext, RosterLeaveNext, RosterCloseSocket,
     RosterHeartbeatNext, RosterShutdownNext, RosterShutdownEnds, RosterResolve DEF Step
<1>2. CASE Promise
  BY <1>2, RosterAnswered, RosterAnnounce, RosterList, RosterAcknowledge DEF Promise
<1>3. CASE Timer \/ Shutdown \/ Wait \/ UNCHANGED vars
  BY <1>3, RosterElsewhere
<1>4. ASSUME NEW c \in Conns, Client(c) PROVE RosterInv'
  <2>1. CASE Connect(c)
    BY <2>1, RosterConnect
  <2>2. CASE Refuse(c) \/ PeerCloses(c) \/ CloseEvent(c) \/ ErrorEvent(c)
    BY <2>2, RosterSocketEnds
  <2>3. CASE Malformed(c) \/ \E d \in Conns : Kick(c, d)
    BY <2>3, RosterKick
  <2>4. CASE Pong(c)
    BY <2>4, RosterElsewhere
  <2>5. ASSUME NEW r \in Rooms, Join(c, r) PROVE RosterInv'
    BY <2>5, RosterJoin
  <2>6. ASSUME NEW r \in Rooms, Leave(c, r) PROVE RosterInv'
    BY <2>6, RosterLeave
  <2>7. CASE (\E r \in Rooms : Broadcast(c, r)) \/ \E d \in Conns : Direct(c, d)
    BY <2>7, RosterMessage
  <2> QED
    BY <1>4, <2>1, <2>2, <2>3, <2>4, <2>5, <2>6, <2>7 DEF Client
<1>5. ASSUME NEW r \in Rooms, Incoming(r) PROVE RosterInv'
  BY <1>5, RosterMessage
<1>6. ASSUME NEW c \in Conns, Unicast(c) PROVE RosterInv'
  BY <1>6, RosterMessage
<1> QED
  BY <1>1, <1>2, <1>3, <1>4, <1>5, <1>6 DEF Next

(* Until an exception is thrown every member a client shares a room with is *)
(* in its roster, or will be named to it by what is under way: a call in    *)
(* progress, a continuation, or the answer to a command.                    *)
TellingInv == Sane => RosterType /\ RosterInv

(* No answer that leaves a member out comes after the member's              *)
(* announcement, whatever joins, leaves and answers overlap (hub.js         *)
(* join_room, get_cluster_presence; room.js emit_local).                    *)
THEOREM TellingInductive ==
    ASSUME LateFrames = FALSE
    PROVE  Spec => []TellingInv
<1>1. Init => TellingInv
  <2> SUFFICES ASSUME Init PROVE RosterType /\ RosterInv
    BY DEF TellingInv
  <2>1. ToSet(<< >>) = {}
    BY DEF ToSet
  <2>2. RosterType
    BY DEF RosterType, Init
  <2>3. Known /\ FramesFit
    BY <2>1 DEF Known, FramesFit, Init
  <2>4. \A r \in Rooms, d \in Conns : d \notin Members(r)
    BY <2>1 DEF Members, Init
  <2> QED
    BY <2>2, <2>3, <2>4 DEF RosterInv, OrderInv, ToldInv
<1>2. NodeInv /\ TellingInv /\ [Next]_vars => TellingInv'
  <2> SUFFICES ASSUME NodeInv, TellingInv, [Next]_vars, Sane' PROVE RosterType' /\ RosterInv'
    BY DEF TellingInv
  <2>1. Sane /\ ~EmitThrows
    BY ProcessStep DEF NodeInv
  <2>2. HubInv /\ QueueType /\ RosterType /\ RosterInv
    BY <2>1 DEF NodeInv, TellingInv
  <2> QED
    BY <2>1, <2>2, RosterTypeStep, RosterStep
<1> QED
  BY <1>1, <1>2, NodeInductive, PTL DEF Spec

(* When everything has been answered, a client whose frames were not        *)
(* dropped knows every member of each room it is in (join_ack and           *)
(* new_member, hub.js; roomer.js on the client's side).                     *)
THEOREM RostersAreComplete ==
    ASSUME LateFrames = FALSE
    PROVE  Spec => []RosterComplete
<1>1. NodeInv /\ TellingInv => RosterComplete
  <2> SUFFICES ASSUME NodeInv, TellingInv, AtRest, NEW r \in Rooms, NEW c \in Members(r) \ slow,
                      ws[c] = "open", NEW d \in Members(r)
               PROVE  d \in roster[c][r]
    BY DEF RosterComplete
  <2>1. Sane /\ HubInv /\ HubType /\ RosterInv /\ stack = << >> /\ ready = << >> /\ pipe = << >>
    BY DEF NodeInv, TellingInv, AtRest, Sane, HubInv
  <2>2. c \in Conns /\ d \in Conns
    BY <2>1 DEF HubType, Members, Keys, ToSet
  <2>3. ~closed[c]
    <3>1. ConnFits(stack, c) /\ ~Closing(stack, c)
      BY <2>1, <2>2 DEF HubInv, Closing
    <3> QED
      BY <3>1 DEF ConnFits
  <2>4. Told(r, c, d)
    BY <2>1, <2>2, <2>3 DEF RosterInv, ToldInv, Hears
  <2>5. ToSet(<< >>) = {}
    BY DEF ToSet
  <2> QED
    BY <2>1, <2>4, <2>5 DEF Told
<1> QED
  BY <1>1, NodeInductive, TellingInductive, PTL

-----------------------------------------------------------------------------
(* Shutdown *)

IsCall(x) == \E O, C, R, S, F : x \in [op : O, conn : C, room : R, rest : S, frame : F]

(* What a call has still to do, late frames and exceptions or not: the      *)
(* connection it is closing is closed, and shutdown will come to every      *)
(* connection that is not.  w and cl are the values of ws and closed.       *)
ShutCall(w, cl, x) ==
    /\ IsCall(x)
    /\ x.op \in {"close", "cleanup"} /\ x.conn \in Conns => cl[x.conn]
    /\ x.op = "cleanup" /\ x.conn \in Conns => w[x.conn] # "open"
    /\ x.op = "timer" =>
          x.rest \in Seq(Conns) /\ x.rest # << >> /\ \A c \in ToSet(x.rest) : w[c] # "none"
    /\ x.op = "shutdown" =>
          /\ x.rest \in Seq(Conns) /\ \A c \in ToSet(x.rest) : w[c] # "none"
          /\ \A c \in Conns : w[c] = "open" /\ ~cl[c] => c \in ToSet(x.rest)

ShutStack(w, cl, st) ==
    /\ \E S : st \in Seq(S)
    /\ \A k \in DOMAIN st :
          ShutCall(w, cl, st[k]) /\ (st[k].op = "shutdown" => k = Len(st))

(* close_with of c will come to ws.close. *)
Ends(x, c) == x.op = "close" /\ x.conn = c
Ending(st, c) == \E k \in DOMAIN st : Ends(st[k], c)

ShutType ==
    /\ ws \in [Conns -> {"none", "open", "closing", "ending", "closed"}]
    /\ closed \in [Conns -> BOOLEAN] /\ closeSent \in [Conns -> BOOLEAN]
    /\ conns \in Keys(Conns) /\ active \in Keys(Conns)

(* A connection that is not closed is in conns, and one that is closed has  *)
(* its socket open only while close_with is still to end it, or once an     *)
(* exception has been thrown.                                               *)
ShutConn(c) ==
    /\ closeSent[c] => closed[c]
    /\ ws[c] = "none" => ~closed[c] /\ c \notin ToSet(conns) /\ c \notin ToSet(active)
    /\ ws[c] = "open" /\ ~closed[c] => c \in ToSet(conns)
    /\ ws[c] = "open" /\ closed[c] /\ Sane => Ending(stack, c)

ShutInv ==
    /\ process \in {"up", "down", "threw", "crashed"}
    /\ ShutType /\ ShutStack(ws, closed, stack)
    /\ \A c \in Conns : ShutConn(c)

(* What a call is, and what a loop that moves on still is. *)
LEMMA MadeCall ==
    ASSUME NEW op, NEW c, NEW r, NEW rest, NEW f
    PROVE  /\ IsCall(Call(op, c, r, rest, f)) /\ Call(op, c, r, rest, f).op = op
           /\ Call(op, c, r, rest, f).conn = c /\ Call(op, c, r, rest, f).rest = rest
<1> DEFINE x == Call(op, c, r, rest, f)
<1>1. x \in [op : {op}, conn : {c}, room : {r}, rest : {rest}, frame : {f}]
  BY DEF Call
<1>2. x.op = op /\ x.conn = c /\ x.rest = rest
  BY DEF Call
<1> HIDE DEF x
<1>3. IsCall(x)
  BY <1>1, Zenon DEF IsCall
<1> QED
  BY <1>2, <1>3 DEF x

LEMMA CallMovesOn ==
    ASSUME NEW h, IsCall(h), NEW s
    PROVE  /\ IsCall([h EXCEPT !.rest = s]) /\ [h EXCEPT !.rest = s].op = h.op
           /\ [h EXCEPT !.rest = s].rest = s
<1>1. PICK O, C, R, S, F : h \in [op : O, conn : C, room : R, rest : S, frame : F]
  BY DEF IsCall
<1> DEFINE x == [h EXCEPT !.rest = s]
<1>2. x \in [op : O, conn : C, room : R, rest : {s}, frame : F] /\ x.op = h.op /\ x.rest = s
  BY <1>1
<1> HIDE DEF x
<1>3. IsCall(x)
  BY ONLY <1>2, Zenon DEF IsCall
<1> QED
  BY <1>2, <1>3 DEF x

(* A push, with what it adds. *)
LEMMA ShutPush ==
    ASSUME NEW w, NEW cl, NEW st, ShutStack(w, cl, st), NEW x, ShutCall(w, cl, x),
           x.op # "shutdown" \/ st = << >>
    PROVE  /\ ShutStack(w, cl, Push(x, st))
           /\ \A c : Ending(Push(x, st), c) <=> Ends(x, c) \/ Ending(st, c)
<1>1. PICK S : st \in Seq(S)
  BY DEF ShutStack
<1> DEFINE T == S \cup {x}
           p == Push(x, st)
<1>2. st \in Seq(T) /\ x \in T
  BY <1>1
<1> HIDE DEF T
<1>3. /\ p \in Seq(T) /\ Len(p) = Len(st) + 1 /\ Len(st) \in Nat
      /\ DOMAIN p = 1..(Len(st) + 1) /\ DOMAIN st = 1..Len(st)
      /\ \A k \in 1..(Len(st) + 1) : p[k] = IF k = 1 THEN x ELSE st[k - 1]
  <2> DEFINE a == <<x>>
  <2>1. a \in Seq(T) /\ Len(a) = 1 /\ a[1] = x
    BY <1>2
  <2>2. p = a \o st
    BY DEF Push
  <2> HIDE DEF a, p
  <2>3. /\ p \in Seq(T) /\ Len(p) = Len(a) + Len(st)
        /\ \A k \in 1..(Len(a) + Len(st)) :
              p[k] = IF k <= Len(a) THEN a[k] ELSE st[k - Len(a)]
    BY <1>2, <2>1, <2>2, ConcatProperties
  <2>4. Len(st) \in Nat /\ DOMAIN st = 1..Len(st) /\ DOMAIN p = 1..Len(p)
    BY <1>2, <2>3
  <2> QED
    BY <2>1, <2>3, <2>4
<1> HIDE DEF p
<1>4. ASSUME NEW k \in DOMAIN p
      PROVE  ShutCall(w, cl, p[k]) /\ (p[k].op = "shutdown" => k = Len(p))
  <2>1. CASE k = 1
    BY <1>3, <2>1
  <2>2. CASE k # 1
    <3>1. k - 1 \in DOMAIN st /\ p[k] = st[k - 1]
      BY <1>3, <2>2
    <3>2. ShutCall(w, cl, st[k - 1]) /\ (st[k - 1].op = "shutdown" => k - 1 = Len(st))
      BY <3>1 DEF ShutStack
    <3> QED
      BY <1>3, <3>1, <3>2
  <2> QED
    BY <2>1, <2>2
<1>5. ShutStack(w, cl, p)
  BY <1>3, <1>4 DEF ShutStack
<1>6. ASSUME NEW c PROVE Ending(p, c) <=> Ends(x, c) \/ Ending(st, c)
  <2>1. 1 \in DOMAIN p /\ p[1] = x
    BY <1>3
  <2>2. \A k \in DOMAIN st : k + 1 \in DOMAIN p /\ p[k + 1] = st[k]
    <3>1. \A k \in DOMAIN st : k + 1 \in 1..(Len(st) + 1) /\ k + 1 # 1 /\ (k + 1) - 1 = k
      BY <1>3
    <3> QED
      BY <1>3, <3>1
  <2>3. \A k \in DOMAIN p : k = 1 \/ (k - 1 \in DOMAIN st /\ p[k] = st[k - 1])
    BY <1>3
  <2> QED
    BY <2>1, <2>2, <2>3 DEF Ending
<1> QED
  BY <1>5, <1>6 DEF p

(* The stack without its top, with what that takes away. *)
LEMMA ShutPop ==
    ASSUME NEW w, NEW cl, NEW st, ShutStack(w, cl, st), st # << >>
    PROVE  /\ ShutCall(w, cl, Head(st)) /\ ShutStack(w, cl, Tail(st))
           /\ Head(st).op = "shutdown" => Tail(st) = << >>
           /\ \A c : Ending(st, c) <=> Ends(Head(st), c) \/ Ending(Tail(st), c)
<1>1. PICK S : st \in Seq(S)
  BY DEF ShutStack
<1> DEFINE t == Tail(st)
<1>2. /\ Len(st) \in Nat \ {0} /\ DOMAIN st = 1..Len(st) /\ Head(st) = st[1]
      /\ t \in Seq(S) /\ Len(t) = Len(st) - 1 /\ DOMAIN t = 1..(Len(st) - 1)
      /\ \A k \in 1..(Len(st) - 1) : t[k] = st[k + 1]
  BY <1>1
<1> HIDE DEF t
<1>3. ShutCall(w, cl, Head(st))
  BY <1>2 DEF ShutStack
<1>4. ASSUME NEW k \in DOMAIN t
      PROVE  ShutCall(w, cl, t[k]) /\ (t[k].op = "shutdown" => k = Len(t))
  <2>1. k + 1 \in DOMAIN st /\ t[k] = st[k + 1]
    BY <1>2
  <2>2. ShutCall(w, cl, st[k + 1]) /\ (st[k + 1].op = "shutdown" => k + 1 = Len(st))
    BY <2>1 DEF ShutStack
  <2> QED
    BY <1>2, <2>1, <2>2
<1>5. ShutStack(w, cl, t)
  BY <1>2, <1>4 DEF ShutStack
<1>6. Head(st).op = "shutdown" => t = << >>
  <2>1. Head(st).op = "shutdown" => Len(st) = 1
    BY <1>2 DEF ShutStack
  <2> QED
    BY <1>2, <2>1
<1>7. ASSUME NEW c PROVE Ending(st, c) <=> Ends(Head(st), c) \/ Ending(t, c)
  <2>1. 1 \in DOMAIN st /\ \A k \in DOMAIN t : k + 1 \in DOMAIN st /\ t[k] = st[k + 1]
    BY <1>2
  <2>2. \A k \in DOMAIN st : k = 1 \/ (k - 1 \in DOMAIN t /\ st[k] = t[k - 1])
    <3>1. \A k \in DOMAIN st : k = 1 \/ (k - 1 \in 1..(Len(st) - 1) /\ (k - 1) + 1 = k)
      BY <1>2
    <3> QED
      BY <1>2, <3>1
  <2> QED
    BY <1>2, <2>1, <2>2 DEF Ending
<1> QED
  BY <1>3, <1>5, <1>6, <1>7 DEF t

(* The empty stack and the catch alone. *)
LEMMA ShutBottom ==
    ASSUME NEW w, NEW cl
    PROVE  /\ ShutStack(w, cl, << >>) /\ ShutStack(w, cl, Caught)
           /\ \A c : ~Ending(<< >>, c) /\ ~Ending(Caught, c)
<1>1. ShutStack(w, cl, << >>) /\ \A c : ~Ending(<< >>, c)
  <2>1. << >> \in Seq({}) /\ DOMAIN << >> = {}
    OBVIOUS
  <2> QED
    BY <2>1 DEF ShutStack, Ending
<1> DEFINE x == Call("catch", None, Root, << >>, NoFrame)
<1>2. IsCall(x) /\ x.op = "catch"
  BY MadeCall
<1>3. Caught = Push(x, << >>)
  BY DEF Caught, Push
<1> HIDE DEF x
<1>4. ShutCall(w, cl, x) /\ \A c : ~Ends(x, c)
  BY <1>2 DEF ShutCall, Ends
<1> QED
  BY <1>1, <1>2, <1>3, <1>4, ShutPush

(* Returning past the catch. *)
LEMMA ShutReturn ==
    ASSUME NEW w, NEW cl, NEW st, ShutStack(w, cl, st)
    PROVE  ShutStack(w, cl, Return(st)) /\ \A c : Ending(st, c) => Ending(Return(st), c)
BY ShutBottom DEF Return

(* A loop that goes on, or has nothing left. *)
LEMMA ShutLoop ==
    ASSUME NEW w, NEW cl, NEW st, NEW x, ShutStack(w, cl, st),
           x.rest # << >> => ShutCall(w, cl, x), x.op # "shutdown"
    PROVE  ShutStack(w, cl, Loop(x, st)) /\ \A c : Ending(st, c) => Ending(Loop(x, st), c)
<1>1. CASE x.rest = << >>
  BY <1>1, ShutReturn DEF Loop
<1>2. CASE x.rest # << >>
  <2>1. Loop(x, st) = Push(x, st)
    BY <1>2 DEF Loop, Push
  <2> QED
    BY <1>2, <2>1, ShutPush
<1> QED
  BY <1>1, <1>2

(* More connections closed, and fewer sockets open, leave a stack as it is. *)
LEMMA ShutStays ==
    ASSUME NEW w, NEW cl, NEW v, NEW dl, NEW st, ShutStack(w, cl, st),
           \A c \in Conns : cl[c] => dl[c],
           \A c \in Conns : w[c] # "none" => v[c] # "none",
           \A c \in Conns : v[c] = "open" => w[c] = "open"
    PROVE  ShutStack(v, dl, st)
<1>1. ASSUME NEW x, ShutCall(w, cl, x) PROVE ShutCall(v, dl, x)
  <2>1. x.op \in {"timer", "shutdown"} => \A c \in ToSet(x.rest) : c \in Conns
    BY <1>1 DEF ShutCall, ToSet
  <2> QED
    BY <1>1, <2>1 DEF ShutCall
<1> QED
  BY <1>1 DEF ShutStack

(* The other calls. *)
LEMMA ShutOther ==
    ASSUME NEW w, NEW cl, NEW op, op \notin {"close", "cleanup", "timer", "shutdown"},
           NEW c, NEW r, NEW rest, NEW f
    PROVE  /\ ShutCall(w, cl, Call(op, c, r, rest, f)) /\ Call(op, c, r, rest, f).op = op
           /\ Call(op, c, r, rest, f).rest = rest
<1> DEFINE x == Call(op, c, r, rest, f)
<1>1. IsCall(x) /\ x.op = op /\ x.rest = rest
  BY MadeCall
<1> HIDE DEF x
<1>2. ShutCall(w, cl, x)
  BY <1>1 DEF ShutCall
<1> QED
  BY <1>1, <1>2 DEF x

(* A loop moves on. *)
LEMMA ShutRest ==
    ASSUME NEW w, NEW cl, NEW st, ShutStack(w, cl, st), st # << >>,
           Head(st).op \in {"emit", "timer", "leaveAll"}
    PROVE  ShutStack(w, cl, Onwards(st)) /\ \A c : Ending(st, c) => Ending(Onwards(st), c)
<1> DEFINE h == Head(st)
           t == Tail(st)
<1>1. /\ ShutCall(w, cl, h) /\ ShutStack(w, cl, t) /\ h.op \in {"emit", "timer", "leaveAll"}
      /\ \A c : Ending(st, c) <=> Ends(h, c) \/ Ending(t, c)
      /\ Onwards(st) = Loop([h EXCEPT !.rest = Tail(@)], t)
  BY ShutPop DEF Onwards
<1> HIDE DEF h, t
<1> DEFINE x == [h EXCEPT !.rest = Tail(@)]
<1>2. IsCall(x) /\ x.op = h.op /\ x.rest = Tail(h.rest)
  <2>1. IsCall(h)
    BY <1>1 DEF ShutCall
  <2> QED
    BY <2>1, CallMovesOn
<1> HIDE DEF x
<1>3. ShutCall(w, cl, x) \/ x.rest = << >>
  <2>1. CASE h.op = "timer"
    <3> DEFINE s == h.rest
    <3>1. s \in Seq(Conns) /\ s # << >> /\ \A c \in ToSet(s) : w[c] # "none"
      BY <1>1, <2>1 DEF ShutCall
    <3> HIDE DEF s
    <3>2. Tail(s) \in Seq(Conns) /\ ToSet(Tail(s)) \subseteq ToSet(s)
      <4>1. /\ Tail(s) \in Seq(Conns) /\ DOMAIN Tail(s) = 1..(Len(s) - 1)
            /\ Len(s) \in Nat /\ DOMAIN s = 1..Len(s)
            /\ \A k \in 1..(Len(s) - 1) : Tail(s)[k] = s[k + 1] /\ k + 1 \in 1..Len(s)
        BY <3>1
      <4> QED
        BY <4>1 DEF ToSet
    <3>3. x.rest = Tail(s)
      BY <1>2 DEF s
    <3> QED
      BY <1>2, <2>1, <3>1, <3>2, <3>3 DEF ShutCall
  <2>2. CASE h.op # "timer"
    BY <1>1, <1>2, <2>2 DEF ShutCall
  <2> QED
    BY <2>1, <2>2
<1>4. ShutStack(w, cl, Loop(x, t)) /\ \A c : Ending(t, c) => Ending(Loop(x, t), c)
  BY <1>1, <1>2, <1>3, ShutLoop
<1>5. \A c : ~Ends(h, c)
  BY <1>1 DEF Ends
<1> QED
  BY <1>1, <1>4, <1>5 DEF x

(* The call at the top returns, and ends no socket. *)
LEMMA ShutBelow ==
    ASSUME NEW w, NEW cl, NEW st, ShutStack(w, cl, st), st # << >>
    PROVE  /\ ShutStack(w, cl, Return(Tail(st)))
           /\ \A c : Ending(st, c) => Ends(Head(st), c) \/ Ending(Return(Tail(st)), c)
BY ShutPop, ShutReturn

(* close_with closes, and its call will end the socket. *)
LEMMA ShutCloseWith ==
    ASSUME NEW c, NEW st, ShutType, \A d \in Conns : closeSent[d] => closed[d],
           ShutStack(ws, [closed EXCEPT ![c] = TRUE], st), CloseWith(c, st)
    PROVE  /\ closed' = [closed EXCEPT ![c] = TRUE] /\ closeSent' \in [Conns -> BOOLEAN]
           /\ \A d \in Conns : closeSent'[d] => closed'[d]
           /\ ShutStack(ws, closed', stack')
           /\ \A d \in Conns :
                 Ending(st, d) \/ (closed'[d] /\ ~closed[d]) => Ending(stack', d)
<1> DEFINE dl == [closed EXCEPT ![c] = TRUE]
<1>t. closed \in [Conns -> BOOLEAN] /\ closeSent \in [Conns -> BOOLEAN]
  BY DEF ShutType
<1>d. dl \in [Conns -> BOOLEAN] /\ \A d \in Conns : dl[d] <=> closed[d] \/ d = c
  BY <1>t
<1>1. CASE closed[c] \/ closeSent[c]
  <2>1. stack' = Return(st) /\ UNCHANGED <<closed, closeSent>>
    BY <1>1 DEF CloseWith, flags
  <2>2. \A d \in Conns : dl[d] = closed[d]
    BY <1>1, <1>t, <1>d
  <2>3. dl = closed
    BY <1>t, <1>d, <2>2
  <2> QED
    BY <1>t, <2>1, <2>3, ShutReturn
<1>2. CASE ~(closed[c] \/ closeSent[c])
  <2> DEFINE x == Call("close", c, Root, <<c>>, NoFrame)
             y == Call("leaveAll", c, Root, joined[c], NoFrame)
  <2>1. /\ closed' = dl /\ closeSent' = [closeSent EXCEPT ![c] = TRUE]
        /\ stack' = Loop(y, Push(x, st))
    BY <1>2 DEF CloseWith, Push
  <2>2. IsCall(x) /\ x.op = "close" /\ x.conn = c
    BY MadeCall
  <2>3. ShutCall(ws, dl, y) /\ y.op = "leaveAll"
    BY ShutOther
  <2> HIDE DEF x, y, dl
  <2>4. ShutCall(ws, dl, x) /\ \A d : Ends(x, d) <=> d = c
    BY <1>d, <2>2 DEF ShutCall, Ends
  <2>5. /\ ShutStack(ws, dl, Push(x, st))
        /\ \A d : Ending(Push(x, st), d) <=> d = c \/ Ending(st, d)
    BY <2>2, <2>4, ShutPush DEF dl
  <2>6. ShutStack(ws, dl, stack') /\ \A d : d = c \/ Ending(st, d) => Ending(stack', d)
    BY <2>1, <2>3, <2>5, ShutLoop
  <2>7. /\ closeSent' \in [Conns -> BOOLEAN]
        /\ \A d \in Conns : closeSent'[d] => closeSent[d] \/ d = c
    BY <1>t, <2>1
  <2>8. \A d \in Conns : closeSent'[d] => closed'[d]
    BY <1>d, <2>1, <2>7
  <2>9. \A d \in Conns : closed'[d] /\ ~closed[d] => d = c
    BY <1>d, <2>1
  <2> QED
    BY <2>1, <2>6, <2>7, <2>8, <2>9 DEF dl
<1> QED
  BY <1>1, <1>2

(* A step that leaves the sockets and the maps alone. *)
LEMMA ShutMoves ==
    ASSUME ShutInv, UNCHANGED <<ws, conns, active, process>>,
           closed' \in [Conns -> BOOLEAN], closeSent' \in [Conns -> BOOLEAN],
           \A d \in Conns : closeSent'[d] => closed'[d],
           \A d \in Conns : closed[d] => closed'[d],
           \A d \in Conns : closed'[d] /\ ~closed[d] => ws[d] # "none",
           ShutStack(ws, closed', stack'),
           \A d \in Conns : Ending(stack, d) \/ (closed'[d] /\ ~closed[d]) => Ending(stack', d)
    PROVE  ShutInv'
<1>1. ASSUME NEW c \in Conns PROVE ShutConn(c)'
  <2>1. ShutConn(c)
    BY DEF ShutInv
  <2> QED
    BY <2>1 DEF ShutConn, Sane
<1>2. ShutType'
  BY DEF ShutInv, ShutType
<1> QED
  BY <1>1, <1>2 DEF ShutInv

(* And one that changes the calls in progress alone. *)
LEMMA ShutCalls ==
    ASSUME ShutInv, UNCHANGED <<ws, conns, active, process, closed, closeSent>>,
           ShutStack(ws, closed, stack'),
           \A d \in Conns : Ending(stack, d) => Ending(stack', d)
    PROVE  ShutInv'
<1>1. closed \in [Conns -> BOOLEAN] /\ closeSent \in [Conns -> BOOLEAN]
  BY DEF ShutInv, ShutType
<1>2. \A d \in Conns : closeSent[d] => closed[d]
  BY DEF ShutInv, ShutConn
<1> QED
  BY <1>1, <1>2, ShutMoves

(* close_with of c, from wherever it is called. *)
LEMMA ShutCloses ==
    ASSUME ShutInv, UNCHANGED <<ws, conns, active, process>>, NEW c, NEW st, CloseWith(c, st),
           c \in Conns => ws[c] # "none", ShutStack(ws, [closed EXCEPT ![c] = TRUE], st),
           \A d \in Conns : Ending(stack, d) => Ending(st, d)
    PROVE  ShutInv'
<1>1. ShutType /\ \A d \in Conns : closeSent[d] => closed[d]
  BY DEF ShutInv, ShutConn
<1>2. /\ closed' = [closed EXCEPT ![c] = TRUE] /\ closeSent' \in [Conns -> BOOLEAN]
      /\ \A d \in Conns : closeSent'[d] => closed'[d]
      /\ ShutStack(ws, closed', stack')
      /\ \A d \in Conns : Ending(st, d) \/ (closed'[d] /\ ~closed[d]) => Ending(stack', d)
  BY <1>1, ShutCloseWith
<1>3. /\ closed' \in [Conns -> BOOLEAN]
      /\ \A d \in Conns : closed'[d] <=> closed[d] \/ d = c
  BY <1>1, <1>2 DEF ShutType
<1> QED
  BY <1>2, <1>3, ShutMoves

(* The stack of a closed connection more. *)
LEMMA ShutCloser ==
    ASSUME ShutInv, NEW st, ShutStack(ws, closed, st), NEW c
    PROVE  ShutStack(ws, [closed EXCEPT ![c] = TRUE], st)
<1>1. \A d \in Conns : closed[d] => [closed EXCEPT ![c] = TRUE][d]
  BY DEF ShutInv, ShutType
<1> DEFINE dl == [closed EXCEPT ![c] = TRUE]
<1> HIDE DEF dl
<1> QED
  BY <1>1, ShutStays DEF dl

(* try_send, which may close its client. *)
LEMMA ShutTrySend ==
    ASSUME ShutInv, UNCHANGED <<ws, conns, active, process>>, NEW c, NEW f, NEW st,
           TrySend(c, f, st), ShutStack(ws, closed, st),
           \A d \in Conns : Ending(stack, d) => Ending(st, d)
    PROVE  ShutInv'
<1>1. CASE stack' = st /\ UNCHANGED flags
  BY <1>1, ShutCalls DEF flags
<1>2. CASE CloseWith(c, st) /\ ws[c] = "open"
  BY <1>2, ShutCloses, ShutCloser
<1> QED
  BY <1>1, <1>2 DEF TrySend

(* leave_room, whose announcement is a loop on top of st. *)
LEMMA ShutLeaveRoom ==
    ASSUME ShutInv, UNCHANGED <<ws, flags, conns, active, process>>, NEW r, NEW c, NEW st,
           LeaveRoom(r, c, st), ShutStack(ws, closed, st),
           \A d \in Conns : Ending(stack, d) => Ending(st, d)
    PROVE  ShutInv'
<1>1. CASE stack' = st
  BY <1>1, ShutCalls DEF flags
<1>2. ASSUME NEW ms, stack' = EmitLocal(ms, c, Frame("member_left", r, {c}), st) PROVE ShutInv'
  <2> DEFINE f == Frame("member_left", r, {c})
             x == Call("emit", None, f.room, DeleteKey(ms, c), f)
  <2>1. stack' = Loop(x, st)
    BY <1>2 DEF EmitLocal
  <2>2. ShutCall(ws, closed, x) /\ x.op = "emit"
    BY ShutOther
  <2> HIDE DEF x, f
  <2>3. ShutStack(ws, closed, stack') /\ \A d : Ending(st, d) => Ending(stack', d)
    BY <2>1, <2>2, ShutLoop
  <2> QED
    BY <2>3, ShutCalls DEF flags
<1> QED
  BY <1>1, <1>2 DEF LeaveRoom

(* emit_local and try_send from a handler. *)
LEMMA ShutHandler ==
    ASSUME NEW w, NEW cl, NEW st, ShutStack(w, cl, st)
    PROVE  /\ \A ms, e, f : ShutStack(w, cl, EmitLocal(ms, e, f, st))
           /\ \A c, f : ShutStack(w, cl, Send(c, f, st))
           /\ \A c, r : ShutStack(w, cl, Push(Call("resolve", c, r, << >>, NoFrame), st))
<1>1. ASSUME NEW ms, NEW e, NEW f PROVE ShutStack(w, cl, EmitLocal(ms, e, f, st))
  <2> DEFINE x == Call("emit", None, f.room, DeleteKey(ms, e), f)
  <2>1. EmitLocal(ms, e, f, st) = Loop(x, st)
    BY DEF EmitLocal
  <2>2. ShutCall(w, cl, x) /\ x.op = "emit"
    BY ShutOther
  <2> HIDE DEF x
  <2> QED
    BY <2>1, <2>2, ShutLoop
<1>2. ASSUME NEW c, NEW f PROVE ShutStack(w, cl, Send(c, f, st))
  <2> DEFINE one == <<c>>
             x == Call("send", c, f.room, one, f)
  <2>1. Send(c, f, st) = Push(x, st)
    BY DEF Send, Push
  <2> HIDE DEF one
  <2>2. ShutCall(w, cl, x) /\ x.op = "send"
    BY ShutOther
  <2> HIDE DEF x
  <2> QED
    BY <2>1, <2>2, ShutPush
<1>3. ASSUME NEW c, NEW r
      PROVE  ShutStack(w, cl, Push(Call("resolve", c, r, << >>, NoFrame), st))
  <2> DEFINE nil == << >>
             x == Call("resolve", c, r, nil, NoFrame)
  <2> HIDE DEF nil
  <2>1. ShutCall(w, cl, x) /\ x.op = "resolve"
    BY ShutOther
  <2> HIDE DEF x
  <2>2. ShutStack(w, cl, Push(x, st))
    BY <2>1, ShutPush
  <2> QED
    BY <2>2 DEF x, nil
<1> QED
  BY <1>1, <1>2, <1>3

LEMMA ShutEmitNext == ASSUME ShutInv, EmitNext PROVE ShutInv'
<1>1. /\ stack # << >> /\ Head(stack).op = "emit" /\ UNCHANGED <<ws, conns, active, process>>
      /\ \E c : TrySend(c, Head(stack).frame, Onwards(stack))
  BY DEF EmitNext, Top, Rest, Onwards, hubVars
<1>2. /\ ShutStack(ws, closed, Onwards(stack))
      /\ \A d : Ending(stack, d) => Ending(Onwards(stack), d)
  BY <1>1, ShutRest DEF ShutInv
<1>3. PICK c : TrySend(c, Head(stack).frame, Onwards(stack))
  BY <1>1
<1> QED
  BY <1>1, <1>2, <1>3, ShutTrySend

LEMMA ShutEmitThrows == ASSUME ShutInv, EmitThrows PROVE ShutInv'
<1>1. /\ stack # << >> /\ UNCHANGED <<ws, conns, active, closed, closeSent>>
      /\ process' \in {"threw", "crashed"}
      /\ stack' = << >> \/ stack' = Return(<<Last(stack)>>)
  BY DEF EmitThrows, Top, hubVars, flags
<1>2. ShutStack(ws, closed, << >>)
  BY ShutBottom
<1>3. ShutStack(ws, closed, Return(<<Last(stack)>>))
  <2> DEFINE x == Last(stack)
  <2>1. ShutStack(ws, closed, stack)
    BY DEF ShutInv
  <2>2. PICK S : stack \in Seq(S)
    BY <2>1 DEF ShutStack
  <2>3. x = stack[Len(stack)] /\ Len(stack) \in DOMAIN stack
    BY <1>1, <2>2 DEF Last
  <2>4. ShutCall(ws, closed, x)
    BY <2>1, <2>3 DEF ShutStack
  <2> HIDE DEF x
  <2>5. ShutStack(ws, closed, Push(x, << >>))
    BY <1>2, <2>4, ShutPush
  <2>6. <<x>> = Push(x, << >>)
    BY DEF Push
  <2> QED
    BY <2>5, <2>6, ShutReturn DEF x
<1>4. ShutStack(ws, closed, stack')
  BY <1>1, <1>2, <1>3
<1>5. ASSUME NEW c \in Conns PROVE ShutConn(c)'
  <2>1. ShutConn(c) /\ ~Sane'
    BY <1>1 DEF ShutInv, Sane
  <2> QED
    BY <1>1, <2>1 DEF ShutConn
<1>6. ShutType'
  BY <1>1 DEF ShutInv, ShutType
<1> QED
  BY <1>1, <1>4, <1>5, <1>6 DEF ShutInv

LEMMA ShutSendNext == ASSUME ShutInv, SendNext PROVE ShutInv'
<1>1. /\ stack # << >> /\ Head(stack).op = "send" /\ UNCHANGED <<ws, conns, active, process>>
      /\ TrySend(Head(stack).conn, Head(stack).frame, Return(Tail(stack)))
  BY DEF SendNext, Top, Below, hubVars
<1>2. /\ ShutStack(ws, closed, Return(Tail(stack)))
      /\ \A d : Ending(stack, d) => Ending(Return(Tail(stack)), d)
  BY <1>1, ShutBelow DEF ShutInv, Ends
<1> QED
  BY <1>1, <1>2, ShutTrySend

LEMMA ShutLeaveNext == ASSUME ShutInv, LeaveNext PROVE ShutInv'
<1>1. /\ stack # << >> /\ Head(stack).op = "leaveAll"
      /\ UNCHANGED <<ws, flags, conns, active, process>>
      /\ LeaveRoom(Head(Head(stack).rest), Head(stack).conn, Onwards(stack))
  BY DEF LeaveNext, Top, Rest, Onwards
<1>2. /\ ShutStack(ws, closed, Onwards(stack))
      /\ \A d : Ending(stack, d) => Ending(Onwards(stack), d)
  BY <1>1, ShutRest DEF ShutInv
<1> QED
  BY <1>1, <1>2, ShutLeaveRoom

(* ws.close is reached: the top call was the one to end the socket. *)
LEMMA ShutCloseSocket == ASSUME ShutInv, CloseSocket PROVE ShutInv'
<1> DEFINE h == Head(stack)
           c == h.conn
<1>1. /\ stack # << >> /\ h.op \in {"close", "cleanup"} /\ UNCHANGED <<active, process, closed>>
      /\ stack' = Return(Tail(stack)) /\ conns' = DeleteKey(conns, c)
      /\ \/ ws' = [ws EXCEPT ![c] = "closing"] /\ closeSent' = [closeSent EXCEPT ![c] = TRUE]
         \/ ~(ws[c] = "open" /\ h.op = "close") /\ UNCHANGED <<ws, closeSent>>
      /\ ws' = ws \/ ws[c] = "open"
  BY DEF CloseSocket, Top, Below
<1>2. /\ ShutType /\ ShutStack(ws, closed, stack) /\ \A d \in Conns : ShutConn(d)
      /\ process \in {"up", "down", "threw", "crashed"}
  BY DEF ShutInv
<1>3. /\ ShutCall(ws, closed, h) /\ ShutStack(ws, closed, Return(Tail(stack)))
      /\ \A d : Ending(stack, d) => Ends(h, d) \/ Ending(Return(Tail(stack)), d)
  BY <1>1, <1>2, ShutPop, ShutBelow
<1>4. c \in Conns => closed[c]
  BY <1>1, <1>3 DEF ShutCall
<1>5. \A d : Ends(h, d) => h.op = "close" /\ d = c
  BY DEF Ends
<1>6. conns' \in Keys(Conns) /\ ToSet(conns') = ToSet(conns) \ {c}
  BY <1>1, <1>2, DeleteKeyIsMinus DEF ShutType
<1> HIDE DEF h, c
<1>7. /\ ws' \in [Conns -> {"none", "open", "closing", "ending", "closed"}]
      /\ closeSent' \in [Conns -> BOOLEAN]
      /\ \A d \in Conns : /\ ws'[d] = "none" <=> ws[d] = "none"
                          /\ ws'[d] = "open" => ws[d] = "open"
                          /\ ws'[d] = "open" /\ d = c => h.op # "close"
                          /\ closeSent'[d] => closeSent[d] \/ d = c
  BY <1>1, <1>2 DEF ShutType
<1>8. ShutType'
  BY <1>1, <1>2, <1>6, <1>7 DEF ShutType
<1>9. ShutStack(ws', closed', stack')
  <2> DEFINE v == ws'
             dl == closed'
  <2>1. /\ \A d \in Conns : closed[d] => dl[d]
        /\ \A d \in Conns : ws[d] # "none" => v[d] # "none"
        /\ \A d \in Conns : v[d] = "open" => ws[d] = "open"
    BY <1>1, <1>7
  <2> HIDE DEF v, dl
  <2>2. ShutStack(v, dl, Return(Tail(stack)))
    BY <1>3, <2>1, ShutStays
  <2> QED
    BY <1>1, <2>2 DEF v, dl
<1>10. ASSUME NEW d \in Conns PROVE ShutConn(d)'
  <2>1. ShutConn(d)
    BY <1>2
  <2>2. ws'[d] = "open" /\ closed[d] /\ Sane => Ending(stack', d)
    <3>1. ws'[d] = "open" /\ closed[d] /\ Sane => Ends(h, d) \/ Ending(stack', d)
      BY <1>1, <1>3, <1>7, <2>1 DEF ShutConn
    <3> QED
      BY <1>5, <1>7, <3>1
  <2>3. Sane' <=> Sane
    BY <1>1 DEF Sane
  <2>4. closeSent'[d] => closed'[d]
    BY <1>1, <1>4, <1>7, <2>1 DEF ShutConn
  <2>5. ws'[d] = "none" => ~closed'[d] /\ d \notin ToSet(conns') /\ d \notin ToSet(active')
    BY <1>1, <1>6, <1>7, <2>1 DEF ShutConn
  <2>6. ws'[d] = "open" /\ ~closed'[d] => d \in ToSet(conns')
    BY <1>1, <1>4, <1>6, <1>7, <2>1 DEF ShutConn
  <2> QED
    BY <1>1, <2>2, <2>3, <2>4, <2>5, <2>6 DEF ShutConn
<1> QED
  BY <1>1, <1>2, <1>8, <1>9, <1>10 DEF ShutInv

LEMMA ShutHeartbeatNext == ASSUME ShutInv, HeartbeatNext PROVE ShutInv'
<1> DEFINE h == Head(stack)
           c == Head(h.rest)
<1>1. /\ stack # << >> /\ h.op = "timer" /\ UNCHANGED <<ws, conns, active, process>>
      /\ \/ stack' = Onwards(stack) /\ UNCHANGED <<closed, closeSent>>
         \/ CloseWith(c, Onwards(stack))
  BY DEF HeartbeatNext, Top, Rest, Onwards, hubVars, flags
<1>2. /\ ShutStack(ws, closed, Onwards(stack))
      /\ \A d : Ending(stack, d) => Ending(Onwards(stack), d)
  BY <1>1, ShutRest DEF ShutInv
<1>3. ws[c] # "none"
  <2>1. ShutCall(ws, closed, h)
    BY <1>1, ShutPop DEF ShutInv
  <2> DEFINE s == h.rest
  <2>2. s \in Seq(Conns) /\ s # << >> /\ \A d \in ToSet(s) : ws[d] # "none"
    BY <1>1, <2>1 DEF ShutCall
  <2> HIDE DEF s
  <2>3. Head(s) \in ToSet(s)
    BY <2>2 DEF ToSet
  <2> QED
    BY <2>2, <2>3 DEF s
<1> HIDE DEF h, c
<1>4. CASE stack' = Onwards(stack) /\ UNCHANGED <<closed, closeSent>>
  BY <1>1, <1>2, <1>4, ShutCalls
<1>5. CASE CloseWith(c, Onwards(stack))
  BY <1>1, <1>2, <1>3, <1>5, ShutCloses, ShutCloser
<1> QED
  BY <1>1, <1>4, <1>5

(* shutdown's loop without its first connection, which is not in the map or *)
(* is being closed.                                                         *)
LEMMA ShutOnwards ==
    ASSUME ShutInv, Top("shutdown"), Head(stack).rest # << >>, NEW dl,
           \A d \in Conns : closed[d] => dl[d],
           LET c == Head(Head(stack).rest) IN ws[c] = "open" => dl[c]
    PROVE  /\ ShutStack(ws, dl, <<[Head(stack) EXCEPT !.rest = Tail(@)]>>)
           /\ \A d : ~Ending(stack, d) /\ Head(Head(stack).rest) \in Conns
           /\ ws[Head(Head(stack).rest)] # "none"
<1> DEFINE h == Head(stack)
           s == h.rest
           x == [h EXCEPT !.rest = Tail(s)]
<1>1. /\ ShutCall(ws, closed, h) /\ Tail(stack) = << >> /\ h.op = "shutdown" /\ s # << >>
      /\ \A d : Ending(stack, d) <=> Ends(h, d) \/ Ending(Tail(stack), d)
  BY ShutPop DEF ShutInv, Top
<1>2. /\ IsCall(h) /\ s \in Seq(Conns) /\ \A d \in ToSet(s) : ws[d] # "none"
      /\ \A d \in Conns : ws[d] = "open" /\ ~closed[d] => d \in ToSet(s)
  BY <1>1 DEF ShutCall
<1>3. \A d : ~Ending(stack, d)
  BY <1>1, ShutBottom DEF Ends
<1>4. IsCall(x) /\ x.op = h.op /\ x.rest = Tail(s)
  BY <1>2, CallMovesOn
<1>5. ws[Head(s)] = "open" => dl[Head(s)]
  OBVIOUS
<1> HIDE DEF x, s
<1>6. /\ Tail(s) \in Seq(Conns) /\ ToSet(Tail(s)) \subseteq ToSet(s) /\ Head(s) \in ToSet(s)
      /\ Head(s) \in Conns
      /\ \A d \in ToSet(s) : d = Head(s) \/ d \in ToSet(Tail(s))
  <2> DEFINE u == Tail(s)
  <2>1. /\ u \in Seq(Conns) /\ DOMAIN u = 1..(Len(s) - 1) /\ Len(s) \in Nat \ {0}
        /\ DOMAIN s = 1..Len(s) /\ Head(s) = s[1] /\ Head(s) \in Conns
        /\ \A k \in 1..(Len(s) - 1) : u[k] = s[k + 1] /\ k + 1 \in 1..Len(s)
    BY <1>1, <1>2
  <2> HIDE DEF u
  <2>2. ASSUME NEW k \in DOMAIN s, k # 1 PROVE s[k] \in ToSet(u)
    <3>1. k - 1 \in 1..(Len(s) - 1) /\ (k - 1) + 1 = k
      BY <2>1, <2>2
    <3> QED
      BY <2>1, <3>1 DEF ToSet
  <2>3. ToSet(u) \subseteq ToSet(s) /\ Head(s) \in ToSet(s)
    <3>1. 1 \in DOMAIN s
      BY <2>1
    <3>2. Head(s) \in ToSet(s)
      BY <2>1, <3>1 DEF ToSet
    <3>3. \A k \in DOMAIN u : u[k] \in ToSet(s)
      BY <2>1 DEF ToSet
    <3>4. ToSet(u) \subseteq ToSet(s)
      BY <3>3 DEF ToSet
    <3> QED
      BY <3>2, <3>4
  <2>4. \A d \in ToSet(s) : d = Head(s) \/ d \in ToSet(u)
    BY <2>1, <2>2 DEF ToSet
  <2> QED
    BY <2>1, <2>3, <2>4 DEF u
<1>7. \A d \in Conns : ws[d] = "open" /\ ~dl[d] => d \in ToSet(Tail(s))
  BY <1>2, <1>5, <1>6
<1>8. ShutCall(ws, dl, x)
  BY <1>1, <1>2, <1>4, <1>6, <1>7 DEF ShutCall
<1>9. ShutStack(ws, dl, Push(x, << >>))
  BY <1>8, ShutBottom, ShutPush
<1>10. <<x>> = Push(x, << >>)
  BY DEF Push
<1> QED
  BY <1>2, <1>3, <1>6, <1>9, <1>10 DEF x, s

LEMMA ShutShutdownNext == ASSUME ShutInv, ShutdownNext PROVE ShutInv'
<1> DEFINE c == Head(Head(stack).rest)
           st == <<[Head(stack) EXCEPT !.rest = Tail(@)]>>
           dl == [closed EXCEPT ![c] = TRUE]
<1>1. /\ Top("shutdown") /\ Head(stack).rest # << >> /\ UNCHANGED <<ws, conns, active, process>>
      /\ \/ CloseWith(c, st)
         \/ c \notin ToSet(conns) /\ stack' = st /\ UNCHANGED <<closed, closeSent>>
  BY DEF ShutdownNext, hubVars, flags
<1>2. /\ closed \in [Conns -> BOOLEAN]
      /\ \A d \in Conns : ws[d] = "open" /\ ~closed[d] => d \in ToSet(conns)
      /\ c \in Conns
  <2>1. ShutCall(ws, closed, Head(stack))
    BY <1>1, ShutPop DEF ShutInv, Top
  <2> DEFINE s == Head(stack).rest
  <2>2. s \in Seq(Conns) /\ s # << >>
    BY <1>1, <2>1 DEF ShutCall, Top
  <2> HIDE DEF s
  <2>3. Head(s) \in Conns
    BY <2>2
  <2> QED
    BY <2>3 DEF ShutInv, ShutConn, ShutType, s
<1>3. \A d \in Conns : dl[d] <=> closed[d] \/ d = c
  BY <1>2
<1> HIDE DEF dl
<1>4. CASE CloseWith(c, st)
  <2>1. ShutStack(ws, dl, st) /\ (\A d : ~Ending(stack, d)) /\ ws[c] # "none"
    BY <1>1, <1>2, <1>3, ShutOnwards
  <2> HIDE DEF c, st
  <2> QED
    BY <1>1, <1>4, <2>1, ShutCloses DEF dl
<1>5. CASE c \notin ToSet(conns) /\ stack' = st /\ UNCHANGED <<closed, closeSent>>
  <2>1. ShutStack(ws, closed, st) /\ (\A d : ~Ending(stack, d))
    BY <1>1, <1>2, <1>5, ShutOnwards
  <2> HIDE DEF c, st
  <2> QED
    BY <1>1, <1>5, <2>1, ShutCalls
<1> QED
  BY <1>1, <1>4, <1>5

(* Answers of Redis and continuations begin with no call in progress. *)
LEMMA ShutPromise == ASSUME ShutInv, Promise \/ Resolve \/ Wait \/ (\E c \in Conns : Pong(c))
                     PROVE  ShutInv'
<1>1. CASE Resolve
  <2>1. /\ stack # << >> /\ Head(stack).op = "resolve" /\ stack' = Return(Tail(stack))
        /\ UNCHANGED <<ws, conns, active, process, closed, closeSent>>
    BY <1>1 DEF Resolve, Top, Below, hubVars, flags
  <2>2. /\ ShutStack(ws, closed, Return(Tail(stack)))
        /\ \A d : Ending(stack, d) => Ending(Return(Tail(stack)), d)
    BY <2>1, ShutBelow DEF ShutInv, Ends
  <2> QED
    BY <2>1, <2>2, ShutCalls
<1>2. CASE Answered \/ Failed \/ List \/ Wait \/ (\E c \in Conns : Pong(c))
  <2>1. UNCHANGED <<ws, conns, active, process, closed, closeSent, stack>>
    BY <1>2 DEF Answered, Failed, List, Wait, Pong, vars, loop, hubVars, flags
  <2> QED
    BY <2>1, ShutCalls DEF ShutInv
<1>3. CASE Announce
  <2> DEFINE k == Head(ready)
             f == Frame("new_member", k.room, {k.conn})
             st == IF k.ack
                   THEN Push(Call("resolve", k.conn, k.room, << >>, NoFrame), Caught)
                   ELSE << >>
  <2>1. /\ stack = << >> /\ stack' = EmitLocal(members[k.room], k.conn, f, st)
        /\ UNCHANGED <<ws, conns, active, process, closed, closeSent>>
    BY <1>3 DEF Announce, Continuation, Push, hubVars, flags
  <2>2. ShutStack(ws, closed, st)
    BY ShutBottom, ShutHandler
  <2> HIDE DEF k, f, st
  <2>3. ShutStack(ws, closed, stack')
    BY <2>1, <2>2, ShutHandler
  <2> QED
    BY <2>1, <2>3, ShutBottom, ShutCalls
<1>4. CASE Acknowledge
  <2> DEFINE k == Head(ready)
             f == Frame("join_ack", k.room, k.ids)
  <2>1. /\ stack = << >> /\ stack' = Send(k.conn, f, Caught)
        /\ UNCHANGED <<ws, conns, active, process, closed, closeSent>>
    BY <1>4 DEF Acknowledge, Continuation, hubVars, flags
  <2> HIDE DEF k, f
  <2>2. ShutStack(ws, closed, stack')
    BY <2>1, ShutBottom, ShutHandler
  <2> QED
    BY <2>1, <2>2, ShutBottom, ShutCalls
<1> QED
  BY <1>1, <1>2, <1>3, <1>4 DEF Promise

(* So do the events: messages, *)
LEMMA ShutMessage ==
    ASSUME ShutInv, NEW c \in Conns, NEW r \in Rooms, NEW d \in Conns,
           \/ Join(c, r) \/ Leave(c, r) \/ Broadcast(c, r) \/ Direct(c, d) \/ Kick(c, d)
           \/ Malformed(c) \/ Unicast(d) \/ Incoming(r)
    PROVE  ShutInv'
<1>1. /\ stack = << >> /\ UNCHANGED <<ws, conns, active, process>>
      /\ \/ stack' = << >> /\ UNCHANGED flags
         \/ LeaveRoom(r, c, Send(c, Frame("leave_ack", r, {c}), Caught)) /\ UNCHANGED flags
         \/ /\ UNCHANGED flags
            /\ \E ms, e, f : \E st \in {<< >>, Caught} : stack' = EmitLocal(ms, e, f, st)
         \/ /\ UNCHANGED flags
            /\ \E f : \E st \in {<< >>, Caught} : stack' = Send(d, f, st)
         \/ CloseWith(d, Caught) /\ d \in ToSet(conns)
         \/ CloseWith(c, << >>) /\ ws[c] # "none"
  BY DEF Join, Leave, Broadcast, Direct, Kick, Malformed, Unicast, Incoming, Receives, Input,
         Event, Idle, loop, hubVars
<1>2. ShutStack(ws, closed, << >>) /\ ShutStack(ws, closed, Caught) /\ \A x : ~Ending(stack, x)
  BY <1>1, ShutBottom
<1>3. CASE stack' = << >> /\ UNCHANGED flags
  BY <1>1, <1>2, <1>3, ShutCalls DEF flags
<1>4. CASE LeaveRoom(r, c, Send(c, Frame("leave_ack", r, {c}), Caught)) /\ UNCHANGED flags
  <2> DEFINE st == Send(c, Frame("leave_ack", r, {c}), Caught)
  <2>1. ShutStack(ws, closed, st)
    BY <1>2, ShutHandler
  <2>2. LeaveRoom(r, c, st)
    BY <1>4
  <2> HIDE DEF st
  <2> QED
    BY <1>1, <1>2, <1>4, <2>1, <2>2, ShutLeaveRoom
<1>5. CASE /\ UNCHANGED flags
           /\ \E ms, e, f : \E st \in {<< >>, Caught} : stack' = EmitLocal(ms, e, f, st)
  <2>1. ShutStack(ws, closed, stack')
    BY <1>2, <1>5, ShutHandler
  <2> QED
    BY <1>1, <1>2, <1>5, <2>1, ShutCalls DEF flags
<1>6. CASE UNCHANGED flags /\ \E f : \E st \in {<< >>, Caught} : stack' = Send(d, f, st)
  <2>1. ShutStack(ws, closed, stack')
    BY <1>2, <1>6, ShutHandler
  <2> QED
    BY <1>1, <1>2, <1>6, <2>1, ShutCalls DEF flags
<1>7. CASE CloseWith(d, Caught) /\ d \in ToSet(conns)
  <2>1. ws[d] # "none"
    BY <1>7 DEF ShutInv, ShutConn
  <2> QED
    BY <1>1, <1>2, <1>7, <2>1, ShutCloses, ShutCloser
<1>8. CASE CloseWith(c, << >>) /\ ws[c] # "none"
  BY <1>1, <1>2, <1>8, ShutCloses, ShutCloser
<1> QED
  BY <1>1, <1>3, <1>4, <1>5, <1>6, <1>7, <1>8

(* connections, *)
LEMMA ShutConnect == ASSUME ShutInv, NEW c \in Conns, Connect(c) \/ Refuse(c) PROVE ShutInv'
<1>1. /\ stack = << >> /\ stack' = << >> /\ ws[c] = "none"
      /\ UNCHANGED <<process, closed, closeSent>>
      /\ \/ /\ ws' = [ws EXCEPT ![c] = "open"]
            /\ active' = AddKey(active, c) /\ conns' = AddKey(conns, c)
         \/ ws' = [ws EXCEPT ![c] = "closed"] /\ UNCHANGED <<active, conns>>
  BY DEF Connect, Refuse, Event, Idle, loop, hubVars, flags
<1>2. ShutType /\ \A d \in Conns : ShutConn(d)
  BY DEF ShutInv
<1>3. /\ conns' \in Keys(Conns) /\ active' \in Keys(Conns)
      /\ \A d \in ToSet(conns) : d \in ToSet(conns')
      /\ \A d \in ToSet(conns') : d \in ToSet(conns) \/ d = c
      /\ \A d \in ToSet(active') : d \in ToSet(active) \/ d = c
      /\ ws'[c] = "open" => c \in ToSet(conns')
  BY <1>1, <1>2, AddKeyIsUnion DEF ShutType
<1>4. /\ ws' \in [Conns -> {"none", "open", "closing", "ending", "closed"}]
      /\ ws'[c] # "none" /\ \A d \in Conns : d # c => ws'[d] = ws[d]
  BY <1>1, <1>2 DEF ShutType
<1>5. ShutType'
  BY <1>1, <1>2, <1>3, <1>4 DEF ShutType
<1>6. ASSUME NEW d \in Conns PROVE ShutConn(d)'
  <2>1. ShutConn(d) /\ ShutConn(c)
    BY <1>2
  <2>2. Sane' <=> Sane
    BY <1>1 DEF Sane
  <2>3. ~Ending(stack, d)
    BY <1>1, ShutBottom
  <2>4. CASE d = c
    BY <1>1, <1>3, <1>4, <2>1, <2>4 DEF ShutConn
  <2>5. CASE d # c
    BY <1>1, <1>3, <1>4, <2>1, <2>2, <2>3, <2>5 DEF ShutConn
  <2> QED
    BY <2>4, <2>5
<1>7. ShutStack(ws', closed', stack')
  <2> DEFINE v == ws'
             dl == closed'
  <2> HIDE DEF v, dl
  <2>1. ShutStack(v, dl, << >>)
    BY ShutBottom
  <2> QED
    BY <1>1, <2>1 DEF v, dl
<1> QED
  BY <1>1, <1>5, <1>6, <1>7 DEF ShutInv

(* their ends, *)
LEMMA ShutSocketEnds ==
    ASSUME ShutInv, NEW c \in Conns, PeerCloses(c) \/ CloseEvent(c) \/ ErrorEvent(c)
    PROVE  ShutInv'
<1> DEFINE y == Call("leaveAll", c, Root, joined[c], NoFrame)
           x == Call("cleanup", c, Root, <<c>>, NoFrame)
<1>1. /\ stack = << >> /\ ws[c] # "none"
      /\ UNCHANGED <<process, closeSent, conns>>
      /\ \E s \in {"ending", "closed"} : ws' = [ws EXCEPT ![c] = s]
      /\ active' = DeleteKey(active, c) \/ UNCHANGED active
      /\ \/ stack' = << >> /\ UNCHANGED closed
         \/ closed' = [closed EXCEPT ![c] = TRUE] /\ stack' = Loop(y, Push(x, << >>))
  BY DEF PeerCloses, CloseEvent, ErrorEvent, Cleanup, Input, Event, Idle, loop, hubVars, flags, Push
<1>2. ShutType /\ \A d \in Conns : ShutConn(d)
  BY DEF ShutInv
<1>3. /\ active' \in Keys(Conns) /\ \A d \in ToSet(active') : d \in ToSet(active)
  BY <1>1, <1>2, DeleteKeyIsMinus DEF ShutType
<1>4. /\ ws' \in [Conns -> {"none", "open", "closing", "ending", "closed"}]
      /\ ws'[c] \notin {"none", "open"} /\ \A d \in Conns : d # c => ws'[d] = ws[d]
  BY <1>1, <1>2 DEF ShutType
<1>5. /\ closed' \in [Conns -> BOOLEAN]
      /\ \A d \in Conns : (closed[d] => closed'[d]) /\ (d # c => closed'[d] = closed[d])
      /\ UNCHANGED closed \/ closed'[c]
  BY <1>1, <1>2 DEF ShutType
<1>6. ShutType'
  BY <1>1, <1>2, <1>3, <1>4, <1>5 DEF ShutType
<1>7. ASSUME NEW d \in Conns PROVE ShutConn(d)'
  <2>1. ShutConn(d) /\ Sane' = Sane
    BY <1>1, <1>2 DEF Sane
  <2>2. ~Ending(stack, d)
    BY <1>1, ShutBottom
  <2>3. CASE d = c
    BY <1>1, <1>4, <1>5, <2>1, <2>3 DEF ShutConn
  <2>4. CASE d # c
    BY <1>1, <1>3, <1>4, <1>5, <2>1, <2>2, <2>4 DEF ShutConn
  <2> QED
    BY <2>3, <2>4
<1>8. ShutStack(ws', closed', stack')
  <2> DEFINE v == ws'
             dl == closed'
  <2>1. (dl[c] /\ v[c] # "open") \/ stack' = << >>
    BY <1>1, <1>2, <1>4 DEF ShutType
  <2>2. stack' = << >> \/ stack' = Loop(y, Push(x, << >>))
    BY <1>1
  <2> HIDE DEF v, dl
  <2>3. ShutStack(v, dl, << >>)
    BY ShutBottom
  <2>4. ASSUME dl[c], v[c] # "open" PROVE ShutStack(v, dl, Loop(y, Push(x, << >>)))
    <3>1. IsCall(x) /\ x.op = "cleanup" /\ x.conn = c
      BY MadeCall
    <3>2. ShutCall(v, dl, y) /\ y.op = "leaveAll"
      BY ShutOther
    <3> HIDE DEF x, y
    <3>3. ShutCall(v, dl, x)
      BY <2>4, <3>1 DEF ShutCall
    <3>4. ShutStack(v, dl, Push(x, << >>))
      BY <2>3, <3>1, <3>3, ShutPush
    <3> QED
      BY <3>2, <3>4, ShutLoop
  <2>5. ShutStack(v, dl, stack')
    BY <2>1, <2>2, <2>3, <2>4
  <2> QED
    BY <2>5 DEF v, dl
<1> QED
  BY <1>1, <1>6, <1>7, <1>8 DEF ShutInv

(* and the two loops over connections. *)
LEMMA ShutTimer == ASSUME ShutInv, Timer \/ Shutdown PROVE ShutInv'
<1> DEFINE x == Call("timer", None, Root, active, NoFrame)
           y == Call("shutdown", None, Root, conns, NoFrame)
<1>1. /\ stack = << >> /\ UNCHANGED <<ws, conns, active, process, closed, closeSent>>
      /\ (stack' = <<x>> /\ active # << >>) \/ stack' = <<y>>
  BY DEF Timer, Shutdown, Event, Idle, hubVars, flags
<1>2. /\ active \in Seq(Conns) /\ conns \in Seq(Conns)
      /\ \A c \in ToSet(active) \cup ToSet(conns) : ws[c] # "none"
      /\ \A c \in Conns : ws[c] = "open" /\ ~closed[c] => c \in ToSet(conns)
  <2>1. active \in Seq(Conns) /\ conns \in Seq(Conns)
    BY DEF ShutInv, ShutType, Keys
  <2>2. ToSet(active) \subseteq Conns /\ ToSet(conns) \subseteq Conns
    BY <2>1 DEF ToSet
  <2> QED
    BY <2>1, <2>2 DEF ShutInv, ShutConn
<1>3. /\ IsCall(x) /\ x.op = "timer" /\ x.rest = active
      /\ IsCall(y) /\ y.op = "shutdown" /\ y.rest = conns
  BY MadeCall
<1> HIDE DEF x, y
<1>4. (active # << >> => ShutCall(ws, closed, x)) /\ ShutCall(ws, closed, y)
  BY <1>2, <1>3 DEF ShutCall
<1>5. /\ active # << >> => ShutStack(ws, closed, Push(x, << >>))
      /\ ShutStack(ws, closed, Push(y, << >>))
  BY <1>4, ShutBottom, ShutPush
<1>6. Push(x, << >>) = <<x>> /\ Push(y, << >>) = <<y>>
  BY DEF Push
<1>7. ShutStack(ws, closed, stack')
  BY <1>1, <1>5, <1>6
<1> QED
  BY <1>1, <1>7, ShutBottom, ShutCalls

(* What shutdown finds when it is through: a socket that is still open is   *)
(* that of a closed connection, and its own call is the only one.           *)
LEMMA ShutThrough ==
    ASSUME ShutInv, ShutdownEnds
    PROVE  /\ \A c \in Conns : ws[c] = "open" => closed[c] /\ process = "threw"
           /\ stack # << >> /\ process # "crashed"
<1>1. Top("shutdown") /\ Head(stack).rest = << >> /\ stack # << >> /\ process # "crashed"
  BY DEF ShutdownEnds, Top
<1>2. /\ ShutCall(ws, closed, Head(stack)) /\ Tail(stack) = << >>
      /\ Head(stack).op = "shutdown"
      /\ \A d : Ending(stack, d) <=> Ends(Head(stack), d) \/ Ending(Tail(stack), d)
  BY <1>1, ShutPop DEF ShutInv, Top
<1>3. \A d : ~Ending(stack, d)
  BY <1>2, ShutBottom DEF Ends
<1>4. ToSet(Head(stack).rest) = {}
  BY <1>1 DEF ToSet
<1>5. \A d \in Conns : ws[d] = "open" => closed[d]
  BY <1>2, <1>4 DEF ShutCall
<1>6. \A d \in Conns : ws[d] = "open" => ~Sane
  BY <1>3, <1>5 DEF ShutInv, ShutConn
<1> QED
  BY <1>1, <1>5, <1>6 DEF ShutInv, Sane

LEMMA ShutShutdownEnds == ASSUME ShutInv, ShutdownEnds PROVE ShutInv'
<1>1. /\ UNCHANGED <<ws, active, closed, closeSent>> /\ conns' = << >> /\ stack' = << >>
      /\ process' = IF process = "up" THEN "down" ELSE process
  BY DEF ShutdownEnds, flags
<1>2. \A c \in Conns : ws[c] = "open" => closed[c] /\ process = "threw"
  BY ShutThrough
<1>3. conns' \in Keys(Conns) /\ ToSet(conns') = {}
  BY <1>1 DEF Keys, ToSet
<1>4. ShutType'
  BY <1>1, <1>3 DEF ShutInv, ShutType
<1>5. ASSUME NEW c \in Conns PROVE ShutConn(c)'
  <2>1. ShutConn(c)
    BY DEF ShutInv
  <2>2. ws[c] = "open" => closed[c] /\ ~Sane'
    BY <1>1, <1>2 DEF Sane
  <2> QED
    BY <1>1, <1>3, <2>1, <2>2 DEF ShutConn
<1>6. ShutStack(ws, closed, stack')
  BY <1>1, ShutBottom
<1>7. process' \in {"up", "down", "threw", "crashed"}
  BY <1>1 DEF ShutInv
<1> QED
  BY <1>1, <1>4, <1>5, <1>6, <1>7 DEF ShutInv

LEMMA ShutInit == ASSUME Init PROVE ShutInv
<1>1. ShutStack(ws, closed, stack)
  BY ShutBottom DEF Init
<1>2. conns = << >> /\ active = << >> /\ << >> \in Keys(Conns) /\ ToSet(<< >>) = {}
  BY DEF Init, Keys, ToSet
<1>3. ShutType
  BY <1>2 DEF Init, ShutType
<1>4. ASSUME NEW c \in Conns PROVE ShutConn(c)
  BY <1>2 DEF Init, ShutConn
<1> QED
  BY <1>1, <1>3, <1>4 DEF Init, ShutInv

LEMMA ShutStep == ASSUME ShutInv, [Next]_vars PROVE ShutInv'
<1>1. CASE Step
  BY <1>1, ShutEmitNext, ShutEmitThrows, ShutSendNext, ShutLeaveNext, ShutCloseSocket,
     ShutHeartbeatNext, ShutShutdownNext, ShutShutdownEnds, ShutPromise DEF Step
<1>2. CASE Promise \/ Wait
  BY <1>2, ShutPromise
<1>3. CASE Timer \/ Shutdown
  BY <1>3, ShutTimer
<1>4. ASSUME NEW c \in Conns, Client(c) PROVE ShutInv'
  <2>1. CASE Connect(c) \/ Refuse(c)
    BY <2>1, ShutConnect
  <2>2. CASE PeerCloses(c) \/ CloseEvent(c) \/ ErrorEvent(c)
    BY <2>2, ShutSocketEnds
  <2>3. CASE Pong(c)
    BY <2>3, ShutPromise
  <2>4. CASE Malformed(c)
    BY <2>4, ShutMessage, RootAssumption
  <2>5. ASSUME NEW r \in Rooms, Join(c, r) \/ Leave(c, r) \/ Broadcast(c, r) PROVE ShutInv'
    BY <2>5, ShutMessage
  <2>6. ASSUME NEW d \in Conns, Direct(c, d) \/ Kick(c, d) PROVE ShutInv'
    BY <2>6, ShutMessage, RootAssumption
  <2> QED
    BY <1>4, <2>1, <2>2, <2>3, <2>4, <2>5, <2>6 DEF Client
<1>5. ASSUME NEW c \in Conns, Unicast(c) PROVE ShutInv'
  BY <1>5, ShutMessage, RootAssumption
<1>6. ASSUME NEW r \in Rooms, Incoming(r) PROVE ShutInv'
  <2>1. CASE \E c \in Conns : TRUE
    BY <1>6, <2>1, ShutMessage
  <2>2. CASE ~\E c \in Conns : TRUE
    <3>1. /\ stack = << >> /\ UNCHANGED <<ws, conns, active, process, closed, closeSent>>
          /\ stack' = EmitLocal(members[r], None, Frame("data", r, {}), << >>)
      BY <1>6 DEF Incoming, Input, Event, Idle, hubVars, flags
    <3>2. ShutStack(ws, closed, stack')
      BY <3>1, ShutBottom, ShutHandler
    <3> QED
      BY <2>2, <3>1, <3>2, ShutCalls
  <2> QED
    BY <2>1, <2>2
<1>7. CASE UNCHANGED vars
  <2>1. UNCHANGED <<ws, conns, active, process, closed, closeSent, stack>>
    BY <1>7 DEF vars, loop, hubVars, flags
  <2> QED
    BY <2>1, ShutCalls DEF ShutInv
<1> QED
  BY <1>1, <1>2, <1>3, <1>4, <1>5, <1>6, <1>7 DEF Next

(* hub.shutdown leaves no connection unclosed, whatever its announcements   *)
(* have closed or thrown before it came to them, for any number of          *)
(* connections and of slow clients, late frames or none.  A socket it       *)
(* leaves open is that of a connection whose close_with an exception broke  *)
(* off between its flags and ws.close.                                      *)
THEOREM ShutdownClosesEveryone == Spec => ShutdownClosesAll
<1>1. Spec => []ShutInv
  <2>1. Init => ShutInv
    BY ShutInit
  <2>2. ShutInv /\ [Next]_vars => ShutInv'
    BY ShutStep
  <2> QED
    BY <2>1, <2>2, PTL DEF Spec
<1>2. ShutInv => (ShutdownEnds => \A c \in Conns : ws[c] = "open" => closed[c] /\ process = "threw")
  BY ShutThrough
<1> QED
  BY <1>1, <1>2, PTL DEF ShutdownClosesAll

=============================================================================

---------------------------- MODULE GoConnProofs ----------------------------
(***************************************************************************)
(* Types, the single close frame, the order of messages and the worth of    *)
(* TrySend's answer, for any number of producers, messages and closers, any *)
(* capacity and any policy.                                                 *)
(*                                                                         *)
(* OneCloseFrame is not inductive by itself: that nobody else is let        *)
(* through to the frame follows from closeSent, which is set before anyone  *)
(* writes and never cleared (ClaimedInv).  TypeOK needs BusyInv: a producer *)
(* inside TrySend has a message, and so has writePump when it writes.       *)
(*                                                                         *)
(* Nor are InOrder, NoSilentLoss and OldestEvicted.  A message accepted now *)
(* goes behind its producer's others only because none of them is as young  *)
(* as the one TrySend is still to answer for (AnswerInv); a message moves   *)
(* from the buffer to the wire unseen by the others only because writePump  *)
(* has none in hand when it takes the next (TakenInv).                      *)
(***************************************************************************)
EXTENDS GoConn, TLAPS

(* closeSent is set from the moment a goroutine is let through to the close *)
(* frame, in CloseWith or in writePump, and stays set.                      *)
ClaimedInv ==
    (frames # << >> \/ \E k \in Closers : cpc[k] = "write") => closeSent

(* Nobody is in the middle of TrySend, or of writePump's write, without a   *)
(* message.                                                                 *)
BusyInv ==
    /\ \A p \in Producers : ppc[p] # "idle" => count[p] \in 1..MaxSends
    /\ cpc[Writer] = "got" => inHand \in Messages

ConnInv == TypeOK /\ BusyInv /\ ClaimedInv /\ OneCloseFrame

USE CapacityAssumption, SendsAssumption, PolicyAssumption, CodeAssumption,
    RoleAssumption, FailAssumption

-----------------------------------------------------------------------------
(* A caller's own code and the recorded one are both close codes. *)
LEMMA CodeTypes ==
    ASSUME closeCode \in Codes, NEW k \in Closers
    PROVE  FrameCode(k) \in Codes /\ (k # Writer => Asked(k) \in Codes)
  BY DEF FrameCode, Asked, Codes, Closers

(* newConnection establishes the invariant. *)
LEMMA ConnInvInit == Init => ConnInv
<1> SUFFICES ASSUME Init PROVE ConnInv
  OBVIOUS
<1>1. TypeOK
  <2>1. /\ queue \in Seq(Messages) /\ delivered \in Seq(Messages)
        /\ frames \in Seq(Codes) /\ Len(queue) <= Capacity
    BY DEF Init
  <2>2. /\ count \in [Producers -> 0..MaxSends] /\ ppc \in [Producers -> ProducerPC]
        /\ cpc \in [Closers -> CloserPC] /\ closeCode \in Codes
    BY DEF Init, ProducerPC, CloserPC, Codes
  <2> QED
    BY <2>1, <2>2 DEF Init, TypeOK
<1>2. BusyInv /\ ClaimedInv /\ OneCloseFrame
  BY DEF Init, BusyInv, ClaimedInv, OneCloseFrame, Closers
<1> QED
  BY <1>1, <1>2 DEF ConnInv

(* Every step of a producer inside TrySend keeps the types, and the buffer  *)
(* within its capacity.                                                     *)
LEMMA ProduceType ==
    ASSUME TypeOK, BusyInv, NEW p \in Producers, TrySend(p) \/ Produce(p)
    PROVE  TypeOK' /\ BusyInv'
<1> USE DEF TypeOK, BusyInv, ProducerPC, closeVars, outVars
<1>1. Slow \in Closers /\ "code" \in CloserPC /\ Slow # Writer
  BY DEF Closers, CloserPC
<1>2. CASE TrySend(p)
  BY <1>2 DEF TrySend
<1>3. ASSUME ppc[p] # "idle" PROVE Current(p) \in Messages
  BY <1>3 DEF Current, Messages
<1>4. CASE SelectSend(p)
  BY <1>3, <1>4 DEF SelectSend, Accept
<1>5. CASE SelectDone(p)
  BY <1>5 DEF SelectDone
<1>6. CASE SelectSlow(p)
  BY <1>1, <1>3, <1>6 DEF SelectSlow, BufferFull
<1>7. CASE SelectNewest(p)
  BY <1>3, <1>7 DEF SelectNewest, BufferFull
<1>8. CASE SelectOldest(p)
  BY <1>8 DEF SelectOldest, BufferFull
<1>9. CASE Evict(p)
  BY <1>9 DEF Evict
<1>10. CASE Retry(p)
  <2>1. CASE Len(queue) < Capacity /\ Accept(p) /\ UNCHANGED refused
    BY <1>3, <1>10, <2>1 DEF Retry, Accept
  <2>2. CASE ~(Len(queue) < Capacity /\ Accept(p) /\ UNCHANGED refused)
    BY <1>3, <1>10, <2>2 DEF Retry
  <2> QED
    BY <2>1, <2>2
<1> HIDE DEF TypeOK, BusyInv
<1> QED
  BY <1>2, <1>4, <1>5, <1>6, <1>7, <1>8, <1>9, <1>10 DEF Produce

(* So does every step of a closer. *)
LEMMA CloseType ==
    ASSUME TypeOK, BusyInv, NEW k \in Closers, CloseWith(k) \/ Close(k)
    PROVE  TypeOK' /\ BusyInv'
<1> USE DEF TypeOK, BusyInv, producerVars, closeVars, outVars, Goto, CloserPC
<1>1. CASE CloseWith(k)
  BY <1>1, CodeTypes DEF CloseWith
<1>2. CASE ClaimClose(k)
  BY <1>2 DEF ClaimClose
<1>3. CASE WriteClose(k)
  <2>1. frames' \in Seq(Codes)
    <3>1. CASE frames' = Append(frames, FrameCode(k))
      BY <3>1, CodeTypes
    <3>2. CASE frames' = frames
      BY <3>2
    <3> QED
      BY <1>3, <3>1, <3>2 DEF WriteClose
  <2> QED
    BY <1>3, <2>1 DEF WriteClose
<1>4. CASE CleanupFirst(k)
  BY <1>4 DEF CleanupFirst
<1>5. CASE CleanupEnds(k)
  <2>1. cpc' \in [Closers -> CloserPC] /\ BusyInv'
    BY <1>5 DEF CleanupEnds
  <2> QED
    BY <1>5, <2>1 DEF CleanupEnds
<1>6. CASE CleanupAgain(k)
  <2>1. cpc' \in [Closers -> CloserPC] /\ BusyInv'
    BY <1>6 DEF CleanupAgain
  <2> QED
    BY <1>6, <2>1 DEF CleanupAgain
<1> HIDE DEF TypeOK, BusyInv
<1> QED
  BY <1>1, <1>2, <1>3, <1>4, <1>5, <1>6 DEF Close

(* And so do the pumps. *)
LEMMA PumpType ==
    ASSUME TypeOK, BusyInv, ReadFails \/ WritePump \/ PingFails
    PROVE  TypeOK' /\ BusyInv'
<1> USE DEF TypeOK, BusyInv, producerVars, closeVars, outVars, Goto, CloserPC
<1>1. Reader \in Closers /\ Writer \in Closers
  BY DEF Closers
<1>2. CASE ReadFails \/ PingFails \/ WriterSeesDone
  BY <1>1, <1>2 DEF ReadFails, PingFails, WriterSeesDone
<1>3. CASE Receive
  BY <1>1, <1>3 DEF Receive
<1>4. CASE WriteMessage
  <2>1. inHand \in Messages
    BY <1>4 DEF WriteMessage
  <2>2. CASE delivered' = Append(delivered, inHand) /\ Goto(Writer, "idle")
    BY <1>1, <1>4, <2>1, <2>2 DEF WriteMessage
  <2>3. CASE UNCHANGED delivered /\ Goto(Writer, "clean")
    BY <1>1, <1>4, <2>3 DEF WriteMessage
  <2> QED
    BY <1>4, <2>2, <2>3 DEF WriteMessage
<1> HIDE DEF TypeOK, BusyInv
<1> QED
  BY <1>2, <1>3, <1>4 DEF WritePump

(* No step lets a second goroutine through to the close frame. *)
LEMMA FrameStep ==
    ASSUME TypeOK, ClaimedInv, OneCloseFrame, [Next]_vars
    PROVE  ClaimedInv' /\ OneCloseFrame'
<1> USE DEF ClaimedInv, OneCloseFrame, TypeOK, closeVars, outVars, Goto
<1>1. CASE UNCHANGED <<cpc, closeSent, frames>>
  BY <1>1
<1>2. ASSUME NEW p \in Producers, SelectSlow(p)
      PROVE  ClaimedInv' /\ OneCloseFrame'
  BY <1>2 DEF SelectSlow, Closers
<1>3. ASSUME NEW k \in Closers, CloseWith(k) \/ CleanupFirst(k) \/ CleanupEnds(k)
                                  \/ CleanupAgain(k)
      PROVE  ClaimedInv' /\ OneCloseFrame'
  BY <1>3 DEF CloseWith, CleanupFirst, CleanupEnds, CleanupAgain
<1>4. ASSUME NEW k \in Closers, ClaimClose(k)
      PROVE  ClaimedInv' /\ OneCloseFrame'
  BY <1>4 DEF ClaimClose
<1>5. ASSUME NEW k \in Closers, WriteClose(k)
      PROVE  ClaimedInv' /\ OneCloseFrame'
  <2>1. cpc[k] = "write" /\ frames = << >> /\ closeSent
    BY <1>5 DEF WriteClose
  <2>2. \A l \in Closers : cpc'[l] # "write"
    BY <1>5, <2>1 DEF WriteClose
  <2>3. frames' = << >> \/ frames' = Append(frames, FrameCode(k))
    BY <1>5, <2>1 DEF WriteClose
  <2>4. frames' # << >> => Len(frames') = 1
    BY <2>1, <2>3
  <2> QED
    BY <1>5, <2>1, <2>2, <2>4 DEF WriteClose
<1>6. CASE ReadFails \/ WritePump \/ PingFails
  BY <1>6 DEF ReadFails, WritePump, Receive, WriteMessage, WriterSeesDone,
              PingFails, Closers
<1>7. ASSUME NEW p \in Producers, TrySend(p) \/ Produce(p), ~SelectSlow(p)
      PROVE  UNCHANGED <<cpc, closeSent, frames>>
  BY <1>7 DEF TrySend, Produce, SelectSend, SelectDone, SelectNewest,
              SelectOldest, Evict, Retry
<1>8. ASSUME AllEnded \/ UNCHANGED vars PROVE UNCHANGED <<cpc, closeSent, frames>>
  BY <1>8 DEF AllEnded, vars
<1> HIDE DEF ClaimedInv, OneCloseFrame, TypeOK
<1> QED
  BY <1>1, <1>2, <1>3, <1>4, <1>5, <1>6, <1>7, <1>8 DEF Next, Close

(* The invariant is preserved. *)
LEMMA ConnInvStep == ConnInv /\ [Next]_vars => ConnInv'
<1> SUFFICES ASSUME ConnInv, [Next]_vars PROVE ConnInv'
  OBVIOUS
<1>1. ClaimedInv' /\ OneCloseFrame'
  BY FrameStep DEF ConnInv
<1>2. CASE AllEnded \/ UNCHANGED vars
  BY <1>2 DEF AllEnded, vars, producerVars, closeVars, outVars, ConnInv, TypeOK,
              BusyInv, ClaimedInv, OneCloseFrame
<1>3. CASE Next /\ ~AllEnded
  BY <1>1, <1>3, ProduceType, CloseType, PumpType DEF ConnInv, Next
<1> QED
  BY <1>2, <1>3

-----------------------------------------------------------------------------
(* TrySend, CloseWith, cleanup and the pumps keep every variable in its     *)
(* type; in particular the buffer never holds more than ChannelCapacity.    *)
THEOREM ConnTypeCorrect == Spec => []TypeOK
<1>1. ConnInv => TypeOK
  BY DEF ConnInv
<1> QED
  BY <1>1, ConnInvInit, ConnInvStep, PTL DEF Spec

(* "Strict single-close frame guarantees": however many callers of          *)
(* Disconnect, slow-client goroutines and pumps meet, at most one of them   *)
(* writes a close frame, and at most one frame is on the wire.              *)
THEOREM SingleCloseFrame == Spec => []OneCloseFrame
<1>1. ConnInv => OneCloseFrame
  BY DEF ConnInv
<1> QED
  BY <1>1, ConnInvInit, ConnInvStep, PTL DEF Spec

-----------------------------------------------------------------------------
(* Messages: the order they keep and what TrySend's answer is worth *)

Elements(s) == {s[i] : i \in 1..Len(s)}

(* x may be ahead of y: they are of different producers, or x is older. *)
Before(x, y) == x[1] = y[1] => x[2] < y[2]

Sorted(s) == \A i, j \in 1..Len(s) : i < j => Before(s[i], s[j])

Hand == IF inHand = << >> THEN {} ELSE {inHand}

(* The messages delivered or on their way. *)
Going == Elements(delivered) \cup Hand \cup Elements(queue)

(* writePump has not returned. *)
AtWork == cpc[Writer] \in {"idle", "got"}

(* The pipeline is in order within and across its three parts. *)
OrderInv ==
    /\ Sorted(delivered) /\ Sorted(queue)
    /\ \A x \in Elements(delivered), y \in Hand \cup Elements(queue) : Before(x, y)
    /\ \A x \in Hand, y \in Elements(queue) : Before(x, y)

(* TrySend has answered once for each message, and not yet for the one its  *)
(* producer is sending; only what it answered true for is on its way.       *)
AnswerInv ==
    /\ Going \subseteq accepted
    /\ accepted \cap refused = {}
    /\ \A m \in accepted \cup refused :
          /\ m[2] <= count[m[1]]
          /\ ppc[m[1]] # "idle" => m[2] < count[m[1]]

(* Who may take a message away: writePump holds one only while it writes,   *)
(* and producers evict under DropOldest only.                               *)
TakenInv ==
    /\ cpc[Writer] # "got" => inHand = << >>
    /\ \A p \in Producers : ppc[p] \in {"evict", "retry"} => policy = "DropOldest"

(* Before writePump returns, a message given up is older than what its      *)
(* producer has in the buffer, and given up under DropOldest.               *)
GivenUpInv ==
    AtWork => \A m \in accepted \ Going :
        policy = "DropOldest" /\ \A y \in Elements(queue) : Before(m, y)

FlowInv == OrderInv /\ AnswerInv /\ TakenInv /\ GivenUpInv

(* What Append does to the elements of a sequence and their order. *)
LEMMA SortedAppend ==
    ASSUME NEW s \in Seq(Messages), NEW x \in Messages, Sorted(s),
           \A y \in Elements(s) : Before(y, x)
    PROVE  /\ Elements(Append(s, x)) = Elements(s) \cup {x}
           /\ Sorted(Append(s, x))
<1> DEFINE t == Append(s, x)
<1>1. /\ Len(t) = Len(s) + 1 /\ Len(s) \in Nat
      /\ \A i \in 1..Len(s) : t[i] = s[i]
      /\ t[Len(s) + 1] = x
  OBVIOUS
<1> HIDE DEF t
<1>2. Elements(t) = Elements(s) \cup {x}
  BY <1>1 DEF Elements
<1>3. ASSUME NEW i \in 1..Len(t), NEW j \in 1..Len(t), i < j PROVE Before(t[i], t[j])
  <2>1. i \in 1..Len(s)
    BY <1>1, <1>3
  <2>2. CASE j \in 1..Len(s)
    BY <1>1, <1>3, <2>1, <2>2 DEF Sorted
  <2>3. CASE j = Len(s) + 1
    BY <1>1, <2>1, <2>3 DEF Elements
  <2> QED
    BY <1>1, <2>2, <2>3
<1> QED
  BY <1>2, <1>3 DEF t, Sorted

(* And what Tail does: the head is before all the rest. *)
LEMMA SortedTail ==
    ASSUME NEW s \in Seq(Messages), s # << >>, Sorted(s)
    PROVE  /\ Elements(s) = {Head(s)} \cup Elements(Tail(s))
           /\ Sorted(Tail(s))
           /\ \A y \in Elements(Tail(s)) : Before(Head(s), y)
<1> DEFINE t == Tail(s)
<1>1. /\ Len(s) \in Nat /\ Len(s) > 0 /\ Len(t) = Len(s) - 1
      /\ \A i \in 1..Len(t) : t[i] = s[i + 1]
      /\ Head(s) = s[1]
  OBVIOUS
<1> HIDE DEF t
<1>2. \A i \in 1..Len(t) : i + 1 \in 1..Len(s) /\ i + 1 > 1
  BY <1>1
<1>3. Elements(s) = {Head(s)} \cup Elements(t)
  <2>1. ASSUME NEW i \in 1..Len(s), i # 1 PROVE s[i] \in Elements(t)
    <3>1. i - 1 \in 1..Len(t) /\ (i - 1) + 1 = i
      BY <1>1, <2>1
    <3> QED
      BY <1>1, <3>1 DEF Elements
  <2>2. 1 \in 1..Len(s)
    BY <1>1
  <2>3. Elements(s) \subseteq {Head(s)} \cup Elements(t)
    BY <1>1, <2>1 DEF Elements
  <2>4. {Head(s)} \cup Elements(t) \subseteq Elements(s)
    BY <1>1, <1>2, <2>2 DEF Elements
  <2> QED
    BY <2>3, <2>4
<1>4. Sorted(t)
  <2>1. ASSUME NEW i \in 1..Len(t), NEW j \in 1..Len(t), i < j PROVE Before(t[i], t[j])
    <3>1. i + 1 < j + 1
      BY <1>1, <2>1
    <3> QED
      BY <1>1, <1>2, <3>1 DEF Sorted
  <2> QED
    BY <2>1 DEF Sorted
<1>5. \A y \in Elements(t) : Before(Head(s), y)
  <2>1. 1 \in 1..Len(s)
    BY <1>1
  <2>2. \A i \in 1..Len(t) : Before(s[1], s[i + 1])
    BY <1>2, <2>1 DEF Sorted
  <2> QED
    BY <1>1, <2>2 DEF Elements
<1> QED
  BY <1>3, <1>4, <1>5 DEF t

(* The elements and the order of two sequences one after the other. *)
LEMMA SortedConcat ==
    ASSUME NEW s \in Seq(Messages), NEW t \in Seq(Messages)
    PROVE  /\ s \o t \in Seq(Messages)
           /\ Elements(s \o t) = Elements(s) \cup Elements(t)
           /\ Sorted(s) /\ Sorted(t) /\ (\A x \in Elements(s), y \in Elements(t) : Before(x, y))
                => Sorted(s \o t)
<1> DEFINE u == s \o t
<1>1. /\ Len(s) \in Nat /\ Len(t) \in Nat /\ Len(u) = Len(s) + Len(t)
      /\ u \in Seq(Messages)
      /\ \A i \in 1..Len(s) : u[i] = s[i]
  OBVIOUS
<1>2. \A i \in 1..Len(u) : i \notin 1..Len(s) => u[i] = t[i - Len(s)] /\ i - Len(s) \in 1..Len(t)
  OBVIOUS
<1> HIDE DEF u
<1>3. Elements(u) = Elements(s) \cup Elements(t)
  <2>1. ASSUME NEW j \in 1..Len(t) PROVE t[j] \in Elements(u)
    <3>1. /\ j + Len(s) \in 1..Len(u) /\ j + Len(s) \notin 1..Len(s)
          /\ (j + Len(s)) - Len(s) = j
      BY <1>1
    <3> QED
      BY <1>2, <3>1 DEF Elements
  <2>2. \A j \in 1..Len(s) : j \in 1..Len(u)
    BY <1>1
  <2>3. Elements(s) \cup Elements(t) \subseteq Elements(u)
    BY <1>1, <2>1, <2>2 DEF Elements
  <2>4. Elements(u) \subseteq Elements(s) \cup Elements(t)
    BY <1>1, <1>2 DEF Elements
  <2> QED
    BY <2>3, <2>4
<1>4. ASSUME Sorted(s), Sorted(t), \A x \in Elements(s), y \in Elements(t) : Before(x, y),
             NEW i \in 1..Len(u), NEW j \in 1..Len(u), i < j
      PROVE  Before(u[i], u[j])
  <2>1. CASE j \in 1..Len(s)
    <3>1. i \in 1..Len(s)
      BY <1>4, <2>1
    <3> QED
      BY <1>1, <1>4, <2>1, <3>1 DEF Sorted
  <2>2. CASE i \in 1..Len(s) /\ j \notin 1..Len(s)
    BY <1>1, <1>2, <1>4, <2>2 DEF Elements
  <2>3. CASE i \notin 1..Len(s)
    <3>1. j \notin 1..Len(s) /\ i - Len(s) < j - Len(s)
      BY <1>1, <1>4, <2>3
    <3> QED
      BY <1>2, <1>4, <2>3, <3>1 DEF Sorted
  <2> QED
    BY <2>1, <2>2, <2>3
<1> QED
  BY <1>1, <1>3, <1>4 DEF u, Sorted

(* A message is a pair of a producer and a number. *)
LEMMA MessageParts ==
    /\ << >> \notin Messages
    /\ \A m \in Messages : m[1] \in Producers /\ m[2] \in Nat
  BY DEF Messages

(* The elements of the three parts are messages. *)
LEMMA GoingTypes ==
    ASSUME TypeOK
    PROVE  /\ queue \in Seq(Messages) /\ delivered \in Seq(Messages)
           /\ Elements(queue) \subseteq Messages /\ Elements(delivered) \subseteq Messages
           /\ Hand \subseteq Messages
<1>1. \A s \in Seq(Messages) : Elements(s) \subseteq Messages
  BY DEF Elements
<1> QED
  BY <1>1 DEF TypeOK, Hand

(* A step that moves no message and answers nobody; writePump goes on as it *)
(* is or returns.                                                           *)
LEMMA FlowKept ==
    ASSUME FlowInv,
           UNCHANGED <<queue, delivered, inHand, count, ppc, accepted, refused, policy>>,
           \/ cpc'[Writer] = cpc[Writer]
           \/ cpc[Writer] # "got" /\ cpc'[Writer] \notin {"idle", "got"}
    PROVE  FlowInv'
<1>1. OrderInv'
  BY DEF FlowInv, OrderInv, Hand
<1>2. AnswerInv'
  BY DEF FlowInv, AnswerInv, Going, Hand
<1>3. TakenInv'
  BY DEF FlowInv, TakenInv
<1>4. GivenUpInv'
  BY DEF FlowInv, GivenUpInv, Going, Hand, AtWork
<1> QED
  BY <1>1, <1>2, <1>3, <1>4 DEF FlowInv

(* c.send <- msg: the message comes behind all the producer's others. *)
LEMMA FlowAccept ==
    ASSUME TypeOK, BusyInv, FlowInv, NEW p \in Producers, ppc[p] # "idle", Accept(p),
           UNCHANGED <<count, refused, cpc, inHand, delivered, policy>>
    PROVE  FlowInv'
<1> DEFINE m == Current(p)
<1>1. m \in Messages /\ m[1] = p /\ m[2] = count[p]
  BY DEF Current, Messages, BusyInv
<1>2. /\ queue' = Append(queue, m) /\ accepted' = accepted \cup {m}
      /\ ppc'[p] = "idle" /\ \A q \in Producers : q # p => ppc'[q] = ppc[q]
  BY DEF Accept, TypeOK
<1> HIDE DEF m
<1>3. /\ queue \in Seq(Messages) /\ Going \subseteq Messages /\ accepted \subseteq Messages
      /\ refused \subseteq Messages /\ count \in [Producers -> Nat]
  BY GoingTypes DEF TypeOK, Going
<1>4. \A x \in accepted \cup refused : Before(x, m)
  BY <1>1 DEF FlowInv, AnswerInv, Before
<1>5. Elements(queue) \subseteq accepted /\ Elements(delivered) \subseteq accepted
        /\ Hand \subseteq accepted
  BY DEF FlowInv, AnswerInv, Going
<1>6. Elements(queue') = Elements(queue) \cup {m} /\ Sorted(queue')
  BY <1>1, <1>2, <1>3, <1>4, <1>5, SortedAppend DEF FlowInv, OrderInv
<1>7. Hand' = Hand /\ Elements(delivered') = Elements(delivered)
  BY DEF Hand
<1>8. Going' = Going \cup {m}
  BY <1>6, <1>7 DEF Going
<1>9. OrderInv'
  BY <1>4, <1>5, <1>6, <1>7 DEF FlowInv, OrderInv
<1>10. m \notin refused
  BY <1>1, <1>3 DEF FlowInv, AnswerInv
<1>11. AnswerInv'
  <2>1. ASSUME NEW x \in accepted' \cup refused'
        PROVE  x[2] <= count'[x[1]] /\ (ppc'[x[1]] # "idle" => x[2] < count'[x[1]])
    <3>1. CASE x = m
      BY <1>1, <1>2, <1>3, <3>1
    <3>2. CASE x # m
      <4>1. x \in accepted \cup refused /\ x[1] \in Producers
        BY <1>2, <1>3, <2>1, <3>2, MessageParts
      <4> QED
        BY <1>2, <4>1 DEF FlowInv, AnswerInv
    <3> QED
      BY <3>1, <3>2
  <2> QED
    BY <1>2, <1>8, <1>10, <2>1 DEF FlowInv, AnswerInv
<1>12. TakenInv'
  BY <1>2 DEF FlowInv, TakenInv
<1>13. GivenUpInv'
  BY <1>2, <1>4, <1>6, <1>8 DEF FlowInv, GivenUpInv, AtWork
<1> QED
  BY <1>9, <1>11, <1>12, <1>13 DEF FlowInv

(* Steps of TrySend that leave the buffer alone: it begins, gives up, or    *)
(* goes on to evict.                                                        *)
LEMMA FlowTrySend ==
    ASSUME TypeOK, BusyInv, FlowInv, NEW p \in Producers,
           \/ TrySend(p) \/ SelectDone(p) \/ SelectSlow(p) \/ SelectNewest(p)
           \/ SelectOldest(p)
           \/ Retry(p) /\ UNCHANGED <<queue, accepted>>
    PROVE  FlowInv'
<1> DEFINE m == Current(p)
<1>0. m[1] = p /\ m[2] = count[p] /\ (ppc[p] # "idle" => m \in Messages)
  BY DEF Current, Messages, BusyInv
<1> HIDE DEF m
<1>1. UNCHANGED <<queue, delivered, inHand, accepted, policy>>
  BY DEF TrySend, SelectDone, SelectSlow, SelectNewest, SelectOldest, Retry, outVars
<1>2. cpc'[Writer] = cpc[Writer]
  BY DEF TrySend, SelectDone, SelectSlow, SelectNewest, SelectOldest, Retry, TypeOK, Closers
<1>3. /\ \A q \in Producers : q # p => ppc'[q] = ppc[q] /\ count'[q] = count[q]
      /\ ppc'[p] # "idle" => refused' = refused
      /\ ppc[p] = "idle" => count'[p] = count[p] + 1 /\ refused' = refused
      /\ ppc[p] # "idle" => count'[p] = count[p]
      /\ refused' = refused \/ (ppc[p] # "idle" /\ refused' = refused \cup {m})
  BY DEF TrySend, SelectDone, SelectSlow, SelectNewest, SelectOldest, Retry, BufferFull,
         TypeOK, Accept, m
<1>4. ppc'[p] \in {"evict", "retry"} => policy = "DropOldest"
  BY DEF TrySend, SelectDone, SelectSlow, SelectNewest, SelectOldest, Retry, BufferFull,
         TypeOK, Accept
<1>5. /\ accepted \subseteq Messages /\ refused \subseteq Messages
      /\ count \in [Producers -> Nat]
  BY DEF TypeOK
<1>6. Going' = Going /\ Hand' = Hand
  BY <1>1 DEF Going, Hand
<1>7. OrderInv'
  BY <1>1, <1>6 DEF FlowInv, OrderInv
<1>8. ASSUME NEW x \in accepted' \cup refused'
      PROVE  x[2] <= count'[x[1]] /\ (ppc'[x[1]] # "idle" => x[2] < count'[x[1]])
  <2>1. CASE x \in accepted \cup refused /\ x[1] # p
    <3>1. x[1] \in Producers
      BY <1>5, <2>1, MessageParts
    <3> QED
      BY <1>3, <2>1, <3>1 DEF FlowInv, AnswerInv
  <2>2. CASE x \in accepted \cup refused /\ x[1] = p
    <3>1. x[2] \in Nat /\ x[2] <= count[p] /\ (ppc[p] # "idle" => x[2] < count[p])
      BY <1>5, <2>2, MessageParts DEF FlowInv, AnswerInv
    <3> QED
      BY <1>3, <1>5, <2>2, <3>1
  <2>3. CASE x = m /\ x \notin accepted \cup refused
    <3>1. refused' # refused
      BY <1>1, <1>8, <2>3
    <3> QED
      BY <1>0, <1>3, <1>5, <2>3, <3>1
  <2> QED
    BY <1>1, <1>3, <1>8, <2>1, <2>2, <2>3
<1>9. AnswerInv'
  <2>1. ppc[p] # "idle" => m \notin accepted
    BY <1>0, <1>5 DEF FlowInv, AnswerInv
  <2> QED
    BY <1>1, <1>3, <1>6, <1>8, <2>1 DEF FlowInv, AnswerInv
<1>10. TakenInv'
  BY <1>1, <1>2, <1>3, <1>4 DEF FlowInv, TakenInv
<1>11. GivenUpInv'
  BY <1>1, <1>2, <1>6 DEF FlowInv, GivenUpInv, AtWork
<1> QED
  BY <1>7, <1>9, <1>10, <1>11 DEF FlowInv

(* DropOldest: what is evicted is the oldest of its producer in the buffer. *)
LEMMA FlowEvict ==
    ASSUME TypeOK, FlowInv, NEW p \in Producers, Evict(p)
    PROVE  FlowInv'
<1>1. /\ UNCHANGED <<delivered, inHand, count, accepted, refused, policy, cpc>>
      /\ ppc[p] = "evict" /\ ppc'[p] = "retry"
      /\ \A q \in Producers : q # p => ppc'[q] = ppc[q]
  BY DEF Evict, outVars, TypeOK
<1>2. policy = "DropOldest" /\ accepted \subseteq Messages /\ refused \subseteq Messages
  BY <1>1 DEF FlowInv, TakenInv, TypeOK
<1>3. /\ queue \in Seq(Messages) /\ Sorted(queue)
      /\ Hand' = Hand /\ Elements(delivered') = Elements(delivered)
  BY <1>1, GoingTypes DEF FlowInv, OrderInv, Hand
<1>4. /\ Sorted(queue') /\ Elements(queue') \subseteq Elements(queue)
      /\ \A x \in Elements(queue) \ Elements(queue') :
            \A y \in Elements(queue') : Before(x, y)
  <2>1. CASE queue = << >>
    <3>1. queue' = queue
      BY <2>1 DEF Evict
    <3> QED
      BY <1>3, <3>1
  <2>2. CASE queue # << >>
    <3>1. queue' = Tail(queue)
      BY <2>2 DEF Evict
    <3> QED
      BY <1>3, <2>2, <3>1, SortedTail
  <2> QED
    BY <2>1, <2>2
<1>5. Going' \subseteq Going /\ Going \ Going' \subseteq Elements(queue) \ Elements(queue')
  BY <1>3, <1>4 DEF Going
<1>6. OrderInv'
  BY <1>1, <1>3, <1>4 DEF FlowInv, OrderInv
<1>7. AnswerInv'
  <2>1. ASSUME NEW x \in accepted \cup refused
        PROVE  x[2] <= count[x[1]] /\ (ppc'[x[1]] # "idle" => x[2] < count[x[1]])
    <3>1. x[1] \in Producers
      BY <1>2, MessageParts
    <3> QED
      BY <1>1, <3>1 DEF FlowInv, AnswerInv
  <2> QED
    BY <1>1, <1>5, <2>1 DEF FlowInv, AnswerInv
<1>8. TakenInv'
  BY <1>1, <1>2 DEF FlowInv, TakenInv
<1>9. GivenUpInv'
  BY <1>1, <1>2, <1>4, <1>5 DEF FlowInv, GivenUpInv, AtWork
<1> QED
  BY <1>6, <1>7, <1>8, <1>9 DEF FlowInv

(* writePump moves the oldest message on: first out of the buffer ... *)
LEMMA FlowReceive ==
    ASSUME TypeOK, FlowInv, Receive
    PROVE  FlowInv'
<1>1. /\ UNCHANGED <<delivered, count, ppc, accepted, refused, policy>>
      /\ queue # << >> /\ inHand' = Head(queue) /\ queue' = Tail(queue)
      /\ cpc[Writer] = "idle" /\ cpc'[Writer] = "got" /\ inHand = << >>
  BY DEF Receive, producerVars, outVars, Goto, TypeOK, Closers, FlowInv, TakenInv
<1>2. queue \in Seq(Messages) /\ Sorted(queue) /\ Head(queue) \in Messages
  BY <1>1, GoingTypes DEF FlowInv, OrderInv
<1>3. Hand = {} /\ Hand' = {Head(queue)} /\ Elements(delivered') = Elements(delivered)
  BY <1>1, <1>2, MessageParts DEF Hand
<1>4. /\ Elements(queue) = {Head(queue)} \cup Elements(queue') /\ Sorted(queue')
      /\ \A y \in Elements(queue') : Before(Head(queue), y)
  BY <1>1, <1>2, SortedTail
<1>5. Going' = Going
  BY <1>3, <1>4 DEF Going
<1>6. OrderInv'
  BY <1>1, <1>3, <1>4 DEF FlowInv, OrderInv
<1>7. AnswerInv' /\ TakenInv'
  BY <1>1, <1>5 DEF FlowInv, AnswerInv, TakenInv
<1>8. GivenUpInv'
  BY <1>1, <1>4, <1>5 DEF FlowInv, GivenUpInv, AtWork
<1> QED
  BY <1>6, <1>7, <1>8 DEF FlowInv

(* ... and then onto the wire, or it fails and returns. *)
LEMMA FlowWrite ==
    ASSUME TypeOK, BusyInv, FlowInv, WriteMessage
    PROVE  FlowInv'
<1>1. /\ UNCHANGED <<queue, count, ppc, accepted, refused, policy>>
      /\ inHand \in Messages /\ inHand' = << >>
      /\ cpc[Writer] = "got" /\ cpc'[Writer] # "got"
      /\ \/ delivered' = Append(delivered, inHand)
         \/ delivered' = delivered /\ cpc'[Writer] = "clean"
  BY DEF WriteMessage, producerVars, BusyInv, Goto, TypeOK, Closers
<1>2. Hand = {inHand} /\ Hand' = {} /\ Elements(queue') = Elements(queue)
  BY <1>1, MessageParts DEF Hand
<1>3. delivered \in Seq(Messages) /\ Sorted(delivered)
  BY GoingTypes DEF FlowInv, OrderInv
<1>4. CASE delivered' = Append(delivered, inHand)
  <2>1. Elements(delivered') = Elements(delivered) \cup {inHand} /\ Sorted(delivered')
    BY <1>1, <1>2, <1>3, <1>4, SortedAppend DEF FlowInv, OrderInv
  <2>2. Going' = Going
    BY <1>2, <2>1 DEF Going
  <2>3. OrderInv'
    BY <1>1, <1>2, <2>1 DEF FlowInv, OrderInv
  <2>4. AnswerInv' /\ TakenInv'
    BY <1>1, <2>2 DEF FlowInv, AnswerInv, TakenInv
  <2>5. GivenUpInv'
    BY <1>1, <2>2 DEF FlowInv, GivenUpInv, AtWork
  <2> QED
    BY <2>3, <2>4, <2>5 DEF FlowInv
<1>5. CASE delivered' = delivered /\ cpc'[Writer] = "clean"
  <2>1. Going' \subseteq Going
    BY <1>2, <1>5 DEF Going
  <2>2. OrderInv'
    BY <1>1, <1>2, <1>5 DEF FlowInv, OrderInv
  <2>3. AnswerInv' /\ TakenInv'
    BY <1>1, <2>1 DEF FlowInv, AnswerInv, TakenInv
  <2>4. GivenUpInv'
    BY <1>5 DEF GivenUpInv, AtWork
  <2> QED
    BY <2>2, <2>3, <2>4 DEF FlowInv
<1> QED
  BY <1>1, <1>4, <1>5

(* newConnection: nothing is on its way. *)
LEMMA FlowInit == Init => FlowInv
<1> SUFFICES ASSUME Init PROVE FlowInv
  OBVIOUS
<1>1. Elements(queue) = {} /\ Elements(delivered) = {} /\ Hand = {}
  BY DEF Init, Elements, Hand
<1> QED
  BY <1>1 DEF Init, FlowInv, OrderInv, AnswerInv, TakenInv, GivenUpInv, Going, Sorted

(* Every step keeps the messages in order and the answers true. *)
LEMMA FlowStep == ConnInv /\ FlowInv /\ [Next]_vars => FlowInv'
<1> SUFFICES ASSUME TypeOK, BusyInv, FlowInv, [Next]_vars PROVE FlowInv'
  BY DEF ConnInv
<1>1. ASSUME NEW p \in Producers, TrySend(p) \/ Produce(p) PROVE FlowInv'
  <2>1. CASE SelectSend(p)
    BY <2>1, FlowAccept DEF SelectSend, outVars
  <2>2. CASE Retry(p)
    <3>1. CASE Accept(p) /\ UNCHANGED refused
      BY <2>2, <3>1, FlowAccept DEF Retry, outVars
    <3>2. CASE UNCHANGED <<queue, accepted>>
      BY <2>2, <3>2, FlowTrySend
    <3> QED
      BY <2>2, <3>1, <3>2 DEF Retry
  <2> QED
    BY <1>1, <2>1, <2>2, FlowTrySend, FlowEvict DEF Produce
<1>2. ASSUME NEW k \in Closers, CloseWith(k) \/ Close(k) PROVE FlowInv'
  <2>1. UNCHANGED <<queue, delivered, inHand, count, ppc, accepted, refused, policy>>
    BY <1>2 DEF CloseWith, Close, ClaimClose, WriteClose, CleanupFirst, CleanupEnds,
                CleanupAgain, producerVars, outVars
  <2>2. \/ cpc'[Writer] = cpc[Writer]
        \/ cpc[Writer] # "got" /\ cpc'[Writer] \notin {"idle", "got"}
    BY <1>2 DEF CloseWith, Close, ClaimClose, WriteClose, CleanupFirst, CleanupEnds,
                CleanupAgain, Goto, TypeOK, Closers
  <2> QED
    BY <2>1, <2>2, FlowKept
<1>3. CASE ReadFails \/ PingFails \/ WriterSeesDone
  <2>1. UNCHANGED <<queue, delivered, inHand, count, ppc, accepted, refused, policy>>
    BY <1>3 DEF ReadFails, PingFails, WriterSeesDone, producerVars, outVars
  <2>2. \/ cpc'[Writer] = cpc[Writer]
        \/ cpc[Writer] # "got" /\ cpc'[Writer] \notin {"idle", "got"}
    BY <1>3 DEF ReadFails, PingFails, WriterSeesDone, Goto, TypeOK, Closers
  <2> QED
    BY <2>1, <2>2, FlowKept
<1>4. CASE AllEnded \/ UNCHANGED vars
  BY <1>4, FlowKept DEF AllEnded, vars, producerVars, outVars
<1> QED
  BY <1>1, <1>2, <1>3, <1>4, FlowReceive, FlowWrite DEF Next, WritePump

(* The pipeline of the properties has the elements of its three parts, and  *)
(* is in order when they are, within and across.                            *)
LEMMA PipelineParts ==
    ASSUME TypeOK, OrderInv
    PROVE  (\A m : InPipeline(m) <=> m \in Going) /\ Sorted(Pipeline)
<1> DEFINE h == IF inHand = << >> THEN << >> ELSE <<inHand>>
<1>1. h \in Seq(Messages) /\ Elements(h) = Hand /\ Sorted(h)
  <2>1. CASE inHand = << >>
    BY <2>1 DEF Elements, Hand, Sorted
  <2>2. CASE inHand # << >>
    BY <2>2 DEF Elements, Hand, Sorted, TypeOK
  <2> QED
    BY <2>1, <2>2
<1>2. Pipeline = (delivered \o h) \o queue
  BY DEF Pipeline
<1> HIDE DEF h
<1> DEFINE d == delivered \o h
<1>3. d \in Seq(Messages) /\ Elements(d) = Elements(delivered) \cup Hand /\ Sorted(d)
  BY <1>1, SortedConcat, GoingTypes DEF OrderInv
<1> HIDE DEF d
<1>4. Elements(d \o queue) = Elements(d) \cup Elements(queue) /\ Sorted(d \o queue)
  BY <1>3, SortedConcat, GoingTypes DEF OrderInv
<1>5. Pipeline = d \o queue
  BY <1>2 DEF d
<1>6. Elements(Pipeline) = Going /\ Sorted(Pipeline)
  BY <1>3, <1>4, <1>5 DEF Going
<1> QED
  BY <1>6 DEF InPipeline, Elements

(* The inductive invariant of the theorems below. *)
LEMMA FlowInvariant == Spec => [](ConnInv /\ FlowInv)
  BY ConnInvInit, ConnInvStep, FlowInit, FlowStep, PTL DEF Spec

(* Conn.send and writePump keep the frames of each goroutine that calls     *)
(* TrySend in order and send none twice, whatever DropOldest evicts in      *)
(* between and however many producers there are.                            *)
THEOREM FramesInOrder == Spec => []InOrder
<1>1. ConnInv /\ FlowInv => InOrder
  BY PipelineParts DEF ConnInv, FlowInv, InOrder, Sorted, Before
<1> QED
  BY <1>1, FlowInvariant, PTL

(* TrySend's answer is the truth: after false the message never goes out,   *)
(* and after true it is not lost while writePump is at work, unless the     *)
(* policy is DropOldest.                                                    *)
THEOREM AnswersAreKept == Spec => []NoSilentLoss
<1>1. ConnInv /\ FlowInv => NoSilentLoss
  <2> SUFFICES ASSUME ConnInv, FlowInv PROVE NoSilentLoss
    OBVIOUS
  <2>1. \A m : InPipeline(m) <=> m \in Going
    BY PipelineParts DEF ConnInv, FlowInv
  <2>2. \A m \in refused : ~InPipeline(m)
    BY <2>1 DEF FlowInv, AnswerInv
  <2>3. ASSUME policy # "DropOldest", cpc[Writer] \in {"idle", "got"}, NEW m \in accepted
        PROVE  InPipeline(m)
    BY <2>1, <2>3 DEF FlowInv, GivenUpInv, AtWork
  <2> QED
    BY <2>2, <2>3 DEF NoSilentLoss
<1> QED
  BY <1>1, FlowInvariant, PTL

(* DropOldest keeps its name: what it gives up is older than everything the *)
(* same goroutine still has in the buffer.                                  *)
THEOREM EvictsOldest == Spec => []OldestEvicted
<1>1. ConnInv /\ FlowInv => OldestEvicted
  <2> SUFFICES ASSUME ConnInv, FlowInv, NEW m \in accepted, ~InPipeline(m),
                      cpc[Writer] \in {"idle", "got"}, NEW i \in 1..Len(queue),
                      queue[i][1] = m[1]
               PROVE  m[2] < queue[i][2]
    BY DEF OldestEvicted
  <2>1. m \notin Going /\ queue[i] \in Elements(queue)
    BY PipelineParts DEF ConnInv, FlowInv, Elements
  <2>2. Before(m, queue[i])
    BY <2>1 DEF FlowInv, GivenUpInv, AtWork
  <2> QED
    BY <2>2 DEF Before
<1> QED
  BY <1>1, FlowInvariant, PTL

=============================================================================

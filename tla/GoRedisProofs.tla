--------------------------- MODULE GoRedisProofs ---------------------------
(***************************************************************************)
(* What Close of the Redis adapter leaves behind, for any number of        *)
(* callers of Subscribe and Close and any number of reconnections.         *)
(*                                                                         *)
(* The argument is about subMu: a stream is set up only under it (LockInv), *)
(* outside it at most the adapter's own stream is open (StreamInv), and so  *)
(* Close, which needs it, closes the last one and nobody can open another   *)
(* (ClosedInv).                                                             *)
(***************************************************************************)
EXTENDS GoRedis, TLAPS

(* Whoever waits for Redis holds subMu, and nobody else does. *)
LockInv ==
    /\ \A s \in Subscribers : spc[s] = "receive" <=> subMu = s
    /\ lpc = "receive" <=> subMu = Listener

(* Outside the critical section only pubsub is open, inside it only fresh.  *)
StreamInv == open \subseteq IF subMu = None THEN {pubsub} ELSE {fresh}

(* From CloseStream on the adapter is closed for good. *)
ClosedInv ==
    /\ isClosed => subMu = None /\ open = {}
    /\ \A k \in Closers : kpc[k] = "wait" => isClosed
    /\ once = "over" => isClosed /\ lpc \in {"off", "returned"}

RedisInv == TypeOK /\ LockInv /\ StreamInv /\ ClosedInv

USE CallerAssumption, NobodyAssumption, BufferAssumption

-----------------------------------------------------------------------------
(* New establishes the invariant. *)
LEMMA RedisInit == Init => RedisInv
<1> SUFFICES ASSUME Init PROVE RedisInv
  OBVIOUS
<1>0. buffered \in 0..MaxBuffered
  BY DEF Init
<1>1. TypeOK
  BY <1>0 DEF Init, TypeOK, ListenerPC
<1>2. LockInv
  BY DEF Init, LockInv
<1>3. StreamInv /\ ClosedInv
  BY DEF Init, StreamInv, ClosedInv
<1> QED
  BY <1>1, <1>2, <1>3 DEF RedisInv

(* A caller of Subscribe preserves it. *)
LEMMA SubscribeStep ==
    ASSUME RedisInv, NEW s \in Subscribers, Subscribe(s) \/ SetUp(s)
    PROVE  RedisInv'
<1> USE DEF RedisInv, TypeOK, ListenerPC, LockInv, StreamInv, ClosedInv, closeVars,
            streamVars, heard
<1>1. CASE Subscribe(s) /\ (isClosed \/ pubsub # None)
  BY <1>1 DEF Subscribe
<1>2. CASE Subscribe(s) /\ ~(isClosed \/ pubsub # None)
  <2>1. OpenStream(s, {}) /\ open = {} /\ ~isClosed
    BY <1>2 DEF Subscribe
  <2> QED
    BY <1>2, <2>1 DEF Subscribe, OpenStream
<1>3. CASE Subscribed(s)
  BY <1>3 DEF Subscribed, KeepStream
<1>4. CASE SubscribeFails(s)
  BY <1>4 DEF SubscribeFails, DropStream
<1> QED
  BY <1>1, <1>2, <1>3, <1>4 DEF SetUp

(* listenLoop preserves it. *)
LEMMA ListenStep ==
    ASSUME RedisInv, Listen \/ Arrive \/ HandleIncoming \/ StreamEnds
    PROVE  RedisInv'
<1> USE DEF RedisInv, TypeOK, ListenerPC, LockInv, StreamInv, ClosedInv, closeVars,
            streamVars, heard
<1>1. CASE TakeStream
  BY <1>1 DEF TakeStream
<1>2. CASE Handled \/ SeesCancel \/ Arrive \/ HandleIncoming \/ StreamEnds
  BY <1>2 DEF Handled, SeesCancel, Arrive, HandleIncoming, StreamEnds
<1>3. CASE Reconnect
  <2>1. CASE isClosed
    BY <1>3, <2>1 DEF Reconnect
  <2>2. CASE ~isClosed
    <3>1. open \ {pubsub} = {}
      BY <1>3 DEF Reconnect
    <3> QED
      BY <1>3, <2>2, <3>1 DEF Reconnect, OpenStream
  <2> QED
    BY <2>1, <2>2
<1>4. CASE Reconnected
  BY <1>4 DEF Reconnected, KeepStream
<1>5. CASE ReconnectFails
  BY <1>5 DEF ReconnectFails, DropStream
<1> QED
  BY <1>1, <1>2, <1>3, <1>4, <1>5 DEF Listen

(* A caller of Close preserves it. *)
LEMMA CloseStep ==
    ASSUME RedisInv, NEW k \in Closers, CloseFirst(k) \/ Close(k) \/ CloseAgain(k)
    PROVE  RedisInv'
<1> USE DEF RedisInv, TypeOK, ListenerPC, LockInv, StreamInv, ClosedInv, streamVars, heard
<1>1. CASE CloseFirst(k) \/ CloseAgain(k)
  BY <1>1 DEF CloseFirst, CloseAgain
<1>2. CASE CloseStream(k)
  BY <1>2 DEF CloseStream
<1>3. CASE CloseEnds(k)
  BY <1>3 DEF CloseEnds
<1> QED
  BY <1>1, <1>2, <1>3 DEF Close

(* The invariant holds always. *)
LEMMA RedisAlways == Spec => []RedisInv
<1>1. ASSUME RedisInv, UNCHANGED vars PROVE RedisInv'
  BY <1>1 DEF RedisInv, TypeOK, LockInv, StreamInv, ClosedInv, vars, streamVars, heard,
              closeVars
<1>2. RedisInv /\ [Next]_vars => RedisInv'
  BY <1>1, SubscribeStep, ListenStep, CloseStep DEF Next
<1> QED
  BY <1>2, RedisInit, PTL DEF Spec

-----------------------------------------------------------------------------
(* Once Close has returned no handler runs and none will. *)
THEOREM Silence == Spec => []SilentAfterClose
<1>1. RedisInv => SilentAfterClose
  BY DEF RedisInv, LockInv, ClosedInv, SilentAfterClose
<1> QED
  BY <1>1, RedisAlways, PTL

(* Once Close has returned no connection to Redis is left open. *)
THEOREM NoLeak == Spec => []NothingLeaked
<1>1. RedisInv => NothingLeaked
  BY DEF RedisInv, ClosedInv, NothingLeaked
<1> QED
  BY <1>1, RedisAlways, PTL

(* Reconnecting replaces the stream: two are never open side by side        *)
(* outside subMu.                                                           *)
THEOREM SingleStream == Spec => []OneStream
<1>1. RedisInv => OneStream
  BY DEF RedisInv, StreamInv, OneStream
<1> QED
  BY <1>1, RedisAlways, PTL

=============================================================================

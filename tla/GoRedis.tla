------------------------------ MODULE GoRedis ------------------------------
(***************************************************************************)
(* The subscriber of the Go Redis adapter                                  *)
(* (src/server/go/adapter/redis/redis.go): Subscribe, the listenLoop       *)
(* goroutine with its reconnection, and Close.                             *)
(*                                                                         *)
(* subMu is held while a new stream is being set up, which takes a         *)
(* network round trip: that is the one critical section of several steps.  *)
(* Streams are the PubSub objects of go-redis; one that was closed may     *)
(* stand for a later one.                                                  *)
(***************************************************************************)
EXTENDS Naturals, FiniteSets

CONSTANTS
    Subscribers,    \* callers of Subscribe
    Closers,        \* callers of Close
    Listener,       \* the listenLoop goroutine
    Streams,        \* PubSub objects
    None,           \* no stream, nobody
    MaxBuffered     \* capacity of a stream's channel

ASSUME CallerAssumption == Listener \notin Subscribers /\ None \notin Streams
ASSUME NobodyAssumption == None \notin Subscribers \cup {Listener}
ASSUME BufferAssumption == MaxBuffered \in Nat \ {0}
ASSUME StreamAssumption == IsFiniteSet(Streams) /\ Cardinality(Streams) >= 3

VARIABLES
    subMu,      \* who holds it across steps
    isClosed,   \* Adapter.isClosed
    cancelled,  \* has subCancel been called?
    pubsub,     \* Adapter.pubsub
    open,       \* streams that hold a connection to Redis
    fresh,      \* the stream being set up
    stream,     \* listenLoop's copy of pubsub
    buffered,   \* messages in the channel of that stream
    lpc,        \* where listenLoop is
    spc,        \* where each caller of Subscribe is
    once,       \* closeOnce: "free", "running" or "over"
    kpc         \* where each caller of Close is

streamVars == <<pubsub, open, fresh>>
heard == <<stream, buffered>>
closeVars == <<isClosed, cancelled, once, kpc>>
vars == <<subMu, streamVars, heard, lpc, spc, closeVars>>

ListenerPC == {"off", "top", "select", "handler", "backoff", "receive", "returned"}

(* The one type invariant of the module: a caller of Close never keeps      *)
(* subMu from one step to the next.                                         *)
TypeOK ==
    /\ subMu \in Subscribers \cup {Listener, None}
    /\ isClosed \in BOOLEAN
    /\ cancelled \in BOOLEAN
    /\ pubsub \in Streams \cup {None}
    /\ open \subseteq Streams
    /\ fresh \in Streams \cup {None}
    /\ stream \in Streams \cup {None}
    /\ buffered \in 0..MaxBuffered
    /\ lpc \in ListenerPC
    /\ spc \in [Subscribers -> {"idle", "receive", "subscribed", "failed"}]
    /\ once \in {"free", "running", "over"}
    /\ kpc \in [Closers -> {"idle", "lock", "wait", "end"}]

(* New *)
Init ==
    /\ subMu = None
    /\ isClosed = FALSE
    /\ cancelled = FALSE
    /\ pubsub = None
    /\ open = {}
    /\ fresh = None
    /\ stream = None
    /\ buffered = 0
    /\ lpc = "off"
    /\ spc = [s \in Subscribers |-> "idle"]
    /\ once = "free"
    /\ kpc = [k \in Closers |-> "idle"]

-----------------------------------------------------------------------------
(* Setting up a stream, under subMu *)

(* client.PSubscribe, by who holds subMu from here on; the streams in       *)
(* closing are closed first.                                                *)
OpenStream(who, closing) ==
    \E p \in Streams \ (open \cup {pubsub, stream}) :
        /\ fresh' = p
        /\ open' = (open \ closing) \cup {p}
        /\ subMu' = who

(* Receive and Subscribe succeeded. *)
KeepStream ==
    /\ pubsub' = fresh
    /\ fresh' = None
    /\ subMu' = None
    /\ UNCHANGED open

(* One of them failed, or took more than five seconds. *)
DropStream ==
    /\ open' = open \ {fresh}
    /\ fresh' = None
    /\ subMu' = None
    /\ UNCHANGED pubsub

-----------------------------------------------------------------------------
(* Subscribe *)

(* Refused when closed or already subscribed. *)
Subscribe(s) ==
    /\ spc[s] = "idle"
    /\ subMu = None
    /\ IF isClosed \/ pubsub # None
         THEN spc' = [spc EXCEPT ![s] = "failed"] /\ UNCHANGED <<subMu, streamVars>>
         ELSE /\ OpenStream(s, {})
              /\ spc' = [spc EXCEPT ![s] = "receive"]
              /\ UNCHANGED pubsub
    /\ UNCHANGED <<heard, lpc, closeVars>>

(* The stream is up: listenLoop is started. *)
Subscribed(s) ==
    /\ spc[s] = "receive"
    /\ KeepStream
    /\ spc' = [spc EXCEPT ![s] = "subscribed"]
    /\ lpc' = "top"
    /\ UNCHANGED <<heard, closeVars>>

SubscribeFails(s) ==
    /\ spc[s] = "receive"
    /\ DropStream
    /\ spc' = [spc EXCEPT ![s] = "failed"]
    /\ UNCHANGED <<heard, lpc, closeVars>>

-----------------------------------------------------------------------------
(* listenLoop *)

(* The top of the loop, under subMu. *)
TakeStream ==
    /\ lpc = "top"
    /\ subMu = None
    /\ stream' = pubsub
    /\ lpc' = IF isClosed \/ pubsub = None THEN "returned" ELSE "select"
    /\ UNCHANGED <<buffered, subMu, streamVars, spc, closeVars>>

(* Redis sends a message; it waits in the channel, ... *)
Arrive ==
    /\ stream \in open /\ lpc \in {"select", "handler"}
    /\ buffered < MaxBuffered
    /\ buffered' = buffered + 1
    /\ UNCHANGED <<subMu, streamVars, stream, lpc, spc, closeVars>>

(* ... handleIncoming runs, even if the stream has been closed since, ... *)
HandleIncoming ==
    /\ lpc = "select"
    /\ buffered > 0
    /\ buffered' = buffered - 1
    /\ lpc' = "handler"
    /\ UNCHANGED <<subMu, streamVars, stream, spc, closeVars>>

(* ... and returns. *)
Handled ==
    /\ lpc = "handler"
    /\ lpc' = "select"
    /\ UNCHANGED <<subMu, streamVars, heard, spc, closeVars>>

(* The channel is closed, by Close or because the connection is gone, and   *)
(* what was in it has been handled.                                         *)
StreamEnds ==
    /\ lpc = "select"
    /\ buffered = 0
    /\ lpc' = "backoff"
    /\ UNCHANGED <<subMu, streamVars, heard, spc, closeVars>>

SeesCancel ==
    /\ lpc \in {"select", "backoff"}
    /\ cancelled
    /\ lpc' = "returned"
    /\ UNCHANGED <<subMu, streamVars, heard, spc, closeVars>>

(* Mutant: the broken stream is left to itself. *)
Reconnect_KeepsOld ==
    /\ lpc = "backoff"
    /\ subMu = None
    /\ IF isClosed
         THEN lpc' = "returned" /\ UNCHANGED <<subMu, streamVars>>
         ELSE OpenStream(Listener, {}) /\ lpc' = "receive" /\ UNCHANGED pubsub
    /\ UNCHANGED <<heard, spc, closeVars>>

(* After the backoff a new stream replaces the old one. *)
Reconnect ==
    /\ lpc = "backoff"
    /\ subMu = None
    /\ IF isClosed
         THEN lpc' = "returned" /\ UNCHANGED <<subMu, streamVars>>
         ELSE OpenStream(Listener, {pubsub}) /\ lpc' = "receive" /\ UNCHANGED pubsub
    /\ UNCHANGED <<heard, spc, closeVars>>

Reconnected ==
    /\ lpc = "receive"
    /\ KeepStream
    /\ lpc' = "top"
    /\ UNCHANGED <<heard, spc, closeVars>>

(* Mutant: the loop gives up. *)
ReconnectFails_GivesUp ==
    /\ lpc = "receive"
    /\ DropStream
    /\ lpc' = "returned"
    /\ UNCHANGED <<heard, spc, closeVars>>

(* The next attempt waits for a longer backoff. *)
ReconnectFails ==
    /\ lpc = "receive"
    /\ DropStream
    /\ lpc' = "backoff"
    /\ UNCHANGED <<heard, spc, closeVars>>

-----------------------------------------------------------------------------
(* Close *)

(* closeOnce lets one caller in ... *)
CloseFirst(k) ==
    /\ kpc[k] = "idle"
    /\ once = "free"
    /\ once' = "running"
    /\ kpc' = [kpc EXCEPT ![k] = "lock"]
    /\ UNCHANGED <<subMu, streamVars, heard, lpc, spc, isClosed, cancelled>>

(* Mutant: subMu stays taken while Close waits for listenLoop. *)
CloseStream_KeepsLock(k) ==
    /\ kpc[k] = "lock"
    /\ subMu = None
    /\ subMu' = Listener
    /\ isClosed' = TRUE
    /\ cancelled' = TRUE
    /\ open' = open \ {pubsub}
    /\ kpc' = [kpc EXCEPT ![k] = "wait"]
    /\ UNCHANGED <<pubsub, fresh, heard, lpc, spc, once>>

(* Mutant: the stream is not closed. *)
CloseStream_StaysOpen(k) ==
    /\ kpc[k] = "lock"
    /\ subMu = None
    /\ isClosed' = TRUE
    /\ cancelled' = TRUE
    /\ kpc' = [kpc EXCEPT ![k] = "wait"]
    /\ UNCHANGED <<subMu, streamVars, heard, lpc, spc, once>>

(* ... who marks the adapter closed, cancels and closes the stream ... *)
CloseStream(k) ==
    /\ kpc[k] = "lock"
    /\ subMu = None
    /\ isClosed' = TRUE
    /\ cancelled' = TRUE
    /\ open' = open \ {pubsub}
    /\ kpc' = [kpc EXCEPT ![k] = "wait"]
    /\ UNCHANGED <<subMu, pubsub, fresh, heard, lpc, spc, once>>

(* Mutant: Close does not wait for listenLoop. *)
CloseEnds_NoWait(k) ==
    /\ kpc[k] = "wait"
    /\ once' = "over"
    /\ kpc' = [kpc EXCEPT ![k] = "end"]
    /\ UNCHANGED <<subMu, streamVars, heard, lpc, spc, isClosed, cancelled>>

(* ... and waits for listenLoop in subWg. *)
CloseEnds(k) ==
    /\ kpc[k] = "wait"
    /\ lpc \in {"off", "returned"}
    /\ once' = "over"
    /\ kpc' = [kpc EXCEPT ![k] = "end"]
    /\ UNCHANGED <<subMu, streamVars, heard, lpc, spc, isClosed, cancelled>>

(* The other callers wait for the first. *)
CloseAgain(k) ==
    /\ kpc[k] = "idle"
    /\ once = "over"
    /\ kpc' = [kpc EXCEPT ![k] = "end"]
    /\ UNCHANGED <<subMu, streamVars, heard, lpc, spc, isClosed, cancelled, once>>

-----------------------------------------------------------------------------
(* Specification *)

SetUp(s) == Subscribed(s) \/ SubscribeFails(s)

(* What listenLoop does by itself, streams that break left aside. *)
Listen ==
    \/ TakeStream \/ Handled \/ SeesCancel \/ Reconnect
    \/ Reconnected \/ ReconnectFails

Close(k) == CloseStream(k) \/ CloseEnds(k)

Next ==
    \/ \E s \in Subscribers : Subscribe(s) \/ SetUp(s)
    \/ Listen \/ Arrive \/ HandleIncoming \/ StreamEnds
    \/ \E k \in Closers : CloseFirst(k) \/ Close(k) \/ CloseAgain(k)

Spec == Init /\ [][Next]_vars

(* Goroutines run, and every attempt ends within its five seconds.  A       *)
(* sync.Mutex does not starve a waiter, which Close may be while listenLoop *)
(* takes subMu for one attempt after the other; and of infinitely many      *)
(* attempts to reach Redis one succeeds.                                    *)
FairSpec ==
    /\ Spec
    /\ \A s \in Subscribers : WF_vars(SetUp(s))
    /\ WF_vars(Listen)
    /\ SF_vars(Reconnected)
    /\ \A k \in Closers : SF_vars(CloseStream(k)) /\ WF_vars(CloseEnds(k))

-----------------------------------------------------------------------------
(* Properties *)

(* When Close has returned no handler runs, and none ever will: also not    *)
(* from a reconnection or a Subscribe that was under way.                   *)
SilentAfterClose ==
    once = "over" => lpc \in {"off", "returned"} /\ ~\E s \in Subscribers : spc[s] = "receive"

(* Streams that failed, were replaced or were in use are all closed when    *)
(* Close has returned.                                                      *)
NothingLeaked == once = "over" => open = {}

(* The handler is fed from at most one stream, and outside the critical     *)
(* section no other one is open.                                            *)
OneStream == subMu = None => open \subseteq {pubsub}

(* Close returns, whatever Subscribe and listenLoop are doing. *)
CloseReturns ==
    \A k \in Closers : kpc[k] # "idle" ~> kpc[k] = "end"

(* A broken subscription is set up again, unless the adapter is closed. *)
SubscriptionRecovers == lpc = "backoff" ~> lpc = "select" \/ isClosed

=============================================================================

------------------------------- MODULE GoConn -------------------------------
(***************************************************************************)
(* The outbound side and the end of one Go connection                      *)
(* (src/server/go/conn.go): TrySend and the backpressure policies, the     *)
(* writePump, CloseWith, and cleanup with its sync.Once.                   *)
(*                                                                         *)
(* Producers are the goroutines that call TrySend.  Closers are the        *)
(* goroutines that may end the connection: callers of Disconnect or        *)
(* Shutdown, the goroutine TrySend starts for a slow client, the readPump  *)
(* and the writePump.  Membership is GoHub's: here cleanup's leaveAllRooms *)
(* and removeConn are the time between close(done) and socket.Close.       *)
(***************************************************************************)
EXTENDS Integers, Sequences

CONSTANTS
    Producers,      \* goroutines that call TrySend
    MaxSends,       \* bound: messages each of them sends
    Capacity,       \* Config.ChannelCapacity
    Policies,       \* the values Config.Backpressure may have
    Kickers,        \* callers of Hub.Disconnect and Hub.Shutdown
    CodeOf,         \* the close code each of them passes
    Slow,           \* the goroutine started for a slow client
    Reader,         \* the readPump
    Writer,         \* the writePump
    PeerMayFail     \* may reads and writes fail while the socket is open?

ASSUME CapacityAssumption == Capacity \in Nat \ {0}
ASSUME SendsAssumption == MaxSends \in Nat
ASSUME PolicyAssumption ==
    Policies \subseteq {"DropSlowClient", "DropOldest", "DropNewest"}
ASSUME CodeAssumption == CodeOf \in [Kickers -> Nat]
ASSUME RoleAssumption ==
    /\ Kickers \cap {Slow, Reader, Writer} = {}
    /\ Slow # Reader /\ Reader # Writer /\ Writer # Slow
ASSUME FailAssumption == PeerMayFail \in BOOLEAN

Closers == Kickers \cup {Slow, Reader, Writer}

Messages == Producers \X (1..MaxSends)

VARIABLES
    policy,     \* Config.Backpressure, set before the first connection
    queue,      \* Conn.send
    count,      \* messages each producer has begun to send
    ppc,        \* where each producer is in TrySend
    accepted,   \* messages TrySend answered true for
    refused,    \* messages TrySend answered false for while done was open
    cleaningUp, \* Conn.cleaningUp
    cpc,        \* where each closer is
    inHand,     \* the message writePump has received, or << >>
    closeCode,  \* Conn.closeCode
    closeSent,  \* Conn.closeSent
    once,       \* cleanupOnce: "free", "running" or "over"
    done,       \* is Conn.done closed?
    socket,     \* is the socket open?
    delivered,  \* messages on the wire
    frames      \* codes of the close frames on the wire

producerVars == <<count, ppc, accepted, refused, cleaningUp>>
closeVars == <<closeCode, closeSent, once, done, socket>>
outVars == <<policy, delivered, frames>>
vars == <<queue, producerVars, cpc, inHand, closeVars, outVars>>

ProducerPC == {"idle", "select", "evict", "retry"}

CloserPC == {"idle", "code", "got", "cas", "write", "clean", "run", "end"}

Codes == {0, 1000, 1001, 1002, 1008} \cup {CodeOf[k] : k \in Kickers}

(* The one type invariant of the module; the buffer keeps to its capacity. *)
TypeOK ==
    /\ policy \in Policies
    /\ queue \in Seq(Messages) /\ Len(queue) <= Capacity
    /\ count \in [Producers -> 0..MaxSends]
    /\ ppc \in [Producers -> ProducerPC]
    /\ accepted \subseteq Messages
    /\ refused \subseteq Messages
    /\ cleaningUp \in BOOLEAN
    /\ cpc \in [Closers -> CloserPC]
    /\ inHand \in Messages \cup {<< >>}
    /\ closeCode \in Codes
    /\ closeSent \in BOOLEAN
    /\ once \in {"free", "running", "over"}
    /\ done \in BOOLEAN
    /\ socket \in BOOLEAN
    /\ delivered \in Seq(Messages)
    /\ frames \in Seq(Codes)

(* newConnection, with both pumps started. *)
Init ==
    /\ policy \in Policies
    /\ queue = << >>
    /\ count = [p \in Producers |-> 0]
    /\ ppc = [p \in Producers |-> "idle"]
    /\ accepted = {}
    /\ refused = {}
    /\ cleaningUp = FALSE
    /\ cpc = [k \in Closers |-> "idle"]
    /\ inHand = << >>
    /\ closeCode = 0
    /\ closeSent = FALSE
    /\ once = "free"
    /\ done = FALSE
    /\ socket = TRUE
    /\ delivered = << >>
    /\ frames = << >>

-----------------------------------------------------------------------------
(* TrySend *)

(* The message producer p is sending. *)
Current(p) == <<p, count[p]>>

(* Mutant: the buffer is a stack. *)
Accept_Stack(p) ==
    /\ queue' = <<Current(p)>> \o queue
    /\ accepted' = accepted \cup {Current(p)}
    /\ ppc' = [ppc EXCEPT ![p] = "idle"]

(* c.send <- msg, and TrySend answers true. *)
Accept(p) ==
    /\ queue' = Append(queue, Current(p))
    /\ accepted' = accepted \cup {Current(p)}
    /\ ppc' = [ppc EXCEPT ![p] = "idle"]

(* The first look at done. *)
TrySend(p) ==
    /\ ppc[p] = "idle"
    /\ count[p] < MaxSends
    /\ count' = [count EXCEPT ![p] = @ + 1]
    /\ ppc' = [ppc EXCEPT ![p] = IF done THEN "idle" ELSE "select"]
    /\ UNCHANGED <<queue, accepted, refused, cleaningUp, cpc, inHand, closeVars,
                   outVars>>

(* The select: with room in the buffer the message is queued, and may be    *)
(* even when done has been closed meanwhile.                                *)
SelectSend(p) ==
    /\ ppc[p] = "select"
    /\ Len(queue) < Capacity
    /\ Accept(p)
    /\ UNCHANGED <<count, refused, cleaningUp, cpc, inHand, closeVars, outVars>>

(* The select picks done. *)
SelectDone(p) ==
    /\ ppc[p] = "select"
    /\ done
    /\ ppc' = [ppc EXCEPT ![p] = "idle"]
    /\ UNCHANGED <<queue, count, accepted, refused, cleaningUp, cpc, inHand,
                   closeVars, outVars>>

(* The default branch: what a full buffer means for the connection. *)
BufferFull(p) ==
    /\ ppc[p] = "select"
    /\ Len(queue) = Capacity
    /\ ~done

(* Mutant: the slow client is flagged, and no CloseWith goroutine started. *)
SelectSlow_OnlyFlags(p) ==
    /\ BufferFull(p)
    /\ policy = "DropSlowClient"
    /\ refused' = refused \cup {Current(p)}
    /\ cleaningUp' = TRUE
    /\ ppc' = [ppc EXCEPT ![p] = "idle"]
    /\ UNCHANGED <<queue, count, accepted, cpc, inHand, closeVars, outVars>>

(* The goroutine of CloseWith(1008) is started once. *)
SelectSlow(p) ==
    /\ BufferFull(p)
    /\ policy = "DropSlowClient"
    /\ refused' = refused \cup {Current(p)}
    /\ cleaningUp' = TRUE
    /\ cpc' = [cpc EXCEPT ![Slow] = IF cleaningUp THEN @ ELSE "code"]
    /\ ppc' = [ppc EXCEPT ![p] = "idle"]
    /\ UNCHANGED <<queue, count, accepted, inHand, closeVars, outVars>>

(* Mutant: the discarded frame is reported as sent. *)
SelectNewest_AnswersTrue(p) ==
    /\ BufferFull(p)
    /\ policy = "DropNewest"
    /\ accepted' = accepted \cup {Current(p)}
    /\ ppc' = [ppc EXCEPT ![p] = "idle"]
    /\ UNCHANGED <<queue, count, refused, cleaningUp, cpc, inHand, closeVars,
                   outVars>>

(* DropNewest: only the new frame is lost. *)
SelectNewest(p) ==
    /\ BufferFull(p)
    /\ policy = "DropNewest"
    /\ refused' = refused \cup {Current(p)}
    /\ ppc' = [ppc EXCEPT ![p] = "idle"]
    /\ UNCHANGED <<queue, count, accepted, cleaningUp, cpc, inHand, closeVars,
                   outVars>>

(* DropOldest goes on to evict. *)
SelectOldest(p) ==
    /\ BufferFull(p)
    /\ policy = "DropOldest"
    /\ ppc' = [ppc EXCEPT ![p] = "evict"]
    /\ UNCHANGED <<queue, count, accepted, refused, cleaningUp, cpc, inHand,
                   closeVars, outVars>>

(* Mutant: the newest queued message is evicted. *)
Evict_Newest(p) ==
    /\ ppc[p] = "evict"
    /\ queue' = IF queue = << >> THEN queue ELSE SubSeq(queue, 1, Len(queue) - 1)
    /\ ppc' = [ppc EXCEPT ![p] = "retry"]
    /\ UNCHANGED <<count, accepted, refused, cleaningUp, cpc, inHand, closeVars,
                   outVars>>

(* DropOldest takes the head out, if there still is one ... *)
Evict(p) ==
    /\ ppc[p] = "evict"
    /\ queue' = IF queue = << >> THEN queue ELSE Tail(queue)
    /\ ppc' = [ppc EXCEPT ![p] = "retry"]
    /\ UNCHANGED <<count, accepted, refused, cleaningUp, cpc, inHand, closeVars,
                   outVars>>

(* ... and tries once more, in a step of its own. *)
Retry(p) ==
    /\ ppc[p] = "retry"
    /\ \/ Len(queue) < Capacity /\ Accept(p) /\ UNCHANGED refused
       \/ /\ Len(queue) = Capacity
          /\ refused' = IF done THEN refused ELSE refused \cup {Current(p)}
          /\ ppc' = [ppc EXCEPT ![p] = "idle"]
          /\ UNCHANGED <<queue, accepted>>
    /\ UNCHANGED <<count, cleaningUp, cpc, inHand, closeVars, outVars>>

-----------------------------------------------------------------------------
(* Conn.write: gorilla/websocket refuses everything after a close frame or  *)
(* on a closed socket, and a write may fail when the peer has gone or has   *)
(* closed, in which case the library answers with a close frame of its own. *)

CanWrite == socket /\ frames = << >>
CanFail == ~CanWrite \/ PeerMayFail

-----------------------------------------------------------------------------
(* CloseWith, and writePump's way out, which shares the frame and cleanup   *)

Goto(k, label) == cpc' = [cpc EXCEPT ![k] = label]

(* The code a CloseWith caller passes: 1002 from readPump for a malformed   *)
(* packet (its 1009 is behind the socket's read limit, which fails the read *)
(* first), 1008 for a slow client.  Code 0 stands for 1000.                 *)
Asked(k) ==
    IF k = Reader THEN 1002
    ELSE IF k = Slow THEN 1008
    ELSE IF CodeOf[k] = 0 THEN 1000 ELSE CodeOf[k]

(* CloseWith begins: closeCode is set under closeMu.  Disconnect may come   *)
(* at any time, readPump when it reads something malformed, the slow        *)
(* client's goroutine when TrySend has started it.                          *)
CloseWith(k) ==
    /\ k \in Closers \ {Writer}
    /\ cpc[k] = IF k = Slow THEN "code" ELSE "idle"
    /\ k = Reader => socket
    /\ closeCode' = Asked(k)
    /\ Goto(k, "cas")
    /\ UNCHANGED <<queue, producerVars, inHand, closeSent, once, done, socket,
                   outVars>>

(* Mutant: closeSent is set and not looked at. *)
ClaimClose_Always(k) ==
    /\ cpc[k] = "cas"
    /\ Goto(k, "write")
    /\ closeSent' = TRUE
    /\ UNCHANGED <<queue, producerVars, inHand, closeCode, once, done, socket,
                   outVars>>

(* closeSent.CompareAndSwap(false, true). *)
ClaimClose(k) ==
    /\ cpc[k] = "cas"
    /\ Goto(k, IF closeSent THEN "clean" ELSE "write")
    /\ closeSent' = TRUE
    /\ UNCHANGED <<queue, producerVars, inHand, closeCode, once, done, socket,
                   outVars>>

(* The code in the frame: the caller's own, or for writePump the recorded   *)
(* one, with 1001 when there is none.                                       *)
FrameCode(k) ==
    IF k # Writer THEN Asked(k) ELSE IF closeCode = 0 THEN 1001 ELSE closeCode

(* c.write of the close frame; its error is ignored. *)
WriteClose(k) ==
    /\ cpc[k] = "write"
    /\ \/ CanWrite /\ frames' = Append(frames, FrameCode(k))
       \/ CanFail /\ UNCHANGED frames
    /\ Goto(k, "clean")
    /\ UNCHANGED <<policy, queue, producerVars, inHand, closeVars, delivered>>

(* cleanup: the first caller closes done and does the work ... *)
CleanupFirst(k) ==
    /\ cpc[k] = "clean"
    /\ once = "free"
    /\ once' = "running"
    /\ done' = TRUE
    /\ Goto(k, "run")
    /\ UNCHANGED <<queue, producerVars, inHand, closeCode, closeSent, socket,
                   outVars>>

(* Mutant: cleanup forgets socket.Close. *)
CleanupEnds_KeepsSocket(k) ==
    /\ cpc[k] = "run"
    /\ once' = "over"
    /\ Goto(k, "end")
    /\ UNCHANGED <<queue, producerVars, inHand, closeCode, closeSent, done,
                   socket, outVars>>

(* ... which ends with socket.Close ... *)
CleanupEnds(k) ==
    /\ cpc[k] = "run"
    /\ socket' = FALSE
    /\ once' = "over"
    /\ Goto(k, "end")
    /\ UNCHANGED <<queue, producerVars, inHand, closeCode, closeSent, done,
                   outVars>>

(* ... and sync.Once makes every other caller wait for it. *)
CleanupAgain(k) ==
    /\ cpc[k] = "clean"
    /\ once = "over"
    /\ Goto(k, "end")
    /\ UNCHANGED <<queue, producerVars, inHand, closeVars, outVars>>

-----------------------------------------------------------------------------
(* The pumps *)

(* readPump's ReadMessage fails: the socket was closed here, the peer       *)
(* answered a close frame, or it is gone.                                   *)
ReadFails ==
    /\ cpc[Reader] = "idle"
    /\ ~socket \/ frames # << >> \/ PeerMayFail
    /\ Goto(Reader, "clean")
    /\ UNCHANGED <<queue, producerVars, inHand, closeVars, outVars>>

(* Mutant: the last message waits for a successor. *)
Receive_KeepsLast ==
    /\ cpc[Writer] = "idle"
    /\ Len(queue) > 1
    /\ inHand' = Head(queue)
    /\ queue' = Tail(queue)
    /\ Goto(Writer, "got")
    /\ UNCHANGED <<producerVars, closeVars, outVars>>

(* writePump receives from send ... *)
Receive ==
    /\ cpc[Writer] = "idle"
    /\ queue # << >>
    /\ inHand' = Head(queue)
    /\ queue' = Tail(queue)
    /\ Goto(Writer, "got")
    /\ UNCHANGED <<producerVars, closeVars, outVars>>

(* ... and writes; on an error it returns. *)
WriteMessage ==
    /\ cpc[Writer] = "got"
    /\ inHand' = << >>
    /\ \/ CanWrite /\ delivered' = Append(delivered, inHand) /\ Goto(Writer, "idle")
       \/ CanFail /\ UNCHANGED delivered /\ Goto(Writer, "clean")
    /\ UNCHANGED <<policy, queue, producerVars, closeVars, frames>>

(* A ping that cannot be written. *)
PingFails ==
    /\ cpc[Writer] = "idle"
    /\ CanFail
    /\ Goto(Writer, "clean")
    /\ UNCHANGED <<queue, producerVars, inHand, closeVars, outVars>>

(* The select sees done, whatever is still in the buffer. *)
WriterSeesDone ==
    /\ cpc[Writer] = "idle"
    /\ done
    /\ Goto(Writer, "cas")
    /\ UNCHANGED <<queue, producerVars, inHand, closeVars, outVars>>

-----------------------------------------------------------------------------
(* Specification *)

Produce(p) ==
    \/ SelectSend(p) \/ SelectDone(p) \/ SelectSlow(p) \/ SelectNewest(p)
    \/ SelectOldest(p) \/ Evict(p) \/ Retry(p)

Close(k) ==
    \/ ClaimClose(k) \/ WriteClose(k) \/ CleanupFirst(k) \/ CleanupEnds(k)
    \/ CleanupAgain(k)

WritePump == Receive \/ WriteMessage \/ WriterSeesDone

(* Every goroutine has returned; callers of Disconnect may not have come.   *)
AllEnded ==
    /\ \A k \in Closers : \/ cpc[k] = "end"
                          \/ cpc[k] = "idle" /\ k \in Kickers \cup {Slow}
    /\ \A p \in Producers : ppc[p] = "idle" /\ count[p] = MaxSends
    /\ UNCHANGED vars

Next ==
    \/ \E p \in Producers : TrySend(p) \/ Produce(p)
    \/ \E k \in Closers : CloseWith(k) \/ Close(k)
    \/ ReadFails \/ WritePump \/ PingFails
    \/ AllEnded

Spec == Init /\ [][Next]_vars

(* Goroutines that can go on do; a blocked read returns once the socket is  *)
(* closed.  Nothing is assumed of who calls Disconnect, what the peer       *)
(* sends, or when it fails.                                                 *)
FairSpec ==
    /\ Spec
    /\ \A p \in Producers : WF_vars(Produce(p))
    /\ \A k \in Closers : WF_vars(Close(k))
    /\ WF_vars(CloseWith(Slow))
    /\ WF_vars(WritePump)
    /\ WF_vars(~socket /\ ReadFails)

-----------------------------------------------------------------------------
(* Properties *)

(* closeSent lets one goroutine through to write a close frame, whoever     *)
(* else is closing the connection: CloseWith callers and writePump.         *)
OneCloseFrame ==
    /\ \A k, l \in Closers : cpc[k] = "write" /\ cpc[l] = "write" => k = l
    /\ frames # << >> => Len(frames) = 1 /\ \A k \in Closers : cpc[k] # "write"

(* What is on its way to the peer, oldest first. *)
Pipeline == delivered \o (IF inHand = << >> THEN << >> ELSE <<inHand>>) \o queue

(* Each producer's messages stay in the order they were sent, without       *)
(* repetition, through eviction and through concurrent producers.           *)
InOrder ==
    \A i, j \in 1..Len(Pipeline) :
        i < j /\ Pipeline[i][1] = Pipeline[j][1] => Pipeline[i][2] < Pipeline[j][2]

InPipeline(m) == \E i \in 1..Len(Pipeline) : Pipeline[i] = m

(* TrySend's answer can be relied on: a message it answered false for never *)
(* goes out, and while writePump is at work one it answered true for is on  *)
(* the wire or on its way, unless the policy is DropOldest.                 *)
NoSilentLoss ==
    /\ \A m \in refused : ~InPipeline(m)
    /\ policy # "DropOldest" /\ cpc[Writer] \in {"idle", "got"}
           => \A m \in accepted : InPipeline(m)

(* What DropOldest gives up is older than anything the same producer still  *)
(* has in the buffer.                                                       *)
OldestEvicted ==
    \A m \in accepted : ~InPipeline(m) /\ cpc[Writer] \in {"idle", "got"}
        => \A i \in 1..Len(queue) : queue[i][1] = m[1] => m[2] < queue[i][2]

(* Once done is closed the socket gets closed and both pumps return, even   *)
(* when several closers meet in cleanupOnce.                                *)
PumpsReturn ==
    done ~> ~socket /\ cpc[Reader] = "end" /\ cpc[Writer] = "end"

(* An overflow under DropSlowClient ends the connection. *)
SlowClientCloses == cleaningUp ~> ~socket

(* An accepted message is delivered or given up by the policy, unless the   *)
(* connection ends first.                                                   *)
AcceptedDelivered ==
    \A m \in Messages :
        m \in accepted ~> \/ \E i \in 1..Len(delivered) : delivered[i] = m
                          \/ policy = "DropOldest" /\ ~InPipeline(m)
                          \/ cpc[Writer] \notin {"idle", "got"}

=============================================================================

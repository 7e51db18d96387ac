---------------------------- MODULE TokenBucket ----------------------------
(***************************************************************************)
(* The limiter of join and leave requests: allowControlEvent of            *)
(* src/server/go/conn.go, called by dispatch, one per connection.          *)
(*                                                                         *)
(* Time is counted in ticks, PerSecond of them a second, and tokens in      *)
(* units of 1/PerSecond of a token, so that elapsed * rate is an integer;   *)
(* the rounding of float64 is left out.  time.Now is read under controlMu   *)
(* from Go's monotonic clock, so a call is one step and time only grows.    *)
(***************************************************************************)
EXTENDS Integers

CONSTANTS
    ControlRateLimit,   \* Config.ControlRateLimit, tokens a second
    ControlBurst,       \* Config.ControlBurst
    PerSecond,          \* ticks a second
    MaxTime             \* bound: ticks

ASSUME LimitAssumption == ControlRateLimit \in Int /\ ControlBurst \in Int
ASSUME TickAssumption == PerSecond \in Nat \ {0}
ASSUME TimeAssumption == MaxTime \in Nat

(* Settings that are zero or negative stand for the defaults. *)
Rate == IF ControlRateLimit <= 0 THEN 10 ELSE ControlRateLimit
Burst == IF ControlBurst <= 0 THEN 20 ELSE ControlBurst

Full == Burst * PerSecond

VARIABLES
    now,            \* the clock
    tokens,         \* Conn.controlTokens
    last,           \* Conn.controlLast
    granted,        \* requests let through so far
    markTime,       \* history: an arbitrary moment, ...
    markGranted,    \* ... and the requests granted before it
    fullTime,       \* history: when the bucket was last found full, ...
    fullGranted     \* ... and the requests granted before that

limiterVars == <<tokens, last, granted, fullTime, fullGranted>>
vars == <<now, limiterVars, markTime, markGranted>>

(* The one type invariant of the module: controlTokens never leaves the     *)
(* range from empty to burst.                                               *)
TypeOK ==
    /\ now \in Nat
    /\ tokens \in 0..Full
    /\ last \in Nat
    /\ granted \in Nat
    /\ markTime \in Nat
    /\ markGranted \in Nat
    /\ fullTime \in Nat
    /\ fullGranted \in Nat

(* newConnection: the bucket starts full. *)
Init ==
    /\ now = 0
    /\ tokens = Full
    /\ last = 0
    /\ granted = 0
    /\ markTime = 0
    /\ markGranted = 0
    /\ fullTime = 0
    /\ fullGranted = 0

-----------------------------------------------------------------------------
(* Mutant: a whole burst is added, whatever the time since the last call. *)
Refilled_Burst == Full

(* The tokens after the time since the last call is credited. *)
Refilled ==
    LET credit == tokens + (now - last) * Rate
    IN  IF credit > Full THEN Full ELSE credit

(* Mutant: a refused call loses the time that has passed since the last. *)
AllowControlEvent_RefusalForgets ==
    /\ last' = now
    /\ IF Refilled >= PerSecond
         THEN tokens' = Refilled - PerSecond /\ granted' = granted + 1
         ELSE UNCHANGED <<tokens, granted>>
    /\ IF Refilled = Full
         THEN fullTime' = now /\ fullGranted' = granted
         ELSE UNCHANGED <<fullTime, fullGranted>>
    /\ UNCHANGED <<now, markTime, markGranted>>

(* allowControlEvent: time is credited on every call, the token is taken    *)
(* when there is one.                                                       *)
AllowControlEvent ==
    /\ last' = now
    /\ IF Refilled >= PerSecond
         THEN tokens' = Refilled - PerSecond /\ granted' = granted + 1
         ELSE tokens' = Refilled /\ UNCHANGED granted
    /\ IF Refilled = Full
         THEN fullTime' = now /\ fullGranted' = granted
         ELSE UNCHANGED <<fullTime, fullGranted>>
    /\ UNCHANGED <<now, markTime, markGranted>>

Tick ==
    /\ now < MaxTime
    /\ now' = now + 1
    /\ UNCHANGED <<limiterVars, markTime, markGranted>>

(* Begin to watch here. *)
Mark ==
    /\ markTime' = now
    /\ markGranted' = granted
    /\ UNCHANGED <<now, limiterVars>>

Next == AllowControlEvent \/ Tick \/ Mark

Spec == Init /\ [][Next]_vars

-----------------------------------------------------------------------------
(* Properties *)

(* From any moment on, join and leave requests are let through at no more   *)
(* than the burst plus the rate times the time since.                       *)
WindowBound ==
    (granted - markGranted) * PerSecond <= Full + Rate * (now - markTime)

(* The converse: allowControlEvent refuses only a request that would take   *)
(* the connection over that bound, counted from when its bucket was last    *)
(* full.  Time spent on refused requests is not lost.                       *)
RefusedOnlyOverBound ==
    [][AllowControlEvent /\ granted' = granted
        => (granted + 1 - fullGranted') * PerSecond > Full + Rate * (now - fullTime')]_vars

=============================================================================

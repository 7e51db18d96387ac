------------------------- MODULE TokenBucketProofs -------------------------
(***************************************************************************)
(* The limiter's two bounds for every rate, burst and clock resolution.    *)
(*                                                                         *)
(* Neither is inductive by itself, since neither mentions the tokens.  The  *)
(* invariant says that what was granted in a window and what is left in     *)
(* the bucket together stay within what the window allows (MarkInv), and    *)
(* are exactly that since the bucket was last full (FullInv).               *)
(***************************************************************************)
EXTENDS TokenBucket, TLAPS

(* The clock has not run behind any recorded moment. *)
TimeInv == last <= now /\ markTime <= now /\ fullTime <= last

(* Granted and left over since the mark: within the bound at controlLast. *)
MarkInv ==
    /\ markGranted <= granted
    /\ \/ granted = markGranted
       \/ /\ markTime <= last
          /\ (granted - markGranted) * PerSecond + tokens
                <= Full + Rate * (last - markTime)

(* Granted and left over since the bucket was full: exactly what came in. *)
FullInv ==
    (granted - fullGranted) * PerSecond + tokens = Full + Rate * (last - fullTime)

BucketInv == TypeOK /\ TimeInv /\ MarkInv /\ FullInv

USE LimitAssumption, TickAssumption, TimeAssumption

-----------------------------------------------------------------------------
(* The settings in force are positive, and a full bucket holds a token. *)
LEMMA Settings ==
    Rate \in Nat \ {0} /\ Burst \in Nat \ {0} /\ Full \in Nat /\ PerSecond <= Full
<1>1. Rate \in Nat \ {0} /\ Burst \in Nat \ {0}
  BY DEF Rate, Burst
<1>2. ASSUME NEW a \in Nat \ {0}, NEW b \in Nat \ {0} PROVE a * b \in Nat /\ b <= a * b
  BY Z3
<1> QED
  BY <1>1, <1>2 DEF Full

(* Credit for two stretches of time that follow each other adds up. *)
LEMMA Credit ==
    ASSUME NEW r \in Nat, NEW a \in Int, NEW b \in Int, NEW c \in Int
    PROVE  /\ r * (c - a) = r * (b - a) + (c - b) * r
           /\ r * (b - a) \in Int
           /\ a <= b => 0 <= r * (b - a) /\ 0 <= (b - a) * r
  BY Z3

(* Granting one more request costs PerSecond. *)
LEMMA OneMore ==
    ASSUME NEW g \in Int, NEW m \in Int, NEW u \in Nat
    PROVE  (g + 1 - m) * u = (g - m) * u + u /\ (g - m) * u \in Int
  BY Z3

(* newConnection establishes the invariant. *)
LEMMA BucketInit == Init => BucketInv
  BY Settings DEF Init, BucketInv, TypeOK, TimeInv, MarkInv, FullInv

(* Every call keeps the sums, whether it grants or refuses. *)
LEMMA AllowStep == ASSUME BucketInv, AllowControlEvent PROVE BucketInv'
<1> DEFINE R == Refilled
<1> USE DEF BucketInv, TypeOK, TimeInv
<1>1. /\ Rate \in Nat /\ Full \in Nat /\ PerSecond <= Full
      /\ tokens \in Nat /\ tokens <= Full
  BY Settings
<1>2. 0 <= (now - last) * Rate /\ (now - last) * Rate \in Int
  BY <1>1, Credit
<1>3. /\ R \in 0..Full
      /\ R <= tokens + (now - last) * Rate
      /\ R # Full => R = tokens + (now - last) * Rate
  BY <1>1, <1>2 DEF Refilled
<1>4. /\ last' = now /\ now' = now
      /\ markTime' = markTime /\ markGranted' = markGranted
      /\ \/ R >= PerSecond /\ tokens' = R - PerSecond /\ granted' = granted + 1
         \/ R < PerSecond /\ tokens' = R /\ granted' = granted
      /\ IF R = Full THEN fullTime' = now /\ fullGranted' = granted
                     ELSE fullTime' = fullTime /\ fullGranted' = fullGranted
  BY <1>1, <1>3 DEF AllowControlEvent
<1>5. TypeOK' /\ TimeInv'
  BY <1>1, <1>3, <1>4
<1> DEFINE gm == (granted - markGranted) * PerSecond
           gf == (granted - fullGranted) * PerSecond
<1>6. /\ gm \in Int /\ (granted + 1 - markGranted) * PerSecond = gm + PerSecond
      /\ gf \in Int /\ (granted + 1 - fullGranted) * PerSecond = gf + PerSecond
      /\ (granted - granted) * PerSecond = 0
      /\ (granted + 1 - granted) * PerSecond = PerSecond
  BY OneMore
<1>7. (granted' - markGranted) * PerSecond + tokens' = gm + R
  BY <1>3, <1>4, <1>6
<1>8. MarkInv'
  <2>1. markGranted <= granted'
    BY <1>4 DEF MarkInv
  <2>2. gm + R <= Full + Rate * (now - markTime)
    <3>1. Rate * (now - markTime) \in Int /\ 0 <= Rate * (now - markTime)
      BY <1>1, Credit
    <3>2. CASE granted = markGranted
      BY <1>1, <1>3, <1>6, <3>1, <3>2
    <3>3. CASE granted # markGranted
      <4>1. gm + tokens <= Full + Rate * (last - markTime)
        BY <3>3 DEF MarkInv
      <4>2. /\ Rate * (now - markTime) = Rate * (last - markTime) + (now - last) * Rate
            /\ Rate * (last - markTime) \in Int
        BY <1>1, Credit
      <4> QED
        BY <1>1, <1>2, <1>3, <1>6, <4>1, <4>2
    <3> QED
      BY <3>2, <3>3
  <2> QED
    BY <1>4, <1>7, <2>1, <2>2 DEF MarkInv, Full, Burst, Rate
<1>9. FullInv'
  <2>1. CASE R = Full
    <3>1. Rate * (now - now) = 0
      BY <1>1
    <3>2. (granted' - granted) * PerSecond + tokens' = Full
      BY <1>1, <1>3, <1>4, <1>6, <2>1
    <3> QED
      BY <1>1, <1>4, <2>1, <3>1, <3>2 DEF FullInv, Full, Burst, Rate
  <2>2. CASE R # Full
    <3>1. (granted' - fullGranted) * PerSecond + tokens' = gf + R
      BY <1>3, <1>4, <1>6
    <3>2. gf + tokens = Full + Rate * (last - fullTime)
      BY DEF FullInv
    <3>3. /\ Rate * (now - fullTime) = Rate * (last - fullTime) + (now - last) * Rate
          /\ Rate * (last - fullTime) \in Int
      BY <1>1, Credit
    <3>4. gf + R = Full + Rate * (now - fullTime)
      BY <1>1, <1>2, <1>3, <1>6, <2>2, <3>2, <3>3
    <3> QED
      BY <1>4, <2>2, <3>1, <3>4 DEF FullInv, Full, Burst, Rate
  <2> QED
    BY <2>1, <2>2
<1> QED
  BY <1>5, <1>8, <1>9

(* So do the clock and a new mark. *)
LEMMA OtherStep == ASSUME BucketInv, Tick \/ Mark \/ UNCHANGED vars PROVE BucketInv'
<1> USE DEF BucketInv, TypeOK, TimeInv, MarkInv, FullInv, Full, Burst, Rate, limiterVars
<1>1. CASE Tick
  BY <1>1 DEF Tick
<1>2. CASE Mark
  BY <1>2 DEF Mark
<1>3. CASE UNCHANGED vars
  BY <1>3 DEF vars
<1> QED
  BY <1>1, <1>2, <1>3

(* The invariant holds always. *)
LEMMA BucketAlways == Spec => []BucketInv
<1>1. BucketInv /\ [Next]_vars => BucketInv'
  BY AllowStep, OtherStep DEF Next
<1> QED
  BY <1>1, BucketInit, PTL DEF Spec

-----------------------------------------------------------------------------
(* allowControlEvent keeps controlTokens between empty and burst. *)
THEOREM BucketTypeCorrect == Spec => []TypeOK
<1>1. BucketInv => TypeOK
  BY DEF BucketInv
<1> QED
  BY <1>1, BucketAlways, PTL

(* No window of any length lets through more join and leave requests than   *)
(* burst plus rate times its length.                                        *)
THEOREM RateLimited == Spec => []WindowBound
<1>1. ASSUME BucketInv PROVE WindowBound
  <2> USE <1>1 DEF BucketInv, TypeOK, TimeInv
  <2>1. Rate \in Nat /\ Full \in Nat
    BY Settings
  <2>2. 0 <= Rate * (now - markTime) /\ Rate * (now - markTime) \in Int
    BY <2>1, Credit
  <2>3. (granted - markGranted) * PerSecond \in Int
    BY OneMore
  <2>4. CASE granted = markGranted
    <3>1. (granted - markGranted) * PerSecond = 0
      BY <2>4
    <3> QED
      BY <2>1, <2>2, <3>1 DEF WindowBound
  <2>5. CASE granted # markGranted
    <3>1. (granted - markGranted) * PerSecond + tokens
             <= Full + Rate * (last - markTime)
      BY <2>5 DEF MarkInv
    <3>2. /\ Rate * (now - markTime) = Rate * (last - markTime) + (now - last) * Rate
          /\ Rate * (last - markTime) \in Int
          /\ 0 <= (now - last) * Rate
      BY <2>1, Credit
    <3> QED
      BY <2>1, <2>2, <2>3, <3>1, <3>2 DEF WindowBound
  <2> QED
    BY <2>4, <2>5
<1> QED
  BY <1>1, BucketAlways, PTL

(* A request is refused only when granting it would break that bound for    *)
(* the window since the bucket was last full.                               *)
THEOREM RefusalJustified == Spec => RefusedOnlyOverBound
<1> DEFINE Justified ==
      AllowControlEvent /\ granted' = granted
        => (granted + 1 - fullGranted') * PerSecond > Full + Rate * (now - fullTime')
<1>1. ASSUME BucketInv, BucketInv', [Next]_vars PROVE [Justified]_vars
  <2> SUFFICES ASSUME AllowControlEvent, granted' = granted
               PROVE  (granted + 1 - fullGranted') * PerSecond
                         > Full + Rate * (now - fullTime')
    OBVIOUS
  <2> USE <1>1 DEF BucketInv, TypeOK
  <2>1. Rate \in Nat /\ Full \in Nat
    BY Settings
  <2>2. last' = now /\ tokens' < PerSecond
    BY <2>1 DEF AllowControlEvent
  <2>3. (granted - fullGranted') * PerSecond + tokens' = Full + Rate * (now - fullTime')
    BY <2>2 DEF FullInv, Full, Burst, Rate
  <2>4. /\ (granted + 1 - fullGranted') * PerSecond
             = (granted - fullGranted') * PerSecond + PerSecond
        /\ (granted - fullGranted') * PerSecond \in Int
    BY OneMore
  <2>5. Rate * (now - fullTime') \in Int
    BY <2>1, Credit
  <2>6. tokens' \in Int
    BY <2>1
  <2> DEFINE g == (granted - fullGranted') * PerSecond
             f == Rate * (now - fullTime')
  <2>7. g \in Int /\ f \in Int /\ g + tokens' = Full + f
    BY <2>3, <2>4, <2>5
  <2> HIDE DEF g, f
  <2> HIDE <1>1 DEF BucketInv, TypeOK
  <2>8. ASSUME NEW t \in Int, g + t = Full + f, t < PerSecond
        PROVE  g + PerSecond > Full + f
    BY <2>1, <2>7, <2>8, Z3
  <2> QED
    BY <2>2, <2>4, <2>6, <2>7, <2>8 DEF g, f
<1>2. []BucketInv /\ [][Next]_vars => [][Justified]_vars
  BY <1>1, PTL
<1> QED
  BY <1>2, BucketAlways, PTL DEF Spec, RefusedOnlyOverBound

=============================================================================

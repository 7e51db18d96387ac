----------------------------- MODULE WireProofs -----------------------------
(***************************************************************************)
(* What ByteCursor and Wire guarantee for bytes of any number of values,    *)
(* buffers, texts, payloads and frames of any length: the position stays    *)
(* in the view, numbers are read back as they were written, a call writes   *)
(* only from the position on; decode_message never reads past the end of a  *)
(* frame, accepts no frame that begins another, and what it accepted is     *)
(* written and relayed again byte for byte.                                 *)
(*                                                                         *)
(* Values and texts are defined by folds, so facts about them need          *)
(* induction: the set of the numbers a fact holds of has 0 and with n also  *)
(* n + 1 (Induction, from the well-foundedness of < on Nat).  A fold over a *)
(* sequence is the last of a chain of partial results (FoldExists,          *)
(* UnsignedSteps, FlattenSteps, WritingSteps); decode_message's has five    *)
(* links, one for each field with a length (TakeSteps).  Numbers go through *)
(* bytes and back since dividing by a power is dividing by Base again and   *)
(* again (QuotientOfProduct, ValueOfBytes, DigitsOfValue).                  *)
(*                                                                         *)
(* CallInv is inductive for the cursor: it fits its buffer, and the bytes   *)
(* just written have the value written.  FrameInv is for what reaches the   *)
(* server, ForwardInv for what it has accepted and makes of it.             *)
(*                                                                         *)
(* That a message arrives as it was sent is about where its fields lie in a *)
(* frame: the server's encode lays them one behind the other, and so does   *)
(* the client's new_message (FlattenLaid, WritingLaid: Carries); each of    *)
(* the decoders finds the fields of a frame where they lie (TakeCarried,    *)
(* ReadCarried); a text made of characters is decoded as it was encoded     *)
(* (DecodedBack).  ArriveInv says where on its way which of them holds.     *)
(***************************************************************************)
EXTENDS Wire, SequenceTheorems, WellFoundedInduction, TLAPS

-----------------------------------------------------------------------------
(* Induction *)

(* A set of numbers has a least. *)
LEMMA Least ==
    ASSUME NEW T, T \subseteq Nat, T # {}
    PROVE  \E x \in T : \A y \in T : x <= y
<1> DEFINE R == {ss \in Nat \X Nat : ss[1] < ss[2]}
<1>1. IsWellFoundedOn(R, Nat)
  BY NatLessThanWellFounded, Zenon DEF OpToRel
<1> HIDE DEF R
<1>2. \E x \in T : \A y \in T : ~ (<<y, x>> \in R)
  BY <1>1, WFMin, Zenon
<1> USE DEF R
<1>3. PICK x \in T : \A y \in T : ~ (<<y, x>> \in R)
  BY <1>2
<1>4. ASSUME NEW y \in T
      PROVE  x <= y
  <2>1. x \in Nat /\ y \in Nat
    OBVIOUS
  <2>2. y < x => <<y, x>> \in R
    BY <2>1
  <2>3. ~(y < x)
    BY <1>3, <2>2
  <2> HIDE DEF R
  <2> QED
    BY <2>1, <2>3
<1> QED
  BY <1>4

(* A set that has 0, and with n also n + 1, has all numbers. *)
LEMMA Induction ==
    ASSUME NEW G, 0 \in G, \A n \in Nat : n \in G => n + 1 \in G
    PROVE  \A n \in Nat : n \in G
<1> SUFFICES ASSUME NEW k \in Nat, k \notin G
             PROVE  FALSE
  OBVIOUS
<1> DEFINE T == {n \in Nat : n \notin G}
<1>1. PICK x \in T : \A y \in T : x <= y
  <2>1. T \subseteq Nat /\ T # {}
    OBVIOUS
  <2> HIDE DEF T
  <2> QED
    BY <2>1, Least
<1>2. CASE x = 0
  BY <1>2
<1>3. CASE x # 0
  <2>1. x - 1 \in Nat
    BY <1>3
  <2>2. x - 1 \in G
    BY <1>1, <2>1
  <2> QED
    BY <2>1, <2>2
<1> QED
  BY <1>2, <1>3

-----------------------------------------------------------------------------
(* Folds *)

(* A set of numbers up to n has a greatest, and n is it if it is there. *)
LEMMA Greatest ==
    ASSUME NEW n \in Nat, NEW t, t \subseteq 0..n, t # {}
    PROVE  Max(t) \in t /\ (n \in t => Max(t) = n)
<1> DEFINE D == {n - x : x \in t}
<1>1. D \subseteq Nat /\ D # {}
  <2>1. \A x \in t : n - x \in Nat
    OBVIOUS
  <2>2. PICK x : x \in t
    OBVIOUS
  <2>3. n - x \in D
    BY <2>2
  <2> QED
    BY <2>1, <2>3
<1>2. PICK d \in D : \A e \in D : d <= e
  <2> HIDE DEF D
  <2> QED
    BY <1>1, Least
<1>3. PICK x \in t : d = n - x
  OBVIOUS
<1>4. \A y \in t : x >= y
  <2> TAKE y \in t
  <2>1. n - x <= n - y
    BY <1>2, <1>3
  <2> QED
    BY <2>1
<1>5. Max(t) \in t /\ \A y \in t : Max(t) >= y
  <2>1. \E z \in t : \A y \in t : z >= y
    BY <1>4
  <2> QED
    BY <2>1 DEF Max
<1> HIDE DEF D
<1>6. n \in t => Max(t) = n
  <2>1. Max(t) \in 0..n
    BY <1>5
  <2> QED
    BY <1>5, <2>1
<1> QED
  BY <1>5, <1>6

(* h gives the fold of F, from base, over every part of s. *)
Folds(h, F, base, s, n) ==
    \A t \in SUBSET (1..n) :
        h[t] = IF t = {} THEN base ELSE F[<<h[t \ {Max(t)}], s[Max(t)]>>]

(* Is there such an h with values in A? *)
HasFold(A, F, base, s, n) == \E h \in [SUBSET (1..n) -> A] : Folds(h, F, base, s, n)

(* There is such a function. *)
LEMMA FoldExists ==
    ASSUME NEW A, NEW W, NEW F \in [A \X W -> A], NEW base \in A, NEW n \in Nat,
           NEW s \in [1..n -> W]
    PROVE  HasFold(A, F, base, s, n)
<1> DEFINE G == {m \in Nat : m <= n => HasFold(A, F, base, s, m)}
<1>1. 0 \in G
  <2> DEFINE h == [t \in SUBSET (1..0) |-> base]
  <2>1. h \in [SUBSET (1..0) -> A] /\ Folds(h, F, base, s, 0)
    <3>1. \A t \in SUBSET (1..0) : t = {}
      OBVIOUS
    <3> QED
      BY <3>1 DEF Folds
  <2> HIDE DEF h
  <2> QED
    BY <2>1 DEF HasFold
<1>2. ASSUME NEW m \in Nat, m \in G
      PROVE  m + 1 \in G
  <2> SUFFICES ASSUME m + 1 <= n
               PROVE  HasFold(A, F, base, s, m + 1)
    OBVIOUS
  <2>1. PICK h \in [SUBSET (1..m) -> A] : Folds(h, F, base, s, m)
    <3>1. m <= n
      OBVIOUS
    <3> QED
      BY <1>2, <3>1 DEF HasFold
  <2> DEFINE k == m + 1
             g == [t \in SUBSET (1..k) |-> IF k \in t THEN F[<<h[t \ {k}], s[k]>>] ELSE h[t]]
  <2>2. \A t \in SUBSET (1..k) : t \ {k} \in SUBSET (1..m)
    OBVIOUS
  <2>3. \A t \in SUBSET (1..m) : g[t] = h[t]
    OBVIOUS
  <2>4. g \in [SUBSET (1..k) -> A]
    <3>1. s[k] \in W
      OBVIOUS
    <3>2. \A t \in SUBSET (1..k) : k \notin t => t \in SUBSET (1..m)
      OBVIOUS
    <3> HIDE DEF k
    <3> QED
      BY <2>2, <3>1, <3>2
  <2>5. ASSUME NEW t \in SUBSET (1..k)
        PROVE  g[t] = IF t = {} THEN base ELSE F[<<g[t \ {Max(t)}], s[Max(t)]>>]
    <3>1. CASE k \in t
      <4>1. Max(t) = k
        <5>1. k \in Nat /\ t \subseteq 0..k /\ t # {}
          BY <3>1
        <5> HIDE DEF k
        <5> QED
          BY <3>1, <5>1, Greatest
      <4>2. g[t \ {k}] = h[t \ {k}]
        BY <2>2, <2>3
      <4>3. g[t] = F[<<h[t \ {k}], s[k]>>]
        BY <3>1
      <4> HIDE DEF g, k
      <4> QED
        BY <3>1, <4>1, <4>2, <4>3
    <3>2. CASE k \notin t /\ t # {}
      <4>1. t \in SUBSET (1..m)
        BY <3>2
      <4>2. t \ {Max(t)} \in SUBSET (1..m)
        BY <4>1
      <4>3. h[t] = F[<<h[t \ {Max(t)}], s[Max(t)]>>]
        BY <2>1, <3>2, <4>1 DEF Folds
      <4>4. g[t] = h[t] /\ g[t \ {Max(t)}] = h[t \ {Max(t)}]
        BY <2>3, <4>1, <4>2
      <4> HIDE DEF g, k
      <4> QED
        BY <3>2, <4>3, <4>4
    <3>3. CASE t = {}
      <4>1. t \in SUBSET (1..m)
        BY <3>3
      <4>2. g[t] = h[t] /\ h[t] = base
        BY <2>1, <2>3, <3>3, <4>1 DEF Folds
      <4> HIDE DEF g, k
      <4> QED
        BY <3>3, <4>2
    <3> QED
      BY <3>1, <3>2, <3>3
  <2> HIDE DEF g
  <2> QED
    BY <2>4, <2>5 DEF Folds, HasFold
<1> HIDE DEF G
<1>3. n \in G
  BY <1>1, <1>2, Induction
<1> QED
  BY <1>3 DEF G

(* The last of the first k. *)
LEMMA FirstOnes ==
    ASSUME NEW n \in Nat, NEW k \in 1..n
    PROVE  /\ 1..k \in SUBSET (1..n) /\ 1..k # {}
           /\ Max(1..k) = k /\ (1..k) \ {k} = 1..(k - 1)
           /\ 1..0 = {} /\ {} \in SUBSET (1..n)
<1>1. 1..k \subseteq 0..k /\ 1..k # {} /\ k \in 1..k /\ k \in Nat
  OBVIOUS
<1>2. Max(1..k) = k
  <2> DEFINE t == 1..k
  <2>1. t \subseteq 0..k /\ t # {} /\ k \in t
    BY <1>1
  <2> HIDE DEF t
  <2>2. Max(t) = k
    BY <1>1, <2>1, Greatest
  <2> QED
    BY <2>2 DEF t
<1> QED
  BY <1>1, <1>2

(* The value of bytes, one after the other. *)
LEMMA UnsignedSteps ==
    ASSUME NEW n \in Nat, NEW bs \in [1..n -> Nat]
    PROVE  \E v \in [0..n -> Nat] :
              /\ v[0] = 0 /\ \A k \in 1..n : v[k] = v[k - 1] * Base + bs[k]
              /\ Unsigned(bs) = v[n]
<1> DEFINE E(f) == [t \in SUBSET (1..n) |->
                      IF t = {} THEN 0 ELSE f[t \ {Max(t)}] * Base + bs[Max(t)]]
           F == [p \in Nat \X Nat |-> p[1] * Base + p[2]]
<1>1. F \in [Nat \X Nat -> Nat] /\ \A a, b \in Nat : F[<<a, b>>] = a * Base + b
  BY BaseAssumption
<1>2. \E f : f = E(f)
  <2>1. PICK h \in [SUBSET (1..n) -> Nat] : Folds(h, F, 0, bs, n)
    <3> HIDE DEF F
    <3>1. HasFold(Nat, F, 0, bs, n)
      BY <1>1, FoldExists
    <3> QED
      BY <3>1 DEF HasFold
  <2> HIDE DEF F
  <2>2. ASSUME NEW t \in SUBSET (1..n), t # {}
        PROVE  h[t] = h[t \ {Max(t)}] * Base + bs[Max(t)]
    <3>1. Max(t) \in 1..n
      <4>1. t \subseteq 0..n
        OBVIOUS
      <4> QED
        BY <2>2, <4>1, Greatest
    <3>2. h[t \ {Max(t)}] \in Nat /\ bs[Max(t)] \in Nat
      BY <3>1
    <3>3. h[t] = F[<<h[t \ {Max(t)}], bs[Max(t)]>>]
      BY <2>1, <2>2 DEF Folds
    <3> QED
      BY <1>1, <3>2, <3>3
  <2>3. h[{}] = 0
    BY <2>1 DEF Folds
  <2>4. h = E(h)
    BY <2>2, <2>3
  <2> QED
    BY <2>4
<1> DEFINE g == CHOOSE f : f = E(f)
<1>3. g = E(g)
  <2> HIDE DEF E
  <2> QED
    BY <1>2
<1>4. Unsigned(bs) = g[1..n]
  <2>1. DOMAIN bs = 1..n
    OBVIOUS
  <2>2. Unsigned(bs) = g[DOMAIN bs]
    BY <2>1 DEF Unsigned, FoldLeft, MapThenFoldSet
  <2> QED
    BY <2>1, <2>2
<1> HIDE DEF g
<1> DEFINE v == [k \in 0..n |-> g[1..k]]
<1>5. g[{}] = 0
  BY <1>3
<1>6. v[0] = 0
  <2>1. 1..0 = {}
    OBVIOUS
  <2> QED
    BY <1>5, <2>1
<1>7. ASSUME NEW k \in 1..n
      PROVE  v[k] = v[k - 1] * Base + bs[k]
  <2>1. g[1..k] = g[(1..k) \ {Max(1..k)}] * Base + bs[Max(1..k)]
    BY <1>3, FirstOnes
  <2>2. g[1..k] = g[1..(k - 1)] * Base + bs[k]
    BY <2>1, FirstOnes
  <2>3. v[k] = g[1..k] /\ v[k - 1] = g[1..(k - 1)]
    OBVIOUS
  <2> HIDE DEF v
  <2> QED
    BY <2>2, <2>3
<1>8. v = [k \in 0..n |-> v[k]] /\ v[n] = g[1..n]
  OBVIOUS
<1> HIDE DEF v, E, F
<1>9. \A k \in Nat : k \in {m \in Nat : m <= n => v[m] \in Nat}
  <2> DEFINE G == {m \in Nat : m <= n => v[m] \in Nat}
  <2>1. 0 \in G
    BY <1>6
  <2>2. ASSUME NEW m \in Nat, m \in G PROVE m + 1 \in G
    <3>1. SUFFICES ASSUME m + 1 <= n PROVE v[m + 1] \in Nat
      OBVIOUS
    <3>2. v[m] \in Nat
      BY <2>2, <3>1
    <3>3. v[m + 1] = v[(m + 1) - 1] * Base + bs[m + 1] /\ bs[m + 1] \in Nat
      BY <1>7, <3>1
    <3>4. (m + 1) - 1 = m
      OBVIOUS
    <3>5. \A a, b \in Nat : a * Base + b \in Nat
      BY BaseAssumption
    <3> QED
      BY <3>2, <3>3, <3>4, <3>5
  <2> HIDE DEF G
  <2>3. \A k \in Nat : k \in G
    BY <2>1, <2>2, Induction
  <2> QED
    BY <2>3 DEF G
<1>10. v \in [0..n -> Nat]
  BY <1>8, <1>9
<1> QED
  BY <1>4, <1>6, <1>7, <1>8, <1>10

-----------------------------------------------------------------------------
(* Numbers *)

(* p has the powers of Base up to the m-th. *)
Powers(p, m) ==
    p \in [0..m -> Nat \ {0}] /\ p[0] = 1 /\ \A k \in 1..m : p[k] = Base * p[k - 1]

(* There are such powers. *)
LEMMA PowersExist == \A m \in Nat : \E p : Powers(p, m)
<1> DEFINE Has(m) == \E p : Powers(p, m)
           G == {m \in Nat : Has(m)}
<1>1. Has(0)
  <2> DEFINE p == [k \in 0..0 |-> 1]
  <2>1. Powers(p, 0)
    BY DEF Powers
  <2> QED
    BY <2>1
<1>2. ASSUME NEW m \in Nat, Has(m)
      PROVE  Has(m + 1)
  <2>1. PICK p : Powers(p, m)
    BY <1>2
  <2> DEFINE q == [k \in 0..(m + 1) |-> IF k = m + 1 THEN Base * p[m] ELSE p[k]]
  <2>2. Base * p[m] \in Nat \ {0}
    <3>1. p[m] \in Nat \ {0} /\ Base \in Nat \ {0}
      BY <2>1, BaseAssumption DEF Powers
    <3>2. \A a, b \in Nat \ {0} : a * b \in Nat \ {0}
      OBVIOUS
    <3> QED
      BY <3>1, <3>2
  <2>3. q \in [0..(m + 1) -> Nat \ {0}]
    BY <2>1, <2>2 DEF Powers
  <2>4. ASSUME NEW k \in 1..(m + 1)
        PROVE  q[k] = Base * q[k - 1]
    <3>1. CASE k = m + 1
      <4>1. q[k] = Base * p[m] /\ q[k - 1] = p[m]
        BY <3>1
      <4> QED
        BY <4>1
    <3>2. CASE k # m + 1
      <4>1. q[k] = p[k] /\ q[k - 1] = p[k - 1] /\ k \in 1..m
        BY <3>2
      <4> QED
        BY <2>1, <4>1 DEF Powers
    <3> QED
      BY <3>1, <3>2
  <2>5. q[0] = 1
    BY <2>1 DEF Powers
  <2> HIDE DEF q
  <2>6. Powers(q, m + 1)
    BY <2>3, <2>4, <2>5 DEF Powers
  <2> QED
    BY <2>6
<1>3. \A m \in Nat : m \in G
  <2> HIDE DEF Has
  <2>1. 0 \in G /\ \A m \in Nat : m \in G => m + 1 \in G
    BY <1>1, <1>2
  <2> HIDE DEF G
  <2> QED
    BY <2>1, Induction
<1> QED
  BY <1>3

(* And no others. *)
LEMMA PowersAgree ==
    ASSUME NEW m \in Nat, NEW l \in Nat, NEW p, NEW q, Powers(p, m), Powers(q, l)
    PROVE  \A k \in Nat : k <= m /\ k <= l => p[k] = q[k]
<1> DEFINE G == {k \in Nat : k <= m /\ k <= l => p[k] = q[k]}
<1>1. 0 \in G
  BY DEF Powers
<1>2. ASSUME NEW k \in Nat, k \in G
      PROVE  k + 1 \in G
  <2>1. SUFFICES ASSUME k + 1 <= m, k + 1 <= l
                 PROVE  p[k + 1] = q[k + 1]
    OBVIOUS
  <2>2. p[k + 1] = Base * p[(k + 1) - 1] /\ q[k + 1] = Base * q[(k + 1) - 1]
    BY <2>1 DEF Powers
  <2>3. (k + 1) - 1 = k /\ p[k] = q[k]
    BY <1>2, <2>1
  <2> QED
    BY <2>2, <2>3
<1>3. \A k \in Nat : k \in G
  <2> HIDE DEF G
  <2> QED
    BY <1>1, <1>2, Induction
<1> QED
  BY <1>3

(* What the recursion of Power says is true of it. *)
LEMMA PowerSteps ==
    /\ Power \in [Nat -> Nat \ {0}] /\ Power[0] = 1
    /\ \A w \in Nat : Power[w + 1] = Base * Power[w]
<1> DEFINE c(m) == CHOOSE p : Powers(p, m)
           q == [m \in Nat |-> c(m)[m]]
           E(f) == [w \in Nat |-> IF w = 0 THEN 1 ELSE Base * f[w - 1]]
<1>1. \A m \in Nat : Powers(c(m), m)
  BY PowersExist
<1> HIDE DEF c
<1>2. \A m \in Nat : q[m] \in Nat \ {0}
  BY <1>1 DEF Powers
<1>3. q[0] = 1
  BY <1>1 DEF Powers
<1>4. ASSUME NEW w \in Nat, w # 0
      PROVE  q[w] = Base * q[w - 1]
  <2>1. w - 1 \in Nat /\ w \in 1..w
    BY <1>4
  <2>2. Powers(c(w), w) /\ Powers(c(w - 1), w - 1)
    BY <1>1, <2>1
  <2>3. c(w)[w] = Base * c(w)[w - 1]
    BY <2>1, <2>2 DEF Powers
  <2>4. c(w)[w - 1] = c(w - 1)[w - 1]
    <3> DEFINE a == c(w)
               b == c(w - 1)
               k == w - 1
    <3>1. Powers(a, w) /\ Powers(b, k) /\ k \in Nat /\ k <= w
      BY <2>1, <2>2
    <3> HIDE DEF a, b, k
    <3>2. a[k] = b[k]
      BY <3>1, PowersAgree
    <3> QED
      BY <3>2 DEF a, b, k
  <2>5. q[w] = c(w)[w] /\ q[w - 1] = c(w - 1)[w - 1]
    BY <2>1
  <2> QED
    BY <2>3, <2>4, <2>5
<1>5. q = E(q)
  <2>1. \A w \in Nat : q[w] = IF w = 0 THEN 1 ELSE Base * q[w - 1]
    BY <1>3, <1>4
  <2>2. q = [w \in Nat |-> q[w]]
    OBVIOUS
  <2> HIDE DEF q
  <2> QED
    BY <2>1, <2>2
<1>6. Power = CHOOSE f : f = E(f)
  BY DEF Power
<1>7. Power = E(Power)
  <2> HIDE DEF E, q
  <2> QED
    BY <1>5, <1>6
<1> HIDE DEF q
<1>8. Power[0] = 1
  BY <1>7
<1>9. \A w \in Nat : Power[w + 1] = Base * Power[w]
  <2> TAKE w \in Nat
  <2>1. w + 1 \in Nat /\ w + 1 # 0 /\ (w + 1) - 1 = w
    OBVIOUS
  <2>2. Power[w + 1] = Base * Power[(w + 1) - 1]
    BY <1>7, <2>1
  <2> QED
    BY <2>1, <2>2
<1> DEFINE G == {w \in Nat : Power[w] \in Nat \ {0}}
<1>10. \A w \in Nat : w \in G
  <2>1. 0 \in G
    BY <1>8
  <2>2. ASSUME NEW w \in Nat, w \in G
        PROVE  w + 1 \in G
    <3>1. Power[w] \in Nat \ {0} /\ Base \in Nat \ {0} /\ w + 1 \in Nat
      BY <2>2, BaseAssumption
    <3>2. \A a, b \in Nat \ {0} : a * b \in Nat \ {0}
      OBVIOUS
    <3>3. Power[w + 1] \in Nat \ {0}
      BY <1>9, <3>1, <3>2
    <3> QED
      BY <3>1, <3>3
  <2> HIDE DEF G
  <2> QED
    BY <2>1, <2>2, Induction
<1>11. Power = [w \in Nat |-> Power[w]]
  BY <1>7
<1>12. \A w \in Nat : Power[w] \in Nat \ {0}
  BY <1>10
<1> QED
  BY <1>8, <1>9, <1>11, <1>12

(* Division. *)
LEMMA Quotient ==
    ASSUME NEW a \in Int, NEW b \in Nat \ {0}
    PROVE  \E q \in Int, r \in 0..(b - 1) :
              /\ q = a \div b /\ r = a % b /\ a = b * q + r
              /\ a \in Nat => q \in Nat
<1> DEFINE q == a \div b
           r == a % b
<1>1. b \in Int /\ b > 0
  OBVIOUS
<1>2. \E x \in Int : x = q /\ a = b * x + r
  BY <1>1
<1>3. r \in 0..(b - 1)
  BY <1>1
<1>4. a \in Nat => q \in Nat
  OBVIOUS
<1>5. q = a \div b /\ r = a % b
  OBVIOUS
<1> HIDE DEF q, r
<1>6. q \in Int /\ a = b * q + r
  BY <1>2
<1> QED
  BY <1>3, <1>4, <1>5, <1>6

(* There is only one quotient. *)
LEMMA OneQuotient ==
    ASSUME NEW b \in Nat \ {0}, NEW q \in Nat, NEW r \in 0..(b - 1),
           NEW q1 \in Nat, NEW r1 \in 0..(b - 1), b * q + r = b * q1 + r1
    PROVE  q = q1
<1>1. \A x, y \in Nat : x < y => b * x + b <= b * y
  <2> TAKE x, y \in Nat
  <2> HAVE x < y
  <2>1. PICK d \in Nat : y = x + 1 + d
    <3>1. y - x - 1 \in Nat /\ y = x + 1 + (y - x - 1)
      OBVIOUS
    <3> QED
      BY <3>1
  <2>2. b * y = b * x + b + b * d /\ b * d \in Nat /\ b * x \in Nat
    BY <2>1
  <2> QED
    BY <2>2
<1>2. b * q \in Nat /\ b * q1 \in Nat
  OBVIOUS
<1>3. ~(q < q1)
  <2>1. q < q1 => b * q + b <= b * q1
    BY <1>1
  <2> QED
    BY <1>2, <2>1
<1>4. ~(q1 < q)
  <2>1. q1 < q => b * q1 + b <= b * q
    BY <1>1
  <2> QED
    BY <1>2, <2>1
<1> QED
  BY <1>3, <1>4

(* Dividing by a product is dividing twice. *)
LEMMA QuotientOfProduct ==
    ASSUME NEW a \in Nat, NEW b \in Nat \ {0}, NEW p \in Nat \ {0}
    PROVE  a \div (b * p) = (a \div p) \div b
<1>1. PICK q \in Nat, r \in 0..(p - 1) : q = a \div p /\ a = p * q + r
  BY Quotient
<1>2. PICK x \in Nat, s \in 0..(b - 1) : x = q \div b /\ q = b * x + s
  BY Quotient
<1> DEFINE m == b * p
           t == p * s + r
<1>3. m \in Nat \ {0}
  OBVIOUS
<1>4. PICK y \in Nat, z \in 0..(m - 1) : y = a \div m /\ a = m * y + z
  <2> HIDE DEF m
  <2> QED
    BY <1>3, Quotient
<1>5. t \in 0..(m - 1)
  <2>1. p * s \in Nat /\ s + 1 <= b
    BY <1>2
  <2>2. PICK d \in Nat : b = s + 1 + d
    <3>1. b - s - 1 \in Nat /\ b = s + 1 + (b - s - 1)
      BY <1>2
    <3> QED
      BY <3>1
  <2>3. m = p * s + p + p * d /\ p * d \in Nat
    <3>1. s \in Nat /\ d \in Nat /\ p \in Nat
      BY <1>2
    <3> QED
      BY <2>2, <3>1
  <2> HIDE DEF m
  <2> QED
    BY <1>1, <2>1, <2>3
<1>6. a = m * x + t
  <2>1. p * q = p * (b * x + s)
    BY <1>2
  <2>2. p * (b * x + s) = m * x + p * s
    <3>1. \A i, j, k \in Nat : i * (j + k) = i * j + i * k
      OBVIOUS
    <3>2. p * (b * x) = m * x
      OBVIOUS
    <3>3. b * x \in Nat /\ s \in Nat /\ p \in Nat
      BY <1>2
    <3> HIDE DEF m
    <3> QED
      BY <3>1, <3>2, <3>3
  <2>3. p * q \in Nat /\ m * x \in Nat /\ p * s \in Nat
    BY <1>1, <1>2, <1>3
  <2> HIDE DEF m
  <2> QED
    BY <1>1, <2>1, <2>2, <2>3
<1> HIDE DEF m, t
<1>7. y = x
  BY <1>2, <1>3, <1>4, <1>5, <1>6, OneQuotient
<1> QED
  BY <1>1, <1>2, <1>4, <1>7 DEF m

(* The bytes of v, most significant first. *)
BigEndian(v, w) == [i \in 1..w |-> ((v % Power[w]) \div Power[w - i]) % Base]

(* Their type. *)
LEMMA BigEndianType ==
    ASSUME NEW v \in Int, NEW w \in Nat
    PROVE  BigEndian(v, w) \in [1..w -> Byte]
<1> DEFINE u == v % Power[w]
<1>1. u \in Nat
  <2>1. Power[w] \in Nat \ {0}
    BY PowerSteps
  <2> QED
    BY <2>1, Quotient
<1> HIDE DEF u
<1>2. ASSUME NEW i \in 1..w
      PROVE  (u \div Power[w - i]) % Base \in Byte
  <2>1. w - i \in Nat /\ Power[w - i] \in Nat \ {0}
    BY PowerSteps
  <2> DEFINE d == u \div Power[w - i]
  <2>2. d \in Nat
    BY <1>1, <2>1, Quotient
  <2> HIDE DEF d
  <2>3. d % Base \in Byte
    BY <2>2, BaseAssumption, Quotient DEF Byte
  <2> QED
    BY <2>3 DEF d
<1> QED
  BY <1>2 DEF BigEndian, u

(* The bytes of a number have its value. *)
LEMMA ValueOfBytes ==
    ASSUME NEW v \in Int, NEW w \in Nat
    PROVE  Unsigned(BigEndian(v, w)) = v % Power[w]
<1> DEFINE u == v % Power[w]
           bs == BigEndian(v, w)
<1>1. u \in Nat /\ u < Power[w]
  <2>1. Power[w] \in Nat \ {0}
    BY PowerSteps
  <2> QED
    BY <2>1, Quotient
<1>2. \A i \in 1..w : bs[i] = (u \div Power[w - i]) % Base
  BY DEF BigEndian
<1>3. bs \in [1..w -> Nat]
  BY BigEndianType, BaseAssumption DEF Byte
<1> HIDE DEF u, bs
<1>4. PICK x \in [0..w -> Nat] :
         /\ x[0] = 0 /\ \A k \in 1..w : x[k] = x[k - 1] * Base + bs[k]
         /\ Unsigned(bs) = x[w]
  BY <1>3, UnsignedSteps
<1> DEFINE G == {k \in Nat : k <= w => x[k] = u \div Power[w - k]}
<1>5. 0 \in G
  <2>1. Power[w] \in Nat \ {0} /\ w - 0 = w
    BY PowerSteps
  <2> DEFINE p == Power[w]
  <2>2. p \in Nat \ {0} /\ u < p
    BY <1>1, <2>1
  <2>3. PICK q \in Nat, r \in 0..(p - 1) : q = u \div p /\ u = p * q + r
    <3> HIDE DEF p
    <3> QED
      BY <1>1, <2>2, Quotient
  <2> HIDE DEF p
  <2>4. p * 0 + u = p * q + r /\ u \in 0..(p - 1)
    BY <1>1, <2>2, <2>3
  <2>5. q = 0
    BY <2>2, <2>3, <2>4, OneQuotient
  <2>6. u \div Power[w - 0] = 0
    BY <2>1, <2>3, <2>5 DEF p
  <2> QED
    BY <1>4, <2>6
<1>6. ASSUME NEW k \in Nat, k \in G
      PROVE  k + 1 \in G
  <2>1. SUFFICES ASSUME k + 1 <= w
                 PROVE  x[k + 1] = u \div Power[w - (k + 1)]
    OBVIOUS
  <2> DEFINE j == w - (k + 1)
             p == Power[j]
             d == u \div p
  <2>2. j \in Nat /\ w - k = j + 1 /\ k + 1 \in 1..w /\ (k + 1) - 1 = k
    BY <2>1
  <2>3. p \in Nat \ {0}
    <3> HIDE DEF j
    <3> QED
      BY <2>2, PowerSteps
  <2>4. Power[w - k] = Base * p
    BY <2>2, PowerSteps
  <2>5. d \in Nat
    <3>1. u \in Int /\ u \in Nat
      BY <1>1
    <3> HIDE DEF p
    <3>2. \E q \in Int, r \in 0..(p - 1) :
             q = u \div p /\ r = u % p /\ u = p * q + r /\ (u \in Nat => q \in Nat)
      BY <2>3, <3>1, Quotient
    <3> QED
      BY <3>1, <3>2
  <2>6. x[k] = d \div Base
    <3>1. x[k] = u \div (Base * p)
      BY <1>6, <2>1, <2>4
    <3> HIDE DEF p
    <3>2. u \div (Base * p) = (u \div p) \div Base
      BY <1>1, <2>3, BaseAssumption, QuotientOfProduct
    <3> QED
      BY <3>1, <3>2
  <2>7. x[k + 1] = x[k] * Base + bs[k + 1] /\ bs[k + 1] = d % Base
    BY <1>2, <1>4, <2>2
  <2> HIDE DEF d
  <2>8. PICK y \in Nat, z \in 0..(Base - 1) : y = d \div Base /\ z = d % Base /\ d = Base * y + z
    <3>1. d \in Int /\ Base \in Nat \ {0}
      BY <2>5, BaseAssumption
    <3>2. \E y \in Int, z \in 0..(Base - 1) :
             y = d \div Base /\ z = d % Base /\ d = Base * y + z /\ (d \in Nat => y \in Nat)
      BY <3>1, Quotient
    <3> QED
      BY <2>5, <3>2
  <2>9. x[k + 1] = y * Base + z
    BY <2>6, <2>7, <2>8
  <2>10. x[k + 1] = d
    <3>1. y * Base = Base * y
      BY BaseAssumption
    <3> QED
      BY <2>8, <2>9, <3>1
  <2> QED
    BY <2>10 DEF d
<1>7. w \in G
  <2> HIDE DEF G
  <2> QED
    BY <1>5, <1>6, Induction
<1>8. x[w] = u \div 1
  BY <1>7, PowerSteps
<1>9. u \div 1 = u
  BY <1>1
<1> QED
  BY <1>4, <1>8, <1>9 DEF u, bs

(* Reversing twice changes nothing. *)
LEMMA ReverseTwice ==
    ASSUME NEW S, NEW n \in Nat, NEW s \in [1..n -> S]
    PROVE  /\ Reverse(s) \in [1..n -> S] /\ Reverse(Reverse(s)) = s
           /\ \A i \in 1..n : Reverse(s)[i] = s[n - i + 1]
<1>1. Len(s) = n
  OBVIOUS
<1> DEFINE t == [i \in 1..n |-> s[n - i + 1]]
<1>2. Reverse(s) = t
  BY <1>1 DEF Reverse
<1>3. \A i \in 1..n : n - i + 1 \in 1..n
  OBVIOUS
<1>4. t \in [1..n -> S] /\ \A i \in 1..n : t[i] = s[n - i + 1]
  BY <1>3
<1> HIDE DEF t
<1>5. Len(t) = n
  BY <1>4
<1> DEFINE q == [i \in 1..n |-> t[n - i + 1]]
<1>6. Reverse(t) = q
  BY <1>5 DEF Reverse
<1>7. \A i \in 1..n : q[i] = s[i]
  <2> TAKE i \in 1..n
  <2> DEFINE j == n - i + 1
  <2>1. j \in 1..n /\ n - j + 1 = i
    OBVIOUS
  <2>2. q[i] = t[j]
    OBVIOUS
  <2> HIDE DEF j, q
  <2> QED
    BY <1>4, <2>1, <2>2
<1>8. q = [i \in 1..n |-> q[i]] /\ s = [i \in 1..n |-> s[i]]
  OBVIOUS
<1> HIDE DEF q
<1>9. q = s
  BY <1>7, <1>8
<1> QED
  BY <1>2, <1>4, <1>6, <1>9

(* What setUint and setInt store is a number of bytes, and what getUint     *)
(* makes of them in the same byte order is the number, modulo Power[w].     *)
LEMMA DigitsReadBack ==
    ASSUME NEW v \in Int, NEW w \in Nat, NEW le \in BOOLEAN
    PROVE  /\ Digits(v, w, le) \in [1..w -> Byte] /\ Len(Digits(v, w, le)) = w
           /\ Unsigned(Ordered(Digits(v, w, le), le)) = v % Power[w]
<1> DEFINE b == BigEndian(v, w)
           d == Digits(v, w, le)
<1>1. d = IF le THEN Reverse(b) ELSE b
  BY DEF Digits, Ordered, BigEndian
<1>2. b \in [1..w -> Byte]
  BY BigEndianType
<1>3. Unsigned(b) = v % Power[w]
  BY ValueOfBytes
<1> HIDE DEF b, d
<1>4. d \in [1..w -> Byte]
  BY <1>1, <1>2, ReverseTwice
<1>5. Len(d) = w
  BY <1>4
<1>6. Ordered(d, le) = b
  BY <1>1, <1>2, ReverseTwice DEF Ordered
<1> QED
  BY <1>3, <1>4, <1>5, <1>6 DEF d

-----------------------------------------------------------------------------
(* Texts *)

(* g flattens the beginnings of s up to the m-th. *)
Flattens(g, S, s, m) ==
    /\ g \in [1..m -> Seq(S)]
    /\ \A i \in 1..m : g[i] = IF i = 1 THEN s[i] ELSE g[i - 1] \o s[i]

(* FlattenSeq does so. *)
LEMMA FlattenSteps ==
    ASSUME NEW S, NEW s \in Seq(Seq(S)), Len(s) # 0
    PROVE  \E g : Flattens(g, S, s, Len(s)) /\ FlattenSeq(s) = g[Len(s)]
<1> DEFINE n == Len(s)
           Has(m) == \E g : Flattens(g, S, s, m)
           G == {m \in Nat : m <= n => Has(m)}
           E(f) == [i \in 1..n |-> IF i = 1 THEN s[i] ELSE f[i - 1] \o s[i]]
<1>1. n \in Nat /\ \A i \in 1..n : s[i] \in Seq(S)
  OBVIOUS
<1>2. n # 0
  OBVIOUS
<1> HIDE DEF n
<1>3. Has(0)
  <2> DEFINE g == [i \in 1..0 |-> << >>]
  <2>1. Flattens(g, S, s, 0)
    BY DEF Flattens
  <2> QED
    BY <2>1
<1>4. ASSUME NEW m \in Nat, m + 1 <= n, Has(m)
      PROVE  Has(m + 1)
  <2>1. PICK g : Flattens(g, S, s, m)
    BY <1>4
  <2> DEFINE k == m + 1
             x == IF k = 1 THEN s[k] ELSE g[m] \o s[k]
             h == [i \in 1..k |-> IF i = k THEN x ELSE g[i]]
  <2>2. x \in Seq(S)
    <3>1. s[k] \in Seq(S)
      BY <1>1, <1>4
    <3>2. k # 1 => g[m] \in Seq(S)
      BY <2>1 DEF Flattens
    <3>3. \A a, b \in Seq(S) : a \o b \in Seq(S)
      BY ConcatProperties
    <3> QED
      BY <3>1, <3>2, <3>3
  <2> HIDE DEF x
  <2>3. h \in [1..k -> Seq(S)]
    BY <2>1, <2>2 DEF Flattens
  <2>4. ASSUME NEW i \in 1..k
        PROVE  h[i] = IF i = 1 THEN s[i] ELSE h[i - 1] \o s[i]
    <3>1. CASE i = k
      <4>1. h[i] = x /\ (i # 1 => h[i - 1] = g[m])
        BY <3>1
      <4> QED
        BY <3>1, <4>1 DEF x
    <3>2. CASE i # k
      <4>1. h[i] = g[i] /\ i \in 1..m /\ (i # 1 => h[i - 1] = g[i - 1])
        BY <3>2
      <4> HIDE DEF h, k
      <4> QED
        BY <2>1, <4>1 DEF Flattens
    <3> QED
      BY <3>1, <3>2
  <2> HIDE DEF h
  <2>5. Flattens(h, S, s, k)
    BY <2>3, <2>4 DEF Flattens
  <2> QED
    BY <2>5
<1>5. Has(n)
  <2> HIDE DEF Has
  <2>1. 0 \in G /\ \A m \in Nat : m \in G => m + 1 \in G
    BY <1>1, <1>3, <1>4
  <2> HIDE DEF G
  <2>2. n \in G
    BY <1>1, <2>1, Induction
  <2> QED
    BY <1>1, <2>2 DEF G
<1>6. \E f : f = E(f)
  <2>1. PICK g : Flattens(g, S, s, n)
    BY <1>5
  <2>2. g = [i \in 1..n |-> g[i]]
    BY <2>1 DEF Flattens
  <2>3. g = E(g)
    BY <2>1, <2>2 DEF Flattens
  <2> HIDE DEF E
  <2> QED
    BY <2>3
<1> DEFINE f == CHOOSE f : f = E(f)
<1>7. f = E(f)
  <2> HIDE DEF E
  <2> QED
    BY <1>6
<1>8. FlattenSeq(s) = f[n]
  BY <1>2 DEF FlattenSeq, n
<1> HIDE DEF f
<1>9. f \in [1..n -> Seq(S)]
  <2>1. \A i \in 1..n : f[i] = IF i = 1 THEN s[i] ELSE f[i - 1] \o s[i]
    BY <1>7
  <2> DEFINE H == {m \in Nat : m \in 1..n => f[m] \in Seq(S)}
  <2>2. 0 \in H
    OBVIOUS
  <2>3. ASSUME NEW m \in Nat, m \in H
        PROVE  m + 1 \in H
    <3> SUFFICES ASSUME m + 1 \in 1..n
                 PROVE  f[m + 1] \in Seq(S)
      OBVIOUS
    <3>1. s[m + 1] \in Seq(S)
      BY <1>1
    <3>2. f[m + 1] = IF m + 1 = 1 THEN s[m + 1] ELSE f[(m + 1) - 1] \o s[m + 1]
      BY <2>1
    <3>3. CASE m + 1 = 1
      BY <3>1, <3>2, <3>3
    <3>4. CASE m + 1 # 1
      <4>1. (m + 1) - 1 = m /\ m \in 1..n
        BY <1>1, <3>4
      <4>2. f[m] \in Seq(S) /\ f[m + 1] = f[m] \o s[m + 1]
        BY <2>3, <3>2, <3>4, <4>1
      <4> QED
        BY <3>1, <4>2, ConcatProperties
    <3> QED
      BY <3>3, <3>4
  <2>4. \A m \in Nat : m \in H
    <3> HIDE DEF H
    <3> QED
      BY <2>2, <2>3, Induction
  <2>5. \A m \in 1..n : f[m] \in Seq(S)
    BY <2>4
  <2>6. f = [i \in 1..n |-> f[i]]
    BY <1>7
  <2> HIDE DEF E
  <2> QED
    BY <2>5, <2>6
<1>10. Flattens(f, S, s, n)
  BY <1>7, <1>9 DEF Flattens
<1> HIDE DEF E
<1> QED
  BY <1>8, <1>10 DEF n

(* And gives a sequence of elements of S. *)
LEMMA FlattenType ==
    ASSUME NEW S, NEW s \in Seq(Seq(S))
    PROVE  FlattenSeq(s) \in Seq(S)
<1>1. CASE Len(s) = 0
  <2>1. s = << >> /\ << >> \in Seq(S)
    BY <1>1
  <2>2. FlattenSeq(s) = s
    BY <1>1 DEF FlattenSeq
  <2> QED
    BY <2>1, <2>2
<1>2. CASE Len(s) # 0
  <2>1. PICK g : Flattens(g, S, s, Len(s)) /\ FlattenSeq(s) = g[Len(s)]
    BY <1>2, FlattenSteps
  <2>2. Len(s) \in 1..Len(s)
    BY <1>2
  <2> QED
    BY <2>1, <2>2 DEF Flattens
<1> QED
  BY <1>1, <1>2

(* Of one more sequence it appends the elements. *)
LEMMA FlattenAppend ==
    ASSUME NEW S, NEW s \in Seq(Seq(S)), NEW x \in Seq(S), s # << >>
    PROVE  FlattenSeq(Append(s, x)) = FlattenSeq(s) \o x
<1> DEFINE n == Len(s)
           t == Append(s, x)
<1>1. n \in Nat \ {0} /\ t \in Seq(Seq(S)) /\ Len(t) = n + 1 /\ t[n + 1] = x
      /\ \A i \in 1..n : t[i] = s[i]
  <2>1. n # 0
    OBVIOUS
  <2> QED
    BY <2>1
<1> HIDE DEF t
<1>2. PICK g : Flattens(g, S, s, n) /\ FlattenSeq(s) = g[n]
  BY <1>1, FlattenSteps
<1>3. PICK h : Flattens(h, S, t, n + 1) /\ FlattenSeq(t) = h[n + 1]
  <2>1. Len(t) # 0
    BY <1>1
  <2> QED
    BY <1>1, <2>1, FlattenSteps
<1> HIDE DEF n
<1> DEFINE H == {m \in Nat : m \in 1..n => h[m] = g[m]}
<1>4. 0 \in H
  OBVIOUS
<1>5. ASSUME NEW m \in Nat, m \in H
      PROVE  m + 1 \in H
  <2> SUFFICES ASSUME m + 1 \in 1..n
               PROVE  h[m + 1] = g[m + 1]
    OBVIOUS
  <2>1. m + 1 \in 1..(n + 1) /\ (m + 1) - 1 = m /\ t[m + 1] = s[m + 1]
    BY <1>1
  <2>2. g[m + 1] = IF m + 1 = 1 THEN s[m + 1] ELSE g[(m + 1) - 1] \o s[m + 1]
    BY <1>2 DEF Flattens
  <2>3. h[m + 1] = IF m + 1 = 1 THEN t[m + 1] ELSE h[(m + 1) - 1] \o t[m + 1]
    BY <1>3, <2>1 DEF Flattens
  <2>4. m + 1 # 1 => h[m] = g[m]
    BY <1>1, <1>5
  <2> QED
    BY <2>1, <2>2, <2>3, <2>4
<1>6. n \in H
  <2> HIDE DEF H
  <2> QED
    BY <1>1, <1>4, <1>5, Induction
<1>7. h[n + 1] = h[n] \o x
  <2>1. n + 1 \in 1..(n + 1) /\ n + 1 # 1 /\ (n + 1) - 1 = n
    BY <1>1
  <2> QED
    BY <1>1, <1>3, <2>1 DEF Flattens
<1>8. h[n] = g[n]
  <2>1. n \in 1..n
    BY <1>1
  <2> QED
    BY <1>6, <2>1
<1>9. FlattenSeq(t) = FlattenSeq(s) \o x
  BY <1>2, <1>3, <1>7, <1>8
<1> QED
  BY <1>9 DEF t

(* Two more elements are one and one more. *)
LEMMA TwoMore ==
    ASSUME NEW S, NEW s \in Seq(S), NEW x \in S, NEW y \in S
    PROVE  s \o <<x, y>> = Append(Append(s, x), y)
<1> DEFINE d == <<x, y>>
           a == Append(s, x)
           b == Append(a, y)
           c == s \o d
           n == Len(s)
<1>1. n \in Nat /\ d \in Seq(S) /\ Len(d) = 2 /\ d[1] = x /\ d[2] = y
  OBVIOUS
<1>2. a \in Seq(S) /\ Len(a) = n + 1 /\ a[n + 1] = x /\ \A i \in 1..n : a[i] = s[i]
  OBVIOUS
<1>3. b \in Seq(S) /\ Len(b) = n + 2 /\ b[n + 2] = y /\ b[n + 1] = x /\ \A i \in 1..n : b[i] = s[i]
  <2> HIDE DEF a
  <2>1. Len(b) = Len(a) + 1 /\ b[Len(a) + 1] = y /\ \A i \in 1..Len(a) : b[i] = a[i]
    BY <1>2
  <2>2. Len(a) + 1 = n + 2 /\ n + 1 \in 1..Len(a) /\ \A i \in 1..n : i \in 1..Len(a)
    BY <1>1, <1>2
  <2> QED
    BY <1>2, <2>1, <2>2
<1> HIDE DEF b, d
<1>4. /\ c \in Seq(S) /\ Len(c) = Len(s) + Len(d)
      /\ \A i \in 1..(Len(s) + Len(d)) : c[i] = IF i <= Len(s) THEN s[i] ELSE d[i - Len(s)]
  BY <1>1, ConcatProperties
<1> HIDE DEF c, n
<1>5. Len(c) = n + 2 /\ \A i \in 1..(n + 2) : c[i] = IF i <= n THEN s[i] ELSE d[i - n]
  BY <1>1, <1>4 DEF n
<1>6. ASSUME NEW i \in 1..(n + 2)
      PROVE  c[i] = b[i]
  <2>1. i \in 1..n \/ i = n + 1 \/ i = n + 2
    BY <1>1
  <2>2. CASE i \in 1..n
    BY <1>1, <1>3, <1>5, <2>2
  <2>3. CASE i = n + 1
    BY <1>1, <1>3, <1>5, <2>3
  <2>4. CASE i = n + 2
    BY <1>1, <1>3, <1>5, <2>4
  <2> QED
    BY <2>1, <2>2, <2>3, <2>4
<1>7. c = b
  BY <1>3, <1>4, <1>5, <1>6, SeqEqual
<1> QED
  BY <1>7 DEF b, c, d

(* The strings writeString is called with are sequences of bytes. *)
LEMMA StringsType == Strings \subseteq Seq(Seq(Byte))
<1>1. 1 \in Byte
  BY BaseAssumption DEF Byte
<1>2. <<1>> \in Seq(Byte) /\ <<1, 1>> \in Seq(Byte)
  BY <1>1
<1>3. ASSUME NEW s \in Strings
      PROVE  s \in Seq(Seq(Byte))
  <2> DEFINE C == {<<1>>, <<1, 1>>}
  <2>1. (\E a \in C : s = <<a>>) \/ (\E a, b \in C : s = <<a, b>>)
    BY <1>3 DEF Strings
  <2>2. \A a \in C : a \in Seq(Byte)
    BY <1>2
  <2> DEFINE B == Seq(Byte)
  <2> HIDE DEF C
  <2>3. CASE \E a \in C : s = <<a>>
    <3>1. PICK a \in B : s = <<a>>
      BY <2>2, <2>3
    <3> HIDE DEF B
    <3>2. s \in Seq(B)
      BY <3>1
    <3> QED
      BY <3>2 DEF B
  <2>4. CASE \E a, b \in C : s = <<a, b>>
    <3>1. PICK a \in B, b \in B : s = <<a, b>>
      BY <2>2, <2>4
    <3> HIDE DEF B
    <3>2. s \in Seq(B)
      BY <3>1
    <3> QED
      BY <3>2 DEF B
  <2> QED
    BY <2>1, <2>3, <2>4
<1> QED
  BY <1>3

(* encodeInto stores no more than there is room for. *)
LEMMA EncodedFits ==
    ASSUME NEW s \in Seq(Seq(Byte)), NEW room \in Nat
    PROVE  /\ Encoded(s) \in Seq(Byte) /\ Encoded(EncodedInto(s, room)) \in Seq(Byte)
           /\ Len(Encoded(EncodedInto(s, room))) \in 0..room
<1> DEFINE n == Len(s)
           part(k) == SubSeq(s, 1, k)
           K == {k \in 0..n : Len(Encoded(part(k))) <= room}
<1>1. n \in Nat
  OBVIOUS
<1>2. \A k \in 0..n : part(k) \in Seq(Seq(Byte))
  BY SubSeqProperties
<1>3. \A k \in 0..n : Encoded(part(k)) \in Seq(Byte)
  <2> HIDE DEF part
  <2> QED
    BY <1>2, FlattenType DEF Encoded
<1>4. part(0) = << >>
  BY SubSeqProperties
<1>5. Encoded(<< >>) = << >>
  BY DEF Encoded, FlattenSeq
<1>6. 0 \in K
  <2> HIDE DEF part
  <2>1. Len(Encoded(part(0))) = 0
    BY <1>4, <1>5
  <2> QED
    BY <1>1, <2>1
<1> DEFINE m == Max(K)
<1>7. m \in K
  <2>1. K \subseteq 0..n /\ K # {}
    BY <1>6
  <2> HIDE DEF K, n
  <2> QED
    BY <1>1, <2>1, Greatest
<1>8. EncodedInto(s, room) = part(m)
  BY DEF EncodedInto
<1> HIDE DEF part, m
<1>9. m \in 0..n /\ Len(Encoded(part(m))) <= room
  BY <1>7
<1>10. Encoded(part(m)) \in Seq(Byte)
  BY <1>3, <1>9
<1>11. Len(Encoded(part(m))) \in Nat
  BY <1>10
<1>12. Encoded(s) \in Seq(Byte)
  BY FlattenType DEF Encoded
<1> QED
  BY <1>8, <1>9, <1>10, <1>11, <1>12

-----------------------------------------------------------------------------
(* The cursor *)

(* A cursor is a position in a view of a buffer of bytes. *)
CursorFits(c) ==
    /\ c \in [buffer : Seq(Byte), off : Nat, len : Nat, pos : Nat]
    /\ c.pos <= c.len /\ c.off + c.len <= Len(c.buffer)

(* Storing bytes that fit changes these bytes and no others. *)
LEMMA StoreFits ==
    ASSUME NEW c, CursorFits(c), NEW p \in Nat, NEW bs \in Seq(Byte), p + Len(bs) <= c.len
    PROVE  /\ CursorFits(Store(c, p, bs)) /\ Len(Store(c, p, bs).buffer) = Len(c.buffer)
           /\ Store(c, p, bs).off = c.off /\ Store(c, p, bs).len = c.len
           /\ Store(c, p, bs).pos = c.pos
           /\ \A i \in DOMAIN c.buffer :
                 Store(c, p, bs).buffer[i] # c.buffer[i] =>
                     c.off + p < i /\ i <= c.off + p + Len(bs)
           /\ BytesAt(Store(c, p, bs), p, Len(bs)) = bs
<1> DEFINE n == Len(c.buffer)
           l == Len(bs)
           o == c.off + p
           new == [i \in 1..n |-> IF o < i /\ i <= o + l THEN bs[i - o] ELSE c.buffer[i]]
           d == Store(c, p, bs)
<1>1. /\ n \in Nat /\ DOMAIN c.buffer = 1..n /\ l \in Nat /\ o \in Nat /\ o + l <= n
      /\ c.buffer \in Seq(Byte) /\ c.off \in Nat /\ c.len \in Nat /\ c.pos \in Nat
  BY DEF CursorFits
<1>2. d = [c EXCEPT !.buffer = new]
  <2>1. \A i \in 1..n : i - c.off - p = i - o
    BY <1>1
  <2> QED
    BY <1>1, <2>1 DEF Store
<1>3. d = [buffer |-> new, off |-> c.off, len |-> c.len, pos |-> c.pos]
  BY <1>2 DEF CursorFits
<1>4. new \in [1..n -> Byte]
  <2> HIDE DEF n, l, o
  <2>1. ASSUME NEW i \in 1..n, o < i, i <= o + l
        PROVE  bs[i - o] \in Byte
    <3>1. i - o \in 1..l
      BY <1>1, <2>1
    <3> QED
      BY <3>1 DEF l
  <2>2. \A i \in 1..n : c.buffer[i] \in Byte
    BY <1>1 DEF n
  <2> QED
    BY <2>1, <2>2
<1>5. \A i \in 1..n : new[i] = IF o < i /\ i <= o + l THEN bs[i - o] ELSE c.buffer[i]
  OBVIOUS
<1> HIDE DEF new, d, n, l, o
<1>6. new \in Seq(Byte) /\ Len(new) = n
  BY <1>1, <1>4
<1>7. d.buffer = new /\ d.off = c.off /\ d.len = c.len /\ d.pos = c.pos
  BY <1>3
<1>8. CursorFits(d)
  <2>1. d \in [buffer : Seq(Byte), off : Nat, len : Nat, pos : Nat]
    BY <1>1, <1>3, <1>6
  <2> QED
    BY <1>6, <1>7, <2>1 DEF CursorFits, n
<1>9. \A i \in 1..n : new[i] # c.buffer[i] => o < i /\ i <= o + l
  BY <1>5
<1>10. BytesAt(d, p, l) = bs
  <2> DEFINE q == SubSeq(new, o + 1, o + l)
  <2>1. BytesAt(d, p, l) = q
    BY <1>7 DEF BytesAt, o
  <2>2. q \in Seq(Byte) /\ Len(q) = l /\ \A i \in 1..l : q[i] = new[(o + 1) + i - 1]
    <3>1. (o + 1) \in 1..(n + 1) /\ (o + l) \in o..n
      BY <1>1
    <3>2. CASE l = 0
      BY <1>1, <1>6, <3>1, <3>2, SubSeqProperties
    <3>3. CASE l # 0
      BY <1>1, <1>6, <3>1, <3>3, SubSeqProperties
    <3> QED
      BY <3>2, <3>3
  <2> HIDE DEF q
  <2>3. ASSUME NEW i \in 1..l
        PROVE  q[i] = bs[i]
    <3> DEFINE j == (o + 1) + i - 1
    <3>1. j \in 1..n /\ o < j /\ j <= o + l /\ j - o = i
      BY <1>1
    <3>2. q[i] = new[j]
      BY <2>2
    <3> HIDE DEF j
    <3> QED
      BY <1>5, <3>1, <3>2
  <2>4. Len(bs) = l /\ bs \in Seq(Byte)
    BY DEF l
  <2> QED
    BY <2>1, <2>2, <2>3, <2>4, SeqEqual
<1> QED
  BY <1>1, <1>6, <1>7, <1>8, <1>9, <1>10 DEF d, l, o, n

(* What is written from the position on, where it fits, moves the position  *)
(* behind it.                                                               *)
LEMMA PutFits ==
    ASSUME NEW c, CursorFits(c), NEW bs \in Seq(Byte), c.pos + Len(bs) <= c.len
    PROVE  /\ CursorFits(PutBytes(c, bs)) /\ PutBytes(c, bs).pos = c.pos + Len(bs)
           /\ PutBytes(c, bs).off = c.off /\ PutBytes(c, bs).len = c.len
           /\ Len(PutBytes(c, bs).buffer) = Len(c.buffer)
           /\ \A i \in DOMAIN c.buffer :
                 PutBytes(c, bs).buffer[i] # c.buffer[i] =>
                     c.off + c.pos < i /\ i <= c.off + c.pos + Len(bs)
           /\ BytesAt(PutBytes(c, bs), c.pos, Len(bs)) = bs
<1> DEFINE d == Store(c, c.pos, bs)
           e == PutBytes(c, bs)
           l == Len(bs)
<1>1. c.pos \in Nat /\ l \in Nat
  BY DEF CursorFits
<1>2. /\ CursorFits(d) /\ d.off = c.off /\ d.len = c.len /\ d.pos = c.pos
      /\ Len(d.buffer) = Len(c.buffer)
      /\ \A i \in DOMAIN c.buffer :
            d.buffer[i] # c.buffer[i] => c.off + c.pos < i /\ i <= c.off + c.pos + l
      /\ BytesAt(d, c.pos, l) = bs
  BY <1>1, StoreFits
<1>3. e = [d EXCEPT !.pos = d.pos + l]
  BY DEF PutBytes, Advance
<1> HIDE DEF d, e, l
<1>4. e.buffer = d.buffer /\ e.off = d.off /\ e.len = d.len /\ e.pos = d.pos + l
      /\ e = [buffer |-> d.buffer, off |-> d.off, len |-> d.len, pos |-> d.pos + l]
  BY <1>2, <1>3 DEF CursorFits
<1>5. CursorFits(e)
  BY <1>1, <1>2, <1>4 DEF CursorFits, l
<1>6. BytesAt(e, c.pos, l) = bs
  BY <1>2, <1>4 DEF BytesAt
<1> QED
  BY <1>2, <1>4, <1>5, <1>6 DEF e, l

(* From c to d only bytes behind the position have changed, and none behind *)
(* the new one if the call succeeded.                                       *)
InPlace(c, d, ok) ==
    \A i \in DOMAIN c.buffer :
        d.buffer[i] # c.buffer[i] =>
            c.off + c.pos < i /\ i <= c.off + (IF ok THEN d.pos ELSE c.len)

(* The invariant of the cursor. *)
CallInv == CursorFits(cur) /\ ReadBack

(* A cursor fits before its first use. *)
LEMMA CallInit == Init => CallInv
<1> SUFFICES ASSUME Init
             PROVE  CursorFits(cur) /\ ReadBack
  BY DEF CallInv
<1>1. PICK n \in 0..MaxLen :
         cur \in UNION {{Cursor(Zeros(n), off, len) : len \in 0..(n - off)} : off \in 0..n}
  BY DEF Init, Cursors
<1>2. PICK off \in 0..n : cur \in {Cursor(Zeros(n), off, len) : len \in 0..(n - off)}
  BY <1>1
<1>3. PICK len \in 0..(n - off) : cur = Cursor(Zeros(n), off, len)
  BY <1>2
<1>4. CursorFits(cur)
  <2> DEFINE z == Zeros(n)
  <2>1. n \in Nat /\ off \in Nat /\ len \in Nat /\ off + len <= n
    BY MaxLenAssumption
  <2>2. z \in Seq(Byte) /\ Len(z) = n
    <3>1. 0 \in Byte
      BY BaseAssumption DEF Byte
    <3>2. z \in [1..n -> Byte]
      BY <3>1 DEF Zeros
    <3> HIDE DEF z
    <3> QED
      BY <2>1, <3>2
  <2> HIDE DEF z
  <2>3. cur = [buffer |-> z, off |-> off, len |-> len, pos |-> 0]
    BY <1>3 DEF Cursor, z
  <2> QED
    BY <2>1, <2>2, <2>3 DEF CursorFits
<1>5. ReadBack
  <2>1. call.op = "none"
    BY DEF Init, NoCall
  <2> QED
    BY <2>1 DEF ReadBack
<1> QED
  BY <1>4, <1>5

(* A call that leaves the buffer and ends with the position in the view. *)
LEMMA MovesInView ==
    ASSUME CursorFits(cur), NEW p \in Nat, p <= cur.len,
           cur' = [cur EXCEPT !.pos = p], call'.op \notin {"putUint", "putInt"}
    PROVE  CallInv' /\ InPlace(cur, cur', call'.ok)
<1>1. cur' = [buffer |-> cur.buffer, off |-> cur.off, len |-> cur.len, pos |-> p]
  BY DEF CursorFits
<1>2. CursorFits(cur')
  BY <1>1 DEF CursorFits
<1>3. ReadBack'
  BY DEF ReadBack
<1>4. cur'.buffer = cur.buffer
  BY <1>1
<1> QED
  BY <1>2, <1>3, <1>4 DEF CallInv, InPlace

(* And one that throws before it has done anything. *)
LEMMA ThrowsInView ==
    ASSUME CursorFits(cur), NEW op \in {"seek", "skip", "getBytes", "get", "put", "writeBytes"},
           Throws(op), UNCHANGED cur
    PROVE  CallInv' /\ InPlace(cur, cur', call'.ok)
<1>1. call'.op = op
  BY DEF Throws, Ends
<1>2. ReadBack'
  BY <1>1 DEF ReadBack
<1> QED
  BY <1>2 DEF CallInv, InPlace

(* A checked step of the position by a call that reads. *)
LEMMA ReadsInView ==
    ASSUME CursorFits(cur), NEW n \in Int, Check(cur, cur.pos, n), cur' = Advance(cur, n),
           call'.op \notin {"putUint", "putInt"}
    PROVE  CallInv' /\ InPlace(cur, cur', call'.ok)
<1> DEFINE p == cur.pos + n
<1>1. cur.pos \in Nat /\ cur.len \in Nat
  BY DEF CursorFits
<1>2. p \in Nat /\ p <= cur.len
  BY <1>1 DEF Check
<1>3. cur' = [cur EXCEPT !.pos = p]
  BY DEF Advance
<1> HIDE DEF p
<1> QED
  BY <1>2, <1>3, MovesInView

(* rewind: the position is 0. *)
LEMMA RewindFits ==
    ASSUME CallInv, Rewind
    PROVE  CallInv' /\ InPlace(cur, cur', call'.ok)
<1>1. CursorFits(cur) /\ 0 \in Nat /\ 0 <= cur.len
  BY DEF CallInv, CursorFits
<1>2. cur' = [cur EXCEPT !.pos = 0] /\ call'.op = "rewind"
  BY DEF Rewind, Moved, Ends
<1> QED
  BY <1>1, <1>2, MovesInView

(* seek, which checks the position it is given. *)
LEMMA SeekFits ==
    ASSUME CallInv, NEW p \in Int, Seek(p)
    PROVE  CallInv' /\ InPlace(cur, cur', call'.ok)
<1>1. CursorFits(cur) /\ cur.len \in Nat
  BY DEF CallInv, CursorFits
<1>2. CASE Check(cur, p, 0)
  <2>1. p \in Nat /\ p <= cur.len
    BY <1>1, <1>2 DEF Check
  <2>2. cur' = [cur EXCEPT !.pos = p] /\ call'.op = "seek"
    BY <1>2 DEF Seek, Moved, Ends
  <2> QED
    BY <1>1, <2>1, <2>2, MovesInView
<1>3. CASE ~Check(cur, p, 0)
  <2>1. Throws("seek") /\ UNCHANGED cur
    BY <1>3 DEF Seek
  <2> QED
    BY <1>1, <2>1, ThrowsInView
<1> QED
  BY <1>2, <1>3

(* skip, which checks the position it ends at. *)
LEMMA SkipFits ==
    ASSUME CallInv, NEW n \in Int, Skip(n)
    PROVE  CallInv' /\ InPlace(cur, cur', call'.ok)
<1> DEFINE p == cur.pos + n
<1>1. CursorFits(cur) /\ cur.len \in Nat /\ cur.pos \in Nat
  BY DEF CallInv, CursorFits
<1>2. CASE Check(cur, p, 0)
  <2>1. p \in Nat /\ p <= cur.len
    BY <1>1, <1>2 DEF Check
  <2>2. cur' = [cur EXCEPT !.pos = p] /\ call'.op = "skip"
    BY <1>2 DEF Skip, Moved, Ends
  <2> HIDE DEF p
  <2> QED
    BY <1>1, <2>1, <2>2, MovesInView
<1>3. CASE ~Check(cur, p, 0)
  <2>1. Throws("skip") /\ UNCHANGED cur
    BY <1>3 DEF Skip
  <2> QED
    BY <1>1, <2>1, ThrowsInView
<1> QED
  BY <1>2, <1>3

(* getBytes, of any number of bytes, or of all that is left. *)
LEMMA GetBytesFits ==
    ASSUME CallInv, NEW n \in Int, GetBytes(n)
    PROVE  CallInv' /\ InPlace(cur, cur', call'.ok)
<1>1. CursorFits(cur)
  BY DEF CallInv
<1>2. CASE Check(cur, cur.pos, n)
  <2>1. cur' = Advance(cur, n) /\ call'.op = "getBytes"
    BY <1>2 DEF GetBytes, Moved, Ends
  <2> QED
    BY <1>1, <1>2, <2>1, ReadsInView
<1>3. CASE ~Check(cur, cur.pos, n)
  <2>1. Throws("getBytes") /\ UNCHANGED cur
    BY <1>3 DEF GetBytes
  <2> QED
    BY <1>1, <2>1, ThrowsInView
<1> QED
  BY <1>2, <1>3

(* getUint8 to getBigUint64 read and move on. *)
LEMMA GetNumberFits ==
    ASSUME CallInv, NEW w \in Nat, NEW le \in BOOLEAN, NEW signed \in BOOLEAN,
           GetNumber(w, le, signed)
    PROVE  CallInv' /\ InPlace(cur, cur', call'.ok)
<1>1. CursorFits(cur) /\ w \in Int
  BY DEF CallInv
<1>2. CASE Check(cur, cur.pos, w)
  <2>1. cur' = Advance(cur, w) /\ call'.op = "get"
    BY <1>2 DEF GetNumber, Ends
  <2> QED
    BY <1>1, <1>2, <2>1, ReadsInView
<1>3. CASE ~Check(cur, cur.pos, w)
  <2>1. Throws("get") /\ UNCHANGED cur
    BY <1>3 DEF GetNumber
  <2> QED
    BY <1>1, <2>1, ThrowsInView
<1> QED
  BY <1>2, <1>3

(* A writer that succeeds writes from the position on and stops where it    *)
(* leaves it.                                                               *)
LEMMA PutInPlace ==
    ASSUME CursorFits(cur), NEW bs \in Seq(Byte), Check(cur, cur.pos, Len(bs)),
           cur' = PutBytes(cur, bs)
    PROVE  CursorFits(cur') /\ InPlace(cur, cur', TRUE) /\ InPlace(cur, cur', FALSE)
<1>1. cur.pos \in Nat /\ cur.off \in Nat /\ cur.len \in Nat /\ Len(bs) \in Nat
      /\ DOMAIN cur.buffer \subseteq Nat
  BY DEF CursorFits
<1>2. cur.pos + Len(bs) <= cur.len
  BY DEF Check
<1>3. /\ CursorFits(cur') /\ cur'.pos = cur.pos + Len(bs)
      /\ \A i \in DOMAIN cur.buffer :
            cur'.buffer[i] # cur.buffer[i] =>
                cur.off + cur.pos < i /\ i <= cur.off + cur.pos + Len(bs)
  BY <1>2, PutFits
<1> QED
  BY <1>1, <1>2, <1>3 DEF InPlace

(* writeBytes, which checks before it stores. *)
LEMMA WriteBytesFits ==
    ASSUME CallInv, NEW bs \in Seq(Byte), WriteBytes(bs)
    PROVE  CallInv' /\ InPlace(cur, cur', call'.ok)
<1>1. CursorFits(cur)
  BY DEF CallInv
<1>2. CASE Check(cur, cur.pos, Len(bs))
  <2>1. cur' = PutBytes(cur, bs) /\ call'.op = "writeBytes" /\ call'.ok = TRUE
    BY <1>2 DEF WriteBytes, Moved, Ends
  <2>2. CursorFits(cur') /\ InPlace(cur, cur', TRUE)
    BY <1>1, <1>2, <2>1, PutInPlace
  <2>3. ReadBack'
    BY <2>1 DEF ReadBack
  <2> QED
    BY <2>1, <2>2, <2>3 DEF CallInv
<1>3. CASE ~Check(cur, cur.pos, Len(bs))
  <2>1. Throws("writeBytes") /\ UNCHANGED cur
    BY <1>3 DEF WriteBytes
  <2> QED
    BY <1>1, <2>1, ThrowsInView
<1> QED
  BY <1>2, <1>3

(* writeString, which stores what fits before it throws. *)
LEMMA WriteStringFits ==
    ASSUME CallInv, NEW s \in Seq(Seq(Byte)), WriteString(s)
    PROVE  CallInv' /\ InPlace(cur, cur', call'.ok)
<1> DEFINE room == cur.len - cur.pos
           part == EncodedInto(s, room)
           bs == Encoded(part)
<1>1. CursorFits(cur) /\ cur.pos \in Nat /\ cur.off \in Nat /\ cur.len \in Nat
      /\ DOMAIN cur.buffer \subseteq Nat /\ room \in Nat
  BY DEF CallInv, CursorFits
<1>2. bs \in Seq(Byte) /\ Len(bs) \in 0..room /\ Encoded(s) \in Seq(Byte)
  <2> HIDE DEF room
  <2> QED
    BY <1>1, EncodedFits
<1>3. cur.pos + Len(bs) <= cur.len
  <2> HIDE DEF bs
  <2> QED
    BY <1>1, <1>2
<1>4. call'.op = "writeString"
  BY DEF WriteString, Moved, Throws, Ends
<1>5. ReadBack'
  BY <1>4 DEF ReadBack
<1>6. CASE part = s
  <2>1. cur' = PutBytes(cur, Encoded(s)) /\ call'.ok = TRUE
    BY <1>6 DEF WriteString, Moved, Ends, PutBytes
  <2>2. Check(cur, cur.pos, Len(Encoded(s)))
    BY <1>1, <1>2, <1>3, <1>6 DEF Check
  <2>3. CursorFits(cur') /\ InPlace(cur, cur', TRUE)
    BY <1>1, <1>2, <2>1, <2>2, PutInPlace
  <2> QED
    BY <1>5, <2>1, <2>3 DEF CallInv
<1>7. CASE part # s
  <2>1. cur' = Store(cur, cur.pos, bs) /\ call'.ok = FALSE
    BY <1>7 DEF WriteString, Throws, Ends
  <2> HIDE DEF bs
  <2>2. /\ CursorFits(cur')
        /\ \A i \in DOMAIN cur.buffer :
              cur'.buffer[i] # cur.buffer[i] =>
                  cur.off + cur.pos < i /\ i <= cur.off + cur.pos + Len(bs)
    BY <1>1, <1>2, <1>3, <2>1, StoreFits
  <2>3. InPlace(cur, cur', FALSE)
    BY <1>1, <1>2, <1>3, <2>2 DEF InPlace
  <2> QED
    BY <1>5, <2>1, <2>2, <2>3 DEF CallInv
<1> QED
  BY <1>6, <1>7

(* What a number becomes as one of w bytes and back. *)
LEMMA SignedBack ==
    ASSUME NEW v \in Int, NEW w \in Nat, NEW signed \in BOOLEAN, InRange(v, w, signed)
    PROVE  v = IF signed THEN ToSigned(v % Power[w], w) ELSE v % Power[w]
<1> DEFINE p == Power[w]
<1>1. p \in Nat \ {0}
  BY PowerSteps
<1>2. InRange(v, w, signed) <=> IF signed THEN -p <= 2 * v /\ 2 * v < p ELSE 0 <= v /\ v < p
  BY DEF InRange
<1>3. ToSigned(v % p, w) = IF 2 * (v % p) >= p THEN (v % p) - p ELSE v % p
  BY DEF ToSigned
<1> HIDE DEF p
<1>4. PICK q \in Int, r \in 0..(p - 1) : q = v \div p /\ r = v % p /\ v = p * q + r
  BY <1>1, Quotient
<1>5. v >= 0 /\ v < p => r = v
  <2>1. ~(q > 0) \/ p * q >= p
    <3>1. ASSUME q > 0 PROVE p * q >= p
      <4>1. p * (q - 1) \in Nat /\ p * q = p * (q - 1) + p
        BY <1>1, <3>1
      <4> QED
        BY <1>1, <4>1
    <3> QED
      BY <3>1
  <2>2. ~(q < 0) \/ p * q <= -p
    <3>1. ASSUME q < 0 PROVE p * q <= -p
      <4>1. p * (-q - 1) \in Nat /\ p * q = -(p * (-q - 1)) - p
        BY <1>1, <3>1
      <4> QED
        BY <1>1, <4>1
    <3> QED
      BY <3>1
  <2>3. q = 0 => p * q = 0
    BY <1>1
  <2>4. p * q \in Int
    BY <1>1
  <2> QED
    BY <1>1, <1>4, <2>1, <2>2, <2>3, <2>4
<1>6. v < 0 /\ -p <= v => r = v + p
  <2>1. ~(q >= 0) \/ p * q >= 0
    BY <1>1
  <2>2. ~(q < -1) \/ p * q <= -(2 * p)
    <3>1. ASSUME q < -1 PROVE p * q <= -(2 * p)
      <4>1. p * (-q - 2) \in Nat /\ p * q = -(p * (-q - 2)) - 2 * p
        BY <1>1, <3>1
      <4> QED
        BY <1>1, <4>1
    <3> QED
      BY <3>1
  <2>3. q = -1 => p * q = -p
    BY <1>1
  <2>4. p * q \in Int
    BY <1>1
  <2> QED
    BY <1>1, <1>4, <2>1, <2>2, <2>3, <2>4
<1>7. v = IF signed THEN (IF 2 * r >= p THEN r - p ELSE r) ELSE r
  BY <1>1, <1>2, <1>5, <1>6
<1> QED
  BY <1>3, <1>4, <1>7 DEF p

(* writeUint8 to writeBigUint64: what they store is what is read back.      *)
LEMMA WriteNumberFits ==
    ASSUME CallInv, NEW w \in Nat, NEW le \in BOOLEAN, NEW signed \in BOOLEAN, NEW v \in Int,
           WriteNumber(w, le, signed, v)
    PROVE  CallInv' /\ InPlace(cur, cur', call'.ok)
<1> DEFINE bs == Digits(v, w, le)
<1>1. CursorFits(cur) /\ cur.pos \in Nat /\ cur.off \in Nat /\ cur.len \in Nat
  BY DEF CallInv, CursorFits
<1>2. bs \in Seq(Byte) /\ Len(bs) = w /\ Unsigned(Ordered(bs, le)) = v % Power[w]
  <2>1. bs \in [1..w -> Byte] /\ Len(bs) = w /\ Unsigned(Ordered(bs, le)) = v % Power[w]
    BY DigitsReadBack
  <2> HIDE DEF bs
  <2> QED
    BY <2>1
<1>3. CASE InRange(v, w, signed) /\ Check(cur, cur.pos, w)
  <2>1. /\ cur' = PutBytes(cur, bs) /\ call'.ok = TRUE
        /\ call'.w = w /\ call'.le = le /\ call'.v = v
        /\ call'.op = IF signed THEN "putInt" ELSE "putUint"
    BY <1>3 DEF WriteNumber, Ends
  <2> HIDE DEF bs
  <2>2. CursorFits(cur') /\ InPlace(cur, cur', TRUE)
    BY <1>1, <1>2, <1>3, <2>1, PutInPlace
  <2>3. cur'.pos = cur.pos + w /\ BytesAt(cur', cur.pos, w) = bs
    <3>1. cur.pos + Len(bs) <= cur.len
      BY <1>2, <1>3 DEF Check
    <3> QED
      BY <1>1, <1>2, <2>1, <3>1, PutFits
  <2>4. cur'.pos - w = cur.pos
    BY <1>1, <2>3
  <2>5. Unsigned(Ordered(BytesAt(cur', cur'.pos - call'.w, call'.w), call'.le)) = v % Power[w]
    BY <1>2, <2>1, <2>3, <2>4
  <2>6. v = IF signed THEN ToSigned(v % Power[w], w) ELSE v % Power[w]
    BY <1>3, SignedBack
  <2>7. ReadBack'
    BY <2>1, <2>5, <2>6 DEF ReadBack
  <2> QED
    BY <2>1, <2>2, <2>7 DEF CallInv
<1>4. CASE ~(InRange(v, w, signed) /\ Check(cur, cur.pos, w))
  <2>1. Throws("put") /\ UNCHANGED cur
    BY <1>4 DEF WriteNumber
  <2> QED
    BY <1>1, <2>1, ThrowsInView
<1> QED
  BY <1>3, <1>4

(* Every call. *)
LEMMA CallStep ==
    ASSUME CallInv, [Next]_vars
    PROVE  CallInv' /\ InPlace(cur, cur', call'.ok)
<1>1. CASE UNCHANGED vars
  BY <1>1 DEF CallInv, CursorFits, ReadBack, InPlace, vars
<1>2. CASE Next
  <2>1. CASE Rewind
    BY <2>1, RewindFits
  <2>2. CASE GetRest
    <3>1. cur.len - cur.pos \in Int
      BY DEF CallInv, CursorFits
    <3> QED
      BY <2>2, <3>1, GetBytesFits DEF GetRest
  <2>3. ASSUME NEW n \in Offsets, Seek(n) \/ Skip(n) \/ GetBytes(n)
        PROVE  CallInv' /\ InPlace(cur, cur', call'.ok)
    <3>1. n \in Int
      BY MaxLenAssumption DEF Offsets
    <3> QED
      BY <2>3, <3>1, SeekFits, SkipFits, GetBytesFits
  <2>4. ASSUME NEW w \in Widths, NEW le \in BOOLEAN, NEW signed \in BOOLEAN,
               GetNumber(w, le, signed) \/ \E v \in Values(w) : WriteNumber(w, le, signed, v)
        PROVE  CallInv' /\ InPlace(cur, cur', call'.ok)
    <3>1. w \in Nat
      BY WidthsAssumption
    <3>2. Values(w) \subseteq Int
      BY DEF Values
    <3>3. CASE GetNumber(w, le, signed)
      BY <3>1, <3>3, GetNumberFits
    <3>4. CASE \E v \in Values(w) : WriteNumber(w, le, signed, v)
      <4>1. PICK v \in Values(w) : WriteNumber(w, le, signed, v)
        BY <3>4
      <4>2. v \in Int
        BY <3>2
      <4> QED
        BY <3>1, <4>1, <4>2, WriteNumberFits
    <3> QED
      BY <2>4, <3>3, <3>4
  <2>5. ASSUME NEW s \in Strings, WriteString(s) \/ WriteBytes(Encoded(s))
        PROVE  CallInv' /\ InPlace(cur, cur', call'.ok)
    <3>1. s \in Seq(Seq(Byte)) /\ Encoded(s) \in Seq(Byte)
      BY StringsType, FlattenType DEF Encoded
    <3> QED
      BY <2>5, <3>1, WriteStringFits, WriteBytesFits
  <2>6. CallInv' /\ InPlace(cur, cur', call'.ok)
    BY <1>2, <2>1, <2>2, <2>3, <2>4, <2>5 DEF Next
  <2> QED
    BY <2>6
<1> QED
  BY <1>1, <1>2

(* The cursor is at work alone or stands at the start of an empty view. *)
LEMMA WireCallInit == WireInit => CallInv
<1> SUFFICES ASSUME WireInit
             PROVE  CallInv
  OBVIOUS
<1>1. CASE Init /\ Idle
  BY <1>1, CallInit
<1>2. CASE cur = Cursor(<< >>, 0, 0) /\ call = NoCall
  <2>1. cur = [buffer |-> << >>, off |-> 0, len |-> 0, pos |-> 0]
    BY <1>2 DEF Cursor
  <2>2. CursorFits(cur)
    BY <2>1 DEF CursorFits
  <2>3. call.op = "none"
    BY <1>2 DEF NoCall
  <2>4. ReadBack
    BY <2>3 DEF ReadBack
  <2> QED
    BY <2>2, <2>4 DEF CallInv
<1> QED
  BY <1>1, <1>2 DEF WireInit

(* Nor does the way of a message touch the cursor that is at work alone.    *)
LEMMA WireCallStep ==
    ASSUME CallInv, [WireNext]_<<vars, wireVars>>
    PROVE  CallInv' /\ InPlace(cur, cur', call'.ok)
<1>1. [Next]_vars
  BY DEF WireNext
<1> QED
  BY <1>1, CallStep

(* Whatever is called, in whatever order, the position stays in the view of *)
(* a buffer of any size (bytecursor.js check, advance, seek, skip).         *)
THEOREM StaysInView == WireSpec => []InView
<1>1. CallInv => InView
  BY DEF CallInv, CursorFits, InView
<1> QED
  BY <1>1, WireCallInit, WireCallStep, PTL DEF WireSpec

(* The number a writer of any width, sign and byte order accepts is the one *)
(* its reader finds (bytecursor.js writeUint8 to getBigUint64).             *)
THEOREM NumbersReadBack == WireSpec => []ReadBack
<1>1. CallInv => ReadBack
  BY DEF CallInv
<1> QED
  BY <1>1, WireCallInit, WireCallStep, PTL DEF WireSpec

(* A call changes nothing in front of the position or behind the view, even *)
(* a writeString that throws in the middle (bytecursor.js).                 *)
THEOREM WritesWhereItStands == WireSpec => WritesInPlace
<1> DEFINE A == \A i \in DOMAIN cur.buffer :
                   cur'.buffer[i] # cur.buffer[i] =>
                       /\ cur.off + cur.pos < i
                       /\ i <= cur.off + (IF call'.ok THEN cur'.pos ELSE cur.len)
<1>1. InPlace(cur, cur', call'.ok) => A
  BY DEF InPlace
<1>2. ASSUME CallInv, [WireNext]_<<vars, wireVars>>
      PROVE  CallInv' /\ [A]_vars
  <2> HIDE DEF A
  <2> QED
    BY <1>1, <1>2, WireCallStep
<1> HIDE DEF A
<1>3. WireSpec => [][A]_vars
  BY <1>2, WireCallInit, PTL DEF WireSpec
<1> QED
  BY <1>3 DEF WritesInPlace, A

-----------------------------------------------------------------------------
(* What a client writes *)

(* What is written for a message whose texts are bytes are bytes. *)
LEMMA FieldsType ==
    ASSUME NEW m, m.version \in Byte, m.flags \in Byte, m.payload \in Seq(Byte),
           \A t \in TextsOf(m) : t \in Seq(Seq(Byte))
    PROVE  Fields(m) \in Seq(Seq(Byte))
<1> DEFINE B == Seq(Byte)
<1>1. ASSUME NEW bs \in B, NEW w \in Nat
      PROVE  Prefixed(bs, w) \in Seq(B)
  <2> DEFINE d == Digits(Len(bs), w, FALSE)
  <2>1. Len(bs) \in Int
    OBVIOUS
  <2>2. d \in [1..w -> Byte]
    BY <2>1, DigitsReadBack
  <2>3. d \in B
    <3> HIDE DEF d
    <3> QED
      BY <2>2
  <2>4. Prefixed(bs, w) = <<d, bs>>
    BY DEF Prefixed
  <2> HIDE DEF d, B
  <2>5. <<d, bs>> \in Seq(B)
    BY <1>1, <2>3
  <2> QED
    BY <2>4, <2>5
<1>2. /\ Encoded(m.room) \in B /\ Encoded(m.event) \in B
      /\ Encoded(m.dst) \in B /\ Encoded(m.src) \in B
  BY FlattenType DEF Encoded, TextsOf
<1> DEFINE h == <<<<m.version>>, <<m.flags>>>>
<1>3. h \in Seq(B)
  <2>1. <<m.version>> \in B /\ <<m.flags>> \in B
    OBVIOUS
  <2> HIDE DEF B
  <2> QED
    BY <2>1
<1>4. m.payload \in B
  OBVIOUS
<1>5. \A a, b \in Seq(B) : a \o b \in Seq(B)
  BY ConcatProperties
<1> DEFINE x1 == Prefixed(Encoded(m.room), 2)
           x2 == Prefixed(Encoded(m.event), 2)
           x3 == Prefixed(Encoded(m.dst), 1)
           x4 == Prefixed(Encoded(m.src), 1)
           x5 == Prefixed(m.payload, 4)
<1>6. x1 \in Seq(B) /\ x2 \in Seq(B) /\ x3 \in Seq(B) /\ x4 \in Seq(B) /\ x5 \in Seq(B)
  <2> HIDE DEF B
  <2> QED
    BY <1>1, <1>2, <1>4
<1>7. Fields(m) = h \o x1 \o x2 \o x3 \o x4 \o x5
  BY DEF Fields
<1> HIDE DEF B, h, x1, x2, x3, x4, x5
<1>8. h \o x1 \in Seq(B)
  BY <1>3, <1>5, <1>6
<1>9. h \o x1 \o x2 \in Seq(B)
  BY <1>5, <1>6, <1>8
<1>10. h \o x1 \o x2 \o x3 \in Seq(B)
  BY <1>5, <1>6, <1>9
<1>11. h \o x1 \o x2 \o x3 \o x4 \in Seq(B)
  BY <1>5, <1>6, <1>10
<1>12. h \o x1 \o x2 \o x3 \o x4 \o x5 \in Seq(B)
  BY <1>5, <1>6, <1>11
<1> QED
  BY <1>7, <1>12 DEF B

(* The cursors new_message writes through. *)
FrameCursors(n) == [buffer : [1..n -> Byte], off : {0}, len : {0, n}, pos : Nat]

(* new_message writes bs, or fails and shows it. *)
Written(c, bs) == IF Check(c, c.pos, Len(bs)) THEN PutBytes(c, bs) ELSE [c EXCEPT !.len = 0]

(* It writes bytes into the same buffer. *)
LEMMA WrittenType ==
    ASSUME NEW n \in Nat, NEW c \in FrameCursors(n), NEW bs \in Seq(Byte)
    PROVE  Written(c, bs) \in FrameCursors(n)
<1> DEFINE p == c.pos
           l == Len(bs)
           new == [i \in 1..n |-> IF c.off + p < i /\ i <= c.off + p + l
                                  THEN bs[i - c.off - p] ELSE c.buffer[i]]
<1>1. c.off = 0 /\ p \in Nat /\ l \in Nat /\ c.len \in {0, n}
      /\ c.buffer \in [1..n -> Byte] /\ DOMAIN c.buffer = 1..n
  BY DEF FrameCursors
<1>2. new \in [1..n -> Byte]
  <2>1. ASSUME NEW i \in 1..n, c.off + p < i, i <= c.off + p + l
        PROVE  bs[i - c.off - p] \in Byte
    <3>1. i - c.off - p \in 1..l
      BY <1>1, <2>1
    <3> QED
      BY <3>1
  <2>2. \A i \in 1..n : c.buffer[i] \in Byte
    BY <1>1
  <2> HIDE DEF p, l
  <2> QED
    BY <2>1, <2>2
<1>3. PutBytes(c, bs) = [[c EXCEPT !.buffer = new] EXCEPT !.pos = p + l]
  <2>1. Store(c, p, bs) = [c EXCEPT !.buffer = new]
    BY <1>1 DEF Store
  <2>2. PutBytes(c, bs) = [Store(c, p, bs) EXCEPT !.pos = Store(c, p, bs).pos + l]
    BY DEF PutBytes, Advance
  <2>3. [c EXCEPT !.buffer = new].pos = p
    BY DEF FrameCursors
  <2> HIDE DEF p, l, new
  <2> QED
    BY <2>1, <2>2, <2>3
<1> HIDE DEF new
<1>4. PutBytes(c, bs) \in FrameCursors(n)
  <2>1. PutBytes(c, bs) = [buffer |-> new, off |-> c.off, len |-> c.len, pos |-> p + l]
    BY <1>3 DEF FrameCursors
  <2>2. p + l \in Nat
    BY <1>1
  <2> HIDE DEF p, l
  <2> QED
    BY <1>1, <1>2, <2>1, <2>2 DEF FrameCursors
<1>5. [c EXCEPT !.len = 0] \in FrameCursors(n)
  BY DEF FrameCursors
<1> QED
  BY <1>4, <1>5 DEF Written

(* Writing the fields fs, one after the other, through c. *)
Writing(c, fs) ==
    LET write(d, bs) == IF Check(d, d.pos, Len(bs)) THEN PutBytes(d, bs)
                        ELSE [d EXCEPT !.len = 0]
    IN  FoldLeft(write, c, fs)

(* The cursors in between, one for each field. *)
WritingChain(v, n, c, l, fs) ==
    /\ v \in [0..l -> FrameCursors(n)]
    /\ v[0] = c /\ \A k \in 1..l : v[k] = Written(v[k - 1], fs[k])
    /\ Writing(c, fs) = v[l]

(* There are such. *)
LEMMA WritingSteps ==
    ASSUME NEW n \in Nat, NEW c \in FrameCursors(n), NEW l \in Nat, NEW fs \in [1..l -> Seq(Byte)]
    PROVE  \E v : WritingChain(v, n, c, l, fs)
<1> DEFINE A == FrameCursors(n)
           W == Seq(Byte)
           E(f) == [t \in SUBSET (1..l) |->
                      IF t = {} THEN c ELSE Written(f[t \ {Max(t)}], fs[Max(t)])]
           F == [p \in A \X W |-> Written(p[1], p[2])]
<1>1. F \in [A \X W -> A] /\ \A a \in A, b \in W : F[<<a, b>>] = Written(a, b)
  BY WrittenType
<1>2. \E f : f = E(f)
  <2>1. PICK h \in [SUBSET (1..l) -> A] : Folds(h, F, c, fs, l)
    <3> HIDE DEF F, A, W
    <3>1. HasFold(A, F, c, fs, l)
      BY <1>1, FoldExists DEF A, W
    <3> QED
      BY <3>1 DEF HasFold
  <2> HIDE DEF F
  <2>2. ASSUME NEW t \in SUBSET (1..l), t # {}
        PROVE  h[t] = Written(h[t \ {Max(t)}], fs[Max(t)])
    <3>1. Max(t) \in 1..l
      <4>1. t \subseteq 0..l
        OBVIOUS
      <4> QED
        BY <2>2, <4>1, Greatest
    <3>2. h[t \ {Max(t)}] \in A /\ fs[Max(t)] \in W
      BY <3>1
    <3>3. h[t] = F[<<h[t \ {Max(t)}], fs[Max(t)]>>]
      BY <2>1, <2>2 DEF Folds
    <3> QED
      BY <1>1, <3>2, <3>3
  <2>3. h[{}] = c
    BY <2>1 DEF Folds
  <2>4. h = E(h)
    BY <2>2, <2>3
  <2> QED
    BY <2>4
<1> DEFINE g == CHOOSE f : f = E(f)
<1>3. g = E(g)
  <2> HIDE DEF E
  <2> QED
    BY <1>2
<1>4. Writing(c, fs) = g[1..l]
  <2>1. DOMAIN fs = 1..l
    OBVIOUS
  <2>2. Writing(c, fs) = g[DOMAIN fs]
    BY <2>1 DEF Writing, Written, FoldLeft, MapThenFoldSet
  <2> QED
    BY <2>1, <2>2
<1> HIDE DEF g
<1> DEFINE v == [k \in 0..l |-> g[1..k]]
<1>5. v[0] = c
  <2>1. 1..0 = {} /\ g[{}] = c
    BY <1>3
  <2> QED
    BY <2>1
<1>6. ASSUME NEW k \in 1..l
      PROVE  v[k] = Written(v[k - 1], fs[k])
  <2>1. g[1..k] = Written(g[(1..k) \ {Max(1..k)}], fs[Max(1..k)])
    BY <1>3, FirstOnes
  <2>2. g[1..k] = Written(g[1..(k - 1)], fs[k])
    BY <2>1, FirstOnes
  <2>3. v[k] = g[1..k] /\ v[k - 1] = g[1..(k - 1)]
    OBVIOUS
  <2> HIDE DEF v
  <2> QED
    BY <2>2, <2>3
<1>7. v = [k \in 0..l |-> v[k]] /\ v[l] = g[1..l]
  OBVIOUS
<1> HIDE DEF v, E, F
<1> DEFINE G == {k \in Nat : k <= l => v[k] \in A}
<1>8. \A k \in Nat : k \in G
  <2>1. 0 \in G
    BY <1>5
  <2>2. ASSUME NEW k \in Nat, k \in G PROVE k + 1 \in G
    <3>1. SUFFICES ASSUME k + 1 <= l PROVE v[k + 1] \in A
      OBVIOUS
    <3>2. v[k] \in A /\ (k + 1) - 1 = k /\ k + 1 \in 1..l /\ fs[k + 1] \in W
      BY <2>2, <3>1
    <3>3. v[k + 1] = Written(v[k], fs[k + 1])
      BY <1>6, <3>2
    <3> QED
      BY <3>2, <3>3, WrittenType
  <2> HIDE DEF G
  <2> QED
    BY <2>1, <2>2, Induction
<1>9. v \in [0..l -> A]
  BY <1>7, <1>8
<1>10. WritingChain(v, n, c, l, fs)
  BY <1>4, <1>5, <1>6, <1>7, <1>9 DEF WritingChain
<1> QED
  BY <1>10

(* Messages are made of bytes. *)
LEMMA MessagesType ==
    ASSUME NEW m \in Messages
    PROVE  /\ m.version \in Byte /\ m.flags \in Byte /\ m.payload \in Seq(Byte)
           /\ \A t \in TextsOf(m) : t \in Seq(Seq(Byte))
<1>1. 0 \in Byte /\ 1 \in Byte /\ 3 \in Byte
  BY BaseAssumption, WireAssumption DEF Byte
<1>2. PICK flags \in {0, 3}, room \in Texts, event \in Texts, dst \in Texts, src \in Texts,
           payload \in Payloads : m = Message(ProtocolVersion, flags, room, event, dst, src, payload)
  BY DEF Messages
<1>3. m = [version |-> 1, flags |-> flags, room |-> room, event |-> event, dst |-> dst,
           src |-> src, payload |-> payload]
  BY <1>2 DEF Message, ProtocolVersion
<1>4. TextsOf(m) \subseteq Texts
  BY <1>3 DEF TextsOf
<1> QED
  BY <1>1, <1>3, <1>4, BytesAssumption

(* What new_message returns are bytes. *)
LEMMA NewMessageType ==
    ASSUME NEW m \in Messages
    PROVE  NewMessage(m) \in Seq(Byte)
<1> DEFINE total == HeaderOverhead + Len(Encoded(m.room)) + Len(Encoded(m.event))
                     + Len(Encoded(m.dst)) + Len(Encoded(m.src)) + Len(m.payload)
           fs == Fields(m)
           l == Len(fs)
           c == Cursor(Zeros(total), 0, total)
           data == Writing(c, fs)
<1>1. total \in Nat
  <2>1. /\ Encoded(m.room) \in Seq(Byte) /\ Encoded(m.event) \in Seq(Byte)
        /\ Encoded(m.dst) \in Seq(Byte) /\ Encoded(m.src) \in Seq(Byte)
        /\ m.payload \in Seq(Byte)
    BY MessagesType, FlattenType DEF Encoded, TextsOf
  <2>2. \A b \in Seq(Byte) : Len(b) \in Nat
    OBVIOUS
  <2>3. /\ Len(Encoded(m.room)) \in Nat /\ Len(Encoded(m.event)) \in Nat
        /\ Len(Encoded(m.dst)) \in Nat /\ Len(Encoded(m.src)) \in Nat /\ Len(m.payload) \in Nat
    BY <2>1, <2>2, Zenon
  <2>4. \A a, b, c1, d, e \in Nat : 12 + a + b + c1 + d + e \in Nat
    OBVIOUS
  <2>5. 12 + Len(Encoded(m.room)) + Len(Encoded(m.event)) + Len(Encoded(m.dst))
           + Len(Encoded(m.src)) + Len(m.payload) \in Nat
    BY <2>3, <2>4, Zenon
  <2> QED
    BY <2>5, Zenon DEF HeaderOverhead
<1>2. NewMessage(m) = IF Unencodable(m) THEN << >> ELSE BytesAt(data, 0, data.len)
  BY DEF NewMessage, Writing
<1> HIDE DEF total
<1>3. c \in FrameCursors(total)
  <2> DEFINE z == Zeros(total)
  <2>1. z \in [1..total -> Byte]
    BY BaseAssumption DEF Zeros, Byte
  <2> HIDE DEF z
  <2>2. c = [buffer |-> z, off |-> 0, len |-> total, pos |-> 0]
    BY DEF Cursor, z
  <2> QED
    BY <1>1, <2>1, <2>2 DEF FrameCursors
<1>4. l \in Nat /\ fs \in [1..l -> Seq(Byte)]
  <2>1. fs \in Seq(Seq(Byte))
    BY MessagesType, FieldsType
  <2> HIDE DEF fs
  <2> QED
    BY <2>1
<1> HIDE DEF c, fs, l
<1>5. data \in FrameCursors(total)
  <2>1. PICK v : WritingChain(v, total, c, l, fs)
    BY <1>1, <1>3, <1>4, WritingSteps
  <2>2. v \in [0..l -> FrameCursors(total)] /\ data = v[l]
    BY <2>1 DEF WritingChain
  <2> HIDE DEF data
  <2> QED
    BY <1>4, <2>2
<1> HIDE DEF data
<1>6. BytesAt(data, 0, data.len) \in Seq(Byte)
  <2> DEFINE b == data.buffer
             n == data.len
             q == SubSeq(b, 1, n)
  <2>1. b \in [1..total -> Byte] /\ n \in 0..total /\ data.off = 0
    BY <1>1, <1>5 DEF FrameCursors
  <2>2. BytesAt(data, 0, data.len) = q
    BY <2>1 DEF BytesAt
  <2> HIDE DEF b, n
  <2>3. \A i \in 1..n : b[i] \in Byte
    BY <1>1, <2>1
  <2>4. q \in Seq(Byte)
    BY <1>1, <2>1, <2>3, SubSeqProperties
  <2> QED
    BY <2>2, <2>4
<1> QED
  BY <1>2, <1>6

(* And so are its variants. *)
LEMMA VariantsType ==
    ASSUME NEW bs \in Seq(Byte), NEW x \in Variants(bs)
    PROVE  x \in Seq(Byte)
<1>1. CASE x \in {SubSeq(bs, 1, k) : k \in 0..(Len(bs) - 1)}
  <2>1. PICK k \in 0..(Len(bs) - 1) : x = SubSeq(bs, 1, k)
    BY <1>1
  <2>2. \A i \in 1..k : bs[i] \in Byte
    OBVIOUS
  <2> QED
    BY <2>1, <2>2, SubSeqProperties
<1>2. CASE x \in {Append(bs, b) : b \in Byte}
  BY <1>2
<1>3. CASE x \in {[bs EXCEPT ![i] = b] : i \in DOMAIN bs, b \in Byte}
  <2>1. PICK i \in DOMAIN bs, b \in Byte : x = [bs EXCEPT ![i] = b]
    BY <1>3
  <2> QED
    BY <2>1
<1> QED
  BY <1>1, <1>2, <1>3 DEF Variants

-----------------------------------------------------------------------------
(* What the server reads *)

(* A frame taken apart. *)
Takings == [at : Nat, parts : Seq(Seq(Byte)), out : {"ok", "null", "throw"}]

(* Behind version and flags, with no part taken yet. *)
Start == Taken(2, << >>, "ok")

(* The bytes from m to n of a frame that has them. *)
LEMMA PartOf ==
    ASSUME NEW buf \in Seq(Byte), NEW m \in Nat, NEW n \in Nat, m <= n, n <= Len(buf)
    PROVE  /\ SubSeq(buf, m + 1, n) \in Seq(Byte) /\ Len(SubSeq(buf, m + 1, n)) = n - m
           /\ \A i \in 1..(n - m) : SubSeq(buf, m + 1, n)[i] = buf[m + i]
<1> DEFINE k == m + 1
           q == SubSeq(buf, k, n)
<1>1. k \in Int /\ n \in Int /\ \A i \in k..n : buf[i] \in Byte
  OBVIOUS
<1>2. n - k + 1 = n - m /\ (k <= n \/ n - m = 0) /\ \A i \in 1..(n - m) : k + i - 1 = m + i
  OBVIOUS
<1> HIDE DEF k
<1>3. /\ q \in Seq(Byte) /\ Len(q) = IF k <= n THEN n - k + 1 ELSE 0
      /\ \A i \in 1..(n - k + 1) : q[i] = buf[k + i - 1]
  BY <1>1, SubSeqProperties
<1> HIDE DEF q
<1>4. Len(q) = n - m
  <2>1. CASE k <= n
    BY <1>2, <1>3, <2>1
  <2>2. CASE ~(k <= n)
    BY <1>2, <1>3, <2>2
  <2> QED
    BY <2>1, <2>2
<1>5. \A i \in 1..(n - m) : q[i] = buf[m + i]
  BY <1>2, <1>3
<1> QED
  BY <1>3, <1>4, <1>5 DEF q, k

(* The value of a length field. *)
LEMMA LengthType ==
    ASSUME NEW bs \in Seq(Byte)
    PROVE  Unsigned(bs) \in Nat
<1> DEFINE n == Len(bs)
<1>1. n \in Nat /\ bs \in [1..n -> Nat]
  BY BaseAssumption DEF Byte
<1> HIDE DEF n
<1> QED
  BY <1>1, UnsignedSteps

(* A field that is there and ends in the frame is taken. *)
Whole(buf, t, w) ==
    LET from == t.at + w
        end == from + Unsigned(SubSeq(buf, t.at + 1, from))
    IN  from <= Len(buf) /\ end <= Len(buf) /\ (Len(t.parts) = 4 => end = Len(buf))

(* What one step of decode_message comes to. *)
LEMMA TakeFieldType ==
    ASSUME NEW buf \in Seq(Byte), NEW t \in Takings, NEW w \in Nat
    PROVE  /\ TakeField(buf, t, w) \in Takings
           /\ t.out # "ok" => TakeField(buf, t, w) = t
           /\ t.out = "ok" => (TakeField(buf, t, w).out = "ok" <=> Whole(buf, t, w))
           /\ LET from == t.at + w
                  end == from + Unsigned(SubSeq(buf, t.at + 1, from))
              IN  TakeField(buf, t, w).out = "ok" /\ t.out = "ok" =>
                      TakeField(buf, t, w) =
                          Taken(end, Append(t.parts, SubSeq(buf, from + 1, end)), "ok")
           /\ t.out = "ok" /\ TakeField(buf, t, w).out = "throw" =>
                  t.parts = << >> /\ t.at + w > Len(buf)
<1> DEFINE from == t.at + w
           n == Unsigned(SubSeq(buf, t.at + 1, from))
           end == from + n
           next == TakeField(buf, t, w)
           l == Len(buf)
<1>1. t.at \in Nat /\ t.parts \in Seq(Seq(Byte)) /\ t.out \in {"ok", "null", "throw"}
      /\ from \in Nat /\ l \in Nat /\ t.at <= from
  BY DEF Takings
<1>2. next =
        IF t.out # "ok" THEN t
        ELSE IF from > l THEN [t EXCEPT !.out = IF t.parts = << >> THEN "throw" ELSE "null"]
        ELSE IF end > l \/ (Len(t.parts) = 4 /\ end # l) THEN [t EXCEPT !.out = "null"]
        ELSE Taken(end, Append(t.parts, SubSeq(buf, from + 1, end)), "ok")
  BY DEF TakeField
<1>3. \A o \in {"null", "throw"} : [t EXCEPT !.out = o] \in Takings /\ [t EXCEPT !.out = o].out = o
  BY DEF Takings
<1> DEFINE taken == Taken(end, Append(t.parts, SubSeq(buf, from + 1, end)), "ok")
<1>4. taken.out = "ok"
  BY DEF Taken
<1>5. Whole(buf, t, w) <=> from <= l /\ end <= l /\ (Len(t.parts) = 4 => end = l)
  BY DEF Whole
<1> HIDE DEF next, from, l
<1>6. ASSUME from <= l
      PROVE  n \in Nat /\ end \in Nat /\ from <= end
  <2>1. SubSeq(buf, t.at + 1, from) \in Seq(Byte)
    BY <1>1, <1>6, PartOf DEF l
  <2>2. n \in Nat
    BY <2>1, LengthType
  <2> HIDE DEF n
  <2> QED
    BY <1>1, <2>2
<1>7. ASSUME from <= l, end <= l
      PROVE  taken \in Takings
  <2> DEFINE part == SubSeq(buf, from + 1, end)
  <2>1. end \in Nat /\ from <= end
    BY <1>6, <1>7
  <2> HIDE DEF end
  <2>2. part \in Seq(Byte)
    BY <1>1, <1>7, <2>1, PartOf DEF l
  <2> HIDE DEF part
  <2>3. Append(t.parts, part) \in Seq(Seq(Byte))
    BY <1>1, <2>2
  <2>4. Taken(end, Append(t.parts, part), "ok") \in Takings
    BY <2>1, <2>3 DEF Taken, Takings
  <2> QED
    BY <2>4 DEF part
<1> HIDE DEF end, taken
<1>8. from <= l => end \in Nat
  BY <1>6
<1>9. CASE t.out # "ok"
  BY <1>2, <1>9 DEF from, l, next
<1>10. CASE t.out = "ok" /\ from > l
  <2>1. next = [t EXCEPT !.out = IF t.parts = << >> THEN "throw" ELSE "null"]
    BY <1>2, <1>10
  <2>2. next \in Takings /\ next.out # "ok" /\ (next.out = "throw" => t.parts = << >>)
    BY <1>3, <2>1
  <2>3. ~Whole(buf, t, w)
    BY <1>1, <1>5, <1>10
  <2> QED
    BY <1>10, <2>2, <2>3 DEF next, from, l
<1>11. CASE t.out = "ok" /\ from <= l /\ (end > l \/ (Len(t.parts) = 4 /\ end # l))
  <2>1. next = [t EXCEPT !.out = "null"]
    BY <1>1, <1>2, <1>11 DEF taken
  <2>2. next \in Takings /\ next.out = "null"
    BY <1>3, <2>1
  <2>3. ~Whole(buf, t, w)
    BY <1>1, <1>5, <1>8, <1>11
  <2> QED
    BY <1>11, <2>2, <2>3 DEF next, from, l
<1>12. CASE t.out = "ok" /\ from <= l /\ ~(end > l \/ (Len(t.parts) = 4 /\ end # l))
  <2>1. next = taken /\ end <= l
    BY <1>1, <1>2, <1>8, <1>12 DEF taken
  <2>2. next \in Takings /\ next.out = "ok"
    BY <1>4, <1>7, <1>12, <2>1
  <2>3. Whole(buf, t, w)
    BY <1>5, <1>12, <2>1
  <2> QED
    BY <1>12, <2>1, <2>2, <2>3 DEF next, from, l, end, taken
<1> QED
  BY <1>1, <1>9, <1>10, <1>11, <1>12

(* decode_message takes the fields one after the other. *)
Taking(v, buf) ==
    /\ v \in [0..5 -> Takings] /\ v[0] = Start
    /\ \A k \in 1..5 : v[k] = TakeField(buf, v[k - 1], LengthFields[k])

(* A frame of a size that is looked at. *)
Sized(buf) == ~(Len(buf) < HeaderOverhead \/ Len(buf) > MaxMessage)

(* There are five fields with a length, the first of two bytes. *)
LEMMA LengthFieldsType ==
    LengthFields \in [1..5 -> Nat] /\ DOMAIN LengthFields = 1..5 /\ LengthFields[1] = 2
  BY DEF LengthFields

(* What decode_message comes to is the last of five steps, or null. *)
LEMMA TakeSteps ==
    ASSUME NEW buf \in Seq(Byte)
    PROVE  IF Sized(buf) THEN \E v : Taking(v, buf) /\ Take(buf) = v[5]
           ELSE Take(buf) = Taken(0, << >>, "null")
<1> DEFINE A == Takings
           E(f) == [t \in SUBSET (1..5) |->
                      IF t = {} THEN Start
                      ELSE TakeField(buf, f[t \ {Max(t)}], LengthFields[Max(t)])]
           F == [p \in A \X Nat |-> TakeField(buf, p[1], p[2])]
<1>1. F \in [A \X Nat -> A] /\ \A a \in A, b \in Nat : F[<<a, b>>] = TakeField(buf, a, b)
  <2>1. \A a \in A, b \in Nat : TakeField(buf, a, b) \in A
    BY TakeFieldType
  <2> HIDE DEF A
  <2> QED
    BY <2>1
<1>2. Start \in A
  BY DEF Start, Taken, Takings
<1>3. \E f : f = E(f)
  <2>1. PICK h \in [SUBSET (1..5) -> A] : Folds(h, F, Start, LengthFields, 5)
    <3> HIDE DEF F, A
    <3>1. HasFold(A, F, Start, LengthFields, 5)
      BY <1>1, <1>2, LengthFieldsType, FoldExists
    <3> QED
      BY <3>1 DEF HasFold
  <2> HIDE DEF F, A
  <2>2. ASSUME NEW t \in SUBSET (1..5), t # {}
        PROVE  h[t] = TakeField(buf, h[t \ {Max(t)}], LengthFields[Max(t)])
    <3>1. Max(t) \in 1..5
      <4>1. t \subseteq 0..5 /\ 5 \in Nat
        OBVIOUS
      <4> QED
        BY <2>2, <4>1, Greatest
    <3>2. h[t \ {Max(t)}] \in A /\ LengthFields[Max(t)] \in Nat
      BY <3>1, LengthFieldsType
    <3>3. h[t] = F[<<h[t \ {Max(t)}], LengthFields[Max(t)]>>]
      BY <2>1, <2>2 DEF Folds
    <3> QED
      BY <1>1, <3>2, <3>3
  <2>3. h[{}] = Start
    BY <2>1 DEF Folds
  <2>4. h = E(h)
    BY <2>2, <2>3
  <2> HIDE DEF E
  <2> QED
    BY <2>4
<1> DEFINE g == CHOOSE f : f = E(f)
<1>4. g = E(g)
  <2> HIDE DEF E
  <2> QED
    BY <1>3
<1>5. Take(buf) = IF Sized(buf) THEN g[1..5] ELSE Taken(0, << >>, "null")
  <2>1. Take(buf) = IF Sized(buf) THEN g[DOMAIN LengthFields] ELSE Taken(0, << >>, "null")
    BY LengthFieldsType DEF Take, Sized, Start, FoldLeft, MapThenFoldSet
  <2> HIDE DEF g
  <2> QED
    BY <2>1, LengthFieldsType
<1> HIDE DEF g
<1> DEFINE v == [k \in 0..5 |-> g[1..k]]
<1>6. v[0] = Start
  <2>1. 1..0 = {} /\ g[{}] = Start
    BY <1>4
  <2> QED
    BY <2>1
<1>7. ASSUME NEW k \in 1..5
      PROVE  v[k] = TakeField(buf, v[k - 1], LengthFields[k])
  <2>1. g[1..k] = TakeField(buf, g[(1..k) \ {Max(1..k)}], LengthFields[Max(1..k)])
    <3>1. 1..k \in SUBSET (1..5) /\ 1..k # {}
      <4>1. 5 \in Nat
        OBVIOUS
      <4> QED
        BY <4>1, FirstOnes
    <3> QED
      BY <1>4, <3>1
  <2>2. Max(1..k) = k /\ (1..k) \ {k} = 1..(k - 1)
    <3>1. 5 \in Nat
      OBVIOUS
    <3> QED
      BY <3>1, FirstOnes
  <2>3. g[1..k] = TakeField(buf, g[1..(k - 1)], LengthFields[k])
    BY <2>1, <2>2
  <2>4. v[k] = g[1..k] /\ v[k - 1] = g[1..(k - 1)]
    OBVIOUS
  <2> HIDE DEF v
  <2> QED
    BY <2>4, <2>3
<1>8. v = [k \in 0..5 |-> v[k]] /\ v[5] = g[1..5]
  OBVIOUS
<1> HIDE DEF v, E, F, A
<1>9. \A k \in 0..5 : v[k] \in A
  <2>1. ASSUME NEW k \in 1..5, v[k - 1] \in A
        PROVE  v[k] \in A
    <3>1. LengthFields[k] \in Nat
      BY LengthFieldsType
    <3> QED
      BY <1>7, <2>1, <3>1, TakeFieldType DEF A
  <2>2. v[0] \in A
    BY <1>2, <1>6
  <2>3. v[1] \in A
    BY <2>1, <2>2
  <2>4. v[2] \in A
    BY <2>1, <2>3
  <2>5. v[3] \in A
    BY <2>1, <2>4
  <2>6. v[4] \in A
    BY <2>1, <2>5
  <2>7. v[5] \in A
    BY <2>1, <2>6
  <2> QED
    BY <2>2, <2>3, <2>4, <2>5, <2>6, <2>7
<1>10. v \in [0..5 -> A]
  BY <1>8, <1>9
<1>11. Taking(v, buf)
  BY <1>6, <1>7, <1>10 DEF Taking, A
<1> QED
  BY <1>5, <1>8, <1>11

(* The five steps, each of the one before. *)
LEMMA TakingChain ==
    ASSUME NEW G, 0 \in G, \A k \in 1..5 : k - 1 \in G => k \in G
    PROVE  \A k \in 0..5 : k \in G
<1>1. 1 \in G
  OBVIOUS
<1>2. 2 \in G
  BY <1>1
<1>3. 3 \in G
  BY <1>2
<1>4. 4 \in G
  BY <1>3
<1>5. 5 \in G
  BY <1>4
<1> QED
  BY <1>1, <1>2, <1>3, <1>4, <1>5

(* As long as all has gone well as many parts have been taken as steps.     *)
LEMMA TakingParts ==
    ASSUME NEW buf \in Seq(Byte), NEW v, Taking(v, buf)
    PROVE  \A k \in 0..5 : v[k].out = "ok" => Len(v[k].parts) = k
<1> DEFINE G == {k \in 0..5 : v[k].out = "ok" => Len(v[k].parts) = k}
<1>1. 0 \in G
  BY DEF Taking, Start, Taken
<1>2. ASSUME NEW k \in 1..5, k - 1 \in G
      PROVE  k \in G
  <2>1. SUFFICES ASSUME v[k].out = "ok"
                 PROVE  Len(v[k].parts) = k
    OBVIOUS
  <2> DEFINE t == v[k - 1]
             w == LengthFields[k]
             from == t.at + w
             end == from + Unsigned(SubSeq(buf, t.at + 1, from))
  <2>2. t \in Takings /\ w \in Nat /\ v[k] = TakeField(buf, t, w)
    BY LengthFieldsType DEF Taking
  <2>3. t.out = "ok"
    <3> HIDE DEF t, w
    <3> QED
      BY <2>1, <2>2, TakeFieldType
  <2>4. v[k] = Taken(end, Append(t.parts, SubSeq(buf, from + 1, end)), "ok")
    <3> HIDE DEF t, w
    <3> QED
      BY <2>1, <2>2, <2>3, TakeFieldType
  <2>5. Len(t.parts) = k - 1 /\ t.parts \in Seq(Seq(Byte))
    BY <1>2, <2>2, <2>3 DEF Takings
  <2> DEFINE x == SubSeq(buf, from + 1, end)
             ps == Append(t.parts, x)
  <2>6. v[k] = Taken(end, ps, "ok")
    BY <2>4
  <2> HIDE DEF t, end, from, x
  <2>7. Len(ps) = (k - 1) + 1
    BY <2>5
  <2> HIDE DEF ps
  <2>8. v[k].parts = ps
    BY <2>6 DEF Taken
  <2> QED
    BY <2>7, <2>8
<1>3. \A k \in 0..5 : k \in G
  <2> HIDE DEF G
  <2> QED
    BY <1>1, <1>2, TakingChain
<1> QED
  BY <1>3

(* decode_message reads nothing that is not there.  *)
LEMMA TakeNeverThrows ==
    ASSUME NEW buf \in Seq(Byte)
    PROVE  Take(buf).out \in {"ok", "null"}
<1>1. CASE ~Sized(buf)
  <2>1. Take(buf) = Taken(0, << >>, "null")
    BY <1>1, TakeSteps
  <2> QED
    BY <2>1 DEF Taken
<1>2. CASE Sized(buf)
  <2>1. PICK v : Taking(v, buf) /\ Take(buf) = v[5]
    BY <1>2, TakeSteps
  <2> DEFINE G == {k \in 0..5 : v[k].out # "throw"}
  <2>2. 0 \in G
    BY <2>1 DEF Taking, Start, Taken
  <2>3. ASSUME NEW k \in 1..5, k - 1 \in G
        PROVE  k \in G
    <3> DEFINE t == v[k - 1]
               w == LengthFields[k]
    <3>1. t \in Takings /\ w \in Nat /\ v[k] = TakeField(buf, t, w) /\ t.out # "throw"
      BY <2>1, <2>3, LengthFieldsType DEF Taking
    <3>2. SUFFICES ASSUME v[k].out = "throw"
                   PROVE  FALSE
      OBVIOUS
    <3>3. t.out = "ok" /\ t.parts = << >> /\ t.at + w > Len(buf)
      <4> HIDE DEF t, w
      <4>1. t.out = "ok"
        BY <3>1, <3>2, TakeFieldType
      <4> QED
        BY <3>1, <3>2, <4>1, TakeFieldType
    <3>4. k = 1
      <4>1. k - 1 \in 0..5 /\ v[k - 1].out = "ok"
        BY <3>3
      <4>2. Len(t.parts) = k - 1
        BY <2>1, <4>1, TakingParts
      <4> HIDE DEF t
      <4>3. k - 1 = 0
        BY <3>3, <4>2
      <4> QED
        BY <4>3
    <3>5. t.at + w = 4
      BY <2>1, <3>4, LengthFieldsType DEF Taking, Start, Taken
    <3>6. ~(Len(buf) < 12)
      BY <1>2 DEF Sized, HeaderOverhead
    <3>7. Len(buf) \in Nat
      OBVIOUS
    <3> QED
      BY <3>3, <3>5, <3>6, <3>7
  <2>4. 5 \in G
    <3> HIDE DEF G
    <3> QED
      BY <2>2, <2>3, TakingChain
  <2>5. v[5] \in Takings
    BY <2>1 DEF Taking
  <2> QED
    BY <2>1, <2>4, <2>5 DEF Takings
<1> QED
  BY <1>1, <1>2

(* If all has gone well at the end it has gone well from the start. *)
LEMMA TakingOk ==
    ASSUME NEW buf \in Seq(Byte), NEW v, Taking(v, buf), v[5].out = "ok"
    PROVE  \A k \in 0..5 : v[k].out = "ok"
<1>1. ASSUME NEW k \in 1..5, v[k].out = "ok"
      PROVE  v[k - 1].out = "ok"
  <2> DEFINE t == v[k - 1]
             w == LengthFields[k]
  <2>1. t \in Takings /\ w \in Nat /\ v[k] = TakeField(buf, t, w)
    BY LengthFieldsType DEF Taking
  <2> HIDE DEF t, w
  <2>2. t.out = "ok"
    BY <1>1, <2>1, TakeFieldType
  <2> QED
    BY <2>2 DEF t
<1>2. v[4].out = "ok"
  BY <1>1
<1>3. v[3].out = "ok"
  BY <1>1, <1>2
<1>4. v[2].out = "ok"
  BY <1>1, <1>3
<1>5. v[1].out = "ok"
  BY <1>1, <1>4
<1>6. v[0].out = "ok"
  BY <1>1, <1>5
<1> QED
  BY <1>2, <1>3, <1>4, <1>5, <1>6

(* No accepted frame is the beginning of another: what the beginning makes  *)
(* of each field is what the whole does, and the payload cannot end with    *)
(* both.                                                                    *)
LEMMA NoBeginning ==
    ASSUME NEW buf \in Seq(Byte), Take(buf).out = "ok",
           NEW k \in 0..(Len(buf) - 1), Take(SubSeq(buf, 1, k)).out = "ok"
    PROVE  FALSE
<1> DEFINE b == SubSeq(buf, 1, k)
           l == Len(buf)
<1>1. b \in Seq(Byte) /\ Len(b) = k /\ l \in Nat /\ k < l /\ \A i \in 1..k : b[i] = buf[i]
  <2>1. \A i \in 1..k : buf[i] \in Byte
    OBVIOUS
  <2>2. k \in Int /\ 1 \in Int
    OBVIOUS
  <2>3. b \in Seq(Byte) /\ Len(b) = (IF 1 <= k THEN k - 1 + 1 ELSE 0)
        /\ \A i \in 1..(k - 1 + 1) : b[i] = buf[1 + i - 1]
    BY <2>1, <2>2, SubSeqProperties
  <2> HIDE DEF b
  <2> QED
    BY <2>3
<1>2. Take(b).out = "ok"
  OBVIOUS
<1> HIDE DEF b, l
<1>3. ASSUME NEW x \in Seq(Byte), Take(x).out = "ok"
      PROVE  \E v : Taking(v, x) /\ v[5].out = "ok"
  <2>1. Sized(x)
    <3>1. Taken(0, << >>, "null").out = "null"
      BY DEF Taken
    <3> QED
      BY <1>3, <3>1, TakeSteps
  <2> QED
    BY <1>3, <2>1, TakeSteps
<1>4. PICK v : Taking(v, buf) /\ v[5].out = "ok"
  BY <1>3
<1>5. PICK u : Taking(u, b) /\ u[5].out = "ok"
  BY <1>1, <1>2, <1>3
<1>6. \A j \in 0..5 : v[j].out = "ok" /\ u[j].out = "ok"
  BY <1>1, <1>4, <1>5, TakingOk
<1> DEFINE E(x, t, w) == (t.at + w) + Unsigned(SubSeq(x, t.at + 1, t.at + w))
           P(x, t, w) == SubSeq(x, t.at + w + 1, E(x, t, w))
<1>7. ASSUME NEW t \in Takings, NEW w \in Nat, t.out = "ok",
             TakeField(buf, t, w).out = "ok", TakeField(b, t, w).out = "ok"
      PROVE  /\ TakeField(buf, t, w) = TakeField(b, t, w)
             /\ E(b, t, w) = E(buf, t, w) /\ Len(t.parts) # 4
  <2> DEFINE from == t.at + w
             e1 == E(buf, t, w)
             e2 == E(b, t, w)
  <2>1. Whole(buf, t, w) /\ Whole(b, t, w)
    BY <1>1, <1>7, TakeFieldType
  <2>2. TakeField(buf, t, w) = Taken(e1, Append(t.parts, P(buf, t, w)), "ok")
        /\ TakeField(b, t, w) = Taken(e2, Append(t.parts, P(b, t, w)), "ok")
    BY <1>1, <1>7, TakeFieldType
  <2>3. from <= k /\ e1 <= l /\ e2 <= k
        /\ (Len(t.parts) = 4 => e1 = l) /\ (Len(t.parts) = 4 => e2 = k)
    BY <1>1, <2>1 DEF Whole, l
  <2>4. t.at \in Nat /\ from \in Nat /\ t.at <= from
    BY <1>7 DEF Takings
  <2>5. ASSUME NEW m \in Nat, NEW n \in Nat, m <= n, n <= k
        PROVE  SubSeq(b, m + 1, n) = SubSeq(buf, m + 1, n)
    <3> DEFINE p == SubSeq(b, m + 1, n)
               q == SubSeq(buf, m + 1, n)
    <3>1. /\ p \in Seq(Byte) /\ Len(p) = n - m
          /\ \A i \in 1..(n - m) : p[i] = b[m + i]
      BY <1>1, <2>5, PartOf
    <3>2. /\ q \in Seq(Byte) /\ Len(q) = n - m
          /\ \A i \in 1..(n - m) : q[i] = buf[m + i]
      <4>1. n <= Len(buf)
        BY <1>1, <2>5 DEF l
      <4> QED
        BY <2>5, <4>1, PartOf
    <3> HIDE DEF p, q
    <3>3. \A i \in 1..(n - m) : m + i \in 1..k
      BY <1>1, <2>5
    <3>4. \A i \in 1..Len(p) : p[i] = q[i]
      BY <1>1, <3>1, <3>2, <3>3
    <3>5. p = q
      BY <3>1, <3>2, <3>4, SeqEqual
    <3> QED
      BY <3>5 DEF p, q
  <2>6. SubSeq(b, t.at + 1, from) = SubSeq(buf, t.at + 1, from)
    <3> HIDE DEF from
    <3> QED
      BY <2>3, <2>4, <2>5
  <2>7. e1 = e2
    BY <2>6
  <2>8. e2 \in Nat /\ from <= e2
    <3> DEFINE n == Unsigned(SubSeq(b, t.at + 1, from))
    <3>1. SubSeq(b, t.at + 1, from) \in Seq(Byte)
      <4> HIDE DEF from
      <4> QED
        BY <1>1, <2>3, <2>4, PartOf
    <3>2. n \in Nat
      BY <3>1, LengthType
    <3>3. e2 = from + n
      OBVIOUS
    <3> HIDE DEF n, e2, from
    <3> QED
      BY <2>4, <3>2, <3>3
  <2>9. P(b, t, w) = P(buf, t, w)
    <3>1. P(b, t, w) = SubSeq(b, from + 1, e2) /\ P(buf, t, w) = SubSeq(buf, from + 1, e1)
      OBVIOUS
    <3> HIDE DEF from, e1, e2, P
    <3>2. SubSeq(b, from + 1, e2) = SubSeq(buf, from + 1, e2)
      BY <2>3, <2>4, <2>5, <2>8
    <3> QED
      BY <2>7, <3>1, <3>2
  <2>10. Len(t.parts) # 4
    <3> HIDE DEF e1, e2
    <3> QED
      BY <1>1, <2>3, <2>7
  <2>11. e1 = E(buf, t, w) /\ e2 = E(b, t, w)
    OBVIOUS
  <2> HIDE DEF e1, e2, E, P
  <2> QED
    BY <2>2, <2>7, <2>9, <2>10, <2>11
<1> HIDE DEF E, P
<1> DEFINE G == {j \in 0..5 : u[j] = v[j]}
<1>8. 0 \in G
  BY <1>4, <1>5 DEF Taking
<1>9. ASSUME NEW j \in 1..5, j - 1 \in G
       PROVE  j \in G /\ j # 5
  <2> DEFINE t == v[j - 1]
             w == LengthFields[j]
  <2>1. j - 1 \in 0..5 /\ u[j - 1] = t
    BY <1>9
  <2>2. t \in Takings /\ w \in Nat /\ v[j] = TakeField(buf, t, w) /\ u[j] = TakeField(b, t, w)
    BY <1>4, <1>5, <2>1, LengthFieldsType DEF Taking
  <2>3. t.out = "ok" /\ v[j].out = "ok" /\ u[j].out = "ok"
    BY <1>6, <2>1
  <2>4. Len(t.parts) = j - 1
    BY <1>4, <2>1, <2>3, TakingParts
  <2> HIDE DEF t, w
  <2>5. v[j] = u[j] /\ Len(t.parts) # 4
    BY <1>7, <2>2, <2>3
  <2> QED
    BY <2>4, <2>5
<1>10. \A j \in 0..5 : j \in G
  <2> HIDE DEF G
  <2> QED
    BY <1>8, <1>9, TakingChain
<1> QED
  <2>1. 5 \in 1..5 /\ 5 - 1 \in G
    <3>1. 5 - 1 \in 0..5
      OBVIOUS
    <3> HIDE DEF G
    <3> QED
      BY <1>10, <3>1
  <2> QED
    BY <1>9, <2>1

-----------------------------------------------------------------------------
(* The way to the server *)

(* What reaches the server are bytes, and what it has decoded are bytes     *)
(* that decode_message takes.                                               *)
FrameInv ==
    /\ stage = "new" => original \in Messages
    /\ stage = "toServer" => frame \in Seq(Byte)
    /\ stage = "decoded" => accepted \in Seq(Byte) /\ Take(accepted).out = "ok"
    /\ DecodeNeverThrows

(* At the start nothing has been sent. *)
LEMMA FrameInit == WireInit => FrameInv
  BY DEF WireInit, Idle, FrameInv, DecodeNeverThrows

(* And every step keeps it. *)
LEMMA FrameStep ==
    ASSUME FrameInv, [WireNext]_<<vars, wireVars>>
    PROVE  FrameInv'
<1>1. CASE UNCHANGED wireVars
  BY <1>1 DEF FrameInv, DecodeNeverThrows, wireVars
<1>2. CASE ClientSends
  <2>1. original' = original /\ frame' = NewMessage(original) /\ original \in Messages
        /\ stage' \in {"unsent", "toServer"}
    BY <1>2 DEF ClientSends, FrameInv
  <2>2. frame' \in Seq(Byte)
    BY <2>1, NewMessageType
  <2> QED
    BY <2>1, <2>2 DEF FrameInv, DecodeNeverThrows
<1>3. CASE OtherSends
  <2>1. frame \in Seq(Byte) /\ frame' \in Variants(frame) /\ stage' = stage /\ stage = "toServer"
    BY <1>3 DEF OtherSends, FrameInv
  <2>2. frame' \in Seq(Byte)
    BY <2>1, VariantsType
  <2> QED
    BY <2>1, <2>2 DEF FrameInv, DecodeNeverThrows
<1>4. CASE ServerReceives
  <2>1. frame \in Seq(Byte)
    BY <1>4 DEF ServerReceives, FrameInv
  <2>2. Take(frame).out \in {"ok", "null"}
    BY <2>1, TakeNeverThrows
  <2>3. stage' = IF Take(frame).out = "ok" THEN "decoded" ELSE "refused"
    BY <1>4, <2>2 DEF ServerReceives
  <2>4. Take(frame).out = "ok" => accepted' = frame
    BY <1>4 DEF ServerReceives
  <2>5. stage' = "decoded" => Take(frame).out = "ok"
    BY <2>3
  <2>6. stage' = "decoded" => accepted' \in Seq(Byte) /\ Take(accepted').out = "ok"
    BY <2>1, <2>4, <2>5
  <2>7. stage' \in {"decoded", "refused"}
    BY <2>3
  <2> QED
    BY <2>6, <2>7 DEF FrameInv, DecodeNeverThrows
<1>5. CASE ServerForwards \/ NodeRelays \/ ClientReceives
  <2>1. stage' \in {"unsent", "toClient", "relayed", "received", "ignored"}
    BY <1>5 DEF ServerForwards, NodeRelays, ClientReceives
  <2> QED
    BY <2>1 DEF FrameInv, DecodeNeverThrows
<1> QED
  BY <1>1, <1>2, <1>3, <1>4, <1>5 DEF WireNext, Trip, Arrived

(* Whatever a peer sends, cut, extended or with another byte in it, the     *)
(* server's message handler meets no exception of decode_message, for which *)
(* it has no catch (message.js, server.js).                                 *)
THEOREM DecodingIsSafe == WireSpec => []DecodeNeverThrows
<1>1. FrameInv => DecodeNeverThrows
  BY DEF FrameInv
<1> QED
  BY <1>1, FrameInit, FrameStep, PTL DEF WireSpec

(* No accepted frame is the beginning of another, of whatever lengths its   *)
(* fields are (message.js decode_message).                                  *)
THEOREM FramesArePrefixFree == WireSpec => []PrefixFree
<1>1. FrameInv => PrefixFree
  <2> SUFFICES ASSUME FrameInv, stage = "decoded", NEW k \in 0..(Len(accepted) - 1)
               PROVE  Take(SubSeq(accepted, 1, k)).out # "ok"
    BY DEF PrefixFree
  <2>1. accepted \in Seq(Byte) /\ Take(accepted).out = "ok"
    BY DEF FrameInv
  <2> QED
    BY <2>1, NoBeginning
<1> QED
  BY <1>1, FrameInit, FrameStep, PTL DEF WireSpec

-----------------------------------------------------------------------------
(* What the server forwards *)

(* There is only one way to write a value in w bytes. *)
LEMMA DigitsOfValue ==
    ASSUME NEW w \in Nat, NEW bs \in [1..w -> Byte]
    PROVE  Digits(Unsigned(bs), w, FALSE) = bs
<1>1. bs \in [1..w -> Nat] /\ \A k \in 1..w : bs[k] \in 0..(Base - 1)
  BY BaseAssumption DEF Byte
<1>2. PICK x \in [0..w -> Nat] :
         /\ x[0] = 0 /\ \A k \in 1..w : x[k] = x[k - 1] * Base + bs[k]
         /\ Unsigned(bs) = x[w]
  BY <1>1, UnsignedSteps
<1>3. ASSUME NEW k \in 1..w
      PROVE  x[k - 1] = x[k] \div Base /\ bs[k] = x[k] % Base
  <2> DEFINE a == x[k]
             q == x[k - 1]
             r == bs[k]
  <2>1. a \in Nat /\ q \in Nat /\ r \in 0..(Base - 1)
    BY <1>1, <1>2
  <2>2. a = q * Base + r
    BY <1>2
  <2> HIDE DEF a, q, r
  <2>3. Base \in Nat \ {0}
    BY BaseAssumption
  <2>4. a = Base * q + r
    BY <2>1, <2>2, <2>3
  <2>5. PICK y \in Nat, z \in 0..(Base - 1) : y = a \div Base /\ z = a % Base /\ a = Base * y + z
    <3>1. \E y \in Int, z \in 0..(Base - 1) :
             y = a \div Base /\ z = a % Base /\ a = Base * y + z /\ (a \in Nat => y \in Nat)
      <4>1. a \in Int
        BY <2>1
      <4> QED
        BY <2>3, <4>1, Quotient
    <3> QED
      BY <2>1, <3>1
  <2>6. q = y
    BY <2>1, <2>3, <2>4, <2>5, OneQuotient
  <2>7. r = z
    <3>1. Base * y \in Nat
      BY <2>3, <2>5
    <3>2. Base * y + r = Base * y + z
      BY <2>4, <2>5, <2>6
    <3> QED
      BY <2>1, <2>5, <3>1, <3>2
  <2> QED
    BY <2>5, <2>6, <2>7 DEF a, q, r
<1> DEFINE u == x[w]
           G == {j \in Nat : j <= w => u \div Power[j] = x[w - j]}
<1>4. u \in Nat
  BY <1>2
<1>5. 0 \in G
  <2>1. u \div 1 = u
    BY <1>4
  <2> QED
    BY <2>1, PowerSteps
<1>6. ASSUME NEW j \in Nat, j \in G
      PROVE  j + 1 \in G
  <2> SUFFICES ASSUME j + 1 <= w
               PROVE  u \div Power[j + 1] = x[w - (j + 1)]
    OBVIOUS
  <2> HIDE DEF u
  <2>1. Power[j] \in Nat \ {0} /\ Power[j + 1] = Base * Power[j]
    BY PowerSteps
  <2>2. u \div (Base * Power[j]) = (u \div Power[j]) \div Base
    BY <1>4, <2>1, BaseAssumption, QuotientOfProduct
  <2>3. w - j \in 1..w /\ (w - j) - 1 = w - (j + 1) /\ j <= w
    OBVIOUS
  <2>4. x[w - (j + 1)] = x[w - j] \div Base
    BY <1>3, <2>3
  <2>5. u \div Power[j] = x[w - j]
    BY <1>6, <2>3
  <2> QED
    BY <2>1, <2>2, <2>4, <2>5
<1>7. \A j \in Nat : j \in G
  <2> HIDE DEF G
  <2> QED
    BY <1>5, <1>6, Induction
<1>8. u % Power[w] = u
  <2> DEFINE p == Power[w]
  <2>1. p \in Nat \ {0}
    BY PowerSteps
  <2>2. u \div p = 0
    BY <1>2, <1>7
  <2> HIDE DEF p, u
  <2>3. \E q \in Int, r \in 0..(p - 1) :
           q = u \div p /\ r = u % p /\ u = p * q + r /\ (u \in Nat => q \in Nat)
    <3>1. u \in Int
      BY <1>4
    <3> QED
      BY <2>1, <3>1, Quotient
  <2>4. PICK r \in 0..(p - 1) : r = u % p /\ u = p * 0 + r
    BY <2>2, <2>3
  <2>5. u = r
    BY <2>1, <2>4
  <2> QED
    BY <2>4, <2>5 DEF p
<1>9. ASSUME NEW i \in 1..w
      PROVE  ((u % Power[w]) \div Power[w - i]) % Base = bs[i]
  <2>1. w - i \in Nat /\ w - i <= w /\ w - (w - i) = i
    OBVIOUS
  <2>2. u \div Power[w - i] = x[i]
    BY <1>7, <2>1
  <2>3. bs[i] = x[i] % Base
    BY <1>3
  <2> QED
    BY <1>8, <2>2, <2>3
<1> DEFINE d == Digits(Unsigned(bs), w, FALSE)
<1>10. d = [i \in 1..w |-> ((u % Power[w]) \div Power[w - i]) % Base]
  BY <1>2 DEF Digits, Ordered
<1> HIDE DEF d, u
<1>11. d = [i \in 1..w |-> bs[i]]
  BY <1>9, <1>10
<1> QED
  BY <1>11 DEF d

(* Two pieces of a frame, one after the other, are one. *)
LEMMA Pieces ==
    ASSUME NEW buf \in Seq(Byte), NEW l \in Nat, NEW m \in Nat, NEW n \in Nat,
           l <= m, m <= n, n <= Len(buf)
    PROVE  SubSeq(buf, l + 1, m) \o SubSeq(buf, m + 1, n) = SubSeq(buf, l + 1, n)
<1> DEFINE p == SubSeq(buf, l + 1, m)
           q == SubSeq(buf, m + 1, n)
           r == SubSeq(buf, l + 1, n)
<1>1. Len(buf) \in Nat /\ m <= Len(buf) /\ l <= n
  OBVIOUS
<1>2. p \in Seq(Byte) /\ Len(p) = m - l /\ \A i \in 1..(m - l) : p[i] = buf[l + i]
  BY <1>1, PartOf
<1>3. q \in Seq(Byte) /\ Len(q) = n - m /\ \A i \in 1..(n - m) : q[i] = buf[m + i]
  BY <1>1, PartOf
<1>4. r \in Seq(Byte) /\ Len(r) = n - l /\ \A i \in 1..(n - l) : r[i] = buf[l + i]
  BY <1>1, PartOf
<1> HIDE DEF p, q, r
<1>5. /\ p \o q \in Seq(Byte) /\ Len(p \o q) = Len(p) + Len(q)
      /\ \A i \in 1..(Len(p) + Len(q)) :
            (p \o q)[i] = IF i <= Len(p) THEN p[i] ELSE q[i - Len(p)]
  BY <1>2, <1>3, ConcatProperties
<1>6. Len(p \o q) = n - l
  BY <1>2, <1>3, <1>5
<1>7. ASSUME NEW i \in 1..(n - l)
      PROVE  (p \o q)[i] = r[i]
  <2>1. (p \o q)[i] = IF i <= m - l THEN p[i] ELSE q[i - (m - l)]
    BY <1>2, <1>3, <1>5
  <2>2. CASE i <= m - l
    <3>1. i \in 1..(m - l)
      BY <2>2
    <3> QED
      BY <1>2, <1>4, <2>1, <2>2, <3>1
  <2>3. CASE ~(i <= m - l)
    <3>1. i - (m - l) \in 1..(n - m) /\ m + (i - (m - l)) = l + i
      BY <2>3
    <3> QED
      BY <1>3, <1>4, <2>1, <2>3, <3>1
  <2> QED
    BY <2>2, <2>3
<1> DEFINE c == p \o q
<1>8. c \in Seq(Byte) /\ Len(c) = Len(r) /\ \A i \in 1..Len(c) : c[i] = r[i]
  BY <1>4, <1>5, <1>6, <1>7
<1> HIDE DEF c
<1>9. c = r
  BY <1>4, <1>8, SeqEqual
<1> QED
  BY <1>9 DEF c, p, q, r

(* s are the fields of the frame up to where t is. *)
Back(buf, t, s) ==
    /\ s \in Seq(Seq(Byte)) /\ s # << >>
    /\ t.at <= Len(buf) /\ FlattenSeq(s) = SubSeq(buf, 1, t.at)

(* A field that was taken, written again: so is the frame up to its end.    *)
LEMMA TakenBack ==
    ASSUME NEW buf \in Seq(Byte), NEW t \in Takings, NEW w \in Nat, t.out = "ok",
           TakeField(buf, t, w).out = "ok", NEW s, Back(buf, t, s)
    PROVE  \E p \in Seq(Byte) :
              /\ TakeField(buf, t, w).parts = Append(t.parts, p)
              /\ Len(t.parts) = 4 => TakeField(buf, t, w).at = Len(buf)
              /\ Back(buf, TakeField(buf, t, w), s \o Prefixed(p, w))
<1> DEFINE next == TakeField(buf, t, w)
           at == t.at
           from == at + w
           d == SubSeq(buf, at + 1, from)
           n == Unsigned(d)
           end == from + n
           p == SubSeq(buf, from + 1, end)
<1>1. at \in Nat /\ from \in Nat /\ at <= from
  BY DEF Takings
<1>2. s \in Seq(Seq(Byte)) /\ s # << >> /\ FlattenSeq(s) = SubSeq(buf, 1, at)
  BY DEF Back
<1>3. next = Taken(end, Append(t.parts, p), "ok")
  BY TakeFieldType
<1>4. from <= Len(buf) /\ end <= Len(buf) /\ (Len(t.parts) = 4 => end = Len(buf))
  BY TakeFieldType DEF Whole
<1> HIDE DEF next
<1>5. next.at = end /\ next.parts = Append(t.parts, p)
  BY <1>3 DEF Taken
<1> HIDE DEF at
<1>6. d \in Seq(Byte) /\ Len(d) = w
  <2> HIDE DEF d
  <2>1. d = SubSeq(buf, at + 1, from)
    BY DEF d
  <2>2. from - at = w
    BY <1>1
  <2> HIDE DEF from
  <2> QED
    BY <1>1, <1>4, <2>1, <2>2, PartOf
<1>7. n \in Nat /\ from <= end /\ end \in Nat
  <2>1. n \in Nat
    <3> HIDE DEF d
    <3> QED
      BY <1>6, LengthType
  <2> HIDE DEF n
  <2> QED
    BY <1>1, <2>1
<1>8. p \in Seq(Byte) /\ Len(p) = n
  <2> HIDE DEF p
  <2>1. p = SubSeq(buf, from + 1, end)
    BY DEF p
  <2>2. end - from = n
    <3> HIDE DEF n, from
    <3> QED
      BY <1>1, <1>7
  <2> HIDE DEF end
  <2> QED
    BY <1>1, <1>4, <1>7, <2>1, <2>2, PartOf
<1>9. Prefixed(p, w) = <<d, p>>
  <2>1. d \in [1..w -> Byte]
    <3> HIDE DEF d
    <3> QED
      BY <1>6
  <2>2. Digits(n, w, FALSE) = d
    <3> HIDE DEF d
    <3> QED
      BY <2>1, DigitsOfValue
  <2> HIDE DEF p, n, d
  <2> QED
    BY <1>8, <2>2 DEF Prefixed
<1> DEFINE f == s \o <<d, p>>
<1>10. f \in Seq(Seq(Byte)) /\ f # << >> /\ FlattenSeq(f) = (FlattenSeq(s) \o d) \o p
  <2> HIDE DEF d, p
  <2> DEFINE B == Seq(Byte)
             g == Append(s, d)
  <2>1. d \in B /\ p \in B /\ s \in Seq(B)
    BY <1>2, <1>6, <1>8
  <2>2. f = Append(g, p)
    <3> HIDE DEF B
    <3> QED
      BY <2>1, TwoMore
  <2>3. g \in Seq(B) /\ g # << >>
    <3> HIDE DEF B
    <3> QED
      BY <2>1
  <2>4. FlattenSeq(g) = FlattenSeq(s) \o d
    BY <1>2, <2>1, FlattenAppend
  <2> HIDE DEF f, g
  <2>5. FlattenSeq(f) = FlattenSeq(g) \o p
    <3>1. FlattenSeq(Append(g, p)) = FlattenSeq(g) \o p
      BY <2>1, <2>3, FlattenAppend
    <3> QED
      BY <2>2, <3>1
  <2>6. f \in Seq(B) /\ f # << >>
    <3> HIDE DEF B
    <3>1. Append(g, p) \in Seq(B) /\ Append(g, p) # << >>
      BY <2>1, <2>3, AppendProperties
    <3> QED
      BY <2>2, <3>1
  <2> QED
    BY <2>4, <2>5, <2>6
<1>11. FlattenSeq(f) = SubSeq(buf, 1, end)
  <2>1. SubSeq(buf, 0 + 1, at) \o SubSeq(buf, at + 1, from) = SubSeq(buf, 0 + 1, from)
    <3> HIDE DEF from
    <3>1. 0 <= at
      BY <1>1
    <3> QED
      BY <1>1, <1>4, <3>1, Pieces
  <2>2. SubSeq(buf, 0 + 1, from) \o SubSeq(buf, from + 1, end) = SubSeq(buf, 0 + 1, end)
    <3> HIDE DEF from, end
    <3>1. 0 <= from
      BY <1>1
    <3> QED
      BY <1>1, <1>4, <1>7, <3>1, Pieces
  <2>3. FlattenSeq(s) = SubSeq(buf, 1, at)
    BY <1>2
  <2>4. d = SubSeq(buf, at + 1, from) /\ p = SubSeq(buf, from + 1, end) /\ 0 + 1 = 1
    OBVIOUS
  <2> HIDE DEF d, p, from, end, f
  <2> QED
    BY <1>10, <2>1, <2>2, <2>3, <2>4
<1> HIDE DEF p, d, n, end, from, f
<1>12. f = s \o Prefixed(p, w)
  BY <1>9 DEF f
<1> QED
  BY <1>4, <1>5, <1>8, <1>10, <1>11, <1>12 DEF next, Back

(* The fields of a frame: version, flags and five parts with their lengths. *)
Layout(version, flags, p) ==
    <<<<version>>, <<flags>>>> \o Prefixed(p[1], 2) \o Prefixed(p[2], 2)
        \o Prefixed(p[3], 1) \o Prefixed(p[4], 1) \o Prefixed(p[5], 4)

(* Five parts, appended one by one. *)
LEMMA FiveParts ==
    ASSUME NEW a, NEW b, NEW c, NEW d, NEW e, NEW q,
           q = Append(Append(Append(Append(Append(<< >>, a), b), c), d), e)
    PROVE  q[1] = a /\ q[2] = b /\ q[3] = c /\ q[4] = d /\ q[5] = e
<1>1. <<a, b, c, d, e>> = Append(Append(Append(Append(Append(<< >>, a), b), c), d), e)
  OBVIOUS
<1>2. q = <<a, b, c, d, e>>
  BY <1>1, Zenon
<1> QED
  BY <1>2

(* The fields of an accepted frame make up all of it. *)
LEMMA TakenApart ==
    ASSUME NEW buf \in Seq(Byte), Take(buf).out = "ok"
    PROVE  FlattenSeq(Layout(buf[1], buf[2], Take(buf).parts)) = buf
<1> DEFINE s0 == <<<<buf[1]>>, <<buf[2]>>>>
<1>1. Sized(buf)
  <2>1. Taken(0, << >>, "null").out = "null"
    BY DEF Taken
  <2> QED
    BY <2>1, TakeSteps
<1>2. Len(buf) \in Nat /\ Len(buf) >= 12 /\ buf[1] \in Byte /\ buf[2] \in Byte
  BY <1>1 DEF Sized, HeaderOverhead
<1>3. PICK v : Taking(v, buf) /\ Take(buf) = v[5]
  BY <1>1, TakeSteps
<1>4. \A k \in 0..5 : v[k].out = "ok"
  BY <1>3, TakingOk
<1>5. Back(buf, v[0], s0)
  <2> DEFINE x == <<buf[1]>>
             y == <<buf[2]>>
  <2>1. x \in Seq(Byte) /\ y \in Seq(Byte) /\ s0 = <<x, y>>
    BY <1>2
  <2>2. FlattenSeq(<<x>>) = x
    <3> DEFINE s == <<x>>
    <3>1. s \in Seq(Seq(Byte)) /\ Len(s) = 1 /\ s[1] = x
      BY <2>1
    <3> HIDE DEF s
    <3>2. Len(s) # 0
      BY <3>1
    <3>3. PICK g : Flattens(g, Byte, s, Len(s)) /\ FlattenSeq(s) = g[Len(s)]
      BY <3>1, <3>2, FlattenSteps
    <3>4. 1 \in 1..Len(s) /\ g[1] = s[1]
      BY <3>1, <3>3 DEF Flattens
    <3> QED
      BY <3>1, <3>3, <3>4 DEF s
  <2>3. s0 = Append(<<x>>, y) /\ s0 # << >> /\ <<x>> # << >> /\ <<x>> \in Seq(Seq(Byte))
        /\ s0 \in Seq(Seq(Byte))
    <3> DEFINE B == Seq(Byte)
    <3>1. x \in B /\ y \in B
      BY <2>1
    <3> HIDE DEF B, x, y
    <3>2. <<x, y>> = Append(<<x>>, y) /\ <<x, y>> # << >> /\ <<x>> # << >>
          /\ <<x>> \in Seq(B) /\ <<x, y>> \in Seq(B)
      BY <3>1
    <3> QED
      BY <2>1, <3>2 DEF B
  <2> HIDE DEF s0
  <2>4. FlattenSeq(s0) = x \o y
    <3> DEFINE s == <<x>>
    <3>1. FlattenSeq(Append(s, y)) = FlattenSeq(s) \o y
      <4> HIDE DEF s, x, y
      <4>1. s \in Seq(Seq(Byte)) /\ s # << >> /\ y \in Seq(Byte)
        BY <2>1, <2>3 DEF s
      <4> QED
        BY <4>1, FlattenAppend
    <3> HIDE DEF x, y
    <3> QED
      BY <2>2, <2>3, <3>1
  <2>5. SubSeq(buf, 1, 2) = x \o y
    <3> DEFINE q == SubSeq(buf, 0 + 1, 2)
    <3>1. q \in Seq(Byte) /\ Len(q) = 2 - 0 /\ \A i \in 1..(2 - 0) : q[i] = buf[0 + i]
      BY <1>2, PartOf
    <3>2. q = SubSeq(buf, 1, 2)
      OBVIOUS
    <3> HIDE DEF q
    <3>3. q[1] = buf[1] /\ q[2] = buf[2]
      BY <3>1
    <3> DEFINE c == x \o y
    <3>4. Len(x) = 1 /\ Len(y) = 1 /\ x[1] = buf[1] /\ y[1] = buf[2]
      OBVIOUS
    <3> HIDE DEF x, y
    <3>5. c \in Seq(Byte) /\ Len(c) = Len(x) + Len(y)
          /\ \A i \in 1..(Len(x) + Len(y)) : c[i] = IF i <= Len(x) THEN x[i] ELSE y[i - Len(x)]
      BY <2>1, ConcatProperties
    <3> HIDE DEF c
    <3>6. Len(c) = 2 /\ c[1] = buf[1] /\ c[2] = buf[2]
      BY <3>4, <3>5
    <3>7. \A i \in 1..Len(q) : q[i] = c[i]
      BY <3>1, <3>3, <3>6
    <3>8. q = c
      BY <3>1, <3>5, <3>6, <3>7, SeqEqual
    <3> QED
      BY <3>2, <3>8 DEF c
  <2>6. v[0].at = 2
    BY <1>3 DEF Taking, Start, Taken
  <2> QED
    BY <1>2, <2>3, <2>4, <2>5, <2>6 DEF Back
<1> HIDE DEF s0
<1>6. ASSUME NEW k \in 1..5, NEW s, Back(buf, v[k - 1], s)
      PROVE  \E p \in Seq(Byte) :
                /\ v[k].parts = Append(v[k - 1].parts, p)
                /\ k = 5 => v[k].at = Len(buf)
                /\ Back(buf, v[k], s \o Prefixed(p, LengthFields[k]))
  <2> DEFINE t == v[k - 1]
             w == LengthFields[k]
  <2>1. t \in Takings /\ w \in Nat /\ v[k] = TakeField(buf, t, w)
    BY <1>3, LengthFieldsType DEF Taking
  <2>2. k - 1 \in 0..5 /\ k \in 0..5
    OBVIOUS
  <2>3. t.out = "ok" /\ v[k].out = "ok" /\ Len(t.parts) = k - 1
    BY <1>3, <1>4, <2>2, TakingParts
  <2>4. Back(buf, t, s)
    BY <1>6
  <2> HIDE DEF t, w
  <2>5. PICK p \in Seq(Byte) :
           /\ TakeField(buf, t, w).parts = Append(t.parts, p)
           /\ Len(t.parts) = 4 => TakeField(buf, t, w).at = Len(buf)
           /\ Back(buf, TakeField(buf, t, w), s \o Prefixed(p, w))
    BY <2>1, <2>3, <2>4, TakenBack
  <2> QED
    BY <2>1, <2>3, <2>5 DEF t, w
<1>7. LengthFields[1] = 2 /\ LengthFields[2] = 2 /\ LengthFields[3] = 1
      /\ LengthFields[4] = 1 /\ LengthFields[5] = 4
  BY DEF LengthFields
<1>8. PICK p1 \in Seq(Byte) :
         v[1].parts = Append(v[0].parts, p1) /\ Back(buf, v[1], s0 \o Prefixed(p1, 2))
  BY <1>5, <1>6, <1>7
<1> DEFINE s1 == s0 \o Prefixed(p1, 2)
<1>9. PICK p2 \in Seq(Byte) :
         v[2].parts = Append(v[1].parts, p2) /\ Back(buf, v[2], s1 \o Prefixed(p2, 2))
  <2>1. Back(buf, v[1], s1)
    BY <1>8
  <2> HIDE DEF s1
  <2> QED
    BY <1>6, <1>7, <2>1
<1> DEFINE s2 == s1 \o Prefixed(p2, 2)
<1>10. PICK p3 \in Seq(Byte) :
          v[3].parts = Append(v[2].parts, p3) /\ Back(buf, v[3], s2 \o Prefixed(p3, 1))
  <2>1. Back(buf, v[2], s2)
    BY <1>9
  <2> HIDE DEF s2
  <2> QED
    BY <1>6, <1>7, <2>1
<1> DEFINE s3 == s2 \o Prefixed(p3, 1)
<1>11. PICK p4 \in Seq(Byte) :
          v[4].parts = Append(v[3].parts, p4) /\ Back(buf, v[4], s3 \o Prefixed(p4, 1))
  <2>1. Back(buf, v[3], s3)
    BY <1>10
  <2> HIDE DEF s3
  <2> QED
    BY <1>6, <1>7, <2>1
<1> DEFINE s4 == s3 \o Prefixed(p4, 1)
<1>12. PICK p5 \in Seq(Byte) :
          v[5].parts = Append(v[4].parts, p5) /\ v[5].at = Len(buf)
          /\ Back(buf, v[5], s4 \o Prefixed(p5, 4))
  <2>1. Back(buf, v[4], s4)
    BY <1>11
  <2> HIDE DEF s4
  <2> QED
    BY <1>6, <1>7, <2>1
<1> DEFINE s5 == s4 \o Prefixed(p5, 4)
           parts == v[5].parts
<1>13. parts[1] = p1 /\ parts[2] = p2 /\ parts[3] = p3 /\ parts[4] = p4 /\ parts[5] = p5
  <2>1. v[0].parts = << >>
    BY <1>3 DEF Taking, Start, Taken
  <2>2. /\ v[1].parts = Append(v[0].parts, p1) /\ v[2].parts = Append(v[1].parts, p2)
        /\ v[3].parts = Append(v[2].parts, p3) /\ v[4].parts = Append(v[3].parts, p4)
        /\ v[5].parts = Append(v[4].parts, p5)
    BY <1>8, <1>9, <1>10, <1>11, <1>12, Zenon
  <2>3. parts = Append(Append(Append(Append(Append(<< >>, p1), p2), p3), p4), p5)
    BY <2>1, <2>2, Zenon
  <2> HIDE DEF parts
  <2>4. ASSUME NEW q, q = Append(Append(Append(Append(Append(<< >>, p1), p2), p3), p4), p5)
        PROVE  q[1] = p1 /\ q[2] = p2 /\ q[3] = p3 /\ q[4] = p4 /\ q[5] = p5
    BY ONLY <2>4, FiveParts
  <2> QED
    BY <2>3, <2>4
<1>14. FlattenSeq(s5) = buf
  <2>1. Back(buf, v[5], s5)
    BY <1>12
  <2> HIDE DEF s5
  <2>2. FlattenSeq(s5) = SubSeq(buf, 1, Len(buf))
    BY <1>12, <2>1 DEF Back
  <2>3. SubSeq(buf, 1, Len(buf)) = buf
    OBVIOUS
  <2> QED
    BY <2>2, <2>3
<1>15. Layout(buf[1], buf[2], parts) = s5
  BY <1>13 DEF Layout, s0
<1> QED
  BY <1>3, <1>14, <1>15

(* decode_message and encode are inverses of each other on the texts that   *)
(* are valid: what was accepted is written again as it was.                 *)
LEMMA EncodedAgain ==
    ASSUME NEW buf \in Seq(Byte), Take(buf).out = "ok", buf[1] # 0,
           \A i \in 1..4 : Encoded(Decoded(Take(buf).parts[i])) = Take(buf).parts[i],
           NEW m, m = CreateMessage(Take(buf).parts, buf[1], buf[2]), Encode(m) # << >>
    PROVE  Encode(m) = buf
<1> DEFINE p == Take(buf).parts
<1>1. buf[1] \in Byte /\ buf[1] > 0
  <2>1. Sized(buf)
    <3>1. Taken(0, << >>, "null").out = "null"
      BY DEF Taken
    <3> QED
      BY <3>1, TakeSteps
  <2>2. buf[1] \in Byte
    BY <2>1 DEF Sized, HeaderOverhead
  <2> QED
    BY <2>2, BaseAssumption DEF Byte
<1> HIDE DEF p
<1>2. /\ m.version = buf[1] /\ m.flags = buf[2] /\ m.payload = p[5]
      /\ m.room = Decoded(p[1]) /\ m.event = Decoded(p[2])
      /\ m.dst = Decoded(p[3]) /\ m.src = Decoded(p[4])
  BY <1>1 DEF p, CreateMessage, Message
<1>3. /\ Encoded(m.room) = p[1] /\ Encoded(m.event) = p[2]
      /\ Encoded(m.dst) = p[3] /\ Encoded(m.src) = p[4]
  BY <1>2 DEF p
<1>4. Fields(m) = Layout(buf[1], buf[2], p)
  BY <1>2, <1>3, Zenon DEF Fields, Layout
<1>5. Encode(m) = FlattenSeq(Fields(m))
  BY DEF Encode
<1> QED
  BY <1>4, <1>5, TakenApart DEF p

(* A node's envelope keeps the frame in it. *)
LEMMA EnvelopeKeeps ==
    ASSUME NEW raw \in Seq(Byte)
    PROVE  DecodeEnvelope(EncodeEnvelope(raw)) = raw
<1> DEFINE n == Len(NodeId)
           d == Digits(n, 4, FALSE)
           e == d \o NodeId
           env == e \o raw
<1>1. n \in Nat /\ n < Power[4] /\ NodeId \in Seq(Byte)
  BY NodeIdAssumption
<1>2. d \in [1..4 -> Byte] /\ d \in Seq(Byte) /\ Len(d) = 4 /\ Unsigned(d) = n
  <2> HIDE DEF n
  <2>1. d \in [1..4 -> Byte] /\ Len(d) = 4 /\ Unsigned(Ordered(d, FALSE)) = n % Power[4]
    <3>1. n \in Int /\ 4 \in Nat /\ FALSE \in BOOLEAN
      BY <1>1
    <3> QED
      BY ONLY <3>1, DigitsReadBack
  <2>2. Ordered(d, FALSE) = d
    BY DEF Ordered
  <2> DEFINE p == Power[4]
  <2>3. p \in Nat \ {0} /\ n < p
    BY <1>1, PowerSteps
  <2> HIDE DEF p, d
  <2>4. n % p = n
    BY <1>1, <2>3
  <2>5. d \in Seq(Byte)
    <3>1. ASSUME NEW k \in Nat, NEW f \in [1..k -> Byte]
          PROVE  f \in Seq(Byte)
      OBVIOUS
    <3> QED
      BY <2>1, <3>1
  <2>6. Unsigned(d) = n
    BY <2>1, <2>2, <2>4 DEF p
  <2> QED
    BY <2>1, <2>5, <2>6
<1> HIDE DEF d
<1>3. /\ e \in Seq(Byte) /\ Len(e) = Len(d) + Len(NodeId)
      /\ \A i \in 1..(Len(d) + Len(NodeId)) :
            e[i] = IF i <= Len(d) THEN d[i] ELSE NodeId[i - Len(d)]
  BY <1>1, <1>2, ConcatProperties
<1> HIDE DEF e, n
<1>4. /\ env \in Seq(Byte) /\ Len(env) = Len(e) + Len(raw)
      /\ \A i \in 1..(Len(e) + Len(raw)) :
            env[i] = IF i <= Len(e) THEN e[i] ELSE raw[i - Len(e)]
  <2>1. e \in Seq(Byte)
    BY <1>3
  <2> QED
    BY ONLY <2>1, raw \in Seq(Byte), ConcatProperties
<1> HIDE DEF env
<1>5. Len(e) = 4 + n /\ \A i \in 1..4 : e[i] = d[i]
  BY <1>1, <1>2, <1>3 DEF n
<1>6. Len(raw) \in Nat /\ Len(env) = 4 + n + Len(raw)
      /\ (\A i \in 1..4 : env[i] = d[i]) /\ \A i \in 1..Len(raw) : env[4 + n + i] = raw[i]
  <2>1. Len(raw) \in Nat /\ Len(env) = 4 + n + Len(raw)
    BY <1>1, <1>4, <1>5
  <2>2. ASSUME NEW i \in 1..4
        PROVE  env[i] = d[i]
    <3>1. i \in 1..(Len(e) + Len(raw)) /\ i <= Len(e)
      BY <1>1, <1>5, <2>1
    <3> QED
      BY <1>4, <1>5, <3>1
  <2>3. ASSUME NEW i \in 1..Len(raw)
        PROVE  env[4 + n + i] = raw[i]
    <3> DEFINE j == 4 + n + i
    <3>1. j \in 1..(Len(e) + Len(raw)) /\ ~(j <= Len(e)) /\ j - Len(e) = i
      BY <1>1, <1>5, <2>1
    <3> HIDE DEF j
    <3>2. env[j] = raw[j - Len(e)]
      BY <1>4, <3>1
    <3> QED
      BY <3>1, <3>2 DEF j
  <2> QED
    BY <2>1, <2>2, <2>3
<1>7. SubSeq(env, 1, 4) = d
  <2> DEFINE q == SubSeq(env, 0 + 1, 4)
  <2>1. q \in Seq(Byte) /\ Len(q) = 4 - 0 /\ \A i \in 1..(4 - 0) : q[i] = env[0 + i]
    <3>1. 4 <= Len(env)
      BY <1>1, <1>6
    <3> QED
      BY <1>4, <3>1, PartOf
  <2>2. q = SubSeq(env, 1, 4)
    OBVIOUS
  <2> HIDE DEF q
  <2>3. \A i \in 1..Len(q) : q[i] = d[i]
    BY <1>6, <2>1
  <2>4. q = d
    BY <1>2, <2>1, <2>3, SeqEqual
  <2> QED
    BY <2>2, <2>4
<1> DEFINE m == 4 + n
           l == Len(env)
           r == SubSeq(env, m + 1, l)
<1>8. r = raw
  <2>1. m \in Nat /\ m <= l /\ l \in Nat /\ l - m = Len(raw)
    BY <1>1, <1>6
  <2>2. \A i \in 1..Len(raw) : env[m + i] = raw[i]
    BY <1>6
  <2> HIDE DEF m
  <2>3. r \in Seq(Byte) /\ Len(r) = l - m /\ \A i \in 1..(l - m) : r[i] = env[m + i]
    BY <1>4, <2>1, PartOf
  <2> HIDE DEF r, l
  <2>4. \A i \in 1..Len(r) : r[i] = raw[i]
    BY <2>1, <2>2, <2>3
  <2> QED
    BY <2>1, <2>3, <2>4, SeqEqual
<1>9. DecodeEnvelope(env) = raw
  <2>1. DecodeEnvelope(env) = IF Len(env) < 4 \/ Len(env) < 4 + n THEN << >> ELSE r
    BY <1>2, <1>7 DEF DecodeEnvelope
  <2>2. ~(Len(env) < 4 \/ Len(env) < 4 + n)
    BY <1>1, <1>6
  <2> HIDE DEF r
  <2> QED
    BY <1>8, <2>1, <2>2
<1>10. EncodeEnvelope(raw) = env
  BY DEF EncodeEnvelope, env, e, d, n
<1> QED
  BY <1>9, <1>10

(* What the server has accepted, and what it made of it. *)
ForwardInv ==
    /\ FrameInv
    /\ stage \in {"decoded", "toClient", "relayed"} =>
           accepted \in Seq(Byte) /\ Take(accepted).out = "ok"
    /\ stage = "decoded" =>
           msg = CreateMessage(Take(accepted).parts, accepted[1], accepted[2])
    /\ ForwardedVerbatim

(* At the start nothing has been accepted. *)
LEMMA ForwardInit == WireInit => ForwardInv
<1> SUFFICES ASSUME WireInit
             PROVE  ForwardInv
  OBVIOUS
<1>1. stage \in {"idle", "new"}
  BY DEF WireInit, Idle
<1>2. FrameInv
  BY FrameInit
<1> QED
  BY <1>1, <1>2 DEF ForwardInv, ForwardedVerbatim

(* Is what was accepted valid text under a version that is kept? *)
Kept(bs) ==
    bs[1] # 0 /\ \A i \in 1..4 : Encoded(Decoded(Take(bs).parts[i])) = Take(bs).parts[i]

(* And every step keeps it: encode undoes decode_message, and the relay     *)
(* takes out of its envelope what was put in.                               *)
LEMMA ForwardStep ==
    ASSUME ForwardInv, [WireNext]_<<vars, wireVars>>
    PROVE  ForwardInv'
<1>1. FrameInv /\ FrameInv'
  BY FrameStep DEF ForwardInv
<1>2. ForwardedVerbatim <=> (stage \in {"toClient", "relayed"} /\ Kept(accepted) => frame = accepted)
  BY DEF ForwardedVerbatim, Kept
<1>3. ForwardedVerbatim' <=>
          (stage' \in {"toClient", "relayed"} /\ Kept(accepted') => frame' = accepted')
  BY DEF ForwardedVerbatim, Kept
<1>4. CASE UNCHANGED wireVars
  BY <1>1, <1>4 DEF ForwardInv, ForwardedVerbatim, wireVars
<1>5. CASE ClientSends \/ OtherSends \/ ClientReceives
  <2>1. stage' \notin {"decoded", "toClient", "relayed"}
    BY <1>5 DEF ClientSends, OtherSends, ClientReceives
  <2> QED
    BY <1>1, <1>3, <2>1 DEF ForwardInv
<1>6. CASE ServerReceives
  <2>1. frame \in Seq(Byte) /\ Take(frame).out \in {"ok", "null"}
    BY <1>1, <1>6, TakeNeverThrows DEF FrameInv, ServerReceives
  <2>2. stage' = IF Take(frame).out = "ok" THEN "decoded" ELSE "refused"
    BY <1>6, <2>1 DEF ServerReceives
  <2>3. Take(frame).out = "ok" =>
            accepted' = frame /\ msg' = CreateMessage(Take(frame).parts, frame[1], frame[2])
    BY <1>6 DEF ServerReceives
  <2>4. stage' = "decoded" => Take(frame).out = "ok"
    BY <2>2
  <2>5. stage' \in {"decoded", "refused"}
    BY <2>2
  <2> QED
    BY <1>1, <1>3, <2>1, <2>3, <2>4, <2>5 DEF ForwardInv
<1>7. CASE ServerForwards
  <2>1. /\ accepted \in Seq(Byte) /\ Take(accepted).out = "ok"
        /\ msg = CreateMessage(Take(accepted).parts, accepted[1], accepted[2])
    BY <1>7 DEF ServerForwards, ForwardInv
  <2>2. /\ frame' = Encode(msg) /\ accepted' = accepted
        /\ stage' = IF Encode(msg) = << >> THEN "unsent" ELSE "toClient"
    BY <1>7 DEF ServerForwards
  <2>3. ASSUME Encode(msg) # << >>, Kept(accepted)
        PROVE  Encode(msg) = accepted
    BY <2>1, <2>3, EncodedAgain DEF Kept
  <2>4. stage' \in {"unsent", "toClient"} /\ (stage' = "toClient" => Encode(msg) # << >>)
    BY <2>2
  <2>5. ForwardedVerbatim'
    BY <1>3, <2>2, <2>3, <2>4
  <2> QED
    BY <1>1, <2>1, <2>2, <2>4, <2>5 DEF ForwardInv
<1>8. CASE NodeRelays
  <2>1. accepted \in Seq(Byte) /\ Take(accepted).out = "ok" /\ (Kept(accepted) => frame = accepted)
    BY <1>2, <1>8 DEF NodeRelays, ForwardInv
  <2>2. /\ frame' = DecodeEnvelope(EncodeEnvelope(frame)) /\ accepted' = accepted
        /\ stage' = "relayed"
    BY <1>8 DEF NodeRelays
  <2>3. Kept(accepted) => frame' = accepted
    BY <2>1, <2>2, EnvelopeKeeps
  <2>4. ForwardedVerbatim'
    BY <1>3, <2>2, <2>3
  <2> QED
    BY <1>1, <2>1, <2>2, <2>4 DEF ForwardInv
<1> QED
  BY <1>4, <1>5, <1>6, <1>7, <1>8 DEF WireNext, Trip, Arrived

(* What the server accepted it forwards byte for byte, to its own clients   *)
(* and through the envelope of its node to those of others, whoever sent    *)
(* it, if its texts are valid and its version is not 0 (message.js          *)
(* decode_message and encode, adapter_redis.js).                            *)
THEOREM ForwardsVerbatim == WireSpec => []ForwardedVerbatim
<1>1. ForwardInv => ForwardedVerbatim
  BY DEF ForwardInv
<1> QED
  BY <1>1, ForwardInit, ForwardStep, PTL DEF WireSpec

-----------------------------------------------------------------------------
(* Sequences one behind the other *)

(* bs lies in buf behind position a. *)
Lies(buf, a, bs) == \A i \in 1..Len(bs) : buf[a + i] = bs[i]

(* Where the sequences of s end, one behind the other. *)
Sums(at, s) ==
    /\ at \in [0..Len(s) -> Nat] /\ at[0] = 0
    /\ \A k \in 1..Len(s) : at[k] = at[k - 1] + Len(s[k])

(* buf is made of the sequences of s, which end at at. *)
Laid(buf, at, s) ==
    /\ Sums(at, s) /\ at[Len(s)] = Len(buf)
    /\ \A k \in 1..Len(s) : Lies(buf, at[k - 1], s[k])

(* What lies in a frame is the piece of it there. *)
LEMMA LiesThere ==
    ASSUME NEW buf \in Seq(Byte), NEW a \in Nat, NEW bs \in Seq(Byte),
           a + Len(bs) <= Len(buf), Lies(buf, a, bs)
    PROVE  SubSeq(buf, a + 1, a + Len(bs)) = bs
<1> DEFINE n == a + Len(bs)
           q == SubSeq(buf, a + 1, n)
<1>1. n \in Nat /\ a <= n /\ n <= Len(buf) /\ n - a = Len(bs)
  OBVIOUS
<1> HIDE DEF n
<1>2. q \in Seq(Byte) /\ Len(q) = n - a /\ \A i \in 1..(n - a) : q[i] = buf[a + i]
  BY <1>1, PartOf
<1> HIDE DEF q
<1>3. Len(q) = Len(bs) /\ \A i \in 1..Len(q) : q[i] = bs[i]
  BY <1>1, <1>2 DEF Lies
<1>4. q = bs
  BY <1>2, <1>3, SeqEqual
<1> QED
  BY <1>4 DEF q, n

(* The ends are in order. *)
LEMMA SumsGrow ==
    ASSUME NEW S, NEW s \in Seq(Seq(S)), NEW at, Sums(at, s), NEW j \in 0..Len(s)
    PROVE  \A k \in 0..j : at[k] <= at[j]
<1> DEFINE n == Len(s)
           G == {m \in Nat : m <= n => \A k \in 0..m : at[k] <= at[m]}
<1>1. 0 \in G
  BY DEF Sums
<1>2. ASSUME NEW m \in Nat, m \in G
      PROVE  m + 1 \in G
  <2> SUFFICES ASSUME m + 1 <= n, NEW k \in 0..(m + 1)
               PROVE  at[k] <= at[m + 1]
    OBVIOUS
  <2>1. m + 1 \in 1..n /\ (m + 1) - 1 = m /\ m \in 0..n /\ k \in 0..n
    OBVIOUS
  <2>2. s[m + 1] \in Seq(S)
    BY <2>1
  <2>3. at[m + 1] = at[m] + Len(s[m + 1]) /\ at[m] \in Nat /\ at[m + 1] \in Nat /\ at[k] \in Nat
    <3>1. at \in [0..n -> Nat] /\ m + 1 \in 0..n
      BY <2>1 DEF Sums
    <3>2. at[m + 1] = at[(m + 1) - 1] + Len(s[m + 1])
      BY <2>1 DEF Sums
    <3> HIDE DEF n
    <3> QED
      BY <2>1, <3>1, <3>2
  <2>4. Len(s[m + 1]) \in Nat
    BY <2>2
  <2>5. k \in 0..m => at[k] <= at[m]
    BY <1>2, <2>1
  <2>6. k \in 0..m \/ k = m + 1
    OBVIOUS
  <2> QED
    BY <2>3, <2>4, <2>5, <2>6
<1>3. j \in G /\ j \in Nat /\ j <= n
  <2>1. j \in Nat /\ j <= n
    OBVIOUS
  <2> HIDE DEF G
  <2> QED
    BY <1>1, <1>2, <2>1, Induction
<1> QED
  BY <1>3

(* A sequence of sequences, flattened, is made of them. *)
LEMMA FlattenLaid ==
    ASSUME NEW S, NEW s \in Seq(Seq(S))
    PROVE  \E at : Laid(FlattenSeq(s), at, s)
<1> DEFINE n == Len(s)
<1>0. n \in Nat /\ \A i \in 1..n : s[i] \in Seq(S)
  OBVIOUS
<1>1. CASE n = 0
  <2>1. s = << >> /\ Len(s) = 0
    BY <1>1
  <2>2. FlattenSeq(s) = << >>
    BY <2>1 DEF FlattenSeq
  <2> DEFINE at == [k \in 0..0 |-> 0]
  <2>3. Laid(<< >>, at, s)
    BY <2>1 DEF Laid, Sums
  <2> QED
    BY <2>2, <2>3
<1>2. CASE n # 0
  <2>1. PICK g : Flattens(g, S, s, n) /\ FlattenSeq(s) = g[n]
    BY <1>2, FlattenSteps
  <2> DEFINE at == [k \in 0..n |-> IF k = 0 THEN 0 ELSE Len(g[k])]
  <2> HIDE DEF n
  <2>2. \A k \in 1..n : g[k] \in Seq(S) /\ Len(g[k]) \in Nat
    BY <2>1 DEF Flattens
  <2>3. at \in [0..n -> Nat] /\ at[0] = 0 /\ \A k \in 1..n : at[k] = Len(g[k])
    BY <1>0, <2>2
  <2> HIDE DEF at
  <2>4. ASSUME NEW k \in 1..n
        PROVE  /\ at[k] = at[k - 1] + Len(s[k])
               /\ \A i \in 1..at[k] :
                     g[k][i] = IF i <= at[k - 1] THEN g[k - 1][i] ELSE s[k][i - at[k - 1]]
    <3>1. g[k] = IF k = 1 THEN s[k] ELSE g[k - 1] \o s[k]
      BY <2>1 DEF Flattens
    <3>2. CASE k = 1
      <4>1. at[k - 1] = 0 /\ Len(s[k]) \in Nat
        BY <1>0, <2>3, <3>2
      <4>2. g[k] = s[k] /\ at[k] = Len(g[k])
        BY <2>3, <3>1, <3>2
      <4> QED
        BY <4>1, <4>2
    <3>3. CASE k # 1
      <4>1. k - 1 \in 1..n
        BY <1>0, <3>3
      <4> DEFINE x == g[k - 1]
                 y == s[k]
      <4>2. x \in Seq(S) /\ y \in Seq(S) /\ g[k] = x \o y /\ at[k - 1] = Len(x) /\ at[k] = Len(g[k])
        BY <1>0, <2>2, <2>3, <3>1, <3>3, <4>1
      <4> HIDE DEF x, y
      <4>3. /\ Len(x \o y) = Len(x) + Len(y)
            /\ \A i \in 1..(Len(x) + Len(y)) :
                  (x \o y)[i] = IF i <= Len(x) THEN x[i] ELSE y[i - Len(x)]
        BY <4>2, ConcatProperties
      <4>4. /\ at[k] = at[k - 1] + Len(y)
            /\ \A i \in 1..at[k] :
                  g[k][i] = IF i <= at[k - 1] THEN x[i] ELSE y[i - at[k - 1]]
        BY <4>2, <4>3
      <4> QED
        BY <4>4 DEF x, y
    <3> QED
      BY <3>2, <3>3
  <2>5. Sums(at, s)
    BY <2>3, <2>4 DEF Sums, n
  <2> DEFINE G == {m \in Nat : m \in 1..n => \A k \in 1..m : Lies(g[m], at[k - 1], s[k])}
  <2>6. 0 \in G
    OBVIOUS
  <2>7. ASSUME NEW m \in Nat, m \in G
        PROVE  m + 1 \in G
    <3> SUFFICES ASSUME m + 1 \in 1..n, NEW k \in 1..(m + 1), NEW i \in 1..Len(s[k])
                 PROVE  g[m + 1][at[k - 1] + i] = s[k][i]
      BY DEF Lies
    <3>1. /\ k \in 1..n /\ k - 1 \in 0..n /\ m \in 0..n /\ Len(s[k]) \in Nat
          /\ at[k - 1] \in Nat /\ at[m] \in Nat /\ (m + 1) - 1 = m
      BY <1>0, <2>3
    <3>2. at[m + 1] = at[m] + Len(s[m + 1])
          /\ \A j \in 1..at[m + 1] :
                g[m + 1][j] = IF j <= at[m] THEN g[m][j] ELSE s[m + 1][j - at[m]]
      BY <2>4, <3>1
    <3>3. CASE k = m + 1
      <4> DEFINE j == at[m] + i
      <4>1. j \in 1..at[m + 1] /\ ~(j <= at[m]) /\ j - at[m] = i
        BY <3>1, <3>2, <3>3
      <4> HIDE DEF j
      <4>2. g[m + 1][j] = s[m + 1][i]
        BY <3>2, <4>1
      <4> QED
        BY <3>1, <3>3, <4>2 DEF j
    <3>4. CASE k # m + 1
      <4>1. k \in 1..m /\ m \in 1..n /\ k \in 0..m
        BY <3>1, <3>4
      <4>2. Lies(g[m], at[k - 1], s[k])
        BY <2>7, <4>1
      <4>3. at[k] <= at[m]
        BY <2>5, <3>1, <4>1, SumsGrow DEF n
      <4>4. at[k] = at[k - 1] + Len(s[k])
        BY <2>4, <3>1
      <4>5. Len(s[m + 1]) \in Nat
        BY <1>0
      <4> DEFINE j == at[k - 1] + i
      <4>6. j \in 1..at[m + 1] /\ j <= at[m]
        <5> DEFINE a == at[k - 1]
                   b == at[k]
                   c == at[m]
                   d == at[m + 1]
                   l == Len(s[k])
                   h == Len(s[m + 1])
        <5>1. i \in 1..l /\ d = c + h /\ a \in Nat /\ c \in Nat /\ l \in Nat /\ h \in Nat
              /\ b = a + l /\ b <= c
          BY <3>1, <3>2, <4>3, <4>4, <4>5
        <5> HIDE DEF a, b, c, d, l, h
        <5>2. a + i \in 1..d /\ a + i <= c
          BY <5>1
        <5> QED
          BY <5>2 DEF a, c, d
      <4>7. g[m][j] = s[k][i]
        BY <4>2 DEF Lies
      <4> HIDE DEF j
      <4>8. g[m + 1][j] = g[m][j]
        BY <3>2, <4>6
      <4> QED
        BY <4>7, <4>8 DEF j
    <3> QED
      BY <3>3, <3>4
  <2>8. n \in 1..n /\ n \in G
    <3>1. n \in 1..n
      BY <1>0, <1>2
    <3> HIDE DEF G
    <3> QED
      BY <1>0, <2>6, <2>7, <3>1, Induction
  <2>9. Laid(g[n], at, s)
    <3>1. \A k \in 1..n : Lies(g[n], at[k - 1], s[k])
      BY <2>8
    <3>2. at[n] = Len(g[n])
      BY <2>3, <2>8
    <3> QED
      BY <2>5, <3>1, <3>2 DEF Laid, n
  <2> QED
    BY <2>1, <2>9
<1> QED
  BY <1>1, <1>2

-----------------------------------------------------------------------------
(* Decoding undoes encoding *)

(* The characters of valid text. *)
Characters == {<<0>>, <<1>>, Replacement, Mark}

(* Two bytes of bs, if they are there. *)
PairAt(bs, i) == IF i < Len(bs) THEN <<bs[i], bs[i + 1]>> ELSE << >>

(* The characters from i on, if f gives those further on. *)
ReadFrom(bs, f, i) ==
    IF i > Len(bs) THEN << >>
    ELSE IF bs[i] < 2 THEN <<<<bs[i]>>>> \o f[i + 1]
    ELSE IF PairAt(bs, i) \in {Replacement, Mark} THEN <<PairAt(bs, i)>> \o f[i + 2]
    ELSE <<Replacement>> \o f[i + 1]

(* It looks at no other value of f. *)
LEMMA ReadsFurtherOn ==
    ASSUME NEW bs \in Seq(Byte), NEW f, NEW g, NEW i \in 1..(Len(bs) + 1),
           \A j \in (i + 1)..(Len(bs) + 1) : f[j] = g[j]
    PROVE  ReadFrom(bs, f, i) = ReadFrom(bs, g, i)
<1>1. CASE i > Len(bs)
  BY <1>1 DEF ReadFrom
<1>2. CASE ~(i > Len(bs))
  <2>1. f[i + 1] = g[i + 1]
    BY <1>2
  <2>2. PairAt(bs, i) \in {Replacement, Mark} => f[i + 2] = g[i + 2]
    <3>1. << >> \notin {Replacement, Mark}
      BY DEF Replacement, Mark
    <3>2. CASE i < Len(bs)
      <4>1. i + 2 \in (i + 1)..(Len(bs) + 1)
        BY <3>2
      <4> QED
        BY <4>1
    <3>3. CASE ~(i < Len(bs))
      BY <3>1, <3>3 DEF PairAt
    <3> QED
      BY <3>2, <3>3
  <2> QED
    BY <2>1, <2>2, Zenon DEF ReadFrom
<1> QED
  BY <1>1, <1>2

(* Buffer.toString, from every position on. *)
Decoding(bs, f) == f = [i \in 1..(Len(bs) + 1) |-> ReadFrom(bs, f, i)]

(* Decoded is the first value of such a function. *)
LEMMA DecodedSteps ==
    ASSUME NEW bs \in Seq(Byte)
    PROVE  \E f : Decoding(bs, f) /\ Decoded(bs) = f[1]
<1> DEFINE n == Len(bs) + 1
           Has(m) == \E f : f = [i \in 1..n |-> f[i]]
                            /\ \A i \in 1..n : i > n - m => f[i] = ReadFrom(bs, f, i)
           G == {m \in Nat : m <= n => Has(m)}
<1>0. n \in Nat
  OBVIOUS
<1>1. 0 \in G
  <2> DEFINE f == [i \in 1..n |-> 0]
  <2>1. f = [i \in 1..n |-> f[i]]
    OBVIOUS
  <2>2. \A i \in 1..n : ~(i > n - 0)
    BY <1>0
  <2> HIDE DEF f, n
  <2>3. Has(0)
    BY <2>1, <2>2
  <2> QED
    BY <2>3
<1>2. ASSUME NEW m \in Nat, m \in G
      PROVE  m + 1 \in G
  <2> SUFFICES ASSUME m + 1 <= n
               PROVE  Has(m + 1)
    OBVIOUS
  <2>1. PICK f : f = [i \in 1..n |-> f[i]]
                 /\ \A i \in 1..n : i > n - m => f[i] = ReadFrom(bs, f, i)
    <3>1. Has(m)
      BY <1>0, <1>2
    <3> QED
      BY <3>1
  <2> DEFINE k == n - m
             g == [i \in 1..n |-> IF i = k THEN ReadFrom(bs, f, k) ELSE f[i]]
  <2>2. k \in 1..n
    BY <1>0
  <2>3. \A i \in 1..n : i # k => g[i] = f[i]
    OBVIOUS
  <2>4. g[k] = ReadFrom(bs, f, k)
    BY <2>2
  <2>5. g = [i \in 1..n |-> g[i]]
    OBVIOUS
  <2> HIDE DEF g
  <2>6. ASSUME NEW i \in 1..n, i >= k
        PROVE  ReadFrom(bs, f, i) = ReadFrom(bs, g, i)
    <3>1. i \in 1..(Len(bs) + 1)
      OBVIOUS
    <3>2. \A j \in (i + 1)..(Len(bs) + 1) : f[j] = g[j]
      BY <2>2, <2>3, <2>6
    <3> HIDE DEF n, k
    <3> QED
      BY <3>1, <3>2, ReadsFurtherOn
  <2>7. ASSUME NEW i \in 1..n, i > n - (m + 1)
        PROVE  g[i] = ReadFrom(bs, g, i)
    <3>1. i >= k
      BY <1>0, <2>7
    <3>2. CASE i = k
      BY <2>4, <2>6, <3>1, <3>2
    <3>3. CASE i # k
      <4>1. i > n - m
        BY <1>0, <3>1, <3>3
      <4> HIDE DEF k
      <4> QED
        BY <2>1, <2>3, <2>6, <3>1, <3>3, <4>1
    <3> QED
      BY <3>2, <3>3
  <2> HIDE DEF n, k
  <2> QED
    BY <2>5, <2>7
<1>3. \E f : Decoding(bs, f)
  <2>1. n \in G
    <3> HIDE DEF G, n
    <3> QED
      BY <1>0, <1>1, <1>2, Induction
  <2>2. Has(n)
    BY <1>0, <2>1
  <2>3. PICK f : f = [i \in 1..n |-> f[i]]
                 /\ \A i \in 1..n : i > n - n => f[i] = ReadFrom(bs, f, i)
    BY <2>2
  <2>4. \A i \in 1..n : f[i] = ReadFrom(bs, f, i)
    BY <1>0, <2>3
  <2> HIDE DEF n
  <2>5. f = [i \in 1..n |-> ReadFrom(bs, f, i)]
    BY <2>3, <2>4
  <2>6. Decoding(bs, f)
    BY <2>5 DEF Decoding, n
  <2> QED
    BY <2>6
<1> DEFINE E(f) == [i \in 1..(Len(bs) + 1) |->
                      IF i > Len(bs) THEN << >>
                      ELSE IF bs[i] < 2 THEN <<<<bs[i]>>>> \o f[i + 1]
                      ELSE IF (IF i < Len(bs) THEN <<bs[i], bs[i + 1]>> ELSE << >>)
                                  \in {Replacement, Mark}
                      THEN <<IF i < Len(bs) THEN <<bs[i], bs[i + 1]>> ELSE << >>>> \o f[i + 2]
                      ELSE <<Replacement>> \o f[i + 1]]
           h == CHOOSE f : f = E(f)
<1>4. Decoded(bs) = h[1]
  BY DEF Decoded
<1>5. \A f : Decoding(bs, f) <=> f = E(f)
  BY Zenon DEF Decoding, ReadFrom, PairAt
<1>6. h = E(h)
  <2>1. \E f : f = E(f)
    <3> HIDE DEF E
    <3> QED
      BY <1>3, <1>5
  <2> HIDE DEF E
  <2> QED
    BY <2>1
<1> HIDE DEF h, E
<1> QED
  BY <1>4, <1>5, <1>6

(* What is left of a text behind its k-th character. *)
Rest(text, k) == [j \in 1..(Len(text) - k) |-> text[k + j]]

(* It begins with the next. *)
LEMMA RestBegins ==
    ASSUME NEW S, NEW text \in Seq(S), NEW k \in Nat, k < Len(text)
    PROVE  <<text[k + 1]>> \o Rest(text, k + 1) = Rest(text, k)
<1> DEFINE c == text[k + 1]
           l == Len(text)
           p == <<c>>
           q == Rest(text, k + 1)
           r == Rest(text, k)
<1>1. l \in Nat /\ k < l /\ \A j \in 1..l : text[j] \in S
  OBVIOUS
<1>2. q \in Seq(S) /\ Len(q) = l - k - 1 /\ \A j \in 1..(l - k - 1) : q[j] = text[k + 1 + j]
  <2>1. l - (k + 1) = l - k - 1 /\ l - k - 1 \in Nat
    BY <1>1
  <2>2. \A j \in 1..(l - k - 1) : text[(k + 1) + j] \in S
    BY <1>1
  <2>3. q = [j \in 1..(l - k - 1) |-> text[(k + 1) + j]]
    BY <2>1 DEF Rest
  <2> HIDE DEF q, l
  <2> QED
    BY <2>1, <2>2, <2>3
<1>3. r \in Seq(S) /\ Len(r) = l - k /\ \A j \in 1..(l - k) : r[j] = text[k + j]
  <2>1. l - k \in Nat
    BY <1>1
  <2>2. \A j \in 1..(l - k) : text[k + j] \in S
    BY <1>1
  <2>3. r = [j \in 1..(l - k) |-> text[k + j]]
    BY DEF Rest
  <2> HIDE DEF r, l
  <2> QED
    BY <2>1, <2>2, <2>3
<1>4. p \in Seq(S) /\ Len(p) = 1 /\ p[1] = c /\ c = text[k + 1]
  BY <1>1
<1> HIDE DEF p, q, r, l, c
<1>5. /\ p \o q \in Seq(S) /\ Len(p \o q) = Len(p) + Len(q)
      /\ \A i \in 1..(Len(p) + Len(q)) :
            (p \o q)[i] = IF i <= Len(p) THEN p[i] ELSE q[i - Len(p)]
  BY <1>2, <1>4, ConcatProperties
<1> DEFINE x == p \o q
<1>6. x \in Seq(S) /\ Len(x) = l - k
      /\ \A i \in 1..(l - k) : x[i] = IF i <= 1 THEN p[i] ELSE q[i - 1]
  BY <1>1, <1>2, <1>4, <1>5
<1> HIDE DEF x
<1>7. ASSUME NEW i \in 1..Len(x)
      PROVE  x[i] = r[i]
  <2>0. i \in 1..(l - k)
    BY <1>6
  <2>1. CASE i = 1
    BY <1>1, <1>3, <1>4, <1>6, <2>0, <2>1
  <2>2. CASE i # 1
    <3>1. ~(i <= 1) /\ i - 1 \in 1..(l - k - 1) /\ k + 1 + (i - 1) = k + i
      BY <1>1, <2>0, <2>2
    <3>2. x[i] = q[i - 1] /\ q[i - 1] = text[k + i] /\ r[i] = text[k + i]
      BY <1>2, <1>3, <1>6, <2>0, <3>1
    <3> QED
      BY <3>2
  <2> QED
    BY <2>1, <2>2
<1>8. x = r
  BY <1>3, <1>6, <1>7, SeqEqual
<1> QED
  BY <1>8 DEF x, p, q, r, c

(* Characters are bytes. *)
LEMMA CharactersType == Characters \subseteq Seq(Byte)
<1>1. 0 \in Byte /\ 1 \in Byte /\ 2 \in Byte /\ 3 \in Byte
  BY BaseAssumption, WireAssumption DEF Byte
<1>2. <<0>> \in Seq(Byte) /\ <<1>> \in Seq(Byte) /\ <<2, 2>> \in Seq(Byte) /\ <<2, 3>> \in Seq(Byte)
  BY <1>1
<1> QED
  BY <1>2 DEF Characters, Replacement, Mark

(* The bytes of a character are read as the character. *)
LEMMA CharacterBack ==
    ASSUME NEW bs \in Seq(Byte), NEW f, NEW c \in Characters, NEW a \in Nat,
           a + Len(c) <= Len(bs), Lies(bs, a, c)
    PROVE  ReadFrom(bs, f, a + 1) = <<c>> \o f[a + Len(c) + 1]
<1> DEFINE i == a + 1
<1>1. CASE c \in {<<0>>, <<1>>}
  <2>1. Len(c) = 1 /\ c = <<c[1]>> /\ c[1] < 2
    BY <1>1
  <2>2. bs[i] = c[1]
    BY <2>1 DEF Lies
  <2>3. ~(i > Len(bs)) /\ i + 1 = a + Len(c) + 1
    BY <2>1
  <2>4. ReadFrom(bs, f, i) = <<<<bs[i]>>>> \o f[i + 1]
    BY <2>1, <2>2, <2>3 DEF ReadFrom
  <2> QED
    BY <2>1, <2>2, <2>3, <2>4
<1>2. CASE c \in {Replacement, Mark}
  <2>1. Len(c) = 2 /\ c = <<c[1], c[2]>> /\ c[1] = 2
    BY <1>2 DEF Replacement, Mark
  <2>2. bs[i] = c[1] /\ bs[i + 1] = c[2]
    <3>1. 1 \in 1..Len(c) /\ 2 \in 1..Len(c) /\ a + 2 = i + 1
      BY <2>1
    <3>2. bs[a + 1] = c[1] /\ bs[a + 2] = c[2]
      BY <3>1 DEF Lies
    <3> QED
      BY <3>1, <3>2
  <2>3. ~(i > Len(bs)) /\ i < Len(bs) /\ i + 2 = a + Len(c) + 1
    BY <2>1
  <2>4. PairAt(bs, i) = c
    BY <2>1, <2>2, <2>3 DEF PairAt
  <2>5. ~(bs[i] < 2)
    BY <2>1, <2>2
  <2> HIDE DEF i
  <2>6. ReadFrom(bs, f, i) = <<c>> \o f[i + 2]
    BY <1>2, <2>3, <2>4, <2>5 DEF ReadFrom
  <2> QED
    BY <2>3, <2>6 DEF i
<1> QED
  BY <1>1, <1>2 DEF Characters

(* A valid text that was encoded is decoded to what it was. *)
LEMMA DecodedBack ==
    ASSUME NEW text \in Seq(Characters)
    PROVE  Encoded(text) \in Seq(Byte) /\ Decoded(Encoded(text)) = text
<1> DEFINE bs == Encoded(text)
           l == Len(text)
           n == Len(bs)
<1>1. text \in Seq(Seq(Byte)) /\ l \in Nat /\ \A k \in 1..l : text[k] \in Characters
  BY CharactersType
<1>2. bs \in Seq(Byte)
  BY <1>1, FlattenType DEF Encoded
<1>3. PICK at : Laid(bs, at, text)
  BY <1>1, FlattenLaid DEF Encoded
<1>4. PICK f : Decoding(bs, f) /\ Decoded(bs) = f[1]
  BY <1>2, DecodedSteps
<1> HIDE DEF bs, n
<1>5. n \in Nat /\ at \in [0..l -> Nat] /\ at[0] = 0 /\ at[l] = n
      /\ (\A k \in 1..l : at[k] = at[k - 1] + Len(text[k]) /\ Lies(bs, at[k - 1], text[k]))
      /\ Sums(at, text)
  BY <1>2, <1>3 DEF Laid, Sums, n
<1>6. \A i \in 1..(n + 1) : f[i] = ReadFrom(bs, f, i)
  BY <1>4 DEF Decoding, n
<1> DEFINE G == {m \in Nat : m <= l => f[at[l - m] + 1] = Rest(text, l - m)}
<1>7. 0 \in G
  <2>1. f[n + 1] = << >>
    <3>1. n + 1 \in 1..(n + 1) /\ n + 1 > Len(bs)
      BY <1>5 DEF n
    <3> QED
      BY <1>6, <3>1 DEF ReadFrom
  <2>2. Rest(text, l) = << >>
    BY <1>1 DEF Rest
  <2>3. l - 0 = l
    BY <1>1
  <2> HIDE DEF l
  <2> QED
    BY <1>5, <2>1, <2>2, <2>3
<1>8. ASSUME NEW m \in Nat, m \in G
      PROVE  m + 1 \in G
  <2> DEFINE k == l - (m + 1)
             c == text[k + 1]
             a == at[k]
  <2> SUFFICES ASSUME m + 1 <= l
               PROVE  f[a + 1] = Rest(text, k)
    OBVIOUS
  <2>1. k \in Nat /\ k < l /\ k + 1 \in 1..l /\ (k + 1) - 1 = k /\ l - m = k + 1 /\ k \in 0..l
    BY <1>1
  <2>2. f[at[k + 1] + 1] = Rest(text, k + 1)
    <3>1. m <= l
      BY <1>1
    <3> HIDE DEF k, l
    <3>2. f[at[l - m] + 1] = Rest(text, l - m)
      BY <1>8, <3>1
    <3> QED
      BY <2>1, <3>2
  <2>3. c \in Characters /\ at[k + 1] = a + Len(c) /\ Lies(bs, a, c) /\ a \in Nat
        /\ at[k + 1] \in Nat
    <3> HIDE DEF k
    <3>1. k + 1 \in 0..l
      BY <2>1
    <3> HIDE DEF l
    <3> QED
      BY <1>1, <1>5, <2>1, <3>1
  <2>4. at[k + 1] <= n
    <3>1. l \in 0..l /\ k + 1 \in 0..l
      BY <1>1, <2>1
    <3> HIDE DEF k
    <3>2. \A j \in 0..l : at[j] <= at[l]
      BY <1>1, <1>5, <3>1, SumsGrow
    <3> QED
      BY <1>5, <3>1, <3>2
  <2>5. Len(c) \in Nat
    BY <2>3, CharactersType
  <2> HIDE DEF k, c, a
  <2>6. a + 1 \in 1..(n + 1) /\ a + Len(c) <= Len(bs)
    BY <1>5, <2>3, <2>4, <2>5 DEF n
  <2>7. ReadFrom(bs, f, a + 1) = <<c>> \o f[a + Len(c) + 1]
    BY <1>2, <2>3, <2>6, CharacterBack
  <2>8. f[a + 1] = <<c>> \o Rest(text, k + 1)
    <3>1. f[a + 1] = ReadFrom(bs, f, a + 1)
      BY <1>6, <2>6
    <3>2. f[a + Len(c) + 1] = Rest(text, k + 1)
      BY <2>2, <2>3
    <3> QED
      BY <2>7, <3>1, <3>2
  <2>9. <<text[k + 1]>> \o Rest(text, k + 1) = Rest(text, k)
    BY <2>1, RestBegins
  <2> QED
    BY <2>8, <2>9 DEF c
<1>9. l \in G
  <2> HIDE DEF G, l
  <2> QED
    BY <1>1, <1>7, <1>8, Induction
<1>10. f[1] = Rest(text, 0)
  <2>1. l <= l /\ l - l = 0
    BY <1>1
  <2> HIDE DEF l
  <2>2. f[at[l - l] + 1] = Rest(text, l - l)
    BY <1>9, <2>1
  <2> QED
    BY <1>5, <2>1, <2>2
<1>11. Rest(text, 0) = text
  <2>1. text = [j \in 1..l |-> text[j]]
    BY <1>1
  <2>2. \A j \in 1..l : 0 + j = j
    BY <1>1
  <2>3. l - 0 = l
    BY <1>1
  <2> HIDE DEF l
  <2>4. Rest(text, 0) = [j \in 1..l |-> text[0 + j]]
    BY <2>3 DEF Rest, l
  <2> QED
    BY <2>1, <2>2, <2>4
<1> QED
  BY <1>2, <1>4, <1>10, <1>11 DEF bs

-----------------------------------------------------------------------------
(* A frame that carries a message *)

(* A sequence and two elements behind it. *)
LEMMA PairBehind ==
    ASSUME NEW S, NEW s \in Seq(S), NEW x \in S, NEW y \in S, NEW c, c = s \o <<x, y>>
    PROVE  /\ c \in Seq(S) /\ Len(c) = Len(s) + 2 /\ \A i \in 1..Len(s) : c[i] = s[i]
           /\ c[Len(s) + 1] = x /\ c[Len(s) + 2] = y
<1> DEFINE d == <<x, y>>
           n == Len(s)
<1>0. c = s \o d
  OBVIOUS
<1>1. d \in Seq(S) /\ Len(d) = 2 /\ d[1] = x /\ d[2] = y /\ n \in Nat
  OBVIOUS
<1> HIDE DEF d
<1>2. /\ c \in Seq(S) /\ Len(c) = n + Len(d)
      /\ \A i \in 1..(n + Len(d)) : c[i] = IF i <= n THEN s[i] ELSE d[i - n]
  BY <1>0, <1>1, ConcatProperties
<1> HIDE DEF n
<1>3. Len(c) = n + 2 /\ \A i \in 1..(n + 2) : c[i] = IF i <= n THEN s[i] ELSE d[i - n]
  BY <1>1, <1>2
<1>4. \A i \in 1..n : c[i] = s[i]
  BY <1>1, <1>3
<1>5. c[n + 1] = x /\ c[n + 2] = y
  <2>1. n + 1 \in 1..(n + 2) /\ ~(n + 1 <= n) /\ (n + 1) - n = 1
    BY <1>1
  <2>2. n + 2 \in 1..(n + 2) /\ ~(n + 2 <= n) /\ (n + 2) - n = 2
    BY <1>1
  <2> QED
    BY <1>1, <1>3, <2>1, <2>2
<1> QED
  BY <1>2, <1>3, <1>4, <1>5 DEF d, n

(* The five parts of a message that have a length. *)
PartsOf(m) ==
    <<Encoded(m.room), Encoded(m.event), Encoded(m.dst), Encoded(m.src), m.payload>>

(* A message of bytes. *)
OfBytes(m) ==
    /\ m.version \in Byte /\ m.flags \in Byte /\ m.payload \in Seq(Byte)
    /\ \A t \in TextsOf(m) : t \in Seq(Seq(Byte))

(* Its parts are bytes. *)
LEMMA PartsType ==
    ASSUME NEW m, OfBytes(m)
    PROVE  PartsOf(m) \in [1..5 -> Seq(Byte)] /\ PartsOf(m) \in Seq(Seq(Byte))
           /\ Len(PartsOf(m)) = 5
<1> DEFINE B == Seq(Byte)
<1>1. /\ Encoded(m.room) \in B /\ Encoded(m.event) \in B
      /\ Encoded(m.dst) \in B /\ Encoded(m.src) \in B /\ m.payload \in B
  BY FlattenType DEF Encoded, TextsOf, OfBytes
<1> HIDE DEF B
<1>2. PartsOf(m) \in [1..5 -> B] /\ PartsOf(m) \in Seq(B) /\ Len(PartsOf(m)) = 5
  BY <1>1 DEF PartsOf
<1> QED
  BY <1>2 DEF B

(* The widths of their lengths. *)
LEMMA Widths5 ==
    LengthFields[1] = 2 /\ LengthFields[2] = 2 /\ LengthFields[3] = 1
    /\ LengthFields[4] = 1 /\ LengthFields[5] = 4
  BY DEF LengthFields

(* A length, written. *)
LEMMA LengthWritten ==
    ASSUME NEW bs \in Seq(Byte), NEW w \in Nat
    PROVE  /\ Digits(Len(bs), w, FALSE) \in Seq(Byte) /\ Len(Digits(Len(bs), w, FALSE)) = w
           /\ Len(bs) < Power[w] => Unsigned(Digits(Len(bs), w, FALSE)) = Len(bs)
<1> DEFINE n == Len(bs)
           d == Digits(n, w, FALSE)
           p == Power[w]
<1>1. n \in Nat /\ n \in Int /\ FALSE \in BOOLEAN
  OBVIOUS
<1> HIDE DEF n
<1>2. d \in [1..w -> Byte] /\ Len(d) = w /\ Unsigned(Ordered(d, FALSE)) = n % p
  BY <1>1, DigitsReadBack
<1>3. Ordered(d, FALSE) = d
  BY DEF Ordered
<1>4. p \in Nat \ {0}
  BY PowerSteps
<1> HIDE DEF d, p
<1>5. d \in Seq(Byte)
  BY <1>2
<1>6. n < p => n % p = n
  BY <1>1, <1>4
<1> QED
  BY <1>2, <1>3, <1>5, <1>6 DEF n, d, p

(* What is written for a message, field by field. *)
LEMMA FieldsAt ==
    ASSUME NEW m, OfBytes(m)
    PROVE  /\ Fields(m) \in Seq(Seq(Byte)) /\ Len(Fields(m)) = 12
           /\ Fields(m)[1] = <<m.version>> /\ Fields(m)[2] = <<m.flags>>
           /\ \A k \in 1..5 :
                 /\ Fields(m)[2 * k + 1] = Digits(Len(PartsOf(m)[k]), LengthFields[k], FALSE)
                 /\ Fields(m)[2 * k + 2] = PartsOf(m)[k]
<1> DEFINE B == Seq(Byte)
           p == PartsOf(m)
           d(k) == Digits(Len(p[k]), LengthFields[k], FALSE)
           s0 == <<<<m.version>>, <<m.flags>>>>
           s1 == s0 \o <<d(1), p[1]>>
           s2 == s1 \o <<d(2), p[2]>>
           s3 == s2 \o <<d(3), p[3]>>
           s4 == s3 \o <<d(4), p[4]>>
           s5 == s4 \o <<d(5), p[5]>>
<1>1. \A k \in 1..5 : p[k] \in B
  BY PartsType
<1>2. \A k \in 1..5 : d(k) \in B
  <2> TAKE k \in 1..5
  <2>1. LengthFields[k] \in Nat
    BY LengthFieldsType
  <2> HIDE DEF p
  <2> QED
    BY <1>1, <2>1, LengthWritten
<1>3. Fields(m) = s5
  <2>1. /\ p[1] = Encoded(m.room) /\ p[2] = Encoded(m.event) /\ p[3] = Encoded(m.dst)
        /\ p[4] = Encoded(m.src) /\ p[5] = m.payload
    BY DEF PartsOf
  <2> HIDE DEF p
  <2>2. /\ Prefixed(p[1], 2) = <<d(1), p[1]>> /\ Prefixed(p[2], 2) = <<d(2), p[2]>>
        /\ Prefixed(p[3], 1) = <<d(3), p[3]>> /\ Prefixed(p[4], 1) = <<d(4), p[4]>>
        /\ Prefixed(p[5], 4) = <<d(5), p[5]>>
    BY Widths5, Zenon DEF Prefixed
  <2> HIDE DEF d
  <2> QED
    BY <2>1, <2>2, Zenon DEF Fields
<1>4. s0 \in Seq(B) /\ Len(s0) = 2 /\ s0[1] = <<m.version>> /\ s0[2] = <<m.flags>>
  <2>1. <<m.version>> \in B /\ <<m.flags>> \in B
    BY DEF OfBytes
  <2> HIDE DEF B
  <2> QED
    BY <2>1
<1>5. /\ p[1] \in B /\ p[2] \in B /\ p[3] \in B /\ p[4] \in B /\ p[5] \in B
      /\ d(1) \in B /\ d(2) \in B /\ d(3) \in B /\ d(4) \in B /\ d(5) \in B
  <2> HIDE DEF p, d, B
  <2> QED
    BY <1>1, <1>2
<1> HIDE DEF B, p, d, s0
<1>6. /\ s1 \in Seq(B) /\ Len(s1) = 4 /\ (\A i \in 1..2 : s1[i] = s0[i])
      /\ s1[3] = d(1) /\ s1[4] = p[1]
  <2>1. /\ s1 \in Seq(B) /\ Len(s1) = Len(s0) + 2 /\ (\A i \in 1..Len(s0) : s1[i] = s0[i])
        /\ s1[Len(s0) + 1] = d(1) /\ s1[Len(s0) + 2] = p[1]
    <3> DEFINE x == d(1)
               y == p[1]
    <3>1. s1 = s0 \o <<x, y>> /\ x \in B /\ y \in B /\ s0 \in Seq(B)
      BY <1>4, <1>5
    <3> HIDE DEF x, y, s1
    <3>2. /\ s1 \in Seq(B) /\ Len(s1) = Len(s0) + 2 /\ (\A i \in 1..Len(s0) : s1[i] = s0[i])
          /\ s1[Len(s0) + 1] = x /\ s1[Len(s0) + 2] = y
      BY <3>1, PairBehind
    <3> QED
      BY <3>2 DEF x, y
  <2> HIDE DEF s1
  <2> QED
    BY <1>4, <2>1
<1> HIDE DEF s1
<1>7. /\ s2 \in Seq(B) /\ Len(s2) = 6 /\ (\A i \in 1..4 : s2[i] = s1[i])
      /\ s2[5] = d(2) /\ s2[6] = p[2]
  <2>1. /\ s2 \in Seq(B) /\ Len(s2) = Len(s1) + 2 /\ (\A i \in 1..Len(s1) : s2[i] = s1[i])
        /\ s2[Len(s1) + 1] = d(2) /\ s2[Len(s1) + 2] = p[2]
    <3> DEFINE x == d(2)
               y == p[2]
    <3>1. s2 = s1 \o <<x, y>> /\ x \in B /\ y \in B /\ s1 \in Seq(B)
      BY <1>6, <1>5
    <3> HIDE DEF x, y, s2
    <3>2. /\ s2 \in Seq(B) /\ Len(s2) = Len(s1) + 2 /\ (\A i \in 1..Len(s1) : s2[i] = s1[i])
          /\ s2[Len(s1) + 1] = x /\ s2[Len(s1) + 2] = y
      BY <3>1, PairBehind
    <3> QED
      BY <3>2 DEF x, y
  <2> HIDE DEF s2
  <2> QED
    BY <1>6, <2>1
<1> HIDE DEF s2
<1>8. /\ s3 \in Seq(B) /\ Len(s3) = 8 /\ (\A i \in 1..6 : s3[i] = s2[i])
      /\ s3[7] = d(3) /\ s3[8] = p[3]
  <2>1. /\ s3 \in Seq(B) /\ Len(s3) = Len(s2) + 2 /\ (\A i \in 1..Len(s2) : s3[i] = s2[i])
        /\ s3[Len(s2) + 1] = d(3) /\ s3[Len(s2) + 2] = p[3]
    <3> DEFINE x == d(3)
               y == p[3]
    <3>1. s3 = s2 \o <<x, y>> /\ x \in B /\ y \in B /\ s2 \in Seq(B)
      BY <1>7, <1>5
    <3> HIDE DEF x, y, s3
    <3>2. /\ s3 \in Seq(B) /\ Len(s3) = Len(s2) + 2 /\ (\A i \in 1..Len(s2) : s3[i] = s2[i])
          /\ s3[Len(s2) + 1] = x /\ s3[Len(s2) + 2] = y
      BY <3>1, PairBehind
    <3> QED
      BY <3>2 DEF x, y
  <2> HIDE DEF s3
  <2> QED
    BY <1>7, <2>1
<1> HIDE DEF s3
<1>9. /\ s4 \in Seq(B) /\ Len(s4) = 10 /\ (\A i \in 1..8 : s4[i] = s3[i])
      /\ s4[9] = d(4) /\ s4[10] = p[4]
  <2>1. /\ s4 \in Seq(B) /\ Len(s4) = Len(s3) + 2 /\ (\A i \in 1..Len(s3) : s4[i] = s3[i])
        /\ s4[Len(s3) + 1] = d(4) /\ s4[Len(s3) + 2] = p[4]
    <3> DEFINE x == d(4)
               y == p[4]
    <3>1. s4 = s3 \o <<x, y>> /\ x \in B /\ y \in B /\ s3 \in Seq(B)
      BY <1>8, <1>5
    <3> HIDE DEF x, y, s4
    <3>2. /\ s4 \in Seq(B) /\ Len(s4) = Len(s3) + 2 /\ (\A i \in 1..Len(s3) : s4[i] = s3[i])
          /\ s4[Len(s3) + 1] = x /\ s4[Len(s3) + 2] = y
      BY <3>1, PairBehind
    <3> QED
      BY <3>2 DEF x, y
  <2> HIDE DEF s4
  <2> QED
    BY <1>8, <2>1
<1> HIDE DEF s4
<1>10. /\ s5 \in Seq(B) /\ Len(s5) = 12 /\ (\A i \in 1..10 : s5[i] = s4[i])
       /\ s5[11] = d(5) /\ s5[12] = p[5]
  <2>1. /\ s5 \in Seq(B) /\ Len(s5) = Len(s4) + 2 /\ (\A i \in 1..Len(s4) : s5[i] = s4[i])
        /\ s5[Len(s4) + 1] = d(5) /\ s5[Len(s4) + 2] = p[5]
    <3> DEFINE x == d(5)
               y == p[5]
    <3>1. s5 = s4 \o <<x, y>> /\ x \in B /\ y \in B /\ s4 \in Seq(B)
      BY <1>9, <1>5
    <3> HIDE DEF x, y, s5
    <3>2. /\ s5 \in Seq(B) /\ Len(s5) = Len(s4) + 2 /\ (\A i \in 1..Len(s4) : s5[i] = s4[i])
          /\ s5[Len(s4) + 1] = x /\ s5[Len(s4) + 2] = y
      BY <3>1, PairBehind
    <3> QED
      BY <3>2 DEF x, y
  <2> HIDE DEF s5
  <2> QED
    BY <1>9, <2>1
<1> HIDE DEF s5
<1>11. s5[1] = <<m.version>> /\ s5[2] = <<m.flags>>
  <2>1. s5[1] = s0[1] /\ s5[2] = s0[2]
    BY <1>6, <1>7, <1>8, <1>9, <1>10
  <2> QED
    BY <1>4, <2>1
<1>12. /\ s5[3] = d(1) /\ s5[4] = p[1] /\ s5[5] = d(2) /\ s5[6] = p[2] /\ s5[7] = d(3)
       /\ s5[8] = p[3] /\ s5[9] = d(4) /\ s5[10] = p[4]
  <2>1. s5[3] = s1[3] /\ s5[4] = s1[4] /\ s5[5] = s2[5] /\ s5[6] = s2[6]
    BY <1>7, <1>8, <1>9, <1>10
  <2>2. s5[7] = s3[7] /\ s5[8] = s3[8] /\ s5[9] = s4[9] /\ s5[10] = s4[10]
    BY <1>9, <1>10
  <2> QED
    BY <1>6, <1>7, <1>8, <1>9, <2>1, <2>2
<1>13. \A k \in 1..5 : s5[2 * k + 1] = d(k) /\ s5[2 * k + 2] = p[k]
  <2> TAKE k \in 1..5
  <2>1. CASE k = 1
    BY <1>12, <2>1
  <2>2. CASE k = 2
    BY <1>12, <2>2
  <2>3. CASE k = 3
    BY <1>12, <2>3
  <2>4. CASE k = 4
    BY <1>12, <2>4
  <2>5. CASE k = 5
    BY <1>10, <2>5
  <2> QED
    BY <2>1, <2>2, <2>3, <2>4, <2>5
<1> QED
  BY <1>3, <1>10, <1>11, <1>13 DEF B, d, p

(* A part and its length lie in buf behind position a. *)
Holds(buf, a, w, p) ==
    /\ a + w + Len(p) <= Len(buf)
    /\ Lies(buf, a, Digits(Len(p), w, FALSE)) /\ Lies(buf, a + w, p)

(* The parts of m lie in buf one behind the other, and end at at. *)
InParts(buf, m, at) ==
    /\ at \in [0..5 -> Nat] /\ at[0] = 2 /\ at[5] = Len(buf)
    /\ \A k \in 1..5 : /\ at[k] = at[k - 1] + LengthFields[k] + Len(PartsOf(m)[k])
                       /\ Holds(buf, at[k - 1], LengthFields[k], PartsOf(m)[k])

(* The frame buf is of the message m. *)
Carries(buf, m) ==
    /\ buf \in Seq(Byte) /\ Len(buf) >= HeaderOverhead + Len(m.payload)
    /\ buf[1] = m.version /\ buf[2] = m.flags
    /\ \E at : InParts(buf, m, at)

(* Where the fields of a message end. *)
LEMMA SumsOfFields ==
    ASSUME NEW m, OfBytes(m), NEW at, Sums(at, Fields(m))
    PROVE  /\ at \in [0..12 -> Nat] /\ at[0] = 0 /\ at[1] = 1 /\ at[2] = 2
           /\ \A k \in 1..5 : /\ at[2 * k + 1] = at[2 * k] + LengthFields[k]
                              /\ at[2 * k + 2] = at[2 * k + 1] + Len(PartsOf(m)[k])
           /\ at[12] = HeaderOverhead + Len(Encoded(m.room)) + Len(Encoded(m.event))
                          + Len(Encoded(m.dst)) + Len(Encoded(m.src)) + Len(m.payload)
<1> DEFINE fs == Fields(m)
           p == PartsOf(m)
<1>1. /\ fs \in Seq(Seq(Byte)) /\ Len(fs) = 12
      /\ fs[1] = <<m.version>> /\ fs[2] = <<m.flags>>
      /\ \A k \in 1..5 : fs[2 * k + 1] = Digits(Len(p[k]), LengthFields[k], FALSE)
                         /\ fs[2 * k + 2] = p[k]
  BY FieldsAt
<1>2. p \in [1..5 -> Seq(Byte)]
  BY PartsType
<1>3. /\ p[1] = Encoded(m.room) /\ p[2] = Encoded(m.event) /\ p[3] = Encoded(m.dst)
      /\ p[4] = Encoded(m.src) /\ p[5] = m.payload
  BY DEF PartsOf
<1> HIDE DEF fs, p
<1>4. at \in [0..12 -> Nat] /\ at[0] = 0 /\ \A k \in 1..12 : at[k] = at[k - 1] + Len(fs[k])
  BY <1>1 DEF Sums, fs
<1>5. at[1] = 1 /\ at[2] = 2
  <2>1. Len(fs[1]) = 1 /\ Len(fs[2]) = 1
    BY <1>1
  <2>2. at[1] = at[1 - 1] + Len(fs[1]) /\ at[2] = at[2 - 1] + Len(fs[2])
    BY <1>4
  <2> QED
    BY <1>4, <2>1, <2>2
<1>6. ASSUME NEW k \in 1..5
      PROVE  /\ at[2 * k + 1] = at[2 * k] + LengthFields[k]
             /\ at[2 * k + 2] = at[2 * k + 1] + Len(p[k])
  <2>1. 2 * k + 1 \in 1..12 /\ 2 * k + 2 \in 1..12
        /\ (2 * k + 1) - 1 = 2 * k /\ (2 * k + 2) - 1 = 2 * k + 1
    OBVIOUS
  <2>2. at[2 * k + 1] = at[2 * k] + Len(fs[2 * k + 1])
    BY <1>4, <2>1
  <2>3. at[2 * k + 2] = at[2 * k + 1] + Len(fs[2 * k + 2])
    BY <1>4, <2>1
  <2>4. LengthFields[k] \in Nat /\ p[k] \in Seq(Byte)
    BY <1>2, LengthFieldsType
  <2>5. Len(Digits(Len(p[k]), LengthFields[k], FALSE)) = LengthFields[k]
    BY <2>4, LengthWritten
  <2> QED
    BY <1>1, <2>2, <2>3, <2>5
<1>7. at[12] = HeaderOverhead + Len(Encoded(m.room)) + Len(Encoded(m.event))
                   + Len(Encoded(m.dst)) + Len(Encoded(m.src)) + Len(m.payload)
  <2>1. /\ at[3] = 4 /\ at[4] = at[3] + Len(p[1]) /\ at[5] = at[4] + 2 /\ at[6] = at[5] + Len(p[2])
        /\ at[7] = at[6] + 1 /\ at[8] = at[7] + Len(p[3]) /\ at[9] = at[8] + 1
        /\ at[10] = at[9] + Len(p[4]) /\ at[11] = at[10] + 4 /\ at[12] = at[11] + Len(p[5])
    <3>1. at[3] = at[2] + 2 /\ at[4] = at[3] + Len(p[1])
      <4>1. 1 \in 1..5 /\ 2 * 1 + 1 = 3 /\ 2 * 1 + 2 = 4 /\ 2 * 1 = 2
        OBVIOUS
      <4>2. at[2 * 1 + 1] = at[2 * 1] + LengthFields[1]
            /\ at[2 * 1 + 2] = at[2 * 1 + 1] + Len(p[1])
        BY <1>6, <4>1
      <4> QED
        BY <4>1, <4>2, Widths5
    <3>2. at[5] = at[4] + 2 /\ at[6] = at[5] + Len(p[2])
      <4>1. 2 \in 1..5 /\ 2 * 2 + 1 = 5 /\ 2 * 2 + 2 = 6 /\ 2 * 2 = 4
        OBVIOUS
      <4>2. at[2 * 2 + 1] = at[2 * 2] + LengthFields[2]
            /\ at[2 * 2 + 2] = at[2 * 2 + 1] + Len(p[2])
        BY <1>6, <4>1
      <4> QED
        BY <4>1, <4>2, Widths5
    <3>3. at[7] = at[6] + 1 /\ at[8] = at[7] + Len(p[3])
      <4>1. 3 \in 1..5 /\ 2 * 3 + 1 = 7 /\ 2 * 3 + 2 = 8 /\ 2 * 3 = 6
        OBVIOUS
      <4>2. at[2 * 3 + 1] = at[2 * 3] + LengthFields[3]
            /\ at[2 * 3 + 2] = at[2 * 3 + 1] + Len(p[3])
        BY <1>6, <4>1
      <4> QED
        BY <4>1, <4>2, Widths5
    <3>4. at[9] = at[8] + 1 /\ at[10] = at[9] + Len(p[4])
      <4>1. 4 \in 1..5 /\ 2 * 4 + 1 = 9 /\ 2 * 4 + 2 = 10 /\ 2 * 4 = 8
        OBVIOUS
      <4>2. at[2 * 4 + 1] = at[2 * 4] + LengthFields[4]
            /\ at[2 * 4 + 2] = at[2 * 4 + 1] + Len(p[4])
        BY <1>6, <4>1
      <4> QED
        BY <4>1, <4>2, Widths5
    <3>5. at[11] = at[10] + 4 /\ at[12] = at[11] + Len(p[5])
      <4>1. 5 \in 1..5 /\ 2 * 5 + 1 = 11 /\ 2 * 5 + 2 = 12 /\ 2 * 5 = 10
        OBVIOUS
      <4>2. at[2 * 5 + 1] = at[2 * 5] + LengthFields[5]
            /\ at[2 * 5 + 2] = at[2 * 5 + 1] + Len(p[5])
        BY <1>6, <4>1
      <4> QED
        BY <4>1, <4>2, Widths5
    <3> QED
      BY <1>5, <3>1, <3>2, <3>3, <3>4, <3>5
  <2>2. \A k \in 1..5 : Len(p[k]) \in Nat
    BY <1>2
  <2>3. at[12] = 12 + Len(p[1]) + Len(p[2]) + Len(p[3]) + Len(p[4]) + Len(p[5])
    <3> DEFINE a == Len(p[1])
               b == Len(p[2])
               c == Len(p[3])
               d == Len(p[4])
               e == Len(p[5])
    <3>1. a \in Nat /\ b \in Nat /\ c \in Nat /\ d \in Nat /\ e \in Nat
      BY <2>2
    <3>2. /\ at[3] = 4 /\ at[4] = at[3] + a /\ at[5] = at[4] + 2 /\ at[6] = at[5] + b
          /\ at[7] = at[6] + 1 /\ at[8] = at[7] + c /\ at[9] = at[8] + 1
          /\ at[10] = at[9] + d /\ at[11] = at[10] + 4 /\ at[12] = at[11] + e
      BY <2>1
    <3> HIDE DEF a, b, c, d, e
    <3>3. at[4] = 4 + a /\ at[6] = 6 + a + b
      BY <3>1, <3>2
    <3>4. at[12] = 12 + a + b + c + d + e
      BY <3>1, <3>2, <3>3
    <3> QED
      BY <3>4 DEF a, b, c, d, e
  <2> QED
    BY <1>3, <2>3 DEF HeaderOverhead
<1> QED
  BY <1>4, <1>5, <1>6, <1>7 DEF p

(* What is made of the fields of a message carries it. *)
LEMMA LaidCarries ==
    ASSUME NEW m, OfBytes(m), NEW buf \in Seq(Byte), NEW at, Laid(buf, at, Fields(m))
    PROVE  Carries(buf, m)
<1> DEFINE fs == Fields(m)
           p == PartsOf(m)
           ends == [k \in 0..5 |-> at[2 * k + 2]]
<1>1. /\ fs \in Seq(Seq(Byte)) /\ Len(fs) = 12
      /\ fs[1] = <<m.version>> /\ fs[2] = <<m.flags>>
      /\ \A k \in 1..5 : fs[2 * k + 1] = Digits(Len(p[k]), LengthFields[k], FALSE)
                         /\ fs[2 * k + 2] = p[k]
  BY FieldsAt
<1>2. Sums(at, fs) /\ at[12] = Len(buf) /\ \A k \in 1..12 : Lies(buf, at[k - 1], fs[k])
  BY <1>1 DEF Laid
<1>3. /\ at \in [0..12 -> Nat] /\ at[0] = 0 /\ at[1] = 1 /\ at[2] = 2
      /\ \A k \in 1..5 : /\ at[2 * k + 1] = at[2 * k] + LengthFields[k]
                         /\ at[2 * k + 2] = at[2 * k + 1] + Len(p[k])
  BY <1>2, SumsOfFields
<1>4. at[12] = HeaderOverhead + Len(Encoded(m.room)) + Len(Encoded(m.event))
                  + Len(Encoded(m.dst)) + Len(Encoded(m.src)) + Len(m.payload)
  BY <1>2, SumsOfFields
<1> HIDE DEF fs
<1>5. buf[1] = m.version /\ buf[2] = m.flags
  <2>1. Lies(buf, at[1 - 1], fs[1]) /\ Lies(buf, at[2 - 1], fs[2])
    BY <1>2
  <2>2. Lies(buf, 0, <<m.version>>) /\ Lies(buf, 1, <<m.flags>>)
    BY <1>1, <1>3, <2>1
  <2>3. buf[0 + 1] = m.version /\ buf[1 + 1] = m.flags
    <3>1. 1 \in 1..Len(<<m.version>>) /\ 1 \in 1..Len(<<m.flags>>)
          /\ <<m.version>>[1] = m.version /\ <<m.flags>>[1] = m.flags
      OBVIOUS
    <3> QED
      BY <2>2, <3>1 DEF Lies
  <2> QED
    BY <2>3
<1>6. Len(buf) >= HeaderOverhead + Len(m.payload)
  <2>1. \A k \in 1..5 : p[k] \in Seq(Byte)
    BY PartsType
  <2>2. /\ p[1] = Encoded(m.room) /\ p[2] = Encoded(m.event) /\ p[3] = Encoded(m.dst)
        /\ p[4] = Encoded(m.src) /\ p[5] = m.payload
    BY DEF PartsOf
  <2> HIDE DEF p
  <2>3. /\ Len(Encoded(m.room)) \in Nat /\ Len(Encoded(m.event)) \in Nat
        /\ Len(Encoded(m.dst)) \in Nat /\ Len(Encoded(m.src)) \in Nat /\ Len(m.payload) \in Nat
    <3>1. Len(p[1]) \in Nat /\ Len(p[2]) \in Nat /\ Len(p[3]) \in Nat /\ Len(p[4]) \in Nat
          /\ Len(p[5]) \in Nat
      BY <2>1
    <3> QED
      BY <2>2, <3>1, Zenon
  <2> QED
    BY <1>2, <1>4, <2>3 DEF HeaderOverhead
<1> HIDE DEF p
<1>7. ASSUME NEW k \in 1..5
      PROVE  ends[k] = ends[k - 1] + LengthFields[k] + Len(p[k])
             /\ Holds(buf, ends[k - 1], LengthFields[k], p[k])
  <2>1. /\ ends[k] = at[2 * k + 2] /\ ends[k - 1] = at[2 * k]
        /\ 2 * k + 1 \in 1..12 /\ 2 * k + 2 \in 1..12 /\ 2 * k \in 0..12 /\ 2 * k + 2 \in 0..12
        /\ (2 * k + 1) - 1 = 2 * k /\ (2 * k + 2) - 1 = 2 * k + 1
    <3>1. k \in 0..5 /\ k - 1 \in 0..5 /\ 2 * (k - 1) + 2 = 2 * k
      OBVIOUS
    <3> QED
      BY <3>1
  <2>2. /\ at[2 * k + 1] = at[2 * k] + LengthFields[k]
        /\ at[2 * k + 2] = at[2 * k + 1] + Len(p[k])
    BY <1>3
  <2>3. Lies(buf, at[2 * k], fs[2 * k + 1]) /\ Lies(buf, at[2 * k + 1], fs[2 * k + 2])
    BY <1>2, <2>1
  <2>4. fs[2 * k + 1] = Digits(Len(p[k]), LengthFields[k], FALSE) /\ fs[2 * k + 2] = p[k]
    BY <1>1
  <2>5. at[2 * k + 2] <= Len(buf)
    <3>1. 12 \in 0..12 /\ Len(fs) = 12
      BY <1>1
    <3>2. \A j \in 0..12 : at[j] <= at[12]
      BY <1>1, <1>2, <3>1, SumsGrow
    <3> QED
      BY <1>2, <2>1, <3>2
  <2> HIDE DEF ends
  <2> QED
    BY <2>1, <2>2, <2>3, <2>4, <2>5 DEF Holds
<1>8. ends \in [0..5 -> Nat] /\ ends[0] = 2 /\ ends[5] = Len(buf)
  <2>1. \A k \in 0..5 : 2 * k + 2 \in 0..12
    OBVIOUS
  <2>2. 2 * 0 + 2 = 2 /\ 2 * 5 + 2 = 12
    OBVIOUS
  <2> QED
    BY <1>2, <1>3, <2>1, <2>2
<1> HIDE DEF ends
<1>9. InParts(buf, m, ends)
  BY <1>7, <1>8 DEF InParts, p
<1> QED
  BY <1>5, <1>6, <1>9 DEF Carries

(* encode makes such a frame. *)
LEMMA EncodeCarries ==
    ASSUME NEW m, OfBytes(m), ~Unencodable(m)
    PROVE  Carries(Encode(m), m) /\ Encode(m) # << >>
<1> DEFINE fs == Fields(m)
           buf == Encode(m)
<1>1. fs \in Seq(Seq(Byte))
  BY FieldsAt
<1>2. buf = FlattenSeq(fs)
  BY DEF Encode
<1> HIDE DEF buf
<1>3. buf \in Seq(Byte)
  BY <1>1, <1>2, FlattenType
<1>4. PICK at : Laid(buf, at, fs)
  BY <1>1, <1>2, FlattenLaid
<1>5. Carries(buf, m)
  BY <1>3, <1>4, LaidCarries
<1>6. buf # << >>
  <2>1. Len(buf) >= 12 + Len(m.payload) /\ Len(m.payload) \in Nat
    BY <1>5 DEF Carries, OfBytes, HeaderOverhead
  <2>2. Len(<< >>) = 0
    OBVIOUS
  <2> QED
    BY <2>1, <2>2
<1> QED
  BY <1>5, <1>6 DEF buf

(* What a cursor at its start writes, if it has the room for it, lies in    *)
(* its buffer one behind the other.                                         *)
LEMMA WritingLaid ==
    ASSUME NEW fs \in Seq(Seq(Byte)), NEW at, Sums(at, fs), NEW n, n = at[Len(fs)],
           NEW c \in FrameCursors(n), c.pos = 0, c.len = n
    PROVE  /\ Writing(c, fs) \in FrameCursors(n) /\ Writing(c, fs).len = n
           /\ Laid(Writing(c, fs).buffer, at, fs)
<1> DEFINE l == Len(fs)
           w == Writing(c, fs)
<1>1. l \in Nat /\ fs \in [1..l -> Seq(Byte)] /\ at \in [0..l -> Nat] /\ at[0] = 0 /\ n \in Nat
      /\ \A k \in 1..l : at[k] = at[k - 1] + Len(fs[k])
  <2>1. l \in Nat /\ l \in 0..l
    OBVIOUS
  <2>2. at \in [0..l -> Nat] /\ at[0] = 0 /\ \A k \in 1..l : at[k] = at[k - 1] + Len(fs[k])
    BY DEF Sums
  <2>3. n \in Nat
    <3> HIDE DEF l
    <3> QED
      BY <2>1, <2>2 DEF l
  <2> QED
    BY <2>1, <2>2, <2>3
<1>2. \A k \in 0..l : at[k] <= n
  <2>1. l \in 0..Len(fs)
    BY <1>1
  <2>2. \A k \in 0..l : at[k] <= at[l]
    BY <2>1, SumsGrow
  <2> QED
    BY <2>2
<1> HIDE DEF l
<1>3. PICK v : WritingChain(v, n, c, l, fs)
  <2>1. l \in Nat /\ n \in Nat /\ fs \in [1..l -> Seq(Byte)] /\ c \in FrameCursors(n)
    BY <1>1
  <2> QED
    BY ONLY <2>1, WritingSteps
<1>a. /\ v \in [0..l -> FrameCursors(n)]
      /\ v[0] = c /\ \A k \in 1..l : v[k] = Written(v[k - 1], fs[k])
      /\ Writing(c, fs) = v[l]
  BY <1>3 DEF WritingChain
<1> DEFINE Good(k) == /\ v[k].pos = at[k] /\ v[k].len = n
                      /\ \A j \in 1..k : at[j] <= at[k] /\ Lies(v[k].buffer, at[j - 1], fs[j])
           G == {k \in Nat : k <= l => Good(k)}
<1>4. 0 \in G
  BY <1>1, <1>a
<1>5. ASSUME NEW k \in Nat, k \in G
      PROVE  k + 1 \in G
  <2> SUFFICES ASSUME k + 1 <= l
               PROVE  Good(k + 1)
    OBVIOUS
  <2> DEFINE d == v[k]
             e == v[k + 1]
             bs == fs[k + 1]
  <2>1. k \in 0..l /\ k + 1 \in 1..l /\ (k + 1) - 1 = k /\ k + 1 \in 0..l
    BY <1>1
  <2>2. Good(k)
    BY <1>1, <1>5
  <2>3. /\ d \in FrameCursors(n) /\ e \in FrameCursors(n) /\ e = Written(d, bs)
        /\ bs \in Seq(Byte) /\ Len(bs) \in Nat /\ at[k + 1] = at[k] + Len(bs) /\ at[k] \in Nat
        /\ at[k + 1] <= n
    <3>1. v[k] \in FrameCursors(n) /\ v[k + 1] \in FrameCursors(n)
          /\ v[k + 1] = Written(v[k], fs[k + 1])
      BY <1>a, <2>1
    <3>2. fs[k + 1] \in Seq(Byte)
      BY <1>1, <2>1
    <3>3. at[k + 1] = at[k] + Len(fs[k + 1]) /\ at[k] \in Nat /\ at[k + 1] <= n
      BY <1>1, <1>2, <2>1
    <3> QED
      BY <3>1, <3>2, <3>3
  <2>4. /\ d.pos = at[k] /\ d.len = n
        /\ \A j \in 1..k : at[j] <= at[k] /\ Lies(d.buffer, at[j - 1], fs[j])
    BY <2>2
  <2> HIDE DEF d, e, bs
  <2>5. CursorFits(d) /\ d.off = 0 /\ DOMAIN d.buffer = 1..n
    <3>1. d.buffer \in [1..n -> Byte] /\ d.off = 0 /\ d.pos \in Nat
          /\ d = [buffer |-> d.buffer, off |-> d.off, len |-> d.len, pos |-> d.pos]
      BY <2>3 DEF FrameCursors
    <3>2. d.buffer \in Seq(Byte) /\ Len(d.buffer) = n
      <4> DEFINE b == d.buffer
      <4>1. b \in [1..n -> Byte] /\ n \in Nat
        BY <1>1, <3>1
      <4> HIDE DEF b
      <4>2. b \in Seq(Byte) /\ Len(b) = n
        BY ONLY <4>1
      <4> QED
        BY <4>2 DEF b
    <3>3. d.pos <= n
      BY <1>2, <2>1, <2>4
    <3> QED
      BY <1>1, <2>4, <3>1, <3>2, <3>3 DEF CursorFits
  <2>6. e = PutBytes(d, bs)
    <3>1. Check(d, d.pos, Len(bs))
      BY <2>3, <2>4 DEF Check
    <3> QED
      BY <2>3, <3>1 DEF Written
  <2>7. /\ CursorFits(e) /\ e.pos = d.pos + Len(bs) /\ e.off = 0 /\ e.len = n
        /\ \A i \in 1..n :
              e.buffer[i] # d.buffer[i] => at[k] < i /\ i <= at[k] + Len(bs)
        /\ BytesAt(e, at[k], Len(bs)) = bs
    <3>1. d.pos + Len(bs) <= d.len
      BY <2>3, <2>4
    <3>2. /\ CursorFits(PutBytes(d, bs)) /\ PutBytes(d, bs).pos = d.pos + Len(bs)
          /\ PutBytes(d, bs).off = d.off /\ PutBytes(d, bs).len = d.len
          /\ \A i \in DOMAIN d.buffer :
                PutBytes(d, bs).buffer[i] # d.buffer[i] =>
                    d.off + d.pos < i /\ i <= d.off + d.pos + Len(bs)
          /\ BytesAt(PutBytes(d, bs), d.pos, Len(bs)) = bs
      BY <2>3, <2>5, <3>1, PutFits
    <3>3. d.off + d.pos = at[k]
      BY <2>3, <2>4, <2>5
    <3> QED
      BY <2>4, <2>5, <2>6, <3>2, <3>3
  <2>8. Lies(e.buffer, at[k], bs)
    <3> DEFINE a == at[k]
               b == e.buffer
               m == a + Len(bs)
    <3>1. a \in Nat /\ m \in Nat /\ a <= m /\ m <= Len(b) /\ m - a = Len(bs) /\ b \in Seq(Byte)
      BY <2>3, <2>7 DEF CursorFits
    <3>2. SubSeq(b, a + 1, m) = bs
      <4>1. BytesAt(e, a, Len(bs)) = SubSeq(b, e.off + a + 1, e.off + a + Len(bs))
        BY DEF BytesAt
      <4>2. e.off + a + 1 = a + 1 /\ e.off + a + Len(bs) = m
        BY <2>3, <2>7, <3>1
      <4> QED
        BY <2>7, <4>1, <4>2
    <3> HIDE DEF a, b, m
    <3>3. \A i \in 1..(m - a) : SubSeq(b, a + 1, m)[i] = b[a + i]
      BY <3>1, PartOf
    <3>4. Lies(b, a, bs)
      BY <3>1, <3>2, <3>3 DEF Lies
    <3> QED
      BY <3>4 DEF a, b
  <2>9. ASSUME NEW j \in 1..k
        PROVE  at[j] <= at[k + 1] /\ Lies(e.buffer, at[j - 1], fs[j])
    <3>1. at[j] <= at[k] /\ Lies(d.buffer, at[j - 1], fs[j])
      BY <2>4
    <3>2. at[j] = at[j - 1] + Len(fs[j]) /\ at[j - 1] \in Nat /\ Len(fs[j]) \in Nat
      <4>1. j \in 1..l /\ j - 1 \in 0..l
        BY <1>1
      <4> QED
        BY <1>1, <4>1
    <3>3. ASSUME NEW i \in 1..Len(fs[j])
          PROVE  e.buffer[at[j - 1] + i] = fs[j][i]
      <4> DEFINE q == at[j - 1] + i
      <4>1. d.buffer[q] = fs[j][i]
        BY <3>1 DEF Lies
      <4>2. q \in 1..n /\ ~(at[k] < q)
        <5> DEFINE a == at[j - 1]
                   b == at[j]
                   f == at[k]
                   h == at[k + 1]
                   r == Len(fs[j])
                   s == Len(bs)
        <5>1. i \in 1..r /\ b = a + r /\ b <= f /\ h = f + s /\ h <= n
              /\ a \in Nat /\ r \in Nat /\ f \in Nat /\ s \in Nat /\ n \in Nat
          BY <1>1, <2>3, <3>1, <3>2
        <5> HIDE DEF a, b, f, h, r, s
        <5>2. a + i \in 1..n /\ ~(f < a + i)
          BY <5>1
        <5> QED
          BY <5>2 DEF a, f
      <4> HIDE DEF q
      <4>3. e.buffer[q] = d.buffer[q]
        BY <2>7, <4>2
      <4> QED
        BY <4>1, <4>3 DEF q
    <3>4. at[j] <= at[k + 1]
      BY <2>3, <3>1, <3>2
    <3> QED
      BY <3>3, <3>4 DEF Lies
  <2>10. ASSUME NEW j \in 1..(k + 1)
         PROVE  at[j] <= at[k + 1] /\ Lies(e.buffer, at[j - 1], fs[j])
    <3>1. CASE j = k + 1
      <4>1. at[k + 1] <= at[k + 1]
        BY <2>3
      <4> QED
        BY <2>1, <2>8, <3>1, <4>1 DEF bs
    <3>2. CASE j # k + 1
      <4>1. j \in 1..k
        BY <3>2
      <4> QED
        BY <2>9, <4>1
    <3> QED
      BY <3>1, <3>2
  <2>11. e.pos = at[k + 1] /\ e.len = n
    BY <2>3, <2>4, <2>7
  <2> QED
    BY <2>10, <2>11 DEF e
<1>6. l \in G
  <2> HIDE DEF G
  <2> QED
    BY <1>1, <1>4, <1>5, Induction
<1>7. Good(l)
  <2>1. l <= l
    BY <1>1
  <2> HIDE DEF Good
  <2> QED
    BY <1>6, <2>1
<1>8. v[l] \in FrameCursors(n) /\ l \in 0..l
  BY <1>1, <1>a
<1>9. Len(v[l].buffer) = n
  BY <1>1, <1>8 DEF FrameCursors
<1>10. Laid(v[l].buffer, at, fs)
  <2>1. \A k \in 1..l : Lies(v[l].buffer, at[k - 1], fs[k])
    BY <1>7
  <2> QED
    BY <1>9, <2>1 DEF Laid, l
<1> QED
  BY <1>7, <1>8, <1>10, <1>a

(* A frame new_message makes carries its message. *)
LEMMA NewMessageCarries ==
    ASSUME NEW m, OfBytes(m), ~Unencodable(m)
    PROVE  Carries(NewMessage(m), m)
<1> DEFINE total == HeaderOverhead + Len(Encoded(m.room)) + Len(Encoded(m.event))
                        + Len(Encoded(m.dst)) + Len(Encoded(m.src)) + Len(m.payload)
           fs == Fields(m)
           z == Zeros(total)
           c == Cursor(z, 0, total)
           data == Writing(c, fs)
<1>1. NewMessage(m) = BytesAt(data, 0, data.len)
  BY DEF NewMessage, Writing
<1>2. fs \in Seq(Seq(Byte)) /\ Len(fs) = 12
  BY FieldsAt
<1>3. PICK at : Laid(FlattenSeq(fs), at, fs)
  BY <1>2, FlattenLaid
<1>4. Sums(at, fs)
  BY <1>3 DEF Laid
<1>5. at \in [0..12 -> Nat] /\ at[12] = total
  BY <1>4, SumsOfFields
<1> HIDE DEF total, fs
<1>6. total \in Nat /\ total = at[Len(fs)]
  BY <1>2, <1>5
<1>7. c \in FrameCursors(total) /\ c.pos = 0 /\ c.len = total
  <2>1. z \in [1..total -> Byte]
    BY BaseAssumption DEF Zeros, Byte
  <2> HIDE DEF z
  <2>2. c = [buffer |-> z, off |-> 0, len |-> total, pos |-> 0]
    BY DEF Cursor
  <2> QED
    BY <1>6, <2>1, <2>2 DEF FrameCursors
<1> HIDE DEF c, z
<1>8. data \in FrameCursors(total) /\ data.len = total /\ Laid(data.buffer, at, fs)
  BY <1>2, <1>4, <1>6, <1>7, WritingLaid
<1> HIDE DEF data
<1> DEFINE b == data.buffer
<1>9. b \in [1..total -> Byte] /\ data.off = 0
  BY <1>8 DEF FrameCursors
<1>10. b \in Seq(Byte) /\ Len(b) = total
  BY <1>6, <1>9
<1>11. NewMessage(m) = b
  <2>1. BytesAt(data, 0, data.len) = SubSeq(b, 0 + 0 + 1, 0 + 0 + total)
    BY <1>8, <1>9 DEF BytesAt
  <2>2. 0 + 0 + 1 = 1 /\ 0 + 0 + total = total
    BY <1>6
  <2>3. SubSeq(b, 1, Len(b)) = b
    <3> HIDE DEF b
    <3> QED
      BY <1>10
  <2> QED
    BY <1>1, <1>10, <2>1, <2>2, <2>3
<1> HIDE DEF b
<1>12. Carries(b, m)
  BY <1>8, <1>10, LaidCarries DEF b, fs
<1> QED
  BY <1>11, <1>12

-----------------------------------------------------------------------------
(* A frame that carries a message, taken apart *)

(* Are the lengths of m's parts within their fields? *)
Announced(m) == \A k \in 1..5 : Len(PartsOf(m)[k]) < Power[LengthFields[k]]

(* What is found where a part lies: its length and the part. *)
LEMMA HoldsThere ==
    ASSUME NEW buf \in Seq(Byte), NEW a \in Nat, NEW w \in Nat, NEW p \in Seq(Byte),
           Holds(buf, a, w, p), Len(p) < Power[w]
    PROVE  /\ Unsigned(SubSeq(buf, a + 1, a + w)) = Len(p)
           /\ SubSeq(buf, a + w + 1, a + w + Len(p)) = p
<1> DEFINE d == Digits(Len(p), w, FALSE)
           f == a + w
<1>1. d \in Seq(Byte) /\ Len(d) = w /\ Unsigned(d) = Len(p)
  BY LengthWritten
<1>2. f \in Nat /\ Len(p) \in Nat /\ f + Len(p) <= Len(buf) /\ Lies(buf, a, d) /\ Lies(buf, f, p)
  <2>1. f \in Nat /\ Len(p) \in Nat
    OBVIOUS
  <2>2. f + Len(p) <= Len(buf) /\ Lies(buf, a, d) /\ Lies(buf, f, p)
    BY Zenon DEF Holds
  <2> QED
    BY <2>1, <2>2, Zenon
<1> HIDE DEF d, f
<1>3. a + Len(d) <= Len(buf)
  <2>1. Len(buf) \in Nat
    OBVIOUS
  <2> QED
    BY <1>1, <1>2, <2>1 DEF f
<1>4. SubSeq(buf, a + 1, a + Len(d)) = d
  <2>1. buf \in Seq(Byte) /\ a \in Nat /\ d \in Seq(Byte) /\ Lies(buf, a, d)
    BY <1>1, <1>2
  <2> QED
    BY ONLY <1>3, <2>1, LiesThere
<1>5. SubSeq(buf, f + 1, f + Len(p)) = p
  BY <1>2, LiesThere
<1> QED
  BY <1>1, <1>4, <1>5 DEF f

(* decode_message takes such a part. *)
LEMMA TakeHolds ==
    ASSUME NEW buf \in Seq(Byte), NEW t \in Takings, NEW w \in Nat, NEW p \in Seq(Byte),
           t.out = "ok", Holds(buf, t.at, w, p), Len(p) < Power[w],
           Len(t.parts) = 4 => t.at + w + Len(p) = Len(buf)
    PROVE  TakeField(buf, t, w) = Taken(t.at + w + Len(p), Append(t.parts, p), "ok")
<1> DEFINE a == t.at
           from == a + w
           n == Unsigned(SubSeq(buf, a + 1, from))
           end == from + n
           x == SubSeq(buf, from + 1, end)
<1>1. a \in Nat /\ from \in Nat /\ Len(p) \in Nat /\ from + Len(p) <= Len(buf)
  BY DEF Takings, Holds
<1>2. n = Len(p) /\ SubSeq(buf, from + 1, from + Len(p)) = p
  <2> HIDE DEF a
  <2>1. Holds(buf, a, w, p)
    BY DEF a
  <2> QED
    BY <1>1, <2>1, HoldsThere
<1>3. TakeField(buf, t, w) =
        IF t.out # "ok" THEN t
        ELSE IF from > Len(buf) THEN [t EXCEPT !.out = IF t.parts = << >> THEN "throw" ELSE "null"]
        ELSE IF end > Len(buf) \/ (Len(t.parts) = 4 /\ end # Len(buf)) THEN [t EXCEPT !.out = "null"]
        ELSE Taken(end, Append(t.parts, x), "ok")
  BY DEF TakeField
<1> HIDE DEF n, from
<1>4. end = from + Len(p) /\ x = p
  BY <1>2
<1>5. ~(from > Len(buf)) /\ ~(end > Len(buf))
  BY <1>1, <1>4
<1>6. ~(Len(t.parts) = 4 /\ end # Len(buf))
  BY <1>4 DEF from
<1> HIDE DEF end, x
<1>7. TakeField(buf, t, w) = Taken(end, Append(t.parts, x), "ok")
  BY <1>3, <1>5, <1>6
<1> QED
  BY <1>4, <1>7 DEF from

(* So does the client. *)
LEMMA ReadHolds ==
    ASSUME NEW buf \in Seq(Byte), NEW t \in Takings, NEW w \in Nat, NEW p \in Seq(Byte),
           t.out = "ok", Holds(buf, t.at, w, p), Len(p) < Power[w]
    PROVE  ReadField(buf, t, w) = Taken(t.at + w + Len(p), Append(t.parts, p), "ok")
<1> DEFINE a == t.at
           from == a + w
           c == [Cursor(buf, 0, Len(buf)) EXCEPT !.pos = a]
           n == Unsigned(BytesAt(c, c.pos, w))
           x == BytesAt(c, c.pos + w, n)
<1>1. a \in Nat /\ from \in Nat /\ Len(p) \in Nat /\ from + Len(p) <= Len(buf)
  BY DEF Takings, Holds
<1>2. Unsigned(SubSeq(buf, a + 1, from)) = Len(p) /\ SubSeq(buf, from + 1, from + Len(p)) = p
  <2> HIDE DEF a
  <2>1. Holds(buf, a, w, p)
    BY DEF a
  <2> QED
    BY <1>1, <2>1, HoldsThere
<1>3. ReadField(buf, t, w) =
        IF t.out # "ok" THEN t
        ELSE IF ~Check(c, c.pos, w) \/ ~Check(c, c.pos + w, n) THEN [t EXCEPT !.out = "throw"]
        ELSE Taken(c.pos + w + n, Append(t.parts, x), "ok")
  BY DEF ReadField
<1>4. c.buffer = buf /\ c.off = 0 /\ c.len = Len(buf) /\ c.pos = a
  BY DEF Cursor
<1> HIDE DEF c, a
<1>5. n = Len(p)
  <2>1. BytesAt(c, c.pos, w) = SubSeq(buf, 0 + a + 1, 0 + a + w)
    BY <1>4 DEF BytesAt
  <2>2. 0 + a + 1 = a + 1 /\ 0 + a + w = from
    BY <1>1
  <2> HIDE DEF from
  <2> QED
    BY <1>2, <2>1, <2>2
<1> HIDE DEF n
<1>6. x = p
  <2>1. x = SubSeq(buf, 0 + (a + w) + 1, 0 + (a + w) + Len(p))
    BY <1>4, <1>5 DEF BytesAt
  <2>2. 0 + (a + w) + 1 = from + 1 /\ 0 + (a + w) + Len(p) = from + Len(p)
    BY <1>1
  <2> HIDE DEF from, x
  <2> QED
    BY <1>2, <2>1, <2>2
<1> HIDE DEF x
<1>7. Check(c, c.pos, w) /\ Check(c, c.pos + w, n)
  BY <1>1, <1>4, <1>5 DEF Check
<1>8. ReadField(buf, t, w) = Taken(c.pos + w + n, Append(t.parts, x), "ok")
  BY <1>3, <1>7
<1> QED
  BY <1>4, <1>5, <1>6, <1>8 DEF a

(* Five steps that each take the part that lies there take the message's    *)
(* parts and end where the frame does.                                      *)
LEMMA PartsTaken ==
    ASSUME NEW m, OfBytes(m), NEW buf \in Seq(Byte), NEW at, InParts(buf, m, at),
           NEW v \in [0..5 -> Takings], v[0] = Start,
           \A k \in 1..5 :
               v[k - 1].out = "ok" /\ v[k - 1].at = at[k - 1] /\ Len(v[k - 1].parts) = k - 1 =>
                   v[k] = Taken(at[k], Append(v[k - 1].parts, PartsOf(m)[k]), "ok")
    PROVE  v[5] = Taken(Len(buf), PartsOf(m), "ok")
<1> DEFINE p == PartsOf(m)
           Good(k) == /\ v[k].out = "ok" /\ v[k].at = at[k] /\ Len(v[k].parts) = k
                      /\ \A j \in 1..k : v[k].parts[j] = p[j]
           G == {k \in 0..5 : Good(k)}
<1>1. p \in Seq(Seq(Byte)) /\ Len(p) = 5 /\ \A k \in 1..5 : p[k] \in Seq(Byte)
  BY PartsType
<1>2. 0 \in G
  <2>1. at[0] = 2 /\ v[0].out = "ok" /\ v[0].at = 2 /\ v[0].parts = << >>
    BY DEF InParts, Start, Taken
  <2> QED
    BY <2>1
<1>3. ASSUME NEW k \in 1..5, k - 1 \in G
      PROVE  k \in G
  <2> DEFINE s == v[k - 1].parts
             x == p[k]
             u == Append(s, x)
  <2>1. v[k - 1].out = "ok" /\ v[k - 1].at = at[k - 1] /\ Len(s) = k - 1
        /\ \A j \in 1..(k - 1) : s[j] = p[j]
    BY <1>3
  <2>2. s \in Seq(Seq(Byte)) /\ x \in Seq(Byte)
    <3>1. v[k - 1] \in Takings
      OBVIOUS
    <3> QED
      BY <1>1, <3>1 DEF Takings
  <2>3. v[k] = Taken(at[k], u, "ok")
    BY <2>1
  <2>4. v[k].out = "ok" /\ v[k].at = at[k] /\ v[k].parts = u
    BY <2>3 DEF Taken
  <2>5. Len(u) = k /\ u[k] = x /\ \A j \in 1..(k - 1) : u[j] = s[j]
    <3> HIDE DEF s, x
    <3>1. Len(u) = Len(s) + 1 /\ u[Len(s) + 1] = x /\ \A j \in 1..Len(s) : u[j] = s[j]
      BY <2>2
    <3>2. Len(s) = k - 1
      BY <2>1
    <3> HIDE DEF u
    <3> QED
      BY <3>1, <3>2
  <2> HIDE DEF s, u
  <2>6. \A j \in 1..k : u[j] = p[j]
    <3> TAKE j \in 1..k
    <3>1. j = k \/ j \in 1..(k - 1)
      OBVIOUS
    <3> QED
      BY <2>1, <2>5, <3>1
  <2> HIDE DEF p, x
  <2>7. Good(k)
    BY <2>4, <2>5, <2>6
  <2> QED
    BY <2>7
<1>4. \A k \in 0..5 : k \in G
  <2> HIDE DEF G
  <2> QED
    BY <1>2, <1>3, TakingChain
<1>5. Good(5)
  BY <1>4
<1>6. v[5] \in Takings
  OBVIOUS
<1>7. v[5].parts = p
  <2> DEFINE q == v[5].parts
  <2>1. q \in Seq(Seq(Byte)) /\ Len(q) = 5 /\ \A j \in 1..5 : q[j] = p[j]
    BY <1>5, <1>6 DEF Takings
  <2> HIDE DEF q, p
  <2>2. q = p
    <3> DEFINE B == Seq(Byte)
    <3>1. q \in Seq(B) /\ p \in Seq(B) /\ Len(q) = Len(p) /\ \A j \in 1..Len(q) : q[j] = p[j]
      BY <1>1, <2>1
    <3> HIDE DEF B
    <3> QED
      BY ONLY <3>1, SeqEqual
  <2> QED
    BY <2>2 DEF q
<1>8. at[5] = Len(buf)
  BY DEF InParts
<1>9. v[5] = Taken(v[5].at, v[5].parts, v[5].out)
  BY <1>6 DEF Takings, Taken
<1> QED
  BY <1>5, <1>7, <1>8, <1>9

(* decode_message finds in a frame the parts of the message it carries. *)
LEMMA TakeCarried ==
    ASSUME NEW m, OfBytes(m), NEW buf, Carries(buf, m), Announced(m), Len(buf) <= MaxMessage
    PROVE  Take(buf) = Taken(Len(buf), PartsOf(m), "ok")
<1> DEFINE p == PartsOf(m)
<1>1. buf \in Seq(Byte) /\ Sized(buf)
  <2>1. buf \in Seq(Byte) /\ Len(buf) \in Nat /\ Len(m.payload) \in Nat
        /\ Len(buf) >= 12 + Len(m.payload)
    BY DEF Carries, OfBytes, HeaderOverhead
  <2> QED
    BY <2>1, WireAssumption DEF Sized, HeaderOverhead
<1>2. PICK at : InParts(buf, m, at)
  BY DEF Carries
<1>3. PICK v : Taking(v, buf) /\ Take(buf) = v[5]
  BY <1>1, TakeSteps
<1>4. v \in [0..5 -> Takings] /\ v[0] = Start
      /\ \A k \in 1..5 : v[k] = TakeField(buf, v[k - 1], LengthFields[k])
  BY <1>3 DEF Taking
<1>5. ASSUME NEW k \in 1..5, v[k - 1].out = "ok", v[k - 1].at = at[k - 1],
             Len(v[k - 1].parts) = k - 1
      PROVE  v[k] = Taken(at[k], Append(v[k - 1].parts, p[k]), "ok")
  <2> DEFINE t == v[k - 1]
             w == LengthFields[k]
             x == p[k]
  <2>1. t \in Takings /\ w \in Nat /\ x \in Seq(Byte) /\ v[k] = TakeField(buf, t, w) /\ t.out = "ok"
    <3>1. v[k - 1] \in Takings
      BY <1>4
    <3>2. LengthFields[k] \in Nat
      BY LengthFieldsType
    <3>3. p[k] \in Seq(Byte)
      BY PartsType
    <3>4. v[k] = TakeField(buf, v[k - 1], LengthFields[k])
      BY <1>4
    <3> QED
      BY <1>5, <3>1, <3>2, <3>3, <3>4, Zenon
  <2>2. Holds(buf, at[k - 1], w, x) /\ at[k] = at[k - 1] + w + Len(x)
    BY <1>2 DEF InParts
  <2>3. Holds(buf, t.at, w, x) /\ at[k] = t.at + w + Len(x)
    BY <1>5, <2>2
  <2>4. Len(x) < Power[w]
    BY DEF Announced
  <2>5. Len(t.parts) = 4 => t.at + w + Len(x) = Len(buf)
    <3>1. Len(t.parts) = 4 => k = 5
      <4>1. Len(t.parts) = k - 1
        BY <1>5
      <4>2. \A n \in Int : n = k - 1 /\ n = 4 => k = 5
        OBVIOUS
      <4>3. k - 1 \in Int
        OBVIOUS
      <4> HIDE DEF t
      <4> QED
        BY <4>1, <4>2, <4>3, Zenon
    <3>2. at[5] = Len(buf)
      BY <1>2 DEF InParts
    <3> HIDE DEF t, w, x
    <3> QED
      BY <2>3, <3>1, <3>2
  <2> HIDE DEF t, w, x
  <2>6. TakeField(buf, t, w) = Taken(t.at + w + Len(x), Append(t.parts, x), "ok")
    BY <1>1, <2>1, <2>3, <2>4, <2>5, TakeHolds
  <2> QED
    BY <2>1, <2>3, <2>6 DEF t, x
<1> HIDE DEF p
<1>6. v[5] = Taken(Len(buf), PartsOf(m), "ok")
  BY <1>1, <1>2, <1>4, <1>5, PartsTaken DEF p
<1> QED
  BY <1>3, <1>6

(* One step of onmessage. *)
LEMMA ReadFieldType ==
    ASSUME NEW buf \in Seq(Byte), NEW t \in Takings, NEW w \in Nat
    PROVE  ReadField(buf, t, w) \in Takings
<1> DEFINE a == t.at
           from == a + w
           l == Len(buf)
           c == [Cursor(buf, 0, l) EXCEPT !.pos = a]
           n == Unsigned(BytesAt(c, c.pos, w))
           x == BytesAt(c, c.pos + w, n)
<1>1. a \in Nat /\ from \in Nat /\ l \in Nat /\ a <= from
  BY DEF Takings
<1>2. ReadField(buf, t, w) =
        IF t.out # "ok" THEN t
        ELSE IF ~Check(c, c.pos, w) \/ ~Check(c, c.pos + w, n) THEN [t EXCEPT !.out = "throw"]
        ELSE Taken(c.pos + w + n, Append(t.parts, x), "ok")
  BY DEF ReadField
<1>3. c.buffer = buf /\ c.off = 0 /\ c.len = l /\ c.pos = a
  BY DEF Cursor
<1>4. [t EXCEPT !.out = "throw"] \in Takings
  BY DEF Takings
<1> HIDE DEF c, a
<1>5. ASSUME Check(c, c.pos, w), Check(c, c.pos + w, n)
      PROVE  Taken(c.pos + w + n, Append(t.parts, x), "ok") \in Takings
  <2>1. from <= l
    BY <1>3, <1>5 DEF Check
  <2>2. n = Unsigned(SubSeq(buf, a + 1, from))
    <3>1. BytesAt(c, c.pos, w) = SubSeq(buf, 0 + a + 1, 0 + a + w)
      BY <1>3 DEF BytesAt
    <3>2. 0 + a + 1 = a + 1 /\ 0 + a + w = from
      BY <1>1
    <3> HIDE DEF from
    <3> QED
      BY <3>1, <3>2
  <2> HIDE DEF n, from, l
  <2>3. n \in Nat
    <3>1. SubSeq(buf, a + 1, from) \in Seq(Byte)
      BY <1>1, <2>1, PartOf DEF l
    <3> QED
      BY <2>2, <3>1, LengthType
  <2> DEFINE end == from + n
  <2>4. end \in Nat /\ from <= end /\ end <= l
    <3>1. (a + w) + n <= l
      BY <1>3, <1>5 DEF Check
    <3> QED
      BY <1>1, <2>3, <3>1 DEF from
  <2>5. x = SubSeq(buf, from + 1, end)
    <3>1. x = SubSeq(buf, 0 + (a + w) + 1, 0 + (a + w) + n)
      BY <1>3 DEF BytesAt
    <3>2. 0 + (a + w) + 1 = from + 1 /\ 0 + (a + w) + n = end
      BY <1>1, <2>3 DEF from
    <3> HIDE DEF x, end
    <3> QED
      BY <3>1, <3>2
  <2> HIDE DEF end, x
  <2>6. x \in Seq(Byte)
    BY <1>1, <2>4, <2>5, PartOf DEF l
  <2>7. Append(t.parts, x) \in Seq(Seq(Byte))
    BY <2>6 DEF Takings
  <2>8. c.pos + w + n \in Nat
    BY <1>1, <1>3, <2>3
  <2> QED
    BY <2>7, <2>8 DEF Taken, Takings
<1> HIDE DEF n, x
<1> QED
  BY <1>2, <1>4, <1>5

(* The client reads the fields one after the other. *)
Reading(v, buf) ==
    /\ v \in [0..5 -> Takings] /\ v[0] = Start
    /\ \A k \in 1..5 : v[k] = ReadField(buf, v[k - 1], LengthFields[k])

(* What onmessage comes to is the last of five steps. *)
LEMMA ReadSteps ==
    ASSUME NEW buf \in Seq(Byte), ~(Len(buf) < HeaderOverhead)
    PROVE  \E v : Reading(v, buf) /\ OnMessage(buf) = v[5]
<1> DEFINE A == Takings
           E(f) == [t \in SUBSET (1..5) |->
                      IF t = {} THEN Start
                      ELSE ReadField(buf, f[t \ {Max(t)}], LengthFields[Max(t)])]
           F == [p \in A \X Nat |-> ReadField(buf, p[1], p[2])]
<1>1. F \in [A \X Nat -> A] /\ \A a \in A, b \in Nat : F[<<a, b>>] = ReadField(buf, a, b)
  <2>1. \A a \in A, b \in Nat : ReadField(buf, a, b) \in A
    BY ReadFieldType
  <2> HIDE DEF A
  <2> QED
    BY <2>1
<1>2. Start \in A
  BY DEF Start, Taken, Takings
<1>3. \E f : f = E(f)
  <2>1. PICK h \in [SUBSET (1..5) -> A] : Folds(h, F, Start, LengthFields, 5)
    <3> HIDE DEF F, A
    <3>1. HasFold(A, F, Start, LengthFields, 5)
      BY <1>1, <1>2, LengthFieldsType, FoldExists
    <3> QED
      BY <3>1 DEF HasFold
  <2> HIDE DEF F, A
  <2>2. ASSUME NEW t \in SUBSET (1..5), t # {}
        PROVE  h[t] = ReadField(buf, h[t \ {Max(t)}], LengthFields[Max(t)])
    <3>1. Max(t) \in 1..5
      <4>1. t \subseteq 0..5 /\ 5 \in Nat
        OBVIOUS
      <4> QED
        BY <2>2, <4>1, Greatest
    <3>2. h[t \ {Max(t)}] \in A /\ LengthFields[Max(t)] \in Nat
      BY <3>1, LengthFieldsType
    <3>3. h[t] = F[<<h[t \ {Max(t)}], LengthFields[Max(t)]>>]
      BY <2>1, <2>2 DEF Folds
    <3> QED
      BY <1>1, <3>2, <3>3
  <2>3. h[{}] = Start
    BY <2>1 DEF Folds
  <2>4. h = E(h)
    BY <2>2, <2>3
  <2> HIDE DEF E
  <2> QED
    BY <2>4
<1> DEFINE g == CHOOSE f : f = E(f)
<1>4. g = E(g)
  <2> HIDE DEF E
  <2> QED
    BY <1>3
<1>5. OnMessage(buf) = g[1..5]
  <2>1. OnMessage(buf) = g[DOMAIN LengthFields]
    BY LengthFieldsType DEF OnMessage, Start, FoldLeft, MapThenFoldSet
  <2> HIDE DEF g
  <2> QED
    BY <2>1, LengthFieldsType
<1> HIDE DEF g
<1> DEFINE v == [k \in 0..5 |-> g[1..k]]
<1>6. v[0] = Start
  <2>1. 1..0 = {} /\ g[{}] = Start
    BY <1>4
  <2> QED
    BY <2>1
<1>7. ASSUME NEW k \in 1..5
      PROVE  v[k] = ReadField(buf, v[k - 1], LengthFields[k])
  <2>1. g[1..k] = ReadField(buf, g[(1..k) \ {Max(1..k)}], LengthFields[Max(1..k)])
    <3>1. 1..k \in SUBSET (1..5) /\ 1..k # {}
      <4>1. 5 \in Nat
        OBVIOUS
      <4> QED
        BY <4>1, FirstOnes
    <3> QED
      BY <1>4, <3>1
  <2>2. Max(1..k) = k /\ (1..k) \ {k} = 1..(k - 1)
    <3>1. 5 \in Nat
      OBVIOUS
    <3> QED
      BY <3>1, FirstOnes
  <2>3. g[1..k] = ReadField(buf, g[1..(k - 1)], LengthFields[k])
    BY <2>1, <2>2
  <2>4. v[k] = g[1..k] /\ v[k - 1] = g[1..(k - 1)]
    OBVIOUS
  <2> HIDE DEF v
  <2> QED
    BY <2>4, <2>3
<1>8. v = [k \in 0..5 |-> v[k]] /\ v[5] = g[1..5]
  OBVIOUS
<1> HIDE DEF v, E, F, A
<1> DEFINE G == {k \in 0..5 : v[k] \in A}
<1>9. \A k \in 0..5 : k \in G
  <2>1. 0 \in G
    BY <1>2, <1>6
  <2>2. ASSUME NEW k \in 1..5, k - 1 \in G
        PROVE  k \in G
    <3>1. LengthFields[k] \in Nat /\ v[k - 1] \in A
      BY <2>2, LengthFieldsType
    <3>2. v[k] \in A
      BY <1>7, <3>1, ReadFieldType DEF A
    <3> QED
      BY <3>2
  <2> HIDE DEF G
  <2> QED
    BY <2>1, <2>2, TakingChain
<1>10. v \in [0..5 -> A]
  BY <1>8, <1>9
<1>11. Reading(v, buf)
  BY <1>6, <1>7, <1>10 DEF Reading, A
<1> QED
  BY <1>5, <1>8, <1>11

(* The client finds in a frame the parts of the message it carries. *)
LEMMA ReadCarried ==
    ASSUME NEW m, OfBytes(m), NEW buf, Carries(buf, m), Announced(m)
    PROVE  OnMessage(buf) = Taken(Len(buf), PartsOf(m), "ok")
<1> DEFINE p == PartsOf(m)
<1>1. buf \in Seq(Byte) /\ ~(Len(buf) < HeaderOverhead)
  <2>1. buf \in Seq(Byte) /\ Len(buf) \in Nat /\ Len(m.payload) \in Nat
        /\ Len(buf) >= 12 + Len(m.payload)
    BY DEF Carries, OfBytes, HeaderOverhead
  <2> QED
    BY <2>1 DEF HeaderOverhead
<1>2. PICK at : InParts(buf, m, at)
  BY DEF Carries
<1>3. PICK v : Reading(v, buf) /\ OnMessage(buf) = v[5]
  BY <1>1, ReadSteps
<1>4. v \in [0..5 -> Takings] /\ v[0] = Start
      /\ \A k \in 1..5 : v[k] = ReadField(buf, v[k - 1], LengthFields[k])
  BY <1>3 DEF Reading
<1>5. ASSUME NEW k \in 1..5, v[k - 1].out = "ok", v[k - 1].at = at[k - 1],
             Len(v[k - 1].parts) = k - 1
      PROVE  v[k] = Taken(at[k], Append(v[k - 1].parts, p[k]), "ok")
  <2> DEFINE t == v[k - 1]
             w == LengthFields[k]
             x == p[k]
  <2>1. t \in Takings /\ w \in Nat /\ x \in Seq(Byte) /\ v[k] = ReadField(buf, t, w) /\ t.out = "ok"
    <3>1. v[k - 1] \in Takings
      BY <1>4
    <3>2. LengthFields[k] \in Nat
      BY LengthFieldsType
    <3>3. p[k] \in Seq(Byte)
      BY PartsType
    <3>4. v[k] = ReadField(buf, v[k - 1], LengthFields[k])
      BY <1>4
    <3> QED
      BY <1>5, <3>1, <3>2, <3>3, <3>4, Zenon
  <2>2. Holds(buf, at[k - 1], w, x) /\ at[k] = at[k - 1] + w + Len(x)
    BY <1>2 DEF InParts
  <2>3. Holds(buf, t.at, w, x) /\ at[k] = t.at + w + Len(x)
    BY <1>5, <2>2
  <2>4. Len(x) < Power[w]
    BY DEF Announced
  <2> HIDE DEF t, w, x
  <2>5. ReadField(buf, t, w) = Taken(t.at + w + Len(x), Append(t.parts, x), "ok")
    BY <1>1, <2>1, <2>3, <2>4, ReadHolds
  <2> QED
    BY <2>1, <2>3, <2>5 DEF t, x
<1> HIDE DEF p
<1>6. v[5] = Taken(Len(buf), PartsOf(m), "ok")
  BY <1>1, <1>2, <1>4, <1>5, PartsTaken DEF p
<1> QED
  BY <1>3, <1>6

-----------------------------------------------------------------------------
(* The way of a message that nobody has disturbed *)

(* A message has the parts it is written in, and can be made of them again. *)
LEMMA MessageBack ==
    ASSUME NEW m \in Messages, Texts \subseteq Seq(Characters)
    PROVE  /\ OfBytes(m)
           /\ CreateMessage(PartsOf(m), m.version, m.flags) = m
           /\ (\A t \in TextsOf(m) : ~Marked(t)) => Packet(PartsOf(m), m.version, m.flags) = m
<1> DEFINE p == PartsOf(m)
<1>1. OfBytes(m)
  BY MessagesType DEF OfBytes
<1>2. PICK flags \in {0, 3}, room \in Texts, event \in Texts, dst \in Texts, src \in Texts,
           payload \in Payloads : m = Message(ProtocolVersion, flags, room, event, dst, src, payload)
  BY DEF Messages
<1>3. /\ m.version = 1 /\ m.flags = flags /\ m.room = room /\ m.event = event /\ m.dst = dst
      /\ m.src = src /\ m.payload = payload
  BY <1>2 DEF Message, ProtocolVersion
<1>4. m = Message(m.version, m.flags, m.room, m.event, m.dst, m.src, m.payload)
  BY <1>2, <1>3 DEF ProtocolVersion
<1>5. TextsOf(m) = {m.room, m.event, m.dst, m.src} /\ TextsOf(m) \subseteq Seq(Characters)
  BY <1>3 DEF TextsOf
<1>6. \A t \in TextsOf(m) : Decoded(Encoded(t)) = t
  BY <1>5, DecodedBack
<1>7. /\ p[1] = Encoded(m.room) /\ p[2] = Encoded(m.event) /\ p[3] = Encoded(m.dst)
      /\ p[4] = Encoded(m.src) /\ p[5] = m.payload
  BY DEF PartsOf
<1> HIDE DEF p
<1>8. /\ Decoded(p[1]) = m.room /\ Decoded(p[2]) = m.event /\ Decoded(p[3]) = m.dst
      /\ Decoded(p[4]) = m.src
  BY <1>5, <1>6, <1>7
<1>9. CreateMessage(p, m.version, m.flags) = m
  <2>1. m.version > 0
    BY <1>3
  <2>2. CreateMessage(p, m.version, m.flags)
            = Message(m.version, m.flags, m.room, m.event, m.dst, m.src, m.payload)
    BY <1>7, <1>8, <2>1 DEF CreateMessage
  <2> QED
    BY <1>4, <2>2
<1>10. ASSUME \A t \in TextsOf(m) : ~Marked(t)
       PROVE  Packet(p, m.version, m.flags) = m
  <2>1. ~Marked(m.room) /\ ~Marked(m.event) /\ ~Marked(m.dst) /\ ~Marked(m.src)
    BY <1>5, <1>10
  <2>2. /\ DecodedText(p[1]) = m.room /\ DecodedText(p[2]) = m.event
        /\ DecodedText(p[3]) = m.dst /\ DecodedText(p[4]) = m.src
    BY <1>8, <2>1 DEF DecodedText
  <2>3. Packet(p, m.version, m.flags)
            = Message(m.version, m.flags, m.room, m.event, m.dst, m.src, m.payload)
    BY <1>7, <2>2 DEF Packet
  <2> QED
    BY <1>4, <2>3
<1> QED
  BY <1>1, <1>9, <1>10 DEF p

(* Which lengths are within their fields. *)
LEMMA AnnouncedParts ==
    ASSUME NEW m, OfBytes(m)
    PROVE  Announced(m) <=> ~Unencodable(m) /\ Len(m.payload) < Power[4]
<1> DEFINE p == PartsOf(m)
<1>1. /\ p[1] = Encoded(m.room) /\ p[2] = Encoded(m.event) /\ p[3] = Encoded(m.dst)
      /\ p[4] = Encoded(m.src) /\ p[5] = m.payload
  BY DEF PartsOf
<1>2. \A k \in 1..5 : p[k] \in Seq(Byte) /\ Len(p[k]) \in Nat
  <2>1. \A k \in 1..5 : p[k] \in Seq(Byte)
    BY PartsType
  <2> HIDE DEF p
  <2> QED
    BY <2>1
<1> HIDE DEF p
<1>3. \A w \in Nat : Power[w] \in Nat
  BY PowerSteps
<1>4. Announced(m) <=>
          /\ Len(p[1]) < Power[2] /\ Len(p[2]) < Power[2] /\ Len(p[3]) < Power[1]
          /\ Len(p[4]) < Power[1] /\ Len(p[5]) < Power[4]
  <2>1. Announced(m) <=> \A k \in 1..5 : Len(p[k]) < Power[LengthFields[k]]
    BY DEF Announced, p
  <2>2. \A k \in 1..5 : k = 1 \/ k = 2 \/ k = 3 \/ k = 4 \/ k = 5
    OBVIOUS
  <2>3. 1 \in 1..5 /\ 2 \in 1..5 /\ 3 \in 1..5 /\ 4 \in 1..5 /\ 5 \in 1..5
    OBVIOUS
  <2> QED
    BY <2>1, <2>2, <2>3, Widths5, Zenon
<1>5. Unencodable(m) <=>
          \/ Len(p[1]) >= Power[2] \/ Len(p[2]) >= Power[2] \/ Len(p[3]) >= Power[1]
          \/ Len(p[4]) >= Power[1]
  BY <1>1, Zenon DEF Unencodable, TooLong
<1>6. \A a, b \in Nat : a < b <=> ~(a >= b)
  OBVIOUS
<1>7. Power[1] \in Nat /\ Power[2] \in Nat
      /\ Len(p[1]) \in Nat /\ Len(p[2]) \in Nat /\ Len(p[3]) \in Nat /\ Len(p[4]) \in Nat
  BY <1>2, <1>3
<1> QED
  BY <1>1, <1>4, <1>5, <1>6, <1>7, Zenon

(* What is on its way and was not forged is what the client has sent. *)
ArriveInv ==
    /\ stage # "idle" => original \in Messages
    /\ ~forged =>
          /\ stage = "toServer" => Carries(frame, original) /\ ~Unencodable(original)
          /\ stage = "refused" => ~(Len(frame) <= MaxMessage)
          /\ stage = "decoded" => msg = original
          /\ stage \in {"decoded", "toClient", "relayed"} => Announced(original)
          /\ stage \in {"toClient", "relayed"} => Carries(frame, original)
          /\ stage # "ignored"
          /\ stage = "received" =>
                 ((\A t \in TextsOf(original) : ~Marked(t)) => msg = original)

(* At the start nothing has been sent. *)
LEMMA ArriveInit == WireInit => ArriveInv
<1> SUFFICES ASSUME WireInit
             PROVE  ArriveInv
  OBVIOUS
<1>1. stage = "idle" \/ (stage = "new" /\ original \in Messages)
  BY DEF WireInit, Idle
<1> QED
  BY <1>1 DEF ArriveInv

(* And every step keeps it: the server finds in the frame the parts the     *)
(* client wrote, and a client those the server wrote again.                 *)
LEMMA ArriveStep ==
    ASSUME Texts \subseteq Seq(Characters), MaxMessage <= Power[4],
           ArriveInv, [WireNext]_<<vars, wireVars>>
    PROVE  ArriveInv'
<1>1. CASE UNCHANGED wireVars
  BY <1>1 DEF ArriveInv, wireVars
<1>2. CASE ClientSends
  <2>1. original \in Messages /\ original' = original /\ frame' = NewMessage(original)
        /\ stage' = IF NewMessage(original) = << >> THEN "unsent" ELSE "toServer"
    BY <1>2 DEF ClientSends, ArriveInv
  <2>2. stage' \in {"unsent", "toServer"} /\ (stage' = "toServer" => NewMessage(original) # << >>)
    BY <2>1
  <2>3. NewMessage(original) # << >> => ~Unencodable(original)
    BY DEF NewMessage
  <2>4. OfBytes(original)
    BY <2>1, MessageBack
  <2>5. stage' = "toServer" => Carries(frame', original') /\ ~Unencodable(original')
    BY <2>1, <2>2, <2>3, <2>4, NewMessageCarries
  <2> QED
    BY <2>1, <2>2, <2>5 DEF ArriveInv
<1>3. CASE OtherSends
  <2>1. forged' /\ stage' = stage /\ original' = original
    BY <1>3 DEF OtherSends
  <2> QED
    BY <2>1 DEF ArriveInv
<1>4. CASE ServerReceives
  <2>1. /\ stage = "toServer" /\ original' = original /\ frame' = frame /\ forged' = forged
        /\ original \in Messages
        /\ stage' \in {"decoded", "refused", "crashed"}
        /\ Take(frame).out = "ok" =>
               /\ stage' = "decoded"
               /\ msg' = CreateMessage(Take(frame).parts, frame[1], frame[2])
        /\ Take(frame).out = "null" => stage' = "refused"
    BY <1>4 DEF ServerReceives, ArriveInv
  <2>2. CASE forged
    BY <2>1, <2>2 DEF ArriveInv
  <2>3. CASE ~forged
    <3>1. Carries(frame, original) /\ ~Unencodable(original) /\ OfBytes(original)
      BY <2>1, <2>3, MessageBack DEF ArriveInv
    <3>2. /\ frame \in Seq(Byte) /\ Len(frame) \in Nat /\ Len(original.payload) \in Nat
          /\ Len(frame) >= 12 + Len(original.payload)
          /\ frame[1] = original.version /\ frame[2] = original.flags
      BY <3>1 DEF Carries, OfBytes, HeaderOverhead
    <3>3. CASE Len(frame) <= MaxMessage
      <4>1. Power[4] \in Nat
        BY PowerSteps
      <4>2. Len(original.payload) < Power[4]
        BY <3>2, <3>3, <4>1, WireAssumption
      <4>3. Announced(original)
        BY <3>1, <4>2, AnnouncedParts
      <4>4. Take(frame) = Taken(Len(frame), PartsOf(original), "ok")
        BY <3>1, <3>3, <4>3, TakeCarried
      <4>5. Take(frame).out = "ok" /\ Take(frame).parts = PartsOf(original)
        BY <4>4 DEF Taken
      <4>6. msg' = original
        BY <2>1, <3>2, <4>5, MessageBack
      <4>7. stage' = "decoded"
        BY <2>1, <4>5
      <4> QED
        BY <2>1, <4>3, <4>6, <4>7 DEF ArriveInv
    <3>4. CASE ~(Len(frame) <= MaxMessage)
      <4>1. Len(frame) > MaxMessage
        BY <3>2, <3>4, WireAssumption
      <4>2. ~Sized(frame)
        BY <4>1 DEF Sized
      <4>3. Take(frame) = Taken(0, << >>, "null")
        BY <3>2, <4>2, TakeSteps
      <4>4. stage' = "refused"
        BY <2>1, <4>3 DEF Taken
      <4> QED
        BY <2>1, <3>4, <4>4 DEF ArriveInv
    <3> QED
      BY <3>3, <3>4
  <2> QED
    BY <2>2, <2>3
<1>5. CASE ServerForwards
  <2>1. /\ stage = "decoded" /\ original' = original /\ forged' = forged /\ frame' = Encode(msg)
        /\ original \in Messages /\ stage' \in {"unsent", "toClient"}
    BY <1>5 DEF ServerForwards, ArriveInv
  <2>2. CASE forged
    BY <2>1, <2>2 DEF ArriveInv
  <2>3. CASE ~forged
    <3>1. msg = original /\ Announced(original) /\ OfBytes(original)
      BY <2>1, <2>3, MessageBack DEF ArriveInv
    <3>2. Carries(Encode(original), original)
      BY <3>1, AnnouncedParts, EncodeCarries
    <3>3. Carries(frame', original') /\ Announced(original')
      BY <2>1, <3>1, <3>2
    <3> QED
      BY <2>1, <3>3 DEF ArriveInv
  <2> QED
    BY <2>2, <2>3
<1>6. CASE NodeRelays
  <2>1. /\ stage = "toClient" /\ original' = original /\ forged' = forged
        /\ frame' = DecodeEnvelope(EncodeEnvelope(frame)) /\ stage' = "relayed"
    BY <1>6 DEF NodeRelays
  <2>2. ~forged => Carries(frame, original) /\ Announced(original)
    BY <2>1 DEF ArriveInv
  <2>3. ~forged => frame \in Seq(Byte)
    BY <2>2 DEF Carries
  <2>4. ~forged => frame' = frame
    BY <2>1, <2>3, EnvelopeKeeps
  <2>5. ~forged => Carries(frame', original') /\ Announced(original')
    BY <2>1, <2>2, <2>4
  <2> QED
    BY <2>1, <2>5 DEF ArriveInv
<1>7. CASE ClientReceives
  <2>1. /\ stage \in {"toClient", "relayed"} /\ original' = original /\ forged' = forged
        /\ original \in Messages /\ stage' \in {"received", "ignored"}
        /\ OnMessage(frame).out = "ok" =>
               stage' = "received" /\ msg' = Packet(OnMessage(frame).parts, frame[1], frame[2])
    BY <1>7 DEF ClientReceives, ArriveInv
  <2>2. CASE forged
    BY <2>1, <2>2 DEF ArriveInv
  <2>3. CASE ~forged
    <3>1. Carries(frame, original) /\ Announced(original) /\ OfBytes(original)
      BY <2>1, <2>3, MessageBack DEF ArriveInv
    <3>2. OnMessage(frame) = Taken(Len(frame), PartsOf(original), "ok")
      BY <3>1, ReadCarried
    <3>3. OnMessage(frame).out = "ok" /\ OnMessage(frame).parts = PartsOf(original)
      BY <3>2 DEF Taken
    <3>4. frame[1] = original.version /\ frame[2] = original.flags
      BY <3>1 DEF Carries
    <3>5. stage' = "received" /\ msg' = Packet(PartsOf(original), original.version, original.flags)
      BY <2>1, <3>3, <3>4
    <3>6. (\A t \in TextsOf(original) : ~Marked(t)) => msg' = original
      BY <2>1, <3>5, MessageBack
    <3>7. (\A t \in TextsOf(original') : ~Marked(t)) => msg' = original'
      BY <2>1, <3>6
    <3> QED
      BY <2>1, <3>5, <3>7 DEF ArriveInv
  <2> QED
    BY <2>2, <2>3
<1> QED
  BY <1>1, <1>2, <1>3, <1>4, <1>5, <1>6, <1>7 DEF WireNext, Trip, Arrived

(* The client's encoder and the server's, the server's decoder and the      *)
(* client's agree, on whatever messages, if texts are valid: what one       *)
(* client's new_message wrote is what another's onmessage reads, and        *)
(* nothing but its size gets a frame refused (roomer.js, message.js,        *)
(* adapter_redis.js).  A frame of the size the server accepts must have a   *)
(* payload whose length can be written in four bytes.                       *)
THEOREM MessagesArriveUnchanged ==
    ASSUME Texts \subseteq Seq(Characters), MaxMessage <= Power[4]
    PROVE  WireSpec => []ArrivesUnchanged
<1>1. ArriveInv => ArrivesUnchanged
  <2> SUFFICES ASSUME ArriveInv
               PROVE  ArrivesUnchanged
    OBVIOUS
  <2>1. ~forged => stage # "ignored" /\ (stage = "refused" => ~(Len(frame) <= MaxMessage))
    BY DEF ArriveInv
  <2>2. stage = "received" /\ ~forged /\ (\A t \in TextsOf(original) : ~Marked(t)) => msg = original
    BY DEF ArriveInv
  <2> QED
    BY <2>1, <2>2 DEF ArrivesUnchanged
<1>2. ArriveInv /\ [WireNext]_<<vars, wireVars>> => ArriveInv'
  BY ArriveStep
<1> QED
  BY <1>1, <1>2, ArriveInit, PTL DEF WireSpec

=============================================================================

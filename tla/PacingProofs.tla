---------------------------- MODULE PacingProofs ----------------------------
(***************************************************************************)
(* What plan_run promises, at any settings: a bigger backlog is never      *)
(* fetched faster, one number bounds every pause, the work is spread over  *)
(* as many runs as the plan says, and a block of hours has its length.     *)
(***************************************************************************)
EXTENDS Pacing, WellFoundedInduction, TLAPS

-----------------------------------------------------------------------------
(* Arithmetic.                                                             *)

LEMMA MulMono ==
  ASSUME NEW a \in Nat, NEW b \in Nat, NEW c \in Nat, NEW d \in Nat, a <= c, b <= d
  PROVE  a * b \in Nat /\ a * b <= c * d
<1>1. a * b <= c * b /\ c * b <= c * d
  BY SMT
<1>. QED BY <1>1

LEMMA DivMono ==
  ASSUME NEW a \in Nat, NEW b \in Nat, NEW d \in Nat \ {0}, a <= b
  PROVE  a \div d \in Nat /\ a \div d <= b \div d
BY SMT

LEMMA DivExact ==
  ASSUME NEW q \in Nat, NEW d \in Nat \ {0}
  PROVE  (q * d) \div d = q
BY SMT

\* Rounding up: the least multiple of d that is at least n.
LEMMA CeilDivIs ==
  ASSUME NEW n \in Nat, NEW d \in Nat \ {0}
  PROVE  /\ CeilDiv(n, d) \in Nat
         /\ n <= CeilDiv(n, d) * d
         /\ CeilDiv(n, d) * d < n + d
BY SMT DEF CeilDiv

LEMMA CeilDivUnique ==
  ASSUME NEW n \in Nat, NEW d \in Nat \ {0}, NEW q \in Nat, n <= q * d, q * d < n + d
  PROVE  CeilDiv(n, d) = q
<1>1. CeilDiv(n, d) \in Nat /\ n <= CeilDiv(n, d) * d /\ CeilDiv(n, d) * d < n + d
  BY CeilDivIs
<1>. DEFINE r == CeilDiv(n, d)
<1>2. ASSUME NEW s \in Nat, NEW t \in Nat, s < t, t * d < n + d, n <= s * d PROVE FALSE
  <2>1. (s + 1) * d <= t * d
    BY <1>2, MulMono
  <2>. QED BY <1>2, <2>1
<1>. HIDE DEF r
<1>. QED BY <1>1, <1>2 DEF r

LEMMA CeilDivMono ==
  ASSUME NEW m \in Nat, NEW n \in Nat, NEW d \in Nat \ {0}, m <= n
  PROVE  CeilDiv(m, d) <= CeilDiv(n, d)
BY DivMono, m + d - 1 \in Nat, n + d - 1 \in Nat, m + d - 1 <= n + d - 1 DEF CeilDiv

\* d more is one more.
LEMMA CeilDivMore ==
  ASSUME NEW n \in Nat, NEW d \in Nat \ {0}
  PROVE  CeilDiv(n + d, d) = CeilDiv(n, d) + 1
<1>1. CeilDiv(n, d) \in Nat /\ n <= CeilDiv(n, d) * d /\ CeilDiv(n, d) * d < n + d
  BY CeilDivIs
<1>. DEFINE q == CeilDiv(n, d)
<1>2. (q + 1) * d = q * d + d
  BY <1>1
<1>3. n + d \in Nat /\ q + 1 \in Nat
  BY <1>1
<1>. HIDE DEF q
<1>. QED BY <1>1, <1>2, <1>3, CeilDivUnique DEF q

\* A larger divisor, a smaller quotient.
LEMMA CeilDivAnti ==
  ASSUME NEW n \in Nat, NEW d \in Nat \ {0}, NEW e \in Nat \ {0}, d <= e
  PROVE  CeilDiv(n, e) <= CeilDiv(n, d)
<1>1. /\ CeilDiv(n, d) \in Nat /\ n <= CeilDiv(n, d) * d
      /\ CeilDiv(n, e) \in Nat /\ CeilDiv(n, e) * e < n + e
  BY CeilDivIs
<1>. DEFINE q == CeilDiv(n, d)
            r == CeilDiv(n, e)
<1>2. SUFFICES ASSUME q + 1 <= r PROVE FALSE
  BY <1>1
<1>3. q * d <= q * e /\ (q + 1) * e <= r * e /\ (q + 1) * e = q * e + e
  BY <1>1, <1>2, MulMono
<1>4. q * d \in Nat /\ q * e \in Nat /\ r * e \in Nat
  BY <1>1, MulMono
<1>. HIDE DEF q, r
<1>. QED BY <1>1, <1>3, <1>4 DEF q, r

-----------------------------------------------------------------------------
(* The slice of one run.                                                   *)

LEMMA SettingsTypes ==
  /\ Ceiling \in Nat \ {0} /\ Ramp \in Nat \ {0}
  /\ Low \in Nat /\ High \in Nat /\ Low <= High
  /\ MinDelay \in Nat /\ MaxDelay \in Nat
BY PacingAssumption DEF PacingAssumption, Ceiling, Ramp, Low, High, AtLeast, AtMost

\* A run takes something and no more than there is; one item more in the backlog
\* is at most one more in the slice.
LEMMA BudgetBounds ==
  ASSUME NEW b \in Nat \ {0}, NEW new \in BOOLEAN
  PROVE  /\ Budget(b, new) \in 1 .. b /\ Budget(b, new) <= Ceiling
         /\ Budget(b + 1, new) <= Budget(b, new) + 1
         /\ ~new => Budget(b, new) = AtMost(Ceiling, b)
<1>1. CASE ~new
  BY <1>1, SettingsTypes DEF Budget, AtMost
<1>2. CASE new
  <2>1. CeilDiv(b, Ramp) \in Nat /\ CeilDiv(b, Ramp) <= b
    BY SettingsTypes, CeilDivAnti, CeilDivIs, CeilDiv(b, 1) = b DEF CeilDiv
  <2>2. CeilDiv(b + 1, Ramp) \in Nat /\ CeilDiv(b + 1, Ramp) <= CeilDiv(b, Ramp) + 1
    <3>1. CeilDiv(b + 1, Ramp) <= CeilDiv(b + Ramp, Ramp)
      BY SettingsTypes, CeilDivMono
    <3>. QED BY <3>1, SettingsTypes, CeilDivMore, CeilDivIs
  <2>. QED BY <1>2, <2>1, <2>2, SettingsTypes DEF Budget, AtMost, AtLeast
<1>. QED BY <1>1, <1>2

-----------------------------------------------------------------------------
(* Delays.                                                                 *)

\* The weights run to 80000.
Whole == 80000

LEMMA WeightBounds ==
  ASSUME NEW b \in Nat \ {0}, NEW new \in BOOLEAN, NEW fav \in BOOLEAN
  PROVE  /\ Weight(b, new, fav) \in Nat /\ Weight(b, new, fav) <= Whole
         /\ Weight(b, new, fav) <= Weight(b + 1, new, fav)
         /\ Weight(b, new, TRUE) <= Weight(b, new, fav)
<1>1. Paced(b, new) => Paced(b + 1, new)
  BY PacingAssumption DEF PacingAssumption, Paced, AtLeast
<1>. DEFINE m == AtMost(Saturation, b)
            n == AtMost(Saturation, b + 1)
            p == Paced(b, new)
            q == Paced(b + 1, new)
            x == Weight(b, new, TRUE)
            y == Weight(b, new, FALSE)
            z == Weight(b + 1, new, TRUE)
            v == Weight(b + 1, new, FALSE)
<1>2. m \in Nat /\ n \in Nat /\ m <= n /\ n <= 200
  BY DEF AtMost, Saturation
<1>3. p => q
  BY <1>1
<1>4. /\ x = IF p THEN 21000 + 195 * m ELSE 12000
      /\ y = IF p THEN 28000 + 260 * m ELSE 16000
      /\ z = IF q THEN 21000 + 195 * n ELSE 12000
      /\ v = IF q THEN 28000 + 260 * n ELSE 16000
  BY SMT DEF Weight
<1>. HIDE DEF m, n, p, q, x, y, z, v
<1>5. /\ x \in Nat /\ y \in Nat /\ x <= Whole /\ y <= Whole
      /\ x <= y /\ x <= x /\ y <= y /\ x <= z /\ y <= v
  BY <1>2, <1>3, <1>4, SMT DEF Whole
<1>6. CASE fav = TRUE
  BY <1>5, <1>6, Zenon DEF x, z
<1>7. CASE fav = FALSE
  BY <1>5, <1>7, Zenon DEF x, y, v
<1>. QED BY <1>6, <1>7

LEMMA ScaledBounds ==
  ASSUME NEW b \in Nat \ {0}, NEW new \in BOOLEAN, NEW fav \in BOOLEAN
  PROVE  /\ ScaledDelay(b, new, fav) \in Nat
         /\ Low <= ScaledDelay(b, new, fav) /\ ScaledDelay(b, new, fav) <= High
         /\ ScaledDelay(b, new, fav) <= ScaledDelay(b + 1, new, fav)
         /\ ScaledDelay(b, new, TRUE) <= ScaledDelay(b, new, fav)
<1>. DEFINE span == High - Low
            Part(w) == (span * w) \div Whole
<1>1. span \in Nat
  BY SettingsTypes
<1>2. Whole \in Nat \ {0}
  BY SMT DEF Whole
<1>3. ASSUME NEW v \in Nat, NEW w \in Nat, v <= w
      PROVE  Part(v) \in Nat /\ Part(v) <= Part(w)
  <2>. HIDE DEF span
  <2>1. span * v \in Nat /\ span * w \in Nat /\ span * v <= span * w
    BY <1>1, <1>3, MulMono
  <2>. QED BY <1>2, <2>1, DivMono
<1>4. Part(Whole) = span
  <2>. HIDE DEF span
  <2>. QED BY <1>1, <1>2, DivExact
<1>5. ASSUME NEW v \in Nat, v <= Whole
      PROVE  Part(v) \in Nat /\ Part(v) <= span
  <2>. HIDE DEF Part
  <2>. QED BY <1>2, <1>3, <1>4, <1>5
<1>. DEFINE x == Weight(b, new, fav)
            y == Weight(b + 1, new, fav)
            z == Weight(b, new, TRUE)
            s == ScaledDelay(b, new, fav)
            t == ScaledDelay(b + 1, new, fav)
            u == ScaledDelay(b, new, TRUE)
<1>6. x \in Nat /\ y \in Nat /\ z \in Nat /\ x <= Whole /\ x <= y /\ z <= x
  <2>1. b + 1 \in Nat \ {0}
    OBVIOUS
  <2>. QED BY <2>1, WeightBounds
<1>7. s = Low + Part(x) /\ t = Low + Part(y) /\ u = Low + Part(z)
  BY DEF ScaledDelay, Whole
<1>. HIDE DEF x, y, z
<1>8. /\ Low \in Nat /\ span = High - Low /\ High \in Nat
  BY SettingsTypes
<1>9. /\ Part(x) \in Nat /\ Part(x) <= span /\ Part(y) \in Nat /\ Part(z) \in Nat
      /\ Part(x) <= Part(y) /\ Part(z) <= Part(x)
  <2>. HIDE DEF Part
  <2>. QED BY <1>3, <1>5, <1>6
<1>10. s \in Nat /\ Low <= s /\ s <= High /\ s <= t /\ u <= s
  <2>. HIDE DEF Part, span, s, t, u
  <2>. QED BY <1>7, <1>8, <1>9
<1>. QED BY <1>10

\* What Delay makes of the scaled delay after f failures.
Backed(d, f) ==
  IF f = 0 THEN d ELSE AtMost(4 * MaxDelay, (d * Backoff[AtMost(4, f)]) \div 16)

LEMMA BackoffGrows ==
  ASSUME NEW f \in 0 .. 5
  PROVE  /\ Backoff[AtMost(4, f)] \in 16 .. 81 /\ Backoff[AtMost(4, f + 1)] \in 16 .. 81
         /\ Backoff[AtMost(4, f)] <= Backoff[AtMost(4, f + 1)]
<1>1. /\ Backoff[0] = 16 /\ Backoff[1] = 24 /\ Backoff[2] = 36 /\ Backoff[3] = 54
      /\ Backoff[4] = 81
  BY DEF Backoff
<1>2. f = 0 \/ f = 1 \/ f = 2 \/ f = 3 \/ f = 4 \/ f = 5
  OBVIOUS
<1>. QED BY <1>1, <1>2 DEF AtMost

\* Backing off keeps the order of delays and stays under the larger of the delay
\* and four times the maximum.
LEMMA BackedBounds ==
  ASSUME NEW d \in Nat, NEW e \in Nat, d <= e, NEW f \in 0 .. 5
  PROVE  /\ Backed(d, f) \in Nat /\ Backed(d, f) <= Backed(e, f)
         /\ Backed(d, f) <= AtLeast(d, 4 * MaxDelay)
         /\ d <= 4 * MaxDelay => Backed(d, f) <= Backed(d, f + 1)
<1>. DEFINE k == Backoff[AtMost(4, f)]
            l == Backoff[AtMost(4, f + 1)]
<1>1. k \in Nat /\ l \in Nat /\ 16 <= k /\ k <= l
  BY BackoffGrows
<1>2. /\ (d * k) \div 16 \in Nat /\ (e * k) \div 16 \in Nat /\ (d * l) \div 16 \in Nat
      /\ (d * k) \div 16 <= (e * k) \div 16
      /\ (d * k) \div 16 <= (d * l) \div 16
      /\ d <= (d * k) \div 16
  <2>1. /\ d * k \in Nat /\ e * k \in Nat /\ d * l \in Nat /\ d * 16 \in Nat
        /\ d * k <= e * k /\ d * k <= d * l /\ d * 16 <= d * k
    <3>. HIDE DEF k, l
    <3>. QED BY <1>1, MulMono
  <2>2. (d * 16) \div 16 = d
    BY DivExact
  <2>. HIDE DEF k, l
  <2>. QED BY <2>1, <2>2, DivMono
<1>3. /\ \A c : Backed(c, f) = IF f = 0 THEN c ELSE AtMost(4 * MaxDelay, (c * k) \div 16)
      /\ Backed(d, f + 1) = AtMost(4 * MaxDelay, (d * l) \div 16)
  BY DEF Backed
<1>. HIDE DEF k, l
<1>. QED BY <1>2, <1>3, SettingsTypes DEF AtMost, AtLeast

LEMMA DelayIs ==
  ASSUME NEW b, NEW new, NEW fav, NEW f
  PROVE  Delay(b, new, fav, f) = Backed(ScaledDelay(b, new, fav), f)
BY DEF Delay, Backed

LEMMA RequeueMono ==
  ASSUME NEW r \in Nat, NEW s \in Nat, r <= s, NEW d \in Nat, NEW e \in Nat, d <= e
  PROVE  RequeueBase(r, d) <= RequeueBase(s, e)
<1>1. r * d \in Nat /\ s * e \in Nat /\ r * d <= s * e
  BY MulMono
<1>2. (r * d) \div 4 \in Nat /\ (s * e) \div 4 \in Nat /\ (r * d) \div 4 <= (s * e) \div 4
  BY <1>1, DivMono
<1>. QED BY <1>2 DEF RequeueBase, AtLeast, AtMost

\* The rule of pacing.py:3-6, for every backlog at any settings whose smallest delay
\* is at most four times the largest: past that, failures bring the delay down to
\* the cap of pacing.py:93 instead of up.
THEOREM SlowerAlways ==
  ASSUME NEW b \in Nat \ {0}, NEW new \in BOOLEAN, MinDelay <= 4 * MaxDelay
  PROVE  SlowerWithMore(b, new)
<1>1. SUFFICES ASSUME NEW fav \in BOOLEAN, NEW f \in 0 .. 5
      PROVE  LET d == Delay(b, new, fav, f)
                 more == Delay(b + 1, new, fav, f)
             IN /\ d <= more
                /\ RequeueBase(b - Budget(b, new), d)
                     <= RequeueBase(b + 1 - Budget(b + 1, new), more)
                /\ d <= Delay(b, new, fav, f + 1)
                /\ Delay(b, new, TRUE, f) <= d
                /\ f = 0 => Low <= d /\ d <= High
  BY DEF SlowerWithMore
<1>. DEFINE s == ScaledDelay(b, new, fav)
            t == ScaledDelay(b + 1, new, fav)
            u == ScaledDelay(b, new, TRUE)
<1>2. /\ s \in Nat /\ t \in Nat /\ u \in Nat /\ s <= t /\ u <= s
      /\ Low <= s /\ s <= High
  BY ScaledBounds, b + 1 \in Nat \ {0}
<1>3. s <= 4 * MaxDelay
  BY <1>2, SettingsTypes DEF High, AtLeast
<1>4. /\ Backed(s, f) \in Nat /\ Backed(t, f) \in Nat
      /\ Backed(s, f) <= Backed(t, f) /\ Backed(u, f) <= Backed(s, f)
      /\ Backed(s, f) <= Backed(s, f + 1)
      /\ f = 0 => Backed(s, f) = s
  <2>. HIDE DEF s, t, u
  <2>1. f = 0 => Backed(s, f) = s
    BY DEF Backed
  <2>2. Backed(s, f) \in Nat /\ Backed(s, f) <= Backed(t, f)
    BY <1>2, BackedBounds
  <2>3. Backed(s, f) <= Backed(s, f + 1)
    BY <1>2, <1>3, BackedBounds
  <2>4. Backed(u, f) <= Backed(s, f)
    BY <1>2, BackedBounds
  <2>5. Backed(t, f) \in Nat
    <3>1. t <= t
      BY <1>2
    <3>. QED BY <1>2, <3>1, BackedBounds
  <2>. QED BY <2>1, <2>2, <2>3, <2>4, <2>5
<1>5. /\ b - Budget(b, new) \in Nat /\ b + 1 - Budget(b + 1, new) \in Nat
      /\ b - Budget(b, new) <= b + 1 - Budget(b + 1, new)
  BY BudgetBounds, b + 1 \in Nat \ {0}
<1>6. RequeueBase(b - Budget(b, new), Backed(s, f))
        <= RequeueBase(b + 1 - Budget(b + 1, new), Backed(t, f))
  BY <1>4, <1>5, RequeueMono
<1>. HIDE DEF s, t, u
<1>. QED BY <1>2, <1>4, <1>6, DelayIs DEF s, t, u

\* One number bounds every pause of a run, whatever its backlog and however its
\* source has failed: the longest at the larger of the two delays and four times
\* the maximum.  A lease above it is renewed in time (sync.py:306-308).
THEOREM LeaseFits ==
  ASSUME NEW b \in Nat \ {0}, NEW new \in BOOLEAN, NEW ratio \in Int, NEW lease \in Int,
         LongestPause(AtLeast(High, 4 * MaxDelay), ratio) < lease
  PROVE  PausesFitLease(b, new, ratio, lease)
<1>. DEFINE worst == AtLeast(High, 4 * MaxDelay)
            wobble == 100 + AtLeast(0, AtMost(90, ratio))
<1>1. worst \in Nat /\ wobble \in Nat
  BY SettingsTypes DEF AtLeast, AtMost
<1>2. SUFFICES ASSUME NEW f \in 0 .. 5
      PROVE  LongestPause(Delay(b, new, FALSE, f), ratio) < lease
  BY DEF PausesFitLease
<1>. DEFINE d == Delay(b, new, FALSE, f)
<1>3. d \in Nat /\ d <= worst
  <2>. DEFINE s == ScaledDelay(b, new, FALSE)
  <2>1. s \in Nat /\ s <= High
    BY ScaledBounds
  <2>2. d = Backed(s, f)
    BY DelayIs
  <2>. HIDE DEF s, d
  <2>3. Backed(s, f) \in Nat /\ Backed(s, f) <= AtLeast(s, 4 * MaxDelay)
    <3>1. s <= s
      BY <2>1
    <3>. QED BY <2>1, <3>1, BackedBounds
  <2>4. AtLeast(s, 4 * MaxDelay) <= worst
    BY <2>1, SettingsTypes DEF AtLeast
  <2>5. AtLeast(s, 4 * MaxDelay) \in Nat
    BY <2>1, SettingsTypes DEF AtLeast
  <2>. HIDE DEF worst
  <2>. QED BY <1>1, <2>2, <2>3, <2>4, <2>5
<1>4. (8 * d * wobble) \div 100 \in Nat /\ (8 * worst * wobble) \div 100 \in Nat
      /\ (8 * d * wobble) \div 100 <= (8 * worst * wobble) \div 100
  <2>1. 8 * d \in Nat /\ 8 * worst \in Nat /\ 8 * d <= 8 * worst
    <3>. HIDE DEF d, worst
    <3>. QED BY <1>1, <1>3
  <2>2. /\ 8 * d * wobble \in Nat /\ 8 * worst * wobble \in Nat
        /\ 8 * d * wobble <= 8 * worst * wobble
    <3>. HIDE DEF d, worst, wobble
    <3>. QED BY <1>1, <2>1, MulMono
  <2>. HIDE DEF d, worst, wobble
  <2>. QED BY <2>2, DivMono
<1>5. \A c : LongestPause(c, ratio) = AtLeast(250, (8 * c * wobble) \div 100)
  BY DEF LongestPause
<1>6. LongestPause(worst, ratio) < lease
  OBVIOUS
<1>7. LongestPause(d, ratio) < lease
  <2>. HIDE DEF d, worst, wobble
  <2>. QED BY <1>4, <1>5, <1>6 DEF AtLeast
<1>. QED BY <1>7

\* A block of hours has the length its two ends say (config.py:138-148).
THEOREM BlockAlways == BlockLength
BY DEF BlockLength, InBlock

-----------------------------------------------------------------------------
(* How many runs a backlog takes.                                          *)

\* A set of numbers has a least one.
LEMMA LeastNat ==
  ASSUME NEW T \in SUBSET Nat, T # {}
  PROVE  \E n \in T : \A m \in T : n <= m
<1>1. PICK n \in T : \A m \in T : ~(<<m, n>> \in OpToRel(<, Nat))
  BY NatLessThanWellFounded, WFMin
<1>2. ASSUME NEW m \in T PROVE n <= m
  <2>1. m \in Nat /\ n \in Nat
    OBVIOUS
  <2>2. <<m, n>> \in OpToRel(<, Nat) <=> m < n
    BY <2>1 DEF OpToRel
  <2>3. ~(m < n)
    BY <1>1, <2>2
  <2>. QED BY <2>1, <2>3
<1>. QED BY <1>2

\* One slice less is one run less.
LEMMA SliceLess ==
  ASSUME NEW b \in Nat \ {0}, NEW k \in 1 .. b
  PROVE  b - k \in 0 .. b - 1 /\ CeilDiv(b, k) = CeilDiv(b - k, k) + 1
<1>1. b - k \in Nat /\ k \in Nat \ {0} /\ (b - k) + k = b
  OBVIOUS
<1>2. CeilDiv((b - k) + k, k) = CeilDiv(b - k, k) + 1
  BY <1>1, CeilDivMore
<1>. QED BY <1>1, <1>2

\* The slice of a run that is not the first.
Slice(b) == Budget(b, FALSE)

LEMMA SliceBounds ==
  ASSUME NEW b \in Nat \ {0}
  PROVE  /\ Slice(b) \in 1 .. b /\ Slice(b) = AtMost(Ceiling, b)
         /\ \A new \in BOOLEAN : ~new => Budget(b, new) = Slice(b)
<1>1. Slice(b) = AtMost(Ceiling, b)
  BY DEF Slice, Budget
<1>2. \A new \in BOOLEAN : ~new => Budget(b, new) = AtMost(Ceiling, b)
  BY DEF Budget
<1>. QED BY <1>1, <1>2, SettingsTypes DEF AtMost

LEMMA FullSlices ==
  ASSUME NEW b \in Nat \ {0}
  PROVE  /\ CeilDiv(b, Ceiling) = CeilDiv(b - Slice(b), Ceiling) + 1
         /\ CeilDiv(b, Slice(b)) = CeilDiv(b, Ceiling)
         /\ CeilDiv(0, Ceiling) = 0
<1>1. Ceiling \in Nat \ {0} /\ Slice(b) = AtMost(Ceiling, b)
  BY SettingsTypes, SliceBounds
<1>2. CeilDiv(0, Ceiling) = 0
  BY <1>1, CeilDivUnique
<1>3. CASE Ceiling <= b
  <2>1. Slice(b) = Ceiling /\ Ceiling \in 1 .. b
    BY <1>1, <1>3 DEF AtMost
  <2>. QED BY <1>2, <2>1, SliceLess
<1>4. CASE b < Ceiling
  <2>1. Slice(b) = b
    BY <1>1, <1>4 DEF AtMost
  <2>2. CeilDiv(b, Ceiling) = 1
    BY <1>1, <1>4, CeilDivUnique, 1 * Ceiling = Ceiling
  <2>3. CeilDiv(b, b) = 1
    BY CeilDivUnique, 1 * b = b
  <2>. QED BY <1>2, <2>1, <2>2, <2>3
<1>. QED BY <1>1, <1>3, <1>4

\* The function in Runs: no run for nothing, else one more than for the rest.
IsAfter(g, bound) ==
  g = [b \in 0 .. bound |-> IF b = 0 THEN 0 ELSE 1 + g[b - Slice(b)]]

LEMMA AfterExists ==
  ASSUME NEW bound \in Nat
  PROVE  IsAfter([b \in 0 .. bound |-> CeilDiv(b, Ceiling)], bound)
<1>. DEFINE g == [b \in 0 .. bound |-> CeilDiv(b, Ceiling)]
<1>1. ASSUME NEW b \in 0 .. bound
      PROVE  CeilDiv(b, Ceiling) = IF b = 0 THEN 0 ELSE 1 + g[b - Slice(b)]
  <2>1. CASE b = 0
    BY <2>1, FullSlices, 1 \in Nat \ {0}
  <2>2. CASE b # 0
    <3>. DEFINE r == b - Slice(b)
    <3>1. b \in Nat \ {0} /\ Slice(b) \in 1 .. b
      BY <2>2, SliceBounds
    <3>2. r \in 0 .. bound
      BY <3>1
    <3>3. CeilDiv(b, Ceiling) = CeilDiv(r, Ceiling) + 1 /\ CeilDiv(r, Ceiling) \in Nat
      BY <3>1, <3>2, FullSlices, CeilDivIs, SettingsTypes
    <3>. HIDE DEF r
    <3>4. g[r] = CeilDiv(r, Ceiling)
      BY <3>2
    <3>. HIDE DEF g
    <3>5. CeilDiv(b, Ceiling) = 1 + g[r]
      BY <3>3, <3>4
    <3>. QED BY <2>2, <3>5 DEF r
  <2>. QED BY <2>1, <2>2
<1>. QED BY <1>1 DEF IsAfter

LEMMA AfterUnique ==
  ASSUME NEW bound \in Nat, NEW g, IsAfter(g, bound)
  PROVE  \A b \in 0 .. bound : g[b] = CeilDiv(b, Ceiling)
<1>. DEFINE Bad == {b \in 0 .. bound : g[b] # CeilDiv(b, Ceiling)}
<1>1. SUFFICES ASSUME Bad # {} PROVE FALSE
  OBVIOUS
<1>2. PICK b \in Bad : \A c \in Bad : b <= c
  <2>1. Bad \in SUBSET Nat
    OBVIOUS
  <2>. HIDE DEF Bad
  <2>. QED BY <1>1, <2>1, LeastNat
<1>3. b \in 0 .. bound /\ g[b] # CeilDiv(b, Ceiling)
  OBVIOUS
<1>4. g[b] = IF b = 0 THEN 0 ELSE 1 + g[b - Slice(b)]
  BY <1>3 DEF IsAfter
<1>5. CASE b = 0
  BY <1>3, <1>4, <1>5, FullSlices, 1 \in Nat \ {0}
<1>6. CASE b # 0
  <2>. DEFINE r == b - Slice(b)
  <2>1. b \in Nat \ {0} /\ Slice(b) \in 1 .. b
    BY <1>3, <1>6, SliceBounds
  <2>2. r \in 0 .. bound /\ r < b
    BY <1>3, <2>1
  <2>3. CeilDiv(b, Ceiling) = CeilDiv(r, Ceiling) + 1 /\ CeilDiv(r, Ceiling) \in Nat
    BY <2>1, <2>2, FullSlices, CeilDivIs, SettingsTypes
  <2>4. g[b] = 1 + g[r]
    BY <1>4, <1>6
  <2>. HIDE DEF r
  <2>5. g[r] = CeilDiv(r, Ceiling)
    BY <1>2, <2>1, <2>2
  <2>. HIDE DEF Bad
  <2>. QED BY <1>3, <2>3, <2>4, <2>5
<1>. QED BY <1>5, <1>6

LEMMA RunsIs ==
  ASSUME NEW bound \in Nat, NEW b \in 1 .. bound, NEW new \in BOOLEAN
  PROVE  Runs(bound)[b][new] = 1 + CeilDiv(b - Budget(b, new), Ceiling)
<1>. DEFINE after[c \in 0 .. bound] == IF c = 0 THEN 0 ELSE 1 + after[c - Slice(c)]
<1>1. \E g : g = [c \in 0 .. bound |-> IF c = 0 THEN 0 ELSE 1 + g[c - Slice(c)]]
  BY AfterExists DEF IsAfter
<1>2. after = [c \in 0 .. bound |->
                 IF c = 0 THEN 0 ELSE 1 + after[c - Slice(c)]]
  BY <1>1
<1>3. Runs(bound) = [c \in 1 .. bound |-> [n \in BOOLEAN |-> 1 + after[c - Budget(c, n)]]]
  BY DEF Runs, Slice
<1>. HIDE DEF after
<1>4. \A c \in 0 .. bound : after[c] = CeilDiv(c, Ceiling)
  BY <1>2, AfterUnique DEF IsAfter
<1>5. b - Budget(b, new) \in 0 .. bound
  BY BudgetBounds, b \in Nat \ {0}
<1>. QED BY <1>3, <1>4, <1>5

\* spread_over_runs is the number of runs it takes, whatever the settings, and for
\* a first sync at least that; a first sync of more than one item in more than one
\* run leaves some (pacing.py:47-48, 71-77).
THEOREM SpreadAlways ==
  ASSUME NEW bound \in Nat, NEW new \in BOOLEAN
  PROVE  SpreadIsRuns(bound, new)
<1>1. SUFFICES ASSUME NEW b \in 1 .. bound
      PROVE  IF new THEN /\ Runs(bound)[b][new] <= Spread(b, new)
                         /\ b > 1 /\ Ramp > 1 => Budget(b, new) < b
                    ELSE Runs(bound)[b][new] = Spread(b, new)
  BY DEF SpreadIsRuns
<1>. DEFINE k == Budget(b, new)
            c == CeilDiv(b - k, Ceiling)
<1>2. b \in Nat \ {0}
  OBVIOUS
<1>3. k \in 1 .. b /\ k <= Ceiling /\ b - k \in Nat
  BY <1>2, BudgetBounds
<1>4. Runs(bound)[b][new] = 1 + c
  BY RunsIs
<1>5. CeilDiv(b, k) = CeilDiv(b - k, k) + 1
  BY <1>2, <1>3, SliceLess
<1>6. /\ CeilDiv(b - k, k) \in Nat /\ c \in Nat
      /\ c <= CeilDiv(b - k, k)
  <2>. DEFINE r == b - k
  <2>1. k \in Nat \ {0} /\ r \in Nat /\ Ceiling \in Nat \ {0} /\ k <= Ceiling
    BY <1>3, SettingsTypes
  <2>. HIDE DEF k, r
  <2>2. /\ CeilDiv(r, k) \in Nat /\ CeilDiv(r, Ceiling) \in Nat
        /\ CeilDiv(r, Ceiling) <= CeilDiv(r, k)
    BY <2>1, CeilDivAnti, CeilDivIs
  <2>. QED BY <2>2 DEF r
<1>7. Spread(b, new) = CeilDiv(b - k, k) + 1
  <2>1. Spread(b, new) = AtLeast(1, CeilDiv(b, k))
    BY DEF Spread
  <2>. HIDE DEF k, c
  <2>. QED BY <1>5, <1>6, <2>1 DEF AtLeast
<1>8. CASE ~new
  <2>1. k = Slice(b)
    BY <1>8, <1>2, SliceBounds
  <2>2. CeilDiv(b, k) = 1 + c
    <3>1. CeilDiv(b, Ceiling) = c + 1 /\ CeilDiv(b, k) = CeilDiv(b, Ceiling)
      BY <1>2, <2>1, FullSlices
    <3>. HIDE DEF k, c
    <3>. QED BY <1>6, <3>1
  <2>. HIDE DEF k, c
  <2>. QED BY <1>4, <1>5, <1>7, <1>8, <2>2
<1>9. CASE new
  <2>1. ASSUME b > 1, Ramp > 1 PROVE k < b
    <3>1. /\ CeilDiv(b, 2) \in Nat /\ CeilDiv(b, 2) * 2 < b + 2
          /\ CeilDiv(b, Ramp) \in Nat /\ CeilDiv(b, Ramp) <= CeilDiv(b, 2)
      BY <1>2, <2>1, SettingsTypes, CeilDivIs, CeilDivAnti, 2 \in Nat \ {0}
    <3>2. CeilDiv(b, Ramp) < b
      BY <1>2, <2>1, <3>1
    <3>. QED BY <1>2, <1>9, <2>1, <3>1, <3>2, SettingsTypes DEF Budget, AtMost, AtLeast
  <2>2. 1 + c <= CeilDiv(b - k, k) + 1
    <3>. DEFINE r == CeilDiv(b - k, k)
    <3>. HIDE DEF c, r
    <3>. QED BY <1>6 DEF r
  <2>3. Runs(bound)[b][new] <= Spread(b, new)
    <3>. HIDE DEF k, c
    <3>. QED BY <1>4, <1>7, <2>2, Zenon
  <2>. QED BY <1>9, <2>1, <2>3, Zenon
<1>. QED BY <1>8, <1>9

=============================================================================

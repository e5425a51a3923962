---------------------------- MODULE AlgorithmProofs -----------------------------
(***************************************************************************)
(* Proofs about the pure algorithms: SimTime, ValidationOracle and         *)
(* NavMessageLayouts.  For every length of a week and every width of the   *)
(* integers that holds two weeks, a time, a difference or an epoch is      *)
(* exact or refused; for every scenario on a grid of sampling steps the    *)
(* counts that the validation harness expects are what the scenario engine *)
(* does over the epochs; the plan of every message layout is the earliest  *)
(* one, and the collector completes exactly the whole ephemerides.         *)
(***************************************************************************)
EXTENDS SimTime, ValidationOracle, NavMessageLayouts, WellFoundedInduction, TLAPS

-----------------------------------------------------------------------------
(* Division.                                                               *)

LEMMA Constants ==
  /\ WeekNs \in Nat \ {0} /\ MaxWeek \in Nat \ {0}
  /\ MaxInt \in Nat /\ MaxInt >= 2 * WeekNs /\ MaxInt + 1 > 0
  /\ MinInt \in Int /\ MinInt = -MaxInt - 1
  /\ Intervals \subseteq Nat \ {0}
BY SimTimeAssumption DEF MinInt

LEMMA FloorDivision ==
  ASSUME NEW a \in Int, NEW b \in Nat \ {0}
  PROVE  /\ a \div b \in Int /\ a % b \in 0..(b - 1)
         /\ a = b * (a \div b) + (a % b)
OBVIOUS

(* A multiple of b between a - b and a + b is the one below a or above it. *)
LEMMA Ordered ==
  ASSUME NEW b \in Nat \ {0}, NEW p \in Int, NEW q \in Int
  PROVE  /\ b * p \in Int /\ b * q \in Int
         /\ p <= q => b * p <= b * q
         /\ p < q => b * p + b <= b * q
         /\ b * (p + q) = b * p + b * q /\ b * (p - q) = b * p - b * q
<1>1. b * p \in Int /\ b * q \in Int
  OBVIOUS
<1>2. b * (p + q) = b * p + b * q /\ b * (p - q) = b * p - b * q
  OBVIOUS
<1>3. p <= q => b * p <= b * q
  <2>1. \A n \in Nat : b * n >= 0
    OBVIOUS
  <2>2. p <= q => b * (q - p) >= 0
    BY <2>1
  <2>3. b * (q - p) = b * q - b * p
    OBVIOUS
  <2>4. QED
    BY <1>1, <2>2, <2>3
<1>4. p < q => b * p + b <= b * q
  <2>1. p < q => b * (q - p - 1) >= 0
    <3>1. \A n \in Nat : b * n >= 0
      OBVIOUS
    <3>2. QED
      BY <3>1
  <2>2. b * (q - p - 1) = b * q - b * p - b
    OBVIOUS
  <2>3. QED
    BY <1>1, <2>1, <2>2
<1>5. QED
  BY <1>1, <1>2, <1>3, <1>4

(* Truncating division keeps the sign of the dividend. *)
LEMMA Truncation ==
  ASSUME NEW a \in Int, NEW b \in Nat \ {0}
  PROVE  /\ Quot(a, b) \in Int /\ Remainder(a, b) \in Int
         /\ a = b * Quot(a, b) + Remainder(a, b)
         /\ a >= 0 => Quot(a, b) >= 0 /\ Remainder(a, b) \in 0..(b - 1)
         /\ a <= 0 => Quot(a, b) <= 0 /\ -Remainder(a, b) \in 0..(b - 1)
<1>1. CASE a >= 0
  <2> DEFINE q == a \div b
             r == a % b
  <2>1. q \in Int /\ r \in 0..(b - 1) /\ a = b * q + r
    BY FloorDivision
  <2>2. Quot(a, b) = q
    BY <1>1 DEF Quot
  <2> HIDE DEF q, r
  <2>3. Remainder(a, b) = r
    <3>1. b * q \in Int
      BY <2>1
    <3>2. QED
      BY <2>1, <2>2, <3>1 DEF Remainder
  <2>4. q >= 0
    <3>1. q < 0 => b * q + b <= b * 0
      BY <2>1, Ordered
    <3>2. b * q \in Int /\ b * 0 = 0
      BY <2>1
    <3>3. QED
      BY <1>1, <2>1, <3>1, <3>2
  <2>5. a <= 0 => q <= 0 /\ -r \in 0..(b - 1)
    <3>1. q > 0 => b * 0 + b <= b * q
      BY <2>1, Ordered
    <3>2. b * q \in Int /\ b * 0 = 0
      BY <2>1
    <3>3. 0 <= q => b * 0 <= b * q
      BY <2>1, Ordered
    <3>4. QED
      BY <1>1, <2>1, <2>4, <3>1, <3>2, <3>3
  <2>6. QED
    BY <1>1, <2>1, <2>2, <2>3, <2>4, <2>5
<1>2. CASE a < 0
  <2> DEFINE q == (-a) \div b
             r == (-a) % b
  <2>1. q \in Int /\ r \in 0..(b - 1) /\ -a = b * q + r
    <3>1. -a \in Int
      OBVIOUS
    <3> DEFINE c == -a
    <3>2. c \in Int
      BY <3>1
    <3> HIDE DEF c
    <3>3. c \div b \in Int /\ c % b \in 0..(b - 1) /\ c = b * (c \div b) + (c % b)
      BY <3>2, FloorDivision
    <3>4. QED
      BY <3>3 DEF c, q, r
  <2>2. Quot(a, b) = -q
    BY <1>2 DEF Quot
  <2> HIDE DEF q, r
  <2>3. b * q \in Int /\ b * (-q) = -(b * q)
    <3>1. b * (0 - q) = b * 0 - b * q /\ b * q \in Int /\ b * 0 = 0
      BY <2>1, Ordered
    <3>2. -q = 0 - q /\ -(b * q) = 0 - b * q
      BY <2>1, <3>1
    <3>3. QED
      BY <3>1, <3>2
  <2>4. Remainder(a, b) = -r
    BY <2>1, <2>2, <2>3 DEF Remainder
  <2>5. q >= 0
    <3>1. q < 0 => b * q + b <= b * 0
      BY <2>1, Ordered
    <3>2. b * 0 = 0
      OBVIOUS
    <3>3. QED
      BY <1>2, <2>1, <2>3, <3>1, <3>2
  <2>6. QED
    BY <1>2, <2>1, <2>2, <2>3, <2>4, <2>5
<1>3. QED
  BY <1>1, <1>2

LEMMA WrapInRange ==
  ASSUME NEW x \in MinInt..MaxInt
  PROVE  Wrap(x) = x
<1> DEFINE m == 2 * (MaxInt + 1)
           y == x - MinInt
           q == y \div m
           r == y % m
<1>1. MaxInt \in Nat /\ MinInt = -MaxInt - 1 /\ MinInt \in Int
  BY Constants
<1>2. x \in Int /\ MinInt <= x /\ x <= MaxInt
  BY <1>1
<1>3. m \in Nat \ {0} /\ y \in 0..(m - 1)
  BY <1>1, <1>2
<1>4. Wrap(x) = r + MinInt
  BY DEF Wrap
<1>6. y + MinInt = x
  BY <1>1, <1>2
<1> HIDE DEF m, y
<1>5. q \in Int /\ r \in 0..(m - 1) /\ y = m * q + r
  BY <1>3, FloorDivision
<1> HIDE DEF q, r
<1>7. /\ q < 0 => m * q + m <= m * 0
      /\ 0 < q => m * 0 + m <= m * q
  BY <1>3, <1>5, Ordered
<1>8. m * q \in Int /\ m * 0 = 0
  BY <1>3, <1>5
<1>9. q = 0
  BY <1>3, <1>5, <1>7, <1>8
<1>10. r = y
  BY <1>3, <1>5, <1>8, <1>9
<1>11. QED
  BY <1>4, <1>6, <1>10

-----------------------------------------------------------------------------
(* A time is a number of nanoseconds, and a number is one time or none.    *)

LEMMA DivisionIsUnique ==
  ASSUME NEW b \in Nat \ {0}, NEW p \in Int, NEW q \in Int,
         NEW x \in 0..(b - 1), NEW y \in 0..(b - 1), b * p + x = b * q + y
  PROVE  p = q /\ x = y
<1>1. b * p \in Int /\ b * q \in Int /\ (p < q => b * p + b <= b * q) /\ (q < p => b * q + b <= b * p)
  BY Ordered
<1>2. ~(p < q) /\ ~(q < p)
  BY <1>1
<1>3. p = q
  BY <1>2
<1>4. QED
  BY <1>1, <1>3

LEMMA TimeFacts ==
  ASSUME NEW t \in Times
  PROVE  /\ t.week \in 0..MaxWeek /\ t.week \in Nat
         /\ t.tow \in 0..(WeekNs - 1) /\ t.tow \in Nat
         /\ t = [week |-> t.week, tow |-> t.tow]
         /\ Absolute(t) = WeekNs * t.week + t.tow /\ Absolute(t) \in Nat
<1>1. /\ t.week \in 0..MaxWeek /\ t.tow \in 0..(WeekNs - 1)
      /\ t = [week |-> t.week, tow |-> t.tow]
  BY DEF Times
<1>2. t.week \in Nat /\ t.tow \in Nat
  BY <1>1, Constants
<1>3. t.week * WeekNs = WeekNs * t.week /\ WeekNs * t.week \in Nat
  BY <1>2, Constants
<1>4. QED
  BY <1>1, <1>2, <1>3 DEF Absolute

LEMMA OneTime ==
  ASSUME NEW week \in Int, NEW tow \in 0..(WeekNs - 1)
  PROVE  AtAbsolute(WeekNs * week + tow) = {[week |-> w, tow |-> tow] : w \in WeekAfter(week, 0)}
<1>1. WeekNs \in Nat \ {0} /\ MaxWeek \in Nat /\ week + 0 = week
  BY Constants
<1>2. ASSUME NEW t \in Times, Absolute(t) = WeekNs * week + tow
      PROVE  t.week = week /\ t.tow = tow
  <2>1. WeekNs * t.week + t.tow = WeekNs * week + tow /\ t.week \in Int /\ t.tow \in 0..(WeekNs - 1)
    BY <1>2, TimeFacts
  <2> DEFINE v == t.week
             x == t.tow
  <2>2. WeekNs * v + x = WeekNs * week + tow /\ v \in Int /\ x \in 0..(WeekNs - 1)
    BY <2>1
  <2> HIDE DEF v, x
  <2>3. v = week /\ x = tow
    BY <1>1, <2>2, DivisionIsUnique
  <2>4. QED
    BY <2>3 DEF v, x
<1>3. CASE week \in 0..MaxWeek
  <2> DEFINE u == [week |-> week, tow |-> tow]
  <2>1. u \in Times /\ u.week = week /\ u.tow = tow
    BY <1>3 DEF Times
  <2>2. Absolute(u) = WeekNs * week + tow
    BY <2>1, TimeFacts
  <2>3. \A t \in Times : Absolute(t) = WeekNs * week + tow => t = u
    BY <1>2, TimeFacts
  <2>4. WeekAfter(week, 0) = {week}
    BY <1>1, <1>3 DEF WeekAfter
  <2>5. QED
    BY <2>1, <2>2, <2>3, <2>4 DEF AtAbsolute
<1>4. CASE week \notin 0..MaxWeek
  <2>1. \A t \in Times : Absolute(t) # WeekNs * week + tow
    BY <1>2, <1>4, TimeFacts
  <2>2. WeekAfter(week, 0) = {}
    BY <1>1, <1>4 DEF WeekAfter
  <2>3. QED
    BY <2>1, <2>2 DEF AtAbsolute
<1>5. QED
  BY <1>3, <1>4

(* normalize_sim_time: exact, or refused for want of a week to hold it. *)
LEMMA NormalizeIsExact ==
  ASSUME NEW week \in Int, NEW ns \in Int
  PROVE  Normalize(week, ns) = AtAbsolute(week * WeekNs + ns)
<1> DEFINE q == Quot(ns, WeekNs)
           r == Remainder(ns, WeekNs)
           k == IF r < 0 THEN 1 ELSE 0
           w == week + (q - k)
           tow == r + k * WeekNs
<1>1. WeekNs \in Nat \ {0} /\ MaxWeek \in Nat
  BY Constants
<1>2. /\ q \in Int /\ r \in Int /\ ns = WeekNs * q + r
      /\ ns >= 0 => r \in 0..(WeekNs - 1)
      /\ ns <= 0 => -r \in 0..(WeekNs - 1)
  BY <1>1, Truncation
<1>3. Normalize(week, ns) = {[week |-> v, tow |-> tow] : v \in WeekAfter(week, q - k)}
  BY DEF Normalize
<1> HIDE DEF q, r
<1>4. k \in {0, 1} /\ w \in Int /\ w + 0 = w
  BY <1>2
<1>5. tow \in 0..(WeekNs - 1)
  BY <1>1, <1>2
<1>6. WeekNs * w + tow = week * WeekNs + ns
  <2>1. /\ WeekNs * w = WeekNs * week + WeekNs * (q - k)
        /\ WeekNs * (q - k) = WeekNs * q - WeekNs * k
        /\ WeekNs * week \in Int /\ WeekNs * q \in Int
    BY <1>1, <1>2, <1>4, Ordered
  <2>2. week * WeekNs = WeekNs * week /\ WeekNs * k = k * WeekNs /\ k * WeekNs \in Int
    BY <1>1, <1>4
  <2> HIDE DEF k
  <2>3. QED
    BY <1>1, <1>2, <2>1, <2>2
<1>7. WeekAfter(week, q - k) = WeekAfter(w, 0)
  BY <1>4 DEF WeekAfter
<1> HIDE DEF w, tow, k
<1>8. AtAbsolute(WeekNs * w + tow) = {[week |-> v, tow |-> tow] : v \in WeekAfter(w, 0)}
  BY <1>4, <1>5, OneTime
<1>9. QED
  BY <1>3, <1>6, <1>7, <1>8

(* A number before the first week, or after the last, is no time. *)
LEMMA OutsideTheWeeks ==
  ASSUME NEW x \in Int, x < 0 \/ x >= WeekNs * (MaxWeek + 1)
  PROVE  AtAbsolute(x) = {}
<1>1. WeekNs \in Nat \ {0} /\ MaxWeek \in Nat
  BY Constants
<1>2. ASSUME NEW t \in Times PROVE Absolute(t) # x
  <2>1. /\ t.week \in Int /\ t.week < MaxWeek + 1 /\ t.tow \in Nat /\ t.tow < WeekNs
        /\ Absolute(t) = WeekNs * t.week + t.tow /\ Absolute(t) \in Nat
    BY <1>1, TimeFacts
  <2>2. MaxWeek + 1 \in Int
    BY <1>1
  <2>3. /\ WeekNs * t.week \in Int /\ WeekNs * (MaxWeek + 1) \in Int
        /\ WeekNs * t.week + WeekNs <= WeekNs * (MaxWeek + 1)
    BY <1>1, <2>1, <2>2, Ordered
  <2>4. QED
    BY <1>1, <2>1, <2>3
<1>3. QED
  BY <1>2 DEF AtAbsolute

(* add_time_ns: the weeks are added first, and a sum that fits is not refused there. *)
LEMMA AddIsSum ==
  ASSUME NEW t \in Times, NEW ns \in Int
  PROVE  Add(t, ns) = AtAbsolute(Absolute(t) + ns)
<1> DEFINE q == Quot(ns, WeekNs)
           r == Remainder(ns, WeekNs)
           w == t.week + q
           x == t.tow + r
<1>1. WeekNs \in Nat \ {0} /\ MaxWeek \in Nat
  BY Constants
<1>2. /\ q \in Int /\ r \in Int /\ ns = WeekNs * q + r
      /\ ns >= 0 => q >= 0 /\ r \in 0..(WeekNs - 1)
      /\ ns <= 0 => q <= 0 /\ -r \in 0..(WeekNs - 1)
  BY <1>1, Truncation
<1>3. Add(t, ns) = UNION {Normalize(v, Wrap(x)) : v \in WeekAfter(t.week, q)}
  BY DEF Add
<1>4. /\ t.week \in Nat /\ t.week <= MaxWeek /\ t.tow \in Nat /\ t.tow <= WeekNs - 1
      /\ Absolute(t) = WeekNs * t.week + t.tow /\ Absolute(t) \in Nat
  BY <1>1, TimeFacts
<1> HIDE DEF q, r
<1>5. x \in Int /\ w \in Int /\ x \in MinInt..MaxInt
  BY <1>1, <1>2, <1>4, Constants
<1>6. Wrap(x) = x
  BY <1>5, WrapInRange
<1>7. WeekNs * w = WeekNs * t.week + WeekNs * q /\ WeekNs * t.week \in Int /\ WeekNs * q \in Int
  BY <1>1, <1>2, <1>4, Ordered
<1>8. Absolute(t) + ns = WeekNs * w + x /\ WeekNs * w \in Int
  BY <1>1, <1>2, <1>4, <1>5, <1>7
<1>9. CASE w \in 0..MaxWeek
  <2>1. WeekAfter(t.week, q) = {w}
    BY <1>9 DEF WeekAfter
  <2>2. w * WeekNs = WeekNs * w
    BY <1>1, <1>5
  <2> HIDE DEF w, x
  <2>3. Add(t, ns) = Normalize(w, x)
    BY <1>3, <1>6, <2>1
  <2>4. QED
    BY <1>5, <1>8, <2>2, <2>3, NormalizeIsExact
<1>10. CASE w < 0
  <2>1. ns <= 0 /\ r <= 0
    BY <1>2, <1>4, <1>10
  <2>2. x <= WeekNs - 1
    BY <1>1, <1>2, <1>4, <2>1
  <2>3. WeekNs * w + WeekNs <= WeekNs * 0 /\ WeekNs * 0 = 0
    BY <1>1, <1>5, <1>10, Ordered
  <2>4. WeekAfter(t.week, q) = {}
    BY <1>1, <1>5, <1>10 DEF WeekAfter
  <2>5. Add(t, ns) = {}
    BY <1>3, <2>4
  <2> HIDE DEF w, x
  <2>6. WeekNs * w + x \in Int /\ WeekNs * w + x < 0
    BY <1>1, <1>5, <1>8, <2>2, <2>3
  <2>7. QED
    BY <1>8, <2>5, <2>6, OutsideTheWeeks
<1>11. CASE w > MaxWeek
  <2>1. ns >= 0 /\ r >= 0
    BY <1>1, <1>2, <1>4, <1>11
  <2>2. x >= 0
    BY <1>2, <1>4, <2>1
  <2>3. WeekNs * (MaxWeek + 1) <= WeekNs * w /\ WeekNs * (MaxWeek + 1) \in Int
    <3>1. MaxWeek + 1 \in Int /\ MaxWeek + 1 <= w
      BY <1>1, <1>5, <1>11
    <3> HIDE DEF w
    <3>2. QED
      BY <1>1, <1>5, <3>1, Ordered
  <2>4. WeekAfter(t.week, q) = {}
    BY <1>1, <1>5, <1>11 DEF WeekAfter
  <2>5. Add(t, ns) = {}
    BY <1>3, <2>4
  <2> HIDE DEF w, x
  <2>6. WeekNs * w + x \in Int /\ WeekNs * w + x >= WeekNs * (MaxWeek + 1)
    BY <1>1, <1>5, <1>8, <2>2, <2>3
  <2>7. QED
    BY <1>8, <2>5, <2>6, OutsideTheWeeks
<1>12. QED
  BY <1>1, <1>5, <1>9, <1>10, <1>11

(* sim_time_from_week_sow: llround takes a half away from zero. *)
LEMMA RoundedHalf ==
  ASSUME NEW week \in Int, NEW ns \in Int, NEW half \in {-1, 1}
  PROVE  LET rounded == IF 2 * ns + half >= 0 THEN ns + (1 + half) \div 2 ELSE ns - (1 - half) \div 2
         IN  FromWeekSow(week, 2 * ns + half) =
               (IF 2 * ns + half \in (2 * MinInt)..(2 * MaxInt)
                  THEN AtAbsolute(week * WeekNs + rounded) ELSE {})
<1> DEFINE h == 2 * ns + half
           rounded == IF h >= 0 THEN ns + (1 + half) \div 2 ELSE ns - (1 - half) \div 2
           nearest == Quot(h + (IF h < 0 THEN -1 ELSE 1), 2)
<1>1. h \in Int /\ 2 * MinInt \in Int /\ 2 * MaxInt \in Int
  BY Constants
<1>2. rounded \in Int /\ nearest = rounded
  <2>1. (1 + 1) \div 2 = 1 /\ (1 - 1) \div 2 = 0 /\ (1 + (-1)) \div 2 = 0 /\ (1 - (-1)) \div 2 = 1
    OBVIOUS
  <2>2. /\ \A n \in Int : n >= 0 => Quot(2 * n, 2) = n
        /\ \A n \in Int : n < 0 => Quot(2 * n, 2) = n
    BY DEF Quot
  <2>3. CASE half = 1 /\ h >= 0
    <3>1. h + 1 = 2 * (ns + 1) /\ ns + 1 \in Int /\ ns + 1 >= 0 /\ ~(h < 0)
      BY <2>3
    <3>2. rounded = ns + 1
      BY <2>1, <2>3
    <3>3. nearest = Quot(2 * (ns + 1), 2)
      BY <3>1
    <3>4. QED
      BY <2>2, <3>1, <3>2, <3>3
  <2>4. CASE half = 1 /\ h < 0
    <3>1. h - 1 = 2 * ns /\ ns < 0 /\ h + (-1) = h - 1
      BY <2>4
    <3>2. rounded = ns
      BY <2>1, <2>4
    <3>3. nearest = Quot(2 * ns, 2)
      BY <2>4, <3>1
    <3>4. QED
      BY <2>2, <3>1, <3>2, <3>3
  <2>5. CASE half = -1 /\ h >= 0
    <3>1. h + 1 = 2 * ns /\ ns >= 0 /\ ~(h < 0)
      BY <2>5
    <3>2. rounded = ns
      BY <2>1, <2>5
    <3>3. nearest = Quot(2 * ns, 2)
      BY <3>1
    <3>4. QED
      BY <2>2, <3>1, <3>2, <3>3
  <2>6. CASE half = -1 /\ h < 0
    <3>1. h + (-1) = 2 * (ns - 1) /\ ns - 1 \in Int /\ ns - 1 < 0
      BY <2>6
    <3>2. rounded = ns - 1
      BY <2>1, <2>6
    <3>3. nearest = Quot(2 * (ns - 1), 2)
      BY <2>6, <3>1
    <3>4. QED
      BY <2>2, <3>1, <3>2, <3>3
  <2>7. QED
    BY <1>1, <2>3, <2>4, <2>5, <2>6
<1>3. FromWeekSow(week, h) =
        IF h < 2 * MinInt \/ h > 2 * MaxInt THEN {} ELSE Normalize(week, nearest)
  BY DEF FromWeekSow
<1>4. Normalize(week, rounded) = AtAbsolute(week * WeekNs + rounded)
  BY <1>2, NormalizeIsExact
<1> HIDE DEF nearest, rounded, h
<1>5. FromWeekSow(week, h) =
        IF h \in (2 * MinInt)..(2 * MaxInt) THEN AtAbsolute(week * WeekNs + rounded) ELSE {}
  BY <1>1, <1>2, <1>3, <1>4
<1>6. QED
  BY <1>5 DEF h, rounded

-----------------------------------------------------------------------------
(* The theorems.                                                           *)

\* add_time_ns, normalize_sim_time and sim_time_from_week_sow: for every time
\* and every offset an int64 can hold, the result is exact, across any number
\* of weeks and in either direction, and is refused only if its week is out
\* of range.
THEOREM AdditionIsExact ==
  ASSUME NEW t \in Times, NEW ns \in MinInt..MaxInt
  PROVE  AddIsExact(t, ns)
<1>1. ns \in Int /\ t.week \in Int
  BY Constants, TimeFacts
<1>2. Add(t, ns) = AtAbsolute(Absolute(t) + ns)
  BY <1>1, AddIsSum
<1>3. Normalize(t.week, ns) = AtAbsolute(t.week * WeekNs + ns)
  BY <1>1, NormalizeIsExact
<1>4. ASSUME NEW half \in {-1, 1}
      PROVE  LET rounded == IF 2 * ns + half >= 0 THEN ns + (1 + half) \div 2
                            ELSE ns - (1 - half) \div 2
             IN  FromWeekSow(t.week, 2 * ns + half) =
                   (IF 2 * ns + half \in (2 * MinInt)..(2 * MaxInt)
                      THEN AtAbsolute(t.week * WeekNs + rounded) ELSE {})
  <2> DEFINE week == t.week
  <2>1. week \in Int
    BY <1>1
  <2> HIDE DEF week
  <2>2. LET rounded == IF 2 * ns + half >= 0 THEN ns + (1 + half) \div 2
                       ELSE ns - (1 - half) \div 2
        IN  FromWeekSow(week, 2 * ns + half) =
              (IF 2 * ns + half \in (2 * MinInt)..(2 * MaxInt)
                 THEN AtAbsolute(week * WeekNs + rounded) ELSE {})
    BY <1>1, <2>1, RoundedHalf
  <2>3. QED
    BY <2>2 DEF week
<1>5. QED
  BY Zenon, <1>2, <1>3, <1>4 DEF AddIsExact

\* difference_time_ns and compare_sim_time: a difference is exact or refused,
\* is not refused unless it comes within a week of the integer limits, and
\* has the sign of the comparison.
THEOREM DifferencesAreExact ==
  ASSUME NEW l \in Times, NEW r \in Times
  PROVE  DifferenceIsExact(l, r)
<1> DEFINE n == l.week - r.week
           tow == l.tow - r.tow
           d == Absolute(l) - Absolute(r)
           B == Quot(MaxInt, WeekNs)
           far == \/ n > B \/ n < -B
                  \/ tow > 0 /\ Wrap(n * WeekNs) > MaxInt - tow
                  \/ tow < 0 /\ Wrap(n * WeekNs) < MinInt - tow
<1>1. /\ WeekNs \in Nat \ {0} /\ MaxWeek \in Nat /\ MaxInt \in Nat /\ MaxInt >= 2 * WeekNs
      /\ MinInt = -MaxInt - 1 /\ MinInt \in Int
  BY Constants
<1>2. /\ l.week \in Nat /\ r.week \in Nat /\ l.tow \in 0..(WeekNs - 1) /\ r.tow \in 0..(WeekNs - 1)
      /\ l = [week |-> l.week, tow |-> l.tow] /\ r = [week |-> r.week, tow |-> r.tow]
      /\ Absolute(l) = WeekNs * l.week + l.tow /\ Absolute(r) = WeekNs * r.week + r.tow
  BY TimeFacts
<1>3. n \in Int /\ tow \in Int /\ tow \in (-(WeekNs - 1))..(WeekNs - 1)
  BY <1>1, <1>2
<1>4. d = WeekNs * n + tow /\ WeekNs * n \in Int /\ d \in Int
  <2> DEFINE lw == l.week
             rw == r.week
  <2>1. lw \in Int /\ rw \in Int /\ n = lw - rw
    BY <1>2
  <2>2. Absolute(l) = WeekNs * lw + l.tow /\ Absolute(r) = WeekNs * rw + r.tow
    BY <1>2
  <2> HIDE DEF lw, rw, n
  <2>3. WeekNs * n = WeekNs * lw - WeekNs * rw /\ WeekNs * lw \in Int /\ WeekNs * rw \in Int
    BY <1>1, <2>1, Ordered
  <2>4. QED
    BY <1>1, <1>2, <1>3, <2>1, <2>2, <2>3
<1>5. B \in Nat /\ WeekNs * B \in Int /\ WeekNs * B <= MaxInt /\ MaxInt < WeekNs * B + WeekNs
  <2>1. /\ B \in Int /\ B >= 0 /\ MaxInt = WeekNs * B + Remainder(MaxInt, WeekNs)
        /\ Remainder(MaxInt, WeekNs) \in 0..(WeekNs - 1)
    BY <1>1, Truncation
  <2> HIDE DEF B
  <2>2. WeekNs * B \in Int
    BY <1>1, <2>1
  <2>3. QED
    BY <1>1, <2>1, <2>2
<1>6. Difference(l, r) = IF far THEN {} ELSE {Wrap(Wrap(n * WeekNs) + tow)}
  BY DEF Difference
<1> HIDE DEF B
<1>7. n <= B /\ -B <= n => Wrap(n * WeekNs) = WeekNs * n
  <2>1. n * WeekNs = WeekNs * n
    BY <1>1, <1>3
  <2> HIDE DEF n
  <2>2. n <= B => WeekNs * n <= WeekNs * B
    BY <1>1, <1>3, <1>5, Ordered
  <2>3. -B \in Int /\ WeekNs * (-B) = -(WeekNs * B)
    <3>1. WeekNs * (0 - B) = WeekNs * 0 - WeekNs * B /\ WeekNs * 0 = 0 /\ 0 - B = -B
      BY <1>1, <1>5, Ordered
    <3>2. QED
      BY <1>5, <3>1
  <2>4. -B <= n => WeekNs * (-B) <= WeekNs * n
    BY <1>1, <1>3, <1>5, <2>3, Ordered
  <2>5. n <= B /\ -B <= n => WeekNs * n \in MinInt..MaxInt
    BY <1>1, <1>4, <1>5, <2>2, <2>3, <2>4
  <2>6. QED
    BY <2>1, <2>5, WrapInRange
<1> HIDE DEF n, tow, d
<1>8. ASSUME ~far PROVE Difference(l, r) = {d}
  <2>1. n <= B /\ -B <= n
    BY <1>3, <1>5, <1>8
  <2>2. Wrap(n * WeekNs) = WeekNs * n
    BY <1>7, <2>1
  <2>3. /\ ~(tow > 0 /\ WeekNs * n > MaxInt - tow)
        /\ ~(tow < 0 /\ WeekNs * n < MinInt - tow)
    BY <1>8, <2>2
  <2>4. WeekNs * n \in MinInt..MaxInt
    <3>1. WeekNs * n <= WeekNs * B
      BY <1>1, <1>3, <1>5, <2>1, Ordered
    <3>2. WeekNs * (0 - B) = WeekNs * 0 - WeekNs * B /\ WeekNs * 0 = 0 /\ 0 - B \in Int
      BY <1>1, <1>5, Ordered
    <3>3. 0 - B <= n
      BY <1>3, <1>5, <2>1
    <3>4. WeekNs * (0 - B) <= WeekNs * n
      BY <1>1, <1>3, <3>2, <3>3, Ordered
    <3>5. QED
      BY <1>1, <1>4, <1>5, <3>1, <3>2, <3>4
  <2>5. d \in MinInt..MaxInt
    BY <1>1, <1>3, <1>4, <2>3, <2>4
  <2>6. Wrap(n * WeekNs) + tow = d
    BY <1>4, <2>2
  <2> HIDE DEF far
  <2>7. Difference(l, r) = {Wrap(d)}
    BY <1>6, <1>8, <2>6
  <2>8. QED
    BY <2>5, <2>7, WrapInRange
<1>9. Difference(l, r) \subseteq {d}
  <2>1. far => Difference(l, r) = {}
    BY Zenon, <1>6
  <2> HIDE DEF far
  <2>2. QED
    BY <1>8, <2>1
<1>10. ASSUME d \in (-(MaxInt - WeekNs))..(MaxInt - WeekNs)
       PROVE  Difference(l, r) = {d}
  <2>1. ~(n > B)
    <3>1. n > B => WeekNs * B + WeekNs <= WeekNs * n
      BY <1>1, <1>3, <1>5, Ordered
    <3>2. QED
      BY <1>1, <1>3, <1>4, <1>5, <1>10, <3>1
  <2>2. ~(n < -B)
    <3>1. WeekNs * (0 - B) = WeekNs * 0 - WeekNs * B /\ WeekNs * 0 = 0 /\ 0 - B \in Int
      BY <1>1, <1>5, Ordered
    <3>2. n < 0 - B => WeekNs * n + WeekNs <= WeekNs * (0 - B)
      BY <1>1, <1>3, <3>1, Ordered
    <3>3. ~(n < 0 - B)
      BY <1>1, <1>3, <1>4, <1>5, <1>10, <3>1, <3>2
    <3>4. QED
      BY <1>5, <3>3
  <2>3. Wrap(n * WeekNs) = WeekNs * n
    BY <1>3, <1>5, <1>7, <2>1, <2>2
  <2>4. ~far
    BY <1>1, <1>3, <1>4, <1>10, <2>1, <2>2, <2>3
  <2>5. QED
    BY <1>8, <2>4
<1>11. (Compare(l, r) < 0 <=> d < 0) /\ (Compare(l, r) > 0 <=> d > 0)
  <2>1. n = l.week - r.week /\ tow = l.tow - r.tow
    BY DEF n, tow
  <2>2. /\ n < 0 => WeekNs * n + WeekNs <= WeekNs * 0
        /\ 0 < n => WeekNs * 0 + WeekNs <= WeekNs * n
        /\ WeekNs * 0 = 0
    BY <1>1, <1>3, Ordered
  <2>3. CASE l.week < r.week \/ (l.week = r.week /\ l.tow < r.tow)
    <3>1. Compare(l, r) = -1
      BY <1>2, <2>3 DEF Compare
    <3>2. n < 0 \/ (n = 0 /\ tow < 0)
      BY <1>1, <1>2, <2>1, <2>3
    <3>3. d < 0
      BY <1>1, <1>3, <1>4, <2>2, <3>2
    <3>4. QED
      BY <1>4, <3>1, <3>3
  <2>4. CASE l.week > r.week \/ (l.week = r.week /\ l.tow > r.tow)
    <3>1. Compare(l, r) = 1
      BY <1>1, <1>2, <2>4 DEF Compare
    <3>2. n > 0 \/ (n = 0 /\ tow > 0)
      BY <1>1, <1>2, <2>1, <2>4
    <3>3. d > 0
      BY <1>1, <1>3, <1>4, <2>2, <3>2
    <3>4. QED
      BY <1>4, <3>1, <3>3
  <2>5. CASE l.week = r.week /\ l.tow = r.tow
    <3>1. l = r
      BY <1>2, <2>5
    <3>2. Compare(l, r) = 0
      BY <1>1, <1>2, <2>5, <3>1 DEF Compare
    <3>3. n = 0 /\ tow = 0
      BY <1>1, <1>2, <2>1, <2>5
    <3>4. d = 0
      BY <1>4, <2>2, <3>3
    <3>5. QED
      BY <3>2, <3>4
  <2>6. QED
    BY <1>1, <1>2, <2>3, <2>4, <2>5
<1>12. QED
  BY Zenon, <1>9, <1>10, <1>11 DEF DifferenceIsExact, d

\* The integer epoch clock: epoch_index_at_or_after is the first epoch that is
\* not before the event, epoch_time is the exact time of every epoch whose
\* offset fits, and epoch_count covers a duration with no epoch to spare.
THEOREM ClockHolds ==
  ASSUME NEW start \in Times, NEW event \in Times, NEW interval \in Intervals, NEW duration \in Int
  PROVE  ClockIsExact(start, event, interval, duration)
<1>1. /\ interval \in Nat \ {0} /\ MaxInt \in Nat /\ MinInt = -MaxInt - 1
      /\ Absolute(start) \in Nat /\ Absolute(event) \in Nat
  BY Constants, TimeFacts
(* The number of whole or begun intervals in a positive number.            *)
<1>2. ASSUME NEW x \in Int, x > 0
      PROVE  LET k == Quot(x - 1, interval) + 1
             IN  k \in Int /\ k > 0 /\ k * interval >= x /\ (k - 1) * interval < x
  <2> DEFINE y == x - 1
             q == Quot(y, interval)
             m == Remainder(y, interval)
  <2>1. y \in Int /\ y >= 0
    BY <1>2
  <2> HIDE DEF y
  <2>2. q \in Int /\ q >= 0 /\ y = interval * q + m /\ m \in 0..(interval - 1)
    BY <1>1, <2>1, Truncation
  <2> HIDE DEF q, m
  <2>3. /\ (q + 1) * interval = interval * (q + 1) /\ q * interval = interval * q
        /\ (q + 1) - 1 = q
    BY <1>1, <2>2
  <2>4. interval * (q + 1) = interval * q + interval * 1 /\ interval * 1 = interval
        /\ interval * q \in Int
    BY <1>1, <2>2, Ordered
  <2>5. y + 1 = x
    BY <1>2 DEF y
  <2>6. q + 1 \in Int /\ q + 1 > 0 /\ (q + 1) * interval >= x /\ q * interval < x
    BY <1>1, <1>2, <2>2, <2>3, <2>4, <2>5
  <2>7. QED
    BY <2>3, <2>6 DEF q, y
<1>3. ASSUME NEW k \in EpochIndexAtOrAfter(start, event, interval)
      PROVE  /\ k \in Int /\ k >= 0
             /\ Absolute(start) + k * interval >= Absolute(event)
             /\ k > 0 => Absolute(start) + (k - 1) * interval < Absolute(event)
  <2> DEFINE ns == Absolute(event) - Absolute(start)
  <2>1. ns \in Int /\ Difference(event, start) \subseteq {ns}
    BY <1>1, DifferencesAreExact DEF DifferenceIsExact
  <2>2. k = IF ns <= 0 THEN 0 ELSE Quot(ns - 1, interval) + 1
    BY <1>3, <2>1 DEF EpochIndexAtOrAfter
  <2>3. CASE ns <= 0
    <3>1. k = 0 /\ k * interval = 0
      BY <1>1, <2>2, <2>3
    <3>2. QED
      BY <1>1, <2>3, <3>1
  <2>4. CASE ns > 0
    <3>1. k = Quot(ns - 1, interval) + 1
      BY <2>1, <2>2, <2>4
    <3> HIDE DEF ns
    <3>2. k \in Int /\ k > 0 /\ k * interval >= ns /\ (k - 1) * interval < ns
      BY <1>2, <2>1, <2>4, <3>1
    <3>3. k * interval \in Int /\ (k - 1) * interval \in Int
      BY <1>1, <3>2
    <3>4. ns = Absolute(event) - Absolute(start)
      BY DEF ns
    <3>5. QED
      BY <1>1, <2>1, <3>2, <3>3, <3>4
  <2>5. QED
    BY <2>1, <2>3, <2>4
<1>4. ASSUME NEW k \in Int, k >= 0, k * interval <= MaxInt
      PROVE  EpochTime(start, interval, k) = AtAbsolute(Absolute(start) + k * interval)
  <2> DEFINE q == Quot(MaxInt, interval)
             x == k * interval
  <2>1. x \in Int /\ x >= 0 /\ x \in MinInt..MaxInt
    <3>1. interval * 0 <= interval * k /\ interval * k \in Int /\ interval * 0 = 0
      BY <1>1, <1>4, Ordered
    <3>2. interval * k = x
      BY <1>1, <1>4
    <3>3. QED
      BY <1>1, <1>4, <3>1, <3>2
  <2>2. ~(k > q)
    <3> HIDE DEF x
    <3>0. MaxInt \in Int /\ MaxInt >= 0 /\ interval \in Nat \ {0}
      BY <1>1
    <3>1. /\ q \in Int /\ MaxInt = interval * q + Remainder(MaxInt, interval)
          /\ Remainder(MaxInt, interval) \in 0..(interval - 1)
      BY <3>0, Truncation
    <3> HIDE DEF q
    <3>2. q < k => interval * q + interval <= interval * k
      BY <1>1, <1>4, <3>1, Ordered
    <3>3. interval * k = x /\ interval * q \in Int
      BY <1>1, <1>4, <3>1 DEF x
    <3>4. QED
      BY <1>1, <1>4, <2>1, <3>1, <3>2, <3>3 DEF x
  <2>3. EpochTime(start, interval, k) = Add(start, Wrap(x))
    BY <2>2 DEF EpochTime
  <2> HIDE DEF x
  <2>4. Wrap(x) = x
    BY <2>1, WrapInRange
  <2>5. Add(start, x) = AtAbsolute(Absolute(start) + x)
    BY <2>1, AddIsSum
  <2>6. QED
    BY <2>3, <2>4, <2>5 DEF x
<1>5. ASSUME duration > 0, NEW n \in EpochCount(duration, interval)
      PROVE  (n - 1) * interval < duration /\ n * interval >= duration
  <2>1. n = Quot(duration - 1, interval) + 1
    BY <1>5 DEF EpochCount
  <2>2. QED
    BY <1>2, <1>5, <2>1
<1>6. QED
  BY <1>3, <1>4, <1>5 DEF ClockIsExact

-----------------------------------------------------------------------------
(* One more in a division.                                                 *)

LEMMA DivisionIs ==
  ASSUME NEW x \in Int, NEW b \in Nat \ {0}, NEW q \in Int, NEW r \in 0..(b - 1), x = b * q + r
  PROVE  x \div b = q /\ x % b = r
<1> DEFINE u == x \div b
           v == x % b
<1>1. u \in Int /\ v \in 0..(b - 1) /\ x = b * u + v
  BY FloorDivision
<1> HIDE DEF u, v
<1>2. b * u + v = b * q + r
  BY <1>1
<1>3. u = q /\ v = r
  BY <1>1, <1>2, DivisionIsUnique
<1>4. QED
  BY <1>3 DEF u, v

LEMMA NextDivision ==
  ASSUME NEW k \in Nat, NEW p \in Nat \ {0}
  PROVE  /\ k % p \in 0..(p - 1) /\ k \div p \in Nat
         /\ k % p < p - 1 => (k + 1) % p = (k % p) + 1 /\ (k + 1) \div p = k \div p
         /\ k % p = p - 1 => (k + 1) % p = 0 /\ (k + 1) \div p = k \div p + 1
<1> DEFINE q == k \div p
           r == k % p
<1>1. q \in Int /\ r \in 0..(p - 1) /\ k = p * q + r
  BY FloorDivision
<1>2. q \in Nat
  OBVIOUS
<1> HIDE DEF q, r
<1>3. p * q \in Int /\ p * (q + 1) = p * q + p * 1 /\ p * 1 = p
  BY <1>1, Ordered
<1>4. ASSUME r < p - 1 PROVE (k + 1) % p = r + 1 /\ (k + 1) \div p = q
  <2>1. r + 1 \in 0..(p - 1) /\ k + 1 = p * q + (r + 1) /\ k + 1 \in Int
    BY <1>1, <1>3, <1>4
  <2>2. QED
    BY <1>1, <2>1, DivisionIs
<1>5. ASSUME r = p - 1 PROVE (k + 1) % p = 0 /\ (k + 1) \div p = q + 1
  <2>1. 0 \in 0..(p - 1) /\ k + 1 = p * (q + 1) + 0 /\ k + 1 \in Int /\ q + 1 \in Int
    BY <1>1, <1>3, <1>5
  <2>2. QED
    BY <2>1, DivisionIs
<1>6. QED
  BY <1>1, <1>2, <1>4, <1>5 DEF q, r

-----------------------------------------------------------------------------
(* The closed forms on a grid of whole steps: a cycle is p of them, the    *)
(* first a of them on.                                                     *)

(* One more step has one more boundary when it begins at one.              *)
LEMMA NextBoundary ==
  ASSUME NEW k \in Nat, NEW f \in Nat, NEW p \in Nat \ {0}
  PROVE  /\ BoundaryCount(k, f, p) \in Nat
         /\ BoundaryCount(k + 1, f, p) =
              BoundaryCount(k, f, p) + (IF k >= f /\ (k - f) % p = 0 THEN 1 ELSE 0)
<1>1. CASE k < f
  <2>1. BoundaryCount(k, f, p) = 0 /\ BoundaryCount(k + 1, f, p) = 0
    BY <1>1 DEF BoundaryCount
  <2>2. QED
    BY <1>1, <2>1
<1>2. CASE k = f
  <2>1. 0 \div p = 0 /\ 0 % p = 0
    <3>1. 0 \in Int /\ 0 \in 0..(p - 1) /\ 0 = p * 0 + 0
      OBVIOUS
    <3>2. QED
      BY <3>1, DivisionIs
  <2>2. (k + 1) - 1 - f = 0 /\ k - f = 0 /\ ~(f >= k + 1)
    BY <1>2
  <2>3. BoundaryCount(k, f, p) = 0 /\ BoundaryCount(k + 1, f, p) = 1
    BY <1>2, <2>1, <2>2 DEF BoundaryCount
  <2>4. QED
    BY <1>2, <2>1, <2>2, <2>3
<1>3. CASE k > f
  <2> DEFINE j == k - 1 - f
  <2>1. j \in Nat /\ (k + 1) - 1 - f = j + 1 /\ k - f = j + 1 /\ ~(f >= k) /\ ~(f >= k + 1)
    BY <1>3
  <2>2. /\ BoundaryCount(k, f, p) = 1 + j \div p
        /\ BoundaryCount(k + 1, f, p) = 1 + (j + 1) \div p
    BY <2>1 DEF BoundaryCount
  <2> HIDE DEF j
  <2>3. /\ j % p \in 0..(p - 1) /\ j \div p \in Nat
        /\ j % p < p - 1 => (j + 1) % p = (j % p) + 1 /\ (j + 1) \div p = j \div p
        /\ j % p = p - 1 => (j + 1) % p = 0 /\ (j + 1) \div p = j \div p + 1
    BY <2>1, NextDivision
  <2> DEFINE r == j % p
             q == j \div p
             s == (j + 1) % p
             t == (j + 1) \div p
  <2>4. /\ r \in 0..(p - 1) /\ q \in Nat
        /\ r < p - 1 => s = r + 1 /\ t = q
        /\ r = p - 1 => s = 0 /\ t = q + 1
    BY <2>3
  <2> HIDE DEF r, q, s, t
  <2>5. 1 + t = 1 + q + (IF s = 0 THEN 1 ELSE 0) /\ 1 + q \in Nat
    BY <2>4
  <2>6. (k - f) % p = s /\ k >= f
    BY <1>3, <2>1 DEF s
  <2>7. BoundaryCount(k, f, p) = 1 + q /\ BoundaryCount(k + 1, f, p) = 1 + t
    BY <2>2 DEF q, t
  <2>8. QED
    BY <2>5, <2>6, <2>7
<1>4. QED
  BY <1>1, <1>2, <1>3

(* A step begins at a boundary by its place in the cycle.                  *)
LEMMA BoundaryPlaces ==
  ASSUME NEW k \in Nat \ {0}, NEW p \in Nat \ {0}
  PROVE  /\ \A a \in 0..(p - 1) : k >= a /\ (k - a) % p = 0 <=> k % p = a
         /\ k >= p /\ (k - p) % p = 0 <=> k % p = 0
<1> DEFINE q == k \div p
           r == k % p
<1>1. q \in Int /\ r \in 0..(p - 1) /\ k = p * q + r
  BY FloorDivision
<1>2. q \in Nat
  OBVIOUS
<1> HIDE DEF q, r
<1>3. p * q \in Int /\ (0 < q => p * 0 + p <= p * q) /\ (0 <= q => p * 0 <= p * q) /\ p * 0 = 0
  BY <1>1, Ordered
<1>4. ASSUME NEW a \in 0..(p - 1) PROVE k >= a /\ (k - a) % p = 0 <=> r = a
  <2>1. ASSUME r = a PROVE k >= a /\ (k - a) % p = 0
    <3>1. k - a = p * q + 0 /\ 0 \in 0..(p - 1) /\ k - a \in Int /\ k >= a
      BY <1>1, <1>2, <1>3, <2>1
    <3>2. QED
      BY <1>1, <3>1, DivisionIs
  <2>2. ASSUME (k - a) % p = 0 PROVE r = a
    <3> DEFINE x == k - a
               u == x \div p
               v == x % p
    <3>1. x \in Int
      OBVIOUS
    <3> HIDE DEF x
    <3>2. u \in Int /\ v \in 0..(p - 1) /\ x = p * u + v
      BY <3>1, FloorDivision
    <3>3. v = 0
      BY <2>2 DEF x
    <3> HIDE DEF u, v
    <3>4. p * u \in Int
      BY <3>2
    <3>5. p * u + a = p * q + r
      BY <1>1, <1>3, <3>2, <3>3, <3>4 DEF x
    <3>6. QED
      BY <1>1, <3>2, <3>5, DivisionIsUnique
  <2>3. QED
    BY <2>1, <2>2
<1>5. k >= p /\ (k - p) % p = 0 <=> r = 0
  <2>1. ASSUME r = 0 PROVE k >= p /\ (k - p) % p = 0
    <3>1. q > 0 /\ k >= p
      BY <1>1, <1>2, <1>3, <2>1
    <3>2. p * (q - 1) = p * q - p * 1 /\ p * 1 = p
      BY <1>1, Ordered
    <3>3. k - p = p * (q - 1) + 0 /\ 0 \in 0..(p - 1) /\ k - p \in Int /\ q - 1 \in Int
      BY <1>1, <1>3, <2>1, <3>2
    <3>4. QED
      BY <3>1, <3>3, DivisionIs
  <2>2. ASSUME (k - p) % p = 0 PROVE r = 0
    <3> DEFINE x == k - p
               u == x \div p
               v == x % p
    <3>1. x \in Int
      OBVIOUS
    <3> HIDE DEF x
    <3>2. u \in Int /\ v \in 0..(p - 1) /\ x = p * u + v
      BY <3>1, FloorDivision
    <3>3. v = 0
      BY <2>2 DEF x
    <3> HIDE DEF u, v
    <3>4. p * u \in Int /\ p * (u + 1) = p * u + p * 1 /\ p * 1 = p /\ u + 1 \in Int
      BY <3>2, Ordered
    <3>5. p * (u + 1) + 0 = p * q + r /\ 0 \in 0..(p - 1)
      BY <1>1, <1>3, <3>2, <3>3, <3>4 DEF x
    <3> DEFINE w == u + 1
    <3>6. w \in Int /\ p * w + 0 = p * q + r
      BY <3>4, <3>5
    <3> HIDE DEF w
    <3>7. QED
      BY <1>1, <3>5, <3>6, DivisionIsUnique
  <2>3. QED
    BY <2>1, <2>2
<1>6. QED
  BY <1>4, <1>5 DEF r

(* From one step to the next a cycle turns on at its beginning and off     *)
(* where its on part ends, and counts the steps of the on part.            *)
OnSteps(k, a, p) == (k \div p) * a + (IF k % p < a THEN k % p ELSE a)

LEMMA NextOfCycle ==
  ASSUME NEW k \in Nat, NEW p \in Nat \ {0}, NEW a \in 1..(p - 1)
  PROVE  /\ (k + 1) % p < a /\ ~(k % p < a) <=> (k + 1) % p = 0
         /\ ~((k + 1) % p < a) /\ k % p < a <=> (k + 1) % p = a
         /\ OnSteps(k, a, p) \in Nat
         /\ OnSteps(k + 1, a, p) = OnSteps(k, a, p) + (IF k % p < a THEN 1 ELSE 0)
<1> DEFINE r == k % p
           q == k \div p
           s == (k + 1) % p
           t == (k + 1) \div p
<1>1. /\ r \in 0..(p - 1) /\ q \in Nat
      /\ r < p - 1 => s = r + 1 /\ t = q
      /\ r = p - 1 => s = 0 /\ t = q + 1
  BY NextDivision
<1>2. /\ OnSteps(k, a, p) = q * a + (IF r < a THEN r ELSE a)
      /\ OnSteps(k + 1, a, p) = t * a + (IF s < a THEN s ELSE a)
  BY DEF OnSteps
<1> HIDE DEF r, q, s, t
<1>3. a * q \in Nat /\ q * a = a * q /\ a * (q + 1) = a * q + a * 1 /\ a * 1 = a
      /\ (q + 1) * a = a * (q + 1)
  <2>1. a \in Nat \ {0} /\ q \in Int
    BY <1>1
  <2>2. a * (q + 1) = a * q + a * 1
    BY <2>1, Ordered
  <2>3. QED
    BY <1>1, <2>1, <2>2
<1>4. (s < a /\ ~(r < a) <=> s = 0) /\ (~(s < a) /\ r < a <=> s = a)
  BY <1>1
<1>5. q * a + (IF r < a THEN r ELSE a) \in Nat
  BY <1>1, <1>3
<1>6. t * a + (IF s < a THEN s ELSE a) = q * a + (IF r < a THEN r ELSE a) + (IF r < a THEN 1 ELSE 0)
  <2>1. CASE r < p - 1
    <3>1. t * a = a * q /\ s = r + 1
      BY <1>1, <1>3, <2>1
    <3>2. QED
      BY <1>1, <1>3, <3>1
  <2>2. CASE r = p - 1
    <3>1. t * a = a * q + a /\ s = 0
      BY <1>1, <1>3, <2>2
    <3>2. QED
      BY <1>1, <1>3, <2>2, <3>1
  <2>3. QED
    BY <1>1, <2>1, <2>2
<1>7. QED
  BY <1>2, <1>4, <1>5, <1>6 DEF r, s

-----------------------------------------------------------------------------
(* Nanoseconds are counted as on the grid of the sampling steps.           *)

LEMMA Multiples ==
  ASSUME NEW i \in Nat, NEW p \in Nat \ {0}, NEW B \in Nat \ {0}
  PROVE  /\ i * B \in Nat /\ p * B \in Nat \ {0} /\ (i * B) \div B = i
         /\ \A j \in Nat : (i < j <=> i * B < j * B) /\ (i <= j <=> i * B <= j * B)
<1>2. i * B = B * i /\ B * i \in Nat /\ p * B = B * p /\ B * p \in Nat
  OBVIOUS
<1>3. p * B \in Nat \ {0}
  <2>1. 0 < p => B * 0 + B <= B * p
    BY Ordered
  <2>2. QED
    BY <1>2, <2>1
<1>4. (i * B) \div B = i
  <2> DEFINE x == i * B
  <2>1. x \in Int /\ x = B * i + 0 /\ 0 \in 0..(B - 1)
    BY <1>2
  <2> HIDE DEF x
  <2>2. x \div B = i
    BY <2>1, DivisionIs
  <2>3. QED
    BY <2>2 DEF x
<1>6. ASSUME NEW j \in Nat
      PROVE  (i < j <=> i * B < j * B) /\ (i <= j <=> i * B <= j * B)
  <2>1. j * B = B * j /\ B * j \in Nat
    OBVIOUS
  <2>2. /\ i < j => B * i + B <= B * j
        /\ j < i => B * j + B <= B * i
    BY Ordered
  <2>3. i = j => B * i = B * j
    OBVIOUS
  <2>4. QED
    BY <1>2, <2>1, <2>2, <2>3
<1>7. QED
  BY <1>2, <1>3, <1>4, <1>6

LEMMA OnPartOnGrid ==
  ASSUME NEW i \in Nat, NEW a \in Nat, NEW p \in Nat \ {0}, NEW B \in Nat \ {0}
  PROVE  (i * B) % (p * B) < a * B <=> i % p < a
<1> DEFINE q == i \div p
           r == i % p
           m == p * B
           x == i * B
           y == r * B
<1>1. q \in Int /\ r \in 0..(p - 1) /\ i = p * q + r
  BY FloorDivision
<1> HIDE DEF q, r
<1>2. r \in Nat /\ i * B = B * i
  BY <1>1
<1>3. m * q = B * (p * q)
  BY <1>1
<1>4. p * q \in Int /\ B * (p * q + r) = B * (p * q) + B * r /\ B * r = r * B /\ r * B \in Nat
  BY <1>1, Ordered
<1>5. r < p => B * r + B <= B * p
  BY <1>1, Ordered
<1>6. m \in Nat \ {0}
  BY Multiples
<1>7. x \in Int /\ x = m * q + y /\ y \in 0..(m - 1)
  BY <1>1, <1>2, <1>3, <1>4, <1>5
<1>8. r < a <=> y < a * B
  BY <1>2, Multiples
<1> HIDE DEF m, x, y
<1>9. x % m = y
  BY <1>1, <1>6, <1>7, DivisionIs
<1>10. x % m < a * B <=> r < a
  BY <1>8, <1>9
<1>11. QED
  BY Zenon, <1>10 DEF x, m, r

LEMMA BoundariesOnGrid ==
  ASSUME NEW k \in Nat, NEW f \in Nat, NEW p \in Nat \ {0}, NEW B \in Nat \ {0}
  PROVE  BoundaryCount(k * B, f * B, p * B) = BoundaryCount(k, f, p)
<1>1. /\ k * B \in Nat /\ f * B \in Nat /\ p * B \in Nat \ {0}
      /\ f < k <=> f * B < k * B
  BY Multiples
<1>2. CASE f >= k
  BY <1>1, <1>2 DEF BoundaryCount
<1>3. CASE f < k
  <2> DEFINE j == k - 1 - f
             q == j \div p
             r == j % p
             x == k * B - 1 - f * B
             m == p * B
             y == r * B + B - 1
  <2>1. j \in Nat /\ k = j + 1 + f
    BY <1>3
  <2> HIDE DEF j
  <2>2. q \in Int /\ r \in 0..(p - 1) /\ j = p * q + r
    BY <2>1, FloorDivision
  <2> HIDE DEF q, r
  <2>3. p * q \in Int /\ B * (p * q + r) = B * (p * q) + B * r /\ B * r = r * B /\ r * B \in Nat
        /\ (r < p => B * r + B <= B * p) /\ m * q = B * (p * q) /\ B * (p * q) \in Int
        /\ B * p = p * B
    BY <2>2, Ordered
  <2>4. k * B = B * j + B + f * B
    BY <2>1
  <2>5. m \in Nat \ {0} /\ x \in Int /\ x = m * q + y /\ y \in 0..(m - 1)
    <3>1. B * j = B * (p * q) + r * B
      BY <2>2, <2>3
    <3>2. m \in Nat \ {0} /\ x \in Int
      BY <1>1
    <3>3. x = B * j + B - 1
      BY <1>1, <2>1, <2>4
    <3>4. x = m * q + y
      BY <2>3, <3>1, <3>3
    <3>5. y \in 0..(m - 1)
      BY <2>2, <2>3
    <3>6. QED
      BY <3>2, <3>4, <3>5
  <2> HIDE DEF m, x, y
  <2>6. x \div m = q
    BY <2>2, <2>5, DivisionIs
  <2>7. BoundaryCount(k * B, f * B, p * B) = 1 + q
    BY <1>1, <1>3, <2>6 DEF BoundaryCount, x, m
  <2>8. BoundaryCount(k, f, p) = 1 + q
    BY <1>3 DEF BoundaryCount, j, q
  <2>9. QED
    BY <2>7, <2>8
<1>4. QED
  BY <1>2, <1>3

IsCycle(c, B, a, p) ==
  /\ \A i \in Nat : InOnPart(c, i * B) <=> i % p < a
  /\ \A k \in Nat :
       /\ BoundaryCount(k * B, c.on, c.on + c.off) = BoundaryCount(k, a, p)
       /\ BoundaryCount(k * B, c.on + c.off, c.on + c.off) = BoundaryCount(k, p, p)
       /\ PeriodicOnEpochs(c, k, B) = OnSteps(k, a, p)

LEMMA CycleOnGrid ==
  ASSUME NEW c \in Scenarios, NEW B \in Nat \ {0}, c.kind # "KS", Aligned(c, B)
  PROVE  \E p \in Nat \ {0} : \E a \in 1..(p - 1) : IsCycle(c, B, a, p)
<1> DEFINE x == c.on
           y == c.on + c.off
           a == x \div B
           p == y \div B
<1>1. x \in Nat \ {0} /\ y \in Nat \ {0} /\ x < y /\ x % B = 0 /\ y % B = 0
  BY ScenariosAssumption DEF Aligned
<1>2. /\ \A e : InOnPart(c, e) <=> e % y < x
      /\ \A k : PeriodicOnEpochs(c, k, B) = OnSteps(k, a, p)
      /\ \A d : BoundaryCount(d, c.on, c.on + c.off) = BoundaryCount(d, x, y)
      /\ \A d : BoundaryCount(d, c.on + c.off, c.on + c.off) = BoundaryCount(d, y, y)
  BY DEF InOnPart, PeriodicOnEpochs, OnSteps
<1> HIDE DEF x, y
<1>3. a \in Int /\ p \in Int /\ x = B * a /\ y = B * p
  <2>1. /\ x \div B \in Int /\ x = B * (x \div B) + (x % B)
        /\ y \div B \in Int /\ y = B * (y \div B) + (y % B)
    BY <1>1, FloorDivision
  <2> HIDE DEF a, p
  <2>2. B * a \in Int /\ B * p \in Int /\ a \in Int /\ p \in Int
    BY <2>1 DEF a, p
  <2>3. x = B * a + 0 /\ y = B * p + 0
    BY <1>1, <2>1 DEF a, p
  <2>4. QED
    BY <2>2, <2>3
<1> HIDE DEF a, p
<1>4. a > 0 /\ a < p
  <2>1. (a <= 0 => B * a <= B * 0) /\ B * 0 = 0 /\ (p <= a => B * p <= B * a)
    BY <1>3, Ordered
  <2>2. QED
    BY <1>1, <1>3, <2>1
<1>5. p \in Nat \ {0} /\ a \in 1..(p - 1) /\ a \in Nat
  BY <1>3, <1>4
<1>6. x = a * B /\ y = p * B
  BY <1>3
<1>7. ASSUME NEW i \in Nat PROVE InOnPart(c, i * B) <=> i % p < a
  <2>1. (i * B) % (p * B) < a * B <=> i % p < a
    BY <1>5, OnPartOnGrid
  <2>2. QED
    BY Zenon, <1>2, <1>6, <2>1
<1>8. ASSUME NEW k \in Nat
      PROVE  /\ BoundaryCount(k * B, x, y) = BoundaryCount(k, a, p)
             /\ BoundaryCount(k * B, y, y) = BoundaryCount(k, p, p)
  BY <1>5, <1>6, BoundariesOnGrid
<1>9. IsCycle(c, B, a, p)
  BY <1>2, <1>7, <1>8 DEF IsCycle
<1>10. QED
  BY <1>5, <1>9

-----------------------------------------------------------------------------
(* The engine's epochs, counted, are the closed forms of the run so far.   *)

Foreseen(c, k, B) ==
  IF k = 0 THEN NothingYet
  ELSE [engine |-> Remember(ScenarioAt(c, (k - 1) * B)),
        events |-> ExpectedEvents(c, k * B), epochs |-> ExpectedEpochs(c, k * B, B)]

LEMMA FirstEpoch ==
  ASSUME NEW c \in Scenarios, NEW B \in Nat \ {0}, Aligned(c, B)
  PROVE  Foreseen(c, 1, B) = Step(NothingYet, ScenarioAt(c, 0 * B))
<1> DEFINE sc == ScenarioAt(c, 0 * B)
           x == c.on
           y == c.on + c.off
<1>1. x \in Nat \ {0} /\ y \in Nat \ {0} /\ x < y /\ c.kind \in {"KS", "REA", "TTFF"}
  BY ScenariosAssumption DEF ScenarioKinds
<1>2. 0 * B = 0 /\ 1 * B = B /\ (1 - 1) * B = 0 * B /\ B \div B = 1
  <2>1. (1 * B) \div B = 1
    BY Multiples
  <2>2. 1 * B = B
    OBVIOUS
  <2>3. QED
    BY <2>1, <2>2
<1>3. sc.powered /\ sc.signal /\ sc.powered \in BOOLEAN /\ sc.signal \in BOOLEAN
  <2>1. 0 % y = 0
    BY <1>1, DivisionIs
  <2>2. InOnPart(c, 0 * B)
    BY <1>1, <1>2, <2>1 DEF InOnPart
  <2>3. QED
    BY <2>2 DEF ScenarioAt
<1>4. Step(NothingYet, sc) =
        [engine |-> Remember(sc),
         events |-> [powerOn |-> 1, powerOff |-> 0, signalOn |-> 1, signalOff |-> 0],
         epochs |-> [powered |-> 1, signalOn |-> 1, signalOff |-> 0]]
  BY <1>3 DEF Step, CountIf, NothingYet, NewEngine, PowerOn, PowerOff, SignalOn, SignalOff
<1>5. /\ ExpectedEvents(c, 1 * B) = [powerOn |-> 1, powerOff |-> 0, signalOn |-> 1, signalOff |-> 0]
      /\ ExpectedEpochs(c, 1 * B, B) = [powered |-> 1, signalOn |-> 1, signalOff |-> 0]
  <2>1. CASE c.kind = "KS"
    BY <1>2, <2>1 DEF ExpectedEvents, ExpectedEpochs
  <2>2. CASE c.kind # "KS"
    <3>1. PICK p \in Nat \ {0} : \E a \in 1..(p - 1) : IsCycle(c, B, a, p)
      BY <2>2, CycleOnGrid
    <3>2. PICK a \in 1..(p - 1) : IsCycle(c, B, a, p)
      BY <3>1
    <3>3. /\ BoundaryCount(1 * B, c.on, c.on + c.off) = BoundaryCount(1, a, p)
          /\ BoundaryCount(1 * B, c.on + c.off, c.on + c.off) = BoundaryCount(1, p, p)
          /\ PeriodicOnEpochs(c, 1, B) = OnSteps(1, a, p)
      BY <3>2 DEF IsCycle
    <3>4. BoundaryCount(1, a, p) = 0 /\ BoundaryCount(1, p, p) = 0
      BY DEF BoundaryCount
    <3>5. OnSteps(1, a, p) = 1
      <4>1. 1 \in Int /\ 1 \in 0..(p - 1) /\ 1 = p * 0 + 1 /\ 0 * a = 0
        OBVIOUS
      <4>2. 1 \div p = 0 /\ 1 % p = 1
        BY <4>1, DivisionIs
      <4>3. QED
        BY <4>1, <4>2 DEF OnSteps
    <3>6. QED
      BY <1>1, <1>2, <2>2, <3>3, <3>4, <3>5 DEF ExpectedEvents, ExpectedEpochs
  <2>3. QED
    BY <2>1, <2>2
<1>6. Foreseen(c, 1, B) =
        [engine |-> Remember(ScenarioAt(c, (1 - 1) * B)),
         events |-> ExpectedEvents(c, 1 * B), epochs |-> ExpectedEpochs(c, 1 * B, B)]
  BY DEF Foreseen
<1> HIDE DEF sc
<1>7. ScenarioAt(c, (1 - 1) * B) = sc
  BY <1>2 DEF sc
<1>8. QED
  BY <1>4, <1>5, <1>6, <1>7 DEF sc

LEMMA NextEpoch ==
  ASSUME NEW c \in Scenarios, NEW B \in Nat \ {0}, Aligned(c, B), NEW k \in Nat \ {0}
  PROVE  Foreseen(c, k + 1, B) = Step(Foreseen(c, k, B), ScenarioAt(c, k * B))
<1> DEFINE sc == ScenarioAt(c, k * B)
           before == ScenarioAt(c, (k - 1) * B)
           engine == Remember(before)
           ev == ExpectedEvents(c, k * B)
           ep == ExpectedEpochs(c, k * B, B)
<1>1. /\ Foreseen(c, k, B) = [engine |-> engine, events |-> ev, epochs |-> ep]
      /\ Foreseen(c, k + 1, B) =
           [engine |-> Remember(sc), events |-> ExpectedEvents(c, (k + 1) * B),
            epochs |-> ExpectedEpochs(c, (k + 1) * B, B)]
  <2>1. k # 0 /\ k + 1 # 0 /\ (k + 1) - 1 = k
    OBVIOUS
  <2>2. QED
    BY <2>1 DEF Foreseen
<1>2. (k * B) \div B = k /\ ((k + 1) * B) \div B = k + 1
  BY Multiples
<1>3. c.kind \in {"KS", "REA", "TTFF"}
  BY ScenariosAssumption DEF ScenarioKinds
<1>4. /\ engine = [seen |-> TRUE, powered |-> before.powered, signal |-> before.signal]
      /\ PowerOn(engine, sc) <=> sc.powered /\ ~before.powered
      /\ PowerOff(engine, sc) <=> ~sc.powered /\ before.powered
      /\ SignalOn(engine, sc) <=> sc.signal /\ ~before.signal
      /\ SignalOff(engine, sc) <=> ~sc.signal /\ before.signal
  BY DEF Remember, PowerOn, PowerOff, SignalOn, SignalOff
<1>5. Step(Foreseen(c, k, B), sc) =
        [engine |-> Remember(sc),
         events |-> [powerOn |-> CountIf(ev.powerOn, PowerOn(engine, sc)),
                     powerOff |-> CountIf(ev.powerOff, PowerOff(engine, sc)),
                     signalOn |-> CountIf(ev.signalOn, SignalOn(engine, sc)),
                     signalOff |-> CountIf(ev.signalOff, SignalOff(engine, sc))],
         epochs |-> [powered |-> CountIf(ep.powered, sc.powered),
                     signalOn |-> CountIf(ep.signalOn, sc.signal),
                     signalOff |-> CountIf(ep.signalOff, sc.powered /\ ~sc.signal)]]
  <2> HIDE DEF engine, ev, ep, sc
  <2>1. QED
    BY <1>1 DEF Step
<1>6. /\ ExpectedEvents(c, (k + 1) * B) =
           [powerOn |-> CountIf(ev.powerOn, PowerOn(engine, sc)),
            powerOff |-> CountIf(ev.powerOff, PowerOff(engine, sc)),
            signalOn |-> CountIf(ev.signalOn, SignalOn(engine, sc)),
            signalOff |-> CountIf(ev.signalOff, SignalOff(engine, sc))]
      /\ ExpectedEpochs(c, (k + 1) * B, B) =
           [powered |-> CountIf(ep.powered, sc.powered),
            signalOn |-> CountIf(ep.signalOn, sc.signal),
            signalOff |-> CountIf(ep.signalOff, sc.powered /\ ~sc.signal)]
  <2>1. CASE c.kind = "KS"
    <3>1. sc.powered /\ sc.signal /\ before.powered /\ before.signal
      BY <2>1 DEF ScenarioAt
    <3>2. \A d : ExpectedEvents(c, d) = [powerOn |-> 1, powerOff |-> 0, signalOn |-> 1, signalOff |-> 0]
      BY <2>1 DEF ExpectedEvents
    <3>3. \A d : ExpectedEpochs(c, d, B) = [powered |-> d \div B, signalOn |-> d \div B, signalOff |-> 0]
      BY <2>1 DEF ExpectedEpochs
    <3>4. ev = [powerOn |-> 1, powerOff |-> 0, signalOn |-> 1, signalOff |-> 0]
          /\ ep = [powered |-> k, signalOn |-> k, signalOff |-> 0]
          /\ ExpectedEpochs(c, (k + 1) * B, B) = [powered |-> k + 1, signalOn |-> k + 1, signalOff |-> 0]
      BY <1>2, <3>2, <3>3
    <3> HIDE DEF ev, ep, sc, before, engine
    <3>5. QED
      BY <1>4, <3>1, <3>2, <3>4 DEF CountIf
  <2>2. CASE c.kind # "KS"
    <3>1. PICK p \in Nat \ {0} : \E a \in 1..(p - 1) : IsCycle(c, B, a, p)
      BY <2>2, CycleOnGrid
    <3>2. PICK a \in 1..(p - 1) : IsCycle(c, B, a, p)
      BY <3>1
    <3>3. /\ \A i \in Nat : InOnPart(c, i * B) <=> i % p < a
          /\ \A n \in Nat :
               /\ BoundaryCount(n * B, c.on, c.on + c.off) = BoundaryCount(n, a, p)
               /\ BoundaryCount(n * B, c.on + c.off, c.on + c.off) = BoundaryCount(n, p, p)
               /\ PeriodicOnEpochs(c, n, B) = OnSteps(n, a, p)
      BY <3>2 DEF IsCycle
    <3> DEFINE offs == BoundaryCount(k, a, p)
               ons == BoundaryCount(k, p, p)
               on == OnSteps(k, a, p)
               now == k % p < a
               then == (k - 1) % p < a
               turnsOn == k % p = 0
               turnsOff == k % p = a
    <3>4. /\ offs \in Nat /\ ons \in Nat /\ on \in Nat
          /\ BoundaryCount(k + 1, a, p) = IF turnsOff THEN offs + 1 ELSE offs
          /\ BoundaryCount(k + 1, p, p) = IF turnsOn THEN ons + 1 ELSE ons
          /\ OnSteps(k + 1, a, p) = IF now THEN on + 1 ELSE on
      <4>1. a \in 0..(p - 1) /\ a \in Nat /\ p \in Nat /\ k \in Nat
        OBVIOUS
      <4>2. /\ k >= a /\ (k - a) % p = 0 <=> k % p = a
            /\ k >= p /\ (k - p) % p = 0 <=> k % p = 0
        BY Zenon, <4>1, BoundaryPlaces
      <4>3. offs \in Nat /\ BoundaryCount(k + 1, a, p) = offs + (IF turnsOff THEN 1 ELSE 0)
        <5>1. /\ BoundaryCount(k, a, p) \in Nat
              /\ BoundaryCount(k + 1, a, p) =
                   BoundaryCount(k, a, p) + (IF k >= a /\ (k - a) % p = 0 THEN 1 ELSE 0)
          BY Zenon, <4>1, NextBoundary
        <5>2. QED
          BY Zenon, <4>2, <5>1
      <4>4. ons \in Nat /\ BoundaryCount(k + 1, p, p) = ons + (IF turnsOn THEN 1 ELSE 0)
        <5>1. /\ BoundaryCount(k, p, p) \in Nat
              /\ BoundaryCount(k + 1, p, p) =
                   BoundaryCount(k, p, p) + (IF k >= p /\ (k - p) % p = 0 THEN 1 ELSE 0)
          BY Zenon, <4>1, NextBoundary
        <5>2. QED
          BY Zenon, <4>2, <5>1
      <4>5. on \in Nat /\ OnSteps(k + 1, a, p) = on + (IF now THEN 1 ELSE 0)
        BY NextOfCycle
      <4> HIDE DEF offs, ons, on, now, turnsOn, turnsOff
      <4>6. QED
        BY <4>3, <4>4, <4>5
    <3>5. (now /\ ~then <=> turnsOn) /\ (~now /\ then <=> turnsOff)
      <4> DEFINE j == k - 1
      <4>1. j \in Nat /\ j + 1 = k
        OBVIOUS
      <4> HIDE DEF j
      <4>2. /\ (j + 1) % p < a /\ ~(j % p < a) <=> (j + 1) % p = 0
            /\ ~((j + 1) % p < a) /\ j % p < a <=> (j + 1) % p = a
        BY <4>1, NextOfCycle
      <4>3. QED
        BY <4>1, <4>2 DEF j
    <3>6. (InOnPart(c, k * B) <=> now) /\ (InOnPart(c, (k - 1) * B) <=> then)
      <4>1. k - 1 \in Nat
        OBVIOUS
      <4>2. QED
        BY <3>3, <4>1
    <3>7. /\ sc.powered <=> (c.kind = "TTFF" => now)
          /\ sc.signal <=> now
          /\ before.powered <=> (c.kind = "TTFF" => then)
          /\ before.signal <=> then
      <4> HIDE DEF now, then
      <4>1. QED
        BY <2>2, <3>6 DEF ScenarioAt
    <3>8. /\ ev = [powerOn |-> 1 + (IF c.kind = "TTFF" THEN ons ELSE 0),
                   powerOff |-> IF c.kind = "TTFF" THEN offs ELSE 0,
                   signalOn |-> 1 + ons, signalOff |-> offs]
          /\ ep = [powered |-> IF c.kind = "TTFF" THEN on ELSE k, signalOn |-> on,
                   signalOff |-> IF c.kind = "REA" THEN k - on ELSE 0]
      BY <1>2, <2>2, <3>3 DEF ExpectedEvents, ExpectedEpochs
    <3>9. LET n == k + 1 IN
          /\ ExpectedEvents(c, n * B) =
               [powerOn |-> 1 + (IF c.kind = "TTFF" THEN BoundaryCount(n, p, p) ELSE 0),
                powerOff |-> IF c.kind = "TTFF" THEN BoundaryCount(n, a, p) ELSE 0,
                signalOn |-> 1 + BoundaryCount(n, p, p), signalOff |-> BoundaryCount(n, a, p)]
          /\ ExpectedEpochs(c, n * B, B) =
               [powered |-> IF c.kind = "TTFF" THEN OnSteps(n, a, p) ELSE n, signalOn |-> OnSteps(n, a, p),
                signalOff |-> IF c.kind = "REA" THEN n - OnSteps(n, a, p) ELSE 0]
      <4>1. k + 1 \in Nat
        OBVIOUS
      <4>2. QED
        BY <1>2, <2>2, <3>3, <4>1 DEF ExpectedEvents, ExpectedEpochs
    <3> HIDE DEF ev, ep, sc, before, engine, offs, ons, on, now, then, turnsOn, turnsOff
    <3>11. CASE c.kind = "TTFF"
      <4>1. /\ PowerOn(engine, sc) <=> turnsOn
            /\ PowerOff(engine, sc) <=> turnsOff
            /\ SignalOn(engine, sc) <=> turnsOn
            /\ SignalOff(engine, sc) <=> turnsOff
            /\ sc.powered <=> now
            /\ sc.signal <=> now
            /\ ~(sc.powered /\ ~sc.signal)
        BY <1>4, <3>5, <3>7, <3>11
      <4>2. QED
        BY <3>4, <3>8, <3>9, <3>11, <4>1 DEF CountIf
    <3>12. CASE c.kind = "REA"
      <4>1. /\ ~PowerOn(engine, sc) /\ ~PowerOff(engine, sc)
            /\ SignalOn(engine, sc) <=> turnsOn
            /\ SignalOff(engine, sc) <=> turnsOff
            /\ sc.powered
            /\ sc.signal <=> now
        BY <1>4, <3>5, <3>7, <3>12
      <4>2. QED
        BY <3>4, <3>8, <3>9, <3>12, <4>1 DEF CountIf
    <3>13. QED
      BY <1>3, <2>2, <3>11, <3>12
  <2>3. QED
    BY <2>1, <2>2
<1> HIDE DEF sc, before, engine, ev, ep
<1>7. QED
  BY <1>1, <1>5, <1>6 DEF sc

(* Of a set of numbers that is not empty one is the least.                 *)
LEMMA LeastNumber ==
  ASSUME NEW S \in SUBSET Nat, NEW s \in S
  PROVE  \E n \in S : \A m \in S : ~(m < n)
<1>1. PICK n \in S : \A m \in S : ~(<<m, n>> \in OpToRel(<, Nat))
  BY NatLessThanWellFounded, WFMin
<1>2. \A m \in S : m < n => <<m, n>> \in OpToRel(<, Nat)
  BY DEF OpToRel
<1>3. QED
  BY <1>1, <1>2

\* What the validation harness expects of a run (run_extended.py computes it in
\* closed form from the configuration) is what the scenario engine does over the
\* epochs of the run, for every scenario that validate_sim_config accepts, every
\* sampling step its cycle is aligned with and every number of epochs: the
\* transitions of power and signals, and the powered and available epochs.
THEOREM OracleIsExact ==
  ASSUME NEW c \in Scenarios, NEW step \in Nat \ {0}, NEW n \in Nat \ {0}, Aligned(c, step)
  PROVE  ExpectationHolds(c, n * step, step)
<1> DEFINE IsCount(f) ==
             f = [k \in 0..n |->
                    IF k = 0 THEN NothingYet ELSE Step(f[k - 1], ScenarioAt(c, (k - 1) * step))]
           after == CHOOSE f : IsCount(f)
           g == [k \in 0..n |-> Foreseen(c, k, step)]
<1>1. (n * step) \div step = n
  BY Multiples
<1>2. Simulated(c, n * step, step) = after[n]
  BY Zenon, <1>1 DEF Simulated
<1>3. \A k \in 1..n : Foreseen(c, k, step) = Step(Foreseen(c, k - 1, step), ScenarioAt(c, (k - 1) * step))
  <2>1. TAKE k \in 1..n
  <2>2. CASE k = 1
    <3>1. Foreseen(c, 1, step) = Step(NothingYet, ScenarioAt(c, 0 * step))
      BY FirstEpoch
    <3>2. k - 1 = 0 /\ Foreseen(c, 0, step) = NothingYet
      BY <2>2 DEF Foreseen
    <3>3. QED
      BY Zenon, <2>2, <3>1, <3>2
  <2>3. CASE k # 1
    <3> DEFINE j == k - 1
    <3>1. j \in Nat \ {0} /\ k = j + 1
      BY <2>3
    <3> HIDE DEF j
    <3>2. Foreseen(c, j + 1, step) = Step(Foreseen(c, j, step), ScenarioAt(c, j * step))
      BY <3>1, NextEpoch
    <3>3. QED
      BY Zenon, <3>1, <3>2 DEF j
  <2>4. QED
    BY <2>2, <2>3
<1>4. IsCount(g)
  <2>1. ASSUME NEW k \in 0..n
        PROVE  g[k] = IF k = 0 THEN NothingYet ELSE Step(g[k - 1], ScenarioAt(c, (k - 1) * step))
    <3>1. CASE k = 0
      BY <3>1 DEF Foreseen
    <3>2. CASE k # 0
      <4>1. k \in 1..n /\ k - 1 \in 0..n
        BY <3>2
      <4>2. g[k] = Foreseen(c, k, step) /\ g[k - 1] = Foreseen(c, k - 1, step)
        BY <4>1
      <4> HIDE DEF g
      <4>3. QED
        BY Zenon, <1>3, <3>2, <4>1, <4>2
    <3>3. QED
      BY <3>1, <3>2
  <2>2. g = [k \in 0..n |-> g[k]]
    OBVIOUS
  <2> HIDE DEF g
  <2>3. QED
    BY <2>1, <2>2
<1> HIDE DEF g
<1>5. IsCount(after)
  BY <1>4
<1> HIDE DEF after
<1>6. \A k \in 0..n :
        after[k] = IF k = 0 THEN NothingYet ELSE Step(after[k - 1], ScenarioAt(c, (k - 1) * step))
  BY <1>5
<1>7. \A k \in 0..n : after[k] = Foreseen(c, k, step)
  <2> DEFINE Wrong == {k \in 0..n : after[k] # Foreseen(c, k, step)}
  <2>1. SUFFICES ASSUME NEW w \in Wrong PROVE FALSE
    OBVIOUS
  <2>2. PICK k \in Wrong : \A m \in Wrong : ~(m < k)
    <3>1. Wrong \in SUBSET Nat
      OBVIOUS
    <3> HIDE DEF Wrong
    <3>2. QED
      BY <3>1, LeastNumber
  <2>3. k # 0
    BY <1>6 DEF Foreseen
  <2>4. k \in 1..n /\ k - 1 \in 0..n /\ k - 1 < k
    BY <2>3
  <2>5. after[k - 1] = Foreseen(c, k - 1, step)
    BY <2>2, <2>4
  <2>6. after[k] = Step(after[k - 1], ScenarioAt(c, (k - 1) * step))
    BY <1>6, <2>3
  <2>7. after[k] = Foreseen(c, k, step)
    BY Zenon, <1>3, <2>4, <2>5, <2>6
  <2>8. QED
    BY <2>7
<1>8. Simulated(c, n * step, step) = Foreseen(c, n, step)
  BY <1>2, <1>7
<1>9. /\ Foreseen(c, n, step).events = ExpectedEvents(c, n * step)
      /\ Foreseen(c, n, step).epochs = ExpectedEpochs(c, n * step, step)
  BY DEF Foreseen
<1>10. QED
  BY <1>8, <1>9 DEF ExpectationHolds

-----------------------------------------------------------------------------
(* The collector of fragments.                                             *)

Heard(required, fragments, n) == {k \in 1..n : fragments[k].id \in required}
Unmixed(required, fragments, n) ==
  {k \in Heard(required, fragments, n) :
     \A j \in Heard(required, fragments, n) : j >= k => fragments[j].issue = fragments[k].issue}

Fragments == [id : Nat, issue : Int]

(* What the collector holds after n fragments: those since the last change *)
(* of issue, all of the issue it remembers.                                *)
CollectorInv(required, fragments, n, c) ==
  /\ c = [required |-> required, received |-> c.received, issue |-> c.issue, complete |-> c.complete]
  /\ c.received = {fragments[k].id : k \in Unmixed(required, fragments, n)}
  /\ \A k \in Unmixed(required, fragments, n) : fragments[k].issue = c.issue
  /\ c.complete = (required \subseteq c.received)

(* One more fragment: refused, of the same issue, or the first of another. *)
LEMMA IngestKeeps ==
  ASSUME NEW required, NEW fragments \in Seq(Fragments), NEW n \in 1..Len(fragments),
         NEW c, CollectorInv(required, fragments, n - 1, c)
  PROVE  CollectorInv(required, fragments, n, Ingest(c, fragments[n]))
<1> DEFINE f == fragments[n]
           before == Heard(required, fragments, n - 1)
           now == Heard(required, fragments, n)
           old == Unmixed(required, fragments, n - 1)
           new == Unmixed(required, fragments, n)
<1>1. n \in Nat \ {0} /\ n - 1 \in Nat /\ n \notin before /\ before \subseteq Nat
      /\ \A k \in before : k < n
  BY DEF Heard
<1>2. CASE f.id \notin required
  <2>1. now = before
    BY <1>1, <1>2 DEF Heard
  <2>2. new = old
    BY <2>1 DEF Unmixed
  <2>3. c.required = required
    BY DEF CollectorInv
  <2> HIDE DEF f
  <2>4. Ingest(c, f) = c
    BY <1>2, <2>3 DEF Ingest
  <2>5. QED
    BY <2>2, <2>4 DEF CollectorInv, f
<1>3. CASE f.id \in required
  <2> DEFINE received == (IF c.issue = f.issue THEN c.received ELSE {}) \cup {f.id}
             d == Ingest(c, f)
  <2>1. now = before \cup {n}
    BY <1>1, <1>3 DEF Heard
  <2>2. new = {k \in old : fragments[k].issue = f.issue} \cup {n}
    <3>1. ASSUME NEW k \in before
          PROVE  k \in new <=> k \in old /\ fragments[k].issue = f.issue
      <4>1. k \in now /\ k < n /\ k \in Nat
        BY <1>1, <2>1, <3>1
      <4>2. QED
        BY <1>1, <2>1, <4>1 DEF Unmixed
    <3>2. n \in new
      BY <1>1, <2>1 DEF Unmixed
    <3>3. old \subseteq before /\ new \subseteq before \cup {n}
      BY <2>1 DEF Unmixed
    <3>4. QED
      BY <3>1, <3>2, <3>3
  <2>3. /\ c = [required |-> required, received |-> c.received, issue |-> c.issue, complete |-> c.complete]
        /\ c.received = {fragments[k].id : k \in old}
        /\ \A k \in old : fragments[k].issue = c.issue
    BY DEF CollectorInv
  <2>4. d = [required |-> required, received |-> received, issue |-> f.issue,
             complete |-> (required \subseteq received)]
    <3>1. d = [c EXCEPT !.received = received, !.issue = f.issue, !.complete = (c.required \subseteq received)]
      BY <1>3, <2>3 DEF Ingest
    <3> HIDE DEF d, received, f
    <3>2. c.required = required
      BY <2>3
    <3>3. QED
      BY <2>3, <3>1, <3>2
  <2> HIDE DEF d, old, new, f
  <2>5. received = {fragments[k].id : k \in new}
    <3>1. CASE c.issue = f.issue
      <4>1. new = old \cup {n}
        BY <2>2, <2>3, <3>1
      <4>2. QED
        BY <2>3, <3>1, <4>1 DEF f
    <3>2. CASE c.issue # f.issue
      <4>1. new = {n}
        BY <2>2, <2>3, <3>2
      <4>2. QED
        BY <3>2, <4>1 DEF f
    <3>3. QED
      BY <3>1, <3>2
  <2>6. \A k \in new : fragments[k].issue = f.issue
    BY <2>2 DEF f
  <2> HIDE DEF received
  <2>7. QED
    BY <2>4, <2>5, <2>6 DEF CollectorInv, d, f, new
<1>4. QED
  BY <1>2, <1>3

(* The recursive function of the collector exists.                         *)
IsCollector(f, n, required, fragments) ==
  f = [k \in 0..n |-> IF k = 0 THEN NewCollector(required) ELSE Ingest(f[k - 1], fragments[k])]

LEMMA CollectorExists ==
  ASSUME NEW required, NEW fragments, NEW n \in Nat
  PROVE  \E f : IsCollector(f, n, required, fragments)
<1> DEFINE Without == {m \in Nat : \A f : ~IsCollector(f, m, required, fragments)}
<1>1. SUFFICES ASSUME n \in Without PROVE FALSE
  OBVIOUS
<1>2. PICK m \in Without : \A k \in Without : ~(k < m)
  <2>1. Without \in SUBSET Nat
    OBVIOUS
  <2> HIDE DEF Without
  <2>2. QED
    BY <1>1, <2>1, LeastNumber
<1>3. IsCollector([k \in 0..0 |-> NewCollector(required)], 0, required, fragments)
  BY DEF IsCollector
<1>4. m - 1 \in Nat /\ m - 1 < m
  BY <1>2, <1>3
<1>5. PICK f : IsCollector(f, m - 1, required, fragments)
  BY <1>2, <1>4
<1> DEFINE g == [k \in 0..m |-> IF k = m THEN Ingest(f[m - 1], fragments[m]) ELSE f[k]]
<1>6. ASSUME NEW k \in 0..m
      PROVE  g[k] = IF k = 0 THEN NewCollector(required) ELSE Ingest(g[k - 1], fragments[k])
  <2>1. CASE k = m
    BY <1>4, <2>1
  <2>2. CASE k # m
    <3>1. k \in 0..(m - 1) /\ (k # 0 => k - 1 \in 0..(m - 1) /\ k - 1 # m)
      BY <1>4, <2>2
    <3>2. g[k] = f[k] /\ (k # 0 => g[k - 1] = f[k - 1])
      BY <2>2, <3>1
    <3>3. f[k] = IF k = 0 THEN NewCollector(required) ELSE Ingest(f[k - 1], fragments[k])
      BY <1>5, <3>1 DEF IsCollector
    <3> HIDE DEF g
    <3>4. QED
      BY <3>2, <3>3
  <2>3. QED
    BY <2>1, <2>2
<1>7. g = [k \in 0..m |-> g[k]]
  OBVIOUS
<1> HIDE DEF g
<1>8. IsCollector(g, m, required, fragments)
  BY <1>6, <1>7 DEF IsCollector
<1>9. QED
  BY <1>2, <1>8

\* NavFragmentCollector never combines fragments of two issues of data: whatever
\* fragments arrive in whatever order and with whatever repeats, an ephemeris is
\* complete exactly when all it requires came since the issue last changed.
THEOREM FragmentsAreWhole ==
  ASSUME NEW required, required # {}, NEW fragments \in Seq(Fragments)
  PROVE  OneIssue(required, fragments)
<1> DEFINE f == CHOOSE f : IsCollector(f, Len(fragments), required, fragments)
           Inv(n) == CollectorInv(required, fragments, n, Collected(required, fragments, n))
<1>1. Len(fragments) \in Nat
  OBVIOUS
<1>2. IsCollector(f, Len(fragments), required, fragments)
  BY <1>1, CollectorExists
<1>3. \A n : Collected(required, fragments, n) = f[n]
  BY DEF Collected, IsCollector
<1> HIDE DEF f
<1>4. /\ Collected(required, fragments, 0) = NewCollector(required)
      /\ \A n \in 1..Len(fragments) :
           Collected(required, fragments, n) = Ingest(Collected(required, fragments, n - 1), fragments[n])
  <2>1. \A n \in 0..Len(fragments) :
          f[n] = IF n = 0 THEN NewCollector(required) ELSE Ingest(f[n - 1], fragments[n])
    BY <1>2 DEF IsCollector
  <2>2. QED
    BY <1>1, <1>3, <2>1
<1>5. Inv(0)
  <2>1. Unmixed(required, fragments, 0) = {}
    BY DEF Unmixed, Heard
  <2> DEFINE c == NewCollector(required)
  <2>2. /\ c = [required |-> required, received |-> {}, issue |-> NoIssue, complete |-> FALSE]
        /\ c.received = {} /\ c.issue = NoIssue /\ c.complete = FALSE
    BY DEF NewCollector
  <2>3. (required \subseteq {}) = FALSE
    OBVIOUS
  <2> HIDE DEF c
  <2>4. CollectorInv(required, fragments, 0, c)
    BY <2>1, <2>2, <2>3 DEF CollectorInv
  <2>5. QED
    BY <1>4, <2>4 DEF c
<1>6. \A n \in 0..Len(fragments) : Inv(n)
  <2> DEFINE Bad == {n \in 0..Len(fragments) : ~Inv(n)}
  <2>1. SUFFICES ASSUME NEW b \in Bad PROVE FALSE
    OBVIOUS
  <2>2. PICK n \in Bad : \A m \in Bad : ~(m < n)
    <3>1. Bad \in SUBSET Nat
      OBVIOUS
    <3> HIDE DEF Bad
    <3>2. QED
      BY <3>1, LeastNumber
  <2> HIDE DEF Inv
  <2>3. n \in 1..Len(fragments) /\ n - 1 \in 0..Len(fragments) /\ n - 1 < n
    BY <1>5
  <2>4. Inv(n - 1)
    BY <2>2, <2>3
  <2>5. Inv(n)
    BY <1>4, <2>3, <2>4, IngestKeeps DEF Inv
  <2>6. QED
    BY <2>5
<1>7. ASSUME NEW n \in 0..Len(fragments)
      PROVE  Collected(required, fragments, n).complete <=>
               required \subseteq {fragments[k].id : k \in Unmixed(required, fragments, n)}
  <2>1. Inv(n)
    BY <1>6
  <2>2. QED
    BY <2>1 DEF CollectorInv
<1>8. QED
  BY <1>7 DEF OneIssue, Unmixed, Heard

-----------------------------------------------------------------------------
(* The acquisition plans.                                                  *)

(* What set_fragment accepts, of a cycle that the week is made of.         *)
FitsTheWeek(cycle) == WeekUnits % cycle = 0
IsLayout(l) ==
  /\ l.cycle \in Nat \ {0} /\ FitsTheWeek(l.cycle) /\ l.offset \in Int
  /\ \E n \in Nat \ {0} :
       l.fragments \in [1..n -> (0..(l.cycle - 1)) \X (Nat \ {0})]

(* From any time the next slot is less than a cycle away.                  *)
ToSlot(cycle, offset, slot, from) ==
  LET r == ((from % WeekUnits) + offset) % cycle
  IN  IF slot - r < 0 THEN slot - r + cycle ELSE slot - r

LEMMA NextSlot ==
  ASSUME NEW cycle \in Nat \ {0}, FitsTheWeek(cycle),
         NEW offset \in Int, NEW slot \in 0..(cycle - 1), NEW from \in Int
  PROVE  LET d == ToSlot(cycle, offset, slot, from)
         IN  d \in 0..(cycle - 1) /\ \E v \in Int : from + d + offset - slot = cycle * v
<1> DEFINE W == WeekUnits
           F == from % W
           w == from \div W
           m == W \div cycle
           x == F + offset
           q == x \div cycle
           r == x % cycle
           d == IF slot - r < 0 THEN slot - r + cycle ELSE slot - r
           u == m * w + q
           u1 == u + 1
<1>0. W \in Nat \ {0} /\ W % cycle = 0
  BY DEF WeekUnits, FitsTheWeek
<1> HIDE DEF W
<1>1. F \in Int /\ w \in Int /\ from = W * w + F
  BY <1>0, FloorDivision
<1>2. m \in Int /\ W = cycle * m
  <2>1. m \in Int /\ W = cycle * m + (W % cycle)
    BY <1>0, FloorDivision
  <2> HIDE DEF m
  <2>2. cycle * m \in Int
    BY <2>1
  <2>3. QED
    BY <1>0, <2>1, <2>2
<1> HIDE DEF F, w, m
<1>3. x \in Int
  BY <1>1
<1> HIDE DEF x
<1>4. q \in Int /\ r \in 0..(cycle - 1) /\ x = cycle * q + r
  BY <1>3, FloorDivision
<1> HIDE DEF q, r
<1>5. d \in 0..(cycle - 1) /\ (d = slot - r \/ d = slot - r + cycle)
  BY <1>4
<1>6. from + offset = cycle * u + r /\ u \in Int /\ cycle * u \in Int
  <2>1. from + offset = cycle * m * w + cycle * q + r
    BY <1>1, <1>2, <1>4 DEF x
  <2>2. m * w \in Int /\ cycle * (m * w) = cycle * m * w /\ cycle * (m * w) \in Int
    BY <1>1, <1>2
  <2>3. cycle * (m * w + q) = cycle * (m * w) + cycle * q /\ cycle * q \in Int
    BY <1>4, <2>2, Ordered
  <2>4. QED
    BY <1>4, <2>1, <2>2, <2>3
<1>7. u1 \in Int /\ cycle * u1 = cycle * u + cycle
  <2> HIDE DEF u
  <2>1. cycle * (u + 1) = cycle * u + cycle * 1 /\ cycle * 1 = cycle
    BY <1>6, Ordered
  <2>2. QED
    BY <1>6, <2>1
<1> HIDE DEF u, u1, d
<1>8. from + d + offset - slot = cycle * u \/ from + d + offset - slot = cycle * u1
  BY <1>4, <1>5, <1>6, <1>7
<1>9. \E v \in Int : from + d + offset - slot = cycle * v
  BY <1>6, <1>7, <1>8
<1>10. QED
  BY <1>5, <1>9 DEF d, r, x, F, W, ToSlot

(* A fragment is complete when it was sent as a whole for the first time   *)
(* since the acquisition.                                                  *)
LEMMA CompletionIsEarliest ==
  ASSUME NEW l, NEW cycle \in Nat \ {0}, NEW offset \in Int, l.cycle = cycle, l.offset = offset,
         FitsTheWeek(cycle),
         NEW slot \in 0..(cycle - 1), NEW duration \in Nat \ {0}, NEW from \in Int
  PROVE  LET fragment == <<slot, duration>>
             to == Completion(l, fragment, from)
         IN  /\ to \in (from + duration)..(from + cycle - 1 + duration)
             /\ \A t \in Int : OnAirBetween(l, fragment, from, t) <=> t >= to
<1> DEFINE fragment == <<slot, duration>>
           d == ToSlot(cycle, offset, slot, from)
           start == from + d
           to == start + duration
<1>1. Completion(l, fragment, from) = to
  BY Zenon DEF Completion, ToSlot
<1>2. d \in 0..(cycle - 1) /\ \E v \in Int : from + d + offset - slot = cycle * v
  BY NextSlot
<1> HIDE DEF d
<1>3. PICK v \in Int : start + offset - slot = cycle * v
  BY <1>2
<1>4. start \in Int /\ to \in Int /\ from <= start /\ start < from + cycle
  BY <1>2
<1> HIDE DEF start
<1>5. (start + offset - slot) % cycle = 0
  <2> DEFINE y == start + offset - slot
  <2>1. y \in Int /\ y = cycle * v + 0 /\ 0 \in 0..(cycle - 1)
    BY <1>3, <1>4
  <2> HIDE DEF y
  <2>2. y % cycle = 0
    BY <2>1, DivisionIs
  <2>3. QED
    BY <2>2 DEF y
<1>6. ASSUME NEW s \in Int, s >= from, (s + offset - slot) % cycle = 0
       PROVE  s >= start
  <2> DEFINE y == s + offset - slot
             z == y \div cycle
  <2>1. y \in Int
    OBVIOUS
  <2> HIDE DEF y
  <2>2. z \in Int /\ y % cycle \in 0..(cycle - 1) /\ y = cycle * z + (y % cycle)
    BY <2>1, FloorDivision
  <2> HIDE DEF z
  <2>3. y % cycle = 0
    BY <1>6 DEF y
  <2>4. y = cycle * z /\ cycle * z \in Int /\ cycle * v \in Int
    <3>1. cycle * z \in Int /\ cycle * v \in Int
      BY <1>3, <2>2
    <3>2. QED
      BY <2>2, <2>3, <3>1
  <2>5. z < v => cycle * z + cycle <= cycle * v
    BY <1>3, <2>2, Ordered
  <2>6. v <= z => cycle * v <= cycle * z
    BY <1>3, <2>2, Ordered
  <2>7. QED
    BY <1>3, <1>4, <1>6, <2>2, <2>4, <2>5, <2>6 DEF y
<1>7. ASSUME NEW t \in Int
       PROVE  OnAirBetween(l, fragment, from, t) <=> t >= to
  <2>1. OnAirBetween(l, fragment, from, t) <=>
          \E s \in from..(t - duration) : (s + offset - slot) % cycle = 0
    BY DEF OnAirBetween
  <2>2. ASSUME NEW s \in from..(t - duration), (s + offset - slot) % cycle = 0
        PROVE  t >= to
    BY <1>4, <1>6, <2>2
  <2>3. ASSUME t >= to PROVE start \in from..(t - duration)
    BY <1>4, <2>3
  <2>4. QED
    BY <1>5, <2>1, <2>2, <2>3
<1>8. to \in (from + duration)..(from + cycle - 1 + duration)
  BY <1>4
<1>9. QED
  BY Zenon, <1>1, <1>7, <1>8

(* Of finitely many numbers one is the greatest.                           *)
LEMMA GreatestOf ==
  ASSUME NEW n \in Nat \ {0}, NEW c \in [1..n -> Int]
  PROVE  \E k \in 1..n : \A j \in 1..n : c[j] <= c[k]
<1> DEFINE Without == {m \in 1..n : ~\E k \in 1..m : \A j \in 1..m : c[j] <= c[k]}
<1>1. SUFFICES ASSUME n \in Without PROVE FALSE
  OBVIOUS
<1>2. PICK m \in Without : \A k \in Without : ~(k < m)
  <2>1. Without \in SUBSET Nat
    OBVIOUS
  <2> HIDE DEF Without
  <2>2. QED
    BY <1>1, <2>1, LeastNumber
<1>3. m # 1
  BY <1>2
<1>4. m - 1 \in 1..n /\ m - 1 < m /\ m \in 1..n
  BY <1>2, <1>3
<1>5. PICK k \in 1..(m - 1) : \A j \in 1..(m - 1) : c[j] <= c[k]
  BY <1>2, <1>4
<1>6. \A j \in 1..m : j \in 1..(m - 1) \/ j = m
  BY <1>4
<1>7. \A j \in 1..m : c[j] \in Int
  BY <1>4
<1>8. CASE c[m] <= c[k]
  <2>1. k \in 1..m /\ \A j \in 1..m : c[j] <= c[k]
    BY <1>4, <1>5, <1>6, <1>8
  <2>2. QED
    BY <1>2, <2>1
<1>9. CASE ~(c[m] <= c[k])
  <2>1. m \in 1..m /\ k \in 1..m
    BY <1>4
  <2>2. \A j \in 1..m : c[j] <= c[m]
    BY <1>5, <1>6, <1>7, <1>9, <2>1
  <2>3. QED
    BY <1>2, <2>1, <2>2
<1>10. QED
  BY <1>8, <1>9

(* ... and it is their maximum.                                            *)
LEMMA MaxIs ==
  ASSUME NEW S \in SUBSET Int, NEW x \in S, \A y \in S : y <= x
  PROVE  Max(S) = x
<1>1. x \in S /\ \A y \in S : x >= y
  OBVIOUS
<1>2. Max(S) \in S /\ \A y \in S : Max(S) >= y
  BY <1>1 DEF Max
<1> DEFINE m == Max(S)
<1>3. m \in Int /\ x \in Int /\ m >= x /\ x >= m
  BY <1>1, <1>2
<1> HIDE DEF m
<1>4. m = x
  BY <1>3
<1>5. QED
  BY <1>4 DEF m

(* The last of the fragments completes the plan of its layout.             *)
LEMMA EarliestOfLayout ==
  ASSUME NEW l, IsLayout(l), NEW from \in Int
  PROVE  PlanIsEarliest(l, from)
<1> DEFINE cycle == l.cycle
           offset == l.offset
           F == l.fragments
           C == Completions(l, from)
           to == Availability(l, from)
<1>1. cycle \in Nat \ {0} /\ FitsTheWeek(cycle) /\ offset \in Int
  BY DEF IsLayout
<1>2. PICK n \in Nat \ {0} : F \in [1..n -> (0..(cycle - 1)) \X (Nat \ {0})]
  BY DEF IsLayout
<1>3. ASSUME NEW k \in 1..n
      PROVE  /\ C[k] \in (from + F[k][2])..(from + cycle - 1 + F[k][2]) /\ F[k][2] \in Nat \ {0}
             /\ \A t \in Int : OnAirBetween(l, F[k], from, t) <=> t >= C[k]
  <2> DEFINE slot == F[k][1]
             duration == F[k][2]
  <2>1. F[k] = <<slot, duration>> /\ slot \in 0..(cycle - 1) /\ duration \in Nat \ {0}
    BY <1>2
  <2>2. C[k] = Completion(l, F[k], from)
    BY <1>2 DEF Completions
  <2> HIDE DEF slot, duration, C
  <2>3. /\ Completion(l, <<slot, duration>>, from) \in (from + duration)..(from + cycle - 1 + duration)
        /\ \A t \in Int : OnAirBetween(l, <<slot, duration>>, from, t) <=> t >= Completion(l, <<slot, duration>>, from)
    BY <1>1, <2>1, CompletionIsEarliest
  <2>4. QED
    BY Zenon, <2>1, <2>2, <2>3 DEF duration
<1>4. DOMAIN F = 1..n /\ C \in [1..n -> Int] /\ DOMAIN C = 1..n
  <2>1. DOMAIN F = 1..n
    BY <1>2
  <2>2. C = [k \in 1..n |-> C[k]]
    BY <2>1 DEF Completions
  <2>3. \A k \in 1..n : C[k] \in Int
    BY <1>1, <1>3
  <2> HIDE DEF C
  <2>4. QED
    BY <2>1, <2>2, <2>3
<1> HIDE DEF C
<1>5. PICK last \in 1..n : \A j \in 1..n : C[j] <= C[last]
  BY <1>4, GreatestOf
<1>6. C[last] \in Int /\ C[last] > from
  BY <1>1, <1>3, <1>4
<1>7. to = C[last]
  <2> DEFINE S == {from} \cup {C[k] : k \in 1..n}
  <2>1. to = Max(S)
    BY <1>4 DEF Availability, ToSet, C
  <2>2. S \in SUBSET Int /\ C[last] \in S /\ \A y \in S : y <= C[last]
    BY <1>4, <1>5, <1>6
  <2> HIDE DEF S
  <2>3. QED
    BY <2>1, <2>2, MaxIs
<1> HIDE DEF to
<1>8. to \in Int /\ to - 1 \in Int /\ to > from /\ to - 1 >= from
  BY <1>6, <1>7
<1>9. \A k \in DOMAIN F : OnAirBetween(l, F[k], from, to)
  BY <1>3, <1>4, <1>5, <1>7, <1>8
<1>10. \E k \in DOMAIN F : ~OnAirBetween(l, F[k], from, to - 1)
  <2>1. OnAirBetween(l, F[last], from, to - 1) <=> to - 1 >= C[last]
    BY <1>3, <1>8
  <2>2. ~(to - 1 >= C[last])
    BY <1>6, <1>7
  <2>3. QED
    BY <1>4, <2>1, <2>2
<1>11. \A t \in Int : t >= from => ReceivedAt(l, from, t) = {k \in 1..n : C[k] <= t}
  BY <1>4 DEF ReceivedAt, C
<1>12. CompleteAt(l, from, to)
  <2>1. {k \in 1..n : C[k] <= to} = 1..n
    BY <1>5, <1>7
  <2>2. ReceivedAt(l, from, to) = {k \in 1..n : C[k] <= to}
    BY <1>8, <1>11
  <2>3. QED
    BY Zenon, <1>4, <2>1, <2>2 DEF CompleteAt
<1>13. ~CompleteAt(l, from, to - 1)
  <2>1. last \notin {k \in 1..n : C[k] <= to - 1}
    BY <1>6, <1>7
  <2>2. ReceivedAt(l, from, to - 1) = {k \in 1..n : C[k] <= to - 1}
    BY <1>8, <1>11
  <2>3. QED
    BY Zenon, <1>4, <2>1, <2>2 DEF CompleteAt
<1>14. to - from <= cycle + Max({f[2] : f \in ToSet(F)})
  <2> DEFINE D == [k \in 1..n |-> F[k][2]]
  <2>1. D \in [1..n -> Int]
    BY <1>3
  <2>2. \A k \in 1..n : D[k] = F[k][2]
    OBVIOUS
  <2> HIDE DEF D
  <2>3. PICK longest \in 1..n : \A j \in 1..n : D[j] <= D[longest]
    BY <2>1, GreatestOf
  <2> DEFINE S == {f[2] : f \in ToSet(F)}
  <2>4. S = {D[k] : k \in 1..n}
    <3>1. ToSet(F) = {F[k] : k \in 1..n}
      BY <1>4 DEF ToSet
    <3> HIDE DEF F
    <3>2. S = {F[k][2] : k \in 1..n}
      BY <3>1
    <3>3. QED
      BY <2>2, <3>2
  <2>5. S \in SUBSET Int /\ D[longest] \in S /\ \A y \in S : y <= D[longest]
    BY <2>1, <2>3, <2>4
  <2>6. Max(S) = D[longest]
    <3> HIDE DEF S
    <3>1. QED
      BY <2>5, MaxIs
  <2>7. C[last] <= from + cycle - 1 + D[last] /\ D[last] <= D[longest] /\ D[last] \in Int /\ D[longest] \in Int
    <3>1. C[last] \in (from + F[last][2])..(from + cycle - 1 + F[last][2]) /\ F[last][2] \in Nat \ {0}
      BY <1>3
    <3>2. D[last] = F[last][2] /\ D[last] <= D[longest] /\ D[longest] \in Int
      BY <2>1, <2>2, <2>3
    <3> HIDE DEF F, cycle
    <3>3. QED
      BY <1>1, <3>1, <3>2
  <2> HIDE DEF S
  <2>8. to - from <= cycle + Max(S)
    BY <1>1, <1>6, <1>7, <2>6, <2>7
  <2>9. QED
    BY <2>8 DEF S
<1>15. QED
  BY <1>9, <1>10, <1>12, <1>13, <1>14 DEF PlanIsEarliest, to

WellLaid(l) == IsLayout(l) /\ FragmentsDoNotOverlap(l)

(* Fragments that follow one another within a cycle that divides a week.   *)
LEMMA FragmentsAreLaid ==
  ASSUME NEW l, NEW n \in Nat \ {0}, NEW cycle \in Nat \ {0},
         NEW slot \in [1..n -> Nat], NEW duration \in Nat \ {0},
         l.cycle = cycle, l.offset \in Int, FitsTheWeek(cycle),
         l.fragments = [k \in 1..n |-> <<slot[k], duration>>],
         \A j, k \in 1..n : j < k => slot[j] + duration <= slot[k],
         \A k \in 1..n : slot[k] + duration <= cycle
  PROVE  WellLaid(l)
<1> DEFINE F == l.fragments
           T == (0..(cycle - 1)) \X (Nat \ {0})
<1>1. \A k \in 1..n : F[k] = <<slot[k], duration>>
  OBVIOUS
<1>2. \A k \in 1..n : F[k][1] = slot[k] /\ F[k][2] = duration
  BY <1>1
<1>3. DOMAIN F = 1..n
  OBVIOUS
<1>4. F = [k \in 1..n |-> F[k]]
  OBVIOUS
<1> HIDE DEF F
<1>5. IsLayout(l)
  <2>1. ASSUME NEW k \in 1..n PROVE F[k] \in T
    <3>1. slot[k] \in 0..(cycle - 1)
      <4>1. slot[k] \in Nat /\ slot[k] + duration <= cycle
        OBVIOUS
      <4>2. QED
        BY <4>1
    <3>2. <<slot[k], duration>> \in T
      BY <3>1
    <3>3. QED
      BY Zenon, <1>1, <3>2
  <2> HIDE DEF T
  <2>2. F \in [1..n -> T]
    BY <1>4, <2>1
  <2>3. F \in [1..n -> (0..(l.cycle - 1)) \X (Nat \ {0})]
    BY <2>2 DEF T
  <2>4. QED
    BY <2>3 DEF IsLayout, F
<1>6. FragmentsDoNotOverlap(l)
  <2>1. \A j, k \in 1..n : j < k => F[j][1] + F[j][2] <= F[k][1]
    BY <1>2
  <2>2. \A k \in 1..n : F[k][1] + F[k][2] <= l.cycle
    BY <1>2
  <2>3. ToSet(F) = {F[k] : k \in 1..n}
    BY <1>3 DEF ToSet
  <2>4. \A f \in ToSet(F) : f[1] + f[2] <= l.cycle
    BY <2>2, <2>3
  <2>5. QED
    BY <1>3, <2>1, <2>4 DEF FragmentsDoNotOverlap, F
<1>7. QED
  BY <1>5, <1>6 DEF WellLaid

(* Fragments of one length, in seconds.                                    *)
LEMMA LayoutIs ==
  ASSUME NEW n \in Nat \ {0}, NEW slots \in [1..n -> Nat], NEW cycle \in Nat \ {0},
         NEW duration \in Nat \ {0}, NEW offset \in Int, FitsTheWeek(5 * cycle),
         DOMAIN slots = 1..n,
         \A j, k \in 1..n : j < k => slots[j] + duration <= slots[k],
         \A k \in 1..n : slots[k] + duration <= cycle
  PROVE  WellLaid(Layout(offset, cycle, duration, slots))
<1> DEFINE l == Layout(offset, cycle, duration, slots)
           slot == [k \in 1..n |-> 5 * slots[k]]
           tick == 5 * cycle
           length == 5 * duration
<1>1. l.cycle = tick /\ l.offset = offset
  BY DEF Layout
<1>2. l.fragments = [k \in 1..n |-> <<slot[k], length>>]
  BY DEF Layout
<1>3. slot \in [1..n -> Nat] /\ tick \in Nat \ {0} /\ length \in Nat \ {0}
  OBVIOUS
<1>4. ASSUME NEW j \in 1..n, NEW k \in 1..n, j < k
      PROVE  slot[j] + length <= slot[k]
  <2>1. slots[j] + duration <= slots[k] /\ slots[j] \in Nat /\ slots[k] \in Nat
    BY <1>4
  <2>2. slot[j] = 5 * slots[j] /\ slot[k] = 5 * slots[k]
    OBVIOUS
  <2> HIDE DEF slot
  <2>3. QED
    BY <2>1, <2>2
<1>5. ASSUME NEW k \in 1..n PROVE slot[k] + length <= tick
  <2>1. slots[k] + duration <= cycle /\ slots[k] \in Nat
    OBVIOUS
  <2>2. slot[k] = 5 * slots[k]
    OBVIOUS
  <2> HIDE DEF slot
  <2>3. QED
    BY <2>1, <2>2
<1> HIDE DEF l, slot, length
<1>6. WellLaid(l)
  BY <1>1, <1>2, <1>3, <1>4, <1>5, FragmentsAreLaid
<1>7. QED
  BY <1>6 DEF l

(* The cycles of the constellations divide a week.                         *)
LEMMA CyclesFitTheWeek ==
  \A cycle \in {2, 9, 18, 30, 36, 50} : FitsTheWeek(5 * cycle)
BY DEF FitsTheWeek, WeekUnits

(* The layouts of nav_message_scheduler.cpp, one by one.                   *)
LEMMA LayoutsAreWellLaid ==
  /\ WellLaid(Lnav) /\ WellLaid(Cnav(12)) /\ WellLaid(Cnav(6)) /\ WellLaid(Cnav2)
  /\ WellLaid(GlonassFdma) /\ WellLaid(GlonassL3oc)
  /\ WellLaid(InavE1) /\ WellLaid(InavE5b) /\ WellLaid(Fnav)
  /\ WellLaid(BeidouD1) /\ WellLaid(Bcnav1) /\ WellLaid(Bcnav2) /\ WellLaid(Bcnav3)
<1>0. BdtFromGpst \in Int
  BY DEF BdtFromGpst
<1>1. WellLaid(Lnav)
  <2> DEFINE slots == <<0, 6, 12>>
  <2>1. /\ slots \in [1..3 -> Nat] /\ DOMAIN slots = 1..3
        /\ \A j, k \in 1..3 : j < k => slots[j] + 6 <= slots[k]
        /\ \A k \in 1..3 : slots[k] + 6 <= 30
    OBVIOUS
  <2> HIDE DEF slots
  <2>2. WellLaid(Layout(0, 30, 6, slots))
    <3>1. 3 \in Nat \ {0} /\ 30 \in Nat \ {0} /\ 6 \in Nat \ {0}
          /\ 0 \in Int /\ FitsTheWeek(5 * 30)
      BY <1>0, CyclesFitTheWeek
    <3>2. QED
      BY Zenon, <2>1, <3>1, LayoutIs
  <2>3. QED
    BY <2>2 DEF Lnav, slots
<1>2. WellLaid(Cnav(12))
  <2> DEFINE slots == <<0, 12, 24>>
  <2>1. /\ slots \in [1..3 -> Nat] /\ DOMAIN slots = 1..3
        /\ \A j, k \in 1..3 : j < k => slots[j] + 12 <= slots[k]
        /\ \A k \in 1..3 : slots[k] + 12 <= 36
    OBVIOUS
  <2> HIDE DEF slots
  <2>2. WellLaid(Layout(0, 36, 12, slots))
    <3>1. 3 \in Nat \ {0} /\ 36 \in Nat \ {0} /\ 12 \in Nat \ {0}
          /\ 0 \in Int /\ FitsTheWeek(5 * 36)
      BY <1>0, CyclesFitTheWeek
    <3>2. QED
      BY Zenon, <2>1, <3>1, LayoutIs
  <2>3. QED
    BY <2>2 DEF Cnav, slots
<1>3. WellLaid(Cnav(6))
  <2> DEFINE slots == <<0, 6, 12>>
  <2>1. /\ slots \in [1..3 -> Nat] /\ DOMAIN slots = 1..3
        /\ \A j, k \in 1..3 : j < k => slots[j] + 6 <= slots[k]
        /\ \A k \in 1..3 : slots[k] + 6 <= 18
    OBVIOUS
  <2> HIDE DEF slots
  <2>2. WellLaid(Layout(0, 18, 6, slots))
    <3>1. 3 \in Nat \ {0} /\ 18 \in Nat \ {0} /\ 6 \in Nat \ {0}
          /\ 0 \in Int /\ FitsTheWeek(5 * 18)
      BY <1>0, CyclesFitTheWeek
    <3>2. QED
      BY Zenon, <2>1, <3>1, LayoutIs
  <2>3. QED
    BY <2>2 DEF Cnav, slots
<1>4. WellLaid(Cnav2)
  <2> DEFINE slots == <<0>>
  <2>1. /\ slots \in [1..1 -> Nat] /\ DOMAIN slots = 1..1
        /\ \A j, k \in 1..1 : j < k => slots[j] + 18 <= slots[k]
        /\ \A k \in 1..1 : slots[k] + 18 <= 18
    OBVIOUS
  <2> HIDE DEF slots
  <2>2. WellLaid(Layout(0, 18, 18, slots))
    <3>1. 1 \in Nat \ {0} /\ 18 \in Nat \ {0} /\ 18 \in Nat \ {0}
          /\ 0 \in Int /\ FitsTheWeek(5 * 18)
      BY <1>0, CyclesFitTheWeek
    <3>2. QED
      BY Zenon, <2>1, <3>1, LayoutIs
  <2>3. QED
    BY <2>2 DEF Cnav2, slots
<1>5. WellLaid(GlonassFdma)
  <2> DEFINE slots == <<0, 2, 4, 6>>
  <2>1. /\ slots \in [1..4 -> Nat] /\ DOMAIN slots = 1..4
        /\ \A j, k \in 1..4 : j < k => slots[j] + 2 <= slots[k]
        /\ \A k \in 1..4 : slots[k] + 2 <= 30
    OBVIOUS
  <2> HIDE DEF slots
  <2>2. WellLaid(Layout(0, 30, 2, slots))
    <3>1. 4 \in Nat \ {0} /\ 30 \in Nat \ {0} /\ 2 \in Nat \ {0}
          /\ 0 \in Int /\ FitsTheWeek(5 * 30)
      BY <1>0, CyclesFitTheWeek
    <3>2. QED
      BY Zenon, <2>1, <3>1, LayoutIs
  <2>3. QED
    BY <2>2 DEF GlonassFdma, slots
<1>6. WellLaid(GlonassL3oc)
  <2> DEFINE slots == <<0, 3, 6>>
  <2>1. /\ slots \in [1..3 -> Nat] /\ DOMAIN slots = 1..3
        /\ \A j, k \in 1..3 : j < k => slots[j] + 3 <= slots[k]
        /\ \A k \in 1..3 : slots[k] + 3 <= 18
    OBVIOUS
  <2> HIDE DEF slots
  <2>2. WellLaid(Layout(0, 18, 3, slots))
    <3>1. 3 \in Nat \ {0} /\ 18 \in Nat \ {0} /\ 3 \in Nat \ {0}
          /\ 0 \in Int /\ FitsTheWeek(5 * 18)
      BY <1>0, CyclesFitTheWeek
    <3>2. QED
      BY Zenon, <2>1, <3>1, LayoutIs
  <2>3. QED
    BY <2>2 DEF GlonassL3oc, slots
<1>7. WellLaid(InavE1)
  <2> DEFINE slots == <<1, 3, 21, 23>>
  <2>1. /\ slots \in [1..4 -> Nat] /\ DOMAIN slots = 1..4
        /\ \A j, k \in 1..4 : j < k => slots[j] + 2 <= slots[k]
        /\ \A k \in 1..4 : slots[k] + 2 <= 30
    OBVIOUS
  <2> HIDE DEF slots
  <2>2. WellLaid(Layout(0, 30, 2, slots))
    <3>1. 4 \in Nat \ {0} /\ 30 \in Nat \ {0} /\ 2 \in Nat \ {0}
          /\ 0 \in Int /\ FitsTheWeek(5 * 30)
      BY <1>0, CyclesFitTheWeek
    <3>2. QED
      BY Zenon, <2>1, <3>1, LayoutIs
  <2>3. QED
    BY <2>2 DEF InavE1, slots
<1>8. WellLaid(InavE5b)
  <2> DEFINE slots == <<0, 2, 20, 22>>
  <2>1. /\ slots \in [1..4 -> Nat] /\ DOMAIN slots = 1..4
        /\ \A j, k \in 1..4 : j < k => slots[j] + 2 <= slots[k]
        /\ \A k \in 1..4 : slots[k] + 2 <= 30
    OBVIOUS
  <2> HIDE DEF slots
  <2>2. WellLaid(Layout(0, 30, 2, slots))
    <3>1. 4 \in Nat \ {0} /\ 30 \in Nat \ {0} /\ 2 \in Nat \ {0}
          /\ 0 \in Int /\ FitsTheWeek(5 * 30)
      BY <1>0, CyclesFitTheWeek
    <3>2. QED
      BY Zenon, <2>1, <3>1, LayoutIs
  <2>3. QED
    BY <2>2 DEF InavE5b, slots
<1>9. WellLaid(Fnav)
  <2> DEFINE slots == <<0, 10, 20, 30>>
  <2>1. /\ slots \in [1..4 -> Nat] /\ DOMAIN slots = 1..4
        /\ \A j, k \in 1..4 : j < k => slots[j] + 10 <= slots[k]
        /\ \A k \in 1..4 : slots[k] + 10 <= 50
    OBVIOUS
  <2> HIDE DEF slots
  <2>2. WellLaid(Layout(0, 50, 10, slots))
    <3>1. 4 \in Nat \ {0} /\ 50 \in Nat \ {0} /\ 10 \in Nat \ {0}
          /\ 0 \in Int /\ FitsTheWeek(5 * 50)
      BY <1>0, CyclesFitTheWeek
    <3>2. QED
      BY Zenon, <2>1, <3>1, LayoutIs
  <2>3. QED
    BY <2>2 DEF Fnav, slots
<1>10. WellLaid(BeidouD1)
  <2> DEFINE slots == <<0, 6, 12>>
  <2>1. /\ slots \in [1..3 -> Nat] /\ DOMAIN slots = 1..3
        /\ \A j, k \in 1..3 : j < k => slots[j] + 6 <= slots[k]
        /\ \A k \in 1..3 : slots[k] + 6 <= 30
    OBVIOUS
  <2> HIDE DEF slots
  <2>2. WellLaid(Layout(BdtFromGpst, 30, 6, slots))
    <3>1. 3 \in Nat \ {0} /\ 30 \in Nat \ {0} /\ 6 \in Nat \ {0}
          /\ BdtFromGpst \in Int /\ FitsTheWeek(5 * 30)
      BY <1>0, CyclesFitTheWeek
    <3>2. QED
      BY Zenon, <2>1, <3>1, LayoutIs
  <2>3. QED
    BY <2>2 DEF BeidouD1, slots
<1>11. WellLaid(Bcnav1)
  <2> DEFINE slots == <<0>>
  <2>1. /\ slots \in [1..1 -> Nat] /\ DOMAIN slots = 1..1
        /\ \A j, k \in 1..1 : j < k => slots[j] + 18 <= slots[k]
        /\ \A k \in 1..1 : slots[k] + 18 <= 18
    OBVIOUS
  <2> HIDE DEF slots
  <2>2. WellLaid(Layout(BdtFromGpst, 18, 18, slots))
    <3>1. 1 \in Nat \ {0} /\ 18 \in Nat \ {0} /\ 18 \in Nat \ {0}
          /\ BdtFromGpst \in Int /\ FitsTheWeek(5 * 18)
      BY <1>0, CyclesFitTheWeek
    <3>2. QED
      BY Zenon, <2>1, <3>1, LayoutIs
  <2>3. QED
    BY <2>2 DEF Bcnav1, slots
<1>12. WellLaid(Bcnav2)
  <2> DEFINE slots == <<0, 3, 6>>
  <2>1. /\ slots \in [1..3 -> Nat] /\ DOMAIN slots = 1..3
        /\ \A j, k \in 1..3 : j < k => slots[j] + 3 <= slots[k]
        /\ \A k \in 1..3 : slots[k] + 3 <= 9
    OBVIOUS
  <2> HIDE DEF slots
  <2>2. WellLaid(Layout(BdtFromGpst, 9, 3, slots))
    <3>1. 3 \in Nat \ {0} /\ 9 \in Nat \ {0} /\ 3 \in Nat \ {0}
          /\ BdtFromGpst \in Int /\ FitsTheWeek(5 * 9)
      BY <1>0, CyclesFitTheWeek
    <3>2. QED
      BY Zenon, <2>1, <3>1, LayoutIs
  <2>3. QED
    BY <2>2 DEF Bcnav2, slots
<1>13. WellLaid(Bcnav3)
  <2> DEFINE slots == <<0, 1>>
  <2>1. /\ slots \in [1..2 -> Nat] /\ DOMAIN slots = 1..2
        /\ \A j, k \in 1..2 : j < k => slots[j] + 1 <= slots[k]
        /\ \A k \in 1..2 : slots[k] + 1 <= 2
    OBVIOUS
  <2> HIDE DEF slots
  <2>2. WellLaid(Layout(BdtFromGpst, 2, 1, slots))
    <3>1. 2 \in Nat \ {0} /\ 2 \in Nat \ {0} /\ 1 \in Nat \ {0}
          /\ BdtFromGpst \in Int /\ FitsTheWeek(5 * 2)
      BY <1>0, CyclesFitTheWeek
    <3>2. QED
      BY Zenon, <2>1, <3>1, LayoutIs
  <2>3. QED
    BY <2>2 DEF Bcnav3, slots
<1>14. QED
  BY <1>1, <1>2, <1>3, <1>4, <1>5, <1>6, <1>7, <1>8, <1>9, <1>10, <1>11, <1>12, <1>13

LEMMA BeidouD2IsWellLaid == WellLaid(BeidouD2)
<1> DEFINE l == BeidouD2
           n == 10
           cycle == 150
           duration == 3
           slot == [page \in 1..n |-> 15 * (page - 1)]
<1>1. l.cycle = cycle /\ l.offset \in Int /\ FitsTheWeek(cycle)
  BY DEF BeidouD2, BdtFromGpst, FitsTheWeek, WeekUnits
<1>2. l.fragments = [k \in 1..n |-> <<slot[k], duration>>]
  BY DEF BeidouD2
<1>3. n \in Nat \ {0} /\ cycle \in Nat \ {0} /\ duration \in Nat \ {0} /\ slot \in [1..n -> Nat]
  OBVIOUS
<1>4. \A j, k \in 1..n : j < k => slot[j] + duration <= slot[k]
  OBVIOUS
<1>5. \A k \in 1..n : slot[k] + duration <= cycle
  OBVIOUS
<1> HIDE DEF l, slot, n, cycle, duration
<1>6. WellLaid(l)
  BY <1>1, <1>2, <1>3, <1>4, <1>5, FragmentsAreLaid
<1>7. QED
  BY <1>6 DEF l

(* Whatever the signal, its BeiDou variant and the time of the             *)
(* acquisition, a plan is complete as soon as every fragment was sent once *)
(* as a whole, across the ends of weeks too; and the fragments of one      *)
(* signal do not overlap (build_cold_nav_acquisition_plan_with_variant).   *)
THEOREM PlansAreEarliest ==
  ASSUME NEW signal \in Signals, NEW variant \in Variants,
         NEW layout \in LayoutFor(signal, variant), NEW from \in Int
  PROVE  PlanIsEarliest(layout, from) /\ FragmentsDoNotOverlap(layout)
<1>1. \A s \in DOMAIN LayoutOf : WellLaid(LayoutOf[s])
  <2> DEFINE Laid == {Lnav, Cnav(12), Cnav(6), Cnav2, GlonassFdma, GlonassL3oc, InavE1, InavE5b,
                      Fnav, BeidouD1, Bcnav1, Bcnav2, Bcnav3}
  <2>1. \A l \in Laid : WellLaid(l)
    BY Zenon, LayoutsAreWellLaid
  <2>2. \A s \in DOMAIN LayoutOf : LayoutOf[s] \in Laid
    BY DEF LayoutOf
  <2> HIDE DEF Laid
  <2>3. QED
    BY <2>1, <2>2
<1>2. WellLaid(BeidouD1) /\ WellLaid(BeidouD2)
  BY LayoutsAreWellLaid, BeidouD2IsWellLaid
<1>3. layout \in {BeidouD1, BeidouD2} \/ \E s \in DOMAIN LayoutOf : layout = LayoutOf[s]
  BY DEF LayoutFor, Signals
<1>4. WellLaid(layout)
  BY <1>1, <1>2, <1>3
<1>5. QED
  BY <1>4, EarliestOfLayout DEF WellLaid
=================================================================================

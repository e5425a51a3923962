-------------------------------- MODULE SimTime --------------------------------
(***************************************************************************)
(* sim_time.cpp: GPS weeks and nanoseconds of the week, in 64-bit integers *)
(* with C++ division.  An operation that may fail gives the set of its     *)
(* results: empty when the function returns false.  Products and sums are  *)
(* wrapped to the width of the integers wherever the code computes one, so *)
(* a check that misses an overflow shows as a wrong result.                *)
(***************************************************************************)
EXTENDS Integers

CONSTANTS
  WeekNs,     (* GPS_WEEK_NANOSECONDS                                       *)
  MaxWeek,    (* numeric_limits<int>::max()                                 *)
  MaxInt,     (* numeric_limits<int64_t>::max()                             *)
  Intervals   (* the sampling intervals of the supported rates              *)

ASSUME SimTimeAssumption ==
  /\ {WeekNs, MaxWeek} \subseteq Nat \ {0}
  /\ MaxInt \in Nat /\ MaxInt >= 2 * WeekNs
  /\ Intervals \subseteq 1..MaxInt

MinInt == -MaxInt - 1
Wrap(x) == ((x - MinInt) % (2 * (MaxInt + 1))) + MinInt

(* C++ division truncates towards zero. *)
Quot(a, b) == IF a >= 0 THEN a \div b ELSE -((-a) \div b)
Remainder(a, b) == a - b * Quot(a, b)

Times == [week : 0..MaxWeek, tow : 0..(WeekNs - 1)]

(* checked_week_adjustment *)
WeekAfter(week, adjustment) == {w \in {week + adjustment} : w \in 0..MaxWeek}

NormalizeMutant(week, ns) ==
  {[week |-> w, tow |-> Remainder(ns, WeekNs) % WeekNs] : w \in WeekAfter(week, Quot(ns, WeekNs))}
Normalize(week, ns) ==
  LET r == Remainder(ns, WeekNs)
      borrow == IF r < 0 THEN 1 ELSE 0
  IN  {[week |-> w, tow |-> r + borrow * WeekNs] :
         w \in WeekAfter(week, Quot(ns, WeekNs) - borrow)}

(* sim_time_from_week_sow, with the second counted in half nanoseconds:    *)
(* llround rounds a half away from zero.                                   *)
FromWeekSow(week, halves) ==
  IF halves < 2 * MinInt \/ halves > 2 * MaxInt THEN {}
  ELSE Normalize(week, Quot(halves + (IF halves < 0 THEN -1 ELSE 1), 2))

Compare(l, r) ==
  CASE l.week < r.week \/ (l.week = r.week /\ l.tow < r.tow) -> -1
    [] l.week > r.week \/ (l.week = r.week /\ l.tow > r.tow) -> 1
    [] l = r -> 0

(* add_time_ns: the weeks first, then the rest. *)
Add(t, ns) ==
  UNION {Normalize(w, Wrap(t.tow + Remainder(ns, WeekNs))) : w \in WeekAfter(t.week, Quot(ns, WeekNs))}

(* difference_time_ns *)
Difference(l, r) ==
  LET weeks == l.week - r.week
      ns  == Wrap(weeks * WeekNs)
      tow == l.tow - r.tow
      far == \/ weeks > Quot(MaxInt, WeekNs) \/ weeks < -Quot(MaxInt, WeekNs)
             \/ tow > 0 /\ ns > MaxInt - tow
             \/ tow < 0 /\ ns < MinInt - tow
  IN  IF far THEN {} ELSE {Wrap(ns + tow)}

-----------------------------------------------------------------------------
(* The integer epoch clock. *)
EpochTime(start, interval, k) ==
  IF k > Quot(MaxInt, interval) THEN {} ELSE Add(start, Wrap(k * interval))

EpochIndexAtOrAfter(start, event, interval) ==
  {IF ns <= 0 THEN 0 ELSE Quot(ns - 1, interval) + 1 : ns \in Difference(event, start)}

EpochCount(duration, interval) ==
  IF duration <= 0 THEN {} ELSE {Quot(duration - 1, interval) + 1}

-----------------------------------------------------------------------------
(* What the operations mean: a time is a number of nanoseconds. *)
Absolute(t) == t.week * WeekNs + t.tow
AtAbsolute(ns) == {t \in Times : Absolute(t) = ns}

AddIsExact(t, ns) ==
  /\ Add(t, ns) = AtAbsolute(Absolute(t) + ns)
  /\ Normalize(t.week, ns) = AtAbsolute(t.week * WeekNs + ns)
  /\ \A half \in {-1, 1} :  \* a half more than ns goes away from zero
       LET rounded == IF 2 * ns + half >= 0 THEN ns + (1 + half) \div 2 ELSE ns - (1 - half) \div 2
       IN  FromWeekSow(t.week, 2 * ns + half) =
             (IF 2 * ns + half \in (2 * MinInt)..(2 * MaxInt)
                THEN AtAbsolute(t.week * WeekNs + rounded) ELSE {})

(* A difference is refused when it does not fit, or the weeks alone do not *)
(* fit by a small margin.                                                  *)
DifferenceIsExact(l, r) ==
  LET ns == Absolute(l) - Absolute(r) IN
  /\ Difference(l, r) \subseteq {ns}
  /\ ns \in (-(MaxInt - WeekNs))..(MaxInt - WeekNs) => Difference(l, r) = {ns}
  /\ (Compare(l, r) < 0 <=> ns < 0) /\ (Compare(l, r) > 0 <=> ns > 0)

(* The first epoch that is not before the event, and the epochs that begin *)
(* within a duration.                                                      *)
ClockIsExact(start, event, interval, duration) ==
  /\ \A k \in EpochIndexAtOrAfter(start, event, interval) :
       /\ Absolute(start) + k * interval >= Absolute(event)
       /\ k > 0 => Absolute(start) + (k - 1) * interval < Absolute(event)
       /\ k * interval <= MaxInt =>
            EpochTime(start, interval, k) = AtAbsolute(Absolute(start) + k * interval)
  /\ duration > 0 => \A n \in EpochCount(duration, interval) :
       (n - 1) * interval < duration /\ n * interval >= duration
===============================================================================

------------------------------- MODULE Cn0Model -------------------------------
(***************************************************************************)
(* The C/N0 model: the rows of a calibration file become bins of elevation *)
(* per signal, the configuration adds the baselines a normalized file      *)
(* needs, and an estimate is read off bins, baselines or the built-in      *)
(* curve, plus two slow waves.                                             *)
(*                                                                         *)
(* Elevations are whole degrees and powers are in units of 1/160 dB; an    *)
(* interpolated power is a pair <<n, d>> for n/d.  The tolerance of 1e-9   *)
(* degrees is below the grid.  The fields of a row that only have to be    *)
(* well-formed are the single input "wellFormed".                          *)
(***************************************************************************)
EXTENDS Integers, Sequences, FiniteSetsExt, SequencesExt

CONSTANTS
  Offset,      (* signal_cn0_offset_db: [signal -> Int]                     *)
  FastPeriod,  (* kFastPeriodNs and kSlowPeriodNs, in units of time         *)
  SlowPeriod

ASSUME Cn0Assumption ==
  /\ \A s \in DOMAIN Offset : Offset[s] \in Int
  /\ FastPeriod \in Nat \ {0} /\ SlowPeriod \in Nat \ {0} /\ SlowPeriod % FastPeriod = 0

dB(n) == 160 * n
Cn0Semantics == {"BuiltinAbsolute", "AbsoluteStation", "NormalizedShape"}

-----------------------------------------------------------------------------
(* Loading.  A row gives a signal, an elevation bin, a status, a support   *)
(* count and, if "valued", the median power or the median difference; a    *)
(* row of absolute powers also the number of pairs of successive samples,  *)
(* if their statistics are given, and the state of their correlation.      *)
CommonFieldsAccepted(row) ==
  /\ row.wellFormed /\ row.signal \in DOMAIN Offset
  /\ 0 <= row.min /\ row.min < row.max /\ row.max <= 90

AbsoluteAccepted(row) ==
  /\ row.status = "EMPTY" => row.support = 0
  /\ row.status \in {"SPARSE", "READY"} => row.support > 0
  /\ row.status \in {"EMPTY", "SPARSE", "READY"}
  /\ row.valued <=> row.support > 0
  /\ row.deltas <=> row.pairs > 0
  /\ row.ar1 \in {"AVAILABLE", "INSUFFICIENT_SUPPORT", "ZERO_VARIANCE"}
  /\ row.ar1Valued <=> row.ar1 = "AVAILABLE"

NormalizedAccepted(row) ==
  /\ row.status \in {"EMPTY", "SPARSE", "READY"}
  /\ IF row.status = "EMPTY" THEN row.support = 0 /\ ~row.valued ELSE row.support > 0 /\ row.valued

RowAccepted(semantic, row) ==
  /\ CommonFieldsAccepted(row)
  /\ IF semantic = "AbsoluteStation" THEN AbsoluteAccepted(row) ELSE NormalizedAccepted(row)

(* center2 is twice the center, which may be on a half degree.            *)
BinOf(row) ==
  [signal |-> row.signal, min |-> row.min, max |-> row.max, inclusive |-> row.inclusive,
   center2 |-> row.min + row.max, ready |-> row.status = "READY", value |-> row.value]

PreviousBin(bins, signal) ==
  LET before == {k \in DOMAIN bins : bins[k].signal = signal} IN
  IF before = {} THEN {} ELSE {bins[Max(before)]}

(* append_validated_bin *)
Follows(bins, bin) ==
  \A p \in PreviousBin(bins, bin.signal) :
    bin.min > p.min /\ bin.min >= p.max /\ ~p.inclusive

BinsOf(rows) == [k \in DOMAIN rows |-> BinOf(rows[k])]

FileAccepted(semantic, rows) ==
  /\ rows # << >>
  /\ \A k \in DOMAIN rows :
       /\ RowAccepted(semantic, rows[k])
       /\ Follows(BinsOf(SubSeq(rows, 1, k - 1)), BinOf(rows[k]))

(* load_cn0_model_csv: a refused file leaves the model as it was.          *)
BuiltinModel == [semantic |-> "BuiltinAbsolute", bins |-> << >>, high |-> << >>]
LoadModel(model, semantic, rows) ==
  IF FileAccepted(semantic, rows)
    THEN [semantic |-> semantic, bins |-> BinsOf(rows), high |-> << >>] ELSE model

(* configure_cn0_model_runtime: baselines are pairs of a signal and a      *)
(* power; a normalized model needs one for every signal it can supply.     *)
RequiresBaseline(model, signal) ==
  \E k \in DOMAIN model.bins : model.bins[k].signal = signal /\ model.bins[k].ready

HasBaseline(high, signal) == \E k \in DOMAIN high : high[k].signal = signal
Baseline(high, signal) == high[Min({k \in DOMAIN high : high[k].signal = signal})].cn0

RequirementMetMutant(model, high, signal) ==
  (model.bins[1].signal = signal /\ model.bins[1].ready) => HasBaseline(high, signal)
RequirementMet(model, high, signal) == RequiresBaseline(model, signal) => HasBaseline(high, signal)

ConfigurationAccepted(model, high) ==
  /\ \A k \in DOMAIN high : high[k].signal \in DOMAIN Offset /\ ~HasBaseline(SubSeq(high, 1, k - 1), high[k].signal)
  /\ model.semantic = "NormalizedShape" => \A s \in DOMAIN Offset : RequirementMet(model, high, s)

Configure(model, high) == [model EXCEPT !.high = high]

-----------------------------------------------------------------------------
(* The estimate.                                                           *)
BuiltinCurve(e) ==
  CASE e <= 5            -> dB(28) + 64 * e
    [] 5 < e /\ e <= 15  -> dB(30) + 56 * (e - 5)
    [] 15 < e /\ e <= 30 -> 5360 + 48 * (e - 15)
    [] 30 < e /\ e <= 60 -> dB(38) + 32 * (e - 30)
    [] 60 < e            -> dB(44) + 16 * (e - 60)
BuiltinNominal(signal, elevation) ==
  BuiltinCurve(IF elevation < 0 THEN 0 ELSE IF elevation > 90 THEN 90 ELSE elevation) + Offset[signal]

BinContains(bin, elevation) ==
  bin.min <= elevation /\ (elevation < bin.max \/ (elevation = bin.max /\ bin.inclusive))

Containing(bins, signal, elevation) ==
  {k \in DOMAIN bins : bins[k].signal = signal /\ BinContains(bins[k], elevation)}

(* The next bin of the signal on the side of the center the elevation is.  *)
Neighbor(bins, k, elevation) ==
  LET same == {j \in DOMAIN bins : bins[j].signal = bins[k].signal}
      side == IF 2 * elevation < bins[k].center2 THEN {j \in same : j < k} ELSE {j \in same : j > k} IN
  IF side = {} THEN {} ELSE {IF 2 * elevation < bins[k].center2 THEN Max(side) ELSE Min(side)}

Touch(lower, upper) == lower.max = upper.min

Interpolate(bins, k, elevation) ==
  LET used == {j \in Neighbor(bins, k, elevation) :
                 bins[j].ready /\ Touch(bins[Min({j, k})], bins[Max({j, k})])} IN
  IF 2 * elevation = bins[k].center2 \/ used = {} THEN <<bins[k].value, 1>>
  ELSE LET j == CHOOSE j \in used : TRUE
           a == bins[Min({j, k})]
           b == bins[Max({j, k})] IN
       <<a.value * (b.center2 - 2 * elevation) + b.value * (2 * elevation - a.center2), b.center2 - a.center2>>

(* The first bin that contains the elevation decides, if it is ready.      *)
Calibrated(model, signal, elevation) ==
  LET found == Containing(model.bins, signal, elevation) IN
  IF found = {} THEN {} ELSE {k \in {Min(found)} : model.bins[k].ready}

(* The set of nominal powers, empty when the estimate fails.               *)
Nominal(model, signal, elevation) ==
  LET bins == Calibrated(model, signal, elevation) IN
  IF bins = {} THEN {<<BuiltinNominal(signal, elevation), 1>>}
  ELSE LET v == Interpolate(model.bins, Min(bins), elevation) IN
       CASE model.semantic # "NormalizedShape" -> {v}
         [] model.semantic = "NormalizedShape" ->
              IF HasBaseline(model.high, signal)
                THEN {<<v[1] + Baseline(model.high, signal) * v[2], v[2]>>} ELSE {}

(* triangle_wave, in units of 1/period: from -period to period and back.   *)
TriangleWave(phase, period) ==
  LET p == phase % period IN IF 2 * p < period THEN 4 * p - period ELSE 3 * period - 4 * p

(* 0.25 dB of the fast wave and 0.5 dB of the slow one, times SlowPeriod.  *)
Waves(time, fastOffset, slowOffset) ==
  40 * (SlowPeriod \div FastPeriod) * TriangleWave(time + fastOffset, FastPeriod)
    + 80 * TriangleWave(time + slowOffset, SlowPeriod)

Clamp(v, low, high) == IF v < low THEN low ELSE IF v > high THEN high ELSE v

(* cn0_model_estimate_dbhz, times SlowPeriod and the denominator.          *)
Estimate(nominal, waves) ==
  LET unit == SlowPeriod * nominal[2] IN
  Clamp(nominal[1] * SlowPeriod + waves * nominal[2], dB(20) * unit, dB(55) * unit)

-----------------------------------------------------------------------------
(* References.                                                             *)

(* A file and baselines that were accepted answer every elevation of every *)
(* signal, from one bin at most.                                           *)
EstimateIsTotal(model, elevations) ==
  \A s \in DOMAIN Offset : \A e \in elevations :
    Nominal(model, s, e) # {} /\ \A j, k \in Containing(model.bins, s, e) : j = k

(* Where ready bins touch, the calibrated power is the line between their  *)
(* centers, so it never jumps at their common edge; it never leaves the    *)
(* range of the bins' own values.                                          *)
EstimateIsContinuous(model, elevations) ==
  \A j, k \in DOMAIN model.bins :
    LET a == model.bins[j]
        b == model.bins[k] IN
    (a.signal = b.signal /\ a.ready /\ b.ready /\ a.max = b.min) =>
      \A e \in {e \in elevations : 2 * e \in a.center2..b.center2} :
        LET base == IF model.semantic = "NormalizedShape" THEN Baseline(model.high, a.signal) ELSE 0 IN
        \A v \in Nominal(model, a.signal, e) :
          (v[1] - (base + a.value) * v[2]) * (b.center2 - a.center2)
            = (b.value - a.value) * (2 * e - a.center2) * v[2]

(* The waves swing by 0.75 dB at most, and no step of time, also across    *)
(* the wrap of a period, moves an estimate faster than their slopes.       *)
EstimateIsSmooth(nominal, time, fastOffset, slowOffset) ==
  LET now == Waves(time, fastOffset, slowOffset)
      next == Waves(time + 1, fastOffset, slowOffset)
      slope == 4 * (40 * (SlowPeriod \div FastPeriod) + 80)
      moved == Estimate(nominal, next) - Estimate(nominal, now) IN
  /\ now \in -120 * SlowPeriod..120 * SlowPeriod
  /\ moved \in -slope * nominal[2]..slope * nominal[2]
===============================================================================

------------------------------- MODULE Cn0Builder -------------------------------
(***************************************************************************)
(* The offline builder of C/N0 models: it streams RINEX observations, sums *)
(* them up per signal and bin of elevation, and writes a file of absolute  *)
(* powers, or one of differences to a reference at high elevations.  The   *)
(* file is a sequence of the rows that Cn0Model loads.                     *)
(*                                                                         *)
(* A source has the values of its two header records, and its epochs with  *)
(* the received strengths in quarters of a dB; the elevation of an         *)
(* observation is a set, empty when its geometry is unavailable.  Times    *)
(* are whole seconds and elevations whole degrees, above the tolerances.   *)
(* A received byte is always on the grid, so nothing is rejected for that. *)
(***************************************************************************)
EXTENDS Cn0Model

CONSTANTS
  SignalOrder,   (* the signals as signal_definitions lists them            *)
  NFreq,         (* RTKLIB's slots for frequencies, and for anything else   *)
  NExObs

ASSUME BuilderAssumption ==
  /\ ToSet(SignalOrder) = DOMAIN Offset /\ IsInjective(SignalOrder)
  /\ NFreq \in Nat /\ NExObs \in Nat

-----------------------------------------------------------------------------
(* The headers.                                                            *)

UnitStatus(units) ==
  CASE units = {} -> "MISSING"
    [] Cardinality(units) > 1 -> "CONFLICTING"
    [] units = {"DBHZ"} -> "DBHZ"
    [] Cardinality(units) = 1 /\ units # {"DBHZ"} -> "UNSUPPORTED"

(* scan_observation_interval: the declared interval, 0 when there is none. *)
Interval(values) ==
  IF \E k \in DOMAIN values : values[k] <= 0 \/ values[k] # values[1] THEN {}
  ELSE {IF values = << >> THEN 0 ELSE values[1]}

(* build_header_index: a frequency's slot goes to the first of its best    *)
(* types, the further slots to what is left in order; all the types of a   *)
(* code share its slot.                                                    *)
Unslotted == -1
Chosen(types, slots, slot) ==
  LET sameFrequency == {k \in DOMAIN types : types[k].frequency = slot + 1 /\ types[k].priority > 0}
      left == {k \in DOMAIN types : types[k].code # "" /\ types[k].priority > 0 /\ slots[k] = Unslotted}
  IN  IF slot < NFreq
        THEN {k \in sameFrequency :
                \A j \in sameFrequency :
                  types[j].priority < types[k].priority \/ (types[j].priority = types[k].priority /\ k <= j)}
        ELSE {k \in left : \A j \in left : k <= j}

HeaderSlots(types) ==
  LET Assign(slots, n) ==
        LET codes == {types[k].code : k \in Chosen(types, slots, n - 1)} IN
        [k \in DOMAIN types |-> IF types[k].code \in codes THEN n - 1 ELSE slots[k]]
  IN  FoldLeft(Assign, [k \in DOMAIN types |-> Unslotted], [n \in 1..(NFreq + NExObs) |-> n])

DeclaredSignals(types) ==
  {[slot |-> HeaderSlots(types)[k], signal |-> types[k].signal] :
     k \in {k \in DOMAIN types : /\ types[k].kind = "S" /\ types[k].code # "" /\ types[k].priority > 0
                                 /\ HeaderSlots(types)[k] # Unslotted /\ types[k].signal \in DOMAIN Offset}}

-----------------------------------------------------------------------------
(* stream_rinex_cn0_samples.                                               *)
Validity(source, observation) ==
  CASE UnitStatus(source.units) # "DBHZ" -> "AmbiguousSignalStrengthUnit"
    [] UnitStatus(source.units) = "DBHZ" /\ observation.elevation = {} -> "GeometryUnavailable"
    [] OTHER -> "ValidDbHz"

ObservationSamples(source, time, observation) ==
  LET heard == SelectSeq(SignalOrder, LAMBDA s : s \in DOMAIN observation.strength /\ observation.strength[s] # 0) IN
  [k \in DOMAIN heard |->
     [time |-> time, satellite |-> observation.satellite, signal |-> heard[k],
      quarters |-> observation.strength[heard[k]], elevation |-> observation.elevation,
      validity |-> Validity(source, observation)]]

Samples(source) ==
  FlattenSeq([k \in DOMAIN source.epochs |->
    FlattenSeq([j \in DOMAIN source.epochs[k].observations |->
      ObservationSamples(source, source.epochs[k].time, source.epochs[k].observations[j])])])

SourceFails(source) ==
  \/ Interval(source.intervals) = {}
  \/ \E k \in 2..Len(source.epochs) : source.epochs[k].time < source.epochs[k - 1].time

-----------------------------------------------------------------------------
(* Cn0StatisticsAccumulator, with its histograms as sequences.             *)
BinCount(config) == (config.max - config.min) \div config.width
ConfigAccepted(config) ==
  /\ config.width > 0 /\ config.max > config.min /\ config.min >= -90 /\ config.max <= 90
  /\ (config.max - config.min) % config.width = 0 /\ BinCount(config) <= 180

BinIndex(config, elevation) ==
  CASE elevation \notin config.min..config.max -> -1
    [] elevation = config.max -> BinCount(config) - 1
    [] OTHER -> (elevation - config.min) \div config.width

Cells(config) == (DOMAIN Offset) \X (0..(BinCount(config) - 1))
NewAccumulator(config) ==
  [heard |-> [c \in Cells(config) |-> << >>], pairs |-> [c \in Cells(config) |-> << >>], previous |-> << >>,
   rejected |-> 0, unpaired |-> 0]

(* A pair of consecutive samples of a satellite's signal counts in its bin.*)
AddPair(acc, interval, sample, bin) ==
  LET key == <<sample.satellite, sample.signal>>
      p == acc.previous[key] IN
  CASE key \notin DOMAIN acc.previous -> acc
    [] key \in DOMAIN acc.previous /\ (interval = 0 \/ sample.time - p.time # interval \/ p.bin # bin) ->
         [acc EXCEPT !.unpaired = @ + 1]
    [] OTHER -> [acc EXCEPT !.pairs[<<sample.signal, bin>>] = Append(@, <<p.quarters, sample.quarters>>)]

AddSample(config, interval, acc, sample) ==
  LET bin == IF sample.validity = "ValidDbHz"
               THEN BinIndex(config, CHOOSE e \in sample.elevation : TRUE) ELSE -1 IN
  IF bin = -1 THEN [acc EXCEPT !.rejected = @ + 1]
  ELSE [AddPair(acc, interval, sample, bin) EXCEPT
          !.heard[<<sample.signal, bin>>] = Append(@, sample.quarters),
          !.previous = (<<sample.satellite, sample.signal>> :>
                          [time |-> sample.time, bin |-> bin, quarters |-> sample.quarters]) @@ @]

(* begin_source forgets what came before.                                  *)
AddSource(config, acc, source) ==
  LET Add(a, sample) == AddSample(config, Max(Interval(source.intervals)), a, sample) IN
  FoldLeft(Add, [acc EXCEPT !.previous = << >>], Samples(source))

(* The R-7 median of quarters, in units of Cn0Model; that of values is the *)
(* same.                                                                   *)
MiddleSum(values) ==
  LET sorted == SortSeq(values, <) IN sorted[(Len(values) + 1) \div 2] + sorted[Len(values) \div 2 + 1]
Quarter == dB(1) \div 4
MedianOfQuarters(quarters) == MiddleSum(quarters) * (Quarter \div 2)

Sum(values) == FoldLeft(+, 0, values)
Spread(values) == Len(values) * Sum([k \in DOMAIN values |-> values[k] * values[k]]) - Sum(values) * Sum(values)

(* temporal_ar1                                                            *)
Ar1Status(pairs, minimum) ==
  LET X == [k \in DOMAIN pairs |-> pairs[k][1]]
      Y == [k \in DOMAIN pairs |-> pairs[k][2]] IN
  CASE Len(pairs) < minimum \/ Len(pairs) < 2 -> "INSUFFICIENT_SUPPORT"
    [] Len(pairs) >= minimum /\ Len(pairs) >= 2 /\ (Spread(X) <= 0 \/ Spread(Y) <= 0) -> "ZERO_VARIANCE"
    [] OTHER -> "AVAILABLE"

(* finalize, with the statistics build_cn0_model takes back.               *)
BinStatus(support, minimum) ==
  IF support = 0 THEN "EMPTY" ELSE IF support < minimum THEN "SPARSE" ELSE "READY"

BinFields(config, signal, bin) ==
  [signal |-> signal, min |-> config.min + bin * config.width, max |-> config.min + (bin + 1) * config.width,
   inclusive |-> bin = BinCount(config) - 1, wellFormed |-> TRUE]

AbsoluteRow(config, acc, cell) ==
  LET heard == acc.heard[cell]
      pairs == acc.pairs[cell]
      ar1 == Ar1Status(pairs, config.minPairs) IN
  BinFields(config, cell[1], cell[2]) @@
    [status |-> BinStatus(Len(heard), config.minSamples), support |-> Len(heard), valued |-> heard # << >>,
     value |-> IF heard = << >> THEN 0 ELSE MedianOfQuarters(heard),
     pairs |-> Len(pairs), deltas |-> pairs # << >> /\ Len(pairs) >= config.minPairs,
     ar1 |-> ar1, ar1Valued |-> ar1 = "AVAILABLE"]

InOrder(config) ==
  FlattenSeq([k \in DOMAIN SignalOrder |-> [b \in 1..BinCount(config) |-> <<SignalOrder[k], b - 1>>]])

(* build_cn0_model: the rows of the file, or nothing.                      *)
BuildAbsolute(config, sources) ==
  IF sources = << >> \/ ~ConfigAccepted(config) \/ \E k \in DOMAIN sources : SourceFails(sources[k]) THEN {}
  ELSE LET Add(acc, source) == AddSource(config, acc, source)
           acc == FoldLeft(Add, NewAccumulator(config), sources)
           cells == InOrder(config)
       IN  {[k \in DOMAIN cells |-> AbsoluteRow(config, acc, cells[k])]}

-----------------------------------------------------------------------------
(* build_normalized_cn0_model.                                             *)
NormalizationAccepted(config, norm) ==
  /\ norm.refMax > norm.refMin /\ norm.refMin >= config.min /\ norm.refMax <= config.max
  /\ norm.minReference > 0 /\ norm.minSources > 0

ReferenceSamples(norm, source, signal) ==
  LET used == SelectSeq(Samples(source), LAMBDA s :
                s.signal = signal /\ s.validity = "ValidDbHz" /\ s.elevation \cap (norm.refMin..norm.refMax) # {}) IN
  [k \in DOMAIN used |-> used[k].quarters]

(* The difference a source gives for a bin, if its reference is ready.     *)
SourceDelta(norm, source, row) ==
  LET reference == ReferenceSamples(norm, source, row.signal) IN
  IF row.status = "READY" /\ Len(reference) >= norm.minReference
    THEN <<row.value - MedianOfQuarters(reference)>> ELSE << >>

NormalizedRow(config, norm, sources, built, index) ==
  LET deltas == FlattenSeq([k \in DOMAIN sources |-> SourceDelta(norm, sources[k], built[k][index])])
      row == built[1][index] IN
  [row EXCEPT
     !.status = BinStatus(Len(deltas), norm.minSources), !.support = Len(deltas), !.valued = deltas # << >>,
     !.value = IF deltas = << >> THEN 0 ELSE MiddleSum(deltas) \div 2,
     !.pairs = 0, !.deltas = FALSE, !.ar1 = "INSUFFICIENT_SUPPORT", !.ar1Valued = FALSE]

(* aggregate_normalized_cn0_sources: each source is built by itself.       *)
BuildNormalized(config, norm, sources) ==
  IF \/ ~NormalizationAccepted(config, norm) \/ sources = << >>
     \/ \E k \in DOMAIN sources : BuildAbsolute(config, <<sources[k]>>) = {}
  THEN {}
  ELSE LET built == [k \in DOMAIN sources |-> CHOOSE rows \in BuildAbsolute(config, <<sources[k]>>) : TRUE] IN
       {[i \in DOMAIN built[1] |-> NormalizedRow(config, norm, sources, built, i)]}

-----------------------------------------------------------------------------
(* References.                                                             *)

(* No two codes share a slot, the best code of a frequency has one, and no *)
(* code is left out while there is room.                                   *)
SlotsAreTheirs(types) ==
  LET slots == HeaderSlots(types)
      usable == {k \in DOMAIN types : types[k].priority > 0}
      taken == {slots[k] : k \in usable} \ {Unslotted} IN
  /\ \A j, k \in usable : slots[j] # Unslotted => (slots[j] = slots[k] <=> types[j].code = types[k].code)
  /\ \A k \in usable : slots[k] = Unslotted =>
       /\ NFreq..(NFreq + NExObs - 1) \subseteq taken
       /\ types[k].frequency <= NFreq => types[k].frequency - 1 \in taken
  /\ \A a, b \in DeclaredSignals(types) : a.slot = b.slot => a = b

(* The measurements of a source the model may rest on.                     *)
HeardAt(source) ==
  {x \in (DOMAIN source.epochs) \X (1..2) \X (DOMAIN Offset) :
     /\ source.units = {"DBHZ"}
     /\ x[2] \in DOMAIN source.epochs[x[1]].observations
     /\ LET o == source.epochs[x[1]].observations[x[2]] IN
        o.elevation # {} /\ x[3] \in DOMAIN o.strength /\ o.strength[x[3]] > 0}
Elevation(source, x) == CHOOSE e \in source.epochs[x[1]].observations[x[2]].elevation : TRUE
Strength(source, x) == source.epochs[x[1]].observations[x[2]].strength[x[3]]

SameBin(config, d, e) ==
  /\ d \in config.min..config.max /\ e \in config.min..config.max
  /\ \A k \in 1..(BinCount(config) - 1) :
       LET edge == config.min + k * config.width IN d < edge <=> e < edge

InBin(config, source, signal, e) ==
  {x \in HeardAt(source) : x[3] = signal /\ SameBin(config, Elevation(source, x), e)}

AtLeastHalf(part, all) == 2 * Cardinality(part) >= Cardinality(all)

(* A file of absolute powers is calibrated at an elevation exactly where   *)
(* enough was measured in its bin, and its power there is their median.    *)
AbsoluteIsTheMedian(config, sources, model, signal, e) ==
  LET all == UNION {{<<k, x>> : x \in InBin(config, sources[k], signal, e)} : k \in DOMAIN sources}
      S(y) == Quarter * Strength(sources[y[1]], y[2])
      used == Calibrated(model, signal, e) IN
  /\ used # {} <=> all # {} /\ Cardinality(all) >= config.minSamples
  /\ \A k \in used : LET v == model.bins[k].value IN
       AtLeastHalf({y \in all : S(y) <= v}, all) /\ AtLeastHalf({y \in all : S(y) >= v}, all)

(* A pair is two successive measurements of one satellite's signal in one  *)
(* source, one declared interval apart and in one bin.                     *)
PairsOf(config, source) ==
  LET Key(x) == <<source.epochs[x[1]].observations[x[2]].satellite, x[3]>>
      seen == {x \in HeardAt(source) : Elevation(source, x) \in config.min..config.max} IN
  {<<x, y>> \in seen \X seen :
     /\ Key(x) = Key(y) /\ x[1] < y[1] /\ ~\E z \in seen : Key(z) = Key(x) /\ x[1] < z[1] /\ z[1] < y[1]
     /\ source.intervals # << >> /\ source.epochs[y[1]].time - source.epochs[x[1]].time = source.intervals[1]
     /\ SameBin(config, Elevation(source, x), Elevation(source, y))}

Enough(config, rows) == \A k \in DOMAIN rows : rows[k].pairs = 0 \/ rows[k].pairs >= config.minPairs

AbsoluteIsTrue(config, sources) ==
  \A rows \in BuildAbsolute(config, sources) :
    LET model == LoadModel(BuiltinModel, "AbsoluteStation", rows) IN
    /\ FileAccepted("AbsoluteStation", rows) <=> Enough(config, rows)
    /\ Sum([k \in DOMAIN rows |-> rows[k].pairs])
         = Sum([k \in DOMAIN sources |-> Cardinality(PairsOf(config, sources[k]))])
    /\ BuildAbsolute(config, Reverse(sources)) = {rows}
    /\ Enough(config, rows) =>
         \A s \in DOMAIN Offset, e \in {0, 44, 45, 89, 90} : AbsoluteIsTheMedian(config, sources, model, s, e)

(* A file of differences is always accepted, whatever the order of its     *)
(* sources; a bin is calibrated if enough sources measured both the bin    *)
(* and the reference, so that it asks for a baseline and for nothing else. *)
NormalizedIsTrue(config, norm, sources) ==
  LET Contributes(source, signal, e) ==
        /\ InBin(config, source, signal, e) # {} /\ Cardinality(InBin(config, source, signal, e)) >= config.minSamples
        /\ Cardinality({x \in HeardAt(source) : x[3] = signal /\ Elevation(source, x) \in norm.refMin..norm.refMax})
             >= norm.minReference IN
  \A rows \in BuildNormalized(config, norm, sources) :
    LET model == LoadModel(BuiltinModel, "NormalizedShape", rows) IN
    /\ FileAccepted("NormalizedShape", rows)
    /\ BuildNormalized(config, norm, Reverse(sources)) = {rows}
    /\ \A s \in DOMAIN Offset, e \in {0, 44, 45, 89, 90} :
         Calibrated(model, s, e) # {} <=>
           Cardinality({k \in DOMAIN sources : Contributes(sources[k], s, e)}) >= norm.minSources
===============================================================================

--------------------------- MODULE MCReferenceChecks ---------------------------
(***************************************************************************)
(* The pure algorithms against their reference definitions, over bounded   *)
(* inputs: every state is one algorithm with one input.                    *)
(***************************************************************************)
EXTENDS SimTime, NavMessageLayouts, SolutionSelection, Cn0Builder, SimConfigLoader, TransientValidator, RangeLog, ValidationOracle, TLC

VARIABLE case

Init == case = [kind |-> "none"]

Checks(kind, inputs) == case.kind = "none" /\ \E i \in inputs : case' = [kind |-> kind, in |-> i]

-----------------------------------------------------------------------------
(* Weeks of 6 ns in integers of 5 bits: differences of two weeks fit, of   *)
(* three do not, and an epoch interval need not divide a week.             *)
CheckTime ==
  Checks("time", [t : Times, u : Times, interval : Intervals, ns : MinInt..MaxInt])

(* Every layout, acquired at any time around the end of a week.            *)
CheckPlan ==
  Checks("plan", [signal : Signals, variant : Variants, from : (WeekUnits - 260)..(WeekUnits + 20)])

CheckFragments ==
  Checks("fragments", UNION {[1..n -> [id : 1..3, issue : {1, 2}]] : n \in 1..5})

(* Three satellites with up to three signals each, of which two are served.*)
Measurements ==
  [satellite : 1..3, signal : {"GpsL1Ca", "GpsL1C", "GpsL5Q"}, psr : BOOLEAN, doppler : BOOLEAN, ephemeris : BOOLEAN]
CheckSolution ==
  Checks("solution",
    [measurements : {s \in UNION {[1..n -> {m \in Measurements : (m.psr /\ m.doppler) \/ m.ephemeris}] : n \in 1..3} :
                       \A j, k \in DOMAIN s : j # k => <<s[j].satellite, s[j].signal>> # <<s[k].satellite, s[k].signal>>},
     hint : BOOLEAN, answer : [position : {TRUE}, velocity : {TRUE}]])

(* Files of up to three rows: bins that touch, overlap, leave a gap or are *)
(* out of order, of two signals, in every status, and malformed ones.      *)
MCOffset == [L1CA |-> 0, L5Q |-> 80]
MCSignalOrder == <<"L1CA", "L5Q">>
Row(signal, min, max, inclusive, status, value) ==
  [signal |-> signal, min |-> min, max |-> max, inclusive |-> inclusive, status |-> status,
   support |-> IF status = "EMPTY" THEN 0 ELSE 1, valued |-> status # "EMPTY", value |-> value, wellFormed |-> TRUE,
   pairs |-> 0, deltas |-> FALSE, ar1 |-> "INSUFFICIENT_SUPPORT", ar1Valued |-> FALSE]
Rows ==
  {Row("L1CA", b[1], b[2], b[2] = 90, st, b[1]) :
     b \in {<<0, 30>>, <<30, 60>>, <<20, 60>>, <<60, 90>>}, st \in {"READY", "SPARSE", "EMPTY"}}
    \cup {Row("L5Q", 0, 30, FALSE, "READY", 7), Row("L5Q", 30, 90, TRUE, "READY", 100),
          Row("L5Q", 30, 90, TRUE, "SPARSE", 100), Row("L5X", 0, 90, TRUE, "READY", 7),
          [Row("L1CA", 60, 90, TRUE, "READY", 7) EXCEPT !.valued = FALSE],
          [Row("L5Q", 0, 30, TRUE, "READY", 7) EXCEPT !.wellFormed = FALSE],
          [Row("L1CA", 60, 90, TRUE, "READY", 7) EXCEPT !.pairs = 1]}
Baselines == {[signal |-> "L1CA", cn0 |-> dB(45)], [signal |-> "L5Q", cn0 |-> dB(50)], [signal |-> "L5X", cn0 |-> 0]}
Elevations == {-5, 0, 10, 15, 20, 25, 30, 35, 45, 50, 60, 70, 75, 90}
CheckCn0 ==
  Checks("cn0",
    [semantic : Cn0Semantics \ {"BuiltinAbsolute"}, rows : UNION {[1..n -> Rows] : n \in 0..3},
     high : {<< >>} \cup [1..1 -> Baselines] \cup {h \in [1..2 -> Baselines] : h[1] # h[2]}])

(* Headers of four observation types, with two slots for frequencies and   *)
(* another one; then one source with three epochs, and two sources of up   *)
(* to two epochs with either satellite, the first in any order of time and *)
(* with any units and intervals.                                           *)
HeaderType(kind, code, frequency, priority, signal) ==
  [kind |-> kind, code |-> code, frequency |-> frequency, priority |-> priority, signal |-> signal]
HeaderTypes ==
  UNION {{HeaderType(kind, "1C", 1, 14, "L1CA"), HeaderType(kind, "1P", 1, 13, "none"),
          HeaderType(kind, "5Q", 3, 13, "L5Q"), HeaderType(kind, "", 0, 0, "none")} : kind \in {"S", "C"}}
CheckHeaders == Checks("header", [1..4 -> HeaderTypes])

Received(satellite, elevation, strength) ==
  [satellite |-> satellite, elevation |-> elevation, strength |-> [L1CA |-> strength]]
Source(units, intervals, times, observations) ==
  [units |-> units, intervals |-> intervals,
   epochs |-> [k \in DOMAIN observations |-> [time |-> times[k], observations |-> <<observations[k]>>]]]
LongSources ==
  {Source({"DBHZ"}, <<1>>, <<0, 1, last>>, o) :
     last \in {2, 3},
     o \in [1..3 -> {Received(1, e, q) : e \in {{44}, {45}}, q \in {180, 185}}
                      \cup {Received(1, {90}, 185), Received(1, {-5}, 180), Received(1, {}, 180), Received(1, {45}, 0)}]}
ShortSources(headers) ==
  {Source(h[1], h[2], h[3], o) :
     h \in headers,
     o \in UNION {[1..n -> {Received(1, {90}, 180), Received(1, {44}, 183), Received(2, {90}, 190)}] : n \in 1..2}}
GoodHeader == <<{"DBHZ"}, <<1>>, <<1, 2>>>>
Headers ==
  {GoodHeader, <<{"DBHZ"}, << >>, <<1, 2>>>>, <<{"DBHZ"}, <<1>>, <<2, 1>>>>, <<{"DBHZ", "DB"}, <<1>>, <<1, 2>>>>,
   <<{}, <<1, 1>>, <<1, 2>>>>, <<{"DBHZ"}, <<1, 2>>, <<1, 2>>>>}
BuilderConfigs ==
  {[min |-> 0, max |-> 90, width |-> c[1], minSamples |-> c[2], minPairs |-> c[3]] :
     c \in {<<45, 1, 2>>, <<45, 2, 1>>, <<40, 1, 1>>}}
BuilderNorms ==
  {[refMin |-> 60, refMax |-> 90, minReference |-> n[1], minSources |-> n[2]] : n \in {<<2, 1>>, <<1, 2>>}}
CheckBuilder ==
  Checks("builder",
    [sources : [1..1 -> LongSources] \cup {<<s, t>> : s \in ShortSources(Headers), t \in ShortSources({GoodHeader})},
     config : BuilderConfigs, norm : BuilderNorms])

CheckWaves ==
  Checks("waves",
    [elevation : Elevations, time : 0..SlowPeriod, fast : 0..(FastPeriod - 1), slow : 0..(SlowPeriod - 1)])

(* Documents of up to two members, right and wrong, every urban_rf section *)
(* of up to three, and each setting on its own, with other values than its *)
(* default, on and off the grid of the ticks.                              *)
Single(key, value) == Obj(<<Member(key, value)>>)
RootMembers ==
  {Member("schema_version", Num(n)) : n \in {One, 2 * One, 15000}}
    \cup {Member("scenario", v) : v \in {Str("KS"), Str("REA"), Str("TTFF"), Str("XX"), Num(One)}}
    \cup {Member("duration_sec", Num(n)) : n \in {-One, 0, 4, 5, One, 2000000000}}
    \cup {Member("sampling_rate_hz", Num(n)) : n \in {One, 3 * One}}
    \cup {Member("measurement_noise_enabled", v) : v \in {Bool(TRUE), Bool(FALSE), Str("on")}}
    \cup {Member("rea", Single(k, Num(n))) : k \in {"signal_on_sec", "power_on_sec"}, n \in {4, One}}
    \cup {Member("rea", Obj(<<Member("signal_on_sec", Num(One)), Member("signal_off_sec", Num(n))>>)) : n \in {3, 20004}}
    \cup {Member("ttff", Obj(<<Member("power_on_sec", Num(One)), Member("startup_mode", Str("WARM")),
                              Member("power_off_sec", Num(20005))>>))}
    \cup {Member("ttff", Obj(<<Member("startup_mode", Str(m)), Member("power_off_sec", Num(One))>>)) : m \in {"COLD", "XX"}}
    \cup {Member("carrier_tracking", Single(k, Num(n))) :
            k \in {"fll_enter_cn0_dbhz", "fll_exit_persistence_sec", "fll_noise_bandwidth_hz"},
            n \in {0, 20 * One, 28 * One}}
    \cup {Member("measurement_error", Single("ttff_hot", Single("decay_tau_sec", Num(n)))) : n \in {0, One}}
    \cup {Member("bestpos_rtk", Single("min_used_satellites", Num(n))) : n \in {3 * One, 4 * One, 45000, 200 * One}}
    \cup {Member("receiver", Single("latitude_deg", Num(n))) : n \in {90 * One, 91 * One}}
    \cup {Member("cn0_high_dbhz", Obj(<<Member(j, Num(1)), Member(k, Num(2))>>)) : j, k \in {"L1CA", "L5Q", "L5X"}}
    \cup {Member("seed", Num(n)) : n \in {-One, 0, 5000, 40 * One}}
    \cup {Member("measurment_error", Num(0))}
RfMembers ==
  {Member("material", Single(k, Num(n))) : k \in {"cavity_thickness_m", "conductivity_exponent"}, n \in {0, 7}}
    \cup {Member("antenna", Single("lhcp", Single("gain_db_zenith", Num(-30000)))),
          Member("antenna", Single("linear", Single("gain_db_zenith", Num(0))))}
SignalsMembers ==
  {Member("signals", Obj(<<Member("L1CA", Obj(f)), Member(s, Obj(g))>>)) :
     f \in [1..1 -> RfMembers], g \in {<< >>} \cup [1..1 -> RfMembers], s \in {"L1CA", "L5Q"}}
Texts ==
  {<< <<"scenario">>, {"KS", "REA", "TTFF"}>>, << <<"nav_log_format">>, {"novatel", "unicore"}>>,
   << <<"atmosphere_mode">>, {"unspecified", "none", "broadcast"}>>, << <<"ttff", "startup_mode">>, {"HOT", "WARM", "COLD"}>>}
Switches ==
  {<<"measurement_noise_enabled">>, <<"multipath_enabled">>, <<"output_eph">>, <<"output_ion">>,
   <<"bestpos_rtk", "enabled">>, <<"carrier_tracking", "enabled">>}
Quantities == DOMAIN Defaults \ (Switches \cup {t[1] : t \in Texts})
SettingValues(path) ==
  {Num(Defaults[path] + d) : d \in {6, One}}
    \cup (IF path \in Durations THEN {Num(10 * MaxTicks), Num(10 * MaxTicks + 4)} ELSE {})
Settled(path, value) == FoldRight(LAMBDA key, inner : Single(key, inner), path, value)
OneSetting ==
  UNION {{Settled(t[1], Str(name)) : name \in t[2]} : t \in Texts}
    \cup {Settled(path, Bool(b)) : path \in Switches, b \in BOOLEAN}
    \cup UNION {{Settled(path, v) : v \in SettingValues(path)} : path \in Quantities}
Documents ==
  OneSetting \cup {Obj(f) : f \in [1..2 -> RootMembers]}
    \cup {Single("urban_rf", Obj(f)) :
             f \in UNION {{f \in [1..n -> RfMembers \cup SignalsMembers] :
                             Cardinality({k \in 1..n : f[k].key = "signals"}) <= 1} : n \in 1..3}}
CheckConfig == Checks("config", Documents)

(* Six seconds of one signal, without or with carrier phase, or of one the *)
(* truth does not have (once), and up to three times where the signals     *)
(* change; and with one second of silence at most any three events, of the *)
(* signals or of the power, in any order.  Locks that begin two seconds    *)
(* apart have the same ambiguity.                                          *)
Span == 0..5
Toggles ==
  {[i \in 1..Cardinality(times) |->
      LET t == CHOOSE t \in times : Cardinality({u \in times : u < t}) = i - 1 IN
      [time |-> t, type |-> IF i % 2 = 1 THEN "SIGNAL_OFF" ELSE "SIGNAL_ON"]] :
     times \in {times \in SUBSET (Span \ {0}) : Cardinality(times) <= 3}}
EventTypes == {"SIGNAL_OFF", "SIGNAL_ON", "POWER_ON"}
AnyEvents ==
  UNION {{s \in [1..n -> [time : 1..4, type : EventTypes]] : \A i, j \in 1..n : s[i].time = s[j].time => i = j} : n \in 1..3}
LockStart(shape, t) ==
  CHOOSE u \in 0..t :
    (\A v \in u..t : shape[v] \in {"raw", "full"}) /\ (u = 0 \/ shape[u - 1] \notin {"raw", "full"})
Observation(shape, t) ==
  CASE shape[t] = "empty" -> << >>
    [] shape[t] = "stray" -> <<[signal |-> "L5Q", psr |-> TRUE, adr |-> FALSE, lock |-> 0]>>
    [] OTHER -> <<[signal |-> "L1CA", psr |-> TRUE, adr |-> shape[t] = "full", lock |-> t - LockStart(shape, t)]>>
ShapeLog(shape) == [i \in 1..6 |-> [time |-> i - 1, observations |-> Observation(shape, i - 1)]]
ShapeTruth(shape) ==
  SelectSeq([i \in 1..6 |->
               [time |-> i - 1, signal |-> "L1CA", there |-> shape[i - 1] \in {"raw", "full"},
                doppler |-> shape[i - 1] = "full", adr |-> shape[i - 1] = "full",
                ambiguity |-> IF shape[i - 1] = "full" THEN LockStart(shape, i - 1) % 2 ELSE 0,
                ambiguityEpoch |-> IF shape[i - 1] = "full" THEN LockStart(shape, i - 1) ELSE 0]],
            LAMBDA r : r.there)
CheckTransients ==
  Checks("transients",
    [shape : {shape \in [Span -> {"empty", "stray", "raw", "full"}] : Cardinality({t \in Span : shape[t] = "stray"}) <= 1},
     events : Toggles, fade : {2}]
    \cup
    [shape : {shape \in [Span -> {"empty", "full"}] : Cardinality({t \in Span : shape[t] = "empty"}) <= 1},
     events : AnyEvents, fade : {2}])

(* Every signal, with every validity and satellites at the ends of the     *)
(* BeiDou GEO ranges, and pairs of measurements; times around the end of a *)
(* week.  A pseudorange is never as short as its last printed decimal.     *)
Measured(signal, satellite, bits, fcn, available) ==
  [signal |-> signal, satellite |-> satellite, fcn |-> fcn, available |-> available,
   psr |-> [valid |-> bits[1], value |-> 61], adr |-> [valid |-> bits[2], value |-> -8],
   doppler |-> [valid |-> bits[3], value |-> 4], cn0 |-> 130, lock |-> 5]
Sat(system, prn) == [system |-> system, prn |-> prn]
SingleMeasurements ==
  UNION {LET system == SignalTable[s].system IN
         {<<Measured(s, Sat(system, prn), bits, fcn, TRUE)>> :
            prn \in {1, 5, 6, 58, 59, LastPrn[system]} \cap 1..LastPrn[system],
            bits \in [1..3 -> BOOLEAN], fcn \in {-8, -7, 6}} : s \in DOMAIN SignalTable}
SomeMeasurements ==
  {Measured(x[1], Sat(x[2], 5), bits, 0, available) :
     x \in {<<"GpsL1Ca", "G">>, <<"GpsL2P", "G">>, <<"GpsL1C", "G">>, <<"BeidouB1I", "C">>, <<"GpsL1Ca", "C">>, <<"QzssL1Ca", "J">>},
     bits \in {<<TRUE, TRUE, TRUE>>, <<TRUE, FALSE, TRUE>>}, available \in BOOLEAN}
CheckLines ==
  Checks("line",
    [time : [week : {5}, tow : {0, 1, 2} \cup (WeekHalfMs - 3)..(WeekHalfMs - 1)],
     observations : SingleMeasurements
       \cup {m \in [1..2 -> SomeMeasurements] : <<m[1].signal, m[1].satellite>> # <<m[2].signal, m[2].satellite>>}])

(* Logs of up to four lines, with ephemerides and measurements of two      *)
(* satellites.                                                             *)
MCPriority == SinglePointPriority
LogEpoch(observations, damage) ==
  CHOOSE text \in {[line EXCEPT !.damage = damage] : line \in FormatRangea([week |-> 5, tow |-> 40], observations)} : TRUE
Full == <<TRUE, TRUE, TRUE>>
L1CaOf(prn) == Measured("GpsL1Ca", Sat("G", prn), Full, 0, TRUE)
LogLines ==
  {[kind |-> "eph", record |-> <<Sat("G", prn), "Lnav">>] : prn \in 1..2}
    \cup {[kind |-> "eph", record |-> <<Sat("G", 2), "Cnav2">>], [kind |-> "other"]}
    \cup {[kind |-> "ion", gps |-> gps] : gps \in BOOLEAN}
    \cup {[kind |-> "range", text |-> LogEpoch(<<L1CaOf(1), L1CaOf(2)>>, x[1]), solvable |-> x[2], error |-> x[3]] :
             x \in {<<"none", TRUE, 0>>, <<"none", TRUE, 3>>, <<"none", FALSE, 0>>, <<"crc", TRUE, 3>>}}
    \cup {[kind |-> "range", text |-> LogEpoch(o, "none"), solvable |-> TRUE, error |-> 7] :
             o \in {<<L1CaOf(1), Measured("GpsL1C", Sat("G", 2), Full, 0, TRUE)>>,
                    <<Measured("GpsL1C", Sat("G", 2), Full, 0, TRUE), L1CaOf(2), L1CaOf(1)>>}}
CheckLogs == Checks("log", [lines : UNION {[1..n -> LogLines] : n \in 1..4}, broadcast : BOOLEAN])

(* Every cycle of the given scenarios, sampled with steps of up to three.  *)
MCScenarios == [kind : ScenarioKinds, mode : {"HOT"}, on : 1..6, off : 1..6]
CheckExpectation == Checks("expectation", [scenario : Scenarios, steps : 1..15, step : 1..3])

Next == CheckBuilder \/ CheckHeaders \/ CheckTime \/ CheckPlan \/ CheckFragments \/ CheckExpectation \/ CheckLines \/ CheckWaves
  \/ CheckConfig \/ CheckSolution \/ CheckCn0 \/ CheckLogs \/ CheckTransients

Spec == Init /\ [][Next]_case

-----------------------------------------------------------------------------
(* Properties.                                                             *)

\* sim_time.cpp: no time, difference or epoch is ever wrong, also across
\* weeks and next to the integer limits, and none is refused that fits.
TimeArithmeticIsExact ==
  case.kind = "time" =>
    LET i == case.in IN
    /\ AddIsExact(i.t, i.ns)
    /\ DifferenceIsExact(i.t, i.u)
    /\ ClockIsExact(i.t, i.u, i.interval, i.ns)

\* nav_message_scheduler.cpp: a plan is complete at the earliest time at which
\* all its fragments were on air as a whole, through the end of a week too, and
\* fragments of two issues of data never make one ephemeris.
MessagesAreWhole ==
  /\ case.kind = "plan" =>
       \A layout \in LayoutFor(case.in.signal, case.in.variant) :
         PlanIsEarliest(layout, case.in.from) /\ FragmentsDoNotOverlap(layout)
  /\ case.kind = "fragments" => OneIssue({1, 2}, case.in)

\* solution_engine.cpp: whatever the order of the measurements, the solvers
\* get the best one of each satellite, and a solution rests on enough of them.
SolutionIsEarned ==
  case.kind = "solution" =>
    SolutionRestsOnTheBest(case.in.measurements, case.in.hint, case.in.answer)

\* cn0_model.cpp: an accepted file with accepted baselines answers every
\* elevation, and its power jumps neither between two bins that touch nor in time;
\* build_cn0_model: a built file says what its sources measured, whatever their
\* order, and asks for a baseline exactly where it was calibrated.
Cn0IsDefined ==
  /\ case.kind = "cn0" =>
       LET loaded == LoadModel(BuiltinModel, case.in.semantic, case.in.rows)
           model == Configure(loaded, case.in.high) IN
       ConfigurationAccepted(loaded, case.in.high) =>
         EstimateIsTotal(model, Elevations) /\ EstimateIsContinuous(model, Elevations)
  /\ case.kind = "waves" =>
       \A s \in DOMAIN Offset : \A nominal \in Nominal(BuiltinModel, s, case.in.elevation) :
         EstimateIsSmooth(nominal, case.in.time, case.in.fast, case.in.slow)
  /\ case.kind = "header" => SlotsAreTheirs(case.in)
  /\ case.kind = "builder" =>
       /\ AbsoluteIsTrue(case.in.config, case.in.sources)
       /\ NormalizedIsTrue(case.in.config, case.in.norm, case.in.sources)

\* tools/build_cn0_model/README.md: the simulator accepts what the builder
\* writes.  It does not: build_cn0_model blanks the differences of a bin with too
\* few pairs and leaves their count, and the loader refuses such a row.
BuiltFileIsAccepted ==
  case.kind = "builder" =>
    \A rows \in BuildAbsolute(case.in.config, case.in.sources) : FileAccepted("AbsoluteStation", rows)

\* sim_config.cpp: of an accepted document, in whatever order it is written, every
\* setting of the configuration is the value given at its path, durations to the
\* nearest tick, and where none is given the default, which for the noise goes with
\* the scenario and for a signal's RF parameters is the document's own; all the
\* document says is such a setting, said once; and what comes out is what the other
\* components assume.
ConfigMeansTheDocument ==
  case.kind = "config" =>
    LET doc == case.in
        config == LoadConfig(DefaultConfig, doc) IN
    /\ SameInAnyOrder(doc)
    /\ Accepted(doc) => SettingsAreTheDocuments(doc, config) /\ ConfigIsUsable(config)

\* transient_validator.cpp: the one pass over the log sums up what the events
\* and the truth say, with outages that end after the run or follow closely.
TransientSummaryIsTrue ==
  case.kind = "transients" =>
    LET log == ShapeLog(case.in.shape)
        truth == ShapeTruth(case.in.shape) IN
    ValidationAccepted(log, truth, case.in.events, case.in.fade) =>
      SummaryIsTrue(log, truth, case.in.events, case.in.fade)

\* novatel_range_writer.cpp, rangea_roundtrip.cpp: the log tells every available
\* measurement, and a validation of it accepts only positions that rest on what
\* the log said before, as the ephemeris file would have it.
LogTellsTheMeasurements ==
  /\ case.kind = "line" => WrittenIsRead(case.in.time, case.in.observations)
  /\ case.kind = "log" => PositionsAreEarned(case.in.lines, case.in.broadcast) /\ FileAgrees(case.in.lines)

\* run_extended.py: the closed forms the harness compares a run with count
\* exactly the transitions and epochs of the scenario engine.
ExpectationIsExact ==
  case.kind = "expectation" =>
    LET i == case.in IN
    Aligned(i.scenario, i.step) => ExpectationHolds(i.scenario, i.steps * i.step, i.step)
===============================================================================

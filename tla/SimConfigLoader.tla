---------------------------- MODULE SimConfigLoader ----------------------------
(***************************************************************************)
(* The configuration: a JSON document over the built-in defaults, checked  *)
(* member by member while it is read and as a whole at the end.            *)
(*                                                                         *)
(* A JSON value is a record with its kind; an object has the sequence of   *)
(* its members.  Numbers are in units of 1/10000, durations in ticks of    *)
(* 1/1000 s, which stand for the program's nanoseconds: a duration is      *)
(* rounded to ticks, as seconds_to_ns rounds.                              *)
(***************************************************************************)
EXTENDS Integers, SequencesExt, TLC

CONSTANTS
  SignalNames,    (* the names of the central signal table                  *)
  SamplingRates,  (* the rates sampling_interval_ns knows                   *)
  MaxInteger,     (* the largest int                                        *)
  MaxTicks,       (* the longest duration of 64 bits                        *)
  MaxSeed         (* MAX_EXACT_JSON_INTEGER                                 *)

ASSUME LoaderAssumption ==
  SamplingRates \subseteq Nat \ {0} /\ MaxInteger \in Nat /\ MaxTicks \in Nat /\ MaxSeed \in Nat

One == 10000   (* the number 1 *)

-----------------------------------------------------------------------------
(* JSON values and what the readers ask of them.                           *)
Num(n) == [kind |-> "number", number |-> n]
Str(s) == [kind |-> "string", string |-> s]
Bool(b) == [kind |-> "bool", bool |-> b]
Obj(members) == [kind |-> "object", members |-> members]
Member(key, value) == [key |-> key, value |-> value]

Places(v, key) == {i \in DOMAIN v.members : v.members[i].key = key}
Has(v, key) == Places(v, key) # {}
Get(v, key) == v.members[CHOOSE i \in Places(v, key) : \A j \in Places(v, key) : i <= j].value

(* validate_object_keys *)
KeysAllowed(v, allowed) ==
  /\ v.kind = "object"
  /\ \A i \in DOMAIN v.members : v.members[i].key \in allowed /\ Places(v, v.members[i].key) = {i}

(* read_optional_number, _int, _bool, _string                              *)
Reads(v, key, kind) == Has(v, key) => Get(v, key).kind = kind
NumberOr(v, key, old) == IF Has(v, key) THEN Get(v, key).number ELSE old
IntegerIn(v, low, high) == v.kind = "number" /\ v.number % One = 0 /\ v.number \div One \in low..high
IntReads(v, key) == Has(v, key) => IntegerIn(Get(v, key), -MaxInteger - 1, MaxInteger)
IntOr(v, key, old) == IF Has(v, key) THEN Get(v, key).number \div One ELSE old
BoolOr(v, key, old) == IF Has(v, key) THEN Get(v, key).bool ELSE old
StringOr(v, key, old) == IF Has(v, key) THEN Get(v, key).string ELSE old
NameReads(v, key, names) == Reads(v, key, "string") /\ (Has(v, key) => Get(v, key).string \in names)

(* seconds_to_ns: the range is tested before the rounding.                 *)
Ticks(n) == (n + 5) \div 10
TicksRead(v, key) == Reads(v, key, "number") /\ (Has(v, key) => Get(v, key).number \in 0..10 * MaxTicks)
TicksOr(v, key, old) == IF Has(v, key) THEN Ticks(Get(v, key).number) ELSE old

(* A section of optional numbers only: parse_receiver, the transients, the *)
(* fade, a material, a polarization.                                       *)
NumbersRead(v, old) == KeysAllowed(v, DOMAIN old) /\ \A k \in DOMAIN old : Reads(v, k, "number")
Numbers(v, old) == [k \in DOMAIN old |-> NumberOr(v, k, old[k])]

(* A section that may be absent.                                           *)
Section(v, key, Value(_, _), old) == IF Has(v, key) THEN Value(Get(v, key), old) ELSE old
SectionReads(v, key, Accepted(_, _), old) == Has(v, key) => Accepted(Get(v, key), old)

-----------------------------------------------------------------------------
(* default_sim_config *)
Transient(psr, doppler, cn0, tau) ==
  [psr_extra_sigma_m |-> psr, doppler_extra_sigma_mps |-> doppler, cn0_extra_sigma_dbhz |-> cn0, decay_tau_sec |-> tau]

DefaultMeasurementError ==
  [numbers |-> [psr_sigma_m |-> 800, doppler_sigma_mps |-> 300, adr_sigma_m |-> 10, cn0_sigma_dbhz |-> 5000,
                psr_correlation_tau_sec |-> 15000],
   transients |-> [ttff_hot |-> Transient(4000, 1000, 15000, 10000), ttff_warm |-> Transient(5000, 1200, 20000, 15000),
                   ttff_cold |-> Transient(7000, 1500, 25000, 20000),
                   rea_reacquisition |-> Transient(4000, 1000, 15000, 8000)],
   rea_fade |-> [duration_sec |-> 2500, psr_extra_sigma_m |-> 8000, doppler_extra_sigma_mps |-> 2000,
                 cn0_drop_db |-> 45000]]

DefaultCarrier ==
  [coherent_integration_sec |-> 200, pll_noise_bandwidth_hz |-> 5 * One, fll_noise_bandwidth_hz |-> 4 * One,
   fll_pull_in_bandwidth_hz |-> 8 * One, fll_pull_in_duration_sec |-> 5000,
   pll_enter_cn0_dbhz |-> 30 * One, pll_exit_cn0_dbhz |-> 27 * One,
   pll_enter_persistence_sec |-> One, pll_exit_persistence_sec |-> 3000,
   fll_enter_cn0_dbhz |-> 22 * One, fll_exit_cn0_dbhz |-> 18 * One,
   fll_enter_persistence_sec |-> 2000, fll_exit_persistence_sec |-> 5000,
   doppler_valid_delay_sec |-> 2000, adr_valid_after_pll_sec |-> One]

FlatResponse == [gain_db_horizon |-> 0, gain_db_zenith |-> 0, phase_deg_horizon |-> 0, phase_deg_zenith |-> 0]
DefaultRf ==
  [material |-> [relative_permittivity_real |-> 62700, conductivity_c_s_per_m |-> 43, conductivity_exponent |-> 11925,
                 outer_glass_thickness_m |-> 60, cavity_thickness_m |-> 120, inner_glass_thickness_m |-> 60,
                 coating_sheet_resistance_ohm_sq |-> 5 * One],
   antenna |-> [rhcp |-> FlatResponse, lhcp |-> FlatResponse]]

DefaultConfig ==
  [schema_version |-> 1, scenario |-> "KS", duration |-> 28800000, sampling_rate_hz |-> 10,
   masks |-> [elevation_mask_deg |-> 3 * One, solution_elevation_mask_deg |-> 5 * One],
   output |-> [output_eph |-> TRUE, output_ion |-> TRUE], nav_log_format |-> "novatel",
   measurement_noise_enabled |-> FALSE, multipath_enabled |-> FALSE,
   clock |-> [receiver_clock_bias_m |-> 0, receiver_clock_drift_mps |-> 0], atmosphere_mode |-> "unspecified",
   receiver |-> [latitude_deg |-> 20 * One, longitude_deg |-> 120 * One, height_m |-> 100 * One],
   ttff |-> [startup_mode |-> "HOT", on |-> 300000, off |-> 30000], rea |-> [on |-> 300000, off |-> 10000],
   bestpos_rtk |-> [enabled |-> TRUE, stable_duration |-> 5000, min_used_satellites |-> 6,
                    stds |-> [horizontal_std_m |-> 100, height_std_m |-> 200]],
   measurement_error |-> DefaultMeasurementError,
   carrier_tracking |-> [enabled |-> FALSE, numbers |-> DefaultCarrier],
   urban_rf |-> [default |-> DefaultRf, overrides |-> << >>], cn0_high |-> << >>, seed |-> 1]

-----------------------------------------------------------------------------
(* The sections: what is accepted, and what it makes of the old value.     *)
TtffReads(v, old) ==
  /\ KeysAllowed(v, {"startup_mode", "power_on_sec", "power_off_sec"})
  /\ NameReads(v, "startup_mode", {"HOT", "WARM", "COLD"})
  /\ TicksRead(v, "power_on_sec") /\ TicksRead(v, "power_off_sec")
Ttff(v, old) ==
  [startup_mode |-> StringOr(v, "startup_mode", old.startup_mode),
   on |-> TicksOr(v, "power_on_sec", old.on), off |-> TicksOr(v, "power_off_sec", old.off)]

ReaReads(v, old) ==
  /\ KeysAllowed(v, {"signal_on_sec", "signal_off_sec"})
  /\ TicksRead(v, "signal_on_sec") /\ TicksRead(v, "signal_off_sec")
ReaMutant(v, old) ==
  [on |-> TicksOr(v, "signal_off_sec", old.off), off |-> TicksOr(v, "signal_on_sec", old.on)]
Rea(v, old) == [on |-> TicksOr(v, "signal_on_sec", old.on), off |-> TicksOr(v, "signal_off_sec", old.off)]

BestposReads(v, old) ==
  /\ KeysAllowed(v, {"enabled", "stable_duration_sec", "min_used_satellites", "horizontal_std_m", "height_std_m"})
  /\ Reads(v, "enabled", "bool") /\ TicksRead(v, "stable_duration_sec") /\ IntReads(v, "min_used_satellites")
  /\ \A k \in DOMAIN old.stds : Reads(v, k, "number")
Bestpos(v, old) ==
  [enabled |-> BoolOr(v, "enabled", old.enabled),
   stable_duration |-> TicksOr(v, "stable_duration_sec", old.stable_duration),
   min_used_satellites |-> IntOr(v, "min_used_satellites", old.min_used_satellites),
   stds |-> Numbers(v, old.stds)]

MeasurementErrorReads(v, old) ==
  /\ KeysAllowed(v, DOMAIN old.numbers \cup DOMAIN old.transients \cup {"rea_fade"})
  /\ \A k \in DOMAIN old.numbers : Reads(v, k, "number")
  /\ \A t \in DOMAIN old.transients : SectionReads(v, t, NumbersRead, old.transients[t])
  /\ SectionReads(v, "rea_fade", NumbersRead, old.rea_fade)
MeasurementError(v, old) ==
  [numbers |-> Numbers(v, old.numbers),
   transients |-> [t \in DOMAIN old.transients |-> Section(v, t, Numbers, old.transients[t])],
   rea_fade |-> Section(v, "rea_fade", Numbers, old.rea_fade)]

CarrierReads(v, old) ==
  /\ KeysAllowed(v, DOMAIN old.numbers \cup {"enabled"}) /\ Reads(v, "enabled", "bool")
  /\ \A k \in DOMAIN old.numbers : Reads(v, k, "number")
Carrier(v, old) == [enabled |-> BoolOr(v, "enabled", old.enabled), numbers |-> Numbers(v, old.numbers)]

AntennaReads(v, old) ==
  KeysAllowed(v, DOMAIN old) /\ \A p \in DOMAIN old : SectionReads(v, p, NumbersRead, old[p])
Antenna(v, old) == [p \in DOMAIN old |-> Section(v, p, Numbers, old[p])]

RfReads(v, old) ==
  SectionReads(v, "material", NumbersRead, old.material) /\ SectionReads(v, "antenna", AntennaReads, old.antenna)
Rf(v, old) ==
  [material |-> Section(v, "material", Numbers, old.material), antenna |-> Section(v, "antenna", Antenna, old.antenna)]

(* The members of an object keyed by signal: known, once each.             *)
KeyedBySignal(v) == KeysAllowed(v, SignalNames)

(* The overrides start from the defaults this document has just set.       *)
OverrideBase(v, old) == Rf(v, old.default)

UrbanRfReads(v, old) ==
  /\ KeysAllowed(v, {"material", "antenna", "signals"}) /\ RfReads(v, old.default)
  /\ Has(v, "signals") =>
       LET signals == Get(v, "signals") IN
       /\ KeyedBySignal(signals)
       /\ \A i \in DOMAIN signals.members :
            LET item == signals.members[i].value IN
            KeysAllowed(item, {"material", "antenna"}) /\ RfReads(item, OverrideBase(v, old))
UrbanRf(v, old) ==
  [default |-> Rf(v, old.default),
   overrides |->
     IF Has(v, "signals")
       THEN LET m == Get(v, "signals").members IN
            [i \in DOMAIN m |-> [signal |-> m[i].key, rf |-> Rf(m[i].value, OverrideBase(v, old))]]
       ELSE old.overrides]

Cn0HighReads(v, old) == KeyedBySignal(v) /\ \A i \in DOMAIN v.members : v.members[i].value.kind = "number"
Cn0High(v, old) ==
  [i \in DOMAIN v.members |-> [signal |-> v.members[i].key, cn0 |-> v.members[i].value.number]]

(* parse_seed *)
SeedReads(v) == Has(v, "seed") => IntegerIn(Get(v, "seed"), 0, MaxSeed)

-----------------------------------------------------------------------------
(* validate_sim_config *)
NonNegative(numbers) == \A k \in DOMAIN numbers : numbers[k] >= 0
Positive(numbers, keys) == \A k \in keys : numbers[k] > 0

ValidTransient(t) == NonNegative(t) /\ t.decay_tau_sec > 0
ValidMeasurementError(e) ==
  /\ NonNegative(e.numbers) /\ e.numbers.psr_correlation_tau_sec > 0
  /\ \A t \in DOMAIN e.transients : ValidTransient(e.transients[t])
  /\ NonNegative(e.rea_fade)

Cn0Thresholds == {"pll_enter_cn0_dbhz", "pll_exit_cn0_dbhz", "fll_enter_cn0_dbhz", "fll_exit_cn0_dbhz"}
ValidCarrier(c) ==
  /\ Positive(c, DOMAIN c \ Cn0Thresholds)
  /\ c.fll_pull_in_bandwidth_hz >= c.fll_noise_bandwidth_hz
  /\ c.pll_enter_cn0_dbhz > c.pll_exit_cn0_dbhz /\ c.pll_exit_cn0_dbhz > c.fll_enter_cn0_dbhz
  /\ c.fll_enter_cn0_dbhz > c.fll_exit_cn0_dbhz

ValidMaterial(m) ==
  NonNegative(m) /\ Positive(m, DOMAIN m \ {"conductivity_c_s_per_m", "conductivity_exponent"})
ValidUrbanRf(u) ==
  /\ ValidMaterial(u.default.material)
  /\ \A i \in DOMAIN u.overrides :
       /\ ValidMaterial(u.overrides[i].rf.material)
       /\ \A j \in 1..(i - 1) : u.overrides[j].signal # u.overrides[i].signal

ValidConfig(c) ==
  /\ c.schema_version = 1 /\ c.duration > 0 /\ c.sampling_rate_hz \in SamplingRates
  /\ \A k \in DOMAIN c.masks : c.masks[k] \in 0..90 * One
  /\ c.bestpos_rtk.stable_duration >= 0 /\ c.bestpos_rtk.min_used_satellites \in 4..64
  /\ NonNegative(c.bestpos_rtk.stds)
  /\ ValidMeasurementError(c.measurement_error) /\ ValidCarrier(c.carrier_tracking.numbers) /\ ValidUrbanRf(c.urban_rf)
  /\ c.clock.receiver_clock_bias_m = 0
  /\ c.receiver.latitude_deg \in -90 * One..90 * One /\ c.receiver.longitude_deg \in -180 * One..180 * One
  /\ c.ttff.on > 0 /\ c.ttff.off > 0 /\ c.rea.on > 0 /\ c.rea.off > 0

-----------------------------------------------------------------------------
(* load_sim_config_json *)
RootKeys ==
  {"schema_version", "scenario", "duration_sec", "sampling_rate_hz", "elevation_mask_deg",
   "solution_elevation_mask_deg", "output_eph", "output_ion", "nav_log_format", "measurement_noise_enabled",
   "bestpos_rtk", "measurement_error", "carrier_tracking", "urban_rf", "cn0_high_dbhz", "multipath_enabled",
   "receiver_clock_bias_m", "receiver_clock_drift_mps", "atmosphere_mode", "receiver", "ttff", "rea", "seed"}

DocumentReads(doc) ==
  LET old == DefaultConfig IN
  /\ KeysAllowed(doc, RootKeys)
  /\ IntReads(doc, "schema_version") /\ IntReads(doc, "sampling_rate_hz") /\ TicksRead(doc, "duration_sec")
  /\ NameReads(doc, "scenario", {"KS", "REA", "TTFF"}) /\ NameReads(doc, "nav_log_format", {"novatel", "unicore"})
  /\ NameReads(doc, "atmosphere_mode", {"unspecified", "none", "broadcast"})
  /\ \A k \in DOMAIN old.masks \cup DOMAIN old.clock : Reads(doc, k, "number")
  /\ \A k \in DOMAIN old.output \cup {"measurement_noise_enabled", "multipath_enabled"} : Reads(doc, k, "bool")
  /\ SectionReads(doc, "receiver", NumbersRead, old.receiver) /\ SectionReads(doc, "ttff", TtffReads, old.ttff)
  /\ SectionReads(doc, "rea", ReaReads, old.rea) /\ SectionReads(doc, "bestpos_rtk", BestposReads, old.bestpos_rtk)
  /\ SectionReads(doc, "measurement_error", MeasurementErrorReads, old.measurement_error)
  /\ SectionReads(doc, "carrier_tracking", CarrierReads, old.carrier_tracking)
  /\ SectionReads(doc, "urban_rf", UrbanRfReads, old.urban_rf)
  /\ SectionReads(doc, "cn0_high_dbhz", Cn0HighReads, old.cn0_high) /\ SeedReads(doc)

(* Noise is on by default in the scenarios that need it.                   *)
NoiseDefault(scenario) == scenario \in {"TTFF", "REA"}

Parsed(doc) ==
  LET old == DefaultConfig
      scenario == StringOr(doc, "scenario", old.scenario) IN
  [schema_version |-> IntOr(doc, "schema_version", old.schema_version), scenario |-> scenario,
   duration |-> TicksOr(doc, "duration_sec", old.duration),
   sampling_rate_hz |-> IntOr(doc, "sampling_rate_hz", old.sampling_rate_hz), masks |-> Numbers(doc, old.masks),
   output |-> [k \in DOMAIN old.output |-> BoolOr(doc, k, old.output[k])],
   nav_log_format |-> StringOr(doc, "nav_log_format", old.nav_log_format),
   measurement_noise_enabled |-> BoolOr(doc, "measurement_noise_enabled", NoiseDefault(scenario)),
   multipath_enabled |-> BoolOr(doc, "multipath_enabled", old.multipath_enabled),
   clock |-> Numbers(doc, old.clock), atmosphere_mode |-> StringOr(doc, "atmosphere_mode", old.atmosphere_mode),
   receiver |-> Section(doc, "receiver", Numbers, old.receiver), ttff |-> Section(doc, "ttff", Ttff, old.ttff),
   rea |-> Section(doc, "rea", Rea, old.rea), bestpos_rtk |-> Section(doc, "bestpos_rtk", Bestpos, old.bestpos_rtk),
   measurement_error |-> Section(doc, "measurement_error", MeasurementError, old.measurement_error),
   carrier_tracking |-> Section(doc, "carrier_tracking", Carrier, old.carrier_tracking),
   urban_rf |-> Section(doc, "urban_rf", UrbanRf, old.urban_rf),
   cn0_high |-> Section(doc, "cn0_high_dbhz", Cn0High, old.cn0_high), seed |-> IntOr(doc, "seed", old.seed)]

Accepted(doc) == DocumentReads(doc) /\ ValidConfig(Parsed(doc))

LoadConfig(config, doc) == IF Accepted(doc) THEN Parsed(doc) ELSE config

-----------------------------------------------------------------------------
(* References: a configuration as the settings it gives, each at its path  *)
(* in the document and in the document's units.                            *)
Under(path, values) == [p \in {Append(path, k) : k \in DOMAIN values} |-> values[p[Len(p)]]]
Within(path, sections) ==
  [p \in UNION {{path \o <<s, k>> : k \in DOMAIN sections[s]} : s \in DOMAIN sections} |->
     sections[p[Len(p) - 1]][p[Len(p)]]]

RfSettings(path, rf) ==
  Under(Append(path, "material"), rf.material) @@ Within(Append(path, "antenna"), rf.antenna)

Settings(c) ==
  LET bestpos == c.bestpos_rtk
      root ==
        [schema_version |-> c.schema_version * One, scenario |-> c.scenario, duration_sec |-> c.duration * 10,
         sampling_rate_hz |-> c.sampling_rate_hz * One, nav_log_format |-> c.nav_log_format,
         measurement_noise_enabled |-> c.measurement_noise_enabled, multipath_enabled |-> c.multipath_enabled,
         atmosphere_mode |-> c.atmosphere_mode, seed |-> c.seed * One]
      sections ==
        [receiver |-> c.receiver,
         ttff |-> [startup_mode |-> c.ttff.startup_mode, power_on_sec |-> c.ttff.on * 10, power_off_sec |-> c.ttff.off * 10],
         rea |-> [signal_on_sec |-> c.rea.on * 10, signal_off_sec |-> c.rea.off * 10],
         bestpos_rtk |-> bestpos.stds @@
           [enabled |-> bestpos.enabled, stable_duration_sec |-> bestpos.stable_duration * 10,
            min_used_satellites |-> bestpos.min_used_satellites * One],
         measurement_error |-> c.measurement_error.numbers,
         carrier_tracking |-> c.carrier_tracking.numbers @@ [enabled |-> c.carrier_tracking.enabled],
         cn0_high_dbhz |-> [s \in {c.cn0_high[i].signal : i \in DOMAIN c.cn0_high} |->
                              c.cn0_high[CHOOSE i \in DOMAIN c.cn0_high : c.cn0_high[i].signal = s].cn0]]
  IN FoldLeft(LAMBDA f, o : f @@ RfSettings(<<"urban_rf", "signals", o.signal>>, o.rf),
              Under(<< >>, root @@ c.masks @@ c.output @@ c.clock) @@ Within(<< >>, sections)
                @@ Within(<<"measurement_error">>,
                          c.measurement_error.transients @@ [rea_fade |-> c.measurement_error.rea_fade])
                @@ RfSettings(<<"urban_rf">>, c.urban_rf.default),
              c.urban_rf.overrides)

Defaults == Settings(DefaultConfig)
Durations ==
  {<<"duration_sec">>, <<"ttff", "power_on_sec">>, <<"ttff", "power_off_sec">>, <<"rea", "signal_on_sec">>,
   <<"rea", "signal_off_sec">>, <<"bestpos_rtk", "stable_duration_sec">>}

(* The document's own values, with their paths, in their order.            *)
RECURSIVE Leaves(_)
Leaves(v) ==
  IF v.kind # "object" THEN <<[path |-> << >>, value |-> v]>>
  ELSE FlattenSeq([i \in DOMAIN v.members |->
         LET m == v.members[i]
             below == Leaves(m.value)
         IN [j \in DOMAIN below |-> [below[j] EXCEPT !.path = <<m.key>> \o @]]])

(* A setting is the value given for it: a duration to the nearest tick.    *)
Says(value, path, setting) ==
  CASE value.kind = "number" -> IF path \in Durations THEN value.number - setting \in -5..4 ELSE value.number = setting
    [] value.kind = "string" -> value.string = setting
    [] value.kind = "bool" -> value.bool = setting
    [] OTHER -> FALSE

(* What a setting is that the document does not give: noise goes with the  *)
(* scenario, an override takes what the whole document has.                *)
Unsaid(path, settings) ==
  CASE path = <<"measurement_noise_enabled">> -> {settings[<<"scenario">>] # "KS"}
    [] path # <<"measurement_noise_enabled">> /\ path \in DOMAIN Defaults -> {Defaults[path]}
    [] path[1] = "urban_rf" /\ path \notin DOMAIN Defaults -> {settings[<<"urban_rf">> \o SubSeq(path, 4, Len(path))]}
    [] OTHER -> {}

(* The signals the document has an entry for, with settings in it or not.  *)
ValuesAt(v, key) == IF v.kind = "object" THEN {v.members[i].value : i \in Places(v, key)} ELSE {}
OverriddenIn(doc) ==
  UNION {UNION {{v.members[i].key : i \in DOMAIN v.members} : v \in ValuesAt(u, "signals")} : u \in ValuesAt(doc, "urban_rf")}

(* Every setting is what the document says of it, once, or else what it is *)
(* when nothing is said; and all the document says is a setting.           *)
SettingsAreTheDocuments(doc, config) ==
  LET settings == Settings(config)
      leaves == Leaves(doc)
      Given(path) == {i \in DOMAIN leaves : leaves[i].path = path}
  IN
  /\ \A i \in DOMAIN leaves : leaves[i].path \in DOMAIN settings
  /\ \A path \in DOMAIN settings :
       IF Given(path) = {} THEN settings[path] \in Unsaid(path, settings)
       ELSE \E i \in Given(path) : Given(path) = {i} /\ Says(leaves[i].value, path, settings[path])
  /\ {config.urban_rf.overrides[i].signal : i \in DOMAIN config.urban_rf.overrides} = OverriddenIn(doc)

(* The order of the members does not matter, but for the order of the two  *)
(* lists that are searched by signal.                                      *)
RECURSIVE Reversed(_)
Reversed(v) ==
  IF v.kind # "object" THEN v
  ELSE Obj([i \in DOMAIN v.members |->
              LET m == v.members[Len(v.members) + 1 - i] IN Member(m.key, Reversed(m.value))])
Keyed(config) ==
  [config EXCEPT !.cn0_high = {@[i] : i \in DOMAIN @}, !.urban_rf.overrides = {@[i] : i \in DOMAIN @}]
SameInAnyOrder(doc) ==
  /\ Accepted(Reversed(doc)) <=> Accepted(doc)
  /\ Accepted(doc) => Keyed(Parsed(Reversed(doc))) = Keyed(Parsed(doc))

(* What the other components rely on: cycles that end, a clock that ticks, *)
(* hysteresis in the carrier loops.                                        *)
ConfigIsUsable(config) ==
  LET c == config.carrier_tracking.numbers IN
  /\ {config.duration, config.ttff.on, config.ttff.off, config.rea.on, config.rea.off} \subseteq 1..MaxTicks
  /\ c.fll_exit_cn0_dbhz < c.fll_enter_cn0_dbhz /\ c.fll_enter_cn0_dbhz < c.pll_exit_cn0_dbhz
  /\ c.pll_exit_cn0_dbhz < c.pll_enter_cn0_dbhz /\ c.fll_enter_persistence_sec > 0 /\ c.pll_exit_persistence_sec > 0
  /\ config.bestpos_rtk.min_used_satellites >= 4
===============================================================================

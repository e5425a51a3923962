-------------------------------- MODULE RangeLog --------------------------------
(***************************************************************************)
(* The RANGEA log: what the receiver's writer makes of the measurements of *)
(* an epoch, what the independent parser of the offline tools reads back,  *)
(* and the two validations that solve positions from a log.                *)
(*                                                                         *)
(* Times are in half milliseconds of the week; the values of a measurement *)
(* are in thirds of the smallest decimal printed, so that rounding meets   *)
(* no ties.  A line of the log keeps its fields; "damage" is what happened *)
(* to its text: a checksum that does not match, a wrong number of fields.  *)
(***************************************************************************)
EXTENDS SignalDefinitions, SolutionSelection

WeekHalfMs == 604800 * 2000

(* The numbering of satellites in RTKLIB, which orders the systems.        *)
Systems == [G |-> 0, R |-> 1, E |-> 3, C |-> 4, J |-> 5]   \* the status bits
PrnOffset == [G |-> 0, R |-> 37, E |-> 0, C |-> 0, J |-> 192]
LastPrn == [G |-> 32, R |-> 27, E |-> 36, C |-> 63, J |-> 10]   \* RTKLIB's satellites
SatelliteNumber(satellite) == 100 * [G |-> 0, R |-> 1, E |-> 2, J |-> 3, C |-> 4][satellite.system] + satellite.prn

-----------------------------------------------------------------------------
(* format_novatel_rangea                                                   *)

(* rounded_header_time: to milliseconds, into the next week if need be.    *)
HeaderTimeMutant(t) == [week |-> t.week, ms |-> (t.tow + 1) \div 2]
HeaderTime(t) ==
  LET ms == (t.tow + 1) \div 2
      over == ms >= WeekHalfMs \div 2
  IN  [week |-> t.week + (IF over THEN 1 ELSE 0), ms |-> IF over THEN ms - WeekHalfMs \div 2 ELSE ms]

Emitted(observations) ==
  SortSeq(SelectSeq(observations, LAMBDA o : o.available),
          LAMBDA a, b : \/ SatelliteNumber(a.satellite) < SatelliteNumber(b.satellite)
                        \/ a.satellite = b.satellite /\ SignalId(a.signal) < SignalId(b.signal))

(* finite_observation, satellite_fields                                    *)
Representable(o) ==
  /\ o.cn0 >= 0 /\ o.lock >= 0 /\ (o.psr.valid => o.psr.value > 0)
  /\ o.satellite.system = SignalTable[o.signal].system
  /\ o.satellite.system = "R" => o.fcn \in -7..6

BeidouGeo(prn) == prn \in 1..5 \/ prn \in 59..63
SignalType(o) ==
  SignalTable[o.signal].type
    + (IF o.signal \in DOMAIN D2Signals /\ BeidouGeo(o.satellite.prn) THEN 4 ELSE 0)

TrackingStatus(o) ==
  (IF o.adr.valid THEN 4 + 2^10 + 2^11 ELSE 7) + (IF o.psr.valid THEN 2^12 ELSE 0)
    + Systems[o.satellite.system] * 2^16 + (SignalType(o) % 32) * 2^21

ValueOf(field) == IF field.valid THEN field.value ELSE 0
Printed(v) == IF v >= 0 THEN (v + 1) \div 3 ELSE -((1 - v) \div 3)

Fields(o) ==
  [prn |-> o.satellite.prn + PrnOffset[o.satellite.system],
   glofreq |-> IF o.satellite.system = "R" THEN o.fcn + 7 ELSE 0,
   psr |-> Printed(ValueOf(o.psr)), adr |-> Printed(ValueOf(o.adr)), doppler |-> Printed(ValueOf(o.doppler)),
   cn0 |-> Printed(o.cn0), lock |-> Printed(o.lock), status |-> TrackingStatus(o)]

(* The set of lines written: empty when the writer fails.                  *)
FormatRangea(time, observations) ==
  LET emitted == Emitted(observations) IN
  IF \E k \in DOMAIN emitted : ~Representable(emitted[k]) \/ SignalType(emitted[k]) \notin 0..31 THEN {}
  ELSE {[time |-> HeaderTime(time), fields |-> [k \in DOMAIN emitted |-> Fields(emitted[k])], damage |-> "none"]}

-----------------------------------------------------------------------------
(* parse_rangea_line_impl                                                  *)
Bits(status, shift, width) == (status \div 2^shift) % 2^width

ParsedSystem(f) == {s \in DOMAIN Systems : Systems[s] = Bits(f.status, 16, 3)}
ParsedSatellite(f) ==
  {satellite \in {[system |-> s, prn |-> f.prn - PrnOffset[s]] : s \in ParsedSystem(f)} :
     /\ satellite.prn \in 1..LastPrn[satellite.system]
     /\ IF satellite.system = "R" THEN f.glofreq \in 0..13 ELSE f.glofreq = 0}
ParsedSignal(f) == UNION {SignalsOfType(s, Bits(f.status, 21, 5)) : s \in ParsedSystem(f)}

FieldsAccepted(f) ==
  /\ f.cn0 >= 0 /\ f.lock >= 0 /\ ParsedSatellite(f) # {} /\ ParsedSignal(f) # {}
  /\ IF Bits(f.status, 12, 1) = 1 THEN f.psr > 0 ELSE f.psr = 0

ParsedObservation(f) ==
  [satellite |-> CHOOSE satellite \in ParsedSatellite(f) : TRUE, signal |-> CHOOSE s \in ParsedSignal(f) : TRUE,
   psr |-> [valid |-> Bits(f.status, 12, 1) = 1, value |-> f.psr],
   adr |-> [valid |-> Bits(f.status, 10, 2) = 3, value |-> f.adr],
   doppler |-> f.doppler, cn0 |-> f.cn0, lock |-> f.lock]

ParseRangea(line) ==
  IF \/ line.damage # "none" \/ line.time.week < 0 \/ line.time.ms \notin 0..(WeekHalfMs \div 2 - 1)
     \/ \E k \in DOMAIN line.fields : ~FieldsAccepted(line.fields[k])
  THEN {}
  ELSE {[time |-> line.time, observations |-> [k \in DOMAIN line.fields |-> ParsedObservation(line.fields[k])]]}

-----------------------------------------------------------------------------
(* Positions from a log.                                                   *)

(* select_position_observations: the first of best priority per satellite. *)
Eligible(o) == o.psr.valid /\ Priority[o.signal] >= 0 /\ SignalTable[o.signal].family # "Unknown"
PositionObservations(epoch) ==
  LET eligible == {k \in DOMAIN epoch.observations : Eligible(epoch.observations[k])}
      P(k) == Priority[epoch.observations[k].signal]
      Same(k) == {j \in eligible : epoch.observations[j].satellite = epoch.observations[k].satellite}
  IN  {epoch.observations[k] :
         k \in {k \in eligible : \A j \in Same(k) : P(k) < P(j) \/ (P(k) = P(j) /\ k <= j)}}

(* rtklib_raw_code_observation_navigation_available: the records, and the  *)
(* code biases that come with them, are valid for the whole of a log; the  *)
(* code looks them up at the epoch's time.                                 *)
NavigationAvailable(nav, o) == <<o.satellite, SignalTable[o.signal].family>> \in nav

(* rtklib_solve_raw_single_position: an observation without an ephemeris,  *)
(* or too many of them, is an error and not a missing solution.            *)
RawSolveFails(nav, selected) ==
  Cardinality(selected) > MaxSatellites \/ \E o \in selected : ~NavigationAvailable(nav, o)
RawSolution(selected, line) == Cardinality(selected) >= MinObservations /\ line.solvable

NoPositions == [epochs |-> 0, parsed |-> 0, selected |-> 0, valid |-> 0, final |-> 0, max |-> 0, maxAt |-> -1]
Counted(p, epoch) ==
  [p EXCEPT !.epochs = @ + 1, !.parsed = @ + Len(epoch.observations),
            !.selected = @ + Cardinality(PositionObservations(epoch))]
WithPosition(p, epoch, error) ==
  [p EXCEPT !.valid = @ + 1, !.final = error, !.max = IF error > @ THEN error ELSE @,
            !.maxAt = IF error > p.max THEN epoch.time.ms ELSE @]

(* One line of validate_rangea_roundtrip_stream, with the ephemerides of a *)
(* file; states are sets, empty after an error.                            *)
RinexStep(nav, p, line) ==
  IF line.kind # "range" THEN {p}
  ELSE UNION {LET selected == PositionObservations(epoch)
                  counted == Counted(p, epoch) IN
              CASE selected = {} -> {counted}
                [] selected # {} /\ RawSolveFails(nav, selected) -> {}
                [] OTHER -> {IF RawSolution(selected, line) THEN WithPosition(counted, epoch, line.error) ELSE counted}
              : epoch \in ParseRangea(line.text)}

(* One line of validate_serialized_navigation_roundtrip_stream, with what  *)
(* the log itself has said so far.                                         *)
NoRecords == [nav |-> {}, ephemerides |-> 0, gpsIon |-> FALSE, withoutIon |-> 0, withoutNav |-> 0, position |-> NoPositions]

RangeStep(s, line, epoch, broadcast) ==
  LET selected == PositionObservations(epoch)
      usable == {o \in selected : NavigationAvailable(s.nav, o)}
      counted == [s EXCEPT !.position = Counted(@, epoch)]
      filtered == [counted EXCEPT !.withoutNav = @ + Cardinality(selected \ usable)] IN
  CASE broadcast /\ ~s.gpsIon -> {[counted EXCEPT !.withoutIon = @ + 1]}
    [] ~(broadcast /\ ~s.gpsIon) /\ usable # {} /\ RawSolveFails(s.nav, usable) -> {}
    [] OTHER -> {IF RawSolution(usable, line)
                   THEN [filtered EXCEPT !.position = WithPosition(@, epoch, line.error)] ELSE filtered}

SerializedStep(s, line, broadcast) ==
  CASE line.kind = "eph"   -> {[s EXCEPT !.nav = @ \cup {line.record}, !.ephemerides = @ + 1]}
    [] line.kind = "ion"   -> {[s EXCEPT !.gpsIon = @ \/ line.gps]}
    [] line.kind = "other" -> {s}
    [] line.kind = "range" -> UNION {RangeStep(s, line, epoch, broadcast) : epoch \in ParseRangea(line.text)}

Streamed(Step(_, _), first, lines) ==
  FoldLeft(LAMBDA states, line : UNION {Step(s, line) : s \in states}, {first}, lines)

RinexValidation(nav, lines) ==
  {p \in Streamed(LAMBDA p, line : RinexStep(nav, p, line), NoPositions, lines) : p.epochs > 0 /\ p.valid > 0}

SerializedValidation(lines, broadcast) ==
  {s \in Streamed(LAMBDA s, line : SerializedStep(s, line, broadcast), NoRecords, lines) :
     /\ s.ephemerides > 0 /\ (broadcast => s.gpsIon)
     /\ s.position.epochs > 0 /\ s.position.valid > 0}

-----------------------------------------------------------------------------
(* References.                                                             *)

(* A line that was written is read back: the same time, to the nearest     *)
(* millisecond, and the available measurements, each once and in order,    *)
(* with their identities and what was valid of them.                       *)
Tells(read, o) ==
  LET Close(printed, value) == 3 * printed - value \in -1..1 IN
  /\ read.satellite = o.satellite /\ read.signal = o.signal
  /\ read.psr.valid = o.psr.valid /\ Close(read.psr.value, ValueOf(o.psr))
  /\ read.adr.valid = o.adr.valid /\ Close(read.adr.value, ValueOf(o.adr))
  /\ Close(read.doppler, ValueOf(o.doppler)) /\ Close(read.cn0, o.cn0) /\ Close(read.lock, o.lock)

WrittenIsRead(time, observations) ==
  LET available == {o \in ToSet(observations) : o.available} IN
  \A line \in FormatRangea(time, observations) :
    \E epoch \in ParseRangea(line) :
      /\ \A o \in available : \E read \in ToSet(epoch.observations) : Tells(read, o)
      /\ Len(epoch.observations) = Cardinality(available)
      /\ \A k \in 2..Len(epoch.observations) :
           LET a == epoch.observations[k - 1]
               b == epoch.observations[k] IN
           SatelliteNumber(a.satellite) <= SatelliteNumber(b.satellite)
      /\ LET off == 2 * epoch.time.ms - time.tow + (epoch.time.week - time.week) * WeekHalfMs IN off \in {0, 1}

(* The solved lines: after enough ephemerides of their own satellites and, *)
(* with the broadcast atmosphere, after the ionosphere of GPS.             *)
UsableAt(lines, i) ==
  LET before == {lines[j].record : j \in {j \in 1..(i - 1) : lines[j].kind = "eph"}} IN
  UNION {{o \in PositionObservations(epoch) : NavigationAvailable(before, o)} : epoch \in ParseRangea(lines[i].text)}
SolvedLines(lines, broadcast) ==
  {i \in DOMAIN lines :
     /\ lines[i].kind = "range" /\ lines[i].solvable /\ Cardinality(UsableAt(lines, i)) >= MinObservations
     /\ broadcast => \E j \in 1..(i - 1) : lines[j].kind = "ion" /\ lines[j].gps}

PositionsAreEarned(lines, broadcast) ==
  \A s \in SerializedValidation(lines, broadcast) :
    LET solved == SolvedLines(lines, broadcast)
        ranges == {i \in DOMAIN lines : lines[i].kind = "range"} IN
    /\ solved # {} /\ s.position.valid = Cardinality(solved) /\ s.position.epochs = Cardinality(ranges)
    /\ \A i \in ranges : ParseRangea(lines[i].text) # {}
    /\ s.position.max = Max({0} \cup {lines[i].error : i \in solved})
    /\ s.position.final = lines[Max(solved)].error
    /\ s.withoutIon = Cardinality({i \in ranges : broadcast /\ ~\E j \in 1..(i - 1) : lines[j].kind = "ion" /\ lines[j].gps})

(* A log that proves itself is also proved by the file its ephemerides     *)
(* came from, if each of its satellites is there from the start: the same  *)
(* epochs are solved, with as many observations.  (The error of a position *)
(* belongs to its epoch here; RTKLIB computes it.)                         *)
FileAgrees(lines) ==
  LET nav == {lines[j].record : j \in {j \in DOMAIN lines : lines[j].kind = "eph"}} IN
  \A s \in SerializedValidation(lines, FALSE) :
    s.withoutNav = 0 => RinexValidation(nav, lines) = {s.position}
===============================================================================

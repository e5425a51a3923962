---------------------------- MODULE ScenarioEngine ----------------------------
(***************************************************************************)
(* The scenario engine: at every epoch it derives, from the time elapsed   *)
(* since the start alone, whether the receiver is powered and whether the  *)
(* signals are on, and it compares that with what it derived at the        *)
(* previous epoch to raise power and signal transitions.                   *)
(*                                                                         *)
(* Times are integers (the program's nanoseconds since the start).         *)
(***************************************************************************)
EXTENDS Integers

CONSTANT
  Scenarios   (* the scenario configurations considered *)

ScenarioKinds == {"KS", "REA", "TTFF"}
StartupModes  == {"HOT", "WARM", "COLD"}

(* What validate_sim_config accepts: both parts of a cycle are positive.   *)
ASSUME ScenariosAssumption ==
  \A c \in Scenarios :
    /\ c.kind \in ScenarioKinds
    /\ c.mode \in StartupModes
    /\ c.on  \in Nat \ {0}
    /\ c.off \in Nat \ {0}

(* TTFF cycles power off and on, REA keeps power and cycles the signals,   *)
(* KS does neither.                                                        *)
InOnPart(c, elapsed) == elapsed % (c.on + c.off) < c.on

ScenarioAt(c, elapsed) ==
  [powered |-> c.kind = "TTFF" => InOnPart(c, elapsed),
   signal  |-> c.kind # "KS"   => InOnPart(c, elapsed)]

(* HOT is the startup mode of every scenario but TTFF. *)
ScenarioStartupMode(c) == IF c.kind = "TTFF" THEN c.mode ELSE "HOT"

(***************************************************************************)
(* The engine remembers the last state it returned, if any.                *)
(***************************************************************************)
Engines == [seen : BOOLEAN, powered : BOOLEAN, signal : BOOLEAN]

NewEngine == [seen |-> FALSE, powered |-> FALSE, signal |-> FALSE]

Remember(sc) == [seen |-> TRUE, powered |-> sc.powered, signal |-> sc.signal]

(* At the first update a powered receiver powers on, and available signals *)
(* turn on; nothing can turn off.                                          *)
PowerOn(engine, sc)   == sc.powered /\ (engine.seen => ~engine.powered)
PowerOff(engine, sc)  == ~sc.powered /\ engine.seen /\ engine.powered
SignalOn(engine, sc)  == sc.signal /\ (engine.seen => ~engine.signal)
SignalOffMutant(engine, sc) == ~sc.signal /\ engine.seen
SignalOff(engine, sc) == ~sc.signal /\ engine.seen /\ engine.signal
===============================================================================

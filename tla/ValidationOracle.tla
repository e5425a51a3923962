---------------------------- MODULE ValidationOracle ----------------------------
(***************************************************************************)
(* What the extended validation harness expects of a run: the number of    *)
(* transitions of power and signals and of powered and available epochs,   *)
(* in closed form from the configuration, beside the scenario engine that  *)
(* the simulator steps from epoch to epoch.                                *)
(*                                                                         *)
(* A configuration is a scenario with the length of the run and the        *)
(* sampling step, in the same unit of time.                                *)
(***************************************************************************)
EXTENDS ScenarioEngine

BoundaryCount(duration, first, period) ==
  IF first >= duration THEN 0 ELSE 1 + (duration - 1 - first) \div period

ExpectedEvents(c, duration) ==
  LET offs == BoundaryCount(duration, c.on, c.on + c.off)
      ons == BoundaryCount(duration, c.on + c.off, c.on + c.off) IN
  [powerOn |-> 1 + (IF c.kind = "TTFF" THEN ons ELSE 0), powerOff |-> IF c.kind = "TTFF" THEN offs ELSE 0,
   signalOn |-> 1 + (IF c.kind # "KS" THEN ons ELSE 0), signalOff |-> IF c.kind # "KS" THEN offs ELSE 0]

(* Cycles off the sampling grid are refused.                               *)
Aligned(c, step) == c.kind # "KS" => (c.on + c.off) % step = 0 /\ c.on % step = 0

PeriodicOnEpochs(c, total, step) ==
  LET period == (c.on + c.off) \div step
      on == c.on \div step
      rest == total % period IN
  (total \div period) * on + (IF rest < on THEN rest ELSE on)

ExpectedEpochs(c, duration, step) ==
  LET total == duration \div step
      on == IF c.kind = "KS" THEN total ELSE PeriodicOnEpochs(c, total, step) IN
  [powered |-> IF c.kind = "TTFF" THEN on ELSE total, signalOn |-> on,
   signalOff |-> IF c.kind = "REA" THEN total - on ELSE 0]

-----------------------------------------------------------------------------
(* Reference: the engine over the epochs of the run.  A row of the epoch   *)
(* truth has the signals off only while the receiver is powered.           *)
CountIf(n, b) == n + (IF b THEN 1 ELSE 0)

Step(s, sc) ==
  [engine |-> Remember(sc),
   events |-> [powerOn |-> CountIf(s.events.powerOn, PowerOn(s.engine, sc)),
               powerOff |-> CountIf(s.events.powerOff, PowerOff(s.engine, sc)),
               signalOn |-> CountIf(s.events.signalOn, SignalOn(s.engine, sc)),
               signalOff |-> CountIf(s.events.signalOff, SignalOff(s.engine, sc))],
   epochs |-> [powered |-> CountIf(s.epochs.powered, sc.powered), signalOn |-> CountIf(s.epochs.signalOn, sc.signal),
               signalOff |-> CountIf(s.epochs.signalOff, sc.powered /\ ~sc.signal)]]

NothingYet ==
  [engine |-> NewEngine, events |-> [powerOn |-> 0, powerOff |-> 0, signalOn |-> 0, signalOff |-> 0],
   epochs |-> [powered |-> 0, signalOn |-> 0, signalOff |-> 0]]

Simulated(c, duration, step) ==
  LET total == duration \div step
      after[k \in 0..total] ==
        IF k = 0 THEN NothingYet ELSE Step(after[k - 1], ScenarioAt(c, (k - 1) * step))
  IN  after[total]

ExpectationHolds(c, duration, step) ==
  LET run == Simulated(c, duration, step) IN
  run.events = ExpectedEvents(c, duration) /\ run.epochs = ExpectedEpochs(c, duration, step)
===============================================================================

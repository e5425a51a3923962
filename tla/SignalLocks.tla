------------------------------ MODULE SignalLocks ------------------------------
(***************************************************************************)
(* What the epoch loop does to the locks of the signals, as far as the     *)
(* navigation data depends on it.  This is the abstract specification of   *)
(* the trackers: ReceiverTracking (open sky) and UrbanTracking (multipath) *)
(* implement it, and ReceiverNavigation builds on it.                      *)
(*                                                                         *)
(* A signal is sought, from a time before which it cannot lock; it locks   *)
(* then or at an epoch after that; and it is lost at any epoch.  Without   *)
(* geometry an epoch leaves a signal as it is, so that a lock may be seen  *)
(* long after it began.  Times are integers; 0 is the start of the run.    *)
(***************************************************************************)
EXTENDS ScenarioEngine, FiniteSets

CONSTANTS
  Signals,
  Interval,     (* the sampling interval                                   *)
  LockDelays,   (* from a signal's schedule to its earliest lock           *)
  MaxEpochs     (* the run's epoch count: bounds the model                 *)

ASSUME SignalLocksAssumption ==
  /\ IsFiniteSet(Signals)
  /\ Interval   \in Nat \ {0}
  /\ LockDelays \subseteq Nat
  /\ MaxEpochs  \in Nat

None == -1

VARIABLES
  config,     (* the scenario of this run                                  *)
  epoch,      (* index of the next epoch                                   *)
  engine,     (* the scenario engine                                       *)
  trackers    (* per signal: phase, and the (earliest) start of its lock   *)

lockVars == <<config, epoch, engine, trackers>>

Now == epoch * Interval

(* A signal that is not scheduled is off, whatever its tracker still says. *)
TrackerOff == [phase |-> "SignalOff", start |-> None]
Seeking(t) == [phase |-> "Searching", start |-> t]
Locked(t)  == [phase |-> "Tracking",  start |-> t]

(* The open-sky tracker locks at the planned time, the urban tracker at    *)
(* the epoch that finds enough power.                                      *)
LocksNow(t) ==
  CASE t.phase = "SignalOff" -> {Locked(Now) : d \in LockDelays \cap {0}}
    [] t.phase = "Searching" -> {Locked(start) : start \in {x \in {t.start, Now} : t.start <= Now}}
    [] t.phase = "Tracking"  -> {}

NextTrackers(t, sc) ==
  IF ~sc.signal THEN {TrackerOff}
  ELSE {t, TrackerOff} \cup LocksNow(t) \cup
       {Seeking(Now + d) : d \in {x \in LockDelays : t.phase = "SignalOff"}}

UpdateTrackers(before, sc) ==
  /\ trackers' \in [Signals -> UNION {NextTrackers(before[s], sc) : s \in Signals}]
  /\ \A s \in Signals : trackers'[s] \in NextTrackers(before[s], sc)

AllOff == [s \in Signals |-> TrackerOff]

-----------------------------------------------------------------------------
LocksInit ==
  /\ config \in Scenarios
  /\ epoch = 0
  /\ engine = NewEngine
  /\ trackers = AllOff

BeginEpoch(sc) ==
  /\ epoch < MaxEpochs
  /\ epoch' = epoch + 1
  /\ engine' = Remember(sc)
  /\ UNCHANGED config

(* receiver_power_on resets every tracker before the epoch.                *)
PowerOnLocks ==
  LET sc == ScenarioAt(config, Now) IN
  /\ BeginEpoch(sc)
  /\ PowerOn(engine, sc)
  /\ UpdateTrackers(AllOff, sc)

PoweredLocks ==
  LET sc == ScenarioAt(config, Now) IN
  /\ BeginEpoch(sc)
  /\ sc.powered /\ ~PowerOn(engine, sc)
  /\ UpdateTrackers(trackers, sc)

(* receiver_power_off; the epochs until the next power-on change nothing.  *)
UnpoweredLocks ==
  LET sc == ScenarioAt(config, Now) IN
  /\ BeginEpoch(sc)
  /\ ~sc.powered
  /\ trackers' = AllOff

LocksNext == PowerOnLocks \/ PoweredLocks \/ UnpoweredLocks

LocksSpec == LocksInit /\ [][LocksNext]_lockVars
===============================================================================

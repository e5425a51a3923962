--------------------------- MODULE ReceiverTracking ---------------------------
(***************************************************************************)
(* The receiver's epoch loop (run_simulator): power and signal cycles, the *)
(* signal trackers, the carrier ambiguities and measurement-error states   *)
(* bound to a lock, the position and velocity solution and the BESTPOS fix.*)
(*                                                                         *)
(* One epoch of the loop is one step: the program is single-threaded and   *)
(* nothing observes it between epochs.  What drives an epoch from outside  *)
(* is chosen nondeterministically: which signals have geometry and are     *)
(* visible, the sampled delays, and whether RTKLIB solves.                 *)
(* Multipath and the carrier loops are off here, navigation data is in     *)
(* ReceiverNavigation.                                                     *)
(***************************************************************************)
EXTENDS ScenarioEngine, SignalTracker, FiniteSets

CONSTANTS
  Signals,             (* one signal of one satellite each                 *)
  Interval,            (* the sampling interval                            *)
  StartupDelays,       (* common startup plus search uncertainty           *)
  AcquisitionDelays,   (* per-signal acquisition or reacquisition delays   *)
  RequiredSatellites,  (* RTKLIB solves no position from fewer             *)
  MinUsedSatellites,   (* bestpos_rtk.min_used_satellites                  *)
  StableDuration,      (* bestpos_rtk.stable_duration                      *)
  MaxEpochs            (* the run's epoch count: bounds the model          *)

ASSUME ReceiverAssumption ==
  /\ IsFiniteSet(Signals)
  /\ Interval \in Nat \ {0}
  /\ StartupDelays \subseteq Nat
  /\ AcquisitionDelays \subseteq Nat
  /\ RequiredSatellites \in Nat \ {0}
  /\ MinUsedSatellites \in Nat \ {0}
  /\ StableDuration \in Nat
  /\ MaxEpochs \in Nat

None == -1

VARIABLES
  config,       (* the scenario of this run                                *)
  epoch,        (* index of the next epoch                                 *)
  engine,       (* the scenario engine                                     *)
  events,       (* the run summary's transition counters                   *)
  startupReady, (* startup_search_ready_time                               *)
  runtime,      (* per signal: tracker, ambiguity, measurement error, ever *)
  obs,          (* the measurements of the last epoch, by signal           *)
  hint,         (* the solver holds a position hint                        *)
  position,     (* the last position solution                              *)
  velocity,     (* whether the last velocity solution is valid             *)
  rtk,          (* the BESTPOS RTK state                                   *)
  failed,       (* an epoch returned an error                              *)
  \* History, read by the properties only:
  seen,         (* the signals that had geometry in the last epoch         *)
  onSince,      (* per signal: first epoch of its unbroken availability    *)
  lastAdr,      (* per signal: ambiguity last reported, and if lost since  *)
  qualSince,    (* first epoch of the current run of qualifying positions  *)
  fixedSinceOn  (* a position was computed since the last power-on         *)

history == <<seen, onSince, lastAdr, qualSince, fixedSinceOn>>
vars == <<config, epoch, engine, events, startupReady, runtime, obs, hint,
          position, velocity, rtk, failed, history>>

Now == epoch * Interval

(* From a signal's schedule to its earliest lock: the acquisition delay,   *)
(* and what is left of the startup.                                        *)
LockDelays == UNION {a .. (u + a) : u \in StartupDelays, a \in AcquisitionDelays}

-----------------------------------------------------------------------------
(* The runtime of one signal.                                              *)

NoError == [start |-> None, lock |-> None]

Runtimes ==
  [tracker : Trackers, ever : BOOLEAN, ambiguity : Nat \cup {None},
   error : [start : Nat \cup {None}, lock : Nat \cup {None}]]

(* reset_carrier_ambiguity_state and reset_measurement_error_state *)
DropLock(r) == [r EXCEPT !.ambiguity = None, !.error = NoError]

PowerOnRuntime(now) ==
  [tracker |-> ResetTracker(now), ever |-> FALSE, ambiguity |-> None, error |-> NoError]

PowerOffRuntime(r, now) == [DropLock(r) EXCEPT !.tracker = ResetTracker(now)]

SignalOffRuntime(r, now) == [DropLock(r) EXCEPT !.tracker = UpdateTracker(@, now, FALSE)]

StartupContext(c) ==
  CASE ScenarioStartupMode(c) = "HOT"  -> "Hot"
    [] ScenarioStartupMode(c) = "WARM" -> "Warm"
    [] ScenarioStartupMode(c) = "COLD" -> "Cold"

(* A signal is scheduled when it is available and is not yet; only its     *)
(* first schedule since power-on waits for the receiver's startup.         *)
NeedsScheduleMutant(r, available) == available /\ r.tracker.phase # "Tracking"
NeedsSchedule(r, available) == available /\ ~r.tracker.scheduled

SearchReadyUnclamped(r, now, ready) == IF ~r.ever THEN ready ELSE now
SearchReady(r, now, ready) == IF ~r.ever /\ ready > now THEN ready ELSE now

ScheduledRuntime(r, now, ready, delay) ==
  [r EXCEPT
     !.ever = TRUE,
     !.tracker = ScheduleAcquisition(@, IF r.ever THEN "Reacquisition" ELSE StartupContext(config),
                                     now, SearchReady(r, now, ready), delay)]

AfterSchedule(r, available, now, ready, delay) ==
  IF NeedsSchedule(r, available) THEN ScheduledRuntime(r, now, ready, delay) ELSE r

(* finish_zero_noise_measurement and apply_measurement_error: a tracked    *)
(* signal keeps the ambiguity and the error process of its lock, and draws *)
(* new ones, derived from the lock's start, for a new lock.  The ambiguity *)
(* stands for the start of its lock, which the code keeps with it and      *)
(* writes to the truth as the ambiguity epoch; its cycles are a hash of    *)
(* that start into 900000 numbers, which two locks may share.              *)
MeasuredMutant(r) ==
  [r EXCEPT !.ambiguity = r.tracker.start + r.tracker.lock,
            !.error = [start |-> r.tracker.start, lock |-> r.tracker.lock]]
Measured(r) ==
  [r EXCEPT !.ambiguity = r.tracker.start,
            !.error = [start |-> r.tracker.start, lock |-> r.tracker.lock]]

MeasureFails(r) == r.error.start = r.tracker.start /\ r.tracker.lock < r.error.lock

(* One signal through one epoch of update_tracking_and_measurements.  With *)
(* no geometry the loop goes on to the next signal and leaves this one as  *)
(* it was.                                                                 *)
Conditions == {"NoGeometry", "Hidden", "Visible"}

SignalAvailable(sc, condition) == sc.signal /\ condition = "Visible"

UpdatedTracking(r, available, now, ready, delay) ==
  [AfterSchedule(r, available, now, ready, delay)
     EXCEPT !.tracker = UpdateTracker(@, now, available)]

SignalEpoch(r, sc, condition, now, ready, delay) ==
  LET u == UpdatedTracking(r, SignalAvailable(sc, condition), now, ready, delay)
  IN  IF condition = "NoGeometry" THEN r
      ELSE IF u.tracker.phase = "Tracking" THEN Measured(u) ELSE DropLock(u)

SignalEpochFails(r, sc, condition, now, ready, delay) ==
  LET available == SignalAvailable(sc, condition)
      a == AfterSchedule(r, available, now, ready, delay)
      u == UpdatedTracking(r, available, now, ready, delay)
  IN  /\ condition # "NoGeometry"
      /\ \/ NeedsSchedule(r, available) /\ ScheduleFails(now, SearchReady(r, now, ready))
         \/ UpdateFails(a.tracker, now, available)
         \/ u.tracker.phase = "Tracking" /\ MeasureFails(u)

Observation(r) ==
  [lock |-> r.tracker.lock, psr |-> r.tracker.psr, doppler |-> r.tracker.doppler,
   adr |-> r.tracker.adr, ambiguity |-> r.ambiguity]

-----------------------------------------------------------------------------
(* The solution and the BESTPOS fix.                                       *)

NoPosition == [valid |-> FALSE, used |-> 0]
Positions  == [valid : BOOLEAN, used : 0 .. Cardinality(Signals)]

(* What RTKLIB may return: a position needs enough pseudoranges, and may   *)
(* still be refused (no ephemeris, residuals).                             *)
RtklibPositions(o) ==
  LET usable == Cardinality({s \in DOMAIN o : o[s].psr})
  IN  {NoPosition} \cup
      {[valid |-> TRUE, used |-> n] : n \in RequiredSatellites .. usable}

(* reset_solution_engine_state forgets the position hint. *)
ResetHint(h) == FALSE

NoRtk == [active |-> FALSE, since |-> None, fixed |-> FALSE]
RtkStates == [active : BOOLEAN, since : Nat \cup {None}, fixed : BOOLEAN]

Qualifying(p) == p.valid /\ p.used >= MinUsedSatellites

UpdateRtkMutant(k, p, now) ==
  CASE ~Qualifying(p) -> [k EXCEPT !.fixed = FALSE]
    [] Qualifying(p) /\ k.fixed -> k
    [] Qualifying(p) /\ ~k.fixed /\ ~k.active ->
         [active |-> TRUE, since |-> now, fixed |-> StableDuration = 0]
    [] Qualifying(p) /\ ~k.fixed /\ k.active ->
         [k EXCEPT !.fixed = now - k.since >= StableDuration]
UpdateRtk(k, p, now) ==
  CASE ~Qualifying(p) -> NoRtk
    [] Qualifying(p) /\ k.fixed -> k
    [] Qualifying(p) /\ ~k.fixed /\ ~k.active ->
         [active |-> TRUE, since |-> now, fixed |-> StableDuration = 0]
    [] Qualifying(p) /\ ~k.fixed /\ k.active ->
         [k EXCEPT !.fixed = now - k.since >= StableDuration]

(* update_bestpos_rtk_state refuses a clock that runs backwards. *)
RtkFails(k, p, now) == Qualifying(p) /\ ~k.fixed /\ k.active /\ now < k.since

SolveReceiverEpoch(h, k, now) ==
  /\ position' \in RtklibPositions(obs')
  /\ hint'     = (h \/ position'.valid)
  /\ velocity' \in {v \in BOOLEAN : v => hint' /\ \E s \in DOMAIN obs' : obs'[s].doppler}
  /\ rtk'      = UpdateRtk(k, position', now)

-----------------------------------------------------------------------------
Init ==
  /\ config \in Scenarios
  /\ epoch = 0
  /\ engine = NewEngine
  /\ events = [powerOn |-> 0, powerOff |-> 0, signalOn |-> 0, signalOff |-> 0]
  /\ startupReady = 0
  /\ runtime = [s \in Signals |-> PowerOnRuntime(0)]
  /\ obs = [s \in {} |-> None]
  /\ hint = FALSE
  /\ position = NoPosition
  /\ velocity = FALSE
  /\ rtk = NoRtk
  /\ failed = FALSE
  /\ seen = {}
  /\ onSince = [s \in Signals |-> None]
  /\ lastAdr = [s \in Signals |-> [ambiguity |-> None, lost |-> FALSE]]
  /\ qualSince = None
  /\ fixedSinceOn = FALSE

(* update_scenario_engine and the transition counters of the loop.         *)
BeginEpoch(sc) ==
  /\ epoch < MaxEpochs
  /\ ~failed
  /\ epoch'  = epoch + 1
  /\ engine' = Remember(sc)
  /\ events' = [powerOn   |-> events.powerOn   + (IF PowerOn(engine, sc)   THEN 1 ELSE 0),
                powerOff  |-> events.powerOff  + (IF PowerOff(engine, sc)  THEN 1 ELSE 0),
                signalOn  |-> events.signalOn  + (IF SignalOn(engine, sc)  THEN 1 ELSE 0),
                signalOff |-> events.signalOff + (IF SignalOff(engine, sc) THEN 1 ELSE 0)]
  /\ UNCHANGED config

(* The history of an epoch in which the receiver is powered.               *)
RememberPowered(sc, condition, powerOn) ==
  /\ onSince' = [s \in Signals |->
       IF ~sc.signal \/ condition[s] = "Hidden" THEN None
       ELSE IF condition[s] = "NoGeometry" THEN (IF powerOn THEN None ELSE onSince[s])
       ELSE IF powerOn \/ onSince[s] = None THEN Now ELSE onSince[s]]
  /\ seen' = {s \in Signals : condition[s] # "NoGeometry"}
  /\ lastAdr' = [s \in Signals |->
       IF s \in DOMAIN obs' /\ obs'[s].adr
         THEN [ambiguity |-> obs'[s].ambiguity, lost |-> FALSE]
         ELSE [lastAdr[s] EXCEPT !.lost = @ \/ onSince'[s] = None]]
  /\ qualSince' = IF ~Qualifying(position') THEN None
                  ELSE IF qualSince = None THEN Now ELSE qualSince
  /\ fixedSinceOn' = ((~powerOn /\ fixedSinceOn) \/ position'.valid)

(* The rest of a powered epoch, on the state the transitions left.         *)
PoweredEpoch(sc, base, ready, h, k) ==
  \E condition \in [Signals -> Conditions], delay \in [Signals -> AcquisitionDelays] :
    /\ \A s \in Signals : ~NeedsSchedule(base[s], SignalAvailable(sc, condition[s]))
                            => delay[s] = CHOOSE d \in AcquisitionDelays : TRUE
    /\ runtime' = [s \in Signals |->
                     SignalEpoch(base[s], sc, condition[s], Now, ready, delay[s])]
    /\ obs' = [s \in {z \in Signals : /\ condition[z] # "NoGeometry"
                                      /\ runtime'[z].tracker.phase = "Tracking"}
                 |-> Observation(runtime'[s])]
    /\ SolveReceiverEpoch(h, k, Now)
    /\ failed' = \/ \E s \in Signals :
                      SignalEpochFails(base[s], sc, condition[s], Now, ready, delay[s])
                 \/ RtkFails(k, position', Now)
    /\ RememberPowered(sc, condition, PowerOn(engine, sc))

(* receiver_power_on, then the epoch. *)
PowerOnEpoch ==
  LET sc == ScenarioAt(config, Now) IN
  /\ BeginEpoch(sc)
  /\ PowerOn(engine, sc)
  /\ \E d \in StartupDelays : startupReady' = Now + d
  /\ PoweredEpoch(sc, [s \in Signals |-> PowerOnRuntime(Now)], startupReady', ResetHint(hint), NoRtk)

(* receiver_signal_off, then the epoch: the receiver stays powered and     *)
(* keeps its position hint.                                                *)
SignalOffEpoch ==
  LET sc == ScenarioAt(config, Now) IN
  /\ BeginEpoch(sc)
  /\ sc.powered /\ SignalOff(engine, sc)
  /\ PoweredEpoch(sc, [s \in Signals |-> SignalOffRuntime(runtime[s], Now)],
                  startupReady, hint, NoRtk)
  /\ UNCHANGED startupReady

(* An epoch of a powered receiver with no transition that resets anything. *)
RunningEpoch ==
  LET sc == ScenarioAt(config, Now) IN
  /\ BeginEpoch(sc)
  /\ sc.powered /\ ~PowerOn(engine, sc) /\ ~SignalOff(engine, sc)
  /\ PoweredEpoch(sc, runtime, startupReady, hint, rtk)
  /\ UNCHANGED startupReady

(* A receiver without power measures and reports nothing.                  *)
Silent ==
  /\ obs' = [s \in {} |-> None]
  /\ position' = NoPosition
  /\ velocity' = FALSE
  /\ seen' = {}
  /\ onSince' = [s \in Signals |-> None]
  /\ lastAdr' = [s \in Signals |-> [lastAdr[s] EXCEPT !.lost = TRUE]]
  /\ qualSince' = None
  /\ fixedSinceOn' = FALSE
  /\ UNCHANGED <<startupReady, failed>>

(* receiver_power_off: ever_scheduled and the startup time are left alone, *)
(* the epoch ends here.                                                    *)
PowerOffEpoch ==
  LET sc == ScenarioAt(config, Now) IN
  /\ BeginEpoch(sc)
  /\ PowerOff(engine, sc)
  /\ runtime' = [s \in Signals |-> PowerOffRuntime(runtime[s], Now)]
  /\ hint' = ResetHint(hint)
  /\ rtk' = NoRtk
  /\ Silent

UnpoweredEpoch ==
  LET sc == ScenarioAt(config, Now) IN
  /\ BeginEpoch(sc)
  /\ ~sc.powered /\ ~PowerOff(engine, sc)
  /\ Silent
  /\ UNCHANGED <<runtime, hint, rtk>>

Next ==
  \/ PowerOnEpoch
  \/ SignalOffEpoch
  \/ RunningEpoch
  \/ PowerOffEpoch
  \/ UnpoweredEpoch

Spec == Init /\ [][Next]_vars

-----------------------------------------------------------------------------
(* Properties.                                                             *)

\* The type of every variable: times stay natural numbers, and a signal's
\* runtime is one of the records update_tracking_and_measurements produces.
TypeOK ==
  /\ config \in Scenarios
  /\ epoch \in Nat
  /\ engine \in Engines
  /\ events \in [powerOn : Nat, powerOff : Nat, signalOn : Nat, signalOff : Nat]
  /\ startupReady \in Nat
  /\ runtime \in [Signals -> Runtimes]
  /\ DOMAIN obs \subseteq Signals
  /\ hint \in BOOLEAN /\ velocity \in BOOLEAN /\ failed \in BOOLEAN
  /\ position \in Positions
  /\ rtk \in RtkStates
  /\ seen \subseteq Signals
  /\ onSince \in [Signals -> Nat \cup {None}]
  /\ lastAdr \in [Signals -> [ambiguity : Nat \cup {None}, lost : BOOLEAN]]
  /\ qualSince \in Nat \cup {None}
  /\ fixedSinceOn \in BOOLEAN

\* No legal sequence of power, signal and visibility changes makes an epoch
\* return one of its internal errors: the search is never ready before its
\* signal, an available signal is always scheduled, time never precedes a
\* tracker's state, the lock time of a lock and the BESTPOS clock never run
\* backwards.
EpochsNeverFail == ~failed

\* A tracked signal was acquired inside its current unbroken availability: no
\* lock, and so no lock time, reaches back across a loss of signal or of power.
LockWithinAvailability ==
  \A s \in Signals :
    runtime[s].tracker.phase = "Tracking" =>
      /\ onSince[s] # None
      /\ runtime[s].tracker.start >= onSince[s]

\* A signal that stays available for the longest startup and acquisition
\* delays and the ADR delay is tracked with a valid carrier phase: however
\* the cycles cut its acquisition short before, it always recovers.
RecoversInTime ==
  \A s \in seen :
    /\ onSince[s] # None
    /\ \A u \in StartupDelays, a \in AcquisitionDelays :
         Now - Interval - onSince[s] >= u + a + AdrValidDelay
    => s \in DOMAIN obs /\ obs[s].adr

\* Between two reported carrier phases of a signal the ambiguity is the same
\* if the signal was not lost between them, and belongs to another lock (its
\* ambiguity epoch differs, though by chance not its cycles) if it was.
AmbiguityIdentifiesLock ==
  [][\A s \in Signals :
       s \in DOMAIN obs' /\ obs'[s].adr /\ lastAdr[s].ambiguity # None =>
         (obs'[s].ambiguity = lastAdr[s].ambiguity <=> ~lastAdr[s].lost)]_vars

\* The BESTPOS fix holds exactly when every epoch of the last StableDuration
\* qualified, with no signal-off or power cycle inside; and a velocity is only
\* reported once a position was computed since power-on, because the hint it is
\* linearised at survives signal outages but no power cycle.
FixIsEarned ==
  /\ rtk.fixed <=> qualSince # None /\ Now - Interval - qualSince >= StableDuration
  /\ velocity => fixedSinceOn

Locks == INSTANCE SignalLocks WITH trackers <- [s \in Signals |-> LockOf(runtime[s].tracker)]

\* The trackers are what process_receiver_nav takes them for: whatever the
\* cycles and the geometry do, a signal that is searched for has one planned time
\* before which it never locks, a lock never moves, and every interruption
\* ends both before the signal is searched for again.
LocksServeNavigation == Locks!LocksSpec

\* STARTUP_RECOVERY_MODEL.md, section 4: a signal is usable only after the
\* startup common delay (plus acquisition and measurement delays).
NothingUsableBeforeStartup ==
  \A s \in DOMAIN obs : obs[s].psr => Now - Interval >= startupReady
===============================================================================

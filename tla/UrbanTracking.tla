---------------------------- MODULE UrbanTracking ----------------------------
(***************************************************************************)
(* The epoch loop of a multipath run, for one signal: power and signal     *)
(* cycles, the urban tracker, the environmental carrier phase and what the *)
(* receiver reports of them.                                               *)
(*                                                                         *)
(* Of the environment each epoch brings either no geometry at all, a       *)
(* signal below the mask or unhealthy, or a visible signal with the roots  *)
(* of its code discriminator and a direct or a blocked line of sight.      *)
(***************************************************************************)
EXTENDS ScenarioEngine, UrbanSignalTracker, UrbanCarrierTemporal

CONSTANTS
  Interval,           (* the sampling interval                              *)
  StartupDelays,      (* common startup plus search uncertainty             *)
  AcquisitionDelays,  (* sampled acquisition or reacquisition delays        *)
  Environments,       (* what a visible signal meets: [roots, los]          *)
  MaxEpochs           (* bounds the model                                   *)

ASSUME UrbanLoopAssumption ==
  /\ Interval \in Nat \ {0}
  /\ StartupDelays \subseteq Nat
  /\ AcquisitionDelays \subseteq Nat
  /\ \A e \in Environments : e.roots \in Seq(Roots) /\ e.los \in BOOLEAN
  /\ MaxEpochs \in Nat

VARIABLES
  config,        (* the scenario of this run                                *)
  epoch,         (* index of the next epoch                                 *)
  engine,        (* the scenario engine                                     *)
  startupReady,  (* startup_search_ready_time                               *)
  tracker,       (* the signal's tracker                                    *)
  ever,          (* ever_scheduled                                          *)
  temporal,      (* the environmental carrier phase                         *)
  result,        (* UrbanCarrierTemporalResult of the last epoch            *)
  obs,           (* the flags of the measurement last reported              *)
  failed,        (* an epoch returned an error                              *)
  \* History, read by the properties only:
  input,         (* what the last epoch met                                 *)
  goodSince,     (* first epoch of the current run of acquirable power      *)
  lowSince,      (* first epoch of the current run of low power in a lock   *)
  steadySince,   (* first epoch of the current run of one strong input      *)
  lockedBefore   (* a lock was lost since power-on                          *)

history == <<input, goodSince, lowSince, steadySince, lockedBefore>>
vars == <<config, epoch, engine, startupReady, tracker, ever, temporal, result,
          obs, failed, history>>

Now == epoch * Interval
LastTime == Now - Interval

(* From a signal's schedule to its earliest lock: the acquisition delay,   *)
(* and what is left of the startup.                                        *)
LockDelays == UNION {a .. (u + a) : u \in StartupDelays, a \in AcquisitionDelays}

NoObservation == [psr |-> FALSE, doppler |-> FALSE, adr |-> FALSE,
                  ambiguity |-> NoTime, segment |-> NoTime]

Inputs ==
  {[kind |-> k, roots |-> << >>, los |-> FALSE] : k \in {"NoGeometry", "Hidden"}} \cup
  {[kind |-> "Visible", roots |-> e.roots, los |-> e.los] : e \in Environments}
NoInput == [kind |-> "NoGeometry", roots |-> << >>, los |-> FALSE]

-----------------------------------------------------------------------------
StartupContext ==
  CASE ScenarioStartupMode(config) = "HOT"  -> "Hot"
    [] ScenarioStartupMode(config) = "WARM" -> "Warm"
    [] ScenarioStartupMode(config) = "COLD" -> "Cold"

ContextOf(scheduledBefore) == IF scheduledBefore THEN "Reacquisition" ELSE StartupContext

SearchReady(scheduledBefore, ready) ==
  IF ~scheduledBefore /\ ready > Now THEN ready ELSE Now

(* The signal is scheduled before it is updated: a signal that lost its    *)
(* lock in the last epoch is given its reacquisition delay here.           *)
ScheduledOnce(t, scheduledBefore, available, ready, delay) ==
  IF available /\ ~scheduledBefore
    THEN ScheduleUrbanAcquisition(t, ContextOf(scheduledBefore), Now,
                                  SearchReady(scheduledBefore, ready), delay)
    ELSE t
ScheduledUnlessPending(t, scheduledBefore, available, ready, delay) ==
  IF available /\ ~t.scheduled /\ ~t.pending
    THEN ScheduleUrbanAcquisition(t, ContextOf(scheduledBefore), Now,
                                  SearchReady(scheduledBefore, ready), delay)
    ELSE t
Scheduled(t, scheduledBefore, available, ready, delay) ==
  IF available /\ ~t.scheduled
    THEN ScheduleUrbanAcquisition(t, ContextOf(scheduledBefore), Now,
                                  SearchReady(scheduledBefore, ready), delay)
    ELSE t

EpochOf(t) ==
  [phasor |-> Tracked(t) /\ t.current.stable, psr |-> t.psr, doppler |-> t.doppler,
   adr |-> t.adr, lock |-> t.lock, reacquired |-> t.reacquired]

(* One measurement per tracked signal; the ambiguity is that of the lock.  *)
Measurement(t, r) ==
  [ApplyUrbanEffects([psr |-> t.psr, doppler |-> t.doppler, adr |-> t.adr,
                      ambiguity |-> t.start, segment |-> NoTime], EpochOf(t), r)
     EXCEPT !.segment = r.segment]

(* The branch of update_tracking_and_measurements for one signal, on the   *)
(* state the transitions of the epoch left.                                *)
SignalEpoch(sc, t, scheduledBefore, tm, ready) ==
  \E i \in Inputs, delay \in AcquisitionDelays :
    LET available == sc.signal /\ i.kind = "Visible"
        s == Scheduled(t, scheduledBefore, available, ready, delay)
        u == UpdateUrbanTracker(s, Now, available, i.roots, i.los)
        e == EpochOf(u)
        r == TemporalResult(tm, e, Now)
    IN  /\ input' = i
        /\ IF i.kind = "NoGeometry"
             THEN /\ tracker' = t /\ ever' = scheduledBefore /\ temporal' = tm
                  /\ result' = NoResult /\ obs' = NoObservation
                  /\ failed' = FALSE
             ELSE /\ tracker' = u
                  /\ ever' = (scheduledBefore \/ (available /\ ~t.scheduled))
                  /\ temporal' = UpdateTemporal(tm, e, Now)
                  /\ result' = r
                  /\ obs' = IF Tracked(u) THEN Measurement(u, r) ELSE NoObservation
                  /\ failed' = \/ UrbanUpdateFails(s, Now, available, i.roots, i.los)
                               \/ TemporalFails(tm, e, Now)
                               \/ Tracked(u) /\ EffectsFail(e, r)

Since(value, condition) == IF ~condition THEN Never ELSE IF value = Never THEN Now ELSE value

(* The history of a powered epoch, from its input alone: an epoch without  *)
(* geometry is not seen, and a power cycle starts anew.                    *)
RememberPowered(sc, powerOn) ==
  LET visible == sc.signal /\ input'.kind = "Visible"
      cn0 == EffectiveCn0(tracker, input'.roots)
      steady == visible /\ input'.roots = input.roots /\ cn0 >= AcquisitionCn0
      unseen == input'.kind = "NoGeometry" /\ ~powerOn
  IN  /\ goodSince' = IF unseen THEN goodSince
                      ELSE Since(IF powerOn THEN Never ELSE goodSince,
                                 visible /\ HasStableRoot(input'.roots)
                                         /\ EffectiveCn0(tracker, input'.roots) >= AcquisitionCn0)
      /\ lowSince' = IF unseen THEN lowSince
                     ELSE Since(lowSince, Tracked(tracker') /\ Tracked(tracker) /\ ~powerOn
                                          /\ cn0 < MinTrackingCn0)
      /\ steadySince' = Since(IF powerOn THEN Never ELSE steadySince, steady)
      /\ lockedBefore' = (~powerOn /\ (lockedBefore \/ (Tracked(tracker) /\ ~Tracked(tracker'))))

-----------------------------------------------------------------------------
Init ==
  /\ config \in Scenarios
  /\ epoch = 0
  /\ engine = NewEngine
  /\ startupReady = 0
  /\ tracker = ResetUrbanTracker(0)
  /\ ever = FALSE
  /\ temporal = FreshTemporal
  /\ result = NoResult
  /\ obs = NoObservation
  /\ failed = FALSE
  /\ input = NoInput
  /\ goodSince = Never /\ lowSince = Never /\ steadySince = Never
  /\ lockedBefore = FALSE

BeginEpoch(sc) ==
  /\ epoch < MaxEpochs
  /\ ~failed
  /\ epoch' = epoch + 1
  /\ engine' = Remember(sc)
  /\ UNCHANGED config

(* receiver_power_on, then the epoch.                                      *)
PowerOnEpoch ==
  LET sc == ScenarioAt(config, Now) IN
  /\ BeginEpoch(sc)
  /\ PowerOn(engine, sc)
  /\ \E d \in StartupDelays : startupReady' = Now + d
  /\ SignalEpoch(sc, ResetUrbanTracker(Now), FALSE, FreshTemporal, startupReady')
  /\ RememberPowered(sc, TRUE)

(* receiver_signal_off uses the open-sky update, which knows nothing of    *)
(* the overlay; then the epoch.                                            *)
SignalOffEpoch ==
  LET sc == ScenarioAt(config, Now) IN
  /\ BeginEpoch(sc)
  /\ sc.powered /\ SignalOff(engine, sc)
  /\ SignalEpoch(sc, SignalLost(tracker, Now), ever, FreshTemporal, startupReady)
  /\ RememberPowered(sc, FALSE)
  /\ UNCHANGED startupReady

RunningEpoch ==
  LET sc == ScenarioAt(config, Now) IN
  /\ BeginEpoch(sc)
  /\ sc.powered /\ ~PowerOn(engine, sc) /\ ~SignalOff(engine, sc)
  /\ SignalEpoch(sc, tracker, ever, temporal, startupReady)
  /\ RememberPowered(sc, FALSE)
  /\ UNCHANGED startupReady

Silent ==
  /\ result' = NoResult /\ obs' = NoObservation
  /\ input' = NoInput
  /\ goodSince' = Never /\ lowSince' = Never /\ steadySince' = Never
  /\ lockedBefore' = FALSE
  /\ UNCHANGED <<startupReady, ever, failed>>

PowerOffEpoch ==
  LET sc == ScenarioAt(config, Now) IN
  /\ BeginEpoch(sc)
  /\ PowerOff(engine, sc)
  /\ tracker' = ResetUrbanTracker(Now)
  /\ temporal' = FreshTemporal
  /\ Silent

UnpoweredEpoch ==
  LET sc == ScenarioAt(config, Now) IN
  /\ BeginEpoch(sc)
  /\ ~sc.powered /\ ~PowerOff(engine, sc)
  /\ Silent
  /\ UNCHANGED <<tracker, temporal>>

Next ==
  \/ PowerOnEpoch
  \/ SignalOffEpoch
  \/ RunningEpoch
  \/ PowerOffEpoch
  \/ UnpoweredEpoch

Spec == Init /\ [][Next]_vars

-----------------------------------------------------------------------------
(* Properties.                                                             *)

FollowedRoots == {r \in Roots : r.stable} \cup {NoRoot}
UrbanTrackers ==
  [phase : Phases, context : Contexts, scheduled : BOOLEAN,
   since : Nat, ready : Nat, start : Nat, lock : Nat,
   psr : BOOLEAN, doppler : BOOLEAN, adr : BOOLEAN,
   urban : UrbanStates, reason : LossReasons, above : Nat \cup {Never}, below : Nat \cup {Never},
   previous : FollowedRoots, current : FollowedRoots, pending : BOOLEAN, reacquired : BOOLEAN]

\* The type of every variable; the roots a tracker follows are stable ones.
TypeOK ==
  /\ config \in Scenarios
  /\ epoch \in Nat /\ startupReady \in Nat
  /\ engine \in Engines
  /\ tracker \in UrbanTrackers
  /\ ever \in BOOLEAN /\ failed \in BOOLEAN /\ lockedBefore \in BOOLEAN
  /\ temporal \in Temporals
  /\ result \in TemporalResults
  /\ obs \in [psr : BOOLEAN, doppler : BOOLEAN, adr : BOOLEAN,
              ambiguity : Nat \cup {NoTime}, segment : Nat \cup {NoTime}]
  /\ input \in Inputs
  /\ {goodSince, lowSince, steadySince} \subseteq Nat \cup {Never}

\* No sequence of power cycles, outages, lost roots and missing geometry makes
\* an epoch return one of its internal errors: an available signal is always
\* scheduled, the root the epoch selects is the one the tracker follows, and
\* the measurement never contradicts the carrier phase's state.
UrbanEpochsNeverFail == ~failed

\* The environmental carrier phase has one segment per lock: within a lock,
\* which keeps its ambiguity, the phase is never restarted, no segment
\* reaches back into an earlier lock, and what is reported is of one lock.
SegmentIsLock ==
  /\ temporal.active <=> Tracked(tracker)
  /\ temporal.active => temporal.segment = tracker.start
  /\ obs.adr => obs.segment = obs.ambiguity /\ obs.segment < LastTime

\* Once a lock was lost since power-on, the first epoch of every later lock
\* is reported as a cycle slip, whatever ended the earlier one.
SlipsReported ==
  [][result'.lock /\ ~result'.rate /\ lockedBefore => result'.slip]_vars

\* A lock is entered only after the power stayed acquirable for the whole
\* persistence, in every epoch that was seen.
LockIsEarned ==
  [][~Tracked(tracker) /\ Tracked(tracker') =>
       goodSince' # Never /\ Now - goodSince' >= AcquisitionPersistence]_vars

\* A lock never outlives the persistence of low power, and a tracker with its
\* signal on is never left without a true reason for the lock it lost.
LossIsExplained ==
  [][Tracked(tracker) /\ ~Tracked(tracker') /\ engine'.powered /\ engine'.signal =>
       CASE tracker'.reason = "SignalUnavailable" -> input'.kind = "Hidden"
         [] tracker'.reason = "NoStableDllRoot"   -> ~HasStableRoot(input'.roots)
         [] tracker'.reason = "LowCn0" ->
              /\ EffectiveCn0(tracker, input'.roots) < MinTrackingCn0
              /\ LossPersistence > 0 =>
                   lowSince # Never /\ Now - lowSince >= LossPersistence
         [] tracker'.reason = "AbruptDllRootSwitch" ->
              /\ HasStableRoot(input'.roots)
              /\ \A k \in DOMAIN input'.roots :
                   input'.roots[k].stable =>
                     Distance(input'.roots[k].phase, tracker.previous.phase) > RootJump
         [] OTHER -> FALSE]_vars

\* While a lock holds, its power was not low for the whole loss persistence
\* (an epoch without geometry says nothing of the power and ends no lock).
LowPowerEndsLock ==
  Tracked(tracker) /\ lowSince # Never /\ input.kind # "NoGeometry" =>
    LastTime - lowSince < LossPersistence

\* A strong signal with steady roots is tracked within its startup, its
\* longest acquisition and the acquisition persistence, and one epoch: lost
\* locks, outages and gaps before never leave the tracker stuck.
SteadySignalIsTracked ==
  steadySince # Never /\
  (\A u \in StartupDelays, a \in AcquisitionDelays :
     LastTime - steadySince >= u + a + AcquisitionPersistence + Interval)
    => Tracked(tracker)

Locks ==
  INSTANCE SignalLocks WITH Signals <- {"signal"}, trackers <- [s \in {"signal"} |-> LockOf(tracker)]

\* The urban tracker, too, is what process_receiver_nav takes it for: a lock that
\* power, roots or an outage ended is searched for again before it is
\* tracked, never earlier than planned, and no lock moves while it holds.
LocksServeNavigation == Locks!LocksSpec

\* URBAN_SIGNAL_TRACKING.md: the reason of a loss of lock is retained as one
\* of LOW_CN0, NO_STABLE_DLL_ROOT, ABRUPT_DLL_ROOT_SWITCH or
\* SIGNAL_UNAVAILABLE.
LossReasonRetained ==
  [][Tracked(tracker) /\ ~Tracked(tracker') /\ engine'.powered /\ input'.kind # "NoGeometry" =>
       tracker'.reason # "None"]_vars
===============================================================================

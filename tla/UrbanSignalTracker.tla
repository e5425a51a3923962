-------------------------- MODULE UrbanSignalTracker --------------------------
(***************************************************************************)
(* The tracker of one signal when multipath is on: the clock no longer     *)
(* suffices, a lock also needs signal power and a stable root of the code  *)
(* discriminator, and is lost when either goes.                            *)
(*                                                                         *)
(* The record is SignalTracker's with an overlay.  has_tracking_lock is    *)
(* always assigned together with the phase and is phase = "Tracking"; a    *)
(* threshold's `since` is only read while its flag is set, so the flag and *)
(* the time are one field.  The effective C/N0 follows from the prompt     *)
(* power of the selected root and is counted on the same scale.            *)
(***************************************************************************)
EXTENDS SignalTracker, CodeTrackingDll

CONSTANTS
  MinTrackingCn0,          (* minimum_tracking_cn0_dbhz                     *)
  AcquisitionCn0,          (* acquisition_cn0_threshold_dbhz                *)
  AcquisitionPersistence,  (* acquisition_cn0_persistence_ns                *)
  LossPersistence,         (* tracking_loss_cn0_persistence_ns              *)
  RootJump,                (* dll_root_jump_threshold_chips                 *)
  OpenCn0,                 (* the open-sky C/N0                             *)
  Cn0Delta,                (* los_multipath_cn0_delta_db                    *)
  CodeBias                 (* los_multipath_code_bias_chips                 *)

ASSUME UrbanTrackingAssumption ==
  /\ {MinTrackingCn0, AcquisitionCn0, OpenCn0} \subseteq Nat
  /\ MinTrackingCn0 < AcquisitionCn0
  /\ {AcquisitionPersistence, LossPersistence, Cn0Delta, CodeBias} \subseteq Nat
  /\ RootJump \in Nat \ {0}

UrbanStates == {"Los", "LosMultipath", "NlosTracked", "Blocked"}
LossReasons == {"None", "SignalUnavailable", "LowCn0", "NoStableDllRoot", "AbruptDllRootSwitch"}

Never == -1

(* reset_signal_tracker and reset_urban_tracking_overlay *)
ResetUrbanTracker(now) ==
  [phase |-> "SignalOff", context |-> "Hot", scheduled |-> FALSE,
   since |-> now, ready |-> now, start |-> now, lock |-> 0,
   psr |-> FALSE, doppler |-> FALSE, adr |-> FALSE,
   urban |-> "Blocked", reason |-> "None", above |-> Never, below |-> Never,
   previous |-> NoRoot, current |-> NoRoot, pending |-> FALSE, reacquired |-> FALSE]

ScheduleUrbanAcquisition(t, context, now, ready, delay) ==
  [ScheduleAcquisition(t, context, now, ready, delay) EXCEPT
     !.above = Never, !.below = Never, !.previous = NoRoot, !.current = NoRoot,
     !.pending = FALSE, !.reacquired = FALSE]

Tracked(t) == t.phase = "Tracking"

(* No stable root means no power: the code's minus infinity. *)
NoPower == -1
ModeOf(t) == IF Tracked(t) THEN "TRACKED" ELSE "ACQUISITION"
Preselected(t, roots) ==
  LET i == SelectRoot(roots, ModeOf(t), IF Tracked(t) THEN t.previous.phase ELSE 0)
  IN  IF i = 0 THEN NoRoot ELSE roots[i]
EffectiveCn0(t, roots) ==
  IF HasStableRoot(roots) THEN Preselected(t, roots).power ELSE NoPower

-----------------------------------------------------------------------------
(* update_direct_classification                                            *)
Classified(t, los, cn0) ==
  [t EXCEPT !.urban =
     CASE ~los /\ Tracked(t)  -> "NlosTracked"
       [] ~los /\ ~Tracked(t) -> "Blocked"
       [] los -> IF \/ Distance(cn0, OpenCn0) >= Cn0Delta
                    \/ Distance(t.current.phase, 0) >= CodeBias
                 THEN "LosMultipath" ELSE "Los"]

ClearMeasurementValidity(t) ==
  [t EXCEPT !.lock = 0, !.psr = FALSE, !.doppler = FALSE, !.adr = FALSE]

BeginTrackingLoss(t, now, reason) ==
  [ClearMeasurementValidity(t) EXCEPT
     !.phase = "Searching", !.context = "Reacquisition", !.since = now, !.ready = now,
     !.scheduled = FALSE, !.pending = TRUE, !.reacquired = FALSE, !.reason = reason,
     !.above = Never, !.below = Never, !.previous = NoRoot, !.current = NoRoot]

(* A lock starts at the epoch that found it, whatever its planned start;   *)
(* its measurements are valid from the next epoch on at the earliest.      *)
EnterTracking(t, now, root) ==
  [ClearMeasurementValidity(t) EXCEPT
     !.phase = "Tracking", !.since = now, !.start = now,
     !.reacquired = (t.context = "Reacquisition"), !.pending = FALSE,
     !.above = Never, !.below = Never, !.previous = root, !.current = root]

(* update_acquisition_qualification                                        *)
QualifiedMutant(t, now, cn0) ==
  IF cn0 < AcquisitionCn0 THEN t ELSE [t EXCEPT !.above = IF @ = Never THEN now ELSE @]
Qualified(t, now, cn0) ==
  [t EXCEPT !.above = IF cn0 < AcquisitionCn0 THEN Never ELSE IF @ = Never THEN now ELSE @]

IsQualified(t, now) == t.above # Never /\ now - t.above >= AcquisitionPersistence

Acquire(t, now, roots) ==
  LET i == SelectRoot(roots, "ACQUISITION", 0)
      q == [Qualified(t, now, EffectiveCn0(t, roots)) EXCEPT
              !.phase = "Acquiring", !.current = IF i = 0 THEN NoRoot ELSE roots[i]]
  IN  IF IsQualified(q, now) /\ i # 0 /\ now >= t.start
        THEN EnterTracking(q, now, roots[i]) ELSE ClearMeasurementValidity(q)

KeepTracking(t, now, root) ==
  [t EXCEPT !.previous = root, !.current = root, !.lock = now - t.start,
            !.psr     = now >= t.start + PsrValidDelay,
            !.doppler = now >= t.start + DopplerValidDelay,
            !.adr     = now >= t.start + AdrValidDelay]

LowPowerMutant(t, now, cn0) ==
  [t EXCEPT !.below = IF cn0 < MinTrackingCn0 /\ @ = Never THEN now ELSE @]
LowPowerRestarted(t, now, cn0) ==
  [t EXCEPT !.below = IF cn0 >= MinTrackingCn0 THEN Never ELSE now]
LowPower(t, now, cn0) ==
  [t EXCEPT !.below = IF cn0 >= MinTrackingCn0 THEN Never ELSE IF @ = Never THEN now ELSE @]

IsLost(t, now) == t.below # Never /\ now - t.below >= LossPersistence

Jumped(t, root) == t.previous.stable /\ Distance(root.phase, t.previous.phase) > RootJump

Track(t, now, roots) ==
  LET i == SelectRoot(roots, "TRACKED", t.previous.phase)
      low == LowPower(t, now, EffectiveCn0(t, roots))
  IN  CASE i = 0 -> BeginTrackingLoss(t, now, "NoStableDllRoot")
        [] i # 0 /\ Jumped(t, roots[i]) -> BeginTrackingLoss(t, now, "AbruptDllRootSwitch")
        [] i # 0 /\ ~Jumped(t, roots[i]) ->
             IF IsLost(low, now) THEN BeginTrackingLoss(t, now, "LowCn0")
                                 ELSE KeepTracking(low, now, roots[i])

UrbanSignalGone(t, now) ==
  [ClearMeasurementValidity(t) EXCEPT
     !.phase = "SignalOff", !.since = now, !.scheduled = FALSE, !.pending = FALSE,
     !.above = Never, !.below = Never, !.previous = NoRoot, !.current = NoRoot,
     !.reason = IF Tracked(t) THEN "SignalUnavailable" ELSE @]

(***************************************************************************)
(* update_urban_signal_tracker.  A signal that is not scheduled waits      *)
(* only if it lost a lock; otherwise its update is an error.               *)
(***************************************************************************)
UrbanStep(t, now, available, roots) ==
  CASE ~available -> UrbanSignalGone(t, now)
    [] available /\ ~t.scheduled ->
         [ClearMeasurementValidity(t) EXCEPT !.phase = "Searching"]
    [] available /\ t.scheduled /\ ~Tracked(t) /\ now < t.ready ->
         [ClearMeasurementValidity(t) EXCEPT !.phase = "Searching", !.above = Never]
    [] available /\ t.scheduled /\ ~Tracked(t) /\ now >= t.ready -> Acquire(t, now, roots)
    [] available /\ t.scheduled /\ Tracked(t) -> Track(t, now, roots)

UpdateUrbanTracker(t, now, available, roots, los) ==
  LET begun == [t EXCEPT !.reacquired = FALSE, !.current = NoRoot]
  IN  Classified(UrbanStep(begun, now, available, roots), los /\ available,
                 IF available THEN EffectiveCn0(t, roots) ELSE OpenCn0)

(* update_urban_signal_epoch_from_paths compares the root it selected      *)
(* itself, from the state before, with the tracker's.                      *)
UrbanUpdateFails(t, now, available, roots, los) ==
  LET u == UpdateUrbanTracker(t, now, available, roots, los)
  IN  \/ now < t.since
      \/ available /\ ~t.scheduled /\ ~t.pending
      \/ available /\ Tracked(u) /\ (~u.current.stable \/ u.current # Preselected(t, roots))
===============================================================================

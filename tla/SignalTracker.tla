----------------------------- MODULE SignalTracker -----------------------------
(***************************************************************************)
(* The per-signal tracker: scheduled once when its signal appears, then    *)
(* driven by the clock through searching and acquiring into tracking, where*)
(* the measurements become valid one after the other.                      *)
(*                                                                         *)
(* acquisition_complete_time and tracking_start_time are assigned together *)
(* and are the one field `start`; the psr, doppler and adr valid times are *)
(* `start` plus a configured delay and are not stored.  The delay an       *)
(* acquisition takes, which the code samples from a CN0-dependent          *)
(* distribution, is a parameter.                                           *)
(***************************************************************************)
EXTENDS Integers

CONSTANTS
  PsrValidDelay, DopplerValidDelay, AdrValidDelay

(* validate_signal_tracking_model_config. *)
ASSUME ValidDelaysAssumption ==
  /\ PsrValidDelay     \in Nat
  /\ DopplerValidDelay \in Nat
  /\ AdrValidDelay     \in Nat

Phases   == {"SignalOff", "Searching", "Acquiring", "Tracking"}
Contexts == {"Hot", "Warm", "Cold", "Reacquisition"}

Trackers ==
  [phase : Phases, context : Contexts, scheduled : BOOLEAN,
   since : Nat, ready : Nat, start : Nat, lock : Nat,
   psr : BOOLEAN, doppler : BOOLEAN, adr : BOOLEAN]

(* clear_observation_state *)
ClearObservation(t) ==
  [t EXCEPT !.lock = 0, !.psr = FALSE, !.doppler = FALSE, !.adr = FALSE]

ResetTracker(now) ==
  [phase |-> "SignalOff", context |-> "Hot", scheduled |-> FALSE,
   since |-> now, ready |-> now, start |-> now, lock |-> 0,
   psr |-> FALSE, doppler |-> FALSE, adr |-> FALSE]

(* schedule_signal_acquisition refuses a search that would be ready before *)
(* the signal is there.                                                    *)
ScheduleFails(now, ready) == ready < now

ScheduleAcquisition(t, context, now, ready, delay) ==
  [ClearObservation(t) EXCEPT
     !.phase = "Searching", !.context = context, !.scheduled = TRUE,
     !.since = now, !.ready = ready, !.start = ready + delay]

(* update_signal_tracker refuses an available signal that was never        *)
(* scheduled, and a time before the last change of state.                  *)
UpdateFails(t, now, available) == available /\ (~t.scheduled \/ now < t.since)

SignalLostMutant(t, now) ==
  [ClearObservation(t) EXCEPT !.phase = "SignalOff", !.since = now]
SignalLost(t, now) ==
  [ClearObservation(t) EXCEPT !.phase = "SignalOff", !.since = now, !.scheduled = FALSE]

StillSearching(t) == [ClearObservation(t) EXCEPT !.phase = "Searching"]

StillAcquiring(t) ==
  [ClearObservation(t) EXCEPT
     !.phase = "Acquiring",
     !.since = IF t.phase = "Acquiring" THEN @ ELSE t.ready]

TrackSignalMutant(t, now) ==
  [t EXCEPT !.phase = "Tracking", !.since = t.start, !.lock = t.start - now]
TrackSignal(t, now) ==
  [t EXCEPT !.phase = "Tracking", !.since = t.start, !.lock = now - t.start,
            !.psr     = now >= t.start + PsrValidDelay,
            !.doppler = now >= t.start + DopplerValidDelay,
            !.adr     = now >= t.start + AdrValidDelay]

UpdateTracker(t, now, available) ==
  CASE ~available                -> SignalLost(t, now)
    [] available /\ now < t.ready -> StillSearching(t)
    [] available /\ now >= t.ready /\ now < t.start -> StillAcquiring(t)
    [] available /\ now >= t.ready /\ now >= t.start -> TrackSignal(t, now)

(* What SignalLocks tells of a tracker.                                    *)
LockOf(t) ==
  [phase |-> CASE ~t.scheduled -> "SignalOff"
               [] t.scheduled /\ t.phase = "Tracking" -> "Tracking"
               [] t.scheduled /\ t.phase # "Tracking" -> "Searching",
   start |-> IF t.scheduled THEN t.start ELSE -1]
===============================================================================

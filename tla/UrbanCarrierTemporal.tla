------------------------- MODULE UrbanCarrierTemporal -------------------------
(***************************************************************************)
(* The continuity of the environmental carrier phase: the phase of the     *)
(* tracked composite correlation is unwrapped from epoch to epoch within a *)
(* segment, and restarts with a new one.                                   *)
(*                                                                         *)
(* The phase values are left out; a segment is named by the time of its    *)
(* first epoch, and every value of a result belongs to one segment.        *)
(* `configured` is not kept: one signal's state is never given another     *)
(* signal, and its GLONASS channel is taken as constant.                   *)
(***************************************************************************)
EXTENDS Integers

NoTime == -1

Temporals == [active : BOOLEAN, ever : BOOLEAN, previous : Nat \cup {NoTime},
              segment : Nat \cup {NoTime}]
TemporalResults == [lock : BOOLEAN, adr : BOOLEAN, continuity : BOOLEAN, rate : BOOLEAN,
                    slip : BOOLEAN, segment : Nat \cup {NoTime}]

(* reset_urban_carrier_temporal_state *)
FreshTemporal == [active |-> FALSE, ever |-> FALSE, previous |-> NoTime, segment |-> NoTime]

NoResult == [lock |-> FALSE, adr |-> FALSE, continuity |-> FALSE, rate |-> FALSE,
             slip |-> FALSE, segment |-> NoTime]

(* An epoch is [phasor, adr, lock, reacquired]: whether it has a tracked   *)
(* phasor, a valid carrier phase, its lock time and reacquisition event.   *)
Interrupted(t) == [t EXCEPT !.active = FALSE]
InterruptedResult(t) == [NoResult EXCEPT !.slip = t.active]

NewSegment(t, now) == [active |-> TRUE, ever |-> TRUE, previous |-> now, segment |-> now]
NewSegmentResultMutant(t, e, now) ==
  [lock |-> TRUE, adr |-> e.adr, continuity |-> TRUE, rate |-> FALSE,
   slip |-> t.ever, segment |-> now]
NewSegmentResult(t, e, now) ==
  [lock |-> TRUE, adr |-> e.adr, continuity |-> TRUE, rate |-> FALSE,
   slip |-> e.reacquired \/ t.ever, segment |-> now]

(* A lock younger than the time since the last sample began in between.    *)
LockIsYounger(t, e, now) == e.lock < now - t.previous

StartsSegment(t, e, now) == ~t.active \/ e.reacquired \/ LockIsYounger(t, e, now)

Continued(t, now) == [t EXCEPT !.previous = now]
ContinuedResult(t, e) ==
  [lock |-> TRUE, adr |-> e.adr, continuity |-> TRUE, rate |-> TRUE,
   slip |-> FALSE, segment |-> t.segment]

UpdateTemporalMutant(t, e, now) ==
  CASE ~e.phasor -> t
    [] e.phasor /\ StartsSegment(t, e, now)  -> NewSegment(t, now)
    [] e.phasor /\ ~StartsSegment(t, e, now) -> Continued(t, now)
UpdateTemporal(t, e, now) ==
  CASE ~e.phasor -> Interrupted(t)
    [] e.phasor /\ StartsSegment(t, e, now)  -> NewSegment(t, now)
    [] e.phasor /\ ~StartsSegment(t, e, now) -> Continued(t, now)

TemporalResult(t, e, now) ==
  CASE ~e.phasor -> InterruptedResult(t)
    [] e.phasor /\ StartsSegment(t, e, now)  -> NewSegmentResult(t, e, now)
    [] e.phasor /\ ~StartsSegment(t, e, now) -> ContinuedResult(t, e)

(* Two tracked epochs of one segment cannot have the same time.            *)
TemporalFails(t, e, now) ==
  e.phasor /\ t.active /\ ~e.reacquired /\ now <= t.previous

-----------------------------------------------------------------------------
(* apply_urban_measurement_effects: what a measurement says of itself once *)
(* the environmental terms are added, and the contradictions it refuses.   *)
ApplyUrbanEffects(observed, e, r) ==
  LET available == observed.psr /\ e.psr /\ r.lock
  IN  [observed EXCEPT
         !.psr     = available,
         !.doppler = available /\ @ /\ e.doppler /\ r.rate,
         !.adr     = available /\ @ /\ e.adr /\ r.adr]

EffectsFail(e, r) ==
  \/ r.lock # e.phasor
  \/ r.continuity /\ ~r.lock
  \/ r.rate /\ ~r.continuity
  \/ r.adr /\ ~r.continuity
===============================================================================

------------------------ MODULE ReceiverTrackingProofs ------------------------
(***************************************************************************)
(* Proofs about ReceiverTracking, for every set of signals and scenarios,  *)
(* every interval and every set of delays.                                 *)
(*                                                                         *)
(* The argument follows one signal: a tracker update, a schedule and an    *)
(* update, one epoch of one signal with its history.  The epoch of the     *)
(* whole receiver then meets what PoweredPreserves asks, whichever of the  *)
(* transitions came first.  IInv, the inductive invariant, says of each    *)
(* signal that it is scheduled exactly while it is available without a     *)
(* break, when its lock starts, and that nothing it holds is ahead of the  *)
(* clock; and of the receiver what an interruption makes it forget.        *)
(***************************************************************************)
EXTENDS ReceiverTracking, FiniteSetTheorems, TLAPS

-----------------------------------------------------------------------------
(* The tracker of one signal.                                              *)

LEMMA ClearedType ==
  ASSUME NEW t \in Trackers
  PROVE  /\ ClearObservation(t) \in Trackers
         /\ \A f \in {"phase", "context", "scheduled", "since", "ready", "start"} :
              ClearObservation(t)[f] = t[f]
BY DEF ClearObservation, Trackers

LEMMA ResetTrackerType ==
  ASSUME NEW now \in Nat
  PROVE  ResetTracker(now) \in Trackers
BY DEF ResetTracker, Trackers, Phases, Contexts

(* Scheduling: a search and a start that lie where the delays put them.    *)
SearchFacts(u, now, ready, delay) ==
  /\ u \in Trackers
  /\ u.scheduled /\ u.since = now /\ u.ready = ready /\ u.start = ready + delay

LEMMA ScheduledTracker ==
  ASSUME NEW t \in Trackers, NEW context \in Contexts,
         NEW now \in Nat, NEW ready \in Nat, NEW delay \in Nat
  PROVE  SearchFacts(ScheduleAcquisition(t, context, now, ready, delay), now, ready, delay)
<1> DEFINE c == ClearObservation(t)
<1>1. c \in Trackers
  BY ClearedType
<1>2. ready + delay \in Nat
  OBVIOUS
<1>3. QED
  BY <1>1, <1>2 DEF ScheduleAcquisition, SearchFacts, Trackers, Phases

LEMMA TrackedTracker ==
  ASSUME NEW t \in Trackers, NEW now \in Nat, now >= t.start, NEW u, u = TrackSignal(t, now)
  PROVE  /\ u \in Trackers
         /\ u.scheduled = t.scheduled /\ u.ready = t.ready /\ u.start = t.start
         /\ u.phase = "Tracking" /\ u.since = t.start /\ u.lock = now - t.start
         /\ u.adr <=> now >= t.start + AdrValidDelay
<1>1. /\ (now >= t.start + PsrValidDelay) \in BOOLEAN
      /\ (now >= t.start + DopplerValidDelay) \in BOOLEAN
      /\ (now >= t.start + AdrValidDelay) \in BOOLEAN
  OBVIOUS
<1>2. now - t.start \in Nat /\ t.start \in Nat
  BY DEF Trackers
<1>3. QED
  BY ZenonT(60), <1>1, <1>2 DEF TrackSignal, Trackers, Phases

(* One update: what it keeps, when it tracks, and what tracking tells.     *)
UpdateFacts(u, t, now, available) ==
  /\ u \in Trackers
  /\ u.ready = t.ready /\ u.start = t.start
  /\ u.scheduled <=> available /\ t.scheduled
  /\ u.phase = "Tracking" <=> available /\ now >= t.ready /\ now >= t.start
  /\ ~available => u.phase = "SignalOff"
  /\ t.since =< now => u.since =< now
  /\ u.phase = "Tracking" =>
       u.lock = now - t.start /\ (u.adr <=> now >= t.start + AdrValidDelay)

LEMMA UpdatedTracker ==
  ASSUME NEW t \in Trackers, NEW now \in Nat, NEW available \in BOOLEAN
  PROVE  UpdateFacts(UpdateTracker(t, now, available), t, now, available)
<1> SUFFICES ASSUME NEW u, u = UpdateTracker(t, now, available)
             PROVE  UpdateFacts(u, t, now, available)
  OBVIOUS
<1> USE DEF UpdateFacts
<1> DEFINE c == ClearObservation(t)
<1>1. c \in Trackers /\ c.phase = t.phase /\ c.scheduled = t.scheduled
      /\ c.since = t.since /\ c.ready = t.ready /\ c.start = t.start
  BY ClearedType
<1>2. t.ready \in Nat /\ t.start \in Nat /\ t.since \in Nat /\ t.scheduled \in BOOLEAN
  BY DEF Trackers
<1>3. CASE ~available
  <2>1. u = [c EXCEPT !.phase = "SignalOff", !.since = now, !.scheduled = FALSE]
    BY <1>3 DEF UpdateTracker, SignalLost
  <2>2. u \in Trackers /\ ~u.scheduled /\ u.since = now /\ u.phase = "SignalOff"
        /\ u.ready = c.ready /\ u.start = c.start
    BY <1>1, <2>1 DEF Trackers, Phases
  <2>3. QED
    BY <1>1, <1>2, <1>3, <2>2
<1>4. CASE available /\ now < t.ready
  <2>1. u = [c EXCEPT !.phase = "Searching"]
    BY <1>2, <1>4 DEF UpdateTracker, StillSearching
  <2>2. u \in Trackers /\ u.scheduled = c.scheduled /\ u.since = c.since /\ u.phase = "Searching"
        /\ u.ready = c.ready /\ u.start = c.start
    BY <1>1, <2>1 DEF Trackers, Phases
  <2>3. u.scheduled <=> available /\ t.scheduled
    BY <1>1, <1>4, <2>2
  <2>4. u.phase # "Tracking"
    BY <2>2
  <2>5. t.since =< now => u.since =< now
    BY <1>1, <2>2
  <2>6. ~(now >= t.ready)
    BY <1>2, <1>4
  <2>7. u.ready = t.ready /\ u.start = t.start
    BY <1>1, <2>2
  <2>8. QED
    BY <1>4, <2>2, <2>3, <2>4, <2>5, <2>6, <2>7
<1>5. CASE available /\ now >= t.ready /\ now < t.start
  <2> DEFINE since == IF t.phase = "Acquiring" THEN c.since ELSE t.ready
  <2>1. u = [c EXCEPT !.phase = "Acquiring", !.since = since]
    BY <1>2, <1>5 DEF UpdateTracker, StillAcquiring
  <2>2. since \in Nat /\ (t.since =< now => since =< now)
    BY <1>1, <1>2, <1>5
  <2>3. u \in Trackers /\ u.scheduled = c.scheduled /\ u.since = since /\ u.phase = "Acquiring"
        /\ u.ready = c.ready /\ u.start = c.start
    BY <1>1, <2>1, <2>2 DEF Trackers, Phases
  <2>4. u.scheduled <=> available /\ t.scheduled
    BY <1>1, <1>5, <2>3
  <2>5. u.phase # "Tracking" /\ (t.since =< now => u.since =< now)
    BY <2>2, <2>3
  <2>6. ~(now >= t.start)
    BY <1>2, <1>5
  <2>7. u.ready = t.ready /\ u.start = t.start
    BY <1>1, <2>3
  <2>8. QED
    BY <1>5, <2>3, <2>4, <2>5, <2>6, <2>7
<1>6. CASE available /\ now >= t.ready /\ now >= t.start
  <2>1. u = TrackSignal(t, now)
    BY <1>2, <1>6 DEF UpdateTracker
  <2>2. /\ u \in Trackers
        /\ u.scheduled = t.scheduled /\ u.ready = t.ready /\ u.start = t.start
        /\ u.phase = "Tracking" /\ u.since = t.start /\ u.lock = now - t.start
        /\ u.adr <=> now >= t.start + AdrValidDelay
    BY <1>6, <2>1, TrackedTracker
  <2>3. u.scheduled <=> available /\ t.scheduled
    BY <1>6, <2>2
  <2>4. u.since =< now
    BY <1>2, <1>6, <2>2
  <2>5. QED
    BY <1>6, <2>2, <2>3, <2>4
<1>7. QED
  BY <1>2, <1>3, <1>4, <1>5, <1>6

-----------------------------------------------------------------------------
(* One signal through one epoch.                                           *)

LEMMA StartupContextType ==
  ASSUME config \in Scenarios
  PROVE  StartupContext(config) \in Contexts
BY ScenariosAssumption DEF StartupContext, ScenarioStartupMode, StartupModes, Contexts

LEMMA SearchReadyFacts ==
  ASSUME NEW r, NEW now \in Nat, NEW ready \in Nat
  PROVE  /\ SearchReady(r, now, ready) \in Nat
         /\ SearchReady(r, now, ready) >= now
         /\ SearchReady(r, now, ready) =< now \/ SearchReady(r, now, ready) =< ready
BY DEF SearchReady

ScheduleFacts(a, r, available, now, ready, delay) ==
  /\ a \in Runtimes /\ a.error = r.error
  /\ a.tracker.scheduled <=> available \/ r.tracker.scheduled
  /\ r.tracker.since =< now => a.tracker.since =< now
  /\ NeedsSchedule(r, available) =>
       /\ a.tracker.ready = SearchReady(r, now, ready)
       /\ a.tracker.start = SearchReady(r, now, ready) + delay
  /\ ~NeedsSchedule(r, available) => a = r

LEMMA ScheduledRuntimeFacts ==
  ASSUME config \in Scenarios, NEW r \in Runtimes, NEW available \in BOOLEAN,
         NEW now \in Nat, NEW ready \in Nat, NEW delay \in Nat
  PROVE  ScheduleFacts(AfterSchedule(r, available, now, ready, delay), r, available, now, ready, delay)
<1> SUFFICES ASSUME NEW a, a = AfterSchedule(r, available, now, ready, delay)
             PROVE  ScheduleFacts(a, r, available, now, ready, delay)
  OBVIOUS
<1> USE DEF ScheduleFacts
<1>1. CASE ~NeedsSchedule(r, available)
  <2>1. a = r
    BY <1>1 DEF AfterSchedule
  <2>2. available => r.tracker.scheduled
    BY <1>1 DEF NeedsSchedule
  <2>3. QED
    BY <1>1, <2>1, <2>2
<1>2. CASE NeedsSchedule(r, available)
  <2> DEFINE sr == SearchReady(r, now, ready)
             cx == IF r.ever THEN "Reacquisition" ELSE StartupContext(config)
             u == ScheduleAcquisition(r.tracker, cx, now, sr, delay)
  <2>1. a = [r EXCEPT !.ever = TRUE, !.tracker = u]
    BY <1>2 DEF AfterSchedule, ScheduledRuntime
  <2>2. cx \in Contexts
    BY StartupContextType DEF Contexts
  <2>3. sr \in Nat
    BY SearchReadyFacts
  <2>4. r.tracker \in Trackers
    BY DEF Runtimes
  <2> HIDE DEF sr, cx
  <2>5. SearchFacts(u, now, sr, delay)
    BY <2>2, <2>3, <2>4, ScheduledTracker
  <2> HIDE DEF u
  <2>6. a \in Runtimes /\ a.error = r.error /\ a.tracker = u
    BY <2>1, <2>5 DEF Runtimes, SearchFacts
  <2>7. available
    BY <1>2 DEF NeedsSchedule
  <2>8. /\ a.tracker.scheduled
        /\ a.tracker.since =< now
        /\ a.tracker.ready = sr /\ a.tracker.start = sr + delay
    BY <2>5, <2>6 DEF SearchFacts
  <2>9. QED
    BY <1>2, <2>6, <2>7, <2>8 DEF sr
<1>3. QED
  BY <1>1, <1>2

(* What a signal with geometry is after an epoch.                          *)
EpochFacts(n, r, available, now, ready, delay) ==
  /\ n \in Runtimes
  /\ r.tracker.since =< now => n.tracker.since =< now
  /\ n.tracker.scheduled <=> available
  /\ ~available => n.tracker.phase = "SignalOff"
  /\ NeedsSchedule(r, available) =>
       /\ n.tracker.ready = SearchReady(r, now, ready)
       /\ n.tracker.start = SearchReady(r, now, ready) + delay
  /\ ~NeedsSchedule(r, available) =>
       n.tracker.ready = r.tracker.ready /\ n.tracker.start = r.tracker.start
  /\ n.tracker.phase = "Tracking" <=>
       available /\ now >= n.tracker.ready /\ now >= n.tracker.start
  /\ n.tracker.phase = "Tracking" =>
       /\ n.tracker.lock = now - n.tracker.start
       /\ n.tracker.adr <=> now >= n.tracker.start + AdrValidDelay
       /\ n.ambiguity = n.tracker.start
       /\ n.error = [start |-> n.tracker.start, lock |-> n.tracker.lock]
  /\ n.tracker.phase # "Tracking" => n.error = NoError

LEMMA SignalEpochFacts ==
  ASSUME config \in Scenarios, NEW r \in Runtimes, NEW sc, sc.signal \in BOOLEAN,
         NEW condition \in Conditions, condition # "NoGeometry",
         NEW now \in Nat, NEW ready \in Nat, NEW delay \in Nat
  PROVE  EpochFacts(SignalEpoch(r, sc, condition, now, ready, delay),
                    r, SignalAvailable(sc, condition), now, ready, delay)
<1> SUFFICES ASSUME NEW n, n = SignalEpoch(r, sc, condition, now, ready, delay),
                    NEW available, available = SignalAvailable(sc, condition)
             PROVE  EpochFacts(n, r, available, now, ready, delay)
  OBVIOUS
<1> DEFINE a == AfterSchedule(r, available, now, ready, delay)
           u == UpdateTracker(a.tracker, now, available)
<1>1. available \in BOOLEAN
  BY DEF SignalAvailable
<1>2. ScheduleFacts(a, r, available, now, ready, delay)
  BY <1>1, ScheduledRuntimeFacts
<1>3. a.tracker \in Trackers
  BY <1>2 DEF Runtimes, ScheduleFacts
<1>4. UpdateFacts(u, a.tracker, now, available)
  BY <1>1, <1>3, UpdatedTracker
<1> DEFINE v == [a EXCEPT !.tracker = u]
<1>5. v = UpdatedTracking(r, available, now, ready, delay)
  BY DEF UpdatedTracking
<1> HIDE DEF a, u
<1>6. v \in Runtimes /\ v.tracker = u
  BY <1>2, <1>4 DEF Runtimes, ScheduleFacts, UpdateFacts
<1>7. n = IF u.phase = "Tracking" THEN Measured(v) ELSE DropLock(v)
  BY <1>5, <1>6 DEF SignalEpoch
<1> HIDE DEF v
<1>8. /\ n.tracker = u
      /\ n \in Runtimes
      /\ u.phase = "Tracking" => n.ambiguity = u.start /\ n.error = [start |-> u.start, lock |-> u.lock]
      /\ u.phase # "Tracking" => n.error = NoError
  <2>1. u.start \in Nat /\ u.lock \in Nat
    BY <1>4 DEF Trackers, UpdateFacts
  <2>2. CASE u.phase = "Tracking"
    <3>1. n = [v EXCEPT !.ambiguity = u.start, !.error = [start |-> u.start, lock |-> u.lock]]
      BY <1>6, <1>7, <2>2 DEF Measured
    <3>2. [start |-> u.start, lock |-> u.lock] \in [start : Nat \cup {None}, lock : Nat \cup {None}]
      BY <2>1
    <3>3. n \in Runtimes /\ n.tracker = u
      BY <1>6, <2>1, <3>1, <3>2 DEF Runtimes
    <3>4. n.ambiguity = u.start /\ n.error = [start |-> u.start, lock |-> u.lock]
      BY <1>6, <3>1 DEF Runtimes
    <3>5. QED
      BY <2>2, <3>3, <3>4
  <2>3. CASE u.phase # "Tracking"
    <3>1. n = [v EXCEPT !.ambiguity = None, !.error = NoError]
      BY <1>7, <2>3 DEF DropLock
    <3>2. NoError \in [start : Nat \cup {None}, lock : Nat \cup {None}]
      BY DEF NoError
    <3>3. n \in Runtimes /\ n.tracker = u /\ n.error = NoError
      BY <1>6, <3>1, <3>2 DEF Runtimes
    <3>4. QED
      BY <2>3, <3>3
  <2>4. QED
    BY <2>2, <2>3
<1>9. QED
  BY <1>2, <1>4, <1>8 DEF EpochFacts, ScheduleFacts, UpdateFacts

-----------------------------------------------------------------------------
(* The inductive invariant.                                                *)

(* A signal is scheduled exactly while it is available without a break; a  *)
(* lock starts inside that time, no later than the longest delays allow;   *)
(* and neither the tracker nor the measurement error is ahead of the clock.*)
LockStart(t, since) ==
  /\ t.ready =< t.start
  /\ since =< t.start
  /\ \E u \in StartupDelays, a \in AcquisitionDelays : t.start =< since + u + a

NotAhead(r, now) ==
  /\ r.tracker.since =< now
  /\ r.error.start # None => r.error.start + r.error.lock =< now

SignalInv(r, since, now) ==
  /\ NotAhead(r, now) /\ since =< now
  /\ r.tracker.scheduled <=> since # None
  /\ r.tracker.phase = "Tracking" => r.tracker.scheduled
  /\ r.tracker.scheduled => LockStart(r.tracker, since)

(* The ambiguity last reported is that of the lock held, until it is lost; *)
(* every later lock starts after it.                                       *)
AmbiguityInv(r, last, now) ==
  last.ambiguity # None =>
    /\ last.ambiguity < now
    /\ last.lost => (r.tracker.scheduled => r.tracker.start > last.ambiguity)
    /\ ~last.lost => r.tracker.scheduled /\ r.tracker.start = last.ambiguity

Lasts == [ambiguity : Nat \cup {None}, lost : BOOLEAN]

(* What the transitions of an epoch leave of a signal: all of it, or, when *)
(* the signals are off or the receiver was, a signal that is not scheduled.*)
SignalBefore(b, since, last, signal, now) ==
  /\ NotAhead(b, now) /\ since =< now
  /\ b.tracker.scheduled => signal /\ LockStart(b.tracker, since)
  /\ signal => (b.tracker.scheduled <=> since # None)
  /\ b.tracker.phase = "Tracking" => b.tracker.scheduled
  /\ last.ambiguity # None =>
       /\ last.ambiguity < now
       /\ last.lost => (b.tracker.scheduled => b.tracker.start > last.ambiguity)
       /\ ~last.lost /\ signal => b.tracker.scheduled /\ b.tracker.start = last.ambiguity

(* No signal's epoch returns an error.                                     *)
LEMMA SignalEpochSucceeds ==
  ASSUME config \in Scenarios, NEW b \in Runtimes, NEW sc, sc.signal \in BOOLEAN,
         NEW condition \in Conditions, NEW now \in Nat, NEW ready \in Nat, NEW delay \in Nat,
         NotAhead(b, now)
  PROVE  ~SignalEpochFails(b, sc, condition, now, ready, delay)
<1> DEFINE available == SignalAvailable(sc, condition)
           a == AfterSchedule(b, available, now, ready, delay)
           t == UpdateTracker(a.tracker, now, available)
           u == UpdatedTracking(b, available, now, ready, delay)
<1>1. available \in BOOLEAN
  BY DEF SignalAvailable
<1> HIDE DEF available
<1>2. ScheduleFacts(a, b, available, now, ready, delay)
  BY <1>1, ScheduledRuntimeFacts
<1>3. a.tracker \in Trackers
  BY <1>2 DEF ScheduleFacts, Runtimes
<1>4. UpdateFacts(t, a.tracker, now, available)
  BY <1>1, <1>3, UpdatedTracker
<1>5. u = [a EXCEPT !.tracker = t]
  BY DEF UpdatedTracking
<1> HIDE DEF a, t, u
<1>6. u.tracker = t /\ u.error = b.error
  BY <1>2, <1>5 DEF ScheduleFacts, Runtimes
<1>7. ~ScheduleFails(now, SearchReady(b, now, ready))
  BY SearchReadyFacts DEF ScheduleFails
<1>8. ~UpdateFails(a.tracker, now, available)
  <2>1. available => a.tracker.scheduled
    BY <1>2 DEF ScheduleFacts
  <2>2. a.tracker.since =< now /\ a.tracker.since \in Nat
    BY <1>2, <1>3 DEF ScheduleFacts, NotAhead, Trackers
  <2>3. QED
    BY <2>1, <2>2 DEF UpdateFails
<1>9. u.tracker.phase = "Tracking" => ~MeasureFails(u)
  <2> SUFFICES ASSUME t.phase = "Tracking", b.error.start = t.start
               PROVE  ~(t.lock < b.error.lock)
    BY <1>6 DEF MeasureFails
  <2>1. t.lock = now - t.start /\ t.start \in Nat
    BY <1>3, <1>4 DEF UpdateFacts, Trackers
  <2>2. b.error.start \in Nat /\ b.error.lock \in Int
    BY <2>1 DEF Runtimes, None
  <2>3. b.error.start + b.error.lock =< now
    BY <2>2 DEF NotAhead, None
  <2>4. QED
    BY <2>1, <2>2, <2>3
<1>10. QED
  BY <1>7, <1>8, <1>9 DEF SignalEpochFails, a, u, available

(* What the history records of one signal. *)
SinceAfter(signal, condition, since, now) ==
  IF ~signal \/ condition = "Hidden" THEN None
  ELSE IF condition = "NoGeometry" \/ since # None THEN since ELSE now

LastAfter(n, condition, last, since) ==
  IF condition # "NoGeometry" /\ n.tracker.phase = "Tracking" /\ n.tracker.adr
    THEN [ambiguity |-> n.ambiguity, lost |-> FALSE]
    ELSE [last EXCEPT !.lost = @ \/ since = None]

(* What one epoch makes of a signal and its history.                       *)
SignalAfter(n, since, last, condition, now) ==
  /\ n \in Runtimes
  /\ SignalInv(n, since, now + Interval)
  /\ condition # "NoGeometry" /\ since # None /\ now >= n.tracker.start + AdrValidDelay =>
       n.tracker.phase = "Tracking" /\ n.tracker.adr

(* A signal without geometry is left as it was; one that is not available  *)
(* is off; and an available one keeps its schedule, or is given one.       *)
LEMMA SignalPreserved ==
  ASSUME config \in Scenarios,
         NEW b \in Runtimes, NEW sc, sc.signal \in BOOLEAN, NEW condition \in Conditions,
         NEW now \in Nat, NEW ready \in Nat, NEW delay \in AcquisitionDelays,
         NEW since \in Nat \cup {None}, NEW last \in Lasts,
         NEW d \in StartupDelays, ready =< now + d,
         SignalBefore(b, since, last, sc.signal, now)
  PROVE  SignalAfter(SignalEpoch(b, sc, condition, now, ready, delay),
                     SinceAfter(sc.signal, condition, since, now), last, condition, now)
<1> DEFINE n == SignalEpoch(b, sc, condition, now, ready, delay)
           since1 == SinceAfter(sc.signal, condition, since, now)
           available == SignalAvailable(sc, condition)
<1>1. Interval \in Nat /\ Interval > 0 /\ delay \in Nat /\ d \in Nat
  BY ReceiverAssumption
<1>2. /\ b.tracker.since \in Nat /\ b.tracker.start \in Nat /\ b.tracker.ready \in Nat
      /\ b.error.start \in Int /\ b.error.lock \in Int
  BY DEF Runtimes, Trackers, None
<1>3. CASE condition = "NoGeometry"
  <2>1. n = b
    BY <1>3 DEF SignalEpoch
  <2>2. since1 = IF sc.signal THEN since ELSE None
    BY <1>3 DEF SinceAfter
  <2>3. NotAhead(b, now + Interval)
    BY <1>1, <1>2 DEF SignalBefore, NotAhead
  <2>4. b.tracker.scheduled <=> since1 # None
    BY <2>2 DEF SignalBefore
  <2>5. b.tracker.scheduled => LockStart(b.tracker, since1)
    BY <2>2 DEF SignalBefore
  <2>6. since1 =< now + Interval
    BY <1>1, <2>2 DEF SignalBefore, None
  <2> HIDE DEF n, since1
  <2>7. SignalInv(b, since1, now + Interval)
    BY <2>3, <2>4, <2>5, <2>6 DEF SignalInv, SignalBefore
  <2>8. QED
    BY <1>3, <2>1, <2>7 DEF SignalAfter, n, since1
<1>4. CASE condition # "NoGeometry"
  <2>1. EpochFacts(n, b, available, now, ready, delay)
    BY <1>1, <1>4, SignalEpochFacts
  <2>2. available <=> sc.signal /\ condition = "Visible"
    BY DEF SignalAvailable
  <2>3. since1 = IF ~available THEN None ELSE IF since # None THEN since ELSE now
    BY <1>4, <2>2 DEF SinceAfter, Conditions
  <2> HIDE DEF n, since1, available
  <2>4. n \in Runtimes /\ n.tracker.start \in Nat /\ n.tracker.ready \in Nat /\ n.tracker.since \in Nat
    BY <2>1 DEF EpochFacts, Runtimes, Trackers
  <2>5. NotAhead(n, now + Interval)
    <3>1. n.tracker.since =< now + Interval
      BY <1>1, <2>1, <2>4 DEF EpochFacts, SignalBefore, NotAhead
    <3>2. n.error.start # None => n.error.start + n.error.lock =< now + Interval
      BY <1>1, <2>1, <2>4 DEF EpochFacts, NoError
    <3>3. QED
      BY <3>1, <3>2 DEF NotAhead
  <2>6. since1 =< now + Interval
    BY <1>1, <2>3 DEF SignalBefore, None
  <2>7. n.tracker.scheduled <=> since1 # None
    BY <2>1, <2>3 DEF EpochFacts, None
  <2>8. n.tracker.phase = "Tracking" => n.tracker.scheduled
    BY <2>1 DEF EpochFacts
  <2>9. ASSUME available PROVE LockStart(n.tracker, since1)
    <3>1. NeedsSchedule(b, available) <=> since = None
      BY <2>2, <2>9 DEF NeedsSchedule, SignalBefore
    <3>2. CASE since = None
      <4> DEFINE sr == SearchReady(b, now, ready)
      <4>1. n.tracker.ready = sr /\ n.tracker.start = sr + delay
        BY <2>1, <3>1, <3>2 DEF EpochFacts
      <4>2. sr \in Nat /\ sr >= now /\ sr =< now + d
        BY <1>1, SearchReadyFacts
      <4>3. since1 = now
        BY <2>3, <2>9, <3>2
      <4> HIDE DEF sr
      <4>4. n.tracker.start =< since1 + d + delay
        BY <1>1, <4>1, <4>2, <4>3
      <4>5. QED
        BY <1>1, <4>1, <4>2, <4>3, <4>4 DEF LockStart
    <3>3. CASE since # None
      <4>1. n.tracker.ready = b.tracker.ready /\ n.tracker.start = b.tracker.start
        BY <2>1, <3>1, <3>3 DEF EpochFacts
      <4>2. since1 = since /\ LockStart(b.tracker, since)
        BY <2>2, <2>3, <2>9, <3>3 DEF SignalBefore
      <4>3. QED
        BY <4>1, <4>2 DEF LockStart
    <3>4. QED
      BY <3>2, <3>3
  <2>10. SignalInv(n, since1, now + Interval)
    BY <2>1, <2>5, <2>6, <2>7, <2>8, <2>9 DEF SignalInv, EpochFacts
  <2>11. since1 # None /\ now >= n.tracker.start + AdrValidDelay =>
           n.tracker.phase = "Tracking" /\ n.tracker.adr
    <3> SUFFICES ASSUME since1 # None, now >= n.tracker.start + AdrValidDelay
                 PROVE  n.tracker.phase = "Tracking" /\ n.tracker.adr
      OBVIOUS
    <3>1. available
      BY <2>3
    <3>2. n.tracker.ready =< n.tracker.start
      BY <2>9, <3>1 DEF LockStart
    <3>3. now >= n.tracker.start /\ now >= n.tracker.ready
      BY <2>4, <3>2, ValidDelaysAssumption
    <3>4. QED
      BY <2>1, <3>1, <3>3 DEF EpochFacts
  <2>12. QED
    BY <2>4, <2>10, <2>11 DEF SignalAfter, n, since1
<1>5. QED
  BY <1>3, <1>4

(* What the same epoch makes of the ambiguity last reported, and that a    *)
(* report tells whether the signal was lost before it.                     *)
ReportAfter(n, last, after, now) ==
  /\ after \in Lasts
  /\ AmbiguityInv(n, after, now + Interval)

TellsLoss(n, condition, last) ==
  condition # "NoGeometry" /\ n.tracker.phase = "Tracking" /\ n.tracker.adr
    /\ last.ambiguity # None =>
      (n.ambiguity = last.ambiguity <=> ~last.lost)

LEMMA AmbiguityPreserved ==
  ASSUME config \in Scenarios,
         NEW b \in Runtimes, NEW sc, sc.signal \in BOOLEAN, NEW condition \in Conditions,
         NEW now \in Nat, NEW ready \in Nat, NEW delay \in AcquisitionDelays,
         NEW since \in Nat \cup {None}, NEW last \in Lasts,
         SignalBefore(b, since, last, sc.signal, now),
         NEW n, n = SignalEpoch(b, sc, condition, now, ready, delay),
         NEW since1, since1 = SinceAfter(sc.signal, condition, since, now)
  PROVE  /\ ReportAfter(n, last, LastAfter(n, condition, last, since1), now)
         /\ TellsLoss(n, condition, last)
<1> DEFINE after == LastAfter(n, condition, last, since1)
           available == SignalAvailable(sc, condition)
<1>1. Interval \in Nat /\ Interval > 0 /\ delay \in Nat
  BY ReceiverAssumption
<1>2. /\ b.tracker.start \in Nat /\ last.ambiguity \in Int /\ last.lost \in BOOLEAN
  BY DEF Runtimes, Trackers, Lasts, None
<1>3. CASE condition = "NoGeometry"
  <2>1. n = b
    BY <1>3 DEF SignalEpoch
  <2>2. since1 = IF sc.signal THEN since ELSE None
    BY <1>3 DEF SinceAfter
  <2>3. after = [last EXCEPT !.lost = @ \/ since1 = None]
    BY <1>3 DEF LastAfter
  <2> HIDE DEF after
  <2>4. after \in Lasts /\ after.ambiguity = last.ambiguity /\ (after.lost <=> last.lost \/ since1 = None)
    BY <2>3 DEF Lasts
  <2>5. AmbiguityInv(b, after, now + Interval)
    <3> SUFFICES ASSUME last.ambiguity # None
                 PROVE  /\ after.ambiguity < now + Interval
                        /\ after.lost => (b.tracker.scheduled => b.tracker.start > after.ambiguity)
                        /\ ~after.lost => b.tracker.scheduled /\ b.tracker.start = after.ambiguity
      BY <2>4 DEF AmbiguityInv
    <3>1. last.ambiguity < now
      BY DEF SignalBefore
    <3>2. b.tracker.scheduled => sc.signal /\ since # None
      BY DEF SignalBefore
    <3>3. CASE last.lost
      BY <1>1, <1>2, <2>4, <3>1, <3>3 DEF SignalBefore
    <3>4. CASE ~last.lost /\ since1 = None
      BY <1>1, <1>2, <2>2, <2>4, <3>1, <3>2, <3>4
    <3>5. CASE ~last.lost /\ since1 # None
      BY <1>1, <1>2, <2>2, <2>4, <3>1, <3>5 DEF SignalBefore
    <3>6. QED
      BY <3>3, <3>4, <3>5
  <2>6. QED
    BY <1>3, <2>1, <2>4, <2>5 DEF ReportAfter, TellsLoss, after
<1>4. CASE condition # "NoGeometry"
  <2>1. EpochFacts(n, b, available, now, ready, delay)
    BY <1>1, <1>4, SignalEpochFacts
  <2>2. available <=> sc.signal /\ condition = "Visible"
    BY DEF SignalAvailable
  <2>3. since1 # None <=> available
    BY <1>4, <2>2 DEF SinceAfter, Conditions, None
  <2>4. n.tracker.start \in Nat /\ n.tracker.ready \in Nat
    BY <2>1 DEF EpochFacts, Runtimes, Trackers
  <2> HIDE DEF available
  <2>5. ASSUME available, last.ambiguity # None
        PROVE  IF last.lost THEN n.tracker.start > last.ambiguity
                            ELSE n.tracker.start = last.ambiguity
    <3>1. NeedsSchedule(b, available) <=> ~b.tracker.scheduled
      BY <2>5 DEF NeedsSchedule
    <3>2. CASE b.tracker.scheduled
      <4>1. n.tracker.start = b.tracker.start
        BY <2>1, <3>1, <3>2 DEF EpochFacts
      <4>2. QED
        BY <2>2, <2>5, <3>2, <4>1 DEF SignalBefore
    <3>3. CASE ~b.tracker.scheduled
      <4> DEFINE sr == SearchReady(b, now, ready)
      <4>1. n.tracker.start = sr + delay
        BY <2>1, <3>1, <3>3 DEF EpochFacts
      <4>2. sr \in Nat /\ sr >= now
        BY SearchReadyFacts
      <4>3. last.lost /\ last.ambiguity < now
        BY <2>2, <2>5, <3>3 DEF SignalBefore
      <4> HIDE DEF sr
      <4>4. QED
        BY <1>1, <1>2, <4>1, <4>2, <4>3
    <3>4. QED
      BY <3>2, <3>3
  <2>6. n.tracker.scheduled <=> available
    BY <2>1 DEF EpochFacts
  <2>7. CASE n.tracker.phase = "Tracking" /\ n.tracker.adr
    <3>1. after = [ambiguity |-> n.ambiguity, lost |-> FALSE]
      BY <1>4, <2>7 DEF LastAfter
    <3>2. n.ambiguity = n.tracker.start /\ n.tracker.start =< now /\ available
      BY <2>1, <2>7 DEF EpochFacts
    <3> HIDE DEF after
    <3>3. after \in Lasts /\ after.ambiguity = n.tracker.start /\ ~after.lost
      BY <2>4, <3>1, <3>2 DEF Lasts
    <3>4. AmbiguityInv(n, after, now + Interval)
      BY <1>1, <2>4, <2>6, <3>2, <3>3 DEF AmbiguityInv
    <3>5. TellsLoss(n, condition, last)
      BY <1>2, <2>4, <2>5, <3>2 DEF TellsLoss
    <3>6. QED
      BY <3>3, <3>4, <3>5 DEF ReportAfter, after
  <2>8. CASE ~(n.tracker.phase = "Tracking" /\ n.tracker.adr)
    <3>1. after = [last EXCEPT !.lost = @ \/ since1 = None]
      BY <2>8 DEF LastAfter
    <3> HIDE DEF after
    <3>2. after \in Lasts /\ after.ambiguity = last.ambiguity /\ (after.lost <=> last.lost \/ since1 = None)
      BY <3>1 DEF Lasts
    <3>3. AmbiguityInv(n, after, now + Interval)
      <4> SUFFICES ASSUME last.ambiguity # None
                   PROVE  /\ after.ambiguity < now + Interval
                          /\ after.lost => (n.tracker.scheduled => n.tracker.start > after.ambiguity)
                          /\ ~after.lost => n.tracker.scheduled /\ n.tracker.start = after.ambiguity
        BY <3>2 DEF AmbiguityInv
      <4>1. after.ambiguity < now + Interval
        BY <1>1, <1>2, <3>2 DEF SignalBefore
      <4>2. CASE available
        BY <2>3, <2>5, <2>6, <3>2, <4>1, <4>2
      <4>3. CASE ~available
        BY <2>3, <2>6, <3>2, <4>1, <4>3
      <4>4. QED
        BY <4>2, <4>3
    <3>4. QED
      BY <2>8, <3>2, <3>3 DEF ReportAfter, TellsLoss, after
  <2>9. QED
    BY <2>7, <2>8
<1>5. QED
  BY <1>3, <1>4

-----------------------------------------------------------------------------
(* The BESTPOS clock and the history of the qualifying positions.          *)

QualAfter(p, q, now) ==
  IF ~Qualifying(p) THEN None ELSE IF q = None THEN now ELSE q

(* What a position may meet: a clock that is running is the history's.     *)
RtkBefore(k, p, q, now) ==
  /\ k.active => k.since = q /\ q < now
  /\ k.fixed => k.active /\ now - q >= StableDuration
  /\ Qualifying(p) => (k.active <=> q # None)

RtkAfter(k, q, now) ==
  /\ k \in RtkStates
  /\ k.active <=> q # None
  /\ k.active => k.since = q /\ q =< now
  /\ k.fixed => k.active
  /\ k.fixed <=> q # None /\ now - q >= StableDuration

LEMMA RtkUpdated ==
  ASSUME NEW k \in RtkStates, NEW p \in Positions, NEW now \in Nat, NEW q \in Nat \cup {None},
         RtkBefore(k, p, q, now)
  PROVE  /\ RtkAfter(UpdateRtk(k, p, now), QualAfter(p, q, now), now)
         /\ ~RtkFails(k, p, now)
<1> DEFINE k1 == UpdateRtk(k, p, now)
           q1 == QualAfter(p, q, now)
<1>1. StableDuration \in Nat
  BY ReceiverAssumption
<1>2. CASE ~Qualifying(p)
  <2>1. k1 = NoRtk /\ q1 = None
    BY <1>2 DEF UpdateRtk, QualAfter
  <2> HIDE DEF k1, q1
  <2>2. RtkAfter(k1, q1, now)
    BY <2>1 DEF RtkAfter, NoRtk, RtkStates
  <2>3. QED
    BY <1>2, <2>2 DEF RtkFails, k1, q1
<1>3. CASE Qualifying(p) /\ k.fixed
  <2>1. k1 = k
    BY <1>3 DEF UpdateRtk
  <2>2. q # None /\ q1 = q
    BY <1>3 DEF QualAfter, RtkBefore
  <2> HIDE DEF k1, q1
  <2>3. RtkAfter(k1, q1, now)
    BY <1>1, <1>3, <2>1, <2>2 DEF RtkAfter, RtkBefore
  <2>4. QED
    BY <1>3, <2>3 DEF RtkFails, k1, q1
<1>4. CASE Qualifying(p) /\ ~k.fixed /\ ~k.active
  <2>1. k1 = [active |-> TRUE, since |-> now, fixed |-> StableDuration = 0]
    BY <1>4 DEF UpdateRtk
  <2>2. q1 = now
    BY <1>4 DEF QualAfter, RtkBefore
  <2> HIDE DEF k1, q1
  <2>3. k1 \in RtkStates /\ k1.active /\ k1.since = now /\ (k1.fixed <=> StableDuration = 0)
    BY <2>1 DEF RtkStates
  <2>4. now - q1 >= StableDuration <=> StableDuration = 0
    BY <1>1, <2>2
  <2>5. RtkAfter(k1, q1, now)
    BY <1>1, <2>2, <2>3, <2>4 DEF RtkAfter, None
  <2>6. QED
    BY <1>4, <2>5 DEF RtkFails, k1, q1
<1>5. CASE Qualifying(p) /\ ~k.fixed /\ k.active
  <2>1. k1 = [k EXCEPT !.fixed = now - k.since >= StableDuration]
    BY <1>5 DEF UpdateRtk
  <2>2. q # None /\ q \in Nat /\ q1 = q /\ k.since = q /\ q < now
    BY <1>5 DEF QualAfter, RtkBefore
  <2> HIDE DEF k1, q1
  <2>3. k1 \in RtkStates /\ k1.active /\ k1.since = q /\ (k1.fixed <=> now - q >= StableDuration)
    BY <1>5, <2>1, <2>2 DEF RtkStates
  <2>4. RtkAfter(k1, q1, now)
    BY <2>2, <2>3 DEF RtkAfter
  <2>5. QED
    BY <1>5, <2>2, <2>4 DEF RtkFails, k1, q1
<1>6. QED
  BY <1>2, <1>3, <1>4, <1>5

(* A solution is a position of the observed signals; without any, none.    *)
LEMMA RtklibPositionsType ==
  ASSUME NEW o, DOMAIN o \subseteq Signals, NEW p \in RtklibPositions(o)
  PROVE  /\ p \in Positions
         /\ DOMAIN o = {} => ~Qualifying(p)
<1> DEFINE U == {s \in DOMAIN o : o[s].psr}
<1>1. IsFiniteSet(Signals) /\ RequiredSatellites \in Nat \ {0}
  BY ReceiverAssumption
<1>2. IsFiniteSet(U) /\ Cardinality(U) =< Cardinality(Signals)
  BY <1>1, FS_Subset
<1>3. Cardinality(U) \in Nat /\ Cardinality(Signals) \in Nat
  BY <1>1, <1>2, FS_CardinalityType
<1>4. DOMAIN o = {} => Cardinality(U) = 0
  BY FS_EmptySet
<1> HIDE DEF U
<1>5. p = NoPosition \/ \E n \in RequiredSatellites .. Cardinality(U) : p = [valid |-> TRUE, used |-> n]
  BY DEF RtklibPositions, U
<1>6. CASE p = NoPosition
  BY <1>3, <1>6 DEF NoPosition, Positions, Qualifying
<1>7. ASSUME NEW n \in RequiredSatellites .. Cardinality(U), p = [valid |-> TRUE, used |-> n]
      PROVE  p \in Positions /\ DOMAIN o # {}
  <2>1. n \in 0 .. Cardinality(Signals) /\ Cardinality(U) # 0
    BY <1>1, <1>2, <1>3
  <2>2. QED
    BY <1>4, <1>7, <2>1 DEF Positions
<1>8. QED
  BY <1>5, <1>6, <1>7

-----------------------------------------------------------------------------
(* One epoch of a powered receiver.                                        *)

Carried(sc, s) == IF PowerOn(engine, sc) THEN None ELSE onSince[s]

(* What the transitions leave of the receiver.                             *)
EpochBefore(sc, base, ready, h, k) ==
  /\ base \in [Signals -> Runtimes]
  /\ \A s \in Signals : SignalBefore(base[s], Carried(sc, s), lastAdr[s], sc.signal, Now)
  /\ ready \in Nat /\ \E d \in StartupDelays : ready =< Now + d
  /\ h \in BOOLEAN /\ (h => ~PowerOn(engine, sc) /\ fixedSinceOn)
  /\ k \in RtkStates
  /\ k.active => k.since = qualSince /\ qualSince < Now
  /\ k.fixed => k.active /\ Now - qualSince >= StableDuration
  /\ sc.signal => (k.active <=> qualSince # None)

(* What the epoch makes of it, at the end of the epoch's interval.         *)
SignalsAfter(sc) ==
  /\ runtime' \in [Signals -> Runtimes]
  /\ onSince' \in [Signals -> Nat \cup {None}]
  /\ lastAdr' \in [Signals -> Lasts]
  /\ DOMAIN obs' \subseteq Signals
  /\ seen' \subseteq Signals
  /\ \A s \in Signals : SignalInv(runtime'[s], onSince'[s], Now + Interval)
  /\ \A s \in Signals : AmbiguityInv(runtime'[s], lastAdr'[s], Now + Interval)
  /\ ~sc.signal => \A s \in Signals : ~runtime'[s].tracker.scheduled
  /\ \A s \in seen' :
       onSince'[s] # None /\ Now >= runtime'[s].tracker.start + AdrValidDelay =>
         s \in DOMAIN obs' /\ obs'[s].adr

SolutionAfter ==
  /\ position' \in Positions
  /\ hint' \in BOOLEAN /\ velocity' \in BOOLEAN /\ fixedSinceOn' \in BOOLEAN
  /\ qualSince' \in Nat \cup {None}
  /\ RtkAfter(rtk', qualSince', Now)
  /\ hint' => fixedSinceOn'
  /\ velocity' => hint'

ReportsTellLoss ==
  \A s \in Signals :
    s \in DOMAIN obs' /\ obs'[s].adr /\ lastAdr[s].ambiguity # None =>
      (obs'[s].ambiguity = lastAdr[s].ambiguity <=> ~lastAdr[s].lost)

LEMMA NowType ==
  ASSUME epoch \in Nat
  PROVE  Now \in Nat
BY ReceiverAssumption DEF Now

LEMMA PoweredSignals ==
  ASSUME TypeOK, NEW sc, sc.signal \in BOOLEAN, NEW base, NEW ready, NEW h, NEW k,
         EpochBefore(sc, base, ready, h, k),
         PoweredEpoch(sc, base, ready, h, k)
  PROVE  /\ SignalsAfter(sc)
         /\ ReportsTellLoss
         /\ \A s \in DOMAIN obs' : sc.signal
         /\ failed' = RtkFails(k, position', Now)
<1> DEFINE since(s) == Carried(sc, s)
<1>1. PICK condition \in [Signals -> Conditions], delay \in [Signals -> AcquisitionDelays] :
        /\ runtime' = [s \in Signals |->
                         SignalEpoch(base[s], sc, condition[s], Now, ready, delay[s])]
        /\ obs' = [s \in {z \in Signals : /\ condition[z] # "NoGeometry"
                                          /\ runtime'[z].tracker.phase = "Tracking"}
                     |-> Observation(runtime'[s])]
        /\ failed' = \/ \E s \in Signals :
                          SignalEpochFails(base[s], sc, condition[s], Now, ready, delay[s])
                     \/ RtkFails(k, position', Now)
        /\ RememberPowered(sc, condition, PowerOn(engine, sc))
  BY DEF PoweredEpoch
<1>2. PICK d \in StartupDelays : ready =< Now + d
  BY DEF EpochBefore
<1>3. /\ Now \in Nat /\ config \in Scenarios /\ ready \in Nat
      /\ Interval \in Nat /\ Interval > 0 /\ AcquisitionDelays \subseteq Nat
  BY NowType, ReceiverAssumption DEF TypeOK, EpochBefore
<1>4. ASSUME NEW s \in Signals
      PROVE  /\ base[s] \in Runtimes /\ condition[s] \in Conditions
             /\ delay[s] \in AcquisitionDelays /\ delay[s] \in Nat
             /\ since(s) \in Nat \cup {None} /\ lastAdr[s] \in Lasts
             /\ SignalBefore(base[s], since(s), lastAdr[s], sc.signal, Now)
             /\ NotAhead(base[s], Now)
  BY <1>3 DEF EpochBefore, SignalBefore, Carried, TypeOK, Lasts
<1>5. \A s \in Signals : onSince'[s] = SinceAfter(sc.signal, condition[s], since(s), Now)
  BY <1>1, <1>4 DEF RememberPowered, SinceAfter, Carried, Conditions
<1>6. \A s \in Signals : runtime'[s] = SignalEpoch(base[s], sc, condition[s], Now, ready, delay[s])
  BY <1>1
<1> HIDE DEF since
<1>7. \A s \in Signals :
        /\ s \in DOMAIN obs' <=>
             condition[s] # "NoGeometry" /\ runtime'[s].tracker.phase = "Tracking"
        /\ s \in DOMAIN obs' =>
             /\ obs'[s].adr = runtime'[s].tracker.adr
             /\ obs'[s].ambiguity = runtime'[s].ambiguity
  BY <1>1 DEF Observation
<1>8. \A s \in Signals : lastAdr'[s] = LastAfter(runtime'[s], condition[s], lastAdr[s], onSince'[s])
  <2> TAKE s \in Signals
  <2>1. lastAdr'[s] = IF s \in DOMAIN obs' /\ obs'[s].adr
                        THEN [ambiguity |-> obs'[s].ambiguity, lost |-> FALSE]
                        ELSE [lastAdr[s] EXCEPT !.lost = @ \/ onSince'[s] = None]
    BY <1>1 DEF RememberPowered
  <2>2. QED
    BY <1>7, <2>1 DEF LastAfter
<1>9. ASSUME NEW s \in Signals
      PROVE  /\ SignalAfter(runtime'[s], onSince'[s], lastAdr[s], condition[s], Now)
             /\ ReportAfter(runtime'[s], lastAdr[s], lastAdr'[s], Now)
             /\ TellsLoss(runtime'[s], condition[s], lastAdr[s])
  <2> DEFINE b == base[s]  c == condition[s]  dl == delay[s]
             since0 == since(s)  last == lastAdr[s]  now == Now
             n == runtime'[s]  since1 == onSince'[s]
  <2>1. /\ b \in Runtimes /\ c \in Conditions /\ dl \in AcquisitionDelays
        /\ since0 \in Nat \cup {None} /\ last \in Lasts
        /\ SignalBefore(b, since0, last, sc.signal, now)
        /\ now \in Nat /\ ready \in Nat /\ ready =< now + d
    BY <1>2, <1>3, <1>4
  <2>2. /\ n = SignalEpoch(b, sc, c, now, ready, dl)
        /\ since1 = SinceAfter(sc.signal, c, since0, now)
    BY <1>5, <1>6
  <2> HIDE DEF b, c, dl, since0, last, now, n, since1
  <2>3. SignalAfter(n, since1, last, c, now)
    BY <1>3, <2>1, <2>2, SignalPreserved
  <2>4. /\ ReportAfter(n, last, LastAfter(n, c, last, since1), now)
        /\ TellsLoss(n, c, last)
    BY <1>3, <2>1, <2>2, AmbiguityPreserved
  <2>5. QED
    BY <1>8, <2>3, <2>4 DEF c, last, now, n, since1
<1>10. \A s \in Signals : ~SignalEpochFails(base[s], sc, condition[s], Now, ready, delay[s])
  BY <1>3, <1>4, SignalEpochSucceeds
<1>11. DOMAIN obs' \subseteq Signals /\ seen' = {s \in Signals : condition[s] # "NoGeometry"}
  BY <1>1 DEF RememberPowered
<1>12. SignalsAfter(sc)
  <2>1. runtime' \in [Signals -> Runtimes]
    BY <1>1, <1>9 DEF SignalAfter
  <2>2. onSince' \in [Signals -> Nat \cup {None}]
    <3>1. onSince' = [s \in Signals |-> onSince'[s]]
      BY <1>1 DEF RememberPowered
    <3>2. \A s \in Signals : onSince'[s] \in Nat \cup {None}
      BY <1>3, <1>4, <1>5 DEF SinceAfter
    <3>3. QED
      BY <3>1, <3>2
  <2>3. lastAdr' \in [Signals -> Lasts]
    <3>1. lastAdr' = [s \in Signals |-> lastAdr'[s]]
      BY <1>1 DEF RememberPowered
    <3>2. QED
      BY <1>9, <3>1 DEF ReportAfter
  <2>4. \A s \in Signals : SignalInv(runtime'[s], onSince'[s], Now + Interval)
    BY <1>9 DEF SignalAfter
  <2>5. \A s \in Signals : AmbiguityInv(runtime'[s], lastAdr'[s], Now + Interval)
    BY <1>9 DEF ReportAfter
  <2>6. ~sc.signal => \A s \in Signals : ~runtime'[s].tracker.scheduled
    BY <1>5, <2>4 DEF SignalInv, SinceAfter
  <2>7. ASSUME NEW s \in seen', onSince'[s] # None, Now >= runtime'[s].tracker.start + AdrValidDelay
        PROVE  s \in DOMAIN obs' /\ obs'[s].adr
    BY <1>9, <1>7, <1>11, <2>7 DEF SignalAfter
  <2>8. QED
    BY <1>11, <2>1, <2>2, <2>3, <2>4, <2>5, <2>6, <2>7 DEF SignalsAfter
<1>13. ReportsTellLoss
  BY <1>7, <1>9 DEF ReportsTellLoss, TellsLoss
<1>14. \A s \in DOMAIN obs' : sc.signal
  <2>1. \A s \in DOMAIN obs' : runtime'[s].tracker.scheduled
    BY <1>7, <1>11, <1>12 DEF SignalsAfter, SignalInv
  <2>2. QED
    BY <1>11, <1>12, <2>1 DEF SignalsAfter
<1>15. failed' = RtkFails(k, position', Now)
  BY <1>1, <1>10 DEF RtkFails
<1>16. QED
  BY <1>12, <1>13, <1>14, <1>15

LEMMA PoweredSolution ==
  ASSUME TypeOK, NEW sc, sc.signal \in BOOLEAN, NEW base, NEW ready, NEW h, NEW k,
         EpochBefore(sc, base, ready, h, k),
         PoweredEpoch(sc, base, ready, h, k)
  PROVE  SolutionAfter /\ ~failed'
<1>1. DOMAIN obs' \subseteq Signals /\ (~sc.signal => DOMAIN obs' = {})
  <2>1. SignalsAfter(sc) /\ \A s \in DOMAIN obs' : sc.signal
    BY PoweredSignals
  <2>2. QED
    BY <2>1 DEF SignalsAfter
<1>2. SolveReceiverEpoch(h, k, Now)
  BY DEF PoweredEpoch
<1>3. position' \in Positions /\ (~sc.signal => ~Qualifying(position'))
  BY <1>1, <1>2, RtklibPositionsType DEF SolveReceiverEpoch
<1>4. /\ qualSince' = QualAfter(position', qualSince, Now)
      /\ fixedSinceOn' = ((~PowerOn(engine, sc) /\ fixedSinceOn) \/ position'.valid)
  BY DEF PoweredEpoch, RememberPowered, QualAfter
<1>5. Now \in Nat /\ qualSince \in Nat \cup {None} /\ k \in RtkStates
  BY NowType DEF TypeOK, EpochBefore
<1>6. RtkBefore(k, position', qualSince, Now)
  BY <1>3 DEF RtkBefore, EpochBefore
<1>7. RtkAfter(rtk', qualSince', Now) /\ ~RtkFails(k, position', Now)
  BY <1>2, <1>3, <1>4, <1>5, <1>6, RtkUpdated DEF SolveReceiverEpoch
<1>8. qualSince' \in Nat \cup {None}
  BY <1>4, <1>5 DEF QualAfter
<1>9. position'.valid \in BOOLEAN
  BY <1>3 DEF Positions
<1>10. hint' = (h \/ position'.valid) /\ velocity' \in BOOLEAN /\ (velocity' => hint')
  BY <1>2 DEF SolveReceiverEpoch
<1>11. h \in BOOLEAN /\ (h => ~PowerOn(engine, sc) /\ fixedSinceOn)
  BY DEF EpochBefore
<1>12. fixedSinceOn' \in BOOLEAN /\ hint' \in BOOLEAN /\ (hint' => fixedSinceOn')
  BY <1>4, <1>9, <1>10, <1>11
<1>13. ~failed'
  BY <1>7, PoweredSignals
<1>14. QED
  BY <1>3, <1>7, <1>8, <1>10, <1>12, <1>13 DEF SolutionAfter

-----------------------------------------------------------------------------
(* The invariant of the whole receiver.                                    *)

(* What a receiver without power or without signals has lost, and when a   *)
(* powered one may search.                                                 *)
PowerInv ==
  /\ engine.powered => engine.seen
  /\ ~engine.powered =>
       ~engine.signal /\ ~hint /\ rtk = NoRtk /\ qualSince = None /\ ~fixedSinceOn
  /\ ~engine.signal => \A s \in Signals : ~runtime[s].tracker.scheduled
  /\ engine.powered => \E d \in StartupDelays : startupReady =< Now + d

(* The BESTPOS clock is the first epoch of the qualifying run.             *)
FixInv ==
  /\ rtk.active <=> qualSince # None
  /\ rtk.active => rtk.since = qualSince /\ qualSince < Now
  /\ rtk.fixed => rtk.active
  /\ hint => fixedSinceOn

(* A seen signal whose lock is old enough reports its carrier phase.       *)
ReportInv ==
  \A s \in seen :
    onSince[s] # None /\ Now - Interval >= runtime[s].tracker.start + AdrValidDelay =>
      s \in DOMAIN obs /\ obs[s].adr

SignalsInv ==
  /\ \A s \in Signals : SignalInv(runtime[s], onSince[s], Now)
  /\ \A s \in Signals : AmbiguityInv(runtime[s], lastAdr[s], Now)

IInv ==
  /\ TypeOK /\ EpochsNeverFail /\ FixIsEarned
  /\ SignalsInv /\ PowerInv /\ FixInv /\ ReportInv

(* The scenario at one epoch, and what beginning the epoch does.           *)
LEMMA ScenarioAtType ==
  ASSUME NEW c, NEW elapsed
  PROVE  /\ ScenarioAt(c, elapsed).powered \in BOOLEAN
         /\ ScenarioAt(c, elapsed).signal \in BOOLEAN
         /\ ~ScenarioAt(c, elapsed).powered => ~ScenarioAt(c, elapsed).signal
BY DEF ScenarioAt

LEMMA EpochBegun ==
  ASSUME TypeOK, NEW sc, sc.powered \in BOOLEAN, sc.signal \in BOOLEAN, BeginEpoch(sc)
  PROVE  /\ config' \in Scenarios /\ epoch' \in Nat /\ engine' \in Engines
         /\ events' \in [powerOn : Nat, powerOff : Nat, signalOn : Nat, signalOff : Nat]
         /\ engine'.seen /\ engine'.powered = sc.powered /\ engine'.signal = sc.signal
         /\ Now \in Nat /\ Now' = Now + Interval /\ Interval \in Nat /\ Interval > 0
<1>1. epoch' \in Nat /\ config' \in Scenarios
  BY DEF TypeOK, BeginEpoch
<1>2. engine' \in Engines /\ engine'.seen /\ engine'.powered = sc.powered /\ engine'.signal = sc.signal
  BY DEF BeginEpoch, Remember, Engines
<1>3. events' \in [powerOn : Nat, powerOff : Nat, signalOn : Nat, signalOff : Nat]
  BY DEF TypeOK, BeginEpoch
<1>4. Interval \in Nat /\ Interval > 0 /\ Now \in Nat
  BY ReceiverAssumption, NowType DEF TypeOK
<1>5. Now' = Now + Interval
  <2>1. epoch' = epoch + 1 /\ epoch \in Nat
    BY DEF BeginEpoch, TypeOK
  <2>2. Now' = epoch' * Interval
    BY DEF Now
  <2>3. QED
    BY <1>4, <2>1, <2>2 DEF Now
<1>6. QED
  BY <1>1, <1>2, <1>3, <1>4, <1>5

(* A powered epoch that starts where EpochBefore says preserves it all.    *)
LEMMA PoweredPreserves ==
  ASSUME IInv, NEW sc, sc.powered = TRUE, sc.signal \in BOOLEAN, BeginEpoch(sc),
         NEW base, NEW ready, NEW h, NEW k,
         EpochBefore(sc, base, ready, h, k),
         PoweredEpoch(sc, base, ready, h, k),
         startupReady' \in Nat, \E d \in StartupDelays : startupReady' =< Now + d
  PROVE  IInv' /\ ReportsTellLoss
<1>1. TypeOK /\ sc.powered \in BOOLEAN
  BY DEF IInv
<1>2. /\ config' \in Scenarios /\ epoch' \in Nat /\ engine' \in Engines
      /\ events' \in [powerOn : Nat, powerOff : Nat, signalOn : Nat, signalOff : Nat]
      /\ engine'.seen /\ engine'.powered /\ engine'.signal = sc.signal
      /\ Now \in Nat /\ Now' = Now + Interval /\ Interval \in Nat /\ Interval > 0
  <2>1. /\ config' \in Scenarios /\ epoch' \in Nat /\ engine' \in Engines
        /\ events' \in [powerOn : Nat, powerOff : Nat, signalOn : Nat, signalOff : Nat]
        /\ engine'.seen /\ engine'.powered = sc.powered /\ engine'.signal = sc.signal
        /\ Now \in Nat /\ Now' = Now + Interval /\ Interval \in Nat /\ Interval > 0
    BY <1>1, EpochBegun
  <2>2. QED
    BY <2>1
<1>3. SignalsAfter(sc) /\ ReportsTellLoss
  BY <1>1, PoweredSignals
<1>4. SolutionAfter /\ ~failed'
  BY <1>1, PoweredSolution
<1>5. failed' \in BOOLEAN
  BY DEF PoweredEpoch
<1>6. TypeOK'
  BY <1>2, <1>3, <1>4, <1>5 DEF TypeOK, SignalsAfter, SolutionAfter, RtkAfter, Lasts
<1>7. EpochsNeverFail'
  BY <1>4 DEF EpochsNeverFail
<1>8. Now' - Interval = Now /\ Now < Now'
  BY <1>2
<1>9. FixIsEarned'
  BY <1>4, <1>8 DEF FixIsEarned, SolutionAfter, RtkAfter
<1>10. SignalsInv'
  BY <1>2, <1>3 DEF SignalsInv, SignalsAfter
<1>11. PowerInv'
  <2>1. PICK d \in StartupDelays : startupReady' =< Now + d
    OBVIOUS
  <2>2. startupReady' =< Now' + d
    BY <1>2, <2>1, ReceiverAssumption
  <2>3. ~engine'.signal => \A s \in Signals : ~runtime'[s].tracker.scheduled
    BY <1>2, <1>3 DEF SignalsAfter
  <2>4. QED
    BY <1>2, <2>2, <2>3 DEF PowerInv
<1>12. FixInv'
  <2>1. qualSince' =< Now => qualSince' < Now'
    BY <1>2, <1>4 DEF SolutionAfter, None
  <2>2. QED
    BY <1>4, <2>1 DEF FixInv, SolutionAfter, RtkAfter
<1>13. ReportInv'
  BY <1>3, <1>8 DEF ReportInv, SignalsAfter
<1>14. QED
  BY <1>3, <1>6, <1>7, <1>9, <1>10, <1>11, <1>12, <1>13 DEF IInv

(* An epoch without power leaves unscheduled trackers and an empty history.*)
LEMMA SilentPreserves ==
  ASSUME IInv, NEW sc, ~sc.powered, ~sc.signal, sc.powered \in BOOLEAN, sc.signal \in BOOLEAN,
         BeginEpoch(sc), Silent,
         runtime' \in [Signals -> Runtimes],
         \A s \in Signals : /\ NotAhead(runtime'[s], Now + Interval)
                            /\ ~runtime'[s].tracker.scheduled
                            /\ runtime'[s].tracker.phase # "Tracking",
         ~hint', hint' \in BOOLEAN, rtk' = NoRtk
  PROVE  IInv' /\ ReportsTellLoss
<1>1. TypeOK
  BY DEF IInv
<1>2. /\ config' \in Scenarios /\ epoch' \in Nat /\ engine' \in Engines
      /\ events' \in [powerOn : Nat, powerOff : Nat, signalOn : Nat, signalOff : Nat]
      /\ engine'.seen /\ ~engine'.powered /\ ~engine'.signal
      /\ Now \in Nat /\ Now' = Now + Interval /\ Interval \in Nat /\ Interval > 0
  BY <1>1, EpochBegun
<1>3. /\ obs' = [s \in {} |-> None] /\ position' = NoPosition /\ velocity' = FALSE
      /\ seen' = {} /\ onSince' = [s \in Signals |-> None] /\ qualSince' = None
      /\ fixedSinceOn' = FALSE /\ startupReady' = startupReady /\ failed' = failed
      /\ lastAdr' = [s \in Signals |-> [lastAdr[s] EXCEPT !.lost = TRUE]]
  BY DEF Silent
<1>4. DOMAIN obs' = {}
  BY <1>3
<1>5. \A s \in Signals : /\ lastAdr'[s] \in Lasts /\ lastAdr'[s].lost
                         /\ lastAdr'[s].ambiguity = lastAdr[s].ambiguity
  BY <1>1, <1>3 DEF TypeOK, Lasts
<1>6. NoPosition \in Positions
  BY FS_CardinalityType, ReceiverAssumption DEF NoPosition, Positions
<1>7. NoRtk \in RtkStates
  BY DEF NoRtk, RtkStates
<1>8. lastAdr' \in [Signals -> Lasts]
  BY <1>3, <1>5
<1>9. TypeOK'
  BY <1>1, <1>2, <1>3, <1>4, <1>6, <1>7, <1>8 DEF TypeOK, Lasts
<1>10. EpochsNeverFail'
  BY <1>3 DEF IInv, EpochsNeverFail
<1>11. FixIsEarned'
  BY <1>3 DEF FixIsEarned, NoRtk
<1>12. SignalsInv'
  <2>1. ASSUME NEW s \in Signals PROVE SignalInv(runtime'[s], onSince'[s], Now')
    BY <1>2, <1>3 DEF SignalInv, None
  <2>2. ASSUME NEW s \in Signals PROVE AmbiguityInv(runtime'[s], lastAdr'[s], Now')
    <3>1. lastAdr[s].ambiguity # None => lastAdr[s].ambiguity < Now
      BY DEF IInv, SignalsInv, AmbiguityInv
    <3>2. lastAdr[s].ambiguity \in Int
      BY <1>1 DEF TypeOK, None
    <3>3. QED
      BY <1>2, <1>5, <3>1, <3>2 DEF AmbiguityInv
  <2>3. QED
    BY <2>1, <2>2 DEF SignalsInv
<1>13. PowerInv'
  BY <1>2, <1>3 DEF PowerInv
<1>14. FixInv'
  BY <1>3 DEF FixInv, NoRtk
<1>15. ReportInv'
  BY <1>3 DEF ReportInv
<1>16. ReportsTellLoss
  BY <1>4 DEF ReportsTellLoss
<1>17. QED
  BY <1>9, <1>10, <1>11, <1>12, <1>13, <1>14, <1>15, <1>16 DEF IInv

-----------------------------------------------------------------------------
(* The actions.                                                            *)

LEMMA RuntimeTypes ==
  ASSUME IInv, NEW s \in Signals
  PROVE  /\ runtime[s] \in Runtimes /\ lastAdr[s] \in Lasts
         /\ onSince[s] \in Nat \cup {None} /\ Now \in Nat
         /\ SignalInv(runtime[s], onSince[s], Now)
         /\ AmbiguityInv(runtime[s], lastAdr[s], Now)
BY NowType DEF IInv, TypeOK, SignalsInv, Lasts

(* What a power cycle makes of a signal, and what a loss of signal does.   *)
LEMMA ResetRuntimes ==
  ASSUME NEW r \in Runtimes, NEW now \in Nat
  PROVE  /\ PowerOnRuntime(now) \in Runtimes
         /\ NotAhead(PowerOnRuntime(now), now)
         /\ ~PowerOnRuntime(now).tracker.scheduled
         /\ PowerOnRuntime(now).tracker.phase = "SignalOff"
         /\ PowerOffRuntime(r, now) \in Runtimes
         /\ NotAhead(PowerOffRuntime(r, now), now)
         /\ ~PowerOffRuntime(r, now).tracker.scheduled
         /\ PowerOffRuntime(r, now).tracker.phase = "SignalOff"
<1> DEFINE t == ResetTracker(now)
<1>1. t \in Trackers /\ t.since = now /\ ~t.scheduled /\ t.phase = "SignalOff"
  BY ResetTrackerType DEF ResetTracker
<1>2. NoError \in [start : Nat \cup {None}, lock : Nat \cup {None}] /\ NoError.start = None
  BY DEF NoError
<1> HIDE DEF t
<1>3. PowerOnRuntime(now) = [tracker |-> t, ever |-> FALSE, ambiguity |-> None, error |-> NoError]
  BY DEF PowerOnRuntime, t
<1>4. PowerOffRuntime(r, now) = [r EXCEPT !.ambiguity = None, !.error = NoError, !.tracker = t]
  BY DEF PowerOffRuntime, DropLock, t, Runtimes
<1>5. /\ PowerOnRuntime(now) \in Runtimes
      /\ PowerOnRuntime(now).tracker = t /\ PowerOnRuntime(now).error = NoError
  BY <1>1, <1>2, <1>3 DEF Runtimes
<1>6. /\ PowerOffRuntime(r, now) \in Runtimes
      /\ PowerOffRuntime(r, now).tracker = t /\ PowerOffRuntime(r, now).error = NoError
  BY ZenonT(60), <1>1, <1>2, <1>4 DEF Runtimes
<1>7. QED
  BY <1>1, <1>2, <1>5, <1>6 DEF NotAhead

LEMMA SignalOffRuntimes ==
  ASSUME NEW r \in Runtimes, NEW now \in Nat, NotAhead(r, now)
  PROVE  /\ SignalOffRuntime(r, now) \in Runtimes
         /\ NotAhead(SignalOffRuntime(r, now), now)
         /\ ~SignalOffRuntime(r, now).tracker.scheduled
         /\ SignalOffRuntime(r, now).tracker.phase = "SignalOff"
<1> DEFINE t == UpdateTracker(r.tracker, now, FALSE)
           b == SignalOffRuntime(r, now)
<1>1. r.tracker \in Trackers /\ r.tracker.since =< now
  BY DEF Runtimes, NotAhead
<1>2. UpdateFacts(t, r.tracker, now, FALSE)
  BY <1>1, UpdatedTracker
<1>3. NoError \in [start : Nat \cup {None}, lock : Nat \cup {None}] /\ NoError.start = None
  BY DEF NoError
<1>4. b = [r EXCEPT !.ambiguity = None, !.error = NoError, !.tracker = t]
  BY DEF SignalOffRuntime, DropLock, Runtimes
<1> HIDE DEF t, b
<1>5. t \in Trackers /\ t.since =< now /\ ~t.scheduled /\ t.phase = "SignalOff"
  BY <1>1, <1>2 DEF UpdateFacts
<1>6. b \in Runtimes /\ b.tracker = t /\ b.error = NoError
  BY <1>3, <1>4, <1>5 DEF Runtimes
<1>7. QED
  BY <1>3, <1>5, <1>6 DEF NotAhead, b

(* A powered epoch that starts, after its transition, where EpochBefore    *)
(* says.                                                                   *)
PoweredFrom(sc, base, ready, h, k) ==
  /\ sc.powered = TRUE /\ sc.signal \in BOOLEAN /\ BeginEpoch(sc)
  /\ EpochBefore(sc, base, ready, h, k)
  /\ PoweredEpoch(sc, base, ready, h, k)
  /\ startupReady' \in Nat /\ \E d \in StartupDelays : startupReady' =< Now + d

LEMMA PowerOnBefore ==
  ASSUME IInv, PowerOnEpoch
  PROVE  PoweredFrom(ScenarioAt(config, Now), [s \in Signals |-> PowerOnRuntime(Now)],
                     startupReady', FALSE, NoRtk)
<1> DEFINE sc == ScenarioAt(config, Now)
           base == [s \in Signals |-> PowerOnRuntime(Now)]
<1>1. /\ BeginEpoch(sc) /\ PowerOn(engine, sc)
      /\ \E d \in StartupDelays : startupReady' = Now + d
      /\ PoweredEpoch(sc, base, startupReady', FALSE, NoRtk)
  BY DEF PowerOnEpoch, ResetHint
<1>2. sc.powered \in BOOLEAN /\ sc.signal \in BOOLEAN
  BY ScenarioAtType
<1>3. Now \in Nat /\ TypeOK
  BY NowType DEF IInv, TypeOK
<1> HIDE DEF sc
<1>4. sc.powered = TRUE
  BY <1>1, <1>2 DEF PowerOn
<1>5. ~engine.powered
  BY <1>1 DEF PowerOn, IInv, PowerInv
<1>6. \A s \in Signals : Carried(sc, s) = None /\ ~runtime[s].tracker.scheduled
  BY <1>1, <1>5 DEF Carried, IInv, PowerInv
<1>7. ASSUME NEW s \in Signals
      PROVE  base[s] \in Runtimes /\ SignalBefore(base[s], Carried(sc, s), lastAdr[s], sc.signal, Now)
  <2> DEFINE b == base[s]
  <2>1. b \in Runtimes /\ NotAhead(b, Now) /\ ~b.tracker.scheduled /\ b.tracker.phase = "SignalOff"
    BY <1>3, RuntimeTypes, ResetRuntimes
  <2>2. AmbiguityInv(runtime[s], lastAdr[s], Now)
    BY RuntimeTypes
  <2>3. lastAdr[s].ambiguity # None => lastAdr[s].ambiguity < Now /\ lastAdr[s].lost
    BY <1>6, <2>2 DEF AmbiguityInv
  <2> HIDE DEF b
  <2>4. SignalBefore(b, None, lastAdr[s], sc.signal, Now)
    BY <1>3, <2>1, <2>3 DEF SignalBefore, None
  <2>5. QED
    BY <1>6, <2>1, <2>4 DEF b
<1>8. base \in [Signals -> Runtimes]
  BY <1>7
<1>9. startupReady' \in Nat /\ \E d \in StartupDelays : startupReady' =< Now + d
  BY <1>1, <1>3, ReceiverAssumption
<1>10. NoRtk \in RtkStates /\ ~NoRtk.active /\ ~NoRtk.fixed
  BY DEF NoRtk, RtkStates
<1>11. qualSince = None
  BY <1>5 DEF IInv, PowerInv
<1> HIDE DEF base
<1>12. EpochBefore(sc, base, startupReady', FALSE, NoRtk)
  BY <1>7, <1>8, <1>9, <1>10, <1>11 DEF EpochBefore
<1>13. QED
  BY <1>1, <1>2, <1>4, <1>9, <1>12 DEF PoweredFrom, sc, base

LEMMA SignalOffBefore ==
  ASSUME IInv, SignalOffEpoch
  PROVE  PoweredFrom(ScenarioAt(config, Now), [s \in Signals |-> SignalOffRuntime(runtime[s], Now)],
                     startupReady, hint, NoRtk)
<1> DEFINE sc == ScenarioAt(config, Now)
           base == [s \in Signals |-> SignalOffRuntime(runtime[s], Now)]
<1>1. /\ BeginEpoch(sc) /\ sc.powered /\ SignalOff(engine, sc)
      /\ PoweredEpoch(sc, base, startupReady, hint, NoRtk)
      /\ startupReady' = startupReady
  BY DEF SignalOffEpoch
<1>2. sc.powered \in BOOLEAN /\ sc.signal \in BOOLEAN
  BY ScenarioAtType
<1>3. Now \in Nat /\ TypeOK
  BY NowType DEF IInv, TypeOK
<1> HIDE DEF sc
<1>4. sc.powered = TRUE /\ ~sc.signal
  BY <1>1, <1>2 DEF SignalOff
<1>5. engine.seen /\ engine.powered
  BY <1>1 DEF SignalOff, IInv, PowerInv
<1>6. ~PowerOn(engine, sc)
  BY <1>5 DEF PowerOn
<1>7. ASSUME NEW s \in Signals
      PROVE  base[s] \in Runtimes /\ SignalBefore(base[s], Carried(sc, s), lastAdr[s], sc.signal, Now)
  <2> DEFINE b == base[s]
  <2>1. NotAhead(runtime[s], Now) /\ onSince[s] =< Now
    BY RuntimeTypes DEF SignalInv
  <2>2. b \in Runtimes /\ NotAhead(b, Now) /\ ~b.tracker.scheduled /\ b.tracker.phase = "SignalOff"
    BY <1>3, <2>1, RuntimeTypes, SignalOffRuntimes
  <2>3. lastAdr[s].ambiguity # None => lastAdr[s].ambiguity < Now
    BY RuntimeTypes DEF AmbiguityInv
  <2>4. Carried(sc, s) = onSince[s]
    BY <1>6 DEF Carried
  <2> HIDE DEF b
  <2>5. SignalBefore(b, onSince[s], lastAdr[s], sc.signal, Now)
    BY <1>4, <2>1, <2>2, <2>3 DEF SignalBefore
  <2>6. QED
    BY <2>2, <2>4, <2>5 DEF b
<1>8. base \in [Signals -> Runtimes]
  BY <1>7
<1>9. startupReady \in Nat /\ \E d \in StartupDelays : startupReady =< Now + d
  BY <1>3, <1>5 DEF TypeOK, IInv, PowerInv
<1>10. NoRtk \in RtkStates /\ ~NoRtk.active /\ ~NoRtk.fixed
  BY DEF NoRtk, RtkStates
<1>11. hint \in BOOLEAN /\ (hint => fixedSinceOn)
  BY <1>3 DEF TypeOK, IInv, FixInv
<1> HIDE DEF base
<1>12. EpochBefore(sc, base, startupReady, hint, NoRtk)
  BY <1>4, <1>6, <1>7, <1>8, <1>9, <1>10, <1>11 DEF EpochBefore
<1>13. startupReady' \in Nat /\ \E d \in StartupDelays : startupReady' =< Now + d
  BY <1>1, <1>9
<1>14. QED
  BY <1>1, <1>2, <1>4, <1>12, <1>13 DEF PoweredFrom, sc, base

LEMMA RunningBefore ==
  ASSUME IInv, RunningEpoch
  PROVE  PoweredFrom(ScenarioAt(config, Now), runtime, startupReady, hint, rtk)
<1> DEFINE sc == ScenarioAt(config, Now)
<1>1. /\ BeginEpoch(sc) /\ sc.powered /\ ~PowerOn(engine, sc) /\ ~SignalOff(engine, sc)
      /\ PoweredEpoch(sc, runtime, startupReady, hint, rtk)
      /\ startupReady' = startupReady
  BY DEF RunningEpoch
<1>2. sc.powered \in BOOLEAN /\ sc.signal \in BOOLEAN
  BY ScenarioAtType
<1>3. Now \in Nat /\ TypeOK
  BY NowType DEF IInv, TypeOK
<1> HIDE DEF sc
<1>4. sc.powered = TRUE
  BY <1>1, <1>2
<1>5. engine.seen /\ engine.powered /\ (~sc.signal => ~engine.signal)
  BY <1>1 DEF PowerOn, SignalOff
<1>6. ASSUME NEW s \in Signals
      PROVE  runtime[s] \in Runtimes /\ SignalBefore(runtime[s], Carried(sc, s), lastAdr[s], sc.signal, Now)
  <2>1. /\ runtime[s] \in Runtimes
        /\ SignalInv(runtime[s], onSince[s], Now) /\ AmbiguityInv(runtime[s], lastAdr[s], Now)
    BY RuntimeTypes
  <2>2. ~sc.signal => ~runtime[s].tracker.scheduled
    BY <1>5 DEF IInv, PowerInv
  <2>3. Carried(sc, s) = onSince[s]
    BY <1>1 DEF Carried
  <2>4. SignalBefore(runtime[s], onSince[s], lastAdr[s], sc.signal, Now)
    BY <2>1, <2>2 DEF SignalBefore, SignalInv, AmbiguityInv
  <2>5. QED
    BY <2>1, <2>3, <2>4
<1>7. runtime \in [Signals -> Runtimes]
  BY <1>3 DEF TypeOK
<1>8. startupReady \in Nat /\ \E d \in StartupDelays : startupReady =< Now + d
  BY <1>3, <1>5 DEF TypeOK, IInv, PowerInv
<1>9. hint \in BOOLEAN /\ (hint => fixedSinceOn)
  BY <1>3 DEF TypeOK, IInv, FixInv
<1>10. rtk \in RtkStates /\ qualSince \in Nat \cup {None}
  BY <1>3 DEF TypeOK
<1>11. /\ rtk.active <=> qualSince # None
       /\ rtk.active => rtk.since = qualSince /\ qualSince < Now
       /\ rtk.fixed => rtk.active
  BY DEF IInv, FixInv
<1>12. rtk.fixed => Now - qualSince >= StableDuration
  <2>1. rtk.fixed => qualSince \in Nat /\ Now - Interval - qualSince >= StableDuration
    BY <1>10, <1>11 DEF IInv, FixIsEarned
  <2>2. QED
    BY <1>3, <2>1, ReceiverAssumption
<1>13. EpochBefore(sc, runtime, startupReady, hint, rtk)
  BY <1>1, <1>6, <1>7, <1>8, <1>9, <1>10, <1>11, <1>12 DEF EpochBefore
<1>14. startupReady' \in Nat /\ \E d \in StartupDelays : startupReady' =< Now + d
  BY <1>1, <1>8
<1>15. QED
  BY <1>1, <1>2, <1>4, <1>13, <1>14 DEF PoweredFrom, sc

LEMMA PoweredFromPreserves ==
  ASSUME IInv, NEW sc, NEW base, NEW ready, NEW h, NEW k, PoweredFrom(sc, base, ready, h, k)
  PROVE  IInv' /\ ReportsTellLoss
BY PoweredPreserves DEF PoweredFrom

LEMMA LaterNotAhead ==
  ASSUME NEW r \in Runtimes, NEW now \in Nat, NotAhead(r, now)
  PROVE  NotAhead(r, now + Interval)
<1>1. r.tracker.since \in Nat /\ r.error.start \in Int /\ r.error.lock \in Int
  BY DEF Runtimes, Trackers, None
<1>2. QED
  BY <1>1, ReceiverAssumption DEF NotAhead

LEMMA PowerOffPreserves ==
  ASSUME IInv, PowerOffEpoch
  PROVE  IInv' /\ ReportsTellLoss
<1> DEFINE sc == ScenarioAt(config, Now)
<1>1. /\ BeginEpoch(sc) /\ PowerOff(engine, sc) /\ Silent
      /\ runtime' = [s \in Signals |-> PowerOffRuntime(runtime[s], Now)]
      /\ hint' = FALSE /\ rtk' = NoRtk
  BY DEF PowerOffEpoch, ResetHint
<1>2. /\ sc.powered \in BOOLEAN /\ sc.signal \in BOOLEAN
      /\ ~sc.powered => ~sc.signal
  BY ScenarioAtType
<1> HIDE DEF sc
<1>3. ~sc.powered /\ ~sc.signal
  BY <1>1, <1>2 DEF PowerOff
<1>4. ASSUME NEW s \in Signals
      PROVE  /\ runtime'[s] \in Runtimes
             /\ NotAhead(runtime'[s], Now + Interval)
             /\ ~runtime'[s].tracker.scheduled /\ runtime'[s].tracker.phase # "Tracking"
  <2>1. runtime'[s] = PowerOffRuntime(runtime[s], Now)
    BY <1>1
  <2>2. runtime[s] \in Runtimes /\ Now \in Nat
    BY RuntimeTypes
  <2>3. /\ PowerOffRuntime(runtime[s], Now) \in Runtimes
        /\ NotAhead(PowerOffRuntime(runtime[s], Now), Now)
        /\ ~PowerOffRuntime(runtime[s], Now).tracker.scheduled
        /\ PowerOffRuntime(runtime[s], Now).tracker.phase = "SignalOff"
    BY <2>2, ResetRuntimes
  <2>4. QED
    BY <2>1, <2>2, <2>3, LaterNotAhead
<1>5. runtime' \in [Signals -> Runtimes]
  BY <1>1, <1>4
<1>6. QED
  BY <1>1, <1>2, <1>3, <1>4, <1>5, SilentPreserves

LEMMA UnpoweredPreserves ==
  ASSUME IInv, UnpoweredEpoch
  PROVE  IInv' /\ ReportsTellLoss
<1> DEFINE sc == ScenarioAt(config, Now)
<1>1. /\ BeginEpoch(sc) /\ ~sc.powered /\ ~PowerOff(engine, sc) /\ Silent
      /\ runtime' = runtime /\ hint' = hint /\ rtk' = rtk
  BY DEF UnpoweredEpoch
<1>2. /\ sc.powered \in BOOLEAN /\ sc.signal \in BOOLEAN
      /\ ~sc.powered => ~sc.signal
  BY ScenarioAtType
<1> HIDE DEF sc
<1>3. ~sc.powered /\ ~sc.signal
  BY <1>1, <1>2
<1>4. ~engine.powered
  BY <1>1 DEF PowerOff, IInv, PowerInv
<1>5. ~engine.signal /\ ~hint /\ rtk = NoRtk
  BY <1>4 DEF IInv, PowerInv
<1>6. ASSUME NEW s \in Signals
      PROVE  /\ NotAhead(runtime'[s], Now + Interval)
             /\ ~runtime'[s].tracker.scheduled /\ runtime'[s].tracker.phase # "Tracking"
  <2>1. runtime[s] \in Runtimes /\ Now \in Nat /\ SignalInv(runtime[s], onSince[s], Now)
    BY RuntimeTypes
  <2>2. ~runtime[s].tracker.scheduled
    BY <1>5 DEF IInv, PowerInv
  <2>3. QED
    BY <1>1, <2>1, <2>2, LaterNotAhead DEF SignalInv
<1>7. runtime' \in [Signals -> Runtimes]
  BY <1>1 DEF IInv, TypeOK
<1>8. hint' \in BOOLEAN /\ ~hint' /\ rtk' = NoRtk
  BY <1>1, <1>5 DEF IInv, TypeOK
<1>9. QED
  BY <1>1, <1>2, <1>3, <1>6, <1>7, <1>8, SilentPreserves

LEMMA IInvInit ==
  ASSUME Init
  PROVE  IInv
<1>1. Now = 0 /\ Interval \in Nat
  BY ReceiverAssumption DEF Init, Now
<1>2. ASSUME NEW s \in Signals
      PROVE  /\ runtime[s] \in Runtimes /\ NotAhead(runtime[s], 0)
             /\ ~runtime[s].tracker.scheduled /\ runtime[s].tracker.phase = "SignalOff"
  <2>1. runtime[s] = PowerOnRuntime(0)
    BY DEF Init
  <2>2. PowerOnRuntime(0) \in Runtimes
    BY ResetTrackerType DEF PowerOnRuntime, Runtimes, NoError
  <2>3. /\ NotAhead(PowerOnRuntime(0), 0) /\ ~PowerOnRuntime(0).tracker.scheduled
        /\ PowerOnRuntime(0).tracker.phase = "SignalOff"
    BY <2>2, ResetRuntimes
  <2>4. QED
    BY <2>1, <2>2, <2>3
<1>3. runtime \in [Signals -> Runtimes]
  BY <1>2 DEF Init
<1>4. NoPosition \in Positions /\ NoRtk \in RtkStates /\ NewEngine \in Engines
  BY FS_CardinalityType, ReceiverAssumption
     DEF NoPosition, Positions, NoRtk, RtkStates, NewEngine, Engines
<1>5. TypeOK
  BY <1>3, <1>4 DEF Init, TypeOK
<1>6. SignalsInv
  <2>1. ASSUME NEW s \in Signals PROVE SignalInv(runtime[s], onSince[s], Now)
    BY <1>1, <1>2 DEF Init, SignalInv, None
  <2>2. ASSUME NEW s \in Signals PROVE AmbiguityInv(runtime[s], lastAdr[s], Now)
    BY DEF Init, AmbiguityInv
  <2>3. QED
    BY <2>1, <2>2 DEF SignalsInv
<1>7. EpochsNeverFail /\ FixIsEarned
  BY DEF Init, EpochsNeverFail, FixIsEarned, NoRtk
<1>8. PowerInv
  BY <1>2 DEF Init, PowerInv, NewEngine
<1>9. FixInv /\ ReportInv
  BY DEF Init, FixInv, ReportInv, NoRtk
<1>10. QED
  BY <1>5, <1>6, <1>7, <1>8, <1>9 DEF IInv

LEMMA IInvNext ==
  ASSUME IInv, Next
  PROVE  IInv' /\ ReportsTellLoss
<1>1. CASE PowerOnEpoch
  BY <1>1, PowerOnBefore, PoweredFromPreserves
<1>2. CASE SignalOffEpoch
  BY <1>2, SignalOffBefore, PoweredFromPreserves
<1>3. CASE RunningEpoch
  BY <1>3, RunningBefore, PoweredFromPreserves
<1>4. QED
  BY <1>1, <1>2, <1>3, PowerOffPreserves, UnpoweredPreserves DEF Next

LEMMA IInvStutters ==
  ASSUME IInv, UNCHANGED vars
  PROVE  IInv'
<1>1. TypeOK'
  BY DEF IInv, TypeOK, vars, history
<1>2. EpochsNeverFail' /\ FixIsEarned'
  BY DEF IInv, EpochsNeverFail, FixIsEarned, Now, vars, history
<1>3. SignalsInv' /\ PowerInv' /\ FixInv' /\ ReportInv'
  BY DEF IInv, SignalsInv, PowerInv, FixInv, ReportInv, Now, vars, history
<1>4. QED
  BY <1>1, <1>2, <1>3 DEF IInv

LEMMA InvariantHolds == Spec => []IInv
<1>1. Init => IInv
  BY IInvInit
<1>2. IInv /\ [Next]_vars => IInv'
  BY IInvNext, IInvStutters
<1>3. QED
  BY <1>1, <1>2, PTL DEF Spec

-----------------------------------------------------------------------------
(* The locks of the signals, as SignalLocks tells them.                    *)

LEMMA LockOfFacts ==
  ASSUME NEW t \in Trackers
  PROVE  /\ ~t.scheduled => LockOf(t) = Locks!TrackerOff
         /\ t.scheduled /\ t.phase = "Tracking" => LockOf(t) = Locks!Locked(t.start)
         /\ t.scheduled /\ t.phase # "Tracking" => LockOf(t) = Locks!Seeking(t.start)
BY DEF LockOf, Trackers, Locks!TrackerOff, Locks!Locked, Locks!Seeking, Locks!None

LEMMA LockDelay ==
  ASSUME NEW u \in StartupDelays, NEW a \in AcquisitionDelays, NEW x \in Int, a =< x, x =< u + a
  PROVE  x \in LockDelays
<1> DEFINE Between(v, b) == b .. (v + b)
<1>1. x \in Between(u, a)
  BY ReceiverAssumption
<1>2. LockDelays = UNION {Between(v, b) : v \in StartupDelays, b \in AcquisitionDelays}
  BY DEF LockDelays
<1> HIDE DEF Between
<1>3. QED
  BY <1>1, <1>2

(* A tracking signal has reached the start of its lock.                    *)
Started(t) == t.phase = "Tracking" => t.start =< Now

StartedInv == \A s \in Signals : Started(runtime[s].tracker)

(* One signal through one epoch.                                           *)
LEMMA SignalLockStep ==
  ASSUME config \in Scenarios, Now \in Nat,
         NEW b \in Runtimes, NEW sc, sc.signal \in BOOLEAN, NEW condition \in Conditions,
         NEW ready \in Nat, NEW delay \in AcquisitionDelays,
         NEW since, NEW last, NEW d \in StartupDelays, ready =< Now + d,
         SignalBefore(b, since, last, sc.signal, Now), Started(b.tracker),
         NEW n, n = SignalEpoch(b, sc, condition, Now, ready, delay)
  PROVE  /\ LockOf(n.tracker) \in Locks!NextTrackers(LockOf(b.tracker), sc)
         /\ n.tracker.phase = "Tracking" => n.tracker.start =< Now
<1> DEFINE t == LockOf(b.tracker)  u == LockOf(n.tracker)
           available == SignalAvailable(sc, condition)
<1>1. delay \in Nat /\ d \in Nat
  BY ReceiverAssumption
<1>2. b.tracker \in Trackers /\ b.tracker.start \in Nat /\ b.tracker.ready \in Nat
  BY DEF Runtimes, Trackers
<1>3. Locks!NextTrackers(t, sc) =
        IF ~sc.signal THEN {Locks!TrackerOff}
        ELSE {t, Locks!TrackerOff} \cup Locks!LocksNow(t) \cup
             {Locks!Seeking(Now + x) : x \in {y \in LockDelays : t.phase = "SignalOff"}}
  BY DEF Locks!NextTrackers, Locks!Now, Now
<1>4. CASE condition = "NoGeometry"
  <2>1. n = b
    BY <1>4 DEF SignalEpoch
  <2>2. ~sc.signal => ~b.tracker.scheduled
    BY DEF SignalBefore
  <2>3. ~sc.signal => t = Locks!TrackerOff
    BY <1>2, <2>2, LockOfFacts
  <2>4. QED
    BY <1>3, <2>1, <2>3 DEF Started
<1>5. CASE condition # "NoGeometry"
  <2>1. available \in BOOLEAN /\ (available => sc.signal)
    BY DEF SignalAvailable
  <2>2. EpochFacts(n, b, available, Now, ready, delay)
    BY <1>1, <1>5, SignalEpochFacts
  <2> HIDE DEF available
  <2>3. n.tracker \in Trackers /\ n.tracker.start \in Nat
    BY <2>2 DEF EpochFacts, Runtimes, Trackers
  <2>4. n.tracker.phase = "Tracking" => n.tracker.start =< Now
    BY <2>2, <2>3 DEF EpochFacts
  <2>5. CASE ~available
    <3>1. u = Locks!TrackerOff
      BY <2>2, <2>3, <2>5, LockOfFacts DEF EpochFacts
    <3>2. QED
      BY <1>3, <2>4, <3>1
  <2>6. CASE available /\ ~b.tracker.scheduled
    <3> DEFINE sr == SearchReady(b, Now, ready)
    <3>1. NeedsSchedule(b, available)
      BY <2>6 DEF NeedsSchedule
    <3>2. sr \in Nat /\ sr >= Now /\ sr =< Now + d
      BY <1>1, SearchReadyFacts
    <3>3. n.tracker.start = sr + delay /\ n.tracker.scheduled
      BY <2>2, <2>6, <3>1 DEF EpochFacts
    <3> HIDE DEF sr
    <3>4. t = Locks!TrackerOff /\ t.phase = "SignalOff"
      BY <1>2, <2>6, LockOfFacts DEF Locks!TrackerOff
    <3>5. CASE n.tracker.phase = "Tracking"
      <4>1. n.tracker.start = Now /\ delay = 0
        BY <1>1, <2>4, <3>2, <3>3, <3>5
      <4>2. 0 \in LockDelays
        BY <1>1, <4>1, LockDelay
      <4>3. u = Locks!Locked(Now)
        BY <2>3, <3>3, <3>5, <4>1, LockOfFacts
      <4>4. u \in Locks!LocksNow(t)
        BY <3>4, <4>2, <4>3 DEF Locks!LocksNow, Locks!Now, Now
      <4>5. QED
        BY <1>3, <2>1, <2>4, <2>6, <4>4
    <3>6. CASE n.tracker.phase # "Tracking"
      <4>1. PICK x \in Nat : x = n.tracker.start - Now /\ delay =< x /\ x =< d + delay
        BY <1>1, <3>2, <3>3
      <4>2. x \in LockDelays /\ n.tracker.start = Now + x
        BY <2>3, <4>1, LockDelay
      <4>3. u = Locks!Seeking(Now + x)
        BY <2>3, <3>3, <3>6, <4>2, LockOfFacts
      <4>4. QED
        BY <1>3, <2>1, <2>4, <2>6, <3>4, <4>2, <4>3
    <3>7. QED
      BY <3>5, <3>6
  <2>7. CASE available /\ b.tracker.scheduled
    <3>1. ~NeedsSchedule(b, available)
      BY <2>7 DEF NeedsSchedule
    <3>2. n.tracker.start = b.tracker.start /\ n.tracker.ready = b.tracker.ready /\ n.tracker.scheduled
      BY <2>2, <2>7, <3>1 DEF EpochFacts
    <3>3. b.tracker.ready =< b.tracker.start
      BY <2>7 DEF SignalBefore, LockStart
    <3>4. n.tracker.phase = "Tracking" <=> b.tracker.start =< Now
      BY <1>2, <2>2, <2>7, <3>2, <3>3 DEF EpochFacts
    <3>5. CASE n.tracker.phase # "Tracking"
      <4>1. b.tracker.phase # "Tracking"
        BY <3>4, <3>5 DEF Started
      <4>2. u = t
        BY <1>2, <2>3, <2>7, <3>2, <3>5, <4>1, LockOfFacts
      <4>3. QED
        BY <1>3, <2>1, <2>4, <2>7, <4>2
    <3>6. CASE n.tracker.phase = "Tracking" /\ b.tracker.phase = "Tracking"
      <4>1. u = t
        BY <1>2, <2>3, <2>7, <3>2, <3>6, LockOfFacts
      <4>2. QED
        BY <1>3, <2>1, <2>4, <2>7, <4>1
    <3>7. CASE n.tracker.phase = "Tracking" /\ b.tracker.phase # "Tracking"
      <4>1. u = Locks!Locked(b.tracker.start) /\ t = Locks!Seeking(b.tracker.start)
        BY <1>2, <2>3, <2>7, <3>2, <3>7, LockOfFacts
      <4>2. b.tracker.start =< Now
        BY <3>4, <3>7
      <4>3. u \in Locks!LocksNow(t)
        BY <4>1, <4>2 DEF Locks!LocksNow, Locks!Seeking, Locks!Now, Now
      <4>4. QED
        BY <1>3, <2>1, <2>4, <2>7, <4>3
    <3>8. QED
      BY <3>5, <3>6, <3>7
  <2>8. QED
    BY <2>1, <2>5, <2>6, <2>7
<1>6. QED
  BY <1>4, <1>5

(* The two specifications derive the same scenario and remember it alike.  *)
LEMMA SameScenario ==
  ASSUME NEW c, NEW elapsed, NEW e, NEW sc
  PROVE  /\ Locks!ScenarioAt(c, elapsed) = ScenarioAt(c, elapsed)
         /\ Locks!PowerOn(e, sc) = PowerOn(e, sc)
         /\ Locks!Remember(sc) = Remember(sc)
         /\ Locks!Now = Now
         /\ Locks!NewEngine = NewEngine
BY DEF Locks!ScenarioAt, ScenarioAt, Locks!InOnPart, InOnPart, Locks!PowerOn, PowerOn,
       Locks!Remember, Remember, Locks!Now, Now, Locks!NewEngine, NewEngine

LEMMA LocksBegin ==
  ASSUME NEW sc, BeginEpoch(sc)
  PROVE  Locks!BeginEpoch(sc)
BY SameScenario DEF BeginEpoch, Locks!BeginEpoch

(* An epoch of all signals, whatever its transition left of them.          *)
LEMMA PoweredLockStep ==
  ASSUME TypeOK, NEW sc, NEW base, NEW ready, NEW h, NEW k,
         PoweredFrom(sc, base, ready, h, k),
         \A s \in Signals : Started(base[s].tracker)
  PROVE  /\ Locks!UpdateTrackers([s \in Signals |-> LockOf(base[s].tracker)], sc)
         /\ \A s \in Signals : runtime'[s].tracker.phase = "Tracking" => runtime'[s].tracker.start =< Now
<1>1. PICK condition \in [Signals -> Conditions], delay \in [Signals -> AcquisitionDelays] :
        runtime' = [s \in Signals |-> SignalEpoch(base[s], sc, condition[s], Now, ready, delay[s])]
  BY DEF PoweredFrom, PoweredEpoch
<1>2. PICK d \in StartupDelays : ready =< Now + d
  BY DEF PoweredFrom, EpochBefore
<1>3. Now \in Nat /\ config \in Scenarios /\ ready \in Nat /\ sc.signal \in BOOLEAN
  BY NowType DEF TypeOK, PoweredFrom, EpochBefore
<1>4. ASSUME NEW s \in Signals
      PROVE  /\ LockOf(runtime'[s].tracker) \in Locks!NextTrackers(LockOf(base[s].tracker), sc)
             /\ runtime'[s].tracker.phase = "Tracking" => runtime'[s].tracker.start =< Now
  <2> DEFINE b == base[s]  c == condition[s]  dl == delay[s]  n == runtime'[s]
             since == Carried(sc, s)  last == lastAdr[s]
  <2>1. /\ b \in Runtimes /\ c \in Conditions /\ dl \in AcquisitionDelays
        /\ SignalBefore(b, since, last, sc.signal, Now) /\ Started(b.tracker)
        /\ n = SignalEpoch(b, sc, c, Now, ready, dl)
    BY <1>1 DEF PoweredFrom, EpochBefore
  <2> HIDE DEF b, c, dl, n, since, last
  <2>2. /\ LockOf(n.tracker) \in Locks!NextTrackers(LockOf(b.tracker), sc)
        /\ n.tracker.phase = "Tracking" => n.tracker.start =< Now
    BY <1>2, <1>3, <2>1, SignalLockStep
  <2>3. QED
    BY <2>2 DEF b, n
<1> DEFINE before == [s \in Signals |-> LockOf(base[s].tracker)]
           after == [s \in Signals |-> LockOf(runtime'[s].tracker)]
<1>5. \A s \in Signals : after[s] \in Locks!NextTrackers(before[s], sc)
  BY <1>4
<1>6. after = [s \in Signals |-> LockOf(runtime[s].tracker)]'
  OBVIOUS
<1> HIDE DEF before
<1>7. after \in [Signals -> UNION {Locks!NextTrackers(before[s], sc) : s \in Signals}]
  BY <1>5
<1>8. Locks!UpdateTrackers(before, sc)
  BY <1>5, <1>6, <1>7 DEF Locks!UpdateTrackers
<1>9. QED
  BY <1>4, <1>8 DEF before

(* A step of the receiver is a step of its locks.                          *)
LockStep == Locks!LocksNext /\ StartedInv'

LEMMA StartedLater ==
  ASSUME TypeOK, NEW sc, BeginEpoch(sc), sc.powered \in BOOLEAN, sc.signal \in BOOLEAN,
         runtime' \in [Signals -> Runtimes],
         \A s \in Signals : runtime'[s].tracker.phase = "Tracking" => runtime'[s].tracker.start =< Now
  PROVE  StartedInv'
<1>1. Now \in Nat /\ Now' = Now + Interval /\ Interval \in Nat
  BY EpochBegun
<1>2. ASSUME NEW s \in Signals, runtime'[s].tracker.phase = "Tracking"
      PROVE  runtime'[s].tracker.start =< Now'
  <2>1. runtime'[s].tracker.start \in Nat /\ runtime'[s].tracker.start =< Now
    BY <1>2 DEF Runtimes, Trackers
  <2>2. QED
    BY <1>1, <2>1
<1>3. QED
  BY <1>2 DEF StartedInv, Started

LEMMA PowerOnLockStep ==
  ASSUME IInv, PowerOnEpoch
  PROVE  LockStep
<1> DEFINE sc == ScenarioAt(config, Now)
           base == [s \in Signals |-> PowerOnRuntime(Now)]
<1>1. PoweredFrom(sc, base, startupReady', FALSE, NoRtk) /\ BeginEpoch(sc) /\ PowerOn(engine, sc)
  BY PowerOnBefore DEF PowerOnEpoch
<1>2. TypeOK /\ Now \in Nat /\ runtime' \in [Signals -> Runtimes]
  BY NowType, IInvNext DEF IInv, TypeOK, Next
<1>3. sc.powered \in BOOLEAN /\ sc.signal \in BOOLEAN /\ sc = Locks!ScenarioAt(config, Locks!Now)
  BY ScenarioAtType, SameScenario
<1>4. PowerOnRuntime(Now).tracker = ResetTracker(Now)
  BY DEF PowerOnRuntime
<1>5. ResetTracker(Now) \in Trackers /\ ~ResetTracker(Now).scheduled
      /\ ResetTracker(Now).phase = "SignalOff"
  BY <1>2, ResetTrackerType DEF ResetTracker
<1>6. \A s \in Signals : Started(base[s].tracker)
  BY <1>4, <1>5 DEF Started
<1>7. [s \in Signals |-> LockOf(base[s].tracker)] = Locks!AllOff
  BY <1>4, <1>5, LockOfFacts DEF Locks!AllOff
<1> HIDE DEF sc, base
<1>8. /\ Locks!UpdateTrackers(Locks!AllOff, sc)
      /\ \A s \in Signals : runtime'[s].tracker.phase = "Tracking" => runtime'[s].tracker.start =< Now
  BY <1>1, <1>2, <1>6, <1>7, PoweredLockStep
<1>9. Locks!PowerOnLocks
  BY <1>1, <1>3, <1>8, LocksBegin, SameScenario DEF Locks!PowerOnLocks
<1>10. QED
  BY <1>1, <1>2, <1>3, <1>8, <1>9, StartedLater DEF LockStep, Locks!LocksNext

(* The powered epochs that are not the first: their signals are as they    *)
(* were, or, when the signals went off, all off.                           *)
LEMMA PoweredFromLockStep ==
  ASSUME IInv, Next, NEW base, NEW ready, NEW h, NEW k,
         PoweredFrom(ScenarioAt(config, Now), base, ready, h, k),
         ~PowerOn(engine, ScenarioAt(config, Now)),
         \A s \in Signals : Started(base[s].tracker),
         ScenarioAt(config, Now).signal =>
           \A s \in Signals : base[s].tracker = runtime[s].tracker
  PROVE  LockStep
<1> DEFINE sc == ScenarioAt(config, Now)
           before == [s \in Signals |-> LockOf(base[s].tracker)]
           trackers == [s \in Signals |-> LockOf(runtime[s].tracker)]
<1>1. TypeOK /\ runtime' \in [Signals -> Runtimes]
  BY IInvNext DEF IInv, TypeOK
<1>2. sc.powered \in BOOLEAN /\ sc.signal \in BOOLEAN /\ sc = Locks!ScenarioAt(config, Locks!Now)
  BY ScenarioAtType, SameScenario
<1>3. /\ Locks!UpdateTrackers(before, sc)
      /\ \A s \in Signals : runtime'[s].tracker.phase = "Tracking" => runtime'[s].tracker.start =< Now
  BY <1>1, PoweredLockStep
<1>4. sc.signal => before = trackers
  OBVIOUS
<1>5. BeginEpoch(sc) /\ sc.powered /\ ~PowerOn(engine, sc)
  BY DEF PoweredFrom
<1> HIDE DEF sc, before
<1>6. ~sc.signal => \A s \in Signals :
        Locks!NextTrackers(before[s], sc) = Locks!NextTrackers(trackers[s], sc)
  BY DEF Locks!NextTrackers
<1>7. Locks!UpdateTrackers(trackers, sc)
  BY <1>3, <1>4, <1>6 DEF Locks!UpdateTrackers
<1>8. Locks!PoweredLocks
  BY <1>2, <1>5, <1>7, LocksBegin, SameScenario DEF Locks!PoweredLocks
<1>9. QED
  BY <1>1, <1>2, <1>3, <1>5, <1>8, StartedLater DEF LockStep, Locks!LocksNext

LEMMA SignalOffLockStep ==
  ASSUME IInv, SignalOffEpoch
  PROVE  LockStep
<1> DEFINE base == [s \in Signals |-> SignalOffRuntime(runtime[s], Now)]
<1>1. /\ PoweredFrom(ScenarioAt(config, Now), base, startupReady, hint, NoRtk)
      /\ SignalOff(engine, ScenarioAt(config, Now))
  BY SignalOffBefore DEF SignalOffEpoch
<1>2. ~ScenarioAt(config, Now).signal /\ ~PowerOn(engine, ScenarioAt(config, Now))
  BY <1>1 DEF SignalOff, PowerOn, IInv, PowerInv
<1>3. ASSUME NEW s \in Signals PROVE Started(base[s].tracker)
  <2>1. runtime[s] \in Runtimes /\ Now \in Nat /\ NotAhead(runtime[s], Now)
    BY RuntimeTypes DEF SignalInv
  <2>2. base[s].tracker.phase = "SignalOff"
    BY <2>1, SignalOffRuntimes
  <2>3. QED
    BY <2>2 DEF Started
<1> HIDE DEF base
<1>4. Next
  BY DEF Next
<1>5. QED
  BY <1>1, <1>2, <1>3, <1>4, PoweredFromLockStep

LEMMA RunningLockStep ==
  ASSUME IInv, StartedInv, RunningEpoch
  PROVE  LockStep
<1>1. /\ PoweredFrom(ScenarioAt(config, Now), runtime, startupReady, hint, rtk)
      /\ ~PowerOn(engine, ScenarioAt(config, Now))
  BY RunningBefore DEF RunningEpoch
<1>2. Next
  BY DEF Next
<1>3. QED
  BY <1>1, <1>2, PoweredFromLockStep DEF StartedInv

(* Without power every signal is off.                                      *)
LEMMA SilentLockStep ==
  ASSUME IInv, NEW sc, sc = ScenarioAt(config, Now), BeginEpoch(sc), ~sc.powered,
         runtime' \in [Signals -> Runtimes],
         \A s \in Signals :
           ~runtime'[s].tracker.scheduled /\ runtime'[s].tracker.phase # "Tracking"
  PROVE  LockStep
<1>1. TypeOK /\ sc.powered \in BOOLEAN /\ sc.signal \in BOOLEAN
      /\ sc = Locks!ScenarioAt(config, Locks!Now)
  BY ScenarioAtType, SameScenario DEF IInv
<1>2. \A s \in Signals : LockOf(runtime'[s].tracker) = Locks!TrackerOff
  <2> TAKE s \in Signals
  <2>1. runtime'[s].tracker \in Trackers
    BY DEF Runtimes
  <2>2. QED
    BY <2>1, LockOfFacts
<1>3. [s \in Signals |-> LockOf(runtime[s].tracker)]' = Locks!AllOff
  BY <1>2 DEF Locks!AllOff
<1>4. Locks!UnpoweredLocks
  BY <1>1, <1>3, LocksBegin DEF Locks!UnpoweredLocks
<1>5. StartedInv'
  BY <1>1, StartedLater
<1>6. QED
  BY <1>4, <1>5 DEF LockStep, Locks!LocksNext

LEMMA PowerOffLockStep ==
  ASSUME IInv, PowerOffEpoch
  PROVE  LockStep
<1> DEFINE sc == ScenarioAt(config, Now)
<1>1. BeginEpoch(sc) /\ PowerOff(engine, sc)
      /\ runtime' = [s \in Signals |-> PowerOffRuntime(runtime[s], Now)]
  BY DEF PowerOffEpoch
<1>2. ASSUME NEW s \in Signals
      PROVE  ~runtime'[s].tracker.scheduled /\ runtime'[s].tracker.phase # "Tracking"
  <2>1. runtime[s] \in Runtimes /\ Now \in Nat
    BY RuntimeTypes
  <2>2. QED
    BY <1>1, <2>1, ResetRuntimes
<1>3. runtime' \in [Signals -> Runtimes]
  BY IInvNext DEF IInv, TypeOK, Next
<1> HIDE DEF sc
<1>4. ~sc.powered
  BY <1>1 DEF PowerOff
<1>5. QED
  BY <1>1, <1>2, <1>3, <1>4, SilentLockStep DEF sc

LEMMA UnpoweredLockStep ==
  ASSUME IInv, UnpoweredEpoch
  PROVE  LockStep
<1> DEFINE sc == ScenarioAt(config, Now)
<1>1. BeginEpoch(sc) /\ ~sc.powered /\ ~PowerOff(engine, sc) /\ runtime' = runtime
  BY DEF UnpoweredEpoch
<1> HIDE DEF sc
<1>2. ~engine.signal
  BY <1>1 DEF PowerOff, IInv, PowerInv
<1>3. ASSUME NEW s \in Signals
      PROVE  ~runtime'[s].tracker.scheduled /\ runtime'[s].tracker.phase # "Tracking"
  <2>1. SignalInv(runtime[s], onSince[s], Now) /\ ~runtime[s].tracker.scheduled
    BY <1>2, RuntimeTypes DEF IInv, PowerInv
  <2>2. QED
    BY <1>1, <2>1 DEF SignalInv
<1>4. runtime' \in [Signals -> Runtimes]
  BY <1>1 DEF IInv, TypeOK
<1>5. QED
  BY <1>1, <1>3, <1>4, SilentLockStep DEF sc

LEMMA LocksNextStep ==
  ASSUME IInv, StartedInv, [Next]_vars
  PROVE  StartedInv' /\ [Locks!LocksNext]_(Locks!lockVars)
<1>1. CASE Next
  BY <1>1, PowerOnLockStep, SignalOffLockStep, RunningLockStep, PowerOffLockStep, UnpoweredLockStep
     DEF Next, LockStep
<1>2. CASE UNCHANGED vars
  <2>1. UNCHANGED <<config, epoch, engine, runtime>>
    BY <1>2 DEF vars
  <2>2. UNCHANGED Locks!lockVars
    BY <2>1 DEF Locks!lockVars
  <2>3. StartedInv'
    BY <2>1 DEF StartedInv, Started, Now
  <2>4. QED
    BY <2>2, <2>3
<1>3. QED
  BY <1>1, <1>2

LEMMA LocksInitStep ==
  ASSUME Init
  PROVE  StartedInv /\ Locks!LocksInit
<1>1. ASSUME NEW s \in Signals PROVE runtime[s].tracker = ResetTracker(0)
  BY DEF Init, PowerOnRuntime
<1>2. ResetTracker(0) \in Trackers /\ ~ResetTracker(0).scheduled /\ ResetTracker(0).phase = "SignalOff"
  BY ResetTrackerType DEF ResetTracker
<1>3. StartedInv
  BY <1>1, <1>2 DEF StartedInv, Started
<1>4. [s \in Signals |-> LockOf(runtime[s].tracker)] = Locks!AllOff
  BY <1>1, <1>2, LockOfFacts DEF Locks!AllOff
<1>5. QED
  BY <1>3, <1>4, SameScenario DEF Init, Locks!LocksInit

-----------------------------------------------------------------------------
(* The theorems, for every set of signals, every interval, every delay and *)
(* every scenario the configuration accepts.                               *)

\* Every state of the epoch loop is well typed: no subtraction of times ever
\* leaves the natural numbers, whatever the cycles reset.
THEOREM TypeCorrect == Spec => []TypeOK
<1>1. IInv => TypeOK
  BY DEF IInv
<1>2. QED
  BY <1>1, InvariantHolds, PTL

\* No epoch of run_simulator returns one of its internal errors: the schedule,
\* the tracker update, the measurement error and the BESTPOS clock always meet
\* the preconditions their functions check.
THEOREM EpochsSucceed == Spec => []EpochsNeverFail
<1>1. IInv => EpochsNeverFail
  BY DEF IInv
<1>2. QED
  BY <1>1, InvariantHolds, PTL

\* update_tracking_and_measurements never lets a lock reach back across a loss
\* of signal, of visibility or of power.
THEOREM LocksAreWithinAvailability == Spec => []LockWithinAvailability
<1>1. IInv => LockWithinAvailability
  <2> SUFFICES ASSUME IInv, NEW s \in Signals, runtime[s].tracker.phase = "Tracking"
               PROVE  onSince[s] # None /\ runtime[s].tracker.start >= onSince[s]
    BY DEF LockWithinAvailability
  <2>1. SignalInv(runtime[s], onSince[s], Now)
    BY RuntimeTypes
  <2>2. onSince[s] # None /\ onSince[s] =< runtime[s].tracker.start
    BY <2>1 DEF SignalInv, LockStart
  <2>3. runtime[s].tracker.start \in Nat /\ onSince[s] \in Int
    BY RuntimeTypes DEF Runtimes, Trackers, None
  <2>4. QED
    BY <2>2, <2>3
<1>2. QED
  BY <1>1, InvariantHolds, PTL

\* A signal that has been available for the longest startup, acquisition and
\* carrier-phase delays reports its carrier phase, whatever cut its earlier
\* acquisitions short.
THEOREM SignalsRecover == Spec => []RecoversInTime
<1>1. IInv => RecoversInTime
  <2> SUFFICES ASSUME IInv, NEW s \in seen, onSince[s] # None,
                      \A u \in StartupDelays, a \in AcquisitionDelays :
                        Now - Interval - onSince[s] >= u + a + AdrValidDelay
               PROVE  s \in DOMAIN obs /\ obs[s].adr
    BY DEF RecoversInTime
  <2>1. s \in Signals
    BY DEF IInv, TypeOK
  <2>2. SignalInv(runtime[s], onSince[s], Now)
    BY <2>1, RuntimeTypes
  <2>3. PICK u \in StartupDelays, a \in AcquisitionDelays : runtime[s].tracker.start =< onSince[s] + u + a
    BY <2>2 DEF SignalInv, LockStart
  <2>4. Now - Interval - onSince[s] >= u + a + AdrValidDelay
    OBVIOUS
  <2>5. /\ runtime[s].tracker.start \in Nat /\ onSince[s] \in Nat /\ Now \in Nat
        /\ Interval \in Nat /\ u \in Nat /\ a \in Nat /\ AdrValidDelay \in Nat
    BY <2>1, RuntimeTypes, ReceiverAssumption, ValidDelaysAssumption DEF Runtimes, Trackers
  <2>6. Now - Interval >= runtime[s].tracker.start + AdrValidDelay
    BY <2>3, <2>4, <2>5
  <2>7. QED
    BY <2>6 DEF IInv, ReportInv
<1>2. QED
  BY <1>1, InvariantHolds, PTL

\* The BESTPOS fix of update_bestpos_rtk_state is held exactly when every epoch
\* of the last StableDuration qualified; a velocity needs a position computed
\* since power-on.
THEOREM FixesAreEarned == Spec => []FixIsEarned
<1>1. IInv => FixIsEarned
  BY DEF IInv
<1>2. QED
  BY <1>1, InvariantHolds, PTL

\* Two carrier phases reported of one signal have the ambiguity of one lock (the
\* ambiguity epoch of the truth) exactly when the signal was not lost between them.
THEOREM AmbiguitiesIdentifyLocks == Spec => AmbiguityIdentifiesLock
<1>1. IInv /\ [Next]_vars => [ReportsTellLoss]_vars
  BY IInvNext
<1>2. ReportsTellLoss <=>
        \A s \in Signals :
          s \in DOMAIN obs' /\ obs'[s].adr /\ lastAdr[s].ambiguity # None =>
            (obs'[s].ambiguity = lastAdr[s].ambiguity <=> ~lastAdr[s].lost)
  BY DEF ReportsTellLoss
<1>3. QED
  BY <1>1, <1>2, InvariantHolds, PTL DEF Spec, AmbiguityIdentifiesLock

\* The trackers that update_tracking_and_measurements drives are those
\* process_receiver_nav relies on: one planned time for a signal that is searched
\* for, one start for a lock, and nothing of either left by an interruption.
THEOREM ImplementsSignalLocks == Spec => LocksServeNavigation
<1>1. Init => StartedInv /\ Locks!LocksInit
  BY LocksInitStep
<1>2. IInv /\ StartedInv /\ [Next]_vars => StartedInv' /\ [Locks!LocksNext]_(Locks!lockVars)
  BY LocksNextStep
<1>3. QED
  BY <1>1, <1>2, InvariantHolds, PTL DEF Spec, LocksServeNavigation, Locks!LocksSpec
===============================================================================

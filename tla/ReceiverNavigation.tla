-------------------------- MODULE ReceiverNavigation --------------------------
(***************************************************************************)
(* How the receiver comes by its ephemerides.  The broadcast (truth)       *)
(* navigation records are scheduled by transmission time.  A HOT or WARM   *)
(* receiver starts from a snapshot of what was already broadcast and takes *)
(* every later record while it tracks a signal that carries it.  A COLD one*)
(* starts empty: a family of a satellite first has to be acquired, which   *)
(* takes until all the fragments of a message have been on air.            *)
(*                                                                         *)
(* One epoch of the loop is one step: a step of SignalLocks, which says    *)
(* all that this module relies on of the trackers, and what the navigation *)
(* makes of it.  A "family" is one message family of one satellite.        *)
(***************************************************************************)
EXTENDS SignalLocks, Sequences, FiniteSetsExt

CONSTANTS
  Families,       (* message families, one of one satellite each           *)
  Ion,            (* stands for the family of an ionosphere record         *)
  TruthSchedule,  (* the truth records, by transmission time               *)
  Broadcast       (* per signal: what it carries and its frame layout      *)

Records == DOMAIN TruthSchedule

Fragments == [slot : Nat, duration : Nat \ {0}]

ASSUME NavigationAssumption ==
  /\ Ion \notin Families
  /\ TruthSchedule \in Seq([family : Families \cup {Ion}, transmit : Int])
  /\ \A q, r \in Records : q < r => TruthSchedule[q].transmit <= TruthSchedule[r].transmit
  /\ \A s \in Signals :
       /\ Broadcast[s].family \in Families
       /\ Broadcast[s].cycle  \in Nat \ {0}
       /\ Broadcast[s].offset \in Int
       /\ IsFiniteSet(Broadcast[s].fragments)
       /\ Broadcast[s].fragments \in (SUBSET Fragments) \ {{}}

VARIABLES
  delivered,  (* delivered_records: received, or given up for a newer one  *)
  store,      (* the records in the receiver's navigation store            *)
  received,   (* the records applied in the last epoch                     *)
  cold,       (* per family: acquired, and the plan it follows             *)
  firstLock   (* history, per signal: its first lock since power-on        *)

vars == <<lockVars, delivered, store, received, cold, firstLock>>

Mode == ScenarioStartupMode(config)

-----------------------------------------------------------------------------
(* The broadcast.                                                          *)

Family(r)   == TruthSchedule[r].family
Transmit(r) == TruthSchedule[r].transmit

(* record_is_available; the schedule is sorted, so the loops that stop at  *)
(* the first record still to come see all of these.                        *)
Available == {r \in Records : Transmit(r) <= Now}

Undelivered(done, f) == {r \in Available \ done : Family(r) = f}

(* set_fragment: the end of the first whole transmission of a fragment     *)
(* that begins at or after a time.                                         *)
FragmentCompletion(s, fragment, from) ==
  from + ((fragment.slot - (from + Broadcast[s].offset)) % Broadcast[s].cycle) + fragment.duration

(* The availability time of the plan that collects on s from a time on.    *)
PlanAvailability(s, from) ==
  Max({FragmentCompletion(s, fragment, from) : fragment \in Broadcast[s].fragments})

(* The state process_receiver_nav works on; the receiver_power_on of this  *)
(* epoch may just have renewed it.                                         *)
Unacquired == [acquired |-> FALSE, target |-> None, available |-> None]
Acquired   == [acquired |-> TRUE,  target |-> None, available |-> None]

ColdFamilies(f) ==
  [acquired : BOOLEAN, target : {r \in Records : Family(r) = f} \cup {None}, available : Int]

(* initialize_receiver_navigation: the snapshot holds the newest record of *)
(* each family (the first, among equals) and every ionosphere record.      *)
Snapshot ==
  {r \in Available :
     \/ Family(r) = Ion
     \/ \A q \in Available : Family(q) = Family(r) =>
          Transmit(q) < Transmit(r) \/ (Transmit(q) = Transmit(r) /\ r <= q)}

PoweredOn ==
  [delivered |-> IF Mode = "COLD" THEN {} ELSE Available,
   store     |-> IF Mode = "COLD" THEN {} ELSE Snapshot,
   cold      |-> [f \in Families |-> Unacquired]]

Current == [delivered |-> delivered, store |-> store, cold |-> cold]

-----------------------------------------------------------------------------
(* What the navigation reads of the trackers.                              *)

Tracking(tr) == {s \in Signals : tr[s].phase = "Tracking"}

(* family_tracking *)
Carriers(tr, f) == {s \in Tracking(tr) : Broadcast[s].family = f}
-----------------------------------------------------------------------------
(* process_cold_nav, on the state n and the trackers tr.                   *)

(* best_cold_plan: collecting starts when both the record is on air and    *)
(* the signal is tracked; the carrier that is done first wins.             *)
CollectsFromMutant(tr, s, r) == Transmit(r)
CollectsFrom(tr, s, r) ==
  IF Transmit(r) >= tr[s].start THEN Transmit(r) ELSE tr[s].start

BestPlan(tr, f, r) == Min({PlanAvailability(s, CollectsFrom(tr, s, r)) : s \in Carriers(tr, f)})

(* latest_cold_target *)
ColdTarget(n, f) == Max(Undelivered(n.delivered, f))

(* A family still to be acquired that has a record on air and a carrier.   *)
Collecting(n, tr, f) ==
  ~n.cold[f].acquired /\ Undelivered(n.delivered, f) # {} /\ Carriers(tr, f) # {}

(* The plan is kept unless its target is outdated or the new one is sooner.*)
FollowedPlanMutant(c, target, available) ==
  IF c.target # target THEN [c EXCEPT !.target = target, !.available = available] ELSE c
FollowedPlan(c, target, available) ==
  IF c.target # target \/ available < c.available
    THEN [c EXCEPT !.target = target, !.available = available]
    ELSE c

ColdPlan(n, tr, f) ==
  FollowedPlan(n.cold[f], ColdTarget(n, f), BestPlan(tr, f, ColdTarget(n, f)))

(* nav_acquisition_complete, for the plan followed: all its fragments are  *)
(* complete when the last one is.                                          *)
Completes(n, tr, f) == Collecting(n, tr, f) /\ ColdPlan(n, tr, f).available <= Now

ColdReceived(n, tr, f) ==
  CASE n.cold[f].acquired  -> IF Carriers(tr, f) # {} THEN Undelivered(n.delivered, f) ELSE {}
    [] Completes(n, tr, f) -> {ColdTarget(n, f)}
    [] OTHER               -> {}

(* suppress_superseded_cold_records *)
SupersededDropped(n, tr, f) == {}
SupersededUnordered(n, tr, f) == {r \in Records : Completes(n, tr, f) /\ Family(r) = f}
Superseded(n, tr, f) ==
  {r \in Records : /\ Completes(n, tr, f)
                   /\ Family(r) = f
                   /\ Transmit(r) <= Transmit(ColdTarget(n, f))}

ColdAfter(n, tr, f) ==
  CASE Completes(n, tr, f) -> Acquired
    [] Collecting(n, tr, f) /\ ~Completes(n, tr, f) -> ColdPlan(n, tr, f)
    [] OTHER -> n.cold[f]

(* process_normal_nav *)
NormalReceivedMutant(n, tr, f) ==
  {r \in Undelivered(n.delivered, f) :
     Carriers(tr, f) # {} /\ r = Max(Undelivered(n.delivered, f))}
NormalReceived(n, tr, f) == IF Carriers(tr, f) # {} THEN Undelivered(n.delivered, f) ELSE {}

(* any_tracking is enough for the ionosphere records, in both.             *)
IonReceived(n, tr) == IF Tracking(tr) # {} THEN Undelivered(n.delivered, Ion) ELSE {}

ProcessColdNav(n, tr) ==
  /\ received' = (UNION {ColdReceived(n, tr, f) : f \in Families}) \cup IonReceived(n, tr)
  /\ delivered' = n.delivered \cup received' \cup (UNION {Superseded(n, tr, f) : f \in Families})
  /\ cold' = [f \in Families |-> ColdAfter(n, tr, f)]

ProcessNormalNav(n, tr) ==
  /\ received' = (UNION {NormalReceived(n, tr, f) : f \in Families}) \cup IonReceived(n, tr)
  /\ delivered' = n.delivered \cup received'
  /\ cold' = n.cold

ProcessReceiverNav(n, tr) ==
  /\ IF Mode = "COLD" THEN ProcessColdNav(n, tr) ELSE ProcessNormalNav(n, tr)
  /\ store' = n.store \cup received'

-----------------------------------------------------------------------------
Init ==
  /\ LocksInit
  /\ delivered = {}
  /\ store = {}
  /\ received = {}
  /\ cold = [f \in Families |-> Unacquired]
  /\ firstLock = [s \in Signals |-> None]

RememberLocks(before) ==
  firstLock' = [s \in Signals |->
    IF before[s] = None /\ s \in Tracking(trackers') THEN trackers'[s].start ELSE before[s]]

(* receiver_power_on, then the epoch. *)
PowerOnEpoch ==
  /\ PowerOnLocks
  /\ ProcessReceiverNav(PoweredOn, trackers')
  /\ RememberLocks([s \in Signals |-> None])

PoweredEpoch ==
  /\ PoweredLocks
  /\ ProcessReceiverNav(Current, trackers')
  /\ RememberLocks(firstLock)

(* receiver_power_off resets the trackers and nothing of the navigation:   *)
(* what the receiver knows stays until it is powered on again.             *)
UnpoweredEpoch ==
  /\ UnpoweredLocks
  /\ received' = {}
  /\ UNCHANGED <<delivered, store, cold, firstLock>>

Next == PowerOnEpoch \/ PoweredEpoch \/ UnpoweredEpoch

Spec == Init /\ [][Next]_vars

-----------------------------------------------------------------------------
(* Properties.                                                             *)

LastEpoch == Now - Interval

\* The type of every variable; the plan of a family aims at a record of it.
TypeOK ==
  /\ config \in Scenarios
  /\ epoch \in Nat
  /\ engine \in Engines
  /\ trackers \in [Signals -> [phase : {"SignalOff", "Searching", "Tracking"}, start : Int]]
  /\ delivered \subseteq Records
  /\ store \subseteq Records
  /\ received \subseteq Records
  /\ DOMAIN cold = Families /\ \A f \in Families : cold[f] \in ColdFamilies(f)
  /\ firstLock \in [Signals -> Int]

\* The receiver is given each record at most once between power-ons, and of
\* one family never an older record after a newer one: neither the snapshot
\* of power-on, nor a long outage, nor the record a cold start picks lets an
\* old ephemeris come after a new one.
NewestLast ==
  [][~PowerOn(engine, ScenarioAt(config, Now)) =>
       \A r \in received', q \in store : Family(r) = Family(q) => q < r]_vars

\* The store holds what was delivered, and only what was already broadcast.
\* A record given up is older than one of its family that the store holds.
DeliveredOnAir ==
  /\ store \subseteq delivered
  /\ \A r \in delivered :
       /\ Transmit(r) <= LastEpoch
       /\ r \in store \/ \E q \in store : Family(q) = Family(r) /\ Transmit(q) >= Transmit(r)

(* All of r was on air on the signal s after a time.                       *)
Transmitted(r, s, from) == PlanAvailability(s, Max({Transmit(r), from})) <= LastEpoch

(* A carrier of the family had the time to collect r, had it been tracked  *)
(* without interruption since its first lock of this power cycle.          *)
Earned(r, s) ==
  /\ Broadcast[s].family = Family(r)
  /\ firstLock[s] # None
  /\ Transmitted(r, s, firstLock[s])

\* A COLD receiver holds a family only after the time it takes a carrier
\* to transmit every fragment of one of its records, from its first lock on.
ColdEphemerisIsCollected ==
  Mode = "COLD" =>
    \A f \in Families :
      (\E r \in store : Family(r) = f) => \E r \in store, s \in Signals : Family(r) = f /\ Earned(r, s)

\* A tracked carrier delivers in time: when it has been tracked for as long as
\* it takes to transmit the newest record of its family, that record has
\* been received, whatever plan the receiver followed before.
CollectionMeetsDeadline ==
  \A s \in Tracking(trackers) :
    LET onAir == {r \in Records : /\ Family(r) = Broadcast[s].family
                                  /\ Transmit(r) <= LastEpoch}
    IN  onAir # {} /\ Transmitted(Max(onAir), s, trackers[s].start)
          => Max(onAir) \in delivered

\* Nothing is withheld: a receiver that is not collecting its first record of a
\* family holds all that was broadcast of the family, or newer, whenever it
\* tracks a carrier; and all ionosphere records whenever it tracks anything.
NothingWithheld ==
  \A r \in Records :
    Transmit(r) <= LastEpoch =>
      \/ r \in delivered
      \/ Family(r) = Ion /\ Tracking(trackers) = {}
      \/ Family(r) # Ion /\ Carriers(trackers, Family(r)) = {}
      \/ Family(r) # Ion /\ Mode = "COLD" /\ ~cold[Family(r)].acquired
===============================================================================

-------------------------- MODULE UrbanTrackingProofs --------------------------
(***************************************************************************)
(* Proofs of UrbanTracking, for every scenario, interval, delay, threshold *)
(* and every set of environments.                                          *)
(*                                                                         *)
(* What the discriminator selects comes first: SelectRoot returns a stable *)
(* root whenever there is one and, for a lock, the one nearest to the last *)
(* phase.  Outcome then says what one update may make of a tracker, Seen   *)
(* what one epoch makes of the whole state, and IInv is the invariant that *)
(* every kind of epoch preserves.                                          *)
(***************************************************************************)
EXTENDS UrbanTracking, WellFoundedInduction, NaturalsInduction, SequenceTheorems, TLAPS

-----------------------------------------------------------------------------
(* A set of natural numbers has a smallest member: what holds of every     *)
(* number is proved from the smallest one of which it would not hold.      *)
LEMMA SmallestNat ==
  ASSUME NEW S \in SUBSET Nat, S # {}
  PROVE  \E n \in S : \A m \in S : n =< m
<1> DEFINE Less == OpToRel(<, Nat)
<1>1. IsWellFoundedOn(Less, Nat)
  BY NatLessThanWellFounded
<1>2. \A m, n \in Nat : m < n => <<m, n>> \in Less
  BY DEF OpToRel
<1> HIDE DEF Less
<1>3. PICK n \in S : \A m \in S : ~(<<m, n>> \in Less)
  BY <1>1, WFMin
<1>4. ASSUME NEW m \in S PROVE n =< m
  <2>1. m \in Nat /\ n \in Nat
    OBVIOUS
  <2>2. ~(m < n)
    BY <1>2, <1>3, <2>1
  <2>3. QED
    BY <2>1, <2>2
<1>5. QED
  BY <1>4

(* The root select_code_tracking_dll_root chooses.                         *)

(* The function that one pass over the list computes, up to the root n.    *)
IsSelection(f, n, roots, mode, previous) ==
  f = [m \in 0 .. n |->
         IF m = 0 THEN 0 ELSE BetterRoot(roots, mode, previous, f[m - 1], m)]

(* It exists: the shortest list without it would have one, by one step.    *)
LEMMA SelectionExists ==
  ASSUME NEW roots \in Seq(Roots), NEW mode, NEW previous, NEW n \in Nat
  PROVE  \E f : IsSelection(f, n, roots, mode, previous)
<1> DEFINE Bad == {m \in Nat : ~\E f : IsSelection(f, m, roots, mode, previous)}
<1>1. SUFFICES ASSUME Bad # {} PROVE FALSE
  OBVIOUS
<1>2. PICK k \in Bad : \A m \in Bad : k =< m
  BY <1>1, SmallestNat
<1>3. CASE k = 0
  <2>1. IsSelection([m \in 0 .. 0 |-> 0], 0, roots, mode, previous)
    BY DEF IsSelection
  <2>2. QED
    BY <1>3, <2>1
<1>4. CASE k # 0
  <2>1. k - 1 \in Nat /\ ~(k =< k - 1)
    BY <1>4
  <2>2. PICK f : IsSelection(f, k - 1, roots, mode, previous)
    BY <1>2, <2>1
  <2> DEFINE g == [m \in 0 .. k |-> IF m = k THEN BetterRoot(roots, mode, previous, f[k - 1], k)
                                             ELSE f[m]]
  <2>3. \A m \in 0 .. k :
          g[m] = IF m = 0 THEN 0 ELSE BetterRoot(roots, mode, previous, g[m - 1], m)
    <3> TAKE m \in 0 .. k
    <3>1. CASE m = k
      BY <1>4, <3>1
    <3>2. CASE m # k
      <4>1. m \in 0 .. k - 1 /\ (m # 0 => m - 1 \in 0 .. k - 1 /\ m - 1 # k)
        BY <3>2
      <4>2. g[m] = f[m] /\ (m # 0 => g[m - 1] = f[m - 1])
        BY <4>1
      <4>3. f[m] = IF m = 0 THEN 0 ELSE BetterRoot(roots, mode, previous, f[m - 1], m)
        BY <2>2, <4>1 DEF IsSelection
      <4> HIDE DEF g
      <4>4. QED
        BY <4>2, <4>3
    <3>3. QED
      BY <3>1, <3>2
  <2>4. IsSelection(g, k, roots, mode, previous)
    <3>1. g = [m \in 0 .. k |-> g[m]]
      OBVIOUS
    <3> HIDE DEF g
    <3>2. QED
      BY <2>3, <3>1 DEF IsSelection
  <2>5. QED
    BY <2>4
<1>5. QED
  BY <1>3, <1>4

LEMMA SelectRootUnfolds ==
  ASSUME NEW roots \in Seq(Roots), NEW mode, NEW previous
  PROVE  \E f : /\ IsSelection(f, Len(roots), roots, mode, previous)
                /\ SelectRoot(roots, mode, previous) = f[Len(roots)]
<1> DEFINE f == CHOOSE f : IsSelection(f, Len(roots), roots, mode, previous)
<1>1. Len(roots) \in Nat
  OBVIOUS
<1>2. IsSelection(f, Len(roots), roots, mode, previous)
  BY <1>1, SelectionExists
<1>3. SelectRoot(roots, mode, previous) = f[Len(roots)]
  BY DEF SelectRoot, IsSelection
<1>4. QED
  BY <1>2, <1>3

(* What the pass has chosen among the first n roots: a stable one if there *)
(* is one, and, when it follows a code phase, none is closer to it.        *)
ChosenAmong(i, n, roots, mode, previous) ==
  /\ i \in 0 .. n
  /\ i = 0 => \A k \in 1 .. n : ~roots[k].stable
  /\ i # 0 => roots[i].stable
  /\ i # 0 /\ mode = "TRACKED" =>
       \A k \in 1 .. n : roots[k].stable =>
         Distance(roots[i].phase, previous) =< Distance(roots[k].phase, previous)

LEMMA DistanceType ==
  ASSUME NEW a \in Int, NEW b \in Int
  PROVE  Distance(a, b) \in Nat /\ (Distance(a, b) = 0 <=> a = b)
BY DEF Distance

LEMMA ChosenStep ==
  ASSUME NEW roots \in Seq(Roots), NEW mode \in SelectionModes, NEW previous \in Int,
         NEW n \in 1 .. Len(roots), NEW i, ChosenAmong(i, n - 1, roots, mode, previous)
  PROVE  ChosenAmong(BetterRoot(roots, mode, previous, i, n), n, roots, mode, previous)
<1> DEFINE D(k) == Distance(roots[k].phase, previous)
<1>1. \A k \in 1 .. n : roots[k] \in Roots /\ D(k) \in Nat
  <2> TAKE k \in 1 .. n
  <2>1. roots[k] \in Roots
    BY ElementOfSeq
  <2>2. QED
    BY <2>1, DistanceType DEF Roots
<1>2. i \in 0 .. n - 1
  BY DEF ChosenAmong
<1>3. \A k \in 1 .. n : k # n => k \in 1 .. n - 1
  OBVIOUS
<1>4. CASE ~roots[n].stable
  <2>1. BetterRoot(roots, mode, previous, i, n) = i
    BY <1>4 DEF BetterRoot
  <2>2. QED
    BY <1>2, <1>3, <1>4, <2>1 DEF ChosenAmong
<1>5. CASE roots[n].stable /\ i = 0
  <2>1. BetterRoot(roots, mode, previous, i, n) = n
    BY <1>5 DEF BetterRoot
  <2>2. \A k \in 1 .. n : roots[k].stable => k = n
    BY <1>3, <1>5 DEF ChosenAmong
  <2>3. \A k \in 1 .. n : roots[k].stable => D(n) =< D(k)
    BY <1>1, <2>2
  <2>4. QED
    BY <1>5, <2>1, <2>3 DEF ChosenAmong
<1>6. CASE roots[n].stable /\ i # 0
  <2> DEFINE p == Prefer(mode, roots[n], roots[i], previous)
  <2>1. BetterRoot(roots, mode, previous, i, n) = IF p THEN n ELSE i
    BY <1>6 DEF BetterRoot
  <2>2. roots[i].stable /\ i \in 1 .. n - 1
    BY <1>2, <1>6 DEF ChosenAmong
  <2>3. mode = "TRACKED" => (p => D(n) =< D(i)) /\ (~p => D(i) =< D(n))
    BY <1>1, <2>2 DEF Prefer, PreferTracked
  <2>4. mode = "TRACKED" => \A k \in 1 .. n - 1 : roots[k].stable => D(i) =< D(k)
    BY <1>6 DEF ChosenAmong
  <2> HIDE DEF p, D
  <2>5. CASE p
    <3>1. mode = "TRACKED" => \A k \in 1 .. n : roots[k].stable => D(n) =< D(k)
      BY <1>1, <1>3, <2>2, <2>3, <2>4, <2>5
    <3>2. QED
      BY <1>6, <2>1, <2>5, <3>1 DEF ChosenAmong, D
  <2>6. CASE ~p
    <3>1. mode = "TRACKED" => \A k \in 1 .. n : roots[k].stable => D(i) =< D(k)
      BY <1>1, <1>3, <2>2, <2>3, <2>4, <2>6
    <3>2. QED
      BY <1>6, <2>1, <2>2, <2>6, <3>1 DEF ChosenAmong, D
  <2>7. QED
    BY <2>5, <2>6
<1>7. QED
  BY <1>4, <1>5, <1>6

LEMMA SelectRootFacts ==
  ASSUME NEW roots \in Seq(Roots), NEW mode \in SelectionModes, NEW previous \in Int
  PROVE  ChosenAmong(SelectRoot(roots, mode, previous), Len(roots), roots, mode, previous)
<1>1. PICK f : /\ IsSelection(f, Len(roots), roots, mode, previous)
               /\ SelectRoot(roots, mode, previous) = f[Len(roots)]
  BY SelectRootUnfolds
<1> DEFINE Bad == {n \in 0 .. Len(roots) : ~ChosenAmong(f[n], n, roots, mode, previous)}
<1>2. Len(roots) \in Nat
  OBVIOUS
<1>3. SUFFICES ASSUME Bad # {} PROVE FALSE
  BY <1>1, <1>2
<1>4. PICK n \in Bad : \A m \in Bad : n =< m
  <2>1. Bad \in SUBSET Nat
    BY <1>2
  <2> HIDE DEF Bad
  <2>2. QED
    BY <1>3, <2>1, SmallestNat
<1>5. f[n] = IF n = 0 THEN 0 ELSE BetterRoot(roots, mode, previous, f[n - 1], n)
  BY <1>1, <1>2 DEF IsSelection
<1>6. n # 0
  BY <1>5 DEF ChosenAmong
<1>7. n \in 1 .. Len(roots) /\ n - 1 \in 0 .. Len(roots) /\ ~(n =< n - 1)
  BY <1>2, <1>6
<1>8. ChosenAmong(f[n - 1], n - 1, roots, mode, previous)
  BY <1>4, <1>7
<1>9. ChosenAmong(f[n], n, roots, mode, previous)
  BY <1>5, <1>6, <1>7, <1>8, ChosenStep
<1>10. QED
  BY <1>9

-----------------------------------------------------------------------------
(* One update of the tracker, by what becomes of it.                       *)

LEMMA RootsFacts ==
  /\ NoRoot \in FollowedRoots
  /\ \A r \in Roots : r.stable => r \in FollowedRoots
  /\ \A r \in FollowedRoots : r \in Roots
<1>1. NoRoot \in Roots
  BY DEF NoRoot, Roots
<1>2. QED
  BY <1>1 DEF FollowedRoots

(* The root the epoch selects and the power it finds depend on nothing but *)
(* whether a lock is held and at which code phase.                         *)
LEMMA PreselectedFacts ==
  ASSUME NEW t \in UrbanTrackers, NEW roots \in Seq(Roots)
  PROVE  /\ HasStableRoot(roots) =>
              \E k \in DOMAIN roots :
                /\ Preselected(t, roots) = roots[k] /\ roots[k].stable /\ roots[k] \in Roots
                /\ Tracked(t) => \A m \in DOMAIN roots : roots[m].stable =>
                     Distance(roots[k].phase, t.previous.phase)
                       =< Distance(roots[m].phase, t.previous.phase)
         /\ SelectRoot(roots, ModeOf(t), IF Tracked(t) THEN t.previous.phase ELSE 0) = 0
              <=> ~HasStableRoot(roots)
         /\ EffectiveCn0(t, roots) \in Int
         /\ EffectiveCn0(t, roots) >= MinTrackingCn0 => HasStableRoot(roots)
<1> DEFINE mode == ModeOf(t)
           previous == IF Tracked(t) THEN t.previous.phase ELSE 0
           i == SelectRoot(roots, mode, previous)
<1>1. mode \in SelectionModes /\ (Tracked(t) => mode = "TRACKED")
  BY DEF ModeOf, SelectionModes
<1>2. t.previous.phase \in Int
  BY RootsFacts DEF UrbanTrackers, Roots
<1>3. previous \in Int /\ (Tracked(t) => previous = t.previous.phase)
  BY <1>2
<1> HIDE DEF mode, previous
<1>4. ChosenAmong(i, Len(roots), roots, mode, previous)
  BY <1>1, <1>3, SelectRootFacts
<1>5. Preselected(t, roots) = IF i = 0 THEN NoRoot ELSE roots[i]
  BY DEF Preselected, mode, previous
<1> HIDE DEF i
<1>6. DOMAIN roots = 1 .. Len(roots) /\ Len(roots) \in Nat
  OBVIOUS
<1>7. i = 0 <=> ~HasStableRoot(roots)
  BY <1>4, <1>6 DEF ChosenAmong, HasStableRoot
<1>8. i # 0 => i \in DOMAIN roots /\ roots[i].stable /\ roots[i] \in Roots
  BY <1>4, <1>6, ElementOfSeq DEF ChosenAmong
<1>9. Tracked(t) /\ i # 0 => \A m \in DOMAIN roots : roots[m].stable =>
        Distance(roots[i].phase, t.previous.phase) =< Distance(roots[m].phase, t.previous.phase)
  BY <1>1, <1>3, <1>4, <1>6 DEF ChosenAmong
<1>10. HasStableRoot(roots) =>
         \E k \in DOMAIN roots :
           /\ Preselected(t, roots) = roots[k] /\ roots[k].stable /\ roots[k] \in Roots
           /\ Tracked(t) => \A m \in DOMAIN roots : roots[m].stable =>
                Distance(roots[k].phase, t.previous.phase)
                  =< Distance(roots[m].phase, t.previous.phase)
  BY <1>5, <1>7, <1>8, <1>9
<1>11. /\ EffectiveCn0(t, roots) \in Int
       /\ EffectiveCn0(t, roots) >= MinTrackingCn0 => HasStableRoot(roots)
  <2>1. CASE HasStableRoot(roots)
    <3>1. Preselected(t, roots) \in Roots
      BY <1>10, <2>1
    <3>2. QED
      BY <2>1, <3>1 DEF EffectiveCn0, Roots
  <2>2. CASE ~HasStableRoot(roots)
    BY <2>2, UrbanTrackingAssumption DEF EffectiveCn0, NoPower
  <2>3. QED
    BY <2>1, <2>2
<1>12. QED
  BY <1>7, <1>10, <1>11 DEF i, mode, previous

(* A root that is followed is one of the epoch's stable ones.              *)
Follows(u, s, roots) ==
  /\ HasStableRoot(roots)
  /\ \E k \in DOMAIN roots : roots[k].stable /\ u.previous = roots[k]
  /\ u.current = u.previous /\ u.current.stable /\ u.current = Preselected(s, roots)

AboveAfter(s, now, roots) ==
  IF EffectiveCn0(s, roots) < AcquisitionCn0 THEN Never
  ELSE IF s.above = Never THEN now ELSE s.above

BelowAfter(s, now, roots) ==
  IF EffectiveCn0(s, roots) >= MinTrackingCn0 THEN Never
  ELSE IF s.below = Never THEN now ELSE s.below

SamePlan(u, s) ==
  u.ready = s.ready /\ u.start = s.start /\ u.since = s.since /\ u.context = s.context

Gone(u, s, now) ==
  /\ u.phase = "SignalOff" /\ ~u.scheduled /\ u.since = now /\ u.above = Never
  /\ Tracked(s) => u.reason = "SignalUnavailable"

Waits(u, s, now) ==
  /\ ~Tracked(s) /\ now < s.ready
  /\ u.phase = "Searching" /\ u.scheduled /\ SamePlan(u, s) /\ u.above = Never

Acquires(u, s, now, roots) ==
  /\ ~Tracked(s) /\ now >= s.ready
  /\ u.phase = "Acquiring" /\ u.scheduled /\ SamePlan(u, s)
  /\ u.above = AboveAfter(s, now, roots)
  /\ ~(/\ u.above # Never /\ now - u.above >= AcquisitionPersistence
       /\ HasStableRoot(roots) /\ now >= s.start)

Enters(u, s, now, roots) ==
  /\ ~Tracked(s) /\ now >= s.ready /\ now >= s.start
  /\ AboveAfter(s, now, roots) # Never
  /\ now - AboveAfter(s, now, roots) >= AcquisitionPersistence
  /\ Tracked(u) /\ u.scheduled /\ u.since = now /\ u.start = now /\ u.ready = s.ready
  /\ u.above = Never /\ u.below = Never /\ ~u.adr
  /\ u.reacquired <=> s.context = "Reacquisition"
  /\ Follows(u, s, roots)

Loses(u, s, now, roots) ==
  /\ Tracked(s)
  /\ u.phase = "Searching" /\ ~u.scheduled /\ u.since = now /\ u.above = Never
  /\ \/ u.reason = "NoStableDllRoot" /\ ~HasStableRoot(roots)
     \/ /\ u.reason = "AbruptDllRootSwitch" /\ HasStableRoot(roots)
        /\ \A k \in DOMAIN roots : roots[k].stable =>
             Distance(roots[k].phase, s.previous.phase) > RootJump
     \/ /\ u.reason = "LowCn0"
        /\ BelowAfter(s, now, roots) # Never
        /\ now - BelowAfter(s, now, roots) >= LossPersistence

Keeps(u, s, now, roots) ==
  /\ Tracked(s) /\ Tracked(u) /\ u.scheduled /\ SamePlan(u, s)
  /\ u.lock = now - s.start /\ u.above = s.above /\ ~u.reacquired
  /\ u.below = BelowAfter(s, now, roots)
  /\ ~(u.below # Never /\ now - u.below >= LossPersistence)
  /\ Follows(u, s, roots)

Outcome(u, s, now, available, roots) ==
  /\ u \in UrbanTrackers
  /\ ~available => Gone(u, s, now)
  /\ available => \/ Waits(u, s, now)
                  \/ Acquires(u, s, now, roots)
                  \/ Enters(u, s, now, roots)
                  \/ Loses(u, s, now, roots)
                  \/ Keeps(u, s, now, roots)

(* All the fields but the classification, which nothing here reads.        *)
SameButUrban(u, v) ==
  /\ u.phase = v.phase /\ u.context = v.context /\ u.scheduled = v.scheduled
  /\ u.since = v.since /\ u.ready = v.ready /\ u.start = v.start /\ u.lock = v.lock
  /\ u.psr = v.psr /\ u.doppler = v.doppler /\ u.adr = v.adr
  /\ u.reason = v.reason /\ u.above = v.above /\ u.below = v.below
  /\ u.previous = v.previous /\ u.current = v.current
  /\ u.pending = v.pending /\ u.reacquired = v.reacquired

LEMMA ClassifiedFacts ==
  ASSUME NEW v \in UrbanTrackers, NEW los \in BOOLEAN, NEW cn0
  PROVE  /\ Classified(v, los, cn0) \in UrbanTrackers
         /\ SameButUrban(Classified(v, los, cn0), v)
<1> DEFINE x == CASE ~los /\ Tracked(v)  -> "NlosTracked"
                  [] ~los /\ ~Tracked(v) -> "Blocked"
                  [] los -> IF \/ Distance(cn0, OpenCn0) >= Cn0Delta
                               \/ Distance(v.current.phase, 0) >= CodeBias
                            THEN "LosMultipath" ELSE "Los"
<1>1. x \in UrbanStates
  BY DEF UrbanStates
<1>2. Classified(v, los, cn0) = [v EXCEPT !.urban = x]
  BY DEF Classified
<1> HIDE DEF x
<1>3. QED
  BY <1>1, <1>2 DEF UrbanTrackers, SameButUrban

(* What the parts of update_urban_signal_tracker make of a tracker, field  *)
(* by field.                                                               *)
LEMMA RecordConstants ==
  /\ {"SignalOff", "Searching", "Acquiring", "Tracking"} \subseteq Phases
  /\ "Reacquisition" \in Contexts
  /\ {"SignalUnavailable", "LowCn0", "NoStableDllRoot", "AbruptDllRootSwitch"} \subseteq LossReasons
  /\ NoRoot \in FollowedRoots /\ Never \in Nat \cup {Never}
BY RootsFacts DEF Phases, Contexts, LossReasons

LEMMA GoneFacts ==
  ASSUME NEW b \in UrbanTrackers, NEW now \in Nat
  PROVE  LET v == UrbanSignalGone(b, now)
         IN  /\ v \in UrbanTrackers
             /\ v.phase = "SignalOff" /\ ~v.scheduled /\ v.since = now /\ v.above = Never
             /\ Tracked(b) => v.reason = "SignalUnavailable"
<1> DEFINE reason == IF Tracked(b) THEN "SignalUnavailable" ELSE b.reason
           v == UrbanSignalGone(b, now)
<1>1. v = [b EXCEPT !.lock = 0, !.psr = FALSE, !.doppler = FALSE, !.adr = FALSE,
             !.phase = "SignalOff", !.since = now, !.scheduled = FALSE, !.pending = FALSE,
             !.above = Never, !.below = Never, !.previous = NoRoot, !.current = NoRoot,
             !.reason = reason]
  BY DEF UrbanSignalGone, ClearMeasurementValidity, UrbanTrackers
<1>2. b.reason \in LossReasons
  BY DEF UrbanTrackers
<1>3. reason \in LossReasons /\ (Tracked(b) => reason = "SignalUnavailable")
  BY <1>2, RecordConstants
<1> HIDE DEF reason, v
<1>4. v \in UrbanTrackers
  BY ZenonT(60), <1>1, <1>3, RecordConstants DEF UrbanTrackers
<1>5. v.phase = "SignalOff" /\ v.scheduled = FALSE /\ v.since = now /\ v.above = Never /\ v.reason = reason
  BY <1>1 DEF UrbanTrackers
<1>6. QED
  BY <1>3, <1>4, <1>5 DEF v

LEMMA SearchFacts ==
  ASSUME NEW b \in UrbanTrackers
  PROVE  LET v == [ClearMeasurementValidity(b) EXCEPT !.phase = "Searching", !.above = Never]
         IN  /\ v \in UrbanTrackers
             /\ v.phase = "Searching" /\ v.scheduled = b.scheduled /\ v.above = Never
             /\ SamePlan(v, b)
<1> DEFINE v == [ClearMeasurementValidity(b) EXCEPT !.phase = "Searching", !.above = Never]
<1>1. v = [b EXCEPT !.lock = 0, !.psr = FALSE, !.doppler = FALSE, !.adr = FALSE,
             !.phase = "Searching", !.above = Never]
  BY DEF ClearMeasurementValidity, UrbanTrackers
<1> HIDE DEF v
<1>2. v \in UrbanTrackers
  BY <1>1, RecordConstants DEF UrbanTrackers
<1>3. v.phase = "Searching" /\ v.scheduled = b.scheduled /\ v.above = Never /\ SamePlan(v, b)
  BY <1>1 DEF UrbanTrackers, SamePlan
<1>4. QED
  BY <1>2, <1>3 DEF v

LEMMA ClearFacts ==
  ASSUME NEW q \in UrbanTrackers
  PROVE  LET v == ClearMeasurementValidity(q)
         IN  /\ v \in UrbanTrackers
             /\ v.phase = q.phase /\ v.scheduled = q.scheduled /\ v.above = q.above
             /\ SamePlan(v, q)
<1> DEFINE v == ClearMeasurementValidity(q)
<1>1. v = [q EXCEPT !.lock = 0, !.psr = FALSE, !.doppler = FALSE, !.adr = FALSE]
  BY DEF ClearMeasurementValidity
<1> HIDE DEF v
<1>2. v \in UrbanTrackers
  BY <1>1 DEF UrbanTrackers
<1>3. v.phase = q.phase /\ v.scheduled = q.scheduled /\ v.above = q.above /\ SamePlan(v, q)
  BY <1>1 DEF UrbanTrackers, SamePlan
<1>4. QED
  BY <1>2, <1>3 DEF v

(* A tracker that has just entered lock, and one that keeps its lock.      *)
Entered(v, q, now, root) ==
  /\ v \in UrbanTrackers
  /\ v.phase = "Tracking" /\ v.scheduled = q.scheduled
  /\ v.since = now /\ v.start = now /\ v.ready = q.ready
  /\ v.above = Never /\ v.below = Never /\ ~v.adr
  /\ v.previous = root /\ v.current = root
  /\ v.reacquired <=> q.context = "Reacquisition"

Kept(v, low, now, root) ==
  /\ v \in UrbanTrackers
  /\ v.phase = low.phase /\ v.scheduled = low.scheduled /\ SamePlan(v, low)
  /\ v.lock = now - low.start /\ v.above = low.above /\ v.below = low.below
  /\ v.reacquired = low.reacquired /\ v.previous = root /\ v.current = root

LEMMA EnterFacts ==
  ASSUME NEW q \in UrbanTrackers, NEW now \in Nat, NEW root \in FollowedRoots
  PROVE  Entered(EnterTracking(q, now, root), q, now, root)
<1> DEFINE v == EnterTracking(q, now, root)
           reacquired == q.context = "Reacquisition"
<1>1. v = [q EXCEPT !.lock = 0, !.psr = FALSE, !.doppler = FALSE, !.adr = FALSE,
             !.phase = "Tracking", !.since = now, !.start = now,
             !.reacquired = reacquired, !.pending = FALSE,
             !.above = Never, !.below = Never, !.previous = root, !.current = root]
  BY DEF EnterTracking, ClearMeasurementValidity, UrbanTrackers
<1>2. PICK again \in BOOLEAN : again = reacquired
  OBVIOUS
<1> HIDE DEF reacquired, v
<1>3. v \in UrbanTrackers
  BY ZenonT(60), <1>1, <1>2, RecordConstants DEF UrbanTrackers
<1>4. /\ v.phase = "Tracking" /\ v.scheduled = q.scheduled
      /\ v.since = now /\ v.start = now /\ v.ready = q.ready
      /\ v.above = Never /\ v.below = Never /\ v.adr = FALSE
      /\ v.previous = root /\ v.current = root
  BY <1>1 DEF UrbanTrackers
<1>5. v.reacquired = reacquired
  BY <1>1, <1>2 DEF UrbanTrackers
<1>6. QED
  BY <1>3, <1>4, <1>5 DEF reacquired, v, Entered

LEMMA LossFacts ==
  ASSUME NEW b \in UrbanTrackers, NEW now \in Nat, NEW reason \in LossReasons
  PROVE  LET v == BeginTrackingLoss(b, now, reason)
         IN  /\ v \in UrbanTrackers
             /\ v.phase = "Searching" /\ ~v.scheduled /\ v.since = now /\ v.above = Never
             /\ v.reason = reason
<1> DEFINE v == BeginTrackingLoss(b, now, reason)
<1>1. v = [b EXCEPT !.lock = 0, !.psr = FALSE, !.doppler = FALSE, !.adr = FALSE,
             !.phase = "Searching", !.context = "Reacquisition", !.since = now, !.ready = now,
             !.scheduled = FALSE, !.pending = TRUE, !.reacquired = FALSE, !.reason = reason,
             !.above = Never, !.below = Never, !.previous = NoRoot, !.current = NoRoot]
  BY DEF BeginTrackingLoss, ClearMeasurementValidity, UrbanTrackers
<1> HIDE DEF v
<1>2. v \in UrbanTrackers
  BY ZenonT(60), <1>1, RecordConstants DEF UrbanTrackers
<1>3. v.phase = "Searching" /\ v.scheduled = FALSE /\ v.since = now /\ v.above = Never /\ v.reason = reason
  BY <1>1 DEF UrbanTrackers
<1>4. QED
  BY <1>2, <1>3 DEF v

LEMMA KeepFacts ==
  ASSUME NEW low \in UrbanTrackers, NEW now \in Nat, NEW root \in FollowedRoots, low.start =< now,
         NEW v, v = KeepTracking(low, now, root)
  PROVE  Kept(v, low, now, root)
<1> DEFINE p == now >= low.start + PsrValidDelay
           d == now >= low.start + DopplerValidDelay
           a == now >= low.start + AdrValidDelay
           locked == now - low.start
<1>1. p \in BOOLEAN /\ d \in BOOLEAN /\ a \in BOOLEAN
  OBVIOUS
<1>2. v = [low EXCEPT !.previous = root, !.current = root, !.lock = locked,
             !.psr = p, !.doppler = d, !.adr = a]
  BY DEF KeepTracking
<1>3. low.start \in Nat
  BY DEF UrbanTrackers
<1>4. locked \in Nat
  BY <1>3
<1> HIDE DEF p, d, a, locked
<1>5. v \in UrbanTrackers
  BY ZenonT(60), <1>1, <1>2, <1>4 DEF UrbanTrackers
<1>6. /\ v.phase = low.phase /\ v.scheduled = low.scheduled /\ SamePlan(v, low)
      /\ v.lock = locked /\ v.above = low.above /\ v.below = low.below
      /\ v.reacquired = low.reacquired /\ v.previous = root /\ v.current = root
  BY <1>2 DEF UrbanTrackers, SamePlan
<1>7. QED
  BY <1>5, <1>6 DEF locked, Kept

(* What update_urban_signal_tracker makes of a scheduled signal, or of one *)
(* that is gone.                                                           *)
LEMMA StepOutcome ==
  ASSUME NEW s \in UrbanTrackers, NEW now \in Nat, NEW available \in BOOLEAN,
         NEW roots \in Seq(Roots), available => s.scheduled,
         Tracked(s) => s.start =< now,
         NEW v, v = UrbanStep([s EXCEPT !.reacquired = FALSE, !.current = NoRoot], now, available, roots)
  PROVE  Outcome(v, s, now, available, roots)
<1> DEFINE b == [s EXCEPT !.reacquired = FALSE, !.current = NoRoot]
           cn0 == EffectiveCn0(s, roots)
<1>1. /\ b \in UrbanTrackers /\ ~b.reacquired /\ b.current = NoRoot
      /\ b.phase = s.phase /\ b.context = s.context /\ b.scheduled = s.scheduled
      /\ b.since = s.since /\ b.ready = s.ready /\ b.start = s.start
      /\ b.reason = s.reason /\ b.above = s.above /\ b.below = s.below
      /\ b.previous = s.previous /\ b.pending = s.pending
  BY RootsFacts DEF UrbanTrackers
<1>2. /\ s.ready \in Nat /\ s.start \in Nat /\ s.above \in Int /\ s.below \in Int
      /\ s.scheduled \in BOOLEAN
  BY DEF UrbanTrackers, Never
<1> HIDE DEF b
<1>3. Tracked(b) <=> Tracked(s)
  BY <1>1 DEF Tracked
<1>4. /\ Preselected(b, roots) = Preselected(s, roots) /\ EffectiveCn0(b, roots) = cn0
  BY <1>1, <1>3 DEF Preselected, EffectiveCn0, ModeOf
<1>5. v = UrbanStep(b, now, available, roots)
  BY DEF b
<1>6. CASE ~available
  <2>1. v = UrbanSignalGone(b, now)
    BY <1>5, <1>6 DEF UrbanStep
  <2>2. QED
    BY <1>1, <1>3, <1>6, <2>1, GoneFacts DEF Outcome, Gone
<1>7. CASE available /\ ~Tracked(s) /\ now < s.ready
  <2>1. v = [ClearMeasurementValidity(b) EXCEPT !.phase = "Searching", !.above = Never]
    BY <1>1, <1>2, <1>3, <1>5, <1>7 DEF UrbanStep
  <2>2. QED
    BY ZenonT(60), <1>1, <1>7, <2>1, SearchFacts DEF Outcome, Waits, SamePlan
<1>8. CASE available /\ ~Tracked(s) /\ now >= s.ready
  <2> DEFINE i == SelectRoot(roots, "ACQUISITION", 0)
             root == IF i = 0 THEN NoRoot ELSE roots[i]
             above == AboveAfter(s, now, roots)
             q == [b EXCEPT !.above = above, !.phase = "Acquiring", !.current = root]
             entered == /\ above # Never /\ now - above >= AcquisitionPersistence
                        /\ i # 0 /\ now >= s.start
  <2>1. i = 0 <=> ~HasStableRoot(roots)
    BY <1>8, PreselectedFacts DEF ModeOf
  <2>2. Preselected(s, roots) = root
    BY <1>8 DEF Preselected, ModeOf
  <2>3. i # 0 => root \in FollowedRoots /\ root.stable /\ \E k \in DOMAIN roots : roots[k].stable /\ root = roots[k]
    BY <2>1, <2>2, PreselectedFacts, RootsFacts
  <2>4. root \in FollowedRoots
    BY <2>3, RootsFacts
  <2>5. above \in Nat \cup {Never}
    BY DEF AboveAfter, UrbanTrackers
  <2>6. above = IF EffectiveCn0(b, roots) < AcquisitionCn0 THEN Never
                ELSE IF b.above = Never THEN now ELSE b.above
    BY <1>1, <1>4 DEF AboveAfter
  <2>7. Qualified(b, now, EffectiveCn0(b, roots)) = [b EXCEPT !.above = above]
    BY <1>1, <2>6 DEF Qualified, UrbanTrackers
  <2> HIDE DEF root, above, i
  <2>8. [Qualified(b, now, EffectiveCn0(b, roots)) EXCEPT !.phase = "Acquiring", !.current = root] = q
    BY <1>1, <2>7 DEF UrbanTrackers
  <2>9. /\ q \in UrbanTrackers /\ q.phase = "Acquiring" /\ q.scheduled /\ SamePlan(q, s)
        /\ q.above = above /\ q.pending = b.pending /\ q.current = root
    BY <1>1, <1>8, <2>4, <2>5 DEF UrbanTrackers, Phases, SamePlan
  <2> HIDE DEF q
  <2>10. v = IF entered THEN EnterTracking(q, now, roots[i]) ELSE ClearMeasurementValidity(q)
    <3>1. v = Acquire(b, now, roots)
      BY <1>1, <1>2, <1>3, <1>5, <1>8 DEF UrbanStep
    <3>2. v = IF IsQualified(q, now) /\ i # 0 /\ now >= b.start
                THEN EnterTracking(q, now, roots[i]) ELSE ClearMeasurementValidity(q)
      BY <2>8, <3>1 DEF Acquire, root, i
    <3>3. QED
      BY <1>1, <2>9, <3>2 DEF IsQualified
  <2>11. CASE entered
    <3>1. v = EnterTracking(q, now, root)
      BY <2>10, <2>11 DEF root
    <3>2. Entered(v, q, now, root)
      BY <2>4, <2>9, <3>1, EnterFacts
    <3>3. q.scheduled /\ q.ready = s.ready /\ q.context = s.context
      BY <2>9 DEF SamePlan
    <3>6. Follows(v, s, roots)
      BY <2>1, <2>2, <2>3, <2>11, <3>2 DEF Entered, Follows
    <3>7. Enters(v, s, now, roots)
      <4>1. now >= s.start
        BY <1>1, <2>11
      <4>2. QED
        BY <1>8, <2>11, <3>2, <3>3, <3>6, <4>1 DEF Entered, Enters, Tracked, above
    <3>8. QED
      BY <1>8, <3>2, <3>7 DEF Entered, Outcome
  <2>12. CASE ~entered
    <3>1. v = ClearMeasurementValidity(q)
      BY <2>10, <2>12
    <3>2. /\ v \in UrbanTrackers
          /\ v.phase = q.phase /\ v.scheduled = q.scheduled /\ v.above = q.above
          /\ SamePlan(v, q)
      BY <2>9, <3>1, ClearFacts
    <3>3. v.phase = "Acquiring" /\ v.scheduled /\ SamePlan(v, s) /\ v.above = above
      BY <2>9, <3>2 DEF SamePlan
    <3>4. Acquires(v, s, now, roots)
      BY <1>8, <2>1, <2>12, <3>3 DEF Acquires, above
    <3>5. QED
      BY <1>8, <3>2, <3>4 DEF Outcome
  <2>13. QED
    BY <2>11, <2>12
<1>9. CASE available /\ Tracked(s)
  <2> DEFINE i == SelectRoot(roots, "TRACKED", s.previous.phase)
             root == roots[i]
             below == BelowAfter(s, now, roots)
             low == [b EXCEPT !.below = below]
             lost == below # Never /\ now - below >= LossPersistence
             D(r) == Distance(r.phase, s.previous.phase)
  <2>1. i = 0 <=> ~HasStableRoot(roots)
    BY <1>9, PreselectedFacts DEF ModeOf
  <2>2. i # 0 => Preselected(s, roots) = root
    BY <1>9 DEF Preselected, ModeOf
  <2>3. i # 0 =>
          /\ root \in FollowedRoots /\ root.stable
          /\ \E k \in DOMAIN roots : roots[k].stable /\ root = roots[k]
          /\ \A m \in DOMAIN roots : roots[m].stable => D(root) =< D(roots[m])
    <3> SUFFICES ASSUME i # 0
                 PROVE  /\ root \in FollowedRoots /\ root.stable
                        /\ \E k \in DOMAIN roots : roots[k].stable /\ root = roots[k]
                        /\ \A m \in DOMAIN roots : roots[m].stable => D(root) =< D(roots[m])
      OBVIOUS
    <3>1. PICK k \in DOMAIN roots :
            /\ Preselected(s, roots) = roots[k] /\ roots[k].stable /\ roots[k] \in Roots
            /\ Tracked(s) => \A m \in DOMAIN roots : roots[m].stable => D(roots[k]) =< D(roots[m])
      BY <2>1, PreselectedFacts
    <3>2. root = roots[k]
      BY <2>2, <3>1
    <3>3. QED
      BY <1>9, <3>1, <3>2, RootsFacts
  <2>4. below \in Nat \cup {Never}
    BY DEF BelowAfter, UrbanTrackers
  <2>5. below = IF EffectiveCn0(b, roots) >= MinTrackingCn0 THEN Never
                ELSE IF b.below = Never THEN now ELSE b.below
    BY <1>1, <1>4 DEF BelowAfter
  <2>6. LowPower(b, now, EffectiveCn0(b, roots)) = low
    BY <1>1, <2>5 DEF LowPower, UrbanTrackers
  <2> HIDE DEF root, i, below, D
  <2>7. /\ low \in UrbanTrackers /\ low.phase = "Tracking" /\ low.scheduled /\ SamePlan(low, s)
        /\ low.below = below /\ low.above = s.above /\ ~low.reacquired
    BY <1>1, <1>9, <2>4 DEF UrbanTrackers, SamePlan, Tracked
  <2> HIDE DEF low
  <2>8. v = CASE i = 0 -> BeginTrackingLoss(b, now, "NoStableDllRoot")
              [] i # 0 /\ Jumped(b, root) -> BeginTrackingLoss(b, now, "AbruptDllRootSwitch")
              [] i # 0 /\ ~Jumped(b, root) ->
                   IF lost THEN BeginTrackingLoss(b, now, "LowCn0")
                           ELSE KeepTracking(low, now, root)
    <3>1. v = Track(b, now, roots)
      BY <1>1, <1>3, <1>5, <1>9 DEF UrbanStep
    <3>2. IsLost(low, now) <=> lost
      BY <2>7 DEF IsLost
    <3>3. QED
      BY <1>1, <2>6, <3>1, <3>2 DEF Track, i, root
  <2>9. ASSUME NEW reason \in LossReasons, v = BeginTrackingLoss(b, now, reason)
        PROVE  /\ v \in UrbanTrackers
               /\ v.phase = "Searching" /\ ~v.scheduled /\ v.since = now /\ v.above = Never
               /\ v.reason = reason
    BY <1>1, <2>9, LossFacts
  <2>10. CASE i = 0
    <3>1. v = BeginTrackingLoss(b, now, "NoStableDllRoot") /\ "NoStableDllRoot" \in LossReasons
      BY <2>8, <2>10 DEF LossReasons
    <3>2. QED
      BY <1>9, <2>1, <2>9, <2>10, <3>1 DEF Outcome, Loses
  <2>11. CASE i # 0 /\ Jumped(b, root)
    <3>1. v = BeginTrackingLoss(b, now, "AbruptDllRootSwitch") /\ "AbruptDllRootSwitch" \in LossReasons
      BY <2>8, <2>11 DEF LossReasons
    <3>2. D(root) > RootJump
      BY <1>1, <2>11 DEF Jumped, D
    <3>3. ASSUME NEW k \in DOMAIN roots, roots[k].stable PROVE D(roots[k]) > RootJump
      <4>1. D(root) =< D(roots[k])
        BY <2>3, <2>11, <3>3
      <4>2. roots[k] \in Roots /\ root \in Roots /\ s.previous \in Roots
        BY <2>3, <2>11, ElementOfSeq, RootsFacts DEF UrbanTrackers
      <4>3. s.previous.phase \in Int /\ root.phase \in Int /\ roots[k].phase \in Int
        BY <4>2 DEF Roots
      <4>4. \A x, y \in Int : Distance(x, y) \in Int
        BY DEF Distance
      <4>5. D(root) \in Int /\ D(roots[k]) \in Int
        BY Zenon, <4>3, <4>4 DEF D
      <4>6. RootJump \in Int
        BY UrbanTrackingAssumption
      <4>7. QED
        BY <3>2, <4>1, <4>5, <4>6
    <3>4. QED
      BY <1>9, <2>1, <2>9, <2>11, <3>1, <3>3 DEF Outcome, Loses, D
  <2>12. CASE i # 0 /\ ~Jumped(b, root) /\ lost
    <3>1. v = BeginTrackingLoss(b, now, "LowCn0") /\ "LowCn0" \in LossReasons
      BY <2>8, <2>12 DEF LossReasons
    <3>2. QED
      BY <1>9, <2>9, <2>12, <3>1 DEF Outcome, Loses, below
  <2>13. CASE i # 0 /\ ~Jumped(b, root) /\ ~lost
    <3>1. v = KeepTracking(low, now, root)
      BY <2>8, <2>13
    <3>2. root \in FollowedRoots /\ low.start =< now /\ low.start = s.start
      BY <1>9, <2>3, <2>7, <2>13 DEF SamePlan
    <3>3. Kept(v, low, now, root)
      BY <2>7, <3>1, <3>2, KeepFacts
    <3>4. /\ v.phase = "Tracking" /\ v.scheduled /\ SamePlan(v, s) /\ v.lock = now - s.start
          /\ v.above = s.above /\ ~v.reacquired /\ v.below = below
      BY <2>7, <3>2, <3>3 DEF SamePlan, Kept
    <3>8. Follows(v, s, roots)
      BY <2>1, <2>2, <2>3, <2>13, <3>3 DEF Follows, Kept
    <3>9. Keeps(v, s, now, roots)
      BY <1>9, <2>13, <3>4, <3>8 DEF Keeps, Tracked, below
    <3>10. QED
      BY <1>9, <3>3, <3>9 DEF Outcome, Kept
  <2>14. QED
    BY <2>10, <2>11, <2>12, <2>13
<1>10. QED
  BY <1>2, <1>6, <1>7, <1>8, <1>9

LEMMA UpdateOutcome ==
  ASSUME NEW s \in UrbanTrackers, NEW now \in Nat, NEW available \in BOOLEAN,
         NEW roots \in Seq(Roots), NEW los \in BOOLEAN, available => s.scheduled,
         Tracked(s) => s.start =< now
  PROVE  Outcome(UpdateUrbanTracker(s, now, available, roots, los), s, now, available, roots)
<1> DEFINE v == UrbanStep([s EXCEPT !.reacquired = FALSE, !.current = NoRoot], now, available, roots)
           cn0 == IF available THEN EffectiveCn0(s, roots) ELSE OpenCn0
           u == Classified(v, los /\ available, cn0)
<1>1. UpdateUrbanTracker(s, now, available, roots, los) = u
  BY DEF UpdateUrbanTracker
<1>2. Outcome(v, s, now, available, roots)
  BY StepOutcome
<1>3. v \in UrbanTrackers /\ (los /\ available) \in BOOLEAN
  BY <1>2 DEF Outcome
<1> HIDE DEF v, cn0
<1>4. u \in UrbanTrackers /\ SameButUrban(u, v)
  BY <1>3, ClassifiedFacts
<1> HIDE DEF u
<1>5. Outcome(u, s, now, available, roots)
  BY <1>2, <1>4
     DEF Outcome, Gone, Waits, Acquires, Enters, Loses, Keeps, Follows, SamePlan, SameButUrban, Tracked
<1>6. QED
  BY <1>1, <1>5

Observations == [psr : BOOLEAN, doppler : BOOLEAN, adr : BOOLEAN,
                 ambiguity : Nat \cup {NoTime}, segment : Nat \cup {NoTime}]

(* What is measured is of the lock of the tracker and of the segment the   *)
(* temporal state tells.                                                   *)
LEMMA MeasurementFacts ==
  ASSUME NEW t, t.psr \in BOOLEAN, t.doppler \in BOOLEAN, t.adr \in BOOLEAN, t.start \in Nat,
         NEW r \in TemporalResults, NEW o, o = Measurement(t, r)
  PROVE  /\ o \in Observations /\ o.ambiguity = t.start /\ o.segment = r.segment
         /\ o.adr => t.adr
<1> DEFINE e == EpochOf(t)
           available == t.psr /\ e.psr /\ r.lock
           doppler == available /\ t.doppler /\ e.doppler /\ r.rate
           adr == available /\ t.adr /\ e.adr /\ r.adr
<1>1. o = [psr |-> available, doppler |-> doppler, adr |-> adr,
           ambiguity |-> t.start, segment |-> r.segment]
  BY DEF Measurement, ApplyUrbanEffects
<1>2. available \in BOOLEAN /\ doppler \in BOOLEAN /\ adr \in BOOLEAN /\ (adr => t.adr)
  OBVIOUS
<1>3. r.segment \in Nat \cup {NoTime}
  BY DEF TemporalResults
<1> HIDE DEF available, doppler, adr
<1>4. QED
  BY <1>1, <1>2, <1>3 DEF Observations

(* What the epoch makes of the carrier phase: one segment per lock, no     *)
(* error, and a first epoch of a lock that tells whether it is a slip.     *)
Carried(u, s, next, r, o, now) ==
  /\ next \in Temporals /\ r \in TemporalResults /\ o \in Observations
  /\ next.active <=> Tracked(u)
  /\ next.active => /\ next.segment = u.start
                    /\ u.start =< next.previous /\ next.previous =< now
  /\ o.adr => o.segment = o.ambiguity /\ o.segment < now
  /\ r.lock /\ ~r.rate => /\ Tracked(u) /\ ~Tracked(s)
                          /\ s.context = "Reacquisition" => r.slip

LEMMA OutcomeLocks ==
  ASSUME NEW s, NEW now, NEW available \in BOOLEAN, NEW roots, NEW u,
         Outcome(u, s, now, available, roots), Tracked(u)
  PROVE  available /\ (Enters(u, s, now, roots) \/ Keeps(u, s, now, roots))
BY DEF Outcome, Gone, Waits, Acquires, Loses, Tracked

LEMMA CarrierFacts ==
  ASSUME NEW s \in UrbanTrackers, NEW now \in Nat, NEW available \in BOOLEAN, NEW roots,
         NEW u, Outcome(u, s, now, available, roots),
         NEW tm \in Temporals, tm.active <=> Tracked(s),
         tm.active => tm.segment = s.start /\ s.start =< tm.previous /\ tm.previous < now
  PROVE  LET e == EpochOf(u)
             r == TemporalResult(tm, e, now)
         IN  /\ Carried(u, s, UpdateTemporal(tm, e, now), r,
                        IF Tracked(u) THEN Measurement(u, r) ELSE NoObservation, now)
             /\ ~TemporalFails(tm, e, now) /\ (Tracked(u) => ~EffectsFail(e, r))
<1> DEFINE e == EpochOf(u)
           r == TemporalResult(tm, e, now)
           next == UpdateTemporal(tm, e, now)
           o == IF Tracked(u) THEN Measurement(u, r) ELSE NoObservation
<1>1. /\ u \in UrbanTrackers
      /\ u.psr \in BOOLEAN /\ u.doppler \in BOOLEAN /\ u.adr \in BOOLEAN
      /\ u.reacquired \in BOOLEAN /\ u.start \in Nat /\ u.lock \in Nat
  BY DEF Outcome, UrbanTrackers
<1>2. s.start \in Nat
  BY DEF UrbanTrackers
<1>3. /\ tm.active \in BOOLEAN /\ tm.ever \in BOOLEAN
      /\ tm.previous \in Nat \cup {NoTime} /\ tm.segment \in Nat \cup {NoTime}
      /\ tm = [active |-> tm.active, ever |-> tm.ever, previous |-> tm.previous,
               segment |-> tm.segment]
  BY DEF Temporals
<1>4. NoTime \notin Nat
  BY DEF NoTime
<1>5. CASE ~Tracked(u)
  <2>1. e.phasor = FALSE
    BY <1>5 DEF EpochOf
  <2> HIDE DEF e
  <2>2. next = Interrupted(tm) /\ r = InterruptedResult(tm)
    BY <2>1 DEF UpdateTemporal, TemporalResult
  <2>3. next \in Temporals /\ next.active = FALSE
    BY <1>3, <2>2 DEF Interrupted, Temporals
  <2>4. r \in TemporalResults /\ r.lock = FALSE
    BY <1>3, <2>2 DEF InterruptedResult, NoResult, TemporalResults
  <2>5. o \in Observations /\ o.adr = FALSE
    BY <1>5 DEF NoObservation, Observations
  <2>6. ~TemporalFails(tm, e, now)
    BY <2>1 DEF TemporalFails
  <2> HIDE DEF next, r, o
  <2>7. QED
    BY <1>5, <2>3, <2>4, <2>5, <2>6 DEF Carried, e, next, r, o
<1>6. CASE Tracked(u) /\ ~Tracked(s)
  <2>1. Enters(u, s, now, roots)
    BY <1>6, OutcomeLocks DEF Keeps
  <2>2. /\ u.start = now /\ u.adr = FALSE /\ (u.reacquired <=> s.context = "Reacquisition")
        /\ u.current.stable
    BY <1>1, <2>1 DEF Enters, Follows
  <2>3. e.phasor = TRUE /\ e.adr = FALSE /\ e.reacquired = u.reacquired
    BY <1>6, <2>2 DEF EpochOf
  <2> HIDE DEF e
  <2>4. StartsSegment(tm, e, now)
    BY <1>6 DEF StartsSegment
  <2>5. next = NewSegment(tm, now) /\ r = NewSegmentResult(tm, e, now)
    BY <2>3, <2>4 DEF UpdateTemporal, TemporalResult
  <2>6. next \in Temporals /\ next.active = TRUE /\ next.segment = now /\ next.previous = now
    BY <2>5 DEF NewSegment, Temporals
  <2> DEFINE slip == u.reacquired \/ tm.ever
  <2>7. /\ r \in TemporalResults /\ r.lock = TRUE /\ r.continuity = TRUE /\ r.rate = FALSE
        /\ r.adr = FALSE /\ (u.reacquired => r.slip) /\ r.segment = now
    <3>1. slip \in BOOLEAN /\ (u.reacquired => slip)
      OBVIOUS
    <3>2. r = [lock |-> TRUE, adr |-> FALSE, continuity |-> TRUE, rate |-> FALSE,
               slip |-> slip, segment |-> now]
      BY <2>3, <2>5 DEF NewSegmentResult
    <3> HIDE DEF r, slip
    <3>3. r \in TemporalResults
      BY <3>1, <3>2 DEF TemporalResults
    <3>4. /\ r.lock = TRUE /\ r.continuity = TRUE /\ r.rate = FALSE /\ r.adr = FALSE
          /\ r.slip = slip /\ r.segment = now
      BY <3>2
    <3>5. QED
      BY <3>1, <3>3, <3>4
  <2>8. ~TemporalFails(tm, e, now)
    BY <1>6 DEF TemporalFails
  <2> HIDE DEF r, next
  <2>9. ~EffectsFail(e, r)
    BY <2>3, <2>7 DEF EffectsFail
  <2>10. o \in Observations /\ o.adr = FALSE
    BY <1>1, <1>6, <2>2, <2>7, MeasurementFacts DEF o
  <2> HIDE DEF o
  <2>11. QED
    BY <1>6, <2>2, <2>6, <2>7, <2>8, <2>9, <2>10 DEF Carried, e, next, r, o
<1>7. CASE Tracked(u) /\ Tracked(s)
  <2>1. Keeps(u, s, now, roots)
    BY <1>7, OutcomeLocks DEF Enters
  <2>2. /\ u.start = s.start /\ u.reacquired = FALSE /\ u.lock = now - s.start
        /\ u.current.stable
    BY <1>1, <2>1 DEF Keeps, Follows, SamePlan
  <2>3. e.phasor = TRUE /\ e.adr = u.adr /\ e.reacquired = FALSE /\ e.lock = now - s.start
    BY <1>7, <2>2 DEF EpochOf
  <2> HIDE DEF e
  <2>4. /\ tm.active /\ tm.segment = s.start /\ tm.previous \in Nat
        /\ s.start =< tm.previous /\ tm.previous < now
    BY <1>2, <1>3, <1>4, <1>7 DEF NoTime
  <2>5. ~StartsSegment(tm, e, now)
    BY <1>2, <2>3, <2>4 DEF StartsSegment, LockIsYounger
  <2>6. next = Continued(tm, now) /\ r = ContinuedResult(tm, e)
    BY <2>3, <2>5 DEF UpdateTemporal, TemporalResult
  <2>7. next \in Temporals /\ next.active = TRUE /\ next.segment = s.start /\ next.previous = now
    BY <1>3, <2>4, <2>6 DEF Continued, Temporals
  <2>8. /\ r \in TemporalResults /\ r.lock = TRUE /\ r.continuity = TRUE /\ r.rate = TRUE
        /\ r.segment = s.start
    BY <1>1, <1>2, <2>3, <2>4, <2>6 DEF ContinuedResult, TemporalResults
  <2>9. ~TemporalFails(tm, e, now)
    BY <2>4 DEF TemporalFails
  <2> HIDE DEF r, next
  <2>10. ~EffectsFail(e, r)
    BY <2>3, <2>8 DEF EffectsFail
  <2>11. /\ o \in Observations /\ o.segment = s.start /\ o.ambiguity = s.start
    BY <1>1, <1>7, <2>2, <2>8, MeasurementFacts DEF o
  <2> HIDE DEF o
  <2>12. QED
    BY <1>2, <1>7, <2>2, <2>4, <2>7, <2>8, <2>9, <2>10, <2>11 DEF Carried, e, next, r, o
<1>8. QED
  BY <1>5, <1>6, <1>7

-----------------------------------------------------------------------------
(* The inductive invariant.                                                *)

(* The engine: with the receiver off, nothing is left of its last run.     *)
PowerInv ==
  /\ engine.powered => /\ engine.seen
                       /\ \E d \in StartupDelays : startupReady =< LastTime + d
  /\ ~engine.powered => /\ ~engine.signal /\ ~lockedBefore /\ input = NoInput
                        /\ goodSince = Never /\ lowSince = Never /\ steadySince = Never
  /\ ~engine.signal => ~tracker.scheduled /\ ~Tracked(tracker)

(* A scheduled signal has a plan, and a lock has one carrier segment.      *)
PlanIsBounded(t, time) ==
  \E u \in StartupDelays, a \in AcquisitionDelays : t.start =< time + u + a

LockInv ==
  /\ tracker.since =< Now
  /\ tracker.scheduled => /\ ever /\ tracker.ready =< tracker.start
                          /\ ~Tracked(tracker) => PlanIsBounded(tracker, LastTime)
  /\ Tracked(tracker) => tracker.scheduled
  /\ temporal.active <=> Tracked(tracker)
  /\ temporal.active => /\ temporal.segment = tracker.start
                        /\ tracker.start =< temporal.previous /\ temporal.previous < Now
  /\ obs.adr => obs.segment = obs.ambiguity /\ obs.segment < LastTime

(* The tracker's thresholds time the runs of power of the history.         *)
ThresholdInv ==
  /\ Tracked(tracker) => tracker.above = Never /\ tracker.below = lowSince
  /\ tracker.above # Never => /\ goodSince # Never /\ goodSince =< tracker.above
                              /\ tracker.above =< LastTime
  /\ goodSince # Never => goodSince =< LastTime
  /\ LowPowerEndsLock

(* A signal that lost a lock acquires again under the reacquisition plan.  *)
SlipInv ==
  /\ lockedBefore => ever
  /\ lockedBefore /\ tracker.scheduled /\ ~Tracked(tracker) =>
       tracker.context = "Reacquisition"

(* What a steady strong signal brings about.                               *)
Persists(t, since, time) ==
  time >= t.ready =>
    /\ t.above # Never
    /\ t.above =< since \/ t.above < t.ready + Interval
    /\ time >= t.start => time - t.above < AcquisitionPersistence

SteadyInv ==
  /\ Tracked(tracker) /\ input.kind = "Visible" =>
       \E k \in DOMAIN input.roots :
         input.roots[k].stable /\ tracker.previous = input.roots[k]
  /\ steadySince # Never =>
       /\ input.kind = "Visible" /\ HasStableRoot(input.roots)
       /\ tracker.scheduled /\ steadySince =< LastTime
       /\ ~Tracked(tracker) => /\ PlanIsBounded(tracker, steadySince)
                               /\ Persists(tracker, steadySince, LastTime)

IInv == /\ TypeOK /\ UrbanEpochsNeverFail /\ PowerInv /\ LockInv
        /\ ThresholdInv /\ SlipInv /\ SteadyInv

(* The epoch's time.                                                       *)
LEMMA Clock ==
  ASSUME TypeOK, NEW sc, BeginEpoch(sc)
  PROVE  /\ Now \in Nat /\ Interval \in Nat \ {0} /\ LastTime = Now - Interval
         /\ LastTime' = Now /\ Now' = Now + Interval
<1>1. epoch \in Nat /\ epoch' = epoch + 1 /\ Interval \in Nat \ {0}
  BY UrbanLoopAssumption DEF TypeOK, BeginEpoch
<1>2. epoch * Interval \in Nat /\ (epoch + 1) * Interval = epoch * Interval + Interval
  BY <1>1
<1>3. QED
  BY <1>1, <1>2 DEF Now, LastTime

LEMMA InputFacts ==
  ASSUME NEW i \in Inputs
  PROVE  /\ i.kind \in {"NoGeometry", "Hidden", "Visible"}
         /\ i.roots \in Seq(Roots) /\ i.los \in BOOLEAN
         /\ i.kind # "Visible" => i.roots = << >>
<1>1. CASE i \in {[kind |-> k, roots |-> << >>, los |-> FALSE] : k \in {"NoGeometry", "Hidden"}}
  <2>1. PICK k \in {"NoGeometry", "Hidden"} : i = [kind |-> k, roots |-> << >>, los |-> FALSE]
    BY <1>1
  <2>2. i.kind = k /\ i.roots = << >> /\ i.los = FALSE
    BY <2>1
  <2>3. << >> \in Seq(Roots)
    BY EmptySeq
  <2>4. QED
    BY <2>2, <2>3
<1>2. CASE i \in {[kind |-> "Visible", roots |-> e.roots, los |-> e.los] : e \in Environments}
  BY <1>2, UrbanLoopAssumption
<1>3. QED
  BY <1>1, <1>2 DEF Inputs

(* A signal that is scheduled anew.                                        *)
Begun(v, context, now, ready, delay) ==
  /\ v \in UrbanTrackers /\ v.phase = "Searching" /\ v.scheduled /\ v.context = context
  /\ v.since = now /\ v.ready = ready /\ v.start = ready + delay /\ v.above = Never

LEMMA ScheduleFacts ==
  ASSUME NEW t \in UrbanTrackers, NEW context \in Contexts, NEW now \in Nat,
         NEW ready \in Nat, NEW delay \in Nat
  PROVE  Begun(ScheduleUrbanAcquisition(t, context, now, ready, delay), context, now, ready, delay)
<1> DEFINE v == ScheduleUrbanAcquisition(t, context, now, ready, delay)
           start == ready + delay
<1>1. v = [t EXCEPT !.lock = 0, !.psr = FALSE, !.doppler = FALSE, !.adr = FALSE,
             !.phase = "Searching", !.context = context, !.scheduled = TRUE,
             !.since = now, !.ready = ready, !.start = start,
             !.above = Never, !.below = Never, !.previous = NoRoot, !.current = NoRoot,
             !.pending = FALSE, !.reacquired = FALSE]
  BY DEF ScheduleUrbanAcquisition, ScheduleAcquisition, ClearObservation, UrbanTrackers
<1>2. start \in Nat
  OBVIOUS
<1> HIDE DEF v, start
<1>3. v \in UrbanTrackers
  BY ZenonT(60), <1>1, <1>2, RecordConstants DEF UrbanTrackers
<1>4. /\ v.phase = "Searching" /\ v.scheduled = TRUE /\ v.context = context
      /\ v.since = now /\ v.ready = ready /\ v.start = start /\ v.above = Never
  BY <1>1 DEF UrbanTrackers
<1>5. QED
  BY <1>3, <1>4 DEF v, start, Begun

(* The state an epoch updates from: what the power and signal transitions  *)
(* left, with `on` for an epoch that follows a power-on.                   *)
Base(sc, t, sb, tm, ready, on) ==
  /\ sc.signal \in BOOLEAN /\ sc.powered = TRUE
  /\ t \in UrbanTrackers /\ sb \in BOOLEAN /\ tm \in Temporals /\ ready \in Nat
  /\ \E d \in StartupDelays : ready =< Now + d
  /\ t.since =< Now
  /\ t.scheduled => /\ sb /\ t.ready =< t.start
                    /\ ~Tracked(t) => PlanIsBounded(t, Now)
  /\ Tracked(t) => t.scheduled
  /\ tm.active <=> Tracked(t)
  /\ tm.active => tm.segment = t.start /\ t.start =< tm.previous /\ tm.previous < Now
  /\ ~sc.signal => ~t.scheduled /\ ~Tracked(t)
  /\ sc.signal /\ ~on => t = tracker
  /\ on => /\ ~t.scheduled /\ ~Tracked(t) /\ t.above = Never /\ ~Tracked(tracker)
           /\ input = NoInput /\ lowSince = Never /\ ~lockedBefore
  /\ ~on => /\ t.above # Never => goodSince # Never /\ goodSince =< t.above /\ t.above =< LastTime
            /\ lockedBefore \/ Tracked(tracker) => sb

Planned(s, t, sb, available) ==
  /\ s \in UrbanTrackers /\ s.since =< Now
  /\ available => s.scheduled
  /\ s.scheduled => /\ s.ready =< s.start
                    /\ ~Tracked(s) => PlanIsBounded(s, Now)
  /\ ~available => s = t
  /\ \/ s = t
     \/ /\ ~t.scheduled /\ ~Tracked(t) /\ ~Tracked(s) /\ s.above = Never
        /\ sb => s.context = "Reacquisition"

(* A signal that is scheduled in an epoch cannot lock before its delay.    *)
PlannedAhead(s, t) ==
  s = t \/ (~t.scheduled /\ \E x \in LockDelays : s.start = Now + x)

LEMMA LockDelay ==
  ASSUME NEW u \in StartupDelays, NEW a \in AcquisitionDelays, NEW x \in Int, a =< x, x =< u + a
  PROVE  x \in LockDelays
<1> DEFINE Between(v, b) == b .. (v + b)
<1>1. x \in Between(u, a)
  BY UrbanLoopAssumption
<1>2. LockDelays = UNION {Between(v, b) : v \in StartupDelays, b \in AcquisitionDelays}
  BY DEF LockDelays
<1> HIDE DEF Between
<1>3. QED
  BY <1>1, <1>2

LEMMA PlannedAheadFacts ==
  ASSUME NEW sc, NEW t, NEW sb, NEW tm, NEW ready, NEW on \in BOOLEAN,
         Base(sc, t, sb, tm, ready, on), Now \in Nat,
         NEW available \in BOOLEAN, NEW delay \in AcquisitionDelays
  PROVE  PlannedAhead(Scheduled(t, sb, available, ready, delay), t)
<1> DEFINE search == SearchReady(sb, ready)
           context == ContextOf(sb)
<1>1. CASE available /\ ~t.scheduled
  <2>1. PICK d \in StartupDelays : ready =< Now + d
    BY DEF Base
  <2>2. /\ ready \in Nat /\ delay \in Nat /\ d \in Nat
        /\ search \in Nat /\ search >= Now /\ search =< Now + d
    BY <2>1, UrbanLoopAssumption DEF SearchReady, Base
  <2>3. t \in UrbanTrackers
    BY DEF Base
  <2> HIDE DEF search, context
  <2>4. ScheduleUrbanAcquisition(t, context, Now, search, delay).start = search + delay
    BY <2>3 DEF ScheduleUrbanAcquisition, ScheduleAcquisition, ClearObservation, UrbanTrackers
  <2>5. PICK x \in Nat : x = search + delay - Now /\ delay =< x /\ x =< d + delay
    BY <2>2
  <2>6. x \in LockDelays /\ search + delay = Now + x
    BY <2>2, <2>5, LockDelay
  <2>7. QED
    BY <1>1, <2>4, <2>6 DEF PlannedAhead, Scheduled, search, context
<1>2. CASE ~(available /\ ~t.scheduled)
  BY <1>2 DEF PlannedAhead, Scheduled
<1>3. QED
  BY <1>1, <1>2

LEMMA StartupContextType ==
  ASSUME TypeOK
  PROVE  StartupContext \in {"Hot", "Warm", "Cold"}
<1>1. ScenarioStartupMode(config) \in StartupModes
  BY ScenariosAssumption DEF TypeOK, ScenarioStartupMode, StartupModes
<1>2. QED
  BY <1>1 DEF StartupContext, StartupModes

LEMMA PlannedFacts ==
  ASSUME TypeOK, NEW sc, NEW t, NEW sb, NEW tm, NEW ready, NEW on \in BOOLEAN,
         Base(sc, t, sb, tm, ready, on), Now \in Nat,
         NEW available \in BOOLEAN, NEW delay \in AcquisitionDelays
  PROVE  Planned(Scheduled(t, sb, available, ready, delay), t, sb, available)
<1> DEFINE s == Scheduled(t, sb, available, ready, delay)
           context == ContextOf(sb)
           search == SearchReady(sb, ready)
<1>1. CASE available /\ ~t.scheduled
  <2>1. context \in Contexts /\ (sb => context = "Reacquisition")
    BY StartupContextType DEF ContextOf, Contexts
  <2>2. /\ search \in Nat /\ delay \in Nat /\ ready \in Nat
        /\ search = Now \/ search = ready
    BY UrbanLoopAssumption DEF SearchReady, Base
  <2>3. PICK d \in StartupDelays : ready =< Now + d
    BY DEF Base
  <2>4. d \in Nat /\ search + delay =< Now + d + delay
    BY <2>2, <2>3, UrbanLoopAssumption
  <2>5. t \in UrbanTrackers /\ ~Tracked(t)
    BY <1>1 DEF Base
  <2> HIDE DEF context, search
  <2>6. Begun(s, context, Now, search, delay)
    BY <1>1, <2>1, <2>2, <2>5, ScheduleFacts DEF Scheduled, context, search
  <2> HIDE DEF s
  <2>7. PlanIsBounded(s, Now)
    BY <2>4, <2>6 DEF PlanIsBounded, Begun
  <2>8. QED
    <3>1. /\ s \in UrbanTrackers /\ s.since = Now /\ s.scheduled /\ s.above = Never
          /\ s.ready = search /\ s.start = search + delay /\ ~Tracked(s)
          /\ s.context = context
      BY <2>6 DEF Begun, Tracked
    <3>2. s.since =< Now /\ s.ready =< s.start
      BY <2>2, <3>1
    <3>3. QED
      BY <1>1, <2>1, <2>5, <2>7, <3>1, <3>2 DEF Planned, s
<1>2. CASE ~(available /\ ~t.scheduled)
  <2>1. s = t
    BY <1>2 DEF Scheduled
  <2> HIDE DEF s
  <2>2. QED
    BY <1>2, <2>1 DEF Planned, Base, s
<1>3. QED
  BY <1>1, <1>2

(* What one epoch of a powered receiver does to the signal.                *)
Unseen(t, sb, tm) ==
  /\ tracker' = t /\ ever' = sb /\ temporal' = tm
  /\ result' = NoResult /\ obs' = NoObservation /\ failed' = FALSE

Seen(s, t, sb, tm, available, roots) ==
  /\ Planned(s, t, sb, available) /\ PlannedAhead(s, t)
  /\ Outcome(tracker', s, Now, available, roots)
  /\ Carried(tracker', s, temporal', result', obs', Now)
  /\ ever' \in BOOLEAN /\ (ever' <=> sb \/ (available /\ ~t.scheduled))
  /\ failed' = FALSE

LEMMA UpdateSucceeds ==
  ASSUME NEW s \in UrbanTrackers, NEW now, NEW available \in BOOLEAN, NEW roots, NEW los,
         s.since \in Nat, s.since =< now, now \in Nat, available => s.scheduled,
         Outcome(UpdateUrbanTracker(s, now, available, roots, los), s, now, available, roots)
  PROVE  ~UrbanUpdateFails(s, now, available, roots, los)
<1> DEFINE u == UpdateUrbanTracker(s, now, available, roots, los)
<1> HIDE DEF u
<1>1. Outcome(u, s, now, available, roots)
  BY DEF u
<1>2. ASSUME Tracked(u) PROVE u.current.stable /\ u.current = Preselected(s, roots)
  BY <1>1, <1>2, OutcomeLocks DEF Enters, Keeps, Follows
<1>3. QED
  BY <1>2 DEF UrbanUpdateFails, u

LEMMA SignalEpochFacts ==
  ASSUME TypeOK, NEW sc, NEW t, NEW sb, NEW tm, NEW ready, NEW on \in BOOLEAN,
         BeginEpoch(sc), Base(sc, t, sb, tm, ready, on), SignalEpoch(sc, t, sb, tm, ready)
  PROVE  /\ input' \in Inputs
         /\ input'.kind = "NoGeometry" => Unseen(t, sb, tm)
         /\ input'.kind # "NoGeometry" =>
              \E s : Seen(s, t, sb, tm, sc.signal /\ input'.kind = "Visible", input'.roots)
<1> DEFINE available(i) == sc.signal /\ i.kind = "Visible"
           plan(i, delay) == Scheduled(t, sb, available(i), ready, delay)
           update(i, delay) == UpdateUrbanTracker(plan(i, delay), Now, available(i), i.roots, i.los)
<1>1. PICK i \in Inputs, delay \in AcquisitionDelays :
        LET u == update(i, delay)
            e == EpochOf(u)
            r == TemporalResult(tm, e, Now)
        IN  /\ input' = i
            /\ IF i.kind = "NoGeometry"
                 THEN /\ tracker' = t /\ ever' = sb /\ temporal' = tm
                      /\ result' = NoResult /\ obs' = NoObservation
                      /\ failed' = FALSE
                 ELSE /\ tracker' = u
                      /\ ever' = (sb \/ (available(i) /\ ~t.scheduled))
                      /\ temporal' = UpdateTemporal(tm, e, Now)
                      /\ result' = r
                      /\ obs' = IF Tracked(u) THEN Measurement(u, r) ELSE NoObservation
                      /\ failed' = \/ UrbanUpdateFails(plan(i, delay), Now, available(i), i.roots, i.los)
                                   \/ TemporalFails(tm, e, Now)
                                   \/ Tracked(u) /\ EffectsFail(e, r)
  BY DEF SignalEpoch
<1>2. CASE i.kind = "NoGeometry"
  BY <1>1, <1>2 DEF Unseen
<1>3. CASE i.kind # "NoGeometry"
  <2> DEFINE av == available(i)
             s == plan(i, delay)
             u == update(i, delay)
             e == EpochOf(u)
             r == TemporalResult(tm, e, Now)
  <2>1. /\ input' = i /\ tracker' = u
        /\ ever' = (sb \/ (av /\ ~t.scheduled))
        /\ temporal' = UpdateTemporal(tm, e, Now)
        /\ result' = r
        /\ obs' = IF Tracked(u) THEN Measurement(u, r) ELSE NoObservation
        /\ failed' = \/ UrbanUpdateFails(s, Now, av, i.roots, i.los)
                     \/ TemporalFails(tm, e, Now)
                     \/ Tracked(u) /\ EffectsFail(e, r)
    BY <1>1, <1>3
  <2>2. av \in BOOLEAN /\ i.roots \in Seq(Roots) /\ i.los \in BOOLEAN /\ Now \in Nat
    BY InputFacts, Clock DEF Base
  <2>3. s = Scheduled(t, sb, av, ready, delay)
        /\ u = UpdateUrbanTracker(s, Now, av, i.roots, i.los)
    OBVIOUS
  <2> HIDE DEF av, s, u, available, plan, update
  <2>4. Planned(s, t, sb, av) /\ PlannedAhead(s, t)
    BY <2>2, <2>3, PlannedFacts, PlannedAheadFacts
  <2>5. /\ s \in UrbanTrackers /\ s.since \in Nat /\ s.since =< Now
        /\ av => s.scheduled
        /\ Tracked(s) => s = t
        /\ Tracked(s) <=> Tracked(t)
    BY <2>4 DEF Planned, UrbanTrackers
  <2>6. /\ tm \in Temporals /\ (tm.active <=> Tracked(s))
        /\ tm.active => tm.segment = s.start /\ s.start =< tm.previous /\ tm.previous < Now
    BY <2>5 DEF Base
  <2>7. Tracked(s) => s.start =< Now
    <3>1. s.start \in Nat /\ tm.previous \in Int
      BY <2>5, <2>6 DEF UrbanTrackers, Temporals, NoTime
    <3>2. QED
      BY <2>2, <2>6, <3>1
  <2>8. Outcome(u, s, Now, av, i.roots)
    BY <2>2, <2>3, <2>5, <2>7, UpdateOutcome
  <2>9. ~UrbanUpdateFails(s, Now, av, i.roots, i.los)
    BY <2>2, <2>3, <2>5, <2>8, UpdateSucceeds
  <2>10. /\ Carried(u, s, temporal', result', obs', Now)
         /\ ~TemporalFails(tm, e, Now) /\ (Tracked(u) => ~EffectsFail(e, r))
    BY <2>1, <2>2, <2>5, <2>6, <2>8, CarrierFacts
  <2> HIDE DEF e, r
  <2>11. Seen(s, t, sb, tm, av, i.roots)
    BY <2>1, <2>2, <2>4, <2>8, <2>9, <2>10 DEF Seen, Base
  <2>12. QED
    BY <1>3, <2>1, <2>11 DEF av, available
<1>4. QED
  BY <1>2, <1>3

-----------------------------------------------------------------------------
(* An epoch of a powered receiver preserves the invariant, part by part.   *)

PowerAsTracked(s, roots) ==
  /\ EffectiveCn0(tracker, roots) = EffectiveCn0(s, roots)
  /\ Tracked(s) <=> Tracked(tracker)
  /\ Tracked(s) => s = tracker

LEMMA SamePower ==
  ASSUME NEW sc, NEW t, NEW sb, NEW tm, NEW ready, NEW on \in BOOLEAN, NEW s,
         NEW available \in BOOLEAN, available, available => sc.signal, NEW roots,
         Base(sc, t, sb, tm, ready, on), Planned(s, t, sb, available)
  PROVE  PowerAsTracked(s, roots)
<1>1. (Tracked(s) <=> Tracked(tracker)) /\ (Tracked(s) => s = tracker)
  BY DEF Base, Planned
<1>2. QED
  BY <1>1 DEF PowerAsTracked, EffectiveCn0, Preselected, ModeOf

(* The parts of an epoch, named once for the lemmas that follow.           *)
Powered(sc, t, sb, tm, ready, on) ==
  /\ IInv /\ BeginEpoch(sc) /\ Base(sc, t, sb, tm, ready, on)
  /\ input' \in Inputs
  /\ RememberPowered(sc, on) /\ startupReady' = ready

PoweredUnseen(sc, t, sb, tm, ready, on) ==
  /\ Powered(sc, t, sb, tm, ready, on)
  /\ input'.kind = "NoGeometry" /\ Unseen(t, sb, tm)

PoweredSeen(sc, t, sb, tm, ready, on, s, available) ==
  /\ Powered(sc, t, sb, tm, ready, on)
  /\ input'.kind # "NoGeometry" /\ available \in BOOLEAN
  /\ available <=> sc.signal /\ input'.kind = "Visible"
  /\ Seen(s, t, sb, tm, available, input'.roots)

(* The history after an epoch, from the input that epoch met.              *)
LEMMA PoweredHistory ==
  ASSUME NEW sc, NEW t, NEW sb, NEW tm, NEW ready, NEW on \in BOOLEAN,
         Powered(sc, t, sb, tm, ready, on)
  PROVE  LET visible == sc.signal /\ input'.kind = "Visible"
             cn0 == EffectiveCn0(tracker, input'.roots)
             good == visible /\ HasStableRoot(input'.roots) /\ cn0 >= AcquisitionCn0
             low == Tracked(tracker') /\ Tracked(tracker) /\ ~on /\ cn0 < MinTrackingCn0
             steady == visible /\ input'.roots = input.roots /\ cn0 >= AcquisitionCn0
         IN  /\ input'.kind = "NoGeometry" /\ ~on => goodSince' = goodSince /\ lowSince' = lowSince
             /\ input'.kind # "NoGeometry" \/ on =>
                  /\ goodSince' = IF ~good THEN Never
                                  ELSE IF on \/ goodSince = Never THEN Now ELSE goodSince
                  /\ lowSince' = IF ~low THEN Never ELSE IF lowSince = Never THEN Now ELSE lowSince
             /\ steadySince' = IF ~steady THEN Never
                               ELSE IF on \/ steadySince = Never THEN Now ELSE steadySince
             /\ lockedBefore' \in BOOLEAN
             /\ lockedBefore' <=> ~on /\ (lockedBefore \/ (Tracked(tracker) /\ ~Tracked(tracker')))
<1> DEFINE cn0 == EffectiveCn0(tracker, input'.roots)
           stable == HasStableRoot(input'.roots)
<1> HIDE DEF cn0, stable
<1>1. QED
  BY DEF Powered, RememberPowered, Since, cn0, stable

LEMMA PoweredClock ==
  ASSUME NEW sc, NEW t, NEW sb, NEW tm, NEW ready, NEW on \in BOOLEAN,
         Powered(sc, t, sb, tm, ready, on)
  PROVE  /\ TypeOK /\ Now \in Nat /\ Interval \in Nat \ {0} /\ LastTime = Now - Interval
         /\ LastTime' = Now /\ Now' = Now + Interval
BY Clock DEF Powered, IInv

LEMMA PoweredType ==
  ASSUME NEW sc, NEW t, NEW sb, NEW tm, NEW ready, NEW on \in BOOLEAN,
         Powered(sc, t, sb, tm, ready, on),
         tracker' \in UrbanTrackers, ever' \in BOOLEAN, temporal' \in Temporals,
         result' \in TemporalResults, obs' \in Observations, failed' = FALSE
  PROVE  TypeOK' /\ UrbanEpochsNeverFail'
<1>1. config' \in Scenarios /\ epoch' \in Nat /\ startupReady' \in Nat /\ input' \in Inputs
  BY DEF Powered, IInv, TypeOK, BeginEpoch, Base
<1>2. engine' \in Engines
  BY DEF Powered, BeginEpoch, Base, Remember, Engines
<1>3. {goodSince, lowSince, steadySince} \subseteq Nat \cup {Never} /\ Now \in Nat
  BY PoweredClock DEF TypeOK
<1>4. goodSince' \in Nat \cup {Never}
  BY <1>3, PoweredHistory
<1>5. lowSince' \in Nat \cup {Never}
  BY <1>3, PoweredHistory
<1>6. steadySince' \in Nat \cup {Never}
  BY <1>3, PoweredHistory
<1>7. lockedBefore' \in BOOLEAN
  BY PoweredHistory
<1>8. QED
  BY <1>1, <1>2, <1>4, <1>5, <1>6, <1>7 DEF TypeOK, UrbanEpochsNeverFail, Observations

LEMMA UnseenType ==
  ASSUME NEW sc, NEW t, NEW sb, NEW tm, NEW ready, NEW on \in BOOLEAN,
         PoweredUnseen(sc, t, sb, tm, ready, on)
  PROVE  TypeOK' /\ UrbanEpochsNeverFail'
<1>1. /\ tracker' \in UrbanTrackers /\ ever' \in BOOLEAN /\ temporal' \in Temporals
      /\ failed' = FALSE
  BY DEF PoweredUnseen, Powered, Unseen, Base
<1>2. result' \in TemporalResults /\ obs' \in Observations
  BY DEF PoweredUnseen, Unseen, NoResult, TemporalResults, NoObservation, Observations
<1>3. QED
  BY <1>1, <1>2, PoweredType DEF PoweredUnseen

LEMMA SeenType ==
  ASSUME NEW sc, NEW t, NEW sb, NEW tm, NEW ready, NEW on \in BOOLEAN, NEW s, NEW available,
         PoweredSeen(sc, t, sb, tm, ready, on, s, available)
  PROVE  TypeOK' /\ UrbanEpochsNeverFail'
BY PoweredType DEF PoweredSeen, Seen, Outcome, Carried

LEMMA UnseenPower ==
  ASSUME NEW sc, NEW t, NEW sb, NEW tm, NEW ready, NEW on \in BOOLEAN,
         PoweredUnseen(sc, t, sb, tm, ready, on)
  PROVE  PowerInv' /\ LockInv'
<1>1. /\ Now \in Nat /\ Interval \in Nat \ {0} /\ LastTime' = Now /\ Now' = Now + Interval
  BY PoweredClock DEF PoweredUnseen
<1>2. /\ tracker' = t /\ ever' = sb /\ temporal' = tm /\ obs'.adr = FALSE /\ startupReady' = ready
      /\ Base(sc, t, sb, tm, ready, on)
      /\ engine'.seen = TRUE /\ engine'.powered = TRUE /\ engine'.signal = sc.signal
  BY DEF PoweredUnseen, Powered, Unseen, NoObservation, Base, BeginEpoch, Remember
<1>3. PowerInv'
  BY <1>1, <1>2 DEF PowerInv, Base
<1>4. t.since \in Nat /\ tm.previous \in Int
  BY <1>2 DEF Base, UrbanTrackers, Temporals, NoTime
<1>5. LockInv'
  BY <1>1, <1>2, <1>4 DEF LockInv, Base, PlanIsBounded
<1>6. QED
  BY <1>3, <1>5

LEMMA SeenPower ==
  ASSUME NEW sc, NEW t, NEW sb, NEW tm, NEW ready, NEW on \in BOOLEAN, NEW s, NEW available,
         PoweredSeen(sc, t, sb, tm, ready, on, s, available)
  PROVE  PowerInv' /\ LockInv'
<1> DEFINE roots == input'.roots
           u == tracker'
<1>1. /\ Now \in Nat /\ Interval \in Nat \ {0} /\ LastTime' = Now /\ Now' = Now + Interval
  BY PoweredClock DEF PoweredSeen
<1>2. /\ Base(sc, t, sb, tm, ready, on) /\ Planned(s, t, sb, available)
      /\ Outcome(u, s, Now, available, roots)
      /\ Carried(u, s, temporal', result', obs', Now)
      /\ ever' <=> sb \/ (available /\ ~t.scheduled)
      /\ startupReady' = ready
      /\ available <=> sc.signal /\ input'.kind = "Visible"
      /\ available \in BOOLEAN
      /\ engine'.seen = TRUE /\ engine'.powered = TRUE /\ engine'.signal = sc.signal
  BY DEF PoweredSeen, Powered, Seen, Base, BeginEpoch, Remember
<1> HIDE DEF roots
<1>3. /\ s \in UrbanTrackers /\ s.since =< Now /\ s.ready \in Nat /\ s.start \in Nat
      /\ u \in UrbanTrackers /\ u.since \in Nat
      /\ s.scheduled => s.ready =< s.start /\ (~Tracked(s) => PlanIsBounded(s, Now))
      /\ available => s.scheduled
  BY <1>2 DEF Planned, Outcome, UrbanTrackers
<1>4. u.since =< Now
  BY <1>1, <1>2, <1>3 DEF Outcome, Gone, Waits, Acquires, Enters, Loses, Keeps, SamePlan
<1>5. ~available => ~u.scheduled /\ ~Tracked(u)
  BY <1>2 DEF Outcome, Gone, Tracked
<1>6. PowerInv'
  BY <1>1, <1>2, <1>5 DEF PowerInv, Base
<1>7. ASSUME u.scheduled
      PROVE  ever' /\ u.ready =< u.start /\ (~Tracked(u) => PlanIsBounded(u, Now))
  <2>1. available
    BY <1>2, <1>5, <1>7
  <2>2. ever'
    BY <1>2, <2>1 DEF Base
  <2>3. CASE Waits(u, s, Now) \/ Acquires(u, s, Now, roots)
    <3>1. SamePlan(u, s) /\ ~Tracked(s) /\ s.scheduled
      BY <1>3, <2>1, <2>3 DEF Waits, Acquires
    <3>2. QED
      BY <1>3, <2>2, <3>1 DEF SamePlan, PlanIsBounded
  <2>4. CASE Enters(u, s, Now, roots)
    BY <1>1, <1>3, <2>2, <2>4 DEF Enters
  <2>5. CASE Keeps(u, s, Now, roots)
    BY <1>3, <2>1, <2>2, <2>5 DEF Keeps, SamePlan
  <2>6. ~Loses(u, s, Now, roots)
    BY <1>7 DEF Loses
  <2>7. QED
    BY <1>2, <2>1, <2>3, <2>4, <2>5, <2>6 DEF Outcome
<1>8. Tracked(u) => u.scheduled
  BY ZenonT(60), <1>2, OutcomeLocks DEF Enters, Keeps
<1>9. /\ temporal'.active <=> Tracked(u)
      /\ temporal'.active => /\ temporal'.segment = u.start
                             /\ u.start =< temporal'.previous /\ temporal'.previous < Now'
      /\ obs'.adr => obs'.segment = obs'.ambiguity /\ obs'.segment < Now
  <2>1. temporal'.previous \in Int
    BY <1>2 DEF Carried, Temporals, NoTime
  <2>2. QED
    BY <1>1, <1>2, <2>1 DEF Carried
<1>10. u.since =< Now'
  BY <1>1, <1>3, <1>4
<1>11. LockInv'
  BY <1>1, <1>7, <1>8, <1>9, <1>10 DEF LockInv
<1>12. QED
  BY <1>6, <1>11

LEMMA UnseenThresholds ==
  ASSUME NEW sc, NEW t, NEW sb, NEW tm, NEW ready, NEW on \in BOOLEAN,
         PoweredUnseen(sc, t, sb, tm, ready, on)
  PROVE  ThresholdInv' /\ SlipInv' /\ SteadyInv'
<1>1. /\ TypeOK /\ Now \in Nat /\ Interval \in Nat \ {0} /\ LastTime = Now - Interval /\ LastTime' = Now
  BY PoweredClock DEF PoweredUnseen
<1>2. /\ tracker' = t /\ ever' = sb /\ Base(sc, t, sb, tm, ready, on)
      /\ input'.kind = "NoGeometry" /\ ThresholdInv /\ SlipInv
      /\ t \in UrbanTrackers
  BY DEF PoweredUnseen, Powered, Unseen, IInv, Base
<1>3. /\ ~on => goodSince' = goodSince /\ lowSince' = lowSince
      /\ on => goodSince' = Never
      /\ steadySince' = Never
      /\ lockedBefore' <=> ~on /\ (lockedBefore \/ (Tracked(tracker) /\ ~Tracked(tracker')))
  BY <1>2, PoweredHistory DEF PoweredUnseen
<1>4. /\ goodSince \in Int /\ t.above \in Int
  BY <1>1, <1>2 DEF TypeOK, UrbanTrackers, Never
<1>5. Tracked(t) => ~on /\ t = tracker
  BY <1>2 DEF Base
<1>6. ThresholdInv'
  BY <1>1, <1>2, <1>3, <1>4, <1>5 DEF ThresholdInv, LowPowerEndsLock, Base
<1>7. SlipInv'
  <2>1. lockedBefore' => ever'
    BY <1>2, <1>3 DEF Base
  <2>2. ASSUME lockedBefore', t.scheduled, ~Tracked(t) PROVE t.context = "Reacquisition"
    <3>1. ~on /\ t = tracker
      BY <1>2, <1>3, <2>2 DEF Base
    <3>2. lockedBefore
      BY <1>3, <2>2, <3>1
    <3>3. QED
      BY <1>2, <2>2, <3>1, <3>2 DEF SlipInv
  <2>3. QED
    BY <1>2, <2>1, <2>2 DEF SlipInv
<1>8. SteadyInv'
  BY <1>2, <1>3 DEF SteadyInv
<1>9. QED
  BY <1>6, <1>7, <1>8

(* The tracker's qualification never started before the power was good.     *)
AboveTimesGood(above) ==
  goodSince' # Never /\ goodSince' =< above /\ above =< Now

LEMMA SeenAbove ==
  ASSUME NEW sc, NEW t, NEW sb, NEW tm, NEW ready, NEW on \in BOOLEAN, NEW s, NEW available,
         PoweredSeen(sc, t, sb, tm, ready, on, s, available),
         available, AboveAfter(s, Now, input'.roots) # Never
  PROVE  AboveTimesGood(AboveAfter(s, Now, input'.roots))
<1> DEFINE roots == input'.roots
           cn0 == EffectiveCn0(tracker, roots)
           stable == HasStableRoot(roots)
           above == AboveAfter(s, Now, roots)
<1>1. /\ TypeOK /\ Now \in Nat /\ Interval \in Nat \ {0} /\ LastTime = Now - Interval /\ LastTime' = Now
  BY PoweredClock DEF PoweredSeen
<1>2. /\ Base(sc, t, sb, tm, ready, on) /\ Planned(s, t, sb, available)
      /\ available => sc.signal
      /\ available \in BOOLEAN /\ input'.kind # "NoGeometry"
      /\ ThresholdInv
  BY DEF PoweredSeen, Powered, Seen, IInv
<1>3. roots \in Seq(Roots) /\ tracker \in UrbanTrackers
  BY <1>1, InputFacts DEF PoweredSeen, Powered, TypeOK
<1>4. /\ cn0 \in Int /\ MinTrackingCn0 \in Int /\ AcquisitionCn0 \in Int
      /\ MinTrackingCn0 < AcquisitionCn0
      /\ cn0 >= AcquisitionCn0 => stable
  BY <1>3, PreselectedFacts, UrbanTrackingAssumption
<1> HIDE DEF roots
<1>5. PowerAsTracked(s, roots)
  BY <1>2, SamePower
<1>6. EffectiveCn0(s, roots) = cn0
  BY <1>5 DEF PowerAsTracked
<1> HIDE DEF cn0, stable
<1>7. goodSince' = IF ~(available /\ stable /\ cn0 >= AcquisitionCn0) THEN Never
                   ELSE IF on \/ goodSince = Never THEN Now ELSE goodSince
  BY <1>2, PoweredHistory DEF PoweredSeen, cn0, stable, roots
<1>8. /\ goodSince \in Int /\ s.above \in Int /\ Never = -1
  BY <1>1, <1>2 DEF TypeOK, Planned, UrbanTrackers, Never
<1>9. cn0 >= AcquisitionCn0 /\ stable
  <2>1. AboveAfter(s, Now, roots) # Never
    BY DEF roots
  <2>2. QED
    BY <1>4, <1>6, <2>1 DEF AboveAfter
<1>10. above = IF s.above = Never THEN Now ELSE s.above
  BY <1>4, <1>6, <1>9 DEF AboveAfter
<1>11. goodSince # Never => goodSince =< LastTime
  BY <1>2 DEF ThresholdInv
<1> HIDE DEF above
<1>12. CASE s.above = Never
  <2>1. above = Now
    BY <1>10, <1>12
  <2>2. goodSince' = Now \/ (goodSince' = goodSince /\ goodSince # Never)
    BY <1>7, <1>9
  <2>3. QED
    BY <1>1, <1>8, <1>11, <2>1, <2>2 DEF AboveTimesGood, above, roots
<1>13. CASE s.above # Never
  <2>1. above = s.above
    BY <1>10, <1>13
  <2>2. s = t
    BY <1>2, <1>13 DEF Planned
  <2>3. ~on
    BY <1>2, <1>13, <2>2 DEF Base
  <2>4. goodSince # Never /\ goodSince =< s.above /\ s.above =< LastTime
    BY <1>2, <1>13, <2>2, <2>3 DEF Base
  <2>5. goodSince' = goodSince
    BY <1>7, <1>9, <2>3, <2>4
  <2>6. QED
    BY <1>1, <1>8, <2>1, <2>4, <2>5 DEF AboveTimesGood, above, roots
<1>14. QED
  BY <1>12, <1>13

LEMMA SeenThresholds ==
  ASSUME NEW sc, NEW t, NEW sb, NEW tm, NEW ready, NEW on \in BOOLEAN, NEW s, NEW available,
         PoweredSeen(sc, t, sb, tm, ready, on, s, available)
  PROVE  ThresholdInv' /\ SlipInv'
<1> DEFINE roots == input'.roots
           u == tracker'
           cn0 == EffectiveCn0(tracker, roots)
           stable == HasStableRoot(roots)
<1>1. /\ TypeOK /\ Now \in Nat /\ Interval \in Nat \ {0} /\ LastTime = Now - Interval /\ LastTime' = Now
  BY PoweredClock DEF PoweredSeen
<1>2. /\ Base(sc, t, sb, tm, ready, on) /\ Planned(s, t, sb, available)
      /\ Outcome(u, s, Now, available, roots)
      /\ ever' <=> sb \/ (available /\ ~t.scheduled)
      /\ available <=> sc.signal /\ input'.kind = "Visible"
      /\ available \in BOOLEAN /\ input'.kind # "NoGeometry"
      /\ ThresholdInv /\ SlipInv
  BY DEF PoweredSeen, Powered, Seen, IInv
<1>3. roots \in Seq(Roots) /\ tracker \in UrbanTrackers
  BY <1>1, InputFacts DEF PoweredSeen, Powered, TypeOK
<1>4. /\ cn0 \in Int /\ MinTrackingCn0 \in Int /\ AcquisitionCn0 \in Int
      /\ MinTrackingCn0 < AcquisitionCn0
      /\ cn0 >= AcquisitionCn0 => stable
  BY <1>3, PreselectedFacts, UrbanTrackingAssumption
<1> HIDE DEF roots
<1>5. ASSUME available
      PROVE  /\ EffectiveCn0(s, roots) = cn0
             /\ Tracked(s) <=> Tracked(tracker)
             /\ Tracked(s) => s = tracker
  <2>1. available => sc.signal
    BY <1>2
  <2>2. PowerAsTracked(s, roots)
    BY <1>2, <1>5, <2>1, SamePower
  <2>3. QED
    BY <2>2 DEF PowerAsTracked
<1> HIDE DEF cn0, stable
<1>6. /\ goodSince' = IF ~(available /\ stable /\ cn0 >= AcquisitionCn0) THEN Never
                      ELSE IF on \/ goodSince = Never THEN Now ELSE goodSince
      /\ lowSince' = IF ~(Tracked(u) /\ Tracked(tracker) /\ ~on /\ cn0 < MinTrackingCn0) THEN Never
                     ELSE IF lowSince = Never THEN Now ELSE lowSince
      /\ lockedBefore' <=> ~on /\ (lockedBefore \/ (Tracked(tracker) /\ ~Tracked(u)))
  BY <1>2, PoweredHistory DEF PoweredSeen, cn0, stable, roots
<1>7. /\ goodSince \in Int /\ lowSince \in Int /\ s.above \in Int /\ s.below \in Int
      /\ Never = -1 /\ Never \in Int
  BY <1>1, <1>2 DEF TypeOK, Planned, UrbanTrackers, Never
<1>8. Tracked(tracker) => ~on
  BY <1>2 DEF Base
<1>9. ASSUME Tracked(u)
      PROVE  /\ u.above = Never /\ u.below = lowSince'
             /\ lowSince' # Never => Now - lowSince' < LossPersistence
  <2>1. available /\ (Enters(u, s, Now, roots) \/ Keeps(u, s, Now, roots))
    BY <1>2, <1>9, OutcomeLocks
  <2>2. CASE Enters(u, s, Now, roots)
    <3>1. ~Tracked(tracker) /\ u.above = Never /\ u.below = Never
      BY <1>5, <2>1, <2>2 DEF Enters
    <3>2. QED
      BY <1>6, <3>1
  <2>3. CASE Keeps(u, s, Now, roots)
    <3>1. Tracked(tracker) /\ s = tracker /\ ~on
      BY <1>5, <1>8, <2>1, <2>3 DEF Keeps
    <3>2. s.above = Never /\ s.below = lowSince
      BY <1>2, <3>1 DEF ThresholdInv
    <3>3. /\ u.above = Never /\ u.below = BelowAfter(s, Now, roots)
          /\ ~(u.below # Never /\ Now - u.below >= LossPersistence)
      BY <2>3, <3>2 DEF Keeps
    <3>4. BelowAfter(s, Now, roots) = lowSince'
      BY <1>4, <1>5, <1>6, <1>9, <2>1, <3>1, <3>2 DEF BelowAfter
    <3>5. lowSince' \in Int
      BY <1>1, <1>6, <1>7
    <3>6. LossPersistence \in Int
      BY UrbanTrackingAssumption
    <3>7. u.below = lowSince' /\ ~(lowSince' # Never /\ Now - lowSince' >= LossPersistence)
      BY <3>3, <3>4
    <3>8. ASSUME lowSince' # Never PROVE Now - lowSince' < LossPersistence
      <4> DEFINE since == lowSince'
      <4>1. since \in Int /\ ~(Now - since >= LossPersistence)
        BY <3>5, <3>7, <3>8
      <4> HIDE DEF since
      <4>2. Now - since < LossPersistence
        BY <1>1, <3>6, <4>1
      <4>3. QED
        BY <4>2 DEF since
    <3>9. QED
      BY <3>3, <3>7, <3>8
  <2>4. QED
    BY <2>1, <2>2, <2>3
<1>10. ASSUME u.above # Never
       PROVE  goodSince' # Never /\ goodSince' =< u.above /\ u.above =< Now
  <2>1. available /\ Acquires(u, s, Now, roots)
    BY <1>2, <1>9, <1>10 DEF Outcome, Gone, Waits, Enters, Loses, Keeps
  <2>2. u.above = AboveAfter(s, Now, input'.roots)
    BY <2>1 DEF Acquires, roots
  <2>3. AboveTimesGood(AboveAfter(s, Now, input'.roots))
    BY <1>10, <2>1, <2>2, SeenAbove
  <2>4. QED
    BY <1>10, <2>2, <2>3 DEF AboveTimesGood
<1>11. goodSince' # Never => goodSince' =< Now
  <2>1. goodSince # Never => goodSince =< LastTime
    BY <1>2 DEF ThresholdInv
  <2>2. QED
    BY <1>1, <1>6, <1>7, <2>1
<1>12. ThresholdInv'
  BY <1>1, <1>9, <1>10, <1>11 DEF ThresholdInv, LowPowerEndsLock
<1>13. lockedBefore' => ever' /\ sb
  BY <1>2, <1>6 DEF Base
<1>14. ASSUME lockedBefore', u.scheduled, ~Tracked(u) PROVE u.context = "Reacquisition"
  <2>1. available /\ u.context = s.context /\ ~Tracked(s) /\ s.scheduled
    BY <1>2, <1>14 DEF Outcome, Gone, Waits, Acquires, Enters, Loses, Keeps, SamePlan, Planned
  <2>2. CASE s = t
    <3>1. ~on /\ t = tracker
      BY <1>2, <2>1, <2>2 DEF Base
    <3>2. lockedBefore
      BY <1>6, <1>14, <2>1, <2>2, <3>1
    <3>3. QED
      BY <1>2, <2>1, <2>2, <3>1, <3>2 DEF SlipInv
  <2>3. CASE s # t
    BY <1>2, <1>13, <1>14, <2>1, <2>3 DEF Planned
  <2>4. QED
    BY <2>2, <2>3
<1>15. SlipInv'
  BY <1>13, <1>14 DEF SlipInv
<1>16. QED
  BY <1>12, <1>15

LEMMA SeenSteady ==
  ASSUME NEW sc, NEW t, NEW sb, NEW tm, NEW ready, NEW on \in BOOLEAN, NEW s, NEW available,
         PoweredSeen(sc, t, sb, tm, ready, on, s, available)
  PROVE  SteadyInv'
<1> DEFINE roots == input'.roots
           u == tracker'
           cn0 == EffectiveCn0(tracker, roots)
<1>1. /\ TypeOK /\ Now \in Nat /\ Interval \in Nat \ {0} /\ LastTime = Now - Interval /\ LastTime' = Now
  BY PoweredClock DEF PoweredSeen
<1>2. /\ Base(sc, t, sb, tm, ready, on) /\ Planned(s, t, sb, available)
      /\ Outcome(u, s, Now, available, roots)
      /\ available <=> sc.signal /\ input'.kind = "Visible"
      /\ available \in BOOLEAN
      /\ ThresholdInv /\ SteadyInv
  BY DEF PoweredSeen, Powered, Seen, IInv
<1>3. /\ roots \in Seq(Roots) /\ tracker \in UrbanTrackers
      /\ input.kind # "Visible" => input.roots = << >>
  <2>1. input \in Inputs /\ input' \in Inputs /\ tracker \in UrbanTrackers
    BY <1>1 DEF PoweredSeen, Powered, TypeOK
  <2>2. roots \in Seq(Roots)
    BY <2>1, InputFacts
  <2>3. input.kind # "Visible" => input.roots = << >>
    BY <2>1, InputFacts
  <2>4. QED
    BY <2>1, <2>2, <2>3
<1> HIDE DEF roots, u
<1>4. Tracked(u) => \E k \in DOMAIN roots : roots[k].stable /\ u.previous = roots[k]
  <2>1. Tracked(u) => Enters(u, s, Now, roots) \/ Keeps(u, s, Now, roots)
    BY <1>2, OutcomeLocks
  <2>2. Tracked(u) => Follows(u, s, roots)
    BY <2>1 DEF Enters, Keeps
  <2>3. QED
    BY <2>2 DEF Follows
<1>5. ASSUME steadySince' # Never
      PROVE  /\ input'.kind = "Visible" /\ HasStableRoot(roots)
             /\ u.scheduled /\ steadySince' =< Now
             /\ ~Tracked(u) => /\ PlanIsBounded(u, steadySince')
                               /\ Persists(u, steadySince', Now)
  <2>1. /\ available /\ input'.kind = "Visible" /\ roots = input.roots /\ cn0 >= AcquisitionCn0
        /\ steadySince' = IF on \/ steadySince = Never THEN Now ELSE steadySince
    BY <1>2, <1>5, PoweredHistory DEF PoweredSeen, roots
  <2>2. /\ cn0 \in Int /\ MinTrackingCn0 \in Int /\ AcquisitionCn0 \in Int
        /\ MinTrackingCn0 < AcquisitionCn0
        /\ cn0 >= MinTrackingCn0 => HasStableRoot(roots)
    BY <1>3, PreselectedFacts, UrbanTrackingAssumption
  <2>3. HasStableRoot(roots)
    BY <2>1, <2>2
  <2>4. /\ EffectiveCn0(s, roots) = cn0
        /\ Tracked(s) <=> Tracked(tracker)
        /\ Tracked(s) => s = tracker
    <3>1. available => sc.signal
      BY <1>2
    <3>2. PowerAsTracked(s, roots)
      BY <1>2, <2>1, <3>1, SamePower
    <3>3. QED
      BY <3>2 DEF PowerAsTracked
  <2>5. input.roots # << >>
    BY <2>1, <2>3 DEF HasStableRoot
  <2>6. input.kind = "Visible" /\ ~on
    BY <1>2, <1>3, <2>5 DEF Base, NoInput
  <2>7. t = tracker /\ steadySince' = IF steadySince = Never THEN Now ELSE steadySince
    BY <1>2, <2>1, <2>6 DEF Base
  <2>8. ~Loses(u, s, Now, roots)
    <3>1. SUFFICES ASSUME Loses(u, s, Now, roots) PROVE FALSE
      OBVIOUS
    <3>2. Tracked(s) /\ s = tracker
      BY <2>4, <3>1 DEF Loses
    <3>3. PICK k \in DOMAIN roots : roots[k].stable /\ s.previous = roots[k]
      BY <1>2, <2>1, <2>4, <2>6, <3>2 DEF SteadyInv
    <3>4. s.previous.phase \in Int
      BY <1>3, <3>2, RootsFacts DEF UrbanTrackers, Roots
    <3>5. Distance(s.previous.phase, s.previous.phase) = 0
      BY <3>4 DEF Distance
    <3>6. ~(Distance(roots[k].phase, s.previous.phase) > RootJump)
      <4>1. ~(Distance(s.previous.phase, s.previous.phase) > RootJump)
        BY <3>5, UrbanTrackingAssumption
      <4>2. roots[k] = s.previous
        BY <3>3
      <4>3. QED
        BY ZenonT(60), <4>1, <4>2
    <3>7. BelowAfter(s, Now, roots) = Never
      BY <2>1, <2>2, <2>4 DEF BelowAfter
    <3>8. QED
      BY <2>3, <3>1, <3>3, <3>6, <3>7 DEF Loses
  <2>9. steadySince' =< Now /\ steadySince' \in Int /\ steadySince \in Int
    BY <1>1, <1>2, <2>7 DEF SteadyInv, TypeOK, Never
  <2>10. u.scheduled
    BY <1>2, <2>1, <2>8 DEF Outcome, Waits, Acquires, Enters, Keeps
  <2>11. ASSUME ~Tracked(u)
         PROVE  PlanIsBounded(u, steadySince') /\ Persists(u, steadySince', Now)
    <3>1. /\ Waits(u, s, Now) \/ Acquires(u, s, Now, roots)
          /\ ~Tracked(s) /\ SamePlan(u, s)
      BY <1>2, <2>1, <2>8, <2>11 DEF Outcome, Enters, Keeps, Waits, Acquires
    <3>2. /\ s.ready \in Nat /\ s.start \in Nat /\ s.above \in Int /\ s.scheduled
          /\ s \in UrbanTrackers
      BY <1>2, <2>1 DEF Planned, UrbanTrackers, Never
    <3>3. ~Tracked(tracker)
      BY <2>4, <3>1
    <3>4. ASSUME steadySince # Never
          PROVE  /\ s = tracker /\ PlanIsBounded(s, steadySince)
                 /\ Persists(s, steadySince, LastTime)
      BY <1>2, <2>7, <3>3, <3>4 DEF SteadyInv, Planned
    <3>5. PlanIsBounded(s, steadySince')
      <4>1. PlanIsBounded(s, Now)
        BY <1>2, <3>1, <3>2 DEF Planned
      <4>2. QED
        BY <2>7, <3>4, <4>1
    <3>6. PlanIsBounded(u, steadySince')
      BY <3>1, <3>5 DEF PlanIsBounded, SamePlan
    <3>7. ASSUME Now >= s.ready
          PROVE  /\ u.above # Never
                 /\ u.above =< steadySince' \/ u.above < s.ready + Interval
                 /\ Now >= s.start => Now - u.above < AcquisitionPersistence
      <4>1. Acquires(u, s, Now, roots)
        BY <1>1, <3>1, <3>2, <3>7 DEF Waits
      <4>2. /\ u.above = AboveAfter(s, Now, roots)
            /\ ~(u.above # Never /\ Now - u.above >= AcquisitionPersistence /\ Now >= s.start)
        BY <2>3, <4>1 DEF Acquires
      <4>3. u.above = IF s.above = Never THEN Now ELSE s.above
        BY <2>1, <2>2, <2>4, <4>2 DEF AboveAfter
      <4>4. u.above # Never /\ u.above \in Int /\ AcquisitionPersistence \in Int
        BY <1>1, <3>2, <4>3, UrbanTrackingAssumption DEF Never
      <4>5. s.above # Never => s = tracker /\ s.above =< LastTime
        BY <1>2, <2>7 DEF Planned, ThresholdInv
      <4>6. CASE steadySince = Never
        BY <1>1, <2>7, <3>2, <4>2, <4>3, <4>4, <4>5, <4>6
      <4>7. CASE steadySince # Never
        <5>1. LastTime >= s.ready =>
                s.above # Never /\ (s.above =< steadySince \/ s.above < s.ready + Interval)
          BY <3>4, <4>7 DEF Persists
        <5>2. u.above =< steadySince \/ u.above < s.ready + Interval
          BY <1>1, <2>9, <3>2, <4>3, <4>5, <5>1
        <5>3. QED
          BY <1>1, <2>7, <3>2, <4>2, <4>4, <4>7, <5>2
      <4>8. QED
        BY <4>6, <4>7
    <3>8. Persists(u, steadySince', Now)
      BY <3>1, <3>7 DEF Persists, SamePlan
    <3>9. QED
      BY <3>6, <3>8
  <2>12. QED
    BY <2>1, <2>3, <2>9, <2>10, <2>11
<1>6. SteadyInv'
  BY <1>1, <1>4, <1>5 DEF SteadyInv, Persists, roots, u
<1>7. QED
  BY <1>6

-----------------------------------------------------------------------------
(* What an epoch may do to a lock.                                         *)

SlipStep == result'.lock /\ ~result'.rate /\ lockedBefore => result'.slip

EarnedStep ==
  ~Tracked(tracker) /\ Tracked(tracker') =>
    goodSince' # Never /\ Now - goodSince' >= AcquisitionPersistence

ExplainedStep ==
  Tracked(tracker) /\ ~Tracked(tracker') /\ engine'.powered /\ engine'.signal =>
    CASE tracker'.reason = "SignalUnavailable" -> input'.kind = "Hidden"
      [] tracker'.reason = "NoStableDllRoot"   -> ~HasStableRoot(input'.roots)
      [] tracker'.reason = "LowCn0" ->
           /\ EffectiveCn0(tracker, input'.roots) < MinTrackingCn0
           /\ LossPersistence > 0 =>
                lowSince # Never /\ Now - lowSince >= LossPersistence
      [] tracker'.reason = "AbruptDllRootSwitch" ->
           /\ HasStableRoot(input'.roots)
           /\ \A k \in DOMAIN input'.roots :
                input'.roots[k].stable =>
                  Distance(input'.roots[k].phase, tracker.previous.phase) > RootJump
      [] OTHER -> FALSE

LockSteps == SlipStep /\ EarnedStep /\ ExplainedStep

LEMMA UnseenSteps ==
  ASSUME NEW sc, NEW t, NEW sb, NEW tm, NEW ready, NEW on \in BOOLEAN,
         PoweredUnseen(sc, t, sb, tm, ready, on)
  PROVE  LockSteps
<1>1. /\ tracker' = t /\ result'.lock = FALSE /\ engine'.signal = sc.signal
      /\ Base(sc, t, sb, tm, ready, on)
  BY DEF PoweredUnseen, Powered, Unseen, NoResult, BeginEpoch, Remember
<1>2. SlipStep
  BY <1>1 DEF SlipStep
<1>3. EarnedStep
  BY <1>1 DEF EarnedStep, Base
<1>4. ExplainedStep
  <2>1. ~(Tracked(tracker) /\ ~Tracked(t) /\ sc.signal)
    BY <1>1 DEF Base
  <2>2. QED
    BY <1>1, <2>1 DEF ExplainedStep
<1>5. QED
  BY <1>2, <1>3, <1>4 DEF LockSteps

LEMMA SeenSteps ==
  ASSUME NEW sc, NEW t, NEW sb, NEW tm, NEW ready, NEW on \in BOOLEAN, NEW s, NEW available,
         PoweredSeen(sc, t, sb, tm, ready, on, s, available)
  PROVE  LockSteps
<1> DEFINE roots == input'.roots
           u == tracker'
<1>1. /\ TypeOK /\ Now \in Nat
  BY PoweredClock DEF PoweredSeen
<1>2. /\ Base(sc, t, sb, tm, ready, on) /\ Planned(s, t, sb, available)
      /\ Outcome(u, s, Now, available, roots)
      /\ Carried(u, s, temporal', result', obs', Now)
      /\ available => sc.signal
      /\ available \in BOOLEAN /\ input'.kind # "NoGeometry"
      /\ ~available => ~sc.signal \/ input'.kind # "Visible"
      /\ ThresholdInv /\ SlipInv /\ LockInv
      /\ engine'.signal = sc.signal /\ input' \in Inputs
  BY DEF PoweredSeen, Powered, Seen, IInv, BeginEpoch, Remember
<1>3. roots \in Seq(Roots) /\ tracker \in UrbanTrackers /\ input'.kind \in {"NoGeometry", "Hidden", "Visible"}
  BY <1>1, <1>2, InputFacts DEF TypeOK
<1> HIDE DEF roots, u
<1>4. available => PowerAsTracked(s, roots)
  BY <1>2, SamePower
<1>5. SlipStep
  <2>1. SUFFICES ASSUME result'.lock, ~result'.rate, lockedBefore PROVE result'.slip
    BY DEF SlipStep
  <2>2. Tracked(u) /\ ~Tracked(s) /\ (s.context = "Reacquisition" => result'.slip)
    BY <1>2, <2>1 DEF Carried
  <2>3. available
    BY <1>2, <2>2, OutcomeLocks
  <2>4. sb /\ ~on
    BY <1>2, <2>1 DEF Base
  <2>5. CASE s = t
    BY <1>2, <2>1, <2>2, <2>3, <2>4, <2>5 DEF Base, Planned, SlipInv
  <2>6. CASE s # t
    BY <1>2, <2>2, <2>4, <2>6 DEF Planned
  <2>7. QED
    BY <2>5, <2>6
<1>6. EarnedStep
  <2>1. SUFFICES ASSUME ~Tracked(tracker), Tracked(u)
                 PROVE  goodSince' # Never /\ Now - goodSince' >= AcquisitionPersistence
    BY DEF EarnedStep, u
  <2>2. available /\ (Enters(u, s, Now, roots) \/ Keeps(u, s, Now, roots))
    BY <1>2, <2>1, OutcomeLocks
  <2>3. ~Tracked(s)
    BY <1>4, <2>1, <2>2 DEF PowerAsTracked
  <2>4. Enters(u, s, Now, roots)
    BY <2>2, <2>3 DEF Keeps
  <2> DEFINE above == AboveAfter(s, Now, roots)
             since == goodSince'
  <2>5. above # Never /\ Now - above >= AcquisitionPersistence
    BY <2>4 DEF Enters
  <2>6. since # Never /\ since =< above /\ above =< Now
    BY <2>2, <2>5, SeenAbove DEF AboveTimesGood, roots
  <2>7. above \in Int
    BY <1>1, <1>2 DEF AboveAfter, Planned, UrbanTrackers, Never
  <2>8. since \in Int
    BY <1>1, <1>2, PoweredHistory DEF PoweredSeen, TypeOK, Never
  <2>9. AcquisitionPersistence \in Int
    BY UrbanTrackingAssumption
  <2> HIDE DEF above, since
  <2>10. Now - since >= AcquisitionPersistence
    BY <1>1, <2>5, <2>6, <2>7, <2>8, <2>9
  <2>11. QED
    BY <2>6, <2>10 DEF since
<1>7. ExplainedStep
  <2>1. SUFFICES ASSUME Tracked(tracker), ~Tracked(u), sc.signal
                 PROVE  CASE u.reason = "SignalUnavailable" -> input'.kind = "Hidden"
                          [] u.reason = "NoStableDllRoot"   -> ~HasStableRoot(roots)
                          [] u.reason = "LowCn0" ->
                               /\ EffectiveCn0(tracker, roots) < MinTrackingCn0
                               /\ LossPersistence > 0 =>
                                    lowSince # Never /\ Now - lowSince >= LossPersistence
                          [] u.reason = "AbruptDllRootSwitch" ->
                               /\ HasStableRoot(roots)
                               /\ \A k \in DOMAIN roots :
                                    roots[k].stable =>
                                      Distance(roots[k].phase, tracker.previous.phase) > RootJump
                          [] OTHER -> FALSE
    BY <1>2 DEF ExplainedStep, u, roots
  <2>2. ~on /\ t = tracker /\ s = tracker /\ Tracked(s)
    BY <1>2, <2>1 DEF Base, Planned
  <2>3. CASE ~available
    <3>1. u.reason = "SignalUnavailable" /\ input'.kind = "Hidden"
      BY <1>2, <1>3, <2>1, <2>2, <2>3 DEF Outcome, Gone
    <3>2. QED
      BY <3>1
  <2>4. CASE available
    <3>1. Loses(u, s, Now, roots)
      BY <1>2, <2>1, <2>2, <2>4 DEF Outcome, Waits, Acquires, Enters, Keeps
    <3>2. CASE u.reason = "NoStableDllRoot" /\ ~HasStableRoot(roots)
      BY <3>2
    <3>3. CASE /\ u.reason = "AbruptDllRootSwitch" /\ HasStableRoot(roots)
               /\ \A k \in DOMAIN roots : roots[k].stable =>
                    Distance(roots[k].phase, s.previous.phase) > RootJump
      BY <2>2, <3>3
    <3>4. CASE /\ u.reason = "LowCn0"
               /\ BelowAfter(s, Now, roots) # Never
               /\ Now - BelowAfter(s, Now, roots) >= LossPersistence
      <4>1. s.below = lowSince
        BY <1>2, <2>2 DEF ThresholdInv
      <4>2. EffectiveCn0(tracker, roots) \in Int /\ MinTrackingCn0 \in Int
        BY <1>3, PreselectedFacts, UrbanTrackingAssumption
      <4>3. /\ EffectiveCn0(tracker, roots) < MinTrackingCn0
            /\ BelowAfter(s, Now, roots) = IF lowSince = Never THEN Now ELSE lowSince
        BY <2>2, <3>4, <4>1, <4>2 DEF BelowAfter
      <4>4. LossPersistence > 0 => lowSince # Never /\ Now - lowSince >= LossPersistence
        <5>1. Now - Now = 0 /\ LossPersistence \in Int
          BY <1>1, UrbanTrackingAssumption
        <5>2. QED
          BY <3>4, <4>3, <5>1
      <4>5. QED
        BY <3>4, <4>3, <4>4
    <3>5. QED
      BY <3>1, <3>2, <3>3, <3>4 DEF Loses
  <2>5. QED
    BY <2>3, <2>4
<1>8. QED
  BY <1>5, <1>6, <1>7 DEF LockSteps

-----------------------------------------------------------------------------
(* The lock of the signal, as SignalLocks tells it.                        *)

LEMMA LockOfFacts ==
  ASSUME NEW t \in UrbanTrackers
  PROVE  /\ ~t.scheduled => LockOf(t) = Locks!TrackerOff
         /\ t.scheduled /\ Tracked(t) => LockOf(t) = Locks!Locked(t.start)
         /\ t.scheduled /\ ~Tracked(t) => LockOf(t) = Locks!Seeking(t.start)
BY DEF LockOf, UrbanTrackers, Tracked, Locks!TrackerOff, Locks!Locked, Locks!Seeking, Locks!None

(* The locks one epoch may leave.                                          *)
LEMMA NextLocks ==
  ASSUME NEW t, NEW sc, NEW next, next = Locks!NextTrackers(t, sc)
  PROVE  /\ Locks!TrackerOff \in next
         /\ sc.signal = TRUE =>
              /\ t \in next /\ Locks!LocksNow(t) \subseteq next
              /\ t.phase = "SignalOff" => \A x \in LockDelays : Locks!Seeking(Now + x) \in next
BY DEF Locks!NextTrackers, Locks!Now, Now

LEMMA UnseenLock ==
  ASSUME NEW sc, NEW t, NEW sb, NEW tm, NEW ready, NEW on \in BOOLEAN,
         PoweredUnseen(sc, t, sb, tm, ready, on)
  PROVE  LockOf(tracker') \in Locks!NextTrackers(LockOf(t), sc)
<1>1. tracker' = t /\ t \in UrbanTrackers /\ sc.signal \in BOOLEAN /\ (~sc.signal => ~t.scheduled)
  BY DEF PoweredUnseen, Powered, Unseen, Base
<1>2. ~sc.signal => LockOf(t) = Locks!TrackerOff
  BY <1>1, LockOfFacts
<1>3. QED
  BY <1>1, <1>2, NextLocks

(* A lock begins with the epoch that finds it, once its plan allows one.   *)
LEMMA SeenLock ==
  ASSUME NEW sc, NEW t, NEW sb, NEW tm, NEW ready, NEW on \in BOOLEAN, NEW s, NEW available,
         PoweredSeen(sc, t, sb, tm, ready, on, s, available)
  PROVE  LockOf(tracker') \in Locks!NextTrackers(LockOf(t), sc)
<1> DEFINE roots == input'.roots
<1> SUFFICES ASSUME NEW u, u = tracker'
             PROVE  LockOf(u) \in Locks!NextTrackers(LockOf(t), sc)
  OBVIOUS
<1>1. /\ available \in BOOLEAN /\ sc.signal \in BOOLEAN /\ (available => sc.signal)
      /\ Planned(s, t, sb, available) /\ PlannedAhead(s, t)
      /\ Outcome(u, s, Now, available, roots)
      /\ t \in UrbanTrackers /\ (Tracked(t) => t.scheduled)
  BY DEF PoweredSeen, Powered, Base, Seen
<1>2. u \in UrbanTrackers /\ s \in UrbanTrackers /\ s.start \in Nat /\ Now \in Nat
  BY <1>1, PoweredClock DEF PoweredSeen, Outcome, Planned, UrbanTrackers
<1> HIDE DEF roots
<1>3. CASE ~u.scheduled
  <2>1. LockOf(u) = Locks!TrackerOff
    BY <1>2, <1>3, LockOfFacts
  <2>2. Locks!TrackerOff \in Locks!NextTrackers(LockOf(t), sc)
    BY NextLocks
  <2>3. QED
    BY <2>1, <2>2
<1>4. CASE u.scheduled
  <2>1. /\ available /\ s.scheduled /\ sc.signal = TRUE
        /\ \/ Waits(u, s, Now)
           \/ Acquires(u, s, Now, roots)
           \/ Enters(u, s, Now, roots)
           \/ Keeps(u, s, Now, roots)
    BY <1>1, <1>4 DEF Outcome, Gone, Loses, Planned
  <2> DEFINE lock == LockOf(t)
             locks == Locks!NextTrackers(lock, sc)
  <2> HIDE DEF lock
  <2>2. /\ lock \in locks /\ Locks!LocksNow(lock) \subseteq locks
        /\ lock.phase = "SignalOff" => \A x \in LockDelays : Locks!Seeking(Now + x) \in locks
    BY <1>1, <2>1, NextLocks
  <2> HIDE DEF locks
  <2>3. \/ ~Tracked(s) /\ ~Tracked(u) /\ u.start = s.start
        \/ ~Tracked(s) /\ Tracked(u) /\ u.start = Now /\ s.start =< Now
        \/ Tracked(s) /\ Tracked(u) /\ u.start = s.start
    BY <1>2, <2>1 DEF Waits, Acquires, Enters, Keeps, SamePlan, Tracked
  <2>4. CASE s = t
    <3>1. CASE (Tracked(s) <=> Tracked(u)) /\ u.start = s.start
      <4>1. LockOf(u) = LockOf(t)
        BY <1>1, <1>2, <1>4, <2>1, <2>4, <3>1, LockOfFacts
      <4>2. QED
        BY <2>2, <4>1 DEF lock, locks
    <3>2. CASE ~Tracked(s) /\ Tracked(u) /\ u.start = Now /\ s.start =< Now
      <4>1. LockOf(u) = Locks!Locked(Now) /\ LockOf(t) = Locks!Seeking(s.start)
        BY <1>1, <1>2, <1>4, <2>1, <2>4, <3>2, LockOfFacts
      <4>2. LockOf(u) \in Locks!LocksNow(LockOf(t))
        BY <3>2, <4>1 DEF Locks!LocksNow, Locks!Seeking, Locks!Now, Now
      <4>3. QED
        BY <2>2, <4>2 DEF lock, locks
    <3>3. QED
      BY <2>3, <3>1, <3>2
  <2>5. CASE s # t
    <3>1. ~t.scheduled /\ ~Tracked(s)
      BY <1>1, <2>5 DEF PlannedAhead, Planned
    <3>2. PICK x \in LockDelays : s.start = Now + x
      BY <1>1, <2>5 DEF PlannedAhead
    <3>3. LockOf(t) = Locks!TrackerOff /\ LockOf(t).phase = "SignalOff"
      BY <1>1, <3>1, LockOfFacts DEF Locks!TrackerOff
    <3>4. CASE ~Tracked(u) /\ u.start = s.start
      <4>1. LockOf(u) = Locks!Seeking(Now + x)
        BY <1>2, <1>4, <3>2, <3>4, LockOfFacts
      <4>2. QED
        BY <2>2, <3>3, <4>1 DEF lock, locks
    <3>5. CASE Tracked(u) /\ u.start = Now /\ s.start =< Now
      <4>1. x \in Nat
        BY UrbanLoopAssumption DEF LockDelays
      <4>2. x = 0
        BY <1>2, <3>2, <3>5, <4>1
      <4>3. LockOf(u) = Locks!Locked(Now)
        BY <1>2, <1>4, <3>5, LockOfFacts
      <4>4. LockOf(u) \in Locks!LocksNow(LockOf(t))
        BY <3>3, <4>2, <4>3 DEF Locks!LocksNow, Locks!Now, Now
      <4>5. QED
        BY <2>2, <4>4 DEF lock, locks
    <3>6. QED
      BY <2>3, <3>1, <3>4, <3>5
  <2>6. QED
    BY <2>4, <2>5
<1>5. QED
  BY <1>3, <1>4

(* The two specifications derive the same scenario and remember it alike.  *)
LEMMA SameScenario ==
  ASSUME NEW c, NEW elapsed, NEW e, NEW sc
  PROVE  /\ Locks!ScenarioAt(c, elapsed) = ScenarioAt(c, elapsed)
         /\ Locks!PowerOn(e, sc) = PowerOn(e, sc)
         /\ Locks!Remember(sc) = Remember(sc)
         /\ Locks!Now = Now
         /\ Locks!NewEngine = NewEngine
BY DEF Locks!ScenarioAt, ScenarioAt, Locks!InOnPart, InOnPart, Locks!PowerOn, PowerOn,
       Locks!Remember, Remember, Locks!Now, Now, Locks!NewEngine, NewEngine

LEMMA LocksBegin ==
  ASSUME NEW sc, BeginEpoch(sc)
  PROVE  Locks!BeginEpoch(sc)
BY SameScenario DEF BeginEpoch, Locks!BeginEpoch

LEMMA OneLock ==
  ASSUME NEW sc, NEW before,
         LockOf(tracker') \in Locks!NextTrackers(before["signal"], sc)
  PROVE  Locks!UpdateTrackers(before, sc)
BY DEF Locks!UpdateTrackers

(* A powered epoch is one of SignalLocks, on the tracker it starts from.   *)
LEMMA PoweredLock ==
  ASSUME NEW sc, NEW t, sc = ScenarioAt(config, Now), BeginEpoch(sc), sc.powered,
         sc.signal \in BOOLEAN, t \in UrbanTrackers,
         LockOf(tracker') \in Locks!NextTrackers(LockOf(t), sc),
         IF PowerOn(engine, sc) THEN ~t.scheduled ELSE sc.signal => t = tracker
  PROVE  Locks!LocksNext
<1>1. Locks!BeginEpoch(sc) /\ sc = Locks!ScenarioAt(config, Locks!Now)
      /\ Locks!PowerOn(engine, sc) = PowerOn(engine, sc)
  BY LocksBegin, SameScenario
<1>2. CASE PowerOn(engine, sc)
  <2>1. LockOf(t) = Locks!TrackerOff
    BY <1>2, LockOfFacts
  <2>2. Locks!UpdateTrackers(Locks!AllOff, sc)
    BY <2>1, OneLock DEF Locks!AllOff
  <2>3. QED
    BY <1>1, <1>2, <2>2 DEF Locks!PowerOnLocks, Locks!LocksNext
<1>3. CASE ~PowerOn(engine, sc)
  <2>1. Locks!NextTrackers(LockOf(t), sc) = Locks!NextTrackers(LockOf(tracker), sc)
    BY <1>3 DEF Locks!NextTrackers
  <2>2. Locks!UpdateTrackers([s \in {"signal"} |-> LockOf(tracker)], sc)
    BY <2>1, OneLock
  <2>3. QED
    BY <1>1, <1>3, <2>2 DEF Locks!PoweredLocks, Locks!LocksNext
<1>4. QED
  BY <1>2, <1>3

-----------------------------------------------------------------------------
LEMMA PoweredPreserves ==
  ASSUME NEW sc, NEW t, NEW sb, NEW tm, NEW ready, NEW on \in BOOLEAN,
         IInv, BeginEpoch(sc), Base(sc, t, sb, tm, ready, on),
         SignalEpoch(sc, t, sb, tm, ready), RememberPowered(sc, on), startupReady' = ready
  PROVE  IInv' /\ LockSteps /\ LockOf(tracker') \in Locks!NextTrackers(LockOf(t), sc)
<1>1. TypeOK
  BY DEF IInv
<1>2. /\ input' \in Inputs
      /\ input'.kind = "NoGeometry" => Unseen(t, sb, tm)
      /\ input'.kind # "NoGeometry" =>
           \E s : Seen(s, t, sb, tm, sc.signal /\ input'.kind = "Visible", input'.roots)
  BY <1>1, SignalEpochFacts
<1>3. Powered(sc, t, sb, tm, ready, on)
  BY <1>2 DEF Powered
<1>4. CASE input'.kind = "NoGeometry"
  <2>1. PoweredUnseen(sc, t, sb, tm, ready, on)
    BY <1>2, <1>3, <1>4 DEF PoweredUnseen
  <2>2. QED
    BY <2>1, UnseenType, UnseenPower, UnseenThresholds, UnseenSteps, UnseenLock DEF IInv
<1>5. CASE input'.kind # "NoGeometry"
  <2> DEFINE available == sc.signal /\ input'.kind = "Visible"
  <2>1. PICK s : Seen(s, t, sb, tm, available, input'.roots)
    BY <1>2, <1>5
  <2>2. available \in BOOLEAN /\ (available <=> sc.signal /\ input'.kind = "Visible")
    BY DEF Base
  <2> HIDE DEF available
  <2>3. PoweredSeen(sc, t, sb, tm, ready, on, s, available)
    BY <1>3, <1>5, <2>1, <2>2 DEF PoweredSeen
  <2>4. QED
    BY <2>3, SeenType, SeenPower, SeenThresholds, SeenSteady, SeenSteps, SeenLock DEF IInv
<1>6. QED
  BY <1>4, <1>5

-----------------------------------------------------------------------------
(* The five kinds of epoch.                                                *)

LEMMA ScenarioAtType ==
  ASSUME NEW c, NEW elapsed
  PROVE  /\ ScenarioAt(c, elapsed).powered \in BOOLEAN
         /\ ScenarioAt(c, elapsed).signal \in BOOLEAN
         /\ ~ScenarioAt(c, elapsed).powered => ~ScenarioAt(c, elapsed).signal
BY DEF ScenarioAt

(* A tracker that was just reset, and one the signal was taken from.       *)
LEMMA ResetFacts ==
  ASSUME NEW now \in Nat
  PROVE  LET v == ResetUrbanTracker(now)
         IN  /\ v \in UrbanTrackers /\ ~v.scheduled /\ ~Tracked(v)
             /\ v.since = now /\ v.above = Never
<1>1. /\ "Blocked" \in UrbanStates /\ "None" \in LossReasons /\ "Hot" \in Contexts
      /\ "SignalOff" \in Phases
  BY DEF UrbanStates, LossReasons, Contexts, Phases
<1>2. ResetUrbanTracker(now) \in UrbanTrackers
  BY <1>1, RecordConstants DEF ResetUrbanTracker, UrbanTrackers
<1>3. QED
  BY <1>2 DEF ResetUrbanTracker, Tracked

LEMMA SignalLostFacts ==
  ASSUME NEW t \in UrbanTrackers, NEW now \in Nat
  PROVE  LET v == SignalLost(t, now)
         IN  /\ v \in UrbanTrackers /\ ~v.scheduled /\ ~Tracked(v)
             /\ v.since = now /\ v.above = t.above
<1> DEFINE v == SignalLost(t, now)
<1>1. v = [t EXCEPT !.lock = 0, !.psr = FALSE, !.doppler = FALSE, !.adr = FALSE,
                    !.phase = "SignalOff", !.since = now, !.scheduled = FALSE]
  BY DEF SignalLost, ClearObservation, UrbanTrackers
<1> HIDE DEF v
<1>2. v \in UrbanTrackers
  BY <1>1, RecordConstants DEF UrbanTrackers
<1>3. v.scheduled = FALSE /\ v.phase = "SignalOff" /\ v.since = now /\ v.above = t.above
  BY <1>1 DEF UrbanTrackers
<1>4. QED
  BY <1>2, <1>3 DEF v, Tracked

LEMMA FreshFacts ==
  FreshTemporal \in Temporals /\ ~FreshTemporal.active
BY DEF FreshTemporal, Temporals

LEMMA PowerOnPreserves ==
  ASSUME IInv, PowerOnEpoch
  PROVE  IInv' /\ LockSteps /\ Locks!LocksNext
<1> DEFINE sc == ScenarioAt(config, Now)
           t == ResetUrbanTracker(Now)
<1>1. /\ BeginEpoch(sc) /\ PowerOn(engine, sc)
      /\ \E d \in StartupDelays : startupReady' = Now + d
      /\ SignalEpoch(sc, t, FALSE, FreshTemporal, startupReady')
      /\ RememberPowered(sc, TRUE)
  BY DEF PowerOnEpoch
<1>2. sc.powered = TRUE /\ sc.signal \in BOOLEAN /\ (engine.seen => ~engine.powered)
  BY <1>1, ScenarioAtType DEF PowerOn
<1> HIDE DEF sc
<1>3. TypeOK /\ Now \in Nat
  BY <1>1, Clock DEF IInv
<1>4. ~Tracked(tracker) /\ input = NoInput /\ lowSince = Never /\ ~lockedBefore
  BY <1>2 DEF IInv, PowerInv
<1>5. /\ t \in UrbanTrackers /\ ~t.scheduled /\ ~Tracked(t) /\ t.since = Now /\ t.above = Never
  BY <1>3, ResetFacts
<1>6. \E d \in StartupDelays : startupReady' =< Now + d
  BY <1>1, <1>3, UrbanLoopAssumption
<1>7. startupReady' \in Nat
  BY <1>1, <1>3, UrbanLoopAssumption
<1> HIDE DEF t
<1>8. Base(sc, t, FALSE, FreshTemporal, startupReady', TRUE)
  BY <1>2, <1>3, <1>4, <1>5, <1>6, <1>7, FreshFacts DEF Base
<1>9. IInv' /\ LockSteps /\ LockOf(tracker') \in Locks!NextTrackers(LockOf(t), sc)
  BY <1>1, <1>8, PoweredPreserves
<1>10. QED
  BY <1>1, <1>2, <1>5, <1>9, PoweredLock DEF sc

LEMMA SignalOffPreserves ==
  ASSUME IInv, SignalOffEpoch
  PROVE  IInv' /\ LockSteps /\ Locks!LocksNext
<1> DEFINE sc == ScenarioAt(config, Now)
           t == SignalLost(tracker, Now)
<1>1. /\ BeginEpoch(sc) /\ sc.powered /\ SignalOff(engine, sc)
      /\ SignalEpoch(sc, t, ever, FreshTemporal, startupReady)
      /\ RememberPowered(sc, FALSE) /\ startupReady' = startupReady
  BY DEF SignalOffEpoch
<1>2. sc.powered = TRUE /\ sc.signal = FALSE /\ sc.signal \in BOOLEAN /\ engine.signal
  BY <1>1, ScenarioAtType DEF SignalOff
<1> HIDE DEF sc
<1>3. /\ TypeOK /\ Now \in Nat /\ Interval \in Nat \ {0} /\ LastTime = Now - Interval
  BY <1>1, Clock DEF IInv
<1>4. tracker \in UrbanTrackers /\ ever \in BOOLEAN /\ startupReady \in Nat
  BY <1>3 DEF TypeOK
<1>5. /\ t \in UrbanTrackers /\ ~t.scheduled /\ ~Tracked(t) /\ t.since = Now /\ t.above = tracker.above
  BY <1>3, <1>4, SignalLostFacts
<1>6. /\ PowerInv /\ LockInv /\ ThresholdInv /\ SlipInv
  BY DEF IInv
<1>7. engine.powered
  BY <1>2, <1>6 DEF PowerInv
<1>8. \E d \in StartupDelays : startupReady =< Now + d
  <2>1. PICK d \in StartupDelays : startupReady =< LastTime + d
    BY <1>6, <1>7 DEF PowerInv
  <2>2. startupReady =< Now + d
    BY <1>3, <1>4, <2>1, UrbanLoopAssumption
  <2>3. QED
    BY <2>2
<1> HIDE DEF t
<1>9. lockedBefore \/ Tracked(tracker) => ever
  BY <1>6 DEF SlipInv, LockInv
<1>10. t.above # Never => goodSince # Never /\ goodSince =< t.above /\ t.above =< LastTime
  BY <1>5, <1>6 DEF ThresholdInv
<1>11. Base(sc, t, ever, FreshTemporal, startupReady, FALSE)
  <2>1. t.since =< Now
    BY <1>3, <1>5
  <2>2. QED
    BY <1>2, <1>4, <1>5, <1>8, <1>9, <1>10, <2>1, FreshFacts DEF Base
<1>12. IInv' /\ LockSteps /\ LockOf(tracker') \in Locks!NextTrackers(LockOf(t), sc)
  BY <1>1, <1>11, PoweredPreserves
<1>13. ~PowerOn(engine, sc)
  BY <1>6, <1>7 DEF PowerOn, PowerInv
<1>14. QED
  BY <1>1, <1>2, <1>5, <1>12, <1>13, PoweredLock DEF sc

LEMMA RunningPreserves ==
  ASSUME IInv, RunningEpoch
  PROVE  IInv' /\ LockSteps /\ Locks!LocksNext
<1> DEFINE sc == ScenarioAt(config, Now)
<1>1. /\ BeginEpoch(sc) /\ sc.powered /\ ~PowerOn(engine, sc) /\ ~SignalOff(engine, sc)
      /\ SignalEpoch(sc, tracker, ever, temporal, startupReady)
      /\ RememberPowered(sc, FALSE) /\ startupReady' = startupReady
  BY DEF RunningEpoch
<1>2. /\ sc.powered = TRUE /\ sc.signal \in BOOLEAN
      /\ engine.seen /\ engine.powered /\ (~sc.signal => ~engine.signal)
  BY <1>1, ScenarioAtType DEF PowerOn, SignalOff
<1> HIDE DEF sc
<1>3. /\ TypeOK /\ Now \in Nat /\ Interval \in Nat \ {0} /\ LastTime = Now - Interval
  BY <1>1, Clock DEF IInv
<1>4. /\ tracker \in UrbanTrackers /\ ever \in BOOLEAN /\ startupReady \in Nat
      /\ temporal \in Temporals
  BY <1>3 DEF TypeOK
<1>5. /\ PowerInv /\ LockInv /\ ThresholdInv /\ SlipInv
  BY DEF IInv
<1>6. \E d \in StartupDelays : startupReady =< Now + d
  <2>1. PICK d \in StartupDelays : startupReady =< LastTime + d
    BY <1>2, <1>5 DEF PowerInv
  <2>2. startupReady =< Now + d
    BY <1>3, <1>4, <2>1, UrbanLoopAssumption
  <2>3. QED
    BY <2>2
<1>7. ASSUME PlanIsBounded(tracker, LastTime) PROVE PlanIsBounded(tracker, Now)
  <2>1. PICK u \in StartupDelays, a \in AcquisitionDelays : tracker.start =< LastTime + u + a
    BY <1>7 DEF PlanIsBounded
  <2>2. tracker.start \in Nat /\ u \in Nat /\ a \in Nat
    BY <1>4, UrbanLoopAssumption DEF UrbanTrackers
  <2>3. tracker.start =< Now + u + a
    BY <1>3, <2>1, <2>2
  <2>4. QED
    BY <2>3 DEF PlanIsBounded
<1>8. lockedBefore \/ Tracked(tracker) => ever
  BY <1>5 DEF SlipInv, LockInv
<1>9. tracker.above # Never => goodSince # Never /\ goodSince =< tracker.above /\ tracker.above =< LastTime
  BY <1>5 DEF ThresholdInv
<1>10. ~sc.signal => ~tracker.scheduled /\ ~Tracked(tracker)
  BY <1>2, <1>5 DEF PowerInv
<1>11. Base(sc, tracker, ever, temporal, startupReady, FALSE)
  BY <1>2, <1>3, <1>4, <1>5, <1>6, <1>7, <1>8, <1>9, <1>10 DEF Base, LockInv
<1>12. IInv' /\ LockSteps /\ LockOf(tracker') \in Locks!NextTrackers(LockOf(tracker), sc)
  BY <1>1, <1>11, PoweredPreserves
<1>13. QED
  BY <1>1, <1>2, <1>4, <1>12, PoweredLock DEF sc

(* An epoch without power leaves a tracker that neither tracks nor waits.  *)
Dark(sc) ==
  /\ BeginEpoch(sc) /\ sc.powered = FALSE /\ sc.signal = FALSE /\ Silent
  /\ tracker' \in UrbanTrackers /\ ~tracker'.scheduled /\ ~Tracked(tracker')
  /\ tracker'.since =< Now /\ tracker'.above = Never
  /\ temporal' \in Temporals /\ ~temporal'.active

LEMMA DarkLock ==
  ASSUME NEW sc, sc = ScenarioAt(config, Now), Dark(sc)
  PROVE  Locks!LocksNext
<1>1. LockOf(tracker') = Locks!TrackerOff
  BY LockOfFacts DEF Dark
<1>2. [s \in {"signal"} |-> LockOf(tracker)]' = Locks!AllOff
  BY <1>1 DEF Locks!AllOff
<1>3. QED
  BY <1>2, LocksBegin, SameScenario DEF Dark, Locks!UnpoweredLocks, Locks!LocksNext

LEMMA DarkPreserves ==
  ASSUME NEW sc, IInv, Dark(sc)
  PROVE  IInv' /\ LockSteps
<1>1. /\ TypeOK /\ Now \in Nat /\ Interval \in Nat \ {0} /\ LastTime' = Now /\ Now' = Now + Interval
  BY Clock DEF IInv, Dark
<1>2. /\ result' = NoResult /\ obs' = NoObservation /\ input' = NoInput
      /\ goodSince' = Never /\ lowSince' = Never /\ steadySince' = Never
      /\ lockedBefore' = FALSE
      /\ startupReady' = startupReady /\ ever' = ever /\ failed' = failed
      /\ config' = config /\ epoch' = epoch + 1
      /\ engine' = Remember(sc)
  BY DEF Dark, Silent, BeginEpoch
<1>3. engine' \in Engines /\ engine'.powered = FALSE /\ engine'.signal = FALSE
  BY <1>2 DEF Dark, Remember, Engines
<1>4. NoInput \in Inputs /\ NoInput.kind = "NoGeometry"
  BY DEF NoInput, Inputs
<1>5. /\ NoResult \in TemporalResults /\ ~NoResult.lock
      /\ NoObservation \in Observations /\ ~NoObservation.adr
  <2>1. NoResult \in TemporalResults /\ NoResult.lock = FALSE
    BY DEF NoResult, TemporalResults
  <2>2. NoObservation \in Observations /\ NoObservation.adr = FALSE
    BY DEF NoObservation, Observations
  <2>3. QED
    BY <2>1, <2>2
<1>6. TypeOK' /\ UrbanEpochsNeverFail'
  <2>1. UrbanEpochsNeverFail' /\ failed' \in BOOLEAN /\ ever' \in BOOLEAN /\ lockedBefore' \in BOOLEAN
    BY <1>1, <1>2 DEF TypeOK, UrbanEpochsNeverFail, IInv
  <2>2. config' \in Scenarios /\ epoch' \in Nat /\ startupReady' \in Nat
    BY <1>1, <1>2 DEF TypeOK
  <2>3. {goodSince', lowSince', steadySince'} \subseteq Nat \cup {Never}
    BY <1>2
  <2>4. tracker' \in UrbanTrackers /\ temporal' \in Temporals
    BY DEF Dark
  <2>5. result' \in TemporalResults /\ obs' \in Observations /\ input' \in Inputs
    BY <1>2, <1>4, <1>5
  <2>6. QED
    BY <1>3, <2>1, <2>2, <2>3, <2>4, <2>5 DEF TypeOK, Observations
<1>7. PowerInv'
  BY <1>2, <1>3 DEF Dark, PowerInv
<1>8. tracker'.since =< Now'
  <2> DEFINE since == tracker'.since
  <2>1. since \in Nat /\ since =< Now
    BY DEF Dark, UrbanTrackers
  <2> HIDE DEF since
  <2>2. since =< Now + Interval
    BY <1>1, <2>1
  <2>3. QED
    BY <1>1, <2>2 DEF since
<1>9. LockInv'
  BY <1>2, <1>5, <1>8 DEF Dark, LockInv
<1>10. ThresholdInv' /\ SlipInv' /\ SteadyInv'
  BY <1>2 DEF Dark, ThresholdInv, LowPowerEndsLock, SlipInv, SteadyInv
<1>11. LockSteps
  BY <1>2, <1>3, <1>5 DEF Dark, LockSteps, SlipStep, EarnedStep, ExplainedStep
<1>12. QED
  BY <1>6, <1>7, <1>9, <1>10, <1>11 DEF IInv

LEMMA PowerOffPreserves ==
  ASSUME IInv, PowerOffEpoch
  PROVE  IInv' /\ LockSteps /\ Locks!LocksNext
<1> DEFINE sc == ScenarioAt(config, Now)
<1>1. /\ BeginEpoch(sc) /\ PowerOff(engine, sc) /\ Silent
      /\ tracker' = ResetUrbanTracker(Now) /\ temporal' = FreshTemporal
  BY DEF PowerOffEpoch
<1>2. sc.powered = FALSE /\ sc.signal = FALSE
  BY <1>1, ScenarioAtType DEF PowerOff
<1> HIDE DEF sc
<1>3. Now \in Nat
  BY <1>1, Clock DEF IInv
<1>4. /\ tracker' \in UrbanTrackers /\ ~tracker'.scheduled /\ ~Tracked(tracker')
      /\ tracker'.since =< Now /\ tracker'.above = Never
  BY <1>1, <1>3, ResetFacts
<1>5. Dark(sc)
  BY <1>1, <1>2, <1>4, FreshFacts DEF Dark
<1>6. QED
  BY <1>5, DarkPreserves, DarkLock DEF sc

LEMMA UnpoweredPreserves ==
  ASSUME IInv, UnpoweredEpoch
  PROVE  IInv' /\ LockSteps /\ Locks!LocksNext
<1> DEFINE sc == ScenarioAt(config, Now)
<1>1. /\ BeginEpoch(sc) /\ ~sc.powered /\ ~PowerOff(engine, sc) /\ Silent
      /\ tracker' = tracker /\ temporal' = temporal
  BY DEF UnpoweredEpoch
<1>2. sc.powered = FALSE /\ sc.signal = FALSE /\ (engine.seen => ~engine.powered)
  BY <1>1, ScenarioAtType DEF PowerOff
<1> HIDE DEF sc
<1>3. TypeOK /\ PowerInv /\ LockInv /\ ThresholdInv
  BY DEF IInv
<1>4. /\ ~engine.powered /\ goodSince = Never /\ ~tracker.scheduled /\ ~Tracked(tracker)
  BY <1>2, <1>3 DEF PowerInv
<1>5. /\ tracker \in UrbanTrackers /\ temporal \in Temporals /\ ~temporal.active
      /\ tracker.since =< Now /\ tracker.above = Never
  BY <1>3, <1>4 DEF TypeOK, LockInv, ThresholdInv
<1>6. Dark(sc)
  BY <1>1, <1>2, <1>4, <1>5 DEF Dark
<1>7. QED
  BY <1>6, DarkPreserves, DarkLock DEF sc

LEMMA IInvInit ==
  ASSUME Init
  PROVE  IInv
<1>1. Interval \in Nat \ {0} /\ Now = 0 /\ LastTime = 0 - Interval
  <2>1. epoch = 0 /\ Interval \in Nat \ {0}
    BY UrbanLoopAssumption DEF Init
  <2>2. QED
    BY <2>1 DEF Now, LastTime
<1>2. /\ tracker \in UrbanTrackers /\ ~tracker.scheduled /\ ~Tracked(tracker)
      /\ tracker.since = 0 /\ tracker.above = Never
  BY ResetFacts DEF Init
<1>3. /\ temporal \in Temporals /\ ~temporal.active
      /\ result \in TemporalResults /\ obs \in Observations /\ ~obs.adr
  BY FreshFacts DEF Init, NoResult, TemporalResults, NoObservation, Observations
<1>4. input \in Inputs /\ input = NoInput /\ input.kind = "NoGeometry"
  BY DEF Init, NoInput, Inputs
<1>5. /\ engine \in Engines /\ ~engine.powered /\ ~engine.signal
  BY DEF Init, NewEngine, Engines
<1>6. TypeOK /\ UrbanEpochsNeverFail
  BY <1>2, <1>3, <1>4, <1>5 DEF Init, TypeOK, UrbanEpochsNeverFail, Observations
<1>7. PowerInv
  BY <1>2, <1>4, <1>5 DEF Init, PowerInv
<1>8. LockInv
  BY <1>1, <1>2, <1>3 DEF LockInv
<1>9. ThresholdInv /\ SlipInv /\ SteadyInv
  BY <1>2 DEF Init, ThresholdInv, LowPowerEndsLock, SlipInv, SteadyInv
<1>10. QED
  BY <1>6, <1>7, <1>8, <1>9 DEF IInv

LEMMA IInvNext ==
  ASSUME IInv, Next
  PROVE  IInv' /\ LockSteps /\ Locks!LocksNext
BY PowerOnPreserves, SignalOffPreserves, RunningPreserves, PowerOffPreserves, UnpoweredPreserves
   DEF Next

LEMMA IInvStutters ==
  ASSUME IInv, UNCHANGED vars
  PROVE  IInv'
<1>1. TypeOK' /\ UrbanEpochsNeverFail'
  BY DEF IInv, TypeOK, UrbanEpochsNeverFail, vars, history
<1>2. PowerInv' /\ LockInv'
  BY DEF IInv, PowerInv, LockInv, PlanIsBounded, Now, LastTime, vars, history
<1>3. ThresholdInv' /\ SlipInv' /\ SteadyInv'
  BY DEF IInv, ThresholdInv, LowPowerEndsLock, SlipInv, SteadyInv, Now, LastTime, vars, history
<1>4. QED
  BY <1>1, <1>2, <1>3 DEF IInv

LEMMA InvariantHolds == Spec => []IInv
<1>1. Init => IInv
  BY IInvInit
<1>2. IInv /\ [Next]_vars => IInv'
  BY IInvNext, IInvStutters
<1>3. QED
  BY <1>1, <1>2, PTL DEF Spec

LEMMA StepsHold == Spec => [][LockSteps]_vars
<1>1. IInv /\ [Next]_vars => [LockSteps]_vars
  BY IInvNext
<1>2. QED
  BY <1>1, InvariantHolds, PTL DEF Spec

-----------------------------------------------------------------------------
(* The theorems, for every scenario, interval, delay, threshold and every  *)
(* set of environments.                                                    *)

\* Every state of a multipath run is well typed: whatever the discriminator
\* finds, a tracker follows a stable root or none.
THEOREM UrbanTypeCorrect == Spec => []TypeOK
<1>1. IInv => TypeOK
  BY DEF IInv
<1>2. QED
  BY <1>1, InvariantHolds, PTL

\* update_urban_signal_epoch_from_paths, update_urban_carrier_temporal_state
\* and apply_urban_measurement_effects never return one of their errors: the
\* root the epoch selects is always the one the tracker follows.
THEOREM UrbanEpochsSucceed == Spec => []UrbanEpochsNeverFail
<1>1. IInv => UrbanEpochsNeverFail
  BY DEF IInv
<1>2. QED
  BY <1>1, InvariantHolds, PTL

\* The environmental carrier phase has one segment per lock, and a reported
\* carrier phase never spans two of them.
THEOREM SegmentsAreLocks == Spec => []SegmentIsLock
<1>1. IInv => SegmentIsLock
  BY DEF IInv, LockInv, SegmentIsLock
<1>2. QED
  BY <1>1, InvariantHolds, PTL

\* No lock outlives the loss persistence of low power.
THEOREM LowPowerEndsLocks == Spec => []LowPowerEndsLock
<1>1. IInv => LowPowerEndsLock
  BY DEF IInv, ThresholdInv
<1>2. QED
  BY <1>1, InvariantHolds, PTL

\* A strong signal with steady roots is tracked once its startup, its longest
\* acquisition, the acquisition persistence and one epoch have passed.
THEOREM SteadySignalsAreTracked == Spec => []SteadySignalIsTracked
<1>1. IInv => SteadySignalIsTracked
  <2>1. SUFFICES ASSUME IInv, steadySince # Never, ~Tracked(tracker),
                        \A u \in StartupDelays, a \in AcquisitionDelays :
                          LastTime - steadySince >= u + a + AcquisitionPersistence + Interval
                 PROVE  FALSE
    BY DEF SteadySignalIsTracked
  <2>2. /\ PlanIsBounded(tracker, steadySince) /\ Persists(tracker, steadySince, LastTime)
        /\ tracker.scheduled
    BY <2>1 DEF IInv, SteadyInv
  <2>3. PICK u \in StartupDelays, a \in AcquisitionDelays : tracker.start =< steadySince + u + a
    BY <2>2 DEF PlanIsBounded
  <2>4. LastTime - steadySince >= u + a + AcquisitionPersistence + Interval
    BY <2>1
  <2>5. /\ tracker.start \in Nat /\ tracker.ready \in Nat /\ tracker.above \in Int
        /\ tracker.ready =< tracker.start
        /\ steadySince \in Int /\ u \in Nat /\ a \in Nat
    BY <2>1, <2>2, UrbanLoopAssumption DEF IInv, TypeOK, LockInv, UrbanTrackers, Never
  <2>6. LastTime \in Int /\ Interval \in Nat
    <3>1. epoch \in Nat /\ Interval \in Nat
      BY <2>1, UrbanLoopAssumption DEF IInv, TypeOK
    <3>2. epoch * Interval \in Nat
      BY <3>1
    <3>3. QED
      BY <3>1, <3>2 DEF LastTime, Now
  <2>7. AcquisitionPersistence \in Nat
    BY UrbanTrackingAssumption
  <2>8. LastTime >= tracker.ready /\ LastTime >= tracker.start
    BY <2>3, <2>4, <2>5, <2>6, <2>7
  <2>9. /\ tracker.above =< steadySince \/ tracker.above < tracker.ready + Interval
        /\ LastTime - tracker.above < AcquisitionPersistence
    BY <2>2, <2>8 DEF Persists
  <2>10. QED
    BY <2>3, <2>4, <2>5, <2>6, <2>7, <2>9
<1>2. QED
  BY <1>1, InvariantHolds, PTL

\* The first epoch of a lock that follows an earlier one is a cycle slip.
THEOREM EverySlipIsReported == Spec => SlipsReported
<1>1. LockSteps => (result'.lock /\ ~result'.rate /\ lockedBefore => result'.slip)
  BY DEF LockSteps, SlipStep
<1>2. QED
  BY <1>1, StepsHold, PTL DEF SlipsReported

\* update_acquisition_qualification lets no lock begin before the power was
\* acquirable for the whole persistence.
THEOREM EveryLockIsEarned == Spec => LockIsEarned
<1>1. LockSteps => (~Tracked(tracker) /\ Tracked(tracker') =>
                      goodSince' # Never /\ Now - goodSince' >= AcquisitionPersistence)
  BY DEF LockSteps, EarnedStep
<1>2. QED
  BY <1>1, StepsHold, PTL DEF LockIsEarned

\* begin_tracking_loss retains the reason that was true of the epoch.
THEOREM EveryLossIsExplained == Spec => LossIsExplained
<1>1. LockSteps =>
        (Tracked(tracker) /\ ~Tracked(tracker') /\ engine'.powered /\ engine'.signal =>
           CASE tracker'.reason = "SignalUnavailable" -> input'.kind = "Hidden"
             [] tracker'.reason = "NoStableDllRoot"   -> ~HasStableRoot(input'.roots)
             [] tracker'.reason = "LowCn0" ->
                  /\ EffectiveCn0(tracker, input'.roots) < MinTrackingCn0
                  /\ LossPersistence > 0 =>
                       lowSince # Never /\ Now - lowSince >= LossPersistence
             [] tracker'.reason = "AbruptDllRootSwitch" ->
                  /\ HasStableRoot(input'.roots)
                  /\ \A k \in DOMAIN input'.roots :
                       input'.roots[k].stable =>
                         Distance(input'.roots[k].phase, tracker.previous.phase) > RootJump
             [] OTHER -> FALSE)
  BY DEF LockSteps, ExplainedStep
<1>2. QED
  BY <1>1, StepsHold, PTL DEF LossIsExplained

\* The urban tracker is one of those process_receiver_nav relies on: its lock
\* has one planned time while it is searched for and one start while it holds,
\* whether power, roots or an outage ended the lock before.
THEOREM UrbanImplementsSignalLocks == Spec => LocksServeNavigation
<1>1. Init => Locks!LocksInit
  <2>1. SUFFICES ASSUME Init PROVE Locks!LocksInit
    OBVIOUS
  <2>2. LockOf(tracker) = Locks!TrackerOff
    BY <2>1, ResetFacts, LockOfFacts DEF Init
  <2>3. QED
    BY <2>1, <2>2, SameScenario DEF Init, Locks!LocksInit, Locks!AllOff
<1>2. IInv /\ [Next]_vars => [Locks!LocksNext]_(Locks!lockVars)
  <2>1. UNCHANGED vars => UNCHANGED Locks!lockVars
    BY DEF vars, Locks!lockVars
  <2>2. QED
    BY <2>1, IInvNext
<1>3. QED
  BY <1>1, <1>2, InvariantHolds, PTL DEF Spec, LocksServeNavigation, Locks!LocksSpec
===============================================================================

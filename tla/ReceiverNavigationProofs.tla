------------------------ MODULE ReceiverNavigationProofs ------------------------
(***************************************************************************)
(* Proofs about ReceiverNavigation for every schedule, broadcast, scenario *)
(* and length of a run: its type, what the store may hold, and that a      *)
(* receiver never takes an older record of a family after a newer one; and *)
(* of a COLD receiver, that what it is given was on air for as long as it  *)
(* takes to collect it, and that a carrier that is tracked long enough     *)
(* delivers in time, for every layout of the frames.                       *)
(***************************************************************************)
EXTENDS ReceiverNavigation, FiniteSetTheorems, TLAPS

-----------------------------------------------------------------------------
(* Extremes of finite sets of integers exist: a smallest set without one   *)
(* would lose none by giving up an element.                                *)

LEMMA FiniteMaxExists ==
  ASSUME NEW S \in SUBSET Int, IsFiniteSet(S), S # {}
  PROVE  \E x \in S : \A y \in S : x >= y
<1> DEFINE HasMax(T) == \E x \in T : \A y \in T : x >= y
           Bad == {T \in FiniteSubsetsOf(Int) : T # {} /\ ~HasMax(T)}
           Smaller == StrictSubsetOrdering(Int)
<1>1. SUFFICES ASSUME Bad # {} PROVE FALSE
  BY DEF FiniteSubsetsOf
<1>2. PICK T \in Bad : \A U \in Bad : ~(<<U, T>> \in Smaller)
  <2>1. IsWellFoundedOn(Smaller, FiniteSubsetsOf(Int))
    BY FS_StrictSubsetOrderingWellFounded
  <2>2. Bad \subseteq FiniteSubsetsOf(Int)
    OBVIOUS
  <2>3. QED
    BY ONLY <1>1, <2>1, <2>2, WFMin
<1>3. PICK x \in T : TRUE
  BY DEF FiniteSubsetsOf
<1>4. T \in SUBSET Int /\ IsFiniteSet(T) /\ ~HasMax(T)
  BY DEF FiniteSubsetsOf
<1>5. CASE T \ {x} = {}
  BY <1>3, <1>4, <1>5
<1>6. CASE T \ {x} # {}
  <2>1. T \ {x} \in FiniteSubsetsOf(Int)
    BY <1>4, FS_RemoveElement DEF FiniteSubsetsOf
  <2>2. <<T \ {x}, T>> \in Smaller
    BY <1>3, <1>4 DEF StrictSubsetOrdering
  <2>3. PICK y \in T \ {x} : \A z \in T \ {x} : y >= z
    BY <1>2, <1>6, <2>1, <2>2
  <2>4. x \in Int /\ y \in Int
    BY <1>3, <1>4
  <2>5. CASE y >= x
    BY <1>4, <2>3, <2>5
  <2>6. CASE ~(y >= x)
    <3>1. \A z \in T : x >= z
      BY <1>4, <2>3, <2>4, <2>6
    <3>2. QED
      BY <1>3, <1>4, <3>1
  <2>7. QED
    BY <2>5, <2>6
<1>7. QED
  BY <1>5, <1>6

(* The values of a function on a finite set are finitely many. *)
LEMMA FiniteImage ==
  ASSUME NEW S, IsFiniteSet(S), NEW f, f = [x \in S |-> f[x]]
  PROVE  IsFiniteSet({f[x] : x \in S})
<1> DEFINE T == {f[x] : x \in S}
<1>1. f \in Surjection(S, T)
  BY DEF Surjection
<1>2. QED
  BY <1>1, FS_Surjection DEF ExistsSurjection

LEMMA FiniteMinExists ==
  ASSUME NEW S \in SUBSET Int, IsFiniteSet(S), S # {}
  PROVE  \E x \in S : \A y \in S : x =< y
<1> DEFINE M == {-x : x \in S}
<1>1. IsFiniteSet(M)
  <2> DEFINE f == [x \in S |-> -x]
  <2>1. IsFiniteSet({f[x] : x \in S})
    BY FiniteImage
  <2>2. {f[x] : x \in S} = M
    OBVIOUS
  <2>3. QED
    BY <2>1, <2>2
<1>2. M \in SUBSET Int /\ M # {}
  <2>1. ASSUME NEW m \in M PROVE m \in Int
    <3>1. PICK x \in S : m = -x
      OBVIOUS
    <3>2. QED
      BY <3>1
  <2>2. PICK x \in S : TRUE
    OBVIOUS
  <2>3. -x \in M
    OBVIOUS
  <2>4. QED
    BY <2>1, <2>3
<1>3. PICK m \in M : \A y \in M : m >= y
  BY <1>1, <1>2, FiniteMaxExists
<1>4. PICK x \in S : m = -x
  OBVIOUS
<1>5. x \in Int
  OBVIOUS
<1>6. \A y \in S : x =< y
  <2> SUFFICES ASSUME NEW y \in S PROVE x =< y
    OBVIOUS
  <2>1. -y \in M /\ y \in Int
    OBVIOUS
  <2>2. m >= -y
    BY <1>3, <2>1
  <2>3. QED
    BY <1>4, <1>5, <2>1, <2>2
<1>7. QED
  BY <1>6

LEMMA MaxFacts ==
  ASSUME NEW S \in SUBSET Int, IsFiniteSet(S), S # {}
  PROVE  Max(S) \in S /\ \A y \in S : Max(S) >= y
BY FiniteMaxExists DEF Max

LEMMA MinFacts ==
  ASSUME NEW S \in SUBSET Int, IsFiniteSet(S), S # {}
  PROVE  Min(S) \in S /\ \A y \in S : Min(S) =< y
BY FiniteMinExists DEF Min

-----------------------------------------------------------------------------
(* The schedule.                                                           *)

LEMMA EntryOfSchedule ==
  ASSUME NEW S, NEW schedule \in Seq(S)
  PROVE  /\ DOMAIN schedule = 1 .. Len(schedule) /\ Len(schedule) \in Nat
         /\ \A r \in DOMAIN schedule : schedule[r] \in S
OBVIOUS

LEMMA RecordFacts ==
  /\ Records \in SUBSET Int
  /\ IsFiniteSet(Records)
  /\ \A r \in Records : Transmit(r) \in Int
  /\ \A q, r \in Records : q <= r => Transmit(q) <= Transmit(r)
<1>1. TruthSchedule \in Seq([family : Families \cup {Ion}, transmit : Int])
  BY NavigationAssumption
<1>2. Records = 1 .. Len(TruthSchedule) /\ Len(TruthSchedule) \in Nat
  BY <1>1, EntryOfSchedule DEF Records
<1>3. IsFiniteSet(Records)
  BY <1>2, FS_Interval
<1>4. \A r \in Records : Transmit(r) \in Int
  <2> SUFFICES ASSUME NEW r \in Records PROVE Transmit(r) \in Int
    OBVIOUS
  <2>1. TruthSchedule[r] \in [family : Families \cup {Ion}, transmit : Int]
    BY <1>1, EntryOfSchedule DEF Records
  <2>2. QED
    BY <2>1 DEF Transmit
<1>5. ASSUME NEW q \in Records, NEW r \in Records, q <= r
      PROVE  Transmit(q) <= Transmit(r)
  <2>1. CASE q = r
    BY <1>4, <2>1
  <2>2. CASE q < r
    BY <2>2, NavigationAssumption DEF Transmit
  <2>3. QED
    BY <1>2, <1>5, <2>1, <2>2
<1>6. QED
  BY <1>2, <1>3, <1>4, <1>5

LEMMA UndeliveredFacts ==
  ASSUME NEW d, NEW f
  PROVE  /\ Undelivered(d, f) \subseteq Available \ d
         /\ Undelivered(d, f) \subseteq Records
         /\ \A r \in Undelivered(d, f) : Family(r) = f
         /\ Undelivered(d, f) # {} => Max(Undelivered(d, f)) \in Undelivered(d, f)
         /\ \A r \in Undelivered(d, f) : Max(Undelivered(d, f)) >= r
<1>1. Undelivered(d, f) \subseteq Records
  BY DEF Undelivered, Available
<1>2. Undelivered(d, f) \in SUBSET Int /\ IsFiniteSet(Undelivered(d, f))
  BY <1>1, RecordFacts, FS_Subset
<1>3. Undelivered(d, f) # {} => Max(Undelivered(d, f)) \in Undelivered(d, f)
  BY <1>2, MaxFacts
<1>4. Undelivered(d, f) # {} => \A r \in Undelivered(d, f) : Max(Undelivered(d, f)) >= r
  BY <1>2, MaxFacts
<1>5. QED
  BY <1>1, <1>3, <1>4 DEF Undelivered

-----------------------------------------------------------------------------
(* What the receiver has been given at any time: records on air only, those*)
(* it holds among them; nothing is skipped for a newer record of its family*)
(* and come back to; and what it does not hold is outdated by what it does.*)

Prefix(d) ==
  \A r \in d, q \in Records : Family(q) = Family(r) /\ q <= r => q \in d

Covered(d, st) ==
  \A r \in d : r \in st \/ \E q \in st : Family(q) = Family(r) /\ Transmit(q) >= Transmit(r)

Sound(d, st, now) ==
  /\ d \subseteq Records /\ st \subseteq d
  /\ \A r \in d : Transmit(r) <= now
  /\ Prefix(d)
  /\ Covered(d, st)

(* Among the records of a family on air the snapshot holds the newest one. *)
LEMMA SnapshotCovers == epoch \in Nat => Covered(Available, Snapshot)
<1> SUFFICES ASSUME epoch \in Nat, NEW r \in Available
             PROVE  r \in Snapshot \/ \E q \in Snapshot : Family(q) = Family(r) /\ Transmit(q) >= Transmit(r)
  BY DEF Covered
<1> DEFINE Kin   == {q \in Available : Family(q) = Family(r)}
           Times == {Transmit(q) : q \in Kin}
           Last  == {q \in Kin : Transmit(q) = Max(Times)}
<1>1. Available \subseteq Records /\ Kin \subseteq Records /\ Last \subseteq Records /\ r \in Kin
  BY DEF Available
<1>2. IsFiniteSet(Kin) /\ IsFiniteSet(Last)
  BY <1>1, RecordFacts, FS_Subset
<1>3. IsFiniteSet(Times) /\ Times \in SUBSET Int /\ Times # {}
  <2> DEFINE f == [q \in Kin |-> Transmit(q)]
  <2>1. IsFiniteSet({f[q] : q \in Kin})
    BY <1>2, FiniteImage
  <2>2. {f[q] : q \in Kin} = Times
    OBVIOUS
  <2>3. QED
    BY <1>1, <2>1, <2>2, RecordFacts
<1>4. Max(Times) \in Times /\ \A t \in Times : Max(Times) >= t
  BY <1>3, MaxFacts
<1>5. Last # {} /\ Last \in SUBSET Int
  BY <1>1, <1>4, RecordFacts
<1>6. Min(Last) \in Last /\ \A q \in Last : Min(Last) =< q
  BY <1>2, <1>5, MinFacts
<1>7. Transmit(Min(Last)) >= Transmit(r) /\ Family(Min(Last)) = Family(r)
  BY <1>1, <1>4, <1>6
<1>8. Min(Last) \in Snapshot
  <2> SUFFICES ASSUME NEW q \in Available, Family(q) = Family(Min(Last))
               PROVE  \/ Transmit(q) < Transmit(Min(Last))
                      \/ Transmit(q) = Transmit(Min(Last)) /\ Min(Last) <= q
    BY <1>6 DEF Snapshot
  <2>1. q \in Kin /\ Transmit(q) \in Times
    BY <1>7
  <2>2. Transmit(q) <= Transmit(Min(Last))
    BY <1>4, <1>6, <2>1
  <2>3. Transmit(q) \in Int /\ Transmit(Min(Last)) \in Int
    BY <1>1, <1>6, RecordFacts
  <2>4. CASE Transmit(q) = Transmit(Min(Last))
    BY <1>6, <2>1, <2>4
  <2>5. CASE Transmit(q) # Transmit(Min(Last))
    BY <2>2, <2>3, <2>5
  <2>6. QED
    BY <2>4, <2>5
<1>9. QED
  BY <1>7, <1>8

LEMMA PoweredOnSound ==
  ASSUME epoch \in Nat
  PROVE  Sound(PoweredOn.delivered, PoweredOn.store, Now)
<1>1. Now \in Int
  BY SignalLocksAssumption DEF Now
<1>2. Available \subseteq Records /\ \A r \in Available : Transmit(r) <= Now
  BY DEF Available
<1>3. Prefix(Available)
  <2> SUFFICES ASSUME NEW r \in Available, NEW q \in Records, q <= r
               PROVE  q \in Available
    BY DEF Prefix
  <2>1. Transmit(q) <= Transmit(r) /\ Transmit(r) <= Now
    BY <1>2, RecordFacts
  <2>2. Transmit(q) \in Int /\ Transmit(r) \in Int
    BY <1>2, RecordFacts
  <2>3. QED
    BY <1>1, <2>1, <2>2 DEF Available
<1>4. CASE Mode = "COLD"
  BY <1>4 DEF PoweredOn, Sound, Prefix, Covered
<1>5. CASE Mode # "COLD"
  <2>1. PoweredOn.delivered = Available /\ PoweredOn.store = Snapshot
    BY <1>5 DEF PoweredOn
  <2>2. Snapshot \subseteq Available
    BY DEF Snapshot
  <2>3. QED
    BY <1>2, <1>3, <2>1, <2>2, SnapshotCovers DEF Sound
<1>6. QED
  BY <1>4, <1>5

-----------------------------------------------------------------------------
(* One epoch of process_receiver_nav.                                      *)

(* Taking all of a family that is on air skips none of it. *)
LEMMA BatchPrefix ==
  ASSUME epoch \in Nat, NEW d, NEW f, NEW r \in Undelivered(d, f),
         NEW q \in Records, Family(q) = Family(r), q <= r, q \notin d
  PROVE  q \in Undelivered(d, f)
<1>1. r \in Records /\ Transmit(r) <= Now /\ Family(r) = f /\ Now \in Int
  BY SignalLocksAssumption DEF Undelivered, Available, Now
<1>2. Transmit(q) <= Transmit(r) /\ Transmit(q) \in Int /\ Transmit(r) \in Int
  BY <1>1, RecordFacts
<1>3. QED
  BY <1>1, <1>2 DEF Undelivered, Available

(* What every way of receiving records has in common: a record received is *)
(* on air and was not delivered before; and the records of an epoch leave  *)
(* no older record of their family behind.                                 *)
Taken(d, got, more) ==
  /\ got \subseteq Available \ d
  /\ more \subseteq Available
  /\ \A r \in got \cup more, q \in Records :
       Family(q) = Family(r) /\ q <= r => q \in d \cup got \cup more
  /\ \A r \in more : \E q \in got : Family(q) = Family(r) /\ Transmit(q) >= Transmit(r)

LEMMA BatchTaken ==
  ASSUME epoch \in Nat, NEW d, NEW f
  PROVE  Taken(d, Undelivered(d, f), {}) /\ Taken(d, {}, {})
BY BatchPrefix, UndeliveredFacts DEF Taken

(* A plan completed delivers its target, which is on air, and gives up what*)
(* was transmitted before.                                                 *)
LEMMA ColdTaken ==
  ASSUME epoch \in Nat, NEW n, NEW tr, NEW f
  PROVE  Taken(n.delivered, ColdReceived(n, tr, f), Superseded(n, tr, f) )
<1> DEFINE d == n.delivered
           target == ColdTarget(n, f)
<1>1. CASE ~Completes(n, tr, f)
  <2>1. Superseded(n, tr, f) = {}
    BY <1>1 DEF Superseded
  <2>2. ColdReceived(n, tr, f) = Undelivered(d, f) \/ ColdReceived(n, tr, f) = {}
    BY <1>1 DEF ColdReceived
  <2>3. QED
    BY <2>1, <2>2, BatchTaken
<1>2. CASE Completes(n, tr, f)
  <2>1. ~n.cold[f].acquired /\ Undelivered(d, f) # {}
    BY <1>2 DEF Completes, Collecting
  <2>2. target \in Undelivered(d, f)
    BY <2>1, UndeliveredFacts DEF ColdTarget
  <2>3. target \in Records /\ target \in Available \ d /\ Family(target) = f
    BY <2>2, UndeliveredFacts
  <2>4. ColdReceived(n, tr, f) = {target}
    BY <1>2, <2>1 DEF ColdReceived
  <2>5. Superseded(n, tr, f) = {r \in Records : Family(r) = f /\ Transmit(r) <= Transmit(target)}
    BY <1>2 DEF Superseded
  <2>6. Transmit(target) \in Int /\ Transmit(target) <= Now /\ Now \in Int
    <3>1. Now \in Int
      BY SignalLocksAssumption DEF Now
    <3>2. QED
      BY <2>3, <3>1, RecordFacts DEF Available
  <2>7. Superseded(n, tr, f) \subseteq Available
    <3> SUFFICES ASSUME NEW r \in Superseded(n, tr, f) PROVE r \in Available
      OBVIOUS
    <3>1. r \in Records /\ Transmit(r) <= Transmit(target)
      BY <2>5
    <3>2. Transmit(r) \in Int
      BY <3>1, RecordFacts
    <3>3. Transmit(r) <= Now
      BY <2>6, <3>1, <3>2
    <3>4. QED
      BY <3>1, <3>3 DEF Available
  <2>8. target \in Superseded(n, tr, f)
    BY <2>3, <2>5, <2>6
  <2>9. ASSUME NEW r \in Superseded(n, tr, f), NEW q \in Records, Family(q) = Family(r), q <= r
        PROVE  q \in Superseded(n, tr, f)
    <3>1. Transmit(q) <= Transmit(r) /\ Transmit(r) <= Transmit(target) /\ Family(r) = f
      BY <2>5, <2>9, RecordFacts
    <3>2. Transmit(q) \in Int /\ Transmit(r) \in Int
      BY <2>5, RecordFacts
    <3>3. QED
      BY <2>5, <2>6, <2>9, <3>1, <3>2
  <2>10. \A r \in Superseded(n, tr, f) :
           Family(target) = Family(r) /\ Transmit(target) >= Transmit(r)
    BY <2>3, <2>5, <2>6, RecordFacts
  <2>11. ColdReceived(n, tr, f) \subseteq Superseded(n, tr, f)
    BY <2>4, <2>8
  <2>12. QED
    BY <2>3, <2>4, <2>7, <2>9, <2>10, <2>11 DEF Taken
<1>3. QED
  BY <1>1, <1>2

(* What is taken of one family after the other is taken of them together. *)
LEMMA TakenTogether ==
  ASSUME NEW d, NEW F, NEW got, NEW more, NEW G, NEW M,
         \A f \in F : Taken(d, got[f], more[f]),
         \A r : r \in G <=> \E f \in F : r \in got[f],
         \A r : r \in M <=> \E f \in F : r \in more[f]
  PROVE  Taken(d, G, M)
<1>1. G \subseteq Available \ d /\ M \subseteq Available
  BY DEF Taken
<1>2. ASSUME NEW r \in G \cup M, NEW q \in Records, Family(q) = Family(r), q <= r
      PROVE  q \in d \cup G \cup M
  <2>1. PICK f \in F : r \in got[f] \cup more[f]
    OBVIOUS
  <2>2. q \in d \cup got[f] \cup more[f]
    BY <1>2, <2>1 DEF Taken
  <2>3. QED
    BY <2>2
<1>3. ASSUME NEW r \in M
      PROVE  \E q \in G : Family(q) = Family(r) /\ Transmit(q) >= Transmit(r)
  <2>1. PICK f \in F : r \in more[f]
    OBVIOUS
  <2>2. PICK q \in got[f] : Family(q) = Family(r) /\ Transmit(q) >= Transmit(r)
    BY <2>1 DEF Taken
  <2>3. QED
    BY <2>2
<1>4. QED
  BY <1>1, <1>2, <1>3 DEF Taken

LEMMA TakenBoth ==
  ASSUME NEW d, NEW g1, NEW m1, NEW g2, NEW m2, Taken(d, g1, m1), Taken(d, g2, m2)
  PROVE  Taken(d, g1 \cup g2, m1 \cup m2)
BY DEF Taken

(* Each epoch takes records so, in every startup mode. *)
LEMMA ProcessTaken ==
  ASSUME epoch \in Nat, NEW n, NEW tr, ProcessReceiverNav(n, tr)
  PROVE  \E more : /\ Taken(n.delivered, received', more)
                   /\ delivered' = n.delivered \cup received' \cup more
                   /\ store' = n.store \cup received'
<1> DEFINE d == n.delivered
<1>1. Taken(d, IonReceived(n, tr), {})
  BY BatchTaken DEF IonReceived
<1>2. CASE Mode = "COLD"
  <2> DEFINE got  == [f \in Families |-> ColdReceived(n, tr, f)]
             more == [f \in Families |-> Superseded(n, tr, f)]
             G == UNION {ColdReceived(n, tr, f) : f \in Families}
             M == UNION {Superseded(n, tr, f) : f \in Families}
  <2>1. \A f \in Families : Taken(d, got[f], more[f])
    BY ColdTaken
  <2>2. /\ \A r : r \in G <=> \E f \in Families : r \in got[f]
        /\ \A r : r \in M <=> \E f \in Families : r \in more[f]
    OBVIOUS
  <2>3. Taken(d, G, M)
    <3> HIDE DEF got, more, G, M
    <3> QED
      BY <2>1, <2>2, TakenTogether
  <2>4. Taken(d, G \cup IonReceived(n, tr), M \cup {})
    <3> HIDE DEF G, M
    <3> QED
      BY <1>1, <2>3, TakenBoth
  <2>5. /\ received' = G \cup IonReceived(n, tr)
        /\ delivered' = d \cup received' \cup M
        /\ store' = n.store \cup received'
    <3>1. ProcessColdNav(n, tr) /\ store' = n.store \cup received'
      BY <1>2 DEF ProcessReceiverNav
    <3>2. QED
      BY <3>1, Zenon DEF ProcessColdNav
  <2>6. M \cup {} = M
    OBVIOUS
  <2> HIDE DEF G, M
  <2>7. QED
    BY <2>4, <2>5, <2>6
<1>3. CASE Mode # "COLD"
  <2> DEFINE got  == [f \in Families |-> NormalReceived(n, tr, f)]
             none == [f \in Families |-> {}]
             G == UNION {NormalReceived(n, tr, f) : f \in Families}
  <2>1. \A f \in Families : Taken(d, got[f], none[f])
    BY BatchTaken DEF NormalReceived
  <2>2. /\ \A r : r \in G <=> \E f \in Families : r \in got[f]
        /\ \A r : r \in {} <=> \E f \in Families : r \in none[f]
    OBVIOUS
  <2>3. Taken(d, G, {})
    <3> HIDE DEF got, none, G
    <3> QED
      BY <2>1, <2>2, TakenTogether
  <2>4. Taken(d, G \cup IonReceived(n, tr), {} \cup {})
    <3> HIDE DEF G
    <3> QED
      BY <1>1, <2>3, TakenBoth
  <2>5. /\ received' = G \cup IonReceived(n, tr)
        /\ delivered' = d \cup received'
        /\ store' = n.store \cup received'
    <3>1. ProcessNormalNav(n, tr) /\ store' = n.store \cup received'
      BY <1>3 DEF ProcessReceiverNav
    <3>2. QED
      BY <3>1, Zenon DEF ProcessNormalNav
  <2>6. {} \cup {} = {} /\ d \cup received' = d \cup received' \cup {}
    OBVIOUS
  <2> HIDE DEF G
  <2>7. QED
    BY <2>4, <2>5, <2>6
<1>4. QED
  BY <1>2, <1>3

-----------------------------------------------------------------------------
(* The inductive invariant.  Sound says of everything delivered what       *)
(* DeliveredOnAir says, and in addition that it skips no older record of a *)
(* family: without it an epoch could still take one of those.              *)

NavInv == epoch \in Nat /\ Sound(delivered, store, LastEpoch)

LEMMA SoundLater ==
  ASSUME NEW d, NEW st, NEW before \in Int, NEW after \in Int, before <= after, Sound(d, st, before)
  PROVE  Sound(d, st, after)
<1>1. \A r \in d : Transmit(r) \in Int /\ Transmit(r) <= before
  BY RecordFacts DEF Sound
<1>2. \A r \in d : Transmit(r) <= after
  BY <1>1
<1>3. QED
  BY <1>2 DEF Sound

LEMMA SoundTaken ==
  ASSUME NEW d, NEW st, NEW got, NEW more,
         Sound(d, st, Now), Taken(d, got, more)
  PROVE  Sound(d \cup got \cup more, st \cup got, Now)
<1> DEFINE e == d \cup got \cup more
<1>1. got \subseteq Available /\ more \subseteq Available
  BY DEF Taken
<1>2. e \subseteq Records /\ st \cup got \subseteq e /\ \A r \in e : Transmit(r) <= Now
  BY <1>1 DEF Sound, Available
<1>3. Prefix(e)
  <2> SUFFICES ASSUME NEW r \in e, NEW q \in Records, Family(q) = Family(r), q <= r
               PROVE  q \in e
    BY DEF Prefix
  <2>1. CASE r \in d
    BY <2>1 DEF Sound, Prefix
  <2>2. CASE r \in got \cup more
    BY <2>2 DEF Taken
  <2>3. QED
    BY <2>1, <2>2
<1>4. Covered(e, st \cup got)
  <2> SUFFICES ASSUME NEW r \in e, r \notin st \cup got
               PROVE  \E q \in st \cup got : Family(q) = Family(r) /\ Transmit(q) >= Transmit(r)
    BY DEF Covered
  <2>1. CASE r \in d
    BY <2>1 DEF Sound, Covered
  <2>2. CASE r \in more
    BY <2>2 DEF Taken
  <2>3. QED
    BY <2>1, <2>2
<1>5. QED
  BY <1>2, <1>3, <1>4 DEF Sound

(* An epoch with the receiver on, whatever state n it starts from. *)
LEMMA ProcessSound ==
  ASSUME epoch \in Nat, NEW n, NEW tr,
         Sound(n.delivered, n.store, Now), ProcessReceiverNav(n, tr)
  PROVE  Sound(delivered', store', Now) /\ received' \cap n.delivered = {}
                                        /\ received' \subseteq Records
<1>1. PICK more : /\ Taken(n.delivered, received', more)
                  /\ delivered' = n.delivered \cup received' \cup more
                  /\ store' = n.store \cup received'
  BY ProcessTaken
<1>2. Sound(n.delivered \cup received' \cup more, n.store \cup received', Now)
  BY <1>1, SoundTaken
<1>3. received' \subseteq Available \ n.delivered
  BY <1>1 DEF Taken
<1>4. QED
  BY <1>1, <1>2, <1>3 DEF Available

LEMMA EpochTimes ==
  epoch \in Nat => Now \in Int /\ LastEpoch \in Int /\ LastEpoch <= Now
BY SignalLocksAssumption DEF Now, LastEpoch

LEMMA NextEpochTimes ==
  epoch \in Nat /\ epoch' = epoch + 1 => LastEpoch' = Now
BY SignalLocksAssumption DEF Now, LastEpoch

LEMMA NavInvInit == Init => NavInv
<1> SUFFICES ASSUME Init PROVE NavInv
  OBVIOUS
<1>1. epoch = 0 /\ delivered = {} /\ store = {}
  BY DEF Init, LocksInit
<1>2. Sound({}, {}, LastEpoch)
  BY DEF Sound, Prefix, Covered
<1>3. QED
  BY <1>1, <1>2 DEF NavInv

LEMMA NavInvStep == NavInv /\ [Next]_vars => NavInv'
<1> SUFFICES ASSUME NavInv, [Next]_vars PROVE NavInv'
  OBVIOUS
<1>1. epoch \in Nat /\ Sound(delivered, store, LastEpoch)
  BY DEF NavInv
<1>2. Sound(delivered, store, Now)
  BY <1>1, EpochTimes, SoundLater
<1>3. ASSUME epoch' = epoch + 1, Sound(delivered', store', Now) PROVE NavInv'
  <2>1. LastEpoch' = Now /\ epoch' \in Nat
    BY <1>1, <1>3, NextEpochTimes
  <2>2. QED
    BY <1>3, <2>1 DEF NavInv
<1>4. CASE PowerOnEpoch
  <2>1. epoch' = epoch + 1 /\ ProcessReceiverNav(PoweredOn, trackers')
    BY <1>4 DEF PowerOnEpoch, PowerOnLocks, BeginEpoch
  <2>2. Sound(PoweredOn.delivered, PoweredOn.store, Now)
    BY <1>1, PoweredOnSound
  <2>3. QED
    BY <1>1, <1>3, <2>1, <2>2, ProcessSound
<1>5. CASE PoweredEpoch
  <2>1. epoch' = epoch + 1 /\ ProcessReceiverNav(Current, trackers')
    BY <1>5 DEF PoweredEpoch, PoweredLocks, BeginEpoch
  <2>2. Sound(Current.delivered, Current.store, Now)
    BY <1>2 DEF Current
  <2>3. QED
    BY <1>1, <1>3, <2>1, <2>2, ProcessSound
<1>6. CASE UnpoweredEpoch
  <2>1. epoch' = epoch + 1 /\ delivered' = delivered /\ store' = store
    BY <1>6 DEF UnpoweredEpoch, UnpoweredLocks, BeginEpoch
  <2>2. QED
    BY <1>2, <1>3, <2>1
<1>7. CASE UNCHANGED vars
  <2>1. epoch' = epoch /\ delivered' = delivered /\ store' = store
    BY <1>7 DEF vars, lockVars
  <2>2. LastEpoch' = LastEpoch
    BY <2>1 DEF LastEpoch, Now
  <2>3. QED
    BY <1>1, <2>1, <2>2 DEF NavInv
<1>8. QED
  BY <1>4, <1>5, <1>6, <1>7 DEF Next

LEMMA NavInvAlways == Spec => []NavInv
<1>1. QED
  BY NavInvInit, NavInvStep, PTL DEF Spec

(* What the receiver holds was broadcast before and delivered to it, and   *)
(* what it gave up is outdated: DeliveredOnAir, of the records received in *)
(* process_cold_nav, process_normal_nav and the snapshot of power-on.      *)
THEOREM HoldsWhatWasOnAir == Spec => []DeliveredOnAir
<1>1. NavInv => DeliveredOnAir
  BY DEF NavInv, Sound, Covered, DeliveredOnAir
<1>2. QED
  BY <1>1, NavInvAlways, PTL

(* No epoch between two power-ons gives the receiver a record of a family  *)
(* older than one it holds (NewestLast), for every schedule and broadcast. *)
THEOREM TakesNewestLast == Spec => NewestLast
<1> DEFINE Renewed == PowerOn(engine, ScenarioAt(config, Now))
           Ordered == \A r \in received', q \in store : Family(r) = Family(q) => q < r
<1>1. ASSUME NavInv, [Next]_vars PROVE [~Renewed => Ordered]_vars
  <2>1. SUFFICES ASSUME Next, ~Renewed PROVE Ordered
    BY <1>1
  <2>2. epoch \in Nat /\ Sound(delivered, store, LastEpoch)
    BY <1>1 DEF NavInv
  <2>3. Sound(delivered, store, Now)
    BY <2>2, EpochTimes, SoundLater
  <2>4. received' \cap delivered = {} /\ received' \subseteq Records
    <3>1. CASE PowerOnEpoch
      BY <2>1, <3>1 DEF PowerOnEpoch, PowerOnLocks
    <3>2. CASE PoweredEpoch
      <4>1. ProcessReceiverNav(Current, trackers')
        BY <3>2 DEF PoweredEpoch
      <4>2. Current.delivered = delivered /\ Current.store = store
        BY DEF Current
      <4>3. QED
        BY <2>2, <2>3, <4>1, <4>2, ProcessSound
    <3>3. CASE UnpoweredEpoch
      BY <3>3 DEF UnpoweredEpoch
    <3>4. QED
      BY <2>1, <3>1, <3>2, <3>3 DEF Next
  <2>5. SUFFICES ASSUME NEW r \in received', NEW q \in store, Family(r) = Family(q)
                 PROVE  q < r
    OBVIOUS
  <2>6. q \in delivered /\ q \in Records /\ r \in Records /\ r \notin delivered
    BY <2>3, <2>4 DEF Sound
  <2>7. q \in Int /\ r \in Int
    BY <2>6, RecordFacts
  <2>8. ~(r <= q)
    BY <2>3, <2>5, <2>6 DEF Sound, Prefix
  <2>9. QED
    BY <2>7, <2>8
<1>2. QED
  BY <1>1, NavInvAlways, PTL DEF Spec, NewestLast

-----------------------------------------------------------------------------
(* Nothing withheld: each epoch alone sees to it.                          *)

(* What is on air and not delivered after an epoch of the receiver is what *)
(* it had no carrier for, or what a family not yet acquired waits for.     *)
LEMMA ProcessDelivers ==
  ASSUME epoch \in Nat, NEW n, NEW tr, ProcessReceiverNav(n, tr),
         NEW r \in Available, r \notin delivered'
  PROVE  \/ Family(r) = Ion /\ Tracking(tr) = {}
         \/ Family(r) # Ion /\ Carriers(tr, Family(r)) = {}
         \/ Family(r) # Ion /\ Mode = "COLD" /\ ~cold'[Family(r)].acquired
<1> DEFINE f == Family(r)
<1>1. r \in Records /\ f \in Families \cup {Ion}
  <2>1. r \in Records
    BY DEF Available
  <2>2. TruthSchedule[r] \in [family : Families \cup {Ion}, transmit : Int]
    BY <2>1, NavigationAssumption, EntryOfSchedule DEF Records
  <2>3. QED
    BY <2>1, <2>2 DEF Family
<1>2. n.delivered \subseteq delivered' /\ received' \subseteq delivered'
  BY ProcessTaken
<1>3. r \in Undelivered(n.delivered, f)
  BY <1>2 DEF Undelivered
<1>4. CASE f = Ion
  <2>1. IonReceived(n, tr) \subseteq received'
    <3>1. CASE Mode = "COLD"
      <4>1. ProcessColdNav(n, tr)
        BY <3>1 DEF ProcessReceiverNav
      <4>2. QED
        BY <4>1, Zenon DEF ProcessColdNav
    <3>2. CASE Mode # "COLD"
      <4>1. ProcessNormalNav(n, tr)
        BY <3>2 DEF ProcessReceiverNav
      <4>2. QED
        BY <4>1, Zenon DEF ProcessNormalNav
    <3>3. QED
      BY <3>1, <3>2
  <2>2. QED
    BY <1>2, <1>3, <1>4, <2>1 DEF IonReceived
<1>5. CASE f # Ion /\ Mode # "COLD"
  <2>1. ProcessNormalNav(n, tr)
    BY <1>5 DEF ProcessReceiverNav
  <2>2. NormalReceived(n, tr, f) \subseteq received'
    BY <1>1, <1>5, <2>1, Zenon DEF ProcessNormalNav
  <2>3. QED
    BY <1>2, <1>3, <1>5, <2>2 DEF NormalReceived
<1>6. CASE f # Ion /\ Mode = "COLD"
  <2>1. f \in Families
    BY <1>1, <1>6
  <2>2. ProcessColdNav(n, tr)
    BY <1>6 DEF ProcessReceiverNav
  <2>3. ColdReceived(n, tr, f) \subseteq received' /\ Superseded(n, tr, f) \subseteq delivered'
    BY <2>1, <2>2, Zenon DEF ProcessColdNav
  <2>4. cold'[f] = ColdAfter(n, tr, f)
    BY <2>1, <2>2, Zenon DEF ProcessColdNav
  <2>5. CASE n.cold[f].acquired
    <3>1. ~Completes(n, tr, f)
      BY <2>5 DEF Completes, Collecting
    <3>2. ColdReceived(n, tr, f) = IF Carriers(tr, f) # {} THEN Undelivered(n.delivered, f) ELSE {}
      BY <2>5, <3>1 DEF ColdReceived
    <3>3. QED
      BY <1>2, <1>3, <1>6, <2>3, <3>2
  <2>6. CASE ~n.cold[f].acquired /\ ~Completes(n, tr, f) /\ Carriers(tr, f) # {}
    <3>1. cold'[f] = ColdPlan(n, tr, f)
      BY <1>3, <2>4, <2>6 DEF ColdAfter, Collecting
    <3>2. ColdPlan(n, tr, f).acquired = n.cold[f].acquired
      BY DEF ColdPlan, FollowedPlan
    <3>3. QED
      BY <1>6, <2>6, <3>1, <3>2
  <2>7. CASE Completes(n, tr, f)
    <3>1. ColdTarget(n, f) \in Records /\ ColdTarget(n, f) >= r
      <4>1. Undelivered(n.delivered, f) # {}
        BY <1>3
      <4>2. QED
        BY <1>3, <4>1, UndeliveredFacts DEF ColdTarget
    <3>2. Transmit(r) <= Transmit(ColdTarget(n, f))
      BY <1>1, <3>1, RecordFacts
    <3>3. r \in Superseded(n, tr, f)
      BY <1>1, <2>7, <3>2 DEF Superseded
    <3>4. QED
      BY <2>3, <3>3
  <2>8. QED
    BY <1>6, <2>5, <2>6, <2>7
<1>7. QED
  BY <1>4, <1>5, <1>6

(* A receiver that is not collecting its first record of a family holds all*)
(* that was broadcast of it whenever it tracks a carrier (NothingWithheld):*)
(* process_cold_nav, process_normal_nav and suppress_superseded_cold_records*)
(* leave nothing else undelivered.                                         *)
THEOREM WithholdsNothing == Spec => []NothingWithheld
<1>1. Init => NothingWithheld
  <2> SUFFICES ASSUME Init PROVE NothingWithheld
    OBVIOUS
  <2>1. Tracking(trackers) = {}
    BY DEF Init, LocksInit, AllOff, Tracking, TrackerOff
  <2>2. QED
    BY <2>1 DEF Carriers, NothingWithheld
<1>2. NavInv /\ NothingWithheld /\ [Next]_vars => NothingWithheld'
  <2> SUFFICES ASSUME NavInv, NothingWithheld, [Next]_vars PROVE NothingWithheld'
    OBVIOUS
  <2>1. epoch \in Nat
    BY DEF NavInv
  <2>2. ASSUME epoch' = epoch + 1, config' = config, NEW n, ProcessReceiverNav(n, trackers')
        PROVE  NothingWithheld'
    <3>1. LastEpoch' = Now
      BY <2>1, <2>2, NextEpochTimes
    <3>2. Mode' = Mode
      BY <2>2 DEF Mode
    <3>3. SUFFICES ASSUME NEW r \in Records, Transmit(r) <= Now, r \notin delivered'
          PROVE  \/ Family(r) = Ion /\ Tracking(trackers)' = {}
                 \/ Family(r) # Ion /\ Carriers(trackers, Family(r))' = {}
                 \/ Family(r) # Ion /\ Mode = "COLD" /\ ~cold'[Family(r)].acquired
      BY <3>1, <3>2 DEF NothingWithheld
    <3>4. r \in Available
      BY <3>3 DEF Available
    <3>5. QED
      BY <2>1, <2>2, <3>3, <3>4, ProcessDelivers
  <2>3. CASE PowerOnEpoch
    BY <2>2, <2>3 DEF PowerOnEpoch, PowerOnLocks, BeginEpoch
  <2>4. CASE PoweredEpoch
    BY <2>2, <2>4 DEF PoweredEpoch, PoweredLocks, BeginEpoch
  <2>5. CASE UnpoweredEpoch
    <3>1. Tracking(trackers)' = {}
      BY <2>5 DEF UnpoweredEpoch, UnpoweredLocks, AllOff, Tracking, TrackerOff
    <3>2. QED
      BY <3>1 DEF Carriers, NothingWithheld
  <2>6. CASE UNCHANGED vars
    BY <2>6 DEF vars, lockVars, NothingWithheld, LastEpoch, Now, Mode, Tracking, Carriers
  <2>7. QED
    BY <2>3, <2>4, <2>5, <2>6 DEF Next
<1>3. QED
  BY <1>1, <1>2, NavInvAlways, PTL DEF Spec

-----------------------------------------------------------------------------
(* Types.  The one hard case is the availability of a plan: the earliest   *)
(* end, over the carriers tracked, of the latest fragment of each.         *)

Trackers == [phase : {"SignalOff", "Searching", "Tracking"}, start : Int]

LEMMA PlanAvailabilityType ==
  ASSUME NEW s \in Signals, NEW from \in Int
  PROVE  PlanAvailability(s, from) \in Int
<1> DEFINE Parts == Broadcast[s].fragments
           end == [fragment \in Parts |-> FragmentCompletion(s, fragment, from)]
           Ends == {FragmentCompletion(s, fragment, from) : fragment \in Parts}
<1>1. /\ Broadcast[s].cycle \in Nat \ {0} /\ Broadcast[s].offset \in Int
      /\ IsFiniteSet(Parts) /\ Parts \subseteq Fragments /\ Parts # {}
  BY NavigationAssumption
<1>2. ASSUME NEW fragment \in Parts PROVE FragmentCompletion(s, fragment, from) \in Int
  <2> DEFINE wait == fragment.slot - (from + Broadcast[s].offset)
  <2>1. fragment.slot \in Nat /\ fragment.duration \in Nat
    BY <1>1 DEF Fragments
  <2>2. wait \in Int
    BY <1>1, <2>1
  <2>3. wait % Broadcast[s].cycle \in Int
    <3> HIDE DEF wait
    <3> QED
      BY <1>1, <2>2
  <2>4. QED
    BY <2>1, <2>3 DEF FragmentCompletion
<1>3. IsFiniteSet(Ends)
  <2>1. IsFiniteSet({end[fragment] : fragment \in Parts})
    BY <1>1, FiniteImage
  <2>2. {end[fragment] : fragment \in Parts} = Ends
    OBVIOUS
  <2>3. QED
    BY <2>1, <2>2
<1>4. Ends \in SUBSET Int /\ Ends # {}
  BY <1>1, <1>2
<1>5. Max(Ends) \in Ends
  <2> HIDE DEF Ends
  <2> QED
    BY <1>3, <1>4, MaxFacts
<1>6. QED
  BY <1>4, <1>5 DEF PlanAvailability

LEMMA BestPlanType ==
  ASSUME NEW tr \in [Signals -> Trackers], NEW f, NEW r \in Records, Carriers(tr, f) # {}
  PROVE  BestPlan(tr, f, r) \in Int
<1> DEFINE C == Carriers(tr, f)
           plan == [s \in C |-> PlanAvailability(s, CollectsFrom(tr, s, r))]
           Plans == {PlanAvailability(s, CollectsFrom(tr, s, r)) : s \in C}
<1>1. C \subseteq Signals /\ IsFiniteSet(C)
  <2>1. C \subseteq Signals
    BY DEF Carriers, Tracking
  <2>2. QED
    BY <2>1, SignalLocksAssumption, FS_Subset
<1>2. ASSUME NEW s \in C PROVE PlanAvailability(s, CollectsFrom(tr, s, r)) \in Int
  <2>1. s \in Signals /\ tr[s].start \in Int /\ Transmit(r) \in Int
    BY <1>1, RecordFacts DEF Trackers
  <2>2. CollectsFrom(tr, s, r) \in Int
    BY <2>1 DEF CollectsFrom
  <2>3. QED
    BY <2>1, <2>2, PlanAvailabilityType
<1>3. IsFiniteSet(Plans)
  <2>1. IsFiniteSet({plan[s] : s \in C})
    BY <1>1, FiniteImage
  <2>2. {plan[s] : s \in C} = Plans
    OBVIOUS
  <2>3. QED
    BY <2>1, <2>2
<1>4. Plans \in SUBSET Int /\ Plans # {}
  BY <1>2
<1>5. Min(Plans) \in Plans
  <2> HIDE DEF Plans
  <2> QED
    BY <1>3, <1>4, MinFacts
<1>6. QED
  BY <1>4, <1>5 DEF BestPlan

LEMMA ColdPlanType ==
  ASSUME NEW n, NEW tr \in [Signals -> Trackers], NEW f,
         n.cold[f] \in ColdFamilies(f), Collecting(n, tr, f)
  PROVE  ColdPlan(n, tr, f) \in ColdFamilies(f)
<1> DEFINE r == ColdTarget(n, f)
<1>1. Undelivered(n.delivered, f) # {} /\ Carriers(tr, f) # {}
  BY DEF Collecting
<1>2. r \in Records /\ Family(r) = f
  BY <1>1, UndeliveredFacts DEF ColdTarget
<1>3. BestPlan(tr, f, r) \in Int
  BY <1>1, <1>2, BestPlanType
<1>4. r \in {q \in Records : Family(q) = f} \cup {None}
  BY <1>2
<1> HIDE DEF r
<1>5. [n.cold[f] EXCEPT !.target = r, !.available = BestPlan(tr, f, r)] \in ColdFamilies(f)
  BY <1>3, <1>4 DEF ColdFamilies
<1>6. FollowedPlan(n.cold[f], r, BestPlan(tr, f, r)) \in ColdFamilies(f)
  BY <1>5 DEF FollowedPlan
<1>7. QED
  BY <1>6 DEF ColdPlan, r

LEMMA UnacquiredType ==
  ASSUME NEW f
  PROVE  /\ Unacquired \in ColdFamilies(f)
         /\ Acquired \in ColdFamilies(f)
BY DEF Unacquired, Acquired, ColdFamilies, None

LEMMA ColdAfterType ==
  ASSUME NEW n, NEW tr \in [Signals -> Trackers], NEW f,
         n.cold[f] \in ColdFamilies(f)
  PROVE  ColdAfter(n, tr, f) \in ColdFamilies(f)
<1>1. CASE Completes(n, tr, f)
  <2>1. ColdAfter(n, tr, f) = Acquired
    BY <1>1, Zenon DEF ColdAfter
  <2>2. QED
    BY <2>1, UnacquiredType
<1>2. CASE Collecting(n, tr, f) /\ ~Completes(n, tr, f)
  <2>1. ColdAfter(n, tr, f) = ColdPlan(n, tr, f)
    BY <1>2, Zenon DEF ColdAfter
  <2>2. QED
    BY <1>2, <2>1, ColdPlanType
<1>3. CASE ~Completes(n, tr, f) /\ ~Collecting(n, tr, f)
  <2>1. ColdAfter(n, tr, f) = n.cold[f]
    BY <1>3, Zenon DEF ColdAfter
  <2>2. QED
    BY <2>1
<1>4. QED
  BY <1>1, <1>2, <1>3

ColdTyped(c) == DOMAIN c = Families /\ \A f \in Families : c[f] \in ColdFamilies(f)

LEMMA ProcessType ==
  ASSUME NEW n, NEW tr \in [Signals -> Trackers], ColdTyped(n.cold), ProcessReceiverNav(n, tr)
  PROVE  ColdTyped(cold')
<1>1. CASE Mode = "COLD"
  <2>1. ProcessColdNav(n, tr)
    BY <1>1 DEF ProcessReceiverNav
  <2>2. cold' = [f \in Families |-> ColdAfter(n, tr, f)]
    BY <2>1, Zenon DEF ProcessColdNav
  <2>3. \A f \in Families : ColdAfter(n, tr, f) \in ColdFamilies(f)
    BY ColdAfterType DEF ColdTyped
  <2>4. QED
    BY <2>2, <2>3 DEF ColdTyped
<1>2. CASE Mode # "COLD"
  <2>1. ProcessNormalNav(n, tr)
    BY <1>2 DEF ProcessReceiverNav
  <2>2. cold' = n.cold
    BY <2>1, Zenon DEF ProcessNormalNav
  <2>3. QED
    BY <2>2
<1>3. QED
  BY <1>1, <1>2

LEMMA NextTrackerCases ==
  ASSUME NEW t \in Trackers, NEW sc, NEW u \in NextTrackers(t, sc)
  PROVE  \/ u = t \/ u = TrackerOff
         \/ t.phase = "SignalOff" /\ \E d \in LockDelays : u = Seeking(Now + d)
         \/ t.phase = "SignalOff" /\ u = Locked(Now)
         \/ t.phase = "Searching" /\ t.start <= Now /\ (u = Locked(t.start) \/ u = Locked(Now))
<1>1. t.phase \in {"SignalOff", "Searching", "Tracking"}
  BY DEF Trackers
<1>2. CASE u \in {t, TrackerOff}
  BY <1>2
<1>3. CASE u \in LocksNow(t)
  BY <1>1, <1>3 DEF LocksNow
<1>4. CASE \E d \in LockDelays : t.phase = "SignalOff" /\ u = Seeking(Now + d)
  BY <1>4
<1>5. QED
  BY <1>2, <1>3, <1>4 DEF NextTrackers

LEMMA TrackerType ==
  ASSUME epoch \in Nat, NEW t \in Trackers, NEW sc, NEW u \in NextTrackers(t, sc)
  PROVE  u \in Trackers
<1>1. Now \in Int /\ LockDelays \subseteq Nat /\ t.start \in Int
  BY EpochTimes, SignalLocksAssumption DEF Trackers
<1>2. TrackerOff \in Trackers
  BY DEF TrackerOff, Trackers, None
<1>3. \A time \in Int : Locked(time) \in Trackers /\ Seeking(time) \in Trackers
  BY DEF Locked, Seeking, Trackers
<1>4. \A d \in LockDelays : Now + d \in Int
  BY <1>1
<1>5. QED
  BY <1>1, <1>2, <1>3, <1>4, NextTrackerCases

LEMMA UpdateType ==
  ASSUME epoch \in Nat, NEW before \in [Signals -> Trackers], NEW sc, UpdateTrackers(before, sc)
  PROVE  trackers' \in [Signals -> Trackers]
<1>1. \A s \in Signals : trackers'[s] \in NextTrackers(before[s], sc)
  BY DEF UpdateTrackers
<1>2. ASSUME NEW s \in Signals PROVE trackers'[s] \in Trackers
  BY <1>1, TrackerType
<1>3. trackers' = [s \in Signals |-> trackers'[s]]
  BY DEF UpdateTrackers
<1>4. QED
  BY <1>2, <1>3

LEMMA RememberType ==
  ASSUME NEW before \in [Signals -> Int], trackers' \in [Signals -> Trackers], RememberLocks(before)
  PROVE  firstLock' \in [Signals -> Int]
BY DEF RememberLocks, Tracking, Trackers

LEMMA BeginType ==
  ASSUME config \in Scenarios, epoch \in Nat, BeginEpoch(ScenarioAt(config, Now))
  PROVE  config' \in Scenarios /\ epoch' \in Nat /\ engine' \in Engines
<1> DEFINE sc == ScenarioAt(config, Now)
<1>1. config' = config /\ epoch' = epoch + 1 /\ engine' = Remember(sc)
  BY DEF BeginEpoch
<1>2. sc.powered \in BOOLEAN /\ sc.signal \in BOOLEAN
  BY DEF ScenarioAt, InOnPart
<1>3. engine' \in Engines
  <2> HIDE DEF sc
  <2> QED
    BY <1>1, <1>2 DEF Remember, Engines
<1>4. QED
  BY <1>1, <1>3

(* The type invariant holds for every schedule, broadcast and scenario. *)
THEOREM TypeCorrect == Spec => []TypeOK
<1> DEFINE T == NavInv /\ TypeOK
<1>1. Init => TypeOK
  <2> SUFFICES ASSUME Init PROVE TypeOK
    OBVIOUS
  <2>1. trackers \in [Signals -> Trackers] /\ firstLock \in [Signals -> Int]
    BY DEF Init, LocksInit, AllOff, TrackerOff, Trackers, None
  <2>2. engine \in Engines
    BY DEF Init, LocksInit, NewEngine, Engines
  <2>3. ColdTyped(cold)
    BY UnacquiredType DEF Init, ColdTyped
  <2>4. config \in Scenarios /\ epoch = 0 /\ delivered = {} /\ store = {} /\ received = {}
    BY DEF Init, LocksInit
  <2>5. QED
    BY <2>1, <2>2, <2>3, <2>4 DEF TypeOK, ColdTyped, Trackers
<1>2. NavInv /\ NavInv' /\ TypeOK /\ [Next]_vars => TypeOK'
  <2> SUFFICES ASSUME NavInv, NavInv', TypeOK, [Next]_vars PROVE TypeOK'
    OBVIOUS
  <2>1. /\ config \in Scenarios /\ epoch \in Nat /\ trackers \in [Signals -> Trackers]
        /\ firstLock \in [Signals -> Int] /\ ColdTyped(cold) /\ received \subseteq Records
    BY DEF TypeOK, Trackers, ColdTyped
  <2>2. delivered' \subseteq Records /\ store' \subseteq Records
    BY DEF NavInv, Sound
  <2>3. Sound(delivered, store, LastEpoch)
    BY DEF NavInv
  <2>4. SUFFICES ASSUME Next
                 PROVE  /\ config' \in Scenarios /\ epoch' \in Nat /\ engine' \in Engines
                        /\ trackers' \in [Signals -> Trackers] /\ received' \subseteq Records
                        /\ ColdTyped(cold') /\ firstLock' \in [Signals -> Int]
    <3>1. CASE UNCHANGED vars
      BY <3>1 DEF vars, lockVars, TypeOK
    <3>2. CASE Next
      BY <2>2, <2>4, <3>2 DEF TypeOK, Trackers, ColdTyped
    <3>3. QED
      BY <3>1, <3>2
  <2>5. CASE PowerOnEpoch
    <3> DEFINE never == [s \in Signals |-> None]
               sc == ScenarioAt(config, Now)
    <3>1. BeginEpoch(sc) /\ UpdateTrackers(AllOff, sc)
      BY <2>5 DEF PowerOnEpoch, PowerOnLocks
    <3>2. ProcessReceiverNav(PoweredOn, trackers') /\ RememberLocks(never)
      BY <2>5 DEF PowerOnEpoch
    <3>3. AllOff \in [Signals -> Trackers] /\ never \in [Signals -> Int]
      BY DEF AllOff, TrackerOff, Trackers, None
    <3>4. ColdTyped(PoweredOn.cold)
      BY UnacquiredType DEF PoweredOn, ColdTyped
    <3>5. trackers' \in [Signals -> Trackers]
      <4> HIDE DEF sc
      <4> QED
        BY <2>1, <3>1, <3>3, UpdateType
    <3>6. firstLock' \in [Signals -> Int]
      <4> HIDE DEF never
      <4> QED
        BY <3>2, <3>3, <3>5, RememberType
    <3>7. received' \subseteq Records
      BY <2>1, <3>2, PoweredOnSound, ProcessSound
    <3>8. ColdTyped(cold')
      BY <3>2, <3>4, <3>5, ProcessType
    <3>9. QED
      BY <2>1, <3>1, <3>5, <3>6, <3>7, <3>8, BeginType
  <2>6. CASE PoweredEpoch
    <3> DEFINE sc == ScenarioAt(config, Now)
    <3>1. BeginEpoch(sc) /\ UpdateTrackers(trackers, sc)
      BY <2>6 DEF PoweredEpoch, PoweredLocks
    <3>2. ProcessReceiverNav(Current, trackers') /\ RememberLocks(firstLock)
      BY <2>6 DEF PoweredEpoch
    <3>3. Current.delivered = delivered /\ Current.store = store /\ Current.cold = cold
      BY DEF Current
    <3>4. trackers' \in [Signals -> Trackers]
      <4> HIDE DEF sc
      <4> QED
        BY <2>1, <3>1, UpdateType
    <3>5. firstLock' \in [Signals -> Int]
      BY <2>1, <3>2, <3>4, RememberType
    <3>6. Sound(delivered, store, Now)
      BY <2>1, <2>3, EpochTimes, SoundLater
    <3>7. received' \subseteq Records
      BY <2>1, <3>2, <3>3, <3>6, ProcessSound
    <3>8. ColdTyped(cold')
      BY <2>1, <3>2, <3>3, <3>4, ProcessType
    <3>9. QED
      BY <2>1, <3>1, <3>4, <3>5, <3>7, <3>8, BeginType
  <2>7. CASE UnpoweredEpoch
    <3>1. BeginEpoch(ScenarioAt(config, Now))
      BY <2>7 DEF UnpoweredEpoch, UnpoweredLocks
    <3>2. /\ trackers' = AllOff /\ received' = {}
          /\ cold' = cold /\ firstLock' = firstLock
      BY <2>7 DEF UnpoweredEpoch, UnpoweredLocks
    <3>3. trackers' \in [Signals -> Trackers]
      BY <3>2 DEF AllOff, TrackerOff, Trackers, None
    <3>4. QED
      BY <2>1, <3>1, <3>2, <3>3, BeginType
  <2>8. QED
    BY <2>4, <2>5, <2>6, <2>7 DEF Next
<1>3. QED
  BY <1>1, <1>2, NavInvAlways, PTL DEF Spec

-----------------------------------------------------------------------------
(* The end of a fragment: collecting later never ends sooner.              *)

(* The first of the times a, a + c, a - c, ... that is not before x.       *)
LEMMA SlotMonotone ==
  ASSUME NEW c \in Nat \ {0}, NEW a \in Int, NEW x \in Int, NEW y \in Int, x <= y
  PROVE  x + ((a - x) % c) <= y + ((a - y) % c)
<1> DEFINE q == (a - x) \div c
           r == (a - x) % c
           p == (a - y) \div c
           t == (a - y) % c
<1>1. a - x \in Int /\ a - y \in Int
  OBVIOUS
<1>2. /\ q \in Int /\ r \in 0..(c - 1) /\ a - x = c * q + r
      /\ p \in Int /\ t \in 0..(c - 1) /\ a - y = c * p + t
  BY <1>1
<1> HIDE DEF q, r, p, t
<1>3. c * q \in Int /\ c * p \in Int
  BY <1>2
<1>4. CASE p <= q
  <2>1. c * p <= c * q
    BY <1>2, <1>4
  <2>2. QED
    BY <1>2, <1>3, <2>1 DEF r, t
<1>5. CASE p >= q + 1
  <2>1. c * p >= c * (q + 1) /\ c * (q + 1) = c * q + c
    BY <1>2, <1>5
  <2>2. QED
    BY <1>2, <1>3, <2>1
<1>6. QED
  BY <1>2, <1>4, <1>5

LEMMA CompletionFacts ==
  ASSUME NEW s \in Signals, NEW fragment \in Broadcast[s].fragments, NEW from \in Int,
         NEW later \in Int, from <= later
  PROVE  /\ FragmentCompletion(s, fragment, from) \in Int
         /\ FragmentCompletion(s, fragment, from) <= FragmentCompletion(s, fragment, later)
<1> DEFINE c == Broadcast[s].cycle
           a == fragment.slot - Broadcast[s].offset
           Wait(x) == (a - x) % c
<1>1. /\ c \in Nat \ {0} /\ Broadcast[s].offset \in Int
      /\ Broadcast[s].fragments \subseteq Fragments
  BY NavigationAssumption
<1>2. fragment.slot \in Nat /\ fragment.duration \in Nat
  BY <1>1 DEF Fragments
<1>3. a \in Int
  BY <1>1, <1>2
<1>4. \A x \in Int : fragment.slot - (x + Broadcast[s].offset) = a - x
  BY <1>1, <1>2
<1>5. \A x \in Int : FragmentCompletion(s, fragment, x) = x + Wait(x) + fragment.duration
  BY <1>4 DEF FragmentCompletion
<1> HIDE DEF a, c
<1>6. \A x \in Int : a - x \in Int /\ Wait(x) \in Int
  BY <1>1, <1>3
<1>7. from + Wait(from) <= later + Wait(later)
  BY <1>1, <1>3, SlotMonotone
<1>8. Wait(from) \in Int /\ Wait(later) \in Int
  BY <1>6
<1> HIDE DEF Wait
<1>9. QED
  BY <1>2, <1>5, <1>7, <1>8

(* What is collected is complete when the last fragment is, and not sooner *)
(* when collecting begins later.                                           *)
LEMMA PlanMonotone ==
  ASSUME NEW s \in Signals, NEW from \in Int, NEW later \in Int, from <= later
  PROVE  PlanAvailability(s, from) <= PlanAvailability(s, later)
<1> DEFINE Parts == Broadcast[s].fragments
           Ends(x) == {FragmentCompletion(s, fragment, x) : fragment \in Parts}
<1>1. ASSUME NEW x \in Int
      PROVE  /\ Ends(x) \in SUBSET Int /\ IsFiniteSet(Ends(x)) /\ Ends(x) # {}
  <2> DEFINE end == [fragment \in Parts |-> FragmentCompletion(s, fragment, x)]
  <2>1. IsFiniteSet(Parts) /\ Parts # {}
    BY NavigationAssumption
  <2>2. IsFiniteSet({end[fragment] : fragment \in Parts})
    BY <2>1, FiniteImage
  <2>3. {end[fragment] : fragment \in Parts} = Ends(x)
    OBVIOUS
  <2>4. \A fragment \in Parts : FragmentCompletion(s, fragment, x) \in Int
    BY CompletionFacts
  <2>5. QED
    BY <2>1, <2>2, <2>3, <2>4
<1>2. ASSUME NEW x \in Int
      PROVE  Max(Ends(x)) \in Ends(x) /\ \A e \in Ends(x) : Max(Ends(x)) >= e
  <2>1. Ends(x) \in SUBSET Int /\ IsFiniteSet(Ends(x)) /\ Ends(x) # {}
    BY <1>1
  <2> HIDE DEF Ends
  <2>2. QED
    BY <2>1, MaxFacts
<1>3. PICK fragment \in Parts : Max(Ends(from)) = FragmentCompletion(s, fragment, from)
  BY <1>2
<1>4. FragmentCompletion(s, fragment, later) \in Ends(later)
  BY <1>3
<1>5. /\ FragmentCompletion(s, fragment, from) <= FragmentCompletion(s, fragment, later)
      /\ FragmentCompletion(s, fragment, from) \in Int
      /\ FragmentCompletion(s, fragment, later) \in Int
  BY <1>3, CompletionFacts
<1>6. Max(Ends(later)) \in Int /\ Max(Ends(later)) >= FragmentCompletion(s, fragment, later)
  BY <1>1, <1>2, <1>4
<1>7. PlanAvailability(s, from) = Max(Ends(from)) /\ PlanAvailability(s, later) = Max(Ends(later))
  BY DEF PlanAvailability
<1> HIDE DEF Ends
<1>8. QED
  BY <1>3, <1>5, <1>6, <1>7

LEMMA PairMax ==
  ASSUME NEW a \in Int, NEW b \in Int
  PROVE  Max({a, b}) = (IF a >= b THEN a ELSE b)
<1> DEFINE S == {a, b}
<1>1. S \in SUBSET Int /\ S # {} /\ IsFiniteSet(S)
  <2>1. IsFiniteSet({}) /\ IsFiniteSet({} \cup {a}) /\ IsFiniteSet(({} \cup {a}) \cup {b})
    BY FS_EmptySet, FS_AddElement
  <2>2. S = ({} \cup {a}) \cup {b}
    OBVIOUS
  <2>3. QED
    BY <2>1, <2>2
<1>2. Max(S) \in S /\ \A y \in S : Max(S) >= y
  <2> HIDE DEF S
  <2>1. QED
    BY <1>1, MaxFacts
<1>3. QED
  BY <1>2

-----------------------------------------------------------------------------
(* The inductive invariant.                                                *)

(* The carrier s transmits all of r, from the time it was first locked,    *)
(* before t.                                                               *)
Covers(L, s, r, t) ==
  /\ Broadcast[s].family = Family(r)
  /\ L[s] # None
  /\ PlanAvailability(s, Max({Transmit(r), L[s]})) <= t

(* What a COLD receiver has of the families, and is collecting, was on air *)
(* long enough: of a family it holds, one record; of a plan, its target.   *)
Collected(c, st, L, t) ==
  \A f \in Families :
    /\ c[f].acquired => \E r \in st : Family(r) = f
    /\ ~c[f].acquired /\ c[f].target # None =>
         \E s \in Signals : Covers(L, s, c[f].target, c[f].available)
    /\ (\E r \in st : Family(r) = f) =>
         \E r \in st, s \in Signals : Family(r) = f /\ Covers(L, s, r, t)

CollectInv == Mode = "COLD" => Collected(cold, store, firstLock, LastEpoch)

(* Neither a lock nor the time from which a signal is sought lies before   *)
(* the signal's first lock since power-on; and no lock after the clock.    *)
LocksFrom(tr, L, t) ==
  \A s \in Signals :
    /\ L[s] # None => L[s] <= t
    /\ tr[s].phase # "SignalOff" => /\ tr[s].start \in Nat
                                    /\ L[s] # None => L[s] <= tr[s].start
    /\ tr[s].phase = "Tracking" => tr[s].start <= t /\ L[s] # None

LockInv == LocksFrom(trackers, firstLock, LastEpoch)

-----------------------------------------------------------------------------
(* best_cold_plan: the earliest of the carriers' plans.                    *)

LEMMA CollectsFromFacts ==
  ASSUME NEW tr \in [Signals -> Trackers], NEW s \in Signals, NEW r \in Records
  PROVE  /\ CollectsFrom(tr, s, r) \in Int
         /\ CollectsFrom(tr, s, r) = Max({Transmit(r), tr[s].start})
<1>1. Transmit(r) \in Int /\ tr[s].start \in Int
  BY RecordFacts DEF Trackers
<1>2. QED
  BY <1>1, PairMax DEF CollectsFrom

LEMMA BestPlanFacts ==
  ASSUME NEW tr \in [Signals -> Trackers], NEW f, NEW r \in Records, Carriers(tr, f) # {}
  PROVE  /\ BestPlan(tr, f, r) \in Int
         /\ \E s \in Carriers(tr, f) :
              BestPlan(tr, f, r) = PlanAvailability(s, CollectsFrom(tr, s, r))
         /\ \A s \in Carriers(tr, f) :
              BestPlan(tr, f, r) <= PlanAvailability(s, CollectsFrom(tr, s, r))
<1> DEFINE C == Carriers(tr, f)
           plan == [s \in C |-> PlanAvailability(s, CollectsFrom(tr, s, r))]
           Plans == {PlanAvailability(s, CollectsFrom(tr, s, r)) : s \in C}
<1>1. C \subseteq Signals /\ IsFiniteSet(C)
  <2>1. C \subseteq Signals
    BY DEF Carriers, Tracking
  <2>2. QED
    BY <2>1, SignalLocksAssumption, FS_Subset
<1>2. ASSUME NEW s \in C PROVE PlanAvailability(s, CollectsFrom(tr, s, r)) \in Int
  BY <1>1, CollectsFromFacts, PlanAvailabilityType
<1>3. IsFiniteSet(Plans)
  <2>1. IsFiniteSet({plan[s] : s \in C})
    BY <1>1, FiniteImage
  <2>2. {plan[s] : s \in C} = Plans
    OBVIOUS
  <2>3. QED
    BY <2>1, <2>2
<1>4. Plans \in SUBSET Int /\ Plans # {}
  BY <1>2
<1>5. Min(Plans) \in Plans /\ \A y \in Plans : Min(Plans) <= y
  <2> HIDE DEF Plans
  <2> QED
    BY <1>3, <1>4, MinFacts
<1>6. BestPlan(tr, f, r) = Min(Plans)
  BY DEF BestPlan
<1>7. QED
  BY <1>4, <1>5, <1>6

(* The plan followed aims at the newest record on air, is no later than    *)
(* any carrier's, and covers it on one.                                    *)
LEMMA ColdPlanFacts ==
  ASSUME epoch \in Nat, NEW n, NEW tr \in [Signals -> Trackers], NEW f, NEW L \in [Signals -> Int],
         n.cold[f] \in ColdFamilies(f), Collecting(n, tr, f),
         \A s \in Tracking(tr) : L[s] # None /\ L[s] <= tr[s].start,
         n.cold[f].target # None =>
           \E s \in Signals : Covers(L, s, n.cold[f].target, n.cold[f].available),
         NEW r, r = ColdTarget(n, f)
  PROVE  /\ r \in Undelivered(n.delivered, f)
         /\ ColdPlan(n, tr, f).acquired = FALSE
         /\ ColdPlan(n, tr, f).target = r
         /\ ColdPlan(n, tr, f).available \in Int
         /\ \E s \in Signals : Covers(L, s, r, ColdPlan(n, tr, f).available)
         /\ \A s \in Carriers(tr, f) :
              ColdPlan(n, tr, f).available <= PlanAvailability(s, CollectsFrom(tr, s, r))
<1> DEFINE best == BestPlan(tr, f, r)
           c == n.cold[f]
           plan == FollowedPlan(c, r, best)
<1>1. ColdPlan(n, tr, f) = plan
  BY DEF ColdPlan
<1>2. /\ r \in Undelivered(n.delivered, f) /\ r \in Records /\ Family(r) = f
      /\ Carriers(tr, f) # {} /\ ~c.acquired
  BY UndeliveredFacts DEF Collecting, ColdTarget
<1>3. /\ best \in Int
      /\ \E s \in Carriers(tr, f) : best = PlanAvailability(s, CollectsFrom(tr, s, r))
      /\ \A s \in Carriers(tr, f) : best <= PlanAvailability(s, CollectsFrom(tr, s, r))
  BY <1>2, BestPlanFacts
<1>4. c.acquired \in BOOLEAN /\ c.available \in Int
  BY DEF ColdFamilies
<1>5. \E s \in Signals : Covers(L, s, r, best)
  <2>1. PICK s \in Carriers(tr, f) : best = PlanAvailability(s, CollectsFrom(tr, s, r))
    BY <1>3
  <2>2. s \in Signals /\ Broadcast[s].family = f /\ L[s] # None /\ L[s] <= tr[s].start
        /\ L[s] \in Int /\ tr[s].start \in Int /\ Transmit(r) \in Int
    BY <1>2, <2>1, RecordFacts DEF Carriers, Tracking, Trackers
  <2>3. Max({Transmit(r), L[s]}) \in Int /\ CollectsFrom(tr, s, r) \in Int
        /\ Max({Transmit(r), L[s]}) <= CollectsFrom(tr, s, r)
    <3>1. Max({Transmit(r), L[s]}) = (IF Transmit(r) >= L[s] THEN Transmit(r) ELSE L[s])
      BY <2>2, PairMax
    <3>2. CollectsFrom(tr, s, r) = (IF Transmit(r) >= tr[s].start THEN Transmit(r) ELSE tr[s].start)
      BY DEF CollectsFrom
    <3>3. QED
      BY <2>2, <3>1, <3>2
  <2>4. PlanAvailability(s, Max({Transmit(r), L[s]})) <= best
    BY <2>1, <2>2, <2>3, PlanMonotone
  <2>5. QED
    BY <1>2, <2>2, <2>4 DEF Covers
<1> HIDE DEF best
<1>6. CASE c.target # r \/ best < c.available
  <2>1. plan = [c EXCEPT !.target = r, !.available = best]
    BY <1>6 DEF FollowedPlan
  <2>2. plan.acquired = FALSE /\ plan.target = r /\ plan.available = best
    BY <1>2, <1>4, <2>1 DEF ColdFamilies
  <2>3. QED
    BY <1>1, <1>2, <1>3, <1>5, <2>2 DEF best
<1>7. CASE ~(c.target # r \/ best < c.available)
  <2>1. plan = c /\ c.target = r /\ c.available <= best
    BY <1>3, <1>4, <1>7 DEF FollowedPlan
  <2>2. r # None
    <3>1. Records = 1 .. Len(TruthSchedule) /\ Len(TruthSchedule) \in Nat
      BY NavigationAssumption, EntryOfSchedule DEF Records
    <3>2. QED
      BY <1>2, <3>1 DEF None
  <2>3. \A s \in Carriers(tr, f) : PlanAvailability(s, CollectsFrom(tr, s, r)) \in Int
    BY <1>2, CollectsFromFacts, PlanAvailabilityType DEF Carriers, Tracking
  <2>4. \A s \in Carriers(tr, f) : c.available <= PlanAvailability(s, CollectsFrom(tr, s, r))
    BY <1>3, <1>4, <2>1, <2>3 DEF best
  <2>5. QED
    BY <1>1, <1>2, <1>4, <2>1, <2>2, <2>4
<1>8. QED
  BY <1>6, <1>7

-----------------------------------------------------------------------------
(* One epoch of process_cold_nav.                                          *)

LEMMA ColdCollects ==
  ASSUME epoch \in Nat, NEW n, NEW tr \in [Signals -> Trackers], NEW L \in [Signals -> Int],
         ProcessColdNav(n, tr), store' = n.store \cup received', ColdTyped(n.cold),
         \A s \in Tracking(tr) : L[s] # None /\ L[s] <= tr[s].start,
         Collected(n.cold, n.store, L, Now)
  PROVE  Collected(cold', store', L, Now)
<1>1. SUFFICES ASSUME NEW f \in Families
               PROVE  /\ cold'[f].acquired => \E r \in store' : Family(r) = f
                      /\ ~cold'[f].acquired /\ cold'[f].target # None =>
                           \E s \in Signals : Covers(L, s, cold'[f].target, cold'[f].available)
                      /\ (\E r \in store' : Family(r) = f) =>
                           \E r \in store', s \in Signals : Family(r) = f /\ Covers(L, s, r, Now)
  BY DEF Collected
<1> DEFINE r0 == ColdTarget(n, f)
           plan == ColdPlan(n, tr, f)
<1>2. /\ received' = (UNION {ColdReceived(n, tr, g) : g \in Families}) \cup IonReceived(n, tr)
      /\ cold'[f] = ColdAfter(n, tr, f)
  BY DEF ProcessColdNav
<1>3. /\ n.cold[f].acquired => \E r \in n.store : Family(r) = f
      /\ ~n.cold[f].acquired /\ n.cold[f].target # None =>
           \E s \in Signals : Covers(L, s, n.cold[f].target, n.cold[f].available)
      /\ (\E r \in n.store : Family(r) = f) =>
           \E r \in n.store, s \in Signals : Family(r) = f /\ Covers(L, s, r, Now)
  BY DEF Collected
<1>4. n.cold[f] \in ColdFamilies(f)
  BY DEF ColdTyped
<1>5. ASSUME Collecting(n, tr, f)
      PROVE  /\ r0 \in Undelivered(n.delivered, f) /\ Family(r0) = f
             /\ plan.acquired = FALSE /\ plan.target = r0 /\ plan.available \in Int
             /\ \E s \in Signals : Covers(L, s, r0, plan.available)
  <2>1. ~n.cold[f].acquired
    BY <1>5 DEF Collecting
  <2>2. n.cold[f].target # None =>
          \E s \in Signals : Covers(L, s, n.cold[f].target, n.cold[f].available)
    BY <1>3, <2>1
  <2> HIDE DEF r0, plan
  <2>3. /\ r0 \in Undelivered(n.delivered, f)
        /\ plan.acquired = FALSE /\ plan.target = r0 /\ plan.available \in Int
        /\ \E s \in Signals : Covers(L, s, r0, plan.available)
    BY <1>4, <1>5, <2>2, ColdPlanFacts DEF r0, plan
  <2>4. QED
    BY <2>3, UndeliveredFacts
<1>6. ASSUME Completes(n, tr, f)
      PROVE  /\ r0 \in store' /\ Family(r0) = f /\ cold'[f].acquired
             /\ \E s \in Signals : Covers(L, s, r0, Now)
  <2>1. Collecting(n, tr, f) /\ plan.available <= Now
    BY <1>6 DEF Completes
  <2>2. ~n.cold[f].acquired
    BY <2>1 DEF Collecting
  <2>3. ColdReceived(n, tr, f) = {r0}
    BY <1>6, <2>2 DEF ColdReceived
  <2>4. r0 \in store'
    BY <1>2, <2>3
  <2>5. cold'[f].acquired
    BY <1>2, <1>6 DEF ColdAfter, Acquired
  <2>6. PICK s \in Signals : Covers(L, s, r0, plan.available)
    BY <1>5, <2>1
  <2>7. PlanAvailability(s, Max({Transmit(r0), L[s]})) \in Int
    <3>1. r0 \in Records
      BY <1>5, <2>1, UndeliveredFacts
    <3>2. Transmit(r0) \in Int /\ L[s] \in Int
      BY <3>1, RecordFacts
    <3> HIDE DEF r0
    <3>3. Max({Transmit(r0), L[s]}) \in Int
      BY <3>2, PairMax
    <3>4. QED
      BY <3>3, PlanAvailabilityType
  <2>8. plan.available \in Int /\ Now \in Int /\ Family(r0) = f
    BY <1>5, <2>1, EpochTimes
  <2> HIDE DEF r0, plan
  <2>9. Covers(L, s, r0, Now)
    BY <2>1, <2>6, <2>7, <2>8 DEF Covers
  <2>10. QED
    BY <2>4, <2>5, <2>8, <2>9
<1>7. CASE Completes(n, tr, f)
  BY <1>6, <1>7
<1>8. CASE ~Completes(n, tr, f) /\ ~n.cold[f].acquired
  <2>1. ColdReceived(n, tr, f) = {}
    BY <1>8 DEF ColdReceived
  <2>2. \A r \in received' : Family(r) # f
    <3>1. \A r \in IonReceived(n, tr) : Family(r) # f
      BY UndeliveredFacts, NavigationAssumption DEF IonReceived
    <3>2. ASSUME NEW g \in Families, NEW r \in ColdReceived(n, tr, g) PROVE Family(r) = g
      <4>1. CASE n.cold[g].acquired
        BY <3>2, <4>1, UndeliveredFacts DEF ColdReceived, Completes, Collecting
      <4>2. CASE Completes(n, tr, g) /\ ~n.cold[g].acquired
        <5>1. r = ColdTarget(n, g) /\ Undelivered(n.delivered, g) # {}
          BY <3>2, <4>2 DEF ColdReceived, Completes, Collecting
        <5>2. QED
          BY <5>1, UndeliveredFacts DEF ColdTarget
      <4>3. QED
        BY <3>2, <4>1, <4>2 DEF ColdReceived
    <3>3. QED
      BY <1>2, <2>1, <3>1, <3>2
  <2>3. (\E r \in store' : Family(r) = f) => \E r \in n.store : Family(r) = f
    BY <2>2
  <2>4. CASE Collecting(n, tr, f)
    <3>1. cold'[f] = plan
      BY <1>2, <1>8, <2>4 DEF ColdAfter
    <3>2. QED
      BY <1>3, <1>5, <2>3, <2>4, <3>1
  <2>5. CASE ~Collecting(n, tr, f)
    <3>1. cold'[f] = n.cold[f]
      BY <1>2, <1>8, <2>5 DEF ColdAfter
    <3>2. QED
      BY <1>3, <2>3, <3>1
  <2>6. QED
    BY <2>4, <2>5
<1>9. CASE n.cold[f].acquired
  <2>1. ~Completes(n, tr, f) /\ ~Collecting(n, tr, f)
    BY <1>9 DEF Completes, Collecting
  <2>2. cold'[f] = n.cold[f]
    BY <1>2, <2>1 DEF ColdAfter
  <2>3. QED
    BY <1>3, <1>9, <2>2
<1>10. QED
  BY <1>7, <1>8, <1>9

(* Time passes, and a carrier that was locked stays remembered. *)
LEMMA CollectedLater ==
  ASSUME NEW c, ColdTyped(c), NEW st \in SUBSET Records, NEW L \in [Signals -> Int],
         NEW M \in [Signals -> Int], \A s \in Signals : L[s] # None => M[s] = L[s],
         NEW t \in Int, NEW u \in Int, t <= u, Collected(c, st, L, t)
  PROVE  Collected(c, st, M, u)
<1>1. ASSUME NEW s \in Signals, NEW r \in Records, NEW x \in Int, NEW y \in Int, x <= y,
             Covers(L, s, r, x)
      PROVE  Covers(M, s, r, y)
  <2>1. Transmit(r) \in Int /\ L[s] \in Int /\ M[s] = L[s]
    BY <1>1, RecordFacts DEF Covers
  <2>2. Max({Transmit(r), L[s]}) \in Int
    BY <2>1, PairMax
  <2>3. PlanAvailability(s, Max({Transmit(r), L[s]})) \in Int
    BY <2>2, PlanAvailabilityType
  <2>4. QED
    BY <1>1, <2>1, <2>3 DEF Covers
<1>2. \A f \in Families : c[f].target # None => c[f].target \in Records /\ c[f].available \in Int
  BY DEF ColdTyped, ColdFamilies
<1>3. QED
  BY <1>1, <1>2 DEF Collected

-----------------------------------------------------------------------------
(* Locks.                                                                  *)

LEMMA NewLocks ==
  ASSUME epoch \in Nat, NEW before \in [Signals -> Trackers], NEW L \in [Signals -> Int], NEW sc,
         UpdateTrackers(before, sc), RememberLocks(L), trackers' \in [Signals -> Trackers],
         LocksFrom(before, L, LastEpoch)
  PROVE  /\ LocksFrom(trackers', firstLock', Now)
         /\ \A s \in Signals : L[s] # None => firstLock'[s] = L[s]
<1>1. Now \in Nat /\ LastEpoch \in Int /\ LastEpoch <= Now /\ None = -1
  BY SignalLocksAssumption DEF Now, LastEpoch, None
<1>2. SUFFICES ASSUME NEW s \in Signals, NEW t, t = before[s], NEW u, u = trackers'[s]
               PROVE  /\ L[s] # None => firstLock'[s] = L[s]
                      /\ firstLock'[s] # None => firstLock'[s] <= Now
                      /\ u.phase # "SignalOff" => /\ u.start \in Nat
                                                  /\ firstLock'[s] # None => firstLock'[s] <= u.start
                      /\ u.phase = "Tracking" => u.start <= Now /\ firstLock'[s] # None
  BY DEF LocksFrom
<1>3. firstLock'[s] = IF L[s] = None /\ u.phase = "Tracking" THEN u.start ELSE L[s]
  BY <1>2 DEF RememberLocks, Tracking
<1>4. /\ L[s] \in Int /\ (L[s] # None => L[s] <= LastEpoch)
      /\ t.phase # "SignalOff" => t.start \in Nat /\ (L[s] # None => L[s] <= t.start)
      /\ t.phase = "Tracking" => t.start <= LastEpoch /\ L[s] # None
  BY <1>2 DEF LocksFrom
<1>5. \/ u = t \/ u = TrackerOff
      \/ t.phase = "SignalOff" /\ \E d \in LockDelays : u = Seeking(Now + d)
      \/ t.phase = "SignalOff" /\ u = Locked(Now)
      \/ t.phase = "Searching" /\ t.start <= Now /\ (u = Locked(t.start) \/ u = Locked(Now))
  BY <1>2, NextTrackerCases DEF UpdateTrackers
<1>6. CASE u = t
  <2>1. t.phase = "Tracking" => t.start <= Now
    BY <1>1, <1>4
  <2>2. QED
    BY <1>1, <1>3, <1>4, <1>6, <2>1
<1>7. CASE u = TrackerOff
  <2>1. u.phase = "SignalOff"
    BY <1>7 DEF TrackerOff
  <2>2. QED
    BY <1>1, <1>3, <1>4, <2>1
<1>8. CASE \E d \in LockDelays : u = Seeking(Now + d)
  <2>1. PICK d \in LockDelays : u = Seeking(Now + d)
    BY <1>8
  <2>2. u.phase = "Searching" /\ u.start = Now + d /\ d \in Nat
    BY <2>1, SignalLocksAssumption DEF Seeking
  <2>3. QED
    BY <1>1, <1>3, <1>4, <2>2
<1>9. CASE u = Locked(Now) \/ (t.phase = "Searching" /\ t.start <= Now /\ u = Locked(t.start))
  <2>1. PICK x \in Nat : u = Locked(x) /\ x <= Now /\ (L[s] # None => L[s] <= x)
    BY <1>1, <1>4, <1>9
  <2>2. u.phase = "Tracking" /\ u.start = x
    BY <2>1 DEF Locked
  <2>3. QED
    BY <1>1, <1>3, <1>4, <2>1, <2>2
<1>10. QED
  BY <1>5, <1>6, <1>7, <1>8, <1>9

-----------------------------------------------------------------------------
(* Every step preserves the invariant.                                     *)

NoLocks == [s \in Signals |-> None]

LEMMA OffFacts ==
  ASSUME NEW L \in [Signals -> Int], NEW t \in Int, \A s \in Signals : L[s] # None => L[s] <= t
  PROVE  /\ AllOff \in [Signals -> Trackers] /\ NoLocks \in [Signals -> Int]
         /\ LocksFrom(AllOff, L, t) /\ LocksFrom(AllOff, NoLocks, t)
BY DEF AllOff, NoLocks, TrackerOff, Trackers, LocksFrom, None

LEMMA CollectInit == Init => LockInv /\ CollectInv
<1>1. SUFFICES ASSUME Init PROVE LockInv /\ CollectInv
  OBVIOUS
<1>2. LockInv
  BY <1>1 DEF Init, LocksInit, AllOff, LockInv, LocksFrom, TrackerOff, None
<1>3. CollectInv
  BY <1>1 DEF Init, CollectInv, Collected, Unacquired, None
<1>4. QED
  BY <1>2, <1>3

(* An epoch of a receiver in the state n, whose signals were first locked  *)
(* at the times of L.                                                      *)
LEMMA EpochCollects ==
  ASSUME epoch \in Nat, epoch' = epoch + 1, config' = config,
         NEW n, NEW before \in [Signals -> Trackers], NEW L \in [Signals -> Int], NEW sc,
         UpdateTrackers(before, sc), RememberLocks(L), ProcessReceiverNav(n, trackers'),
         trackers' \in [Signals -> Trackers], firstLock' \in [Signals -> Int],
         ColdTyped(n.cold), n.store \in SUBSET Records,
         LocksFrom(before, L, LastEpoch),
         Mode = "COLD" => Collected(n.cold, n.store, L, LastEpoch)
  PROVE  LockInv' /\ CollectInv'
<1>1. /\ LocksFrom(trackers', firstLock', Now)
      /\ \A s \in Signals : L[s] # None => firstLock'[s] = L[s]
  BY NewLocks
<1>2. LastEpoch' = Now /\ Mode' = Mode /\ epoch' # 0
  BY NextEpochTimes DEF Mode
<1>3. Now \in Int /\ LastEpoch \in Int /\ LastEpoch <= Now
  BY EpochTimes
<1>4. LockInv'
  BY <1>1, <1>2 DEF LockInv
<1>5. ASSUME Mode = "COLD" PROVE Collected(cold', store', firstLock', Now)
  <2>1. ProcessColdNav(n, trackers') /\ store' = n.store \cup received'
    BY <1>5 DEF ProcessReceiverNav
  <2>2. Collected(n.cold, n.store, firstLock', Now)
    BY <1>1, <1>3, <1>5, CollectedLater
  <2>3. \A s \in Tracking(trackers') : firstLock'[s] # None /\ firstLock'[s] <= trackers'[s].start
    BY <1>1 DEF LocksFrom, Tracking
  <2>4. QED
    BY <2>1, <2>2, <2>3, ColdCollects
<1>6. QED
  BY <1>2, <1>4, <1>5 DEF CollectInv

LEMMA CollectNext ==
  TypeOK /\ TypeOK' /\ LockInv /\ CollectInv /\ [Next]_vars => LockInv' /\ CollectInv'
<1>1. SUFFICES ASSUME TypeOK, TypeOK', LockInv, CollectInv, [Next]_vars
               PROVE  LockInv' /\ CollectInv'
  OBVIOUS
<1>2. /\ epoch \in Nat /\ trackers \in [Signals -> Trackers] /\ trackers' \in [Signals -> Trackers]
      /\ firstLock \in [Signals -> Int] /\ firstLock' \in [Signals -> Int]
      /\ ColdTyped(cold) /\ store \in SUBSET Records
  BY <1>1 DEF TypeOK, Trackers, ColdTyped
<1>3. Now \in Int /\ LastEpoch \in Int /\ LastEpoch <= Now
  BY <1>2, EpochTimes
<1>4. \A s \in Signals : firstLock[s] # None => firstLock[s] <= LastEpoch
  BY <1>1 DEF LockInv, LocksFrom
<1>5. CASE PowerOnEpoch
  <2>1. /\ epoch' = epoch + 1 /\ config' = config
        /\ UpdateTrackers(AllOff, ScenarioAt(config, Now)) /\ RememberLocks(NoLocks)
        /\ ProcessReceiverNav(PoweredOn, trackers')
    BY <1>5 DEF PowerOnEpoch, PowerOnLocks, BeginEpoch, NoLocks
  <2>2. ColdTyped(PoweredOn.cold) /\ PoweredOn.store \in SUBSET Records
    BY UnacquiredType DEF ColdTyped, PoweredOn, Snapshot, Available
  <2>3. Mode = "COLD" => Collected(PoweredOn.cold, PoweredOn.store, NoLocks, LastEpoch)
    BY DEF PoweredOn, Collected, Unacquired
  <2>4. /\ AllOff \in [Signals -> Trackers] /\ NoLocks \in [Signals -> Int]
        /\ LocksFrom(AllOff, NoLocks, LastEpoch)
    BY <1>2, <1>3, <1>4, OffFacts
  <2> DEFINE n == PoweredOn
             sc == ScenarioAt(config, Now)
  <2> HIDE DEF n, sc
  <2>5. /\ UpdateTrackers(AllOff, sc) /\ ProcessReceiverNav(n, trackers')
        /\ ColdTyped(n.cold) /\ n.store \in SUBSET Records
        /\ Mode = "COLD" => Collected(n.cold, n.store, NoLocks, LastEpoch)
    BY <2>1, <2>2, <2>3 DEF n, sc
  <2>6. QED
    BY <1>2, <2>1, <2>4, <2>5, EpochCollects
<1>6. CASE PoweredEpoch
  <2> DEFINE n == Current
             sc == ScenarioAt(config, Now)
  <2>1. n.cold = cold /\ n.store = store
    BY DEF Current
  <2> HIDE DEF n, sc
  <2>2. /\ epoch' = epoch + 1 /\ config' = config
        /\ UpdateTrackers(trackers, sc) /\ RememberLocks(firstLock)
        /\ ProcessReceiverNav(n, trackers')
    BY <1>6 DEF PoweredEpoch, PoweredLocks, BeginEpoch, n, sc
  <2>3. /\ ColdTyped(n.cold) /\ n.store \in SUBSET Records
        /\ Mode = "COLD" => Collected(n.cold, n.store, firstLock, LastEpoch)
    BY <1>1, <1>2, <2>1 DEF CollectInv
  <2>4. LocksFrom(trackers, firstLock, LastEpoch)
    BY <1>1 DEF LockInv
  <2>5. QED
    BY <1>2, <2>2, <2>3, <2>4, EpochCollects
<1>7. CASE UnpoweredEpoch
  <2>1. /\ epoch' = epoch + 1 /\ config' = config /\ trackers' = AllOff
        /\ store' = store /\ cold' = cold /\ firstLock' = firstLock
    BY <1>7 DEF UnpoweredEpoch, UnpoweredLocks, BeginEpoch
  <2>2. LastEpoch' = Now /\ Mode' = Mode /\ epoch' # 0
    BY <1>2, <2>1, NextEpochTimes DEF Mode
  <2>3. \A s \in Signals : firstLock[s] # None => firstLock[s] <= Now
    BY <1>2, <1>3, <1>4
  <2>4. LocksFrom(AllOff, firstLock, Now)
    BY <1>2, <1>3, <2>3, OffFacts
  <2>5. Mode = "COLD" => Collected(cold, store, firstLock, Now)
    BY <1>1, <1>2, <1>3, CollectedLater DEF CollectInv
  <2>6. QED
    BY <2>1, <2>2, <2>4, <2>5 DEF LockInv, CollectInv
<1>8. CASE UNCHANGED vars
  <2>1. LastEpoch' = LastEpoch /\ Mode' = Mode
    BY <1>8 DEF vars, lockVars, LastEpoch, Now, Mode
  <2>2. QED
    BY <1>1, <1>8, <2>1 DEF vars, lockVars, LockInv, CollectInv
<1>9. QED
  BY <1>1, <1>5, <1>6, <1>7, <1>8 DEF Next

-----------------------------------------------------------------------------
(* The theorems.                                                           *)

\* process_cold_nav and nav_acquisition_complete: whatever a COLD receiver
\* holds of a family, one of its carriers had the time, since its first lock,
\* to transmit every fragment of one of the family's records.
THEOREM ColdIsCollected == Spec => []ColdEphemerisIsCollected
<1>1. CollectInv => ColdEphemerisIsCollected
  <2>1. SUFFICES ASSUME CollectInv, Mode = "COLD", NEW f \in Families,
                        \E r \in store : Family(r) = f
                 PROVE  \E r \in store, s \in Signals : Family(r) = f /\ Earned(r, s)
    BY DEF ColdEphemerisIsCollected
  <2>2. PICK r \in store, s \in Signals : Family(r) = f /\ Covers(firstLock, s, r, LastEpoch)
    BY <2>1 DEF CollectInv, Collected
  <2>3. Earned(r, s)
    BY <2>2 DEF Earned, Transmitted, Covers
  <2>4. QED
    BY <2>2, <2>3
<1>2. QED
  BY <1>1, CollectInit, CollectNext, TypeCorrect, PTL DEF Spec

(* An epoch delivers the newest record of a family a tracked carrier has   *)
(* had the time to transmit.                                               *)
LEMMA EpochMeetsDeadline ==
  ASSUME epoch \in Nat, epoch' = epoch + 1,
         NEW n, trackers' \in [Signals -> Trackers], ProcessReceiverNav(n, trackers'),
         ColdTyped(n.cold)
  PROVE  CollectionMeetsDeadline'
<1>1. LastEpoch' = Now
  BY NextEpochTimes
<1> DEFINE tr == trackers'
           OnAir(f) == {r \in Records : Family(r) = f /\ Transmit(r) <= Now}
<1>2. SUFFICES ASSUME NEW s \in Tracking(tr), OnAir(Broadcast[s].family) # {},
                      PlanAvailability(s, Max({Transmit(Max(OnAir(Broadcast[s].family))), tr[s].start}))
                        <= Now
               PROVE  Max(OnAir(Broadcast[s].family)) \in delivered'
  BY <1>1 DEF CollectionMeetsDeadline, Transmitted, Tracking
<1> DEFINE f == Broadcast[s].family
           m == Max(OnAir(f))
<1>3. /\ s \in Signals /\ f \in Families /\ f # Ion /\ s \in Carriers(tr, f)
  BY NavigationAssumption DEF Tracking, Carriers
<1>4. m \in OnAir(f) /\ \A r \in OnAir(f) : m >= r
  <2>1. OnAir(f) \in SUBSET Int /\ IsFiniteSet(OnAir(f))
    BY RecordFacts, FS_Subset
  <2> DEFINE A == OnAir(f)
  <2>2. A \in SUBSET Int /\ IsFiniteSet(A) /\ A # {}
    BY <1>2, <2>1
  <2> HIDE DEF A
  <2>3. Max(A) \in A /\ \A r \in A : Max(A) >= r
    BY <2>2, MaxFacts
  <2>4. QED
    BY <2>3 DEF A
<1>5. m \in Available /\ Family(m) = f /\ m \in Records
  BY <1>4 DEF Available
<1>6. PlanAvailability(s, Max({Transmit(m), tr[s].start})) <= Now
  BY <1>2
<1> HIDE DEF tr, m
<1>7. SUFFICES ASSUME m \notin delivered' PROVE FALSE
  BY DEF m
<1>8. Mode = "COLD" /\ ~cold'[f].acquired
  BY <1>3, <1>5, <1>7, ProcessDelivers DEF tr
<1>9. /\ n.delivered \subseteq delivered' /\ received' \subseteq delivered'
  BY ProcessTaken
<1>10. m \in Undelivered(n.delivered, f)
  BY <1>5, <1>7, <1>9 DEF Undelivered
<1>11. ProcessColdNav(n, tr)
  BY <1>8 DEF ProcessReceiverNav, tr
<1>12. /\ ColdReceived(n, tr, f) \subseteq received' /\ cold'[f] = ColdAfter(n, tr, f)
  BY <1>3, <1>11, Zenon DEF ProcessColdNav
<1>13. ~n.cold[f].acquired
  <2>1. SUFFICES ASSUME n.cold[f].acquired PROVE FALSE
    OBVIOUS
  <2>2. cold'[f] = n.cold[f]
    BY <1>12, <2>1 DEF ColdAfter, Completes, Collecting
  <2>3. QED
    BY <1>8, <2>1, <2>2
<1>14. Collecting(n, tr, f)
  BY <1>3, <1>10, <1>13 DEF Collecting
<1>15. ColdTarget(n, f) = m
  <2> DEFINE t == ColdTarget(n, f)
  <2>1. t \in Undelivered(n.delivered, f) /\ t >= m
    BY <1>10, UndeliveredFacts DEF ColdTarget
  <2>2. t \in OnAir(f)
    BY <2>1 DEF Undelivered, Available
  <2>3. m >= t /\ m \in Int /\ t \in Int
    BY <1>4, <1>5, <2>2, RecordFacts
  <2> HIDE DEF t
  <2>4. t = m
    BY <2>1, <2>3
  <2>5. QED
    BY <2>4 DEF t
<1>16. ColdPlan(n, tr, f).available <= Now
  <2>1. tr \in [Signals -> Trackers] /\ n.cold[f] \in ColdFamilies(f)
    BY <1>3 DEF tr, ColdTyped
  <2>2. CollectsFrom(tr, s, m) \in Int /\ CollectsFrom(tr, s, m) = Max({Transmit(m), tr[s].start})
    BY <1>3, <1>5, <2>1, CollectsFromFacts
  <2>3. /\ BestPlan(tr, f, m) \in Int
        /\ BestPlan(tr, f, m) <= PlanAvailability(s, CollectsFrom(tr, s, m))
    BY <1>3, <1>5, <1>14, <2>1, BestPlanFacts DEF Collecting
  <2>4. PlanAvailability(s, CollectsFrom(tr, s, m)) \in Int /\ Now \in Int
    BY <1>3, <2>2, PlanAvailabilityType, EpochTimes
  <2>5. BestPlan(tr, f, m) <= Now
    BY <1>6, <2>2, <2>3, <2>4
  <2>6. n.cold[f].available \in Int
    BY <2>1 DEF ColdFamilies
  <2> DEFINE best == BestPlan(tr, f, m)
             c == n.cold[f]
  <2>7. ColdPlan(n, tr, f) = FollowedPlan(c, m, best)
    BY <1>15 DEF ColdPlan
  <2>8. best \in Int /\ best <= Now /\ c.available \in Int /\ c \in ColdFamilies(f)
    BY <2>1, <2>3, <2>5, <2>6
  <2> HIDE DEF best, c
  <2>9. FollowedPlan(c, m, best).available <= Now
    <3>1. CASE c.target # m \/ best < c.available
      <4>1. FollowedPlan(c, m, best) = [c EXCEPT !.target = m, !.available = best]
        BY <3>1 DEF FollowedPlan
      <4>2. FollowedPlan(c, m, best).available = best
        BY <2>8, <4>1 DEF ColdFamilies
      <4>3. QED
        BY <2>8, <4>2
    <3>2. CASE ~(c.target # m \/ best < c.available)
      BY <2>4, <2>8, <3>2 DEF FollowedPlan
    <3>3. QED
      BY <3>1, <3>2
  <2>10. QED
    BY <2>7, <2>9
<1>17. Completes(n, tr, f)
  BY <1>14, <1>16 DEF Completes
<1>18. ColdReceived(n, tr, f) = {m}
  BY <1>13, <1>15, <1>17 DEF ColdReceived
<1>19. QED
  BY <1>7, <1>9, <1>12, <1>18

\* best_cold_plan and latest_cold_target: a carrier tracked for as long as it
\* takes to transmit the newest record of its family has delivered it, whatever
\* plan was followed before; of a HOT or WARM receiver all the more.
THEOREM CollectionIsTimely == Spec => []CollectionMeetsDeadline
<1>1. Init => CollectionMeetsDeadline
  BY DEF Init, LocksInit, AllOff, CollectionMeetsDeadline, Tracking, TrackerOff
<1>2. TypeOK /\ TypeOK' /\ CollectionMeetsDeadline /\ [Next]_vars => CollectionMeetsDeadline'
  <2>1. SUFFICES ASSUME TypeOK, TypeOK', CollectionMeetsDeadline, [Next]_vars
                 PROVE  CollectionMeetsDeadline'
    OBVIOUS
  <2>2. /\ epoch \in Nat /\ trackers' \in [Signals -> Trackers] /\ ColdTyped(cold)
    BY <2>1 DEF TypeOK, Trackers, ColdTyped
  <2>3. CASE PowerOnEpoch
    <3> DEFINE n == PoweredOn
    <3>1. ColdTyped(n.cold)
      BY UnacquiredType DEF ColdTyped, PoweredOn
    <3>2. epoch' = epoch + 1 /\ ProcessReceiverNav(n, trackers')
      BY <2>3 DEF PowerOnEpoch, PowerOnLocks, BeginEpoch
    <3> HIDE DEF n
    <3>3. QED
      BY <2>2, <3>1, <3>2, EpochMeetsDeadline
  <2>4. CASE PoweredEpoch
    <3> DEFINE n == Current
    <3>1. ColdTyped(n.cold)
      BY <2>2 DEF Current
    <3>2. epoch' = epoch + 1 /\ ProcessReceiverNav(n, trackers')
      BY <2>4 DEF PoweredEpoch, PoweredLocks, BeginEpoch
    <3> HIDE DEF n
    <3>3. QED
      BY <2>2, <3>1, <3>2, EpochMeetsDeadline
  <2>5. CASE UnpoweredEpoch
    BY <2>5 DEF UnpoweredEpoch, UnpoweredLocks, AllOff, CollectionMeetsDeadline, Tracking, TrackerOff
  <2>6. CASE UNCHANGED vars
    BY <2>1, <2>6 DEF vars, lockVars, CollectionMeetsDeadline, Transmitted, LastEpoch, Now, Tracking
  <2>7. QED
    BY <2>1, <2>3, <2>4, <2>5, <2>6 DEF Next
<1>3. QED
  BY <1>1, <1>2, TypeCorrect, PTL DEF Spec
===============================================================================

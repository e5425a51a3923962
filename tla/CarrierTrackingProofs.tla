------------------------- MODULE CarrierTrackingProofs -------------------------
(***************************************************************************)
(* Proofs about CarrierTrackingRuntime for every value of its constants:   *)
(* its type, when the phase lock is left, when a slip is reported, and that*)
(* the reported carrier phase implements CarrierPhase.                     *)
(***************************************************************************)
EXTENDS CarrierTrackingRuntime, TLAPS

-----------------------------------------------------------------------------
(* The core: what an update preserves and which mode changes it makes.     *)

(* A loop that has just entered a mode is a carrier. *)
LEMMA InModeType ==
  ASSUME NEW m \in Modes, NEW p \in BOOLEAN, NEW age \in 0 .. DopplerValidAge, NEW seg \in Nat
  PROVE  InMode(m, p, age, seg) \in Carriers
BY CarrierConfigAssumption DEF InMode, Carriers

(* Each mode change, from a loop with these two fields of a carrier. *)
LEMMA EntryTypes ==
  ASSUME NEW t, t.lockAge \in 0 .. DopplerValidAge, t.segment \in Nat
  PROVE  /\ EnterUnlocked(t) \in Carriers
         /\ EnterFllFromUnlocked(t) \in Carriers
         /\ EnterFllFromPll(t) \in Carriers
         /\ EnterPll(t) \in Carriers
<1>1. 0 \in 0 .. DopplerValidAge /\ t.segment + 1 \in Nat
  BY CarrierConfigAssumption
<1>2. "Unlocked" \in Modes /\ "FLL" \in Modes /\ "PLL" \in Modes
  BY DEF Modes
<1>3. TRUE \in BOOLEAN /\ FALSE \in BOOLEAN
  OBVIOUS
<1>4. InMode("Unlocked", FALSE, 0, t.segment) \in Carriers
  BY <1>1, <1>2, <1>3, InModeType
<1>5. InMode("FLL", TRUE, 0, t.segment + 1) \in Carriers
  BY <1>1, <1>2, <1>3, InModeType
<1>6. InMode("FLL", FALSE, t.lockAge, t.segment) \in Carriers
  BY <1>2, <1>3, InModeType
<1>7. InMode("PLL", FALSE, t.lockAge, t.segment) \in Carriers
  BY <1>2, <1>3, InModeType
<1>8. QED
  BY <1>4, <1>5, <1>6, <1>7
     DEF EnterUnlocked, EnterFllFromUnlocked, EnterFllFromPll, EnterPll

(* An age never passes the duration it is compared with. *)
LEMMA AgedType ==
  ASSUME NEW limit \in Nat, NEW age \in 0 .. limit
  PROVE  Aged(age, limit) \in 0 .. limit
BY DEF Aged

(* A persistence counter below its duration advances by one at most. *)
LEMMA PersistType ==
  ASSUME NEW limit \in Nat \ {0}, NEW count \in 0 .. limit - 1, NEW holds \in BOOLEAN
  PROVE  /\ Persist(count, holds) \in Nat
         /\ ~(Persist(count, holds) >= limit) => Persist(count, holds) \in 0 .. limit - 1
BY DEF Persist

(* Unlocked: the loop stays or pulls in a fresh carrier with the FLL. *)
LEMMA UnlockedStep ==
  ASSUME NEW t \in Carriers, NEW c \in Int, t.mode = "Unlocked"
  PROVE  /\ UpdateCarrier(t, c) \in Carriers
         /\ UpdateCarrier(t, c).mode # "PLL"
<1> DEFINE u == [t EXCEPT !.fllIn = Persist(@, c >= FllEnterCn0)]
<1>1. UpdateCarrier(t, c) = UpdateUnlocked(t, c)
  BY DEF UpdateCarrier
<1>2. CASE u.fllIn >= FllEnterPersistence
  <2>1. UpdateUnlocked(t, c) = EnterFllFromUnlocked(u)
    BY <1>2 DEF UpdateUnlocked
  <2>2. u.lockAge \in 0 .. DopplerValidAge /\ u.segment \in Nat
    BY DEF Carriers
  <2>3. EnterFllFromUnlocked(u) \in Carriers
    BY <2>2, EntryTypes
  <2>4. QED
    BY <1>1, <2>1, <2>3 DEF EnterFllFromUnlocked, InMode
<1>3. CASE ~(u.fllIn >= FllEnterPersistence)
  <2>1. UpdateUnlocked(t, c) = u
    BY <1>3 DEF UpdateUnlocked
  <2>2. u.fllIn \in 0 .. FllEnterPersistence - 1
    BY <1>3, CarrierConfigAssumption DEF Persist, Carriers
  <2>3. u \in Carriers /\ u.mode = t.mode
    BY <2>2 DEF Carriers
  <2>4. QED
    BY <1>1, <2>1, <2>3
<1>4. QED
  BY <1>2, <1>3

(* FLL: the PLL is entered only by a strong sample, and with its exit      *)
(* counter and its age at zero.                                            *)
LEMMA FllStep ==
  ASSUME NEW t \in Carriers, NEW c \in Int, t.mode = "FLL"
  PROVE  /\ UpdateCarrier(t, c) \in Carriers
         /\ UpdateCarrier(t, c).mode = "PLL" =>
              c >= PllEnterCn0 /\ UpdateCarrier(t, c).pllOut = 0 /\ UpdateCarrier(t, c).pllAge = 0
<1> DEFINE age == Aged(t.modeAge, FllPullInDuration)
           u == [t EXCEPT !.modeAge = age,
                          !.lockAge = Aged(@, DopplerValidAge),
                          !.pullIn  = @ /\ age < FllPullInDuration,
                          !.fllOut  = Persist(@, c < FllExitCn0),
                          !.pllIn   = Persist(@, c >= PllEnterCn0)]
<1>1. UpdateCarrier(t, c) = UpdateFll(t, c)
  BY DEF UpdateCarrier
<1>2. /\ age \in 0 .. FllPullInDuration
      /\ Aged(t.lockAge, DopplerValidAge) \in 0 .. DopplerValidAge
  BY AgedType, CarrierConfigAssumption DEF Carriers
<1>3. u.lockAge \in 0 .. DopplerValidAge /\ u.segment \in Nat
  BY <1>2 DEF Carriers
<1>4. CASE u.fllOut >= FllExitPersistence
  <2>1. UpdateFll(t, c) = EnterUnlocked(u)
    BY <1>4 DEF UpdateFll
  <2>2. EnterUnlocked(u) \in Carriers
    BY <1>3, EntryTypes
  <2>3. QED
    BY <1>1, <2>1, <2>2 DEF EnterUnlocked, InMode
<1>5. CASE ~(u.fllOut >= FllExitPersistence) /\ u.pllIn >= PllEnterPersistence
  <2>1. UpdateFll(t, c) = EnterPll(u)
    BY <1>5 DEF UpdateFll
  <2>2. c >= PllEnterCn0
    BY <1>5, CarrierConfigAssumption DEF Persist, Carriers
  <2>3. QED
    BY <1>1, <1>3, <2>1, <2>2, EntryTypes DEF EnterPll, InMode
<1>6. CASE ~(u.fllOut >= FllExitPersistence) /\ ~(u.pllIn >= PllEnterPersistence)
  <2>1. UpdateFll(t, c) = u
    BY <1>6 DEF UpdateFll
  <2>2. u.fllOut \in 0 .. FllExitPersistence - 1 /\ u.pllIn \in 0 .. PllEnterPersistence - 1
    BY <1>6, CarrierConfigAssumption DEF Persist, Carriers
  <2>3. (t.pullIn /\ age < FllPullInDuration) \in BOOLEAN
    OBVIOUS
  <2>4. u \in Carriers /\ u.mode = t.mode
    BY <1>2, <2>2, <2>3 DEF Carriers
  <2>5. QED
    BY <1>1, <2>1, <2>4
<1>7. QED
  BY <1>4, <1>5, <1>6

(* PLL: the loop leaves it at a weak sample that completes the exit        *)
(* persistence, and while it stays, a weak sample counts and any other     *)
(* restarts the count.                                                     *)
LEMMA PllStep ==
  ASSUME NEW t \in Carriers, NEW c \in Int, t.mode = "PLL"
  PROVE  /\ UpdateCarrier(t, c) \in Carriers
         /\ UpdateCarrier(t, c).mode \in {"FLL", "PLL"}
         /\ UpdateCarrier(t, c).mode = "PLL" =>
              /\ UpdateCarrier(t, c).pllOut = Persist(t.pllOut, c < PllExitCn0)
              /\ UpdateCarrier(t, c).pllAge = Aged(t.pllAge, AdrValidPllAge)
         /\ UpdateCarrier(t, c).mode # "PLL" =>
              /\ c < PllExitCn0
              /\ t.pllOut + 1 >= PllExitPersistence
<1> DEFINE u == [t EXCEPT !.modeAge = Aged(@, FllPullInDuration),
                          !.lockAge = Aged(@, DopplerValidAge),
                          !.pllAge  = Aged(@, AdrValidPllAge),
                          !.pllOut  = Persist(@, c < PllExitCn0)]
<1>1. UpdateCarrier(t, c) = UpdatePll(t, c)
  BY DEF UpdateCarrier
<1>2. /\ Aged(t.modeAge, FllPullInDuration) \in 0 .. FllPullInDuration
      /\ Aged(t.lockAge, DopplerValidAge) \in 0 .. DopplerValidAge
      /\ Aged(t.pllAge, AdrValidPllAge) \in 0 .. AdrValidPllAge
  BY AgedType, CarrierConfigAssumption DEF Carriers
<1>3. u.lockAge \in 0 .. DopplerValidAge /\ u.segment \in Nat
  BY <1>2 DEF Carriers
<1>4. CASE u.pllOut >= PllExitPersistence
  <2>1. UpdatePll(t, c) = EnterFllFromPll(u)
    BY <1>4 DEF UpdatePll
  <2>2. c < PllExitCn0 /\ t.pllOut + 1 >= PllExitPersistence
    BY <1>4, CarrierConfigAssumption DEF Persist, Carriers
  <2>3. QED
    BY <1>1, <1>3, <2>1, <2>2, EntryTypes DEF EnterFllFromPll, InMode
<1>5. CASE ~(u.pllOut >= PllExitPersistence)
  <2>1. UpdatePll(t, c) = u
    BY <1>5 DEF UpdatePll
  <2>2. u.pllOut \in 0 .. PllExitPersistence - 1
    BY <1>5, CarrierConfigAssumption DEF Persist, Carriers
  <2>3. u \in Carriers /\ u.mode = t.mode
    BY <1>2, <2>2 DEF Carriers
  <2>4. u.pllOut = Persist(t.pllOut, c < PllExitCn0) /\ u.pllAge = Aged(t.pllAge, AdrValidPllAge)
    BY DEF Carriers
  <2>5. QED
    BY <1>1, <2>1, <2>3, <2>4
<1>6. QED
  BY <1>4, <1>5

-----------------------------------------------------------------------------
(* The inductive invariant: what an epoch under way has in common with the *)
(* result published before it.                                             *)

Untimed == ~timed => carrier = ResetCarrier /\ phase = 0 /\ pending = 0

(* A slip of the epoch under way cannot be followed by a new phase lock:   *)
(* the epoch's C/N0 is below the level the PLL is left at.                 *)
SlipHeld == slipped => carrier.mode # "PLL" /\ cn0 < PllExitCn0

ExitCount == carrier.mode = "PLL" => carrier.pllOut = weakRun /\ weakRun < PllExitPersistence

(* The epoch under way is ahead of the published segment by its own slip.  *)
PhaseAhead == phase = out.phase + (IF slipped /\ pending > 0 THEN 1 ELSE 0)

AdrPublished == pending = 0 => (out.adr <=> AdrValid(carrier))

AdrHeld == pending > 0 /\ out.adr => slipped \/ AdrValid(carrier)

IInv == TypeOK /\ Untimed /\ SlipHeld /\ ExitCount /\ PhaseAhead /\ AdrPublished /\ AdrHeld

LEMMA PublishedType ==
  ASSUME NEW t \in Carriers, NEW p \in Nat,
         NEW slip \in BOOLEAN, NEW changed \in BOOLEAN, NEW fresh \in BOOLEAN
  PROVE  Published(t, p, slip, changed, fresh) \in Results
<1>1. AdrValid(t) \in BOOLEAN /\ DopplerValid(t) \in BOOLEAN
  BY Zenon DEF AdrValid, DopplerValid
<1>2. t.mode \in Modes /\ t.segment \in Nat
  BY DEF Carriers
<1>3. QED
  BY <1>1, <1>2 DEF Published, Results

LEMMA ResetType == ResetCarrier \in Carriers /\ ResetCarrier.mode = "Unlocked"
<1>1. 0 \in 0 .. DopplerValidAge
  BY CarrierConfigAssumption
<1>2. "Unlocked" \in Modes
  BY DEF Modes
<1>3. FALSE \in BOOLEAN
  OBVIOUS
<1>4. QED
  BY <1>1, <1>2, <1>3, InModeType DEF ResetCarrier, InMode

(* The result without a carrier lock reports no carrier phase and no slip. *)
LEMMA UnlockedResultFacts ==
  ASSUME NEW p \in Nat
  PROVE  /\ UnlockedResult(ResetCarrier, p) \in Results
         /\ UnlockedResult(ResetCarrier, p).phase = p
         /\ UnlockedResult(ResetCarrier, p).adr = FALSE
         /\ UnlockedResult(ResetCarrier, p).slip = FALSE
<1> DEFINE t == [ResetCarrier EXCEPT !.segment = ResetCarrier.segment]
<1>1. t \in Carriers /\ t.mode = "Unlocked"
  BY ResetType DEF Carriers
<1>2. FALSE \in BOOLEAN
  OBVIOUS
<1>3. UnlockedResult(ResetCarrier, p) = Published(t, p, FALSE, FALSE, FALSE)
  BY DEF UnlockedResult
<1>4. Published(t, p, FALSE, FALSE, FALSE) \in Results
  BY <1>1, <1>2, PublishedType
<1>5. AdrValid(t) = FALSE
  BY <1>1 DEF AdrValid
<1>6. QED
  BY <1>3, <1>4, <1>5 DEF Published

LEMMA InitIInv == Init => IInv
<1> SUFFICES ASSUME Init PROVE IInv
  OBVIOUS
<1>1. out \in Results /\ out.phase = 0 /\ out.adr = FALSE
  BY UnlockedResultFacts DEF Init
<1>2. TypeOK
  <2>1. 0 \in 0 .. PllExitPersistence
    BY CarrierConfigAssumption
  <2>2. carrier \in Carriers
    BY ResetType DEF Init
  <2>3. QED
    BY <1>1, <2>1, <2>2 DEF Init, TypeOK
<1>3. ~AdrValid(carrier)
  BY ResetType DEF Init, AdrValid
<1>4. QED
  BY <1>1, <1>2, <1>3, ResetType
     DEF Init, IInv, Untimed, SlipHeld, ExitCount, PhaseAhead, AdrPublished, AdrHeld

(* The losses and beginnings of an epoch, the integrations aside. *)
LEMMA LoseCodeIInv == IInv /\ LoseCode => IInv'
<1> SUFFICES ASSUME IInv, LoseCode PROVE IInv'
  OBVIOUS
<1>1. out' \in Results /\ out'.phase = 0 /\ out'.adr = FALSE
  BY UnlockedResultFacts DEF LoseCode
<1>2. TypeOK'
  <2>1. 0 \in 0 .. PllExitPersistence
    BY CarrierConfigAssumption
  <2>2. carrier' \in Carriers
    BY ResetType DEF LoseCode
  <2>3. QED
    BY <1>1, <2>1, <2>2 DEF IInv, LoseCode, TypeOK
<1>3. ~AdrValid(carrier')
  BY ResetType DEF LoseCode, AdrValid
<1>4. QED
  BY <1>1, <1>2, <1>3, ResetType
     DEF LoseCode, IInv, Untimed, SlipHeld, ExitCount, PhaseAhead, AdrPublished, AdrHeld

LEMMA StartTimeIInv == IInv /\ StartTime => IInv'
<1> SUFFICES ASSUME IInv, StartTime PROVE IInv'
  OBVIOUS
<1>1. carrier = ResetCarrier /\ phase = 0 /\ pending = 0
  BY DEF IInv, StartTime, Untimed
<1>2. out' \in Results /\ out'.phase = 0 /\ out'.adr = FALSE
  BY <1>1, UnlockedResultFacts DEF StartTime
<1>3. TypeOK'
  BY <1>2 DEF IInv, StartTime, TypeOK
<1>4. ~AdrValid(carrier')
  BY <1>1, ResetType DEF StartTime, AdrValid
<1>5. QED
  BY <1>1, <1>2, <1>3, <1>4
     DEF StartTime, IInv, Untimed, SlipHeld, ExitCount, PhaseAhead, AdrPublished, AdrHeld

LEMMA BeginEpochIInv ==
  ASSUME NEW c \in Cn0Values, NEW n \in EpochSteps
  PROVE  IInv /\ BeginEpoch(c, n) => IInv'
<1> SUFFICES ASSUME IInv, BeginEpoch(c, n) PROVE IInv'
  OBVIOUS
<1>1. n \in Nat /\ n > 0
  BY RuntimeAssumption
<1>2. TypeOK'
  BY <1>1 DEF IInv, BeginEpoch, TypeOK
<1>3. AdrHeld' /\ AdrPublished'
  BY <1>1 DEF IInv, BeginEpoch, AdrPublished, AdrHeld, AdrValid
<1>4. PhaseAhead'
  BY <1>1 DEF IInv, BeginEpoch, PhaseAhead, TypeOK
<1>5. QED
  BY <1>2, <1>3, <1>4 DEF IInv, BeginEpoch, Untimed, SlipHeld, ExitCount

(* One integration: the C/N0 stays, the core makes one update, and a phase *)
(* lock is lost at most once in an epoch.                                  *)
LEMMA IntegrateFacts ==
  ASSUME IInv, Integrate
  PROVE  /\ carrier \in Carriers /\ cn0 \in Int
         /\ carrier' = UpdateCarrier(carrier, cn0)
         /\ carrier' \in Carriers
         /\ carrier.mode # "PLL" /\ carrier'.mode = "PLL" =>
              cn0 >= PllEnterCn0 /\ carrier'.pllOut = 0 /\ carrier'.pllAge = 0
         /\ carrier.mode = "PLL" /\ carrier'.mode # "PLL" =>
              cn0 < PllExitCn0 /\ carrier.pllOut + 1 >= PllExitPersistence
         /\ carrier.mode = "PLL" /\ carrier'.mode = "PLL" =>
              /\ carrier'.pllOut = Persist(carrier.pllOut, cn0 < PllExitCn0)
              /\ carrier'.pllAge = Aged(carrier.pllAge, AdrValidPllAge)
<1>1. carrier \in Carriers /\ cn0 \in Int
  BY RuntimeAssumption DEF IInv, TypeOK
<1>2. carrier' = UpdateCarrier(carrier, cn0)
  BY DEF Integrate
<1>3. CASE carrier.mode = "Unlocked"
  BY <1>1, <1>2, <1>3, UnlockedStep
<1>4. CASE carrier.mode = "FLL"
  BY <1>1, <1>2, <1>4, FllStep
<1>5. CASE carrier.mode = "PLL"
  BY <1>1, <1>2, <1>5, PllStep
<1>6. carrier.mode \in Modes
  BY <1>1 DEF Carriers
<1>7. QED
  BY <1>3, <1>4, <1>5, <1>6 DEF Modes

(* A valid carrier phase stays valid as long as the phase lock holds. *)
LEMMA AdrKept ==
  ASSUME IInv, Integrate, AdrValid(carrier), carrier'.mode = "PLL"
  PROVE  AdrValid(carrier')
<1>1. carrier.pllAge \in 0 .. AdrValidPllAge /\ carrier.pllAge >= AdrValidPllAge
  BY IntegrateFacts DEF AdrValid, Carriers
<1>2. carrier'.pllAge = Aged(carrier.pllAge, AdrValidPllAge)
  BY IntegrateFacts DEF AdrValid
<1>3. QED
  BY <1>1, <1>2, CarrierConfigAssumption DEF AdrValid, Aged

(* The epoch's slip and its phase segment move together. *)
LEMMA SlipMoves ==
  ASSUME IInv, Integrate
  PROVE  /\ slipped' \in BOOLEAN /\ phase' \in Nat
         /\ phase' = out.phase + (IF slipped' THEN 1 ELSE 0)
         /\ slipped' => carrier'.mode # "PLL" /\ cn0' < PllExitCn0
         /\ ~slipped' => ~slipped
         /\ ~slipped' /\ carrier.mode = "PLL" => carrier'.mode = "PLL"
<1>1. /\ slipped \in BOOLEAN /\ phase \in Nat /\ out.phase \in Nat
      /\ pending > 0
      /\ phase = out.phase + (IF slipped THEN 1 ELSE 0)
      /\ slipped => carrier.mode # "PLL" /\ cn0 < PllExitCn0
  BY DEF IInv, TypeOK, Results, Integrate, PhaseAhead, SlipHeld
<1>2. /\ slipped' = SlippedBy(carrier, carrier')
      /\ phase' = PhaseAfter(phase, carrier, carrier')
      /\ cn0' = cn0
  BY DEF Integrate
<1>3. PllExitCn0 < PllEnterCn0 /\ PllExitCn0 \in Int /\ PllEnterCn0 \in Int
  BY CarrierConfigAssumption
<1>4. CASE slipped
  <2>1. carrier'.mode # "PLL"
    BY <1>1, <1>3, <1>4, IntegrateFacts
  <2>2. ~LeavesPll(carrier, carrier')
    BY <1>1, <1>4 DEF LeavesPll
  <2>3. slipped' = TRUE /\ phase' = phase
    BY <1>2, <1>4, <2>2 DEF SlippedBy, PhaseAfter
  <2>4. QED
    BY <1>1, <1>2, <1>4, <2>1, <2>3
<1>5. CASE ~slipped /\ LeavesPll(carrier, carrier')
  <2>1. slipped' = TRUE /\ phase' = phase + 1
    BY <1>2, <1>5 DEF SlippedBy, PhaseAfter
  <2>2. cn0 < PllExitCn0 /\ carrier'.mode # "PLL"
    BY <1>5, IntegrateFacts DEF LeavesPll
  <2>3. QED
    BY <1>1, <1>2, <1>5, <2>1, <2>2
<1>6. CASE ~slipped /\ ~LeavesPll(carrier, carrier')
  <2>1. slipped' = FALSE /\ phase' = phase
    BY <1>2, <1>6 DEF SlippedBy, PhaseAfter, LeavesPll
  <2>2. QED
    BY <1>1, <1>6, <2>1 DEF LeavesPll
<1>7. QED
  BY <1>4, <1>5, <1>6

(* The last integration publishes the epoch, the others leave `out`. *)
LEMMA Publishes ==
  ASSUME IInv, Integrate
  PROVE  /\ out' \in Results
         /\ pending = 1 => /\ out'.phase = phase'
                           /\ out'.slip = slipped'
                           /\ out'.adr <=> AdrValid(carrier')
         /\ pending # 1 => out' = out
<1> DEFINE changed == carrier.mode # carrier'.mode
           fresh   == carrier.mode = "Unlocked" /\ carrier'.mode = "FLL"
<1>1. carrier' \in Carriers /\ phase' \in Nat /\ slipped' \in BOOLEAN
  BY IntegrateFacts, SlipMoves
<1>2. changed \in BOOLEAN /\ fresh \in BOOLEAN
  BY Zenon
<1>3. out' = IF pending = 1 THEN Published(carrier', phase', slipped', changed, fresh) ELSE out
  BY Zenon DEF Integrate
<1>4. Published(carrier', phase', slipped', changed, fresh) \in Results
  BY <1>1, <1>2, PublishedType
<1>5. out \in Results
  BY DEF IInv, TypeOK
<1>6. QED
  BY <1>3, <1>4, <1>5 DEF Published

LEMMA IntegrateIInv == IInv /\ Integrate => IInv'
<1> SUFFICES ASSUME IInv, Integrate PROVE IInv'
  OBVIOUS
<1>1. /\ weakRun \in 0 .. PllExitPersistence /\ pending \in Nat /\ pending > 0
      /\ timed /\ UNCHANGED <<timed, cn0>> /\ pending' = pending - 1
      /\ weakRun' = IF cn0 < PllExitCn0 THEN Aged(weakRun, PllExitPersistence) ELSE 0
  BY DEF IInv, TypeOK, Untimed, Integrate
<1>2. weakRun' \in 0 .. PllExitPersistence
  BY <1>1, AgedType, CarrierConfigAssumption
<1>3. TypeOK'
  BY <1>1, <1>2, IntegrateFacts, SlipMoves, Publishes DEF IInv, TypeOK
<1>4. Untimed'
  BY <1>1 DEF Untimed
<1>5. SlipHeld'
  BY SlipMoves DEF SlipHeld
<1>6. ExitCount'
  <2> SUFFICES ASSUME carrier'.mode = "PLL"
               PROVE  carrier'.pllOut = weakRun' /\ weakRun' < PllExitPersistence
    BY DEF ExitCount
  <2>1. CASE carrier.mode # "PLL"
    BY <1>1, <2>1, IntegrateFacts, CarrierConfigAssumption
  <2>2. CASE carrier.mode = "PLL"
    <3>1. carrier.pllOut = weakRun /\ weakRun < PllExitPersistence
      BY <2>2 DEF IInv, ExitCount
    <3>2. carrier'.pllOut = Persist(carrier.pllOut, cn0 < PllExitCn0)
      BY <2>2, IntegrateFacts
    <3>3. carrier'.pllOut = weakRun'
      BY <1>1, <3>1, <3>2, CarrierConfigAssumption DEF Persist, Aged
    <3>4. carrier'.pllOut \in 0 .. PllExitPersistence - 1
      BY IntegrateFacts DEF Carriers
    <3>5. QED
      BY <3>3, <3>4, CarrierConfigAssumption
  <2>3. QED
    BY <2>1, <2>2
<1>7. PhaseAhead'
  BY <1>1, SlipMoves, Publishes DEF PhaseAhead, Results
<1>8. AdrPublished'
  BY <1>1, Publishes DEF AdrPublished, AdrValid
<1>9. AdrHeld'
  <2> SUFFICES ASSUME pending' > 0, out'.adr, ~slipped'
               PROVE  AdrValid(carrier')
    BY DEF AdrHeld, AdrValid
  <2>1. out.adr /\ ~slipped
    <3>1. out' = out
      BY <1>1, Publishes
    <3>2. QED
      BY <3>1, SlipMoves
  <2>2. AdrValid(carrier)
    BY <1>1, <2>1 DEF IInv, AdrHeld
  <2>3. carrier'.mode = "PLL"
    BY <2>2, SlipMoves DEF AdrValid
  <2>4. QED
    BY <2>2, <2>3, AdrKept
<1>10. QED
  BY <1>3, <1>4, <1>5, <1>6, <1>7, <1>8, <1>9 DEF IInv

LEMMA NextIInv == IInv /\ [Next]_vars => IInv'
<1> SUFFICES ASSUME IInv, [Next]_vars PROVE IInv'
  OBVIOUS
<1>1. CASE LoseCode
  BY <1>1, LoseCodeIInv
<1>2. CASE StartTime
  BY <1>2, StartTimeIInv
<1>3. ASSUME NEW c \in Cn0Values, NEW n \in EpochSteps, BeginEpoch(c, n)
      PROVE  IInv'
  BY <1>3, BeginEpochIInv
<1>4. CASE Integrate
  BY <1>4, IntegrateIInv
<1>5. CASE UNCHANGED vars
  BY <1>5 DEF vars, IInv, TypeOK, Untimed, SlipHeld, ExitCount, PhaseAhead,
              AdrPublished, AdrHeld, AdrValid
<1>6. QED
  BY <1>1, <1>2, <1>3, <1>4, <1>5 DEF Next

LEMMA InductiveInvariant == Spec => []IInv
BY InitIInv, NextIInv, PTL DEF Spec

-----------------------------------------------------------------------------
\* The runtime's variables keep their types, and no persistence counter ever
\* holds the duration that completes it, in every execution.
THEOREM TypeCorrect == Spec => []TypeOK
<1>1. IInv => TypeOK
  BY DEF IInv
<1>2. QED
  BY <1>1, InductiveInvariant, PTL

\* The phase lock never outlives PllExitPersistence weak integrations in a row,
\* and is given up after exactly so many: a shorter fade leaves it alone.
THEOREM LeavesPllOnTime == Spec => PllLeftOnTime
<1> DEFINE Late == carrier'.mode = "PLL" => weakRun' < PllExitPersistence
           Early == carrier.mode = "PLL" /\ carrier'.mode = "FLL" => weakRun' >= PllExitPersistence
<1>1. IInv' => Late
  BY DEF IInv, ExitCount
<1>2. IInv /\ [Next]_vars => [Early]_vars
  <2> SUFFICES ASSUME IInv, Next, carrier.mode = "PLL", carrier'.mode = "FLL"
               PROVE  weakRun' >= PllExitPersistence
    OBVIOUS
  <2>1. CASE LoseCode
    BY <2>1, ResetType DEF LoseCode
  <2>2. CASE StartTime
    BY <2>2 DEF StartTime
  <2>3. ASSUME NEW c \in Cn0Values, NEW n \in EpochSteps, BeginEpoch(c, n)
        PROVE  weakRun' >= PllExitPersistence
    BY <2>3 DEF BeginEpoch
  <2>4. CASE Integrate
    <3>1. cn0 < PllExitCn0 /\ carrier.pllOut + 1 >= PllExitPersistence
      BY <2>4, IntegrateFacts
    <3>2. carrier.pllOut = weakRun /\ weakRun \in 0 .. PllExitPersistence
      BY DEF IInv, TypeOK, ExitCount
    <3>3. weakRun' = Aged(weakRun, PllExitPersistence)
      BY <2>4, <3>1 DEF Integrate
    <3>4. QED
      BY <3>1, <3>2, <3>3, CarrierConfigAssumption DEF Aged
  <2>5. QED
    BY <2>1, <2>2, <2>3, <2>4 DEF Next
<1>3. QED
  BY <1>1, <1>2, InductiveInvariant, PTL DEF Spec, PllLeftOnTime

\* A slip is reported by the very epoch whose phase segment it opens, at
\* whatever of its integrations the phase lock was lost.
THEOREM ReportsEverySlip == Spec => SlipsReported
<1> DEFINE Reporting == /\ out'.phase > out.phase => out'.slip
                        /\ out'.slip /\ ~out.slip => out'.phase = out.phase + 1
<1>1. IInv /\ [Next]_vars => [Reporting]_vars
  <2> SUFFICES ASSUME IInv, Next
               PROVE  Reporting
    OBVIOUS
  <2>1. out.phase \in Nat
    BY DEF IInv, TypeOK, Results
  <2>2. CASE LoseCode
    <3>1. out'.phase = 0 /\ out'.slip = FALSE
      BY <2>2, UnlockedResultFacts DEF LoseCode
    <3>2. QED
      BY <2>1, <3>1
  <2>3. CASE StartTime
    <3>1. carrier = ResetCarrier /\ phase = 0
      BY <2>3 DEF IInv, StartTime, Untimed
    <3>2. out'.phase = 0 /\ out'.slip = FALSE
      BY <2>3, <3>1, UnlockedResultFacts DEF StartTime
    <3>3. QED
      BY <2>1, <3>2
  <2>4. ASSUME NEW c \in Cn0Values, NEW n \in EpochSteps, BeginEpoch(c, n)
        PROVE  Reporting
    BY <2>1, <2>4 DEF BeginEpoch
  <2>5. CASE Integrate
    <3>1. CASE pending = 1
      <4>1. /\ out'.phase = out.phase + (IF slipped' THEN 1 ELSE 0)
            /\ out'.slip = slipped'
        BY <2>5, <3>1, Publishes, SlipMoves
      <4>2. QED
        BY <2>1, <4>1
    <3>2. CASE pending # 1
      BY <2>1, <2>5, <3>2, Publishes
    <3>3. QED
      BY <3>1, <3>2
  <2>6. QED
    BY <2>2, <2>3, <2>4, <2>5 DEF Next
<1>2. QED
  BY <1>1, InductiveInvariant, PTL DEF Spec, SlipsReported

-----------------------------------------------------------------------------
(* Every published epoch is a step of CarrierPhase or leaves what it       *)
(* specifies unchanged.                                                    *)
LEMMA IntegrateReports == IInv /\ Integrate => [Reported!Next]_(Reported!vars)
<1> SUFFICES ASSUME IInv, Integrate
             PROVE  Reported!Next \/ UNCHANGED Reported!vars
  OBVIOUS
<1> USE DEF Reported!Next, Reported!Confirm, Reported!Slip, Reported!vars
<1>1. timed = TRUE /\ timed' = timed
  <2>1. pending > 0 /\ timed' = timed
    BY DEF Integrate
  <2>2. timed \in BOOLEAN /\ (~timed => pending = 0)
    BY DEF IInv, TypeOK, Untimed
  <2>3. QED
    BY <2>1, <2>2
<1>2. out.adr \in BOOLEAN /\ out'.adr \in BOOLEAN /\ out.phase \in Nat
  BY Publishes DEF IInv, TypeOK, Results
<1>3. CASE pending # 1
  BY <1>1, <1>3, Publishes
<1>4. CASE pending = 1 /\ slipped'
  <2>1. out'.phase = out.phase + 1
    BY <1>2, <1>4, SlipMoves, Publishes
  <2>2. out'.adr = FALSE
    BY <1>2, <1>4, SlipMoves, Publishes DEF AdrValid
  <2>3. QED
    BY <1>1, <2>1, <2>2
<1>5. CASE pending = 1 /\ ~slipped'
  <2>1. out'.phase = out.phase
    BY <1>2, <1>5, SlipMoves, Publishes
  <2>2. ASSUME out.adr
        PROVE  out'.adr
    <3>1. ~slipped
      BY <1>5, SlipMoves
    <3>2. AdrValid(carrier)
      BY <1>5, <2>2, <3>1 DEF IInv, AdrHeld
    <3>3. carrier'.mode = "PLL"
      BY <1>5, <3>2, SlipMoves DEF AdrValid
    <3>4. AdrValid(carrier')
      BY <3>2, <3>3, AdrKept
    <3>5. QED
      BY <1>5, <3>4, Publishes
  <2>3. QED
    BY <1>1, <1>2, <2>1, <2>2
<1>6. QED
  BY <1>3, <1>4, <1>5

LEMMA NextReports == IInv /\ [Next]_vars => [Reported!Next]_(Reported!vars)
<1> SUFFICES ASSUME IInv, [Next]_vars
             PROVE  Reported!Next \/ UNCHANGED Reported!vars
  OBVIOUS
<1> USE DEF Reported!Next, Reported!Acquire, Reported!Lose, Reported!vars
<1>1. CASE LoseCode
  <2>1. out'.phase = 0 /\ out'.adr = FALSE
    BY <1>1, UnlockedResultFacts DEF LoseCode
  <2>2. timed' = FALSE
    BY <1>1 DEF LoseCode
  <2>3. QED
    BY <2>1, <2>2
<1>2. CASE StartTime
  <2>1. ~timed /\ timed' = TRUE
    BY <1>2 DEF StartTime
  <2>2. carrier = ResetCarrier /\ phase = 0
    BY <2>1 DEF IInv, Untimed
  <2>3. out'.phase = 0 /\ out'.adr = FALSE
    BY <1>2, <2>2, UnlockedResultFacts DEF StartTime
  <2>4. out.phase = 0 /\ out.adr = FALSE
    <3>1. pending = 0 /\ out.phase \in Nat /\ out.adr \in BOOLEAN
      BY <2>1 DEF IInv, Untimed, TypeOK, Results
    <3>2. AdrValid(carrier) = FALSE
      BY <2>2, ResetType DEF AdrValid
    <3>3. QED
      BY <2>2, <3>1, <3>2 DEF IInv, PhaseAhead, AdrPublished
  <2>5. QED
    BY <2>1, <2>3, <2>4
<1>3. ASSUME NEW c \in Cn0Values, NEW n \in EpochSteps, BeginEpoch(c, n)
      PROVE  Reported!Next \/ UNCHANGED Reported!vars
  BY <1>3 DEF BeginEpoch
<1>4. CASE Integrate
  BY <1>4, IntegrateReports
<1>5. CASE UNCHANGED vars
  BY <1>5 DEF vars
<1>6. QED
  BY <1>1, <1>2, <1>3, <1>4, <1>5 DEF Next

\* The runtime implements the promise of CarrierPhase: a carrier phase once
\* valid ends only in a reported slip that opens the next segment, or with
\* the code lock, and valid phases of one segment are of one phase lock.
THEOREM ImplementsCarrierPhase == Spec => ReportedPhaseIsContinuous
<1>1. Init => Reported!Init
  BY UnlockedResultFacts DEF Init, Reported!Init
<1>2. QED
  BY <1>1, NextReports, InductiveInvariant, PTL
     DEF Spec, ReportedPhaseIsContinuous, Reported!Spec
===============================================================================

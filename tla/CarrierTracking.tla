---------------------------- MODULE CarrierTracking ----------------------------
(***************************************************************************)
(* The carrier-tracking core: one signal's carrier loop, unlocked, in FLL  *)
(* or in PLL, driven by the effective C/N0 of each coherent integration.   *)
(*                                                                         *)
(* Durations count integrations: every update advances time by one.  An    *)
(* age is only ever compared with one configured duration, so it stops at  *)
(* that duration instead of growing for ever.  The jitter, the filtered    *)
(* tracking error and the random sample are left out: no decision reads    *)
(* them.                                                                   *)
(***************************************************************************)
EXTENDS Integers

CONSTANTS
  FllExitCn0, FllEnterCn0, PllExitCn0, PllEnterCn0,
  FllEnterPersistence, FllExitPersistence,
  PllEnterPersistence, PllExitPersistence,
  FllPullInDuration, DopplerValidAge, AdrValidPllAge

(* validate_carrier_tracking_config: hysteresis in both loops, and every   *)
(* duration positive.                                                      *)
ASSUME CarrierConfigAssumption ==
  /\ FllExitCn0 \in Int /\ FllEnterCn0 \in Int
  /\ PllExitCn0 \in Int /\ PllEnterCn0 \in Int
  /\ FllExitCn0 < FllEnterCn0 /\ FllEnterCn0 < PllExitCn0 /\ PllExitCn0 < PllEnterCn0
  /\ FllEnterPersistence \in Nat \ {0} /\ FllExitPersistence \in Nat \ {0}
  /\ PllEnterPersistence \in Nat \ {0} /\ PllExitPersistence \in Nat \ {0}
  /\ FllPullInDuration \in Nat \ {0}
  /\ DopplerValidAge \in Nat \ {0} /\ AdrValidPllAge \in Nat \ {0}

Modes == {"Unlocked", "FLL", "PLL"}

Carriers ==
  [mode : Modes, pullIn : BOOLEAN, segment : Nat,
   modeAge : 0 .. FllPullInDuration, lockAge : 0 .. DopplerValidAge,
   pllAge  : 0 .. AdrValidPllAge,
   fllIn : 0 .. FllEnterPersistence - 1, fllOut : 0 .. FllExitPersistence - 1,
   pllIn : 0 .. PllEnterPersistence - 1, pllOut : 0 .. PllExitPersistence - 1]

(* A loop that has just entered a mode: every persistence counter and the  *)
(* mode's own ages start over.                                             *)
InMode(mode, pullIn, lockAge, segment) ==
  [mode |-> mode, pullIn |-> pullIn, segment |-> segment,
   modeAge |-> 0, lockAge |-> lockAge, pllAge |-> 0,
   fllIn |-> 0, fllOut |-> 0, pllIn |-> 0, pllOut |-> 0]

(* reset_carrier_tracking_state *)
ResetCarrier == InMode("Unlocked", FALSE, 0, 0)

(* Only a fresh acquisition opens a new carrier segment, and a fallback    *)
(* from PLL keeps the age of the carrier lock.                             *)
EnterUnlocked(t)        == InMode("Unlocked", FALSE, 0, t.segment)
EnterFllFromUnlocked(t) == InMode("FLL", TRUE, 0, t.segment + 1)
EnterFllFromPll(t)      == InMode("FLL", FALSE, t.lockAge, t.segment)
EnterPll(t)             == InMode("PLL", FALSE, t.lockAge, t.segment)

Aged(age, limit) == IF age < limit THEN age + 1 ELSE age

(* A persistence counter counts consecutive samples: one sample on the     *)
(* other side of its threshold restarts it.                                *)
PersistMutant(count, holds) == IF holds THEN count + 1 ELSE count
Persist(count, holds) == IF holds THEN count + 1 ELSE 0

UpdateUnlockedMutant(t, cn0) ==
  LET u == [t EXCEPT !.fllIn = Persist(@, cn0 >= FllEnterCn0)]
  IN  IF u.fllIn > FllEnterPersistence THEN EnterFllFromUnlocked(u) ELSE u
UpdateUnlocked(t, cn0) ==
  LET u == [t EXCEPT !.fllIn = Persist(@, cn0 >= FllEnterCn0)]
  IN  IF u.fllIn >= FllEnterPersistence THEN EnterFllFromUnlocked(u) ELSE u

UpdateFllMutant(t, cn0) ==
  LET age == Aged(t.modeAge, FllPullInDuration)
      u == [t EXCEPT !.modeAge = age,
                     !.lockAge = Aged(@, DopplerValidAge),
                     !.pullIn  = @ /\ age < FllPullInDuration,
                     !.fllOut  = Persist(@, cn0 < FllExitCn0),
                     !.pllIn   = Persist(@, cn0 > PllEnterCn0)]
  IN  IF u.fllOut >= FllExitPersistence THEN EnterUnlocked(u)
      ELSE IF u.pllIn >= PllEnterPersistence THEN EnterPll(u)
      ELSE u
UpdateFll(t, cn0) ==
  LET age == Aged(t.modeAge, FllPullInDuration)
      u == [t EXCEPT !.modeAge = age,
                     !.lockAge = Aged(@, DopplerValidAge),
                     !.pullIn  = @ /\ age < FllPullInDuration,
                     !.fllOut  = Persist(@, cn0 < FllExitCn0),
                     !.pllIn   = Persist(@, cn0 >= PllEnterCn0)]
  IN  IF u.fllOut >= FllExitPersistence THEN EnterUnlocked(u)
      ELSE IF u.pllIn >= PllEnterPersistence THEN EnterPll(u)
      ELSE u

UpdatePll(t, cn0) ==
  LET u == [t EXCEPT !.modeAge = Aged(@, FllPullInDuration),
                     !.lockAge = Aged(@, DopplerValidAge),
                     !.pllAge  = Aged(@, AdrValidPllAge),
                     !.pllOut  = Persist(@, cn0 < PllExitCn0)]
  IN  IF u.pllOut >= PllExitPersistence THEN EnterFllFromPll(u) ELSE u

(* update_carrier_tracking for an available signal. *)
UpdateCarrier(t, cn0) ==
  CASE t.mode = "Unlocked" -> UpdateUnlocked(t, cn0)
    [] t.mode = "FLL"      -> UpdateFll(t, cn0)
    [] t.mode = "PLL"      -> UpdatePll(t, cn0)

DopplerValid(t) == t.mode # "Unlocked" /\ t.lockAge >= DopplerValidAge
AdrValid(t)     == t.mode = "PLL" /\ t.pllAge >= AdrValidPllAge
===============================================================================

------------------------ MODULE CarrierTrackingRuntime ------------------------
(***************************************************************************)
(* The carrier runtime of one signal: it splits the time since its last    *)
(* update into coherent integrations, runs the core on each with the C/N0  *)
(* of the epoch, and numbers the carrier-phase segments.                   *)
(*                                                                         *)
(* One integration is one step, so that an epoch is BeginEpoch followed by *)
(* its integrations; the result is published by the last one.  The cycle   *)
(* offset added to the reported ambiguity is a function of the phase       *)
(* segment and is represented by it.                                       *)
(***************************************************************************)
EXTENDS CarrierTracking

CONSTANTS
  Cn0Values,       (* effective C/N0 levels                                *)
  EpochSteps,      (* integrations between two updates: more than one at   *)
                   (* rates below 50 Hz, several epochs' worth after a gap *)
  MaxSegments      (* bounds both segment counters                         *)

ASSUME RuntimeAssumption ==
  /\ Cn0Values \subseteq Int
  /\ EpochSteps \subseteq Nat \ {0}
  /\ MaxSegments \in Nat \ {0}

VARIABLES
  carrier,    (* the core's state                                          *)
  phase,      (* phase_segment_id                                          *)
  timed,      (* time_initialized                                          *)
  cn0,        (* C/N0 of the epoch under way                               *)
  pending,    (* integrations left in the epoch under way                  *)
  slipped,    (* cycle_slip_event of the epoch under way                   *)
  out,        (* the last published result                                 *)
  weakRun     (* history: integrations in a row below the PLL exit level   *)

vars == <<carrier, phase, timed, cn0, pending, slipped, out, weakRun>>

Results ==
  [adr : BOOLEAN, doppler : BOOLEAN, mode : Modes, segment : Nat, phase : Nat,
   slip : BOOLEAN, changed : BOOLEAN, fresh : BOOLEAN]

Published(t, p, slip, changed, fresh) ==
  [adr |-> AdrValid(t), doppler |-> DopplerValid(t), mode |-> t.mode,
   segment |-> t.segment, phase |-> p, slip |-> slip, changed |-> changed, fresh |-> fresh]

(* unlocked_result *)
UnlockedResult(t, p) == Published([ResetCarrier EXCEPT !.segment = t.segment], p, FALSE, FALSE, FALSE)

Init ==
  /\ carrier = ResetCarrier
  /\ phase = 0
  /\ timed = FALSE
  /\ cn0 \in Cn0Values
  /\ pending = 0
  /\ slipped = FALSE
  /\ out = UnlockedResult(ResetCarrier, 0)
  /\ weakRun = 0

(* Without code tracking everything but the random stream starts over.     *)
LoseCode ==
  /\ pending = 0
  /\ carrier' = ResetCarrier
  /\ phase' = 0
  /\ timed' = FALSE
  /\ out' = UnlockedResult(ResetCarrier, 0)
  /\ slipped' = FALSE
  /\ weakRun' = 0
  /\ UNCHANGED <<cn0, pending>>

(* The first epoch with code tracking only sets the time of the last update. *)
StartTime ==
  /\ pending = 0
  /\ ~timed
  /\ timed' = TRUE
  /\ out' = UnlockedResult(carrier, phase)
  /\ UNCHANGED <<carrier, phase, cn0, pending, slipped, weakRun>>

(* The bound: no carrier is lost, and no phase lock, once a counter is at   *)
(* MaxSegments.                                                             *)
WithinBound(c) ==
  /\ carrier.segment >= MaxSegments => c >= FllExitCn0
  /\ phase >= MaxSegments => c >= PllExitCn0

BeginEpoch(c, n) ==
  /\ pending = 0
  /\ timed
  /\ WithinBound(c)
  /\ cn0' = c
  /\ pending' = n
  /\ slipped' = FALSE
  /\ UNCHANGED <<carrier, phase, timed, out, weakRun>>

(* A phase lock lost in this integration. *)
LeavesPll(t, u) == t.mode = "PLL" /\ u.mode # "PLL"

SlippedByMutant(t, u) == LeavesPll(t, u)
SlippedBy(t, u) == slipped \/ LeavesPll(t, u)

PhaseAfterMutant(p, t, u) == IF t.mode = "FLL" /\ u.mode = "Unlocked" THEN p + 1 ELSE p
PhaseAfter(p, t, u) == IF LeavesPll(t, u) THEN p + 1 ELSE p

Integrate ==
  LET next == UpdateCarrier(carrier, cn0) IN
  /\ pending > 0
  /\ carrier' = next
  /\ phase' = PhaseAfter(phase, carrier, next)
  /\ slipped' = SlippedBy(carrier, next)
  /\ pending' = pending - 1
  /\ weakRun' = IF cn0 < PllExitCn0 THEN Aged(weakRun, PllExitPersistence) ELSE 0
  /\ out' = IF pending = 1
              THEN Published(next, phase', slipped', carrier.mode # next.mode,
                             carrier.mode = "Unlocked" /\ next.mode = "FLL")
              ELSE out
  /\ UNCHANGED <<timed, cn0>>

Next ==
  \/ LoseCode
  \/ StartTime
  \/ \E c \in Cn0Values, n \in EpochSteps : BeginEpoch(c, n)
  \/ Integrate

Spec == Init /\ [][Next]_vars

(* The epoch loop never stops inside a run. *)
FairSpec == Spec /\ WF_vars(Next)

-----------------------------------------------------------------------------
\* The type of every variable; a persistence counter never holds the duration
\* that completes it, no age exceeds the duration it is compared with.
TypeOK ==
  /\ carrier \in Carriers
  /\ phase \in Nat
  /\ timed \in BOOLEAN
  /\ cn0 \in Cn0Values
  /\ pending \in Nat
  /\ slipped \in BOOLEAN
  /\ out \in Results
  /\ weakRun \in 0 .. PllExitPersistence

\* The PLL is left for the FLL at the very integration that completes
\* PllExitPersistence weak ones in a row: never later, and never sooner,
\* however the weak ones fall across epochs.
PllLeftOnTime ==
  [][/\ carrier'.mode = "PLL" => weakRun' < PllExitPersistence
     /\ carrier.mode = "PLL" /\ carrier'.mode = "FLL" => weakRun' >= PllExitPersistence]_vars

\* Every epoch that changes the phase segment of a tracked code reports a
\* cycle slip, at whatever integration of the epoch the phase lock was lost,
\* and an epoch that reports one changed the segment.
SlipsReported ==
  [][/\ out'.phase > out.phase => out'.slip
     /\ out'.slip /\ ~out.slip => out'.phase = out.phase + 1]_vars

\* What the receiver promises of the reported carrier phase.
Reported == INSTANCE CarrierPhase WITH coded <- timed, usable <- out.adr, segment <- out.phase

ReportedPhaseIsContinuous == Reported!Spec

\* With a lasting code lock at a C/N0 the PLL can be entered at, the reported
\* carrier phase becomes valid and stays so.
StrongSignalLocks ==
  <>[](timed /\ cn0 >= PllEnterCn0) => <>[](out.adr)

\* CARRIER_TRACKING_TRUTH.md: new_carrier_segment is an exact runtime event
\* flag: an epoch whose carrier segment advances reports it.
NewSegmentsReported ==
  [][out'.segment > out.segment => out'.fresh]_vars
===============================================================================

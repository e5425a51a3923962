------------------------------ MODULE CarrierPhase ------------------------------
(***************************************************************************)
(* What the receiver promises about the carrier phase it reports, epoch by *)
(* epoch: phases of one segment belong to one uninterrupted phase lock.    *)
(*                                                                         *)
(*   coded    the code is tracked, so that there may be a carrier to track *)
(*   usable   the epoch reports a valid carrier phase                      *)
(*   segment  the phase segment its ambiguity offset is drawn from         *)
(*                                                                         *)
(* While the code is tracked a usable phase ends only by a cycle slip,     *)
(* which opens the next segment; the segments start over only when the     *)
(* code is lost; and a segment never changes between two usable epochs     *)
(* without an unusable one between them.                                   *)
(***************************************************************************)
EXTENDS Naturals

VARIABLES coded, usable, segment

vars == <<coded, usable, segment>>

Init == coded = FALSE /\ usable = FALSE /\ segment = 0

Acquire == ~coded /\ coded' = TRUE /\ UNCHANGED <<usable, segment>>

Confirm == coded /\ ~usable /\ usable' = TRUE /\ UNCHANGED <<coded, segment>>

Slip == coded /\ usable' = FALSE /\ segment' = segment + 1 /\ UNCHANGED coded

Lose == coded' = FALSE /\ usable' = FALSE /\ segment' = 0

Next == Acquire \/ Confirm \/ Slip \/ Lose

Spec == Init /\ [][Next]_vars
===============================================================================

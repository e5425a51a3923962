--------------------------- MODULE MCCarrierTracking ---------------------------
(***************************************************************************)
(* Instance of CarrierTrackingRuntime for TLC: one C/N0 level in each of   *)
(* the five bands the thresholds 1, 2, 3, 4 delimit.                       *)
(***************************************************************************)
EXTENDS CarrierTrackingRuntime
===============================================================================

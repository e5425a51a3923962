------------------------- MODULE MCReceiverNavigation -------------------------
(***************************************************************************)
(* Instance of ReceiverNavigation for TLC: two carriers of one family, one *)
(* with a frame of two fragments and one with a longer frame of one, and a *)
(* family without a carrier; two records of the first family before the    *)
(* run and two within it; one power or signal cycle inside a run, and a    *)
(* COLD run long enough to collect and to be overtaken by a new record.    *)
(***************************************************************************)
EXTENDS ReceiverNavigation, TLC

CONSTANTS f, g, a, b

MCScenarios ==
  {[kind |-> "TTFF", mode |-> "COLD", on |-> 9, off |-> 2],
   [kind |-> "TTFF", mode |-> "COLD", on |-> 3, off |-> 2],
   [kind |-> "TTFF", mode |-> "WARM", on |-> 5, off |-> 2],
   [kind |-> "REA",  mode |-> "HOT",  on |-> 4, off |-> 3]}

MCTruthSchedule ==
  <<[family |-> f, transmit |-> -3], [family |-> f, transmit |-> -3],
    [family |-> g, transmit |-> 0],  [family |-> Ion, transmit |-> 2],
    [family |-> f, transmit |-> 7],  [family |-> f, transmit |-> 9]>>

MCBroadcast ==
  a :> [family |-> f, cycle |-> 4, offset |-> 0,
        fragments |-> {[slot |-> 0, duration |-> 1], [slot |-> 2, duration |-> 2]}] @@
  b :> [family |-> f, cycle |-> 6, offset |-> -1,
        fragments |-> {[slot |-> 0, duration |-> 6]}]
===============================================================================

-------------------------- MODULE MCReceiverTracking --------------------------
(***************************************************************************)
(* Instance of ReceiverTracking for TLC: one scenario of each kind, cycles *)
(* that are not multiples of the sampling interval.                        *)
(***************************************************************************)
EXTENDS ReceiverTracking, TLC

CONSTANTS s1, s2

MCScenarios ==
  {[kind |-> "KS",   mode |-> "HOT",  on |-> 1, off |-> 1],
   [kind |-> "REA",  mode |-> "HOT",  on |-> 5, off |-> 3],
   [kind |-> "TTFF", mode |-> "WARM", on |-> 5, off |-> 5]}

(* Signals on for one epoch out of two: the outage falls in the startup.   *)
MCShortRea == {[kind |-> "REA", mode |-> "HOT", on |-> 1, off |-> 3]}

Symmetry == Permutations({s1, s2})
===============================================================================

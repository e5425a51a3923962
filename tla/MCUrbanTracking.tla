---------------------------- MODULE MCUrbanTracking ----------------------------
(***************************************************************************)
(* Instance of UrbanTracking for TLC.  The environments hold every         *)
(* relation a root can have to the one being tracked: the same, a small    *)
(* step away, too far, weaker than a farther one, unstable, or gone.       *)
(***************************************************************************)
EXTENDS UrbanTracking

MCScenarios ==
  {[kind |-> "KS",   mode |-> "HOT",  on |-> 1, off |-> 1],
   [kind |-> "REA",  mode |-> "HOT",  on |-> 9, off |-> 3],
   [kind |-> "TTFF", mode |-> "WARM", on |-> 9, off |-> 4]}

R(phase, power, stable) == [phase |-> phase, power |-> power, stable |-> stable]

MCEnvironments ==
  {[roots |-> << >>,                          los |-> FALSE],
   [roots |-> <<R(0, 2, FALSE)>>,             los |-> TRUE],
   [roots |-> <<R(0, 2, TRUE)>>,              los |-> TRUE],
   [roots |-> <<R(2, 2, TRUE)>>,              los |-> FALSE],
   [roots |-> <<R(0, 0, TRUE)>>,              los |-> FALSE],
   [roots |-> <<R(0, 1, TRUE), R(2, 0, FALSE), R(4, 2, TRUE)>>, los |-> TRUE]}
===============================================================================

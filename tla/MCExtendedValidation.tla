------------------------- MODULE MCExtendedValidation -------------------------
(***************************************************************************)
(* Instance of ExtendedValidation for TLC: a receiver that is powered on,  *)
(* and off in its second epoch; buffers and pipes smaller than an epoch's  *)
(* log, so that the simulator has to wait for the captures.                *)
(***************************************************************************)
EXTENDS ExtendedValidation

MCTimeline ==
  <<[events |-> 2, powered |-> TRUE,  startup |-> 1, searching |-> 0, tracked |-> 1, nav |-> 0],
    [events |-> 2, powered |-> FALSE, startup |-> 0, searching |-> 0, tracked |-> 0, nav |-> 0]>>
===============================================================================

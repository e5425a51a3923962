-------------------------- MODULE MCBatchGeneration --------------------------
(* Instance of BatchGeneration for TLC: batches of one or two realizations *)
(* of two scenarios, three invocations, inputs that change in between.     *)
EXTENDS BatchGeneration

MCScenarios == <<"KS", "REA">>
===============================================================================

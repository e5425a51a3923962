--------------------------- MODULE SignalDefinitions ---------------------------
(***************************************************************************)
(* The table of signals in signal_definitions.cpp: the system, the message *)
(* family and the OEM7 signal type of each, and the lookups in it.  The    *)
(* frequencies and the correlation profiles are left out.                  *)
(***************************************************************************)
EXTENDS Integers, FiniteSets, Sequences

Signal(system, family, type) == [system |-> system, family |-> family, type |-> type]

SignalTable ==
  [GpsL1Ca |-> Signal("G", "Lnav", 0), GpsL1C |-> Signal("G", "Cnav2", 16), GpsL2P |-> Signal("G", "Lnav", 5),
   GpsL2C |-> Signal("G", "Cnav", 17), GpsL5Q |-> Signal("G", "Cnav", 14),
   QzssL1Ca |-> Signal("J", "Lnav", 0), QzssL1C |-> Signal("J", "Cnav2", 16),
   QzssL2C |-> Signal("J", "Cnav", 17), QzssL5Q |-> Signal("J", "Cnav", 14),
   GlonassG1 |-> Signal("R", "Fdma", 0), GlonassG2 |-> Signal("R", "Fdma", 1), GlonassG3 |-> Signal("R", "L3oc", 6),
   GalileoE1 |-> Signal("E", "Inav", 2), GalileoE5A |-> Signal("E", "Fnav", 12),
   GalileoE5B |-> Signal("E", "Inav", 17), GalileoE6 |-> Signal("E", "Unknown", 7),
   BeidouB1I |-> Signal("C", "D1D2", 0), BeidouB3I |-> Signal("C", "D1D2", 2), BeidouB1C |-> Signal("C", "Bcnav1", 7),
   BeidouB2A |-> Signal("C", "Bcnav2", 9), BeidouB2B |-> Signal("C", "Bcnav3", 11)]

(* SignalId, whose order sorts the log. *)
SignalIds ==
  <<"GpsL1Ca", "GpsL1C", "GpsL2P", "GpsL2C", "GpsL5Q", "QzssL1Ca", "QzssL1C", "QzssL2C", "QzssL5Q",
    "GlonassG1", "GlonassG2", "GlonassG3", "GalileoE1", "GalileoE5A", "GalileoE5B", "GalileoE6",
    "BeidouB1I", "BeidouB3I", "BeidouB1C", "BeidouB2A", "BeidouB2B">>
SignalId(signal) == CHOOSE k \in DOMAIN SignalIds : SignalIds[k] = signal

(* signal_single_point_priority *)
SinglePointPriority ==
  [s \in DOMAIN SignalTable |->
     CASE s \in {"GpsL1Ca", "QzssL1Ca", "GlonassG1", "GalileoE1", "BeidouB1I"} -> 0
       [] s \in {"GpsL1C", "QzssL1C"} -> 1
       [] OTHER -> -1]

(* find_signal_definition_by_oem7: the types of the BeiDou D2 messages     *)
(* stand for the same signals.                                             *)
D2Signals == [BeidouB1I |-> 4, BeidouB3I |-> 6]
SignalsOfType(system, type) ==
  LET d2 == {s \in DOMAIN D2Signals : system = "C" /\ D2Signals[s] = type} IN
  IF d2 # {} THEN d2
  ELSE {s \in DOMAIN SignalTable : SignalTable[s].system = system /\ SignalTable[s].type = type}
===============================================================================

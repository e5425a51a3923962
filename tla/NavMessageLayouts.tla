--------------------------- MODULE NavMessageLayouts ---------------------------
(***************************************************************************)
(* The frame layouts of nav_message_scheduler.cpp, the acquisition plans   *)
(* made of them, and the collector of fragments.                           *)
(*                                                                         *)
(* Times are counted in fifths of a second since a GPS week began, so that *)
(* all of the real layouts are exact.  A layout is its cycle, the offset   *)
(* of its time system, and its fragments as <<slot, duration>>; the        *)
(* fragment identities are left out, a mask bit is the fragment's index.   *)
(***************************************************************************)
EXTENDS Integers, Sequences, FiniteSetsExt, SequencesExt

WeekUnits == 604800 * 5
BdtFromGpst == -14 * 5

(* Fragments of one length, in seconds. *)
Layout(offset, cycle, duration, slots) ==
  [offset |-> offset, cycle |-> 5 * cycle,
   fragments |-> [k \in DOMAIN slots |-> <<5 * slots[k], 5 * duration>>]]

Lnav  == Layout(0, 30, 6, <<0, 6, 12>>)
Cnav(message) == Layout(0, 3 * message, message, <<0, message, 2 * message>>)
Cnav2 == Layout(0, 18, 18, <<0>>)
GlonassFdma == Layout(0, 30, 2, <<0, 2, 4, 6>>)
GlonassL3oc == Layout(0, 18, 3, <<0, 3, 6>>)
InavE1  == Layout(0, 30, 2, <<1, 3, 21, 23>>)
InavE5b == Layout(0, 30, 2, <<0, 2, 20, 22>>)
Fnav    == Layout(0, 50, 10, <<0, 10, 20, 30>>)
BeidouD1 == Layout(BdtFromGpst, 30, 6, <<0, 6, 12>>)
BeidouD2 == [offset |-> BdtFromGpst, cycle |-> 150,
             fragments |-> [page \in 1..10 |-> <<15 * (page - 1), 3>>]]
Bcnav1 == Layout(BdtFromGpst, 18, 18, <<0>>)
Bcnav2 == Layout(BdtFromGpst, 9, 3, <<0, 3, 6>>)
Bcnav3 == Layout(BdtFromGpst, 2, 1, <<0, 1>>)

(* The layout a signal collects with the default schedule; E6 has none.    *)
LayoutOf ==
  [GpsL1Ca |-> Lnav, GpsL2P |-> Lnav, QzssL1Ca |-> Lnav,
   GpsL2C |-> Cnav(12), QzssL2C |-> Cnav(12), GpsL5Q |-> Cnav(6), QzssL5Q |-> Cnav(6),
   GpsL1C |-> Cnav2, QzssL1C |-> Cnav2,
   GlonassG1 |-> GlonassFdma, GlonassG2 |-> GlonassFdma, GlonassG3 |-> GlonassL3oc,
   GalileoE1 |-> InavE1, GalileoE5B |-> InavE5b, GalileoE5A |-> Fnav,
   BeidouB1I |-> BeidouD1, BeidouB3I |-> BeidouD1,
   BeidouB1C |-> Bcnav1, BeidouB2A |-> Bcnav2, BeidouB2B |-> Bcnav3]

Variants == {"Default", "BeidouD1", "BeidouD2"}
Signals == DOMAIN LayoutOf \cup {"GalileoE6"}

(* build_cold_nav_acquisition_plan_with_variant: no layout is an error.    *)
LayoutFor(signal, variant) ==
  CASE signal \in {"BeidouB1I", "BeidouB3I"} ->
         {IF variant = "BeidouD2" THEN BeidouD2 ELSE BeidouD1}
    [] signal \in DOMAIN LayoutOf \ {"BeidouB1I", "BeidouB3I"} ->
         IF variant = "Default" THEN {LayoutOf[signal]} ELSE {}
    [] signal = "GalileoE6" -> {}

-----------------------------------------------------------------------------
(* set_fragment: the phase in the cycle is that of the time of week.       *)
CompletionMutant(layout, fragment, from) ==
  from + (fragment[1] - (((from % WeekUnits) + layout.offset) % layout.cycle)) + fragment[2]
Completion(layout, fragment, from) ==
  LET phase == ((from % WeekUnits) + layout.offset) % layout.cycle
      toSlot == fragment[1] - phase
  IN  from + (IF toSlot < 0 THEN toSlot + layout.cycle ELSE toSlot) + fragment[2]

Completions(layout, from) ==
  [k \in DOMAIN layout.fragments |-> Completion(layout, layout.fragments[k], from)]

(* update_availability_time *)
Availability(layout, from) == Max({from} \cup ToSet(Completions(layout, from)))

(* nav_acquisition_received_mask, nav_acquisition_complete *)
ReceivedAt(layout, from, now) ==
  {k \in DOMAIN layout.fragments : now >= from /\ Completions(layout, from)[k] <= now}
CompleteAt(layout, from, now) == ReceivedAt(layout, from, now) = DOMAIN layout.fragments

(* The broadcast goes on through the end of a week, in whole cycles; this  *)
(* is when a fragment is on air as a whole between two times.              *)
OnAirBetween(layout, fragment, from, to) ==
  \E start \in from..(to - fragment[2]) : (start + layout.offset - fragment[1]) % layout.cycle = 0

(* A plan is complete as soon as every fragment was sent once as a whole   *)
(* since the acquisition, and never takes longer than it must; one signal  *)
(* sends one fragment at a time.                                           *)
PlanIsEarliest(layout, from) ==
  LET to == Availability(layout, from)
      Heard(fragment, t) == OnAirBetween(layout, fragment, from, t)
  IN  /\ \A k \in DOMAIN layout.fragments : Heard(layout.fragments[k], to)
      /\ \E k \in DOMAIN layout.fragments : ~Heard(layout.fragments[k], to - 1)
      /\ CompleteAt(layout, from, to) /\ ~CompleteAt(layout, from, to - 1)
      /\ to - from <= layout.cycle + Max({f[2] : f \in ToSet(layout.fragments)})

FragmentsDoNotOverlap(layout) ==
  /\ \A j, k \in DOMAIN layout.fragments :
       j < k => layout.fragments[j][1] + layout.fragments[j][2] <= layout.fragments[k][1]
  /\ \A f \in ToSet(layout.fragments) : f[1] + f[2] <= layout.cycle

-----------------------------------------------------------------------------
(* NavFragmentCollector. *)
NoIssue == 0
NewCollector(required) == [required |-> required, received |-> {}, issue |-> NoIssue, complete |-> FALSE]

(* A fragment of another issue of data starts the collection anew; one     *)
(* that is not required is refused and changes nothing.                    *)
Ingest(c, fragment) ==
  IF fragment.id \notin c.required THEN c
  ELSE LET received == (IF c.issue = fragment.issue THEN c.received ELSE {}) \cup {fragment.id}
       IN  [c EXCEPT !.received = received, !.issue = fragment.issue,
                     !.complete = (c.required \subseteq received)]

(* ... the first n of some fragments.                                      *)
Collected(required, fragments, n) ==
  LET collector[k \in 0..Len(fragments)] ==
        IF k = 0 THEN NewCollector(required) ELSE Ingest(collector[k - 1], fragments[k])
  IN  collector[n]

(* An ephemeris is complete exactly when every required fragment came with *)
(* the issue of the last one, and no other issue came in between.          *)
OneIssue(required, fragments) ==
  \A n \in 0..Len(fragments) :
    LET heard == {k \in 1..n : fragments[k].id \in required}
        unmixed == {k \in heard : \A j \in heard : j >= k => fragments[j].issue = fragments[k].issue}
    IN  Collected(required, fragments, n).complete <=> required \subseteq {fragments[k].id : k \in unmixed}
===============================================================================

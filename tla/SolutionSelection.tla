--------------------------- MODULE SolutionSelection ---------------------------
(***************************************************************************)
(* One epoch of the solution engine: one observation per satellite by the  *)
(* priority of its signal, separately for position and velocity, and what  *)
(* is asked of RTKLIB with them.                                           *)
(*                                                                         *)
(* A measurement is its satellite, its signal, whether pseudorange (with a *)
(* known code bias) and Doppler are valid, and whether the receiver holds  *)
(* the ephemeris of the signal's message family.  Whether RTKLIB finds a   *)
(* solution is an input.                                                   *)
(***************************************************************************)
EXTENDS Integers, Sequences, FiniteSetsExt, SequencesExt

CONSTANTS
  Priority,        (* signal_single_point_priority                          *)
  MaxSatellites,   (* kMaxSolverSatellites, MAXOBS                          *)
  MinObservations  (* a single-point solution needs that many               *)

ASSUME SelectionAssumption ==
  /\ \A s \in DOMAIN Priority : Priority[s] \in Int
  /\ {MaxSatellites, MinObservations} \subseteq Nat \ {0}

Usable(m, purpose) ==
  /\ Priority[m.signal] >= 0
  /\ IF purpose = "Position" THEN m.psr ELSE m.doppler

IndexOf(selected, satellite) == {k \in DOMAIN selected : selected[k].satellite = satellite}

(* consider_selected_observation *)
ConsiderMutant(selected, m, purpose) ==
  IF Usable(m, purpose) /\ IndexOf(selected, m.satellite) = {} /\ Len(selected) < MaxSatellites
    THEN Append(selected, m) ELSE selected
Consider(selected, m, purpose) ==
  CASE ~Usable(m, purpose) -> selected
    [] Usable(m, purpose) /\ IndexOf(selected, m.satellite) # {} ->
         [k \in DOMAIN selected |->
            IF k \in IndexOf(selected, m.satellite) /\ Priority[m.signal] < Priority[selected[k].signal]
              THEN m ELSE selected[k]]
    [] Usable(m, purpose) /\ IndexOf(selected, m.satellite) = {} ->
         IF Len(selected) < MaxSatellites THEN Append(selected, m) ELSE selected

(* ... over the first n of the epoch's measurements.                       *)
Considered(measurements, purpose, n) ==
  LET selected[k \in 0..Len(measurements)] ==
        IF k = 0 THEN << >> ELSE Consider(selected[k - 1], measurements[k], purpose)
  IN  selected[n]

(* sort_selected_observations: an insertion sort by satellite number.  The *)
(* k-th goes behind those before it that are not greater.                  *)
Place(sorted, m) ==
  CHOOSE p \in 0..Len(sorted) :
    /\ p > 0 => sorted[p].satellite <= m.satellite
    /\ \A k \in (p + 1)..Len(sorted) : sorted[k].satellite > m.satellite
Insert(sorted, m) ==
  LET p == Place(sorted, m)
  IN  [k \in 1..(Len(sorted) + 1) |->
         CASE k <= p -> sorted[k] [] k = p + 1 -> m [] k > p + 1 -> sorted[k - 1]]
InsertedTo(selected, n) ==
  LET sorted[k \in 0..Len(selected)] ==
        IF k = 0 THEN << >> ELSE Insert(sorted[k - 1], selected[k])
  IN  sorted[n]

Selected(measurements, purpose) ==
  LET selected == Considered(measurements, purpose, Len(measurements))
  IN  InsertedTo(selected, Len(selected))

(* rtklib_solve_single_position passes on what it has an ephemeris for.    *)
PositionInput(measurements) ==
  {m \in ToSet(Selected(measurements, "Position")) : m.ephemeris}
VelocityInput(measurements) == ToSet(Selected(measurements, "Velocity"))

(* solve_receiver_epoch.  A position is the hint of its own velocity and   *)
(* of later ones; without one there is no velocity.                        *)
SolveEpoch(measurements, hint, answer) ==
  LET Enough(input) == Cardinality(input) >= MinObservations
      position == Enough(PositionInput(measurements)) /\ answer.position
  IN  [position |-> position,
       velocity |-> (hint \/ position) /\ Enough(VelocityInput(measurements)) /\ answer.velocity,
       hint     |-> hint \/ position]

-----------------------------------------------------------------------------
(* What the selection means, for the first n measurements.  Of the first   *)
(* usable measurement of each satellite as many are served as fit, ...     *)
Firsts(measurements, purpose, n) ==
  {k \in 1..n :
     /\ Usable(measurements[k], purpose)
     /\ \A j \in 1..(k - 1) :
          Usable(measurements[j], purpose) => measurements[j].satellite # measurements[k].satellite}

Served(measurements, purpose, n) ==
  {measurements[k].satellite :
     k \in {f \in Firsts(measurements, purpose, n) :
             Cardinality(Firsts(measurements, purpose, f)) <= MaxSatellites}}

(* ... each with its measurement of best priority, the first of equals.    *)
BestOnes(measurements, purpose, n) ==
  {k \in 1..n :
     /\ Usable(measurements[k], purpose)
     /\ measurements[k].satellite \in Served(measurements, purpose, n)
     /\ \A j \in 1..n :
          Usable(measurements[j], purpose) /\ measurements[j].satellite = measurements[k].satellite =>
            \/ Priority[measurements[k].signal] < Priority[measurements[j].signal]
            \/ Priority[measurements[k].signal] = Priority[measurements[j].signal] /\ k <= j}

Best(measurements, purpose) ==
  {measurements[k] : k \in BestOnes(measurements, purpose, Len(measurements))}

(* The solvers get one measurement per satellite, the best, in the order   *)
(* of the satellites; a solution rests on enough satellites, and a         *)
(* velocity on a position of this epoch or of an earlier one.              *)
SelectionIsTheBest(measurements, purpose) ==
  LET selected == Selected(measurements, purpose) IN
  /\ ToSet(selected) = Best(measurements, purpose)
  /\ \A k \in 2..Len(selected) : selected[k - 1].satellite < selected[k].satellite

SolutionRestsOnTheBest(measurements, hint, answer) ==
  LET s == SolveEpoch(measurements, hint, answer) IN
  /\ \A purpose \in {"Position", "Velocity"} : SelectionIsTheBest(measurements, purpose)
  /\ s.position => MinObservations <=
       Cardinality({m.satellite : m \in {b \in Best(measurements, "Position") : b.ephemeris}})
  /\ s.velocity => (hint \/ s.position) /\
       MinObservations <= Cardinality({m.satellite : m \in Best(measurements, "Velocity")})
===============================================================================

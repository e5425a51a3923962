------------------------ MODULE SolutionSelectionProofs ------------------------
(***************************************************************************)
(* Proofs about SolutionSelection: for any number of measurements in any   *)
(* order, any priorities of the signals and any room in the solver, the    *)
(* solvers get the best measurement of each satellite they have room for,  *)
(* in the order of the satellites, and a solution rests on enough of them. *)
(***************************************************************************)
EXTENDS SolutionSelection, FiniteSetTheorems, WellFoundedInduction, TLAPS

Measurements ==
  [satellite : Int, signal : DOMAIN Priority, psr : BOOLEAN, doppler : BOOLEAN, ephemeris : BOOLEAN]

LEMMA MeasurementFacts ==
  ASSUME NEW ms \in Seq(Measurements), NEW k \in 1..Len(ms)
  PROVE  /\ ms[k] \in Measurements /\ ms[k].satellite \in Int
         /\ Priority[ms[k].signal] \in Int
<1>1. ms[k] \in Measurements
  OBVIOUS
<1>2. QED
  BY <1>1, SelectionAssumption DEF Measurements

(* Of a set of numbers that is not empty one is the least.                 *)
LEMMA LeastNumber ==
  ASSUME NEW S \in SUBSET Nat, NEW s \in S
  PROVE  \E n \in S : \A m \in S : ~(m < n)
<1>1. PICK n \in S : \A m \in S : ~(<<m, n>> \in OpToRel(<, Nat))
  BY NatLessThanWellFounded, WFMin
<1>2. \A m \in S : m < n => <<m, n>> \in OpToRel(<, Nat)
  BY DEF OpToRel
<1>3. QED
  BY <1>1, <1>2

-----------------------------------------------------------------------------
(* The recursive functions exist, and so do what they say.                 *)

IsSelection(f, n, ms, purpose) ==
  f = [k \in 0..n |-> IF k = 0 THEN << >> ELSE Consider(f[k - 1], ms[k], purpose)]

LEMMA SelectionExists ==
  ASSUME NEW ms, NEW purpose, NEW n \in Nat
  PROVE  \E f : IsSelection(f, n, ms, purpose)
<1> DEFINE Without == {m \in Nat : \A f : ~IsSelection(f, m, ms, purpose)}
<1>1. SUFFICES ASSUME n \in Without PROVE FALSE
  OBVIOUS
<1>2. PICK m \in Without : \A k \in Without : ~(k < m)
  <2>1. Without \in SUBSET Nat
    OBVIOUS
  <2> HIDE DEF Without
  <2>2. QED
    BY <1>1, <2>1, LeastNumber
<1>3. IsSelection([k \in 0..0 |-> << >>], 0, ms, purpose)
  BY DEF IsSelection
<1>4. m - 1 \in Nat /\ m - 1 < m
  BY <1>2, <1>3
<1>5. PICK f : IsSelection(f, m - 1, ms, purpose)
  BY <1>2, <1>4
<1> DEFINE g == [k \in 0..m |-> IF k = m THEN Consider(f[m - 1], ms[m], purpose) ELSE f[k]]
<1>6. ASSUME NEW k \in 0..m
      PROVE  g[k] = IF k = 0 THEN << >> ELSE Consider(g[k - 1], ms[k], purpose)
  <2>1. CASE k = m
    BY <1>4, <2>1
  <2>2. CASE k # m
    <3>1. k \in 0..(m - 1) /\ (k # 0 => k - 1 \in 0..(m - 1) /\ k - 1 # m)
      BY <1>4, <2>2
    <3>2. g[k] = f[k] /\ (k # 0 => g[k - 1] = f[k - 1])
      BY <2>2, <3>1
    <3>3. f[k] = IF k = 0 THEN << >> ELSE Consider(f[k - 1], ms[k], purpose)
      BY <1>5, <3>1 DEF IsSelection
    <3> HIDE DEF g
    <3>4. QED
      BY <3>2, <3>3
  <2>3. QED
    BY <2>1, <2>2
<1>7. g = [k \in 0..m |-> g[k]]
  OBVIOUS
<1> HIDE DEF g
<1>8. IsSelection(g, m, ms, purpose)
  BY <1>6, <1>7 DEF IsSelection
<1>9. QED
  BY <1>2, <1>8

LEMMA ConsideredUnfolds ==
  ASSUME NEW S, NEW ms \in Seq(S), NEW purpose
  PROVE  /\ Considered(ms, purpose, 0) = << >>
         /\ \A n \in 1..Len(ms) :
              Considered(ms, purpose, n) = Consider(Considered(ms, purpose, n - 1), ms[n], purpose)
<1> DEFINE f == CHOOSE f : IsSelection(f, Len(ms), ms, purpose)
<1>1. Len(ms) \in Nat
  OBVIOUS
<1>2. IsSelection(f, Len(ms), ms, purpose)
  BY <1>1, SelectionExists
<1>3. \A n : Considered(ms, purpose, n) = f[n]
  BY DEF Considered, IsSelection
<1> HIDE DEF f
<1>4. \A n \in 0..Len(ms) : f[n] = IF n = 0 THEN << >> ELSE Consider(f[n - 1], ms[n], purpose)
  BY <1>2 DEF IsSelection
<1>5. QED
  BY <1>1, <1>3, <1>4

IsSorting(f, n, s) ==
  f = [k \in 0..n |-> IF k = 0 THEN << >> ELSE Insert(f[k - 1], s[k])]

LEMMA SortingExists ==
  ASSUME NEW s, NEW n \in Nat
  PROVE  \E f : IsSorting(f, n, s)
<1> DEFINE Without == {m \in Nat : \A f : ~IsSorting(f, m, s)}
<1>1. SUFFICES ASSUME n \in Without PROVE FALSE
  OBVIOUS
<1>2. PICK m \in Without : \A k \in Without : ~(k < m)
  <2>1. Without \in SUBSET Nat
    OBVIOUS
  <2> HIDE DEF Without
  <2>2. QED
    BY <1>1, <2>1, LeastNumber
<1>3. IsSorting([k \in 0..0 |-> << >>], 0, s)
  BY DEF IsSorting
<1>4. m - 1 \in Nat /\ m - 1 < m
  BY <1>2, <1>3
<1>5. PICK f : IsSorting(f, m - 1, s)
  BY <1>2, <1>4
<1> DEFINE g == [k \in 0..m |-> IF k = m THEN Insert(f[m - 1], s[m]) ELSE f[k]]
<1>6. ASSUME NEW k \in 0..m
      PROVE  g[k] = IF k = 0 THEN << >> ELSE Insert(g[k - 1], s[k])
  <2>1. CASE k = m
    BY <1>4, <2>1
  <2>2. CASE k # m
    <3>1. k \in 0..(m - 1) /\ (k # 0 => k - 1 \in 0..(m - 1) /\ k - 1 # m)
      BY <1>4, <2>2
    <3>2. g[k] = f[k] /\ (k # 0 => g[k - 1] = f[k - 1])
      BY <2>2, <3>1
    <3>3. f[k] = IF k = 0 THEN << >> ELSE Insert(f[k - 1], s[k])
      BY <1>5, <3>1 DEF IsSorting
    <3> HIDE DEF g
    <3>4. QED
      BY <3>2, <3>3
  <2>3. QED
    BY <2>1, <2>2
<1>7. g = [k \in 0..m |-> g[k]]
  OBVIOUS
<1> HIDE DEF g
<1>8. IsSorting(g, m, s)
  BY <1>6, <1>7 DEF IsSorting
<1>9. QED
  BY <1>2, <1>8

LEMMA InsertedUnfolds ==
  ASSUME NEW S, NEW s \in Seq(S)
  PROVE  /\ InsertedTo(s, 0) = << >>
         /\ \A n \in 1..Len(s) : InsertedTo(s, n) = Insert(InsertedTo(s, n - 1), s[n])
<1> DEFINE f == CHOOSE f : IsSorting(f, Len(s), s)
<1>1. Len(s) \in Nat
  OBVIOUS
<1>2. IsSorting(f, Len(s), s)
  BY <1>1, SortingExists
<1>3. \A n : InsertedTo(s, n) = f[n]
  BY DEF InsertedTo, IsSorting
<1> HIDE DEF f
<1>4. \A n \in 0..Len(s) : f[n] = IF n = 0 THEN << >> ELSE Insert(f[n - 1], s[n])
  BY <1>2 DEF IsSorting
<1>5. QED
  BY <1>1, <1>3, <1>4

-----------------------------------------------------------------------------
(* Who is served.                                                          *)

IsFirst(ms, purpose, n) ==
  /\ Usable(ms[n], purpose)
  /\ \A j \in 1..(n - 1) : Usable(ms[j], purpose) => ms[j].satellite # ms[n].satellite

LEMMA FirstsStep ==
  ASSUME NEW ms, NEW purpose, NEW n \in Nat \ {0}
  PROVE  /\ Firsts(ms, purpose, n) =
              Firsts(ms, purpose, n - 1) \cup (IF IsFirst(ms, purpose, n) THEN {n} ELSE {})
         /\ n \notin Firsts(ms, purpose, n - 1)
BY DEF Firsts, IsFirst

LEMMA FirstsFinite ==
  ASSUME NEW ms, NEW purpose, NEW n \in Nat
  PROVE  /\ IsFiniteSet(Firsts(ms, purpose, n)) /\ Firsts(ms, purpose, n) \subseteq 1..n
         /\ Cardinality(Firsts(ms, purpose, n)) \in Nat
<1>1. Firsts(ms, purpose, n) \subseteq 1..n
  BY DEF Firsts
<1>2. IsFiniteSet(1..n)
  BY FS_Interval
<1>3. QED
  BY <1>1, <1>2, FS_Subset, FS_CardinalityType

LEMMA FirstsCount ==
  ASSUME NEW ms, NEW purpose, NEW n \in Nat \ {0}
  PROVE  Cardinality(Firsts(ms, purpose, n)) =
           Cardinality(Firsts(ms, purpose, n - 1)) + (IF IsFirst(ms, purpose, n) THEN 1 ELSE 0)
<1> DEFINE F == Firsts(ms, purpose, n - 1)
<1>1. n - 1 \in Nat
  OBVIOUS
<1>2. IsFiniteSet(F) /\ Cardinality(F) \in Nat
  BY <1>1, FirstsFinite
<1>3. n \notin F
  BY FirstsStep
<1>4. CASE IsFirst(ms, purpose, n)
  <2>1. Firsts(ms, purpose, n) = F \cup {n}
    BY <1>4, FirstsStep
  <2> HIDE DEF F
  <2>2. Cardinality(F \cup {n}) = Cardinality(F) + 1
    BY <1>2, <1>3, FS_AddElement
  <2>3. QED
    BY <1>4, <2>1, <2>2 DEF F
<1>5. CASE ~IsFirst(ms, purpose, n)
  <2>1. Firsts(ms, purpose, n) = F
    BY <1>5, FirstsStep
  <2>2. QED
    BY <1>2, <1>5, <2>1
<1>6. QED
  BY <1>4, <1>5

LEMMA ServedStep ==
  ASSUME NEW ms, NEW purpose, NEW n \in Nat \ {0}
  PROVE  Served(ms, purpose, n) =
           Served(ms, purpose, n - 1) \cup
             (IF IsFirst(ms, purpose, n) /\ Cardinality(Firsts(ms, purpose, n)) <= MaxSatellites
                THEN {ms[n].satellite} ELSE {})
BY FirstsStep DEF Served

(* Every usable measurement has a first one of its satellite.              *)
LEMMA FirstOne ==
  ASSUME NEW ms, NEW purpose, NEW n \in Nat, NEW j \in 1..n, Usable(ms[j], purpose)
  PROVE  \E i \in Firsts(ms, purpose, n) : i <= j /\ ms[i].satellite = ms[j].satellite
<1> DEFINE Same == {i \in 1..j : Usable(ms[i], purpose) /\ ms[i].satellite = ms[j].satellite}
<1>1. Same \in SUBSET Nat /\ j \in Same
  OBVIOUS
<1>2. PICK i \in Same : \A k \in Same : ~(k < i)
  <2> HIDE DEF Same
  <2>1. QED
    BY <1>1, LeastNumber
<1>3. i \in 1..n /\ i <= j /\ Usable(ms[i], purpose) /\ ms[i].satellite = ms[j].satellite
  BY <1>2
<1>4. ASSUME NEW k \in 1..(i - 1), Usable(ms[k], purpose) PROVE ms[k].satellite # ms[i].satellite
  BY <1>2, <1>3, <1>4
<1>5. QED
  BY <1>3, <1>4 DEF Firsts

(* With room left, every usable satellite is served.                       *)
LEMMA AllServed ==
  ASSUME NEW ms, NEW purpose, NEW n \in Nat, NEW j \in 1..n, Usable(ms[j], purpose),
         Cardinality(Firsts(ms, purpose, n)) <= MaxSatellites
  PROVE  ms[j].satellite \in Served(ms, purpose, n)
<1>1. PICK i \in Firsts(ms, purpose, n) : ms[i].satellite = ms[j].satellite
  BY FirstOne
<1>2. i \in 1..n /\ i \in Nat
  BY FirstsFinite
<1>3. Firsts(ms, purpose, i) \subseteq Firsts(ms, purpose, n)
  BY <1>2 DEF Firsts
<1>4. Cardinality(Firsts(ms, purpose, i)) <= Cardinality(Firsts(ms, purpose, n))
  BY <1>3, FirstsFinite, FS_Subset
<1>5. Cardinality(Firsts(ms, purpose, i)) <= MaxSatellites
  BY <1>2, <1>4, FirstsFinite, SelectionAssumption
<1>6. QED
  BY <1>1, <1>5 DEF Served

-----------------------------------------------------------------------------
(* Whose measurement is the best.                                          *)

LEMMA BestKept ==
  ASSUME NEW ms \in Seq(Measurements), NEW purpose, NEW n \in 1..Len(ms),
         NEW k \in BestOnes(ms, purpose, n - 1),
         \/ ~Usable(ms[n], purpose)
         \/ ms[n].satellite # ms[k].satellite
         \/ Priority[ms[k].signal] <= Priority[ms[n].signal]
  PROVE  k \in BestOnes(ms, purpose, n)
<1>1. Served(ms, purpose, n - 1) \subseteq Served(ms, purpose, n)
  BY ServedStep
<1>2. k \in 1..(n - 1) /\ k \in 1..n /\ k \in 1..Len(ms)
  BY DEF BestOnes
<1>3. Priority[ms[k].signal] \in Int /\ Priority[ms[n].signal] \in Int
  BY <1>2, MeasurementFacts
<1>4. ASSUME NEW j \in 1..n, Usable(ms[j], purpose), ms[j].satellite = ms[k].satellite
      PROVE  \/ Priority[ms[k].signal] < Priority[ms[j].signal]
             \/ Priority[ms[k].signal] = Priority[ms[j].signal] /\ k <= j
  <2>1. CASE j = n
    BY <1>2, <1>3, <1>4, <2>1
  <2>2. CASE j # n
    <3>1. j \in 1..(n - 1)
      BY <2>2
    <3>2. QED
      BY <1>4, <3>1 DEF BestOnes
  <2>3. QED
    BY <2>1, <2>2
<1>5. QED
  BY <1>1, <1>2, <1>4 DEF BestOnes

LEMMA BestReplaced ==
  ASSUME NEW ms \in Seq(Measurements), NEW purpose, NEW n \in 1..Len(ms),
         NEW k \in BestOnes(ms, purpose, n - 1),
         Usable(ms[n], purpose), ms[n].satellite = ms[k].satellite,
         Priority[ms[n].signal] < Priority[ms[k].signal]
  PROVE  n \in BestOnes(ms, purpose, n)
<1>1. Served(ms, purpose, n - 1) \subseteq Served(ms, purpose, n)
  BY ServedStep
<1>2. k \in 1..(n - 1) /\ k \in 1..Len(ms) /\ n \in 1..n
  BY DEF BestOnes
<1>3. Priority[ms[k].signal] \in Int /\ Priority[ms[n].signal] \in Int
  BY <1>2, MeasurementFacts
<1>4. ASSUME NEW j \in 1..n, Usable(ms[j], purpose), ms[j].satellite = ms[n].satellite
      PROVE  \/ Priority[ms[n].signal] < Priority[ms[j].signal]
             \/ Priority[ms[n].signal] = Priority[ms[j].signal] /\ n <= j
  <2>1. CASE j = n
    BY <1>3, <2>1
  <2>2. CASE j # n
    <3>1. j \in 1..(n - 1) /\ j \in 1..Len(ms)
      BY <2>2
    <3>2. Priority[ms[k].signal] <= Priority[ms[j].signal]
      BY <1>3, <1>4, <3>1, MeasurementFacts DEF BestOnes
    <3>3. Priority[ms[j].signal] \in Int
      BY <3>1, MeasurementFacts
    <3>4. QED
      BY <1>3, <3>2, <3>3
  <2>3. QED
    BY <2>1, <2>2
<1>5. ms[n].satellite \in Served(ms, purpose, n)
  BY <1>1 DEF BestOnes
<1>6. QED
  BY <1>2, <1>4, <1>5 DEF BestOnes

LEMMA BestNew ==
  ASSUME NEW ms \in Seq(Measurements), NEW purpose, NEW n \in 1..Len(ms),
         IsFirst(ms, purpose, n), Cardinality(Firsts(ms, purpose, n)) <= MaxSatellites
  PROVE  n \in BestOnes(ms, purpose, n)
<1>1. ms[n].satellite \in Served(ms, purpose, n)
  BY ServedStep
<1>2. Priority[ms[n].signal] \in Int
  BY MeasurementFacts
<1>3. ASSUME NEW j \in 1..n, Usable(ms[j], purpose), ms[j].satellite = ms[n].satellite
      PROVE  j = n
  <2>1. j # n => j \in 1..(n - 1)
    OBVIOUS
  <2>2. QED
    BY <1>3, <2>1 DEF IsFirst
<1>4. Usable(ms[n], purpose) /\ n \in 1..n
  BY DEF IsFirst
<1>5. QED
  BY <1>1, <1>2, <1>3, <1>4 DEF BestOnes

-----------------------------------------------------------------------------
(* The selection after n measurements.                                     *)

Room(ms, purpose, n) ==
  IF Cardinality(Firsts(ms, purpose, n)) <= MaxSatellites
    THEN Cardinality(Firsts(ms, purpose, n)) ELSE MaxSatellites

SelectInv(ms, purpose, n, sel) ==
  /\ sel \in Seq(Measurements)
  /\ Len(sel) = Room(ms, purpose, n)
  /\ \A i, j \in 1..Len(sel) : sel[i].satellite = sel[j].satellite => i = j
  /\ \A i \in 1..Len(sel) : \E k \in BestOnes(ms, purpose, n) : sel[i] = ms[k]
  /\ \A s \in Served(ms, purpose, n) : \E i \in 1..Len(sel) : sel[i].satellite = s

(* A measurement that is not the satellite's first, or comes too late,     *)
(* changes neither who is served nor how many.                             *)
LEMMA NobodyNew ==
  ASSUME NEW ms \in Seq(Measurements), NEW purpose, NEW n \in 1..Len(ms),
         ~(IsFirst(ms, purpose, n) /\ Cardinality(Firsts(ms, purpose, n)) <= MaxSatellites)
  PROVE  /\ Served(ms, purpose, n) = Served(ms, purpose, n - 1)
         /\ Room(ms, purpose, n) = Room(ms, purpose, n - 1)
<1>1. Served(ms, purpose, n) = Served(ms, purpose, n - 1)
  <2>1. n \in Nat \ {0}
    OBVIOUS
  <2>2. Served(ms, purpose, n) = Served(ms, purpose, n - 1) \cup {}
    BY <2>1, ServedStep
  <2>3. QED
    BY <2>2
<1> DEFINE c == Cardinality(Firsts(ms, purpose, n))
           d == Cardinality(Firsts(ms, purpose, n - 1))
<1>2. c \in Nat /\ d \in Nat
  BY FirstsFinite
<1>3. c = d + (IF IsFirst(ms, purpose, n) THEN 1 ELSE 0)
  BY FirstsCount
<1>4. ~(IsFirst(ms, purpose, n) /\ c <= MaxSatellites) /\ MaxSatellites \in Nat
  BY SelectionAssumption
<1>5. Room(ms, purpose, n) = (IF c <= MaxSatellites THEN c ELSE MaxSatellites)
      /\ Room(ms, purpose, n - 1) = (IF d <= MaxSatellites THEN d ELSE MaxSatellites)
  BY DEF Room
<1> HIDE DEF c, d
<1>6. QED
  BY <1>1, <1>2, <1>3, <1>4, <1>5

LEMMA SelectionStep ==
  ASSUME NEW ms \in Seq(Measurements), NEW purpose, NEW n \in 1..Len(ms),
         NEW sel, SelectInv(ms, purpose, n - 1, sel)
  PROVE  SelectInv(ms, purpose, n, Consider(sel, ms[n], purpose))
<1> DEFINE m == ms[n]
           new == Consider(sel, m, purpose)
<1>1. /\ sel \in Seq(Measurements) /\ Len(sel) \in Nat /\ DOMAIN sel = 1..Len(sel)
      /\ m \in Measurements /\ m.satellite \in Int /\ Priority[m.signal] \in Int
  BY MeasurementFacts DEF SelectInv
<1>2. /\ Len(sel) = Room(ms, purpose, n - 1)
      /\ \A i, j \in 1..Len(sel) : sel[i].satellite = sel[j].satellite => i = j
      /\ \A i \in 1..Len(sel) : \E k \in BestOnes(ms, purpose, n - 1) : sel[i] = ms[k]
      /\ \A s \in Served(ms, purpose, n - 1) : \E i \in 1..Len(sel) : sel[i].satellite = s
  BY DEF SelectInv
<1>3. \A i \in 1..Len(sel) : /\ sel[i] \in Measurements /\ sel[i].satellite \in Served(ms, purpose, n - 1)
                             /\ Priority[sel[i].signal] \in Int
  <2> SUFFICES ASSUME NEW i \in 1..Len(sel)
               PROVE  /\ sel[i] \in Measurements /\ sel[i].satellite \in Served(ms, purpose, n - 1)
                      /\ Priority[sel[i].signal] \in Int
    OBVIOUS
  <2>1. PICK k \in BestOnes(ms, purpose, n - 1) : sel[i] = ms[k]
    BY <1>2
  <2>2. k \in 1..Len(ms) /\ ms[k].satellite \in Served(ms, purpose, n - 1)
    BY DEF BestOnes
  <2>3. QED
    BY <2>1, <2>2, MeasurementFacts
<1>4. IndexOf(sel, m.satellite) = {i \in 1..Len(sel) : sel[i].satellite = m.satellite}
  BY <1>1 DEF IndexOf
<1>5. CASE ~Usable(m, purpose)
  <2>1. new = sel
    BY <1>5 DEF Consider
  <2>2. ~IsFirst(ms, purpose, n)
    BY <1>5 DEF IsFirst
  <2>3. \A k \in BestOnes(ms, purpose, n - 1) : k \in BestOnes(ms, purpose, n)
    BY <1>5, BestKept
  <2> HIDE DEF new
  <2>4. SelectInv(ms, purpose, n, sel)
    BY <1>1, <1>2, <2>2, <2>3, NobodyNew DEF SelectInv
  <2>5. QED
    BY <2>1, <2>4 DEF new
<1>6. CASE Usable(m, purpose) /\ IndexOf(sel, m.satellite) # {}
  <2>1. PICK x \in 1..Len(sel) : sel[x].satellite = m.satellite
    BY <1>4, <1>6
  <2>2. ~IsFirst(ms, purpose, n)
    <3>1. PICK k \in BestOnes(ms, purpose, n - 1) : sel[x] = ms[k]
      BY <1>2
    <3>2. k \in 1..(n - 1) /\ Usable(ms[k], purpose) /\ ms[k].satellite = ms[n].satellite
      BY <2>1, <3>1 DEF BestOnes
    <3>3. QED
      BY <3>2 DEF IsFirst
  <2>3. new = [i \in 1..Len(sel) |->
                 IF i \in IndexOf(sel, m.satellite) /\ Priority[m.signal] < Priority[sel[i].signal]
                   THEN m ELSE sel[i]]
    BY <1>1, <1>6 DEF Consider
  <2>4. /\ new \in Seq(Measurements) /\ Len(new) = Len(sel)
        /\ \A i \in 1..Len(sel) :
             new[i] = IF sel[i].satellite = m.satellite /\ Priority[m.signal] < Priority[sel[i].signal]
                        THEN m ELSE sel[i]
    BY <1>1, <1>3, <1>4, <2>3
  <2> HIDE DEF new
  <2>5. \A i \in 1..Len(sel) : new[i].satellite = sel[i].satellite
    BY <2>4
  <2>6. ASSUME NEW i \in 1..Len(sel)
        PROVE  \E k \in BestOnes(ms, purpose, n) : new[i] = ms[k]
    <3>1. PICK k \in BestOnes(ms, purpose, n - 1) : sel[i] = ms[k]
      BY <1>2
    <3>2. CASE sel[i].satellite = m.satellite /\ Priority[m.signal] < Priority[sel[i].signal]
      <4>1. n \in BestOnes(ms, purpose, n)
        BY <1>6, <3>1, <3>2, BestReplaced
      <4>2. QED
        BY <2>4, <3>2, <4>1
    <3>3. CASE ~(sel[i].satellite = m.satellite /\ Priority[m.signal] < Priority[sel[i].signal])
      <4>1. ms[n].satellite # ms[k].satellite \/ Priority[ms[k].signal] <= Priority[ms[n].signal]
        BY <1>1, <1>3, <3>1, <3>3
      <4>2. k \in BestOnes(ms, purpose, n)
        BY <4>1, BestKept
      <4>3. QED
        BY <2>4, <3>1, <3>3, <4>2
    <3>4. QED
      BY <3>2, <3>3
  <2>7. /\ Served(ms, purpose, n) = Served(ms, purpose, n - 1)
        /\ Room(ms, purpose, n) = Room(ms, purpose, n - 1)
    BY <2>2, NobodyNew
  <2>8. \A i, j \in 1..Len(new) : new[i].satellite = new[j].satellite => i = j
    BY <1>2, <2>4, <2>5
  <2>9. \A s \in Served(ms, purpose, n) : \E i \in 1..Len(new) : new[i].satellite = s
    BY <1>2, <2>4, <2>5, <2>7
  <2>10. Len(new) = Room(ms, purpose, n)
    BY <1>2, <2>4, <2>7
  <2>11. \A i \in 1..Len(new) : \E k \in BestOnes(ms, purpose, n) : new[i] = ms[k]
    BY <2>4, <2>6
  <2>12. SelectInv(ms, purpose, n, new)
    BY <2>4, <2>8, <2>9, <2>10, <2>11 DEF SelectInv
  <2>13. QED
    BY <2>12 DEF new
<1>7. CASE Usable(m, purpose) /\ IndexOf(sel, m.satellite) = {} /\ Len(sel) < MaxSatellites
  <2> DEFINE c == Cardinality(Firsts(ms, purpose, n))
             d == Cardinality(Firsts(ms, purpose, n - 1))
  <2>1. c \in Nat /\ d \in Nat /\ MaxSatellites \in Nat
    BY FirstsFinite, SelectionAssumption
  <2>2. d < MaxSatellites /\ Len(sel) = d
    BY <1>2, <1>7, <2>1 DEF Room
  <2>3. IsFirst(ms, purpose, n)
    <3>1. ASSUME NEW j \in 1..(n - 1), Usable(ms[j], purpose), ms[j].satellite = ms[n].satellite
          PROVE  FALSE
      <4>1. ms[j].satellite \in Served(ms, purpose, n - 1)
        BY <2>1, <2>2, <3>1, AllServed
      <4>2. PICK i \in 1..Len(sel) : sel[i].satellite = ms[j].satellite
        BY <1>2, <4>1
      <4>3. QED
        BY <1>4, <1>7, <3>1, <4>2
    <3>2. QED
      BY <1>7, <3>1 DEF IsFirst
  <2>4. c = d + 1
    BY <2>3, FirstsCount
  <2>5. Room(ms, purpose, n) = Len(sel) + 1
    BY <2>1, <2>2, <2>4 DEF Room
  <2>6. Served(ms, purpose, n) = Served(ms, purpose, n - 1) \cup {m.satellite}
    BY <2>1, <2>2, <2>3, <2>4, ServedStep
  <2>7. n \in BestOnes(ms, purpose, n)
    BY <2>1, <2>2, <2>3, <2>4, BestNew
  <2>8. \A k \in BestOnes(ms, purpose, n - 1) : k \in BestOnes(ms, purpose, n)
    <3> SUFFICES ASSUME NEW k \in BestOnes(ms, purpose, n - 1) PROVE k \in BestOnes(ms, purpose, n)
      OBVIOUS
    <3>1. ms[n].satellite # ms[k].satellite
      BY <2>3 DEF BestOnes, IsFirst
    <3>2. QED
      BY <3>1, BestKept
  <2>9. new = Append(sel, m)
    BY <1>7 DEF Consider
  <2>10. /\ new \in Seq(Measurements) /\ Len(new) = Len(sel) + 1
         /\ \A i \in 1..Len(new) : new[i] = IF i = Len(sel) + 1 THEN m ELSE sel[i]
         /\ \A i \in 1..Len(new) : i # Len(sel) + 1 => i \in 1..Len(sel)
         /\ Len(sel) + 1 \in 1..Len(new) /\ \A i \in 1..Len(sel) : i \in 1..Len(new) /\ i # Len(sel) + 1
    BY <1>1, <2>9
  <2> HIDE DEF new, c, d
  <2>11. \A i \in 1..Len(sel) : sel[i].satellite # m.satellite
    BY <1>4, <1>7
  <2>12. \A i, j \in 1..Len(new) : new[i].satellite = new[j].satellite => i = j
    BY <1>2, <2>10, <2>11
  <2>13. \A i \in 1..Len(new) : \E k \in BestOnes(ms, purpose, n) : new[i] = ms[k]
    BY <1>2, <2>7, <2>8, <2>10
  <2>14. \A s \in Served(ms, purpose, n) : \E i \in 1..Len(new) : new[i].satellite = s
    BY <1>2, <2>6, <2>10
  <2>15. SelectInv(ms, purpose, n, new)
    BY <2>5, <2>10, <2>12, <2>13, <2>14 DEF SelectInv
  <2>16. QED
    BY <2>15 DEF new
<1>8. CASE Usable(m, purpose) /\ IndexOf(sel, m.satellite) = {} /\ ~(Len(sel) < MaxSatellites)
  <2> DEFINE c == Cardinality(Firsts(ms, purpose, n))
             d == Cardinality(Firsts(ms, purpose, n - 1))
  <2>1. c \in Nat /\ d \in Nat /\ MaxSatellites \in Nat
    BY FirstsFinite, SelectionAssumption
  <2>2. d >= MaxSatellites
    BY <1>2, <1>8, <2>1 DEF Room
  <2>3. ~(IsFirst(ms, purpose, n) /\ c <= MaxSatellites)
    BY <2>1, <2>2, FirstsCount
  <2>4. \A k \in BestOnes(ms, purpose, n - 1) : k \in BestOnes(ms, purpose, n)
    <3> SUFFICES ASSUME NEW k \in BestOnes(ms, purpose, n - 1) PROVE k \in BestOnes(ms, purpose, n)
      OBVIOUS
    <3>1. ms[k].satellite \in Served(ms, purpose, n - 1)
      BY DEF BestOnes
    <3>2. PICK i \in 1..Len(sel) : sel[i].satellite = ms[k].satellite
      BY <1>2, <3>1
    <3>3. ms[n].satellite # ms[k].satellite
      BY <1>4, <1>8, <3>2
    <3>4. QED
      BY <3>3, BestKept
  <2>5. new = sel
    BY <1>8 DEF Consider
  <2> HIDE DEF new, c, d
  <2>6. SelectInv(ms, purpose, n, sel)
    BY <1>1, <1>2, <2>3, <2>4, NobodyNew DEF SelectInv, c
  <2>7. QED
    BY <2>5, <2>6 DEF new
<1>9. QED
  BY <1>5, <1>6, <1>7, <1>8

LEMMA SelectionAlways ==
  ASSUME NEW ms \in Seq(Measurements), NEW purpose, NEW n \in 0..Len(ms)
  PROVE  SelectInv(ms, purpose, n, Considered(ms, purpose, n))
<1> DEFINE Bad == {k \in 0..Len(ms) : ~SelectInv(ms, purpose, k, Considered(ms, purpose, k))}
<1>1. SUFFICES ASSUME n \in Bad PROVE FALSE
  OBVIOUS
<1>2. PICK k \in Bad : \A j \in Bad : ~(j < k)
  <2>1. Bad \in SUBSET Nat
    OBVIOUS
  <2> HIDE DEF Bad
  <2>2. QED
    BY <1>1, <2>1, LeastNumber
<1>3. SelectInv(ms, purpose, 0, << >>)
  <2>1. Firsts(ms, purpose, 0) = {}
    BY DEF Firsts
  <2>2. Served(ms, purpose, 0) = {}
    BY <2>1 DEF Served
  <2>3. Room(ms, purpose, 0) = 0
    <3>1. Cardinality(Firsts(ms, purpose, 0)) = 0
      BY <2>1, FS_EmptySet
    <3>2. MaxSatellites \in Nat
      BY SelectionAssumption
    <3>3. QED
      BY <3>1, <3>2 DEF Room
  <2>4. << >> \in Seq(Measurements) /\ Len(<< >>) = 0
    OBVIOUS
  <2>5. QED
    BY <2>2, <2>3, <2>4 DEF SelectInv
<1>4. k # 0
  BY <1>2, <1>3, ConsideredUnfolds
<1>5. k \in 1..Len(ms) /\ k - 1 \in 0..Len(ms) /\ k - 1 < k
  BY <1>2, <1>4
<1>6. SelectInv(ms, purpose, k - 1, Considered(ms, purpose, k - 1))
  BY <1>2, <1>5
<1>7. SelectInv(ms, purpose, k, Consider(Considered(ms, purpose, k - 1), ms[k], purpose))
  BY <1>5, <1>6, SelectionStep
<1>8. QED
  BY <1>2, <1>5, <1>7, ConsideredUnfolds

-----------------------------------------------------------------------------
(* The sort.                                                               *)

Increasing(s) == \A i, j \in 1..Len(s) : i < j => s[i].satellite < s[j].satellite

LEMMA PlaceFacts ==
  ASSUME NEW s \in Seq(Measurements), NEW m \in Measurements
  PROVE  /\ Place(s, m) \in 0..Len(s)
         /\ Place(s, m) > 0 => s[Place(s, m)].satellite <= m.satellite
         /\ \A k \in (Place(s, m) + 1)..Len(s) : s[k].satellite > m.satellite
<1> DEFINE Behind == {p \in 0..Len(s) : \A k \in (p + 1)..Len(s) : s[k].satellite > m.satellite}
<1>1. Len(s) \in Nat /\ \A k \in 1..Len(s) : s[k].satellite \in Int
  BY MeasurementFacts
<1>2. m.satellite \in Int
  BY DEF Measurements
<1>3. Behind \in SUBSET Nat /\ Len(s) \in Behind
  BY <1>1
<1>4. PICK p \in Behind : \A q \in Behind : ~(q < p)
  <2> HIDE DEF Behind
  <2>1. QED
    BY <1>3, LeastNumber
<1>5. p \in 0..Len(s) /\ \A k \in (p + 1)..Len(s) : s[k].satellite > m.satellite
  BY <1>4
<1>6. p > 0 => s[p].satellite <= m.satellite
  <2> SUFFICES ASSUME p > 0, ~(s[p].satellite <= m.satellite) PROVE FALSE
    OBVIOUS
  <2>1. p \in 1..Len(s) /\ p - 1 \in 0..Len(s) /\ p - 1 < p
    BY <1>1, <1>5
  <2>2. s[p].satellite > m.satellite
    BY <1>1, <1>2, <2>1
  <2>3. \A k \in ((p - 1) + 1)..Len(s) : k = p \/ k \in (p + 1)..Len(s)
    BY <1>1, <1>5
  <2>4. p - 1 \in Behind
    BY <1>5, <2>1, <2>2, <2>3
  <2>5. QED
    BY <1>4, <2>1, <2>4
<1>7. \E q \in 0..Len(s) : /\ q > 0 => s[q].satellite <= m.satellite
                          /\ \A k \in (q + 1)..Len(s) : s[k].satellite > m.satellite
  BY <1>5, <1>6
<1> HIDE DEF Behind
<1>8. QED
  BY <1>7 DEF Place

LEMMA InsertFacts ==
  ASSUME NEW s \in Seq(Measurements), Increasing(s), NEW m \in Measurements,
         \A i \in 1..Len(s) : s[i].satellite # m.satellite
  PROVE  /\ Insert(s, m) \in Seq(Measurements) /\ Len(Insert(s, m)) = Len(s) + 1
         /\ Increasing(Insert(s, m))
         /\ \A i \in 1..(Len(s) + 1) :
              Insert(s, m)[i] = m \/ \E j \in 1..Len(s) : Insert(s, m)[i] = s[j]
         /\ \E i \in 1..(Len(s) + 1) : Insert(s, m)[i] = m
         /\ \A j \in 1..Len(s) : \E i \in 1..(Len(s) + 1) : Insert(s, m)[i] = s[j]
<1> DEFINE p == Place(s, m)
           n == Len(s)
           new == Insert(s, m)
<1>1. /\ n \in Nat /\ p \in 0..n
      /\ p > 0 => s[p].satellite <= m.satellite
      /\ \A k \in (p + 1)..n : s[k].satellite > m.satellite
  BY PlaceFacts
<1>2. /\ \A k \in 1..n : s[k] \in Measurements /\ s[k].satellite \in Int
      /\ m.satellite \in Int
  <2>1. m.satellite \in Int
    BY DEF Measurements
  <2>2. QED
    BY <2>1, MeasurementFacts
<1>3. new = [k \in 1..(n + 1) |->
               CASE k <= p -> s[k] [] k = p + 1 -> m [] k > p + 1 -> s[k - 1]]
  BY DEF Insert
<1> HIDE DEF p, new
<1>4. \A k \in 1..p : k \in 1..(n + 1) /\ k \in 1..n /\ new[k] = s[k]
  BY <1>1, <1>3
<1>5. p + 1 \in 1..(n + 1) /\ new[p + 1] = m
  BY <1>1, <1>3
<1>6. \A k \in (p + 2)..(n + 1) : k \in 1..(n + 1) /\ k - 1 \in (p + 1)..n /\ k - 1 \in 1..n /\ new[k] = s[k - 1]
  BY <1>1, <1>3
<1>7. \A k \in 1..(n + 1) : k \in 1..p \/ k = p + 1 \/ k \in (p + 2)..(n + 1)
  BY <1>1
<1>8. new \in Seq(Measurements) /\ Len(new) = n + 1
  <2>1. \A k \in 1..(n + 1) : new[k] \in Measurements
    BY <1>2, <1>4, <1>5, <1>6, <1>7
  <2>2. n + 1 \in Nat /\ DOMAIN new = 1..(n + 1) /\ new = [k \in 1..(n + 1) |-> new[k]]
    BY <1>1, <1>3
  <2>3. new \in [1..(n + 1) -> Measurements]
    BY <2>1, <2>2
  <2>4. QED
    BY <2>2, <2>3
<1>9. \A k \in 1..p : new[k].satellite < m.satellite
  <2> SUFFICES ASSUME NEW k \in 1..p PROVE s[k].satellite < m.satellite
    BY <1>4
  <2>1. p > 0 /\ p \in 1..n /\ k \in 1..n
    BY <1>1
  <2>2. s[p].satellite < m.satellite
    BY <1>1, <1>2, <2>1
  <2>3. k # p => s[k].satellite < s[p].satellite
    BY <2>1 DEF Increasing
  <2>4. QED
    BY <1>2, <2>1, <2>2, <2>3
<1>10. \A k \in (p + 2)..(n + 1) : m.satellite < new[k].satellite
  BY <1>1, <1>2, <1>6
<1>11. Increasing(new)
  <2> SUFFICES ASSUME NEW i \in 1..(n + 1), NEW j \in 1..(n + 1), i < j
               PROVE  new[i].satellite < new[j].satellite
    BY <1>8 DEF Increasing
  <2>1. CASE j \in 1..p
    <3>1. i \in 1..p
      BY <1>1, <2>1
    <3>2. QED
      BY <1>4, <2>1, <3>1 DEF Increasing
  <2>2. CASE j = p + 1
    <3>1. i \in 1..p
      BY <1>1, <2>2
    <3>2. QED
      BY <1>5, <1>9, <2>2, <3>1
  <2>3. CASE j \in (p + 2)..(n + 1)
    <3>1. CASE i \in 1..p
      <4>1. new[i].satellite < m.satellite /\ m.satellite < new[j].satellite
        BY <1>9, <1>10, <2>3, <3>1
      <4>2. new[i].satellite \in Int /\ new[j].satellite \in Int
        BY <1>2, <1>4, <1>6, <2>3, <3>1
      <4>3. QED
        BY <1>2, <4>1, <4>2
    <3>2. CASE i = p + 1
      BY <1>5, <1>10, <2>3, <3>2
    <3>3. CASE i \in (p + 2)..(n + 1)
      <4>1. i - 1 < j - 1 /\ i - 1 \in 1..n /\ j - 1 \in 1..n
        BY <1>6, <2>3, <3>3
      <4>2. s[i - 1].satellite < s[j - 1].satellite
        BY <4>1 DEF Increasing
      <4>3. QED
        BY <1>6, <2>3, <3>3, <4>2
    <3>4. QED
      BY <1>7, <3>1, <3>2, <3>3
  <2>4. QED
    BY <1>7, <2>1, <2>2, <2>3
<1>12. \A i \in 1..(n + 1) : new[i] = m \/ \E j \in 1..n : new[i] = s[j]
  BY <1>4, <1>5, <1>6, <1>7
<1>13. \A j \in 1..n : \E i \in 1..(n + 1) : new[i] = s[j]
  <2> SUFFICES ASSUME NEW j \in 1..n PROVE \E i \in 1..(n + 1) : new[i] = s[j]
    OBVIOUS
  <2>1. CASE j <= p
    <3>1. j \in 1..p
      BY <1>1, <2>1
    <3>2. QED
      BY <1>4, <3>1
  <2>2. CASE ~(j <= p)
    <3>1. j + 1 \in (p + 2)..(n + 1) /\ (j + 1) - 1 = j
      BY <1>1, <2>2
    <3>2. QED
      BY <1>6, <3>1
  <2>3. QED
    BY <2>1, <2>2
<1>14. QED
  BY <1>5, <1>8, <1>11, <1>12, <1>13 DEF new

SortInv(s, n, t) ==
  /\ t \in Seq(Measurements) /\ Len(t) = n /\ Increasing(t)
  /\ \A i \in 1..n : \E j \in 1..n : t[i] = s[j]
  /\ \A j \in 1..n : \E i \in 1..n : t[i] = s[j]

LEMMA SortStep ==
  ASSUME NEW s \in Seq(Measurements), NEW n \in 1..Len(s),
         \A i, j \in 1..Len(s) : s[i].satellite = s[j].satellite => i = j,
         NEW t, SortInv(s, n - 1, t)
  PROVE  SortInv(s, n, Insert(t, s[n]))
<1> DEFINE m == s[n]
           new == Insert(t, m)
<1>1. /\ t \in Seq(Measurements) /\ Len(t) = n - 1 /\ Increasing(t) /\ m \in Measurements
      /\ \A i \in 1..(n - 1) : \E j \in 1..(n - 1) : t[i] = s[j]
      /\ \A j \in 1..(n - 1) : \E i \in 1..(n - 1) : t[i] = s[j]
  <2>1. m \in Measurements
    BY MeasurementFacts
  <2> HIDE DEF m
  <2>2. QED
    BY <2>1 DEF SortInv
<1>2. \A j \in 1..(n - 1) : j \in 1..Len(s) /\ j # n /\ s[j].satellite # m.satellite /\ j \in 1..n
  OBVIOUS
<1>3. \A i \in 1..Len(t) : t[i].satellite # m.satellite
  BY <1>1, <1>2
<1> HIDE DEF m
<1>4. /\ new \in Seq(Measurements) /\ Len(new) = Len(t) + 1 /\ Increasing(new)
      /\ \A i \in 1..(Len(t) + 1) : new[i] = m \/ \E j \in 1..Len(t) : new[i] = t[j]
      /\ \E i \in 1..(Len(t) + 1) : new[i] = m
      /\ \A j \in 1..Len(t) : \E i \in 1..(Len(t) + 1) : new[i] = t[j]
  BY <1>1, <1>3, InsertFacts
<1> HIDE DEF new
<1>5. Len(t) + 1 = n /\ Len(t) = n - 1 /\ n \in 1..n
  BY <1>1
<1>6. \A i \in 1..n : \E j \in 1..n : new[i] = s[j]
  <2> SUFFICES ASSUME NEW i \in 1..n PROVE \E j \in 1..n : new[i] = s[j]
    OBVIOUS
  <2>1. CASE new[i] = m
    BY <1>5, <2>1 DEF m
  <2>2. CASE new[i] # m
    <3>1. PICK k \in 1..(n - 1) : new[i] = t[k]
      BY <1>4, <1>5, <2>2
    <3>2. PICK j \in 1..(n - 1) : t[k] = s[j]
      BY <1>1
    <3>3. QED
      BY <1>2, <3>1, <3>2
  <2>3. QED
    BY <2>1, <2>2
<1>7. \A j \in 1..n : \E i \in 1..n : new[i] = s[j]
  <2> SUFFICES ASSUME NEW j \in 1..n PROVE \E i \in 1..n : new[i] = s[j]
    OBVIOUS
  <2>1. CASE j = n
    BY <1>4, <1>5, <2>1 DEF m
  <2>2. CASE j # n
    <3>1. j \in 1..(n - 1)
      BY <2>2
    <3>2. PICK i \in 1..Len(t) : t[i] = s[j]
      BY <1>1, <1>5, <3>1
    <3>3. QED
      BY <1>4, <1>5, <3>2
  <2>3. QED
    BY <2>1, <2>2
<1>8. QED
  BY <1>4, <1>5, <1>6, <1>7 DEF SortInv, new, m

LEMMA SortAlways ==
  ASSUME NEW s \in Seq(Measurements), NEW n \in 0..Len(s),
         \A i, j \in 1..Len(s) : s[i].satellite = s[j].satellite => i = j
  PROVE  SortInv(s, n, InsertedTo(s, n))
<1> DEFINE Bad == {k \in 0..Len(s) : ~SortInv(s, k, InsertedTo(s, k))}
<1>1. SUFFICES ASSUME n \in Bad PROVE FALSE
  OBVIOUS
<1>2. PICK k \in Bad : \A j \in Bad : ~(j < k)
  <2>1. Bad \in SUBSET Nat
    OBVIOUS
  <2> HIDE DEF Bad
  <2>2. QED
    BY <1>1, <2>1, LeastNumber
<1>3. SortInv(s, 0, << >>)
  BY DEF SortInv, Increasing
<1>4. k # 0
  BY <1>2, <1>3, InsertedUnfolds
<1>5. k \in 1..Len(s) /\ k - 1 \in 0..Len(s) /\ k - 1 < k
  BY <1>2, <1>4
<1>6. SortInv(s, k - 1, InsertedTo(s, k - 1))
  BY <1>2, <1>5
<1>7. SortInv(s, k, Insert(InsertedTo(s, k - 1), s[k]))
  BY <1>5, <1>6, SortStep
<1>8. QED
  BY <1>2, <1>5, <1>7, InsertedUnfolds

-----------------------------------------------------------------------------
(* What the solvers get.                                                   *)

LEMMA SelectedFacts ==
  ASSUME NEW ms \in Seq(Measurements), NEW purpose
  PROVE  \E sel : /\ SelectInv(ms, purpose, Len(ms), sel)
                  /\ SortInv(sel, Len(sel), Selected(ms, purpose))
<1> DEFINE sel == Considered(ms, purpose, Len(ms))
<1>1. SelectInv(ms, purpose, Len(ms), sel)
  BY SelectionAlways
<1>2. Selected(ms, purpose) = InsertedTo(sel, Len(sel))
  BY DEF Selected
<1> HIDE DEF sel
<1>3. /\ sel \in Seq(Measurements) /\ Len(sel) \in 0..Len(sel)
      /\ \A i, j \in 1..Len(sel) : sel[i].satellite = sel[j].satellite => i = j
  BY <1>1 DEF SelectInv
<1>4. SortInv(sel, Len(sel), InsertedTo(sel, Len(sel)))
  BY <1>3, SortAlways
<1>5. QED
  BY <1>1, <1>2, <1>4

(* A satellite has one best measurement.                                   *)
LEMMA OneBest ==
  ASSUME NEW ms \in Seq(Measurements), NEW purpose,
         NEW j \in BestOnes(ms, purpose, Len(ms)), NEW k \in BestOnes(ms, purpose, Len(ms)),
         ms[j].satellite = ms[k].satellite
  PROVE  j = k
<1>1. /\ j \in 1..Len(ms) /\ Usable(ms[j], purpose)
      /\ k \in 1..Len(ms) /\ Usable(ms[k], purpose)
  BY DEF BestOnes
<1>2. Priority[ms[j].signal] \in Int /\ Priority[ms[k].signal] \in Int
  BY <1>1, MeasurementFacts
<1>3. \/ Priority[ms[j].signal] < Priority[ms[k].signal]
      \/ Priority[ms[j].signal] = Priority[ms[k].signal] /\ j <= k
  BY <1>1 DEF BestOnes
<1>4. \/ Priority[ms[k].signal] < Priority[ms[j].signal]
      \/ Priority[ms[k].signal] = Priority[ms[j].signal] /\ k <= j
  BY <1>1 DEF BestOnes
<1>5. QED
  BY <1>1, <1>2, <1>3, <1>4

\* consider_selected_observation and sort_selected_observations: whatever the
\* order of the measurements, a solver gets for each of the first satellites
\* that fit exactly its best usable measurement, in the order of satellites.
THEOREM BestIsSelected ==
  ASSUME NEW ms \in Seq(Measurements), NEW purpose
  PROVE  SelectionIsTheBest(ms, purpose)
<1> DEFINE t == Selected(ms, purpose)
<1>1. PICK sel : SelectInv(ms, purpose, Len(ms), sel) /\ SortInv(sel, Len(sel), t)
  BY SelectedFacts
<1> HIDE DEF t
<1>2. /\ t \in Seq(Measurements) /\ Len(t) = Len(sel) /\ DOMAIN t = 1..Len(sel)
      /\ \A i \in 1..Len(sel) : \E j \in 1..Len(sel) : t[i] = sel[j]
      /\ \A j \in 1..Len(sel) : \E i \in 1..Len(sel) : t[i] = sel[j]
  <2>1. t \in Seq(Measurements) /\ Len(t) = Len(sel)
    BY <1>1 DEF SortInv
  <2>2. DOMAIN t = 1..Len(sel)
    BY <2>1
  <2>3. QED
    BY <1>1, <2>1, <2>2 DEF SortInv
<1>3. /\ \A i \in 1..Len(sel) : \E k \in BestOnes(ms, purpose, Len(ms)) : sel[i] = ms[k]
      /\ \A s \in Served(ms, purpose, Len(ms)) : \E i \in 1..Len(sel) : sel[i].satellite = s
  BY <1>1 DEF SelectInv
<1>4. \A m \in ToSet(t) : m \in Best(ms, purpose)
  <2> SUFFICES ASSUME NEW i \in 1..Len(sel) PROVE t[i] \in Best(ms, purpose)
    BY <1>2 DEF ToSet
  <2>1. PICK j \in 1..Len(sel) : t[i] = sel[j]
    BY <1>2
  <2>2. PICK k \in BestOnes(ms, purpose, Len(ms)) : sel[j] = ms[k]
    BY <1>3
  <2>3. QED
    BY <2>1, <2>2 DEF Best
<1>5. ASSUME NEW k \in BestOnes(ms, purpose, Len(ms))
      PROVE  ms[k] \in ToSet(t)
  <2>1. ms[k].satellite \in Served(ms, purpose, Len(ms))
    BY DEF BestOnes
  <2>2. PICK i \in 1..Len(sel) : sel[i].satellite = ms[k].satellite
    BY <1>3, <2>1
  <2>3. PICK j \in BestOnes(ms, purpose, Len(ms)) : sel[i] = ms[j]
    BY <1>3
  <2>4. j = k
    BY <2>2, <2>3, OneBest
  <2>5. QED
    BY <1>2, <2>3, <2>4 DEF ToSet
<1>6. ToSet(t) = Best(ms, purpose)
  BY <1>4, <1>5 DEF Best
<1>7. ASSUME NEW k \in 2..Len(t)
      PROVE  t[k - 1].satellite < t[k].satellite
  <2>1. Len(t) \in Nat
    BY <1>2
  <2>2. k - 1 \in 1..Len(t) /\ k \in 1..Len(t) /\ k - 1 < k
    BY <2>1
  <2>3. QED
    BY <1>1, <2>2 DEF SortInv, Increasing
<1>8. QED
  BY <1>6, <1>7 DEF SelectionIsTheBest, t

LEMMA SatelliteCount ==
  ASSUME NEW S, IsFiniteSet(S), \A a, b \in S : a.satellite = b.satellite => a = b
  PROVE  Cardinality({m.satellite : m \in S}) = Cardinality(S)
<1> DEFINE T == {m.satellite : m \in S}
           f == [m \in S |-> m.satellite]
<1>1. f \in Bijection(S, T)
  <2>1. f \in [S -> T] /\ \A y \in T : \E x \in S : f[x] = y
    OBVIOUS
  <2>2. \A a, b \in S : f[a] = f[b] => a = b
    OBVIOUS
  <2> HIDE DEF f, T
  <2>3. QED
    BY <2>1, <2>2 DEF Bijection, Injection, Surjection, IsInjective
<1>2. ExistsBijection(S, T)
  BY <1>1 DEF ExistsBijection
<1>3. QED
  BY <1>2, FS_Bijection

LEMMA BestFacts ==
  ASSUME NEW ms \in Seq(Measurements), NEW purpose
  PROVE  /\ IsFiniteSet(Best(ms, purpose))
         /\ \A a, b \in Best(ms, purpose) : a.satellite = b.satellite => a = b
<1> DEFINE B == BestOnes(ms, purpose, Len(ms))
<1>1. B \subseteq 1..Len(ms) /\ Len(ms) \in Nat
  BY DEF BestOnes
<1>2. IsFiniteSet(B)
  <2>1. IsFiniteSet(1..Len(ms))
    BY <1>1, FS_Interval
  <2> HIDE DEF B
  <2>2. QED
    BY <1>1, <2>1, FS_Subset
<1>3. [k \in B |-> ms[k]] \in Surjection(B, Best(ms, purpose))
  BY DEF Surjection, Best
<1>4. IsFiniteSet(Best(ms, purpose))
  BY <1>2, <1>3, FS_Surjection
<1>5. QED
  BY <1>4, OneBest DEF Best

\* solve_receiver_epoch: a position rests on the best measurements of enough
\* satellites whose ephemeris the receiver holds, a velocity on enough and on
\* a position of this epoch or of an earlier one, whatever RTKLIB answers.
THEOREM SolutionsAreEarned ==
  ASSUME NEW ms \in Seq(Measurements), NEW hint \in BOOLEAN,
         NEW answer \in [position : BOOLEAN, velocity : BOOLEAN]
  PROVE  SolutionRestsOnTheBest(ms, hint, answer)
<1> DEFINE P == PositionInput(ms)
           V == VelocityInput(ms)
           s == SolveEpoch(ms, hint, answer)
<1>1. \A purpose : SelectionIsTheBest(ms, purpose)
  BY BestIsSelected
<1>2. /\ P = {b \in Best(ms, "Position") : b.ephemeris}
      /\ V = Best(ms, "Velocity")
  BY <1>1 DEF SelectionIsTheBest, PositionInput, VelocityInput
<1>3. /\ IsFiniteSet(P) /\ \A a, b \in P : a.satellite = b.satellite => a = b
      /\ IsFiniteSet(V) /\ \A a, b \in V : a.satellite = b.satellite => a = b
  <2>1. P \subseteq Best(ms, "Position")
    BY <1>2
  <2> HIDE DEF P, V
  <2>2. QED
    BY <1>2, <2>1, BestFacts, FS_Subset
<1>4. /\ s.position => Cardinality(P) >= MinObservations
      /\ s.velocity => (hint \/ s.position) /\ Cardinality(V) >= MinObservations
  BY DEF SolveEpoch
<1> HIDE DEF P, V
<1>5. /\ Cardinality({m.satellite : m \in P}) = Cardinality(P) /\ Cardinality(P) \in Nat
      /\ Cardinality({m.satellite : m \in V}) = Cardinality(V) /\ Cardinality(V) \in Nat
  BY <1>3, SatelliteCount, FS_CardinalityType
<1>6. MinObservations \in Nat
  BY SelectionAssumption
<1> HIDE DEF s
<1>7. /\ s.position => MinObservations <= Cardinality({m.satellite : m \in P})
      /\ s.velocity => (hint \/ s.position) /\ MinObservations <= Cardinality({m.satellite : m \in V})
  BY <1>4, <1>5, <1>6
<1>8. QED
  BY <1>1, <1>2, <1>7 DEF SolutionRestsOnTheBest, s
===============================================================================

----------------------- MODULE ExtendedValidationProofs -----------------------
(***************************************************************************)
(* Proofs of ExtendedValidation, for every timeline, every set of pipes    *)
(* and every size of buffer and pipe.                                      *)
(*                                                                         *)
(* Rows are only counted, so counting comes first: what sums of amounts    *)
(* are, what taking the head off a list of operations does to the rows in  *)
(* it, and what the lists of operations are made of.  The invariant IInv   *)
(* then follows a stream from its header to the end of its reader: what it *)
(* was given and is still to be given are the rows of the epochs begun,    *)
(* what was flushed is delivered, what a reader took was delivered, and    *)
(* what the harness looked at had ended, was late or is an error.          *)
(***************************************************************************)
EXTENDS ExtendedValidation, FiniteSetTheorems, SequenceTheorems, WellFoundedInduction,
        NaturalsInduction, TLAPS

-----------------------------------------------------------------------------
(* Sums of amounts.                                                        *)

(* Of a set of numbers that is not empty one is the least.                 *)
LEMMA LeastNumber ==
  ASSUME NEW S \in SUBSET Nat, NEW s \in S
  PROVE  \E n \in S : \A m \in S : ~(m < n)
<1>1. PICK n \in S : \A m \in S : ~(<<m, n>> \in OpToRel(<, Nat))
  BY NatLessThanWellFounded, WFMin
<1>2. \A m \in S : m < n => <<m, n>> \in OpToRel(<, Nat)
  BY DEF OpToRel
<1>3. QED
  BY <1>1, <1>2

(* The function SumTo evaluates, for the first n amounts.                  *)
IsSum(f, n, amounts) ==
  f = [k \in 0..n |-> IF k = 0 THEN 0 ELSE f[k - 1] + amounts[k]]

LEMMA SumStep ==
  ASSUME NEW amounts, NEW n \in Nat \ {0}, NEW f, IsSum(f, n - 1, amounts)
  PROVE  \E g : IsSum(g, n, amounts)
<1> DEFINE g == [k \in 0..n |-> IF k = n THEN f[n - 1] + amounts[n] ELSE f[k]]
<1>1. ASSUME NEW k \in 0..n
      PROVE  g[k] = IF k = 0 THEN 0 ELSE g[k - 1] + amounts[k]
  <2>1. CASE k = n
    BY <2>1
  <2>2. CASE k # n
    <3>1. k \in 0..(n - 1) /\ (k # 0 => k - 1 \in 0..(n - 1) /\ k - 1 # n)
      BY <2>2
    <3>2. g[k] = f[k] /\ (k # 0 => g[k - 1] = f[k - 1])
      BY <2>2, <3>1
    <3>3. f[k] = IF k = 0 THEN 0 ELSE f[k - 1] + amounts[k]
      BY <3>1 DEF IsSum
    <3> HIDE DEF g
    <3>4. QED
      BY <3>2, <3>3
  <2>3. QED
    BY <2>1, <2>2
<1>2. g = [k \in 0..n |-> g[k]]
  OBVIOUS
<1> HIDE DEF g
<1>3. IsSum(g, n, amounts)
  BY <1>1, <1>2 DEF IsSum
<1>4. QED
  BY <1>3

LEMMA SumExists ==
  ASSUME NEW amounts, NEW n \in Nat
  PROVE  \E f : IsSum(f, n, amounts)
<1> DEFINE Without == {m \in Nat : \A f : ~IsSum(f, m, amounts)}
<1>1. SUFFICES ASSUME n \in Without PROVE FALSE
  OBVIOUS
<1>2. PICK m \in Without : \A k \in Without : ~(k < m)
  <2>1. Without \in SUBSET Nat
    OBVIOUS
  <2> HIDE DEF Without
  <2>2. QED
    BY <1>1, <2>1, LeastNumber
<1>3. IsSum([k \in 0..0 |-> 0], 0, amounts)
  BY DEF IsSum
<1>4. m # 0
  BY <1>3
<1>5. m - 1 \in Nat /\ m - 1 < m
  BY <1>4
<1>6. PICK f : IsSum(f, m - 1, amounts)
  BY <1>2, <1>5
<1>7. QED
  BY <1>4, <1>6, SumStep

LEMMA SumUnfolds ==
  ASSUME NEW S, NEW amounts \in Seq(S)
  PROVE  /\ SumTo(amounts, 0) = 0
         /\ \A n \in 1..Len(amounts) :
              SumTo(amounts, n) = SumTo(amounts, n - 1) + amounts[n]
<1> DEFINE f == CHOOSE f : IsSum(f, Len(amounts), amounts)
<1>1. Len(amounts) \in Nat
  OBVIOUS
<1>2. IsSum(f, Len(amounts), amounts)
  BY <1>1, SumExists
<1>3. \A n : SumTo(amounts, n) = f[n]
  BY DEF SumTo, IsSum
<1> HIDE DEF f
<1>4. \A n \in 0..Len(amounts) : f[n] = IF n = 0 THEN 0 ELSE f[n - 1] + amounts[n]
  BY <1>2 DEF IsSum
<1>5. QED
  BY <1>1, <1>3, <1>4

(* A sum is a number, and the sum of fewer amounts is at most the whole.   *)
LEMMA SumFacts ==
  ASSUME NEW amounts \in Seq(Nat), NEW n \in 0..Len(amounts)
  PROVE  /\ SumTo(amounts, n) \in Nat
         /\ SumTo(amounts, n) <= SumTo(amounts, Len(amounts))
<1> DEFINE L == Len(amounts)
           s(k) == SumTo(amounts, k)
<1>1. L \in Nat /\ \A k \in 1..L : amounts[k] \in Nat
  BY ElementOfSeq
<1>2. s(0) = 0 /\ \A k \in 1..L : s(k) = s(k - 1) + amounts[k]
  BY SumUnfolds
<1> HIDE DEF s
<1>3. ASSUME NEW k \in 0..L PROVE s(k) \in Nat
  <2> DEFINE Bad == {i \in 0..L : s(i) \notin Nat}
  <2>1. SUFFICES ASSUME k \in Bad PROVE FALSE
    BY <1>1
  <2>2. PICK i \in Bad : \A j \in Bad : ~(j < i)
    <3>1. Bad \in SUBSET Nat
      BY <1>1
    <3> HIDE DEF Bad
    <3>2. QED
      BY <2>1, <3>1, LeastNumber
  <2>3. i # 0
    BY <1>2, <2>2
  <2>4. i \in 1..L /\ i - 1 \in 0..L /\ i - 1 < i
    BY <1>1, <2>2, <2>3
  <2>5. s(i - 1) \in Nat
    BY <2>2, <2>4
  <2>6. s(i) \in Nat
    <3>1. s(i) = s(i - 1) + amounts[i]
      BY <1>2, <2>4
    <3>2. amounts[i] \in Nat
      BY <1>1, <2>4
    <3>3. QED
      BY <2>5, <3>1, <3>2
  <2>7. QED
    BY <2>2, <2>6
<1>4. s(n) <= s(L)
  <2> DEFINE Bad == {d \in 0..L : ~(s(L - d) <= s(L))}
  <2>1. SUFFICES ASSUME L - n \in Bad PROVE FALSE
    BY <1>1
  <2>2. PICK d \in Bad : \A e \in Bad : ~(e < d)
    <3>1. Bad \in SUBSET Nat
      BY <1>1
    <3> HIDE DEF Bad
    <3>2. QED
      BY <2>1, <3>1, LeastNumber
  <2>3. s(L) \in Nat
    BY <1>1, <1>3
  <2>4. d # 0
    BY <1>1, <2>2, <2>3
  <2>5. d - 1 \in 0..L /\ d - 1 < d /\ L - d \in 0..L /\ L - d + 1 \in 1..L
    BY <1>1, <2>2, <2>4
  <2>6. s(L - (d - 1)) <= s(L)
    BY <2>2, <2>5
  <2>7. s(L - d + 1) = s(L - d) + amounts[L - d + 1]
    <3>1. (L - d + 1) - 1 = L - d /\ L \in Int /\ d \in Int
      BY <1>1, <2>2
    <3>2. QED
      BY <1>2, <2>5, <3>1
  <2>8. L - (d - 1) = L - d + 1
    BY <1>1, <2>2
  <2>9. s(L - d) \in Nat /\ amounts[L - d + 1] \in Nat /\ s(L - d + 1) \in Nat
    <3>1. s(L - d) \in Nat /\ amounts[L - d + 1] \in Nat
      BY <1>1, <1>3, <2>5
    <3>2. QED
      BY <2>7, <3>1
  <2>10. s(L - d) <= s(L)
    BY <2>3, <2>6, <2>7, <2>8, <2>9
  <2>11. QED
    BY <2>2, <2>10
<1>5. QED
  BY <1>1, <1>3, <1>4 DEF s

-----------------------------------------------------------------------------
(* Lists of operations.                                                    *)

RowOps   == [kind : {"row"}, file : Streams]
CloseOps == [kind : {"close"}, file : Streams]
OpenOps  == [kind : {"open"}, file : Streams]
Ops == [kind : {"open", "text", "row", "flush", "close"}, file : Streams \cup TextFiles]

LEMMA MembersOfTail ==
  ASSUME NEW S, NEW s \in Seq(S), s # << >>
  PROVE  /\ Len(s) \in Nat \ {0} /\ s[1] \in S /\ s[1] \in ToSet(s)
         /\ Tail(s) \in Seq(S) /\ Len(Tail(s)) = Len(s) - 1
         /\ \A k \in 1..(Len(s) - 1) : Tail(s)[k] = s[k + 1]
         /\ ToSet(s) = ToSet(Tail(s)) \cup {s[1]}
<1>1. Len(s) \in Nat \ {0}
  BY EmptySeq
<1>2. /\ Tail(s) \in Seq(S) /\ Len(Tail(s)) = Len(s) - 1
      /\ \A k \in 1..(Len(s) - 1) : Tail(s)[k] = s[k + 1]
  BY HeadTailProperties
<1>3. DOMAIN s = 1..Len(s) /\ DOMAIN Tail(s) = 1..(Len(s) - 1)
  BY <1>2
<1>4. s[1] \in S /\ s[1] \in ToSet(s)
  BY <1>1, <1>3, ElementOfSeq DEF ToSet
<1>5. ToSet(s) \subseteq ToSet(Tail(s)) \cup {s[1]}
  <2> SUFFICES ASSUME NEW k \in 1..Len(s), k # 1 PROVE s[k] \in ToSet(Tail(s))
    BY <1>3 DEF ToSet
  <2>1. k - 1 \in 1..(Len(s) - 1) /\ s[k] = Tail(s)[k - 1]
    BY <1>1, <1>2
  <2>2. QED
    BY <1>3, <2>1 DEF ToSet
<1>6. ToSet(Tail(s)) \subseteq ToSet(s)
  <2> SUFFICES ASSUME NEW k \in 1..(Len(s) - 1) PROVE Tail(s)[k] \in ToSet(s)
    BY <1>3 DEF ToSet
  <2>1. k + 1 \in 1..Len(s) /\ Tail(s)[k] = s[k + 1]
    BY <1>1, <1>2
  <2>2. QED
    BY <1>3, <2>1 DEF ToSet
<1>7. QED
  BY <1>1, <1>2, <1>4, <1>5, <1>6

LEMMA NoMembers == ToSet(<< >>) = {}
  BY DEF ToSet

LEMMA RowsInType ==
  ASSUME NEW S, NEW ops \in Seq(S), NEW f
  PROVE  /\ IsFiniteSet({k \in DOMAIN ops : ops[k] = Op("row", f)})
         /\ RowsIn(ops, f) \in Nat
         /\ ops = << >> => RowsIn(ops, f) = 0
<1> DEFINE P == {k \in DOMAIN ops : ops[k] = Op("row", f)}
<1>1. IsFiniteSet(1..Len(ops)) /\ DOMAIN ops = 1..Len(ops)
  BY FS_Interval
<1>2. P \in SUBSET (1..Len(ops))
  BY <1>1
<1>3. IsFiniteSet(P)
  <2> HIDE DEF P
  <2>1. QED
    BY <1>1, <1>2, FS_Subset
<1>4. RowsIn(ops, f) = Cardinality(P)
  BY DEF RowsIn
<1>5. ops = << >> => P = {}
  OBVIOUS
<1> HIDE DEF P
<1>6. RowsIn(ops, f) \in Nat
  BY <1>3, <1>4, FS_CardinalityType
<1>7. ops = << >> => RowsIn(ops, f) = 0
  BY <1>4, <1>5, FS_EmptySet
<1>8. QED
  BY <1>3, <1>6, <1>7 DEF P

(* A row taken off the list is one row less of its stream, and of no other.*)
LEMMA RowsInTail ==
  ASSUME NEW S, NEW ops \in Seq(S), ops # << >>, NEW f
  PROVE  RowsIn(ops, f) =
           RowsIn(Tail(ops), f) + (IF ops[1] = Op("row", f) THEN 1 ELSE 0)
<1> DEFINE P == {k \in DOMAIN ops : ops[k] = Op("row", f)}
           Q == {k \in DOMAIN Tail(ops) : Tail(ops)[k] = Op("row", f)}
           R == P \ {1}
           shift == [k \in R |-> k - 1]
<1>1. /\ Len(ops) \in Nat \ {0}
      /\ DOMAIN ops = 1..Len(ops) /\ DOMAIN Tail(ops) = 1..(Len(ops) - 1)
      /\ \A k \in 1..(Len(ops) - 1) : Tail(ops)[k] = ops[k + 1]
  BY MembersOfTail
<1>2. IsFiniteSet(P)
  BY RowsInType
<1>3. /\ R \subseteq 2..Len(ops) /\ Q \subseteq 1..(Len(ops) - 1)
      /\ \A k \in R : k - 1 \in Q
      /\ \A k \in Q : k + 1 \in R
  BY <1>1
<1>4. 1 \in P <=> ops[1] = Op("row", f)
  BY <1>1
<1>5. Cardinality(P) \in Nat /\ IsFiniteSet(R)
      /\ Cardinality(R) = IF 1 \in P THEN Cardinality(P) - 1 ELSE Cardinality(P)
  <2> HIDE DEF P
  <2>1. QED
    BY <1>2, FS_RemoveElement, FS_CardinalityType
<1>6. RowsIn(ops, f) = Cardinality(P) /\ RowsIn(Tail(ops), f) = Cardinality(Q)
  BY DEF RowsIn
<1> HIDE DEF P, Q, R
<1>7. shift \in Bijection(R, Q)
  <2>1. shift \in [R -> Q] /\ \A k \in R : shift[k] = k - 1
    BY <1>3
  <2>2. \A a, b \in R : shift[a] = shift[b] => a = b
    BY <1>1, <1>3, <2>1
  <2>3. \A q \in Q : q + 1 \in R /\ shift[q + 1] = q
    BY <1>1, <1>3, <2>1
  <2> HIDE DEF shift
  <2>4. QED
    BY <2>1, <2>2, <2>3 DEF Bijection, Injection, Surjection, IsInjective
<1>8. Cardinality(Q) = Cardinality(R)
  <2>1. ExistsBijection(R, Q)
    BY <1>7 DEF ExistsBijection
  <2>2. QED
    BY <1>5, <2>1, FS_Bijection
<1>9. QED
  BY <1>4, <1>5, <1>6, <1>8

(* What the lists of each phase are made of.                               *)
LEMMA CreateFacts ==
  /\ CreateOps \in Seq(Ops)
  /\ ToSet(CreateOps) \subseteq OpenOps \cup {Op("text", "scenario")}
  /\ \A f \in Streams : Op("open", f) \in ToSet(CreateOps)
  /\ Op("text", "scenario") \in ToSet(CreateOps)
<1>1. Len(CreateOps) = 8 /\ DOMAIN CreateOps = 1..8
  BY DEF CreateOps
<1>2. \A k \in 1..8 : CreateOps[k] \in OpenOps \cup {Op("text", "scenario")}
  BY DEF CreateOps, OpenOps, Op, Streams
<1>3. OpenOps \cup {Op("text", "scenario")} \subseteq Ops
  BY DEF OpenOps, Ops, Op, TextFiles
<1>4. /\ CreateOps[1] = Op("open", "log") /\ CreateOps[2] = Op("open", "event")
      /\ CreateOps[3] = Op("open", "observation") /\ CreateOps[4] = Op("open", "solution")
      /\ CreateOps[5] = Op("text", "scenario") /\ CreateOps[6] = Op("open", "carrier")
      /\ CreateOps[7] = Op("open", "signal") /\ CreateOps[8] = Op("open", "path")
  BY DEF CreateOps
<1>5. CreateOps = [k \in 1..8 |-> CreateOps[k]]
  BY DEF CreateOps
<1> HIDE DEF CreateOps
<1>6. CreateOps \in Seq(Ops)
  BY <1>2, <1>3, <1>5
<1>7. \A k \in 1..8 : CreateOps[k] \in ToSet(CreateOps)
  BY <1>1 DEF ToSet
<1>8. \A f \in Streams : Op("open", f) \in ToSet(CreateOps)
  BY <1>4, <1>7 DEF Streams
<1>9. QED
  BY <1>1, <1>2, <1>4, <1>6, <1>7, <1>8 DEF ToSet

(* A stream is flushed before it is closed, and the manifest comes last.   *)
FlushAt == [log |-> 1, carrier |-> 3, signal |-> 5, path |-> 6,
            event |-> 9, observation |-> 10, solution |-> 11]
CloseAt == [log |-> 2, carrier |-> 4, signal |-> 7, path |-> 8,
            event |-> 12, observation |-> 13, solution |-> 14]

LEMMA FinishFacts ==
  /\ FinishOps \in Seq(Ops) /\ Len(FinishOps) = 15
  /\ \A f \in Streams : Op("flush", f) \in ToSet(FinishOps)
  /\ \A i, j \in DOMAIN FinishOps :
       FinishOps[i].kind = "flush" /\ FinishOps[j] = Op("close", FinishOps[i].file) => i < j
  /\ \A i \in DOMAIN FinishOps :
       /\ FinishOps[i].kind \in {"flush", "close", "text"}
       /\ FinishOps[i].kind \in {"flush", "close"} => FinishOps[i].file \in Streams
       /\ FinishOps[i].kind = "text" => FinishOps[i] = Op("text", "manifest")
       /\ FinishOps[i].kind = "text" <=> i = Len(FinishOps)
<1>1. Len(FinishOps) = 15 /\ DOMAIN FinishOps = 1..15
  BY DEF FinishOps
<1>2. ASSUME NEW i \in 1..15
      PROVE  /\ FinishOps[i] \in Ops
             /\ FinishOps[i].kind \in {"flush", "close", "text"}
             /\ FinishOps[i].kind = "flush" =>
                  FinishOps[i].file \in Streams /\ i = FlushAt[FinishOps[i].file]
             /\ FinishOps[i].kind = "close" =>
                  FinishOps[i].file \in Streams /\ i = CloseAt[FinishOps[i].file]
             /\ FinishOps[i].kind = "text" <=> i = 15
             /\ i = 15 => FinishOps[i] = Op("text", "manifest")
  BY DEF FinishOps, Ops, Op, Streams, TextFiles, FlushAt, CloseAt
<1>3. \A f \in Streams : FlushAt[f] < CloseAt[f]
  BY DEF Streams, FlushAt, CloseAt
<1>4. \A f \in Streams : FlushAt[f] \in 1..15 /\ FinishOps[FlushAt[f]] = Op("flush", f)
  BY DEF Streams, FlushAt, FinishOps
<1>5. FinishOps = [k \in 1..15 |-> FinishOps[k]]
  BY DEF FinishOps
<1> HIDE DEF FinishOps
<1>6. FinishOps \in Seq(Ops)
  BY <1>2, <1>5
<1>7. \A f \in Streams : Op("flush", f) \in ToSet(FinishOps)
  BY <1>1, <1>4 DEF ToSet
<1>8. ASSUME NEW i \in 1..15, NEW j \in 1..15, FinishOps[i].kind = "flush",
             FinishOps[j] = Op("close", FinishOps[i].file)
      PROVE  i < j
  <2>1. FinishOps[j].kind = "close" /\ FinishOps[j].file = FinishOps[i].file
    BY <1>8 DEF Op
  <2>2. FinishOps[i].file \in Streams
        /\ i = FlushAt[FinishOps[i].file] /\ j = CloseAt[FinishOps[i].file]
    BY <1>2, <1>8, <2>1
  <2>3. QED
    BY <1>3, <2>2
<1>9. QED
  BY <1>1, <1>2, <1>6, <1>7, <1>8

LEMMA ConcatMembers ==
  ASSUME NEW S, NEW s \in Seq(S), NEW t \in Seq(S)
  PROVE  s \o t \in Seq(S) /\ ToSet(s \o t) = ToSet(s) \cup ToSet(t)
<1>1. /\ s \o t \in Seq(S) /\ Len(s \o t) = Len(s) + Len(t)
      /\ \A k \in 1..(Len(s) + Len(t)) :
           (s \o t)[k] = IF k <= Len(s) THEN s[k] ELSE t[k - Len(s)]
  BY ConcatProperties
<1>2. /\ Len(s) \in Nat /\ Len(t) \in Nat
      /\ DOMAIN s = 1..Len(s) /\ DOMAIN t = 1..Len(t)
      /\ DOMAIN (s \o t) = 1..(Len(s) + Len(t))
  BY <1>1
<1>3. ToSet(s \o t) \subseteq ToSet(s) \cup ToSet(t)
  <2> SUFFICES ASSUME NEW k \in 1..(Len(s) + Len(t))
               PROVE  (s \o t)[k] \in ToSet(s) \cup ToSet(t)
    BY <1>2 DEF ToSet
  <2>1. CASE k <= Len(s)
    BY <1>1, <1>2, <2>1 DEF ToSet
  <2>2. CASE ~(k <= Len(s))
    <3>1. k - Len(s) \in 1..Len(t) /\ (s \o t)[k] = t[k - Len(s)]
      BY <1>1, <1>2, <2>2
    <3>2. QED
      BY <1>2, <3>1 DEF ToSet
  <2>3. QED
    BY <2>1, <2>2
<1>4. \A k \in 1..Len(s) : s[k] \in ToSet(s \o t)
  <2> TAKE k \in 1..Len(s)
  <2>1. k \in 1..(Len(s) + Len(t)) /\ (s \o t)[k] = s[k]
    BY <1>1, <1>2
  <2>2. QED
    BY <1>2, <2>1 DEF ToSet
<1>5. \A k \in 1..Len(t) : t[k] \in ToSet(s \o t)
  <2> TAKE k \in 1..Len(t)
  <2>1. /\ k + Len(s) \in 1..(Len(s) + Len(t)) /\ ~(k + Len(s) <= Len(s))
        /\ (k + Len(s)) - Len(s) = k
    BY <1>2
  <2>2. (s \o t)[k + Len(s)] = t[k]
    BY <1>1, <2>1
  <2>3. QED
    BY <1>2, <2>1, <2>2 DEF ToSet
<1>6. ToSet(s) \cup ToSet(t) \subseteq ToSet(s \o t)
  BY <1>2, <1>4, <1>5 DEF ToSet
<1>7. QED
  BY <1>1, <1>3, <1>6

LEMMA ConcatNotEmpty ==
  ASSUME NEW S, NEW s \in Seq(S), NEW t \in Seq(S), s # << >> \/ t # << >>
  PROVE  s \o t \in Seq(S) /\ s \o t # << >>
<1>1. s \o t \in Seq(S) /\ Len(s \o t) = Len(s) + Len(t)
  BY ConcatProperties
<1>2. Len(s) \in Nat /\ Len(t) \in Nat /\ (Len(s) # 0 \/ Len(t) # 0)
  BY EmptySeq
<1>3. Len(s \o t) # 0
  BY <1>1, <1>2
<1>4. QED
  BY <1>1, <1>3, EmptySeq

(* The streams that are open are closed, and the captures are passed over  *)
(* one by one: none is left out.                                           *)
LEMMA CleanupFacts == CleanupOps \in Seq(CloseOps)
<1> DEFINE Closing(f) == IF stream[f].open THEN <<Op("close", f)>> ELSE << >>
<1>1. ASSUME NEW f \in Streams PROVE Closing(f) \in Seq(CloseOps)
  <2>1. Op("close", f) \in CloseOps
    BY DEF CloseOps, Op
  <2>2. <<Op("close", f)>> \in Seq(CloseOps) /\ << >> \in Seq(CloseOps)
    BY <2>1
  <2>3. QED
    BY <2>2
<1> HIDE DEF Closing
<1>2. Closing("log") \in Seq(CloseOps)
  BY <1>1 DEF Streams
<1> DEFINE writers == Closing("path") \o Closing("signal") \o Closing("carrier")
                      \o Closing("solution") \o Closing("observation") \o Closing("event")
<1>3. writers \in Seq(CloseOps)
  BY <1>1, ConcatProperties DEF Streams
<1>4. CleanupOps = IF phase = "create" THEN writers \o Closing("log")
                                       ELSE Closing("log") \o writers
  BY DEF CleanupOps, Closing
<1> HIDE DEF writers
<1>5. QED
  BY <1>2, <1>3, <1>4, ConcatProperties

LEMMA FifoOrderFacts ==
  FifoOrder \in Seq(Fifos) /\ ToSet(FifoOrder) = Fifos
<1> DEFINE Used(f) == IF f \in Fifos THEN <<f>> ELSE << >>
<1>1. ASSUME NEW f PROVE Used(f) \in Seq(Fifos) /\ ToSet(Used(f)) = Fifos \cap {f}
  <2>1. CASE f \in Fifos
    <3>1. DOMAIN <<f>> = 1..1 /\ <<f>>[1] = f
      OBVIOUS
    <3>2. ToSet(<<f>>) = {f}
      BY <3>1 DEF ToSet
    <3>3. QED
      BY <2>1, <3>2
  <2>2. CASE f \notin Fifos
    BY <2>2, NoMembers
  <2>3. QED
    BY <2>1, <2>2
<1>2. FifoOrder = Used("log") \o Used("event") \o Used("observation") \o Used("solution")
  BY DEF FifoOrder
<1> HIDE DEF Used
<1> DEFINE two == Used("log") \o Used("event")
           three == two \o Used("observation")
<1>3. two \in Seq(Fifos) /\ ToSet(two) = Fifos \cap {"log", "event"}
  BY <1>1, ConcatMembers
<1> HIDE DEF two
<1>4. three \in Seq(Fifos) /\ ToSet(three) = Fifos \cap {"log", "event", "observation"}
  BY <1>1, <1>3, ConcatMembers
<1> HIDE DEF three
<1>5. /\ three \o Used("solution") \in Seq(Fifos)
      /\ ToSet(three \o Used("solution")) = Fifos \cap FIFO_NAMES
  BY <1>1, <1>4, ConcatMembers DEF FIFO_NAMES
<1>6. QED
  BY <1>2, <1>5, HarnessAssumption DEF two, three

LEMMA RepeatedType ==
  ASSUME NEW S, NEW block \in Seq(S), block # << >>, NEW n \in Nat
  PROVE  Repeated(block, n) \in Seq(S)
<1> DEFINE L == Len(block)
<1>1. L \in Nat \ {0} /\ \A k \in 1..L : block[k] \in S
  BY EmptySeq, ElementOfSeq
<1> HIDE DEF L
<1>2. ASSUME NEW k \in 1..(n * L) PROVE block[((k - 1) % L) + 1] \in S
  <2>1. n * L \in Nat
    BY <1>1
  <2>2. k - 1 \in Nat
    BY <2>1
  <2>3. (k - 1) % L \in 0..(L - 1)
    BY <1>1, <2>2
  <2>4. QED
    BY <1>1, <2>3
<1>3. n * L \in Nat
  BY <1>1
<1>4. [k \in 1..(n * L) |-> block[((k - 1) % L) + 1]] \in Seq(S)
  BY <1>2, <1>3
<1>5. QED
  BY <1>4 DEF Repeated, L

(* An epoch writes nothing but rows, whatever it is made of.               *)
LEMMA EpochOpsType ==
  ASSUME NEW k \in 1..Len(Timeline)
  PROVE  EpochOps(Timeline[k]) \in Seq(RowOps)
<1> DEFINE e == Timeline[k]
<1>1. /\ e.events \in Nat /\ e.startup \in Nat /\ e.searching \in Nat
      /\ e.tracked \in Nat /\ e.nav \in Nat
  <2>1. e \in [events : Nat, powered : BOOLEAN, startup : Nat, searching : Nat,
               tracked : Nat, nav : Nat]
    BY RunAssumption, ElementOfSeq
  <2> HIDE DEF e
  <2>2. QED
    BY <2>1
<1> HIDE DEF e
<1>2. \A f \in Streams : Op("row", f) \in RowOps
  BY DEF Op, RowOps
<1>3. \A f \in Streams : <<Op("row", f)>> \in Seq(RowOps)
  BY <1>2
<1>4. ASSUME NEW n \in Nat, NEW f \in Streams PROVE Rows(n, f) \in Seq(RowOps)
  BY <1>2 DEF Rows
<1>5. {"event", "log", "solution", "carrier", "signal", "path", "observation"} \subseteq Streams
  BY DEF Streams
<1>6. SearchingOps \in Seq(RowOps) /\ SearchingOps # << >>
  <2> DEFINE always == <<Op("row", "carrier")>>
  <2>1. always \in Seq(RowOps) /\ always # << >>
    BY <1>3, <1>5
  <2>2. UrbanOps \in Seq(RowOps)
    BY <1>2, <1>5 DEF UrbanOps
  <2>3. SearchingOps = always \o UrbanOps
    BY DEF SearchingOps
  <2> HIDE DEF always
  <2>4. QED
    BY <2>1, <2>2, <2>3, ConcatNotEmpty
<1>7. TrackedOps \in Seq(RowOps) /\ TrackedOps # << >>
  <2> DEFINE always == <<Op("row", "observation"), Op("row", "carrier")>>
  <2>1. always \in Seq(RowOps) /\ always # << >>
    BY <1>2, <1>5
  <2>2. UrbanOps \in Seq(RowOps)
    BY <1>2, <1>5 DEF UrbanOps
  <2>3. TrackedOps = UrbanOps \o always
    BY DEF TrackedOps
  <2> HIDE DEF always
  <2>4. QED
    BY <2>1, <2>2, <2>3, ConcatNotEmpty
<1>8. /\ Rows(e.events, "event") \in Seq(RowOps) /\ Rows(e.startup, "log") \in Seq(RowOps)
      /\ Rows(e.nav, "log") \in Seq(RowOps) /\ LogOps \in Seq(RowOps)
      /\ <<Op("row", "solution")>> \in Seq(RowOps)
  BY <1>1, <1>3, <1>4, <1>5 DEF LogOps
<1>9. /\ Repeated(SearchingOps, e.searching) \in Seq(RowOps)
      /\ Repeated(TrackedOps, e.tracked) \in Seq(RowOps)
  BY <1>1, <1>6, <1>7, RepeatedType
<1>10. << >> \in Seq(RowOps)
  OBVIOUS
<1> DEFINE a == Rows(e.startup, "log")
           b == a \o Repeated(SearchingOps, e.searching)
           c == b \o Repeated(TrackedOps, e.tracked)
           d == c \o Rows(e.nav, "log")
           g == d \o <<Op("row", "solution")>>
<1>11. b \in Seq(RowOps)
  BY <1>8, <1>9, ConcatProperties
<1> HIDE DEF b
<1>12. c \in Seq(RowOps)
  BY <1>9, <1>11, ConcatProperties
<1> HIDE DEF c
<1>13. d \in Seq(RowOps)
  BY <1>8, <1>12, ConcatProperties
<1> HIDE DEF d
<1>14. g \in Seq(RowOps)
  BY <1>8, <1>13, ConcatProperties
<1> HIDE DEF g
<1>15. g \o LogOps \in Seq(RowOps)
  BY <1>8, <1>14, ConcatProperties
<1>16. EpochOps(e) = Rows(e.events, "event") \o (IF e.powered THEN g \o LogOps ELSE << >>)
  BY DEF EpochOps, b, c, d, g
<1>17. EpochOps(e) \in Seq(RowOps)
  BY <1>8, <1>10, <1>15, <1>16, ConcatProperties
<1>18. QED
  BY <1>17 DEF e

(* A list of row operations is a list of operations.                       *)
LEMMA OpsTypes ==
  /\ \A s \in Seq(RowOps) : s \in Seq(Ops) /\ ToSet(s) \subseteq RowOps
  /\ \A s \in Seq(CloseOps) : s \in Seq(Ops) /\ ToSet(s) \subseteq CloseOps
<1>1. RowOps \subseteq Ops /\ CloseOps \subseteq Ops
  BY DEF RowOps, CloseOps, Ops
<1>2. QED
  BY <1>1 DEF ToSet

-----------------------------------------------------------------------------
(* The rows of the epochs.                                                 *)

LEMMA RowsToFacts ==
  ASSUME NEW f, NEW n \in 0..Len(Timeline)
  PROVE  /\ HeaderRows(f) \in {0, 1} /\ RowsTo(f, 0) = HeaderRows(f)
         /\ RowsTo(f, n) \in Nat /\ RowsOf(f) \in Nat /\ RowsTo(f, n) <= RowsOf(f)
         /\ HeaderRows(f) <= RowsOf(f)
         /\ n < Len(Timeline) =>
              RowsTo(f, n + 1) = RowsTo(f, n) + RowsIn(EpochOps(Timeline[n + 1]), f)
<1>1. Len(Timeline) \in Nat /\ DOMAIN Timeline = 1..Len(Timeline)
  BY RunAssumption
<1>2. \A k \in 1..Len(Timeline) : RowsIn(EpochOps(Timeline[k]), f) \in Nat
  BY EpochOpsType, RowsInType
<1>3. EpochRows(f) \in Seq(Nat) /\ Len(EpochRows(f)) = Len(Timeline)
      /\ \A k \in 1..Len(Timeline) : EpochRows(f)[k] = RowsIn(EpochOps(Timeline[k]), f)
  BY <1>1, <1>2 DEF EpochRows
<1> DEFINE s(m) == SumTo(EpochRows(f), m)
<1>4. /\ s(0) = 0
      /\ \A m \in 1..Len(Timeline) : s(m) = s(m - 1) + EpochRows(f)[m]
  BY <1>3, SumUnfolds
<1>5. \A m \in 0..Len(Timeline) : s(m) \in Nat /\ s(m) <= s(Len(Timeline))
  BY <1>3, SumFacts
<1>6. HeaderRows(f) \in {0, 1}
  BY DEF HeaderRows
<1>7. \A m : RowsTo(f, m) = HeaderRows(f) + s(m)
  BY DEF RowsTo
<1>8. RowsOf(f) = HeaderRows(f) + s(Len(Timeline))
  BY <1>7 DEF RowsOf
<1> HIDE DEF s
<1>9. s(n) \in Nat /\ s(Len(Timeline)) \in Nat /\ s(n) <= s(Len(Timeline))
  BY <1>1, <1>5
<1>10. n < Len(Timeline) =>
         RowsTo(f, n + 1) = RowsTo(f, n) + RowsIn(EpochOps(Timeline[n + 1]), f)
  <2> SUFFICES ASSUME n < Len(Timeline)
               PROVE  RowsTo(f, n + 1) = RowsTo(f, n) + RowsIn(EpochOps(Timeline[n + 1]), f)
    OBVIOUS
  <2>1. n + 1 \in 1..Len(Timeline) /\ (n + 1) - 1 = n
    BY <1>1
  <2>2. s(n + 1) = s(n) + RowsIn(EpochOps(Timeline[n + 1]), f)
    BY <1>3, <1>4, <2>1
  <2>3. RowsIn(EpochOps(Timeline[n + 1]), f) \in Nat
    BY <1>2, <2>1
  <2>4. QED
    BY <1>6, <1>7, <1>9, <2>2, <2>3
<1>11. QED
  BY <1>4, <1>6, <1>7, <1>8, <1>9, <1>10

-----------------------------------------------------------------------------
(* The inductive invariant.                                                *)

StreamStates == [open : BOOLEAN, bad : BOOLEAN, buffered : Nat]

RunTypes ==
  /\ phase \in Phases /\ todo \in Seq(Ops)
  /\ epoch \in 0..Len(Timeline) /\ powered \in 0..epoch
  /\ ok \in BOOLEAN /\ exitCode \in {"none", "0", "1", "killed"}
  /\ stream \in [Streams -> StreamStates] /\ delivered \in [Streams -> Nat]
  /\ text \in [TextFiles -> {"absent", "partial", "whole"}]

(* What a stream has been given.                                           *)
Written(f) == delivered[f] + stream[f].buffered

(* Before the epochs: a stream is open and holds its header, or it is      *)
(* still to be opened.                                                     *)
SetupInv ==
  /\ phase \in {"idle", "load", "create"} =>
       /\ epoch = 0 /\ ok
       /\ \A f \in Streams :
            /\ delivered[f] = 0
            /\ stream[f].open => stream[f].buffered = HeaderRows(f)
  /\ phase = "create" =>
       /\ ToSet(todo) \subseteq OpenOps \cup {Op("text", "scenario")}
       /\ \A f \in Streams : Op("open", f) \in ToSet(todo) \/ stream[f].open
       /\ Op("text", "scenario") \in ToSet(todo) \/ text["scenario"] = "whole"

(* In an epoch: what a stream was given and what it is still to be given   *)
(* are the rows of the epochs begun.                                       *)
EpochsInv ==
  phase = "epochs" =>
    /\ ok /\ ToSet(todo) \subseteq RowOps /\ text["scenario"] = "whole"
    /\ \A f \in Streams :
         stream[f].open /\ Written(f) + RowsIn(todo, f) = RowsTo(f, epoch)

(* At the end: a stream that was flushed has delivered all it was given,   *)
(* and the manifest is written last.                                       *)
FinishInv ==
  phase = "finish" =>
    /\ ok /\ ToSet(todo) \subseteq ToSet(FinishOps) /\ text["scenario"] = "whole"
    /\ \A i, j \in DOMAIN todo :
         todo[i].kind = "flush" /\ todo[j] = Op("close", todo[i].file) => i < j
    /\ \A i \in DOMAIN todo : todo[i].kind = "text" <=> i = Len(todo)
    /\ todo = << >> => text["manifest"] = "whole"
    /\ \A f \in Streams :
         /\ Written(f) = RowsOf(f)
         /\ Op("flush", f) \notin ToSet(todo) => stream[f].buffered = 0

CleanupInv ==
  phase = "cleanup" =>
    /\ ToSet(todo) \subseteq CloseOps
    /\ ok <=> text["manifest"] = "whole"

ExitInv ==
  /\ phase \in {"idle", "load", "exited"} => todo = << >>
  /\ exitCode # "none" <=> phase = "exited"
  /\ phase = "exited" => (exitCode = "0" <=> text["manifest"] = "whole")

ManifestInv ==
  text["manifest"] = "whole" =>
    /\ phase \in {"finish", "cleanup", "exited"} /\ todo = << >>
    /\ text["scenario"] = "whole" /\ \A f \in Streams : delivered[f] = RowsOf(f)

StreamInv ==
  \A f \in Streams :
    /\ ~stream[f].open => stream[f] = Closed
    /\ stream[f].buffered <= BufferRows
    /\ Written(f) <= RowsOf(f)

(* The simulator by itself.                                                *)
RunInv ==
  /\ RunTypes /\ SetupInv /\ EpochsInv /\ FinishInv /\ CleanupInv
  /\ ExitInv /\ ManifestInv /\ StreamInv

(* A reader that has ended without an error has taken all there will be.   *)
PipeInv ==
  /\ captured \in [Streams -> Nat] /\ reader \in [Streams -> ReaderStates]
  /\ \A f \in Streams :
       /\ captured[f] <= delivered[f]
       /\ f \in Fifos => delivered[f] - captured[f] <= PipeRows
       /\ f \notin Fifos => reader[f] = "none"
       /\ reader[f] \in {"none", "starting", "opening"} => captured[f] = 0
       /\ reader[f] = "done" /\ f \notin failed =>
            captured[f] = delivered[f] /\ ~stream[f].open

(* What each pass over the captures has established of those it passed.    *)
Joined(f) == f \in late \/ reader[f] = "done"
Recorded(f) == f \in late \/ recorded[f] = captured[f]
Checked(f) == f \in errors \/ (reader[f] = "done" /\ f \notin failed)

HarnessTypes ==
  /\ harness \in HarnessStates /\ peak \in BOOLEAN
  /\ verdict \in {"none", "passed", "failed", "error"}
  /\ left \in Seq(Fifos)
  /\ failed \subseteq Fifos /\ late \subseteq Fifos /\ errors \subseteq Fifos
  /\ checking \in Fifos \cup {"none"}
  /\ recorded \in [FIFO_NAMES -> Nat]

LeftInv ==
  /\ \E k \in 1..(Len(FifoOrder) + 1) : left = SubSeq(FifoOrder, k, Len(FifoOrder))
  /\ checking # "none" => harness = "collect" /\ left # << >> /\ checking = left[1]
  /\ harness = "reported" => left = << >>

HarnessInv ==
  /\ harness \in {"prepare", "launch"} <=> phase = "idle"
  /\ harness \in {"unblock", "join", "collect", "reported"} => phase = "exited"
  /\ \A f \in Fifos : recorded[f] <= captured[f]
  /\ harness = "join" => \A f \in Fifos : f \in ToSet(left) \/ Joined(f)
  /\ harness \in {"collect", "reported"} =>
       \A f \in Fifos :
         /\ Joined(f)
         /\ (f \in ToSet(left) /\ f # checking) \/ Recorded(f)
         /\ f \in ToSet(left) \/ Checked(f)
  /\ verdict # "none" => harness = "reported"
  /\ verdict = "passed" => exitCode = "0" /\ errors = {}

IInv == RunInv /\ PipeInv /\ HarnessTypes /\ LeftInv /\ HarnessInv

-----------------------------------------------------------------------------
(* The simulator's operations.                                             *)

(* Each kind of operation belongs to a phase.                              *)
LEMMA HeadFacts ==
  ASSUME RunInv, todo # << >>
  PROVE  /\ phase \in {"create", "epochs", "finish", "cleanup"}
         /\ exitCode = "none" /\ text["manifest"] # "whole"
         /\ Head1 \in Ops /\ Head1 = Op(Head1.kind, Head1.file)
         /\ Head1.kind = "open" => phase = "create" /\ Head1.file \in Streams
         /\ Head1.kind = "text" =>
              \/ phase = "create" /\ Head1.file = "scenario"
              \/ phase = "finish" /\ Head1.file = "manifest" /\ Len(todo) = 1
         /\ Head1.kind = "row" => phase = "epochs" /\ Head1.file \in Streams
         /\ Head1.kind = "flush" => phase = "finish" /\ Head1.file \in Streams
         /\ Head1.kind = "close" => phase \in {"finish", "cleanup"} /\ Head1.file \in Streams
<1>1. todo \in Seq(Ops) /\ phase \in Phases
  BY DEF RunInv, RunTypes
<1>2. Head1 \in Ops /\ Head1 \in ToSet(todo) /\ Len(todo) \in Nat \ {0}
  BY <1>1, MembersOfTail DEF Head1
<1>3. /\ phase \in {"create", "epochs", "finish", "cleanup"}
      /\ exitCode = "none" /\ text["manifest"] # "whole"
  BY <1>1 DEF RunInv, ExitInv, ManifestInv, Phases
<1>4. Head1 = Op(Head1.kind, Head1.file)
  BY <1>2 DEF Ops, Op
<1>5. CASE phase = "create"
  <2>1. Head1 \in OpenOps \/ Head1 = Op("text", "scenario")
    BY <1>2, <1>5 DEF RunInv, SetupInv
  <2>2. \/ Head1.kind = "open" /\ Head1.file \in Streams
        \/ Head1.kind = "text" /\ Head1.file = "scenario"
    BY <2>1 DEF OpenOps, Op
  <2>3. QED
    BY <1>2, <1>3, <1>4, <1>5, <2>2
<1>6. CASE phase = "epochs"
  <2>1. Head1.kind = "row" /\ Head1.file \in Streams
    BY <1>2, <1>6 DEF RunInv, EpochsInv, RowOps
  <2>2. QED
    BY <1>2, <1>3, <1>4, <1>6, <2>1
<1>7. CASE phase = "finish"
  <2>1. PICK i \in DOMAIN FinishOps : Head1 = FinishOps[i]
    BY <1>2, <1>7 DEF RunInv, FinishInv, ToSet
  <2>2. /\ Head1.kind \in {"flush", "close", "text"}
        /\ Head1.kind \in {"flush", "close"} => Head1.file \in Streams
        /\ Head1.kind = "text" => Head1 = Op("text", "manifest")
    BY <2>1, FinishFacts
  <2>3. 1 \in DOMAIN todo
    BY <1>1, <1>2
  <2>4. Head1.kind = "text" => Len(todo) = 1
    BY <1>7, <2>3 DEF RunInv, FinishInv, Head1
  <2>5. Head1.kind = "text" => Head1.file = "manifest"
    BY <2>2 DEF Op
  <2>6. QED
    BY <1>2, <1>3, <1>4, <1>7, <2>2, <2>4, <2>5
<1>8. CASE phase = "cleanup"
  <2>1. Head1.kind = "close" /\ Head1.file \in Streams
    BY <1>2, <1>8 DEF RunInv, CleanupInv, CloseOps
  <2>2. QED
    BY <1>2, <1>3, <1>4, <1>8, <2>1
<1>9. QED
  BY <1>3, <1>5, <1>6, <1>7, <1>8

(* The same streams, with nothing else written or read, and none reopened. *)
LEMMA PipesAlone ==
  ASSUME PipeInv, delivered' = delivered, UNCHANGED pipeVars, failed' = failed,
         \A f \in Streams : stream'[f].open => stream[f].open
  PROVE  PipeInv'
BY DEF PipeInv, pipeVars

(* A phase that fails leaves no manifest, and only closes what is open.    *)
LEMMA FailsStep ==
  ASSUME RunInv, phase \in {"load", "create", "epochs", "finish"}, Fails \/
           (phase' = "cleanup" /\ todo' = << >> /\ ok' = FALSE),
         text' \in [TextFiles -> {"absent", "partial", "whole"}],
         text'["manifest"] # "whole",
         UNCHANGED <<epoch, exitCode, powered, stream, delivered>>
  PROVE  RunInv'
<1>1. phase' = "cleanup" /\ ok' = FALSE /\ exitCode = "none"
  BY DEF Fails, RunInv, ExitInv
<1>2. todo' \in Seq(Ops) /\ ToSet(todo') \subseteq CloseOps
  <2>1. todo' = CleanupOps \/ todo' = << >>
    BY DEF Fails
  <2>2. CleanupOps \in Seq(Ops) /\ ToSet(CleanupOps) \subseteq CloseOps
    BY CleanupFacts, OpsTypes
  <2>3. << >> \in Seq(Ops) /\ ToSet(<< >>) \subseteq CloseOps
    BY NoMembers
  <2>4. QED
    BY <2>1, <2>2, <2>3
<1>3. RunTypes'
  BY <1>1, <1>2 DEF RunInv, RunTypes, Phases
<1>4. CleanupInv' /\ ManifestInv' /\ ExitInv'
  BY <1>1, <1>2 DEF CleanupInv, ManifestInv, ExitInv
<1>5. StreamInv'
  BY DEF RunInv, StreamInv, Written
<1>6. SetupInv' /\ EpochsInv' /\ FinishInv'
  BY <1>1 DEF SetupInv, EpochsInv, FinishInv
<1>7. QED
  BY <1>3, <1>4, <1>5, <1>6 DEF RunInv

LEMMA LoadStep ==
  ASSUME RunInv, PipeInv, Load, failed' = failed
  PROVE  RunInv' /\ PipeInv'
<1>1. PipeInv'
  BY PipesAlone DEF Load, fileVars
<1>2. text["manifest"] # "whole"
  BY DEF RunInv, ManifestInv, Load
<1>3. CASE phase' = "create" /\ todo' = CreateOps /\ ok' = ok
  <2>1. RunTypes'
    BY <1>3, CreateFacts DEF Load, fileVars, RunInv, RunTypes, Phases
  <2>2. SetupInv'
    BY <1>3, CreateFacts DEF Load, fileVars, RunInv, SetupInv
  <2>3. EpochsInv' /\ FinishInv' /\ CleanupInv'
    BY <1>3 DEF EpochsInv, FinishInv, CleanupInv
  <2>4. ExitInv' /\ ManifestInv' /\ StreamInv'
    BY <1>2, <1>3 DEF Load, fileVars, RunInv, ExitInv, ManifestInv, StreamInv, Written
  <2>5. QED
    BY <1>1, <2>1, <2>2, <2>3, <2>4 DEF RunInv
<1>4. CASE phase' = "cleanup" /\ todo' = << >> /\ ok' = FALSE
  <2>1. text' \in [TextFiles -> {"absent", "partial", "whole"}] /\ phase = "load"
        /\ text'["manifest"] # "whole"
        /\ UNCHANGED <<epoch, exitCode, powered, stream, delivered>>
    BY <1>2 DEF Load, fileVars, RunInv, RunTypes
  <2>2. RunInv'
    BY <1>4, <2>1, FailsStep
  <2>3. QED
    BY <1>1, <2>2
<1>5. QED
  BY <1>3, <1>4 DEF Load

LEMMA OpenStep ==
  ASSUME RunInv, PipeInv, OpenStream, failed' = failed
  PROVE  RunInv' /\ PipeInv'
<1>1. todo # << >> /\ Head1.kind = "open"
  BY DEF OpenStream, Doing
<1>2. phase = "create" /\ Head1.file \in Streams /\ Head1 = Op("open", Head1.file)
      /\ text["manifest"] # "whole" /\ exitCode = "none"
  BY <1>1, HeadFacts
<1>3. PICK f \in Streams : f = Head1.file
  BY <1>2
<1>4. UNCHANGED <<epoch, exitCode, powered, text, captured>>
  BY DEF OpenStream
<1>5. CASE /\ f \notin Fifos /\ Fails
           /\ UNCHANGED <<stream, delivered, reader>>
  <2>1. RunInv'
    BY <1>2, <1>4, <1>5, FailsStep DEF RunInv, RunTypes
  <2>2. PipeInv'
    BY <1>4, <1>5, PipesAlone DEF pipeVars
  <2>3. QED
    BY <2>1, <2>2
<1>6. CASE /\ f \in Fifos => reader[f] = "opening"
           /\ stream' = [stream EXCEPT ![f] =
                           [open |-> TRUE, bad |-> FALSE, buffered |-> HeaderRows(f)]]
           /\ delivered' = [delivered EXCEPT ![f] = 0]
           /\ reader' = [reader EXCEPT ![f] = IF f \in Fifos THEN "reading" ELSE @]
           /\ Done
           /\ UNCHANGED <<phase, ok>>
  <2>1. /\ Tail(todo) \in Seq(Ops) /\ todo' = Tail(todo)
        /\ ToSet(todo) = ToSet(Tail(todo)) \cup {Op("open", f)}
    BY <1>1, <1>2, <1>3, <1>6, MembersOfTail DEF Done, RunInv, RunTypes, Head1
  <2>2. HeaderRows(f) \in {0, 1} /\ HeaderRows(f) <= RowsOf(f) /\ RowsOf(f) \in Nat
        /\ BufferRows \in Nat \ {0}
    <3>1. 0 \in 0..Len(Timeline)
      BY RunAssumption
    <3>2. QED
      BY <3>1, RowsToFacts, RunAssumption
  <2>3. /\ stream \in [Streams -> StreamStates] /\ delivered \in [Streams -> Nat]
        /\ \A g \in Streams : delivered[g] = 0
    BY <1>2 DEF RunInv, RunTypes, SetupInv
  <2>4. /\ stream' \in [Streams -> StreamStates] /\ delivered' = delivered
        /\ stream'[f] = [open |-> TRUE, bad |-> FALSE, buffered |-> HeaderRows(f)]
        /\ \A g \in Streams : g # f => stream'[g] = stream[g]
    BY <1>6, <2>2, <2>3 DEF StreamStates
  <2>5. RunTypes'
    BY <1>4, <1>6, <2>1, <2>4 DEF RunInv, RunTypes
  <2>6. SetupInv'
    BY <1>2, <1>4, <1>6, <2>1, <2>3, <2>4 DEF RunInv, SetupInv, Op
  <2>7. EpochsInv' /\ FinishInv' /\ CleanupInv'
    BY <1>2, <1>6 DEF EpochsInv, FinishInv, CleanupInv
  <2>8. ExitInv' /\ ManifestInv'
    BY <1>2, <1>4, <1>6 DEF RunInv, ExitInv, ManifestInv
  <2>9. StreamInv'
    BY <2>2, <2>3, <2>4 DEF RunInv, StreamInv, Written
  <2>10. PipeInv'
    <3>1. \A g \in Streams : g # f => reader'[g] = reader[g]
      BY <1>6 DEF PipeInv
    <3>2. reader'[f] = (IF f \in Fifos THEN "reading" ELSE "none")
      BY <1>6 DEF PipeInv
    <3>3. captured[f] = 0
      BY <1>6 DEF PipeInv
    <3>4. reader' \in [Streams -> ReaderStates]
      BY <1>6 DEF PipeInv, ReaderStates
    <3>5. QED
      BY <1>4, <2>4, <3>1, <3>2, <3>3, <3>4 DEF PipeInv
  <2>11. QED
    BY <2>5, <2>6, <2>7, <2>8, <2>9, <2>10 DEF RunInv
<1>7. QED
  BY <1>3, <1>5, <1>6 DEF OpenStream

LEMMA TextStep ==
  ASSUME RunInv, PipeInv, WriteText, failed' = failed
  PROVE  RunInv' /\ PipeInv'
<1>1. todo # << >> /\ Head1.kind = "text"
  BY DEF WriteText, Doing
<1>2. /\ exitCode = "none" /\ text["manifest"] # "whole" /\ Head1 = Op("text", Head1.file)
      /\ \/ phase = "create" /\ Head1.file = "scenario"
         \/ phase = "finish" /\ Head1.file = "manifest" /\ Len(todo) = 1
  BY <1>1, HeadFacts
<1>3. /\ UNCHANGED <<epoch, exitCode, powered, stream, delivered>>
      /\ text \in [TextFiles -> {"absent", "partial", "whole"}]
  BY DEF WriteText, RunInv, RunTypes
<1>4. PipeInv'
  BY <1>3, PipesAlone DEF WriteText
<1>5. ASSUME text' = [text EXCEPT ![Head1.file] = "partial"] \/ text' = text, Fails
      PROVE  RunInv'
  <2>1. /\ text' \in [TextFiles -> {"absent", "partial", "whole"}]
        /\ text'["manifest"] # "whole"
    BY <1>2, <1>3, <1>5 DEF TextFiles
  <2>2. QED
    BY <1>2, <1>3, <1>5, <2>1, FailsStep
<1>6. ASSUME text' = [text EXCEPT ![Head1.file] = "whole"], Done, UNCHANGED <<phase, ok>>
      PROVE  RunInv'
  <2>1. /\ todo' = Tail(todo) /\ Tail(todo) \in Seq(Ops) /\ Len(Tail(todo)) = Len(todo) - 1
        /\ ToSet(todo) = ToSet(Tail(todo)) \cup {Head1}
    BY <1>1, <1>6, MembersOfTail DEF Done, RunInv, RunTypes, Head1
  <2>2. text' \in [TextFiles -> {"absent", "partial", "whole"}]
    BY <1>3, <1>6
  <2>3. RunTypes'
    BY <1>3, <1>6, <2>1, <2>2 DEF RunInv, RunTypes
  <2>4. StreamInv'
    BY <1>3 DEF RunInv, StreamInv, Written
  <2>5. CASE phase = "create" /\ Head1.file = "scenario"
    <3>1. text'["scenario"] = "whole" /\ text'["manifest"] # "whole"
      BY <1>2, <1>3, <1>6, <2>5 DEF TextFiles
    <3>2. SetupInv'
      <4>1. Head1 = Op("text", "scenario") /\ \A f \in Streams : Head1 # Op("open", f)
        BY <1>2, <2>5 DEF Op
      <4>2. QED
        BY <1>3, <1>6, <2>1, <2>5, <3>1, <4>1 DEF RunInv, SetupInv
    <3>3. EpochsInv' /\ FinishInv' /\ CleanupInv'
      BY <1>6, <2>5 DEF EpochsInv, FinishInv, CleanupInv
    <3>4. ExitInv' /\ ManifestInv'
      BY <1>2, <1>3, <1>6, <2>5, <3>1 DEF ExitInv, ManifestInv
    <3>5. QED
      BY <2>3, <2>4, <3>2, <3>3, <3>4 DEF RunInv
  <2>6. CASE phase = "finish" /\ Head1.file = "manifest" /\ Len(todo) = 1
    <3>1. text'["manifest"] = "whole" /\ text'["scenario"] = text["scenario"]
      BY <1>3, <1>6, <2>6 DEF TextFiles
    <3>2. todo' = << >>
      BY <2>1, <2>6, EmptySeq
    <3>3. \A f \in Streams : stream[f].buffered = 0 /\ delivered[f] = RowsOf(f)
      <4>1. ToSet(todo) = {Op("text", "manifest")}
        BY <1>2, <2>1, <2>6, <3>2, NoMembers
      <4>2. \A f \in Streams : Op("flush", f) \notin ToSet(todo)
        BY <4>1 DEF Op
      <4>3. \A f \in Streams : stream[f].buffered = 0 /\ Written(f) = RowsOf(f)
        BY <2>6, <4>2 DEF RunInv, FinishInv
      <4>4. \A f \in Streams : delivered[f] \in Nat
        BY DEF RunInv, RunTypes
      <4>5. QED
        BY <4>3, <4>4 DEF Written
    <3>4. text["scenario"] = "whole" /\ ok
      BY <2>6 DEF RunInv, FinishInv
    <3>5. FinishInv'
      <4>1. \A f \in Streams : (Written(f) = RowsOf(f))'
        BY <1>3, <2>6 DEF RunInv, FinishInv, Written
      <4>2. \A f \in Streams : stream'[f].buffered = 0
        BY <1>3, <3>3
      <4>3. /\ DOMAIN todo' = {} /\ ToSet(todo') \subseteq ToSet(FinishOps)
            /\ text'["scenario"] = "whole" /\ ok'
        BY <1>6, <3>1, <3>2, <3>4, NoMembers
      <4>4. QED
        BY <3>1, <4>1, <4>2, <4>3 DEF FinishInv
    <3>6. SetupInv' /\ EpochsInv' /\ CleanupInv'
      BY <1>6, <2>6 DEF SetupInv, EpochsInv, CleanupInv
    <3>7. ExitInv' /\ ManifestInv'
      BY <1>2, <1>3, <1>6, <2>6, <3>1, <3>2, <3>3, <3>4 DEF ExitInv, ManifestInv
    <3>8. QED
      BY <2>3, <2>4, <3>5, <3>6, <3>7 DEF RunInv
  <2>7. QED
    BY <1>2, <2>5, <2>6
<1>7. QED
  BY <1>4, <1>5, <1>6 DEF WriteText

LEMMA RowStep ==
  ASSUME RunInv, PipeInv, WriteRow, failed' = failed
  PROVE  RunInv' /\ PipeInv'
<1>1. todo # << >> /\ Head1.kind = "row"
  BY DEF WriteRow, Doing
<1>2. /\ exitCode = "none" /\ text["manifest"] # "whole" /\ phase = "epochs"
      /\ Head1.file \in Streams /\ Head1 = Op("row", Head1.file)
  BY <1>1, HeadFacts
<1>3. PICK f \in Streams : f = Head1.file
  BY <1>2
<1>4. UNCHANGED <<epoch, exitCode, powered, delivered, text, pipeVars>>
  BY DEF WriteRow
<1>5. CASE stream[f].bad /\ Fails /\ UNCHANGED stream
  <2>1. RunInv'
    BY <1>2, <1>4, <1>5, FailsStep DEF RunInv, RunTypes
  <2>2. PipeInv'
    BY <1>4, <1>5, PipesAlone
  <2>3. QED
    BY <2>1, <2>2
<1>6. CASE /\ stream[f].buffered < BufferRows
           /\ stream' = [stream EXCEPT ![f].buffered = @ + 1]
           /\ Done
           /\ UNCHANGED <<phase, ok>>
  <2>1. /\ Tail(todo) \in Seq(Ops) /\ todo' = Tail(todo)
        /\ ToSet(todo) = ToSet(Tail(todo)) \cup {Head1}
        /\ \A g : RowsIn(todo, g) = RowsIn(todo', g) + (IF Head1 = Op("row", g) THEN 1 ELSE 0)
        /\ \A g : RowsIn(todo', g) \in Nat
    BY <1>1, <1>6, MembersOfTail, RowsInTail, RowsInType DEF Done, RunInv, RunTypes, Head1
  <2>2. /\ stream \in [Streams -> StreamStates] /\ delivered \in [Streams -> Nat]
        /\ epoch \in 0..Len(Timeline) /\ BufferRows \in Nat
    BY RunAssumption DEF RunInv, RunTypes
  <2>3. /\ stream' \in [Streams -> StreamStates]
        /\ stream'[f].buffered = stream[f].buffered + 1
        /\ \A g \in Streams : stream'[g].open = stream[g].open
        /\ \A g \in Streams : g # f => stream'[g] = stream[g]
    <3>1. stream[f] \in StreamStates /\ stream[f].buffered + 1 \in Nat
      BY <2>2 DEF StreamStates
    <3>2. [stream[f] EXCEPT !.buffered = @ + 1] \in StreamStates
      BY <3>1 DEF StreamStates
    <3>3. /\ stream'[f] = [stream[f] EXCEPT !.buffered = @ + 1]
          /\ \A g \in Streams : g # f => stream'[g] = stream[g]
      BY <1>6, <2>2
    <3>4. stream'[f].buffered = stream[f].buffered + 1 /\ stream'[f].open = stream[f].open
      BY <3>1, <3>3 DEF StreamStates
    <3>5. stream' \in [Streams -> StreamStates]
      BY <1>6, <2>2, <3>2
    <3>6. QED
      BY <3>3, <3>4, <3>5
  <2>4. \A g \in Streams : stream[g].buffered \in Nat /\ delivered[g] \in Nat
    BY <2>2 DEF StreamStates
  <2>5. \A g \in Streams : Written(g)' = Written(g) + (IF g = f THEN 1 ELSE 0)
    BY SMTT(40), <1>4, <2>3, <2>4 DEF Written
  <2>6. \A g \in Streams : Head1 = Op("row", g) <=> g = f
    BY <1>2, <1>3 DEF Op
  <2>7. \A g \in Streams : Written(g) \in Nat /\ RowsIn(todo, g) \in Nat
    BY <2>1, <2>4 DEF Written
  <2>8. \A g \in Streams :
          /\ Written(g)' + RowsIn(todo', g) = RowsTo(g, epoch)
          /\ Written(g)' <= RowsOf(g)
    <3>1. \A g \in Streams : Written(g) + RowsIn(todo, g) = RowsTo(g, epoch)
      BY <1>2 DEF RunInv, EpochsInv
    <3>2. \A g : RowsTo(g, epoch) <= RowsOf(g) /\ RowsTo(g, epoch) \in Nat /\ RowsOf(g) \in Nat
      BY <2>2, RowsToFacts
    <3>3. ASSUME NEW g \in Streams
          PROVE  /\ Written(g)' + RowsIn(todo', g) = RowsTo(g, epoch)
                 /\ Written(g)' <= RowsOf(g)
      <4>1. /\ Written(g)' = Written(g) + (IF g = f THEN 1 ELSE 0)
            /\ RowsIn(todo, g) = RowsIn(todo', g) + (IF g = f THEN 1 ELSE 0)
            /\ RowsIn(todo', g) \in Nat /\ Written(g) \in Nat
        BY <2>1, <2>5, <2>6, <2>7
      <4>2. QED
        BY <3>1, <3>2, <4>1
    <3>4. QED
      BY <3>3
  <2>9. RunTypes'
    BY <1>4, <1>6, <2>1, <2>3 DEF RunInv, RunTypes
  <2>10. EpochsInv'
    BY <1>2, <1>4, <1>6, <2>1, <2>3, <2>8 DEF RunInv, EpochsInv
  <2>11. StreamInv'
    <3>1. stream[f].open /\ stream'[f].buffered <= BufferRows
      BY <1>2, <1>6, <2>2, <2>3, <2>4 DEF RunInv, EpochsInv
    <3>2. QED
      BY <2>3, <2>8, <3>1 DEF RunInv, StreamInv
  <2>12. SetupInv' /\ FinishInv' /\ CleanupInv'
    BY <1>2, <1>6 DEF SetupInv, FinishInv, CleanupInv
  <2>13. ExitInv' /\ ManifestInv'
    BY <1>2, <1>4, <1>6 DEF RunInv, ExitInv, ManifestInv
  <2>14. PipeInv'
    BY <1>4, <2>3, PipesAlone
  <2>15. QED
    BY <2>9, <2>10, <2>11, <2>12, <2>13, <2>14 DEF RunInv
<1>7. QED
  BY <1>3, <1>5, <1>6 DEF WriteRow

(* A row that reaches its file leaves the buffer: nothing is lost by it.   *)
LEMMA PushStep ==
  ASSUME RunInv, PipeInv, NEW f \in Streams, Push(f), failed' = failed
  PROVE  RunInv' /\ PipeInv'
<1>1. /\ todo # << >> /\ Head1.file = f /\ Head1.kind \in {"row", "flush", "close"}
      /\ stream[f].buffered > 0 /\ ~Broken(f)
      /\ f \in Fifos => delivered[f] - captured[f] < PipeRows
      /\ stream' = [stream EXCEPT ![f].buffered = @ - 1]
      /\ delivered' = [delivered EXCEPT ![f] = @ + 1]
      /\ UNCHANGED <<phase, todo, epoch, ok, exitCode, powered, text, pipeVars>>
  BY DEF Push, MustPush, PipeHasRoom
<1>2. /\ phase \in {"epochs", "finish", "cleanup"} /\ text["manifest"] # "whole"
      /\ Head1 = Op(Head1.kind, f)
  BY <1>1, HeadFacts
<1>3. stream \in [Streams -> StreamStates] /\ delivered \in [Streams -> Nat]
  BY DEF RunInv, RunTypes
<1>4. \A g \in Streams : stream[g].buffered \in Nat /\ delivered[g] \in Nat
  BY <1>3 DEF StreamStates
<1>5. /\ stream' \in [Streams -> StreamStates] /\ delivered' \in [Streams -> Nat]
      /\ stream'[f].buffered = stream[f].buffered - 1
      /\ delivered'[f] = delivered[f] + 1
      /\ \A g \in Streams : stream'[g].open = stream[g].open
      /\ \A g \in Streams : g # f => stream'[g] = stream[g] /\ delivered'[g] = delivered[g]
  <2>1. stream[f].buffered - 1 \in Nat /\ delivered[f] + 1 \in Nat
    BY <1>1, <1>4
  <2>2. [stream[f] EXCEPT !.buffered = @ - 1] \in StreamStates
    BY <1>3, <2>1 DEF StreamStates
  <2>3. stream'[f] = [stream[f] EXCEPT !.buffered = @ - 1]
    BY <1>1, <1>3
  <2>4. stream'[f].buffered = stream[f].buffered - 1 /\ stream'[f].open = stream[f].open
    BY <1>3, <2>3 DEF StreamStates
  <2>5. /\ \A g \in Streams : g # f => stream'[g] = stream[g] /\ delivered'[g] = delivered[g]
        /\ delivered'[f] = delivered[f] + 1 /\ delivered' \in [Streams -> Nat]
    BY <1>1, <1>3, <2>1
  <2>6. stream' \in [Streams -> StreamStates]
    BY <1>1, <1>3, <2>2
  <2>7. QED
    BY <2>4, <2>5, <2>6
<1>6. \A g \in Streams : Written(g)' = Written(g)
  BY <1>4, <1>5 DEF Written
<1>7. RunTypes'
  BY <1>1, <1>5 DEF RunInv, RunTypes
<1>8. StreamInv'
  <2>1. stream[f].open
    BY <1>1 DEF RunInv, StreamInv, Closed
  <2>2. stream'[f].buffered <= BufferRows
    <3>1. stream[f].buffered <= BufferRows /\ BufferRows \in Nat
      BY RunAssumption DEF RunInv, StreamInv
    <3>2. QED
      BY <1>4, <1>5, <3>1
  <2>3. QED
    BY <1>5, <1>6, <2>1, <2>2 DEF RunInv, StreamInv
<1>9. EpochsInv'
  BY <1>1, <1>5, <1>6 DEF RunInv, EpochsInv
<1>10. FinishInv'
  <2> SUFFICES ASSUME phase = "finish" PROVE FinishInv'
    BY <1>1 DEF FinishInv
  <2>1. Head1.kind \in {"flush", "close"}
    BY <1>1, <1>2, HeadFacts
  <2>2. Op("flush", f) \in ToSet(todo)
    BY <1>1 DEF RunInv, FinishInv
  <2>3. QED
    BY <1>1, <1>5, <1>6, <2>2 DEF RunInv, FinishInv
<1>11. SetupInv' /\ CleanupInv' /\ ExitInv' /\ ManifestInv'
  BY <1>1, <1>2 DEF RunInv, SetupInv, CleanupInv, ExitInv, ManifestInv
<1>12. PipeInv'
  <2>1. f \in Fifos => reader[f] # "done"
    BY <1>1 DEF Broken
  <2>2. f \notin Fifos => reader[f] = "none"
    BY DEF PipeInv
  <2>3. captured[f] \in Nat /\ captured[f] <= delivered[f] /\ PipeRows \in Nat
    BY RunAssumption DEF PipeInv
  <2>4. captured[f] <= delivered'[f]
        /\ (f \in Fifos => delivered'[f] - captured[f] <= PipeRows)
    BY <1>1, <1>4, <1>5, <2>3
  <2>5. QED
    BY <1>1, <1>5, <2>1, <2>2, <2>4 DEF PipeInv, pipeVars
<1>13. QED
  BY <1>7, <1>8, <1>9, <1>10, <1>11, <1>12 DEF RunInv

(* A refused row stays in the buffer, or is given up by a failed run.      *)
LEMMA PushFailsStep ==
  ASSUME RunInv, PipeInv, NEW f \in Streams, PushFails(f), failed' = failed
  PROVE  RunInv' /\ PipeInv'
<1>1. /\ todo # << >> /\ Head1.file = f /\ Head1.kind \in {"row", "flush", "close"}
      /\ stream[f].buffered > 0 /\ f \notin Fifos
      /\ stream' = [stream EXCEPT ![f] =
                      [open |-> TRUE, bad |-> TRUE,
                       buffered |-> IF Head1.kind = "close" THEN 0 ELSE @.buffered]]
      /\ UNCHANGED <<phase, todo, epoch, ok, exitCode, powered, delivered, text, pipeVars>>
  BY DEF PushFails, MustPush
<1>2. /\ phase \in {"epochs", "finish", "cleanup"} /\ text["manifest"] # "whole"
      /\ Head1 = Op(Head1.kind, f)
  BY <1>1, HeadFacts
<1>3. stream \in [Streams -> StreamStates] /\ delivered \in [Streams -> Nat]
  BY DEF RunInv, RunTypes
<1>4. \A g \in Streams : stream[g].buffered \in Nat /\ delivered[g] \in Nat
  BY <1>3 DEF StreamStates
<1>5. stream[f].open
  BY <1>1 DEF RunInv, StreamInv, Closed
<1>6. /\ stream' \in [Streams -> StreamStates] /\ stream'[f].open
      /\ stream'[f].buffered = (IF Head1.kind = "close" THEN 0 ELSE stream[f].buffered)
      /\ \A g \in Streams : g # f => stream'[g] = stream[g]
  BY <1>1, <1>3, <1>4 DEF StreamStates
<1>7. \A g \in Streams : stream'[g].open <=> stream[g].open
  BY <1>5, <1>6
<1>8. Head1.kind = "close" => phase = "cleanup"
  <2> SUFFICES ASSUME Head1.kind = "close", phase = "finish" PROVE FALSE
    BY <1>1, <1>2, HeadFacts
  <2>1. Op("flush", f) \in ToSet(todo)
    BY <1>1 DEF RunInv, FinishInv
  <2>2. PICK i \in DOMAIN todo : todo[i] = Op("flush", f)
    BY <2>1 DEF ToSet
  <2>3. 1 \in DOMAIN todo /\ i \in 1..Len(todo) /\ todo[1] = Op("close", f)
    BY <1>1, <1>2, MembersOfTail DEF RunInv, RunTypes, Head1
  <2>4. todo[i].kind = "flush" /\ todo[1] = Op("close", todo[i].file)
    BY <2>2, <2>3 DEF Op
  <2>5. i < 1
    BY <2>2, <2>3, <2>4 DEF RunInv, FinishInv
  <2>6. QED
    BY <2>3, <2>5
<1>9. \A g \in Streams : phase # "cleanup" => stream'[g].buffered = stream[g].buffered
  BY <1>6, <1>8
<1>10. RunTypes'
  BY <1>1, <1>6 DEF RunInv, RunTypes
<1>11. StreamInv'
  <2>1. /\ stream[f].buffered <= BufferRows /\ BufferRows \in Nat
        /\ delivered[f] + stream[f].buffered <= RowsOf(f) /\ RowsOf(f) \in Nat
    <3>1. 0 \in 0..Len(Timeline)
      BY RunAssumption
    <3>2. QED
      BY <3>1, RunAssumption, RowsToFacts DEF RunInv, StreamInv, Written
  <2>2. stream'[f].buffered <= BufferRows /\ delivered[f] + stream'[f].buffered <= RowsOf(f)
    BY <1>4, <1>6, <2>1
  <2>3. QED
    BY <1>1, <1>6, <2>2 DEF RunInv, StreamInv, Written
<1>12. EpochsInv'
  BY <1>1, <1>7, <1>9 DEF RunInv, EpochsInv, Written
<1>13. FinishInv'
  BY <1>1, <1>9 DEF RunInv, FinishInv, Written
<1>14. SetupInv' /\ CleanupInv' /\ ExitInv' /\ ManifestInv'
  BY <1>1, <1>2 DEF RunInv, SetupInv, CleanupInv, ExitInv, ManifestInv
<1>15. PipeInv'
  BY <1>1, <1>7, PipesAlone
<1>16. QED
  BY <1>10, <1>11, <1>12, <1>13, <1>14, <1>15 DEF RunInv

LEMMA KilledStep ==
  ASSUME RunInv, PipeInv, NEW f \in Streams, Killed(f), failed' = failed
  PROVE  RunInv' /\ PipeInv'
<1>1. /\ todo # << >>
      /\ phase' = "exited" /\ exitCode' = "killed" /\ todo' = << >>
      /\ stream' = [g \in Streams |-> Closed]
      /\ UNCHANGED <<epoch, ok, powered, delivered, text, pipeVars>>
  BY DEF Killed, MustPush
<1>2. text["manifest"] # "whole"
  BY <1>1, HeadFacts
<1>3. /\ stream \in [Streams -> StreamStates] /\ delivered \in [Streams -> Nat]
      /\ \A g \in Streams : stream[g].buffered \in Nat /\ delivered[g] \in Nat
  BY DEF RunInv, RunTypes, StreamStates
<1>4. Closed \in StreamStates /\ Closed.open = FALSE /\ Closed.buffered = 0
  BY DEF Closed, StreamStates
<1>5. stream' \in [Streams -> StreamStates] /\ \A g \in Streams : stream'[g] = Closed
  BY <1>1, <1>4
<1>6. RunTypes'
  BY <1>1, <1>5 DEF RunInv, RunTypes, Phases
<1>7. StreamInv'
  <2>1. ASSUME NEW g \in Streams PROVE delivered[g] + 0 <= RowsOf(g) /\ 0 <= BufferRows
    <3>1. 0 \in 0..Len(Timeline)
      BY RunAssumption
    <3>2. delivered[g] + stream[g].buffered <= RowsOf(g) /\ RowsOf(g) \in Nat
      BY <3>1, RowsToFacts DEF RunInv, StreamInv, Written
    <3>3. QED
      BY <1>3, <3>2, RunAssumption
  <2>2. QED
    BY <1>1, <1>4, <1>5, <2>1 DEF StreamInv, Written
<1>8. SetupInv' /\ EpochsInv' /\ FinishInv' /\ CleanupInv' /\ ExitInv' /\ ManifestInv'
  BY <1>1, <1>2 DEF SetupInv, EpochsInv, FinishInv, CleanupInv, ExitInv, ManifestInv
<1>9. PipeInv'
  BY <1>1, <1>4, <1>5, PipesAlone
<1>10. QED
  BY <1>6, <1>7, <1>8, <1>9 DEF RunInv

(* What is left of the last phase is still in order.                       *)
LEMMA FinishOrder ==
  ASSUME RunInv, phase = "finish", todo # << >>, todo' = Tail(todo),
         Head1.kind # "text"
  PROVE  /\ todo' # << >>
         /\ ToSet(todo') \subseteq ToSet(FinishOps)
         /\ \A i, j \in DOMAIN todo' :
              todo'[i].kind = "flush" /\ todo'[j] = Op("close", todo'[i].file) => i < j
         /\ \A i \in DOMAIN todo' : todo'[i].kind = "text" <=> i = Len(todo')
<1>1. /\ Len(todo) \in Nat \ {0} /\ Len(todo') = Len(todo) - 1
      /\ \A k \in 1..(Len(todo) - 1) : todo'[k] = todo[k + 1]
      /\ ToSet(todo') \subseteq ToSet(todo)
      /\ DOMAIN todo = 1..Len(todo) /\ DOMAIN todo' = 1..(Len(todo) - 1)
      /\ todo' \in Seq(Ops)
  BY MembersOfTail DEF RunInv, RunTypes
<1>2. /\ \A i, j \in 1..Len(todo) :
           todo[i].kind = "flush" /\ todo[j] = Op("close", todo[i].file) => i < j
      /\ \A i \in 1..Len(todo) : todo[i].kind = "text" <=> i = Len(todo)
      /\ ToSet(todo) \subseteq ToSet(FinishOps)
  BY <1>1 DEF RunInv, FinishInv
<1>3. \A k \in 1..(Len(todo) - 1) : k + 1 \in 1..Len(todo)
  BY <1>1
<1>4. Len(todo) # 1
  <2>1. 1 \in 1..Len(todo)
    BY <1>1
  <2>2. QED
    BY <1>2, <2>1 DEF Head1
<1>5. todo' # << >>
  <2>1. todo' = << >> => Len(todo') = 0
    BY EmptySeq
  <2>2. QED
    BY <1>1, <1>4, <2>1
<1>6. ASSUME NEW i \in 1..(Len(todo) - 1), NEW j \in 1..(Len(todo) - 1),
             todo'[i].kind = "flush", todo'[j] = Op("close", todo'[i].file)
      PROVE  i < j
  <2>1. i + 1 < j + 1
    BY <1>1, <1>2, <1>3, <1>6
  <2>2. QED
    BY <2>1
<1>7. ASSUME NEW i \in 1..(Len(todo) - 1)
      PROVE  todo'[i].kind = "text" <=> i = Len(todo')
  <2>1. todo'[i].kind = "text" <=> i + 1 = Len(todo)
    BY <1>1, <1>2, <1>3
  <2>2. i + 1 = Len(todo) <=> i = Len(todo) - 1
    BY <1>1
  <2>3. QED
    BY <1>1, <2>1, <2>2
<1>8. QED
  BY <1>1, <1>2, <1>5, <1>6, <1>7

LEMMA FlushStep ==
  ASSUME RunInv, PipeInv, Flush, failed' = failed
  PROVE  RunInv' /\ PipeInv'
<1>1. /\ todo # << >> /\ Head1.kind = "flush"
      /\ UNCHANGED <<epoch, exitCode, powered, stream, delivered, text, pipeVars>>
  BY DEF Flush, Doing, fileVars
<1>2. /\ exitCode = "none" /\ text["manifest"] # "whole" /\ phase = "finish"
      /\ Head1.file \in Streams /\ Head1 = Op("flush", Head1.file)
  BY <1>1, HeadFacts
<1>3. PipeInv'
  BY <1>1, PipesAlone
<1>4. CASE stream[Head1.file].bad
  <2>1. Fails
    BY <1>4 DEF Flush, Flushed
  <2>2. RunInv'
    BY <1>1, <1>2, <2>1, FailsStep DEF RunInv, RunTypes
  <2>3. QED
    BY <1>3, <2>2
<1>5. CASE ~stream[Head1.file].bad
  <2>1. todo' = Tail(todo) /\ UNCHANGED <<phase, ok>> /\ stream[Head1.file].buffered = 0
    BY <1>5 DEF Flush, Flushed, Done
  <2>2. Tail(todo) \in Seq(Ops) /\ ToSet(todo) = ToSet(Tail(todo)) \cup {Head1}
    BY <1>1, MembersOfTail DEF RunInv, RunTypes, Head1
  <2>3. RunTypes'
    BY <1>1, <2>1, <2>2 DEF RunInv, RunTypes
  <2>4. StreamInv'
    BY <1>1 DEF RunInv, StreamInv, Written
  <2>5. FinishInv'
    <3>1. /\ todo' # << >>
          /\ ToSet(todo') \subseteq ToSet(FinishOps)
          /\ \A i, j \in DOMAIN todo' :
               todo'[i].kind = "flush" /\ todo'[j] = Op("close", todo'[i].file) => i < j
          /\ \A i \in DOMAIN todo' : todo'[i].kind = "text" <=> i = Len(todo')
      BY <1>1, <1>2, <2>1, FinishOrder
    <3>2. ASSUME NEW f \in Streams
          PROVE  /\ Written(f)' = RowsOf(f)
                 /\ Op("flush", f) \notin ToSet(todo') => stream'[f].buffered = 0
      <4>1. Written(f) = RowsOf(f)
            /\ (Op("flush", f) \notin ToSet(todo) => stream[f].buffered = 0)
        BY <1>2 DEF RunInv, FinishInv
      <4>2. Op("flush", f) # Head1 \/ f = Head1.file
        BY DEF Op
      <4>3. QED
        BY <1>1, <2>1, <2>2, <4>1, <4>2 DEF Written
    <3>3. QED
      BY <1>1, <1>2, <2>1, <3>1, <3>2 DEF RunInv, FinishInv
  <2>6. SetupInv' /\ EpochsInv' /\ CleanupInv'
    BY <1>2, <2>1 DEF SetupInv, EpochsInv, CleanupInv
  <2>7. ExitInv' /\ ManifestInv'
    BY <1>1, <1>2, <2>1 DEF ExitInv, ManifestInv
  <2>8. QED
    BY <1>3, <2>3, <2>4, <2>5, <2>6, <2>7 DEF RunInv
<1>6. QED
  BY <1>4, <1>5

LEMMA CloseStep ==
  ASSUME RunInv, PipeInv, Close, failed' = failed
  PROVE  RunInv' /\ PipeInv'
<1>1. /\ todo # << >> /\ Head1.kind = "close" /\ stream[Head1.file].buffered = 0
      /\ stream' = [stream EXCEPT ![Head1.file] = Closed]
      /\ todo' = Tail(todo)
      /\ UNCHANGED <<phase, epoch, ok, exitCode, powered, delivered, text, pipeVars>>
  BY DEF Close, Doing, Done
<1>2. /\ exitCode = "none" /\ text["manifest"] # "whole" /\ phase \in {"finish", "cleanup"}
      /\ Head1.file \in Streams /\ Head1 = Op("close", Head1.file)
  BY <1>1, HeadFacts
<1>3. PICK f \in Streams : f = Head1.file
  BY <1>2
<1>4. Closed \in StreamStates /\ Closed.open = FALSE /\ Closed.buffered = 0
  BY DEF Closed, StreamStates
<1>5. stream \in [Streams -> StreamStates]
  BY DEF RunInv, RunTypes
<1>6. /\ stream' \in [Streams -> StreamStates] /\ stream'[f] = Closed
      /\ \A g \in Streams : g # f => stream'[g] = stream[g]
      /\ \A g \in Streams : stream'[g].buffered = stream[g].buffered
      /\ \A g \in Streams : stream'[g].open => stream[g].open
  BY <1>1, <1>3, <1>4, <1>5
<1>7. Tail(todo) \in Seq(Ops) /\ ToSet(todo) = ToSet(Tail(todo)) \cup {Head1}
  BY <1>1, MembersOfTail DEF RunInv, RunTypes, Head1
<1>8. RunTypes'
  BY <1>1, <1>6, <1>7 DEF RunInv, RunTypes
<1>9. StreamInv'
  BY <1>1, <1>6 DEF RunInv, StreamInv, Written
<1>10. PipeInv'
  BY <1>1, <1>6, PipesAlone
<1>11. FinishInv'
  <2> SUFFICES ASSUME phase = "finish" PROVE FinishInv'
    BY <1>1 DEF FinishInv
  <2>1. /\ todo' # << >>
        /\ ToSet(todo') \subseteq ToSet(FinishOps)
        /\ \A i, j \in DOMAIN todo' :
             todo'[i].kind = "flush" /\ todo'[j] = Op("close", todo'[i].file) => i < j
        /\ \A i \in DOMAIN todo' : todo'[i].kind = "text" <=> i = Len(todo')
    BY <1>1, FinishOrder
  <2>2. \A g \in Streams : Op("flush", g) # Head1
    BY <1>1 DEF Op
  <2>3. \A g \in Streams :
          /\ Written(g)' = RowsOf(g)
          /\ Op("flush", g) \notin ToSet(todo') => stream'[g].buffered = 0
    BY <1>1, <1>6, <1>7, <2>2 DEF RunInv, FinishInv, Written
  <2>4. QED
    BY <1>1, <2>1, <2>3 DEF RunInv, FinishInv
<1>12. CleanupInv'
  BY <1>1, <1>7 DEF RunInv, CleanupInv
<1>13. SetupInv' /\ EpochsInv' /\ ExitInv' /\ ManifestInv'
  BY <1>1, <1>2 DEF SetupInv, EpochsInv, ExitInv, ManifestInv
<1>14. QED
  BY <1>8, <1>9, <1>10, <1>11, <1>12, <1>13 DEF RunInv

LEMMA EpochFailsStep ==
  ASSUME RunInv, PipeInv, EpochFails, failed' = failed
  PROVE  RunInv' /\ PipeInv'
<1>1. /\ todo # << >> /\ phase = "epochs" /\ Fails
      /\ UNCHANGED <<epoch, exitCode, powered, stream, delivered, text, pipeVars>>
  BY DEF EpochFails, fileVars
<1>2. text["manifest"] # "whole"
  BY <1>1, HeadFacts
<1>3. RunInv'
  BY <1>1, <1>2, FailsStep DEF RunInv, RunTypes
<1>4. PipeInv'
  BY <1>1, PipesAlone
<1>5. QED
  BY <1>3, <1>4

LEMMA NextEpochStep ==
  ASSUME RunInv, PipeInv, NextEpoch, failed' = failed
  PROVE  RunInv' /\ PipeInv'
<1>1. /\ phase = "epochs" /\ todo = << >>
      /\ UNCHANGED <<ok, exitCode, stream, delivered, text, pipeVars>>
  BY DEF NextEpoch, fileVars
<1>2. text["manifest"] # "whole" /\ exitCode = "none"
  BY <1>1 DEF RunInv, ManifestInv, ExitInv
<1>3. /\ ok /\ text["scenario"] = "whole"
      /\ \A f \in Streams : stream[f].open /\ Written(f) + RowsIn(todo, f) = RowsTo(f, epoch)
  BY <1>1 DEF RunInv, EpochsInv
<1>4. /\ Len(Timeline) \in Nat /\ epoch \in 0..Len(Timeline) /\ powered \in 0..epoch
      /\ \A f \in Streams : Written(f) \in Nat
  BY RunAssumption DEF RunInv, RunTypes, Written, StreamStates
<1>5. \A f : RowsIn(todo, f) = 0
  BY <1>1, RowsInType DEF RunInv, RunTypes
<1>6. \A f \in Streams : Written(f)' = RowsTo(f, epoch)
  BY <1>1, <1>3, <1>4, <1>5 DEF Written
<1>7. StreamInv' /\ PipeInv'
  BY <1>1, PipesAlone DEF RunInv, StreamInv, Written
<1>8. CASE epoch < Len(Timeline)
  <2>1. /\ epoch' = epoch + 1 /\ todo' = EpochOps(Timeline[epoch + 1]) /\ phase' = phase
        /\ powered' = powered + (IF Timeline[epoch + 1].powered THEN 1 ELSE 0)
    BY <1>8 DEF NextEpoch
  <2>2. epoch + 1 \in 1..Len(Timeline) /\ epoch + 1 \in 0..Len(Timeline)
    BY <1>4, <1>8
  <2>3. powered' \in 0..epoch'
    BY <1>4, <2>1
  <2>4. todo' \in Seq(RowOps)
    BY <2>1, <2>2, EpochOpsType
  <2>5. todo' \in Seq(Ops) /\ ToSet(todo') \subseteq RowOps
    BY <2>4, OpsTypes
  <2>6. RunTypes'
    BY <1>1, <2>1, <2>2, <2>3, <2>5 DEF RunInv, RunTypes
  <2>7. \A f \in Streams : Written(f)' + RowsIn(todo', f) = RowsTo(f, epoch')
    BY <1>4, <1>6, <1>8, <2>1, RowsToFacts
  <2>8. EpochsInv'
    BY <1>1, <1>3, <2>5, <2>7 DEF EpochsInv
  <2>9. SetupInv' /\ FinishInv' /\ CleanupInv' /\ ExitInv' /\ ManifestInv'
    BY <1>1, <1>2, <2>1 DEF SetupInv, FinishInv, CleanupInv, ExitInv, ManifestInv
  <2>10. QED
    BY <1>7, <2>6, <2>8, <2>9 DEF RunInv
<1>9. CASE ~(epoch < Len(Timeline))
  <2>1. phase' = "finish" /\ todo' = FinishOps /\ UNCHANGED <<epoch, powered>>
    BY <1>9 DEF NextEpoch
  <2>2. RunTypes'
    BY <1>1, <2>1, FinishFacts DEF RunInv, RunTypes, Phases
  <2>3. \A f \in Streams : Written(f)' = RowsOf(f)
    <3>1. epoch = Len(Timeline)
      BY <1>4, <1>9
    <3>2. QED
      BY <1>6, <3>1 DEF RowsOf
  <2>4. FinishInv'
    <3>1. FinishOps # << >>
      <4>1. FinishOps \in Seq(Ops) /\ Len(FinishOps) = 15
        BY FinishFacts
      <4>2. FinishOps = << >> => Len(FinishOps) = 0
        BY EmptySeq
      <4>3. QED
        BY <4>1, <4>2
    <3>2. QED
      BY <1>1, <1>3, <2>1, <2>3, <3>1, FinishFacts DEF FinishInv
  <2>5. SetupInv' /\ EpochsInv' /\ CleanupInv' /\ ExitInv' /\ ManifestInv'
    BY <1>1, <1>2, <2>1 DEF SetupInv, EpochsInv, CleanupInv, ExitInv, ManifestInv
  <2>6. QED
    BY <1>7, <2>2, <2>4, <2>5 DEF RunInv
<1>10. QED
  BY <1>8, <1>9

LEMMA NextPhaseStep ==
  ASSUME RunInv, PipeInv, NextPhase, failed' = failed
  PROVE  RunInv' /\ PipeInv'
<1>1. todo = << >> /\ UNCHANGED <<todo, epoch, ok, powered, stream, delivered, text, pipeVars>>
  BY DEF NextPhase, fileVars
<1>2. StreamInv' /\ PipeInv'
  BY <1>1, PipesAlone DEF RunInv, StreamInv, Written
<1>3. CASE phase = "create" /\ phase' = "epochs" /\ UNCHANGED exitCode
  <2>1. RunTypes'
    BY <1>1, <1>3 DEF RunInv, RunTypes, Phases
  <2>2. /\ ok /\ text["scenario"] = "whole" /\ epoch = 0
        /\ \A f \in Streams : stream[f].open /\ delivered[f] = 0
             /\ stream[f].buffered = HeaderRows(f)
    BY <1>1, <1>3, NoMembers DEF RunInv, SetupInv
  <2>3. \A f \in Streams : (Written(f) + RowsIn(todo, f) = RowsTo(f, epoch))'
    <3>1. TAKE f \in Streams
    <3>2. RowsIn(todo, f) = 0
      BY <1>1, RowsInType DEF RunInv, RunTypes
    <3>3. RowsTo(f, 0) = HeaderRows(f) /\ HeaderRows(f) \in {0, 1}
      <4>1. 0 \in 0..Len(Timeline)
        BY RunAssumption
      <4>2. QED
        BY <4>1, RowsToFacts
    <3>4. Written(f) + RowsIn(todo, f) = RowsTo(f, epoch)
      BY <2>2, <3>2, <3>3 DEF Written
    <3>5. QED
      BY <1>1, <3>4 DEF Written
  <2>4. EpochsInv'
    BY <1>1, <2>2, <2>3, NoMembers DEF EpochsInv
  <2>5. SetupInv' /\ FinishInv' /\ CleanupInv' /\ ExitInv' /\ ManifestInv'
    BY <1>1, <1>3 DEF RunInv, SetupInv, FinishInv, CleanupInv, ExitInv, ManifestInv
  <2>6. QED
    BY <1>2, <2>1, <2>4, <2>5 DEF RunInv
<1>4. CASE phase = "finish" /\ phase' = "cleanup" /\ UNCHANGED exitCode
  <2>1. RunTypes'
    BY <1>1, <1>4 DEF RunInv, RunTypes, Phases
  <2>2. ok /\ text["manifest"] = "whole"
    BY <1>1, <1>4 DEF RunInv, FinishInv
  <2>3. CleanupInv'
    BY <1>1, <2>2, NoMembers DEF CleanupInv
  <2>4. SetupInv' /\ EpochsInv' /\ FinishInv' /\ ExitInv' /\ ManifestInv'
    BY <1>1, <1>4 DEF RunInv, SetupInv, EpochsInv, FinishInv, ExitInv, ManifestInv
  <2>5. QED
    BY <1>2, <2>1, <2>3, <2>4 DEF RunInv
<1>5. CASE phase = "cleanup" /\ phase' = "exited" /\ exitCode' = (IF ok THEN "0" ELSE "1")
  <2>1. RunTypes'
    BY <1>1, <1>5 DEF RunInv, RunTypes, Phases
  <2>2. ok <=> text["manifest"] = "whole"
    BY <1>5 DEF RunInv, CleanupInv
  <2>3. ExitInv'
    BY <1>1, <1>5, <2>2 DEF ExitInv
  <2>4. SetupInv' /\ EpochsInv' /\ FinishInv' /\ CleanupInv' /\ ManifestInv'
    BY <1>1, <1>5 DEF RunInv, SetupInv, EpochsInv, FinishInv, CleanupInv, ManifestInv
  <2>5. QED
    BY <1>2, <2>1, <2>3, <2>4 DEF RunInv
<1>6. QED
  BY <1>3, <1>4, <1>5 DEF NextPhase

(* Every operation of the simulator, with the harness watching.            *)
LEMMA RunStepKeeps ==
  ASSUME IInv, SimulatorStep
  PROVE  IInv'
<1>1. RunInv /\ PipeInv /\ RunStep /\ failed' = failed
      /\ UNCHANGED <<harness, left, failed, late, recorded, checking, errors, peak, verdict>>
  BY DEF IInv, SimulatorStep, harnessVars, report
<1>2. RunInv' /\ PipeInv'
  BY <1>1, LoadStep, OpenStep, TextStep, RowStep, FlushStep, CloseStep, EpochFailsStep,
     NextEpochStep, NextPhaseStep, PushStep, PushFailsStep, KilledStep DEF RunStep
<1>3. phase \in {"load", "create", "epochs", "finish", "cleanup"} /\ phase' # "idle"
      /\ captured' = captured
  <2>1. CASE todo = << >>
    BY <1>1, <2>1 DEF RunStep, Load, OpenStream, WriteText, WriteRow, Flush, Close, Doing,
       EpochFails, NextEpoch, NextPhase, Push, PushFails, Killed, MustPush, pipeVars
  <2>2. CASE todo # << >>
    <3>1. phase \in {"create", "epochs", "finish", "cleanup"}
      BY <1>1, <2>2, HeadFacts
    <3>2. (phase' = phase \/ phase' \in {"cleanup", "exited"}) /\ captured' = captured
      BY <1>1, <2>2, <3>1 DEF RunStep, Load, OpenStream, WriteText, WriteRow, Flush, Flushed,
         Close, Fails, EpochFails, NextEpoch, NextPhase, Push, PushFails, Killed, pipeVars
    <3>3. QED
      BY <3>1, <3>2
  <2>3. QED
    BY <2>1, <2>2
<1>4. harness = "poll"
  BY <1>3 DEF IInv, HarnessInv, HarnessTypes, HarnessStates
<1>5. HarnessTypes' /\ LeftInv'
  BY <1>1 DEF IInv, HarnessTypes, LeftInv, FifoOrder
<1>6. HarnessInv'
  BY <1>1, <1>3, <1>4 DEF IInv, HarnessInv
<1>7. QED
  BY <1>2, <1>5, <1>6 DEF IInv

-----------------------------------------------------------------------------
(* The captures.                                                           *)

LEMMA FifosAreStreams ==
  Fifos \subseteq Streams /\ Fifos \subseteq FIFO_NAMES /\ "none" \notin Fifos
  BY RunAssumption, HarnessAssumption DEF FIFO_NAMES

(* What the simulator has done is untouched.                               *)
LEMMA RunAlone ==
  ASSUME RunInv, UNCHANGED <<phase, todo, epoch, ok, exitCode, powered, fileVars>>
  PROVE  RunInv'
<1>1. UNCHANGED <<phase, todo, epoch, ok, exitCode, powered, stream, delivered, text>>
  BY DEF fileVars
<1>2. RunTypes' /\ ExitInv' /\ ManifestInv' /\ StreamInv'
  BY <1>1 DEF RunInv, RunTypes, ExitInv, ManifestInv, StreamInv, Written
<1>3. SetupInv' /\ EpochsInv' /\ FinishInv' /\ CleanupInv'
  BY <1>1 DEF RunInv, SetupInv, EpochsInv, FinishInv, CleanupInv, Written
<1>4. QED
  BY <1>2, <1>3 DEF RunInv

(* A capture that is still reading when the harness looks at it is late,   *)
(* and one that has been checked and is no error has ended.                *)
LEMMA CaptureKeeps ==
  ASSUME IInv, NEW f \in Fifos, CaptureStep(f)
  PROVE  IInv'
<1>1. f \in Streams /\ f \in FIFO_NAMES
  BY FifosAreStreams
<1>2. /\ UNCHANGED <<phase, todo, epoch, ok, exitCode, powered, fileVars>>
      /\ UNCHANGED <<harness, left, late, recorded, checking, errors, peak, verdict>>
  BY DEF CaptureStep, CaptureOpens, CaptureReads, CaptureEnds, CaptureFails, harnessVars, report
<1>3. RunInv'
  BY <1>2, RunAlone DEF IInv
<1>4. LeftInv'
  BY <1>2 DEF IInv, LeftInv, FifoOrder
<1>5. /\ captured \in [Streams -> Nat] /\ reader \in [Streams -> ReaderStates]
      /\ delivered \in [Streams -> Nat] /\ PipeInv /\ HarnessInv /\ HarnessTypes
      /\ stream' = stream /\ delivered' = delivered
  BY <1>2 DEF IInv, PipeInv, RunInv, RunTypes, fileVars
<1>6. \A g \in Fifos : recorded[g] \in Nat /\ captured[g] \in Nat /\ recorded[g] <= captured[g]
  BY <1>5, FifosAreStreams DEF HarnessInv, HarnessTypes
<1>7. CASE CaptureOpens(f) \/ CaptureEnds(f)
  <2>1. /\ captured' = captured /\ failed' = failed
        /\ reader[f] \in {"starting", "reading"} /\ reader'[f] \in {"opening", "done"}
        /\ reader' \in [Streams -> ReaderStates]
        /\ \A g \in Streams : g # f => reader'[g] = reader[g]
    BY <1>1, <1>5, <1>7 DEF CaptureOpens, CaptureEnds, harnessVars, ReaderStates
  <2>2. PipeInv'
    <3>1. reader'[f] = "opening" => captured[f] = 0
      BY <1>1, <1>5, <1>7 DEF CaptureOpens, CaptureEnds, PipeInv
    <3>2. reader'[f] = "done" => captured[f] = delivered[f] /\ ~stream[f].open
      BY <1>1, <1>5, <1>7 DEF CaptureOpens, CaptureEnds, PipeInv
    <3>3. QED
      BY <1>1, <1>5, <2>1, <3>1, <3>2 DEF PipeInv
  <2>3. HarnessTypes'
    BY <1>2, <1>5, <2>1 DEF HarnessTypes
  <2>4. \A g \in Fifos : (Joined(g) => Joined(g)') /\ (Recorded(g) => Recorded(g)')
                         /\ (Checked(g) => Checked(g)')
    BY <1>1, <1>2, <2>1, FifosAreStreams DEF Joined, Recorded, Checked
  <2>5. HarnessInv'
    BY <1>2, <1>5, <2>1, <2>4 DEF HarnessInv
  <2>6. QED
    BY <1>3, <1>4, <2>2, <2>3, <2>5 DEF IInv
<1>8. CASE CaptureReads(f)
  <2>1. /\ reader[f] = "reading" /\ captured[f] < delivered[f]
        /\ captured' = [captured EXCEPT ![f] = @ + 1]
        /\ reader' = reader /\ failed' = failed
    BY <1>8 DEF CaptureReads, harnessVars
  <2>2. /\ captured'[f] = captured[f] + 1 /\ captured' \in [Streams -> Nat]
        /\ \A g \in Streams : g # f => captured'[g] = captured[g]
    BY <1>1, <1>5, <2>1
  <2>3. captured'[f] <= delivered[f] /\ delivered[f] - captured'[f] <= PipeRows
    <3>1. captured[f] \in Nat /\ delivered[f] \in Nat /\ delivered[f] - captured[f] <= PipeRows
          /\ PipeRows \in Nat
      BY <1>1, <1>5, RunAssumption DEF PipeInv
    <3>2. QED
      BY <2>1, <2>2, <3>1
  <2>4. PipeInv'
    BY <1>1, <1>5, <2>1, <2>2, <2>3 DEF PipeInv
  <2>5. HarnessTypes'
    BY <1>2, <1>5, <2>1 DEF HarnessTypes
  <2>6. \A g \in Fifos : recorded'[g] <= captured'[g]
    BY <1>1, <1>2, <1>6, <2>2, FifosAreStreams
  <2>7. \A g \in Fifos : /\ Joined(g) => Joined(g)'
                         /\ Joined(g) /\ Recorded(g) => Recorded(g)'
                         /\ Checked(g) => Checked(g)'
    BY <1>1, <1>2, <2>1, <2>2, FifosAreStreams DEF Joined, Recorded, Checked
  <2>8. HarnessInv'
    BY <1>2, <1>5, <2>6, <2>7 DEF HarnessInv
  <2>9. QED
    BY <1>3, <1>4, <2>4, <2>5, <2>8 DEF IInv
<1>9. CASE CaptureFails(f)
  <2>1. /\ captured' = captured /\ failed' = failed \cup {f}
        /\ reader[f] = "reading" /\ reader'[f] = "done"
        /\ reader' \in [Streams -> ReaderStates]
        /\ \A g \in Streams : g # f => reader'[g] = reader[g]
    BY <1>1, <1>5, <1>9 DEF CaptureFails, ReaderStates
  <2>2. PipeInv'
    BY <1>1, <1>5, <2>1 DEF PipeInv
  <2>3. HarnessTypes'
    BY <1>2, <1>5, <2>1 DEF HarnessTypes
  <2>4. \A g \in Fifos : (Joined(g) => Joined(g)') /\ (Recorded(g) => Recorded(g)')
                         /\ (Checked(g) => Checked(g)')
    BY <1>1, <1>2, <2>1, FifosAreStreams DEF Joined, Recorded, Checked
  <2>5. HarnessInv'
    BY <1>2, <1>5, <2>1, <2>4 DEF HarnessInv
  <2>6. QED
    BY <1>3, <1>4, <2>2, <2>3, <2>5 DEF IInv
<1>10. QED
  BY <1>7, <1>8, <1>9 DEF CaptureStep

-----------------------------------------------------------------------------
(* The main thread.                                                        *)

(* A pass begins with every capture and takes them off one by one.         *)
LEMMA PassBegins ==
  ASSUME NEW q, q = FifoOrder
  PROVE  /\ q \in Seq(Fifos) /\ ToSet(q) = Fifos
         /\ \E k \in 1..(Len(FifoOrder) + 1) : q = SubSeq(FifoOrder, k, Len(FifoOrder))
<1>1. FifoOrder \in Seq(Fifos) /\ ToSet(FifoOrder) = Fifos
  BY FifoOrderFacts
<1>2. Len(FifoOrder) \in Nat /\ SubSeq(FifoOrder, 1, Len(FifoOrder)) = FifoOrder
  BY <1>1, SubSeqFull
<1>3. QED
  BY <1>1, <1>2

LEMMA PassGoesOn ==
  ASSUME NEW q, q \in Seq(Fifos), q # << >>,
         \E k \in 1..(Len(FifoOrder) + 1) : q = SubSeq(FifoOrder, k, Len(FifoOrder))
  PROVE  /\ q[1] \in Fifos /\ Tail(q) \in Seq(Fifos)
         /\ ToSet(q) = ToSet(Tail(q)) \cup {q[1]}
         /\ \E k \in 1..(Len(FifoOrder) + 1) :
              Tail(q) = SubSeq(FifoOrder, k, Len(FifoOrder))
<1> DEFINE L == Len(FifoOrder)
<1>1. PICK k \in 1..(L + 1) : q = SubSeq(FifoOrder, k, L)
  OBVIOUS
<1>2. FifoOrder \in Seq(Fifos) /\ L \in Nat
  BY FifoOrderFacts
<1>3. k <= L
  <2>1. SUFFICES ASSUME L < k PROVE FALSE
    BY <1>2
  <2>2. SubSeq(FifoOrder, k, L) = << >>
    BY <1>2, <2>1, SubSeqEmpty
  <2>3. QED
    BY <1>1, <2>2
<1>4. k \in 1..L /\ L \in k..L /\ k + 1 \in 1..(L + 1)
  BY <1>2, <1>3
<1>5. Tail(SubSeq(FifoOrder, k, L)) = SubSeq(FifoOrder, k + 1, L)
  BY <1>2, <1>4, HeadTailOfSubSeq
<1>6. QED
  BY <1>1, <1>4, <1>5, MembersOfTail

LEMMA PrepareKeeps ==
  ASSUME IInv, Prepare
  PROVE  IInv'
<1>1. /\ harness = "prepare" /\ harness' = "launch"
      /\ reader' = [f \in Streams |-> IF f \in Fifos THEN "starting" ELSE "none"]
      /\ UNCHANGED <<phase, todo, epoch, ok, exitCode, powered, fileVars, captured>>
      /\ UNCHANGED <<left, failed, late, recorded, checking, errors, peak, verdict>>
  BY DEF Prepare, HarnessGoes, report
<1>2. RunInv'
  BY <1>1, RunAlone DEF IInv
<1>3. phase = "idle" /\ \A f \in Streams : captured[f] = 0
  <2>1. phase = "idle"
    BY <1>1 DEF IInv, HarnessInv
  <2>2. \A f \in Streams : delivered[f] = 0 /\ captured[f] \in Nat /\ captured[f] <= delivered[f]
    BY <2>1 DEF IInv, RunInv, SetupInv, PipeInv
  <2>3. \A f \in Streams : captured[f] = 0
    BY <2>2
  <2>4. QED
    BY <2>1, <2>3
<1>4. PipeInv'
  BY <1>1, <1>3 DEF IInv, PipeInv, ReaderStates, fileVars
<1>5. HarnessTypes' /\ LeftInv'
  BY <1>1 DEF IInv, HarnessTypes, HarnessStates, LeftInv, FifoOrder
<1>6. HarnessInv'
  BY <1>1, <1>3 DEF IInv, HarnessInv
<1>7. QED
  BY <1>2, <1>4, <1>5, <1>6 DEF IInv

(* The process has started: it has read and written nothing yet.           *)
LEMMA LaunchKeeps ==
  ASSUME IInv, Launch
  PROVE  IInv'
<1>1. /\ harness = "launch" /\ harness' = "poll" /\ phase' = "load"
      /\ UNCHANGED <<todo, epoch, ok, exitCode, powered, stream, delivered, text, pipeVars>>
      /\ UNCHANGED <<left, failed, late, recorded, checking, errors, peak, verdict>>
  BY DEF Launch, HarnessGoes, report, fileVars
<1>2. phase = "idle"
  BY <1>1 DEF IInv, HarnessInv
<1>3. RunTypes' /\ StreamInv'
  BY <1>1 DEF IInv, RunInv, RunTypes, StreamInv, Written, Phases
<1>4. SetupInv' /\ EpochsInv' /\ FinishInv' /\ CleanupInv' /\ ExitInv' /\ ManifestInv'
  BY <1>1, <1>2 DEF IInv, RunInv, SetupInv, EpochsInv, FinishInv, CleanupInv, ExitInv, ManifestInv
<1>5. PipeInv'
  BY <1>1, PipesAlone DEF IInv
<1>6. HarnessTypes' /\ LeftInv'
  BY <1>1 DEF IInv, HarnessTypes, HarnessStates, LeftInv, FifoOrder
<1>7. HarnessInv'
  BY <1>1 DEF IInv, HarnessInv, pipeVars
<1>8. QED
  BY <1>3, <1>4, <1>5, <1>6, <1>7 DEF IInv, RunInv

(* Steps of the harness that touch neither the simulator nor the pipes.    *)
LEMMA RunVarsAlone ==
  ASSUME IInv, UNCHANGED runVars, failed' = failed
  PROVE  /\ RunInv' /\ PipeInv'
         /\ UNCHANGED <<phase, exitCode, reader, captured, text>>
<1>1. /\ UNCHANGED <<phase, todo, epoch, ok, exitCode, powered, fileVars>>
      /\ UNCHANGED <<stream, delivered, pipeVars, text, reader, captured>>
  BY DEF runVars, fileVars, pipeVars
<1>2. RunInv'
  BY <1>1, RunAlone DEF IInv
<1>3. PipeInv'
  BY <1>1, PipesAlone DEF IInv
<1>4. QED
  BY <1>1, <1>2, <1>3

LEMMA PollKeeps ==
  ASSUME IInv, Poll
  PROVE  IInv'
<1>1. /\ harness = "poll" /\ peak' = TRUE /\ UNCHANGED runVars
      /\ UNCHANGED <<harness, left, failed, late, recorded, checking, errors, verdict>>
  BY DEF Poll
<1>2. RunInv' /\ PipeInv' /\ UNCHANGED <<phase, exitCode, reader, captured>>
  BY <1>1, RunVarsAlone
<1>3. HarnessTypes' /\ LeftInv' /\ HarnessInv'
  BY <1>1, <1>2 DEF IInv, HarnessTypes, LeftInv, HarnessInv, FifoOrder
<1>4. QED
  BY <1>2, <1>3 DEF IInv

LEMMA WaitKeeps ==
  ASSUME IInv, Wait
  PROVE  IInv'
<1>1. /\ harness = "poll" /\ phase = "exited" /\ harness' = "unblock" /\ left' = FifoOrder
      /\ UNCHANGED runVars
      /\ UNCHANGED <<failed, late, recorded, checking, errors, peak, verdict>>
  BY DEF Wait, report
<1>2. RunInv' /\ PipeInv' /\ UNCHANGED <<phase, exitCode, reader, captured>>
  BY <1>1, RunVarsAlone
<1>3. HarnessTypes'
  BY <1>1, PassBegins DEF IInv, HarnessTypes, HarnessStates
<1>4. LeftInv'
  <2>1. FifoOrder' = FifoOrder /\ checking = "none"
    BY <1>1 DEF IInv, LeftInv, FifoOrder
  <2>2. QED
    BY <1>1, <2>1, PassBegins DEF LeftInv
<1>5. HarnessInv'
  BY <1>1, <1>2 DEF IInv, HarnessInv
<1>6. QED
  BY <1>2, <1>3, <1>4, <1>5 DEF IInv

LEMMA UnblockKeeps ==
  ASSUME IInv, Unblock
  PROVE  IInv'
<1>1. /\ harness = "unblock"
      /\ UNCHANGED <<phase, todo, epoch, ok, exitCode, powered, fileVars, captured>>
      /\ UNCHANGED <<failed, late, recorded, checking, errors, peak, verdict>>
  BY DEF Unblock, report
<1>2. RunInv' /\ checking = "none"
  BY <1>1, RunAlone DEF IInv, LeftInv
<1>3. CASE /\ left # << >> /\ left' = Tail(left) /\ harness' = harness
           /\ reader' = [reader EXCEPT ![left[1]] = IF @ = "opening" THEN "reading" ELSE @]
  <2>1. /\ left[1] \in Fifos /\ Tail(left) \in Seq(Fifos)
        /\ \E k \in 1..(Len(FifoOrder) + 1) : Tail(left) = SubSeq(FifoOrder, k, Len(FifoOrder))
    BY <1>3, PassGoesOn DEF IInv, HarnessTypes, LeftInv
  <2>2. PICK f \in Fifos : f = left[1]
    BY <2>1
  <2>3. /\ reader' \in [Streams -> ReaderStates]
        /\ reader'[f] = (IF reader[f] = "opening" THEN "reading" ELSE reader[f])
        /\ \A g \in Streams : g # f => reader'[g] = reader[g]
    BY <1>3, <2>2, FifosAreStreams DEF IInv, PipeInv, ReaderStates
  <2>4. PipeInv'
    BY <1>1, <2>2, <2>3, FifosAreStreams DEF IInv, PipeInv, fileVars
  <2>5. HarnessTypes'
    BY <1>1, <1>3, <2>1 DEF IInv, HarnessTypes
  <2>6. LeftInv'
    BY <1>1, <1>2, <1>3, <2>1 DEF IInv, LeftInv, FifoOrder
  <2>7. HarnessInv'
    BY <1>1, <1>3 DEF IInv, HarnessInv
  <2>8. QED
    BY <1>2, <2>4, <2>5, <2>6, <2>7 DEF IInv
<1>4. CASE left = << >> /\ harness' = "join" /\ left' = FifoOrder /\ reader' = reader
  <2>1. PipeInv'
    BY <1>1, <1>4, PipesAlone DEF IInv, pipeVars, fileVars
  <2>2. HarnessTypes'
    BY <1>1, <1>4, PassBegins DEF IInv, HarnessTypes, HarnessStates
  <2>3. LeftInv'
    <3>1. FifoOrder' = FifoOrder
      BY DEF FifoOrder
    <3>2. QED
      BY <1>1, <1>2, <1>4, <3>1, PassBegins DEF LeftInv
  <2>4. HarnessInv'
    BY <1>1, <1>4, PassBegins DEF IInv, HarnessInv
  <2>5. QED
    BY <1>2, <2>1, <2>2, <2>3, <2>4 DEF IInv
<1>5. QED
  BY <1>3, <1>4 DEF Unblock

(* A join returns, and what it has not waited for is late.                 *)
LEMMA JoinKeeps ==
  ASSUME IInv, Join
  PROVE  IInv'
<1>1. /\ harness = "join" /\ UNCHANGED runVars
      /\ UNCHANGED <<failed, recorded, checking, errors, peak, verdict>>
  BY DEF Join
<1>2. /\ RunInv' /\ PipeInv' /\ UNCHANGED <<phase, exitCode, reader, captured>>
      /\ checking = "none"
  BY <1>1, RunVarsAlone DEF IInv, LeftInv
<1>3. CASE /\ left # << >> /\ left' = Tail(left) /\ harness' = harness
           /\ late' = IF Alive(left[1]) THEN late \cup {left[1]} ELSE late
  <2>1. /\ left[1] \in Fifos /\ Tail(left) \in Seq(Fifos)
        /\ ToSet(left) = ToSet(Tail(left)) \cup {left[1]}
        /\ \E k \in 1..(Len(FifoOrder) + 1) : Tail(left) = SubSeq(FifoOrder, k, Len(FifoOrder))
    BY <1>3, PassGoesOn DEF IInv, HarnessTypes, LeftInv
  <2>2. HarnessTypes'
    BY <1>1, <1>3, <2>1 DEF IInv, HarnessTypes
  <2>3. LeftInv'
    BY <1>1, <1>2, <1>3, <2>1 DEF IInv, LeftInv, FifoOrder
  <2>4. HarnessInv'
    BY <1>1, <1>2, <1>3, <2>1 DEF IInv, HarnessInv, Joined, Alive
  <2>5. QED
    BY <1>2, <2>2, <2>3, <2>4 DEF IInv
<1>4. CASE left = << >> /\ harness' = "collect" /\ left' = FifoOrder /\ late' = late
  <2>1. HarnessTypes'
    BY <1>1, <1>4, PassBegins DEF IInv, HarnessTypes, HarnessStates
  <2>2. LeftInv'
    <3>1. FifoOrder' = FifoOrder
      BY DEF FifoOrder
    <3>2. QED
      BY <1>1, <1>2, <1>4, <3>1, PassBegins DEF LeftInv
  <2>3. \A f \in Fifos : Joined(f)' /\ f \in ToSet(left') /\ f # checking'
    BY <1>1, <1>2, <1>4, NoMembers, PassBegins, FifosAreStreams DEF IInv, HarnessInv, Joined
  <2>4. HarnessInv'
    BY <1>1, <1>2, <1>4, <2>3 DEF IInv, HarnessInv
  <2>5. QED
    BY <1>2, <2>1, <2>2, <2>4 DEF IInv
<1>5. QED
  BY <1>3, <1>4 DEF Join

LEMMA RecordKeeps ==
  ASSUME IInv, Record
  PROVE  IInv'
<1>1. /\ harness = "collect" /\ checking = "none" /\ left # << >> /\ UNCHANGED runVars
      /\ recorded' = [recorded EXCEPT ![left[1]] = captured[left[1]]]
      /\ checking' = left[1]
      /\ UNCHANGED <<harness, left, failed, late, errors, peak, verdict>>
  BY DEF Record
<1>2. RunInv' /\ PipeInv' /\ UNCHANGED <<phase, exitCode, reader, captured>>
  BY <1>1, RunVarsAlone
<1>3. left[1] \in Fifos /\ left[1] \in FIFO_NAMES /\ left[1] \in Streams
  BY <1>1, PassGoesOn, FifosAreStreams DEF IInv, HarnessTypes, LeftInv
<1>4. captured[left[1]] \in Nat
  BY <1>3 DEF IInv, PipeInv
<1>5. /\ recorded' \in [FIFO_NAMES -> Nat] /\ recorded'[left[1]] = captured[left[1]]
      /\ \A f \in Fifos : f # left[1] => recorded'[f] = recorded[f]
  BY <1>1, <1>3, <1>4, FifosAreStreams DEF IInv, HarnessTypes
<1>6. HarnessTypes' /\ LeftInv'
  BY <1>1, <1>3, <1>5 DEF IInv, HarnessTypes, LeftInv, FifoOrder
<1>7. HarnessInv'
  <2>1. \A f \in Fifos : recorded'[f] <= captured'[f]
    BY <1>2, <1>4, <1>5 DEF IInv, HarnessInv
  <2>2. \A f \in Fifos :
          /\ Joined(f)'
          /\ (f \in ToSet(left') /\ f # checking') \/ Recorded(f)'
          /\ f \in ToSet(left') \/ Checked(f)'
    BY <1>1, <1>2, <1>3, <1>5 DEF IInv, HarnessInv, Joined, Recorded, Checked
  <2>3. QED
    BY <1>1, <1>2, <2>1, <2>2 DEF IInv, HarnessInv
<1>8. QED
  BY <1>2, <1>6, <1>7 DEF IInv

LEMMA CheckKeeps ==
  ASSUME IInv, Check
  PROVE  IInv'
<1>1. /\ harness = "collect" /\ checking # "none" /\ UNCHANGED runVars
      /\ errors' = errors \cup (IF Alive(checking) \/ checking \in failed THEN {checking} ELSE {})
      /\ left' = Tail(left) /\ checking' = "none"
      /\ UNCHANGED <<harness, failed, late, recorded, peak, verdict>>
  BY DEF Check, ErrorsOf
<1>2. RunInv' /\ PipeInv' /\ UNCHANGED <<phase, exitCode, reader, captured>>
  BY <1>1, RunVarsAlone
<1>3. left # << >> /\ checking = left[1] /\ checking \in Fifos
  BY <1>1 DEF IInv, LeftInv, HarnessTypes
<1>4. /\ Tail(left) \in Seq(Fifos) /\ ToSet(left) = ToSet(Tail(left)) \cup {checking}
      /\ \E k \in 1..(Len(FifoOrder) + 1) : Tail(left) = SubSeq(FifoOrder, k, Len(FifoOrder))
  BY <1>3, PassGoesOn DEF IInv, HarnessTypes, LeftInv
<1>5. HarnessTypes'
  BY <1>1, <1>3, <1>4 DEF IInv, HarnessTypes
<1>6. LeftInv'
  BY <1>1, <1>4 DEF IInv, LeftInv, FifoOrder
<1>7. \A f \in Fifos : f = checking => Checked(f)'
  BY <1>1, <1>2 DEF Checked, Alive
<1>8. \A f \in Fifos :
        /\ Joined(f)'
        /\ (f \in ToSet(left') /\ f # checking') \/ Recorded(f)'
        /\ f \in ToSet(left') \/ Checked(f)'
  <2> SUFFICES ASSUME NEW f \in Fifos
               PROVE  /\ Joined(f)'
                      /\ (f \in ToSet(left') /\ f # checking') \/ Recorded(f)'
                      /\ f \in ToSet(left') \/ Checked(f)'
    OBVIOUS
  <2>1. Joined(f) /\ ((f \in ToSet(left) /\ f # checking) \/ Recorded(f))
        /\ (f \in ToSet(left) \/ Checked(f))
    BY <1>1 DEF IInv, HarnessInv
  <2>2. Joined(f)' /\ (Recorded(f) => Recorded(f)') /\ (Checked(f) => Checked(f)')
    BY <1>1, <1>2, <2>1 DEF Joined, Recorded, Checked
  <2>3. f # checking' /\ (f \in ToSet(left) <=> f \in ToSet(left') \/ f = checking)
    BY <1>1, <1>4, FifosAreStreams
  <2>4. QED
    BY <1>7, <2>1, <2>2, <2>3
<1>9. HarnessInv'
  BY <1>1, <1>2, <1>8 DEF IInv, HarnessInv
<1>10. QED
  BY <1>2, <1>5, <1>6, <1>9 DEF IInv

LEMMA ReportKeeps ==
  ASSUME IInv, Report
  PROVE  IInv'
<1>1. /\ harness = "collect" /\ checking = "none" /\ left = << >> /\ harness' = "reported"
      /\ UNCHANGED runVars
      /\ UNCHANGED <<left, failed, late, recorded, checking, errors, peak>>
  BY DEF Report
<1>2. RunInv' /\ PipeInv' /\ UNCHANGED <<phase, exitCode, reader, captured>>
  BY <1>1, RunVarsAlone
<1>3. /\ verdict' \in {"passed", "failed", "error"}
      /\ verdict' = "passed" => exitCode = "0" /\ errors = {}
  BY DEF Report, Valid
<1>4. HarnessTypes' /\ LeftInv'
  BY <1>1, <1>3 DEF IInv, HarnessTypes, HarnessStates, LeftInv, FifoOrder
<1>5. HarnessInv'
  <2>1. \A f \in Fifos :
          /\ Joined(f)'
          /\ (f \in ToSet(left') /\ f # checking') \/ Recorded(f)'
          /\ f \in ToSet(left') \/ Checked(f)'
    BY <1>1, <1>2 DEF IInv, HarnessInv, Joined, Recorded, Checked
  <2>2. QED
    BY <1>1, <1>2, <1>3, <2>1 DEF IInv, HarnessInv
<1>6. QED
  BY <1>2, <1>4, <1>5 DEF IInv

-----------------------------------------------------------------------------
LEMMA InitEstablishes == Init => IInv
<1> SUFFICES ASSUME Init PROVE IInv
  OBVIOUS
<1> USE DEF Init, RunInit
<1>1. Closed \in StreamStates /\ Closed.open = FALSE /\ Closed.buffered = 0
  BY DEF Closed, StreamStates
<1>2. /\ \A f \in Streams : stream[f] = Closed /\ delivered[f] = 0 /\ captured[f] = 0
                            /\ reader[f] = "none"
      /\ stream \in [Streams -> StreamStates] /\ delivered \in [Streams -> Nat]
  BY <1>1
<1>3. Len(Timeline) \in Nat /\ BufferRows \in Nat /\ PipeRows \in Nat
  BY RunAssumption
<1>4. text["manifest"] = "absent"
  BY DEF TextFiles
<1>5. RunTypes
  BY <1>2, <1>3 DEF RunTypes, Phases
<1>6. SetupInv /\ EpochsInv /\ FinishInv /\ CleanupInv /\ ExitInv /\ ManifestInv
  BY <1>1, <1>2, <1>4 DEF SetupInv, EpochsInv, FinishInv, CleanupInv, ExitInv, ManifestInv
<1>7. StreamInv
  <2>1. \A f : RowsOf(f) \in Nat
    <3>1. 0 \in 0..Len(Timeline)
      BY <1>3
    <3>2. QED
      BY <3>1, RowsToFacts
  <2>2. QED
    BY <1>1, <1>2, <1>3, <2>1 DEF StreamInv, Written
<1>8. PipeInv
  BY <1>2, <1>3 DEF PipeInv, ReaderStates
<1>9. HarnessTypes
  <2>1. left \in Seq(Fifos) /\ recorded \in [FIFO_NAMES -> Nat]
    OBVIOUS
  <2>2. harness \in HarnessStates
    BY DEF HarnessStates
  <2>3. QED
    BY <2>1, <2>2 DEF HarnessTypes
<1>10. LeftInv
  <2>1. Len(FifoOrder) \in Nat
    BY FifoOrderFacts
  <2>2. /\ Len(FifoOrder) + 1 \in 1..(Len(FifoOrder) + 1)
        /\ SubSeq(FifoOrder, Len(FifoOrder) + 1, Len(FifoOrder)) = << >>
    BY <2>1, SubSeqEmpty
  <2>3. QED
    BY <2>2 DEF LeftInv
<1>11. HarnessInv
  BY <1>2, FifosAreStreams DEF HarnessInv
<1>12. QED
  BY <1>5, <1>6, <1>7, <1>8, <1>9, <1>10, <1>11 DEF IInv, RunInv

LEMMA NextKeeps == IInv /\ [Next]_vars => IInv'
<1> SUFFICES ASSUME IInv, [Next]_vars PROVE IInv'
  OBVIOUS
<1>1. CASE SimulatorStep
  BY <1>1, RunStepKeeps
<1>2. CASE \E f \in Fifos : CaptureStep(f)
  BY <1>2, CaptureKeeps
<1>3. CASE HarnessStep
  BY <1>3, PrepareKeeps, LaunchKeeps, PollKeeps, WaitKeeps, UnblockKeeps, JoinKeeps,
     RecordKeeps, CheckKeeps, ReportKeeps DEF HarnessStep
<1>4. CASE UNCHANGED vars
  <2>1. /\ UNCHANGED runVars
        /\ UNCHANGED <<harness, left, failed, late, recorded, checking, errors, peak, verdict>>
    BY <1>4 DEF vars, harnessVars, report
  <2>2. RunInv' /\ PipeInv' /\ UNCHANGED <<phase, exitCode, reader, captured>>
    BY <2>1, RunVarsAlone
  <2>3. HarnessTypes' /\ LeftInv' /\ HarnessInv'
    BY <2>1, <2>2 DEF IInv, HarnessTypes, LeftInv, HarnessInv, FifoOrder, Joined, Recorded, Checked
  <2>4. QED
    BY <2>2, <2>3 DEF IInv
<1>5. QED
  BY <1>1, <1>2, <1>3, <1>4 DEF Next

(* Whatever the simulator, the captures and the main thread do, in any     *)
(* order and with any failure: what the streams were given and still are   *)
(* to be given are the rows of the run, and what the harness believes of   *)
(* its captures is so.                                                     *)
THEOREM ValidationInductive == Spec => []IInv
<1>1. Init => IInv
  BY InitEstablishes
<1>2. IInv /\ [Next]_vars => IInv'
  BY NextKeeps
<1>3. QED
  BY <1>1, <1>2, PTL DEF Spec

(* Every variable keeps its type: no reader gets ahead of its writer, and  *)
(* no buffer or pipe holds more than it can.                               *)
THEOREM ValidationTypes == Spec => []TypeOK
<1>1. IInv => TypeOK
  <2> SUFFICES ASSUME IInv PROVE TypeOK
    OBVIOUS
  <2>1. ASSUME NEW f \in Streams
        PROVE  /\ delivered[f] \in 0..RowsOf(f) /\ captured[f] \in 0..delivered[f]
               /\ f \in Fifos => delivered[f] - captured[f] <= PipeRows
               /\ stream[f] \in [open : BOOLEAN, bad : BOOLEAN, buffered : 0..BufferRows]
    <3>1. /\ stream[f] \in StreamStates /\ delivered[f] \in Nat /\ captured[f] \in Nat
      BY DEF IInv, RunInv, RunTypes, PipeInv
    <3>2. /\ stream[f].buffered \in Nat /\ stream[f].buffered <= BufferRows
          /\ delivered[f] + stream[f].buffered <= RowsOf(f) /\ captured[f] <= delivered[f]
      BY <3>1 DEF IInv, RunInv, StreamInv, PipeInv, Written, StreamStates
    <3>3. RowsOf(f) \in Nat /\ BufferRows \in Nat
      <4>1. 0 \in 0..Len(Timeline)
        BY RunAssumption
      <4>2. QED
        BY <4>1, RowsToFacts, RunAssumption
    <3>4. delivered[f] \in 0..RowsOf(f) /\ captured[f] \in 0..delivered[f]
          /\ stream[f].buffered \in 0..BufferRows
      BY <3>1, <3>2, <3>3
    <3>5. QED
      BY <3>1, <3>4 DEF IInv, PipeInv, StreamStates
  <2>2. stream \in [Streams -> [open : BOOLEAN, bad : BOOLEAN, buffered : 0..BufferRows]]
    BY <2>1 DEF IInv, RunInv, RunTypes
  <2>3. \A f \in Fifos : recorded[f] \in 0..captured[f]
    <3> TAKE f \in Fifos
    <3>1. recorded[f] \in Nat /\ captured[f] \in Nat /\ recorded[f] <= captured[f]
      BY FifosAreStreams DEF IInv, HarnessTypes, HarnessInv, PipeInv
    <3>2. QED
      BY <3>1
  <2>4. /\ phase \in Phases /\ harness \in HarnessStates
        /\ epoch \in 0..Len(Timeline) /\ powered \in 0..epoch
        /\ ok \in BOOLEAN /\ peak \in BOOLEAN
        /\ exitCode \in {"none", "0", "1", "killed"}
        /\ verdict \in {"none", "passed", "failed", "error"}
        /\ text \in [TextFiles -> {"absent", "partial", "whole"}]
        /\ reader \in [Streams -> ReaderStates]
        /\ left \in Seq(Fifos)
        /\ \E k \in 1..(Len(FifoOrder) + 1) : left = SubSeq(FifoOrder, k, Len(FifoOrder))
        /\ {failed, late, errors} \subseteq SUBSET Fifos
        /\ checking \in Fifos \cup {"none"}
    BY DEF IInv, RunInv, RunTypes, PipeInv, HarnessTypes, LeftInv
  <2>5. QED
    BY <2>1, <2>2, <2>3, <2>4 DEF TypeOK
<1>2. QED
  BY <1>1, ValidationInductive, PTL

(* A complete manifest tells a complete run, and only a run that returns   *)
(* success leaves one: run_simulator writes it after every flush.          *)
THEOREM ManifestTellsTheRun == Spec => []ManifestMeansComplete
<1>1. IInv => ManifestMeansComplete
  BY DEF IInv, RunInv, ExitInv, ManifestInv, ManifestMeansComplete
<1>2. QED
  BY <1>1, ValidationInductive, PTL

(* A case that passed captured every row of a complete run from every      *)
(* pipe, and recorded all of it of every capture that ended in time.       *)
THEOREM PassMeansCaptured == Spec => []PassedRunIsCaptured
<1>1. IInv => PassedRunIsCaptured
  <2> SUFFICES ASSUME IInv, verdict = "passed"
               PROVE  /\ exitCode = "0"
                      /\ \A f \in Fifos : captured[f] = RowsOf(f)
                      /\ \A f \in Fifos \ late : recorded[f] = RowsOf(f)
    BY DEF PassedRunIsCaptured
  <2>1. harness = "reported" /\ exitCode = "0" /\ errors = {} /\ left = << >>
    BY DEF IInv, HarnessInv, LeftInv
  <2>2. text["manifest"] = "whole"
    BY <2>1 DEF IInv, RunInv, ExitInv
  <2>3. \A f \in Fifos : delivered[f] = RowsOf(f)
    BY <2>2, FifosAreStreams DEF IInv, RunInv, ManifestInv
  <2>4. \A f \in Fifos : Recorded(f) /\ reader[f] = "done" /\ f \notin failed
    BY <2>1, NoMembers DEF IInv, HarnessInv, Checked
  <2>5. \A f \in Fifos : captured[f] = delivered[f]
    BY <2>4, FifosAreStreams DEF IInv, PipeInv
  <2>6. QED
    BY <2>1, <2>3, <2>4, <2>5 DEF Recorded
<1>2. QED
  BY <1>1, ValidationInductive, PTL
===============================================================================

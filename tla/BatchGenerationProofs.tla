------------------------- MODULE BatchGenerationProofs -------------------------
(***************************************************************************)
(* Proofs about BatchGeneration for every list of scenarios, set of counts *)
(* and versions, and any number of invocations, each of which may end at   *)
(* any step: the manifest is true of the directory until a later           *)
(* invocation clears it, and without --overwrite nothing is lost.          *)
(***************************************************************************)
EXTENDS BatchGeneration, SequenceTheorems, TLAPS

-----------------------------------------------------------------------------
(* The inductive invariant.                                                *)

Steps == {"idle", "prepare", "resolve", "configs", "run", "simulate", "record", "failed"}
Statuses == {"planned", "running", "complete", "failed"}
Bytes == Versions \cup {Absent, Partial}
Entries == [name : RunNames, status : Statuses, config_sha256 : Bytes, output_sha256 : Bytes]
Manifests == [status : {"absent", "planned", "failed", "complete"}, by : Nat, runs : Seq(Entries)]
Directories == [RunNames -> [exists : BOOLEAN, by : Nat, config : Bytes, log : Bytes]]

TypeInv ==
  /\ pc \in Steps /\ args \in Args
  /\ {invocation, current, cleared} \subseteq Nat
  /\ plan \in Manifests /\ manifest \in Manifests
  /\ dir \in Directories

(* A plan names no run twice. *)
Distinct(runs) == \A j, k \in DOMAIN runs : runs[j].name = runs[k].name => j = k

(* What is not there has nothing in it. *)
Empty(n) == ~dir[n].exists => dir[n] = NoDir

Before == pc \in {"prepare", "resolve", "configs"}
Running == pc \in {"run", "simulate", "record", "failed"}

OrderInv ==
  /\ cleared <= invocation /\ manifest.by <= invocation
  /\ pc # "idle" => plan.by = invocation
  /\ Before => manifest.by < invocation
  /\ (Before \/ Running) => current > 0
  /\ pc = "resolve" => current = 1
  /\ Distinct(plan.runs)
  /\ \A n \in RunNames : Empty(n)

(* Before its first manifest an invocation has started nothing, and what   *)
(* it has passed over is not among the complete runs of the old manifest,  *)
(* unless it has cleared a directory.                                      *)
BeforeInv ==
  Before =>
    /\ plan.status = "planned"
    /\ \A j \in DOMAIN plan.runs : plan.runs[j].status = "planned"
    /\ cleared <= manifest.by =>
         \A j \in DOMAIN plan.runs, k \in DOMAIN manifest.runs :
           ((pc = "prepare" => j < current) /\ manifest.runs[k].status = "complete")
             => manifest.runs[k].name # plan.runs[j].name

(* The config of a run is there and its hash is known. *)
Configured(entry) ==
  /\ dir[entry.name].exists
  /\ dir[entry.name].config = entry.config_sha256
  /\ entry.config_sha256 \in Versions

ConfigInv ==
  \A j \in DOMAIN plan.runs :
    (Running \/ (pc = "configs" /\ j < current)) => Configured(plan.runs[j])

(* While runs are made, the manifest is the plan: complete up to the       *)
(* current run, not begun after it.                                        *)
RunInv ==
  Running =>
    /\ manifest = plan /\ plan.status = "planned"
    /\ \A j \in DOMAIN plan.runs :
         /\ j < current => plan.runs[j].status = "complete"
         /\ j > current => plan.runs[j].status = "planned"
         /\ j = current => plan.runs[j].status = (IF pc = "run" THEN "planned" ELSE "running")
    /\ pc # "run" => current \in DOMAIN plan.runs
    /\ pc = "record" => dir[Name].log = dir[Name].config

(* Past its check, an invocation without --overwrite has found nothing.    *)
FreshInv ==
  ~args.overwrite /\ pc \notin {"idle", "prepare"} =>
    /\ manifest.by \in {0, invocation}
    /\ \A j \in DOMAIN plan.runs : dir[plan.runs[j].name].by \in {0, invocation}

IInv ==
  TypeInv /\ OrderInv /\ BeforeInv /\ ConfigInv /\ RunInv /\ FreshInv /\ CompleteEntriesHold
-----------------------------------------------------------------------------
(* A plan.                                                                 *)

LEMMA RunNumbers ==
  ASSUME NEW c \in Nat \ {0}, NEW n \in Nat, NEW k \in 1..(n * c)
  PROVE  /\ ((k - 1) \div c) + 1 \in 1..n
         /\ ((k - 1) % c) + 1 \in 1..c
         /\ k = c * ((k - 1) \div c) + ((k - 1) % c) + 1
<1> DEFINE q == (k - 1) \div c
           r == (k - 1) % c
<1>1. k \in Int /\ k - 1 >= 0 /\ k - 1 < n * c
  OBVIOUS
<1>2. q \in Int /\ r \in 0..(c - 1) /\ k - 1 = c * q + r
  BY <1>1
<1> HIDE DEF q, r
<1>3. q >= 0
  <2>1. SUFFICES ASSUME q <= -1 PROVE FALSE
    BY <1>2
  <2>2. c * q <= c * (-1)
    BY <1>2, <2>1
  <2>3. QED
    BY <1>1, <1>2, <2>2
<1>4. q < n
  <2>1. SUFFICES ASSUME q >= n PROVE FALSE
    BY <1>2
  <2>2. c * q >= c * n /\ c * n = n * c
    BY <1>2, <2>1
  <2>3. c * q \in Int /\ n * c \in Int
    BY <1>2
  <2>4. QED
    BY <1>1, <1>2, <2>2, <2>3
<1>5. q + 1 \in 1..n /\ r + 1 \in 1..c /\ k = c * q + r + 1
  BY <1>1, <1>2, <1>3, <1>4
<1>6. QED
  BY <1>5 DEF q, r

LEMMA PlannedNames ==
  ASSUME NEW c \in Counts, NEW k \in 1..(Len(SCENARIOS) * c)
  PROVE  RunName(k, c) \in RunNames
<1>1. c \in Nat \ {0} /\ SCENARIOS \in Seq(STRING) /\ Len(SCENARIOS) \in Nat
  BY BatchAssumption
<1>2. /\ ((k - 1) \div c) + 1 \in DOMAIN SCENARIOS
      /\ ((k - 1) % c) + 1 \in 1..c
  BY <1>1, RunNumbers
<1>3. \A i \in DOMAIN SCENARIOS : SCENARIOS[i] \in ToSet(SCENARIOS)
  BY DEF ToSet
<1>4. \A r \in 1..c : r \in UNION {1..n : n \in Counts}
  OBVIOUS
<1>5. QED
  BY <1>2, <1>3, <1>4 DEF RunName, RunNames

LEMMA PlannedOnce ==
  ASSUME NEW c \in Counts,
         NEW j \in 1..(Len(SCENARIOS) * c), NEW k \in 1..(Len(SCENARIOS) * c),
         RunName(j, c) = RunName(k, c)
  PROVE  j = k
<1>1. c \in Nat \ {0} /\ SCENARIOS \in Seq(STRING) /\ Len(SCENARIOS) \in Nat
      /\ IsInjective(SCENARIOS)
  BY BatchAssumption
<1> DEFINE qj == (j - 1) \div c
           qk == (k - 1) \div c
           rj == (j - 1) % c
           rk == (k - 1) % c
<1>2. /\ qj + 1 \in DOMAIN SCENARIOS /\ rj + 1 \in 1..c /\ j = c * qj + rj + 1
      /\ qk + 1 \in DOMAIN SCENARIOS /\ rk + 1 \in 1..c /\ k = c * qk + rk + 1
  BY <1>1, RunNumbers
<1>3. qj \in Int /\ qk \in Int /\ rj \in Int /\ rk \in Int
  BY <1>1
<1>4. SCENARIOS[qj + 1] = SCENARIOS[qk + 1] /\ rj + 1 = rk + 1
  BY DEF RunName
<1> HIDE DEF qj, qk, rj, rk
<1>5. qj + 1 = qk + 1
  BY <1>1, <1>2, <1>4 DEF IsInjective
<1>6. qj = qk /\ rj = rk
  BY <1>3, <1>4, <1>5
<1>7. QED
  BY <1>2, <1>6

LEMMA BuildPlanFacts ==
  ASSUME NEW a \in Args, invocation \in Nat, NEW p, p = BuildPlan(a)
  PROVE  /\ p \in Manifests /\ Distinct(p.runs)
         /\ p.status = "planned" /\ p.by = invocation + 1
         /\ \A k \in DOMAIN p.runs : p.runs[k].status = "planned"
<1> DEFINE c == a.count
           n == Len(SCENARIOS) * c
<1>1. c \in Counts
  BY DEF Args
<1> HIDE DEF c
<1>2. n \in Nat
  BY <1>1, BatchAssumption
<1>3. \A k \in 1..n : PlannedRun(k, c) \in Entries
  <2>1. TAKE k \in 1..n
  <2>2. RunName(k, c) \in RunNames
    BY <1>1, PlannedNames
  <2>3. QED
    BY <2>2 DEF PlannedRun, Entries, Statuses, Bytes
<1> DEFINE runs == [k \in 1..n |-> PlannedRun(k, c)]
<1>4. runs \in Seq(Entries) /\ DOMAIN runs = 1..n /\ \A k \in 1..n : runs[k] = PlannedRun(k, c)
  <2>1. \A k \in 1..n : runs[k] = PlannedRun(k, c)
    OBVIOUS
  <2> HIDE DEF n
  <2>2. QED
    BY <1>2, <1>3, <2>1, IsASeq
<1>5. p = [status |-> "planned", by |-> invocation + 1, runs |-> runs]
  BY DEF BuildPlan, c
<1> HIDE DEF runs
<1>6. p \in Manifests
  BY <1>4, <1>5 DEF Manifests
<1>7. Distinct(runs)
  <2>1. SUFFICES ASSUME NEW j \in 1..n, NEW k \in 1..n, runs[j].name = runs[k].name PROVE j = k
    BY <1>4 DEF Distinct
  <2>2. RunName(j, c) = RunName(k, c)
    BY <1>4, <2>1 DEF PlannedRun
  <2>3. QED
    BY <1>1, <2>2, PlannedOnce
<1>8. \A k \in DOMAIN runs : runs[k].status = "planned"
  BY <1>4 DEF PlannedRun
<1>9. QED
  BY <1>5, <1>6, <1>7, <1>8

-----------------------------------------------------------------------------
(* One entry of a plan.                                                    *)

(* The plan q is p with e in the place of entry c. *)
Replaced(q, p, c, e) ==
  /\ q \in Manifests /\ Distinct(q.runs)
  /\ q.status = p.status /\ q.by = p.by /\ DOMAIN q.runs = DOMAIN p.runs
  /\ q.runs[c] = e
  /\ \A k \in DOMAIN p.runs : k # c => q.runs[k] = p.runs[k]
  /\ \A k \in DOMAIN p.runs : q.runs[k].name = p.runs[k].name

LEMMA EntryReplaced ==
  ASSUME NEW p \in Manifests, Distinct(p.runs), NEW c \in DOMAIN p.runs,
         NEW e \in Entries, e.name = p.runs[c].name
  PROVE  Replaced([p EXCEPT !.runs = [p.runs EXCEPT ![c] = e]], p, c, e)
<1> DEFINE r == [p.runs EXCEPT ![c] = e]
           q == [p EXCEPT !.runs = r]
<1>1. p.runs \in Seq(Entries)
  BY DEF Manifests
<1>2. r \in Seq(Entries) /\ DOMAIN r = DOMAIN p.runs /\ r[c] = e
  BY <1>1, ExceptSeq
<1>3. \A k \in DOMAIN p.runs : k # c => r[k] = p.runs[k]
  BY <1>1
<1> HIDE DEF r
<1>4. q.runs = r /\ q.status = p.status /\ q.by = p.by /\ q \in Manifests
  BY <1>2 DEF Manifests
<1> HIDE DEF q
<1>5. \A k \in DOMAIN p.runs : r[k].name = p.runs[k].name
  BY <1>2, <1>3
<1>6. Replaced(q, p, c, e)
  BY <1>2, <1>3, <1>4, <1>5 DEF Distinct, Replaced
<1>7. QED
  BY <1>6 DEF q, r

LEMMA EntryFacts ==
  ASSUME NEW p \in Manifests, NEW k \in DOMAIN p.runs
  PROVE  p.runs[k] \in Entries /\ p.runs[k].name \in RunNames /\ k \in Nat \ {0}
         /\ k <= Len(p.runs)
<1>1. p.runs \in Seq(Entries)
  BY DEF Manifests
<1>2. p.runs[k] \in Entries /\ k \in 1..Len(p.runs)
  BY <1>1
<1>3. QED
  BY <1>1, <1>2 DEF Entries

LEMMA CurrentEntry ==
  ASSUME plan \in Manifests, current \in Nat, current > 0, current <= Len(plan.runs)
  PROVE  current \in DOMAIN plan.runs
<1>1. plan.runs \in Seq(Entries)
  BY DEF Manifests
<1>2. QED
  BY <1>1

-----------------------------------------------------------------------------
(* Every step preserves the invariant.                                     *)

LEMMA IInvInit == Init => IInv
<1>1. SUFFICES ASSUME Init PROVE IInv
  OBVIOUS
<1>2. NoManifest \in Manifests /\ DOMAIN NoManifest.runs = {}
  BY DEF NoManifest, Manifests
<1>3. NoDir \in [exists : BOOLEAN, by : Nat, config : Bytes, log : Bytes]
  BY DEF NoDir, Bytes
<1>4. TypeInv
  BY <1>1, <1>2, <1>3 DEF Init, TypeInv, Steps, Directories, Args
<1>5. OrderInv
  BY <1>1, <1>2 DEF Init, OrderInv, Before, Running, Distinct, Empty, NoManifest
<1>6. BeforeInv /\ ConfigInv /\ RunInv /\ FreshInv /\ CompleteEntriesHold
  BY <1>1, <1>2 DEF Init, BeforeInv, ConfigInv, RunInv, FreshInv, CompleteEntriesHold,
                    Before, Running
<1>7. QED
  BY <1>4, <1>5, <1>6 DEF IInv

LEMMA InvokeKeeps == IInv /\ Invoke => IInv'
<1>1. SUFFICES ASSUME IInv, Invoke PROVE IInv'
  OBVIOUS
<1>2. PICK a \in Args : args' = a /\ plan' = BuildPlan(a)
  BY <1>1 DEF Invoke
<1>3. /\ pc' = "prepare" /\ invocation' = invocation + 1 /\ current' = 1
      /\ manifest' = manifest /\ dir' = dir /\ cleared' = cleared
  BY <1>1 DEF Invoke
<1>4. invocation \in Nat /\ cleared \in Nat /\ manifest \in Manifests /\ manifest.by \in Nat
  BY <1>1 DEF IInv, TypeInv, Manifests
<1>5. /\ plan' \in Manifests /\ Distinct(plan'.runs)
      /\ plan'.status = "planned" /\ plan'.by = invocation + 1
      /\ \A k \in DOMAIN plan'.runs : plan'.runs[k].status = "planned"
  BY <1>2, <1>4, BuildPlanFacts
<1>6. TypeInv'
  BY <1>1, <1>2, <1>3, <1>4, <1>5 DEF IInv, TypeInv, Steps
<1>7. OrderInv'
  BY <1>1, <1>3, <1>4, <1>5 DEF IInv, OrderInv, Before, Running, Empty
<1>8. BeforeInv'
  <2>1. \A j \in DOMAIN plan'.runs : ~(j < 1)
    BY <1>5, EntryFacts
  <2>2. QED
    BY <1>3, <1>5, <2>1 DEF BeforeInv, Before
<1>9. ConfigInv' /\ RunInv' /\ FreshInv'
  BY <1>3 DEF ConfigInv, RunInv, FreshInv, Running
<1>10. CompleteEntriesHold'
  BY <1>1, <1>3 DEF IInv, CompleteEntriesHold, Holds
<1>11. QED
  BY <1>6, <1>7, <1>8, <1>9, <1>10 DEF IInv

LEMMA PrepareKeeps == IInv /\ Prepare => IInv'
<1>1. SUFFICES ASSUME IInv, Prepare PROVE IInv'
  OBVIOUS
<1>2. /\ pc = "prepare"
      /\ args.overwrite \/ ~Conflicts
      /\ args' = args /\ invocation' = invocation /\ plan' = plan /\ manifest' = manifest
  BY <1>1 DEF Prepare
<1>3. /\ invocation \in Nat /\ cleared \in Nat /\ current \in Nat /\ manifest.by \in Nat
      /\ plan \in Manifests /\ manifest \in Manifests /\ dir \in Directories
      /\ current > 0 /\ manifest.by < invocation
  <2>1. /\ invocation \in Nat /\ cleared \in Nat /\ current \in Nat
        /\ plan \in Manifests /\ manifest \in Manifests /\ dir \in Directories
    BY <1>1 DEF IInv, TypeInv
  <2>2. current > 0 /\ manifest.by < invocation
    BY <1>1, <1>2 DEF IInv, OrderInv, Before
  <2>3. QED
    BY <2>1, <2>2 DEF Manifests
<1>4. CASE current <= Len(plan.runs)
  <2>1. /\ dir' = [dir EXCEPT ![Name] = NoDir]
        /\ cleared' = (IF dir[Name].exists THEN invocation ELSE cleared)
        /\ current' = current + 1 /\ pc' = "prepare"
    BY <1>1, <1>2, <1>4 DEF Prepare
  <2>2. Name \in RunNames /\ Name = plan.runs[current].name
    BY <1>3, <1>4, CurrentEntry, EntryFacts DEF Name
  <2>3. NoDir \in [exists : BOOLEAN, by : Nat, config : Bytes, log : Bytes]
    BY DEF NoDir, Bytes
  <2>4. /\ dir' \in Directories /\ dir'[Name] = NoDir
        /\ \A m \in RunNames : m # Name => dir'[m] = dir[m]
    BY <1>3, <2>1, <2>2, <2>3 DEF Directories
  <2>5. TypeInv'
    BY <1>1, <1>2, <1>3, <2>1, <2>4 DEF IInv, TypeInv, Steps
  <2>6. OrderInv'
    <3>1. cleared' <= invocation /\ cleared <= invocation /\ Before
      BY <1>1, <1>2, <1>3, <2>1 DEF IInv, OrderInv, Before
    <3>2. \A n \in RunNames : Empty(n)'
      BY <1>1, <2>4 DEF IInv, OrderInv, Empty
    <3>3. QED
      BY <1>1, <1>2, <1>3, <2>1, <3>1, <3>2 DEF IInv, OrderInv, Before, Running
  <2>7. cleared' <= manifest.by => cleared <= manifest.by /\ ~dir[Name].exists
    BY <1>3, <2>1
  <2>8. BeforeInv'
    <3>1. SUFFICES ASSUME cleared' <= manifest.by,
                          NEW j \in DOMAIN plan.runs, NEW k \in DOMAIN manifest.runs,
                          j < current', manifest.runs[k].status = "complete",
                          manifest.runs[k].name = plan.runs[j].name
                   PROVE  FALSE
      BY <1>1, <1>2, <2>1 DEF IInv, BeforeInv, Before
    <3>2. CASE j < current
      BY <1>1, <1>2, <2>7, <3>1, <3>2 DEF IInv, BeforeInv, Before
    <3>3. CASE j = current
      BY <1>1, <2>2, <2>7, <3>1, <3>3 DEF IInv, CompleteEntriesHold, Holds
    <3>4. QED
      BY <1>3, <2>1, <3>1, <3>2, <3>3, EntryFacts
  <2>9. ConfigInv' /\ RunInv' /\ FreshInv'
    BY <2>1 DEF ConfigInv, RunInv, FreshInv, Running
  <2>10. CompleteEntriesHold'
    <3>1. SUFFICES ASSUME cleared' <= manifest.by, NEW k \in DOMAIN manifest.runs
                   PROVE  /\ Holds(manifest.runs[k])'
                          /\ manifest.status = "complete" => manifest.runs[k].status = "complete"
      BY <1>2 DEF CompleteEntriesHold
    <3>2. /\ Holds(manifest.runs[k])
          /\ manifest.status = "complete" => manifest.runs[k].status = "complete"
      BY <1>1, <2>7, <3>1 DEF IInv, CompleteEntriesHold
    <3>3. manifest.runs[k].status = "complete" => manifest.runs[k].name # Name
      BY <2>7, <3>1, <3>2 DEF Holds
    <3>4. manifest.runs[k].name \in RunNames
      BY <1>3, EntryFacts
    <3>5. QED
      BY <1>2, <2>4, <3>2, <3>3, <3>4 DEF Holds
  <2>11. QED
    BY <2>5, <2>6, <2>8, <2>9, <2>10 DEF IInv
<1>5. CASE ~(current <= Len(plan.runs))
  <2>1. pc' = "resolve" /\ current' = 1 /\ dir' = dir /\ cleared' = cleared
    BY <1>1, <1>2, <1>5 DEF Prepare
  <2>2. TypeInv' /\ OrderInv'
    BY <1>1, <1>2, <1>3, <2>1 DEF IInv, TypeInv, OrderInv, Steps, Before, Running, Empty
  <2>3. BeforeInv'
    <3>1. \A j \in DOMAIN plan.runs : j < current
      BY <1>3, <1>5, EntryFacts DEF Manifests
    <3>2. QED
      BY <1>1, <1>2, <2>1, <3>1 DEF IInv, BeforeInv, Before
  <2>4. FreshInv'
    <3>1. SUFFICES ASSUME ~args.overwrite
                   PROVE  /\ manifest.by = 0
                          /\ \A j \in DOMAIN plan.runs : dir[plan.runs[j].name].by = 0
      BY <1>2, <2>1 DEF FreshInv
    <3>2. manifest = NoManifest /\ \A j \in DOMAIN plan.runs : ~dir[plan.runs[j].name].exists
      BY <1>2, <3>1 DEF Conflicts, Planned
    <3>3. \A j \in DOMAIN plan.runs : dir[plan.runs[j].name] = NoDir
      BY <1>1, <1>3, <3>2, EntryFacts DEF IInv, OrderInv, Empty
    <3>4. QED
      BY <3>2, <3>3 DEF NoManifest, NoDir
  <2>5. ConfigInv' /\ RunInv'
    BY <2>1 DEF ConfigInv, RunInv, Running
  <2>6. CompleteEntriesHold'
    BY <1>1, <1>2, <2>1 DEF IInv, CompleteEntriesHold, Holds
  <2>7. QED
    BY <2>2, <2>3, <2>4, <2>5, <2>6 DEF IInv
<1>6. QED
  BY <1>4, <1>5

(* To give up or end early changes nothing but the program counter. *)
LEMMA StopKeeps ==
  ASSUME IInv, pc' = "idle",
         UNCHANGED <<args, invocation, current, plan, manifest, dir, cleared>>
  PROVE  IInv'
<1>1. TypeInv'
  BY DEF IInv, TypeInv, Steps
<1>2. OrderInv'
  BY DEF IInv, OrderInv, Before, Running, Empty
<1>3. BeforeInv' /\ ConfigInv' /\ RunInv' /\ FreshInv'
  BY DEF BeforeInv, ConfigInv, RunInv, FreshInv, Before, Running
<1>4. CompleteEntriesHold'
  BY DEF IInv, CompleteEntriesHold, Holds
<1>5. QED
  BY <1>1, <1>2, <1>3, <1>4 DEF IInv

LEMMA ResolveKeeps == IInv /\ Resolve => IInv'
<1>1. SUFFICES ASSUME IInv, Resolve PROVE IInv'
  OBVIOUS
<1>2. CASE pc' = "idle"
  BY <1>1, <1>2, StopKeeps DEF Resolve
<1>3. CASE pc' = "configs"
  <2>1. /\ pc = "resolve"
        /\ UNCHANGED <<args, invocation, current, plan, manifest, dir, cleared>>
    BY <1>1 DEF Resolve
  <2>2. TypeInv' /\ OrderInv'
    BY <1>1, <1>3, <2>1 DEF IInv, TypeInv, OrderInv, Steps, Before, Running, Empty
  <2>3. BeforeInv' /\ FreshInv' /\ RunInv'
    BY <1>1, <1>3, <2>1 DEF IInv, BeforeInv, FreshInv, RunInv, Before, Running
  <2>4. CompleteEntriesHold'
    BY <1>1, <2>1 DEF IInv, CompleteEntriesHold, Holds
  <2>5. ConfigInv'
    <3>1. \A j \in DOMAIN plan.runs : ~(j < current)
      BY <1>1, <2>1, EntryFacts DEF IInv, TypeInv, OrderInv
    <3>2. QED
      BY <1>3, <2>1, <3>1 DEF ConfigInv, Running
  <2>6. QED
    BY <2>2, <2>3, <2>4, <2>5 DEF IInv
<1>4. QED
  BY <1>1, <1>2, <1>3 DEF Resolve

LEMMA WriteConfigKeeps == IInv /\ WriteConfig => IInv'
<1>1. SUFFICES ASSUME IInv, WriteConfig PROVE IInv'
  OBVIOUS
<1>2. /\ pc = "configs" /\ current <= Len(plan.runs) /\ current' = current + 1
      /\ pc' = pc /\ args' = args /\ invocation' = invocation /\ manifest' = manifest
      /\ cleared' = cleared
  BY <1>1 DEF WriteConfig
<1>3. /\ invocation \in Nat /\ cleared \in Nat /\ current \in Nat
      /\ plan \in Manifests /\ manifest \in Manifests /\ dir \in Directories
      /\ current > 0 /\ Distinct(plan.runs)
  BY <1>1, <1>2 DEF IInv, TypeInv, OrderInv, Before
<1>4. args.version \in Versions /\ args.version \in Bytes
  BY <1>1 DEF IInv, TypeInv, Args, Bytes
<1>5. /\ current \in DOMAIN plan.runs /\ Name = plan.runs[current].name /\ Name \in RunNames
      /\ plan.runs[current] \in Entries /\ plan.runs[current].status = "planned"
  BY <1>1, <1>2, <1>3, CurrentEntry, EntryFacts DEF Name, IInv, BeforeInv, Before
<1> DEFINE e == [plan.runs[current] EXCEPT !.config_sha256 = args.version]
<1>6. /\ e \in Entries /\ e.name = plan.runs[current].name /\ e.config_sha256 = args.version
      /\ e.status = "planned"
  BY <1>4, <1>5 DEF Entries
<1>7. plan' = [plan EXCEPT !.runs = [plan.runs EXCEPT ![current] = e]]
  BY <1>1 DEF WriteConfig
<1> HIDE DEF e
<1>8. /\ plan' \in Manifests /\ Distinct(plan'.runs)
      /\ plan'.status = plan.status /\ plan'.by = plan.by /\ DOMAIN plan'.runs = DOMAIN plan.runs
      /\ plan'.runs[current] = e
      /\ \A k \in DOMAIN plan.runs : k # current => plan'.runs[k] = plan.runs[k]
      /\ \A k \in DOMAIN plan.runs : plan'.runs[k].name = plan.runs[k].name
  <2>1. Replaced([plan EXCEPT !.runs = [plan.runs EXCEPT ![current] = e]], plan, current, e)
    BY <1>3, <1>5, <1>6, EntryReplaced
  <2>2. QED
    BY <1>7, <2>1 DEF Replaced
<1> DEFINE d == [dir[Name] EXCEPT !.exists = TRUE, !.config = args.version,
                                  !.by = IF @ = 0 THEN invocation ELSE @]
<1>9. dir' = [dir EXCEPT ![Name] = d]
  BY <1>1 DEF WriteConfig
<1>10. /\ d \in [exists : BOOLEAN, by : Nat, config : Bytes, log : Bytes]
       /\ d.exists = TRUE /\ d.config = args.version
       /\ d.by = (IF dir[Name].by = 0 THEN invocation ELSE dir[Name].by)
  BY <1>3, <1>4, <1>5 DEF Directories
<1> HIDE DEF d
<1>11. /\ dir' \in Directories /\ dir'[Name] = d
       /\ \A m \in RunNames : m # Name => dir'[m] = dir[m]
  BY <1>3, <1>5, <1>9, <1>10 DEF Directories
<1>12. TypeInv'
  BY <1>1, <1>2, <1>3, <1>8, <1>11 DEF IInv, TypeInv
<1>13. OrderInv'
  <2>1. \A n \in RunNames : Empty(n)'
    BY <1>1, <1>10, <1>11 DEF IInv, OrderInv, Empty
  <2>2. QED
    BY <1>1, <1>2, <1>3, <1>8, <2>1 DEF IInv, OrderInv, Before, Running
<1>14. BeforeInv'
  <2>1. /\ plan'.status = "planned"
        /\ \A j \in DOMAIN plan'.runs : plan'.runs[j].status = "planned"
    BY <1>1, <1>2, <1>5, <1>6, <1>8 DEF IInv, BeforeInv, Before
  <2>2. \A j \in DOMAIN plan'.runs, k \in DOMAIN manifest.runs :
          cleared <= manifest.by /\ manifest.runs[k].status = "complete"
            => manifest.runs[k].name # plan'.runs[j].name
    BY <1>1, <1>2, <1>8 DEF IInv, BeforeInv, Before
  <2>3. QED
    BY <1>2, <2>1, <2>2 DEF BeforeInv
<1>15. ConfigInv'
  <2>1. SUFFICES ASSUME NEW j \in DOMAIN plan.runs, j < current'
                 PROVE  Configured(plan.runs[j])'
    BY <1>2, <1>8 DEF ConfigInv, Running
  <2>2. CASE j = current
    BY <1>4, <1>5, <1>6, <1>8, <1>10, <1>11, <2>2 DEF Configured
  <2>3. CASE j # current
    <3>1. j < current
      BY <1>2, <1>3, <2>1, <2>3, EntryFacts
    <3>2. Configured(plan.runs[j])
      BY <1>1, <1>2, <3>1 DEF IInv, ConfigInv
    <3>3. plan.runs[j].name \in RunNames /\ plan.runs[j].name # Name
      BY <1>3, <1>5, <2>3, EntryFacts DEF Distinct
    <3>4. QED
      BY <1>8, <1>11, <2>3, <3>2, <3>3 DEF Configured
  <2>4. QED
    BY <2>2, <2>3
<1>16. RunInv'
  BY <1>2 DEF RunInv, Running
<1>17. FreshInv'
  <2>1. SUFFICES ASSUME ~args.overwrite
                 PROVE  /\ manifest.by \in {0, invocation}
                        /\ \A j \in DOMAIN plan.runs : dir'[plan.runs[j].name].by \in {0, invocation}
    BY <1>2, <1>8 DEF FreshInv
  <2>2. /\ manifest.by \in {0, invocation}
        /\ \A j \in DOMAIN plan.runs : dir[plan.runs[j].name].by \in {0, invocation}
    BY <1>1, <1>2, <2>1 DEF IInv, FreshInv
  <2>3. d.by \in {0, invocation}
    BY <1>5, <1>10, <2>2
  <2>4. \A j \in DOMAIN plan.runs : plan.runs[j].name \in RunNames
    BY <1>3, EntryFacts
  <2>5. QED
    BY <1>11, <2>2, <2>3, <2>4
<1>18. CompleteEntriesHold'
  <2>1. SUFFICES ASSUME cleared <= manifest.by, NEW k \in DOMAIN manifest.runs
                 PROVE  /\ Holds(manifest.runs[k])'
                        /\ manifest.status = "complete" => manifest.runs[k].status = "complete"
    BY <1>2 DEF CompleteEntriesHold
  <2>2. /\ Holds(manifest.runs[k])
        /\ manifest.status = "complete" => manifest.runs[k].status = "complete"
    BY <1>1, <2>1 DEF IInv, CompleteEntriesHold
  <2>3. manifest.runs[k].status = "complete" => manifest.runs[k].name # Name
    BY <1>1, <1>2, <1>5, <2>1 DEF IInv, BeforeInv, Before
  <2>4. manifest.runs[k].name \in RunNames
    BY <1>3, EntryFacts
  <2>5. QED
    BY <1>2, <1>11, <2>2, <2>3, <2>4 DEF Holds
<1>19. QED
  BY <1>12, <1>13, <1>14, <1>15, <1>16, <1>17, <1>18 DEF IInv

LEMMA WriteManifestKeeps == IInv /\ WriteManifest => IInv'
<1>1. SUFFICES ASSUME IInv, WriteManifest PROVE IInv'
  OBVIOUS
<1>2. /\ pc = "configs" /\ current > Len(plan.runs) /\ manifest' = plan /\ current' = 1
      /\ pc' = (IF args.plan_only THEN "idle" ELSE "run")
      /\ args' = args /\ invocation' = invocation /\ plan' = plan /\ dir' = dir
      /\ cleared' = cleared
  BY <1>1 DEF WriteManifest
<1>3. /\ invocation \in Nat /\ cleared \in Nat /\ plan \in Manifests /\ plan.by = invocation
      /\ current \in Nat
  BY <1>1, <1>2 DEF IInv, TypeInv, OrderInv
<1>4. plan.status = "planned" /\ \A j \in DOMAIN plan.runs : plan.runs[j].status = "planned"
  BY <1>1, <1>2 DEF IInv, BeforeInv, Before
<1>5. \A j \in DOMAIN plan.runs : j \in Nat \ {0} /\ j < current
  BY <1>2, <1>3, EntryFacts DEF Manifests
<1>6. TypeInv'
  BY <1>1, <1>2, <1>3 DEF IInv, TypeInv, Steps
<1>7. OrderInv'
  BY <1>1, <1>2, <1>3 DEF IInv, OrderInv, Before, Running, Empty
<1>8. BeforeInv'
  BY <1>2 DEF BeforeInv, Before
<1>9. ConfigInv'
  BY <1>1, <1>2, <1>5 DEF IInv, ConfigInv, Configured
<1>10. RunInv'
  BY <1>2, <1>4, <1>5 DEF RunInv, Running
<1>11. FreshInv'
  BY <1>1, <1>2, <1>3 DEF IInv, FreshInv
<1>12. CompleteEntriesHold'
  BY <1>2, <1>4 DEF CompleteEntriesHold, Holds
<1>13. QED
  BY <1>6, <1>7, <1>8, <1>9, <1>10, <1>11, <1>12 DEF IInv

-----------------------------------------------------------------------------
(* While runs are made.                                                    *)

(* What is known of the current run, and of the others.                    *)
LEMMA RunningFacts ==
  ASSUME IInv, Running
  PROVE  /\ invocation \in Nat /\ cleared \in Nat /\ current \in Nat
         /\ plan \in Manifests /\ dir \in Directories
         /\ current > 0 /\ Distinct(plan.runs) /\ plan.by = invocation
         /\ cleared <= invocation /\ plan.status = "planned"
         /\ \A j \in DOMAIN plan.runs :
              /\ plan.runs[j] \in Entries /\ plan.runs[j].name \in RunNames
              /\ Configured(plan.runs[j])
              /\ j \in Nat \ {0}
              /\ j < current => plan.runs[j].status = "complete"
              /\ j > current => plan.runs[j].status = "planned"
              /\ j = current => plan.runs[j].status = (IF pc = "run" THEN "planned" ELSE "running")
         /\ manifest = plan
<1>1. plan \in Manifests
  BY DEF IInv, TypeInv
<1>2. \A j \in DOMAIN plan.runs :
        plan.runs[j] \in Entries /\ plan.runs[j].name \in RunNames /\ j \in Nat \ {0}
  BY <1>1, EntryFacts
<1>3. \A j \in DOMAIN plan.runs : Configured(plan.runs[j])
  BY DEF IInv, ConfigInv
<1>4. /\ manifest = plan /\ plan.status = "planned"
      /\ \A j \in DOMAIN plan.runs :
         /\ j < current => plan.runs[j].status = "complete"
         /\ j > current => plan.runs[j].status = "planned"
         /\ j = current => plan.runs[j].status = (IF pc = "run" THEN "planned" ELSE "running")
  BY DEF IInv, RunInv
<1>5. pc # "idle"
  BY DEF Running
<1>6. QED
  BY <1>1, <1>2, <1>3, <1>4, <1>5 DEF IInv, TypeInv, OrderInv

(* Nothing of a run directory changes but a log. *)
LEMMA LogChanges ==
  ASSUME NEW n \in RunNames, dir \in Directories, NEW l \in Bytes,
         dir' = [dir EXCEPT ![n].log = l]
  PROVE  /\ dir' \in Directories
         /\ \A m \in RunNames : m # n => dir'[m] = dir[m]
         /\ \A m \in RunNames : /\ dir'[m].exists = dir[m].exists
                                /\ dir'[m].config = dir[m].config
                                /\ dir'[m].by = dir[m].by
         /\ dir'[n].log = l
<1> DEFINE d == [dir[n] EXCEPT !.log = l]
<1>1. /\ d \in [exists : BOOLEAN, by : Nat, config : Bytes, log : Bytes]
      /\ d.exists = dir[n].exists /\ d.config = dir[n].config /\ d.by = dir[n].by /\ d.log = l
  BY DEF Directories
<1>2. dir' = [dir EXCEPT ![n] = d]
  OBVIOUS
<1> HIDE DEF d
<1>3. /\ dir' \in Directories /\ dir'[n] = d
      /\ \A m \in RunNames : m # n => dir'[m] = dir[m]
  BY <1>1, <1>2 DEF Directories
<1>4. QED
  BY <1>1, <1>3

(* What a step of a run leaves alone: the names and configs of the plan,   *)
(* every entry but the current one and every directory but its own.        *)
LEMMA RunKeeps ==
  ASSUME IInv, Running, current \in DOMAIN plan.runs,
         pc' \in Steps, ~Before', pc' # "resolve", current' \in Nat, current' > 0,
         UNCHANGED <<args, invocation, cleared>>,
         plan' \in Manifests, plan'.by = plan.by, DOMAIN plan'.runs = DOMAIN plan.runs,
         \A k \in DOMAIN plan.runs :
           /\ plan'.runs[k].name = plan.runs[k].name
           /\ plan'.runs[k].config_sha256 = plan.runs[k].config_sha256
           /\ k # current => plan'.runs[k] = plan.runs[k],
         manifest' = plan',
         dir' \in Directories,
         \A m \in RunNames :
           /\ m # Name => dir'[m] = dir[m]
           /\ dir'[m].exists = dir[m].exists
           /\ dir'[m].config = dir[m].config
           /\ dir'[m].by = dir[m].by
  PROVE  /\ TypeInv' /\ OrderInv' /\ BeforeInv' /\ ConfigInv' /\ FreshInv'
         /\ \A k \in DOMAIN plan.runs : k # current => Holds(plan.runs[k])'
<1>1. /\ invocation \in Nat /\ cleared \in Nat
      /\ plan \in Manifests /\ Distinct(plan.runs) /\ plan.by = invocation
      /\ cleared <= invocation /\ manifest = plan
      /\ \A j \in DOMAIN plan.runs : /\ plan.runs[j].name \in RunNames
                                     /\ Configured(plan.runs[j])
  BY RunningFacts
<1>2. Name \in RunNames /\ Name = plan.runs[current].name /\ dir[Name].exists
  BY <1>1 DEF Name, Configured
<1>3. TypeInv'
  BY DEF IInv, TypeInv
<1>4. OrderInv'
  <2>1. \A n \in RunNames : Empty(n)'
    BY <1>2 DEF IInv, OrderInv, Empty
  <2>2. Distinct(plan'.runs)
    BY <1>1 DEF Distinct
  <2>3. QED
    BY <1>1, <2>1, <2>2 DEF OrderInv, Before
<1>5. BeforeInv'
  BY DEF BeforeInv
<1>6. ConfigInv'
  <2>1. \A j \in DOMAIN plan.runs : Configured(plan.runs[j])'
    BY <1>1 DEF Configured
  <2>2. QED
    BY <1>1, <2>1 DEF ConfigInv, Configured
<1>7. FreshInv'
  <2>1. pc \notin {"idle", "prepare"}
    BY DEF Running
  <2>2. ~args.overwrite =>
          \A j \in DOMAIN plan.runs : dir[plan.runs[j].name].by \in {0, invocation}
    BY <2>1 DEF IInv, FreshInv
  <2>3. QED
    BY <1>1, <2>2 DEF FreshInv
<1>8. \A k \in DOMAIN plan.runs : k # current => Holds(plan.runs[k])'
  <2>1. TAKE k \in DOMAIN plan.runs
  <2>2. SUFFICES ASSUME k # current PROVE Holds(plan.runs[k])'
    OBVIOUS
  <2>3. Holds(plan.runs[k])
    BY <1>1 DEF IInv, CompleteEntriesHold
  <2>4. plan.runs[k].name # Name
    BY <1>1, <1>2, <2>2 DEF Distinct
  <2>5. QED
    BY <1>1, <2>2, <2>3, <2>4 DEF Holds
<1>9. QED
  BY <1>3, <1>4, <1>5, <1>6, <1>7, <1>8

LEMMA StartRunKeeps == IInv /\ StartRun => IInv'
<1>1. SUFFICES ASSUME IInv, StartRun PROVE IInv'
  OBVIOUS
<1>2. /\ pc = "run" /\ current <= Len(plan.runs) /\ pc' = "simulate" /\ manifest' = plan'
      /\ args' = args /\ invocation' = invocation /\ current' = current /\ cleared' = cleared
      /\ Running
  BY <1>1 DEF StartRun, Running
<1>3. /\ invocation \in Nat /\ cleared \in Nat /\ current \in Nat
      /\ plan \in Manifests /\ dir \in Directories
      /\ current > 0 /\ Distinct(plan.runs) /\ plan.by = invocation
      /\ cleared <= invocation /\ plan.status = "planned"
  BY <1>1, <1>2, RunningFacts
<1>4. /\ current \in DOMAIN plan.runs /\ Name = plan.runs[current].name /\ Name \in RunNames
      /\ plan.runs[current] \in Entries
  BY <1>2, <1>3, CurrentEntry, EntryFacts DEF Name
<1> DEFINE e == [plan.runs[current] EXCEPT !.status = "running"]
<1>5. /\ e \in Entries /\ e.name = plan.runs[current].name /\ e.status = "running"
      /\ e.config_sha256 = plan.runs[current].config_sha256
  BY <1>4 DEF Entries, Statuses
<1>6. plan' = [plan EXCEPT !.runs = [plan.runs EXCEPT ![current] = e]]
  BY <1>1 DEF StartRun
<1> HIDE DEF e
<1>7. Replaced(plan', plan, current, e)
  <2>1. Replaced([plan EXCEPT !.runs = [plan.runs EXCEPT ![current] = e]], plan, current, e)
    BY <1>3, <1>4, <1>5, EntryReplaced
  <2>2. QED
    BY <1>6, <2>1
<1>8. /\ dir' \in Directories
      /\ \A m \in RunNames : m # Name => dir'[m] = dir[m]
      /\ \A m \in RunNames : /\ dir'[m].exists = dir[m].exists
                             /\ dir'[m].config = dir[m].config
                             /\ dir'[m].by = dir[m].by
  <2>1. dir' = [dir EXCEPT ![Name].log = Absent] /\ Absent \in Bytes
    BY <1>1 DEF StartRun, Bytes
  <2>2. QED
    BY <1>3, <1>4, <2>1, LogChanges
<1>9. /\ TypeInv' /\ OrderInv' /\ BeforeInv' /\ ConfigInv' /\ FreshInv'
      /\ \A k \in DOMAIN plan.runs : k # current => Holds(plan.runs[k])'
  <2>1. pc' \in Steps /\ ~Before' /\ pc' # "resolve"
    BY <1>2 DEF Steps, Before
  <2>2. QED
    BY <1>1, <1>2, <1>3, <1>4, <1>5, <1>7, <1>8, <2>1, RunKeeps DEF Replaced
<1>10. RunInv'
  <2>1. \A j \in DOMAIN plan.runs :
          /\ j < current => plan.runs[j].status = "complete"
          /\ j > current => plan.runs[j].status = "planned"
    BY <1>1, <1>2, RunningFacts
  <2>2. \A j \in DOMAIN plan.runs :
          /\ j < current => plan'.runs[j].status = "complete"
          /\ j > current => plan'.runs[j].status = "planned"
          /\ j = current => plan'.runs[j].status = "running"
    BY <1>3, <1>5, <1>7, <2>1 DEF Replaced
  <2>3. QED
    BY <1>2, <1>3, <1>4, <1>7, <2>2 DEF RunInv, Replaced
<1>11. CompleteEntriesHold'
  <2>1. \A k \in DOMAIN plan.runs : Holds(plan.runs[k])'
    BY <1>5, <1>7, <1>9 DEF Replaced, Holds
  <2>2. QED
    BY <1>2, <1>3, <1>7, <2>1 DEF CompleteEntriesHold, Replaced, Holds
<1>12. QED
  BY <1>9, <1>10, <1>11 DEF IInv

LEMMA SimulatorKeeps == IInv /\ (SimulatorStarts \/ SimulatorEnds) => IInv'
<1>1. SUFFICES ASSUME IInv, SimulatorStarts \/ SimulatorEnds PROVE IInv'
  OBVIOUS
<1>2. /\ pc = "simulate" /\ UNCHANGED <<args, invocation, current, plan, manifest, cleared>>
      /\ pc' \in {"simulate", "record", "failed"}
      /\ Running
  BY <1>1 DEF SimulatorStarts, SimulatorEnds, After, Running
<1>3. /\ current \in Nat /\ plan \in Manifests /\ dir \in Directories /\ current > 0
      /\ plan.by = invocation /\ manifest = plan
      /\ \A j \in DOMAIN plan.runs : /\ plan.runs[j].name \in RunNames
                                     /\ Configured(plan.runs[j])
  BY <1>1, <1>2, RunningFacts
<1>4. current \in DOMAIN plan.runs /\ Name = plan.runs[current].name /\ Name \in RunNames
  BY <1>1, <1>2, <1>3 DEF Name, IInv, RunInv
<1>5. dir' = dir \/ \E l \in Bytes : dir' = [dir EXCEPT ![Name].log = l]
  <2>1. dir[Name].config \in Bytes /\ Partial \in Bytes
    BY <1>3, <1>4 DEF Directories, Bytes
  <2>2. QED
    BY <1>1, <2>1 DEF SimulatorStarts, SimulatorEnds
<1>6. /\ dir' \in Directories
      /\ \A m \in RunNames : m # Name => dir'[m] = dir[m]
      /\ \A m \in RunNames : /\ dir'[m].exists = dir[m].exists
                             /\ dir'[m].config = dir[m].config
                             /\ dir'[m].by = dir[m].by
  <2>1. CASE dir' = dir
    BY <1>3, <2>1
  <2>2. CASE \E l \in Bytes : dir' = [dir EXCEPT ![Name].log = l]
    BY <1>3, <1>4, <2>2, LogChanges
  <2>3. QED
    BY <1>5, <2>1, <2>2
<1>7. /\ TypeInv' /\ OrderInv' /\ BeforeInv' /\ ConfigInv' /\ FreshInv'
      /\ \A k \in DOMAIN plan.runs : k # current => Holds(plan.runs[k])'
  <2>1. pc' \in Steps /\ ~Before' /\ pc' # "resolve"
    BY <1>2 DEF Steps, Before
  <2>2. QED
    BY <1>1, <1>2, <1>3, <1>4, <1>6, <2>1, RunKeeps
<1>8. RunInv'
  <2>1. pc' = "record" => dir'[Name].log = dir'[Name].config
    <3>1. SUFFICES ASSUME pc' = "record" PROVE dir'[Name].log = dir'[Name].config
      OBVIOUS
    <3>2. dir' = [dir EXCEPT ![Name].log = dir[Name].config]
      BY <1>1, <1>2, <3>1 DEF SimulatorStarts, SimulatorEnds, After
    <3>3. dir[Name].config \in Bytes
      BY <1>3, <1>4 DEF Directories
    <3>4. dir'[Name].log = dir[Name].config
      BY <1>3, <1>4, <3>2 DEF Directories
    <3>5. QED
      BY <1>4, <1>6, <3>4
  <2>2. Name' = Name
    BY <1>2 DEF Name
  <2>3. QED
    BY <1>1, <1>2, <1>4, <2>1, <2>2 DEF IInv, RunInv, Running
<1>9. CompleteEntriesHold'
  <2>1. plan.runs[current].status = "running" /\ plan.status = "planned"
    BY <1>1, <1>2, <1>4, RunningFacts
  <2>2. \A k \in DOMAIN plan.runs : Holds(plan.runs[k])'
    BY <1>2, <1>7, <2>1 DEF Holds
  <2>3. QED
    BY <1>2, <1>3, <2>1, <2>2 DEF CompleteEntriesHold, Holds
<1>10. QED
  BY <1>7, <1>8, <1>9 DEF IInv

(* The end of a run, good or bad, is recorded in the current entry.        *)
LEMMA RecordRunKeeps == IInv /\ RecordRun => IInv'
<1>1. SUFFICES ASSUME IInv, RecordRun PROVE IInv'
  OBVIOUS
<1>2. /\ pc = "record" /\ pc' = "run" /\ manifest' = plan' /\ current' = current + 1
      /\ args' = args /\ invocation' = invocation /\ dir' = dir /\ cleared' = cleared
      /\ Running
  BY <1>1 DEF RecordRun, Running
<1>3. /\ current \in Nat /\ plan \in Manifests /\ dir \in Directories /\ current > 0
      /\ Distinct(plan.runs) /\ plan.by = invocation /\ plan.status = "planned"
      /\ \A j \in DOMAIN plan.runs : plan.runs[j].name \in RunNames /\ j \in Nat
      /\ \A j \in DOMAIN plan.runs : Configured(plan.runs[j])
  BY <1>1, <1>2, RunningFacts
<1>4. /\ current \in DOMAIN plan.runs /\ Name = plan.runs[current].name /\ Name \in RunNames
      /\ plan.runs[current] \in Entries /\ dir[Name].log = dir[Name].config
  BY <1>1, <1>2, <1>3, EntryFacts DEF Name, IInv, RunInv
<1>5. dir[Name].log \in Bytes
  BY <1>3, <1>4 DEF Directories
<1> DEFINE e == [plan.runs[current] EXCEPT !.output_sha256 = dir[Name].log, !.status = "complete"]
<1>6. /\ e \in Entries /\ e.name = plan.runs[current].name /\ e.status = "complete"
      /\ e.config_sha256 = plan.runs[current].config_sha256
      /\ e.output_sha256 = dir[Name].log
  BY <1>4, <1>5 DEF Entries, Statuses
<1>7. plan' = [plan EXCEPT !.runs = [plan.runs EXCEPT ![current] = e]]
  BY <1>1 DEF RecordRun
<1> HIDE DEF e
<1>8. Replaced(plan', plan, current, e)
  <2>1. Replaced([plan EXCEPT !.runs = [plan.runs EXCEPT ![current] = e]], plan, current, e)
    BY <1>3, <1>4, <1>6, EntryReplaced
  <2>2. QED
    BY <1>7, <2>1
<1>9. /\ TypeInv' /\ OrderInv' /\ BeforeInv' /\ ConfigInv' /\ FreshInv'
      /\ \A k \in DOMAIN plan.runs : k # current => Holds(plan.runs[k])'
  <2>1. pc' \in Steps /\ ~Before' /\ pc' # "resolve"
    BY <1>2 DEF Steps, Before
  <2>2. current' \in Nat /\ current' > 0
    BY <1>2, <1>3
  <2>3. QED
    BY <1>1, <1>2, <1>3, <1>4, <1>6, <1>8, <2>1, <2>2, RunKeeps DEF Replaced
<1>10. RunInv'
  <2>1. \A j \in DOMAIN plan.runs :
          /\ j < current => plan.runs[j].status = "complete"
          /\ j > current => plan.runs[j].status = "planned"
    BY <1>1, <1>2, RunningFacts
  <2>2. \A j \in DOMAIN plan.runs :
          /\ j < current' => plan'.runs[j].status = "complete"
          /\ j >= current' => plan'.runs[j].status = "planned"
    <3>1. TAKE j \in DOMAIN plan.runs
    <3>2. j \in Nat /\ (j < current' <=> j < current \/ j = current) /\ (j >= current' <=> j > current)
      BY <1>2, <1>3
    <3>3. QED
      BY <1>3, <1>6, <1>8, <2>1, <3>2 DEF Replaced
  <2>3. \A j \in DOMAIN plan.runs : j > current' \/ j = current' => j >= current'
    BY <1>2, <1>3
  <2>4. QED
    BY <1>2, <1>3, <1>8, <2>2, <2>3 DEF RunInv, Replaced
<1>11. CompleteEntriesHold'
  <2>1. ASSUME NEW k \in DOMAIN plan.runs, k = current PROVE Holds(plan.runs[k])'
    <3>1. Configured(plan.runs[current])
      BY <1>3, <1>4
    <3>2. plan'.runs[k] = e
      BY <1>8, <2>1 DEF Replaced
    <3>3. /\ dir[e.name].exists /\ e.output_sha256 = dir[e.name].log
          /\ e.config_sha256 = dir[e.name].config /\ dir[e.name].log = dir[e.name].config
          /\ dir[e.name].log \in Versions
      BY <1>4, <1>6, <3>1 DEF Configured
    <3>4. QED
      BY <1>2, <3>2, <3>3 DEF Holds
  <2>2. \A k \in DOMAIN plan.runs : Holds(plan.runs[k])'
    BY <1>9, <2>1
  <2>3. QED
    BY <1>2, <1>3, <1>8, <2>2 DEF CompleteEntriesHold, Replaced, Holds
<1>12. QED
  BY <1>9, <1>10, <1>11 DEF IInv

LEMMA RecordFailureKeeps == IInv /\ RecordFailure => IInv'
<1>1. SUFFICES ASSUME IInv, RecordFailure PROVE IInv'
  OBVIOUS
<1>2. /\ pc = "failed" /\ pc' = "idle" /\ manifest' = plan' /\ current' = current
      /\ args' = args /\ invocation' = invocation /\ dir' = dir /\ cleared' = cleared
      /\ Running
  BY <1>1 DEF RecordFailure, Running
<1>3. /\ current \in Nat /\ plan \in Manifests /\ dir \in Directories /\ current > 0
      /\ Distinct(plan.runs) /\ plan.by = invocation
      /\ \A j \in DOMAIN plan.runs : plan.runs[j].name \in RunNames
  BY <1>1, <1>2, RunningFacts
<1>4. /\ current \in DOMAIN plan.runs /\ plan.runs[current] \in Entries
  BY <1>1, <1>2, <1>3, EntryFacts DEF IInv, RunInv
<1> DEFINE e == [plan.runs[current] EXCEPT !.status = "failed"]
           q == [plan EXCEPT !.runs = [plan.runs EXCEPT ![current] = e]]
<1>5. /\ e \in Entries /\ e.name = plan.runs[current].name /\ e.status = "failed"
      /\ e.config_sha256 = plan.runs[current].config_sha256
  BY <1>4 DEF Entries, Statuses
<1>6. plan' = [q EXCEPT !.status = "failed"]
  BY <1>1, <1>3 DEF RecordFailure, Manifests
<1> HIDE DEF e
<1>7. Replaced(q, plan, current, e)
  BY <1>3, <1>4, <1>5, EntryReplaced
<1> HIDE DEF q
<1>8. /\ plan' \in Manifests /\ plan'.status = "failed" /\ plan'.by = q.by /\ plan'.runs = q.runs
  BY <1>6, <1>7 DEF Replaced, Manifests
<1>9. /\ TypeInv' /\ OrderInv' /\ BeforeInv' /\ ConfigInv' /\ FreshInv'
      /\ \A k \in DOMAIN plan.runs : k # current => Holds(plan.runs[k])'
  <2>1. pc' \in Steps /\ ~Before' /\ pc' # "resolve"
    BY <1>2 DEF Steps, Before
  <2>2. QED
    BY <1>1, <1>2, <1>3, <1>4, <1>5, <1>7, <1>8, <2>1, RunKeeps DEF Replaced
<1>10. RunInv'
  BY <1>2 DEF RunInv, Running
<1>11. CompleteEntriesHold'
  <2>1. \A k \in DOMAIN plan.runs : Holds(plan.runs[k])'
    BY <1>5, <1>7, <1>8, <1>9 DEF Replaced, Holds
  <2>2. QED
    BY <1>2, <1>7, <1>8, <2>1 DEF CompleteEntriesHold, Replaced, Holds
<1>12. QED
  BY <1>9, <1>10, <1>11 DEF IInv

LEMMA FinishKeeps == IInv /\ Finish => IInv'
<1>1. SUFFICES ASSUME IInv, Finish PROVE IInv'
  OBVIOUS
<1>2. /\ pc = "run" /\ pc' = "idle" /\ manifest' = plan' /\ current' = current
      /\ current > Len(plan.runs) /\ plan' = [plan EXCEPT !.status = "complete"]
      /\ args' = args /\ invocation' = invocation /\ dir' = dir /\ cleared' = cleared
      /\ Running
  BY <1>1 DEF Finish, Running
<1>3. /\ current \in Nat /\ plan \in Manifests /\ dir \in Directories /\ current > 0
      /\ Distinct(plan.runs) /\ plan.by = invocation /\ cleared <= invocation
      /\ invocation \in Nat /\ manifest = plan
      /\ \A j \in DOMAIN plan.runs : j < current => plan.runs[j].status = "complete"
  BY <1>1, <1>2, RunningFacts
<1>4. /\ plan' \in Manifests /\ plan'.by = invocation /\ plan'.runs = plan.runs
  BY <1>2, <1>3 DEF Manifests
<1>5. \A j \in DOMAIN plan.runs : plan.runs[j].status = "complete"
  <2>1. \A j \in DOMAIN plan.runs : j <= Len(plan.runs) /\ j \in Nat
    BY <1>3, EntryFacts
  <2>2. Len(plan.runs) \in Nat
    BY <1>3 DEF Manifests
  <2>3. QED
    BY <1>2, <1>3, <2>1, <2>2
<1>6. TypeInv'
  BY <1>1, <1>2, <1>4 DEF IInv, TypeInv, Steps
<1>7. OrderInv'
  BY <1>1, <1>2, <1>3, <1>4 DEF IInv, OrderInv, Before, Running, Empty
<1>8. BeforeInv' /\ ConfigInv' /\ RunInv' /\ FreshInv'
  BY <1>2 DEF BeforeInv, ConfigInv, RunInv, FreshInv, Before, Running
<1>9. CompleteEntriesHold'
  BY <1>1, <1>2, <1>3, <1>4, <1>5 DEF IInv, CompleteEntriesHold, Holds
<1>10. QED
  BY <1>6, <1>7, <1>8, <1>9 DEF IInv

LEMMA IInvNext == IInv /\ [Next]_vars => IInv'
<1>1. SUFFICES ASSUME IInv, [Next]_vars PROVE IInv'
  OBVIOUS
<1>2. CASE UNCHANGED vars
  <2>1. UNCHANGED <<pc, args, invocation, current, plan, manifest, dir, cleared>>
    BY <1>2 DEF vars
  <2>2. TypeInv' /\ OrderInv'
    BY <1>1, <2>1 DEF IInv, TypeInv, OrderInv, Before, Running, Empty
  <2>3. BeforeInv' /\ ConfigInv' /\ FreshInv'
    BY <1>1, <2>1 DEF IInv, BeforeInv, ConfigInv, FreshInv, Before, Running, Configured
  <2>4. RunInv'
    BY <1>1, <2>1 DEF IInv, RunInv, Running, Name
  <2>5. CompleteEntriesHold'
    BY <1>1, <2>1 DEF IInv, CompleteEntriesHold, Holds
  <2>6. QED
    BY <2>2, <2>3, <2>4, <2>5 DEF IInv
<1>3. CASE Invoke
  BY <1>1, <1>3, InvokeKeeps
<1>4. CASE Refuse
  BY <1>1, <1>4, StopKeeps DEF Refuse
<1>5. CASE Prepare
  BY <1>1, <1>5, PrepareKeeps
<1>6. CASE Resolve
  BY <1>1, <1>6, ResolveKeeps
<1>7. CASE WriteConfig
  BY <1>1, <1>7, WriteConfigKeeps
<1>8. CASE WriteManifest
  BY <1>1, <1>8, WriteManifestKeeps
<1>9. CASE StartRun
  BY <1>1, <1>9, StartRunKeeps
<1>10. CASE SimulatorStarts \/ SimulatorEnds
  BY <1>1, <1>10, SimulatorKeeps
<1>11. CASE RecordRun
  BY <1>1, <1>11, RecordRunKeeps
<1>12. CASE RecordFailure
  BY <1>1, <1>12, RecordFailureKeeps
<1>13. CASE Finish
  BY <1>1, <1>13, FinishKeeps
<1>14. CASE Crash
  BY <1>1, <1>14, StopKeeps DEF Crash
<1>15. QED
  BY <1>1, <1>2, <1>3, <1>4, <1>5, <1>6, <1>7, <1>8, <1>9, <1>10, <1>11, <1>12, <1>13, <1>14
     DEF Next

LEMMA IInvAlways == Spec => []IInv
BY IInvInit, IInvNext, PTL DEF Spec

-----------------------------------------------------------------------------
(* The theorems.                                                           *)

\* Wherever the invocations of generate_batch.py are interrupted, and however
\* many there are: until a later one clears run directories, what the manifest
\* calls complete is there, with the config and log it has the hashes of.
THEOREM ManifestsAreTrue == Spec => []CompleteEntriesHold
<1>1. IInv => CompleteEntriesHold
  BY DEF IInv
<1>2. QED
  BY <1>1, IInvAlways, PTL

\* Without --overwrite no step of _prepare_output_paths, of the writing of
\* configs and manifests or of a run touches what an earlier invocation left.
THEOREM NoOverwriteLosesNothing == Spec => NoOverwriteKeepsFiles
<1> DEFINE Kept == ~args.overwrite /\ invocation' = invocation =>
                     /\ manifest.by \notin {0, invocation} => manifest' = manifest
                     /\ \A n \in RunNames :
                          dir[n].by \notin {0, invocation} => dir'[n] = dir[n]
<1>1. IInv /\ [Next]_vars => [Kept]_vars
  <2>1. SUFFICES ASSUME IInv, Next, ~args.overwrite, invocation' = invocation
                 PROVE  /\ manifest.by \notin {0, invocation} => manifest' = manifest
                        /\ \A n \in RunNames :
                             dir[n].by \notin {0, invocation} => dir'[n] = dir[n]
    OBVIOUS
  <2>2. dir \in Directories
    BY <2>1 DEF IInv, TypeInv
  <2>3. CASE UNCHANGED <<manifest, dir>>
    BY <2>3
  <2>4. CASE Prepare
    <3>1. ~Conflicts /\ manifest' = manifest /\ pc = "prepare"
      BY <2>1, <2>4 DEF Prepare
    <3>2. CASE current <= Len(plan.runs)
      <4>1. dir' = [dir EXCEPT ![Name] = NoDir]
        BY <2>4, <3>2 DEF Prepare
      <4>2. Name \in RunNames /\ Name \in Planned
        <5>1. plan \in Manifests /\ current \in Nat /\ current > 0
          BY <2>1, <3>1 DEF IInv, TypeInv, OrderInv, Before
        <5>2. current \in DOMAIN plan.runs
          BY <3>2, <5>1, CurrentEntry
        <5>3. QED
          BY <5>1, <5>2, EntryFacts DEF Name, Planned
      <4>3. dir[Name] = NoDir
        BY <2>1, <3>1, <4>2 DEF Conflicts, IInv, OrderInv, Empty
      <4>4. \A n \in RunNames : dir'[n] = dir[n]
        BY <2>2, <4>1, <4>2, <4>3 DEF Directories
      <4>5. QED
        BY <3>1, <4>4
    <3>3. CASE ~(current <= Len(plan.runs))
      BY <2>3, <2>4, <3>3 DEF Prepare
    <3>4. QED
      BY <3>2, <3>3
  <2>5. CASE WriteConfig \/ WriteManifest \/ StartRun \/ SimulatorStarts \/ SimulatorEnds
               \/ RecordRun \/ RecordFailure \/ Finish
    <3>1. pc \notin {"idle", "prepare"}
      BY <2>5 DEF WriteConfig, WriteManifest, StartRun, SimulatorStarts, SimulatorEnds,
                  RecordRun, RecordFailure, Finish
    <3>2. /\ manifest.by \in {0, invocation}
          /\ \A j \in DOMAIN plan.runs : dir[plan.runs[j].name].by \in {0, invocation}
      BY <2>1, <3>1 DEF IInv, FreshInv
    <3>3. CASE dir' = dir
      BY <3>2, <3>3
    <3>4. CASE WriteConfig \/ StartRun \/ SimulatorStarts \/ SimulatorEnds
      <4>1. plan \in Manifests /\ current \in Nat
        BY <2>1 DEF IInv, TypeInv
      <4>2. current \in DOMAIN plan.runs
        <5>1. CASE pc = "simulate"
          BY <2>1, <5>1 DEF IInv, RunInv, Running
        <5>2. CASE pc # "simulate"
          <6>1. current <= Len(plan.runs) /\ current > 0
            BY <2>1, <3>4, <5>2 DEF WriteConfig, StartRun, SimulatorStarts, SimulatorEnds,
                                    IInv, OrderInv, Before, Running
          <6>2. QED
            BY <4>1, <6>1, CurrentEntry
        <5>3. QED
          BY <5>1, <5>2
      <4>3. dir[Name].by \in {0, invocation}
        BY <3>2, <4>2 DEF Name
      <4>4. \A n \in RunNames : n # Name => dir'[n] = dir[n]
        BY <2>2, <3>4 DEF WriteConfig, StartRun, SimulatorStarts, SimulatorEnds, Directories
      <4>5. QED
        BY <3>2, <4>3, <4>4
    <3>5. QED
      BY <2>5, <3>3, <3>4 DEF WriteManifest, RecordRun, RecordFailure, Finish
  <2>6. QED
    BY <2>1, <2>3, <2>4, <2>5 DEF Next, Invoke, Refuse, Resolve, Crash
<1>2. QED
  BY <1>1, IInvAlways, PTL DEF Spec, NoOverwriteKeepsFiles
===============================================================================

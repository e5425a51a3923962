# Formal model of gnss-data-simulator

The simulator replays the life of one static GNSS receiver: it reads broadcast
navigation records, steps through the epochs of a run, switches receiver power
and signals on and off as a scenario asks, decides for every signal when it is
searched for, acquired, tracked and lost, generates the measurements of the
tracked signals, lets the receiver collect its ephemerides, solves position and
velocity with RTKLIB, and writes a receiver log and truth files.

This directory holds TLA+ modules translated from `src/src/` and `src/tools/`,
TLC configurations that check them on small instances, and TLAPS proofs of the
properties that matter most for all values of the parameters. Paths below are
relative to the repository, without the leading `src/` for the program:
`core/simulator.cpp` is `src/src/core/simulator.cpp` in `PROJECT.json`.

## 1. Inventory

The simulator is single-threaded. A run is one call of `run_simulator`, whose
loop does, per epoch and in this order: scenario engine, power and signal
transitions, trackers and measurements, navigation data, solution, BESTPOS fix,
log. Components interact by calls from this loop and through the `RuntimeState`
it owns. What is hard in it is therefore not concurrency but *long sequences*:
many small state machines per signal, each with its own notion of "the current
lock", reset by different handlers on different transitions, driven by cycles that
are not multiples of the sampling interval. Concurrency and failure come with the
tools around it: a harness that captures the simulator's output from named pipes
with threads, a batch generator that may be interrupted anywhere, builders and
validators that read what others wrote.

| Component | Code | State | Operations | What makes it correct |
|---|---|---|---|---|
| Scenario engine | `scenario/scenario_engine.cpp` | last powered / signal flags | initialize, update | transitions alternate, whatever the cycle and the sampling rate |
| Epoch loop, power cycles | `core/simulator.cpp` | `RuntimeState`: satellites, signals, families, startup time | power on, power off, signal off, one epoch; setup and finalisation | nothing survives the event that should end it; no legal sequence makes an epoch fail; success means a complete output |
| Signal tracker | `model/signal_tracking.cpp` | phase, schedule, start, lock time, validity flags | reset, schedule, update | a lock lies inside one unbroken availability; a signal always recovers |
| Ambiguity, measurement error | `model/measurement_model.cpp`, `model/measurement_error_model.cpp` | the lock they belong to | generate, apply, reset | same lock, same ambiguity; new lock, new one |
| Solution, BESTPOS | `solution/solution_engine.cpp`, `model/bestpos_rtk_model.cpp` | position hint; stability clock and fix | select, solve, update, reset | the best signal of each satellite; the hint never survives a power cycle; the fix is earned without interruption |
| Carrier-tracking core | `model/carrier_tracking.cpp` | mode, ages, persistence counters, segment | reset, update | exact hysteresis; a strong signal locks |
| Carrier-tracking runtime | `model/carrier_tracking_runtime.cpp` | core, phase segment, last update time | initialize, reset, update, apply | no slip unreported; phase continuous inside a segment |
| Urban tracking | `model/urban_signal_tracking.cpp`, `model/urban_signal_epoch.cpp` | C/N0 clocks, DLL roots, loss reason | update | a lock is earned and ends in time; the reason names the cause |
| Code DLL | `model/code_tracking_dll.cpp` | none | find roots, select | the root followed is stable and the best by its rule |
| Urban carrier temporal state | `model/urban_carrier_temporal.cpp` | segment and previous phase | update, reset | one segment per lock, every loss a slip |
| Navigation state | `gnss/navigation_state.cpp` | delivered flags, receiver store | initialize, apply, consume | a record once, in order, never early |
| NAV scheduler | `gnss/nav_message_scheduler.cpp` | acquisition plans, fragment collector | build plan, deliver, ingest | an ephemeris waits for its fragments, and no longer; one issue of data |
| C/N0 model | `model/cn0_model.cpp` | bins, baselines | load, configure, estimate | an accepted file answers everything, without jumps |
| Configuration | `core/sim_config.cpp` | none | read, validate | every setting is the document's or its default |
| Time | `core/sim_time.cpp` | none | week arithmetic | exact or refused, at every boundary |
| Log and truth writers | `output/*.cpp` | open streams | create, write, flush, finalize | the log tells the measurements; a manifest only after a complete run |
| Signal tables | `gnss/signal_definitions.cpp` | constant | look up | one signal per OEM7 type |
| Validation harness | `tools/extended_validation/run_extended.py` | capture threads, verdict | run once, capture, validate | a passed case is a complete capture; it always reports |
| Batch generator | `tools/batch_generation/generate_batch.py` | a directory and its manifest | plan, prepare, run, record | what the manifest calls complete is there |
| C/N0 model builder | `tools/build_cn0_model/` | accumulators | stream, sum up, write | the file says what was measured and is accepted |
| Offline validators | `tools/transient_validator/`, `tools/rangea_roundtrip/` | one pass over a log | validate | the summary is what the events and the truth say |
| Urban physics, atmosphere, coordinates, RNG | rest of `model/`, `core/deterministic_rng.cpp` | none | real-valued functions | numerical, not modelled |
| RTKLIB and HAS adapters | `gnss/rtklib_*.cpp`, `gnss/galileo_has_adapter.cpp` | navigation stores | load, snapshot, copy, solve | snapshot, copy and the choice of what is solved are modelled |

`PROJECT.json` lists every component with its status, every hazard with its line
and the properties that would catch it, and for every definition the lines it
translates.

## 2. The modules

```
ScenarioEngine, SignalTracker --> ReceiverTracking (implements SignalLocks)
                                      \-> MCReceiverTracking, ReceiverTrackingProofs
ScenarioEngine --> SignalLocks --> ReceiverNavigation --> MCReceiverNavigation, MCColdCollection
                                      \-> ReceiverNavigationProofs
CarrierTracking --> CarrierTrackingRuntime (implements CarrierPhase)
                                      \-> MCCarrierTracking, CarrierTrackingProofs
SignalTracker, CodeTrackingDll --> UrbanSignalTracker --+
ScenarioEngine, UrbanCarrierTemporal -------------------+--> UrbanTracking (implements SignalLocks)
                                                        \-> MCUrbanTracking, UrbanTrackingProofs
SimulatorRun --> ExtendedValidation --> MCExtendedValidation, ExtendedValidationProofs
BatchGeneration --> MCBatchGeneration, BatchGenerationProofs
SimTime, NavMessageLayouts, SimConfigLoader, TransientValidator,
Cn0Model --> Cn0Builder, ScenarioEngine --> ValidationOracle,
SolutionSelection, SignalDefinitions --> RangeLog   -- all --> MCReferenceChecks
SimTime, ValidationOracle, NavMessageLayouts --> AlgorithmProofs
SolutionSelection --> SolutionSelectionProofs
```

**ScenarioEngine** and **SignalTracker** are operators on records, used by the
modules that own the state. A scenario is `[kind, mode, on, off]`; only the cycle
of its own kind is ever read. The tracker keeps one `start` for
`acquisition_complete_time` and `tracking_start_time`, which the code assigns
together, and computes the valid times from it. The sampled delays are an
argument; the C/N0 value is left out because no open-sky decision reads it.

**ReceiverTracking** is the epoch loop without navigation data. One epoch is one
step, because nothing observes the program between two epochs. The five actions
are the five kinds of epoch `run_simulator` distinguishes: `PowerOnEpoch`
(`receiver_power_on`, then the epoch), `SignalOffEpoch` (`receiver_signal_off`,
then the epoch), `RunningEpoch`, `PowerOffEpoch` (`receiver_power_off`, and
`continue`), `UnpoweredEpoch`. A signal's `runtime` is `SignalRuntime`:
tracker, `ever_scheduled`, the lock the ambiguity belongs to and the lock and
lock time of the error process. Three conditions per signal and epoch stand for
everything geometry can say: no broadcast geometry (the loop's `continue`),
hidden, visible. RTKLIB is external: it answers no position, or one with any
number of satellites up to those with a pseudorange. Multipath, carrier
tracking and Galileo E6 are off here; measurement noise and BESTPOS are on.
`failed` is the loop's `ok = false`; `seen`, `onSince`, `lastAdr`, `qualSince` and
`fixedSinceOn` are history, read by properties only.

**SignalLocks** is the abstract specification of the trackers, and all that the
navigation data relies on: per signal off, sought from a time before which it cannot
lock, or tracked since the start of its lock. An epoch may lose any of them, keep them,
begin a search or a lock at one of the two times there is a reason for (the planned one
and the present), and resets them all at a power-on and without power or signals.
ReceiverTracking and UrbanTracking implement it (`LocksServeNavigation`), with
`LockOf` of a tracker as the refinement mapping. It is more than "a lock starts in the
last interval": a signal without geometry is skipped by the epoch (`core/simulator.cpp:834`)
and keeps its plan, so an open-sky lock may be first seen many intervals after it began.

**CarrierTracking** is `update_carrier_tracking` for an available signal, time
measured in coherent integrations. Each age is compared with one duration and
saturates there. **CarrierTrackingRuntime** is the runtime around it: an epoch
is `BeginEpoch` and then one `Integrate` per integration, the last of which
publishes `out`. The last integration of an epoch may be shorter in the code
(`dt < T`); it counts as a whole one here. The random cycle offset of a phase
segment is represented by the segment number it is derived from.
**CarrierPhase** is the abstract specification: what a consumer of the reported
phase may rely on.

**ReceiverNavigation** is `process_receiver_nav` with the navigation state. A
truth record is its place in the sorted schedule; `delivered` are the delivered
flags, `store` the receiver's navigation store, `cold` the per-family
acquisition state. A *family* is one message family of one satellite; the
ionosphere has its own. `FragmentCompletion` and `PlanAvailability` are
`set_fragment` and the availability time of a plan; the frame layouts are a
parameter (NavMessageLayouts has the real ones). Each of its steps is a step of
SignalLocks and what the navigation makes of it, so its results hold beside
either tracker. Left out: records without a known family (never delivered by the loop),
the emission filters (they write the log only), and the difference between message type and family in
the snapshot.

**CodeTrackingDll** takes a discriminator profile as a sequence of samples and
gives its roots and the one to follow. **UrbanSignalTracker** is SignalTracker's
record with the overlay `reset_urban_tracking_overlay` clears: a lock also needs a
stable root and enough power, both of which have clocks. **UrbanCarrierTemporal**
names a segment of the environmental phase by the time it began.
**UrbanTracking** is the multipath branch of the epoch loop for one signal; its
epochs are those of ReceiverTracking, and its `input` is what the geometry and the
correlation give: nothing, a hidden signal, or a set of roots. The signal is
handled twice when the scenario turns signals off (`receiver_signal_off` before
the epoch), as in the code. `goodSince`, `lowSince`, `steadySince` and
`lockedBefore` are history.

**SimulatorRun** is one run as a process: a list of operations per phase (create,
one epoch, finish, clean up), each on one output stream. A stream buffers rows
and pushes them to its file; opening, pushing, flushing and writing may fail, and
an epoch may end with an error. **ExtendedValidation** composes it with
`run_extended.py`: four named pipes, one capture thread each, and the main thread
that starts the simulator, waits, opens the pipes that nobody opened, joins the
threads with a timeout, and judges. The three kinds of actors interleave freely.

**BatchGeneration** is `generate_batch.py` invoked again and again on one
directory. Every write to the disk is a step, and `Crash` may follow any step. A
file's content is the version of the inputs it was made from.

The remaining modules are pure algorithms, each with its reference definitions at
the end: **SimTime** (week arithmetic in narrow integers that wrap),
**NavMessageLayouts** (the frame layouts, plans and the fragment collector),
**SolutionSelection** (`solve_receiver_epoch` around RTKLIB), **Cn0Model** (loading,
baselines and estimate, in fixed-point numbers), **Cn0Builder** (from RINEX headers
and epochs to the rows Cn0Model loads), **SimConfigLoader** (`load_sim_config_json` on
JSON values), **SignalDefinitions** and **RangeLog** (the RANGEA record as the
receiver writes it, the tools' own parser, and the two position validations),
**TransientValidator** (one pass over a log), **ValidationOracle** (the closed forms
of the harness beside ScenarioEngine).

Abstractions common to all: times are integers, except in SimTime since the start of
the run (the program's nanoseconds). The values of measurements, noise and
positions are left out, or integers where something is compared or rounded. Each
module's header says what else is abstracted.

## 3. What the runs check

| Run | Result | What it shows |
|---|---|---|
| `receiver_tracking` | pass | locks, ambiguities, hint and fix under power and signal cycles |
| `carrier_tracking` | pass | hysteresis, slips and phase continuity; liveness |
| `receiver_navigation` | pass | ephemerides: never early, never withheld, never out of order |
| `urban_tracking` | pass | urban locks, loss reasons, phase segments |
| `extended_validation` | pass | the simulator and the harness, with every failure |
| `batch_generation` | pass | interrupted batches |
| `reference_checks` | pass | the pure algorithms against what they mean |
| `startup_gate` | violation | the startup delay can be bypassed (finding 1) |
| `carrier_flags` | violation | a carrier segment can open unreported (finding 2) |
| `cold_collection` | violation | an ephemeris without heard fragments (finding 3) |
| `urban_loss_reason` | violation | a lost lock without a reason (finding 4) |
| `built_model` | violation | a built C/N0 file is refused (finding 5) |

**receiver_tracking.** `TypeOK`; `EpochsNeverFail`: none of the internal errors of
an epoch is reachable (search ready before the signal, available but not
scheduled, time before a tracker's state, lock time or BESTPOS clock running
backwards); `LockWithinAvailability`: no lock reaches back across a loss of
signal or power; `RecoversInTime`: a signal available for the longest delays is
tracked with a valid phase, whatever cut its acquisition short before;
`AmbiguityIdentifiesLock`: two reported phases have the ambiguity of one lock exactly when
the signal was not lost between them (the ambiguity epoch of the truth; its cycles are a
hash into 900000 numbers, which two locks may share by chance); `FixIsEarned`: the fix rests on an
uninterrupted time of qualifying epochs, and a velocity on a position since
power-on; `LocksServeNavigation`: the trackers implement SignalLocks.

Bounds: 2 signals, 7 epochs of 2 time units, one scenario of each kind with
cycles (5 on, 3 off; 5 on, 5 off) that are not multiples of the interval, startup
delays 1 and 3, acquisition delays 0 and 3, and validity delays of 0, 1 and 2.
Two signals are what the properties compare: an epoch with a fix and one
without, one signal lost while the other is kept. Seven epochs hold a full
power cycle, or two signal cycles, with a lock on either side. The two
signals are symmetric (no property singles one out, and no liveness is checked
here). Delays that straddle the interval make acquisitions start, wait and end
between epochs.

**carrier_tracking.** `TypeOK`; `PllLeftOnTime`: the PLL is
left at exactly the integration that completes its exit persistence of
consecutive weak ones; `SlipsReported`; `ReportedPhaseIsContinuous`: the runtime
implements CarrierPhase; `StrongSignalLocks`: a lasting code lock at the PLL
threshold leads to a lasting valid phase.

Bounds: five C/N0 levels, one in each interval of the four thresholds;
durations of 2 integrations (the smallest with an inside), ages of 1 and 2, and
epochs of 1, 3 and 6 integrations, so that one epoch can lose and regain a lock.
Segments are bounded by 3: `WithinBound` stops the C/N0 from opening another.

**receiver_navigation.** `DeliveredOnAir`: the store holds only what was
broadcast, and a record given up is older than one held; `NewestLast`: a record at
most once, and never an older one of a family after a newer;
`ColdEphemerisIsCollected`: never before a carrier had the time to transmit every
fragment since its first lock; `CollectionMeetsDeadline`: when the tracked carrier
has transmitted all of the newest record, it is held; `NothingWithheld`.

Bounds: 2 signals with different frame layouts that carry one family, a second
family without a carrier, ionosphere records, records from before the start, at the
same time and during a run, HOT, WARM and COLD receivers, power cycles, 8 epochs
(time for two power-ons and a record arriving in the middle of a collection). A search may
lock at once, inside the next interval and after it (`LockDelays` 0, 1, 3).

**urban_tracking.** `TypeOK`: in particular a tracker follows stable roots only;
`UrbanEpochsNeverFail`: no internal error of an epoch is reachable, so the root the
epoch selects for the power is the one the tracker follows, and a signal that lost
its lock is scheduled again before it is updated; `SegmentIsLock`: the environmental
phase has one segment per lock, and what is reported is of one lock; `LowPowerEndsLock`
and `LockIsEarned`: a lock never outlives the loss persistence and is entered only
after the acquisition persistence; `SteadySignalIsTracked`; `SlipsReported`: the first
epoch of a lock after a loss is a slip, whatever ended the earlier lock;
`LossIsExplained`: the reason of a loss while signals are on is true of that epoch
and of those before; `LocksServeNavigation`: this tracker implements SignalLocks as well.

Bounds: one signal (signals do not interact in this branch); the six root sets hold
every relation a root can have to the one tracked: the same, a small step away, too
far, weaker than a farther one, unstable, gone; 10 epochs of 2 with cycles of 12
and 13; persistences of 2 and 3, one a multiple of the interval and one not.

**extended_validation.** `TypeOK`: also that no pipe or buffer holds more than it can;
`ManifestMeansComplete`: there is a whole manifest exactly when the run returned
success, and then every stream holds every row; `PassedRunIsCaptured`: a case that
passed captured all of a complete run; `HarnessReports`: whatever becomes of the
simulator and the captures, there is a verdict.

Bounds: two of the four pipes, two epochs (powered, and off), buffers and pipes of
one row, less than an epoch writes, so that the simulator waits for its readers. A
second pipe is what can be opened in the wrong order, or stay closed while the
first one fails.

**batch_generation.** `CompleteEntriesHold`: until a later invocation clears run
directories, every run the manifest marks complete is there with the recorded hashes,
and a complete batch is complete in all its runs; `NoOverwriteKeepsFiles`. Bounds: three
invocations (one to be interrupted, one to run over it, one to look), batches of one
and two realizations of two scenarios, two versions of the inputs.

**reference_checks.** Every state is one algorithm with one input; there is no other
behaviour.

- `TimeArithmeticIsExact`: weeks of 6 ns in integers of 5 bits, so that sums of two
  weeks fit and of three do not; all times, all offsets.
- `MessagesAreWhole`: all real layouts, from every fifth of a second in 50 s before the
  end of a week; all sequences of up to five fragments of two issues.
- `SolutionIsEarned`: up to three measurements of three satellites in every order, with
  room for two satellites.
- `Cn0IsDefined`: files of up to three rows that touch, overlap, leave gaps, are
  malformed or sparse, with every set of baselines; the waves over a whole slow period;
  headers of four observation types for three slots; sources of three epochs and pairs of
  sources, with any order of time, gaps, missing geometry, conflicting records.
- `ConfigMeansTheDocument`: every setting of the configuration against the document and
  the defaults, whatever it was parsed from. Documents of up to two members of the root
  and three of `urban_rf`, right and wrong, in every order, and every setting on its own
  with other values than its default, durations at the limit of 64 bits.
- `TransientSummaryIsTrue`: six seconds of a signal with every pattern of raw and full
  measurements, and up to three transitions anywhere; and up to three events of any kind
  in any order, with power events between them, a SIGNAL_ON first or one event twice. Two
  locks may have the same ambiguity by chance.
- `LogTellsTheMeasurements`: every signal with every validity, satellites at the ends of
  the BeiDou GEO ranges and of each system, times around the end of a week; logs of up to
  four lines, whose ephemerides are valid at every epoch of them.
- `ExpectationIsExact`: every cycle of up to 6 on and 6 off of the three scenarios,
  runs of up to 15 steps, steps of up to 3.

`CHECK_DEADLOCK FALSE` is set where a run ends: after `MaxEpochs`, as the program's
loop does, after the verdict of the harness, after the last invocation, after the one
step of a reference check. The carrier run has no end and is checked for deadlock.

**Fairness.** Two runs have a liveness property. The carrier run assumes
`WF_vars(Next)`: the loop of a run in progress takes its next step; there is nothing
to wait for in a single-threaded program. What the signal does is not assumed fair:
the property's premise states it. The harness run assumes weak fairness of each
process: the simulator, each capture thread, and the main thread except its poll
loop, whose steps are stutters. These are the operating system's schedulers; a
blocking open, read or write is a disabled step, so a wait that nothing ends is a
counterexample. A join that times out is always possible and never forced, and no
failure is assumed to happen. `RecoversInTime`, `CollectionMeetsDeadline` and
`SteadySignalIsTracked` are deadlines, stated as safety, and need no fairness.

**Findings** (a document and the code disagree; each run shows a trace)

1. `docs/STARTUP_RECOVERY_MODEL.md:89` defines the usable time of a signal as
   the sum of startup, acquisition and measurement delays. A signal that is
   scheduled, lost and seen again *during* the startup is a reacquisition
   (`ever_scheduled` is set at the schedule, `core/simulator.cpp:883`) and no longer
   waits for the startup.
2. `docs/CARRIER_TRACKING_TRUTH.md:58` calls `new_carrier_segment` and
   `mode_changed` exact event flags. They are those of the epoch's last
   integration; `cycle_slip_event` alone is accumulated.
3. `docs/STARTUP_RECOVERY_MODEL.md:60` lets an ephemeris become available only
   after its fragments are collected. A plan survives the loss of the signal it
   was made for, and completes when any carrier of the family is tracked again.
4. `docs/URBAN_SIGNAL_TRACKING.md:63` says the reason of a loss is retained.
   `receiver_signal_off` ends the lock with the open-sky update, and the urban update of
   that epoch finds no lock any more: the reason stays `NONE`.
5. `tools/build_cn0_model/README.md:50` says the simulator accepts the builder's
   output. For a bin with some temporal pairs, but fewer than `--min-temporal-pairs`, the
   builder blanks the quantiles and keeps the count
   (`tools/build_cn0_model/cn0_builder.cpp:221`), and the loader refuses the file
   (`model/cn0_model.cpp:520`). `Cn0IsDefined` states the rest: without such a bin, a file
   is accepted.

Each property of a passing run has in `PROJECT.json` a mutant: a plausible bug in
one definition (an operator whose name ends in `Mutant`, or names the bug, beside
the definition it replaces) under which TLC finds the property violated.

## 4. What is proved

Eight modules hold the proofs, one per component; AlgorithmProofs is about three. Their
theorems hold for every value of the constants that satisfies the named assumptions,
which are what the program's validation functions accept or its types say:
`CarrierConfigAssumption` and `RuntimeAssumption` (ordered thresholds, positive
durations), `ScenariosAssumption` (positive parts of a cycle), `NavigationAssumption`
(a schedule sorted by transmission time, a non-empty set of fragments per signal),
`SignalLocksAssumption` (finitely many signals, delays that are not negative),
`ValidDelaysAssumption` and `ReceiverAssumption` (delays that are not negative, a
positive sampling interval), `UrbanTrackingAssumption`, `UrbanLoopAssumption` and
`MaxRootsAssumption` (persistences that are not negative, a tracking threshold below the
acquisition threshold), `BatchAssumption` (scenario names that differ, a positive
`--count`), `RunAssumption` (pipes and buffers that hold at least a row, named pipes that
are streams of the run, a timeline of natural amounts), `HarnessAssumption` (pipes with
the names the harness gives them, the event stream among them), `SimTimeAssumption`
(integers that hold two weeks), `SelectionAssumption` (integer priorities, room for a
satellite). `MaxEpochs`, `MaxInvocations` and `MaxSegments` are any
number.

For the six modules with a state, each proof goes the same way: an inductive invariant
`IInv` (or `NavInv`), checked by TLC on the run's instance before it was proved; one lemma
per action that preserves it; one theorem per property, from the invariant or from the step. Three of the theorems are
refinements: of CarrierPhase by the carrier runtime, of SignalLocks by the two receivers.

**CarrierTrackingProofs.** `TypeCorrect`, `LeavesPllOnTime`,
`ReportsEverySlip` and `ImplementsCarrierPhase` are the run's properties for any
thresholds, durations and epoch lengths. Their common invariant is `IInv`:
`TypeOK` together with

- `Untimed`: a runtime without a time has an untouched core and no epoch under way;
- `SlipHeld`: once an epoch has slipped, its C/N0 is below the level the PLL is left
  at and the carrier is not in PLL, so the epoch cannot slip a second time;
- `ExitCount`: in PLL the exit counter equals the history of weak integrations;
- `PhaseAhead`: the phase segment is ahead of the published one by the slip of
  the epoch under way, and by nothing else;
- `AdrPublished`, `AdrHeld`: between epochs the published validity is that of the
  core; inside an epoch a valid phase is still valid or has slipped.

Without `SlipHeld` and `PhaseAhead` neither `SlipsReported` nor the refinement is
inductive: a slip in the middle of an epoch shows only several steps later. The
refinement maps `coded` to `timed`, `usable` to `out.adr` and `segment` to
`out.phase`; every step of the runtime is then a step of CarrierPhase or stutters.

**ReceiverNavigationProofs.** `TypeCorrect`, `HoldsWhatWasOnAir`, `TakesNewestLast`
and `WithholdsNothing` hold for any broadcast, schedule, scenario and lock
pattern. Their invariant `NavInv` is, for the records delivered and the store:
the store is part of what was delivered; everything delivered was on air at the
last epoch; no older record of a family is undelivered while a newer one is
delivered (`Prefix`); and what was given up is covered by a record at least as
new (`Covered`). `Prefix` is what makes the rest inductive: it is why
suppressing the superseded records, taking all undelivered ones and the
snapshot of a power-on each keep the order. The same lemmas are used for the
three ways records arrive (snapshot, cold acquisition, normal reception).

Its second part proves `ColdIsCollected` and `CollectionIsTimely` for every
frame layout and pattern of loss and power. `CollectInv` says of a cold receiver that
every family it holds has a record, and every plan it waits for a target, that *some*
carrier has the time to transmit completely since its first lock; `LockInv` bounds the
locks by the epoch. A plan may be replaced by an earlier one and may outlive the lock it
was made for, so the carrier is the plan's and not the one tracked now. What makes this
inductive is `PlanMonotone`: collecting from a later time never ends sooner, fragment by
fragment (`SlotMonotone`, a fact on remainders).

**ReceiverTrackingProofs.** `TypeCorrect`, `EpochsSucceed`,
`LocksAreWithinAvailability`, `SignalsRecover`, `FixesAreEarned` and
`AmbiguitiesIdentifyLocks`, for any number of signals. `IInv` is `TypeOK`,
`EpochsNeverFail` and `FixIsEarned` together with

- `SignalsInv`: per signal, the times of a tracker are ordered and lie inside its current
  availability, a waiting signal is ready within the longest delays, and whatever
  belongs to a lock (ambiguity, error process, last reported phase) is not newer than it;
- `PowerInv`: what a receiver without power or signals has lost, and when it may search;
- `FixInv`: the BESTPOS clock is the first epoch of the qualifying run;
- `ReportInv`: a seen signal with an old enough lock is among the observations.

`EpochsNeverFail` is not inductive by itself: an epoch fails on a lock-bound state that
is *newer* than the lock, and only the resets of three handlers exclude that.
`AmbiguityIdentifiesLock` compares the locks of two observations any number of epochs apart,
and rests on `AmbiguityInv`, which relates the last of them to the lock.

`ImplementsSignalLocks` is the refinement `LocksServeNavigation`. A step of the receiver is
a step of SignalLocks because every signal's own step is (`SignalLockStep`), over the cases
lost, still waiting, acquiring, tracked, scheduled, and skipped for lack of geometry. It
needs one invariant more than `IInv`: `StartedInv`, that a tracked signal has reached the
start of its lock, without which a skipped signal could be tracked before its time. The
delay from a schedule to the lock is one of `LockDelays` (`LockDelay`) because
`PowerInv` bounds the startup gate: it is never ahead of the present by more than the longest startup delay.

**UrbanTrackingProofs.** `UrbanTypeCorrect`, `UrbanEpochsSucceed`, `SegmentsAreLocks`,
`LowPowerEndsLocks`, `SteadySignalsAreTracked`, `EverySlipIsReported`, `EveryLockIsEarned`
and `EveryLossIsExplained`, for any geometry and configuration. `IInv` is `TypeOK` and
`UrbanEpochsNeverFail` together with

- `PowerInv`: nothing is left of the last run with the receiver off;
- `LockInv`: a scheduled signal has a bounded plan, and a lock has one carrier segment
  that began with it;
- `ThresholdInv`: the tracker's two C/N0 clocks time the runs of power of the history;
- `SlipInv`: a signal that lost a lock acquires under the reacquisition plan;
- `SteadyInv`: a lock follows a stable root of its input, and a steady signal that is not
  tracked yet has a clock that began in time.

Below it are two facts about the algorithms. `SelectRootFacts`: the recursive choice among
the roots ends with a stable one whenever there is one. A recursive function is all it takes,
and no induction theorem: a smallest number of roots with a bad choice would have a good one
just before it; this is why the urban epoch never fails. `StepOutcome` and
`UpdateOutcome`: an update of the tracker ends in one of six ways (gone, waits, acquires, enters, loses, keeps),
each with its reason and its power, from which every property of a lock follows. Proving
`SteadySignalIsTracked` tightened it: its bound is one epoch beyond the delays and the
persistence, for the epoch in which the acquisition clock starts.
`UrbanImplementsSignalLocks` is the refinement of SignalLocks by this receiver, from the
same outcomes: a signal that enters the lock is given the present as its start, which is
not before the planned one (`Enters`).

**BatchGenerationProofs.** `ManifestsAreTrue` (`CompleteEntriesHold`) and
`NoOverwriteLosesNothing` (`NoOverwriteKeepsFiles`), for any scenarios, counts and number of
invocations interrupted anywhere. `IInv` is `CompleteEntriesHold` together with `TypeInv` and

- `OrderInv`: whose invocation each file is of, and that a plan names no run twice
  (`PlannedOnce`, from the division of a run's number by the count);
- `BeforeInv`: before its first manifest an invocation has started nothing, and what it
  has passed over is not complete in the old manifest, unless it has cleared a directory;
- `ConfigInv`: the configurations written so far are there with their hashes;
- `RunInv`: while runs are made, the manifest is the plan, complete up to the current run;
- `FreshInv`: past its check, an invocation without `--overwrite` has found nothing.

`BeforeInv` is the part that is not obvious: between clearing the first directory and
writing the new manifest, the old manifest still calls runs complete that are gone. That is
the one thing `CompleteEntriesHold` excepts, and the invariant shows that it is the only one.

**ExtendedValidationProofs.** `ValidationTypes` (`TypeOK`), `ManifestTellsTheRun`
(`ManifestMeansComplete`) and `PassMeansCaptured` (`PassedRunIsCaptured`), for any
timeline, any pipes and any size of a pipe or a buffer. `IInv` is a conjunction in three
groups. About the simulator's process:

- `RunTypes`, `SetupInv`: which operations are left in which phase, and what is already
  open or created in it;
- `EpochsInv`: conservation; of every stream the rows delivered, the rows in the buffer
  and the rows of the operations left in this epoch add up to the rows of the timeline so far;
- `FinishInv`: a stream is flushed before it is closed, a flushed stream has an empty
  buffer, and the manifest is the last operation. This is why a close that fails in
  "finish" can lose no rows;
- `CleanupInv`, `ExitInv`, `ManifestInv`: what an error path and an exit code say about
  the files, and that a manifest is there only when every stream is complete.

`PipeInv` ties the process to its readers: a reader that ended without an error took
everything that was delivered, from a stream that was closed. `LeftInv` and `HarnessInv`
follow the harness: whom it has started, joined, recorded and checked. The step that is
not obvious is that a capture may still be read between the hash and the check
of it: the invariant has to say of a *joined* capture that its reader has ended, and only
then that what was recorded is what was checked. The sums over a timeline need `SumUnfolds` and `RowsInTail`,
proved by a least counterexample on recursive functions.

**AlgorithmProofs.** `AdditionIsExact`, `DifferencesAreExact` and `ClockHolds` state
the conjuncts of `TimeArithmeticIsExact` (`AddIsExact`, `DifferenceIsExact`,
`ClockIsExact`) for all times, offsets and intervals, any length of a week and any
width of the integers that holds two weeks, the program's 604,800 s in 64 bits
included. They rest on `Truncation` (what C++ division gives, by the sign of the
dividend), `WrapInRange` (no intermediate sum leaves the integers) and
`DivisionIsUnique` (a number of nanoseconds is one time or none). That an addition is not
refused when its sum fits needs that the remainder has the sign of the weeks added first.

`OracleIsExact` is `ExpectationHolds`, what `ExpectationIsExact` checks, for every accepted
scenario, every sampling step its cycle is aligned with and every number of epochs. On the
grid of the steps (`CycleOnGrid`) a cycle is `p` steps, the first `a` of them on; one more
step adds a boundary exactly when it is at a multiple of the cycle (`NextBoundary`,
`BoundaryPlaces`), which is exactly when the engine turns on or off (`NextOfCycle`). So the
closed forms, as a function of the length of the run, satisfy the recursion that steps the
engine (`FirstEpoch`, `NextEpoch`), and a least epoch where they differ cannot exist. The
length of a run is a whole number of steps, as the harness takes whole seconds and an
integer rate.

`FragmentsAreWhole` and `PlansAreEarliest` are the two halves of `MessagesAreWhole`. The
first holds for any non-empty set of required fragments and any sequence of fragments:
`CollectorInv` says that what the collector holds are the fragments since the last change of
issue, all of the issue it remembers (`IngestKeeps`, then a least counterexample along
`CollectorExists`). The second holds for every signal, variant and time, where the run tries
the times around the end of one week: the cycle divides the week and the slot is less than
the cycle, so the next slot is the only one that begins within a cycle (`NextSlot`) and no
earlier one is whole (`CompletionIsEarliest`). That a layout satisfies the two conditions is
proved of each of the fourteen (`LayoutsAreWellLaid`, `BeidouD2IsWellLaid`); a layout whose
cycle did not divide the week would break it at the first week's end.

**SolutionSelectionProofs.** `BestIsSelected` (`SelectionIsTheBest`) and `SolutionsAreEarned`
(`SolutionRestsOnTheBest`) are what `SolutionIsEarned` checks on three satellites, for any
number and order of measurements, any priorities, any room in the solver and any answer of
RTKLIB. `SelectInv`, over the measurements considered so far: the selection holds one
measurement per satellite served, the best and of equals the first, and its length is the
smaller of the room and the number of satellites with a usable measurement. The length is
what makes it inductive: a satellite that found no room is never served later, even when
its better signal comes. `SortInv` is that of the insertion sort: the same measurements, in
the strict order of satellites. Both are proved along recursive functions by a least
counterexample.

**Model-checked only.** `StrongSignalLocks` and `HarnessReports`, as liveness under
fairness is beyond the prover. Of the reference checks, the
C/N0 model and its builder, the configuration loader, the transient validator and the range
log: they are written with folds over sequences and `RECURSIVE` operators, about which the
prover has no induction.

## 5. Plan

The model is as broad as planned, and of its safety properties those with a state are
proved. What is left to prove:

1. The composition of ReceiverTracking with the carrier runtime, as an abstract
   specification of what one epoch makes of the carrier of a signal.
2. The pass of the transient validator, with its folds written as recursive functions.

**Not modelled.** The real-valued physics and estimation (urban paths, diffraction,
received power, correlation, atmosphere, noise, orbits, coordinates): functions of
floating-point numbers without state, of which no finite domain says anything useful;
the models take their results as inputs. The random number generator: every sample is a
choice. The conversion of ephemeris, ionosphere and solution records to text and the
Galileo HAS product files: field-by-field formatting and parsing. RTKLIB and cJSON are
vendored and external. The residual validator averages differences of two files. The
tools' metadata, hashes and reports are left out. The E6 branch of an epoch depends on
the HAS products only and is left out with them.

## 6. Running it

`tlc -config X.cfg M` for each run of `PROJECT.json`, in this directory;
`tlapm M.tla` for each proof module M (`CarrierTrackingProofs`, `ReceiverNavigationProofs`,
`ReceiverTrackingProofs`, `UrbanTrackingProofs`, `BatchGenerationProofs`,
`ExtendedValidationProofs`, `SolutionSelectionProofs`, `AlgorithmProofs`). The longest runs
are `receiver_tracking`, `urban_tracking` and `reference_checks` (about two minutes each).

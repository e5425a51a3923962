-------------------------- MODULE ExtendedValidation --------------------------
(***************************************************************************)
(* run_extended.py: the harness that runs the simulator with its large     *)
(* outputs on named pipes, captures them with one thread each, and decides *)
(* whether the run passed.                                                 *)
(*                                                                         *)
(* Three kinds of actors interleave: the simulator (SimulatorRun), the     *)
(* capture threads, and the main thread.  A captured stream is its number  *)
(* of rows; hashes, sizes and the position counts of the manifest are left *)
(* out.                                                                    *)
(***************************************************************************)
EXTENDS SimulatorRun

FIFO_NAMES == {"log", "event", "observation", "solution"}

(* Smaller instances leave out the largest streams, never the events,      *)
(* which the harness counts.                                               *)
ASSUME HarnessAssumption == Fifos \subseteq FIFO_NAMES /\ "event" \in Fifos

VARIABLES
  harness,  (* where run_once is                                            *)
  left,     (* captures this phase has not looked at yet                    *)
  failed,   (* captures that ended with an exception                        *)
  late,     (* captures whose join returned before they ended               *)
  recorded, (* rows behind the recorded hash of each capture                *)
  checking, (* the capture whose hash was just recorded                     *)
  errors,   (* capture_errors                                               *)
  peak,     (* a resident size above zero was sampled                       *)
  verdict   (* what the case reported                                       *)

report == <<late, recorded, checking, errors, peak, verdict>>
harnessVars == <<harness, left, failed, report>>
vars == <<runVars, harnessVars>>

HarnessStates == {"prepare", "launch", "poll", "unblock", "join", "collect", "reported"}

Init ==
  /\ RunInit
  /\ harness = "prepare" /\ left = << >> /\ failed = {} /\ late = {}
  /\ recorded = [f \in FIFO_NAMES |-> 0] /\ checking = "none" /\ errors = {}
  /\ peak = FALSE /\ verdict = "none"

-----------------------------------------------------------------------------
(* The capture threads: Capture._run.                                      *)
CaptureOpens(f) ==
  /\ reader[f] = "starting"
  /\ reader' = [reader EXCEPT ![f] = "opening"]
  /\ UNCHANGED <<phase, todo, epoch, ok, exitCode, powered, fileVars, captured, harnessVars>>

CaptureReads(f) ==
  /\ reader[f] = "reading" /\ captured[f] < delivered[f]
  /\ captured' = [captured EXCEPT ![f] = @ + 1]
  /\ UNCHANGED <<phase, todo, epoch, ok, exitCode, powered, fileVars, reader, harnessVars>>

(* End of file: nothing left, and no writer.                               *)
CaptureEnds(f) ==
  /\ reader[f] = "reading" /\ captured[f] = delivered[f] /\ ~stream[f].open
  /\ reader' = [reader EXCEPT ![f] = "done"]
  /\ UNCHANGED <<phase, todo, epoch, ok, exitCode, powered, fileVars, captured, harnessVars>>

(* An exception while reading is kept, and closes the pipe.                *)
CaptureFails(f) ==
  /\ reader[f] = "reading" /\ captured[f] < delivered[f]
  /\ reader' = [reader EXCEPT ![f] = "done"]
  /\ failed' = failed \cup {f}
  /\ UNCHANGED <<phase, todo, epoch, ok, exitCode, powered, fileVars, captured>>
  /\ UNCHANGED <<harness, left, report>>

-----------------------------------------------------------------------------
(* The main thread: run_once, then validate.                               *)
Alive(f) == reader[f] # "done"

(* Each pass looks at the captures in the order of FIFO_NAMES.             *)
FifoOrder ==
  LET Used(f) == IF f \in Fifos THEN <<f>> ELSE << >>
  IN  Used("log") \o Used("event") \o Used("observation") \o Used("solution")

HarnessGoes(from, to) == harness = from /\ harness' = to

(* A fresh directory with its pipes, and a thread on each.                 *)
Prepare ==
  /\ HarnessGoes("prepare", "launch")
  /\ reader' = [f \in Streams |-> IF f \in Fifos THEN "starting" ELSE "none"]
  /\ UNCHANGED <<phase, todo, epoch, ok, exitCode, powered, fileVars, captured>>
  /\ UNCHANGED <<left, failed, report>>

Launch ==
  /\ HarnessGoes("launch", "poll")
  /\ phase' = "load"
  /\ UNCHANGED <<todo, epoch, ok, exitCode, powered, fileVars, pipeVars>>
  /\ UNCHANGED <<left, failed, report>>

(* The process may end between the poll and the look at its size.          *)
Poll ==
  /\ harness = "poll" /\ phase # "exited"
  /\ peak' = TRUE
  /\ UNCHANGED <<runVars, harness, left, failed, late, recorded, checking, errors, verdict>>

Wait ==
  /\ harness = "poll" /\ phase = "exited"
  /\ harness' = "unblock" /\ left' = FifoOrder
  /\ UNCHANGED <<runVars, failed, report>>

(* A pipe the simulator never opened is opened for its reader's sake; that *)
(* fails when the reader has not come to its own open yet.                 *)
Unblock ==
  /\ harness = "unblock"
  /\ \/ /\ left # << >>
        /\ left' = Tail(left)
        /\ reader' = [reader EXCEPT ![left[1]] = IF @ = "opening" THEN "reading" ELSE @]
        /\ UNCHANGED harness
     \/ /\ left = << >>
        /\ harness' = "join" /\ left' = FifoOrder
        /\ UNCHANGED reader
  /\ UNCHANGED <<phase, todo, epoch, ok, exitCode, powered, fileVars, captured>>
  /\ UNCHANGED <<failed, report>>

(* thread.join(timeout=10): returns when the thread has ended, or late.    *)
JoinReturnsMutant(f) == ~Alive(f)
JoinReturns(f) == TRUE

Join ==
  /\ harness = "join"
  /\ \/ /\ left # << >> /\ JoinReturns(left[1])
        /\ left' = Tail(left)
        /\ late' = IF Alive(left[1]) THEN late \cup {left[1]} ELSE late
        /\ UNCHANGED harness
     \/ /\ left = << >>
        /\ harness' = "collect" /\ left' = FifoOrder
        /\ UNCHANGED late
  /\ UNCHANGED <<runVars, failed, recorded, checking, errors, peak, verdict>>

(* For each capture, first its hash and size, then whether it is alive and *)
(* how it ended: a late capture may still be reading in between.           *)
Record ==
  /\ harness = "collect" /\ checking = "none" /\ left # << >>
  /\ recorded' = [recorded EXCEPT ![left[1]] = captured[left[1]]]
  /\ checking' = left[1]
  /\ UNCHANGED <<runVars, harness, left, failed, late, errors, peak, verdict>>

ErrorsOfMutant(f) == IF Alive(f) THEN {f} ELSE {}
ErrorsOf(f) == IF Alive(f) \/ f \in failed THEN {f} ELSE {}

Check ==
  /\ harness = "collect" /\ checking # "none"
  /\ errors' = errors \cup ErrorsOf(checking)
  /\ left' = Tail(left)
  /\ checking' = "none"
  /\ UNCHANGED <<runVars, harness, failed, late, recorded, peak, verdict>>

(* What validate expects is computed from the configuration.               *)
ExpectedEvents ==
  SumTo([k \in DOMAIN Timeline |-> Timeline[k].events], Len(Timeline))
ExpectedPowered ==
  SumTo([k \in DOMAIN Timeline |-> IF Timeline[k].powered THEN 1 ELSE 0], Len(Timeline))

CountedEvents == IF captured["event"] = 0 THEN 0 ELSE captured["event"] - HeaderRows("event")

Valid ==
  /\ text["manifest"] = "whole" /\ powered = ExpectedPowered
  /\ CountedEvents = ExpectedEvents
  /\ exitCode = "0"
  /\ peak
  /\ errors = {}

(* A manifest cut short is not JSON and ends the case with an exception.   *)
Report ==
  /\ harness = "collect" /\ checking = "none" /\ left = << >>
  /\ harness' = "reported"
  /\ verdict' = CASE text["manifest"] = "partial" -> "error"
                  [] text["manifest"] # "partial" /\ Valid  -> "passed"
                  [] text["manifest"] # "partial" /\ ~Valid -> "failed"
  /\ UNCHANGED <<runVars, left, failed, late, recorded, checking, errors, peak>>

-----------------------------------------------------------------------------
SimulatorStep == RunStep /\ UNCHANGED harnessVars

CaptureStep(f) == CaptureOpens(f) \/ CaptureReads(f) \/ CaptureEnds(f) \/ CaptureFails(f)

HarnessStep ==
  \/ Prepare \/ Launch \/ Poll \/ Wait \/ Unblock \/ Join \/ Record \/ Check \/ Report

Next ==
  \/ SimulatorStep
  \/ \E f \in Fifos : CaptureStep(f)
  \/ HarnessStep

(* Processes and threads that can run do run.  Polling is not progress.    *)
Fairness ==
  /\ WF_vars(SimulatorStep)
  /\ \A f \in FIFO_NAMES : WF_vars(CaptureStep(f))
  /\ WF_vars(HarnessStep /\ ~Poll)

Spec == Init /\ [][Next]_vars /\ Fairness

-----------------------------------------------------------------------------
(* Properties.                                                             *)

\* The type of every variable: in particular a reader never gets ahead of
\* its writer, and no pipe or stream buffer holds more than it can.
TypeOK ==
  /\ phase \in Phases /\ harness \in HarnessStates
  /\ epoch \in 0..Len(Timeline) /\ powered \in 0..epoch
  /\ ok \in BOOLEAN /\ peak \in BOOLEAN
  /\ exitCode \in {"none", "0", "1", "killed"}
  /\ verdict \in {"none", "passed", "failed", "error"}
  /\ stream \in [Streams -> [open : BOOLEAN, bad : BOOLEAN, buffered : 0..BufferRows]]
  /\ text \in [TextFiles -> {"absent", "partial", "whole"}]
  /\ reader \in [Streams -> ReaderStates]
  /\ \A f \in Streams :
       /\ delivered[f] \in 0..RowsOf(f)
       /\ captured[f] \in 0..delivered[f]
       /\ f \in Fifos => delivered[f] - captured[f] <= PipeRows
  /\ left \in Seq(Fifos)
  /\ \E k \in 1..(Len(FifoOrder) + 1) : left = SubSeq(FifoOrder, k, Len(FifoOrder))
  /\ {failed, late, errors} \subseteq SUBSET Fifos
  /\ checking \in Fifos \cup {"none"}
  /\ \A f \in Fifos : recorded[f] \in 0..captured[f]

\* In a fresh directory a complete manifest tells a complete run: there is
\* one exactly when the run returned success, and then every stream holds
\* every row of every epoch, whatever failed to be written or computed.
ManifestMeansComplete ==
  /\ exitCode # "none" => (exitCode = "0" <=> text["manifest"] = "whole")
  /\ text["manifest"] = "whole" =>
       text["scenario"] = "whole" /\ \A f \in Streams : delivered[f] = RowsOf(f)

\* A case that passed captured all that a complete run writes, on every pipe
\* whose capture ended in time: neither an early end of the simulator, a
\* failed capture nor a pipe nobody opened is taken for a success.
PassedRunIsCaptured ==
  verdict = "passed" =>
    /\ exitCode = "0"
    /\ \A f \in Fifos : captured[f] = RowsOf(f)
    /\ \A f \in Fifos \ late : recorded[f] = RowsOf(f)

\* Whatever becomes of the simulator and the captures, the harness reports:
\* it waits neither for a pipe that is never opened nor for a lost capture.
HarnessReports == <>(verdict # "none")
===============================================================================

----------------------------- MODULE SimulatorRun -----------------------------
(***************************************************************************)
(* One run of the simulator as a process that writes files: setup, the     *)
(* rows of every epoch, finalisation, and the cleanup every failure takes. *)
(*                                                                         *)
(* A run is a list of operations on its output streams.  Rows are counted, *)
(* not spelled out; a stream buffers rows and pushes them to its file one  *)
(* by one, and a push may fail.  A stream of Fifos is a named pipe: opening*)
(* it waits for its reader, a full pipe blocks, and a push without a       *)
(* reader kills the process.  What the rows of an epoch are is decided by  *)
(* the epoch loop (ReceiverTracking, UrbanTracking); here a Timeline says  *)
(* how many there are.                                                     *)
(***************************************************************************)
EXTENDS Integers, Sequences, SequencesExt

CONSTANTS
  Timeline,      (* the epochs, and how much each of them writes            *)
  Multipath,     (* config.multipath_enabled                                *)
  Fifos,         (* the streams whose files are named pipes                 *)
  BufferRows,    (* rows an ofstream holds before it writes                 *)
  PipeRows       (* rows a pipe holds                                       *)

Streams == {"log", "event", "observation", "solution", "carrier", "signal", "path"}
TextFiles == {"scenario", "manifest"}

ASSUME RunAssumption ==
  /\ Timeline \in Seq([events : Nat, powered : BOOLEAN, startup : Nat, searching : Nat,
                        tracked : Nat, nav : Nat])
  /\ Multipath \in BOOLEAN
  /\ Fifos \subseteq Streams
  /\ {BufferRows, PipeRows} \subseteq Nat \ {0}

VARIABLES
  phase,      (* where run_simulator is                                     *)
  todo,       (* the operations left in this phase                          *)
  epoch,      (* epochs begun                                               *)
  ok,         (* run_simulator's ok                                         *)
  exitCode,   (* what the process returned                                  *)
  powered,    (* powered_epochs of the summary                              *)
  stream,     (* the ofstreams: [open, bad, buffered]                       *)
  delivered,  (* rows that reached each stream's file                       *)
  text,       (* scenario.json and run_manifest.json                        *)
  reader,     (* the reading end of each named pipe                         *)
  captured    (* rows its reader took out of each pipe                      *)

pipeVars == <<reader, captured>>
fileVars == <<stream, delivered, text>>
runVars  == <<phase, todo, epoch, ok, exitCode, powered, fileVars, pipeVars>>

Phases == {"idle", "load", "create", "epochs", "finish", "cleanup", "exited"}
ReaderStates == {"none", "starting", "opening", "reading", "done"}

Op(kind, file) == [kind |-> kind, file |-> file]
Rows(n, file) == [k \in 1..n |-> Op("row", file)]
Repeated(block, n) == [k \in 1..(n * Len(block)) |-> block[((k - 1) % Len(block)) + 1]]

-----------------------------------------------------------------------------
(* The streams in the order they are opened: receiver log, truth writer    *)
(* (with the complete scenario.json), carrier writer, urban writer.        *)
CreateOps ==
  <<Op("open", "log"), Op("open", "event"), Op("open", "observation"), Op("open", "solution"),
    Op("text", "scenario"), Op("open", "carrier"), Op("open", "signal"), Op("open", "path")>>

(* CSV streams begin with a header. *)
HeaderRows(f) == IF f = "log" THEN 0 ELSE 1

(* update_tracking_and_measurements: what is written of a signal without a *)
(* lock, and of one that is tracked.  Only urban runs write urban truth:   *)
(* the signal, and its paths with or without a lock (one row stands for    *)
(* them).                                                                  *)
UrbanOps == IF Multipath THEN <<Op("row", "signal"), Op("row", "path")>> ELSE << >>
SearchingOps == <<Op("row", "carrier")>> \o UrbanOps
TrackedOps == UrbanOps \o <<Op("row", "observation"), Op("row", "carrier")>>

LogOps == Rows(4, "log")  (* RANGE, PSRPOS, PSRVEL and BESTPOS *)

EpochOps(e) ==
  Rows(e.events, "event")
  \o (IF e.powered
        THEN Rows(e.startup, "log")
             \o Repeated(SearchingOps, e.searching) \o Repeated(TrackedOps, e.tracked)
             \o Rows(e.nav, "log") \o <<Op("row", "solution")>> \o LogOps
        ELSE << >>)

(* The log, then carrier, urban and truth writers; run_manifest.json last. *)
FinishOps ==
  <<Op("flush", "log"), Op("close", "log"), Op("flush", "carrier"), Op("close", "carrier"),
    Op("flush", "signal"), Op("flush", "path"), Op("close", "signal"), Op("close", "path"),
    Op("flush", "event"), Op("flush", "observation"), Op("flush", "solution"),
    Op("close", "event"), Op("close", "observation"), Op("close", "solution"),
    Op("text", "manifest")>>

(* Destroying a writer closes its streams, which still pushes their rows.  *)
(* After the loop the log is closed first, before it last.                 *)
CleanupOps ==
  LET Closing(f) == IF stream[f].open THEN <<Op("close", f)>> ELSE << >>
      writers == Closing("path") \o Closing("signal") \o Closing("carrier")
                 \o Closing("solution") \o Closing("observation") \o Closing("event")
  IN  IF phase = "create" THEN writers \o Closing("log") ELSE Closing("log") \o writers

(* The first n of a sequence of amounts. *)
SumTo(amounts, n) ==
  LET sum[k \in 0..Len(amounts)] == IF k = 0 THEN 0 ELSE sum[k - 1] + amounts[k]
  IN  sum[n]

(* What a list of operations, the first n epochs, and a complete run write *)
(* to a stream.                                                            *)
RowsIn(ops, f) == Cardinality({k \in DOMAIN ops : ops[k] = Op("row", f)})
EpochRows(f) == [k \in DOMAIN Timeline |-> RowsIn(EpochOps(Timeline[k]), f)]
RowsTo(f, n) == HeaderRows(f) + SumTo(EpochRows(f), n)
RowsOf(f) == RowsTo(f, Len(Timeline))

-----------------------------------------------------------------------------
Closed == [open |-> FALSE, bad |-> FALSE, buffered |-> 0]

RunInit ==
  /\ phase = "idle" /\ todo = << >> /\ epoch = 0 /\ ok = TRUE /\ exitCode = "none"
  /\ powered = 0
  /\ stream = [f \in Streams |-> Closed]
  /\ delivered = [f \in Streams |-> 0]
  /\ text = [f \in TextFiles |-> "absent"]
  /\ reader = [f \in Streams |-> "none"]
  /\ captured = [f \in Streams |-> 0]

Head1 == todo[1]
Doing(kind) == todo # << >> /\ Head1.kind = kind
Done == todo' = Tail(todo)

(* A failed operation ends its phase.  A cleanup that fails goes on. *)
Fails ==
  /\ ok' = FALSE
  /\ phase' = "cleanup"
  /\ todo' = CleanupOps

(* Everything before the log is opened: arguments, configuration, HAS      *)
(* products, navigation, truth schedule, C/N0 model and scenario engine.   *)
Load ==
  /\ phase = "load"
  /\ \/ /\ phase' = "create" /\ todo' = CreateOps /\ UNCHANGED ok
     \/ /\ phase' = "cleanup" /\ todo' = << >> /\ ok' = FALSE
  /\ UNCHANGED <<epoch, exitCode, powered, fileVars, pipeVars>>

(* A new file is truncated; a pipe is opened together with its reader.     *)
OpenStream ==
  /\ Doing("open")
  /\ LET f == Head1.file IN
     \/ /\ f \in Fifos => reader[f] = "opening"
        /\ stream' = [stream EXCEPT ![f] = [open |-> TRUE, bad |-> FALSE, buffered |-> HeaderRows(f)]]
        /\ delivered' = [delivered EXCEPT ![f] = 0]
        /\ reader' = [reader EXCEPT ![f] = IF f \in Fifos THEN "reading" ELSE @]
        /\ Done
        /\ UNCHANGED <<phase, ok>>
     \/ /\ f \notin Fifos
        /\ Fails
        /\ UNCHANGED <<stream, delivered, reader>>
  /\ UNCHANGED <<epoch, exitCode, powered, text, captured>>

(* write_text_file: opened, written and flushed at once. *)
WriteText ==
  /\ Doing("text")
  /\ \/ text' = [text EXCEPT ![Head1.file] = "whole"] /\ Done /\ UNCHANGED <<phase, ok>>
     \/ text' = [text EXCEPT ![Head1.file] = "partial"] /\ Fails
     \/ Fails /\ UNCHANGED text
  /\ UNCHANGED <<epoch, exitCode, powered, stream, delivered, pipeVars>>

WriteRow ==
  /\ Doing("row")
  /\ LET f == Head1.file IN
     \/ /\ ~stream[f].bad /\ stream[f].buffered < BufferRows
        /\ stream' = [stream EXCEPT ![f].buffered = @ + 1]
        /\ Done
        /\ UNCHANGED <<phase, ok>>
     \/ /\ stream[f].bad
        /\ Fails
        /\ UNCHANGED stream
  /\ UNCHANGED <<epoch, exitCode, powered, delivered, text, pipeVars>>

(* An operation that needs room or an empty buffer pushes the oldest row.  *)
MustPush(f) ==
  /\ todo # << >> /\ Head1.file = f /\ f \in Streams /\ stream[f].buffered > 0
  /\ \/ Head1.kind = "row" /\ ~stream[f].bad /\ stream[f].buffered >= BufferRows
     \/ Head1.kind = "flush" /\ ~stream[f].bad
     \/ Head1.kind = "close"

PipeHasRoomMutant(f) == TRUE
PipeHasRoom(f) == delivered[f] - captured[f] < PipeRows

Broken(f) == f \in Fifos /\ reader[f] = "done"

Push(f) ==
  /\ MustPush(f)
  /\ ~Broken(f)
  /\ f \in Fifos => PipeHasRoom(f)
  /\ stream' = [stream EXCEPT ![f].buffered = @ - 1]
  /\ delivered' = [delivered EXCEPT ![f] = @ + 1]
  /\ UNCHANGED <<phase, todo, epoch, ok, exitCode, powered, text, pipeVars>>

(* The disk refuses a row: the stream stays bad, and a close gives up.     *)
PushFails(f) ==
  /\ MustPush(f)
  /\ f \notin Fifos
  /\ stream' = [stream EXCEPT ![f] = [open |-> TRUE, bad |-> TRUE,
                                      buffered |-> IF Head1.kind = "close" THEN 0 ELSE @.buffered]]
  /\ UNCHANGED <<phase, todo, epoch, ok, exitCode, powered, delivered, text, pipeVars>>

(* SIGPIPE: nothing buffered is written any more. *)
Killed(f) ==
  /\ MustPush(f)
  /\ Broken(f)
  /\ phase' = "exited" /\ exitCode' = "killed" /\ todo' = << >>
  /\ stream' = [g \in Streams |-> Closed]
  /\ UNCHANGED <<epoch, ok, powered, delivered, text, pipeVars>>

(* The result of a flush is checked, except that of the log of a run that  *)
(* has failed already; the result of a close is not.                       *)
FlushedMutant == Done /\ UNCHANGED <<phase, ok>>
Flushed == IF stream[Head1.file].bad THEN Fails ELSE Done /\ UNCHANGED <<phase, ok>>

Flush ==
  /\ Doing("flush")
  /\ stream[Head1.file].bad \/ stream[Head1.file].buffered = 0
  /\ Flushed
  /\ UNCHANGED <<epoch, exitCode, powered, fileVars, pipeVars>>

Close ==
  /\ Doing("close")
  /\ stream[Head1.file].buffered = 0
  /\ stream' = [stream EXCEPT ![Head1.file] = Closed]
  /\ Done
  /\ UNCHANGED <<phase, epoch, ok, exitCode, powered, delivered, text, pipeVars>>

(* Any computation of an epoch may return an error, between any two rows.  *)
EpochFails ==
  /\ phase = "epochs" /\ todo # << >>
  /\ Fails
  /\ UNCHANGED <<epoch, exitCode, powered, fileVars, pipeVars>>

NextEpoch ==
  /\ phase = "epochs" /\ todo = << >>
  /\ IF epoch < Len(Timeline)
       THEN /\ epoch' = epoch + 1
            /\ todo' = EpochOps(Timeline[epoch + 1])
            /\ powered' = powered + (IF Timeline[epoch + 1].powered THEN 1 ELSE 0)
            /\ UNCHANGED phase
       ELSE /\ phase' = "finish" /\ todo' = FinishOps
            /\ UNCHANGED <<epoch, powered>>
  /\ UNCHANGED <<ok, exitCode, fileVars, pipeVars>>

NextPhase ==
  /\ todo = << >>
  /\ \/ phase = "create"  /\ phase' = "epochs" /\ UNCHANGED exitCode
     \/ phase = "finish"  /\ phase' = "cleanup" /\ UNCHANGED exitCode
     \/ phase = "cleanup" /\ phase' = "exited" /\ exitCode' = (IF ok THEN "0" ELSE "1")
  /\ UNCHANGED <<todo, epoch, ok, powered, fileVars, pipeVars>>

RunStep ==
  \/ Load \/ OpenStream \/ WriteText \/ WriteRow \/ Flush \/ Close
  \/ EpochFails \/ NextEpoch \/ NextPhase
  \/ \E f \in Streams : Push(f) \/ PushFails(f) \/ Killed(f)
===============================================================================

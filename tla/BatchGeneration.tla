---------------------------- MODULE BatchGeneration ----------------------------
(***************************************************************************)
(* generate_batch.py: one batch of runs per directory, described by its    *)
(* batch_manifest.json.                                                    *)
(*                                                                         *)
(* The tool is invoked again and again on the same directory, with other   *)
(* options, with and without --overwrite, and may end at any step: by a    *)
(* BatchError, which it handles, or by anything else (a signal, a full     *)
(* disk), which it does not.  The bytes of a file are the version of the   *)
(* inputs they were made from; a hash is the bytes it was taken of.        *)
(***************************************************************************)
EXTENDS Integers, Sequences, SequencesExt

CONSTANTS
  SCENARIOS,       (* the scenarios of a batch, in order                    *)
  Counts,          (* --count                                               *)
  Versions,        (* the inputs: simulator, base config, NAV, C/N0 model   *)
  MaxInvocations   (* bound on the invocations                              *)

ASSUME BatchAssumption ==
  /\ SCENARIOS \in Seq(STRING) /\ IsInjective(SCENARIOS)
  /\ Counts \subseteq Nat \ {0}
  /\ Versions \subseteq Nat \ {0}
  /\ MaxInvocations \in Nat

(* Bytes that are not there, and those of a run cut short.                 *)
Absent == 0
Partial == -1

VARIABLES
  pc,          (* where generate_batch is                                   *)
  args,        (* the options of this invocation                            *)
  invocation,  (* invocations so far                                        *)
  current,     (* position in the plan                                      *)
  plan,        (* the manifest in memory                                    *)
  manifest,    (* batch_manifest.json                                       *)
  dir,         (* run directories: [exists, by (who made it), config, log]   *)
  cleared      (* the last invocation that removed a run directory          *)

vars == <<pc, args, invocation, current, plan, manifest, dir, cleared>>

RunNames == {<<s, r>> : s \in ToSet(SCENARIOS), r \in UNION {1..n : n \in Counts}}
Args == [overwrite : BOOLEAN, plan_only : BOOLEAN, count : Counts, version : Versions]

NoDir == [exists |-> FALSE, by |-> 0, config |-> Absent, log |-> Absent]

(* _build_plan: the runs scenario by scenario, none started.               *)
RunName(k, count) == <<SCENARIOS[((k - 1) \div count) + 1], ((k - 1) % count) + 1>>

PlannedRun(k, count) ==
  [name |-> RunName(k, count), status |-> "planned",
   config_sha256 |-> Absent, output_sha256 |-> Absent]

BuildPlan(a) ==
  [status |-> "planned", by |-> invocation + 1,
   runs |-> [k \in 1..(Len(SCENARIOS) * a.count) |-> PlannedRun(k, a.count)]]

NoManifest == [status |-> "absent", by |-> 0, runs |-> << >>]

Init ==
  /\ pc = "idle" /\ invocation = 0 /\ current = 0 /\ cleared = 0
  /\ args \in {a \in Args : ~a.overwrite /\ ~a.plan_only}
  /\ plan = NoManifest /\ manifest = NoManifest
  /\ dir = [n \in RunNames |-> NoDir]

-----------------------------------------------------------------------------
Name == plan.runs[current].name
Planned == {plan.runs[k].name : k \in DOMAIN plan.runs}

(* The inputs are checked and the plan is built before anything is touched. *)
Invoke ==
  /\ pc = "idle" /\ invocation < MaxInvocations
  /\ \E a \in Args : args' = a /\ plan' = BuildPlan(a)
  /\ invocation' = invocation + 1
  /\ pc' = "prepare" /\ current' = 1
  /\ UNCHANGED <<manifest, dir, cleared>>

(* _prepare_output_paths.                                                  *)
ConflictsMutant == manifest # NoManifest
Conflicts == manifest # NoManifest \/ \E n \in Planned : dir[n].exists

Refuse ==
  /\ pc = "prepare" /\ ~args.overwrite /\ Conflicts
  /\ pc' = "idle"
  /\ UNCHANGED <<args, invocation, current, plan, manifest, dir, cleared>>

Prepare ==
  /\ pc = "prepare" /\ (args.overwrite \/ ~Conflicts)
  /\ IF current <= Len(plan.runs)
       THEN /\ dir' = [dir EXCEPT ![Name] = NoDir]
            /\ cleared' = IF dir[Name].exists THEN invocation ELSE cleared
            /\ current' = current + 1
            /\ UNCHANGED pc
       ELSE /\ pc' = "resolve" /\ current' = 1
            /\ UNCHANGED <<dir, cleared>>
  /\ UNCHANGED <<args, invocation, plan, manifest>>

(* Input hashes, the simulator and its version: the first thing that can   *)
(* fail after the old directories are gone, and outside the handler.       *)
Resolve ==
  /\ pc = "resolve"
  /\ pc' \in {"configs", "idle"}
  /\ UNCHANGED <<args, invocation, current, plan, manifest, dir, cleared>>

(* _write_effective_configs, then the first manifest. *)
WriteConfig ==
  /\ pc = "configs" /\ current <= Len(plan.runs)
  /\ dir' = [dir EXCEPT ![Name].exists = TRUE, ![Name].config = args.version,
                        ![Name].by = IF @ = 0 THEN invocation ELSE @]
  /\ plan' = [plan EXCEPT !.runs[current].config_sha256 = args.version]
  /\ current' = current + 1
  /\ UNCHANGED <<pc, args, invocation, manifest, cleared>>

WriteManifest ==
  /\ pc = "configs" /\ current > Len(plan.runs)
  /\ manifest' = plan
  /\ pc' = IF args.plan_only THEN "idle" ELSE "run"
  /\ current' = 1
  /\ UNCHANGED <<args, invocation, plan, dir, cleared>>

(* One run: "running" is recorded first, an old log is removed.            *)
StartRun ==
  /\ pc = "run" /\ current <= Len(plan.runs)
  /\ plan' = [plan EXCEPT !.runs[current].status = "running"]
  /\ manifest' = plan'
  /\ dir' = [dir EXCEPT ![Name].log = Absent]
  /\ pc' = "simulate"
  /\ UNCHANGED <<args, invocation, current, cleared>>

(* The simulator opens its log, and returns success only when it is whole. *)
SimulatorStarts ==
  /\ pc = "simulate" /\ dir[Name].log = Absent
  /\ dir' = [dir EXCEPT ![Name].log = Partial]
  /\ UNCHANGED <<pc, args, invocation, current, plan, manifest, cleared>>

AfterMutant(status) == "record"
After(status) == IF status = 0 THEN "record" ELSE "failed"

SimulatorEnds ==
  /\ pc = "simulate"
  /\ \/ /\ dir[Name].log = Partial
        /\ dir' = [dir EXCEPT ![Name].log = dir[Name].config]
        /\ pc' = After(0)
     \/ /\ pc' = After(1)
        /\ UNCHANGED dir
  /\ UNCHANGED <<args, invocation, current, plan, manifest, cleared>>

RecordRun ==
  /\ pc = "record"
  /\ plan' = [plan EXCEPT !.runs[current].output_sha256 = dir[Name].log,
                          !.runs[current].status = "complete"]
  /\ manifest' = plan'
  /\ pc' = "run" /\ current' = current + 1
  /\ UNCHANGED <<args, invocation, dir, cleared>>

(* except BatchError: the batch and the run that was running have failed.  *)
RecordFailure ==
  /\ pc = "failed"
  /\ plan' = [plan EXCEPT !.status = "failed", !.runs[current].status = "failed"]
  /\ manifest' = plan'
  /\ pc' = "idle"
  /\ UNCHANGED <<args, invocation, current, dir, cleared>>

Finish ==
  /\ pc = "run" /\ current > Len(plan.runs)
  /\ plan' = [plan EXCEPT !.status = "complete"]
  /\ manifest' = plan'
  /\ pc' = "idle"
  /\ UNCHANGED <<args, invocation, current, dir, cleared>>

(* The tool ends without running its handler.  The manifest is replaced    *)
(* atomically, so what is on disk is what was last written.                *)
Crash ==
  /\ pc # "idle"
  /\ pc' = "idle"
  /\ UNCHANGED <<args, invocation, current, plan, manifest, dir, cleared>>

Next ==
  \/ Invoke \/ Refuse \/ Prepare \/ Resolve \/ WriteConfig \/ WriteManifest
  \/ StartRun \/ SimulatorStarts \/ SimulatorEnds \/ RecordRun \/ RecordFailure \/ Finish
  \/ Crash

Spec == Init /\ [][Next]_vars

-----------------------------------------------------------------------------
(* Properties.                                                             *)

(* A run marked complete has the config and the log whose hashes were      *)
(* recorded, and the log is that of a whole run of this config.            *)
Holds(entry) ==
  entry.status = "complete" =>
    LET d == dir[entry.name] IN
      d.exists /\ entry.output_sha256 = d.log /\ entry.config_sha256 = d.config
      /\ d.log = d.config /\ d.log \in Versions

\* As long as no later invocation has cleared run directories, the manifest
\* is true of the directory, wherever the tool was interrupted: every run it
\* marks complete is there, and a complete batch is complete in all its runs.
CompleteEntriesHold ==
  cleared <= manifest.by =>
    \A k \in DOMAIN manifest.runs :
      /\ Holds(manifest.runs[k])
      /\ manifest.status = "complete" => manifest.runs[k].status = "complete"

\* Without --overwrite nothing an earlier invocation left is lost or changed,
\* also when that invocation was interrupted before it wrote a manifest.
NoOverwriteKeepsFiles ==
  [][ ~args.overwrite /\ invocation' = invocation =>
        /\ manifest.by \notin {0, invocation} => manifest' = manifest
        /\ \A n \in RunNames :
             dir[n].by \notin {0, invocation} => dir'[n] = dir[n] ]_vars
===============================================================================

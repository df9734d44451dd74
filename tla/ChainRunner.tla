---------------------------- MODULE ChainRunner ----------------------------
(***************************************************************************)
(* The checkpointed chain runner of the staged executor                    *)
(* (crates/inference/staged/src/chain_runner.rs): one pass over the        *)
(* expanded chain of a Raster.toml.  Stages run one after the other, in    *)
(* manifest order, except that two or more consecutive                     *)
(* prefill_prepare_aux stages run together, as subprocesses, on a bounded  *)
(* pool.  The runner records for every stage the commitment of its output, *)
(* its duration and, when the run verifies a claim, its checkpoint, which  *)
(* it compares with the claimed hash at the same index; the first          *)
(* disagreement ends the run.                                              *)
(*                                                                         *)
(* Stages are numbered 1..NumStages (the code counts from 0); a stage's    *)
(* name, project and files stand behind its number, and NoStage is the     *)
(* code's None.  A stage's commitment is present or absent: what it is     *)
(* made of matters only to its checkpoint hash, StageHash.                 *)
(***************************************************************************)
EXTENDS Integers, Sequences, FiniteSets

CONSTANTS
  NumStages,     (* stages of the expanded chain                              *)
  Chains,        (* the chains a run may be given: see Chain                  *)
  Entries,       (* entry points used: "run", "verify" (hash verification)    *)
  Backends,      (* StagedExecutionBackend: "in_process", "subprocess"        *)
  References,    (* values of --raster-stage (NoStage: option not given)      *)
  Requested,     (* STAGED_INFER_AUX_PARALLELISM; 0: unset, or set to zero    *)
  Available,     (* available_parallelism() of the host                       *)
  Hashes,        (* checkpoint hashes                                         *)
  StageHash,     (* hash of the checkpoint that an honest run of a stage has  *)
  ClaimedLists   (* the claimed hash lists (checkpoints.txt) to verify        *)

Stage == 1 .. NumStages
NoStage == 0

(* A chain after template expansion: which stages are prefill_prepare_aux, *)
(* and the stages each stage's `from` bindings name (NoStage stands for a  *)
(* name that no stage of the chain has).                                   *)
Chain == [aux : SUBSET Stage, producers : [Stage -> SUBSET (Stage \cup {NoStage})]]

ASSUME ChainRunnerAssumption ==
  /\ NumStages \in Nat
  /\ Chains \subseteq Chain
  /\ Entries \subseteq {"run", "verify"}
  /\ Backends \subseteq {"in_process", "subprocess"}
  /\ References \subseteq Stage \cup {NoStage}
  /\ Requested \in Nat
  /\ Available \in Nat \ {0}
  /\ StageHash \in [Stage -> Hashes]
  /\ ClaimedLists \subseteq Seq(Hashes)

(* What a run is asked to do.  The public entry points never combine a     *)
(* Raster reference stage with a hash verifier.                            *)
Mode == [chain : Chains, entry : Entries, backend : Backends,
         reference : References \cup {NoStage}, claimed : ClaimedLists \cup {<<>>}]

IsMode(m) ==
  \/ /\ m.entry = "run"
     /\ m.reference \in References
     /\ m.claimed = <<>>
  \/ /\ m.entry = "verify"
     /\ m.reference = NoStage
     /\ m.claimed \in ClaimedLists

VARIABLES
  mode,        (* the options of this run                                     *)
  phase,       (* where run_inner is                                          *)
  failure,     (* why the run ended in an error                               *)
  next,        (* idx of the loop                                             *)
  cur,         (* the stage run_one_stage is executing                        *)
  waveEnd,     (* end of the aux wave in progress, NoStage outside one        *)
  committed,   (* stages with an entry in output_commitments                  *)
  timed,       (* stages with an entry in execution_times                     *)
  cached,      (* stages with a value in the in-memory output cache           *)
  lastOutput,  (* the stage whose value last_output holds                     *)
  selected,    (* the stage behind selected_stage_dir                         *)
  env,         (* the stage whose OUTPUT_DIR the process environment names    *)
  onDisk,      (* stages whose directory holds a published output             *)
  timesFile,   (* execution-times.json has been written                       *)
  queued, running, finished,  (* the jobs of the wave's worker pool           *)
  poolFailed,  (* a job returned an error                                     *)
  recomputed,  (* the verifier's checkpoints, in the order observed           *)
  divergence   (* the verifier's divergence                                   *)

runVars == <<committed, timed, cached, lastOutput, selected>>
poolVars == <<queued, running, finished, poolFailed>>
verifierVars == <<recomputed, divergence>>
vars == <<mode, phase, failure, next, cur, waveEnd, runVars, env, onDisk,
          timesFile, poolVars, verifierVars>>

-----------------------------------------------------------------------------
Clamp(n, low, high) == IF n < low THEN low ELSE IF n > high THEN high ELSE n

(* aux_parallelism_from: worker threads for this many jobs.                *)
AuxParallelism(jobs) ==
  IF jobs = 0 THEN 0
  ELSE Clamp(IF Requested > 0 THEN Requested ELSE Clamp(Available, 1, 4), 1, jobs)

Reasons == {"checkpoint_hash", "missing_claimed_hash", "missing_recomputed_hash"}
NoDivergence == [index |-> 0, stage |-> NoStage, reason |-> "none"]
Divergence == [index : Nat \ {0}, stage : Stage \cup {NoStage}, reason : Reasons]

Verifying == mode.entry = "verify"
HasDivergence == divergence # NoDivergence

-----------------------------------------------------------------------------
(* Faults.  Each of these is one of the operators below with a plausible   *)
(* mistake in it; none is used by the specification.  Putting a fault in   *)
(* the place of its operator has to break a property.                      *)

OffByOneCompare(claimed, i) ==
  IF i >= Len(claimed)
  THEN [index |-> i, stage |-> i, reason |-> "missing_claimed_hash"]
  ELSE IF claimed[i] # StageHash[i]
  THEN [index |-> i, stage |-> i, reason |-> "checkpoint_hash"]
  ELSE NoDivergence
ClaimNotExhausted == divergence
OnlyKnownNames(i) == NoStage \notin mode.chain.producers[i]
ReferenceToo(s, e) == s .. (e - 1)
OneWorkerShort ==
  Cardinality(running) + 1 < AuxParallelism(Cardinality(queued \cup running \cup finished))
OneWorkerMore ==
  Cardinality(running) <= AuxParallelism(Cardinality(queued \cup running \cup finished))
KeepsOlderValue(i) ==
  IF mode.backend = "in_process" /\ i # mode.reference THEN i ELSE lastOutput
SelectedOutsideWaves(i) == IF i = mode.reference /\ waveEnd = NoStage THEN i ELSE selected
LastResult(i) == i \in finished /\ \A j \in finished : i >= j
AlwaysTimed == TRUE
DivergedBefore == HasDivergence

-----------------------------------------------------------------------------
(* The verifier.                                                           *)

(* What observe_stage concludes from the checkpoint of stage i.            *)
Compare(claimed, i) ==
  IF i > Len(claimed)
  THEN [index |-> i, stage |-> i, reason |-> "missing_claimed_hash"]
  ELSE IF claimed[i] # StageHash[i]
  THEN [index |-> i, stage |-> i, reason |-> "checkpoint_hash"]
  ELSE NoDivergence

(* observe_stage refuses a checkpoint that is not the next one.            *)
InOrder(i) == Verifying /\ ~HasDivergence => i = Len(recomputed) + 1

ObserveCheckpoint(i) ==
  IF Verifying /\ ~HasDivergence /\ InOrder(i)
  THEN /\ recomputed' = Append(recomputed, i)
       /\ divergence' = Compare(mode.claimed, i)
  ELSE UNCHANGED verifierVars

(* finish(): a claim that goes on after the last recomputed checkpoint.    *)
FinalDivergence ==
  LET beyond == Len(recomputed) + 1
  IN  IF Verifying /\ ~HasDivergence /\ beyond <= Len(mode.claimed)
      THEN [index |-> beyond, stage |-> NoStage, reason |-> "missing_recomputed_hash"]
      ELSE divergence

-----------------------------------------------------------------------------
(* Scheduling.                                                             *)

(* aux_wave_range: the aux stages from s up to, not including, e.          *)
IsAuxWave(s, e) ==
  /\ s + 1 < e
  /\ s .. (e - 1) \subseteq mode.chain.aux
  /\ e = NumStages + 1 \/ e \notin mode.chain.aux

(* The stages of a wave that become jobs of its pool.                      *)
JobStages(s, e) == (s .. (e - 1)) \ {mode.reference}

WaveStages == next .. (waveEnd - 1)
WaveJobs == JobStages(next, waveEnd)
WorkerFree == Cardinality(running) < AuxParallelism(Cardinality(WaveJobs))

(* The results of a wave are sorted by index.                              *)
NextResult(i) == i \in finished /\ \A j \in finished : i <= j

(* ensure_stage_inputs_ready and the checks of synthesize_inputs.          *)
InputsReady(i) == mode.chain.producers[i] \subseteq committed

RunsInProcess(i) == mode.backend = "in_process" /\ i # mode.reference

(* What last_output and selected_stage_dir are after stage i.              *)
ResultOf(i) == IF RunsInProcess(i) THEN i ELSE NoStage
SelectedBy(i) == IF i = mode.reference THEN i ELSE selected

(* The step at hand has found a divergence; a run without one is timed.    *)
Diverges == divergence' # NoDivergence
WritesTimes == FinalDivergence = NoDivergence

Init ==
  /\ mode \in Mode /\ IsMode(mode)
  /\ phase = "loop" /\ failure = "none"
  /\ next = 1 /\ cur = NoStage /\ waveEnd = NoStage
  /\ committed = {} /\ timed = {} /\ cached = {}
  /\ lastOutput = NoStage /\ selected = NoStage /\ env = NoStage
  /\ onDisk = {} /\ timesFile = FALSE
  /\ queued = {} /\ running = {} /\ finished = {} /\ poolFailed = FALSE
  /\ recomputed = <<>> /\ divergence = NoDivergence

Abort(why) == phase' = "failed" /\ failure' = why

-----------------------------------------------------------------------------
(* One stage.                                                              *)

(* run_one_stage up to the execution of the stage.  An in-process stage    *)
(* runs with the process environment pointing at its own directory.        *)
StartStage ==
  /\ phase = "loop" /\ next \in Stage
  /\ \A e \in 1 .. NumStages + 1 : ~IsAuxWave(next, e)
  /\ IF InputsReady(next)
     THEN /\ phase' = "stage" /\ cur' = next
          /\ env' = IF RunsInProcess(next) THEN next ELSE NoStage
          /\ UNCHANGED failure
     ELSE /\ Abort("inputs_not_ready")
          /\ UNCHANGED <<cur, env>>
  /\ UNCHANGED <<mode, next, waveEnd, runVars, onDisk, timesFile, poolVars, verifierVars>>

(* The stage succeeded: finish_stage, then the test of run_inner's loop or,*)
(* for the reference stage of a wave, of run_aux_wave.                     *)
CompleteStage ==
  /\ phase = "stage"
  /\ onDisk' = onDisk \cup {cur}
  /\ timed' = timed \cup {cur}
  /\ committed' = committed \cup {cur}
  /\ selected' = SelectedBy(cur)
  /\ lastOutput' = ResultOf(cur)
  /\ cached' = IF RunsInProcess(cur) THEN cached \cup {cur} ELSE cached
  /\ env' = NoStage /\ cur' = NoStage
  /\ ObserveCheckpoint(cur)
  /\ IF ~InOrder(cur)
     THEN Abort("checkpoint_order") /\ UNCHANGED next
     ELSE /\ UNCHANGED failure
          /\ IF Diverges
             THEN phase' = "finish" /\ UNCHANGED next
             ELSE IF waveEnd # NoStage
             THEN phase' = "pool" /\ UNCHANGED next
             ELSE phase' = "loop" /\ next' = next + 1
  /\ UNCHANGED <<mode, waveEnd, timesFile, poolVars>>

(* The stage, its output check or the parity check of a reference stage    *)
(* failed.  The environment guard is dropped; an output may be left behind.*)
FailStage ==
  /\ phase = "stage"
  /\ Abort("stage_failed")
  /\ onDisk' \in {onDisk, onDisk \cup {cur}}
  /\ env' = NoStage /\ cur' = NoStage
  /\ UNCHANGED <<mode, next, waveEnd, runVars, timesFile, poolVars, verifierVars>>

(* Preparing a stage or a wave, reading the checkpoint of a wave's result  *)
(* or writing execution-times.json failed.                                 *)
FailFile ==
  /\ \/ phase = "loop" /\ (next \in Stage \/ WritesTimes)
     \/ phase = "record" /\ finished # {} /\ Verifying
  /\ Abort("stage_failed")
  /\ UNCHANGED <<mode, next, cur, waveEnd, runVars, env, onDisk, timesFile,
                 poolVars, verifierVars>>

-----------------------------------------------------------------------------
(* A wave of aux stages.                                                   *)

(* run_aux_wave up to the pool: every stage's inputs must be ready, native *)
(* stages become jobs, and a reference stage is executed first, alone.     *)
StartWave ==
  /\ phase = "loop" /\ next \in Stage
  /\ \E e \in 1 .. NumStages + 1 :
       /\ IsAuxWave(next, e)
       /\ IF \A i \in next .. (e - 1) : InputsReady(i)
          THEN /\ waveEnd' = e
               /\ queued' = JobStages(next, e)
               /\ IF mode.reference \in next .. (e - 1)
                  THEN phase' = "stage" /\ cur' = mode.reference
                  ELSE phase' = "pool" /\ UNCHANGED cur
               /\ UNCHANGED failure
          ELSE /\ Abort("inputs_not_ready")
               /\ UNCHANGED <<waveEnd, queued, cur>>
  /\ UNCHANGED <<mode, next, runVars, env, onDisk, timesFile, running, finished,
                 poolFailed, verifierVars>>

(* A worker takes a job.  After an error the pool stops handing out jobs   *)
(* as soon as its workers notice.                                          *)
LaunchJob(i) ==
  /\ phase = "pool" /\ i \in queued
  /\ WorkerFree
  /\ queued' = queued \ {i}
  /\ running' = running \cup {i}
  /\ UNCHANGED <<mode, phase, failure, next, cur, waveEnd, runVars, env, onDisk,
                 timesFile, finished, poolFailed, verifierVars>>

FinishJob(i) ==
  /\ phase = "pool" /\ i \in running
  /\ running' = running \ {i}
  /\ finished' = finished \cup {i}
  /\ onDisk' = onDisk \cup {i}
  /\ UNCHANGED <<mode, phase, failure, next, cur, waveEnd, runVars, env, timesFile,
                 queued, poolFailed, verifierVars>>

FailJob(i) ==
  /\ phase = "pool" /\ i \in running
  /\ running' = running \ {i}
  /\ poolFailed' = TRUE
  /\ onDisk' \in {onDisk, onDisk \cup {i}}
  /\ UNCHANGED <<mode, phase, failure, next, cur, waveEnd, runVars, env, timesFile,
                 queued, finished, verifierVars>>

(* pool.install returns when no job runs; one error fails the batch.       *)
JoinPool ==
  /\ phase = "pool" /\ running = {}
  /\ IF poolFailed
     THEN Abort("stage_failed")
     ELSE queued = {} /\ phase' = "record" /\ UNCHANGED failure
  /\ UNCHANGED <<mode, next, cur, waveEnd, runVars, env, onDisk, timesFile,
                 poolVars, verifierVars>>

(* One turn of the loop over the results.  The jobs were subprocesses:     *)
(* neither the output cache nor last_output changes.                       *)
RecordResult ==
  /\ phase = "record"
  /\ \E i \in finished :
       /\ NextResult(i)
       /\ finished' = finished \ {i}
       /\ timed' = timed \cup {i}
       /\ committed' = committed \cup {i}
       /\ ObserveCheckpoint(i)
       /\ IF ~InOrder(i)
          THEN Abort("checkpoint_order")
          ELSE /\ phase' = IF Diverges THEN "finish" ELSE "record"
               /\ UNCHANGED failure
  /\ UNCHANGED <<mode, next, cur, waveEnd, cached, lastOutput, selected, env, onDisk,
                 timesFile, queued, running, poolFailed>>

(* The wave is over: all its stages must have committed.                   *)
EndWave ==
  /\ phase = "record" /\ finished = {}
  /\ IF WaveStages \subseteq committed
     THEN /\ phase' = "loop" /\ next' = waveEnd /\ waveEnd' = NoStage
          /\ UNCHANGED failure
     ELSE /\ Abort("missing_output")
          /\ UNCHANGED <<next, waveEnd>>
  /\ UNCHANGED <<mode, cur, runVars, env, onDisk, timesFile, poolVars, verifierVars>>

-----------------------------------------------------------------------------
(* The end of run_inner: the verifier's last word, execution-times.json    *)
(* for a run without divergence, and the check on the reference stage.     *)
FinishRun ==
  /\ \/ phase = "loop" /\ next = NumStages + 1
     \/ phase = "finish"
  /\ divergence' = FinalDivergence
  /\ IF WritesTimes /\ timed # Stage
     THEN Abort("missing_timing") /\ UNCHANGED timesFile
     ELSE /\ timesFile' = WritesTimes
          /\ IF mode.reference # NoStage /\ selected = NoStage
             THEN Abort("reference_did_not_run")
             ELSE phase' = "done" /\ UNCHANGED failure
  /\ UNCHANGED <<mode, next, cur, waveEnd, runVars, env, onDisk, poolVars, recomputed>>

Ended == phase \in {"done", "failed"}

Next ==
  \/ StartStage \/ CompleteStage \/ FailStage \/ FailFile
  \/ StartWave \/ JoinPool \/ RecordResult \/ EndWave
  \/ \E i \in Stage : LaunchJob(i) \/ FinishJob(i) \/ FailJob(i)
  \/ FinishRun

Spec == Init /\ [][Next]_vars

(* The runner is one thread that never waits for anything but the commands *)
(* it started, and each command is taken to end, in success or failure;    *)
(* the pool's workers keep taking jobs.  Files need not fail.              *)
Fairness ==
  /\ WF_vars(StartStage \/ StartWave \/ JoinPool \/ RecordResult \/ EndWave \/ FinishRun)
  /\ WF_vars(CompleteStage \/ FailStage)
  /\ WF_vars(\E i \in Stage : LaunchJob(i))
  /\ \A i \in Stage : WF_vars(FinishJob(i) \/ FailJob(i))

FairSpec == Spec /\ Fairness
-----------------------------------------------------------------------------
(* Properties.                                                             *)

Phases == {"loop", "stage", "pool", "record", "finish", "done", "failed"}
Failures == {"none", "stage_failed", "inputs_not_ready", "checkpoint_order",
             "missing_output", "missing_timing", "reference_did_not_run"}

(* Every variable has its type. *)
TypeOK ==
  /\ mode \in Mode /\ IsMode(mode)
  /\ phase \in Phases /\ failure \in Failures
  /\ next \in 1 .. NumStages + 1
  /\ cur \in Stage \cup {NoStage}
  /\ waveEnd \in {NoStage} \cup 2 .. NumStages + 1
  /\ committed \subseteq Stage /\ timed \subseteq Stage /\ cached \subseteq Stage
  /\ onDisk \subseteq Stage
  /\ lastOutput \in Stage \cup {NoStage} /\ selected \in Stage \cup {NoStage}
  /\ env \in Stage \cup {NoStage}
  /\ timesFile \in BOOLEAN /\ poolFailed \in BOOLEAN
  /\ queued \subseteq Stage /\ running \subseteq Stage /\ finished \subseteq Stage
  /\ recomputed \in Seq(Stage)
  /\ divergence \in Divergence \cup {NoDivergence}

(* A chain in which every binding names an earlier stage, and none a stage *)
(* of the same run of consecutive aux stages: the manifests that the       *)
(* importer writes.                                                        *)
WellFormed(chain) ==
  \A i \in Stage : \A p \in chain.producers[i] :
    p \in 1 .. (i - 1) /\ ~(p .. i \subseteq chain.aux)

Executing == running \cup ({cur} \ {NoStage})

(* A stage is executed, and an output is published, only when the output   *)
(* of every stage it reads from is published and committed, whether it     *)
(* runs alone, as a job of a wave, or as the reference stage that a wave   *)
(* executes ahead of its jobs.                                             *)
ReadsCommittedOutputs ==
  \A i \in Executing \cup onDisk :
    mode.chain.producers[i] \subseteq committed \cap onDisk

(* The runner's own consistency checks (a checkpoint out of order, a wave  *)
(* that left a stage without output, a stage without timing, a reference   *)
(* stage that did not run) never fire: on a well-formed chain, a run fails *)
(* only because a stage or a file does.                                    *)
OnlyStagesFail ==
  WellFormed(mode.chain) => failure \in {"none", "stage_failed"}

(* Jobs run only while the runner waits for their pool, never more than    *)
(* the pool has workers, and never while the process environment points    *)
(* into the directory of an in-process stage; so nothing still runs when   *)
(* the run ends, with success or with an error.                            *)
JobsStayInTheirPool ==
  /\ running # {} => phase = "pool" /\ env = NoStage /\ cur = NoStage
  /\ Cardinality(running) <= AuxParallelism(Cardinality(WaveJobs))
  /\ env # NoStage => phase = "stage" /\ env = cur

(* The value a finished run returns as its final output is the one the     *)
(* last stage of the chain produced, or none when that stage ran in        *)
(* another process: never a value left over from an earlier stage.  (The   *)
(* outputs of a wave do not pass through last_output: the last stage must  *)
(* not belong to one.)                                                     *)
FinalOutputIsLast ==
  phase = "done" /\ ~HasDivergence /\ NumStages \in Stage \ mode.chain.aux =>
    lastOutput = IF RunsInProcess(NumStages) THEN NumStages ELSE NoStage

(* execution-times.json, from which a reader of the chain directory takes  *)
(* the order of the stages, exists only once every stage has committed,    *)
(* and never for a run that diverged.                                      *)
TimesFileIsComplete ==
  timesFile => committed = Stage /\ timed = Stage /\ ~HasDivergence

(* The checkpoints are the committed stages, in chain order, although the  *)
(* jobs of a wave finish in any order: what a wave's later jobs left on    *)
(* disk after a divergence is neither committed nor in the trace.          *)
TraceIsCommittedPrefix ==
  Verifying =>
    /\ committed = 1 .. Len(recomputed)
    /\ \A k \in 1 .. Len(recomputed) : recomputed[k] = k

(* locate_hash_divergence and hash_divergence_reason of the command line:  *)
(* the comparison of two whole lists, which a run that verifies on the fly *)
(* must agree with.                                                        *)
HashReason(claimed, i) ==
  IF i <= Len(claimed) /\ i \in Stage
  THEN IF claimed[i] # StageHash[i] THEN "checkpoint_hash" ELSE "none"
  ELSE IF i <= Len(claimed) THEN "missing_recomputed_hash"
  ELSE IF i \in Stage THEN "missing_claimed_hash"
  ELSE "none"

FirstDivergence(claimed) ==
  LET Longest == IF Len(claimed) > NumStages THEN Len(claimed) ELSE NumStages
      Differ == {i \in 1 .. Longest : HashReason(claimed, i) # "none"}
  IN  IF Differ = {} THEN NoDivergence
      ELSE LET first == CHOOSE i \in Differ : \A j \in Differ : i <= j
           IN [index |-> first,
               stage |-> IF first \in Stage THEN first ELSE NoStage,
               reason |-> HashReason(claimed, first)]

(* A finished verification reports exactly the first divergence that a     *)
(* comparison of the claimed list with the list of a full run would find,  *)
(* with its index, stage and reason, and none only if the lists are equal. *)
VerdictIsFirstDivergence ==
  Verifying /\ phase = "done" => divergence = FirstDivergence(mode.claimed)

(* Once a divergence is known, nothing more is started, committed or added *)
(* to the trace, and the divergence stays what it is.                      *)
StopsAtDivergence ==
  [][HasDivergence =>
       /\ running' \subseteq running /\ cur' \in {cur, NoStage}
       /\ committed' = committed /\ recomputed' = recomputed
       /\ divergence' = divergence]_vars

(* A stage that has written its output is never executed again in the run. *)
NoStageRunsTwice ==
  [][\A i \in Stage : i \in running' \cup {cur'} /\ i \notin Executing =>
       i \notin onDisk \cup committed]_vars

(* The runner of a verification, with its waves and its pool, compares the *)
(* hashes as HashVerification does.                                        *)
Verification == INSTANCE HashVerification WITH
  Claims <- ClaimedLists \cup {<<>>},
  claimed <- mode.claimed,
  checked <- Len(recomputed),
  outcome <- IF ~Verifying THEN "none"
             ELSE IF phase = "failed" THEN "aborted"
             ELSE IF HasDivergence THEN "diverges"
             ELSE IF phase = "done" THEN "agrees"
             ELSE "open",
  at <- divergence.index

(* A verifying run refines the sequential comparison, step by step and in  *)
(* its progress: jobs that finish in any order, outputs that appear on     *)
(* disk early and the end of the run are invisible in the verdict.         *)
VerifiesInOrder == Verification!FairSpec

(* Every run ends.                                                         *)
RunEnds == <>Ended

(* A divergence that has been found is reported: no later check of the     *)
(* runner turns it into an error.                                          *)
DivergenceIsReported == HasDivergence ~> (phase = "done" /\ HasDivergence)
=============================================================================

-------------------------- MODULE UncheckpointedRun --------------------------
(***************************************************************************)
(* The uncheckpointed runner of a chain (crates/inference/staged/src/      *)
(* uncheckpointed.rs): every stage runs in this process, its value stays   *)
(* in memory, and the staging directory holds the inputs documents of the  *)
(* stages but no output.  Consecutive aux stages run as the jobs of a      *)
(* worker pool.                                                            *)
(*                                                                         *)
(* Stages are deterministic: their commitment is their name.  The weights  *)
(* of a stage are the names of their files.                                *)
(***************************************************************************)
EXTENDS ChainExpansion, StageValues

CONSTANTS
  Requested,  (* the parallelism the environment asks for, 0 for none         *)
  Available   (* how many processors there are                                *)

ASSUME ParallelismAssumption == Requested \subseteq Nat /\ Available \subseteq Nat \ {0}

VARIABLES
  infer,       (* "none", "running", "wave", "done", "refused", "failed", "killed" *)
  cause,       (* what made it fail                                           *)
  at,          (* idx                                                         *)
  staging,     (* whether the staging directory exists                        *)
  commitments, (* idx -> commitment, of the stages that have run              *)
  values,      (* stage_outputs: name -> commitment and value                 *)
  lastOutput,
  wanted,      (* the parallelism that the environment gives                  *)
  jobs,        (* idx -> "ready", "running" or "done", in a wave               *)
  parallelism, (* that of the wave                                            *)
  report,      (* the stages in the order of their timings                    *)
  waves,       (* the waves in theirs                                         *)
  loaded       (* idx -> what the stage has read                              *)

waveVars == <<jobs, parallelism>>
storeVars == <<commitments, values, lastOutput, report, loaded>>
inferVars == <<infer, cause, wanted, at, staging, waveVars, storeVars, waves>>

Nothing == [type |-> "none", fields |-> [f \in {} |-> <<>>]]
Empty == [x \in {} |-> Nothing]

-----------------------------------------------------------------------------
(* The inputs of a stage.                                                  *)

Producers(stage) == {p \in DOMAIN stage.inputs : stage.inputs[p].how = "from"}
Producer(stage, p) == IndexOf(stage.inputs[p].name)

(* A stage's producers have run. *)
InputsReady(stage) ==
  \A p \in Producers(stage) :
    stage.inputs[p].name \in StageNames /\ Producer(stage, p) \in DOMAIN commitments

(* cached_inputs_for_stage: the values in memory, and whether one is stale. *)
CachedParams(stage) ==
  {p \in Producers(stage) : stage.inputs[p].name \in DOMAIN values}
Cached(stage, p) == values[stage.inputs[p].name].value
IsFresh(stage) ==
  \A p \in CachedParams(stage) :
    values[stage.inputs[p].name].commitment = commitments[Producer(stage, p)]

(* What a parameter is read from: a value in memory, if the routine looks  *)
(* there, else a file.  No file of a producer exists.                      *)
ModelFile(stage, p) ==
  IF p \in DOMAIN stage.inputs /\ stage.inputs[p].how = "external" THEN {stage.inputs[p].name} ELSE {}
Loads(stage, p) ==
  IF p \in CachedParams(stage) THEN Converted(Cached(stage, p), Params(KindOf(stage).routine)[p])
  ELSE ModelFile(stage, p)

CanLoad(stage) ==
  /\ InputsReady(stage) /\ IsFresh(stage)
  /\ \A p \in DOMAIN Params(KindOf(stage).routine) : Loads(stage, p) # {}
  /\ \A p \in ModelParams(KindOf(stage).routine) : ModelFile(stage, p) # {}

Load(stage) ==
  Extended([p \in DOMAIN Params(KindOf(stage).routine) |-> CHOOSE v \in Loads(stage, p) : TRUE],
           [p \in ModelParams(KindOf(stage).routine) |-> CHOOSE w \in ModelFile(stage, p) : TRUE])

(* store_stage_run, for the stages of a range. *)
Store(range) ==
  /\ commitments' = Extended(commitments, [i \in range |-> chain[i].name])
  /\ values' = Extended(values, [n \in {chain[i].name : i \in range} |->
                                   [commitment |-> n, value |-> Value(StageNamed(n))]])
  /\ lastOutput' = LET last == CHOOSE i \in range : \A j \in range : j <= i IN Value(chain[last])
  /\ report' = report \o [n \in 1 .. Cardinality(range) |-> at + n - 1]
  /\ loaded' = Extended(loaded, [i \in range |-> Load(chain[i])])

-----------------------------------------------------------------------------
InitInfer ==
  /\ infer = "none" /\ cause = "none" /\ wanted = 0 /\ at = 1 /\ staging = FALSE
  /\ commitments = Empty /\ values = Empty /\ lastOutput = Nothing
  /\ jobs = Empty /\ parallelism = 0
  /\ report = <<>> /\ waves = <<>> /\ loaded = Empty

(* All that the runner keeps is in its memory. *)
Dropped ==
  /\ at' = 1 /\ wanted' = 0
  /\ commitments' = Empty /\ values' = Empty /\ lastOutput' = Nothing
  /\ jobs' = Empty /\ parallelism' = 0
  /\ report' = <<>> /\ waves' = <<>> /\ loaded' = Empty

(* The staging directory goes with the runner, however it ends. *)
FailInfer(why) ==
  /\ infer' = "failed" /\ cause' = why
  /\ staging' = FALSE
  /\ Dropped

(* aux_parallelism_from: without a request between one and four, and never *)
(* more than there are jobs.  The environment stays as it is.              *)
Clamp(n, low, high) == IF n < low THEN low ELSE IF n > high THEN high ELSE n
Wanted(requested, available) == IF requested > 0 THEN requested ELSE Clamp(available, 1, 4)
Parallelism(count) == Clamp(wanted, 1, count)

IsSupported == \A i \in DOMAIN chain : KindOf(chain[i]) /= NoStage
HasUniqueNames == Cardinality(StageNames) = Len(chain)

StartInfer ==
  /\ phase = "expanded" /\ infer = "none"
  /\ IF IsSupported /\ HasUniqueNames
     THEN /\ infer' = "running" /\ staging' = TRUE /\ UNCHANGED cause
          /\ \E requested \in Requested, available \in Available : wanted' = Wanted(requested, available)
     ELSE /\ infer' = "refused" /\ cause' = "chain" /\ UNCHANGED <<staging, wanted>>
  /\ UNCHANGED <<at, storeVars, waveVars, waves>>

IsAuxStage(stage) == KindOf(stage).routine = "prefill_prepare_aux"

(* A faulty variant: a wave ends one stage later. *)
OneMore(start) ==
  {i \in DOMAIN chain : i >= start /\ \A j \in start .. (i - 1) : IsAuxStage(chain[j])}
(* The longest run of aux stages from here on; one alone is not a wave.    *)
AuxWaveRange(start) ==
  LET run == {i \in DOMAIN chain : i >= start /\ \A j \in start .. i : IsAuxStage(chain[j])}
  IN  IF Cardinality(run) > 1 THEN run ELSE {}

AtStage == infer = "running" /\ at <= Len(chain) /\ AuxWaveRange(at) = {}

RunStage ==
  /\ AtStage
  /\ CanLoad(chain[at])
  /\ Store({at})
  /\ at' = at + 1
  /\ UNCHANGED <<infer, cause, wanted, staging, waveVars, waves>>

(* It cannot have its inputs, or its kernel fails. *)
StageFails ==
  /\ AtStage
  /\ FailInfer(IF CanLoad(chain[at]) THEN "stage" ELSE "inputs")

-----------------------------------------------------------------------------
(* Waves.                                                                  *)

AtWave == infer = "running" /\ at <= Len(chain) /\ AuxWaveRange(at) # {}
WaveCanStart == \A i \in AuxWaveRange(at) : InputsReady(chain[i]) /\ IsFresh(chain[i])

(* All jobs are prepared before the first one runs. *)
PrepareWave ==
  /\ AtWave /\ WaveCanStart
  /\ infer' = "wave"
  /\ jobs' = [i \in AuxWaveRange(at) |-> "ready"]
  /\ parallelism' = Parallelism(Cardinality(AuxWaveRange(at)))
  /\ UNCHANGED <<cause, wanted, at, staging, storeVars, waves>>

WaveFails == AtWave /\ ~WaveCanStart /\ FailInfer("inputs")

InState(s) == {i \in DOMAIN jobs : jobs[i] = s}
InWave(newJobs) ==
  /\ infer = "wave"
  /\ jobs' = newJobs
  /\ UNCHANGED <<infer, wanted, at, staging, parallelism, storeVars, waves>>

StartJob ==
  /\ cause = "none" /\ Cardinality(InState("running")) < parallelism
  /\ \E i \in InState("ready") : InWave([jobs EXCEPT ![i] = "running"])
  /\ UNCHANGED cause

FinishJob ==
  /\ cause = "none"
  /\ \E i \in InState("running") : CanLoad(chain[i]) /\ InWave([jobs EXCEPT ![i] = "done"])
  /\ UNCHANGED cause

(* The first error decides: all results are dropped, jobs that have not    *)
(* started need not run, and those that run are waited for.                *)
JobFails ==
  /\ cause = "none"
  /\ \E i \in InState("running") :
       /\ InWave([j \in InState("running") \ {i} |-> "running"])
       /\ cause' = IF CanLoad(chain[i]) THEN "stage" ELSE "inputs"

JobIsAwaited ==
  /\ cause /= "none"
  /\ \E i \in DOMAIN jobs : InWave([j \in DOMAIN jobs \ {i} |-> "running"])
  /\ UNCHANGED cause

AbortWave ==
  /\ infer = "wave" /\ cause /= "none" /\ jobs = Empty
  /\ FailInfer(cause)

JoinWave ==
  /\ infer = "wave" /\ cause = "none"
  /\ \A i \in DOMAIN jobs : jobs[i] = "done"
  /\ Store(DOMAIN jobs)
  /\ waves' = Append(waves, [first |-> at, count |-> Cardinality(DOMAIN jobs), parallelism |-> parallelism])
  /\ at' = at + Cardinality(DOMAIN jobs)
  /\ infer' = "running"
  /\ jobs' = Empty /\ parallelism' = 0
  /\ UNCHANGED <<cause, wanted, staging>>

-----------------------------------------------------------------------------
(* The value of the last stage must be the generated output. *)
EndChain ==
  /\ infer = "running" /\ at > Len(chain)
  /\ IF lastOutput.type = "GeneratedOutput"
     THEN /\ infer' = "done" /\ staging' = FALSE
          /\ UNCHANGED <<cause, wanted, at, storeVars, waveVars, waves>>
     ELSE FailInfer("result")

(* Nothing removes the staging directory of a process that is killed. *)
Kill ==
  /\ infer \in {"running", "wave"}
  /\ infer' = "killed" /\ cause' = "none"
  /\ Dropped
  /\ UNCHANGED staging

NextInfer ==
  /\ \/ StartInfer \/ RunStage \/ StageFails
     \/ PrepareWave \/ WaveFails \/ StartJob \/ FinishJob
     \/ JobFails \/ JobIsAwaited \/ AbortWave \/ JoinWave \/ EndChain \/ Kill
  /\ UNCHANGED expansionVars

-----------------------------------------------------------------------------
(* What the chain says that a stage reads: the published outputs of its    *)
(* producers, and its files.                                               *)
Bindings(stage) ==
  [p \in DOMAIN Params(KindOf(stage).routine) \cup ModelParams(KindOf(stage).routine) |->
     LET name == stage.inputs[p].name
     IN  IF stage.inputs[p].how = "external" THEN name ELSE Value(StageNamed(name)).fields]

(* A stage that takes its inputs from memory reads what it would read from *)
(* the outputs of a checkpointed run, each of them of an earlier stage,    *)
(* whichever stages run beside it; a process that only knows the name of   *)
(* the stage would run the same routine.  No stage looks for the output of *)
(* a producer in the staging directory.                                    *)
InferReadsTheChain ==
  \A i \in DOMAIN loaded :
    /\ loaded[i] = Bindings(chain[i])
    /\ \A p \in Producers(chain[i]) : Producer(chain[i], p) < i
    /\ FromStageName(chain[i].name) = KindOf(chain[i])

(* A chain that was imported fails only if one of its stages does.  At the *)
(* end the result is that of the chain's last stage, the report lists all  *)
(* stages in chain order, and its waves are the aux stages of each pass.   *)
(* Only a run that was killed leaves its staging directory behind.         *)
AuxRuns ==
  {i \in DOMAIN chain : /\ IsAuxStage(chain[i]) /\ i < Len(chain) /\ IsAuxStage(chain[i + 1])
                        /\ i = 1 \/ ~IsAuxStage(chain[i - 1])}
InferEndsCleanly ==
  /\ IsImported => cause \in {"none", "stage"}
  /\ infer = "done" =>
       /\ lastOutput = Value(chain[Len(chain)])
       /\ report = [i \in DOMAIN chain |-> i]
       /\ {waves[w].first : w \in DOMAIN waves} = AuxRuns
       /\ \A w \in DOMAIN waves :
            /\ waves[w].parallelism \in 1 .. waves[w].count
            /\ ~IsAuxStage(chain[waves[w].first + waves[w].count])
  /\ staging => infer \in {"running", "wave", "killed"}
=============================================================================

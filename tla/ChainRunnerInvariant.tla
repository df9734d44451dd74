------------------------- MODULE ChainRunnerInvariant -------------------------
(***************************************************************************)
(* The inductive invariant of ChainRunner: TLC checks it on small chains,  *)
(* StagedRunProofs proves it for all of them.                              *)
(***************************************************************************)
EXTENDS ChainRunner

(* The inductive invariant behind the safety properties.                   *)

PoolIdle == queued = {} /\ running = {} /\ finished = {} /\ ~poolFailed

InWave ==
  /\ waveEnd # NoStage /\ next \in Stage /\ IsAuxWave(next, waveEnd)
  /\ \A i \in WaveStages : InputsReady(i)

(* What each phase knows of the loop, the wave and the pool. *)
LoopInv ==
  phase = "loop" => /\ waveEnd = NoStage /\ cur = NoStage /\ PoolIdle
                    /\ committed = 1 .. (next - 1)
StageInv ==
  phase = "stage" =>
    /\ cur \in Stage /\ InputsReady(cur)
    /\ committed = 1 .. (next - 1)
    /\ running = {} /\ finished = {} /\ ~poolFailed
    /\ waveEnd = NoStage => cur = next /\ queued = {}
    /\ waveEnd # NoStage => InWave /\ cur = mode.reference /\ cur \in WaveStages
                                   /\ queued = WaveJobs
PoolInv ==
  phase = "pool" =>
    /\ cur = NoStage /\ InWave
    /\ committed = 1 .. (next - 1) \cup (WaveStages \cap {mode.reference})
    /\ queued \subseteq WaveJobs /\ running \subseteq WaveJobs
    /\ finished \subseteq WaveJobs
    /\ queued \cap running = {} /\ queued \cap finished = {} /\ running \cap finished = {}
    /\ ~poolFailed => WaveJobs \subseteq queued \cup running \cup finished
RecordInv ==
  phase = "record" =>
    /\ cur = NoStage /\ InWave
    /\ queued = {} /\ running = {} /\ ~poolFailed
    /\ finished \subseteq WaveJobs \ committed
    /\ committed \cup finished = 1 .. (waveEnd - 1)
EndInv ==
  /\ phase \in {"finish", "done", "failed"} => cur = NoStage /\ running = {}
  /\ phase = "finish" => HasDivergence

(* The process environment, the files and the values. *)
FilesInv ==
  /\ env # NoStage => phase = "stage" /\ env = cur
  /\ timed = committed /\ committed \subseteq onDisk /\ cached \subseteq committed
  /\ finished \subseteq onDisk
  /\ \A i \in onDisk : InputsReady(i)
  /\ timesFile => committed = Stage /\ ~HasDivergence
OutputInv ==
  /\ mode.reference \in committed => selected = mode.reference
  /\ \/ phase = "loop" /\ next - 1 \in Stage \ mode.chain.aux
     \/ phase = "done" /\ ~HasDivergence /\ next = NumStages + 1
                       /\ next - 1 \in Stage \ mode.chain.aux
     => lastOutput = IF RunsInProcess(next - 1) THEN next - 1 ELSE NoStage
  /\ phase = "done" /\ ~HasDivergence => next = NumStages + 1
FailureInv ==
  /\ phase # "failed" => failure = "none"
  /\ failure \in {"none", "stage_failed", "inputs_not_ready"}
  /\ failure = "inputs_not_ready" => ~WellFormed(mode.chain)

(* Checkpoint k of the run agrees with the claim. *)
AgreesAt(k) == k <= Len(mode.claimed) /\ mode.claimed[k] = StageHash[k]

VerifierInv ==
  /\ ~Verifying => recomputed = <<>> /\ ~HasDivergence
  /\ Verifying =>
       /\ committed = 1 .. Len(recomputed)
       /\ \A k \in 1 .. Len(recomputed) : recomputed[k] = k
       /\ \A k \in 1 .. Len(recomputed) :
            k < Len(recomputed) \/ ~HasDivergence \/ divergence.index = Len(recomputed) + 1
              => AgreesAt(k)
       /\ HasDivergence =>
            /\ phase \in {"finish", "done"}
            /\ \/ /\ Len(recomputed) > 0
                  /\ divergence = Compare(mode.claimed, Len(recomputed))
               \/ /\ Len(recomputed) = NumStages
                  /\ Len(mode.claimed) > NumStages
                  /\ divergence = [index |-> NumStages + 1, stage |-> NoStage,
                                   reason |-> "missing_recomputed_hash"]
       /\ phase = "done" /\ ~HasDivergence =>
            Len(recomputed) = NumStages /\ Len(mode.claimed) <= NumStages

IInv ==
  /\ TypeOK
  /\ LoopInv /\ StageInv /\ PoolInv /\ RecordInv /\ EndInv
  /\ FilesInv /\ OutputInv /\ FailureInv /\ VerifierInv
=============================================================================

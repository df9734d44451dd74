-------------------------- MODULE StagedRunProofs ---------------------------
(***************************************************************************)
(* Proofs about the process of a checkpointed run: ChainRunner, then       *)
(* ChallengeBuild, which starts with a run of it, for chains of every      *)
(* length and shape, every pool size and every claimed list; and the       *)
(* caches that its threads share, MaterializationCache, for any number of  *)
(* threads, keys and calls and any capacity.                               *)
(***************************************************************************)
EXTENDS ChallengeBuild, ChainRunnerInvariant, MaterializationCache, FiniteSetTheorems, TLAPS

-----------------------------------------------------------------------------
(*                               The runner                                *)
-----------------------------------------------------------------------------
(* Facts about the operators.                                              *)

(* A mode of the run: its parts have their types. *)
LEMMA ModeParts ==
  ASSUME mode \in Mode, IsMode(mode)
  PROVE  /\ mode.chain.aux \in SUBSET Stage
         /\ mode.chain.producers \in [Stage -> SUBSET (Stage \cup {NoStage})]
         /\ mode.reference \in Stage \cup {NoStage}
         /\ mode.claimed \in Seq(Hashes)
         /\ Verifying => mode.reference = NoStage
  <1>1. mode.chain \in Chain
    BY ChainRunnerAssumption DEF Mode
  <1>2. mode.reference \in Stage \cup {NoStage}
    BY ChainRunnerAssumption DEF Mode
  <1>3. mode.claimed \in Seq(Hashes)
    <2>1. <<>> \in Seq(Hashes)
      OBVIOUS
    <2> QED
      BY <2>1, ChainRunnerAssumption DEF Mode
  <1>4. Verifying => mode.reference = NoStage
    BY DEF IsMode, Verifying
  <1> QED
    BY <1>1, <1>2, <1>3, <1>4 DEF Chain

(* The comparison of one checkpoint yields a divergence at that checkpoint *)
(* or none, and none exactly if the claim agrees there. *)
LEMMA CompareIsDivergence ==
  ASSUME NEW claimed \in Seq(Hashes), NEW i \in Stage
  PROVE  /\ Compare(claimed, i) \in Divergence \cup {NoDivergence}
         /\ Compare(claimed, i) # NoDivergence => Compare(claimed, i).index = i
         /\ Compare(claimed, i) = NoDivergence
              <=> i <= Len(claimed) /\ claimed[i] = StageHash[i]
  BY ChainRunnerAssumption DEF Compare, Divergence, NoDivergence, Reasons, Stage, NoStage

LEMMA InitInv == Init => IInv
  <1> SUFFICES ASSUME Init PROVE IInv
    OBVIOUS
  <1> USE ChainRunnerAssumption DEF Init, Stage, NoStage
  <1>1. TypeOK
    <2>1. phase \in Phases /\ failure \in Failures
      BY DEF Phases, Failures
    <2>2. timesFile \in BOOLEAN /\ poolFailed \in BOOLEAN
      OBVIOUS
    <2>3. recomputed \in Seq(Stage)
      OBVIOUS
    <2>4. divergence \in Divergence \cup {NoDivergence}
      OBVIOUS
    <2>5. next \in 1 .. NumStages + 1
      OBVIOUS
    <2> QED
      BY <2>1, <2>2, <2>3, <2>4, <2>5 DEF TypeOK
  <1>2. LoopInv /\ StageInv /\ PoolInv /\ RecordInv /\ EndInv
    BY DEF LoopInv, StageInv, PoolInv, RecordInv, EndInv, PoolIdle
  <1>3. FilesInv /\ FailureInv
    BY DEF FilesInv, FailureInv
  <1>4. OutputInv
    BY DEF OutputInv, HasDivergence
  <1>5. VerifierInv
    BY DEF VerifierInv, HasDivergence, AgreesAt
  <1> QED
    BY <1>1, <1>2, <1>3, <1>4, <1>5 DEF IInv

LEMMA StartStageInv == IInv /\ StartStage => IInv'
  <1> SUFFICES ASSUME IInv, StartStage PROVE IInv'
    OBVIOUS
  <1> USE ChainRunnerAssumption DEF IInv, StartStage, Stage, NoStage, Abort,
          runVars, poolVars, verifierVars
  <1>1. TypeOK'
    BY DEF TypeOK, Phases, Failures
  <1>2. LoopInv' /\ PoolInv' /\ RecordInv' /\ EndInv'
    BY DEF LoopInv, PoolInv, RecordInv, EndInv, PoolIdle
  <1>3. StageInv'
    BY DEF LoopInv, StageInv, PoolIdle, InputsReady, TypeOK
  <1>4. FilesInv'
    BY DEF FilesInv, InputsReady, HasDivergence, LoopInv, TypeOK
  <1>5. OutputInv'
    BY DEF OutputInv, RunsInProcess, HasDivergence
  <1>6. FailureInv'
    BY ModeParts DEF FailureInv, WellFormed, InputsReady, LoopInv, TypeOK
  <1>7. VerifierInv'
    BY DEF VerifierInv, HasDivergence, Verifying, AgreesAt
  <1> QED
    BY <1>1, <1>2, <1>3, <1>4, <1>5, <1>6, <1>7 DEF IInv

LEMMA FailStageInv == IInv /\ FailStage => IInv'
  <1> SUFFICES ASSUME IInv, FailStage PROVE IInv'
    OBVIOUS
  <1> USE ChainRunnerAssumption DEF IInv, FailStage, Stage, NoStage, Abort,
          runVars, poolVars, verifierVars
  <1>1. TypeOK'
    <2>1. onDisk' \subseteq Stage
      BY DEF TypeOK, StageInv
    <2>2. phase' \in Phases /\ failure' \in Failures
      BY DEF Phases, Failures
    <2> QED
      BY <2>1, <2>2 DEF TypeOK
  <1>2. LoopInv' /\ StageInv' /\ PoolInv' /\ RecordInv' /\ EndInv'
    BY DEF LoopInv, StageInv, PoolInv, RecordInv, EndInv, PoolIdle
  <1>3. FilesInv'
    BY DEF FilesInv, StageInv, InputsReady, HasDivergence
  <1>4. OutputInv'
    BY DEF OutputInv, RunsInProcess, HasDivergence
  <1>5. FailureInv'
    BY DEF FailureInv
  <1>6. VerifierInv'
    BY DEF VerifierInv, HasDivergence, Verifying, AgreesAt
  <1> QED
    BY <1>1, <1>2, <1>3, <1>4, <1>5, <1>6 DEF IInv

LEMMA FailFileInv == IInv /\ FailFile => IInv'
  <1> SUFFICES ASSUME IInv, FailFile PROVE IInv'
    OBVIOUS
  <1> USE ChainRunnerAssumption DEF IInv, FailFile, Stage, NoStage, Abort,
          runVars, poolVars, verifierVars
  <1>1. TypeOK'
    BY DEF TypeOK, Phases, Failures
  <1>2. LoopInv' /\ StageInv' /\ PoolInv' /\ RecordInv' /\ EndInv'
    BY DEF LoopInv, StageInv, PoolInv, RecordInv, EndInv, PoolIdle
  <1>3. FilesInv'
    BY DEF FilesInv, StageInv, InputsReady, HasDivergence
  <1>4. OutputInv'
    BY DEF OutputInv, RunsInProcess, HasDivergence
  <1>5. FailureInv'
    BY DEF FailureInv
  <1>6. VerifierInv'
    BY DEF VerifierInv, HasDivergence, Verifying, AgreesAt
  <1> QED
    BY <1>1, <1>2, <1>3, <1>4, <1>5, <1>6 DEF IInv

LEMMA StartWaveInv == IInv /\ StartWave => IInv'
  <1> SUFFICES ASSUME IInv, StartWave PROVE IInv'
    OBVIOUS
  <1> USE ChainRunnerAssumption DEF IInv, StartWave, Stage, NoStage, Abort,
          runVars, verifierVars, JobStages
  <1>1. TypeOK'
    <2>1. waveEnd' \in {NoStage} \cup 2 .. NumStages + 1
      BY DEF TypeOK, IsAuxWave
    <2>2. cur' \in Stage \cup {NoStage} /\ queued' \subseteq Stage
      <3>1. PICK e \in 1 .. NumStages + 1 :
              IF \A i \in next .. (e - 1) : InputsReady(i)
              THEN /\ queued' = (next .. (e - 1)) \ {mode.reference}
                   /\ IF mode.reference \in next .. (e - 1)
                      THEN cur' = mode.reference
                      ELSE cur' = cur
              ELSE cur' = cur /\ queued' = queued
        OBVIOUS
      <3>2. next .. (e - 1) \subseteq Stage
        BY DEF TypeOK
      <3> QED
        BY <3>1, <3>2 DEF TypeOK
    <2>3. phase' \in Phases /\ failure' \in Failures
      BY DEF TypeOK, Phases, Failures
    <2> QED
      BY <2>1, <2>2, <2>3 DEF TypeOK
  <1>2. LoopInv' /\ RecordInv' /\ EndInv'
    BY DEF LoopInv, RecordInv, EndInv, PoolIdle
  <1>3. InWave' \/ phase' = "failed"
    <2>1. PICK e \in 1 .. NumStages + 1 :
            /\ IsAuxWave(next, e)
            /\ IF \A i \in next .. (e - 1) : InputsReady(i)
               THEN waveEnd' = e
               ELSE phase' = "failed"
      OBVIOUS
    <2>2. IsAuxWave(next, e)'
      BY <2>1 DEF IsAuxWave
    <2> QED
      BY <2>1, <2>2 DEF InWave, WaveStages, InputsReady, TypeOK
  <1>4. StageInv'
    BY <1>3 DEF StageInv, LoopInv, PoolIdle, WaveStages, WaveJobs, JobStages, InputsReady, TypeOK
  <1>5. PoolInv'
    BY <1>3 DEF PoolInv, LoopInv, PoolIdle, WaveStages, WaveJobs, JobStages, TypeOK
  <1>6. FilesInv'
    BY DEF FilesInv, LoopInv, InputsReady, HasDivergence
  <1>7. OutputInv'
    BY DEF OutputInv, RunsInProcess, HasDivergence
  <1>8. FailureInv'
    <2>1. PICK e \in 1 .. NumStages + 1 :
            /\ IsAuxWave(next, e)
            /\ IF \A i \in next .. (e - 1) : InputsReady(i)
               THEN phase' # "failed" /\ failure' = failure
               ELSE phase' = "failed" /\ failure' = "inputs_not_ready"
      OBVIOUS
    <2>2. failure = "none" /\ mode' = mode
      BY DEF FailureInv
    <2>3. ASSUME NEW i \in next .. (e - 1), ~InputsReady(i) PROVE ~WellFormed(mode.chain)
      <3>1. i \in Stage /\ next \in Nat /\ e \in Nat
        BY DEF TypeOK
      <3>2. PICK p \in mode.chain.producers[i] : p \notin committed
        BY <2>3 DEF InputsReady
      <3>3. committed = 1 .. (next - 1)
        BY DEF LoopInv
      <3>4. next .. (e - 1) \subseteq mode.chain.aux
        BY <2>1 DEF IsAuxWave
      <3>5. p \in 1 .. (i - 1) => p .. i \subseteq mode.chain.aux
        BY <3>1, <3>2, <3>3, <3>4
      <3> QED
        BY <3>1, <3>2, <3>5 DEF WellFormed
    <2> QED
      BY <2>1, <2>2, <2>3 DEF FailureInv
  <1>9. VerifierInv'
    BY DEF VerifierInv, HasDivergence, Verifying, AgreesAt
  <1> QED
    BY <1>1, <1>2, <1>4, <1>5, <1>6, <1>7, <1>8, <1>9 DEF IInv

LEMMA LaunchJobInv == ASSUME NEW i \in Stage, IInv, LaunchJob(i) PROVE IInv'
  <1> USE ChainRunnerAssumption DEF IInv, LaunchJob, Stage, NoStage,
          runVars, verifierVars
  <1>1. TypeOK'
    BY DEF TypeOK
  <1>2. LoopInv' /\ StageInv' /\ RecordInv' /\ EndInv'
    BY DEF LoopInv, StageInv, RecordInv, EndInv
  <1>3. PoolInv'
    BY DEF PoolInv, InWave, IsAuxWave, WaveStages, WaveJobs, JobStages, InputsReady
  <1>4. FilesInv'
    BY DEF FilesInv, PoolInv, InWave, WaveStages, WaveJobs, JobStages, InputsReady, HasDivergence
  <1>5. OutputInv'
    BY DEF OutputInv, RunsInProcess, HasDivergence
  <1>6. FailureInv'
    BY DEF FailureInv
  <1>7. VerifierInv'
    BY DEF VerifierInv, HasDivergence, Verifying, AgreesAt
  <1> QED
    BY <1>1, <1>2, <1>3, <1>4, <1>5, <1>6, <1>7 DEF IInv

LEMMA FinishJobInv == ASSUME NEW i \in Stage, IInv, FinishJob(i) PROVE IInv'
  <1> USE ChainRunnerAssumption DEF IInv, FinishJob, Stage, NoStage,
          runVars, verifierVars
  <1>1. TypeOK'
    BY DEF TypeOK
  <1>2. LoopInv' /\ StageInv' /\ RecordInv' /\ EndInv'
    BY DEF LoopInv, StageInv, RecordInv, EndInv
  <1>3. PoolInv'
    BY DEF PoolInv, InWave, IsAuxWave, WaveStages, WaveJobs, JobStages, InputsReady
  <1>4. FilesInv'
    BY DEF FilesInv, PoolInv, InWave, WaveStages, WaveJobs, JobStages, InputsReady, HasDivergence
  <1>5. OutputInv'
    BY DEF OutputInv, RunsInProcess, HasDivergence
  <1>6. FailureInv'
    BY DEF FailureInv
  <1>7. VerifierInv'
    BY DEF VerifierInv, HasDivergence, Verifying, AgreesAt
  <1> QED
    BY <1>1, <1>2, <1>3, <1>4, <1>5, <1>6, <1>7 DEF IInv

LEMMA FailJobInv == ASSUME NEW i \in Stage, IInv, FailJob(i) PROVE IInv'
  <1> USE ChainRunnerAssumption DEF IInv, FailJob, Stage, NoStage,
          runVars, verifierVars
  <1>1. TypeOK'
    BY DEF TypeOK
  <1>2. LoopInv' /\ StageInv' /\ RecordInv' /\ EndInv'
    BY DEF LoopInv, StageInv, RecordInv, EndInv
  <1>3. PoolInv'
    BY DEF PoolInv, InWave, IsAuxWave, WaveStages, WaveJobs, JobStages, InputsReady
  <1>4. FilesInv'
    BY DEF FilesInv, PoolInv, InWave, WaveStages, WaveJobs, JobStages, InputsReady, HasDivergence
  <1>5. OutputInv'
    BY DEF OutputInv, RunsInProcess, HasDivergence
  <1>6. FailureInv'
    BY DEF FailureInv
  <1>7. VerifierInv'
    BY DEF VerifierInv, HasDivergence, Verifying, AgreesAt
  <1> QED
    BY <1>1, <1>2, <1>3, <1>4, <1>5, <1>6, <1>7 DEF IInv

LEMMA JoinPoolInv == IInv /\ JoinPool => IInv'
  <1> SUFFICES ASSUME IInv, JoinPool PROVE IInv'
    OBVIOUS
  <1> USE ChainRunnerAssumption DEF IInv, JoinPool, Stage, NoStage, Abort,
          runVars, poolVars, verifierVars
  <1>1. TypeOK'
    BY DEF TypeOK, Phases, Failures
  <1>2. LoopInv' /\ StageInv' /\ PoolInv' /\ EndInv'
    BY DEF LoopInv, StageInv, PoolInv, EndInv
  <1>3. RecordInv'
    <2> SUFFICES ASSUME phase' = "record" PROVE RecordInv'
      BY DEF RecordInv
    <2>1. queued = {} /\ running = {} /\ ~poolFailed /\ finished = WaveJobs
      BY DEF PoolInv
    <2>2. InWave /\ InWave'
      BY DEF PoolInv, InWave, IsAuxWave, WaveStages, InputsReady
    <2>3. committed = 1 .. (next - 1) \cup (WaveStages \cap {mode.reference})
      BY DEF PoolInv
    <2>4. finished \cap committed = {}
      BY <2>1, <2>3 DEF WaveJobs, JobStages, WaveStages, TypeOK
    <2>5. committed \cup finished = 1 .. (next - 1) \cup WaveStages
      BY <2>1, <2>3 DEF WaveJobs, WaveStages, JobStages
    <2>6. 1 .. (next - 1) \cup WaveStages = 1 .. (waveEnd - 1)
      BY <2>2 DEF WaveStages, InWave, IsAuxWave, TypeOK
    <2> QED
      BY <2>1, <2>2, <2>4, <2>5, <2>6 DEF RecordInv, PoolInv, WaveJobs, JobStages, WaveStages
  <1>4. FilesInv'
    BY DEF FilesInv, PoolInv, InputsReady, HasDivergence
  <1>5. OutputInv'
    BY DEF OutputInv, RunsInProcess, HasDivergence
  <1>6. FailureInv'
    BY DEF FailureInv
  <1>7. VerifierInv'
    BY DEF VerifierInv, HasDivergence, Verifying, AgreesAt
  <1> QED
    BY <1>1, <1>2, <1>3, <1>4, <1>5, <1>6, <1>7 DEF IInv

LEMMA EndWaveInv == IInv /\ EndWave => IInv'
  <1> SUFFICES ASSUME IInv, EndWave PROVE IInv'
    OBVIOUS
  <1> USE ChainRunnerAssumption DEF IInv, EndWave, Stage, NoStage, Abort,
          runVars, poolVars, verifierVars
  <1>1. WaveStages \subseteq committed
    BY DEF RecordInv, InWave, IsAuxWave, WaveStages, TypeOK
  <1>2. TypeOK'
    <2>1. next' \in 1 .. NumStages + 1 /\ waveEnd' \in {NoStage} \cup 2 .. NumStages + 1
      BY <1>1 DEF TypeOK, RecordInv, InWave, IsAuxWave
    <2>2. phase' \in Phases /\ failure' \in Failures
      BY <1>1 DEF TypeOK, Phases, Failures
    <2> QED
      BY <2>1, <2>2 DEF TypeOK
  <1>3. LoopInv'
    BY <1>1 DEF LoopInv, RecordInv, PoolIdle
  <1>4. StageInv' /\ PoolInv' /\ RecordInv' /\ EndInv'
    BY <1>1 DEF StageInv, PoolInv, RecordInv, EndInv
  <1>5. FilesInv'
    BY <1>1 DEF FilesInv, InputsReady, HasDivergence
  <1>6. OutputInv'
    <2>1. waveEnd - 1 \in mode.chain.aux /\ next' = waveEnd /\ phase' = "loop"
      BY <1>1 DEF RecordInv, InWave, IsAuxWave, TypeOK
    <2>2. mode.reference \in committed => selected = mode.reference
      BY DEF OutputInv
    <2> QED
      BY <2>1, <2>2 DEF OutputInv
  <1>7. FailureInv'
    BY <1>1 DEF FailureInv
  <1>8. VerifierInv'
    BY <1>1 DEF VerifierInv, HasDivergence, Verifying, AgreesAt
  <1> QED
    BY <1>2, <1>3, <1>4, <1>5, <1>6, <1>7, <1>8 DEF IInv

(* Observing the next checkpoint keeps the verifier's invariant. *)
LEMMA ObserveInv ==
  ASSUME TypeOK, VerifierInv, NEW i \in Stage, ObserveCheckpoint(i),
         mode' = mode, committed' = committed \cup {i},
         phase \notin {"finish", "done"}, phase' # "done",
         Verifying => i = Len(recomputed) + 1,
         divergence' # NoDivergence => phase' = "finish"
  PROVE  /\ recomputed' \in Seq(Stage)
         /\ divergence' \in Divergence \cup {NoDivergence}
         /\ VerifierInv'
         /\ ~Verifying => divergence' = NoDivergence
  <1> USE ChainRunnerAssumption DEF Stage, NoStage
  <1>1. ASSUME ~Verifying
        PROVE  /\ recomputed' \in Seq(Stage) /\ divergence' = NoDivergence
               /\ VerifierInv'
    BY <1>1 DEF ObserveCheckpoint, verifierVars, VerifierInv, HasDivergence, Verifying,
                TypeOK
  <1>2. ASSUME Verifying
        PROVE  /\ recomputed' \in Seq(Stage)
               /\ divergence' \in Divergence \cup {NoDivergence}
               /\ VerifierInv'
    <2>1. ~HasDivergence
      BY <1>2 DEF VerifierInv
    <2>2. /\ recomputed' = Append(recomputed, i)
          /\ divergence' = Compare(mode.claimed, i)
      BY <1>2, <2>1 DEF ObserveCheckpoint, InOrder
    <2>3. recomputed \in Seq(1 .. NumStages) /\ mode.claimed \in Seq(Hashes)
      BY ModeParts DEF TypeOK
    <2>4. /\ recomputed' \in Seq(Stage)
          /\ Len(recomputed') = i
          /\ recomputed'[i] = i
          /\ \A k \in 1 .. (i - 1) : recomputed'[k] = recomputed[k]
      BY <1>2, <2>2, <2>3
    <2>5. committed' = 1 .. Len(recomputed')
      BY <1>2, <2>3, <2>4 DEF VerifierInv
    <2>6. \A k \in 1 .. Len(recomputed') : recomputed'[k] = k
      BY <1>2, <2>3, <2>4 DEF VerifierInv
    <2>7. \A k \in 1 .. (i - 1) : AgreesAt(k) /\ AgreesAt(k)'
      BY <1>2, <2>1, <2>3 DEF VerifierInv, AgreesAt
    <2>8. /\ divergence' \in Divergence \cup {NoDivergence}
          /\ divergence' # NoDivergence => divergence'.index = i
          /\ divergence' = NoDivergence => AgreesAt(i)'
      BY <2>2, <2>3, CompareIsDivergence DEF AgreesAt
    <2>9. \A k \in 1 .. Len(recomputed') :
            k < Len(recomputed') \/ divergence' = NoDivergence
              \/ divergence'.index = Len(recomputed') + 1 => AgreesAt(k)'
      BY <2>4, <2>7, <2>8
    <2>10. divergence' # NoDivergence =>
             /\ phase' = "finish" /\ Len(recomputed') > 0
             /\ divergence' = Compare(mode'.claimed, Len(recomputed'))
      BY <2>2, <2>4
    <2> QED
      BY <1>2, <2>4, <2>5, <2>6, <2>8, <2>9, <2>10 DEF VerifierInv, HasDivergence, Verifying
  <1> QED
    BY <1>1, <1>2

LEMMA CompleteStageInv == IInv /\ CompleteStage => IInv'
  <1> SUFFICES ASSUME IInv, CompleteStage PROVE IInv'
    OBVIOUS
  <1> USE ChainRunnerAssumption DEF IInv, CompleteStage, Stage, NoStage, Abort, poolVars,
          ResultOf, SelectedBy, Diverges
  <1>1. /\ cur \in Stage /\ committed = 1 .. (next - 1) /\ InputsReady(cur)
        /\ waveEnd = NoStage => cur = next /\ queued = {}
        /\ waveEnd # NoStage => InWave /\ cur = mode.reference /\ cur \in WaveStages
                               /\ queued = WaveJobs
        /\ running = {} /\ finished = {} /\ ~poolFailed
    BY DEF StageInv
  <1>2. Verifying => ~HasDivergence /\ waveEnd = NoStage /\ cur = Len(recomputed) + 1
    BY <1>1, ModeParts DEF TypeOK, VerifierInv
  <1>3. InOrder(cur)
    BY <1>2 DEF InOrder
  <1>4. /\ recomputed' \in Seq(Stage)
        /\ divergence' \in Divergence \cup {NoDivergence}
        /\ VerifierInv'
        /\ ~Verifying => divergence' = NoDivergence
    BY <1>1, <1>2, <1>3, ObserveInv
  <1>5. TypeOK'
    <2>1. /\ committed' \subseteq Stage /\ timed' \subseteq Stage /\ onDisk' \subseteq Stage
          /\ selected' \in Stage \cup {NoStage}
      BY <1>1 DEF TypeOK
    <2>2. cached' \subseteq Stage /\ lastOutput' \in Stage \cup {NoStage}
      BY <1>1 DEF TypeOK
    <2>3. next' \in 1 .. NumStages + 1
      BY <1>1, <1>3 DEF TypeOK
    <2>4. phase' \in Phases /\ failure' \in Failures
      BY <1>3 DEF TypeOK, Phases, Failures
    <2> QED
      BY <1>4, <2>1, <2>2, <2>3, <2>4 DEF TypeOK
  <1>6. LoopInv'
    BY <1>1, <1>3 DEF LoopInv, PoolIdle, TypeOK
  <1>7. StageInv' /\ RecordInv' /\ EndInv'
    BY <1>1, <1>3 DEF StageInv, RecordInv, EndInv, HasDivergence
  <1>8. PoolInv'
    <2> SUFFICES ASSUME phase' = "pool" PROVE PoolInv'
      BY DEF PoolInv
    <2>1. waveEnd # NoStage
      BY <1>3
    <2>2. InWave'
      BY <1>1, <1>3, <2>1 DEF InWave, IsAuxWave, WaveStages, InputsReady
    <2>3. /\ queued' = queued /\ running' = {} /\ finished' = {}
          /\ WaveStages' = WaveStages /\ WaveJobs' = WaveJobs
      BY <1>1, <1>3 DEF WaveStages, WaveJobs, JobStages
    <2>4. committed' = 1 .. (next' - 1) \cup (WaveStages' \cap {mode'.reference})
      BY <1>1, <1>3, <2>1, <2>3
    <2> QED
      BY <1>1, <2>1, <2>2, <2>3, <2>4 DEF PoolInv
  <1>9. FilesInv'
    <2>1. cur \notin committed
      BY <1>1 DEF WaveStages, TypeOK
    <2>2. ~timesFile
      BY <1>1, <2>1 DEF FilesInv
    <2> QED
      BY <1>1, <2>2 DEF FilesInv, InputsReady
  <1>10. OutputInv'
    <2>1. mode'.reference \in committed' => selected' = mode'.reference
      BY DEF OutputInv
    <2>2. phase' # "done"
      BY <1>3
    <2>3. phase' = "loop" => next' - 1 = cur
      BY <1>1, <1>3 DEF TypeOK
    <2>4. lastOutput' = IF RunsInProcess(cur) THEN cur ELSE NoStage
      OBVIOUS
    <2> QED
      BY <2>1, <2>2, <2>3, <2>4 DEF OutputInv, RunsInProcess
  <1>11. FailureInv'
    BY <1>3 DEF FailureInv
  <1> QED
    BY <1>4, <1>5, <1>6, <1>7, <1>8, <1>9, <1>10, <1>11 DEF IInv

LEMMA RecordResultInv == IInv /\ RecordResult => IInv'
  <1> SUFFICES ASSUME IInv, RecordResult PROVE IInv'
    OBVIOUS
  <1> USE ChainRunnerAssumption DEF IInv, Stage, NoStage, Abort
  <1>1. PICK i \in finished :
          /\ \A j \in finished : i <= j
          /\ finished' = finished \ {i}
          /\ timed' = timed \cup {i}
          /\ committed' = committed \cup {i}
          /\ ObserveCheckpoint(i)
          /\ IF ~InOrder(i)
             THEN phase' = "failed" /\ failure' = "checkpoint_order"
             ELSE /\ phase' = IF divergence' # NoDivergence THEN "finish" ELSE "record"
                  /\ UNCHANGED failure
    BY DEF RecordResult, NextResult, Diverges
  <1>2. /\ phase = "record" /\ i \in Stage /\ i \notin committed
        /\ UNCHANGED <<mode, next, cur, waveEnd, cached, lastOutput, selected, env,
                       onDisk, timesFile, queued, running, poolFailed>>
    BY <1>1 DEF RecordResult, RecordInv, TypeOK
  <1>3. Verifying => ~HasDivergence /\ i = Len(recomputed) + 1
    <2> SUFFICES ASSUME Verifying PROVE ~HasDivergence /\ i = Len(recomputed) + 1
      OBVIOUS
    <2>1. ~HasDivergence /\ committed = 1 .. Len(recomputed) /\ Len(recomputed) \in Nat
      BY <1>2 DEF VerifierInv, TypeOK
    <2>2. committed \cup finished = 1 .. (waveEnd - 1)
      BY <1>2 DEF RecordInv
    <2>3. Len(recomputed) + 1 \in finished
      BY <1>1, <1>2, <2>1, <2>2 DEF TypeOK
    <2> QED
      BY <1>1, <1>2, <2>1, <2>3 DEF TypeOK
  <1>4. InOrder(i)
    BY <1>3 DEF InOrder
  <1>5. /\ recomputed' \in Seq(Stage)
        /\ divergence' \in Divergence \cup {NoDivergence}
        /\ VerifierInv'
        /\ ~Verifying => divergence' = NoDivergence
    BY <1>1, <1>2, <1>3, <1>4, ObserveInv
  <1>6. TypeOK'
    <2>1. /\ committed' \subseteq Stage /\ timed' \subseteq Stage /\ finished' \subseteq Stage
      BY <1>1, <1>2 DEF TypeOK
    <2>2. phase' \in Phases /\ failure' \in Failures
      BY <1>1, <1>4 DEF TypeOK, Phases, Failures
    <2> QED
      BY <1>2, <1>5, <2>1, <2>2 DEF TypeOK
  <1>7. LoopInv' /\ StageInv' /\ PoolInv' /\ EndInv'
    BY <1>1, <1>2, <1>4 DEF LoopInv, StageInv, PoolInv, RecordInv, EndInv, HasDivergence
  <1>8. RecordInv'
    <2>1. InWave'
      BY <1>1, <1>2 DEF RecordInv, InWave, IsAuxWave, WaveStages, InputsReady
    <2>2. WaveJobs' = WaveJobs
      BY <1>2 DEF WaveJobs, JobStages, WaveStages
    <2> QED
      BY <1>1, <1>2, <2>1, <2>2 DEF RecordInv
  <1>9. FilesInv'
    BY <1>1, <1>2 DEF FilesInv, RecordInv, InWave, InputsReady, HasDivergence
  <1>10. OutputInv'
    <2>1. i # mode.reference
      BY <1>1, <1>2 DEF RecordInv, WaveJobs, JobStages
    <2> QED
      BY <1>1, <1>2, <1>4, <2>1 DEF OutputInv
  <1>11. FailureInv'
    BY <1>1, <1>2, <1>4 DEF FailureInv
  <1> QED
    BY <1>5, <1>6, <1>7, <1>8, <1>9, <1>10, <1>11 DEF IInv

LEMMA FinishRunInv == IInv /\ FinishRun => IInv'
  <1> SUFFICES ASSUME IInv, FinishRun PROVE IInv'
    OBVIOUS
  <1> USE ChainRunnerAssumption DEF IInv, FinishRun, Stage, NoStage, Abort, runVars, poolVars,
          WritesTimes
  <1>1. /\ phase = "loop" => next = NumStages + 1 /\ committed = Stage /\ timed = Stage
        /\ phase = "finish" => HasDivergence
        /\ cur = NoStage /\ running = {} /\ phase \in {"loop", "finish"}
    BY DEF LoopInv, EndInv, FilesInv, PoolIdle
  <1>2. mode.reference # NoStage => selected # NoStage
    <2>1. phase = "finish" => mode.reference = NoStage
      BY <1>1, ModeParts DEF VerifierInv, TypeOK
    <2> QED
      BY <1>1, <2>1, ModeParts DEF OutputInv, TypeOK
  <1>3. HasDivergence => FinalDivergence = divergence
    BY DEF FinalDivergence
  <1>4. /\ phase' = "done" /\ failure' = failure
        /\ timesFile' = (FinalDivergence = NoDivergence)
    BY <1>1, <1>2, <1>3 DEF HasDivergence
  <1>5. /\ Verifying /\ ~HasDivergence => Len(recomputed) = NumStages
        /\ Len(recomputed) \in Nat /\ Len(mode.claimed) \in Nat
    BY <1>1, ModeParts DEF VerifierInv, TypeOK
  <1>6. FinalDivergence \in Divergence \cup {NoDivergence}
    BY <1>5 DEF FinalDivergence, Divergence, Reasons, TypeOK
  <1>7. TypeOK'
    BY <1>4, <1>6 DEF TypeOK, Phases
  <1>8. LoopInv' /\ StageInv' /\ PoolInv' /\ RecordInv' /\ EndInv'
    BY <1>1, <1>4 DEF LoopInv, StageInv, PoolInv, RecordInv, EndInv
  <1>9. FilesInv'
    BY <1>1, <1>3, <1>4 DEF FilesInv, InputsReady, HasDivergence, LoopInv, PoolIdle
  <1>10. OutputInv'
    <2>1. divergence' = NoDivergence => phase = "loop" /\ next = NumStages + 1
      BY <1>1, <1>3 DEF HasDivergence
    <2> QED
      BY <1>4, <2>1 DEF OutputInv, HasDivergence, RunsInProcess
  <1>11. FailureInv'
    BY <1>1, <1>4 DEF FailureInv
  <1>12. VerifierInv'
    <2>1. CASE ~Verifying \/ HasDivergence
      BY <1>1, <1>3, <1>4, <2>1 DEF VerifierInv, FinalDivergence, HasDivergence, Verifying, AgreesAt
    <2>2. CASE Verifying /\ ~HasDivergence
      <3>1. /\ Len(recomputed) = NumStages
            /\ divergence' = IF NumStages + 1 <= Len(mode.claimed)
                             THEN [index |-> NumStages + 1, stage |-> NoStage,
                                   reason |-> "missing_recomputed_hash"]
                             ELSE NoDivergence
        BY <1>5, <2>2 DEF FinalDivergence, HasDivergence
      <3>2. \A k \in 1 .. NumStages : AgreesAt(k) /\ AgreesAt(k)'
        BY <2>2, <3>1 DEF VerifierInv, AgreesAt
      <3> QED
        <4>1. committed' = 1 .. Len(recomputed')
          BY <2>2 DEF VerifierInv
        <4>2. \A k \in 1 .. Len(recomputed') : recomputed'[k] = k
          BY <2>2 DEF VerifierInv
        <4>3. Verifying' /\ phase' = "done" /\ recomputed' = recomputed /\ mode' = mode
          BY <1>4, <2>2 DEF Verifying
        <4> QED
          <5>1. \A k \in 1 .. Len(recomputed') : AgreesAt(k)'
            BY <3>1, <3>2, <4>3
          <5>2. HasDivergence' =>
                  /\ Len(recomputed') = NumStages /\ Len(mode'.claimed) > NumStages
                  /\ divergence' = [index |-> NumStages + 1, stage |-> NoStage,
                                    reason |-> "missing_recomputed_hash"]
            BY <1>5, <3>1, <4>3 DEF HasDivergence
          <5>3. ~HasDivergence' =>
                  Len(recomputed') = NumStages /\ Len(mode'.claimed) <= NumStages
            BY <1>5, <3>1, <4>3 DEF HasDivergence, NoDivergence
          <5> QED
            BY <4>1, <4>2, <4>3, <5>1, <5>2, <5>3 DEF VerifierInv
    <2> QED
      BY <2>1, <2>2
  <1> QED
    BY <1>7, <1>8, <1>9, <1>10, <1>11, <1>12 DEF IInv

(* Stuttering changes nothing the invariant speaks of. *)
LEMMA StutterInv == IInv /\ UNCHANGED vars => IInv'
  <1> SUFFICES ASSUME IInv, UNCHANGED vars PROVE IInv'
    OBVIOUS
  <1> USE DEF IInv, vars, runVars, poolVars, verifierVars
  <1>1. TypeOK'
    BY DEF TypeOK
  <1>2. LoopInv' /\ StageInv' /\ PoolInv' /\ RecordInv' /\ EndInv'
    <2>1. /\ InWave' = InWave /\ WaveStages' = WaveStages /\ WaveJobs' = WaveJobs
          /\ HasDivergence' = HasDivergence /\ PoolIdle' = PoolIdle
          /\ InputsReady(cur)' = InputsReady(cur)
      BY DEF InWave, WaveStages, WaveJobs, JobStages, IsAuxWave, InputsReady, HasDivergence, PoolIdle
    <2> QED
      BY <2>1 DEF LoopInv, StageInv, PoolInv, RecordInv, EndInv
  <1>3. FilesInv' /\ OutputInv' /\ FailureInv'
    BY DEF FilesInv, OutputInv, FailureInv, InputsReady, RunsInProcess, HasDivergence
  <1>4. VerifierInv'
    BY DEF VerifierInv, HasDivergence, Verifying, AgreesAt
  <1> QED
    BY <1>1, <1>2, <1>3, <1>4 DEF IInv

(* The invariant, action by action, holds in every state of every run. *)
LEMMA NextInv == IInv /\ [Next]_vars => IInv'
  <1> SUFFICES ASSUME IInv, [Next]_vars PROVE IInv'
    OBVIOUS
  <1>1. CASE StartStage    BY <1>1, StartStageInv
  <1>2. CASE CompleteStage BY <1>2, CompleteStageInv
  <1>3. CASE FailStage     BY <1>3, FailStageInv
  <1>4. CASE StartWave     BY <1>4, StartWaveInv
  <1>5. CASE JoinPool      BY <1>5, JoinPoolInv
  <1>6. CASE RecordResult  BY <1>6, RecordResultInv
  <1>7. CASE EndWave       BY <1>7, EndWaveInv
  <1>8. CASE \E i \in Stage : LaunchJob(i) \/ FinishJob(i) \/ FailJob(i)
    BY <1>8, LaunchJobInv, FinishJobInv, FailJobInv
  <1>9. CASE FinishRun     BY <1>9, FinishRunInv
  <1>10. CASE UNCHANGED vars BY <1>10, StutterInv
  <1>11. CASE FailFile     BY <1>11, FailFileInv
  <1> QED
    BY <1>1, <1>2, <1>3, <1>4, <1>5, <1>6, <1>7, <1>8, <1>9, <1>10, <1>11
       DEF Next

(* Every run of the chain runner, on a chain of any length, keeps the      *)
(* phase, the wave, the pool, the committed prefix, the files and the      *)
(* verifier's comparison consistent with each other.                       *)
THEOREM Invariance == Spec => []IInv
  <1> QED
    BY InitInv, NextInv, PTL DEF Spec

-----------------------------------------------------------------------------
(* The safety properties that the runs check, for every chain.             *)

(* Every variable of the runner always has its type. *)
THEOREM TypeCorrect == Spec => []TypeOK
  <1>1. IInv => TypeOK
    BY DEF IInv
  <1> QED
    BY <1>1, Invariance, PTL

(* On any chain, also one whose bindings name no stage or a later one, a   *)
(* stage executes only after all the outputs it reads are committed and    *)
(* published, and the same is true of every output on disk.                *)
THEOREM StagesReadCommittedOutputs == Spec => []ReadsCommittedOutputs
  <1>1. IInv => ReadsCommittedOutputs
    <2> SUFFICES ASSUME IInv, NEW i \in Executing \cup onDisk PROVE InputsReady(i)
      BY DEF ReadsCommittedOutputs, InputsReady, IInv, FilesInv
    <2> USE DEF IInv
    <2>1. CASE i \in onDisk
      BY <2>1 DEF FilesInv
    <2>2. CASE i = cur /\ cur # NoStage
      <3>1. phase = "stage"
        BY <2>2 DEF LoopInv, PoolInv, RecordInv, EndInv, TypeOK, Phases
      <3> QED
        BY <2>2, <3>1 DEF StageInv
    <2>3. CASE i \in running
      <3>1. phase = "pool"
        BY <2>3 DEF LoopInv, PoolIdle, StageInv, RecordInv, EndInv, TypeOK, Phases
      <3> QED
        BY <2>3, <3>1 DEF PoolInv, InWave, WaveJobs, WaveStages, JobStages
    <2> QED
      BY <2>1, <2>2, <2>3 DEF Executing
  <1> QED
    BY <1>1, Invariance, PTL

(* On every well-formed chain, none of the runner's own checks ever fires: *)
(* only a stage can fail a run. *)
THEOREM FailuresAreStageFailures == Spec => []OnlyStagesFail
  <1>1. IInv => OnlyStagesFail
    BY DEF IInv, FailureInv, OnlyStagesFail
  <1> QED
    BY <1>1, Invariance, PTL

(* execution-times.json is never there for a partial or diverging run. *)
THEOREM TimesFileMeansComplete == Spec => []TimesFileIsComplete
  <1>1. IInv => TimesFileIsComplete
    BY DEF IInv, FilesInv, TimesFileIsComplete
  <1> QED
    BY <1>1, Invariance, PTL

(* What a successful run returns as its final output is the output of the  *)
(* chain's last stage, unless that stage belongs to the aux stages. *)
THEOREM FinalOutputOfLastStage == Spec => []FinalOutputIsLast
  <1>1. IInv => FinalOutputIsLast
    BY ChainRunnerAssumption DEF IInv, OutputInv, FinalOutputIsLast, TypeOK, Stage
  <1> QED
    BY <1>1, Invariance, PTL

(* In a verification, the checkpoints compared are always exactly the      *)
(* committed prefix of the chain, in chain order, in whatever order the    *)
(* jobs of the waves ended. *)
THEOREM TraceInChainOrder == Spec => []TraceIsCommittedPrefix
  <1>1. IInv => TraceIsCommittedPrefix
    BY DEF IInv, VerifierInv, TraceIsCommittedPrefix
  <1> QED
    BY <1>1, Invariance, PTL

(* The first index at which the two lists disagree determines the result   *)
(* of comparing them. *)
LEMMA FirstDivergenceAt ==
  ASSUME NEW claimed \in Seq(Hashes), NEW n \in Nat \ {0},
         n <= NumStages \/ n <= Len(claimed),
         HashReason(claimed, n) # "none",
         \A k \in 1 .. (n - 1) : HashReason(claimed, k) = "none"
  PROVE  FirstDivergence(claimed) =
           [index |-> n, stage |-> IF n \in Stage THEN n ELSE NoStage,
            reason |-> HashReason(claimed, n)]
  <1> DEFINE Longest == IF Len(claimed) > NumStages THEN Len(claimed) ELSE NumStages
             Differ == {i \in 1 .. Longest : HashReason(claimed, i) # "none"}
             first == CHOOSE i \in Differ : \A j \in Differ : i <= j
  <1>1. n \in Differ /\ Differ \subseteq Nat
    BY ChainRunnerAssumption
  <1>2. \A j \in Differ : n <= j
    BY <1>1
  <1>3. first = n
    <2>1. \E i \in Differ : \A j \in Differ : i <= j
      BY <1>1, <1>2
    <2>2. first \in Differ /\ \A j \in Differ : first <= j
      BY <2>1
    <2> HIDE DEF first
    <2>3. first <= n /\ n <= first /\ first \in Nat /\ n \in Nat
      BY <1>1, <1>2, <2>2
    <2> QED
      BY <2>3
  <1>4. Differ # {}
    BY <1>1
  <1>5. FirstDivergence(claimed) =
          IF Differ = {} THEN NoDivergence
          ELSE [index |-> first, stage |-> IF first \in Stage THEN first ELSE NoStage,
                reason |-> HashReason(claimed, first)]
    BY Zenon DEF FirstDivergence
  <1> HIDE DEF Differ, first
  <1> QED
    BY <1>3, <1>4, <1>5

LEMMA NoFirstDivergence ==
  ASSUME NEW claimed \in Seq(Hashes), Len(claimed) = NumStages,
         \A k \in Stage : HashReason(claimed, k) = "none"
  PROVE  FirstDivergence(claimed) = NoDivergence
  BY ChainRunnerAssumption DEF FirstDivergence, Stage

(* A finished verification reports the first divergence of the claimed     *)
(* list from the whole honest list, or none if they are equal. *)
THEOREM VerdictIsCorrect == Spec => []VerdictIsFirstDivergence
  <1>1. IInv => VerdictIsFirstDivergence
    <2> SUFFICES ASSUME IInv, Verifying, phase = "done"
                 PROVE  divergence = FirstDivergence(mode.claimed)
      BY DEF VerdictIsFirstDivergence
    <2> USE ChainRunnerAssumption DEF Stage, NoStage
    <2> DEFINE c == mode.claimed
               n == Len(recomputed)
    <2>1. c \in Seq(Hashes) /\ n \in Nat /\ n <= NumStages
      <3>1. recomputed \in Seq(1 .. NumStages) /\ committed = 1 .. n /\ committed \subseteq 1 .. NumStages
        BY DEF IInv, TypeOK, VerifierInv
      <3>2. n \in Nat /\ n <= NumStages
        BY <3>1
      <3>3. mode \in Mode /\ IsMode(mode)
        BY DEF IInv, TypeOK
      <3>4. c \in Seq(Hashes)
        BY <3>3, ModeParts
      <3> QED
        BY <3>2, <3>4
    <2>2. \A k \in Stage : AgreesAt(k) <=> HashReason(c, k) = "none"
      BY <2>1 DEF AgreesAt, HashReason
    <2>3. CASE divergence = NoDivergence
      <3>1. n = NumStages /\ Len(c) <= NumStages /\ \A k \in 1 .. n : AgreesAt(k)
        BY <2>3 DEF IInv, VerifierInv, HasDivergence
      <3>2. Len(c) = NumStages
        BY <2>1, <3>1 DEF AgreesAt
      <3> QED
        BY <2>1, <2>2, <2>3, <3>1, <3>2, NoFirstDivergence
    <2>4. CASE n > 0 /\ divergence = Compare(c, n) /\ divergence # NoDivergence
      <3>1. n \in Stage /\ divergence.index = n /\ ~AgreesAt(n)
        BY <2>1, <2>4, CompareIsDivergence DEF AgreesAt
      <3>2. \A k \in 1 .. (n - 1) : AgreesAt(k)
        BY <2>1 DEF IInv, VerifierInv
      <3>3. Compare(c, n) = [index |-> n, stage |-> n, reason |-> HashReason(c, n)]
        BY <2>1, <2>4, <3>1 DEF Compare, HashReason, AgreesAt
      <3> QED
        BY <2>1, <2>2, <2>4, <3>1, <3>2, <3>3, FirstDivergenceAt
    <2>5. CASE /\ n = NumStages /\ Len(c) > NumStages
               /\ divergence = [index |-> NumStages + 1, stage |-> NoStage,
                                reason |-> "missing_recomputed_hash"]
      <3>1. \A k \in 1 .. NumStages : AgreesAt(k)
        BY <2>1, <2>5 DEF IInv, VerifierInv
      <3>2. HashReason(c, NumStages + 1) = "missing_recomputed_hash"
        BY <2>1, <2>5 DEF HashReason
      <3> QED
        BY <2>1, <2>2, <2>5, <3>1, <3>2, FirstDivergenceAt
    <2> QED
      BY <2>3, <2>4, <2>5 DEF IInv, VerifierInv, HasDivergence
  <1> QED
    BY <1>1, Invariance, PTL

(* Once a divergence is known, no step starts a stage, commits one, adds   *)
(* to the trace or changes the divergence. *)
THEOREM DivergenceStopsTheRun == Spec => StopsAtDivergence
  <1>1. ASSUME IInv, [Next]_vars, HasDivergence
        PROVE  /\ running' \subseteq running /\ cur' \in {cur, NoStage}
               /\ committed' = committed /\ recomputed' = recomputed
               /\ divergence' = divergence
    <2>1. phase \in {"finish", "done"}
      BY <1>1 DEF IInv, VerifierInv
    <2>2. CASE FinishRun
      BY <1>1, <2>2 DEF FinishRun, FinalDivergence, runVars, poolVars
    <2>3. CASE UNCHANGED vars
      BY <2>3 DEF vars, runVars, poolVars, verifierVars
    <2>4. ~StartStage /\ ~CompleteStage /\ ~FailStage /\ ~FailFile /\ ~StartWave /\ ~JoinPool
      BY <2>1 DEF StartStage, CompleteStage, FailStage, FailFile, StartWave, JoinPool
    <2>5. ~RecordResult /\ ~EndWave
      BY <2>1 DEF RecordResult, EndWave
    <2>6. \A i \in Stage : ~LaunchJob(i) /\ ~FinishJob(i) /\ ~FailJob(i)
      BY <2>1 DEF LaunchJob, FinishJob, FailJob
    <2> QED
      BY <1>1, <2>2, <2>3, <2>4, <2>5, <2>6 DEF Next
  <1> QED
    BY <1>1, Invariance, PTL DEF Spec, StopsAtDivergence

-----------------------------------------------------------------------------
(* No stage is executed again over its own output.                         *)

(* Which outputs are on disk while the run goes on. *)
DiskInv ==
  /\ phase \in {"loop", "stage"} => onDisk = committed
  /\ phase = "pool" =>
       /\ onDisk \cap (queued \cup running) = {}
       /\ ~poolFailed => onDisk = committed \cup finished
  /\ phase = "record" => onDisk = committed \cup finished

LEMMA DiskInvStep == IInv /\ DiskInv /\ [Next]_vars => DiskInv'
  <1> SUFFICES ASSUME IInv, DiskInv, [Next]_vars PROVE DiskInv'
    OBVIOUS
  <1> USE ChainRunnerAssumption DEF DiskInv, Abort, Stage, NoStage, runVars, poolVars,
          verifierVars
  <1>1. CASE StartStage
    BY <1>1 DEF StartStage
  <1>2. CASE CompleteStage
    <2>1. onDisk' = committed' /\ finished = {} /\ running = {} /\ UNCHANGED poolVars
      BY <1>2 DEF CompleteStage, IInv, StageInv
    <2>2. phase' = "pool" => queued = WaveJobs /\ cur = mode.reference /\ InWave
      BY <1>2 DEF CompleteStage, IInv, StageInv
    <2>3. phase' = "pool" => onDisk' \cap queued = {}
      BY <1>2, <2>1, <2>2 DEF CompleteStage, IInv, StageInv, WaveJobs, JobStages, WaveStages, TypeOK
    <2>4. phase' # "record"
      BY <1>2 DEF CompleteStage
    <2> QED
      BY <2>1, <2>3, <2>4
  <1>3. CASE FailStage
    BY <1>3 DEF FailStage
  <1>13. CASE FailFile
    BY <1>13 DEF FailFile
  <1>4. CASE StartWave
    <2>1. onDisk = 1 .. (next - 1) /\ finished = {} /\ running = {}
      BY <1>4 DEF StartWave, IInv, LoopInv, PoolIdle
    <2>2. phase' = "pool" => \A i \in queued' : i >= next
      BY <1>4 DEF StartWave, JobStages, IInv, TypeOK
    <2>3. phase' # "record" /\ UNCHANGED <<onDisk, committed, running, finished>>
      BY <1>4 DEF StartWave
    <2> QED
      BY <1>4, <2>1, <2>2, <2>3 DEF IInv, TypeOK, StartWave
  <1>5. CASE JoinPool
    BY <1>5 DEF JoinPool
  <1>6. CASE RecordResult
    <2>1. onDisk' = committed' \cup finished' /\ phase' \in {"record", "finish", "failed"}
      BY <1>6 DEF RecordResult
    <2> QED
      BY <2>1
  <1>7. CASE EndWave
    BY <1>7 DEF EndWave
  <1>8. ASSUME NEW i \in Stage, LaunchJob(i) PROVE DiskInv'
    BY <1>8 DEF LaunchJob
  <1>9. ASSUME NEW i \in Stage, FinishJob(i) PROVE DiskInv'
    BY <1>9 DEF FinishJob, IInv, PoolInv
  <1>10. ASSUME NEW i \in Stage, FailJob(i) PROVE DiskInv'
    BY <1>10 DEF FailJob, IInv, PoolInv
  <1>11. CASE FinishRun
    BY <1>11 DEF FinishRun
  <1>12. CASE UNCHANGED vars
    BY <1>12 DEF vars
  <1> QED
    BY <1>1, <1>2, <1>3, <1>4, <1>5, <1>6, <1>7, <1>8, <1>9, <1>10, <1>11, <1>12, <1>13
       DEF Next

(* A stage whose output is on disk or committed is never started, neither  *)
(* in the loop nor as the reference stage nor as a job of a wave. *)
THEOREM StagesRunOnce == Spec => NoStageRunsTwice
  <1>1. Init => DiskInv
    BY DEF Init, DiskInv
  <1>2. ASSUME IInv, DiskInv, [Next]_vars,
               NEW i \in Stage, i \in running' \cup {cur'}, i \notin Executing
        PROVE  i \notin onDisk \cup committed
    <2> USE ChainRunnerAssumption DEF IInv, DiskInv, Abort, Stage, NoStage, Executing
    <2>1. CASE StartStage
      BY <1>2, <2>1 DEF StartStage, LoopInv, TypeOK, poolVars
    <2>2. CASE StartWave
      <3>1. i \in running' => i \in running
        BY <2>2 DEF StartWave
      <3>2. cur = NoStage /\ onDisk = 1 .. (next - 1) /\ committed = onDisk
        <4>1. phase = "loop"
          BY <2>2 DEF StartWave
        <4> QED
          BY <1>2, <4>1 DEF LoopInv
      <3>3. cur' # NoStage => cur' >= next
        <4>1. PICK e \in 1 .. NumStages + 1 :
                IF \A k \in next .. (e - 1) : InputsReady(k)
                THEN IF mode.reference \in next .. (e - 1)
                     THEN cur' = mode.reference
                     ELSE cur' = cur
                ELSE cur' = cur
          BY <2>2 DEF StartWave
        <4> QED
          BY <3>2, <4>1 DEF TypeOK
      <3> QED
        BY <1>2, <3>1, <3>2, <3>3 DEF TypeOK
    <2>3. ASSUME NEW j \in Stage, LaunchJob(j) PROVE i \notin onDisk \cup committed
      BY <1>2, <2>3 DEF LaunchJob, FilesInv
    <2>4. CASE \/ CompleteStage \/ FailStage \/ FailFile \/ JoinPool \/ RecordResult \/ EndWave
               \/ FinishRun \/ UNCHANGED vars
      <3>1. running' = running /\ cur' \in {cur, NoStage}
        BY <2>4 DEF CompleteStage, FailStage, FailFile, JoinPool, RecordResult, EndWave, FinishRun,
                    vars, poolVars
      <3> QED
        BY <1>2, <3>1
    <2>5. ASSUME NEW j \in Stage, FinishJob(j) \/ FailJob(j)
          PROVE  i \notin onDisk \cup committed
      BY <1>2, <2>5 DEF FinishJob, FailJob
    <2> QED
      BY <1>2, <2>1, <2>2, <2>3, <2>4, <2>5 DEF Next
  <1>3. IInv /\ DiskInv /\ [Next]_vars =>
          [\A i \in Stage : i \in running' \cup {cur'} /\ i \notin Executing =>
             i \notin onDisk \cup committed]_vars
    BY <1>2
  <1> QED
    BY <1>1, <1>3, Invariance, DiskInvStep, PTL DEF Spec, NoStageRunsTwice

-----------------------------------------------------------------------------
(* The jobs of a wave and the workers of their pool.                       *)

PoolBound == Cardinality(running) <= AuxParallelism(Cardinality(WaveJobs))

LEMMA WorkersAreNat ==
  ASSUME NEW jobs \in Nat
  PROVE  AuxParallelism(jobs) \in Nat
  BY ChainRunnerAssumption DEF AuxParallelism, Clamp

LEMMA StageSetsAreFinite ==
  ASSUME NEW S \in SUBSET Stage
  PROVE  IsFiniteSet(S) /\ Cardinality(S) \in Nat
  <1>1. IsFiniteSet(1 .. NumStages)
    BY ChainRunnerAssumption, FS_Interval
  <1> QED
    BY <1>1, FS_Subset, FS_CardinalityType DEF Stage

LEMMA WaveJobsAreStages ==
  ASSUME TypeOK
  PROVE  WaveJobs \in SUBSET Stage
  <1>1. waveEnd \in 0 .. NumStages + 1 /\ next \in 1 .. NumStages + 1
    BY ChainRunnerAssumption DEF TypeOK, NoStage
  <1> QED
    BY <1>1, ChainRunnerAssumption DEF WaveJobs, JobStages, WaveStages, Stage

LEMMA PoolBoundStep == IInv /\ PoolBound /\ [Next]_vars => PoolBound'
  <1> SUFFICES ASSUME IInv, PoolBound, [Next]_vars PROVE PoolBound'
    OBVIOUS
  <1>1. IInv'
    BY NextInv
  <1>2. /\ Cardinality(WaveJobs') \in Nat
        /\ AuxParallelism(Cardinality(WaveJobs')) \in Nat
    <2>1. WaveJobs' \in SUBSET Stage
      <3>1. waveEnd' \in 0 .. NumStages + 1 /\ next' \in 1 .. NumStages + 1
        BY <1>1, ChainRunnerAssumption DEF IInv, TypeOK, NoStage
      <3> QED
        BY <3>1, ChainRunnerAssumption DEF WaveJobs, JobStages, WaveStages, Stage
    <2> QED
      BY <2>1, StageSetsAreFinite, WorkersAreNat
  <1>3. ASSUME running' = {} PROVE PoolBound'
    BY <1>2, <1>3, FS_EmptySet DEF PoolBound, AuxParallelism
  <1>4. ASSUME NEW S \in SUBSET running, running' = S, UNCHANGED <<mode, next, waveEnd>>
        PROVE  PoolBound'
    <2>1. IsFiniteSet(running) /\ Cardinality(running) \in Nat
      BY StageSetsAreFinite DEF IInv, TypeOK
    <2>2. Cardinality(S) <= Cardinality(running) /\ Cardinality(S) \in Nat
      BY <2>1, FS_Subset, FS_CardinalityType
    <2>3. WaveJobs' = WaveJobs
      BY <1>4 DEF WaveJobs, JobStages, WaveStages
    <2> QED
      BY <1>2, <1>4, <2>1, <2>2, <2>3 DEF PoolBound, AuxParallelism
  <1>5. ASSUME NEW i \in Stage, LaunchJob(i) PROVE PoolBound'
    <2>1. IsFiniteSet(running) /\ Cardinality(running) \in Nat
      BY StageSetsAreFinite DEF IInv, TypeOK
    <2>2. WaveJobs' = WaveJobs
      BY <1>5 DEF LaunchJob, WaveJobs, JobStages, WaveStages
    <2>3. Cardinality(running') <= Cardinality(running) + 1 /\ Cardinality(running') \in Nat
      <3>1. running' = running \cup {i}
        BY <1>5 DEF LaunchJob
      <3>2. /\ IsFiniteSet(running \cup {i})
            /\ \/ Cardinality(running \cup {i}) = Cardinality(running)
               \/ Cardinality(running \cup {i}) = Cardinality(running) + 1
        BY <2>1, FS_AddElement
      <3> QED
        BY <2>1, <3>1, <3>2
    <2> QED
      BY <1>2, <1>5, <2>1, <2>2, <2>3 DEF PoolBound, LaunchJob, WorkerFree, AuxParallelism
  <1>6. CASE StartStage \/ CompleteStage \/ FailStage \/ StartWave
    <2>1. running = {} /\ running' = running
      BY <1>6 DEF StartStage, CompleteStage, FailStage, StartWave, IInv, LoopInv, StageInv,
                  PoolIdle, poolVars
    <2> QED
      BY <1>3, <2>1
  <1>7. CASE FailFile \/ JoinPool \/ RecordResult \/ EndWave \/ FinishRun
    <2>1. running = {} /\ running' = running
      BY <1>7 DEF FailFile, JoinPool, RecordResult, EndWave, FinishRun, IInv, LoopInv, EndInv,
                  RecordInv, PoolIdle, poolVars
    <2> QED
      BY <1>3, <2>1
  <1>8. ASSUME NEW i \in Stage, FinishJob(i) \/ FailJob(i) PROVE PoolBound'
    BY <1>4, <1>8 DEF FinishJob, FailJob
  <1>9. CASE UNCHANGED vars
    BY <1>4, <1>9 DEF vars, poolVars
  <1> QED
    BY <1>5, <1>6, <1>7, <1>8, <1>9 DEF Next

(* Jobs run only while the runner waits for their pool, never more than    *)
(* the pool has workers, and never while the process environment belongs   *)
(* to an in-process stage; this for every parallelism requested. *)
THEOREM JobsAreBounded == Spec => []JobsStayInTheirPool
  <1>1. Init => PoolBound
    <2> SUFFICES ASSUME Init PROVE PoolBound
      OBVIOUS
    <2>1. running = {} /\ TypeOK
      BY InitInv DEF Init, IInv
    <2> QED
      BY <2>1, WaveJobsAreStages, StageSetsAreFinite, WorkersAreNat, FS_EmptySet DEF PoolBound
  <1>2. IInv /\ PoolBound => JobsStayInTheirPool
    <2> SUFFICES ASSUME IInv, PoolBound PROVE JobsStayInTheirPool
      OBVIOUS
    <2>1. running # {} => phase = "pool" /\ cur = NoStage
      BY DEF IInv, LoopInv, PoolIdle, StageInv, PoolInv, RecordInv, EndInv, TypeOK, Phases
    <2>2. env # NoStage => phase = "stage" /\ env = cur
      BY DEF IInv, FilesInv
    <2> QED
      BY <2>1, <2>2 DEF JobsStayInTheirPool, PoolBound
  <1> QED
    BY <1>1, <1>2, Invariance, PoolBoundStep, PTL DEF Spec

-----------------------------------------------------------------------------
(* Refinement.                                                             *)

(* A run, with its waves, its pool, its files and its failures, implements *)
(* the sequential comparison of HashVerification if it verifies a claim,   *)
(* and gives no verdict if it does not: initial states map to initial      *)
(* states, and every step to a step of the comparison or to a stutter. *)
THEOREM RunnerImplementsVerification == Spec => Verification!Spec
  <1> USE ChainRunnerAssumption DEF Stage, NoStage, Verifying
  <1>1. Init => Verification!Init
    <2> SUFFICES ASSUME Init PROVE Verification!Init
      OBVIOUS
    <2>1. /\ recomputed = <<>> /\ divergence = NoDivergence /\ phase = "loop"
          /\ mode.claimed \in ClaimedLists \cup {<<>>}
      BY DEF Init, IsMode
    <2> HIDE DEF Verifying
    <2> QED
      BY <2>1 DEF Verification!Init, HasDivergence, NoDivergence
  <1>2. ASSUME IInv, [Next]_vars, Verifying
        PROVE  [Verification!Next]_Verification!vars
    <2> USE DEF Verification!Next, Verification!Agrees, Verification!vars
    <2>1. /\ Verifying /\ mode.claimed \in Seq(Hashes)
          /\ recomputed \in Seq(1 .. NumStages) /\ committed = 1 .. Len(recomputed)
          /\ HasDivergence => phase \in {"finish", "done"}
          /\ phase = "finish" => HasDivergence
      BY <1>2, ModeParts DEF IInv, TypeOK, Mode, Verifying, VerifierInv, EndInv
    <2>2. ASSUME UNCHANGED <<mode, recomputed, divergence>>,
                 phase \notin {"done", "failed"}, phase' # "done",
                 phase' = "failed" => ~HasDivergence
          PROVE  [Verification!Next]_Verification!vars
      BY <2>2 DEF Verification!GiveUp, HasDivergence
    <2>3. ASSUME NEW i \in Stage, ObserveCheckpoint(i), InOrder(i), mode' = mode,
                 phase \notin {"finish", "done", "failed"}, phase' \notin {"done", "failed"}
          PROVE  [Verification!Next]_Verification!vars
      <3>1. ~HasDivergence /\ i = Len(recomputed) + 1
        BY <2>1, <2>3 DEF InOrder
      <3>2. recomputed' = Append(recomputed, i) /\ divergence' = Compare(mode.claimed, i)
        BY <2>1, <2>3, <3>1 DEF ObserveCheckpoint
      <3>3. Len(recomputed') = Len(recomputed) + 1 /\ Len(recomputed) < NumStages
        BY <2>1, <3>1, <3>2
      <3>4. IF i <= Len(mode.claimed) /\ mode.claimed[i] = StageHash[i]
            THEN divergence' = NoDivergence
            ELSE divergence' # NoDivergence /\ divergence'.index = i
        BY <2>1, <3>2, CompareIsDivergence
      <3>5. Verifying /\ Verifying'
        BY <2>1, <2>3
      <3> HIDE DEF Verifying
      <3> QED
        BY <2>3, <3>1, <3>3, <3>4, <3>5 DEF Verification!Check, HasDivergence
    <2>4. CASE StartStage
      BY <2>1, <2>2, <2>4 DEF StartStage, Abort, verifierVars
    <2>5. CASE CompleteStage
      <3>1. InOrder(cur) /\ cur \in Stage
        BY <1>2, <2>1, <2>5, ModeParts
           DEF CompleteStage, InOrder, IInv, TypeOK, StageInv, VerifierInv
      <3> QED
        BY <2>3, <2>5, <3>1 DEF CompleteStage
    <2>6. CASE FailStage
      BY <2>1, <2>2, <2>6 DEF FailStage, Abort, verifierVars
    <2>14. CASE FailFile
      BY <2>1, <2>2, <2>14 DEF FailFile, Abort, verifierVars
    <2>7. CASE StartWave
      <3>1. phase = "loop" /\ phase' # "done" /\ UNCHANGED <<mode, recomputed, divergence>>
        BY <2>7 DEF StartWave, Abort, verifierVars
      <3> QED
        BY <2>1, <2>2, <3>1
    <2>8. CASE JoinPool
      BY <2>1, <2>2, <2>8 DEF JoinPool, Abort, verifierVars
    <2>9. CASE RecordResult
      <3>1. PICK i \in finished :
              /\ committed' = committed \cup {i}
              /\ ObserveCheckpoint(i)
              /\ IF ~InOrder(i)
                 THEN phase' = "failed" /\ failure' = "checkpoint_order"
                 ELSE phase' = IF divergence' # NoDivergence THEN "finish" ELSE "record"
        BY <2>9 DEF RecordResult, Abort, Diverges, NextResult
      <3>2. phase = "record" /\ mode' = mode /\ i \in Stage /\ i \notin committed
        BY <1>2, <2>9, <3>1 DEF RecordResult, IInv, TypeOK, RecordInv
      <3>3. failure' # "checkpoint_order"
        BY <1>2, NextInv DEF IInv, FailureInv
      <3> QED
        BY <2>3, <3>1, <3>2, <3>3
    <2>10. CASE EndWave
      BY <2>1, <2>2, <2>10 DEF EndWave, Abort, verifierVars
    <2>11. ASSUME NEW i \in Stage, LaunchJob(i) \/ FinishJob(i) \/ FailJob(i)
           PROVE  [Verification!Next]_Verification!vars
      BY <2>1, <2>2, <2>11 DEF LaunchJob, FinishJob, FailJob, verifierVars
    <2>12. CASE FinishRun
      <3>1. phase' = "done" /\ UNCHANGED <<mode, recomputed>> /\ divergence' = FinalDivergence
        <4>1. failure' \in {"none", "stage_failed", "inputs_not_ready"} /\ failure = "none"
          BY <1>2, <2>12, NextInv DEF IInv, FailureInv, FinishRun
        <4> QED
          BY <2>12, <4>1 DEF FinishRun, Abort
      <3>2. CASE HasDivergence
        BY <2>1, <2>12, <3>1, <3>2 DEF FinalDivergence, HasDivergence, FinishRun
      <3>3. CASE ~HasDivergence
        <4>1. phase = "loop" /\ Len(recomputed) = NumStages
          BY <1>2, <2>1, <2>12, <3>3 DEF FinishRun, IInv, LoopInv
        <4>2. IF Len(mode.claimed) > NumStages
              THEN divergence' # NoDivergence /\ divergence'.index = NumStages + 1
              ELSE divergence' = NoDivergence
          BY <2>1, <3>1, <3>3, <4>1 DEF FinalDivergence, HasDivergence, NoDivergence
        <4>3. Verifying /\ Verifying'
          BY <2>1, <3>1
        <4> HIDE DEF Verifying
        <4> QED
          BY <3>1, <3>3, <4>1, <4>2, <4>3 DEF Verification!Conclude, HasDivergence
      <3> QED
        BY <3>2, <3>3
    <2>13. CASE UNCHANGED vars
      BY <2>13 DEF vars, verifierVars, HasDivergence
    <2> QED
      BY <1>2, <2>4, <2>5, <2>6, <2>7, <2>8, <2>9, <2>10, <2>11, <2>12, <2>13, <2>14
         DEF Next
  <1>3. ASSUME IInv, [Next]_vars, ~Verifying
        PROVE  [Verification!Next]_Verification!vars
    <2>1. mode' = mode
      BY <1>3 DEF Next, StartStage, CompleteStage, FailStage, FailFile, StartWave, JoinPool,
                  RecordResult, EndWave, LaunchJob, FinishJob, FailJob, FinishRun, vars
    <2>2. ~Verifying /\ ~Verifying'
      BY <1>3, <2>1 DEF Verifying
    <2>3. recomputed = <<>> /\ recomputed' = <<>> /\ divergence = NoDivergence
          /\ divergence' = NoDivergence
      BY <1>3, <2>2, NextInv DEF IInv, VerifierInv, HasDivergence
    <2> QED
      BY <2>1, <2>2, <2>3 DEF Verification!vars
  <1> QED
    BY <1>1, <1>2, <1>3, Invariance, PTL DEF Spec, Verification!Spec
-----------------------------------------------------------------------------
(*                           The challenge build                           *)
-----------------------------------------------------------------------------
(* The inductive invariant behind the safety properties.                   *)

(* What is on disk was computed from stages before it: the stages that an  *)
(* output reads from had committed when it was started. *)
PrefixInv == \A i \in onDisk : mode.chain.producers[i] \subseteq 1 .. (i - 1)

(* A run that has returned has written its times, unless it diverged. *)
TimesInv == phase = "done" => timesFile = ~HasDivergence

(* Until the divergence is located there is only the run; from then on the *)
(* run has returned and stays as it is. *)
StartInv ==
  build = "recompute" => /\ ~traceFile /\ located = NoDivergence
                         /\ seeded = {} /\ replay = "none"
LocatedInv ==
  /\ traceFile =>
       /\ phase = "done"
       /\ located = IF Verifying THEN divergence ELSE LocateDivergence(TraceOnDisk)
  /\ build \notin {"recompute", "failed"} => traceFile
  /\ build = "no_divergence" => located = NoDivergence

(* Whoever gets as far as a replay directory has a stage to replay. *)
ChosenInv ==
  \/ seeded # {} \/ replay # "none"
  \/ build \in {"seeding", "replayed", "parity_error", "publishing", "built"}
  => traceFile /\ located # NoDivergence /\ Challengeable(Trace)
SeedInv == seeded # {} => seeded \subseteq Seed

(* Nothing is written before the replay is compared, and then in order. *)
WrittenInv ==
  /\ build \in {"publishing", "built"} => replay = "same"
  /\ \A n \in DOMAIN Artifacts : files[Artifacts[n]] # "absent" =>
       /\ replay = "same" /\ build \in {"publishing", "built", "failed"}
       /\ \A m \in 1 .. (n - 1) : files[Artifacts[m]] = "whole"

ChallengeInv ==
  /\ IInv /\ BuildTypeOK /\ PrefixInv /\ TimesInv /\ StartInv /\ LocatedInv /\ ChosenInv
  /\ SeedInv /\ WrittenInv
-----------------------------------------------------------------------------
(* Facts about order.                                                      *)

LEMMA LeastNat ==
  ASSUME NEW T, T \subseteq Nat, T # {}
  PROVE  \E x \in T : \A y \in T : x <= y
  <1> DEFINE R == OpToRel(<, Nat)
  <1>1. IsWellFoundedOn(R, Nat)
    BY NatLessThanWellFounded
  <1>2. R = {ss \in Nat \X Nat : ss[1] < ss[2]}
    BY Zenon DEF OpToRel
  <1> HIDE DEF R
  <1>3. PICK x \in T : \A y \in T : ~(<<y, x>> \in R)
    BY <1>1, WFMin
  <1>4. ASSUME NEW y \in T PROVE x <= y
    <2>1. x \in Nat /\ y \in Nat /\ <<y, x>> \notin R
      BY <1>3
    <2> QED
      BY <1>2, <2>1
  <1> QED
    BY <1>4

(* A strictly increasing map of 1..n to itself is the identity. *)
LEMMA IncreasingIsIdentity ==
  ASSUME NEW n \in Nat, NEW s \in [1 .. n -> 1 .. n],
         \A i, j \in 1 .. n : i < j => s[i] < s[j]
  PROVE  s = [i \in 1 .. n |-> i]
  <1> DEFINE Low == {i \in 1 .. n : s[i] < i}
             High == {k \in 0 .. (n - 1) : s[n - k] > n - k}
  <1>1. Low = {}
    <2> SUFFICES ASSUME Low # {} PROVE FALSE
      OBVIOUS
    <2>1. Low \subseteq Nat
      OBVIOUS
    <2>2. PICK i \in Low : \A j \in Low : i <= j
      <3> HIDE DEF Low
      <3> QED BY <2>1, LeastNat
    <2>3. i \in 1 .. n /\ s[i] \in 1 .. n /\ s[i] < i
      OBVIOUS
    <2>4. i - 1 \in 1 .. n /\ i - 1 \notin Low
      BY <2>2, <2>3
    <2>5. s[i - 1] \in 1 .. n /\ s[i - 1] >= i - 1 /\ s[i - 1] < s[i]
      BY <2>3, <2>4
    <2> QED
      BY <2>3, <2>5
  <1>2. High = {}
    <2> SUFFICES ASSUME High # {} PROVE FALSE
      OBVIOUS
    <2>1. High \subseteq Nat
      OBVIOUS
    <2>2. PICK k \in High : \A j \in High : k <= j
      <3> HIDE DEF High
      <3> QED BY <2>1, LeastNat
    <2>3. k \in 0 .. (n - 1) /\ n - k \in 1 .. n /\ s[n - k] \in 1 .. n /\ s[n - k] > n - k
      OBVIOUS
    <2>4. k - 1 \in 0 .. (n - 1) /\ k - 1 \notin High
      <3>1. k # 0
        BY <2>3
      <3>2. k - 1 \in 0 .. (n - 1) /\ ~(k <= k - 1)
        BY <2>3, <3>1
      <3> HIDE DEF High
      <3> QED
        BY <2>2, <3>2
    <2>5. n - (k - 1) \in 1 .. n /\ n - k < n - (k - 1)
      BY <2>3, <2>4
    <2>6. s[n - (k - 1)] \in 1 .. n /\ s[n - (k - 1)] <= n - (k - 1)
      BY <2>4, <2>5
    <2>7. s[n - k] < s[n - (k - 1)]
      BY <2>3, <2>5
    <2> QED
      BY <2>3, <2>6, <2>7
  <1>3. ASSUME NEW i \in 1 .. n PROVE s[i] = i
    <2>1. s[i] \in 1 .. n /\ i \notin Low
      BY <1>1
    <2>2. n - i \in 0 .. (n - 1) /\ n - (n - i) = i
      OBVIOUS
    <2>3. ~(s[n - (n - i)] > n - (n - i))
      BY <1>2, <2>2
    <2> QED
      BY <2>1, <2>2, <2>3
  <1> QED
    BY <1>3

(* Stages that are all on disk, and all timed, are found in chain order. *)
LEMMA StagesAreSorted ==
  SortedBy(Stage, [i \in Stage |-> i]) = [i \in Stage |-> i]
  <1> DEFINE rank == [i \in Stage |-> i]
             IsSorted(s) == \A i, j \in 1 .. NumStages : i < j => rank[s[i]] < rank[s[j]]
             s0 == CHOOSE s \in [1 .. NumStages -> Stage] : IsSorted(s)
  <1>1. NumStages \in Nat /\ Stage = 1 .. NumStages
    BY ChainRunnerAssumption DEF Stage
  <1>2. Cardinality(Stage) = NumStages
    BY <1>1, FS_Interval
  <1>3. rank \in [1 .. NumStages -> Stage] /\ IsSorted(rank)
    BY <1>1
  <1>4. s0 \in [1 .. NumStages -> Stage] /\ IsSorted(s0)
    <2> HIDE DEF IsSorted, rank
    <2> QED BY <1>3
  <1>5. SortedBy(Stage, rank) = s0
    BY <1>2, Zenon DEF SortedBy
  <1> HIDE DEF s0
  <1>6. \A i, j \in 1 .. NumStages : i < j => s0[i] < s0[j]
    BY <1>1, <1>4
  <1> QED
    BY <1>1, <1>4, <1>5, <1>6, IncreasingIsIdentity
-----------------------------------------------------------------------------
(* Facts about traces.                                                     *)

(* The trace of a run that has returned: its checkpoints are the first     *)
(* stages of the chain, and all of them unless a verification diverged. *)
LEMMA TraceOfRun ==
  ASSUME IInv, TimesInv, phase = "done"
  PROVE  /\ Trace \in Seq(Stage)
         /\ Len(Trace) <= NumStages
         /\ \A k \in 1 .. Len(Trace) : Trace[k] = k
         /\ 1 .. Len(Trace) \subseteq onDisk
         /\ ~Verifying => Trace = TraceOnDisk /\ Len(Trace) = NumStages
  <1>1. NumStages \in Nat /\ Stage = 1 .. NumStages
    BY ChainRunnerAssumption DEF Stage
  <1>2. committed \subseteq onDisk /\ onDisk \subseteq Stage /\ recomputed \in Seq(Stage)
    BY DEF IInv, TypeOK, FilesInv
  <1>3. CASE Verifying
    <2>1. Trace = recomputed
      BY <1>3 DEF Trace
    <2>2. committed = 1 .. Len(recomputed) /\ \A k \in 1 .. Len(recomputed) : recomputed[k] = k
      BY <1>3 DEF IInv, VerifierInv
    <2>3. Len(recomputed) <= NumStages
      BY <1>1, <1>2, <2>2
    <2> QED
      BY <1>2, <1>3, <2>1, <2>2, <2>3
  <1>4. CASE ~Verifying
    <2>1. timesFile
      BY <1>4 DEF IInv, VerifierInv, TimesInv
    <2>2. onDisk = Stage
      BY <1>2, <2>1 DEF IInv, FilesInv
    <2>3. Trace = TraceOnDisk /\ TraceOnDisk = [i \in Stage |-> i]
      BY <1>4, <2>1, <2>2, StagesAreSorted DEF Trace, TraceOnDisk
    <2>4. Trace \in Seq(Stage) /\ Len(Trace) = NumStages
      BY <1>1, <2>3
    <2> QED
      BY <1>1, <1>4, <2>2, <2>3, <2>4
  <1> QED
    BY <1>3, <1>4

(* What locate_divergence finds: the first index with a reason, or none. *)
LEMMA LocatedFirst ==
  ASSUME NEW trace \in Seq(Stage), claim \in Seq(Checkpoint)
  PROVE  \/ /\ LocateDivergence(trace) = NoDivergence
            /\ \A i \in 1 .. Len(claim) \cup 1 .. Len(trace) : Reason(trace, i) = "none"
         \/ \E first \in Nat \ {0} :
              /\ first <= Len(claim) \/ first <= Len(trace)
              /\ LocateDivergence(trace) =
                   [index |-> first,
                    stage |-> IF first <= Len(claim) THEN claim[first].stage ELSE trace[first],
                    reason |-> Reason(trace, first)]
              /\ Reason(trace, first) # "none"
              /\ \A i \in 1 .. (first - 1) : Reason(trace, i) = "none"
  <1> DEFINE Longest == IF Len(claim) > Len(trace) THEN Len(claim) ELSE Len(trace)
             Differ == {i \in 1 .. Longest : Reason(trace, i) # "none"}
             first == CHOOSE i \in Differ : \A j \in Differ : i <= j
             found == [index |-> first,
                       stage |-> IF first <= Len(claim) THEN claim[first].stage ELSE trace[first],
                       reason |-> Reason(trace, first)]
  <1>1. /\ Len(claim) \in Nat /\ Len(trace) \in Nat
        /\ 1 .. Longest = 1 .. Len(claim) \cup 1 .. Len(trace)
    OBVIOUS
  <1>2. LocateDivergence(trace) = IF Differ = {} THEN NoDivergence ELSE found
    BY Zenon DEF LocateDivergence
  <1>3. CASE Differ = {}
    BY <1>1, <1>2, <1>3
  <1>4. CASE Differ # {}
    <2>1. Differ \subseteq Nat
      OBVIOUS
    <2>2. first \in Differ /\ \A j \in Differ : first <= j
      <3> HIDE DEF Differ
      <3> QED BY <1>4, <2>1, LeastNat
    <2> HIDE DEF first
    <2>3. first \in 1 .. Longest /\ Reason(trace, first) # "none"
      BY <2>2
    <2>4. \A i \in 1 .. (first - 1) : Reason(trace, i) = "none"
      BY <1>1, <2>2, <2>3
    <2>5. first \in Nat \ {0} /\ (first <= Len(claim) \/ first <= Len(trace))
      BY <1>1, <2>3
    <2>6. LocateDivergence(trace) = found
      BY <1>2, <1>4
    <2> QED
      BY <2>3, <2>4, <2>5, <2>6
  <1> QED
    BY <1>3, <1>4

(* The trace of a build that changes nothing of the run. *)
LEMMA TraceStays == UNCHANGED vars => Trace' = Trace /\ TraceOnDisk' = TraceOnDisk
  BY DEF vars, runVars, poolVars, verifierVars, Trace, TraceOnDisk, Verifying
-----------------------------------------------------------------------------
(* The run.                                                                *)

LEMMA NoReference == ASSUME mode \in Mode, IsMode(mode) PROVE mode.reference = NoStage
  BY ChallengeAssumption DEF Mode, IsMode

(* A stage is started when everything before it, and nothing of its wave,  *)
(* has committed. *)
LEMMA PrefixStep == IInv /\ PrefixInv /\ [Next]_vars => PrefixInv'
  <1> SUFFICES ASSUME IInv, PrefixInv, [Next]_vars PROVE PrefixInv'
    OBVIOUS
  <1> USE DEF runVars, poolVars, verifierVars
  <1>1. mode' = mode /\ mode.reference = NoStage /\ next \in Nat /\ NumStages \in Nat
    <2>1. mode' = mode
      BY DEF Next, vars, StartStage, CompleteStage, FailStage, FailFile, StartWave, JoinPool,
             RecordResult, EndWave, LaunchJob, FinishJob, FailJob, FinishRun
    <2> QED
      BY <2>1, NoReference, ChainRunnerAssumption DEF IInv, TypeOK
  <1>2. CASE CompleteStage \/ FailStage
    <2>1. onDisk' \subseteq onDisk \cup {cur} /\ phase = "stage"
      BY <1>2 DEF CompleteStage, FailStage
    <2>2. cur = next /\ mode.chain.producers[cur] \subseteq 1 .. (next - 1)
      BY <1>1, <2>1 DEF IInv, StageInv, InputsReady, NoStage, Stage
    <2> QED
      BY <1>1, <2>1, <2>2 DEF PrefixInv
  <1>3. ASSUME NEW i \in Stage, FinishJob(i) \/ FailJob(i) PROVE PrefixInv'
    <2>1. onDisk' \subseteq onDisk \cup {i} /\ phase = "pool" /\ i \in running
      BY <1>3 DEF FinishJob, FailJob
    <2>2. /\ committed = 1 .. (next - 1) \cup (WaveStages \cap {mode.reference})
          /\ i \in WaveStages /\ InputsReady(i) /\ waveEnd \in Int
      BY <2>1 DEF IInv, PoolInv, InWave, WaveJobs, JobStages, WaveStages, TypeOK, NoStage
    <2>3. committed = 1 .. (next - 1) /\ i \in Int /\ i >= next
      BY <1>1, <2>2 DEF WaveStages, NoStage, IInv, TypeOK, Stage
    <2>4. mode.chain.producers[i] \subseteq 1 .. (i - 1)
      BY <1>1, <2>2, <2>3 DEF InputsReady
    <2> QED
      BY <1>1, <2>1, <2>4 DEF PrefixInv
  <1>4. CASE onDisk' = onDisk
    BY <1>1, <1>4 DEF PrefixInv
  <1>5. \/ CompleteStage \/ FailStage \/ \E i \in Stage : FinishJob(i) \/ FailJob(i)
        \/ onDisk' = onDisk
    BY DEF Next, vars, StartStage, FailFile, StartWave, JoinPool, RecordResult, EndWave,
           LaunchJob, FinishRun
  <1> QED
    BY <1>2, <1>3, <1>4, <1>5

(* The times of a run are written as it returns. *)
LEMMA TimesStep == TimesInv /\ [Next]_vars => TimesInv'
  <1> SUFFICES ASSUME TimesInv, [Next]_vars PROVE TimesInv'
    OBVIOUS
  <1> USE DEF TimesInv, HasDivergence, runVars, poolVars, verifierVars
  <1>1. CASE FinishRun
    BY <1>1 DEF FinishRun, WritesTimes, Abort
  <1>2. CASE UNCHANGED vars
    BY <1>2 DEF vars
  <1>3. CASE Next /\ ~FinishRun
    <2>1. phase' # "done"
      BY <1>3 DEF Next, StartStage, CompleteStage, FailStage, FailFile, StartWave, JoinPool,
                  RecordResult, EndWave, LaunchJob, FinishJob, FailJob, Abort
    <2> QED
      BY <2>1
  <1> QED
    BY <1>1, <1>2, <1>3

-----------------------------------------------------------------------------
(* The build.                                                              *)

LEMMA BuildInitInv == BuildInit => ChallengeInv
  <1> SUFFICES ASSUME BuildInit PROVE ChallengeInv
    OBVIOUS
  <1> USE DEF BuildInit
  <1>1. IInv
    BY InitInv
  <1>2. BuildTypeOK
    BY ChallengeAssumption DEF BuildTypeOK, NoDivergence, NoStage
  <1>3. PrefixInv /\ TimesInv
    BY DEF Init, PrefixInv, TimesInv
  <1>4. StartInv /\ LocatedInv /\ ChosenInv /\ SeedInv
    BY DEF StartInv, LocatedInv, ChosenInv, SeedInv
  <1>5. WrittenInv
    BY DEF WrittenInv, File
  <1> QED
    BY <1>1, <1>2, <1>3, <1>4, <1>5 DEF ChallengeInv

LEMMA ClaimIsTrace == BuildTypeOK => claim \in Seq(Checkpoint)
  <1>1. <<>> \in Seq(Checkpoint)
    OBVIOUS
  <1> QED
    BY <1>1, ChallengeAssumption DEF BuildTypeOK

(* The run goes on, and the build waits for it. *)
LEMMA RecomputeInv == ChallengeInv /\ Recompute => ChallengeInv'
  <1> SUFFICES ASSUME ChallengeInv, Recompute PROVE ChallengeInv'
    OBVIOUS
  <1> USE DEF ChallengeInv, Recompute, buildVars
  <1>1. IInv' /\ PrefixInv' /\ TimesInv'
    BY NextInv, PrefixStep, TimesStep
  <1>2. BuildTypeOK'
    BY DEF BuildTypeOK
  <1>3. StartInv' /\ LocatedInv' /\ ChosenInv' /\ SeedInv'
    BY DEF StartInv, LocatedInv, ChosenInv, SeedInv
  <1>4. WrittenInv'
    BY DEF WrittenInv
  <1> QED
    BY <1>1, <1>2, <1>3, <1>4

(* The later steps leave the run as it is. *)
LEMMA RunStays ==
  ASSUME ChallengeInv, UNCHANGED vars
  PROVE  IInv' /\ PrefixInv' /\ TimesInv' /\ Trace' = Trace /\ TraceOnDisk' = TraceOnDisk
         /\ phase' = phase /\ divergence' = divergence /\ Verifying' = Verifying
  <1> USE DEF ChallengeInv
  <1>1. IInv'
    BY StutterInv
  <1>2. PrefixInv' /\ TimesInv'
    BY PrefixStep, TimesStep
  <1> QED
    BY <1>1, <1>2, TraceStays DEF vars, verifierVars, Verifying

(* The divergence that is located has its type. *)
LEMMA LocatedType ==
  ASSUME NEW trace \in Seq(Stage), claim \in Seq(Checkpoint)
  PROVE  LocateDivergence(trace) \in [index : Nat, stage : Stage \cup {NoStage},
                                      reason : Reasons \cup TraceReasons \cup {"none"}]
  <1>1. CASE LocateDivergence(trace) = NoDivergence
    BY <1>1 DEF NoDivergence
  <1>2. ASSUME NEW first \in Nat \ {0}, first <= Len(claim) \/ first <= Len(trace)
        PROVE  /\ (IF first <= Len(claim) THEN claim[first].stage ELSE trace[first])
                    \in Stage \cup {NoStage}
               /\ Reason(trace, first) \in TraceReasons \cup {"none"}
    <2>1. first <= Len(claim) => claim[first] \in Checkpoint
      BY <1>2
    <2>2. first <= Len(trace) => trace[first] \in Stage
      BY <1>2
    <2> QED
      BY <1>2, <2>1, <2>2 DEF Checkpoint, Reason, TraceReasons
  <1> QED
    BY <1>1, <1>2, LocatedFirst

LEMMA LocateInv == ChallengeInv /\ Locate => ChallengeInv'
  <1> SUFFICES ASSUME ChallengeInv, Locate PROVE ChallengeInv'
    OBVIOUS
  <1> USE DEF ChallengeInv, Locate
  <1>1. /\ IInv' /\ PrefixInv' /\ TimesInv' /\ TraceOnDisk' = TraceOnDisk
        /\ phase' = phase /\ divergence' = divergence /\ Verifying' = Verifying
    BY RunStays
  <1>2. BuildTypeOK'
    <2>1. claim \in Seq(Checkpoint)
      BY ClaimIsTrace
    <2>2. located' \in [index : Nat, stage : Stage \cup {NoStage},
                        reason : Reasons \cup TraceReasons \cup {"none"}]
      <3>1. CASE Verifying
        BY <3>1 DEF IInv, TypeOK, Divergence, NoDivergence
      <3>2. CASE ~Verifying
        <4>1. TraceOnDisk \in Seq(Stage)
          BY <3>2, TraceOfRun
        <4> QED
          BY <2>1, <3>2, <4>1, LocatedType
      <3> QED
        BY <3>1, <3>2
    <2> QED
      BY <2>2 DEF BuildTypeOK
  <1>3. LocateDivergence(TraceOnDisk)' = LocateDivergence(TraceOnDisk)
    BY <1>1 DEF LocateDivergence, Reason, HonestCheckpoint
  <1>4. StartInv' /\ LocatedInv'
    BY <1>1, <1>3 DEF StartInv, LocatedInv
  <1>5. ChosenInv' /\ SeedInv'
    BY DEF StartInv, ChosenInv, SeedInv
  <1>6. WrittenInv'
    BY DEF WrittenInv
  <1> QED
    BY <1>1, <1>2, <1>4, <1>5, <1>6

(* What the steps after Locate have in common: they leave the run, the     *)
(* claim, the divergence and the trace as they are. *)
LEMMA LaterInv ==
  ASSUME ChallengeInv, UNCHANGED <<vars, claim, located, traceFile>>,
         build' # "recompute", build' # "failed" => build # "failed" /\ build # "recompute",
         build' = "no_divergence" => located = NoDivergence
  PROVE  /\ IInv' /\ PrefixInv' /\ TimesInv' /\ StartInv' /\ LocatedInv'
         /\ Challengeable(Trace)' = Challengeable(Trace) /\ Seed' = Seed
  <1> USE DEF ChallengeInv
  <1>1. /\ IInv' /\ PrefixInv' /\ TimesInv'
        /\ Trace' = Trace /\ TraceOnDisk' = TraceOnDisk
        /\ phase' = phase /\ divergence' = divergence /\ Verifying' = Verifying
    BY RunStays
  <1>2. LocateDivergence(TraceOnDisk)' = LocateDivergence(TraceOnDisk)
    BY <1>1 DEF LocateDivergence, Reason, HonestCheckpoint
  <1>3. StartInv' /\ LocatedInv'
    BY <1>1, <1>2 DEF StartInv, LocatedInv
  <1>4. Challengeable(Trace)' = Challengeable(Trace) /\ Seed' = Seed
    BY <1>1 DEF Challengeable, Seed, IsSeed
  <1> QED
    BY <1>1, <1>3, <1>4

LEMMA ReportNoDivergenceInv == ChallengeInv /\ ReportNoDivergence => ChallengeInv'
  <1> SUFFICES ASSUME ChallengeInv, ReportNoDivergence PROVE ChallengeInv'
    OBVIOUS
  <1> USE DEF ReportNoDivergence
  <1>1. /\ IInv' /\ PrefixInv' /\ TimesInv' /\ StartInv' /\ LocatedInv'
        /\ Challengeable(Trace)' = Challengeable(Trace) /\ Seed' = Seed
    BY LaterInv
  <1> USE DEF ChallengeInv
  <1>2. BuildTypeOK'
    BY DEF BuildTypeOK, Outcomes
  <1>3. ChosenInv' /\ SeedInv'
    BY <1>1 DEF ChosenInv, SeedInv
  <1>4. WrittenInv'
    BY DEF WrittenInv
  <1> QED
    BY <1>1, <1>2, <1>3, <1>4

LEMMA RefuseInv == ChallengeInv /\ Refuse => ChallengeInv'
  <1> SUFFICES ASSUME ChallengeInv, Refuse PROVE ChallengeInv'
    OBVIOUS
  <1> USE DEF Refuse
  <1>1. /\ IInv' /\ PrefixInv' /\ TimesInv' /\ StartInv' /\ LocatedInv'
        /\ Challengeable(Trace)' = Challengeable(Trace) /\ Seed' = Seed
    BY LaterInv
  <1> USE DEF ChallengeInv
  <1>2. BuildTypeOK'
    BY DEF BuildTypeOK, Outcomes
  <1>3. ChosenInv' /\ SeedInv'
    BY <1>1 DEF ChosenInv, SeedInv
  <1>4. WrittenInv'
    BY DEF WrittenInv
  <1> QED
    BY <1>1, <1>2, <1>3, <1>4

(* The replay directory is filled with seeds only. *)
LEMMA SeedingInv == ChallengeInv /\ (ResetReplayDir \/ CopyProducer) => ChallengeInv'
  <1> SUFFICES ASSUME ChallengeInv, ResetReplayDir \/ CopyProducer PROVE ChallengeInv'
    OBVIOUS
  <1> USE DEF ResetReplayDir, CopyProducer
  <1>1. /\ IInv' /\ PrefixInv' /\ TimesInv' /\ StartInv' /\ LocatedInv'
        /\ Challengeable(Trace)' = Challengeable(Trace) /\ Seed' = Seed
    BY LaterInv
  <1> USE DEF ChallengeInv
  <1>2. /\ traceFile /\ located # NoDivergence /\ Challengeable(Trace)
        /\ traceFile' /\ located' # NoDivergence /\ Challengeable(Trace)'
    BY <1>1 DEF ChosenInv, LocatedInv
  <1>3. seeded' = {} \/ \E k \in 1 .. Len(Trace) :
                          IsSeed(k) /\ seeded' = seeded \cup {Trace[k]}
    OBVIOUS
  <1>4. seeded' \subseteq Seed /\ seeded' \subseteq Stage
    <2>1. seeded \subseteq Seed /\ seeded \subseteq Stage
      BY DEF SeedInv, BuildTypeOK
    <2>2. Trace \in Seq(Stage)
      BY <1>2, TraceOfRun DEF LocatedInv
    <2>3. ASSUME NEW k \in 1 .. Len(Trace), IsSeed(k)
          PROVE  Trace[k] \in Seed /\ Trace[k] \in Stage
      BY <2>2, <2>3 DEF Seed
    <2> HIDE DEF ResetReplayDir, CopyProducer
    <2> QED
      BY <1>3, <2>1, <2>3
  <1>5. BuildTypeOK'
    BY <1>4 DEF BuildTypeOK, Outcomes
  <1>6. ChosenInv' /\ SeedInv'
    BY <1>1, <1>2, <1>4 DEF ChosenInv, SeedInv
  <1>7. WrittenInv'
    BY DEF WrittenInv
  <1> QED
    BY <1>1, <1>5, <1>6, <1>7

LEMMA ReplayInv == ChallengeInv /\ (Replay \/ CheckParity) => ChallengeInv'
  <1> SUFFICES ASSUME ChallengeInv, Replay \/ CheckParity PROVE ChallengeInv'
    OBVIOUS
  <1> USE DEF Replay, CheckParity, SeedIsReady
  <1>1. /\ IInv' /\ PrefixInv' /\ TimesInv' /\ StartInv' /\ LocatedInv'
        /\ Challengeable(Trace)' = Challengeable(Trace) /\ Seed' = Seed
    BY LaterInv
  <1> USE DEF ChallengeInv
  <1>2. BuildTypeOK'
    BY DEF BuildTypeOK, Outcomes
  <1>3. ChosenInv' /\ SeedInv'
    BY <1>1 DEF ChosenInv, SeedInv
  <1>4. WrittenInv'
    BY DEF WrittenInv, Parity
  <1> QED
    BY <1>1, <1>2, <1>3, <1>4

(* One more file: complete, or torn by a failure. *)
LEMMA WriteStep ==
  ASSUME ChallengeInv, NEW f \in File, NEW state \in {"torn", "whole"},
         build = "publishing", NextFile(f), files' = [files EXCEPT ![f] = state],
         UNCHANGED replay, build' \in {"publishing", "failed"}
  PROVE  WrittenInv' /\ files' \in [File -> {"absent", "torn", "whole"}]
  <1>1. files \in [File -> {"absent", "torn", "whole"}]
    BY DEF ChallengeInv, BuildTypeOK
  <1>2. PICK n \in DOMAIN Artifacts :
          /\ f = Artifacts[n] /\ files[f] = "absent"
          /\ \A m \in 1 .. (n - 1) : files[Artifacts[m]] = "whole"
    BY DEF NextFile
  <1>3. DOMAIN Artifacts = 1 .. 4 /\ \A m, k \in 1 .. 4 : Artifacts[m] = Artifacts[k] => m = k
    BY DEF Artifacts
  <1>4. \A m \in 1 .. 4 : Artifacts[m] \in File
    BY <1>3 DEF File
  <1>5. \A m \in 1 .. 4 : files'[Artifacts[m]] = IF m = n THEN state ELSE files[Artifacts[m]]
    BY <1>1, <1>2, <1>3, <1>4
  <1>6. \A k \in 1 .. 4 : files'[Artifacts[k]] # "absent" =>
          \A m \in 1 .. (k - 1) : files'[Artifacts[m]] = "whole"
    <2> SUFFICES ASSUME NEW k \in 1 .. 4, files'[Artifacts[k]] # "absent",
                        NEW m \in 1 .. (k - 1)
                 PROVE  files'[Artifacts[m]] = "whole"
      OBVIOUS
    <2>1. m \in 1 .. 4 /\ m # k
      OBVIOUS
    <2>2. CASE k = n
      BY <1>2, <1>5, <2>1, <2>2
    <2>3. CASE k # n
      <3>1. files[Artifacts[k]] # "absent"
        BY <1>5, <2>3
      <3>2. files[Artifacts[m]] = "whole"
        BY <1>3, <3>1 DEF ChallengeInv, WrittenInv
      <3>3. m # n
        BY <1>2, <3>2
      <3> QED
        BY <1>5, <2>1, <3>2, <3>3
    <2> QED
      BY <2>2, <2>3
  <1>7. replay' = "same"
    BY DEF ChallengeInv, WrittenInv
  <1>8. files' \in [File -> {"absent", "torn", "whole"}]
    BY <1>1
  <1> QED
    BY <1>3, <1>6, <1>7, <1>8 DEF WrittenInv

LEMMA PublishInv == ChallengeInv /\ (Publish \/ ReportBuilt) => ChallengeInv'
  <1> SUFFICES ASSUME ChallengeInv, Publish \/ ReportBuilt PROVE ChallengeInv'
    OBVIOUS
  <1>1. /\ UNCHANGED <<vars, claim, located, traceFile, seeded, replay>>
        /\ build = "publishing" /\ build' \in {"publishing", "built"}
    BY DEF Publish, ReportBuilt
  <1>2. /\ IInv' /\ PrefixInv' /\ TimesInv' /\ StartInv' /\ LocatedInv'
        /\ Challengeable(Trace)' = Challengeable(Trace) /\ Seed' = Seed
    BY <1>1, LaterInv
  <1>3. WrittenInv' /\ files' \in [File -> {"absent", "torn", "whole"}]
    <2>1. CASE Publish
      BY <2>1, WriteStep DEF Publish
    <2>2. CASE ReportBuilt
      BY <2>2 DEF ReportBuilt, ChallengeInv, WrittenInv, BuildTypeOK
    <2> QED
      BY <2>1, <2>2
  <1>4. BuildTypeOK'
    BY <1>1, <1>3 DEF ChallengeInv, BuildTypeOK, Outcomes
  <1>5. ChosenInv' /\ SeedInv'
    BY <1>1, <1>2 DEF ChallengeInv, ChosenInv, SeedInv
  <1> QED
    BY <1>2, <1>3, <1>4, <1>5 DEF ChallengeInv

(* A failure anywhere, or a crash. *)
LEMMA BreakInv == ChallengeInv /\ (ReturnError \/ BreakOff) => ChallengeInv'
  <1> SUFFICES ASSUME ChallengeInv, ReturnError \/ BreakOff PROVE ChallengeInv'
    OBVIOUS
  <1>1. /\ UNCHANGED <<vars, claim, located, traceFile, seeded, replay>>
        /\ build' = "failed"
    BY DEF ReturnError, BreakOff
  <1>2. /\ IInv' /\ PrefixInv' /\ TimesInv' /\ StartInv' /\ LocatedInv'
        /\ Challengeable(Trace)' = Challengeable(Trace) /\ Seed' = Seed
    BY <1>1, LaterInv
  <1>3. WrittenInv' /\ files' \in [File -> {"absent", "torn", "whole"}]
    <2>1. CASE UNCHANGED files
      BY <1>1, <2>1 DEF ChallengeInv, WrittenInv, BuildTypeOK
    <2>2. CASE build = "publishing"
               /\ \E f \in File : NextFile(f) /\ files' = [files EXCEPT ![f] = "torn"]
      BY <1>1, <2>2, WriteStep
    <2> QED
      BY <2>1, <2>2 DEF ReturnError, BreakOff
  <1>4. BuildTypeOK'
    BY <1>1, <1>3 DEF ChallengeInv, BuildTypeOK, Outcomes
  <1>5. ChosenInv' /\ SeedInv'
    BY <1>1, <1>2 DEF ChallengeInv, ChosenInv, SeedInv
  <1> QED
    BY <1>2, <1>3, <1>4, <1>5 DEF ChallengeInv

LEMMA BuildNextInv == ChallengeInv /\ [BuildNext]_allVars => ChallengeInv'
  <1> SUFFICES ASSUME ChallengeInv, [BuildNext]_allVars PROVE ChallengeInv'
    OBVIOUS
  <1>1. CASE Recompute BY <1>1, RecomputeInv
  <1>2. CASE Locate    BY <1>2, LocateInv
  <1>3. CASE ReportNoDivergence BY <1>3, ReportNoDivergenceInv
  <1>4. CASE Refuse    BY <1>4, RefuseInv
  <1>5. CASE ResetReplayDir \/ CopyProducer BY <1>5, SeedingInv
  <1>6. CASE Replay \/ CheckParity BY <1>6, ReplayInv
  <1>7. CASE Publish \/ ReportBuilt BY <1>7, PublishInv
  <1>8. CASE ReturnError \/ BreakOff BY <1>8, BreakInv
  <1>9. CASE UNCHANGED allVars
    <2> USE <1>9 DEF ChallengeInv, allVars, buildVars
    <2>1. /\ IInv' /\ PrefixInv' /\ TimesInv'
          /\ Trace' = Trace /\ TraceOnDisk' = TraceOnDisk
          /\ phase' = phase /\ divergence' = divergence /\ Verifying' = Verifying
      BY RunStays
    <2>2. LocateDivergence(TraceOnDisk)' = LocateDivergence(TraceOnDisk)
      BY <2>1 DEF LocateDivergence, Reason, HonestCheckpoint
    <2>3. StartInv' /\ LocatedInv'
      BY <2>1, <2>2 DEF StartInv, LocatedInv
    <2>4. ChosenInv' /\ SeedInv'
      BY <2>1 DEF ChosenInv, SeedInv, Challengeable, Seed, IsSeed
    <2>5. BuildTypeOK' /\ WrittenInv'
      BY DEF BuildTypeOK, WrittenInv
    <2> QED
      BY <2>1, <2>3, <2>4, <2>5
  <1> QED
    BY <1>1, <1>2, <1>3, <1>4, <1>5, <1>6, <1>7, <1>8, <1>9 DEF BuildNext, BuildStep

(* Run, divergence, replay directory and artifacts of a build stay         *)
(* consistent with each other, whatever is claimed and wherever it breaks  *)
(* off. *)
THEOREM ChallengeInvariance == BuildSpec => []ChallengeInv
  <1> QED
    BY BuildInitInv, BuildNextInv, PTL DEF BuildSpec

-----------------------------------------------------------------------------
(* The safety properties that the runs check, for every chain and claim.   *)

(* A reader of the challenge directory finds everything that a file in it  *)
(* refers to, and nothing of a challenge that the replay did not confirm. *)
THEOREM ArtifactsStayConsistent == BuildSpec => []ArtifactsAreConsistent
  <1>1. ChallengeInv => ArtifactsAreConsistent
    <2> SUFFICES ASSUME ChallengeInv, NEW f \in File, files[f] # "absent"
                 PROVE  /\ replay = "same" /\ traceFile
                        /\ \A g \in RefersTo(f) : files[g] = "whole"
      BY DEF ArtifactsAreConsistent
    <2>1. DOMAIN Artifacts = 1 .. 4
      BY DEF Artifacts
    <2>2. PICK n \in 1 .. 4 : f = Artifacts[n]
      BY <2>1 DEF File
    <2>3. replay = "same" /\ \A m \in 1 .. (n - 1) : files[Artifacts[m]] = "whole"
      BY <2>1, <2>2 DEF ChallengeInv, WrittenInv
    <2>4. traceFile
      BY <2>3 DEF ChallengeInv, ChosenInv
    <2>5. ASSUME NEW g \in RefersTo(f) PROVE \E m \in 1 .. (n - 1) : g = Artifacts[m]
      <3>1. CASE n \in {1, 2}
        BY <2>2, <2>5, <3>1 DEF RefersTo, Artifacts
      <3>2. CASE n = 3
        BY <2>2, <2>5, <3>2 DEF RefersTo, Artifacts
      <3>3. CASE n = 4
        <4>1. g \in File /\ g # Artifacts[4]
          BY <2>2, <2>5, <3>3 DEF RefersTo, Artifacts
        <4>2. PICK m \in 1 .. 4 : g = Artifacts[m]
          BY <2>1, <4>1 DEF File
        <4> QED
          BY <3>3, <4>1, <4>2
      <3> QED
        BY <3>1, <3>2, <3>3
    <2> QED
      BY <2>3, <2>4, <2>5
  <1> QED
    BY <1>1, ChallengeInvariance, PTL

(* A claimed trace has a reason at a stage exactly if it is wrong there. *)
LEMMA ReasonMeansWrong ==
  ASSUME NEW trace \in Seq(Stage), claim \in Seq(Checkpoint), NEW i \in 1 .. Len(trace),
         trace[i] = i, ~Verifying
  PROVE  Reason(trace, i) = "none" <=> ClaimIsRight(i)
  <1>1. i \in Stage /\ Len(claim) \in Nat /\ i \in Nat
    <2>1. trace[i] \in Stage
      OBVIOUS
    <2> QED
      BY <2>1
  <1>2. claim[i] = HonestCheckpoint(i) => claim[i].stage = i
    BY DEF HonestCheckpoint
  <1>3. ~(i > Len(trace)) /\ (i > Len(claim) <=> ~(i <= Len(claim)))
    BY <1>1
  <1> QED
    BY <1>1, <1>2, <1>3 DEF Reason, ClaimIsRight

(* A divergence with a recomputed checkpoint of its own is at the first    *)
(* stage for which the claim is wrong. *)
LEMMA ChosenIsFirstWrong ==
  ASSUME ChallengeInv, traceFile, located # NoDivergence, Challengeable(Trace)
  PROVE  /\ located.index \in 1 .. Len(Trace) /\ located.index \in Stage
         /\ located.stage = located.index
         /\ ~ClaimIsRight(located.index)
         /\ \A i \in 1 .. (located.index - 1) : ClaimIsRight(i)
  <1>1. /\ Trace \in Seq(Stage) /\ Len(Trace) <= NumStages
        /\ \A k \in 1 .. Len(Trace) : Trace[k] = k
        /\ ~Verifying => Trace = TraceOnDisk /\ Len(Trace) = NumStages
        /\ phase = "done"
    BY TraceOfRun DEF ChallengeInv, LocatedInv
  <1>2. NumStages \in Nat /\ Stage = 1 .. NumStages
    BY ChainRunnerAssumption DEF Stage
  <1>3. located.index <= Len(Trace) /\ Trace[located.index] = located.stage
    BY DEF Challengeable
  <1>4. claim \in Seq(Checkpoint)
    BY ClaimIsTrace DEF ChallengeInv
  <1>5. CASE Verifying
    <2> DEFINE n == Len(recomputed)
    <2>1. Trace = recomputed /\ located = divergence /\ HasDivergence
      BY <1>5 DEF Trace, ChallengeInv, LocatedInv, HasDivergence
    <2>2. /\ \/ n > 0 /\ divergence = Compare(mode.claimed, n)
             \/ n = NumStages /\ divergence.index = NumStages + 1
          /\ \A k \in 1 .. (n - 1) : AgreesAt(k)
      BY <1>1, <1>5, <2>1 DEF ChallengeInv, IInv, VerifierInv
    <2>3. n > 0 /\ divergence = Compare(mode.claimed, n) /\ n \in Stage
      BY <1>1, <1>2, <1>3, <2>1, <2>2
    <2>4. mode.claimed \in Seq(Hashes)
      BY ModeParts DEF ChallengeInv, IInv, TypeOK
    <2>5. divergence.index = n /\ ~AgreesAt(n)
      BY <2>1, <2>3, <2>4, CompareIsDivergence DEF HasDivergence, AgreesAt
    <2>6. \A k \in Stage : ClaimIsRight(k) <=> AgreesAt(k)
      BY <1>5 DEF ClaimIsRight, AgreesAt
    <2> QED
      BY <1>1, <1>2, <1>3, <2>1, <2>2, <2>3, <2>5, <2>6
  <1>6. CASE ~Verifying
    <2>1. located = LocateDivergence(Trace)
      BY <1>1, <1>6 DEF ChallengeInv, LocatedInv
    <2>2. PICK first \in Nat \ {0} :
            /\ located.index = first
            /\ Reason(Trace, first) # "none"
            /\ \A i \in 1 .. (first - 1) : Reason(Trace, i) = "none"
      BY <1>1, <1>4, <2>1, LocatedFirst
    <2>3. first \in 1 .. Len(Trace) /\ first \in Stage
      BY <1>1, <1>2, <1>3, <2>2
    <2>4. \A i \in 1 .. Len(Trace) : Reason(Trace, i) = "none" <=> ClaimIsRight(i)
      BY <1>1, <1>4, <1>6, ReasonMeansWrong
    <2>5. \A i \in 1 .. (first - 1) : i \in 1 .. Len(Trace)
      BY <1>1, <2>3
    <2> QED
      BY <1>1, <1>3, <2>2, <2>3, <2>4, <2>5
  <1> QED
    BY <1>5, <1>6

(* Whoever is challenged made a wrong claim, and is accused where it is    *)
(* wrong first. *)
THEOREM ChallengesStayJustified == BuildSpec => []ChallengesAreJustified
  <1>1. ChallengeInv => ChallengesAreJustified
    <2> SUFFICES ASSUME ChallengeInv, NEW f \in File, files[f] # "absent"
                 PROVE  /\ located.index \in Stage /\ located.stage = located.index
                        /\ ~ClaimIsRight(located.index)
                        /\ \A i \in 1 .. (located.index - 1) : ClaimIsRight(i)
      BY DEF ChallengesAreJustified
    <2>1. replay = "same"
      BY DEF ChallengeInv, WrittenInv, File
    <2>2. traceFile /\ located # NoDivergence /\ Challengeable(Trace)
      BY <2>1 DEF ChallengeInv, ChosenInv
    <2> QED
      BY <2>2, ChosenIsFirstWrong
  <1> QED
    BY <1>1, ChallengeInvariance, PTL

(* The stage is replayed from the outputs of the stages before it, which   *)
(* are enough for it. *)
THEOREM ReplaysStartFromPrefix == BuildSpec => []ReplayStartsFromPrefix
  <1>1. ChallengeInv => ReplayStartsFromPrefix
    <2> SUFFICES ASSUME ChallengeInv, SeedIsReady
                 PROVE  /\ seeded = 1 .. (located.stage - 1)
                        /\ mode.chain.producers[located.stage] \subseteq seeded
      BY DEF ReplayStartsFromPrefix
    <2>1. traceFile /\ located # NoDivergence /\ Challengeable(Trace)
      BY DEF ChallengeInv, ChosenInv, SeedIsReady
    <2>2. /\ located.index \in 1 .. Len(Trace) /\ located.index \in Stage
          /\ located.stage = located.index
      BY <2>1, ChosenIsFirstWrong
    <2>3. /\ Trace \in Seq(Stage) /\ 1 .. Len(Trace) \subseteq onDisk
          /\ \A k \in 1 .. Len(Trace) : Trace[k] = k
      BY <2>1, TraceOfRun DEF ChallengeInv, LocatedInv
    <2>4. Seed = 1 .. (located.index - 1)
      <3>1. {j \in 1 .. Len(Trace) : IsSeed(j)} = 1 .. (located.index - 1)
        BY <2>2, <2>3 DEF IsSeed
      <3>2. \A k \in 1 .. (located.index - 1) : Trace[k] = k
        BY <2>2, <2>3
      <3> QED
        BY <3>1, <3>2 DEF Seed
    <2>5. seeded = Seed
      <3>1. seeded \subseteq Seed
        BY DEF ChallengeInv, SeedInv
      <3> QED
        BY <3>1 DEF SeedIsReady
    <2>6. mode.chain.producers[located.stage] \subseteq 1 .. (located.stage - 1)
      BY <2>2, <2>3 DEF ChallengeInv, PrefixInv
    <2> QED
      BY <2>2, <2>4, <2>5, <2>6
  <1> QED
    BY <1>1, ChallengeInvariance, PTL

(* A claim with which a build agrees is the honest one: right at every     *)
(* stage, and neither shorter nor longer than the chain. *)
THEOREM OnlyHonestClaimsAgree == BuildSpec => []AcceptedClaimsAreHonest
  <1>1. ChallengeInv => AcceptedClaimsAreHonest
    <2> SUFFICES ASSUME ChallengeInv, build = "no_divergence"
                 PROVE  /\ \A i \in Stage : ClaimIsRight(i)
                        /\ Len(IF Verifying THEN mode.claimed ELSE claim) = NumStages
      BY DEF AcceptedClaimsAreHonest
    <2>1. /\ phase = "done"
          /\ NoDivergence = IF Verifying THEN divergence ELSE LocateDivergence(TraceOnDisk)
      BY DEF ChallengeInv, LocatedInv
    <2>2. NumStages \in Nat /\ Stage = 1 .. NumStages
      BY ChainRunnerAssumption DEF Stage
    <2>3. CASE Verifying
      <3>1. /\ Len(recomputed) = NumStages /\ Len(mode.claimed) <= NumStages
            /\ \A k \in 1 .. Len(recomputed) : AgreesAt(k)
        BY <2>1, <2>3 DEF ChallengeInv, IInv, VerifierInv, HasDivergence
      <3>2. mode.claimed \in Seq(Hashes)
        BY ModeParts DEF ChallengeInv, IInv, TypeOK
      <3>3. Len(mode.claimed) = NumStages
        BY <2>2, <3>1, <3>2 DEF AgreesAt
      <3> QED
        BY <2>2, <2>3, <3>1, <3>3 DEF ClaimIsRight, AgreesAt
    <2>4. CASE ~Verifying
      <3>1. /\ Trace \in Seq(Stage) /\ Trace = TraceOnDisk /\ Len(Trace) = NumStages
            /\ \A k \in 1 .. Len(Trace) : Trace[k] = k
        BY <2>1, <2>4, TraceOfRun DEF ChallengeInv
      <3>2. claim \in Seq(Checkpoint)
        BY ClaimIsTrace DEF ChallengeInv
      <3>3. \A i \in 1 .. Len(claim) \cup 1 .. Len(Trace) : Reason(Trace, i) = "none"
        <4>1. LocateDivergence(Trace) = NoDivergence
          BY <2>1, <2>4, <3>1
        <4>2. NoDivergence.index = 0
          BY DEF NoDivergence
        <4> QED
          BY <3>1, <3>2, <4>1, <4>2, LocatedFirst
      <3>4. \A i \in Stage : ClaimIsRight(i)
        BY <2>2, <2>4, <3>1, <3>2, <3>3, ReasonMeansWrong
      <3>5. Len(claim) = NumStages
        <4>1. Len(claim) \in Nat
          BY <3>2
        <4>2. ~(Len(claim) < NumStages)
          BY <2>2, <2>4, <3>4, <4>1 DEF ClaimIsRight
        <4>3. ~(Len(claim) > NumStages)
          <5> SUFFICES ASSUME Len(claim) > NumStages PROVE FALSE
            OBVIOUS
          <5>1. NumStages + 1 \in 1 .. Len(claim) /\ NumStages + 1 > Len(Trace)
            BY <2>2, <3>1, <4>1
          <5>2. Reason(Trace, NumStages + 1) # "none"
            BY <5>1 DEF Reason
          <5> QED
            BY <3>3, <5>1, <5>2
        <4> QED
          BY <2>2, <4>1, <4>2, <4>3
      <3> QED
        BY <2>4, <3>4, <3>5
    <2> QED
      BY <2>3, <2>4
  <1> QED
    BY <1>1, ChallengeInvariance, PTL

-----------------------------------------------------------------------------
(*                               The caches                                *)
-----------------------------------------------------------------------------
(* Queues without duplicates.                                              *)

Elems(q) == {q[i] : i \in 1 .. Len(q)}
Distinct(q) == \A i, j \in 1 .. Len(q) : q[i] = q[j] => i = j

(* A queue without duplicates has as many elements as positions. *)
LEMMA QueueCardinality ==
  ASSUME NEW S, NEW q \in Seq(S), Distinct(q)
  PROVE  IsFiniteSet(Elems(q)) /\ Cardinality(Elems(q)) = Len(q)
  <1>1. q \in Bijection(1 .. Len(q), Elems(q))
    <2>1. DOMAIN q = 1 .. Len(q) /\ q \in [1 .. Len(q) -> Elems(q)]
      BY DEF Elems
    <2>2. IsInjective(q)
      BY <2>1 DEF IsInjective, Distinct
    <2>3. \A x \in Elems(q) : \E i \in 1 .. Len(q) : q[i] = x
      BY DEF Elems
    <2>4. q \in Injection(1 .. Len(q), Elems(q))
      BY Zenon, <2>1, <2>2 DEF Injection
    <2>5. q \in Surjection(1 .. Len(q), Elems(q))
      BY Zenon, <2>1, <2>3 DEF Surjection
    <2> QED
      BY Zenon, <2>4, <2>5 DEF Bijection
  <1>2. IsFiniteSet(1 .. Len(q)) /\ Cardinality(1 .. Len(q)) = Len(q)
    <2> DEFINE n == Len(q)
    <2>1. n \in Nat
      OBVIOUS
    <2> HIDE DEF n
    <2>2. IsFiniteSet(1 .. n) /\ Cardinality(1 .. n) = IF 1 > n THEN 0 ELSE n - 1 + 1
      BY <2>1, FS_Interval
    <2> QED
      BY <2>1, <2>2 DEF n
  <1>3. ExistsBijection(1 .. Len(q), Elems(q))
    BY Zenon, <1>1 DEF ExistsBijection
  <1> QED
    BY <1>2, <1>3, FS_Bijection

LEMMA AppendQueue ==
  ASSUME NEW S, NEW q \in Seq(S), NEW k \in S
  PROVE  /\ Append(q, k) \in Seq(S) /\ Len(Append(q, k)) = Len(q) + 1
         /\ Elems(Append(q, k)) = Elems(q) \cup {k}
         /\ Distinct(q) /\ k \notin Elems(q) => Distinct(Append(q, k))
  <1> DEFINE a == Append(q, k)
             n == Len(q)
  <1>1. /\ a \in Seq(S) /\ Len(a) = n + 1 /\ n \in Nat
        /\ \A i \in 1 .. n : a[i] = q[i]
        /\ a[n + 1] = k
    OBVIOUS
  <1> HIDE DEF a, n
  <1>2. 1 .. Len(a) = 1 .. n \cup {n + 1}
    BY <1>1
  <1>3. Elems(a) = Elems(q) \cup {k}
    <2>1. Elems(a) = {a[i] : i \in 1 .. n} \cup {a[n + 1]}
      BY <1>1, <1>2 DEF Elems
    <2>2. {a[i] : i \in 1 .. n} = Elems(q)
      BY <1>1 DEF Elems, n
    <2> QED
      BY <1>1, <2>1, <2>2
  <1>4. ASSUME Distinct(q), k \notin Elems(q) PROVE Distinct(a)
    BY <1>1, <1>2, <1>4 DEF Elems, Distinct, n
  <1> QED
    BY <1>1, <1>3, <1>4 DEF a, n

LEMMA TailQueue ==
  ASSUME NEW S, NEW q \in Seq(S), q # <<>>, Distinct(q)
  PROVE  /\ Tail(q) \in Seq(S) /\ Len(Tail(q)) = Len(q) - 1
         /\ Head(q) \in Elems(q)
         /\ Elems(Tail(q)) = Elems(q) \ {Head(q)}
         /\ Distinct(Tail(q))
  <1>1. /\ Tail(q) \in Seq(S) /\ Len(Tail(q)) = Len(q) - 1 /\ Len(q) \in Nat \ {0}
        /\ \A i \in 1 .. Len(Tail(q)) : Tail(q)[i] = q[i + 1]
        /\ Head(q) = q[1]
    OBVIOUS
  <1>2. Head(q) \in Elems(q)
    BY <1>1 DEF Elems
  <1>3. Distinct(Tail(q))
    BY <1>1 DEF Distinct
  <1>4. ASSUME NEW x \in Elems(q), x # Head(q) PROVE x \in Elems(Tail(q))
    <2>1. PICK i \in 1 .. Len(q) : x = q[i]
      BY DEF Elems
    <2>2. i - 1 \in 1 .. Len(Tail(q)) /\ Tail(q)[i - 1] = x
      BY <1>1, <1>4, <2>1
    <2> QED
      BY <2>2 DEF Elems
  <1>5. ASSUME NEW x \in Elems(Tail(q)) PROVE x \in Elems(q) \ {Head(q)}
    <2>1. PICK i \in 1 .. Len(Tail(q)) : x = Tail(q)[i]
      BY DEF Elems
    <2>2. i + 1 \in 1 .. Len(q) /\ x = q[i + 1] /\ i + 1 # 1
      BY <1>1, <2>1
    <2> QED
      BY <1>1, <2>2 DEF Elems, Distinct
  <1> QED
    BY <1>1, <1>2, <1>3, <1>4, <1>5

-----------------------------------------------------------------------------
(* The inductive invariant.                                                *)

(* The call v names loads k. *)
LoadedFor(v, k) ==
  /\ v \in Value
  /\ v[1] = k /\ v[3] \in 1 .. Len(program[v[2]]) /\ program[v[2]][v[3]] = k

EntriesInv == \A k \in DOMAIN entries : LoadedFor(entries[k], k)
AnswersInv ==
  \A t \in Threads : \A n \in 1 .. Len(answers[t]) :
    answers[t][n] = Failed \/ LoadedFor(answers[t][n], program[t][n])
CallsInv ==
  \A t \in Threads :
    /\ Len(answers[t]) <= Len(program[t])
    /\ pc[t] # "idle" => Call(t) <= Len(program[t])
    /\ pc[t] = "uncached" => Key(t) = NoKey \/ capacity = 0
    /\ pc[t] \in {"loading", "loaded"} => Key(t) \in Keys /\ capacity > 0
QueueInv == DOMAIN entries = Elems(order) /\ Distinct(order) /\ Len(order) <= capacity

CInv == CacheTypeOK /\ QueueInv /\ EntriesInv /\ AnswersInv /\ CallsInv

-----------------------------------------------------------------------------
(* Its preservation.                                                       *)

(* A thread in the middle of a call. *)
LEMMA CallFacts ==
  ASSUME CacheTypeOK, NEW t \in Threads, Call(t) <= Len(program[t])
  PROVE  /\ program[t] \in Seq(Keys \cup {NoKey})
         /\ answers[t] \in Seq(Value \cup {Failed})
         /\ Call(t) \in 1 .. Len(program[t]) /\ Key(t) \in Keys \cup {NoKey}
         /\ Key(t) = program[t][Call(t)]
         /\ LoadedFor(Fresh(t), Key(t))
  <1>1. program \in [Threads -> Seq(Keys \cup {NoKey})]
    BY CacheAssumption DEF CacheTypeOK
  <1>2. /\ program[t] \in Seq(Keys \cup {NoKey})
        /\ answers[t] \in Seq(Value \cup {Failed})
    BY <1>1 DEF CacheTypeOK
  <1>3. Call(t) \in 1 .. Len(program[t]) /\ Key(t) \in Keys \cup {NoKey}
    BY <1>2 DEF Call, Key
  <1> QED
    BY <1>2, <1>3 DEF LoadedFor, Fresh, Key, Value

(* The answer of a call that has been given its own key's value. *)
LEMMA ReturnKeeps ==
  ASSUME CacheTypeOK, AnswersInv, CallsInv,
         NEW t \in Threads, Call(t) <= Len(program[t]),
         NEW v, v = Failed \/ LoadedFor(v, Key(t)),
         Return(t, v), program' = program, capacity' = capacity
  PROVE  /\ answers' \in [Threads -> Seq(Value \cup {Failed})]
         /\ pc' \in [Threads -> {"idle", "uncached", "loading", "loaded"}]
         /\ AnswersInv' /\ CallsInv'
  <1>1. /\ answers[t] \in Seq(Value \cup {Failed}) /\ v \in Value \cup {Failed}
        /\ Call(t) = Len(answers[t]) + 1 /\ Len(answers[t]) \in Nat
    BY CallFacts DEF LoadedFor, Call
  <1>2. /\ answers' = [answers EXCEPT ![t] = Append(answers[t], v)]
        /\ pc' = [pc EXCEPT ![t] = "idle"]
    BY DEF Return
  <1>3. /\ answers' \in [Threads -> Seq(Value \cup {Failed})]
        /\ pc' \in [Threads -> {"idle", "uncached", "loading", "loaded"}]
    BY <1>1, <1>2 DEF CacheTypeOK
  <1>4. /\ answers'[t] = Append(answers[t], v) /\ pc'[t] = "idle"
        /\ \A u \in Threads \ {t} : answers'[u] = answers[u] /\ pc'[u] = pc[u]
    BY <1>2 DEF CacheTypeOK
  <1>5. AnswersInv'
    <2> SUFFICES ASSUME NEW u \in Threads, NEW n \in 1 .. Len(answers'[u])
                 PROVE  (answers[u][n] = Failed \/ LoadedFor(answers[u][n], program[u][n]))'
      BY DEF AnswersInv, Failed
    <2>1. CASE u # t
      BY <1>4, <2>1 DEF AnswersInv, LoadedFor
    <2>2. CASE u = t /\ n <= Len(answers[t])
      <3>1. answers'[t][n] = answers[t][n] /\ n \in 1 .. Len(answers[t])
        BY <1>1, <1>4, <2>2
      <3>2. answers[t][n] = Failed \/ LoadedFor(answers[t][n], program[t][n])
        BY <3>1 DEF AnswersInv
      <3> QED
        BY <2>2, <3>1, <3>2 DEF LoadedFor
    <2>3. CASE u = t /\ n = Call(t)
      BY <1>1, <1>4, <2>3 DEF LoadedFor, Key
    <2> QED
      BY <1>1, <1>4, <2>1, <2>2, <2>3
  <1>6. CallsInv'
    <2> SUFFICES ASSUME NEW u \in Threads
                 PROVE  /\ Len(answers'[u]) <= Len(program'[u])
                        /\ pc'[u] # "idle" => Call(u)' <= Len(program'[u])
                        /\ pc'[u] = "uncached" => Key(u)' = NoKey \/ capacity' = 0
                        /\ pc'[u] \in {"loading", "loaded"} => Key(u)' \in Keys /\ capacity' > 0
      BY Zenon DEF CallsInv
    <2>1. CASE u # t
      BY <1>4, <2>1 DEF CallsInv, Call, Key
    <2>2. CASE u = t
      BY <1>1, <1>4, <2>2
    <2> QED
      BY <2>1, <2>2
  <1> QED
    BY <1>3, <1>5, <1>6

(* A step of a call that answers nothing yet. *)
LEMMA MoveKeeps ==
  ASSUME CacheTypeOK, AnswersInv, CallsInv, NEW t \in Threads,
         NEW where \in {"uncached", "loading", "loaded"},
         pc' = [pc EXCEPT ![t] = where],
         Call(t) <= Len(program[t]),
         where = "uncached" => Key(t) = NoKey \/ capacity = 0,
         where # "uncached" => Key(t) \in Keys /\ capacity > 0,
         UNCHANGED <<program, capacity, answers>>
  PROVE  /\ pc' \in [Threads -> {"idle", "uncached", "loading", "loaded"}]
         /\ AnswersInv' /\ CallsInv'
  <1>1. /\ pc' \in [Threads -> {"idle", "uncached", "loading", "loaded"}]
        /\ pc'[t] = where /\ \A u \in Threads \ {t} : pc'[u] = pc[u]
    BY DEF CacheTypeOK
  <1>2. AnswersInv'
    BY DEF AnswersInv, LoadedFor, Failed
  <1>3. CallsInv'
    BY <1>1 DEF CallsInv, Call, Key
  <1> QED
    BY <1>1, <1>2, <1>3

LEMMA CacheInit == InitCache => CInv
  <1> SUFFICES ASSUME InitCache PROVE CInv
    OBVIOUS
  <1>1. program \in [Threads -> Seq(Keys \cup {NoKey})] /\ capacity \in Nat
    BY CacheAssumption DEF InitCache
  <1>2. CacheTypeOK
    BY DEF InitCache, CacheTypeOK
  <1>3. QueueInv /\ EntriesInv
    BY <1>1 DEF InitCache, QueueInv, EntriesInv, Elems, Distinct
  <1>4. AnswersInv /\ CallsInv
    BY <1>1 DEF InitCache, AnswersInv, CallsInv
  <1> QED
    BY <1>2, <1>3, <1>4 DEF CInv

(* What an insertion makes of the two halves of the cache. *)
LEMMA InsertKeeps ==
  ASSUME CInv, NEW t \in Threads, Insert(t)
  PROVE  /\ DOMAIN entries' \subseteq Keys /\ entries' \in [DOMAIN entries' -> Value]
         /\ order' \in Seq(Keys)
         /\ QueueInv' /\ EntriesInv'
  <1> USE DEF CInv
  <1>1. Key(t) \in Keys /\ capacity > 0 /\ capacity \in Nat /\ Call(t) <= Len(program[t])
    BY CacheAssumption DEF Insert, CallsInv, CacheTypeOK
  <1>2. LoadedFor(Fresh(t), Key(t)) /\ Fresh(t) \in Value
    BY <1>1, CallFacts DEF LoadedFor
  <1>3. order \in Seq(Keys) /\ Distinct(order) /\ DOMAIN entries = Elems(order)
    BY DEF QueueInv, CacheTypeOK
  <1>4. Cardinality(DOMAIN entries) = Len(order) /\ Len(order) \in Nat
    BY <1>3, QueueCardinality
  <1> DEFINE kept == IF Full THEN Tail(order) ELSE order
  <1>5. /\ kept \in Seq(Keys) /\ Distinct(kept) /\ Len(kept) < capacity
        /\ Elems(kept) = Elems(order) \ Victims
    <2>1. CASE Full
      <3>1. order # <<>>
        BY <2>1 DEF Full
      <3>2. /\ Tail(order) \in Seq(Keys) /\ Len(Tail(order)) = Len(order) - 1
            /\ Elems(Tail(order)) = Elems(order) \ {Head(order)} /\ Distinct(Tail(order))
        BY <1>3, <3>1, TailQueue
      <3> QED
        BY <1>1, <1>4, <2>1, <3>2 DEF Victims, QueueInv
    <2>2. CASE ~Full
      <3>1. Len(order) < capacity
        BY <1>1, <1>3, <1>4, <2>2 DEF Full
      <3> QED
        BY <1>3, <2>2, <3>1 DEF Victims
    <2> QED
      BY <2>1, <2>2
  <1> HIDE DEF kept
  <1>6. /\ order' = Append(kept, Key(t))
        /\ entries' = [k \in Elems(kept) \cup {Key(t)} |->
                        IF k = Key(t) THEN Fresh(t) ELSE entries[k]]
        /\ Key(t) \notin Elems(kept) /\ program' = program /\ capacity' = capacity
    BY <1>3, <1>5 DEF Insert, Cached, FoundAgain, kept
  <1>7. order' \in Seq(Keys) /\ QueueInv'
    BY <1>1, <1>5, <1>6, AppendQueue DEF QueueInv
  <1>8. /\ DOMAIN entries' = Elems(kept) \cup {Key(t)}
        /\ entries'[Key(t)] = Fresh(t)
        /\ \A k \in Elems(kept) : entries'[k] = entries[k] /\ k \in DOMAIN entries
    BY <1>3, <1>5, <1>6
  <1>9. EntriesInv'
    BY <1>2, <1>6, <1>8 DEF EntriesInv, LoadedFor
  <1>10. DOMAIN entries' \subseteq Keys /\ entries' \in [DOMAIN entries' -> Value]
    BY <1>1, <1>2, <1>3, <1>6, <1>8 DEF CacheTypeOK
  <1> QED
    BY <1>7, <1>9, <1>10

LEMMA CacheStep == CInv /\ [NextCache]_callVars => CInv'
  <1> SUFFICES ASSUME CInv, [NextCache]_callVars PROVE CInv'
    OBVIOUS
  <1> USE DEF CInv
  <1>1. ASSUME UNCHANGED <<program, capacity, entries, order>>
        PROVE  /\ program' \in Programs /\ capacity' \in Capacities
               /\ DOMAIN entries' \subseteq Keys /\ entries' \in [DOMAIN entries' -> Value]
               /\ order' \in Seq(Keys) /\ QueueInv' /\ EntriesInv'
    BY <1>1 DEF CacheTypeOK, QueueInv, EntriesInv, LoadedFor
  <1>2. CASE UNCHANGED callVars
    <2>1. AnswersInv' /\ CallsInv'
      BY <1>2 DEF callVars, cacheVars, AnswersInv, CallsInv, LoadedFor, Call, Key, Failed
    <2> QED
      BY <1>1, <1>2, <2>1 DEF callVars, cacheVars, CacheTypeOK
  <1> USE DEF Keyed, Found, FoundAgain
  <1>3. ASSUME NEW t \in Threads, Lookup(t) PROVE CInv'
    <2>1. Call(t) <= Len(program[t]) /\ Key(t) \in Keys \cup {NoKey}
      BY <1>3, CallFacts DEF Lookup
    <2>2. CASE pc' = [pc EXCEPT ![t] = "uncached"] /\ UNCHANGED answers
               /\ (Key(t) = NoKey \/ capacity = 0)
      BY <1>1, <1>3, <2>1, <2>2, MoveKeeps DEF Lookup, cacheVars, CacheTypeOK
    <2>3. CASE Cached(Key(t)) /\ Return(t, entries[Key(t)])
      <3>1. LoadedFor(entries[Key(t)], Key(t))
        BY <2>3 DEF Cached, EntriesInv
      <3> QED
        BY <1>1, <1>3, <2>1, <2>3, <3>1, ReturnKeeps DEF Lookup, cacheVars, CacheTypeOK
    <2>4. CASE pc' = [pc EXCEPT ![t] = "loading"] /\ UNCHANGED answers
               /\ Key(t) # NoKey /\ capacity > 0
      BY <1>1, <1>3, <2>1, <2>4, MoveKeeps DEF Lookup, cacheVars, CacheTypeOK
    <2> QED
      BY <1>3, <2>2, <2>3, <2>4, CacheAssumption DEF Lookup, CacheTypeOK
  <1>4. ASSUME NEW t \in Threads, Load(t) PROVE CInv'
    <2>1. Call(t) <= Len(program[t])
      BY <1>4 DEF Load, CallsInv
    <2>2. CASE Return(t, Fresh(t))
      BY <1>1, <1>4, <2>1, <2>2, CallFacts, ReturnKeeps DEF Load, cacheVars, CacheTypeOK
    <2>3. CASE pc[t] = "loading" /\ pc' = [pc EXCEPT ![t] = "loaded"] /\ UNCHANGED answers
      BY <1>1, <1>4, <2>1, <2>3, MoveKeeps DEF Load, cacheVars, CacheTypeOK, CallsInv
    <2> QED
      BY <1>4, <2>2, <2>3 DEF Load
  <1>5. ASSUME NEW t \in Threads, FailLoad(t) PROVE CInv'
    <2>1. Call(t) <= Len(program[t])
      BY <1>5 DEF FailLoad, CallsInv
    <2> QED
      BY <1>1, <1>5, <2>1, ReturnKeeps DEF FailLoad, cacheVars, CacheTypeOK
  <1>6. ASSUME NEW t \in Threads, AdoptOther(t) PROVE CInv'
    <2>1. Call(t) <= Len(program[t])
      BY <1>6 DEF AdoptOther, CallsInv
    <2>2. LoadedFor(entries[Key(t)], Key(t))
      BY <1>6 DEF AdoptOther, Cached, EntriesInv
    <2> QED
      BY <1>1, <1>6, <2>1, <2>2, ReturnKeeps DEF AdoptOther, cacheVars, CacheTypeOK
  <1>7. ASSUME NEW t \in Threads, Insert(t) PROVE CInv'
    <2>1. Call(t) <= Len(program[t])
      BY <1>7 DEF Insert, CallsInv
    <2>2. LoadedFor(Fresh(t), Key(t))
      BY <2>1, CallFacts
    <2>3. /\ answers' \in [Threads -> Seq(Value \cup {Failed})]
          /\ pc' \in [Threads -> {"idle", "uncached", "loading", "loaded"}]
          /\ AnswersInv' /\ CallsInv'
      BY <1>7, <2>1, <2>2, ReturnKeeps DEF Insert
    <2> QED
      BY <1>7, <2>3, InsertKeeps DEF Insert, CacheTypeOK
  <1> QED
    BY <1>2, <1>3, <1>4, <1>5, <1>6, <1>7 DEF NextCache, Step

(* For any threads, keys, calls and capacity, the cache's invariant holds. *)
THEOREM CacheInvariance == CacheSpec => []CInv
  BY CacheInit, CacheStep, PTL DEF CacheSpec

-----------------------------------------------------------------------------
(* The properties that the run checks.                                     *)

(* The eviction queue and the entries always describe the same set of at   *)
(* most capacity keys. *)
THEOREM QueueAlwaysMatches == CacheSpec => []QueueMatchesEntries
  <1>1. CInv => QueueMatchesEntries
    BY DEF CInv, QueueInv, QueueMatchesEntries, Elems, Distinct
  <1> QED
    BY <1>1, CacheInvariance, PTL

(* Every call returns, and every entry is, something loaded for its key.   *)
THEOREM AnswersAlwaysOwnKey == CacheSpec => []AnswersOwnKey
  <1>1. CInv => AnswersOwnKey
    BY DEF CInv, AnswersInv, EntriesInv, LoadedFor, AnswersOwnKey
  <1> QED
    BY <1>1, CacheInvariance, PTL

(* An entry is not replaced while it is cached, and only the oldest entry  *)
(* is ever evicted. *)
THEOREM EntriesAlwaysStable == CacheSpec => EntriesAreStable
  <1>1. ASSUME CInv, [NextCache]_callVars, NEW k \in DOMAIN entries
        PROVE  \/ Cached(k)' /\ entries'[k] = entries[k]
               \/ ~Cached(k)' /\ k = Head(order)
    <2>1. CASE UNCHANGED entries
      BY <2>1 DEF Cached
    <2>2. ASSUME NEW t \in Threads, Insert(t)
          PROVE  \/ Cached(k)' /\ entries'[k] = entries[k]
                 \/ ~Cached(k)' /\ k = Head(order)
      BY <1>1, <2>2 DEF Insert, Victims, Cached, FoundAgain
    <2> QED
      BY <1>1, <2>1, <2>2
         DEF NextCache, Step, Lookup, Load, FailLoad, AdoptOther, callVars, cacheVars
  <1>2. CInv /\ [NextCache]_callVars =>
          [\A k \in DOMAIN entries :
             \/ Cached(k)' /\ entries'[k] = entries[k]
             \/ ~Cached(k)' /\ k = Head(order)]_callVars
    BY <1>1
  <1> QED
    BY <1>2, CacheInvariance, PTL DEF CacheSpec, EntriesAreStable

-----------------------------------------------------------------------------
(* Refinement.                                                             *)

LEMMA TableOfQueue ==
  ASSUME CInv
  PROVE  LET table == [i \in 1 .. Len(order) |-> entries[order[i]]]
         IN  /\ table \in Seq(Value) /\ Len(table) = Len(order)
             /\ DOMAIN table = 1 .. Len(order)
             /\ \A i \in 1 .. Len(order) : table[i] = entries[order[i]] /\ table[i][1] = order[i]
  <1>1. order \in Seq(Keys) /\ \A i \in 1 .. Len(order) : order[i] \in DOMAIN entries
    BY DEF CInv, CacheTypeOK, QueueInv, Elems
  <1>2. \A i \in 1 .. Len(order) : entries[order[i]] \in Value /\ entries[order[i]][1] = order[i]
    BY <1>1 DEF CInv, CacheTypeOK, EntriesInv, LoadedFor
  <1> QED
    BY <1>1, <1>2

(* An insertion is a load of the memo table. *)
LEMMA InsertIsLoad ==
  ASSUME CInv, NEW t \in Threads, Insert(t)
  PROVE  Memo!Load(t)
  <1> DEFINE table == [i \in 1 .. Len(order) |-> entries[order[i]]]
             kept == IF Len(table) < capacity THEN table ELSE Tail(table)
             keptOrder == IF Full THEN Tail(order) ELSE order
             k == Key(t)
  <1> USE DEF CInv
  <1>1. /\ table \in Seq(Value) /\ Len(table) = Len(order) /\ Len(order) \in Nat
        /\ DOMAIN table = 1 .. Len(order)
        /\ \A i \in 1 .. Len(order) : table[i] = entries[order[i]] /\ table[i][1] = order[i]
        /\ order \in Seq(Keys)
    BY TableOfQueue DEF CacheTypeOK
  <1>2. /\ k \in Keys /\ capacity > 0 /\ capacity \in Nat /\ Call(t) <= Len(program[t])
        /\ k \notin DOMAIN entries
    BY CacheAssumption DEF Insert, CallsInv, CacheTypeOK, Cached, FoundAgain
  <1>3. Full <=> ~(Len(table) < capacity)
    <2>1. Cardinality(DOMAIN entries) = Len(order)
      BY QueueCardinality DEF QueueInv, CacheTypeOK
    <2>2. Len(order) = 0 <=> order = <<>>
      BY <1>1
    <2> QED
      BY <1>1, <1>2, <2>1, <2>2 DEF Full
  <1>4. /\ Len(kept) = Len(keptOrder) /\ Len(kept) \in Nat
        /\ kept \in Seq(Value) /\ keptOrder \in Seq(Keys)
        /\ \A i \in 1 .. Len(kept) :
             /\ kept[i] = entries[keptOrder[i]]
             /\ keptOrder[i] \in DOMAIN entries \ Victims
    <2>1. CASE ~Full
      <3>1. kept = table /\ keptOrder = order /\ Victims = {}
        BY <1>3, <2>1 DEF Victims
      <3> QED
        BY <1>1, <3>1 DEF QueueInv, Elems
    <2>2. CASE Full
      <3>1. kept = Tail(table) /\ keptOrder = Tail(order) /\ Victims = {Head(order)}
        BY <1>3, <2>2 DEF Victims
      <3>2. order # <<>> /\ table # <<>> /\ Len(order) > 0
        BY <1>1, <2>2 DEF Full
      <3>3. /\ Tail(order) \in Seq(Keys) /\ Len(Tail(order)) = Len(order) - 1
            /\ \A i \in 1 .. Len(Tail(order)) : Tail(order)[i] = order[i + 1]
            /\ Elems(Tail(order)) = DOMAIN entries \ {Head(order)}
        BY <1>1, <3>2, TailQueue DEF QueueInv
      <3>4. /\ Tail(table) \in Seq(Value) /\ Len(Tail(table)) = Len(order) - 1
            /\ \A i \in 1 .. Len(Tail(table)) : Tail(table)[i] = table[i + 1]
        BY <1>1, <3>2
      <3>5. \A i \in 1 .. Len(order) - 1 : Tail(order)[i] \in DOMAIN entries \ {Head(order)}
        BY <3>3 DEF Elems
      <3> HIDE DEF table, kept, keptOrder
      <3>6. \A i \in 1 .. Len(order) - 1 :
              /\ i + 1 \in 1 .. Len(order)
              /\ Tail(table)[i] = entries[order[i + 1]] /\ Tail(order)[i] = order[i + 1]
        BY <1>1, <3>3, <3>4
      <3>7. Len(order) - 1 \in Nat
        BY <1>1, <3>2
      <3> QED
        BY <3>1, <3>3, <3>4, <3>5, <3>6, <3>7
    <2> QED
      BY <2>1, <2>2
  <1>5. /\ order' = Append(keptOrder, k)
        /\ entries' = [x \in (DOMAIN entries \ Victims) \cup {k} |->
                        IF x = k THEN Fresh(t) ELSE entries[x]]
        /\ answers' = [answers EXCEPT ![t] = Append(@, Fresh(t))]
        /\ UNCHANGED <<program, capacity>>
    BY DEF Insert, Return
  <1>6. Fresh(t) \in Value
    BY <1>2, CallFacts DEF LoadedFor
  <1> DEFINE newTable == [i \in 1 .. Len(order') |-> entries'[order'[i]]]
  <1>7. newTable = Append(kept, Fresh(t))
    <2> DEFINE n == Len(kept)
    <2> HIDE DEF kept, keptOrder, table
    <2>1. /\ Len(order') = n + 1 /\ order'[n + 1] = k
          /\ \A i \in 1 .. n : order'[i] = keptOrder[i]
      BY <1>2, <1>4, <1>5
    <2>2. entries'[k] = Fresh(t)
      BY <1>5
    <2>3. \A i \in 1 .. n : entries'[order'[i]] = kept[i]
      BY <1>2, <1>4, <1>5, <2>1
    <2>4. Append(kept, Fresh(t)) = [i \in 1 .. n + 1 |-> IF i = n + 1 THEN Fresh(t) ELSE kept[i]]
      <3> DEFINE a == Append(kept, Fresh(t))
      <3>1. /\ a \in [1 .. n + 1 -> Value] /\ a[n + 1] = Fresh(t)
            /\ \A i \in 1 .. n : a[i] = kept[i]
        <4>1. a \in Seq(Value) /\ Len(a) = n + 1
          BY <1>4, <1>6
        <4>2. a \in [1 .. n + 1 -> Value]
          <5> HIDE DEF a, n
          <5> QED
            BY <4>1
        <4>3. a[n + 1] = Fresh(t) /\ \A i \in 1 .. n : a[i] = kept[i]
          BY <1>4, <1>6
        <4> QED
          BY <4>2, <4>3
      <3>2. n \in Nat
        BY <1>4
      <3> HIDE DEF a, n
      <3>3. a = [i \in 1 .. n + 1 |-> a[i]]
        BY <3>1
      <3>4. \A i \in 1 .. n + 1 : a[i] = IF i = n + 1 THEN Fresh(t) ELSE kept[i]
        BY <3>1, <3>2
      <3> QED
        BY <3>3, <3>4 DEF a
    <2>5. n \in Nat
      BY <1>4
    <2> HIDE DEF n
    <2>6. newTable = [i \in 1 .. n + 1 |-> IF i = n + 1 THEN Fresh(t) ELSE kept[i]]
      BY <2>1, <2>2, <2>3, <2>5
    <2> QED
      BY <2>4, <2>6
  <1>8. Memo!Hit(t) = {} /\ Memo!Pending(t) /\ Memo!Memoised(t)
    <2>1. Memo!Key(t) = k /\ \A i \in DOMAIN table : table[i][1] \in DOMAIN entries
      BY <1>1 DEF Memo!Key, Key, Call, QueueInv, Elems
    <2> QED
      BY <1>2, <2>1, CacheAssumption, CallFacts
         DEF Memo!Hit, Memo!Pending, Memo!Memoised, Call
  <1>9. Memo!Fresh(t) = Fresh(t)
    BY DEF Memo!Fresh, Memo!Key, Fresh, Key, Call
  <1> HIDE DEF newTable
  <1> QED
    BY <1>5, <1>7, <1>8, <1>9 DEF Memo!Load, Memo!Answer, newTable

(* The cache, with its two locked sections around an unlocked load,        *)
(* implements a memo table whose calls are indivisible: a lookup that      *)
(* hits and an adopted entry are a reuse, an insertion is a load, and a    *)
(* lookup that misses and a load under way are invisible. *)
THEOREM CacheImplementsMemo == CacheSpec => Memo!Spec
  <1>1. InitCache => Memo!Init
    BY DEF InitCache, Memo!Init
  <1>2. ASSUME CInv, [NextCache]_callVars PROVE [Memo!Next]_Memo!vars
    <2> USE DEF CInv, Keyed, Found, FoundAgain
    <2>1. ASSUME NEW t \in Threads, Call(t) <= Len(program[t])
          PROVE  /\ Memo!Pending(t) /\ Memo!Key(t) = Key(t) /\ Memo!Fresh(t) = Fresh(t)
                 /\ Memo!Memoised(t) <=> Key(t) # NoKey /\ capacity > 0
      BY <1>2, <2>1, CallFacts DEF Memo!Pending, Memo!Key, Memo!Fresh, Memo!Memoised, Key, Call, Fresh
    <2>2. ASSUME NEW t \in Threads, Call(t) <= Len(program[t]), Cached(Key(t)),
                 Key(t) # NoKey, capacity > 0,
                 Return(t, entries[Key(t)]), UNCHANGED <<program, capacity, entries, order>>
          PROVE  Memo!Reuse(t)
      <3>1. PICK i \in 1 .. Len(order) : order[i] = Key(t)
        BY <1>2, <2>2 DEF Cached, QueueInv, Elems
      <3> DEFINE table == [j \in 1 .. Len(order) |-> entries[order[j]]]
      <3>2. i \in DOMAIN table /\ table[i] = entries[Key(t)] /\ table[i][1] = Key(t)
        BY <1>2, <2>2, <3>1 DEF Cached, EntriesInv, LoadedFor
      <3>3. i \in Memo!Hit(t)
        BY <2>1, <2>2, <3>2 DEF Memo!Hit
      <3> QED
        BY <2>1, <2>2, <3>2, <3>3 DEF Memo!Reuse, Memo!Answer, Return
    <2>3. ASSUME NEW t \in Threads, Lookup(t) PROVE Memo!Reuse(t) \/ UNCHANGED Memo!vars
      <3>1. CASE Return(t, entries[Key(t)]) /\ Cached(Key(t)) /\ Key(t) # NoKey /\ capacity > 0
        BY <2>2, <2>3, <3>1 DEF Lookup, cacheVars
      <3>2. CASE UNCHANGED answers
        BY <2>3, <3>2 DEF Lookup, cacheVars, Memo!vars
      <3> QED
        BY <2>3, <3>1, <3>2 DEF Lookup
    <2>4. ASSUME NEW t \in Threads, Load(t) PROVE Memo!Bypass(t) \/ UNCHANGED Memo!vars
      <3>1. CASE pc[t] = "uncached" /\ Return(t, Fresh(t))
        <4>1. Call(t) <= Len(program[t]) /\ (Key(t) = NoKey \/ ~(capacity > 0))
          BY <1>2, <3>1 DEF CallsInv
        <4> QED
          BY <2>1, <2>4, <3>1, <4>1 DEF Load, cacheVars, Memo!Bypass, Memo!Answer, Return
      <3>2. CASE UNCHANGED answers
        BY <2>4, <3>2 DEF Load, cacheVars, Memo!vars
      <3> QED
        BY <2>4, <3>1, <3>2 DEF Load
    <2>5. ASSUME NEW t \in Threads, FailLoad(t) PROVE Memo!Fail(t)
      <3>1. Call(t) <= Len(program[t])
        BY <1>2, <2>5 DEF FailLoad, CallsInv
      <3> QED
        BY <2>1, <2>5, <3>1 DEF FailLoad, cacheVars, Memo!Fail, Memo!Answer, Memo!Failed,
                                Failed, Return
    <2>6. ASSUME NEW t \in Threads, AdoptOther(t) PROVE Memo!Reuse(t)
      <3>1. Call(t) <= Len(program[t]) /\ Key(t) # NoKey /\ capacity > 0
        BY <1>2, <2>6, CacheAssumption DEF AdoptOther, CallsInv
      <3> QED
        BY <2>2, <2>6, <3>1 DEF AdoptOther, cacheVars
    <2>7. CASE UNCHANGED callVars
      BY <2>7 DEF callVars, cacheVars, Memo!vars
    <2> QED
      BY <1>2, <2>3, <2>4, <2>5, <2>6, <2>7, InsertIsLoad DEF NextCache, Step, Memo!Next, Memo!Call
  <1> QED
    BY <1>1, <1>2, CacheInvariance, PTL DEF CacheSpec, Memo!Spec
=============================================================================

--------------------------- MODULE ChallengeBuild ---------------------------
(***************************************************************************)
(* challenge build (crates/inference/cli/src/challenge.rs and              *)
(* artifacts/src/challenge.rs): a claim is recomputed with the runner of   *)
(* ChainRunner, the first divergence is located, the stage it names is     *)
(* replayed by the Raster chain runner in a directory seeded with the      *)
(* recomputed checkpoints before it, and the challenge is published when   *)
(* the replayed checkpoint is the recomputed one.                          *)
(*                                                                         *)
(* A claim is a list of hashes, compared while the run goes on, or a trace *)
(* of whole checkpoints (--claim, --trace), compared with what the         *)
(* finished run left on disk.  The model starts where the claim is loaded  *)
(* and the model and run manifests are verified.  Every build has a chain  *)
(* directory of its own, so nothing is left in it from an earlier one.     *)
(***************************************************************************)
EXTENDS ChainRunner

CONSTANTS
  ClaimedTraces,  (* the traces that may be claimed                           *)
  NameRank        (* the place of a stage's name in the order of all names    *)

(* A stage's name is its number; NoStage is a name that is not in the chain.*)
Checkpoint == [stage : Stage \cup {NoStage}, hash : Hashes]
HonestCheckpoint(i) == [stage |-> i, hash |-> StageHash[i]]

ASSUME ChallengeAssumption ==
  /\ References = {NoStage}
  /\ ClaimedTraces \subseteq Seq(Checkpoint)
  /\ NameRank \in [Stage -> Nat]
  /\ \A i, j \in Stage : NameRank[i] = NameRank[j] => i = j

VARIABLES
  claim,      (* the claimed trace, <<>> if hashes are claimed                *)
  build,      (* where build_challenge is                                     *)
  located,    (* the divergence it found                                      *)
  traceFile,  (* checkpoint_trace.json has been written                       *)
  seeded,     (* stages whose directory is in raster-replay                   *)
  replay,     (* the replayed checkpoint: "none" yet, "same" or "different"   *)
  files       (* the challenge artifacts: "absent", "torn" or "whole"         *)

buildVars == <<claim, build, located, traceFile, seeded, replay, files>>
allVars == <<vars, buildVars>>

-----------------------------------------------------------------------------
(* What is compared.                                                       *)

(* The stages in S, by increasing rank.                                    *)
SortedBy(S, rank) ==
  CHOOSE s \in [1 .. Cardinality(S) -> S] :
    \A i, j \in 1 .. Cardinality(S) : i < j => rank[s[i]] < rank[s[j]]

TraceReasons == {"stage_name", "checkpoint_field", "missing_claimed_checkpoint",
                 "missing_recomputed_checkpoint"}

Artifacts == <<"divergence", "replay_package", "challenge_trace", "challenge_bundle">>
File == {Artifacts[i] : i \in DOMAIN Artifacts}

(* Faults: mistakes that would break a property, used by no action.        *)
ClaimNotCutShort(trace, i) ==
  IF i > Len(trace) THEN "missing_recomputed_checkpoint"
  ELSE IF i > Len(claim) THEN "none"
  ELSE IF claim[i].stage # trace[i] THEN "stage_name"
  ELSE IF claim[i] # HonestCheckpoint(trace[i]) THEN "checkpoint_field"
  ELSE "none"
NamesOneOfTheChain(trace) == located.stage \in Stage
OneSeedMore(k) == k <= located.index
ParityForgotten == replay # "none"
AfterItself(f) ==
  \E n \in DOMAIN Artifacts :
    /\ f = Artifacts[n] /\ files[f] = "absent"
    /\ \A m \in 1 .. n : files[Artifacts[m]] = "whole"

(* build_checkpoint_trace: the stages found in the chain directory, in the *)
(* order of execution-times.json or, without that file, of their names.    *)
TraceOnDisk == SortedBy(onDisk, IF timesFile THEN [i \in Stage |-> i] ELSE NameRank)

Trace == IF Verifying THEN recomputed ELSE TraceOnDisk

(* divergence_reason, at index i of a claimed and a recomputed trace.      *)
Reason(trace, i) ==
  IF i > Len(trace) THEN "missing_recomputed_checkpoint"
  ELSE IF i > Len(claim) THEN "missing_claimed_checkpoint"
  ELSE IF claim[i].stage # trace[i] THEN "stage_name"
  ELSE IF claim[i] # HonestCheckpoint(trace[i]) THEN "checkpoint_field"
  ELSE "none"

(* locate_divergence: the first index at which there is a reason.          *)
LocateDivergence(trace) ==
  LET Longest == IF Len(claim) > Len(trace) THEN Len(claim) ELSE Len(trace)
      Differ == {i \in 1 .. Longest : Reason(trace, i) # "none"}
  IN  IF Differ = {} THEN NoDivergence
      ELSE LET first == CHOOSE i \in Differ : \A j \in Differ : i <= j
           IN [index |-> first,
               stage |-> IF first <= Len(claim) THEN claim[first].stage ELSE trace[first],
               reason |-> Reason(trace, first)]

(* The recomputed trace has a checkpoint of the name in the divergence.    *)
Challengeable(trace) ==
  located.index <= Len(trace) /\ trace[located.index] = located.stage

(* The checkpoints that the replay directory is seeded with.               *)
IsSeed(k) == k < located.index
Seed == {Trace[k] : k \in {j \in 1 .. Len(Trace) : IsSeed(j)}}
SeedIsReady == build = "seeding" /\ Seed \subseteq seeded

(* The replayed checkpoint may be published; the file to write next.       *)
Parity == replay = "same"
NextFile(f) ==
  \E n \in DOMAIN Artifacts :
    /\ f = Artifacts[n] /\ files[f] = "absent"
    /\ \A m \in 1 .. (n - 1) : files[Artifacts[m]] = "whole"

-----------------------------------------------------------------------------
BuildInit ==
  /\ Init
  /\ claim \in IF Verifying THEN {<<>>} ELSE ClaimedTraces
  /\ build = "recompute" /\ located = NoDivergence
  /\ traceFile = FALSE /\ seeded = {} /\ replay = "none"
  /\ files = [f \in File |-> "absent"]

(* The run, until it returns. *)
Recompute ==
  /\ build = "recompute"
  /\ Next
  /\ UNCHANGED buildVars

(* The run has returned a chain directory: a divergence from the verifier, *)
(* or one to be found on disk.  The trace is written in either case.       *)
Locate ==
  /\ build = "recompute" /\ phase = "done"
  /\ located' = IF Verifying THEN divergence ELSE LocateDivergence(TraceOnDisk)
  /\ traceFile' = TRUE
  /\ build' = "located"
  /\ UNCHANGED <<vars, claim, seeded, replay, files>>

ReportNoDivergence ==
  /\ build = "located" /\ located = NoDivergence
  /\ build' = "no_divergence"
  /\ UNCHANGED <<vars, claim, located, traceFile, seeded, replay, files>>

(* No recomputed checkpoint to replay, or one of another stage. *)
Refuse ==
  /\ build = "located" /\ located # NoDivergence /\ ~Challengeable(Trace)
  /\ build' = "refused"
  /\ UNCHANGED <<vars, claim, located, traceFile, seeded, replay, files>>

(* seed_replay_directory: an empty directory, then one stage after another.*)
ResetReplayDir ==
  /\ build = "located" /\ located # NoDivergence /\ Challengeable(Trace)
  /\ build' = "seeding" /\ seeded' = {}
  /\ UNCHANGED <<vars, claim, located, traceFile, replay, files>>

CopyProducer ==
  /\ build = "seeding"
  /\ \E k \in 1 .. Len(Trace) :
       /\ IsSeed(k) /\ Trace[k] \notin seeded
       /\ \A j \in 1 .. (k - 1) : Trace[j] \in seeded
       /\ Trace[k] \in onDisk
       /\ seeded' = seeded \cup {Trace[k]}
  /\ UNCHANGED <<vars, claim, build, located, traceFile, replay, files>>

(* cargo raster chain run --stage: the stage executed from the outputs in  *)
(* the directory, all of which it must find there.                         *)
Replay ==
  /\ SeedIsReady
  /\ mode.chain.producers[located.stage] \subseteq seeded
  /\ replay' \in {"same", "different"}
  /\ build' = "replayed"
  /\ UNCHANGED <<vars, claim, located, traceFile, seeded, files>>

(* write_challenge_artifacts compares the checkpoints before it writes.    *)
CheckParity ==
  /\ build = "replayed"
  /\ build' = IF Parity THEN "publishing" ELSE "parity_error"
  /\ UNCHANGED <<vars, claim, located, traceFile, seeded, replay, files>>

Publish ==
  /\ build = "publishing"
  /\ \E f \in File : NextFile(f) /\ files' = [files EXCEPT ![f] = "whole"]
  /\ UNCHANGED <<vars, claim, build, located, traceFile, seeded, replay>>

(* The bundle is read back. *)
ReportBuilt ==
  /\ build = "publishing" /\ \A f \in File : files[f] = "whole"
  /\ build' = "built"
  /\ UNCHANGED <<vars, claim, located, traceFile, seeded, replay, files>>

(* The run or the replay returned an error. *)
ReturnError ==
  /\ \/ build = "recompute" /\ phase = "failed"
     \/ SeedIsReady
  /\ build' = "failed"
  /\ UNCHANGED <<vars, claim, located, traceFile, seeded, replay, files>>

(* A read, a copy or a write failed, or the process was killed: a file may *)
(* be left half written.                                                   *)
BreakOff ==
  /\ \/ build = "recompute" /\ phase = "done" /\ UNCHANGED files
     \/ build \in {"located", "seeding", "replayed", "publishing"} /\ UNCHANGED files
     \/ /\ build = "publishing"
        /\ \E f \in File : NextFile(f) /\ files' = [files EXCEPT ![f] = "torn"]
  /\ build' = "failed"
  /\ UNCHANGED <<vars, claim, located, traceFile, seeded, replay>>

BuildStep ==
  \/ Locate \/ ReportNoDivergence \/ Refuse \/ ResetReplayDir \/ CopyProducer
  \/ Replay \/ CheckParity \/ Publish \/ ReportBuilt \/ ReturnError

BuildNext == Recompute \/ BuildStep \/ BreakOff

BuildSpec == BuildInit /\ [][BuildNext]_allVars

(* One thread, which waits for the run and then for cargo raster, which is *)
(* taken to end; nothing has to break off.                                 *)
FairBuildSpec == BuildSpec /\ Fairness /\ WF_allVars(BuildStep)
-----------------------------------------------------------------------------
(* Properties.                                                             *)

Outcomes == {"no_divergence", "refused", "parity_error", "built", "failed"}

(* Every variable of the build has its type. *)
BuildTypeOK ==
  /\ claim \in ClaimedTraces \cup {<<>>}
  /\ build \in {"recompute", "located", "seeding", "replayed", "publishing"} \cup Outcomes
  /\ located \in [index : Nat, stage : Stage \cup {NoStage},
                  reason : Reasons \cup TraceReasons \cup {"none"}]
  /\ traceFile \in BOOLEAN /\ seeded \subseteq Stage
  /\ replay \in {"none", "same", "different"}
  /\ files \in [File -> {"absent", "torn", "whole"}]

(* The claim has the checkpoint that an honest run has at index i.         *)
ClaimIsRight(i) ==
  /\ i \in Stage
  /\ IF Verifying
     THEN i <= Len(mode.claimed) /\ mode.claimed[i] = StageHash[i]
     ELSE i <= Len(claim) /\ claim[i] = HonestCheckpoint(i)

(* A challenge of which anything is on disk accuses the claim at the first *)
(* stage at which it is wrong, whether the verifier found it during a run  *)
(* that left later outputs of a wave behind, or it was found on disk.      *)
ChallengesAreJustified ==
  (\E f \in File : files[f] # "absent") =>
    /\ located.index \in Stage /\ located.stage = located.index
    /\ ~ClaimIsRight(located.index)
    /\ \A i \in 1 .. (located.index - 1) : ClaimIsRight(i)

(* A claim is reported to agree only if it is the honest one, to the end.  *)
AcceptedClaimsAreHonest ==
  build = "no_divergence" =>
    /\ \A i \in Stage : ClaimIsRight(i)
    /\ Len(IF Verifying THEN mode.claimed ELSE claim) = NumStages

(* The replay of a stage starts from the outputs of the stages before it,  *)
(* all its producers among them, and from nothing else: not its own native *)
(* output, and none of the outputs that the rest of its wave left on disk. *)
ReplayStartsFromPrefix ==
  SeedIsReady =>
    /\ seeded = 1 .. (located.stage - 1)
    /\ mode.chain.producers[located.stage] \subseteq seeded

(* Nothing is published of a challenge that Raster does not confirm, and   *)
(* whatever is on disk after a failure or a crash refers only to complete  *)
(* files: a reader who finds the bundle finds all that it names.           *)
RefersTo(f) == CASE f = "challenge_trace" -> {"divergence", "replay_package"}
                 [] f = "challenge_bundle" -> File \ {f}
                 [] OTHER -> {}
ArtifactsAreConsistent ==
  \A f \in File : files[f] # "absent" =>
    /\ replay = "same" /\ traceFile
    /\ \A g \in RefersTo(f) : files[g] = "whole"

(* Every build ends with an outcome, also one that nothing interrupts. *)
BuildEnds == <>(build \in Outcomes)

(* docs/workflows/challenge-build.md:22 says that the replay directory is  *)
(* seeded if a divergence exists, whatever its reason: a located           *)
(* divergence would never be refused. *)
EveryDivergenceIsReplayed == build # "refused"
=============================================================================

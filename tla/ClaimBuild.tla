------------------------------ MODULE ClaimBuild ------------------------------
(***************************************************************************)
(* How a claim is built (crates/inference/cli/src/claim.rs, artifacts/src/ *)
(* claim.rs), and what a challenge checks before it executes the claimed   *)
(* run again (cli/src/challenge.rs), in a model directory that others      *)
(* import into meanwhile.                                                  *)
(*                                                                         *)
(* A run manifest is the template and the tokenizer it was rendered with.  *)
(* Stages are deterministic and their model files are bound by commitment: *)
(* the trace of a run is the run manifest that was executed.               *)
(***************************************************************************)
EXTENDS ModelIdentity

CONSTANT NoStages  (* a run manifest that somebody emptied *)

VARIABLES
  claim,       (* the process that builds the claim                           *)
  runManifest, (* Raster.toml of the run directory                            *)
  prepared,    (* prepared_run.json                                           *)
  published,   (* artifact -> what the chain directory has of it              *)
  challenge    (* the process that challenges the claim                       *)

claimVars == <<claim, runManifest, prepared, published, challenge>>
vars == <<identityVars, claimVars>>

Artifacts == {"trace", "hashes", "bundle"}
NoProcess == [step |-> "none", model |-> Missing, checked |-> NoFiles, text |-> Missing,
              pieces |-> Missing, disturbed |-> FALSE]

InitClaim ==
  /\ claim = NoProcess /\ challenge = NoProcess
  /\ runManifest = Missing /\ prepared = Missing
  /\ published = [a \in Artifacts |-> Missing]

(* A process goes on, and has been disturbed if something changes now. *)
Steps(process, step) == [process EXCEPT !.step = step]
Ended == {"none", "refused", "died", "done"}
Disturbed(process) == [process EXCEPT !.disturbed = @ \/ process.step \notin Ended]

-----------------------------------------------------------------------------
(* load_verified and verified_raster_template, of a process. *)

LoadsManifest(process, next) ==
  IF IsManifest(manifest) THEN [Steps(process, next) EXCEPT !.model = manifest] ELSE Steps(process, "refused")

ChecksFile(process, next) ==
  LET f == NextOf(VerifyOrder, process.checked)
      checked == Also(process.checked, f, TRUE)
  IN  IF ~FileAgrees(process.model, f) THEN Steps(process, "refused")
      ELSE [process EXCEPT !.checked = checked, !.step = IF DOMAIN checked = Files THEN next ELSE @]

ChecksTemplate(process, next) ==
  IF TemplateAgrees(process.model) THEN [Steps(process, next) EXCEPT !.text = template]
  ELSE Steps(process, "refused")

-----------------------------------------------------------------------------
(* The claim: prepare_claim_run, the checkpointed run, the artifacts.      *)

AtClaim(step) == claim.step = step /\ UNCHANGED <<identityVars, challenge>>
NothingWritten == UNCHANGED <<runManifest, prepared, published>>

LoadModel == AtClaim("none") /\ claim' = LoadsManifest(claim, "files") /\ NothingWritten
VerifyFile == AtClaim("files") /\ claim' = ChecksFile(claim, "template") /\ NothingWritten
VerifyTemplate == AtClaim("template") /\ claim' = ChecksTemplate(claim, "prompt") /\ NothingWritten

(* The tokenizer is read once more, to prepare the prompt. *)
PreparePrompt ==
  /\ AtClaim("prompt")
  /\ claim' = [Steps(claim, "render") EXCEPT !.pieces = bundle["tokenizer"]]
  /\ NothingWritten

RenderRunManifest ==
  /\ AtClaim("render")
  /\ claim' = Steps(claim, "freeze")
  /\ runManifest' = [template |-> claim.text, pieces |-> claim.pieces]
  /\ UNCHANGED <<prepared, published>>

(* The digest of the run manifest is that of the text which was written,   *)
(* the digest of the model manifest that of the file that is there now.    *)
Freeze ==
  /\ AtClaim("freeze")
  /\ claim' = Steps(claim, "execute")
  /\ prepared' = [model |-> manifest, run |-> [template |-> claim.text, pieces |-> claim.pieces]]
  /\ UNCHANGED <<runManifest, published>>

Execute ==
  /\ AtClaim("execute")
  /\ \/ claim' = [Steps(claim, "trace") EXCEPT !.text = runManifest]
     \/ claim' = Steps(claim, "refused")
  /\ NothingWritten

Publish(artifact, next) ==
  /\ AtClaim(artifact)
  /\ claim' = Steps(claim, next)
  /\ published' = [published EXCEPT ![artifact] = claim.text]
  /\ UNCHANGED <<runManifest, prepared>>

(* A faulty variant: the bundle is written before the hashes. *)
BundleFirst(artifact) ==
  CASE artifact = "trace" -> "bundle" [] artifact = "bundle" -> "hashes" [] OTHER -> "done"
AfterArtifact(artifact) ==
  CASE artifact = "trace" -> "hashes" [] artifact = "hashes" -> "bundle" [] OTHER -> "done"

PublishTrace == Publish("trace", AfterArtifact("trace"))
PublishHashes == Publish("hashes", AfterArtifact("hashes"))

(* Only now it is an error that the trace is empty. *)
PublishBundle ==
  IF claim.text = NoStages
  THEN AtClaim("bundle") /\ claim' = Steps(claim, "refused") /\ NothingWritten
  ELSE Publish("bundle", AfterArtifact("bundle"))

(* The process is killed, perhaps while it writes an artifact. *)
ClaimDies ==
  /\ claim.step \notin Ended
  /\ claim' = Steps(claim, "died")
  /\ published' \in {published} \cup {[published EXCEPT ![a] = Torn] : a \in {claim.step} \cap Artifacts}
  /\ UNCHANGED <<identityVars, runManifest, prepared, challenge>>

-----------------------------------------------------------------------------
(* The challenge of a published claim, up to the run that it repeats.      *)

AtChallenge(step) ==
  challenge.step = step /\ UNCHANGED <<identityVars, claim, runManifest, prepared, published>>
GoesOnIf(ok, next) == challenge' = Steps(challenge, IF ok THEN next ELSE "refused")

LoadClaim ==
  /\ AtChallenge("none")
  /\ published["bundle"] # Missing
  /\ \E claimed \in {"trace", "hashes"} :
       GoesOnIf({published["bundle"], published[claimed]} \cap {Missing, Torn} = {}, "frozen model")

(* verify_prepared_run *)
VerifyFrozenModel == AtChallenge("frozen model") /\ GoesOnIf(manifest = prepared.model, "frozen run")
VerifyFrozenRun == AtChallenge("frozen run") /\ GoesOnIf(runManifest = prepared.run, "selected")

(* The run spec may select another model by now. *)
SelectModel ==
  /\ AtChallenge("selected")
  /\ \/ GoesOnIf(manifest = prepared.model, "load")
     \/ GoesOnIf(FALSE, "load")

LoadClaimedModel == AtChallenge("load") /\ challenge' = LoadsManifest(challenge, "files")
VerifyClaimedFile == AtChallenge("files") /\ challenge' = ChecksFile(challenge, "template")
VerifyClaimedTemplate == AtChallenge("template") /\ challenge' = ChecksTemplate(challenge, "repeat")

RepeatRun ==
  /\ AtChallenge("repeat")
  /\ challenge' = [Steps(challenge, "running") EXCEPT !.text = runManifest]

ChallengeDies ==
  /\ challenge.step \notin Ended \cup {"running"}
  /\ UNCHANGED <<identityVars, claim, runManifest, prepared, published>>
  /\ challenge' = NoProcess

-----------------------------------------------------------------------------
(* Others change the model directory, or the run manifest.                 *)

Others ==
  /\ NextIdentity
  /\ IF <<bundle, template, manifest>>' = <<bundle, template, manifest>> THEN UNCHANGED <<claim, challenge>>
     ELSE claim' = Disturbed(claim) /\ challenge' = Disturbed(challenge)
  /\ UNCHANGED <<runManifest, prepared, published>>

EditRun ==
  /\ runManifest \notin {Missing, NoStages}
  /\ edits < MaxEdits /\ edits' = edits + 1
  /\ runManifest' \in {NoStages} \cup {[runManifest EXCEPT !.pieces = c] : c \in Contents \ {runManifest.pieces}}
  /\ claim' = Disturbed(claim) /\ challenge' = Disturbed(challenge)
  /\ UNCHANGED <<bundle, template, manifest, importer, imports, mixed, prepared, published>>

Init == InitIdentity /\ InitClaim

Next ==
  \/ LoadModel \/ VerifyFile \/ VerifyTemplate \/ PreparePrompt \/ RenderRunManifest \/ Freeze
  \/ Execute \/ PublishTrace \/ PublishHashes \/ PublishBundle \/ ClaimDies
  \/ LoadClaim \/ VerifyFrozenModel \/ VerifyFrozenRun \/ SelectModel
  \/ LoadClaimedModel \/ VerifyClaimedFile \/ VerifyClaimedTemplate \/ RepeatRun \/ ChallengeDies
  \/ Others \/ EditRun

Spec == Init /\ [][Next]_vars

-----------------------------------------------------------------------------
Consistent(run, model) ==
  /\ run.template = model.provenance
  /\ model \notin mixed => run.template = model.hashes
  /\ run.pieces = model.hashes["tokenizer"]

(* A claim is bound to the model it was computed with: unless something    *)
(* changed while it was prepared, its run manifest is made from the very   *)
(* files whose hashes the frozen model manifest holds, whichever imports   *)
(* came before and wherever they stopped; unless files changed under the   *)
(* import itself.                                                          *)
ClaimsAreBound ==
  (prepared # Missing /\ ~claim.disturbed) => Consistent(prepared.run, prepared.model)

(* A bundle that can be read has a trace and hashes, complete and of the   *)
(* same non-empty run, wherever the process that wrote them was killed;    *)
(* and a challenge repeats exactly this run, in the model of the claim, or *)
(* refuses: whatever was edited or imported between the two.               *)
ChallengeRepeatsTheClaim ==
  /\ published["bundle"] \notin {Missing, Torn} =>
       /\ published["trace"] = published["bundle"] /\ published["hashes"] = published["bundle"]
       /\ published["bundle"] # NoStages
  /\ (challenge.step = "running" /\ ~challenge.disturbed) =>
       /\ challenge.text = prepared.run
       /\ manifest = prepared.model /\ bundle = manifest.hashes /\ template = manifest.provenance
       /\ ~claim.disturbed => published["trace"] = challenge.text
=============================================================================

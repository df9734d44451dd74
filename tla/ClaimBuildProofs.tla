-------------------------- MODULE ClaimBuildProofs --------------------------
(***************************************************************************)
(* Proofs about ClaimBuild: for any contents of the files and any number   *)
(* of edits and imports, at any time.                                      *)
(***************************************************************************)
EXTENDS ClaimBuild, TLAPS

-----------------------------------------------------------------------------
(* The inductive invariant.                                                *)

ImporterFields == {"step", "mode", "read", "hashes", "disturbed"}
ProcessFields == {"step", "model", "checked", "text", "pieces", "disturbed"}

(* The parts of the state have the shape that they start with. *)
ShapeInv ==
  /\ DOMAIN importer = ImporterFields /\ importer.disturbed \in BOOLEAN
  /\ DOMAIN claim = ProcessFields /\ claim.disturbed \in BOOLEAN
  /\ DOMAIN challenge = ProcessFields /\ challenge.disturbed \in BOOLEAN
  /\ DOMAIN published = Artifacts
  /\ bundle = [f \in Files |-> bundle[f]]

(* What an import has read is what the files still hold, unless one of     *)
(* them was edited under it; and it goes on only when it has read all.     *)
ImporterInv ==
  /\ importer.step \in {"save", "hash", "write"} /\ importer.mode = "full" => DOMAIN importer.read = Files
  /\ importer.step = "idle" => importer.read = NoFiles /\ importer.hashes = NoFiles
  /\ importer.step = "write" => DOMAIN importer.hashes = Files
  /\ importer.hashes = [f \in DOMAIN importer.hashes |-> importer.hashes[f]]
  /\ ~importer.disturbed =>
       /\ importer.read = [f \in DOMAIN importer.read |-> bundle[f]]
       /\ importer.hashes = [f \in DOMAIN importer.hashes |-> bundle[f]]

(* A manifest has the hashes of all files, and a template of theirs. *)
ManifestInv ==
  IsManifest(manifest) =>
    /\ manifest.hashes = [f \in Files |-> manifest.hashes[f]]
    /\ (manifest \notin mixed /\ manifest.provenance # Missing) => manifest.provenance = manifest.hashes

(* A process has found, for the files it has checked, what the manifest    *)
(* that it loaded says, and nothing has changed since.                     *)
Verified(process) ==
  /\ IsManifest(manifest) /\ process.model = manifest
  /\ \A f \in DOMAIN process.checked : bundle[f] = manifest.hashes[f]
AllVerified(process) == Verified(process) /\ DOMAIN process.checked = Files

(* A claim that was not disturbed. *)
PreparedInv ==
  /\ claim.step = "none" => DOMAIN claim.checked = {}
  /\ ~claim.disturbed =>
       /\ claim.step = "files" => Verified(claim)
       /\ claim.step \in {"template", "prompt", "render", "freeze"} => AllVerified(claim)
       /\ claim.step \in {"prompt", "render", "freeze"} =>
            manifest.provenance # Missing /\ claim.text = manifest.provenance
       /\ claim.step \in {"render", "freeze"} => claim.pieces = bundle["tokenizer"]
       /\ claim.step = "freeze" => runManifest = [template |-> claim.text, pieces |-> claim.pieces]
       /\ claim.step = "execute" => runManifest = prepared.run
       /\ claim.step \in {"trace", "hashes", "bundle", "done"} => claim.text = prepared.run

(* The artifacts are there in the order of their steps. *)
PublishedInv ==
  /\ claim.step \notin {"done", "died"} => published["bundle"] = Missing
  /\ claim.step = "died" => published["bundle"] \in {Missing, Torn}
  /\ claim.step \in {"hashes", "bundle", "done"} => published["trace"] = claim.text
  /\ claim.step \in {"bundle", "done"} => published["hashes"] = claim.text
  /\ claim.step = "done" => published["bundle"] = claim.text /\ claim.text # NoStages

FromFrozenModel == {"frozen run", "selected", "load", "files", "template", "repeat", "running"}
FromFrozenRun == FromFrozenModel \ {"frozen run"}

(* A challenge is of a complete claim, and has found what it has checked. *)
ChallengeInv ==
  /\ challenge.step \notin {"none", "refused"} => claim.step = "done"
  /\ challenge.step \in {"none", "frozen model", "frozen run", "selected", "load"} => DOMAIN challenge.checked = {}
  /\ ~challenge.disturbed =>
       /\ challenge.step \in FromFrozenModel => manifest = prepared.model
       /\ challenge.step \in FromFrozenRun => runManifest = prepared.run
       /\ challenge.step = "files" => Verified(challenge)
       /\ challenge.step \in {"template", "repeat", "running"} => AllVerified(challenge)
       /\ challenge.step \in {"repeat", "running"} => template = manifest.provenance
       /\ challenge.step = "running" => challenge.text = runManifest

BuildInv ==
  /\ ShapeInv /\ ImporterInv /\ ManifestInv
  /\ PreparedInv /\ PublishedInv /\ ChallengeInv
  /\ ClaimsAreBound

-----------------------------------------------------------------------------
LEMMA InitBuild == Init => BuildInv
  <1> SUFFICES ASSUME Init PROVE BuildInv
    OBVIOUS
  <1> USE DEF Init, InitIdentity, InitClaim, Idle, NoProcess, NoFiles
  <1>1. ShapeInv
    BY DEF ShapeInv, ImporterFields, ProcessFields
  <1>2. ImporterInv
    BY DEF ImporterInv
  <1>3. ManifestInv
    BY DEF ManifestInv, IsManifest
  <1>4. PreparedInv
    BY DEF PreparedInv
  <1>5. PublishedInv
    BY DEF PublishedInv, Artifacts
  <1>6. ChallengeInv
    BY DEF ChallengeInv, FromFrozenModel, FromFrozenRun
  <1>7. ClaimsAreBound
    BY DEF ClaimsAreBound
  <1> QED
    BY <1>1, <1>2, <1>3, <1>4, <1>5, <1>6, <1>7 DEF BuildInv

-----------------------------------------------------------------------------
(* Who takes a step, and what it leaves alone.                             *)

ClaimStep ==
  \/ LoadModel \/ VerifyFile \/ VerifyTemplate \/ PreparePrompt \/ RenderRunManifest \/ Freeze
  \/ Execute \/ PublishTrace \/ PublishHashes \/ PublishBundle \/ ClaimDies
ChallengeStep ==
  \/ LoadClaim \/ VerifyFrozenModel \/ VerifyFrozenRun \/ SelectModel
  \/ LoadClaimedModel \/ VerifyClaimedFile \/ VerifyClaimedTemplate \/ RepeatRun \/ ChallengeDies

LEMMA NextSplit == Next <=> ClaimStep \/ ChallengeStep \/ Others \/ EditRun
  BY DEF Next, ClaimStep, ChallengeStep

LEMMA ClaimFrame == ClaimStep => UNCHANGED <<identityVars, challenge>>
  BY DEF ClaimStep, LoadModel, VerifyFile, VerifyTemplate, PreparePrompt, RenderRunManifest, Freeze,
         Execute, PublishTrace, PublishHashes, PublishBundle, Publish, ClaimDies, AtClaim

LEMMA ChallengeFrame == ChallengeStep => UNCHANGED <<identityVars, claim, runManifest, prepared, published>>
  BY DEF ChallengeStep, LoadClaim, VerifyFrozenModel, VerifyFrozenRun, SelectModel, LoadClaimedModel,
         VerifyClaimedFile, VerifyClaimedTemplate, RepeatRun, ChallengeDies, AtChallenge

LEMMA OthersFrame == Others => UNCHANGED <<runManifest, prepared, published>>
  BY DEF Others

LEMMA EditFrame ==
  EditRun => UNCHANGED <<bundle, template, manifest, importer, imports, mixed, prepared, published>>
  BY DEF EditRun

(* What Disturbed does to a process. *)
LEMMA DisturbedProcess ==
  ASSUME NEW p, DOMAIN p = ProcessFields, p.disturbed \in BOOLEAN
  PROVE  /\ DOMAIN Disturbed(p) = ProcessFields
         /\ Disturbed(p).disturbed \in BOOLEAN
         /\ Disturbed(p).step = p.step /\ Disturbed(p).model = p.model
         /\ Disturbed(p).checked = p.checked /\ Disturbed(p).text = p.text /\ Disturbed(p).pieces = p.pieces
         /\ ~Disturbed(p).disturbed => (~p.disturbed /\ p.step \in Ended)
  BY DEF Disturbed, ProcessFields

(* A process that others leave undisturbed has ended or sees no change. *)
LEMMA OthersAreNoticed ==
  ASSUME ShapeInv, Others \/ EditRun
  PROVE  /\ claim' = claim \/ claim' = Disturbed(claim)
         /\ challenge' = challenge \/ challenge' = Disturbed(challenge)
         /\ claim'.step = claim.step /\ claim'.text = claim.text /\ claim'.model = claim.model
         /\ claim'.checked = claim.checked /\ claim'.pieces = claim.pieces
         /\ challenge'.step = challenge.step /\ challenge'.text = challenge.text
         /\ challenge'.model = challenge.model /\ challenge'.checked = challenge.checked
         /\ ~claim'.disturbed => ~claim.disturbed
         /\ ~challenge'.disturbed => ~challenge.disturbed
         /\ (~claim'.disturbed /\ claim.step \notin Ended) =>
              UNCHANGED <<bundle, template, manifest, runManifest>>
         /\ (~challenge'.disturbed /\ challenge.step \notin Ended) =>
              UNCHANGED <<bundle, template, manifest, runManifest>>
  <1>1. /\ claim' = claim \/ claim' = Disturbed(claim)
        /\ challenge' = challenge \/ challenge' = Disturbed(challenge)
        /\ claim' = Disturbed(claim) \/ UNCHANGED <<bundle, template, manifest, runManifest>>
        /\ challenge' = Disturbed(challenge) \/ UNCHANGED <<bundle, template, manifest, runManifest>>
    BY DEF Others, EditRun
  <1> QED
    BY <1>1, DisturbedProcess DEF ShapeInv

-----------------------------------------------------------------------------
(* The parts of the invariant are kept by every step.                      *)

LEMMA StepShape == ShapeInv /\ [Next]_vars => ShapeInv'
  <1> SUFFICES ASSUME ShapeInv, [Next]_vars PROVE ShapeInv'
    OBVIOUS
  <1>1. CASE ClaimStep
    <2>1. bundle' = bundle /\ importer' = importer /\ challenge' = challenge
      BY <1>1, ClaimFrame DEF identityVars
    <2>2. DOMAIN claim' = ProcessFields /\ claim'.disturbed = claim.disturbed
      BY <1>1 DEF ClaimStep, LoadModel, VerifyFile, VerifyTemplate, PreparePrompt, RenderRunManifest, Freeze,
           Execute, PublishTrace, PublishHashes, PublishBundle, Publish, ClaimDies, Steps, LoadsManifest,
           ChecksFile, ChecksTemplate, ShapeInv, ProcessFields
    <2>3. DOMAIN published' = Artifacts
      BY <1>1 DEF ClaimStep, LoadModel, VerifyFile, VerifyTemplate, PreparePrompt, RenderRunManifest, Freeze,
           Execute, PublishTrace, PublishHashes, PublishBundle, Publish, ClaimDies, NothingWritten, ShapeInv
    <2> QED
      BY <2>1, <2>2, <2>3 DEF ShapeInv
  <1>2. CASE ChallengeStep
    <2>1. bundle' = bundle /\ importer' = importer /\ claim' = claim /\ published' = published
      BY <1>2, ChallengeFrame DEF identityVars
    <2>2. DOMAIN challenge' = ProcessFields /\ challenge'.disturbed \in BOOLEAN
      <3> USE DEF ShapeInv, ProcessFields, Steps
      <3>1. CASE LoadClaim \/ VerifyFrozenModel \/ VerifyFrozenRun \/ SelectModel
        BY <3>1 DEF LoadClaim, VerifyFrozenModel, VerifyFrozenRun, SelectModel, GoesOnIf
      <3>2. CASE LoadClaimedModel \/ VerifyClaimedFile \/ VerifyClaimedTemplate
        BY <3>2 DEF LoadClaimedModel, VerifyClaimedFile, VerifyClaimedTemplate,
             LoadsManifest, ChecksFile, ChecksTemplate
      <3>3. CASE RepeatRun
        BY <3>3 DEF RepeatRun
      <3>4. CASE ChallengeDies
        BY <3>4 DEF ChallengeDies, NoProcess
      <3> QED
        BY <1>2, <3>1, <3>2, <3>3, <3>4 DEF ChallengeStep
    <2> QED
      BY <2>1, <2>2 DEF ShapeInv
  <1>3. CASE Others \/ EditRun
    <2>1. /\ DOMAIN claim' = ProcessFields /\ claim'.disturbed \in BOOLEAN
          /\ DOMAIN challenge' = ProcessFields /\ challenge'.disturbed \in BOOLEAN
      BY <1>3, OthersAreNoticed, DisturbedProcess DEF ShapeInv
    <2>2. published' = published
      BY <1>3, OthersFrame, EditFrame
    <2>3. DOMAIN importer' = ImporterFields /\ importer'.disturbed \in BOOLEAN
      <3> USE DEF ShapeInv, ImporterFields
      <3>1. CASE EditBundle
        BY <3>1 DEF EditBundle
      <3>2. CASE BeginImport
        <4>1. PICK mode \in {"full", "direct"} :
                importer' = [Idle EXCEPT !.mode = mode, !.step = IF mode = "full" THEN "read" ELSE "hash"]
          BY <3>2 DEF BeginImport
        <4> QED
          BY <4>1 DEF Idle
      <3>4. CASE WriteManifest \/ ImportDies
        <4>1. importer' = Idle
          BY <3>4 DEF WriteManifest, ImportDies
        <4>2. DOMAIN Idle = ImporterFields /\ Idle.disturbed = FALSE
          BY DEF Idle
        <4> QED
          BY <4>1, <4>2
      <3>3. CASE ReadFile \/ SaveTemplate \/ HashFile
        BY <3>3 DEF ReadFile, SaveTemplate, HashFile
      <3> QED
        BY <1>3, <3>1, <3>2, <3>3, <3>4 DEF Others, EditRun, NextIdentity
    <2>4. bundle' = [f \in Files |-> bundle'[f]]
      BY <1>3 DEF Others, EditRun, NextIdentity, EditBundle, BeginImport, ReadFile, SaveTemplate, HashFile,
           WriteManifest, ImportDies, AtImport, ShapeInv, Files
    <2> QED
      BY <2>1, <2>2, <2>3, <2>4 DEF ShapeInv
  <1>4. CASE UNCHANGED vars
    BY <1>4 DEF vars, identityVars, claimVars, ShapeInv
  <1> QED
    BY <1>1, <1>2, <1>3, <1>4, NextSplit

LEMMA StepImporter == ShapeInv /\ ImporterInv /\ [Next]_vars => ImporterInv'
  <1> SUFFICES ASSUME ShapeInv, ImporterInv, [Next]_vars PROVE ImporterInv'
    OBVIOUS
  <1>1. CASE ClaimStep \/ ChallengeStep \/ EditRun \/ UNCHANGED vars
    <2>1. UNCHANGED <<bundle, importer>>
      BY <1>1, ClaimFrame, ChallengeFrame, EditFrame DEF vars, identityVars
    <2> QED
      BY <2>1 DEF ImporterInv
  <1>2. CASE Others
    <2>1. CASE EditBundle
      <3>1. /\ importer'.step = importer.step /\ importer'.mode = importer.mode
            /\ importer'.read = importer.read /\ importer'.hashes = importer.hashes
            /\ ~importer'.disturbed => importer.step = "idle"
        BY <2>1 DEF EditBundle, ShapeInv, ImporterFields
      <3> QED
        BY <3>1 DEF ImporterInv, NoFiles
    <2>2. CASE BeginImport
      BY <2>2 DEF BeginImport, Idle, NoFiles, ImporterInv
    <2>3. CASE ReadFile
      BY <2>3 DEF ReadFile, AtImport, Also, ShapeInv, ImporterFields, ImporterInv
    <2>4. CASE SaveTemplate
      BY <2>4 DEF SaveTemplate, AtImport, ShapeInv, ImporterFields, ImporterInv
    <2>5. CASE HashFile
      BY <2>5 DEF HashFile, AtImport, Also, ShapeInv, ImporterFields, ImporterInv
    <2>6. CASE WriteManifest \/ ImportDies
      BY <2>6 DEF WriteManifest, ImportDies, AtImport, Idle, NoFiles, ImporterInv
    <2> QED
      BY <1>2, <2>1, <2>2, <2>3, <2>4, <2>5, <2>6 DEF Others, NextIdentity
  <1> QED
    BY <1>1, <1>2, NextSplit
LEMMA StepManifest == ShapeInv /\ ImporterInv /\ ManifestInv /\ [Next]_vars => ManifestInv'
  <1> SUFFICES ASSUME ShapeInv, ImporterInv, ManifestInv, [Next]_vars PROVE ManifestInv'
    OBVIOUS
  <1>1. CASE UNCHANGED <<manifest, mixed>>
    BY <1>1 DEF ManifestInv, IsManifest
  <1>2. CASE WriteManifest
    <2>1. /\ manifest' = [hashes |-> importer.hashes, provenance |-> Provenance]
          /\ importer.step = "write"
          /\ importer.disturbed => manifest' \in mixed'
      BY <1>2 DEF WriteManifest, AtImport
    <2>2. manifest'.hashes = importer.hashes /\ manifest'.provenance = Provenance
      BY <2>1
    <2>3. importer.hashes = [f \in Files |-> importer.hashes[f]]
      BY <2>1 DEF ImporterInv
    <2>4. ASSUME ~importer.disturbed, Provenance # Missing
          PROVE  Provenance = importer.hashes
      BY <2>1, <2>4 DEF ImporterInv, Provenance
    <2> QED
      BY <2>1, <2>2, <2>3, <2>4 DEF ManifestInv
  <1>3. CASE ImportDies
    BY <1>3 DEF ImportDies, ManifestInv, IsManifest
  <1>4. UNCHANGED <<manifest, mixed>> \/ WriteManifest \/ ImportDies
    BY NextSplit, ClaimFrame, ChallengeFrame, EditFrame DEF vars, identityVars, Others, NextIdentity,
       EditBundle, BeginImport, ReadFile, SaveTemplate, HashFile
  <1> QED
    BY <1>1, <1>2, <1>3, <1>4

(* What the checks of the model do, in a process that is not disturbed. *)
LEMMA LoadKeeps ==
  ASSUME NEW p, DOMAIN p = ProcessFields, NEW next, next # "refused"
  PROVE  /\ LoadsManifest(p, next).disturbed = p.disturbed
         /\ LoadsManifest(p, next).checked = p.checked
         /\ LoadsManifest(p, next).step \in {next, "refused"}
         /\ LoadsManifest(p, next).step = next => IsManifest(manifest) /\ LoadsManifest(p, next).model = manifest
  BY DEF LoadsManifest, Steps, ProcessFields

LEMMA CheckKeeps ==
  ASSUME NEW p, DOMAIN p = ProcessFields, p.step = "files", NEW next, next \notin {"refused", "files"},
         Verified(p)
  PROVE  /\ ChecksFile(p, next).disturbed = p.disturbed
         /\ ChecksFile(p, next).step \in {"files", next, "refused"}
         /\ ChecksFile(p, next).step # "refused" => Verified(ChecksFile(p, next))
         /\ ChecksFile(p, next).step = next => DOMAIN ChecksFile(p, next).checked = Files
  <1> DEFINE f == NextOf(VerifyOrder, p.checked)
             checked == Also(p.checked, f, TRUE)
             q == [p EXCEPT !.checked = checked, !.step = IF DOMAIN checked = Files THEN next ELSE @]
  <1> HIDE DEF f
  <1>1. ChecksFile(p, next) = IF ~FileAgrees(p.model, f) THEN Steps(p, "refused") ELSE q
    BY DEF ChecksFile, f
  <1>2. DOMAIN checked = DOMAIN p.checked \cup {f}
    BY DEF Also
  <1>3. FileAgrees(p.model, f) => \A g \in DOMAIN checked : bundle[g] = manifest.hashes[g]
    BY <1>2 DEF FileAgrees, Verified
  <1> HIDE DEF checked
  <1>4. /\ q.disturbed = p.disturbed /\ q.model = p.model /\ q.checked = checked
        /\ q.step = IF DOMAIN checked = Files THEN next ELSE "files"
    BY DEF ProcessFields
  <1>5. Steps(p, "refused").disturbed = p.disturbed /\ Steps(p, "refused").step = "refused"
    BY DEF Steps, ProcessFields
  <1> HIDE DEF q
  <1>6. CASE FileAgrees(p.model, f)
    <2>1. ChecksFile(p, next) = q
      BY <1>1, <1>6
    <2> QED
      BY <1>3, <1>4, <1>6, <2>1 DEF Verified
  <1>7. CASE ~FileAgrees(p.model, f)
    <2>1. ChecksFile(p, next) = Steps(p, "refused")
      BY <1>1, <1>7
    <2> QED
      BY <1>5, <2>1
  <1> QED
    BY <1>6, <1>7

(* The claim goes on from what it has verified; a change that it would not *)
(* notice disturbs it.                                                     *)
LEMMA StepPrepared == ShapeInv /\ PreparedInv /\ [Next]_vars => PreparedInv'
  <1> SUFFICES ASSUME ShapeInv, PreparedInv, [Next]_vars PROVE PreparedInv'
    OBVIOUS
  <1>a. DOMAIN claim = ProcessFields
    BY DEF ShapeInv
  <1>1. CASE ClaimStep
    <2>f. UNCHANGED <<bundle, template, manifest, mixed>>
      BY <1>1, ClaimFrame DEF identityVars
    <2> USE DEF Verified, AllVerified, IsManifest
    <2>1. CASE LoadModel
      <3>1. claim' = LoadsManifest(claim, "files") /\ claim.step = "none"
        BY <2>1 DEF LoadModel, AtClaim
      <3> QED
        BY <1>a, <2>f, <3>1, LoadKeeps DEF PreparedInv
    <2>2. CASE VerifyFile
      <3>1. claim' = ChecksFile(claim, "template") /\ claim.step = "files"
        BY <2>2 DEF VerifyFile, AtClaim
      <3>2. CASE claim.disturbed
        <4>1. claim'.disturbed /\ claim'.step # "none"
          BY <1>a, <3>1, <3>2 DEF ChecksFile, Steps, ProcessFields
        <4> QED
          BY <4>1 DEF PreparedInv
      <3>3. CASE ~claim.disturbed
        <4>1. Verified(claim)
          BY <3>1, <3>3 DEF PreparedInv
        <4>2. /\ claim'.step \in {"files", "template", "refused"}
              /\ claim'.step # "refused" => Verified(claim')
              /\ claim'.step = "template" => DOMAIN claim'.checked = Files
          BY <1>a, <3>1, <4>1, CheckKeeps
        <4> QED
          BY <2>f, <4>2 DEF PreparedInv
      <3> QED
        BY <3>2, <3>3
    <2>3. CASE VerifyTemplate
      BY <1>a, <2>f, <2>3 DEF VerifyTemplate, AtClaim, ChecksTemplate, TemplateAgrees, Steps, ProcessFields, PreparedInv
    <2>4. CASE PreparePrompt
      BY <1>a, <2>f, <2>4 DEF PreparePrompt, AtClaim, Steps, ProcessFields, PreparedInv
    <2>5. CASE RenderRunManifest
      BY <1>a, <2>f, <2>5 DEF RenderRunManifest, AtClaim, Steps, ProcessFields, PreparedInv
    <2>6. CASE Freeze
      BY <1>a, <2>f, <2>6 DEF Freeze, AtClaim, Steps, ProcessFields, PreparedInv
    <2>7. CASE Execute
      BY <1>a, <2>f, <2>7 DEF Execute, AtClaim, NothingWritten, Steps, ProcessFields, PreparedInv
    <2>8. CASE PublishTrace \/ PublishHashes \/ PublishBundle
      BY <1>a, <2>f, <2>8 DEF PublishTrace, PublishHashes, PublishBundle, Publish, AfterArtifact, AtClaim,
         NothingWritten, Steps, ProcessFields, PreparedInv
    <2>9. CASE ClaimDies
      BY <1>a, <2>f, <2>9 DEF ClaimDies, Ended, Steps, ProcessFields, PreparedInv
    <2> QED
      BY <1>1, <2>1, <2>2, <2>3, <2>4, <2>5, <2>6, <2>7, <2>8, <2>9 DEF ClaimStep
  <1>2. CASE ChallengeStep
    <2>1. UNCHANGED <<bundle, manifest, claim, runManifest, prepared>>
      BY <1>2, ChallengeFrame DEF identityVars
    <2> QED
      BY <2>1 DEF PreparedInv, Verified, AllVerified, IsManifest
  <1>3. CASE Others \/ EditRun
    <2>1. prepared' = prepared
      BY <1>3, OthersFrame, EditFrame
    <2>2. /\ claim'.step = claim.step /\ claim'.text = claim.text /\ claim'.model = claim.model
          /\ claim'.checked = claim.checked /\ claim'.pieces = claim.pieces
          /\ ~claim'.disturbed => ~claim.disturbed
          /\ (~claim'.disturbed /\ claim.step \notin Ended) =>
               UNCHANGED <<bundle, template, manifest, runManifest>>
      BY <1>3, OthersAreNoticed
    <2> QED
      BY <2>1, <2>2 DEF PreparedInv, Verified, AllVerified, IsManifest, Ended
  <1>4. CASE UNCHANGED vars
    <2>1. UNCHANGED <<bundle, manifest, claim, runManifest, prepared>>
      BY <1>4 DEF vars, identityVars, claimVars
    <2> QED
      BY <2>1 DEF PreparedInv, Verified, AllVerified, IsManifest
  <1> QED
    BY <1>1, <1>2, <1>3, <1>4, NextSplit

LEMMA StepPublished == ShapeInv /\ PublishedInv /\ [Next]_vars => PublishedInv'
  <1> SUFFICES ASSUME ShapeInv, PublishedInv, [Next]_vars PROVE PublishedInv'
    OBVIOUS
  <1> USE DEF PublishedInv
  <1>a. DOMAIN claim = ProcessFields /\ DOMAIN published = Artifacts
    BY DEF ShapeInv
  <1>1. CASE LoadModel \/ VerifyFile \/ VerifyTemplate
    <2>1. published' = published /\ claim.step \in {"none", "files", "template"}
      BY <1>1 DEF LoadModel, VerifyFile, VerifyTemplate, AtClaim, NothingWritten
    <2>2. claim'.step \in {"files", "template", "prompt", "refused"}
      BY <1>a, <1>1 DEF LoadModel, VerifyFile, VerifyTemplate, AtClaim, LoadsManifest, ChecksFile,
         ChecksTemplate, Steps, ProcessFields
    <2> QED
      BY <2>1, <2>2
  <1>2. CASE PreparePrompt \/ RenderRunManifest \/ Freeze \/ Execute
    BY <1>a, <1>2 DEF PreparePrompt, RenderRunManifest, Freeze, Execute, AtClaim, NothingWritten, Steps,
       ProcessFields
  <1>3. CASE PublishTrace \/ PublishHashes \/ PublishBundle
    BY <1>a, <1>3 DEF PublishTrace, PublishHashes, PublishBundle, Publish, AfterArtifact, AtClaim,
       NothingWritten, Steps, ProcessFields, Artifacts
  <1>4. CASE ClaimDies
    BY <1>a, <1>4 DEF ClaimDies, Ended, Steps, ProcessFields, Artifacts
  <1>5. CASE ChallengeStep \/ UNCHANGED vars
    BY <1>5, ChallengeFrame DEF vars, claimVars
  <1>6. CASE Others \/ EditRun
    BY <1>6, OthersFrame, EditFrame, OthersAreNoticed
  <1> QED
    BY <1>1, <1>2, <1>3, <1>4, <1>5, <1>6, NextSplit DEF ClaimStep

(* A challenge goes on from what it has checked, and its claim is complete *)
(* and stays so.                                                           *)
LEMMA StepChallenge ==
  ShapeInv /\ PublishedInv /\ ChallengeInv /\ [Next]_vars => ChallengeInv'
  <1> SUFFICES ASSUME ShapeInv, PublishedInv, ChallengeInv, [Next]_vars PROVE ChallengeInv'
    OBVIOUS
  <1> USE DEF FromFrozenModel, FromFrozenRun
  <1>a. DOMAIN challenge = ProcessFields
    BY DEF ShapeInv
  <1>1. CASE ChallengeStep
    <2>f. UNCHANGED <<bundle, template, manifest, mixed, claim, runManifest, prepared, published>>
      BY <1>1, ChallengeFrame DEF identityVars
    <2>1. CASE LoadClaim
      BY <1>a, <2>f, <2>1 DEF LoadClaim, AtChallenge, GoesOnIf, Steps, ProcessFields, ChallengeInv, PublishedInv
    <2>2. CASE VerifyFrozenModel \/ VerifyFrozenRun \/ SelectModel
      BY <1>a, <2>f, <2>2 DEF VerifyFrozenModel, VerifyFrozenRun, SelectModel, AtChallenge, GoesOnIf, Steps,
         ProcessFields, ChallengeInv
    <2>3. CASE LoadClaimedModel
      <3>1. challenge' = LoadsManifest(challenge, "files") /\ challenge.step = "load"
        BY <2>3 DEF LoadClaimedModel, AtChallenge
      <3> QED
        BY <1>a, <2>f, <3>1, LoadKeeps DEF ChallengeInv, Verified, IsManifest
    <2>4. CASE VerifyClaimedFile
      <3>1. challenge' = ChecksFile(challenge, "template") /\ challenge.step = "files"
        BY <2>4 DEF VerifyClaimedFile, AtChallenge
      <3>2. /\ challenge'.disturbed = challenge.disturbed
            /\ challenge'.step \in {"files", "template", "refused"}
        BY <1>a, <3>1 DEF ChecksFile, Steps, ProcessFields
      <3>3. CASE challenge.disturbed
        BY <2>f, <3>1, <3>2, <3>3 DEF ChallengeInv
      <3>4. CASE ~challenge.disturbed
        <4>1. Verified(challenge)
          BY <3>1, <3>4 DEF ChallengeInv
        <4>2. /\ challenge'.step # "refused" => Verified(challenge')
              /\ challenge'.step = "template" => DOMAIN challenge'.checked = Files
          BY <1>a, <3>1, <4>1, CheckKeeps
        <4>3. challenge'.step # "refused" => Verified(challenge)'
          BY <2>f, <4>2 DEF Verified, IsManifest
        <4> QED
          BY <2>f, <3>1, <3>2, <3>4, <4>2, <4>3 DEF ChallengeInv, AllVerified
      <3> QED
        BY <3>3, <3>4
    <2>5. CASE VerifyClaimedTemplate
      BY <1>a, <2>f, <2>5 DEF VerifyClaimedTemplate, AtChallenge, ChecksTemplate, TemplateAgrees, Steps,
         ProcessFields, ChallengeInv, Verified, AllVerified, IsManifest
    <2>6. CASE RepeatRun
      BY <1>a, <2>f, <2>6 DEF RepeatRun, AtChallenge, Steps, ProcessFields, ChallengeInv, Verified, AllVerified,
         IsManifest
    <2>7. CASE ChallengeDies
      BY <2>f, <2>7 DEF ChallengeDies, NoProcess, NoFiles, ChallengeInv
    <2> QED
      BY <1>1, <2>1, <2>2, <2>3, <2>4, <2>5, <2>6, <2>7 DEF ChallengeStep
  <1>2. CASE ClaimStep
    <2>1. UNCHANGED <<bundle, template, manifest, challenge>>
      BY <1>2, ClaimFrame DEF identityVars
    <2>2. claim.step # "done"
      BY <1>2 DEF ClaimStep, LoadModel, VerifyFile, VerifyTemplate, PreparePrompt, RenderRunManifest, Freeze,
         Execute, PublishTrace, PublishHashes, PublishBundle, Publish, ClaimDies, AtClaim, Ended
    <2> QED
      BY <2>1, <2>2 DEF ChallengeInv
  <1>3. CASE Others \/ EditRun
    <2>1. prepared' = prepared
      BY <1>3, OthersFrame, EditFrame
    <2>2. /\ challenge'.step = challenge.step /\ challenge'.text = challenge.text
          /\ challenge'.model = challenge.model /\ challenge'.checked = challenge.checked
          /\ claim'.step = claim.step
          /\ ~challenge'.disturbed => ~challenge.disturbed
          /\ (~challenge'.disturbed /\ challenge.step \notin Ended) =>
               UNCHANGED <<bundle, template, manifest, runManifest>>
      BY <1>3, OthersAreNoticed
    <2> QED
      BY <2>1, <2>2 DEF ChallengeInv, Verified, AllVerified, IsManifest, Ended
  <1>4. CASE UNCHANGED vars
    <2>1. UNCHANGED <<bundle, template, manifest, claim, challenge, runManifest, prepared>>
      BY <1>4 DEF vars, identityVars, claimVars
    <2> QED
      BY <2>1 DEF ChallengeInv, Verified, AllVerified, IsManifest
  <1> QED
    BY <1>1, <1>2, <1>3, <1>4, NextSplit

(* Freezing makes the binding, out of what the claim has verified. *)
LEMMA StepBound ==
  ShapeInv /\ ManifestInv /\ PreparedInv /\ ClaimsAreBound /\ [Next]_vars => ClaimsAreBound'
  <1> SUFFICES ASSUME ShapeInv, ManifestInv, PreparedInv, ClaimsAreBound, [Next]_vars PROVE ClaimsAreBound'
    OBVIOUS
  <1>1. CASE Freeze
    <2>1. /\ claim.step = "freeze" /\ claim'.disturbed = claim.disturbed
          /\ UNCHANGED mixed
          /\ prepared' = [model |-> manifest, run |-> [template |-> claim.text, pieces |-> claim.pieces]]
      BY <1>1 DEF Freeze, AtClaim, Steps, ShapeInv, ProcessFields, identityVars
    <2>2. ASSUME ~claim.disturbed PROVE Consistent(prepared'.run, prepared'.model)
      <3>1. /\ AllVerified(claim)
            /\ manifest.provenance # Missing /\ claim.text = manifest.provenance
            /\ claim.pieces = bundle["tokenizer"]
        BY <2>1, <2>2 DEF PreparedInv
      <3>2. bundle["tokenizer"] = manifest.hashes["tokenizer"] /\ IsManifest(manifest)
        BY <3>1 DEF AllVerified, Verified, Files
      <3> QED
        BY <2>1, <3>1, <3>2 DEF ManifestInv, Consistent
    <2> QED
      BY <2>1, <2>2 DEF ClaimsAreBound, Consistent
  <1>2. CASE ClaimStep /\ ~Freeze
    <2>1. UNCHANGED <<mixed, prepared>>
      BY <1>2, ClaimFrame DEF identityVars, ClaimStep, LoadModel, VerifyFile, VerifyTemplate, PreparePrompt,
         RenderRunManifest, Execute, PublishTrace, PublishHashes, PublishBundle, Publish, ClaimDies, NothingWritten
    <2>2. claim'.disturbed = claim.disturbed
      BY <1>2 DEF ClaimStep, LoadModel, VerifyFile, VerifyTemplate, PreparePrompt, RenderRunManifest,
           Execute, PublishTrace, PublishHashes, PublishBundle, Publish, ClaimDies, Steps, LoadsManifest,
           ChecksFile, ChecksTemplate, ShapeInv, ProcessFields
    <2> QED
      BY <2>1, <2>2 DEF ClaimsAreBound, Consistent
  <1>3. CASE ChallengeStep \/ UNCHANGED vars
    <2>1. UNCHANGED <<mixed, prepared, claim>>
      BY <1>3, ChallengeFrame DEF vars, identityVars, claimVars
    <2> QED
      BY <2>1 DEF ClaimsAreBound, Consistent
  <1>4. CASE Others \/ EditRun
    <2>1. prepared' = prepared /\ (~claim'.disturbed => ~claim.disturbed)
      BY <1>4, OthersFrame, EditFrame, OthersAreNoticed
    <2>2. \A m : m \in mixed => m \in mixed'
      BY <1>4 DEF Others, EditRun, NextIdentity, EditBundle, BeginImport, ReadFile, SaveTemplate, HashFile,
         WriteManifest, ImportDies
    <2> QED
      BY <2>1, <2>2 DEF ClaimsAreBound, Consistent
  <1> QED
    BY <1>1, <1>2, <1>3, <1>4, NextSplit

-----------------------------------------------------------------------------
(* The invariant holds always, whatever is imported and edited, and        *)
(* wherever a process is killed.                                           *)
THEOREM BuildInvariance == Spec => []BuildInv
  <1>1. Init => BuildInv
    BY InitBuild
  <1>2. BuildInv /\ [Next]_vars => BuildInv'
    BY StepShape, StepImporter, StepManifest, StepPrepared, StepPublished, StepChallenge, StepBound DEF BuildInv
  <1> QED
    BY <1>1, <1>2, PTL DEF Spec

(* prepare_claim_run binds a claim to the files of its model. *)
THEOREM ClaimsAlwaysBound == Spec => []ClaimsAreBound
  <1>1. BuildInv => ClaimsAreBound
    BY DEF BuildInv
  <1> QED
    BY <1>1, BuildInvariance, PTL

(* build_challenge repeats the run of a complete claim, or refuses. *)
THEOREM ChallengesRepeatClaims == Spec => []ChallengeRepeatsTheClaim
  <1>1. ASSUME BuildInv PROVE ChallengeRepeatsTheClaim
    <2>1. ASSUME published["bundle"] \notin {Missing, Torn}
          PROVE  /\ published["trace"] = published["bundle"] /\ published["hashes"] = published["bundle"]
                 /\ published["bundle"] # NoStages
      BY <1>1, <2>1 DEF BuildInv, PublishedInv
    <2>2. ASSUME challenge.step = "running", ~challenge.disturbed
          PROVE  /\ challenge.text = prepared.run
                 /\ manifest = prepared.model /\ bundle = manifest.hashes /\ template = manifest.provenance
                 /\ ~claim.disturbed => published["trace"] = challenge.text
      <3>1. /\ challenge.text = prepared.run /\ manifest = prepared.model
            /\ template = manifest.provenance
            /\ AllVerified(challenge) /\ claim.step = "done"
        BY <1>1, <2>2 DEF BuildInv, ChallengeInv, FromFrozenModel, FromFrozenRun
      <3>2. bundle = manifest.hashes
        <4>1. /\ IsManifest(manifest) /\ \A f \in Files : bundle[f] = manifest.hashes[f]
          BY <3>1 DEF AllVerified, Verified
        <4>2. /\ bundle = [f \in Files |-> bundle[f]]
              /\ manifest.hashes = [f \in Files |-> manifest.hashes[f]]
          BY <1>1, <4>1 DEF BuildInv, ShapeInv, ManifestInv
        <4>3. [f \in Files |-> bundle[f]] = [f \in Files |-> manifest.hashes[f]]
          BY <4>1
        <4> QED
          BY <4>2, <4>3
      <3>3. ~claim.disturbed => published["trace"] = challenge.text
        BY <1>1, <3>1 DEF BuildInv, PreparedInv, PublishedInv
      <3> QED
        BY <3>1, <3>2, <3>3
    <2> QED
      BY <2>1, <2>2 DEF ChallengeRepeatsTheClaim
  <1> QED
    BY <1>1, BuildInvariance, PTL
=============================================================================

---------------------------- MODULE ModelIdentity ----------------------------
(***************************************************************************)
(* What a model directory says of the model (crates/model/import and       *)
(* crates/inference/artifacts/src/direct.rs).  A full import makes the     *)
(* chain template from the files of the bundle, and then a manifest with   *)
(* the hashes of the files and of the template; an import for the direct   *)
(* runtime only renews the manifest.  The files may be edited at any time, *)
(* and an import may stop anywhere.                                        *)
(*                                                                         *)
(* A hash stands for the content it is of.  A template is the contents it  *)
(* was made from.  The config counts as part of the weights.               *)
(***************************************************************************)
EXTENDS Naturals, Sequences, FiniteSets

CONSTANTS
  Contents,   (* what a file may hold                                        *)
  Missing,    (* a file that is not there                                    *)
  Torn,       (* the rest of a write that was cut short                      *)
  MaxEdits,   (* how often something is edited                               *)
  MaxImports  (* how many imports there are                                  *)

ASSUME IdentityAssumption ==
  /\ Contents # {} /\ IsFiniteSet(Contents) /\ Missing # Torn
  /\ MaxEdits \in Nat /\ MaxImports \in Nat

VARIABLES
  bundle,     (* file -> content                                              *)
  template,   (* Raster.toml of the model directory                           *)
  manifest,   (* manifest.json                                                *)
  importer,   (* the import in progress: its step, its mode and what it read  *)
  edits, imports,
  mixed       (* manifests of imports under which a file was edited           *)

identityVars == <<bundle, template, manifest, importer, edits, imports, mixed>>

Files == {"tokenizer", "weights"}
ReadOrder == <<"tokenizer", "weights">>
HashOrder == <<"weights", "tokenizer">>
VerifyOrder == <<"tokenizer", "weights">>

NoFiles == [f \in {} |-> Missing]
Idle == [step |-> "idle", mode |-> "none", read |-> NoFiles, hashes |-> NoFiles, disturbed |-> FALSE]

(* The next file in an order, when these have been done; and one more done. *)
NextOf(order, done) == order[Cardinality(DOMAIN done) + 1]
Also(done, f, v) == [g \in DOMAIN done \cup {f} |-> IF g = f THEN v ELSE done[g]]

-----------------------------------------------------------------------------
InitIdentity ==
  /\ \E c \in Contents : bundle = [f \in Files |-> c]
  /\ template = Missing /\ manifest = Missing
  /\ importer = Idle
  /\ edits = 0 /\ imports = 0 /\ mixed = {}

(* A file of the bundle is replaced. *)
EditBundle ==
  /\ edits < MaxEdits /\ edits' = edits + 1
  /\ \E f \in Files : \E c \in Contents \ {bundle[f]} : bundle' = [bundle EXCEPT ![f] = c]
  /\ importer' = [importer EXCEPT !.disturbed = importer.step # "idle"]
  /\ UNCHANGED <<template, manifest, imports, mixed>>

(* import_model: an import for the direct runtime makes no template. *)
BeginImport ==
  /\ importer.step = "idle"
  /\ imports < MaxImports /\ imports' = imports + 1
  /\ \E mode \in {"full", "direct"} :
       importer' = [Idle EXCEPT !.mode = mode, !.step = IF mode = "full" THEN "read" ELSE "hash"]
  /\ UNCHANGED <<bundle, template, manifest, edits, mixed>>

AtImport(step) == importer.step = step /\ UNCHANGED <<bundle, edits, imports>>

ReadFile ==
  /\ AtImport("read")
  /\ LET f == NextOf(ReadOrder, importer.read)
         read == Also(importer.read, f, bundle[f])
     IN  importer' = [importer EXCEPT !.read = read,
                                      !.step = IF DOMAIN read = Files THEN "save" ELSE "read"]
  /\ UNCHANGED <<template, manifest, mixed>>

SaveTemplate ==
  /\ AtImport("save")
  /\ template' = importer.read
  /\ importer' = [importer EXCEPT !.step = "hash"]
  /\ UNCHANGED <<manifest, mixed>>

(* write_model_manifest reads the files once more, to hash them. *)
HashFile ==
  /\ AtImport("hash")
  /\ LET f == NextOf(HashOrder, importer.hashes)
         hashes == Also(importer.hashes, f, bundle[f])
     IN  importer' = [importer EXCEPT !.hashes = hashes,
                                      !.step = IF DOMAIN hashes = Files THEN "write" ELSE "hash"]
  /\ UNCHANGED <<template, manifest, mixed>>

(* A faulty variant: the template that is there is still the model's. *)
TemplateInPlace == IF importer.mode = "full" THEN importer.read ELSE template
(* Only a full import binds a template. *)
Provenance == IF importer.mode = "full" THEN importer.read ELSE Missing

WriteManifest ==
  /\ AtImport("write")
  /\ manifest' = [hashes |-> importer.hashes, provenance |-> Provenance]
  /\ mixed' = IF importer.disturbed THEN mixed \cup {manifest'} ELSE mixed
  /\ importer' = Idle
  /\ UNCHANGED template

(* The import is killed, perhaps while it writes a file. *)
ImportDies ==
  /\ importer.step # "idle"
  /\ template' \in {template} \cup (IF importer.step = "save" THEN {Torn} ELSE {})
  /\ manifest' \in {manifest} \cup (IF importer.step = "write" THEN {Torn} ELSE {})
  /\ importer' = Idle
  /\ UNCHANGED <<bundle, edits, imports, mixed>>

NextIdentity ==
  \/ EditBundle \/ BeginImport \/ ReadFile \/ SaveTemplate \/ HashFile \/ WriteManifest \/ ImportDies

-----------------------------------------------------------------------------
(* The checks of load_verified and verified_raster_template. *)

IsManifest(m) == m \notin {Missing, Torn}
FileAgrees(m, f) == bundle[f] = m.hashes[f]

TemplateAgrees(m) == m.provenance # Missing /\ template = m.provenance
=============================================================================

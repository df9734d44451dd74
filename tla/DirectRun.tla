------------------------------ MODULE DirectRun ------------------------------
(***************************************************************************)
(* The direct runtime (crates/inference/direct): the same computation as   *)
(* the staged chain, written as two loops over layers and tokens that hand *)
(* values on in variables.  It runs with its diagnostics on: every         *)
(* boundary is recorded under the name that the stage has in the chain,    *)
(* and may be compared with the trace of a checkpointed run.               *)
(*                                                                         *)
(* A value is the name of the boundary that computed it.  A record is a    *)
(* boundary with what it read, under the parameters of the stage; since    *)
(* stages are deterministic, two boundaries that read the same have the    *)
(* same commitment.                                                        *)
(***************************************************************************)
EXTENDS ChainExpansion

CONSTANTS DirectTokens, DirectBatches  (* the run spec of the direct run *)

ASSUME DirectAssumption == DirectTokens \subseteq Nat /\ DirectBatches \subseteq Nat

VARIABLES
  step,        (* where the direct run is; "none" before it starts            *)
  directSpec,  (* its tokens and batches, and whether it compares             *)
  pass,        (* -1 in the prefill, else token_idx                           *)
  layer,       (* layer_idx                                                   *)
  seed,        (* what the pass starts from                                   *)
  current, layerOutputs, priorLayers, logits, edge,
  required,    (* the boundaries that the diagnostics expect                  *)
  records      (* boundary -> what it read                                    *)

valueVars == <<seed, current, layerOutputs, priorLayers, logits, edge>>
directVars == <<step, directSpec, pass, layer, valueVars, required, records>>

Shape == spec.shape
Embedding == Single("input_embedding")
NoSpec == [tokens |-> 0, batches |-> 0, compare |-> FALSE]

-----------------------------------------------------------------------------
(* Names.                                                                  *)

PassName(p, prefill, decode, n) == IF p < 0 THEN Name(prefill, 0, n) ELSE Name(decode, p, n)
AuxName(p, n) == PassName(p, "prefill_prepare_aux", "decode_aux", n)
RangeName(p, n) == PassName(p, "prefill_range", "decode_range", n)
FinalizeName(p) == PassName(p, "prefill_finalize", "decode_finalize", 0)
SelectName(t) == Name("decode_select", t, 0)
EmbedName(t) == Name("decode_embed", t, 0)

LayerNames(s, p) == {AuxName(p, n) : n \in Layers(s)} \cup {RangeName(p, n) : n \in Layers(s)}
DecodePassNames(s, t) == {EmbedName(t), FinalizeName(t)} \cup LayerNames(s, t)

(* A faulty variant: with the pass after the last selection. *)
AllPasses(s, tokens) ==
  {Single("prompt_prepare"), Embedding, FinalizeName(-1), Single("decode_init"),
   Single("output_finalize")}
  \cup LayerNames(s, -1)
  \cup UNION {{SelectName(t)} \cup DecodePassNames(s, t) : t \in 0 .. (tokens - 1)}

(* The boundaries of a direct run, which stops after its last selection. *)
BoundaryNames(s, tokens) ==
  {Single("prompt_prepare"), Embedding, FinalizeName(-1), Single("decode_init"),
   Single("output_finalize")}
  \cup LayerNames(s, -1)
  \cup {SelectName(t) : t \in 0 .. (tokens - 1)}
  \cup UNION {DecodePassNames(s, t) : t \in 0 .. (tokens - 2)}

(* What a trace to compare with must have: also the merges, and the pass   *)
(* that the chain runs after its last selection.                           *)
ReferenceNames(s, tokens, batches) ==
  BoundaryNames(s, tokens)
  \cup {Single("prompt_merge_seed")} \cup {Name("prompt_merge", b, 0) : b \in 0 .. (batches - 1)}
  \cup (IF tokens = 0 THEN {} ELSE DecodePassNames(s, tokens - 1))

(* The candidates: an empty cache, unless the donor has been computed. *)
DonorInput(donor) ==
  IF donor >= 0 /\ donor < Len(layerOutputs) THEN layerOutputs[donor + 1] ELSE Embedding

(* The parameters that a stage makes use of: of the donors only the one    *)
(* whose cache the layer shares.  The merged pieces of the prompt are the  *)
(* tokenizer's matter.                                                     *)
IsRange(name) == name[1] \in {"prefill_range", "decode_range"}
UsesDonor(s, name, donor) == ~IsRange(name) \/ KvDonor(s, name[3]) = donor
Used(s, name, params) ==
  {p \in params : /\ p /= "merged_pieces"
                  /\ p = "donor_a_kv" => UsesDonor(s, name, DonorA(s))
                  /\ p = "donor_b_kv" => UsesDonor(s, name, DonorB(s))}

(* What the chain's stage of this name reads of what it uses. *)
ChainReads(name) ==
  LET inputs == StageNamed(name).inputs
  IN  [p \in Used(Shape, name, DOMAIN inputs) |-> inputs[p].name]
Reads(name, inputs) == [p \in Used(Shape, name, DOMAIN inputs) |-> inputs[p]]

-----------------------------------------------------------------------------
InitDirect ==
  /\ InitExpansion
  /\ step = "none" /\ directSpec = NoSpec
  /\ pass = -1 /\ layer = 0
  /\ seed = Embedding /\ current = Embedding
  /\ layerOutputs = <<>> /\ priorLayers = <<>>
  /\ logits = Embedding /\ edge = Embedding
  /\ required = {} /\ records = [name \in {} |-> <<>>]

(* DirectTrace::record: a boundary that is expected, new, and, when the    *)
(* run compares, equal to the one of the chain; or the run ends.           *)
Accepted(name, inputs) ==
  /\ name \in required
  /\ name \notin DOMAIN records
  /\ directSpec.compare => name \in StageNames /\ Reads(name, inputs) = ChainReads(name)

Record(name, inputs, then) ==
  /\ records' = Extended(records, [n \in {name} |-> Reads(name, inputs)])
  /\ step' = IF Accepted(name, inputs) THEN then ELSE "failed"

Start ==
  /\ phase = "expanded" /\ IsImported /\ step = "none"
  /\ \E tokens \in DirectTokens, batches \in DirectBatches, compare \in BOOLEAN :
       directSpec' = [tokens |-> tokens, batches |-> batches, compare |-> compare]
  /\ required' = BoundaryNames(Shape, directSpec'.tokens)
  /\ step' = IF /\ directSpec'.compare
                /\ StageNames /= ReferenceNames(Shape, directSpec'.tokens, directSpec'.batches)
             THEN "refused" ELSE "prompt"
  /\ UNCHANGED <<expansionVars, pass, layer, valueVars, records>>

At(s) == step = s /\ UNCHANGED <<expansionVars, directSpec, required>>

Prompt ==
  /\ At("prompt")
  /\ Record(Single("prompt_prepare"), [tokenizer |-> Single("tokenizer")], "embedding")
  /\ UNCHANGED <<pass, layer, valueVars>>

Embed ==
  /\ At("embedding")
  /\ Record(Embedding, [prompt |-> Single("prompt_prepare"), embedding |-> Single("embedding")], "aux")
  /\ seed' = Embedding /\ current' = Embedding
  /\ UNCHANGED <<pass, layer, layerOutputs, priorLayers, logits, edge>>

Aux ==
  /\ At("aux")
  /\ Record(AuxName(pass, layer), [embedded |-> seed, layer |-> Name("aux_layer", 0, layer)], "range")
  /\ UNCHANGED <<pass, layer, valueVars>>

(* A faulty variant: the caches of the prefill, in every pass. *)
PrefillCache(n) == IF pass < 0 THEN Embedding ELSE RangeName(-1, n)
(* The cache of the same layer in the pass before. *)
PriorCache(n) == IF n < Len(priorLayers) THEN priorLayers[n + 1] ELSE Embedding

RangeStage ==
  LET name == RangeName(pass, layer)
      isLast == layer + 1 = Shape.layers
  IN  /\ At("range")
      /\ Record(name,
                [activations |-> current,
                 prior_kv |-> PriorCache(layer),
                 donor_a_kv |-> DonorInput(DonorA(Shape)),
                 donor_b_kv |-> DonorInput(DonorB(Shape)),
                 ple |-> AuxName(pass, layer),
                 layer |-> Name("transformer_layer", 0, layer)],
                IF isLast THEN "finalize" ELSE "aux")
      /\ current' = name
      /\ layerOutputs' = Append(layerOutputs, name)
      /\ layer' = layer + 1
      /\ UNCHANGED <<pass, seed, priorLayers, logits, edge>>

(* The end of a pass: its outputs are the caches of the next one. *)
Finalize ==
  /\ At("finalize")
  /\ Record(FinalizeName(pass), [activations |-> current, head |-> Single("head")],
            IF pass < 0 THEN "init" ELSE "select")
  /\ logits' = FinalizeName(pass)
  /\ priorLayers' = layerOutputs
  /\ layerOutputs' = <<>>
  /\ layer' = 0
  /\ pass' = pass + 1
  /\ UNCHANGED <<seed, current, edge>>

DecodeInit ==
  /\ At("init")
  /\ Record(Single("decode_init"), [p \in {} |-> Embedding],
            IF directSpec.tokens = 0 THEN "output" ELSE "select")
  /\ edge' = Single("decode_init")
  /\ UNCHANGED <<pass, layer, seed, current, layerOutputs, priorLayers, logits>>

(* The loop breaks after its last selection. *)
IsLastToken(t) == t + 1 = directSpec.tokens

Select ==
  /\ At("select")
  /\ Record(SelectName(pass), [logits |-> logits, prior |-> edge],
            IF IsLastToken(pass) THEN "output" ELSE "embed_token")
  /\ edge' = SelectName(pass)
  /\ UNCHANGED <<pass, layer, seed, current, layerOutputs, priorLayers, logits>>

EmbedToken ==
  /\ At("embed_token")
  /\ Record(EmbedName(pass), [selected |-> edge, embedding |-> Single("embedding")], "aux")
  /\ seed' = EmbedName(pass) /\ current' = EmbedName(pass)
  /\ UNCHANGED <<pass, layer, layerOutputs, priorLayers, logits, edge>>

Output ==
  /\ At("output")
  /\ Record(Single("output_finalize"), [edge |-> edge, decoder |-> Single("decoder")], "finish")
  /\ UNCHANGED <<pass, layer, valueVars>>

Finish ==
  /\ At("finish")
  /\ step' = IF DOMAIN records = required THEN "done" ELSE "failed"
  /\ UNCHANGED <<pass, layer, valueVars, records>>

NextDirect ==
  \/ Start \/ Prompt \/ Embed \/ Aux \/ RangeStage \/ Finalize \/ DecodeInit
  \/ Select \/ EmbedToken \/ Output \/ Finish

-----------------------------------------------------------------------------
SameRun == directSpec.tokens = spec.tokens

(* Every boundary of the direct runtime reads what the stage of the same   *)
(* name reads: the same weights, the cache of the same layer of the pass   *)
(* before, the cache of the same donor, the activations of the layer       *)
(* below, and at the end the edge of the last selection, which the chain   *)
(* reaches through an export.                                              *)
ReadsTheSame(name) ==
  IF name = Single("output_finalize") /\ ~SameRun THEN TRUE
  ELSE IF name \in StageNames THEN records[name] = ChainReads(name)
  ELSE directSpec.tokens > spec.tokens

DirectReadsTheSame == \A name \in DOMAIN records : ReadsTheSame(name)

(* The diagnostics never fail a direct run that follows its own loops, and *)
(* a trace is refused exactly if it is of a run of another length or with  *)
(* other merges.                                                           *)
OtherRun == ~SameRun \/ directSpec.batches /= spec.batches
TraceIsAccepted ==
  /\ step /= "failed"
  /\ step = "refused" => OtherRun
  /\ (directSpec.compare /\ OtherRun) => step \in {"none", "refused"}

(* The stages that the direct runtime leaves out, the merges aside, are    *)
(* not needed: nothing that the output of the chain depends on is missing. *)
InputsOf(name) ==
  {StageNamed(name).inputs[p].name :
     p \in {q \in Used(Shape, name, DOMAIN StageNamed(name).inputs) :
              StageNamed(name).inputs[q].how = "from"}}
NothingIsMissing ==
  (step = "done" /\ SameRun) =>
    /\ Single("output_finalize") \in DOMAIN records
    /\ \A name \in DOMAIN records : InputsOf(name) \subseteq DOMAIN records
=============================================================================

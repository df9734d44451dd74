----------------------------- MODULE StageValues -----------------------------
(***************************************************************************)
(* What the stages of a chain compute and read (crates/inference/staged:   *)
(* routines/ and the values of cache.rs): the routine a stage is           *)
(* dispatched to, the type of its value, and how a value that is kept in   *)
(* memory is handed to a stage that declares its own type for it.          *)
(*                                                                         *)
(* A value has a type and fields.  The content of a field is the name of   *)
(* the stage that computed it, paired with the field's name.               *)
(***************************************************************************)
EXTENDS ChainTemplate

(* The project that the importer gives the stages of a kind of name. *)
Project(kind) ==
  CASE kind \in {"prompt_merge_seed", "prompt_merge"} -> "prompt-merge"
    [] kind = "prompt_prepare" -> "prompt-prepare"
    [] kind = "input_embedding" -> "input-embedding"
    [] kind \in {"prefill_prepare_aux", "decode_aux"} -> "prefill-prepare-aux"
    [] kind \in {"prefill_range", "decode_range"} -> "prefill-range"
    [] kind \in {"prefill_finalize", "decode_finalize"} -> "prefill-finalize"
    [] kind = "decode_init" -> "decode-init"
    [] kind = "decode_select" -> "decode-select-token"
    [] kind = "decode_embed" -> "decode-embed"
    [] kind = "output_finalize" -> "output-finalize"
    [] OTHER -> "none"

HasLayer(name) == name[1] \in {"prefill_prepare_aux", "prefill_range", "decode_aux", "decode_range"}
Stage(routine, instance) == [routine |-> routine, instance |-> instance]
NoStage == Stage("unsupported", -1)

(* The routine of a stage: the runners dispatch by its project and name.   *)
FromStageSpec(project, name) ==
  CASE project = "prompt-merge" /\ name[1] \in {"prompt_merge_seed", "prompt_merge"} -> Stage("prompt_merge", -1)
    [] project = "prompt-prepare" /\ name[1] = "prompt_prepare" -> Stage("prompt_prepare", -1)
    [] project = "input-embedding" /\ name[1] = "input_embedding" -> Stage("input_embedding", -1)
    [] project = "prefill-prepare-aux" /\ HasLayer(name) -> Stage("prefill_prepare_aux", name[3])
    [] project = "prefill-range" /\ HasLayer(name) -> Stage("prefill_range", name[3])
    [] project = "prefill-finalize" /\ name[1] \in {"prefill_finalize", "decode_finalize"} -> Stage("prefill_finalize", -1)
    [] project = "decode-init" /\ name[1] = "decode_init" -> Stage("decode_init", -1)
    [] project = "decode-select-token" /\ name[1] = "decode_select" -> Stage("decode_select_token", -1)
    [] project = "decode-embed" /\ name[1] = "decode_embed" -> Stage("decode_embed", -1)
    [] project = "output-finalize" /\ name[1] = "output_finalize" -> Stage("output_finalize", -1)
    [] OTHER -> NoStage

(* A stage in a process of its own only knows its directory. *)
FromStageName(name) ==
  CASE name[1] \in {"prompt_merge_seed", "prompt_merge"} -> Stage("prompt_merge", -1)
    [] name[1] \in {"prompt_prepare", "input_embedding", "decode_init", "decode_embed", "output_finalize"} ->
         Stage(name[1], -1)
    [] name[1] \in {"prefill_finalize", "decode_finalize"} -> Stage("prefill_finalize", -1)
    [] name[1] = "decode_select" -> Stage("decode_select_token", -1)
    [] name[1] \in {"prefill_prepare_aux", "decode_aux"} -> Stage("prefill_prepare_aux", name[3])
    [] name[1] \in {"prefill_range", "decode_range"} -> Stage("prefill_range", name[3])
    [] OTHER -> NoStage

KindOf(stage) == FromStageSpec(Project(stage.name[1]), stage.name)

-----------------------------------------------------------------------------
(* Values.                                                                 *)

(* A routine: the type of the value it computes, the parameters that other *)
(* stages compute, with the types they are read as, and those that are     *)
(* read from the model's files.                                            *)
PromptMerge == [value |-> "BpePieces", params |-> [initial_pieces |-> "pieces"], model |-> {"tokenizer"}]
PromptPrepare ==
  [value |-> "PromptTokenization", params |-> [merged_pieces |-> "pieces"], model |-> {"tokenizer"}]
InputEmbedding ==
  [value |-> "EmbeddedActivations", params |-> [prompt |-> "prompt"], model |-> {"embedding"}]
PrefillPrepareAux ==
  [value |-> "PleLayerInputs", params |-> [embedded |-> "aux_activations"], model |-> {"layer"}]
PrefillRange ==
  [value |-> "RangeActivations",
   params |-> [activations |-> "range_activations", prior_kv |-> "range_activations",
               donor_a_kv |-> "range_activations", donor_b_kv |-> "range_activations",
               ple |-> "range_ple"],
   model |-> {"layer"}]
PrefillFinalize ==
  [value |-> "PrefillLogits", params |-> [activations |-> "finalize_activations"], model |-> {"head"}]
DecodeInitRoutine == [value |-> "DecodeEdge", params |-> [p \in {} |-> "none"], model |-> {}]
DecodeSelectToken ==
  [value |-> "DecodeEdge", params |-> [logits |-> "logits", prior |-> "edge"], model |-> {}]
DecodeEmbed ==
  [value |-> "DecodeActivations", params |-> [selected |-> "embed_edge"], model |-> {"embedding"}]
OutputFinalize ==
  [value |-> "GeneratedOutput", params |-> [edge |-> "output_edge"], model |-> {"decoder"}]

Routines ==
  [prompt_merge |-> PromptMerge, prompt_prepare |-> PromptPrepare, input_embedding |-> InputEmbedding,
   prefill_prepare_aux |-> PrefillPrepareAux, prefill_range |-> PrefillRange,
   prefill_finalize |-> PrefillFinalize, decode_init |-> DecodeInitRoutine,
   decode_select_token |-> DecodeSelectToken, decode_embed |-> DecodeEmbed,
   output_finalize |-> OutputFinalize]
Params(routine) == Routines[routine].params
ModelParams(routine) == Routines[routine].model

ActivationTypes == {"EmbeddedActivations", "DecodeActivations", "RangeActivations"}
Fields(type) ==
  CASE type \in ActivationTypes -> {"rows", "errors", "kv", "start_position"}
    [] type = "BpePieces" -> {"pieces"}
    [] type = "PromptTokenization" -> {"token_ids"}
    [] type = "PleLayerInputs" -> {"layer_idx", "rows", "errors"}
    [] type = "PrefillLogits" -> {"decode_position", "logits", "errors"}
    [] type = "DecodeEdge" ->
         {"has_selected", "decode_position", "token_id", "value", "generated_token_ids"}
    [] OTHER -> {"generated_token_ids", "generated_text", "stop_reason"}

(* What a stage computes, and what its published output holds. *)
Computed(type, name) == [f \in Fields(type) |-> <<name, f>>]
Value(stage) ==
  LET type == Routines[KindOf(stage).routine].value
  IN  [type |-> type, fields |-> Computed(type, stage.name)]

-----------------------------------------------------------------------------
(* A value kept in memory, as the type of the stage that reads it.         *)

AuxActivations(v) ==
  [rows |-> v.rows, errors |-> v.errors, kv |-> v.kv, start_position |-> v.start_position]
(* A faulty variant: the rows without the cache that goes with them. *)
RowsWithoutCache(v) ==
  [rows |-> v.rows, errors |-> v.errors, kv |-> v.errors, start_position |-> v.start_position]
RangeActivations(v) ==
  [rows |-> v.rows, errors |-> v.errors, kv |-> v.kv, start_position |-> v.start_position]
FinalizeActivations(v) ==
  [rows |-> v.rows, errors |-> v.errors, kv |-> v.kv, start_position |-> v.start_position]
RangePle(v) == [layer_idx |-> v.layer_idx, rows |-> v.rows, errors |-> v.errors]
Logits(v) == [decode_position |-> v.decode_position, logits |-> v.logits, errors |-> v.errors]
Edge(v) ==
  [has_selected |-> v.has_selected, decode_position |-> v.decode_position,
   token_id |-> v.token_id, value |-> v.value, generated_token_ids |-> v.generated_token_ids]

(* What a value becomes as a type, if it can become that. *)
Converted(value, as) ==
  LET v == value.fields
  IN  CASE as = "pieces" /\ value.type = "BpePieces" -> {v}
        [] as = "prompt" /\ value.type = "PromptTokenization" -> {[token_ids |-> v.token_ids]}
        [] as = "aux_activations" /\ value.type \in ActivationTypes -> {AuxActivations(v)}
        [] as = "range_activations" /\ value.type \in ActivationTypes -> {RangeActivations(v)}
        [] as = "finalize_activations" /\ value.type \in ActivationTypes -> {FinalizeActivations(v)}
        [] as = "range_ple" /\ value.type = "PleLayerInputs" -> {RangePle(v)}
        [] as = "logits" /\ value.type = "PrefillLogits" -> {Logits(v)}
        [] as = "edge" /\ value.type = "DecodeEdge" -> {v}
        [] as \in {"embed_edge", "output_edge"} /\ value.type = "DecodeEdge" -> {Edge(v)}
        [] OTHER -> {}
=============================================================================

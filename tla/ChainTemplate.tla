---------------------------- MODULE ChainTemplate ----------------------------
(***************************************************************************)
(* The chain manifest that the importer writes for a model: stages, two    *)
(* repeats (merge batches and generated tokens) and their templates.       *)
(*                                                                         *)
(* A name is a triple of a kind and two numbers: prefill_range_l3 is       *)
(* <<"prefill_range", 0, 3>> and decode_aux_t1_l2 <<"decode_aux", 1, 2>>.  *)
(* A text of a template has places for them, which hold a number or an     *)
(* index of a repeat, or the value of the index before it.                 *)
(***************************************************************************)
EXTENDS Integers, Sequences, FiniteSets

(* A model: how many layers, how many of them at the end share the cache   *)
(* of an earlier one, and the attention type of each.                      *)
IsShape(s) ==
  /\ s.layers \in Nat \ {0} /\ s.shared \in 0 .. s.layers
  /\ DOMAIN s.types = 0 .. (s.layers - 1)

Name(kind, t, l) == <<kind, t, l>>
Single(kind) == Name(kind, 0, 0)
Layers(s) == 0 .. (s.layers - 1)
FirstShared(s) == s.layers - s.shared
Clip(n) == IF n < 0 THEN 0 ELSE n

(* A function with the entries of another added, or put in their place. *)
Extended(f, g) == [x \in DOMAIN f \cup DOMAIN g |-> IF x \in DOMAIN g THEN g[x] ELSE f[x]]

(* The layer whose cache layer l uses: -1 for its own. *)
KvDonor(s, l) ==
  LET same == {d \in 0 .. (FirstShared(s) - 1) : s.types[d] = s.types[l]}
  IN  IF l < FirstShared(s) \/ same = {} THEN -1
      ELSE CHOOSE d \in same : \A e \in same : e <= d

Donors(s) == {KvDonor(s, l) : l \in Layers(s)} \ {-1}
DonorA(s) == IF Donors(s) = {} THEN -2 ELSE CHOOSE d \in Donors(s) : \A e \in Donors(s) : d <= e
DonorB(s) ==
  IF Cardinality(Donors(s)) < 2 THEN -3
  ELSE CHOOSE d \in Donors(s) \ {DonorA(s)} : \A e \in Donors(s) \ {DonorA(s)} : d <= e

(* More than two donors are refused by the importer. *)
Importable(s) == IsShape(s) /\ Cardinality(Donors(s)) <= 2

-----------------------------------------------------------------------------
(* Templates.                                                              *)

Number(n) == [index |-> "none", previous |-> FALSE, number |-> n]
Index(i) == [index |-> i, previous |-> FALSE, number |-> 0]
Previous(i) == [index |-> i, previous |-> TRUE, number |-> 0]
Text(kind, t, l) == [kind |-> kind, t |-> t, l |-> l]
Plain(kind) == Text(kind, Number(0), Number(0))

(* from a stage, from a stage with a fallback for the first iteration, from*)
(* a declared input of the chain, and from a file, whose name is no text.  *)
From(text) == [how |-> "from", text |-> text, first |-> {}]
FromOr(text, first) == [how |-> "from", text |-> text, first |-> {first}]
Input(text) == [how |-> "input", text |-> text, first |-> {}]
External(name) == [how |-> "external", name |-> name]

(* A template of count stages, one for each value of index, or of one.     *)
Each(name, index, start, count, inputs) ==
  [name |-> name, index |-> index, start |-> start, count |-> count, inputs |-> inputs]
One(name, inputs) == Each(name, "none", 0, 1, inputs)

StageItem(name, inputs) == [repeat |-> FALSE, stage |-> One(name, inputs)]
RepeatItem(index, count, stages, exports) ==
  [repeat |-> TRUE, index |-> index, start |-> 0, count |-> count,
   stages |-> stages, exports |-> exports]

NoInputs == [p \in {} |-> External(Single("none"))]
Zero == Number(0)
T == Index("t")
L == Index("l")
B == Index("b")
Weights(kind) == Input(Text(kind, Zero, L))
File(kind) == External(Single(kind))

-----------------------------------------------------------------------------
(* What the importer writes.                                               *)

(* The seed of the prompt's pieces and the batches that follow it. *)
TokenizeItems(batches) ==
  <<StageItem(Plain("prompt_merge_seed"),
              [initial_pieces |-> File("pieces"), tokenizer |-> File("tokenizer")]),
    RepeatItem("b", batches,
      <<One(Text("prompt_merge", B, Zero),
            [initial_pieces |-> FromOr(Text("prompt_merge", Previous("b"), Zero),
                                       Plain("prompt_merge_seed")),
             tokenizer |-> File("tokenizer")])>>,
      [pieces |-> [key |-> Single("tokenize.pieces"),
                   stage |-> Text("prompt_merge", B, Zero),
                   entry |-> Single("prompt_merge_seed")]]),
    StageItem(Plain("prompt_prepare"),
              [merged_pieces |-> From(Plain("tokenize.pieces")), tokenizer |-> File("tokenizer")])>>

EmbeddingItem ==
  StageItem(Plain("input_embedding"),
            [prompt |-> From(Plain("prompt_prepare")), embedding |-> File("embedding")])

AuxItem(n) ==
  StageItem(Text("prefill_prepare_aux", Zero, Number(n)),
            [embedded |-> From(Plain("input_embedding")),
             layer |-> External(Name("aux_layer", 0, n))])

(* A faulty variant: the donors are bound in every layer. *)
DonorsEverywhere(s, n, donor) == From(Text("prefill_range", Zero, Number(donor)))

(* Before the sharing boundary a donor would be a forward reference. *)
PrefillDonor(s, n, donor) ==
  IF n < FirstShared(s) THEN From(Plain("input_embedding"))
  ELSE From(Text("prefill_range", Zero, Number(donor)))

RangeItem(s, n) ==
  StageItem(Text("prefill_range", Zero, Number(n)),
    [activations |-> IF n = 0 THEN From(Plain("input_embedding"))
                     ELSE From(Text("prefill_range", Zero, Number(n - 1))),
     prior_kv |-> From(Plain("input_embedding")),
     donor_a_kv |-> PrefillDonor(s, n, DonorA(s)),
     donor_b_kv |-> PrefillDonor(s, n, DonorB(s)),
     ple |-> From(Text("prefill_prepare_aux", Zero, Number(n))),
     layer |-> External(Name("transformer_layer", 0, n))])

HeadItem(s) ==
  StageItem(Plain("prefill_finalize"),
    [activations |-> From(Text("prefill_range", Zero, Number(s.layers - 1))),
     head |-> File("head")])

(* A layer of a decode pass, from start on; the layers of a pass follow    *)
(* each other, and their cache the one of the pass before.                 *)
DecodeRange(start, count, first, a, b) ==
  Each(Text("decode_range", T, L), "l", start, count,
    [activations |-> FromOr(Text("decode_range", T, Previous("l")), first),
     prior_kv |-> FromOr(Text("decode_range", Previous("t"), L), Text("prefill_range", Zero, L)),
     donor_a_kv |-> From(a),
     donor_b_kv |-> From(b),
     ple |-> From(Text("decode_aux", T, L)),
     layer |-> Weights("transformer_layer")])

DecodeDonor(d) == IF d < 0 THEN Plain("input_embedding") ELSE Text("decode_range", T, Number(d))

OwnRange(s) ==
  IF FirstShared(s) = 0 THEN <<>>
  ELSE <<DecodeRange(0, FirstShared(s), Text("decode_embed", T, Zero),
                     Plain("input_embedding"), Plain("input_embedding"))>>

SharedRange(s) ==
  IF s.shared = 0 THEN <<>>
  ELSE <<DecodeRange(FirstShared(s), s.shared,
                     Text("decode_range", T, Number(Clip(FirstShared(s) - 1))),
                     DecodeDonor(DonorA(s)), DecodeDonor(DonorB(s)))>>

DecodeStages(s) ==
  <<One(Text("decode_select", T, Zero),
        [logits |-> FromOr(Text("decode_finalize", Previous("t"), Zero), Plain("prefill_finalize")),
         prior |-> FromOr(Text("decode_select", Previous("t"), Zero), Plain("decode_init"))]),
    One(Text("decode_embed", T, Zero),
        [selected |-> From(Text("decode_select", T, Zero)), embedding |-> File("embedding")]),
    Each(Text("decode_aux", T, L), "l", 0, s.layers,
         [embedded |-> From(Text("decode_embed", T, Zero)), layer |-> Weights("aux_layer")])>>
  \o OwnRange(s) \o SharedRange(s)
  \o <<One(Text("decode_finalize", T, Zero),
           [activations |-> From(Text("decode_range", T, Number(s.layers - 1))),
            head |-> File("head")])>>

GenerationItems(s, tokens) ==
  <<StageItem(Plain("decode_init"), NoInputs),
    RepeatItem("t", tokens, DecodeStages(s),
      [edge |-> [key |-> Single("decode.edge"), stage |-> Text("decode_select", T, Zero),
                 entry |-> Single("decode_init")],
       logits |-> [key |-> Single("decode.logits"), stage |-> Text("decode_finalize", T, Zero),
                   entry |-> Single("prefill_finalize")]]),
    StageItem(Plain("output_finalize"),
      [edge |-> From(Plain("decode.edge")), decoder |-> File("decoder")])>>

(* The weights of every layer, declared once for all passes: the files of a *)
(* family, in the order of its index.                                       *)
IndexedInputs(s) ==
  [family \in {"aux_layer", "transformer_layer"} |->
     [n \in 1 .. s.layers |-> Name(family, 0, n - 1)]]

(* The manifest of a model, with the counts of one run in its repeats.     *)
ManifestOf(s, tokens, batches) ==
  [inputs |-> IndexedInputs(s),
   items |-> TokenizeItems(batches) \o <<EmbeddingItem>>
             \o [n \in 1 .. s.layers |-> AuxItem(n - 1)]
             \o [n \in 1 .. s.layers |-> RangeItem(s, n - 1)]
             \o <<HeadItem(s)>> \o GenerationItems(s, tokens)]
=============================================================================

--------------------------- MODULE ChainExpansion ---------------------------
(***************************************************************************)
(* How the staged runner reads a chain manifest (expand_chain_table): the  *)
(* stages of the manifest in their order, those of a repeat once for each  *)
(* value of its index and of the index of the template, with the texts of  *)
(* the template rendered; then the names that repeats export are replaced  *)
(* by the stages behind them.                                              *)
(*                                                                         *)
(* The manifest is one that the importer wrote for a model, with the       *)
(* counts of a run, or one written by hand.                                *)
(***************************************************************************)
EXTENDS ChainTemplate

CONSTANTS
  Shapes,      (* the models: see IsShape                                     *)
  Tokens,      (* how many tokens a run asks for                              *)
  Batches,     (* how many merge batches its prompt needs                     *)
  HandWritten  (* manifests that the importer did not write                   *)

ASSUME ExpansionAssumption ==
  /\ \A s \in Shapes : IsShape(s)
  /\ Tokens \subseteq Nat /\ Batches \subseteq Nat

(* Which model and counts a manifest is for. *)
Runs == [shape : Shapes, tokens : Tokens, batches : Batches]
ByHand == [shape |-> [layers |-> 1, shared |-> 0, types |-> [n \in {0} |-> "none"]],
           tokens |-> 0, batches |-> 0]

VARIABLES
  spec,      (* the run of this manifest, ByHand for one that has none        *)
  manifest,
  phase,     (* "expand", "expanded" or "failed"                              *)
  item,      (* the item of the manifest in progress                          *)
  outer,     (* in a repeat: iterations done,                                 *)
  part,      (* the template in progress,                                     *)
  inner,     (* and how many of its stages have been pushed                   *)
  exports,   (* exported name -> the stage behind it                          *)
  chain      (* the stages pushed                                             *)

loopVars == <<item, outer, part, inner>>
expansionVars == <<spec, manifest, phase, loopVars, exports, chain>>

-----------------------------------------------------------------------------
(* The declared inputs, each under the name of its family and its index.   *)
Inputs ==
  [name \in UNION {{Name(f, 0, n - 1) : n \in DOMAIN manifest.inputs[f]} : f \in DOMAIN manifest.inputs} |->
     manifest.inputs[name[1]][name[3] + 1]]

(* The indexes a template may name: index -> its value and first value. *)
OuterIndex(repeat, n) == [i \in {repeat.index} |-> [value |-> repeat.start + n, start |-> repeat.start]]
InnerIndex(template, n) ==
  [i \in {template.index} |-> [value |-> template.start + n, start |-> template.start]]
NoIndex == [i \in {} |-> [value |-> 0, start |-> 0]]

PlaceOutcome(place, idx) ==
  IF place.index = "none" THEN "text"
  ELSE IF place.index \notin DOMAIN idx THEN "unknown"
  ELSE IF place.previous /\ idx[place.index].value = idx[place.index].start THEN "underflow"
  ELSE "text"

(* The first place that cannot be filled decides. *)
Outcome(text, idx) ==
  IF PlaceOutcome(text.t, idx) /= "text" THEN PlaceOutcome(text.t, idx) ELSE PlaceOutcome(text.l, idx)

Filled(place, idx) ==
  IF place.index = "none" THEN place.number
  ELSE idx[place.index].value - (IF place.previous THEN 1 ELSE 0)

Rendered(text, idx) == Name(text.kind, Filled(text.t, idx), Filled(text.l, idx))

(* Where a binding leads: a text that can be rendered, if it has one. A    *)
(* look back from the first iteration takes the fallback, if there is one. *)
(* A file is taken as it is.                                               *)
Sources(binding, idx) ==
  CASE Outcome(binding.text, idx) = "text" -> {binding.text}
    [] Outcome(binding.text, idx) = "underflow" /\ binding.how = "from" ->
         {first \in binding.first : Outcome(first, idx) = "text"}
    [] OTHER -> {}

CanBind(binding, idx) ==
  binding.how /= "external" =>
    \E text \in Sources(binding, idx) :
      binding.how = "input" => Rendered(text, idx) \in DOMAIN Inputs

Bound(binding, idx) ==
  LET source == Rendered(CHOOSE text \in Sources(binding, idx) : TRUE, idx)
  IN  CASE binding.how = "from" -> [how |-> "from", name |-> source]
        [] binding.how = "input" -> [how |-> "external", name |-> Inputs[source]]
        [] OTHER -> binding

CanExpand(template, idx) ==
  /\ Outcome(template.name, idx) = "text"
  /\ \A p \in DOMAIN template.inputs : CanBind(template.inputs[p], idx)

Expanded(template, idx) ==
  [name |-> Rendered(template.name, idx),
   inputs |-> [p \in DOMAIN template.inputs |-> Bound(template.inputs[p], idx)]]

-----------------------------------------------------------------------------
InitExpansion ==
  /\ \/ /\ spec \in {r \in Runs : Importable(r.shape)}
        /\ manifest = ManifestOf(spec.shape, spec.tokens, spec.batches)
     \/ /\ spec = ByHand
        /\ manifest \in HandWritten
  /\ phase = "expand"
  /\ item = 1 /\ outer = 0 /\ part = 1 /\ inner = 0
  /\ exports = [name \in {} |-> Single("none")]
  /\ chain = <<>>

AtItem(repeat) ==
  /\ phase = "expand"
  /\ item <= Len(manifest.items)
  /\ manifest.items[item].repeat = repeat

Item == manifest.items[item]
Part == Item.stages[part]

NextItem == item' = item + 1 /\ outer' = 0 /\ part' = 1 /\ inner' = 0

(* A stage of the manifest. *)
PushStage ==
  /\ AtItem(FALSE)
  /\ chain' = Append(chain, Expanded(Item.stage, NoIndex))
  /\ NextItem
  /\ UNCHANGED <<spec, manifest, phase, exports>>

InPart == AtItem(TRUE) /\ outer < Item.count /\ part <= Len(Item.stages) /\ inner < Part.count
Indexes ==
  IF Part.index = "none" THEN OuterIndex(Item, outer)
  ELSE Extended(InnerIndex(Part, inner), OuterIndex(Item, outer))

(* A stage of a template. *)
PushRepeated ==
  /\ InPart
  /\ CanExpand(Part, Indexes)
  /\ chain' = Append(chain, Expanded(Part, Indexes))
  /\ inner' = inner + 1
  /\ UNCHANGED <<spec, manifest, phase, item, outer, part, exports>>

NextPart ==
  /\ AtItem(TRUE) /\ outer < Item.count /\ part <= Len(Item.stages)
  /\ inner = Part.count
  /\ part' = part + 1 /\ inner' = 0
  /\ UNCHANGED <<spec, manifest, phase, item, outer, exports, chain>>

NextIteration ==
  /\ AtItem(TRUE) /\ outer < Item.count
  /\ part > Len(Item.stages)
  /\ outer' = outer + 1 /\ part' = 1
  /\ UNCHANGED <<spec, manifest, phase, item, inner, exports, chain>>

(* A faulty variant: the iteration after the last. *)
LastIndexPlusOne(repeat) == OuterIndex(repeat, repeat.count)
LastIndex(repeat) == OuterIndex(repeat, Clip(repeat.count - 1))

Exported(repeat) ==
  [name \in {x.key : x \in {repeat.exports[e] : e \in DOMAIN repeat.exports}} |->
     LET x == CHOOSE y \in {repeat.exports[e] : e \in DOMAIN repeat.exports} : y.key = name
     IN  IF repeat.count = 0 THEN x.entry ELSE Rendered(x.stage, LastIndex(repeat))]

CanExport(repeat) ==
  \A e \in DOMAIN repeat.exports :
    repeat.count = 0 \/ Outcome(repeat.exports[e].stage, LastIndex(repeat)) = "text"

(* An export is the stage of the last iteration, or the entry if there is  *)
(* no iteration.                                                           *)
EndRepeat ==
  /\ AtItem(TRUE)
  /\ outer = Item.count
  /\ CanExport(Item)
  /\ exports' = Extended(exports, Exported(Item))
  /\ NextItem
  /\ UNCHANGED <<spec, manifest, phase, chain>>

FailExpansion ==
  /\ \/ InPart /\ ~CanExpand(Part, Indexes)
     \/ AtItem(TRUE) /\ outer = Item.count /\ ~CanExport(Item)
  /\ phase' = "failed"
  /\ UNCHANGED <<spec, manifest, loopVars, exports, chain>>

Resolved(binding) ==
  IF binding.how = "from" /\ binding.name \in DOMAIN exports
  THEN [binding EXCEPT !.name = exports[binding.name]] ELSE binding

ResolveExports ==
  /\ phase = "expand"
  /\ item > Len(manifest.items)
  /\ chain' = [i \in DOMAIN chain |->
                 [chain[i] EXCEPT !.inputs = [p \in DOMAIN chain[i].inputs |-> Resolved(chain[i].inputs[p])]]]
  /\ phase' = "expanded"
  /\ UNCHANGED <<spec, manifest, loopVars, exports>>

NextExpansion ==
  \/ PushStage \/ PushRepeated \/ NextPart \/ NextIteration \/ EndRepeat
  \/ FailExpansion \/ ResolveExports

-----------------------------------------------------------------------------
IsImported == spec /= ByHand
StageNames == {chain[i].name : i \in DOMAIN chain}
IndexOf(name) == CHOOSE i \in DOMAIN chain : chain[i].name = name
StageNamed(name) == chain[IndexOf(name)]
SourcesOf(stage) ==
  {stage.inputs[p].name : p \in {q \in DOMAIN stage.inputs : stage.inputs[q].how = "from"}}
IsAux(stage) == stage.name[1] \in {"prefill_prepare_aux", "decode_aux"}

(* A manifest that the importer wrote can be expanded, and the runner can   *)
(* execute the chain: no two stages have the same name, each stage reads   *)
(* from earlier ones, an aux stage from none that may run beside it        *)
(* (run_aux_wave starts consecutive aux stages together), and the last     *)
(* stage generates the output, outside a wave.                             *)
ReadsEarlier(i) == \A name \in SourcesOf(chain[i]) : \E j \in 1 .. (i - 1) : chain[j].name = name
WaveReadsBefore(i, j) ==
  (\A k \in i .. j : IsAux(chain[k])) => chain[i].name \notin SourcesOf(chain[j])

ChainIsRunnable ==
  IsImported =>
    /\ phase /= "failed"
    /\ phase = "expanded" =>
         /\ \A i, j \in DOMAIN chain : chain[i].name = chain[j].name => i = j
         /\ \A i \in DOMAIN chain : ReadsEarlier(i)
         /\ \A i, j \in DOMAIN chain : i < j => WaveReadsBefore(i, j)
         /\ chain # <<>> /\ chain[Len(chain)].name = Single("output_finalize")

(* What the importer says of the layers that share a cache: they receive   *)
(* both candidates.                                                        *)
SharedLayersHaveDonors ==
  (IsImported /\ phase = "expanded") =>
    \A i \in DOMAIN chain :
      chain[i].name[1] = "prefill_range" =>
        \A p \in {"donor_a_kv", "donor_b_kv"} : chain[i].inputs[p].name \in StageNames
=============================================================================

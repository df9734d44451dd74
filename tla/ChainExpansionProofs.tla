------------------------ MODULE ChainExpansionProofs ------------------------
(***************************************************************************)
(* Proofs about InferRun, first part: what the uncheckpointed runner hands *)
(* to the stages of any chain, and that an imported manifest expands to a  *)
(* chain that can be run, for models with any number of layers and for any *)
(* number of tokens and merge batches.                                     *)
(***************************************************************************)
EXTENDS InferRun, WellFoundedInduction, SequenceTheorems, FiniteSetTheorems, TLAPS

-----------------------------------------------------------------------------
(* Waves.                                                                  *)

LEMMA LeastOf ==
  ASSUME NEW Places, Places \subseteq Nat, Places # {}
  PROVE  \E x \in Places : \A y \in Places : x <= y
<1> DEFINE R == OpToRel(<, Nat)
<1>1. R = {p \in Nat \X Nat : p[1] < p[2]}
  BY Zenon DEF OpToRel
<1>2. IsWellFoundedOn(R, Nat)
  BY NatLessThanWellFounded
<1> HIDE DEF R
<1>3. PICK x \in Places : \A y \in Places : <<y, x>> \notin R
  BY <1>2, WFMin
<1>4. ASSUME NEW y \in Places PROVE x <= y
  <2>1. x \in Nat /\ y \in Nat /\ <<y, x>> \notin R
    BY <1>3
  <2> QED
    BY <1>1, <2>1
<1> QED
  BY <1>3, <1>4

(* A wave is an interval, which ends where the aux stages end.             *)
RunFrom(start) == {i \in DOMAIN chain : i >= start /\ \A j \in start .. i : IsAuxStage(chain[j])}

LEMMA RunIsInterval ==
  ASSUME NEW n \in Nat, DOMAIN chain = 1 .. n, NEW start \in 1 .. n
  PROVE  \E e \in (start - 1) .. n :
           /\ RunFrom(start) = start .. e
           /\ \A i \in start .. e : IsAuxStage(chain[i])
           /\ e < n => ~IsAuxStage(chain[e + 1])
<1> DEFINE Ends == {i \in start .. n : ~IsAuxStage(chain[i])}
           AuxAt(i) == IsAuxStage(chain[i])
<1>1. Ends \subseteq Nat
  OBVIOUS
<1>2. CASE Ends = {}
  <2>1. \A i \in start .. n : AuxAt(i)
    BY <1>2
  <2>2. RunFrom(start) = {i \in 1 .. n : i >= start /\ \A j \in start .. i : AuxAt(j)}
    BY DEF RunFrom
  <2> HIDE DEF AuxAt, Ends
  <2>3. RunFrom(start) = start .. n
    BY <2>1, <2>2
  <2> QED
    BY <2>1, <2>3 DEF AuxAt
<1>3. CASE Ends # {}
  <2>1. PICK x \in Ends : \A y \in Ends : x <= y
    <3> HIDE DEF Ends
    <3> QED
      BY <1>1, <1>3, LeastOf
  <2>2. x \in start .. n /\ ~AuxAt(x) /\ \A i \in start .. n : i < x => AuxAt(i)
    BY <2>1
  <2>3. RunFrom(start) = {i \in 1 .. n : i >= start /\ \A j \in start .. i : AuxAt(j)}
    BY DEF RunFrom
  <2> HIDE DEF AuxAt, Ends
  <2>4. RunFrom(start) = start .. (x - 1)
    BY <2>2, <2>3
  <2>5. x - 1 \in (start - 1) .. n /\ (\A i \in start .. (x - 1) : AuxAt(i)) /\ ~AuxAt((x - 1) + 1)
    BY <2>2
  <2> QED
    BY <2>4, <2>5 DEF AuxAt
<1> QED
  BY <1>2, <1>3

LEMMA WaveIsInterval ==
  ASSUME NEW n \in Nat, DOMAIN chain = 1 .. n, NEW start \in 1 .. n, AuxWaveRange(start) # {}
  PROVE  \E e \in (start + 1) .. n :
           /\ AuxWaveRange(start) = start .. e
           /\ Cardinality(AuxWaveRange(start)) = (e - start) + 1
           /\ \A i \in start .. e : IsAuxStage(chain[i])
           /\ e < n => ~IsAuxStage(chain[e + 1])
<1>1. PICK e \in (start - 1) .. n :
           /\ RunFrom(start) = start .. e
           /\ \A i \in start .. e : IsAuxStage(chain[i])
           /\ e < n => ~IsAuxStage(chain[e + 1])
  BY RunIsInterval
<1>2. AuxWaveRange(start) = RunFrom(start) /\ Cardinality(RunFrom(start)) > 1
  BY DEF AuxWaveRange, RunFrom
<1>3. Cardinality(start .. e) = IF start > e THEN 0 ELSE (e - start) + 1
  BY FS_Interval
<1>4. e \in (start + 1) .. n /\ Cardinality(start .. e) = (e - start) + 1
  BY <1>1, <1>2, <1>3
<1> QED
  BY <1>1, <1>2, <1>4

LEMMA NoWave ==
  ASSUME NEW n \in Nat, DOMAIN chain = 1 .. n, NEW start \in 1 .. n, AuxWaveRange(start) = {},
         start < n, IsAuxStage(chain[start])
  PROVE  ~IsAuxStage(chain[start + 1])
<1>1. PICK e \in (start - 1) .. n :
           /\ RunFrom(start) = start .. e
           /\ \A i \in start .. e : IsAuxStage(chain[i])
           /\ e < n => ~IsAuxStage(chain[e + 1])
  BY RunIsInterval
<1>2. ~(Cardinality(RunFrom(start)) > 1)
  <2>1. CASE RunFrom(start) = {}
    BY <2>1, FS_EmptySet
  <2>2. CASE RunFrom(start) # {}
    BY <2>2 DEF AuxWaveRange, RunFrom
  <2> QED
    BY <2>1, <2>2
<1>3. Cardinality(start .. e) = IF start > e THEN 0 ELSE (e - start) + 1
  BY FS_Interval
<1>4. e \in {start - 1, start}
  BY <1>1, <1>2, <1>3
<1> QED
  BY <1>1, <1>4

-----------------------------------------------------------------------------
(* Sequences.                                                              *)

IsSequence(s) == \E S : s \in Seq(S)

LEMMA SequenceFacts ==
  ASSUME NEW s, IsSequence(s)
  PROVE  Len(s) \in Nat /\ DOMAIN s = 1 .. Len(s)
<1>1. PICK S : s \in Seq(S)
  BY DEF IsSequence
<1> QED
  BY <1>1, LenProperties

LEMMA Longer ==
  ASSUME NEW s, IsSequence(s), NEW e
  PROVE  /\ IsSequence(Append(s, e))
         /\ Len(Append(s, e)) = Len(s) + 1
         /\ \A i \in 1 .. Len(s) : Append(s, e)[i] = s[i]
         /\ Append(s, e)[Len(s) + 1] = e
<1>1. PICK S : s \in Seq(S)
  BY DEF IsSequence
<1> DEFINE U == S \cup {e}
<1>2. s \in Seq(U) /\ e \in U
  BY <1>1, SeqMonotonic
<1> HIDE DEF U
<1>3. /\ Append(s, e) \in Seq(U)
      /\ Len(Append(s, e)) = Len(s) + 1
      /\ \A i \in 1 .. Len(s) : Append(s, e)[i] = s[i]
      /\ Append(s, e)[Len(s) + 1] = e
  BY <1>2, AppendProperties
<1> QED
  BY <1>3 DEF IsSequence

LEMMA Joined ==
  ASSUME NEW s, IsSequence(s), NEW t, IsSequence(t)
  PROVE  /\ IsSequence(s \o t)
         /\ Len(s \o t) = Len(s) + Len(t)
         /\ \A i \in 1 .. (Len(s) + Len(t)) : (s \o t)[i] = IF i <= Len(s) THEN s[i] ELSE t[i - Len(s)]
<1>1. PICK S : s \in Seq(S)
  BY DEF IsSequence
<1>2. PICK R : t \in Seq(R)
  BY DEF IsSequence
<1> DEFINE U == S \cup R
<1>3. s \in Seq(U)
  BY <1>1, SeqMonotonic
<1>4. t \in Seq(U)
  BY <1>2, SeqMonotonic
<1> HIDE DEF U
<1>5. /\ s \o t \in Seq(U)
      /\ Len(s \o t) = Len(s) + Len(t)
      /\ \A i \in 1 .. (Len(s) + Len(t)) : (s \o t)[i] = IF i <= Len(s) THEN s[i] ELSE t[i - Len(s)]
  BY <1>3, <1>4, ConcatProperties
<1> QED
  BY <1>5 DEF IsSequence

LEMMA SameLength ==
  ASSUME NEW a \in Nat, NEW b \in Nat, 1 .. a = 1 .. b
  PROVE  a = b
<1>1. a <= b
  <2>1. CASE a = 0
    BY <2>1
  <2>2. CASE a > 0
    <3>1. a \in 1 .. a
      BY <2>2
    <3> QED
      BY <3>1
  <2> QED
    BY <2>1, <2>2
<1>2. b <= a
  <2>1. CASE b = 0
    BY <2>1
  <2>2. CASE b > 0
    <3>1. b \in 1 .. b
      BY <2>2
    <3> QED
      BY <3>1
  <2> QED
    BY <2>1, <2>2
<1> QED
  BY <1>1, <1>2

LEMMA SequenceOf ==
  ASSUME NEW n \in Nat, NEW f, DOMAIN f = 1 .. n
  PROVE  /\ IsSequence([i \in 1 .. n |-> f[i]]) /\ Len([i \in 1 .. n |-> f[i]]) = n
<1> DEFINE g == [i \in 1 .. n |-> f[i]]
           S == {f[i] : i \in 1 .. n}
<1>1. g \in [1 .. n -> S]
  OBVIOUS
<1>2. g \in Seq(S)
  BY <1>1, SeqDef
<1> HIDE DEF S
<1>3. DOMAIN g = 1 .. Len(g) /\ Len(g) \in Nat /\ DOMAIN g = 1 .. n
  BY <1>2, LenProperties
<1> HIDE DEF g
<1>4. Len(g) = n
  BY <1>3, SameLength
<1> QED
  BY <1>2, <1>4 DEF IsSequence, g

-----------------------------------------------------------------------------
(* Names.                                                                  *)

Distinct == \A i, j \in DOMAIN chain : chain[i].name = chain[j].name => i = j

LEMMA UniqueNames ==
  ASSUME IsSequence(chain)
  PROVE  HasUniqueNames <=> Distinct
<1>1. Len(chain) \in Nat /\ DOMAIN chain = 1 .. Len(chain)
  BY SequenceFacts
<1> DEFINE n == Len(chain)
           f == [i \in 1 .. n |-> chain[i].name]
<1>2. f \in Surjection(1 .. n, StageNames)
  BY <1>1 DEF Surjection, StageNames
<1>3. IsFiniteSet(1 .. n) /\ Cardinality(1 .. n) = n
  <2>1. 1 \in Int /\ n \in Int
    BY <1>1
  <2>2. IsFiniteSet(1 .. n) /\ Cardinality(1 .. n) = IF 1 > n THEN 0 ELSE (n - 1) + 1
    BY <2>1, FS_Interval
  <2> QED
    BY <1>1, <2>2
<1>4. f \in Injection(1 .. n, StageNames) <=> Distinct
  <2>1. f \in [1 .. n -> StageNames]
    BY <1>2 DEF Surjection
  <2>2. f \in Injection(1 .. n, StageNames) <=> \A i, j \in 1 .. n : f[i] = f[j] => i = j
    BY <2>1 DEF Injection, IsInjective
  <2>3. \A i \in 1 .. n : f[i] = chain[i].name
    OBVIOUS
  <2> QED
    BY <1>1, <2>2, <2>3 DEF Distinct
<1> HIDE DEF f
<1>5. Cardinality(StageNames) = Cardinality(1 .. n) <=> f \in Injection(1 .. n, StageNames)
  BY <1>2, <1>3, FS_Surjection
<1> QED
  BY <1>3, <1>4, <1>5 DEF HasUniqueNames

LEMMA IndexOfName ==
  ASSUME Distinct, NEW i \in DOMAIN chain
  PROVE  IndexOf(chain[i].name) = i /\ StageNamed(chain[i].name) = chain[i] /\ chain[i].name \in StageNames
<1>1. IndexOf(chain[i].name) = i
  BY DEF IndexOf, Distinct
<1> QED
  BY <1>1 DEF StageNamed, StageNames

-----------------------------------------------------------------------------
(* Stages.                                                                 *)

LEMMA KindIsKnown ==
  ASSUME NEW stage, KindOf(stage) # NoStage
  PROVE  FromStageName(stage.name) = KindOf(stage) /\ KindOf(stage).routine \in DOMAIN Routines
<1> DEFINE k == stage.name[1]
<1>1. k \in {"prompt_merge_seed", "prompt_merge", "prompt_prepare", "input_embedding",
             "prefill_prepare_aux", "decode_aux", "prefill_range", "decode_range",
             "prefill_finalize", "decode_finalize", "decode_init", "decode_select",
             "decode_embed", "output_finalize"}
  BY DEF KindOf, FromStageSpec, Project, HasLayer
<1>2. CASE k \in {"prompt_merge_seed", "prompt_merge", "prompt_prepare", "input_embedding"}
  BY <1>2 DEF KindOf, FromStageSpec, Project, FromStageName, Stage, Routines
<1>3. CASE k \in {"prefill_prepare_aux", "decode_aux", "prefill_range", "decode_range"}
  BY <1>3 DEF KindOf, FromStageSpec, Project, FromStageName, Stage, Routines, HasLayer
<1>4. CASE k \in {"prefill_finalize", "decode_finalize", "decode_init", "decode_select",
             "decode_embed", "output_finalize"}
  BY <1>4 DEF KindOf, FromStageSpec, Project, FromStageName, Stage, Routines
<1> QED
  BY <1>1, <1>2, <1>3, <1>4

(* What a value is converted to has all of its fields.                     *)
LEMMA ConvertedIsFields ==
  ASSUME NEW stage, KindOf(stage) # NoStage, NEW as, Converted(Value(stage), as) # {}
  PROVE  Converted(Value(stage), as) = {Value(stage).fields}
<1> DEFINE type == Routines[KindOf(stage).routine].value
           fields == Computed(type, stage.name)
           v == Value(stage)
<1>1. v.type = type /\ v.fields = fields
  BY DEF Value
<1>2. type \in ActivationTypes =>
        /\ AuxActivations(fields) = fields /\ RangeActivations(fields) = fields
        /\ FinalizeActivations(fields) = fields
  <2> SUFFICES ASSUME type \in ActivationTypes
               PROVE  /\ AuxActivations(fields) = fields /\ RangeActivations(fields) = fields
                      /\ FinalizeActivations(fields) = fields
    OBVIOUS
  <2>1. fields = [f \in {"rows", "errors", "kv", "start_position"} |-> <<stage.name, f>>]
    <3> HIDE DEF type
    <3>1. Fields(type) = {"rows", "errors", "kv", "start_position"}
      BY DEF Fields, ActivationTypes
    <3> QED
      BY <3>1 DEF Computed
  <2> HIDE DEF fields
  <2> QED
    BY <2>1 DEF AuxActivations, RangeActivations, FinalizeActivations
<1>3. type = "PromptTokenization" => [token_ids |-> fields.token_ids] = fields
  <2> SUFFICES ASSUME type = "PromptTokenization" PROVE [token_ids |-> fields.token_ids] = fields
    OBVIOUS
  <2>1. fields = [f \in {"token_ids"} |-> <<stage.name, f>>]
    BY DEF Computed, Fields, ActivationTypes
  <2> HIDE DEF fields
  <2> QED
    BY <2>1
<1>4. type = "PleLayerInputs" => RangePle(fields) = fields
  <2> SUFFICES ASSUME type = "PleLayerInputs" PROVE RangePle(fields) = fields
    OBVIOUS
  <2>1. fields = [f \in {"layer_idx", "rows", "errors"} |-> <<stage.name, f>>]
    BY DEF Computed, Fields, ActivationTypes
  <2> HIDE DEF fields
  <2> QED
    BY <2>1 DEF RangePle
<1>5. type = "PrefillLogits" => Logits(fields) = fields
  <2> SUFFICES ASSUME type = "PrefillLogits" PROVE Logits(fields) = fields
    OBVIOUS
  <2>1. fields = [f \in {"decode_position", "logits", "errors"} |-> <<stage.name, f>>]
    BY DEF Computed, Fields, ActivationTypes
  <2> HIDE DEF fields
  <2> QED
    BY <2>1 DEF Logits
<1>6. type = "DecodeEdge" => Edge(fields) = fields
  <2> SUFFICES ASSUME type = "DecodeEdge" PROVE Edge(fields) = fields
    OBVIOUS
  <2>1. fields = [f \in {"has_selected", "decode_position", "token_id", "value", "generated_token_ids"} |->
                    <<stage.name, f>>]
    BY DEF Computed, Fields, ActivationTypes
  <2> HIDE DEF fields
  <2> QED
    BY <2>1 DEF Edge
<1> HIDE DEF type, fields
<1> HIDE DEF v
<1>8. Converted(v, as) = {fields}
  BY <1>1, <1>2, <1>3, <1>4, <1>5, <1>6 DEF Converted, v
<1> QED
  BY <1>1, <1>8 DEF v

LEMMA RoutineParams ==
  ASSUME NEW r \in DOMAIN Routines
  PROVE  DOMAIN Params(r) \cap ModelParams(r) = {}
<1>1. r \in {"prompt_merge", "prompt_prepare", "input_embedding", "prefill_prepare_aux", "prefill_range",
             "prefill_finalize", "decode_init", "decode_select_token", "decode_embed", "output_finalize"}
  BY DEF Routines
<1>2. CASE r = "prompt_merge"
  <2>1. Routines[r] = PromptMerge
    BY <1>2 DEF Routines
  <2> QED
    BY <2>1 DEF Params, ModelParams, PromptMerge
<1>3. CASE r = "prompt_prepare"
  <2>1. Routines[r] = PromptPrepare
    BY <1>3 DEF Routines
  <2> QED
    BY <2>1 DEF Params, ModelParams, PromptPrepare
<1>4. CASE r = "input_embedding"
  <2>1. Routines[r] = InputEmbedding
    BY <1>4 DEF Routines
  <2> QED
    BY <2>1 DEF Params, ModelParams, InputEmbedding
<1>5. CASE r = "prefill_prepare_aux"
  <2>1. Routines[r] = PrefillPrepareAux
    BY <1>5 DEF Routines
  <2> QED
    BY <2>1 DEF Params, ModelParams, PrefillPrepareAux
<1>6. CASE r = "prefill_range"
  <2>1. Routines[r] = PrefillRange
    BY <1>6 DEF Routines
  <2> QED
    BY <2>1 DEF Params, ModelParams, PrefillRange
<1>7. CASE r = "prefill_finalize"
  <2>1. Routines[r] = PrefillFinalize
    BY <1>7 DEF Routines
  <2> QED
    BY <2>1 DEF Params, ModelParams, PrefillFinalize
<1>8. CASE r = "decode_init"
  <2>1. Routines[r] = DecodeInitRoutine
    BY <1>8 DEF Routines
  <2> QED
    BY <2>1 DEF Params, ModelParams, DecodeInitRoutine
<1>9. CASE r = "decode_select_token"
  <2>1. Routines[r] = DecodeSelectToken
    BY <1>9 DEF Routines
  <2> QED
    BY <2>1 DEF Params, ModelParams, DecodeSelectToken
<1>10. CASE r = "decode_embed"
  <2>1. Routines[r] = DecodeEmbed
    BY <1>10 DEF Routines
  <2> QED
    BY <2>1 DEF Params, ModelParams, DecodeEmbed
<1>11. CASE r = "output_finalize"
  <2>1. Routines[r] = OutputFinalize
    BY <1>11 DEF Routines
  <2> QED
    BY <2>1 DEF Params, ModelParams, OutputFinalize
<1> QED
  BY <1>1, <1>2, <1>3, <1>4, <1>5, <1>6, <1>7, <1>8, <1>9, <1>10, <1>11

-----------------------------------------------------------------------------
(* The invariants of the uncheckpointed run.                               *)

HasStarted == infer \in {"running", "wave", "done"}
StartedInv ==
  /\ infer \in {"none", "refused", "failed", "killed", "running", "wave", "done"}
  /\ infer = "none" => cause = "none"
  /\ infer # "none" => phase = "expanded"
  /\ HasStarted => IsSupported /\ Distinct
  /\ at \in 1 .. (Len(chain) + 1)
  /\ ~HasStarted => at = 1
  /\ infer = "done" => at = Len(chain) + 1

(* What is kept in memory is what the stages so far have computed.         *)
StoreInv ==
  /\ commitments = [i \in 1 .. (at - 1) |-> chain[i].name]
  /\ DOMAIN values = {chain[i].name : i \in 1 .. (at - 1)}
  /\ \A i \in 1 .. (at - 1) :
       values[chain[i].name] = [commitment |-> chain[i].name, value |-> Value(chain[i])]

ReadsTheChain(i) ==
  /\ loaded[i] = Bindings(chain[i])
  /\ \A p \in Producers(chain[i]) : Producer(chain[i], p) < i
LoadedInv == DOMAIN loaded = 1 .. (at - 1) /\ \A i \in 1 .. (at - 1) : ReadsTheChain(i)

WaveInv ==
  infer = "wave" =>
    /\ at <= Len(chain) /\ AuxWaveRange(at) # {}
    /\ parallelism \in 1 .. Cardinality(AuxWaveRange(at))
    /\ cause = "none" =>
         /\ DOMAIN jobs = AuxWaveRange(at)
         /\ \A i \in DOMAIN jobs : jobs[i] = "done" => CanLoad(chain[i])

LEMMA LoadIsBinding ==
  ASSUME IsSequence(chain), Distinct, IsSupported, StoreInv, at \in 1 .. (Len(chain) + 1),
         NEW k \in at .. Len(chain), CanLoad(chain[k])
  PROVE  /\ Load(chain[k]) = Bindings(chain[k])
         /\ \A p \in Producers(chain[k]) : Producer(chain[k], p) \in 1 .. (at - 1)
<1> DEFINE stage == chain[k]
           r == KindOf(stage).routine
           P == DOMAIN Params(r)
           M == ModelParams(r)
<1>1. Len(chain) \in Nat /\ DOMAIN chain = 1 .. Len(chain)
  BY SequenceFacts
<1>2. k \in DOMAIN chain /\ k \in Nat /\ at \in Nat /\ at - 1 <= Len(chain)
  BY <1>1
<1>3. r \in DOMAIN Routines
  BY <1>2, KindIsKnown DEF IsSupported
<1>4. P \cap M = {}
  <2> HIDE DEF r
  <2> QED
    BY <1>3, RoutineParams
<1>5. /\ InputsReady(stage)
      /\ \A p \in P : Loads(stage, p) # {}
      /\ \A p \in M : ModelFile(stage, p) # {}
  BY DEF CanLoad
<1>6. \A p \in Producers(stage) : Producer(stage, p) \in 1 .. (at - 1)
  BY <1>5 DEF InputsReady, StoreInv
<1>7. ASSUME NEW p, ModelFile(stage, p) # {}
      PROVE  /\ stage.inputs[p].how = "external"
             /\ (CHOOSE w \in ModelFile(stage, p) : TRUE) = stage.inputs[p].name
             /\ ModelFile(stage, p) = {stage.inputs[p].name}
             /\ p \notin Producers(stage)
  <2> HIDE DEF stage
  <2>1. stage.inputs[p].how = "external" /\ ModelFile(stage, p) = {stage.inputs[p].name}
    BY <1>7 DEF ModelFile
  <2>2. p \notin Producers(stage)
    BY <2>1 DEF Producers
  <2> QED
    BY <2>1, <2>2
<1>8. ASSUME NEW p \in P, p \in CachedParams(stage)
      PROVE  /\ stage.inputs[p].how = "from"
             /\ Loads(stage, p) = {Value(StageNamed(stage.inputs[p].name)).fields}
  <2>1. stage.inputs[p].how = "from" /\ stage.inputs[p].name \in DOMAIN values
    BY <1>8 DEF CachedParams, Producers
  <2>2. PICK j \in 1 .. (at - 1) : stage.inputs[p].name = chain[j].name
    BY <2>1 DEF StoreInv
  <2>3. j \in DOMAIN chain
    BY <1>1, <1>2
  <2>4. StageNamed(stage.inputs[p].name) = chain[j] /\ KindOf(chain[j]) # NoStage
    BY <2>2, <2>3, IndexOfName DEF IsSupported
  <2>5. Cached(stage, p) = Value(chain[j])
    <3>1. values[chain[j].name] = [commitment |-> chain[j].name, value |-> Value(chain[j])]
      BY <2>2 DEF StoreInv
    <3>2. values[stage.inputs[p].name].value = Value(chain[j])
      BY <2>2, <3>1
    <3> QED
      BY <3>2 DEF Cached
  <2> DEFINE as == Params(KindOf(stage).routine)[p]
  <2>6. Loads(stage, p) = Converted(Value(chain[j]), as)
    BY <1>8, <2>5 DEF Loads
  <2> HIDE DEF as
  <2>7. Converted(Value(chain[j]), as) = {Value(chain[j]).fields}
    BY <1>5, <2>4, <2>6, ConvertedIsFields
  <2> QED
    BY <2>1, <2>4, <2>6, <2>7
<1> DEFINE Chosen(p) == CHOOSE v \in Loads(stage, p) : TRUE
           Named(p) == CHOOSE w \in ModelFile(stage, p) : TRUE
           Bind(p) == LET name == stage.inputs[p].name
                      IN  IF stage.inputs[p].how = "external" THEN name ELSE Value(StageNamed(name)).fields
<1>9. ASSUME NEW p \in P PROVE Chosen(p) = Bind(p)
  <2>1. CASE p \in CachedParams(stage)
    <3>1. stage.inputs[p].how = "from"
          /\ Loads(stage, p) = {Value(StageNamed(stage.inputs[p].name)).fields}
      BY <1>8, <2>1
    <3>2. Bind(p) = Value(StageNamed(stage.inputs[p].name)).fields
      BY <3>1
    <3> HIDE DEF Bind, stage
    <3> QED
      BY <3>1, <3>2
  <2>2. CASE p \notin CachedParams(stage)
    <3>1. Loads(stage, p) = ModelFile(stage, p)
      BY <2>2 DEF Loads
    <3>2. ModelFile(stage, p) # {}
      BY <1>5, <3>1
    <3>3. Chosen(p) = stage.inputs[p].name /\ stage.inputs[p].how = "external"
      BY <1>7, <3>1, <3>2
    <3> HIDE DEF Chosen
    <3> QED
      BY <3>3
  <2> QED
    BY <2>1, <2>2
<1>10. ASSUME NEW p \in M PROVE Named(p) = Bind(p)
  <2>1. Named(p) = stage.inputs[p].name /\ stage.inputs[p].how = "external"
    BY <1>5, <1>7
  <2> HIDE DEF Named
  <2> QED
    BY <2>1
<1>11. Load(stage) = Extended([p \in P |-> Chosen(p)], [p \in M |-> Named(p)])
  BY Zenon DEF Load
<1>12. Bindings(stage) = [p \in P \cup M |-> Bind(p)]
  BY Zenon DEF Bindings
<1> HIDE DEF Chosen, Named, Bind, P, M
<1>13. Load(stage) = [p \in P \cup M |-> IF p \in M THEN Named(p) ELSE Chosen(p)]
  BY <1>4, <1>11 DEF Extended
<1>14. \A p \in P \cup M : (IF p \in M THEN Named(p) ELSE Chosen(p)) = Bind(p)
  BY <1>9, <1>10
<1>15. Load(stage) = Bindings(stage)
  BY <1>12, <1>13, <1>14
<1> QED
  BY <1>6, <1>15

LEMMA ReadsStay ==
  ASSUME chain' = chain, NEW i, loaded'[i] = loaded[i], ReadsTheChain(i)
  PROVE  ReadsTheChain(i)'
<1> DEFINE Prod(p) == IndexOf(chain[i].inputs[p].name)
<1>1. Bindings(chain[i])' = Bindings(chain[i])
  BY DEF Bindings, StageNamed, IndexOf
<1>2. Producers(chain[i])' = Producers(chain[i])
  BY DEF Producers
<1>3. \A p : Producer(chain[i], p)' = Producer(chain[i], p)
  BY DEF Producer, IndexOf
<1> QED
  BY <1>1, <1>2, <1>3 DEF ReadsTheChain

LEMMA Stored ==
  ASSUME IsSequence(chain), Distinct, IsSupported, StoreInv, LoadedInv, at \in 1 .. (Len(chain) + 1),
         NEW e \in at .. Len(chain), \A i \in at .. e : CanLoad(chain[i]),
         Store(at .. e), at' = e + 1, chain' = chain
  PROVE  StoreInv' /\ LoadedInv' /\ lastOutput' = Value(chain[e])
<1>1. Len(chain) \in Nat /\ DOMAIN chain = 1 .. Len(chain)
  BY SequenceFacts
<1> DEFINE N == Len(chain)
           range == at .. e
<1>2. at \in Nat /\ e \in Nat /\ at <= e /\ at >= 1 /\ N \in Nat /\ at' \in Nat /\ e <= N
  BY <1>1
<1>3. /\ commitments' = Extended(commitments, [i \in range |-> chain[i].name])
      /\ values' = Extended(values, [n \in {chain[i].name : i \in range} |->
                                       [commitment |-> n, value |-> Value(StageNamed(n))]])
      /\ lastOutput' = LET last == CHOOSE i \in range : \A j \in range : j <= i IN Value(chain[last])
      /\ loaded' = Extended(loaded, [i \in range |-> Load(chain[i])])
  BY DEF Store
<1>4. 1 .. (at' - 1) = (1 .. (at - 1)) \cup range /\ (1 .. (at - 1)) \cap range = {}
      /\ range \subseteq 1 .. N /\ 1 .. (at' - 1) = 1 .. e
  BY <1>2
<1> HIDE DEF N, range
<1>5. commitments' = [i \in 1 .. (at' - 1) |-> chain[i].name]
  <2>1. commitments = [i \in 1 .. (at - 1) |-> chain[i].name]
    BY DEF StoreInv
  <2> DEFINE f == [i \in range |-> chain[i].name]
  <2>2. DOMAIN commitments \cup DOMAIN f = 1 .. (at' - 1)
    BY <1>4, <2>1
  <2>3. commitments' = [i \in DOMAIN commitments \cup DOMAIN f |-> IF i \in DOMAIN f THEN f[i] ELSE commitments[i]]
    BY <1>3 DEF Extended
  <2>4. \A i \in 1 .. (at' - 1) : (IF i \in DOMAIN f THEN f[i] ELSE commitments[i]) = chain[i].name
    BY <1>4, <2>1
  <2> HIDE DEF f
  <2> QED
    BY <2>2, <2>3, <2>4
<1>6. /\ DOMAIN values' = {chain[i].name : i \in 1 .. (at' - 1)}
      /\ \A i \in 1 .. (at' - 1) :
           values'[chain[i].name] = [commitment |-> chain[i].name, value |-> Value(chain[i])]
  <2> DEFINE New == {chain[i].name : i \in range}
             g == [n \in New |-> [commitment |-> n, value |-> Value(StageNamed(n))]]
  <2>1. DOMAIN g = New
    OBVIOUS
  <2>2. values' = [n \in DOMAIN values \cup DOMAIN g |-> IF n \in DOMAIN g THEN g[n] ELSE values[n]]
    BY <1>3 DEF Extended
  <2>3. \A i \in range : g[chain[i].name] = [commitment |-> chain[i].name, value |-> Value(chain[i])]
    <3> SUFFICES ASSUME NEW i \in range
                 PROVE  g[chain[i].name] = [commitment |-> chain[i].name, value |-> Value(chain[i])]
      OBVIOUS
    <3>1. chain[i].name \in New
      OBVIOUS
    <3>2. i \in DOMAIN chain
      BY <1>1, <1>4 DEF N
    <3>3. StageNamed(chain[i].name) = chain[i]
      BY <3>2, IndexOfName
    <3>4. g[chain[i].name] = [commitment |-> chain[i].name, value |-> Value(StageNamed(chain[i].name))]
      BY <3>1
    <3> QED
      BY <3>3, <3>4
  <2> HIDE DEF g
  <2>4. /\ DOMAIN values = {chain[i].name : i \in 1 .. (at - 1)}
        /\ \A i \in 1 .. (at - 1) :
             values[chain[i].name] = [commitment |-> chain[i].name, value |-> Value(chain[i])]
    BY DEF StoreInv
  <2>5. DOMAIN values' = {chain[i].name : i \in 1 .. (at' - 1)}
    BY <1>4, <2>1, <2>2, <2>4
  <2>6. ASSUME NEW i \in 1 .. (at' - 1)
        PROVE  values'[chain[i].name] = [commitment |-> chain[i].name, value |-> Value(chain[i])]
    <3>1. chain[i].name \in DOMAIN values \cup DOMAIN g
      BY <1>4, <2>1, <2>4
    <3>2. CASE i \in range
      BY <2>1, <2>2, <2>3, <3>1, <3>2
    <3>3. CASE i \notin range
      <4>1. i \in 1 .. (at - 1) /\ i \in DOMAIN chain
        BY <1>1, <1>2, <1>4, <3>3
      <4>2. \A j \in range : chain[j].name # chain[i].name
        BY <1>1, <1>4, <3>3, <4>1 DEF Distinct, N
      <4>3. chain[i].name \notin DOMAIN g
        BY <2>1, <4>2
      <4> QED
        BY <2>2, <2>4, <3>1, <4>1, <4>3
    <3> QED
      BY <3>2, <3>3
  <2> QED
    BY <2>5, <2>6
<1>7. StoreInv'
  <2>1. \A i : Value(chain[i])' = Value(chain[i])
    BY DEF Value, KindOf
  <2> QED
    BY <1>5, <1>6, <2>1 DEF StoreInv
<1>8. LoadedInv'
  <2> DEFINE h == [i \in range |-> Load(chain[i])]
  <2>1. DOMAIN h = range /\ \A i \in range : h[i] = Load(chain[i])
    OBVIOUS
  <2>2. loaded' = [i \in DOMAIN loaded \cup DOMAIN h |-> IF i \in DOMAIN h THEN h[i] ELSE loaded[i]]
    BY <1>3 DEF Extended
  <2> HIDE DEF h
  <2>3. DOMAIN loaded' = 1 .. (at' - 1)
    BY <1>4, <2>1, <2>2 DEF LoadedInv
  <2>4. ASSUME NEW i \in 1 .. (at' - 1) PROVE ReadsTheChain(i)'
    <3>1. CASE i \in range
      <4>1. i \in at .. Len(chain) /\ CanLoad(chain[i]) /\ i \in Nat
        BY <1>1, <1>2, <3>1 DEF range, N
      <4>2. /\ Load(chain[i]) = Bindings(chain[i])
            /\ \A p \in Producers(chain[i]) : Producer(chain[i], p) \in 1 .. (at - 1)
        BY <4>1, LoadIsBinding
      <4>3. loaded'[i] = Bindings(chain[i])
        BY <2>1, <2>2, <3>1, <4>2
      <4>4. \A p \in Producers(chain[i]) : Producer(chain[i], p) < i
        BY <1>2, <4>1, <4>2
      <4>5. Bindings(chain[i])' = Bindings(chain[i])
        BY DEF Bindings, StageNamed, IndexOf
      <4>6. Producers(chain[i])' = Producers(chain[i])
        BY DEF Producers
      <4>7. \A p : Producer(chain[i], p)' = Producer(chain[i], p)
        BY DEF Producer, IndexOf
      <4> QED
        BY <4>3, <4>4, <4>5, <4>6, <4>7 DEF ReadsTheChain
    <3>2. CASE i \notin range
      <4>1. i \in 1 .. (at - 1)
        BY <1>4, <3>2
      <4>2. ReadsTheChain(i) /\ i \in DOMAIN loaded
        BY <4>1 DEF LoadedInv
      <4>3. loaded'[i] = loaded[i]
        BY <2>1, <2>2, <3>2, <4>2
      <4> QED
        BY <4>2, <4>3, ReadsStay
    <3> QED
      BY <3>1, <3>2
  <2> QED
    BY <2>3, <2>4 DEF LoadedInv
<1>9. lastOutput' = Value(chain[e])
  <2>1. (CHOOSE i \in range : \A j \in range : j <= i) = e
    BY <1>2 DEF range
  <2> QED
    BY <1>3, <2>1
<1> QED
  BY <1>7, <1>8, <1>9

(* The report lists the stages so far, and the waves among them.           *)
WaveIsWhole(w) ==
  /\ w.first \in Nat /\ w.count \in Nat /\ w.count > 1
  /\ w.parallelism \in 1 .. w.count
  /\ w.first + w.count <= at
  /\ IsAuxStage(chain[(w.first + w.count) - 1])
  /\ w.first + w.count <= Len(chain) => ~IsAuxStage(chain[w.first + w.count])
ReportInv ==
  /\ report = [i \in 1 .. (at - 1) |-> i]
  /\ at > 1 => lastOutput = Value(chain[at - 1])
  /\ at = 1 => lastOutput = Nothing
  /\ IsSequence(waves)
  /\ {waves[w].first : w \in DOMAIN waves} = {i \in AuxRuns : i < at}
  /\ \A w \in DOMAIN waves : WaveIsWhole(waves[w])
  /\ (at > 1 /\ at <= Len(chain)) => ~(IsAuxStage(chain[at - 1]) /\ IsAuxStage(chain[at]))

EndInv ==
  /\ wanted \in Nat
  /\ ~HasStarted => /\ commitments = Empty /\ values = Empty /\ loaded = Empty
                    /\ report = <<>> /\ waves = <<>> /\ lastOutput = Nothing
  /\ infer \in {"running", "done"} => cause = "none"
  /\ infer = "done" => lastOutput.type = "GeneratedOutput"
  /\ staging => infer \in {"running", "wave", "killed"}

RunInv == StoreInv /\ LoadedInv /\ ReportInv
InferInv == IsSequence(chain) /\ StartedInv /\ RunInv /\ WaveInv /\ EndInv

LEMMA StagesStay ==
  ASSUME chain' = chain
  PROVE  /\ IsSupported' <=> IsSupported
         /\ Distinct' <=> Distinct
         /\ \A i : AuxWaveRange(i)' = AuxWaveRange(i)
         /\ AuxRuns' = AuxRuns
         /\ \A i : IsAuxStage(chain[i])' <=> IsAuxStage(chain[i])
         /\ \A i : Value(chain[i])' = Value(chain[i])
<1>1. IsSupported' <=> IsSupported
  BY DEF IsSupported, KindOf
<1>2. Distinct' <=> Distinct
  BY DEF Distinct
<1>3. \A i : IsAuxStage(chain[i])' <=> IsAuxStage(chain[i])
  BY DEF IsAuxStage, KindOf
<1>4. \A i : Value(chain[i])' = Value(chain[i])
  BY DEF Value, KindOf
<1>5. \A i : AuxWaveRange(i)' = AuxWaveRange(i)
  <2> SUFFICES ASSUME NEW i PROVE AuxWaveRange(i)' = AuxWaveRange(i)
    OBVIOUS
  <2> QED
    BY DEF AuxWaveRange, IsAuxStage, KindOf
<1>6. AuxRuns' = AuxRuns
  BY DEF AuxRuns, IsAuxStage, KindOf
<1> QED
  BY <1>1, <1>2, <1>3, <1>4, <1>5, <1>6

LEMMA RunStays ==
  ASSUME chain' = chain, at' = at, UNCHANGED storeVars, waves' = waves, RunInv
  PROVE  RunInv'
<1>1. UNCHANGED <<commitments, values, lastOutput, report, loaded>>
  BY DEF storeVars
<1>2. StoreInv'
  BY <1>1, StagesStay DEF RunInv, StoreInv
<1>3. LoadedInv'
  <2>1. \A i \in 1 .. (at - 1) : ReadsTheChain(i)'
    <3> SUFFICES ASSUME NEW i \in 1 .. (at - 1) PROVE ReadsTheChain(i)'
      OBVIOUS
    <3>1. ReadsTheChain(i) /\ loaded'[i] = loaded[i]
      BY <1>1 DEF RunInv, LoadedInv
    <3> QED
      BY <3>1, ReadsStay
  <2> QED
    BY <1>1, <2>1 DEF RunInv, LoadedInv
<1>4. ReportInv'
  <2>1. AuxRuns' = AuxRuns
    BY StagesStay
  <2>2. \A i : IsAuxStage(chain[i])' <=> IsAuxStage(chain[i])
    BY StagesStay
  <2>3. \A i : Value(chain[i])' = Value(chain[i])
    BY StagesStay
  <2>4. \A w \in DOMAIN waves : WaveIsWhole(waves[w])'
    <3> SUFFICES ASSUME NEW w \in DOMAIN waves PROVE WaveIsWhole(waves[w])'
      OBVIOUS
    <3>1. WaveIsWhole(waves[w])
      BY DEF RunInv, ReportInv
    <3> QED
      BY <1>1, <2>2, <3>1 DEF WaveIsWhole
  <2> QED
    BY <1>1, <2>1, <2>2, <2>3, <2>4 DEF RunInv, ReportInv
<1> QED
  BY <1>2, <1>3, <1>4 DEF RunInv

LEMMA NothingRead ==
  ASSUME IsSequence(chain), IsSequence(chain')
  PROVE
  /\ (at = 1 /\ commitments = Empty /\ values = Empty /\ loaded = Empty /\ report = <<>> /\ waves = <<>>
      /\ lastOutput = Nothing) => RunInv
  /\ (at = 1 /\ commitments = Empty /\ values = Empty /\ loaded = Empty /\ report = <<>> /\ waves = <<>>
      /\ lastOutput = Nothing)' => RunInv'
<1>1. 1 .. 0 = {} /\ <<>> = [i \in {} |-> i] /\ DOMAIN <<>> = {} /\ IsSequence(<<>>)
  <2>1. IsSequence(<<>>)
    BY EmptySeq DEF IsSequence
  <2> QED
    BY <2>1
<1>2. DOMAIN Empty = {}
  BY DEF Empty
<1>3. ASSUME at = 1, commitments = Empty, values = Empty, loaded = Empty, report = <<>>, waves = <<>>, lastOutput = Nothing
      PROVE  RunInv
  <2>1. StoreInv
    BY <1>1, <1>2, <1>3 DEF StoreInv, Empty
  <2>2. LoadedInv
    BY <1>1, <1>2, <1>3 DEF LoadedInv
  <2>3. ReportInv
    <3>1. {i \in AuxRuns : i < 1} = {}
      BY SequenceFacts DEF AuxRuns
    <3> QED
      BY <1>1, <1>3, <3>1 DEF ReportInv
  <2> QED
    BY <2>1, <2>2, <2>3 DEF RunInv
<1>4. ASSUME (at = 1)', (commitments = Empty)', (values = Empty)', (loaded = Empty)', (report = <<>>)',
             (waves = <<>>)', (lastOutput = Nothing)'
      PROVE  RunInv'
  <2>1. StoreInv'
    BY <1>1, <1>2, <1>4 DEF StoreInv, Empty
  <2>2. LoadedInv'
    BY <1>1, <1>2, <1>4 DEF LoadedInv
  <2>3. ReportInv'
    <3>1. {i \in AuxRuns' : i < 1} = {}
      <4>1. DOMAIN (chain') = 1 .. Len(chain')
        BY SequenceFacts
      <4> QED
        BY <4>1 DEF AuxRuns
    <3> QED
      BY <1>1, <1>4, <3>1 DEF ReportInv
  <2> QED
    BY <2>1, <2>2, <2>3 DEF RunInv
<1> QED
  BY <1>3, <1>4

-----------------------------------------------------------------------------
(* Each step keeps them.                                                   *)

LEMMA ExpansionKeepsSequence ==
  ASSUME IsSequence(chain), NextExpansion
  PROVE  IsSequence(chain')
<1>1. ASSUME NEW e, chain' = Append(chain, e) PROVE IsSequence(chain')
  BY <1>1, Longer
<1>2. CASE ResolveExports
  <2> DEFINE g(i) == [chain[i] EXCEPT !.inputs = [p \in DOMAIN chain[i].inputs |-> Resolved(chain[i].inputs[p])]]
             f == [i \in DOMAIN chain |-> g(i)]
  <2>1. chain' = f
    BY <1>2 DEF ResolveExports
  <2>2. Len(chain) \in Nat /\ DOMAIN f = 1 .. Len(chain)
    BY SequenceFacts
  <2> HIDE DEF g
  <2>3. f = [i \in 1 .. Len(chain) |-> f[i]]
    BY <2>2
  <2> HIDE DEF f
  <2>4. IsSequence([i \in 1 .. Len(chain) |-> f[i]])
    BY <2>2, SequenceOf
  <2> QED
    BY <2>1, <2>3, <2>4
<1>3. CASE chain' = chain
  BY <1>3
<1> QED
  BY <1>1, <1>2, <1>3 DEF NextExpansion, PushStage, PushRepeated, NextPart, NextIteration, EndRepeat, FailExpansion

LEMMA ExpansionKeepsInfer ==
  ASSUME InferInv, NextExpansion, UNCHANGED inferVars
  PROVE  InferInv'
<1>1. phase = "expand"
  BY DEF NextExpansion, PushStage, PushRepeated, NextPart, NextIteration, EndRepeat, FailExpansion,
         ResolveExports, AtItem, InPart
<1>2. infer = "none"
  BY <1>1 DEF InferInv, StartedInv
<1>3. IsSequence(chain) /\ IsSequence(chain')
  BY ExpansionKeepsSequence DEF InferInv
<1>4. UNCHANGED <<infer, cause, wanted, at, staging, waves, commitments, values, lastOutput, report, loaded>>
  BY DEF inferVars, storeVars
<1>5. ~HasStarted /\ ~HasStarted'
  BY <1>2, <1>4 DEF HasStarted
<1>6. at = 1 /\ at' = 1
  BY <1>4, <1>5 DEF InferInv, StartedInv
<1>7. RunInv'
  BY <1>3, <1>4, <1>5, <1>6, NothingRead DEF InferInv, EndInv
<1>8. WaveInv' /\ EndInv'
  BY <1>2, <1>4, <1>5 DEF InferInv, WaveInv, EndInv
<1>9. StartedInv'
  <2>1. Len(chain') \in Nat
    BY <1>3, SequenceFacts
  <2> QED
    BY <1>2, <1>4, <1>5, <1>6, <2>1 DEF InferInv, StartedInv
<1> QED
  BY <1>3, <1>7, <1>8, <1>9 DEF InferInv

LEMMA DroppedKeepsInfer ==
  ASSUME InferInv, UNCHANGED expansionVars, Dropped, infer' \in {"failed", "killed"}, infer # "none",
         staging' => infer' = "killed"
  PROVE  InferInv'
<1>1. chain' = chain /\ phase' = phase
  BY DEF expansionVars
<1>2. IsSequence(chain) /\ IsSequence(chain')
  BY <1>1 DEF InferInv
<1>3. /\ at' = 1 /\ wanted' = 0
      /\ commitments' = Empty /\ values' = Empty /\ lastOutput' = Nothing
      /\ report' = <<>> /\ waves' = <<>> /\ loaded' = Empty
  BY DEF Dropped
<1>4. ~HasStarted'
  BY DEF HasStarted
<1>5. RunInv'
  BY <1>2, <1>3, NothingRead
<1>6. WaveInv' /\ EndInv'
  BY <1>3, <1>4 DEF InferInv, WaveInv, EndInv
<1>7. StartedInv'
  <2>1. Len(chain') \in Nat
    BY <1>2, SequenceFacts
  <2> QED
    BY <1>1, <1>3, <1>4, <2>1 DEF InferInv, StartedInv
<1> QED
  BY <1>2, <1>5, <1>6, <1>7 DEF InferInv

LEMMA StartInferKeeps ==
  ASSUME InferInv, UNCHANGED expansionVars, StartInfer
  PROVE  InferInv'
<1>1. chain' = chain /\ phase' = phase /\ IsSequence(chain)
  BY DEF expansionVars, InferInv
<1>2. /\ at' = at /\ UNCHANGED storeVars /\ waves' = waves /\ infer = "none" /\ phase = "expanded"
  BY DEF StartInfer
<1>3. RunInv'
  BY <1>1, <1>2, RunStays DEF InferInv
<1>4. UNCHANGED <<commitments, values, lastOutput, report, loaded>> /\ at = 1 /\ ~HasStarted
  BY <1>2 DEF storeVars, HasStarted, InferInv, StartedInv
<1>5. CASE IsSupported /\ HasUniqueNames
  <2>1. infer' = "running" /\ staging' = TRUE /\ cause' = cause
        /\ \E requested \in Requested, available \in Available : wanted' = Wanted(requested, available)
    BY <1>5 DEF StartInfer
  <2>2. Distinct
    BY <1>1, <1>5, UniqueNames
  <2>3. IsSupported' /\ Distinct'
    BY <1>1, <1>5, <2>2, StagesStay
  <2>4. wanted' \in Nat
    <3>1. PICK requested \in Requested, available \in Available : wanted' = Wanted(requested, available)
      BY <2>1
    <3>2. requested \in Nat /\ available \in Nat
      BY ParallelismAssumption
    <3> QED
      BY <3>1, <3>2 DEF Wanted, Clamp
  <2>5. EndInv' /\ WaveInv'
    BY <1>2, <2>1, <2>4 DEF InferInv, EndInv, WaveInv, StartedInv, HasStarted
  <2>6. StartedInv'
    BY <1>1, <1>2, <2>1, <2>3 DEF InferInv, StartedInv, HasStarted
  <2> QED
    BY <1>1, <1>3, <2>5, <2>6 DEF InferInv
<1>6. CASE ~(IsSupported /\ HasUniqueNames)
  <2>1. infer' = "refused" /\ cause' = "chain" /\ staging' = staging /\ wanted' = wanted
    BY <1>6 DEF StartInfer
  <2>2. EndInv' /\ WaveInv'
    BY <1>2, <1>4, <2>1 DEF InferInv, EndInv, WaveInv, StartedInv, HasStarted
  <2>3. StartedInv'
    BY <1>1, <1>2, <1>4, <2>1 DEF InferInv, StartedInv, HasStarted
  <2> QED
    BY <1>1, <1>3, <2>2, <2>3 DEF InferInv
<1> QED
  BY <1>5, <1>6

LEMMA ReportOf ==
  ASSUME NEW a \in Nat, a >= 1, NEW k \in Nat, NEW r, r = [i \in 1 .. (a - 1) |-> i]
  PROVE  r \o [n \in 1 .. k |-> a + n - 1] = [i \in 1 .. ((a + k) - 1) |-> i]
<1> DEFINE t == [n \in 1 .. k |-> a + n - 1]
           u == [i \in 1 .. ((a + k) - 1) |-> i]
<1>1. IsSequence(r) /\ Len(r) = a - 1
  <2>1. a - 1 \in Nat /\ DOMAIN r = 1 .. (a - 1) /\ r = [i \in 1 .. (a - 1) |-> r[i]]
    OBVIOUS
  <2>2. IsSequence([i \in 1 .. (a - 1) |-> r[i]]) /\ Len([i \in 1 .. (a - 1) |-> r[i]]) = a - 1
    BY <2>1, SequenceOf
  <2> QED
    BY <2>1, <2>2
<1>2. IsSequence(t) /\ Len(t) = k
  <2>1. DOMAIN t = 1 .. k /\ t = [n \in 1 .. k |-> t[n]]
    OBVIOUS
  <2> HIDE DEF t
  <2>2. IsSequence([n \in 1 .. k |-> t[n]]) /\ Len([n \in 1 .. k |-> t[n]]) = k
    BY <2>1, SequenceOf
  <2> QED
    BY <2>1, <2>2
<1>3. IsSequence(u) /\ Len(u) = (a + k) - 1 /\ DOMAIN u = 1 .. ((a + k) - 1)
  <2>1. (a + k) - 1 \in Nat /\ DOMAIN u = 1 .. ((a + k) - 1) /\ u = [n \in 1 .. ((a + k) - 1) |-> u[n]]
    OBVIOUS
  <2> HIDE DEF u
  <2> DEFINE m == (a + k) - 1
  <2> HIDE DEF m
  <2>2. IsSequence([n \in 1 .. m |-> u[n]]) /\ Len([n \in 1 .. m |-> u[n]]) = m
    BY <2>1, SequenceOf DEF m
  <2> QED
    BY <2>1, <2>2 DEF m
<1>4. \A n \in 1 .. k : t[n] = a + n - 1
  OBVIOUS
<1>5. \A n \in 1 .. ((a + k) - 1) : u[n] = n
  OBVIOUS
<1> HIDE DEF t, u
<1>6. /\ IsSequence(r \o t) /\ Len(r \o t) = (a - 1) + k
      /\ \A i \in 1 .. ((a - 1) + k) : (r \o t)[i] = IF i <= a - 1 THEN r[i] ELSE t[i - (a - 1)]
  <2>1. IsSequence(r) /\ IsSequence(t)
    BY <1>1, <1>2
  <2>2. /\ IsSequence(r \o t)
        /\ Len(r \o t) = Len(r) + Len(t)
        /\ \A i \in 1 .. (Len(r) + Len(t)) : (r \o t)[i] = IF i <= Len(r) THEN r[i] ELSE t[i - Len(r)]
    BY <2>1, Joined
  <2> QED
    BY <1>1, <1>2, <2>2
<1>7. DOMAIN (r \o t) = 1 .. ((a + k) - 1) /\ Len(r \o t) = (a + k) - 1
  <2>1. DOMAIN (r \o t) = 1 .. Len(r \o t)
    BY <1>6, SequenceFacts
  <2> QED
    BY <1>6, <2>1
<1>8. \A i \in 1 .. ((a + k) - 1) : (r \o t)[i] = u[i]
  <2> SUFFICES ASSUME NEW i \in 1 .. ((a + k) - 1) PROVE (r \o t)[i] = u[i]
    OBVIOUS
  <2>1. i \in Nat /\ i \in 1 .. ((a - 1) + k)
    OBVIOUS
  <2>2. CASE i <= a - 1
    BY <1>5, <1>6, <2>1, <2>2
  <2>3. CASE ~(i <= a - 1)
    <3>1. i - (a - 1) \in 1 .. k
      BY <2>1, <2>3
    <3>2. t[i - (a - 1)] = i
      BY <1>4, <2>1, <3>1
    <3> QED
      BY <1>5, <1>6, <2>1, <2>3, <3>2
  <2> QED
    BY <2>2, <2>3
<1>9. r \o t = u
  <2>1. PICK S : r \o t \in Seq(S)
    BY <1>6 DEF IsSequence
  <2>2. PICK R : u \in Seq(R)
    BY <1>3 DEF IsSequence
  <2> DEFINE U == S \cup R
  <2>3. r \o t \in Seq(U)
    BY <2>1, SeqMonotonic
  <2>4. u \in Seq(U)
    BY <2>2, SeqMonotonic
  <2>5. Len(r \o t) = Len(u) /\ \A i \in 1 .. Len(r \o t) : (r \o t)[i] = u[i]
    BY <1>3, <1>7, <1>8
  <2> HIDE DEF U
  <2> QED
    BY <2>3, <2>4, <2>5, SeqEqual
<1> QED
  BY <1>9 DEF t, u

LEMMA RunStageKeeps ==
  ASSUME InferInv, UNCHANGED expansionVars, RunStage
  PROVE  InferInv'
<1>1. chain' = chain /\ phase' = phase /\ IsSequence(chain)
  BY DEF expansionVars, InferInv
<1>2. /\ infer = "running" /\ at <= Len(chain) /\ AuxWaveRange(at) = {}
      /\ CanLoad(chain[at]) /\ Store({at}) /\ at' = at + 1
      /\ UNCHANGED <<infer, cause, wanted, staging, waves>>
  BY DEF RunStage, AtStage
<1>3. Len(chain) \in Nat /\ DOMAIN chain = 1 .. Len(chain)
  BY <1>1, SequenceFacts
<1>4. at \in Nat /\ at \in 1 .. Len(chain) /\ IsSupported /\ Distinct /\ StoreInv /\ LoadedInv /\ ReportInv
  BY <1>2, <1>3 DEF InferInv, StartedInv, RunInv, HasStarted
<1>5. {at} = at .. at
  BY <1>4
<1>6. StoreInv' /\ LoadedInv' /\ lastOutput' = Value(chain[at])
  <2>1. Store(at .. at)
    BY <1>2, <1>5
  <2>2. at \in at .. Len(chain) /\ at \in 1 .. (Len(chain) + 1)
    BY <1>3, <1>4
  <2>3. \A i \in at .. at : CanLoad(chain[i])
    BY <1>2, <1>5
  <2> QED
    BY <1>1, <1>2, <1>4, <2>1, <2>2, <2>3, Stored
<1>7. at < Len(chain) => ~(IsAuxStage(chain[at]) /\ IsAuxStage(chain[at + 1]))
  BY <1>2, <1>3, <1>4, NoWave
<1>8. ReportInv'
  <2>1. AuxRuns' = AuxRuns /\ (\A i : IsAuxStage(chain[i])' <=> IsAuxStage(chain[i]))
        /\ \A i : Value(chain[i])' = Value(chain[i])
    BY <1>1, StagesStay
  <2>2. report' = [i \in 1 .. (at' - 1) |-> i]
    <3>1. report' = report \o [n \in 1 .. Cardinality({at}) |-> at + n - 1]
      BY <1>2 DEF Store
    <3>2. Cardinality({at}) = 1
      BY FS_Singleton
    <3>3. report = [i \in 1 .. (at - 1) |-> i]
      BY <1>4 DEF ReportInv
    <3>4. report \o [n \in 1 .. 1 |-> at + n - 1] = [i \in 1 .. ((at + 1) - 1) |-> i]
      <4>1. 1 \in Nat /\ at >= 1
        BY <1>4
      <4> QED
        BY <1>4, <3>3, <4>1, ReportOf
    <3> QED
      BY <1>2, <3>1, <3>2, <3>4
  <2>3. {i \in AuxRuns : i < at'} = {i \in AuxRuns : i < at}
    <3>1. at \notin AuxRuns
      BY <1>4, <1>7 DEF AuxRuns
    <3>2. \A i \in AuxRuns : i \in Nat
      BY <1>3 DEF AuxRuns
    <3> QED
      BY <1>2, <1>4, <3>1, <3>2
  <2>4. \A w \in DOMAIN waves : WaveIsWhole(waves[w])'
    <3> SUFFICES ASSUME NEW w \in DOMAIN waves PROVE WaveIsWhole(waves[w])'
      OBVIOUS
    <3>1. WaveIsWhole(waves[w])
      BY <1>4 DEF ReportInv
    <3> QED
      BY <1>1, <1>2, <1>3, <1>4, <2>1, <3>1 DEF WaveIsWhole
  <2>5. /\ at' > 1 => lastOutput' = Value(chain[at' - 1])
        /\ at' # 1
        /\ (at' > 1 /\ at' <= Len(chain)) => ~(IsAuxStage(chain[at' - 1]) /\ IsAuxStage(chain[at']))
    BY <1>2, <1>3, <1>4, <1>6, <1>7
  <2> QED
    BY <1>1, <1>2, <1>4, <2>1, <2>2, <2>3, <2>4, <2>5 DEF ReportInv
<1>9. StartedInv'
  <2>1. IsSupported' /\ Distinct'
    BY <1>1, <1>4, StagesStay
  <2> QED
    BY <1>1, <1>2, <1>3, <1>4, <2>1 DEF InferInv, StartedInv, HasStarted
<1>10. EndInv' /\ WaveInv'
  BY <1>2 DEF InferInv, EndInv, WaveInv, HasStarted
<1> QED
  BY <1>1, <1>6, <1>8, <1>9, <1>10 DEF InferInv, RunInv

LEMMA LoadableStays ==
  ASSUME chain' = chain, UNCHANGED <<commitments, values>>
  PROVE  \A i : CanLoad(chain[i])' <=> CanLoad(chain[i])
<1> SUFFICES ASSUME NEW i PROVE CanLoad(chain[i])' <=> CanLoad(chain[i])
  OBVIOUS
<1>1. InputsReady(chain[i])' <=> InputsReady(chain[i])
  BY DEF InputsReady, Producers, StageNames, Producer, IndexOf
<1>2. CachedParams(chain[i])' = CachedParams(chain[i])
  BY DEF CachedParams, Producers
<1>3. \A p : Producer(chain[i], p)' = Producer(chain[i], p)
  BY DEF Producer, IndexOf
<1>4. IsFresh(chain[i])' <=> IsFresh(chain[i])
  BY <1>2, <1>3 DEF IsFresh
<1>5. KindOf(chain[i])' = KindOf(chain[i])
  OBVIOUS
<1>6. \A p : ModelFile(chain[i], p)' = ModelFile(chain[i], p)
  OBVIOUS
<1>7. \A p : Cached(chain[i], p)' = Cached(chain[i], p)
  BY DEF Cached
<1>8. \A p : Loads(chain[i], p)' = Loads(chain[i], p)
  <2> SUFFICES ASSUME NEW p PROVE Loads(chain[i], p)' = Loads(chain[i], p)
    OBVIOUS
  <2> DEFINE as == Params(KindOf(chain[i]).routine)[p]
  <2>1. as' = as
    OBVIOUS
  <2>2. Loads(chain[i], p) = IF p \in CachedParams(chain[i]) THEN Converted(Cached(chain[i], p), as)
                             ELSE ModelFile(chain[i], p)
    BY DEF Loads
  <2>3. Loads(chain[i], p)' = IF p \in CachedParams(chain[i])' THEN Converted(Cached(chain[i], p)', as')
                              ELSE ModelFile(chain[i], p)'
    BY DEF Loads
  <2> HIDE DEF as
  <2>4. Cached(chain[i], p)' = Cached(chain[i], p) /\ ModelFile(chain[i], p)' = ModelFile(chain[i], p)
    BY <1>6, <1>7
  <2>5. CASE p \in CachedParams(chain[i])
    <3>1. Loads(chain[i], p)' = Converted(Cached(chain[i], p)', as')
      BY <1>2, <2>3, <2>5
    <3>2. Loads(chain[i], p) = Converted(Cached(chain[i], p), as)
      BY <2>2, <2>5
    <3> QED
      BY <2>1, <2>4, <3>1, <3>2
  <2>6. CASE p \notin CachedParams(chain[i])
    <3>1. Loads(chain[i], p)' = ModelFile(chain[i], p)'
      BY <1>2, <2>3, <2>6
    <3>2. Loads(chain[i], p) = ModelFile(chain[i], p)
      BY <2>2, <2>6
    <3> QED
      BY <2>4, <3>1, <3>2
  <2> QED
    BY <2>5, <2>6
<1> QED
  BY <1>1, <1>4, <1>8 DEF CanLoad

LEMMA WaveStepKeeps ==
  ASSUME InferInv, UNCHANGED expansionVars, StartJob \/ FinishJob \/ JobFails \/ JobIsAwaited
  PROVE  InferInv'
<1>1. chain' = chain /\ phase' = phase /\ IsSequence(chain)
  BY DEF expansionVars, InferInv
<1>2. infer = "wave" /\ UNCHANGED <<infer, wanted, at, staging, parallelism, storeVars, waves>>
  BY DEF StartJob, FinishJob, JobFails, JobIsAwaited, InWave
<1>3. UNCHANGED <<commitments, values, lastOutput, report, loaded>>
  BY <1>2 DEF storeVars
<1>4. RunInv'
  BY <1>1, <1>2, RunStays DEF InferInv
<1>5. StartedInv'
  <2>1. (IsSupported' <=> IsSupported) /\ (Distinct' <=> Distinct)
    BY <1>1, StagesStay
  <2> QED
    BY <1>1, <1>2, <2>1 DEF InferInv, StartedInv, HasStarted
<1>6. EndInv'
  BY <1>2, <1>3 DEF InferInv, EndInv, HasStarted
<1>7. WaveInv'
  <2>1. AuxWaveRange(at)' = AuxWaveRange(at)
    BY <1>1, <1>2, StagesStay
  <2>2. /\ at <= Len(chain) /\ AuxWaveRange(at) # {} /\ parallelism \in 1 .. Cardinality(AuxWaveRange(at))
    BY <1>2 DEF InferInv, WaveInv
  <2>3. CASE JobFails \/ JobIsAwaited
    <3>1. cause' # "none"
      BY <2>3 DEF JobFails, JobIsAwaited
    <3> QED
      BY <1>1, <1>2, <2>1, <2>2, <3>1 DEF WaveInv
  <2>4. CASE StartJob \/ FinishJob
    <3>1. cause' = cause /\ cause = "none"
      BY <2>4 DEF StartJob, FinishJob
    <3>2. DOMAIN jobs = AuxWaveRange(at) /\ \A i \in DOMAIN jobs : jobs[i] = "done" => CanLoad(chain[i])
      BY <1>2, <3>1 DEF InferInv, WaveInv
    <3>3. DOMAIN jobs' = DOMAIN jobs /\ \A i \in DOMAIN jobs : jobs'[i] = "done" => CanLoad(chain[i])
      BY <2>4, <3>2 DEF StartJob, FinishJob, InWave, InState
    <3>4. \A i : CanLoad(chain[i])' <=> CanLoad(chain[i])
      BY <1>1, <1>3, LoadableStays
    <3> QED
      BY <1>1, <1>2, <2>1, <2>2, <3>1, <3>2, <3>3, <3>4 DEF WaveInv
  <2> QED
    BY <2>3, <2>4
<1> QED
  BY <1>1, <1>4, <1>5, <1>6, <1>7 DEF InferInv

LEMMA PrepareWaveKeeps ==
  ASSUME InferInv, UNCHANGED expansionVars, PrepareWave
  PROVE  InferInv'
<1>1. chain' = chain /\ phase' = phase /\ IsSequence(chain)
  BY DEF expansionVars, InferInv
<1>2. /\ infer = "running" /\ at <= Len(chain) /\ AuxWaveRange(at) # {}
      /\ infer' = "wave" /\ jobs' = [i \in AuxWaveRange(at) |-> "ready"]
      /\ parallelism' = Parallelism(Cardinality(AuxWaveRange(at)))
      /\ UNCHANGED <<cause, wanted, at, staging, storeVars, waves>>
  BY DEF PrepareWave, AtWave
<1>3. UNCHANGED <<commitments, values, lastOutput, report, loaded>>
  BY <1>2 DEF storeVars
<1>4. RunInv'
  BY <1>1, <1>2, RunStays DEF InferInv
<1>5. StartedInv'
  <2>1. (IsSupported' <=> IsSupported) /\ (Distinct' <=> Distinct)
    BY <1>1, StagesStay
  <2> QED
    BY <1>1, <1>2, <2>1 DEF InferInv, StartedInv, HasStarted
<1>6. EndInv'
  BY <1>2, <1>3 DEF InferInv, EndInv, HasStarted
<1>7. WaveInv'
  <2>1. AuxWaveRange(at)' = AuxWaveRange(at)
    BY <1>1, <1>2, StagesStay
  <2>2. Len(chain) \in Nat /\ DOMAIN chain = 1 .. Len(chain)
    BY <1>1, SequenceFacts
  <2>3. at \in 1 .. Len(chain) /\ wanted \in Nat
    BY <1>2, <2>2 DEF InferInv, StartedInv, EndInv
  <2>4. PICK e \in (at + 1) .. Len(chain) : Cardinality(AuxWaveRange(at)) = (e - at) + 1
    BY <1>2, <2>2, <2>3, WaveIsInterval
  <2> DEFINE c == Cardinality(AuxWaveRange(at))
  <2>5. c \in Nat /\ c >= 1
    BY <2>2, <2>3, <2>4
  <2>6. parallelism' \in 1 .. c
    <3>1. parallelism' = Clamp(wanted, 1, c)
      BY <1>2 DEF Parallelism
    <3> HIDE DEF c
    <3> QED
      BY <2>3, <2>5, <3>1 DEF Clamp
  <2>7. DOMAIN jobs' = AuxWaveRange(at) /\ \A i \in DOMAIN jobs' : jobs'[i] # "done"
    BY <1>2
  <2> QED
    BY <1>1, <1>2, <2>1, <2>6, <2>7 DEF WaveInv
<1> QED
  BY <1>1, <1>4, <1>5, <1>6, <1>7 DEF InferInv

LEMMA JoinWaveKeeps ==
  ASSUME InferInv, UNCHANGED expansionVars, JoinWave
  PROVE  InferInv'
<1>1. chain' = chain /\ phase' = phase /\ IsSequence(chain)
  BY DEF expansionVars, InferInv
<1>2. /\ infer = "wave" /\ cause = "none" /\ infer' = "running"
      /\ \A i \in DOMAIN jobs : jobs[i] = "done"
      /\ Store(DOMAIN jobs)
      /\ waves' = Append(waves, [first |-> at, count |-> Cardinality(DOMAIN jobs), parallelism |-> parallelism])
      /\ at' = at + Cardinality(DOMAIN jobs)
      /\ UNCHANGED <<cause, wanted, staging>>
  BY DEF JoinWave
<1>3. Len(chain) \in Nat /\ DOMAIN chain = 1 .. Len(chain)
  BY <1>1, SequenceFacts
<1>4. at \in Nat /\ at \in 1 .. Len(chain) /\ IsSupported /\ Distinct /\ StoreInv /\ LoadedInv /\ ReportInv
  BY <1>2, <1>3 DEF InferInv, StartedInv, RunInv, HasStarted, WaveInv
<1>5. /\ AuxWaveRange(at) # {} /\ parallelism \in 1 .. Cardinality(AuxWaveRange(at))
      /\ DOMAIN jobs = AuxWaveRange(at)
      /\ \A i \in DOMAIN jobs : CanLoad(chain[i])
  BY <1>2 DEF InferInv, WaveInv
<1>6. PICK e \in (at + 1) .. Len(chain) :
           /\ AuxWaveRange(at) = at .. e
           /\ Cardinality(AuxWaveRange(at)) = (e - at) + 1
           /\ \A i \in at .. e : IsAuxStage(chain[i])
           /\ e < Len(chain) => ~IsAuxStage(chain[e + 1])
  BY <1>3, <1>4, <1>5, WaveIsInterval
<1>7. e \in Nat /\ e > at /\ e <= Len(chain) /\ at' = e + 1 /\ DOMAIN jobs = at .. e
  BY <1>2, <1>3, <1>4, <1>5, <1>6
<1>8. StoreInv' /\ LoadedInv' /\ lastOutput' = Value(chain[e])
  <2>1. Store(at .. e)
    BY <1>2, <1>7
  <2>2. e \in at .. Len(chain) /\ at \in 1 .. (Len(chain) + 1)
    BY <1>3, <1>4, <1>7
  <2>3. \A i \in at .. e : CanLoad(chain[i])
    BY <1>5, <1>7
  <2> QED
    BY <1>1, <1>4, <1>7, <2>1, <2>2, <2>3, Stored
<1> DEFINE c == Cardinality(DOMAIN jobs)
           new == [first |-> at, count |-> c, parallelism |-> parallelism]
<1>9. c = (e - at) + 1 /\ c \in Nat /\ c > 1 /\ parallelism \in 1 .. c
  BY <1>4, <1>5, <1>6, <1>7
<1>10. ReportInv'
  <2>1. AuxRuns' = AuxRuns /\ (\A i : IsAuxStage(chain[i])' <=> IsAuxStage(chain[i]))
        /\ \A i : Value(chain[i])' = Value(chain[i])
    BY <1>1, StagesStay
  <2>2. report' = [i \in 1 .. (at' - 1) |-> i]
    <3>1. report' = report \o [n \in 1 .. c |-> at + n - 1]
      BY <1>2 DEF Store
    <3>3. report = [i \in 1 .. (at - 1) |-> i] /\ at >= 1
      BY <1>4 DEF ReportInv
    <3>4. at' = at + c
      BY <1>2
    <3> HIDE DEF c
    <3>5. report \o [n \in 1 .. c |-> at + n - 1] = [i \in 1 .. ((at + c) - 1) |-> i]
      BY <1>4, <1>9, <3>3, ReportOf
    <3> QED
      BY <3>1, <3>4, <3>5
  <2>3. waves' = Append(waves, new)
    BY <1>2
  <2> HIDE DEF new
  <2>4. /\ IsSequence(waves) /\ {waves[w].first : w \in DOMAIN waves} = {i \in AuxRuns : i < at}
        /\ \A w \in DOMAIN waves : WaveIsWhole(waves[w])
    BY <1>4 DEF ReportInv
  <2>5. /\ IsSequence(waves') /\ DOMAIN waves = 1 .. Len(waves) /\ Len(waves) \in Nat
        /\ DOMAIN waves' = 1 .. (Len(waves) + 1)
        /\ \A w \in 1 .. Len(waves) : waves'[w] = waves[w]
        /\ waves'[Len(waves) + 1] = new
    <3>1. /\ IsSequence(Append(waves, new))
          /\ Len(Append(waves, new)) = Len(waves) + 1
          /\ \A i \in 1 .. Len(waves) : Append(waves, new)[i] = waves[i]
          /\ Append(waves, new)[Len(waves) + 1] = new
      BY <2>4, Longer
    <3>2. DOMAIN Append(waves, new) = 1 .. Len(Append(waves, new))
      BY <3>1, SequenceFacts
    <3>3. DOMAIN waves = 1 .. Len(waves) /\ Len(waves) \in Nat
      BY <2>4, SequenceFacts
    <3> QED
      BY <2>3, <3>1, <3>2, <3>3
  <2>6. (\A w \in DOMAIN waves : WaveIsWhole(waves[w]))'
    <3>1. ASSUME NEW x, x = new PROVE WaveIsWhole(x)'
      <4>1. x.first = at /\ x.count = c /\ x.parallelism = parallelism
        BY <3>1 DEF new
      <4>2. at + c = e + 1
        BY <1>4, <1>7, <1>9
      <4> HIDE DEF c
      <4>3. x.first + x.count = e + 1 /\ (x.first + x.count) - 1 = e
        BY <1>4, <1>7, <4>1, <4>2
      <4>4. IsAuxStage(chain[e]) /\ (e < Len(chain) => ~IsAuxStage(chain[e + 1]))
        BY <1>4, <1>6, <1>7
      <4>5. IsAuxStage(chain[e])' /\ (e < Len(chain) => ~IsAuxStage(chain[e + 1])')
        BY <2>1, <4>4
      <4> QED
        BY <1>1, <1>3, <1>4, <1>7, <1>9, <4>1, <4>3, <4>5 DEF WaveIsWhole
    <3>2. ASSUME NEW w \in 1 .. Len(waves), NEW x, x = waves[w] PROVE WaveIsWhole(x)'
      <4>1. WaveIsWhole(x)
        BY <2>4, <2>5, <3>2
      <4> QED
        BY <1>1, <1>3, <1>4, <1>7, <2>1, <4>1 DEF WaveIsWhole
    <3>3. ASSUME NEW w \in DOMAIN waves', NEW x, x = waves'[w] PROVE WaveIsWhole(x)'
      <4>1. CASE w \in 1 .. Len(waves)
        BY <2>5, <3>2, <3>3, <4>1
      <4>2. CASE w \notin 1 .. Len(waves)
        <5>1. w = Len(waves) + 1
          BY <2>5, <4>2
        <5> QED
          BY <2>5, <3>1, <3>3, <5>1
      <4> QED
        BY <4>1, <4>2
    <3> QED
      BY <3>3
  <2>7. {waves'[w].first : w \in DOMAIN waves'} = {i \in AuxRuns : i < at'}
    <3>1. new.first = at
      BY DEF new
    <3>2. {waves'[w].first : w \in DOMAIN waves'} = {i \in AuxRuns : i < at} \cup {at}
      BY <2>4, <2>5, <3>1
    <3>3. at \in AuxRuns
      <4>1. IsAuxStage(chain[at]) /\ at < Len(chain) /\ IsAuxStage(chain[at + 1])
        BY <1>4, <1>6, <1>7
      <4>2. at = 1 \/ ~IsAuxStage(chain[at - 1])
        BY <1>4, <4>1 DEF ReportInv
      <4> QED
        BY <1>3, <1>4, <4>1, <4>2 DEF AuxRuns
    <3>4. ASSUME NEW i \in AuxRuns PROVE i < at' <=> (i < at \/ i = at)
      <4>1. i \in Nat /\ (i = 1 \/ ~IsAuxStage(chain[i - 1]))
        BY <1>3 DEF AuxRuns
      <4>2. ~(i > at /\ i <= e)
        <5> SUFFICES ASSUME i > at, i <= e PROVE FALSE
          OBVIOUS
        <5>1. i - 1 \in at .. e /\ i # 1
          BY <1>4, <1>7, <4>1
        <5> QED
          BY <1>6, <4>1, <5>1
      <4> QED
        BY <1>4, <1>7, <4>1, <4>2
    <3> QED
      BY <3>2, <3>3, <3>4
  <2>8. /\ at' > 1 => lastOutput' = Value(chain[at' - 1])
        /\ at' # 1
        /\ (at' > 1 /\ at' <= Len(chain)) => ~(IsAuxStage(chain[at' - 1]) /\ IsAuxStage(chain[at']))
    <3>1. at' - 1 = e /\ at' = e + 1
      BY <1>7
    <3> QED
      BY <1>3, <1>4, <1>6, <1>7, <1>8, <3>1
  <2> QED
    BY <1>1, <1>4, <1>7, <2>1, <2>2, <2>5, <2>6, <2>7, <2>8 DEF ReportInv
<1>11. StartedInv'
  <2>1. IsSupported' /\ Distinct'
    BY <1>1, <1>4, StagesStay
  <2> QED
    BY <1>1, <1>2, <1>3, <1>4, <1>7, <2>1 DEF InferInv, StartedInv, HasStarted
<1>12. EndInv' /\ WaveInv'
  BY <1>2 DEF InferInv, EndInv, WaveInv, HasStarted
<1> QED
  BY <1>1, <1>8, <1>10, <1>11, <1>12 DEF InferInv, RunInv

LEMMA EndChainKeeps ==
  ASSUME InferInv, UNCHANGED expansionVars, EndChain
  PROVE  InferInv'
<1>1. chain' = chain /\ phase' = phase /\ IsSequence(chain)
  BY DEF expansionVars, InferInv
<1>2. infer = "running" /\ at > Len(chain)
  BY DEF EndChain
<1>3. CASE lastOutput.type = "GeneratedOutput"
  <2>1. infer' = "done" /\ staging' = FALSE /\ UNCHANGED <<cause, wanted, at, storeVars, waveVars, waves>>
    BY <1>3 DEF EndChain
  <2>2. UNCHANGED <<commitments, values, lastOutput, report, loaded>>
    BY <2>1 DEF storeVars
  <2>3. RunInv'
    BY <1>1, <2>1, RunStays DEF InferInv
  <2>4. StartedInv'
    <3>1. (IsSupported' <=> IsSupported) /\ (Distinct' <=> Distinct)
      BY <1>1, StagesStay
    <3>2. Len(chain) \in Nat
      BY <1>1, SequenceFacts
    <3>3. at = Len(chain) + 1
      BY <1>2, <3>2 DEF InferInv, StartedInv
    <3> QED
      BY <1>1, <1>2, <2>1, <3>1, <3>3 DEF InferInv, StartedInv, HasStarted
  <2>5. EndInv' /\ WaveInv'
    BY <1>2, <1>3, <2>1, <2>2 DEF InferInv, EndInv, WaveInv, HasStarted
  <2> QED
    BY <1>1, <2>3, <2>4, <2>5 DEF InferInv
<1>4. CASE lastOutput.type # "GeneratedOutput"
  <2>1. FailInfer("result")
    BY <1>4 DEF EndChain
  <2>2. Dropped /\ infer' = "failed" /\ staging' = FALSE
    BY <2>1 DEF FailInfer
  <2> QED
    BY <1>2, <2>2, DroppedKeepsInfer
<1> QED
  BY <1>3, <1>4

LEMMA NextKeepsInfer ==
  ASSUME InferInv, [Next]_vars
  PROVE  InferInv'
<1>1. CASE NextExpansion /\ UNCHANGED <<directVars, gateVars, inferVars>>
  BY <1>1, ExpansionKeepsInfer
<1>2. CASE NextInfer
  <2>1. UNCHANGED expansionVars
    BY <1>2 DEF NextInfer
  <2>2. CASE StartInfer
    BY <2>1, <2>2, StartInferKeeps
  <2>3. CASE RunStage
    BY <2>1, <2>3, RunStageKeeps
  <2>4. CASE StageFails \/ WaveFails \/ AbortWave
    <3>1. infer # "none" /\ Dropped /\ infer' = "failed" /\ staging' = FALSE
      BY <2>4 DEF StageFails, AtStage, WaveFails, AtWave, AbortWave, FailInfer
    <3> QED
      BY <2>1, <3>1, DroppedKeepsInfer
  <2>5. CASE Kill
    <3>1. infer # "none" /\ Dropped /\ infer' = "killed"
      BY <2>5 DEF Kill
    <3> QED
      BY <2>1, <3>1, DroppedKeepsInfer
  <2>6. CASE PrepareWave
    BY <2>1, <2>6, PrepareWaveKeeps
  <2>7. CASE StartJob \/ FinishJob \/ JobFails \/ JobIsAwaited
    BY <2>1, <2>7, WaveStepKeeps
  <2>8. CASE JoinWave
    BY <2>1, <2>8, JoinWaveKeeps
  <2>9. CASE EndChain
    BY <2>1, <2>9, EndChainKeeps
  <2> QED
    BY <1>2, <2>2, <2>3, <2>4, <2>5, <2>6, <2>7, <2>8, <2>9 DEF NextInfer
<1>3. CASE UNCHANGED <<expansionVars, inferVars>>
  <2>1. chain' = chain /\ phase' = phase /\ IsSequence(chain)
    BY <1>3 DEF expansionVars, InferInv
  <2>2. UNCHANGED <<infer, cause, wanted, at, staging, jobs, parallelism, storeVars, waves>>
    BY <1>3 DEF inferVars, waveVars
  <2>3. UNCHANGED <<commitments, values, lastOutput, report, loaded>>
    BY <2>2 DEF storeVars
  <2>4. RunInv'
    BY <2>1, <2>2, RunStays DEF InferInv
  <2>5. StartedInv'
    <3>1. (IsSupported' <=> IsSupported) /\ (Distinct' <=> Distinct)
      BY <2>1, StagesStay
    <3> QED
      BY <2>1, <2>2, <3>1 DEF InferInv, StartedInv, HasStarted
  <2>6. EndInv'
    BY <2>2, <2>3 DEF InferInv, EndInv, HasStarted
  <2>7. WaveInv'
    <3>1. \A i : CanLoad(chain[i])' <=> CanLoad(chain[i])
      BY <2>1, <2>3, LoadableStays
    <3>2. AuxWaveRange(at)' = AuxWaveRange(at)
      BY <2>1, <2>2, StagesStay
    <3> QED
      BY <2>1, <2>2, <3>1, <3>2 DEF InferInv, WaveInv
  <2> QED
    BY <2>1, <2>4, <2>5, <2>6, <2>7 DEF InferInv
<1> QED
  <2>1. CASE NextDirect /\ UNCHANGED <<gateVars, inferVars>>
    <3>1. UNCHANGED expansionVars
      BY <2>1 DEF NextDirect, Start, Prompt, Embed, Aux, RangeStage, Finalize, DecodeInit, Select, EmbedToken,
                  Output, Finish, At
    <3> QED
      BY <1>3, <2>1, <3>1
  <2>2. CASE Judge /\ UNCHANGED inferVars
    BY <1>3, <2>2 DEF Judge
  <2>3. CASE UNCHANGED vars
    BY <1>3, <2>3 DEF vars
  <2> QED
    BY <1>1, <1>2, <2>1, <2>2, <2>3 DEF Next

LEMMA InitInfers == Init => InferInv
<1> SUFFICES ASSUME Init PROVE InferInv
  OBVIOUS
<1>1. chain = <<>> /\ InitInfer
  BY DEF Init, InitDirect, InitExpansion
<1>2. IsSequence(chain)
  BY <1>1, EmptySeq DEF IsSequence
<1>3. /\ infer = "none" /\ cause = "none" /\ wanted = 0 /\ at = 1 /\ staging = FALSE
      /\ commitments = Empty /\ values = Empty /\ lastOutput = Nothing
      /\ report = <<>> /\ waves = <<>> /\ loaded = Empty
  BY <1>1 DEF InitInfer
<1>4. RunInv
  <2>1. {i \in AuxRuns : i < 1} = {}
    BY <1>2, SequenceFacts DEF AuxRuns
  <2>2. DOMAIN Empty = {} /\ 1 .. 0 = {} /\ <<>> = [i \in {} |-> i] /\ DOMAIN <<>> = {} /\ IsSequence(<<>>)
    BY <1>1, <1>2 DEF Empty
  <2> QED
    BY <1>3, <2>1, <2>2 DEF RunInv, StoreInv, LoadedInv, ReportInv, Empty
<1>5. WaveInv /\ EndInv
  BY <1>3 DEF WaveInv, EndInv, HasStarted
<1>6. StartedInv
  <2>1. Len(chain) \in Nat
    BY <1>2, SequenceFacts
  <2> QED
    BY <1>3, <2>1 DEF StartedInv, HasStarted
<1> QED
  BY <1>2, <1>4, <1>5, <1>6 DEF InferInv

LEMMA InferIsInvariant == Spec => []InferInv
<1> QED
  BY InitInfers, NextKeepsInfer, PTL DEF Spec

(* A stage that takes its inputs from memory reads what the chain says.    *)
THEOREM ReadsFromMemory == Spec => []InferReadsTheChain
<1>1. InferInv => InferReadsTheChain
  <2> SUFFICES ASSUME InferInv, NEW i \in DOMAIN loaded
               PROVE  /\ loaded[i] = Bindings(chain[i])
                      /\ \A p \in Producers(chain[i]) : Producer(chain[i], p) < i
                      /\ FromStageName(chain[i].name) = KindOf(chain[i])
    BY DEF InferReadsTheChain
  <2>1. IsSequence(chain) /\ LoadedInv /\ StartedInv
    BY DEF InferInv, RunInv
  <2>2. Len(chain) \in Nat /\ DOMAIN chain = 1 .. Len(chain)
    BY <2>1, SequenceFacts
  <2>3. i \in 1 .. (at - 1) /\ ReadsTheChain(i)
    BY <2>1 DEF LoadedInv
  <2>4. IsSupported /\ i \in DOMAIN chain
    BY <2>1, <2>2, <2>3 DEF StartedInv
  <2>5. FromStageName(chain[i].name) = KindOf(chain[i])
    BY <2>4, KindIsKnown DEF IsSupported
  <2> QED
    BY <2>3, <2>5 DEF ReadsTheChain
<1> QED
  BY <1>1, InferIsInvariant, PTL

-----------------------------------------------------------------------------
(* Donors.                                                                 *)

(* Models whose sharing layers, if there are any, have both donors.        *)
DonorsBound(s) == s.shared = 0 \/ Cardinality(Donors(s)) = 2

(* The donor is the last layer before the shared ones with the type. *)
LEMMA DonorIsBefore ==
  ASSUME NEW s, IsShape(s), NEW l \in Layers(s), KvDonor(s, l) # -1
  PROVE  /\ l >= FirstShared(s) /\ KvDonor(s, l) \in 0 .. (FirstShared(s) - 1)
         /\ s.types[KvDonor(s, l)] = s.types[l]
<1> DEFINE same == {d \in 0 .. (FirstShared(s) - 1) : s.types[d] = s.types[l]}
           far == {FirstShared(s) - d : d \in same}
<1>1. FirstShared(s) \in Nat
  BY DEF IsShape, FirstShared
<1>2. l >= FirstShared(s) /\ same # {} /\ KvDonor(s, l) = CHOOSE d \in same : \A e \in same : e <= d
  <2>1. KvDonor(s, l) = IF l < FirstShared(s) \/ same = {} THEN -1
                        ELSE CHOOSE d \in same : \A e \in same : e <= d
    BY Zenon DEF KvDonor
  <2>2. l \in Int
    BY DEF Layers, IsShape
  <2> HIDE DEF same
  <2> QED
    BY <1>1, <2>1, <2>2
<1>3. far \subseteq Nat /\ far # {}
  BY <1>1, <1>2
<1> HIDE DEF same
<1>4. PICK x \in far : \A y \in far : x <= y
  <2> HIDE DEF far
  <2> QED
    BY <1>3, LeastOf
<1>5. PICK d \in same : x = FirstShared(s) - d
  OBVIOUS
<1>6. \A e \in same : e <= d
  <2>1. \A e \in same : e \in Nat
    BY <1>1 DEF same
  <2> SUFFICES ASSUME NEW e \in same PROVE e <= d
    OBVIOUS
  <2>2. FirstShared(s) - e \in far
    OBVIOUS
  <2>3. x <= FirstShared(s) - e
    BY <1>4, <2>2
  <2>4. d \in Nat /\ e \in Nat
    BY <1>5, <2>1
  <2> QED
    BY <1>1, <1>5, <2>3, <2>4
<1>7. KvDonor(s, l) \in same
  <2> DEFINE best == CHOOSE b \in same : \A e \in same : e <= b
  <2>1. best \in same
    BY <1>5, <1>6
  <2> HIDE DEF best
  <2> QED
    BY <1>2, <2>1 DEF best
<1> QED
  BY <1>2, <1>7 DEF same

LEMMA BoundDonors ==
  ASSUME NEW s, IsShape(s), DonorsBound(s)
  PROVE  /\ s.layers \in Nat /\ s.layers > 0 /\ s.shared \in Nat
         /\ FirstShared(s) \in Nat /\ FirstShared(s) = s.layers - s.shared
         /\ FirstShared(s) > 0 /\ Layers(s) = 0 .. (s.layers - 1)
         /\ s.shared > 0 =>
              /\ DonorA(s) \in 0 .. (FirstShared(s) - 1)
              /\ DonorB(s) \in 0 .. (FirstShared(s) - 1)
<1>1. /\ s.layers \in Nat /\ s.layers > 0 /\ s.shared \in Nat /\ s.shared <= s.layers
      /\ FirstShared(s) \in Nat /\ FirstShared(s) = s.layers - s.shared
  BY DEF IsShape, FirstShared
<1>2. \A d \in Donors(s) : d \in 0 .. (FirstShared(s) - 1)
  BY DonorIsBefore DEF Donors
<1>3. Donors(s) \in SUBSET Nat /\ \A d \in Donors(s) : d <= FirstShared(s)
  BY <1>1, <1>2
<1>4. IsFiniteSet(Donors(s))
  BY <1>1, <1>3, FS_BoundedSetOfNaturals
<1>5. CASE s.shared = 0
  BY <1>1, <1>5 DEF Layers
<1>6. CASE s.shared # 0
  <2> DEFINE D == Donors(s)
  <2>1. Cardinality(D) = 2
    BY <1>6 DEF DonorsBound
  <2>0. IsFiniteSet(D)
    BY <1>4
  <2> HIDE DEF D
  <2>2. D # {}
    BY <2>1, FS_EmptySet
  <2>3. D \subseteq Nat
    BY <1>3 DEF D
  <2>4. PICK a \in D : \A e \in D : a <= e
    BY <2>2, <2>3, LeastOf
  <2>5. DonorA(s) \in D
    BY <2>2, <2>4 DEF DonorA, D
  <2> DEFINE first == DonorA(s)
             rest == D \ {first}
  <2>6. IsFiniteSet(rest) /\ Cardinality(rest) = 1
    <3> HIDE DEF first
    <3>1. IsFiniteSet(D \ {first}) /\ Cardinality(D \ {first}) = IF first \in D THEN Cardinality(D) - 1 ELSE Cardinality(D)
      BY <2>0, FS_RemoveElement
    <3>2. first \in D
      BY <2>5 DEF first
    <3> QED
      BY <2>1, <3>1, <3>2
  <2>7. rest # {} /\ rest \subseteq Nat
    <3>1. rest \subseteq Nat
      BY <2>3
    <3> HIDE DEF rest
    <3>2. rest # {}
      BY <2>6, FS_EmptySet
    <3> QED
      BY <3>1, <3>2
  <2> HIDE DEF rest
  <2>8. PICK b \in rest : \A e \in rest : b <= e
    BY <2>7, LeastOf
  <2>9. DonorB(s) \in rest
    <3>1. ~(Cardinality(Donors(s)) < 2)
      BY <2>1 DEF D
    <3>2. DonorB(s) = CHOOSE d \in rest : \A e \in rest : d <= e
      BY <3>1 DEF DonorB, rest, D
    <3> QED
      BY <2>8, <3>2
  <2>10. DonorA(s) \in 0 .. (FirstShared(s) - 1) /\ DonorB(s) \in 0 .. (FirstShared(s) - 1)
    BY <1>2, <2>5, <2>9 DEF rest, D
  <2> QED
    BY <1>1, <2>10 DEF Layers
<1> QED
  BY <1>5, <1>6

-----------------------------------------------------------------------------
(* The items of the manifest.                                              *)

IsRun(r) ==
  /\ IsShape(r.shape) /\ DonorsBound(r.shape)
  /\ r.tokens \in Nat /\ r.batches \in Nat
Items(r) == ManifestOf(r.shape, r.tokens, r.batches).items
SeedItem == TokenizeItems(0)[1]
MergeItem(r) == TokenizeItems(r.batches)[2]
PrepareItem == TokenizeItems(0)[3]
InitItem == StageItem(Plain("decode_init"), NoInputs)
TokensItem(r) == GenerationItems(r.shape, r.tokens)[2]
OutputItem == StageItem(Plain("output_finalize"), [edge |-> From(Plain("decode.edge")), decoder |-> File("decoder")])

ItemsAreListed(r) ==
  LET N == r.shape.layers
  IN  /\ IsSequence(Items(r)) /\ Len(Items(r)) = 8 + N + N
      /\ Items(r)[1] = SeedItem /\ Items(r)[2] = MergeItem(r) /\ Items(r)[3] = PrepareItem
      /\ Items(r)[4] = EmbeddingItem
      /\ \A n \in 0 .. (N - 1) : Items(r)[5 + n] = AuxItem(n)
      /\ \A n \in 0 .. (N - 1) : Items(r)[5 + N + n] = RangeItem(r.shape, n)
      /\ Items(r)[5 + N + N] = HeadItem(r.shape)
      /\ Items(r)[6 + N + N] = InitItem /\ Items(r)[7 + N + N] = TokensItem(r)
      /\ Items(r)[8 + N + N] = OutputItem

LEMMA Triple ==
  ASSUME NEW a, NEW b, NEW c
  PROVE  /\ IsSequence(<<a, b, c>>) /\ Len(<<a, b, c>>) = 3
         /\ <<a, b, c>>[1] = a /\ <<a, b, c>>[2] = b /\ <<a, b, c>>[3] = c
         /\ IsSequence(<<a>>) /\ Len(<<a>>) = 1 /\ <<a>>[1] = a
<1>1. <<a, b, c>> \in Seq({a, b, c}) /\ <<a>> \in Seq({a})
  OBVIOUS
<1> QED
  BY <1>1 DEF IsSequence

LEMMA ItemsAre ==
  ASSUME NEW r, IsRun(r)
  PROVE  ItemsAreListed(r)
<1> DEFINE s == r.shape
           N == s.layers
           A == TokenizeItems(r.batches)
           E == <<EmbeddingItem>>
           X == [n \in 1 .. N |-> AuxItem(n - 1)]
           R == [n \in 1 .. N |-> RangeItem(s, n - 1)]
           H == <<HeadItem(s)>>
           G == GenerationItems(s, r.tokens)
<1>0. N \in Nat
  BY DEF IsRun, IsShape
<1>1. Items(r) = A \o E \o X \o R \o H \o G
  BY DEF Items, ManifestOf
<1>2. IsSequence(A) /\ Len(A) = 3 /\ A[1] = SeedItem /\ A[2] = MergeItem(r) /\ A[3] = PrepareItem
  BY Triple DEF TokenizeItems, SeedItem, MergeItem, PrepareItem
<1>3. IsSequence(E) /\ Len(E) = 1 /\ E[1] = EmbeddingItem
  BY Triple
<1>4. IsSequence(X) /\ Len(X) = N /\ \A n \in 1 .. N : X[n] = AuxItem(n - 1)
  <2>1. DOMAIN X = 1 .. N /\ X = [i \in 1 .. N |-> X[i]] /\ \A n \in 1 .. N : X[n] = AuxItem(n - 1)
    OBVIOUS
  <2> HIDE DEF X, N
  <2>2. IsSequence([i \in 1 .. N |-> X[i]]) /\ Len([i \in 1 .. N |-> X[i]]) = N
    BY <1>0, <2>1, SequenceOf
  <2> QED
    BY <2>1, <2>2
<1>5. IsSequence(R) /\ Len(R) = N /\ \A n \in 1 .. N : R[n] = RangeItem(s, n - 1)
  <2>1. DOMAIN R = 1 .. N /\ R = [i \in 1 .. N |-> R[i]] /\ \A n \in 1 .. N : R[n] = RangeItem(s, n - 1)
    OBVIOUS
  <2> HIDE DEF R, N
  <2>2. IsSequence([i \in 1 .. N |-> R[i]]) /\ Len([i \in 1 .. N |-> R[i]]) = N
    BY <1>0, <2>1, SequenceOf
  <2> QED
    BY <2>1, <2>2
<1>6. IsSequence(H) /\ Len(H) = 1 /\ H[1] = HeadItem(s)
  BY Triple
<1>7. IsSequence(G) /\ Len(G) = 3 /\ G[1] = InitItem /\ G[2] = TokensItem(r) /\ G[3] = OutputItem
  BY Triple DEF GenerationItems, InitItem, TokensItem, OutputItem
<1> HIDE DEF A, E, X, R, H, G
<1> DEFINE P1 == A \o E
           P2 == P1 \o X
           P3 == P2 \o R
           P4 == P3 \o H
           P5 == P4 \o G
<1>8. /\ IsSequence(P1) /\ Len(P1) = 4
      /\ \A i \in 1 .. 4 : P1[i] = IF i <= 3 THEN A[i] ELSE E[i - 3]
  <2>1. IsSequence(A) /\ Len(A) = 3
    BY <1>2
  <2>2. IsSequence(E) /\ Len(E) = 1
    BY <1>3
  <2>3. 4 = 3 + 1
    BY <1>0 DEF N
  <2>4. P1 = A \o E
    BY DEF P1
  <2> HIDE DEF N, P1
  <2>5. /\ IsSequence(A \o E) /\ Len(A \o E) = Len(A) + Len(E)
        /\ \A i \in 1 .. (Len(A) + Len(E)) : (A \o E)[i] = IF i <= Len(A) THEN A[i] ELSE E[i - Len(A)]
    BY <2>1, <2>2, Joined, Zenon
  <2> QED
    BY <2>1, <2>2, <2>3, <2>4, <2>5
<1> HIDE DEF P1
<1>9. /\ IsSequence(P2) /\ Len(P2) = 4 + N
      /\ \A i \in 1 .. (4 + N) : P2[i] = IF i <= 4 THEN P1[i] ELSE X[i - 4]
  <2>1. IsSequence(P1) /\ Len(P1) = 4
    BY <1>8
  <2>2. IsSequence(X) /\ Len(X) = N
    BY <1>4
  <2>3. 4 + N = 4 + N
    BY <1>0 DEF N
  <2>4. P2 = P1 \o X
    BY DEF P2
  <2> HIDE DEF N, P2
  <2>5. /\ IsSequence(P1 \o X) /\ Len(P1 \o X) = Len(P1) + Len(X)
        /\ \A i \in 1 .. (Len(P1) + Len(X)) : (P1 \o X)[i] = IF i <= Len(P1) THEN P1[i] ELSE X[i - Len(P1)]
    BY <2>1, <2>2, Joined, Zenon
  <2> QED
    BY <2>1, <2>2, <2>3, <2>4, <2>5
<1> HIDE DEF P2
<1>10. /\ IsSequence(P3) /\ Len(P3) = 4 + N + N
       /\ \A i \in 1 .. (4 + N + N) : P3[i] = IF i <= 4 + N THEN P2[i] ELSE R[i - (4 + N)]
  <2>1. IsSequence(P2) /\ Len(P2) = 4 + N
    BY <1>9
  <2>2. IsSequence(R) /\ Len(R) = N
    BY <1>5
  <2>3. 4 + N + N = (4 + N) + N
    BY <1>0 DEF N
  <2>4. P3 = P2 \o R
    BY DEF P3
  <2> HIDE DEF N, P3
  <2>5. /\ IsSequence(P2 \o R) /\ Len(P2 \o R) = Len(P2) + Len(R)
        /\ \A i \in 1 .. (Len(P2) + Len(R)) : (P2 \o R)[i] = IF i <= Len(P2) THEN P2[i] ELSE R[i - Len(P2)]
    BY <2>1, <2>2, Joined, Zenon
  <2> QED
    BY <2>1, <2>2, <2>3, <2>4, <2>5
<1> HIDE DEF P3
<1>11. /\ IsSequence(P4) /\ Len(P4) = 5 + N + N
       /\ \A i \in 1 .. (5 + N + N) : P4[i] = IF i <= 4 + N + N THEN P3[i] ELSE H[i - (4 + N + N)]
  <2>1. IsSequence(P3) /\ Len(P3) = 4 + N + N
    BY <1>10
  <2>2. IsSequence(H) /\ Len(H) = 1
    BY <1>6
  <2>3. 5 + N + N = (4 + N + N) + 1
    BY <1>0 DEF N
  <2>4. P4 = P3 \o H
    BY DEF P4
  <2> HIDE DEF N, P4
  <2>5. /\ IsSequence(P3 \o H) /\ Len(P3 \o H) = Len(P3) + Len(H)
        /\ \A i \in 1 .. (Len(P3) + Len(H)) : (P3 \o H)[i] = IF i <= Len(P3) THEN P3[i] ELSE H[i - Len(P3)]
    BY <2>1, <2>2, Joined, Zenon
  <2> QED
    BY <2>1, <2>2, <2>3, <2>4, <2>5
<1> HIDE DEF P4
<1>12. /\ IsSequence(P5) /\ Len(P5) = 8 + N + N
       /\ \A i \in 1 .. (8 + N + N) : P5[i] = IF i <= 5 + N + N THEN P4[i] ELSE G[i - (5 + N + N)]
  <2>1. IsSequence(P4) /\ Len(P4) = 5 + N + N
    BY <1>11
  <2>2. IsSequence(G) /\ Len(G) = 3
    BY <1>7
  <2>3. 8 + N + N = (5 + N + N) + 3
    BY <1>0 DEF N
  <2>4. P5 = P4 \o G
    BY DEF P5
  <2> HIDE DEF N, P5
  <2>5. /\ IsSequence(P4 \o G) /\ Len(P4 \o G) = Len(P4) + Len(G)
        /\ \A i \in 1 .. (Len(P4) + Len(G)) : (P4 \o G)[i] = IF i <= Len(P4) THEN P4[i] ELSE G[i - Len(P4)]
    BY <2>1, <2>2, Joined, Zenon
  <2> QED
    BY <2>1, <2>2, <2>3, <2>4, <2>5
<1> HIDE DEF P5
<1>13. Items(r) = P5
  BY <1>1 DEF P1, P2, P3, P4, P5
<1> HIDE DEF N
<1>14. \A i \in 1 .. (4 + N + N) : P5[i] = P3[i]
  <2> SUFFICES ASSUME NEW i \in 1 .. (4 + N + N) PROVE P5[i] = P3[i]
    OBVIOUS
  <2>1. /\ i \in 1 .. (8 + N + N) /\ i \in 1 .. (5 + N + N)
        /\ i <= 5 + N + N /\ i <= 4 + N + N
    BY <1>0
  <2>2. P5[i] = IF i <= 5 + N + N THEN P4[i] ELSE G[i - (5 + N + N)]
    BY <1>12, <2>1, Zenon
  <2>3. P4[i] = IF i <= 4 + N + N THEN P3[i] ELSE H[i - (4 + N + N)]
    BY <1>11, <2>1, Zenon
  <2> QED
    BY <2>1, <2>2, <2>3, Zenon
<1>15. \A i \in 1 .. (4 + N) : P5[i] = P2[i]
  <2> SUFFICES ASSUME NEW i \in 1 .. (4 + N) PROVE P5[i] = P2[i]
    OBVIOUS
  <2>1. i \in 1 .. (4 + N + N) /\ i <= 4 + N
    BY <1>0
  <2>2. P3[i] = IF i <= 4 + N THEN P2[i] ELSE R[i - (4 + N)]
    BY <1>10, <2>1, Zenon
  <2> QED
    BY <1>14, <2>1, <2>2, Zenon
<1>16. \A i \in 1 .. 4 : P5[i] = P1[i]
  <2> SUFFICES ASSUME NEW i \in 1 .. 4 PROVE P5[i] = P1[i]
    OBVIOUS
  <2>1. i \in 1 .. (4 + N) /\ i <= 4
    BY <1>0
  <2>2. P2[i] = IF i <= 4 THEN P1[i] ELSE X[i - 4]
    BY <1>9, <2>1, Zenon
  <2> QED
    BY <1>15, <2>1, <2>2, Zenon
<1>17. P5[1] = SeedItem /\ P5[2] = MergeItem(r) /\ P5[3] = PrepareItem /\ P5[4] = EmbeddingItem
  BY <1>2, <1>3, <1>8, <1>16
<1>18. ASSUME NEW n \in 0 .. (N - 1) PROVE P5[5 + n] = AuxItem(n)
  <2>1. 5 + n \in 1 .. (4 + N) /\ (5 + n) - 4 = n + 1 /\ n + 1 \in 1 .. N /\ (n + 1) - 1 = n /\ ~(5 + n <= 4)
    BY <1>0
  <2>2. P5[5 + n] = X[n + 1]
    BY <1>9, <1>15, <2>1
  <2> QED
    BY <1>4, <2>1, <2>2
<1>19. ASSUME NEW n \in 0 .. (N - 1) PROVE P5[5 + N + n] = RangeItem(s, n)
  <2>1. 5 + N + n \in 1 .. (4 + N + N) /\ (5 + N + n) - (4 + N) = n + 1 /\ n + 1 \in 1 .. N /\ (n + 1) - 1 = n
        /\ ~(5 + N + n <= 4 + N)
    BY <1>0
  <2>2. P5[5 + N + n] = R[n + 1]
    BY <1>10, <1>14, <2>1
  <2> QED
    BY <1>5, <2>1, <2>2
<1>20. P5[5 + N + N] = HeadItem(s)
  <2>1. 5 + N + N \in 1 .. (5 + N + N) /\ 5 + N + N \in 1 .. (8 + N + N) /\ (5 + N + N) - (4 + N + N) = 1
        /\ ~(5 + N + N <= 4 + N + N)
    BY <1>0
  <2> QED
    BY <1>6, <1>11, <1>12, <2>1
<1>21. P5[6 + N + N] = InitItem /\ P5[7 + N + N] = TokensItem(r) /\ P5[8 + N + N] = OutputItem
  <2>1. /\ 6 + N + N \in 1 .. (8 + N + N) /\ (6 + N + N) - (5 + N + N) = 1 /\ ~(6 + N + N <= 5 + N + N)
        /\ 7 + N + N \in 1 .. (8 + N + N) /\ (7 + N + N) - (5 + N + N) = 2 /\ ~(7 + N + N <= 5 + N + N)
        /\ 8 + N + N \in 1 .. (8 + N + N) /\ (8 + N + N) - (5 + N + N) = 3 /\ ~(8 + N + N <= 5 + N + N)
    BY <1>0
  <2> QED
    BY <1>7, <1>12, <2>1
<1> QED
  BY <1>12, <1>13, <1>17, <1>18, <1>19, <1>20, <1>21 DEF ItemsAreListed, N

-----------------------------------------------------------------------------
(* Templates.                                                              *)

Fills(place, idx, n) == PlaceOutcome(place, idx) = "text" /\ Filled(place, idx) = n
Gives(text, idx, name) == Outcome(text, idx) = "text" /\ Rendered(text, idx) = name
HasIndex(idx, i, n, start) == i \in DOMAIN idx /\ idx[i] = [value |-> n, start |-> start]

LEMMA NumberFills ==
  ASSUME NEW n, NEW idx
  PROVE  Fills(Number(n), idx, n)
<1> QED
  BY DEF Fills, Number, PlaceOutcome, Filled

LEMMA IndexFills ==
  ASSUME NEW i, i # "none", NEW idx, NEW n \in Int, NEW start \in Int, HasIndex(idx, i, n, start)
  PROVE  /\ Fills(Index(i), idx, n)
         /\ n # start => Fills(Previous(i), idx, n - 1)
         /\ n = start => PlaceOutcome(Previous(i), idx) = "underflow"
<1> QED
  BY DEF Fills, Index, Previous, PlaceOutcome, Filled, HasIndex

LEMMA TextGives ==
  ASSUME NEW kind, NEW a, NEW b, NEW idx, NEW x, NEW y, Fills(a, idx, x), Fills(b, idx, y)
  PROVE  Gives(Text(kind, a, b), idx, Name(kind, x, y))
<1>1. Text(kind, a, b).kind = kind /\ Text(kind, a, b).t = a /\ Text(kind, a, b).l = b
  BY DEF Text
<1> QED
  BY <1>1 DEF Gives, Fills, Outcome, Rendered

LEMMA TextUnderflows ==
  ASSUME NEW kind, NEW a, NEW b, NEW idx, NEW x,
         \/ PlaceOutcome(a, idx) = "underflow"
         \/ Fills(a, idx, x) /\ PlaceOutcome(b, idx) = "underflow"
  PROVE  Outcome(Text(kind, a, b), idx) = "underflow"
<1>1. Text(kind, a, b).kind = kind /\ Text(kind, a, b).t = a /\ Text(kind, a, b).l = b
  BY DEF Text
<1> QED
  BY <1>1 DEF Fills, Outcome

LEMMA PlainGives ==
  ASSUME NEW kind, NEW idx
  PROVE  Gives(Plain(kind), idx, Single(kind))
<1> QED
  BY NumberFills, TextGives DEF Plain, Single

Link(name) == [how |-> "from", name |-> name]
FileAt(name) == [how |-> "external", name |-> name]
BindsTo(binding, idx, bound) == CanBind(binding, idx) /\ Bound(binding, idx) = bound

LEMMA SourceBinds ==
  ASSUME NEW binding, NEW idx, NEW text, Sources(binding, idx) = {text}
  PROVE  /\ binding.how = "from" => BindsTo(binding, idx, Link(Rendered(text, idx)))
         /\ (binding.how = "input" /\ Rendered(text, idx) \in DOMAIN Inputs) =>
              BindsTo(binding, idx, FileAt(Inputs[Rendered(text, idx)]))
<1> DEFINE chosen == CHOOSE x \in Sources(binding, idx) : TRUE
<1>1. chosen = text
  OBVIOUS
<1>2. Bound(binding, idx) =
        CASE binding.how = "from" -> [how |-> "from", name |-> Rendered(chosen, idx)]
          [] binding.how = "input" -> [how |-> "external", name |-> Inputs[Rendered(chosen, idx)]]
          [] OTHER -> binding
  BY Zenon DEF Bound
<1> HIDE DEF chosen
<1>3. CanBind(binding, idx) <=> (binding.how = "input" => Rendered(text, idx) \in DOMAIN Inputs)
  BY DEF CanBind
<1>4. CASE binding.how = "from"
  <2>1. Bound(binding, idx) = Link(Rendered(text, idx))
    BY <1>1, <1>2, <1>4 DEF Link
  <2> QED
    BY <1>3, <1>4, <2>1 DEF BindsTo
<1>5. CASE binding.how = "input"
  <2>1. Bound(binding, idx) = FileAt(Inputs[Rendered(text, idx)])
    BY <1>1, <1>2, <1>5 DEF FileAt
  <2> QED
    BY <1>3, <1>5, <2>1 DEF BindsTo
<1> QED
  BY <1>4, <1>5

LEMMA TextBinds ==
  ASSUME NEW text, NEW idx, NEW name, Gives(text, idx, name)
  PROVE  /\ BindsTo(From(text), idx, Link(name))
         /\ \A first : BindsTo(FromOr(text, first), idx, Link(name))
         /\ name \in DOMAIN Inputs => BindsTo(Input(text), idx, FileAt(Inputs[name]))
<1>1. Outcome(text, idx) = "text" /\ Rendered(text, idx) = name
  BY DEF Gives
<1>2. /\ From(text).how = "from" /\ From(text).text = text
      /\ Input(text).how = "input" /\ Input(text).text = text
      /\ \A first : FromOr(text, first).how = "from" /\ FromOr(text, first).text = text
  BY DEF From, Input, FromOr
<1>3. /\ Sources(From(text), idx) = {text}
      /\ Sources(Input(text), idx) = {text} /\ \A first : Sources(FromOr(text, first), idx) = {text}
  BY <1>1, <1>2 DEF Sources
<1>4. BindsTo(From(text), idx, Link(name))
  BY <1>1, <1>2, <1>3, SourceBinds
<1>5. \A first : BindsTo(FromOr(text, first), idx, Link(name))
  BY <1>1, <1>2, <1>3, SourceBinds
<1>6. name \in DOMAIN Inputs => BindsTo(Input(text), idx, FileAt(Inputs[name]))
  BY <1>1, <1>2, <1>3, SourceBinds
<1> QED
  BY <1>4, <1>5, <1>6

LEMMA ExternalBinds ==
  ASSUME NEW name, NEW idx
  PROVE  BindsTo(External(name), idx, FileAt(name))
<1>1. External(name) = FileAt(name) /\ External(name).how = "external"
  BY DEF External, FileAt
<1>2. CanBind(External(name), idx)
  BY <1>1 DEF CanBind
<1>3. Bound(External(name), idx) = External(name)
  BY <1>1 DEF Bound
<1> QED
  BY <1>1, <1>2, <1>3 DEF BindsTo

LEMMA FallbackBinds ==
  ASSUME NEW text, NEW first, NEW idx, NEW name, Outcome(text, idx) = "underflow", Gives(first, idx, name)
  PROVE  BindsTo(FromOr(text, first), idx, Link(name))
<1>1. Outcome(first, idx) = "text" /\ Rendered(first, idx) = name
  BY DEF Gives
<1>2. FromOr(text, first).how = "from" /\ FromOr(text, first).text = text /\ FromOr(text, first).first = {first}
  BY DEF FromOr
<1>3. Sources(FromOr(text, first), idx) = {first}
  <2>1. {x \in {first} : Outcome(x, idx) = "text"} = {first}
    BY <1>1
  <2> QED
    BY <1>2, <2>1 DEF Sources
<1> QED
  BY <1>1, <1>2, <1>3, SourceBinds

ExpandsTo(template, idx, stage) == CanExpand(template, idx) /\ Expanded(template, idx) = stage
StageWith(name, wiring) == [name |-> name, inputs |-> wiring]

LEMMA TemplateExpands ==
  ASSUME NEW template, NEW idx, NEW name, NEW w, Gives(template.name, idx, name),
         w = [p \in DOMAIN template.inputs |-> w[p]],
         \A p \in DOMAIN template.inputs : BindsTo(template.inputs[p], idx, w[p])
  PROVE  ExpandsTo(template, idx, StageWith(name, w))
<1>1. CanExpand(template, idx)
  BY DEF CanExpand, Gives, BindsTo
<1>2. [p \in DOMAIN template.inputs |-> Bound(template.inputs[p], idx)] = [p \in DOMAIN template.inputs |-> w[p]]
  BY DEF BindsTo
<1>3. Rendered(template.name, idx) = name
  BY DEF Gives
<1> QED
  BY <1>1, <1>2, <1>3 DEF ExpandsTo, StageWith, Expanded

-----------------------------------------------------------------------------
(* The stages of the chain, by their names.  A stage reads what an export  *)
(* stands for under the key of the export, until the exports are resolved. *)

Keys == [pieces |-> Single("tokenize.pieces"), edge |-> Single("decode.edge")]

FileOf(kind) == FileAt(Single(kind))
SeedWiring == [initial_pieces |-> FileOf("pieces"), tokenizer |-> FileOf("tokenizer")]
MergeSource(b) == IF b = 0 THEN Single("prompt_merge_seed") ELSE Name("prompt_merge", b - 1, 0)
MergeWiring(b) == [initial_pieces |-> Link(MergeSource(b)), tokenizer |-> FileOf("tokenizer")]
PrepareWiring(keys) == [merged_pieces |-> Link(keys.pieces), tokenizer |-> FileOf("tokenizer")]
EmbeddingWiring == [prompt |-> Link(Single("prompt_prepare")), embedding |-> FileOf("embedding")]
StartOf(p) == IF p < 0 THEN Embedding ELSE EmbedName(p)
AuxWiring(p, n) == [embedded |-> Link(StartOf(p)), layer |-> FileAt(Name("aux_layer", 0, n))]
LowerOf(p, n) == IF n = 0 THEN StartOf(p) ELSE RangeName(p, n - 1)
PriorOf(p, n) == IF p < 0 THEN Embedding ELSE RangeName(p - 1, n)
DonorOf(r, p, n, donor) == IF n < FirstShared(r.shape) THEN Embedding ELSE RangeName(p, donor)
RangeWiring(r, p, n) ==
  [activations |-> Link(LowerOf(p, n)),
   prior_kv |-> Link(PriorOf(p, n)),
   donor_a_kv |-> Link(DonorOf(r, p, n, DonorA(r.shape))),
   donor_b_kv |-> Link(DonorOf(r, p, n, DonorB(r.shape))),
   ple |-> Link(AuxName(p, n)),
   layer |-> FileAt(Name("transformer_layer", 0, n))]
FinalizeWiring(r, p) ==
  [activations |-> Link(RangeName(p, r.shape.layers - 1)), head |-> FileOf("head")]
NoWiring == [p \in {} |-> FileOf("none")]
SelectWiring(t) ==
  [logits |-> Link(FinalizeName(t - 1)),
   prior |-> Link(IF t = 0 THEN Single("decode_init") ELSE SelectName(t - 1))]
EmbedWiring(t) == [selected |-> Link(SelectName(t)), embedding |-> FileOf("embedding")]
OutputWiring(keys) == [edge |-> Link(keys.edge), decoder |-> FileOf("decoder")]

Wiring(r, name, keys) ==
  LET k == name[1]
      t == name[2]
      l == name[3]
  IN  CASE k = "prompt_merge_seed" -> SeedWiring
        [] k = "prompt_merge" -> MergeWiring(t)
        [] k = "prompt_prepare" -> PrepareWiring(keys)
        [] k = "input_embedding" -> EmbeddingWiring
        [] k = "prefill_prepare_aux" -> AuxWiring(-1, l)
        [] k = "prefill_range" -> RangeWiring(r, -1, l)
        [] k = "prefill_finalize" -> FinalizeWiring(r, -1)
        [] k = "decode_init" -> NoWiring
        [] k = "decode_select" -> SelectWiring(t)
        [] k = "decode_embed" -> EmbedWiring(t)
        [] k = "decode_aux" -> AuxWiring(t, l)
        [] k = "decode_range" -> RangeWiring(r, t, l)
        [] k = "decode_finalize" -> FinalizeWiring(r, t)
        [] OTHER -> OutputWiring(keys)
StageOf(r, name, keys) == StageWith(name, Wiring(r, name, keys))

LEMMA NameParts ==
  ASSUME NEW k, NEW t, NEW l
  PROVE  Name(k, t, l)[1] = k /\ Name(k, t, l)[2] = t /\ Name(k, t, l)[3] = l
<1> QED
  BY DEF Name

LEMMA WiringOf ==
  ASSUME NEW r, NEW keys
  PROVE  /\ \A t, l : Wiring(r, Name("prompt_merge_seed", t, l), keys) = SeedWiring
         /\ \A t, l : Wiring(r, Name("prompt_merge", t, l), keys) = MergeWiring(t)
         /\ \A t, l : Wiring(r, Name("prompt_prepare", t, l), keys) = PrepareWiring(keys)
         /\ \A t, l : Wiring(r, Name("input_embedding", t, l), keys) = EmbeddingWiring
         /\ \A t, l : Wiring(r, Name("prefill_prepare_aux", t, l), keys) = AuxWiring(-1, l)
         /\ \A t, l : Wiring(r, Name("prefill_range", t, l), keys) = RangeWiring(r, -1, l)
         /\ \A t, l : Wiring(r, Name("prefill_finalize", t, l), keys) = FinalizeWiring(r, -1)
         /\ \A t, l : Wiring(r, Name("decode_init", t, l), keys) = NoWiring
         /\ \A t, l : Wiring(r, Name("decode_select", t, l), keys) = SelectWiring(t)
         /\ \A t, l : Wiring(r, Name("decode_embed", t, l), keys) = EmbedWiring(t)
         /\ \A t, l : Wiring(r, Name("decode_aux", t, l), keys) = AuxWiring(t, l)
         /\ \A t, l : Wiring(r, Name("decode_range", t, l), keys) = RangeWiring(r, t, l)
         /\ \A t, l : Wiring(r, Name("decode_finalize", t, l), keys) = FinalizeWiring(r, t)
         /\ \A t, l : Wiring(r, Name("output_finalize", t, l), keys) = OutputWiring(keys)
<1>1. \A t, l : Wiring(r, Name("prompt_merge_seed", t, l), keys) = SeedWiring
  BY NameParts DEF Wiring
<1>2. \A t, l : Wiring(r, Name("prompt_merge", t, l), keys) = MergeWiring(t)
  BY NameParts DEF Wiring
<1>3. \A t, l : Wiring(r, Name("prompt_prepare", t, l), keys) = PrepareWiring(keys)
  BY NameParts DEF Wiring
<1>4. \A t, l : Wiring(r, Name("input_embedding", t, l), keys) = EmbeddingWiring
  BY NameParts DEF Wiring
<1>5. \A t, l : Wiring(r, Name("prefill_prepare_aux", t, l), keys) = AuxWiring(-1, l)
  BY NameParts DEF Wiring
<1>6. \A t, l : Wiring(r, Name("prefill_range", t, l), keys) = RangeWiring(r, -1, l)
  BY NameParts DEF Wiring
<1>7. \A t, l : Wiring(r, Name("prefill_finalize", t, l), keys) = FinalizeWiring(r, -1)
  BY NameParts DEF Wiring
<1>8. \A t, l : Wiring(r, Name("decode_init", t, l), keys) = NoWiring
  BY NameParts DEF Wiring
<1>9. \A t, l : Wiring(r, Name("decode_select", t, l), keys) = SelectWiring(t)
  BY NameParts DEF Wiring
<1>10. \A t, l : Wiring(r, Name("decode_embed", t, l), keys) = EmbedWiring(t)
  BY NameParts DEF Wiring
<1>11. \A t, l : Wiring(r, Name("decode_aux", t, l), keys) = AuxWiring(t, l)
  BY NameParts DEF Wiring
<1>12. \A t, l : Wiring(r, Name("decode_range", t, l), keys) = RangeWiring(r, t, l)
  BY NameParts DEF Wiring
<1>13. \A t, l : Wiring(r, Name("decode_finalize", t, l), keys) = FinalizeWiring(r, t)
  BY NameParts DEF Wiring
<1>14. \A t, l : Wiring(r, Name("output_finalize", t, l), keys) = OutputWiring(keys)
  BY NameParts DEF Wiring
<1> QED
  BY <1>1, <1>2, <1>3, <1>4, <1>5, <1>6, <1>7, <1>8, <1>9, <1>10, <1>11, <1>12, <1>13, <1>14

LEMMA PassNamesAre ==
  /\ \A n : /\ AuxName(-1, n) = Name("prefill_prepare_aux", 0, n)
            /\ RangeName(-1, n) = Name("prefill_range", 0, n)
  /\ FinalizeName(-1) = Single("prefill_finalize")
  /\ \A t \in Nat : /\ FinalizeName(t) = Name("decode_finalize", t, 0)
                    /\ \A n : /\ AuxName(t, n) = Name("decode_aux", t, n)
                              /\ RangeName(t, n) = Name("decode_range", t, n)
<1> QED
  BY DEF AuxName, RangeName, FinalizeName, PassName, Single

LEMMA FileBinds ==
  ASSUME NEW kind, NEW idx
  PROVE  BindsTo(File(kind), idx, FileOf(kind))
<1> QED
  BY ExternalBinds DEF File, FileOf

LEMMA PlainBinds ==
  ASSUME NEW kind, NEW idx
  PROVE  BindsTo(From(Plain(kind)), idx, Link(Single(kind)))
<1> QED
  BY PlainGives, TextBinds

LEMMA NumberText ==
  ASSUME NEW kind, NEW n, NEW idx
  PROVE  Gives(Text(kind, Zero, Number(n)), idx, Name(kind, 0, n))
<1>1. Fills(Zero, idx, 0) /\ Fills(Number(n), idx, n)
  BY NumberFills DEF Zero
<1> QED
  BY <1>1, TextGives

-----------------------------------------------------------------------------
(* The stages of the manifest outside the repeats.                         *)

Pushes(r, stage, name) == ExpandsTo(stage, NoIndex, StageOf(r, name, Keys))

LEMMA SeedPushes ==
  ASSUME NEW r
  PROVE  Pushes(r, SeedItem.stage, Single("prompt_merge_seed"))
<1> DEFINE inputs == [initial_pieces |-> File("pieces"), tokenizer |-> File("tokenizer")]
           w == SeedWiring
           template == One(Plain("prompt_merge_seed"), inputs)
<1>1. SeedItem.stage = template
  BY DEF SeedItem, TokenizeItems, StageItem
<1>2. template.name = Plain("prompt_merge_seed") /\ template.inputs = inputs
  BY DEF One, Each
<1>3. inputs.initial_pieces = File("pieces") /\ w.initial_pieces = FileOf("pieces")
  BY DEF SeedWiring
<1>4. inputs.tokenizer = File("tokenizer") /\ w.tokenizer = FileOf("tokenizer")
  BY DEF SeedWiring
<1>5. DOMAIN inputs = {"initial_pieces", "tokenizer"} /\ w = [p \in {"initial_pieces", "tokenizer"} |-> w[p]]
  BY DEF SeedWiring
<1>6. BindsTo(File("pieces"), NoIndex, FileOf("pieces"))
  BY FileBinds, PlainBinds
<1>7. BindsTo(File("tokenizer"), NoIndex, FileOf("tokenizer"))
  BY FileBinds, PlainBinds
<1>8. Gives(template.name, NoIndex, Single("prompt_merge_seed"))
  BY <1>2, PlainGives
<1>9. Wiring(r, Single("prompt_merge_seed"), Keys) = w
  BY WiringOf DEF Single
<1> HIDE DEF inputs, w, template
<1>10. \A p \in DOMAIN template.inputs : BindsTo(template.inputs[p], NoIndex, w[p])
  BY <1>2, <1>3, <1>4, <1>5, <1>6, <1>7
<1>11. w = [p \in DOMAIN template.inputs |-> w[p]]
  BY <1>2, <1>5
<1>12. ExpandsTo(template, NoIndex, StageWith(Single("prompt_merge_seed"), w))
  BY <1>8, <1>10, <1>11, TemplateExpands
<1> QED
  BY <1>1, <1>9, <1>12 DEF Pushes, StageOf

LEMMA PreparePushes ==
  ASSUME NEW r
  PROVE  Pushes(r, PrepareItem.stage, Single("prompt_prepare"))
<1> DEFINE inputs == [merged_pieces |-> From(Plain("tokenize.pieces")), tokenizer |-> File("tokenizer")]
           w == PrepareWiring(Keys)
           template == One(Plain("prompt_prepare"), inputs)
<1>1. PrepareItem.stage = template
  BY DEF PrepareItem, TokenizeItems, StageItem
<1>2. template.name = Plain("prompt_prepare") /\ template.inputs = inputs
  BY DEF One, Each
<1>3. inputs.merged_pieces = From(Plain("tokenize.pieces")) /\ w.merged_pieces = Link(Single("tokenize.pieces"))
  BY DEF PrepareWiring, Keys
<1>4. inputs.tokenizer = File("tokenizer") /\ w.tokenizer = FileOf("tokenizer")
  BY DEF PrepareWiring, Keys
<1>5. DOMAIN inputs = {"merged_pieces", "tokenizer"} /\ w = [p \in {"merged_pieces", "tokenizer"} |-> w[p]]
  BY DEF PrepareWiring
<1>6. BindsTo(From(Plain("tokenize.pieces")), NoIndex, Link(Single("tokenize.pieces")))
  BY FileBinds, PlainBinds
<1>7. BindsTo(File("tokenizer"), NoIndex, FileOf("tokenizer"))
  BY FileBinds, PlainBinds
<1>8. Gives(template.name, NoIndex, Single("prompt_prepare"))
  BY <1>2, PlainGives
<1>9. Wiring(r, Single("prompt_prepare"), Keys) = w
  BY WiringOf DEF Single
<1> HIDE DEF inputs, w, template
<1>10. \A p \in DOMAIN template.inputs : BindsTo(template.inputs[p], NoIndex, w[p])
  BY <1>2, <1>3, <1>4, <1>5, <1>6, <1>7
<1>11. w = [p \in DOMAIN template.inputs |-> w[p]]
  BY <1>2, <1>5
<1>12. ExpandsTo(template, NoIndex, StageWith(Single("prompt_prepare"), w))
  BY <1>8, <1>10, <1>11, TemplateExpands
<1> QED
  BY <1>1, <1>9, <1>12 DEF Pushes, StageOf

LEMMA EmbeddingPushes ==
  ASSUME NEW r
  PROVE  Pushes(r, EmbeddingItem.stage, Single("input_embedding"))
<1> DEFINE inputs == [prompt |-> From(Plain("prompt_prepare")), embedding |-> File("embedding")]
           w == EmbeddingWiring
           template == One(Plain("input_embedding"), inputs)
<1>1. EmbeddingItem.stage = template
  BY DEF EmbeddingItem, StageItem
<1>2. template.name = Plain("input_embedding") /\ template.inputs = inputs
  BY DEF One, Each
<1>3. inputs.prompt = From(Plain("prompt_prepare")) /\ w.prompt = Link(Single("prompt_prepare"))
  BY DEF EmbeddingWiring
<1>4. inputs.embedding = File("embedding") /\ w.embedding = FileOf("embedding")
  BY DEF EmbeddingWiring
<1>5. DOMAIN inputs = {"prompt", "embedding"} /\ w = [p \in {"prompt", "embedding"} |-> w[p]]
  BY DEF EmbeddingWiring
<1>6. BindsTo(From(Plain("prompt_prepare")), NoIndex, Link(Single("prompt_prepare")))
  BY FileBinds, PlainBinds
<1>7. BindsTo(File("embedding"), NoIndex, FileOf("embedding"))
  BY FileBinds, PlainBinds
<1>8. Gives(template.name, NoIndex, Single("input_embedding"))
  BY <1>2, PlainGives
<1>9. Wiring(r, Single("input_embedding"), Keys) = w
  BY WiringOf DEF Single
<1> HIDE DEF inputs, w, template
<1>10. \A p \in DOMAIN template.inputs : BindsTo(template.inputs[p], NoIndex, w[p])
  BY <1>2, <1>3, <1>4, <1>5, <1>6, <1>7
<1>11. w = [p \in DOMAIN template.inputs |-> w[p]]
  BY <1>2, <1>5
<1>12. ExpandsTo(template, NoIndex, StageWith(Single("input_embedding"), w))
  BY <1>8, <1>10, <1>11, TemplateExpands
<1> QED
  BY <1>1, <1>9, <1>12 DEF Pushes, StageOf

LEMMA OutputPushes ==
  ASSUME NEW r
  PROVE  Pushes(r, OutputItem.stage, Single("output_finalize"))
<1> DEFINE inputs == [edge |-> From(Plain("decode.edge")), decoder |-> File("decoder")]
           w == OutputWiring(Keys)
           template == One(Plain("output_finalize"), inputs)
<1>1. OutputItem.stage = template
  BY DEF OutputItem, StageItem
<1>2. template.name = Plain("output_finalize") /\ template.inputs = inputs
  BY DEF One, Each
<1>3. inputs.edge = From(Plain("decode.edge")) /\ w.edge = Link(Single("decode.edge"))
  BY DEF OutputWiring, Keys
<1>4. inputs.decoder = File("decoder") /\ w.decoder = FileOf("decoder")
  BY DEF OutputWiring, Keys
<1>5. DOMAIN inputs = {"edge", "decoder"} /\ w = [p \in {"edge", "decoder"} |-> w[p]]
  BY DEF OutputWiring
<1>6. BindsTo(From(Plain("decode.edge")), NoIndex, Link(Single("decode.edge")))
  BY FileBinds, PlainBinds
<1>7. BindsTo(File("decoder"), NoIndex, FileOf("decoder"))
  BY FileBinds, PlainBinds
<1>8. Gives(template.name, NoIndex, Single("output_finalize"))
  BY <1>2, PlainGives
<1>9. Wiring(r, Single("output_finalize"), Keys) = w
  BY WiringOf DEF Single
<1> HIDE DEF inputs, w, template
<1>10. \A p \in DOMAIN template.inputs : BindsTo(template.inputs[p], NoIndex, w[p])
  BY <1>2, <1>3, <1>4, <1>5, <1>6, <1>7
<1>11. w = [p \in DOMAIN template.inputs |-> w[p]]
  BY <1>2, <1>5
<1>12. ExpandsTo(template, NoIndex, StageWith(Single("output_finalize"), w))
  BY <1>8, <1>10, <1>11, TemplateExpands
<1> QED
  BY <1>1, <1>9, <1>12 DEF Pushes, StageOf

LEMMA InitPushes ==
  ASSUME NEW r
  PROVE  Pushes(r, InitItem.stage, Single("decode_init"))
<1> DEFINE template == One(Plain("decode_init"), NoInputs)
<1>1. InitItem.stage = template
  BY DEF InitItem, StageItem
<1>2. template.name = Plain("decode_init") /\ template.inputs = NoInputs
  BY DEF One, Each
<1>3. DOMAIN NoInputs = {} /\ NoWiring = [p \in {} |-> NoWiring[p]]
  BY DEF NoInputs, NoWiring
<1>4. Gives(template.name, NoIndex, Single("decode_init"))
  BY <1>2, PlainGives
<1>5. Wiring(r, Single("decode_init"), Keys) = NoWiring
  BY WiringOf DEF Single
<1> HIDE DEF template
<1>6. ExpandsTo(template, NoIndex, StageWith(Single("decode_init"), NoWiring))
  <2>1. \A p \in DOMAIN template.inputs : BindsTo(template.inputs[p], NoIndex, NoWiring[p])
    BY <1>2, <1>3
  <2>2. NoWiring = [p \in DOMAIN template.inputs |-> NoWiring[p]]
    BY <1>2, <1>3
  <2> QED
    BY <1>4, <2>1, <2>2, TemplateExpands
<1> QED
  BY <1>1, <1>5, <1>6 DEF Pushes, StageOf

LEMMA AuxPushes ==
  ASSUME NEW r, NEW n
  PROVE  Pushes(r, AuxItem(n).stage, Name("prefill_prepare_aux", 0, n))
<1> DEFINE inputs == [embedded |-> From(Plain("input_embedding")), layer |-> External(Name("aux_layer", 0, n))]
           w == AuxWiring(-1, n)
           text == Text("prefill_prepare_aux", Zero, Number(n))
           name == Name("prefill_prepare_aux", 0, n)
           template == One(text, inputs)
<1>1. AuxItem(n).stage = template
  BY DEF AuxItem, StageItem
<1>2. template.name = text /\ template.inputs = inputs
  BY DEF One, Each
<1>3. inputs.embedded = From(Plain("input_embedding")) /\ w.embedded = Link(Single("input_embedding"))
  BY DEF AuxWiring, StartOf, Embedding
<1>4. inputs.layer = External(Name("aux_layer", 0, n)) /\ w.layer = FileAt(Name("aux_layer", 0, n))
  BY DEF AuxWiring
<1>5. DOMAIN inputs = {"embedded", "layer"} /\ w = [p \in {"embedded", "layer"} |-> w[p]]
  BY DEF AuxWiring
<1>6. BindsTo(From(Plain("input_embedding")), NoIndex, Link(Single("input_embedding")))
  BY PlainBinds
<1>7. BindsTo(External(Name("aux_layer", 0, n)), NoIndex, FileAt(Name("aux_layer", 0, n)))
  BY ExternalBinds
<1>8. Gives(template.name, NoIndex, name)
  BY <1>2, NumberText
<1>9. Wiring(r, name, Keys) = w
  BY WiringOf
<1> HIDE DEF inputs, w, template, name
<1>10. \A p \in DOMAIN template.inputs : BindsTo(template.inputs[p], NoIndex, w[p])
  BY <1>2, <1>3, <1>4, <1>5, <1>6, <1>7
<1>11. w = [p \in DOMAIN template.inputs |-> w[p]]
  BY <1>2, <1>5
<1>12. ExpandsTo(template, NoIndex, StageWith(name, w))
  BY <1>8, <1>10, <1>11, TemplateExpands
<1> QED
  BY <1>1, <1>9, <1>12 DEF Pushes, StageOf, name

LEMMA HeadPushes ==
  ASSUME NEW r
  PROVE  Pushes(r, HeadItem(r.shape).stage, Single("prefill_finalize"))
<1> DEFINE last == r.shape.layers - 1
           inputs == [activations |-> From(Text("prefill_range", Zero, Number(last))), head |-> File("head")]
           w == FinalizeWiring(r, -1)
           name == Single("prefill_finalize")
           template == One(Plain("prefill_finalize"), inputs)
<1>1. HeadItem(r.shape).stage = template
  BY DEF HeadItem, StageItem
<1>2. template.name = Plain("prefill_finalize") /\ template.inputs = inputs
  BY DEF One, Each
<1>3. inputs.activations = From(Text("prefill_range", Zero, Number(last))) /\ w.activations = Link(Name("prefill_range", 0, last))
  BY PassNamesAre DEF FinalizeWiring
<1>4. inputs.head = File("head") /\ w.head = FileOf("head")
  BY DEF FinalizeWiring
<1>5. DOMAIN inputs = {"activations", "head"} /\ w = [p \in {"activations", "head"} |-> w[p]]
  BY DEF FinalizeWiring
<1> HIDE DEF last
<1>6. BindsTo(From(Text("prefill_range", Zero, Number(last))), NoIndex, Link(Name("prefill_range", 0, last)))
  BY NumberText, TextBinds
<1>7. BindsTo(File("head"), NoIndex, FileOf("head"))
  BY FileBinds
<1>8. Gives(template.name, NoIndex, name)
  BY <1>2, PlainGives
<1>9. Wiring(r, name, Keys) = w
  BY WiringOf DEF Single
<1> HIDE DEF inputs, w, template, name
<1>10. \A p \in DOMAIN template.inputs : BindsTo(template.inputs[p], NoIndex, w[p])
  BY <1>2, <1>3, <1>4, <1>5, <1>6, <1>7
<1>11. w = [p \in DOMAIN template.inputs |-> w[p]]
  BY <1>2, <1>5
<1>12. ExpandsTo(template, NoIndex, StageWith(name, w))
  BY <1>8, <1>10, <1>11, TemplateExpands
<1> QED
  BY <1>1, <1>9, <1>12 DEF Pushes, StageOf, name

RangeParams == {"activations", "prior_kv", "donor_a_kv", "donor_b_kv", "ple", "layer"}

LEMMA RangePushes ==
  ASSUME NEW r, NEW n \in Int
  PROVE  Pushes(r, RangeItem(r.shape, n).stage, Name("prefill_range", 0, n))
<1> DEFINE s == r.shape
           lower == IF n = 0 THEN From(Plain("input_embedding")) ELSE From(Text("prefill_range", Zero, Number(n - 1)))
           inputs == [activations |-> lower,
                      prior_kv |-> From(Plain("input_embedding")),
                      donor_a_kv |-> PrefillDonor(s, n, DonorA(s)),
                      donor_b_kv |-> PrefillDonor(s, n, DonorB(s)),
                      ple |-> From(Text("prefill_prepare_aux", Zero, Number(n))),
                      layer |-> External(Name("transformer_layer", 0, n))]
           w == RangeWiring(r, -1, n)
           text == Text("prefill_range", Zero, Number(n))
           name == Name("prefill_range", 0, n)
           template == One(text, inputs)
<1>1. RangeItem(r.shape, n).stage = template
  BY DEF RangeItem, StageItem
<1>2. template.name = text /\ template.inputs = inputs
  BY DEF One, Each
<1>3. BindsTo(lower, NoIndex, Link(LowerOf(-1, n)))
  <2>1. CASE n = 0
    <3>1. lower = From(Plain("input_embedding")) /\ LowerOf(-1, n) = Single("input_embedding")
      BY <2>1 DEF LowerOf, StartOf, Embedding
    <3> QED
      BY <3>1, PlainBinds
  <2>2. CASE n # 0
    <3>1. lower = From(Text("prefill_range", Zero, Number(n - 1))) /\ LowerOf(-1, n) = Name("prefill_range", 0, n - 1)
      BY <2>2, PassNamesAre DEF LowerOf
    <3> QED
      BY <3>1, NumberText, TextBinds
  <2> QED
    BY <2>1, <2>2
<1>4. BindsTo(From(Plain("input_embedding")), NoIndex, Link(PriorOf(-1, n)))
  BY PlainBinds DEF PriorOf, Embedding
<1>5. ASSUME NEW d PROVE BindsTo(PrefillDonor(s, n, d), NoIndex, Link(DonorOf(r, -1, n, d)))
  <2>1. CASE n < FirstShared(s)
    BY <2>1, PlainBinds DEF PrefillDonor, DonorOf, Embedding
  <2>2. CASE ~(n < FirstShared(s))
    <3>1. PrefillDonor(s, n, d) = From(Text("prefill_range", Zero, Number(d)))
          /\ DonorOf(r, -1, n, d) = Name("prefill_range", 0, d)
      BY <2>2, PassNamesAre DEF PrefillDonor, DonorOf
    <3> QED
      BY <3>1, NumberText, TextBinds
  <2> QED
    BY <2>1, <2>2
<1>6. BindsTo(From(Text("prefill_prepare_aux", Zero, Number(n))), NoIndex, Link(AuxName(-1, n)))
  BY NumberText, TextBinds, PassNamesAre
<1>7. BindsTo(External(Name("transformer_layer", 0, n)), NoIndex, FileAt(Name("transformer_layer", 0, n)))
  BY ExternalBinds
<1>8. Gives(template.name, NoIndex, name)
  BY <1>2, NumberText
<1>9. Wiring(r, name, Keys) = w
  BY WiringOf
<1>10. DOMAIN inputs = RangeParams /\ w = [p \in RangeParams |-> w[p]]
  BY DEF RangeWiring, RangeParams
<1>11. /\ inputs.activations = lower
       /\ inputs.prior_kv = From(Plain("input_embedding"))
       /\ inputs.donor_a_kv = PrefillDonor(s, n, DonorA(s))
       /\ inputs.donor_b_kv = PrefillDonor(s, n, DonorB(s))
       /\ inputs.ple = From(Text("prefill_prepare_aux", Zero, Number(n)))
       /\ inputs.layer = External(Name("transformer_layer", 0, n))
  OBVIOUS
<1>12. /\ w.activations = Link(LowerOf(-1, n))
       /\ w.prior_kv = Link(PriorOf(-1, n))
       /\ w.donor_a_kv = Link(DonorOf(r, -1, n, DonorA(s)))
       /\ w.donor_b_kv = Link(DonorOf(r, -1, n, DonorB(s)))
       /\ w.ple = Link(AuxName(-1, n))
       /\ w.layer = FileAt(Name("transformer_layer", 0, n))
  BY DEF RangeWiring
<1> HIDE DEF inputs, w, template, name, lower
<1>13. \A p \in RangeParams : BindsTo(inputs[p], NoIndex, w[p])
  BY <1>3, <1>4, <1>5, <1>6, <1>7, <1>11, <1>12 DEF RangeParams
<1>14. ExpandsTo(template, NoIndex, StageWith(name, w))
  <2>1. \A p \in DOMAIN template.inputs : BindsTo(template.inputs[p], NoIndex, w[p])
    BY <1>2, <1>10, <1>13
  <2>2. w = [p \in DOMAIN template.inputs |-> w[p]]
    BY <1>2, <1>10
  <2> QED
    BY <1>8, <2>1, <2>2, TemplateExpands
<1> QED
  BY <1>1, <1>9, <1>14 DEF Pushes, StageOf, name

-----------------------------------------------------------------------------
(* The templates of the repeats.                                           *)

MergeTemplate ==
  One(Text("prompt_merge", B, Zero),
      [initial_pieces |-> FromOr(Text("prompt_merge", Previous("b"), Zero), Plain("prompt_merge_seed")),
       tokenizer |-> File("tokenizer")])
SelectTemplate ==
  One(Text("decode_select", T, Zero),
      [logits |-> FromOr(Text("decode_finalize", Previous("t"), Zero), Plain("prefill_finalize")),
       prior |-> FromOr(Text("decode_select", Previous("t"), Zero), Plain("decode_init"))])
EmbedTemplate ==
  One(Text("decode_embed", T, Zero),
      [selected |-> From(Text("decode_select", T, Zero)), embedding |-> File("embedding")])
AuxTemplate(s) ==
  Each(Text("decode_aux", T, L), "l", 0, s.layers,
       [embedded |-> From(Text("decode_embed", T, Zero)), layer |-> Weights("aux_layer")])
FinalizeTemplate(s) ==
  One(Text("decode_finalize", T, Zero),
      [activations |-> From(Text("decode_range", T, Number(s.layers - 1))), head |-> File("head")])

LEMMA MergeExpands ==
  ASSUME NEW r, NEW idx, NEW b \in Nat, HasIndex(idx, "b", b, 0)
  PROVE  ExpandsTo(MergeTemplate, idx, StageOf(r, Name("prompt_merge", b, 0), Keys))
<1> DEFINE before == Text("prompt_merge", Previous("b"), Zero)
           inputs == [initial_pieces |-> FromOr(before, Plain("prompt_merge_seed")), tokenizer |-> File("tokenizer")]
           w == MergeWiring(b)
           name == Name("prompt_merge", b, 0)
<1>1. /\ Fills(B, idx, b) /\ Fills(Zero, idx, 0)
      /\ b # 0 => Fills(Previous("b"), idx, b - 1)
      /\ b = 0 => PlaceOutcome(Previous("b"), idx) = "underflow"
  BY IndexFills, NumberFills DEF B, Zero
<1>2. Gives(Text("prompt_merge", B, Zero), idx, name)
  BY <1>1, TextGives
<1>3. BindsTo(FromOr(before, Plain("prompt_merge_seed")), idx, Link(MergeSource(b)))
  <2>1. CASE b = 0
    <3>1. Outcome(before, idx) = "underflow" /\ MergeSource(b) = Single("prompt_merge_seed")
      BY <1>1, <2>1, TextUnderflows DEF MergeSource
    <3>2. Gives(Plain("prompt_merge_seed"), idx, Single("prompt_merge_seed"))
      BY PlainGives
    <3> HIDE DEF before
    <3> QED
      BY <3>1, <3>2, FallbackBinds
  <2>2. CASE b # 0
    <3>1. Gives(before, idx, Name("prompt_merge", b - 1, 0)) /\ MergeSource(b) = Name("prompt_merge", b - 1, 0)
      BY <1>1, <2>2, TextGives DEF MergeSource
    <3> HIDE DEF before
    <3> QED
      BY <3>1, TextBinds
  <2> QED
    BY <2>1, <2>2
<1>4. BindsTo(File("tokenizer"), idx, FileOf("tokenizer"))
  BY FileBinds
<1>5. MergeTemplate.name = Text("prompt_merge", B, Zero) /\ MergeTemplate.inputs = inputs
  BY DEF MergeTemplate, One, Each
<1>6. /\ inputs.initial_pieces = FromOr(before, Plain("prompt_merge_seed")) /\ w.initial_pieces = Link(MergeSource(b))
      /\ inputs.tokenizer = File("tokenizer") /\ w.tokenizer = FileOf("tokenizer")
      /\ DOMAIN inputs = {"initial_pieces", "tokenizer"} /\ w = [p \in {"initial_pieces", "tokenizer"} |-> w[p]]
  BY DEF MergeWiring
<1>7. Wiring(r, name, Keys) = w
  BY WiringOf
<1> HIDE DEF inputs, w, name, before
<1>8. ExpandsTo(MergeTemplate, idx, StageWith(name, w))
  <2>1. \A p \in DOMAIN MergeTemplate.inputs : BindsTo(MergeTemplate.inputs[p], idx, w[p])
    BY <1>3, <1>4, <1>5, <1>6
  <2>2. w = [p \in DOMAIN MergeTemplate.inputs |-> w[p]]
    BY <1>5, <1>6
  <2>3. Gives(MergeTemplate.name, idx, name)
    BY <1>2, <1>5
  <2> QED
    BY <2>1, <2>2, <2>3, TemplateExpands
<1> QED
  BY <1>7, <1>8 DEF StageOf, name

LEMMA SelectExpands ==
  ASSUME NEW r, NEW idx, NEW t \in Nat, HasIndex(idx, "t", t, 0)
  PROVE  ExpandsTo(SelectTemplate, idx, StageOf(r, Name("decode_select", t, 0), Keys))
<1> DEFINE before == Text("decode_finalize", Previous("t"), Zero)
           former == Text("decode_select", Previous("t"), Zero)
           inputs == [logits |-> FromOr(before, Plain("prefill_finalize")), prior |-> FromOr(former, Plain("decode_init"))]
           w == SelectWiring(t)
           name == Name("decode_select", t, 0)
           edgeOf == IF t = 0 THEN Single("decode_init") ELSE SelectName(t - 1)
<1>1. /\ Fills(T, idx, t) /\ Fills(Zero, idx, 0)
      /\ t # 0 => Fills(Previous("t"), idx, t - 1)
      /\ t = 0 => PlaceOutcome(Previous("t"), idx) = "underflow"
  BY IndexFills, NumberFills DEF T, Zero
<1>2. Gives(Text("decode_select", T, Zero), idx, name)
  BY <1>1, TextGives
<1>3. BindsTo(FromOr(before, Plain("prefill_finalize")), idx, Link(FinalizeName(t - 1)))
  <2>1. CASE t = 0
    <3>1. Outcome(before, idx) = "underflow" /\ FinalizeName(t - 1) = Single("prefill_finalize")
      BY <1>1, <2>1, TextUnderflows, PassNamesAre
    <3>2. Gives(Plain("prefill_finalize"), idx, Single("prefill_finalize"))
      BY PlainGives
    <3> HIDE DEF before
    <3> QED
      BY <3>1, <3>2, FallbackBinds
  <2>2. CASE t # 0
    <3>0. t - 1 \in Nat
      BY <2>2
    <3>1. Gives(before, idx, Name("decode_finalize", t - 1, 0)) /\ FinalizeName(t - 1) = Name("decode_finalize", t - 1, 0)
      BY <1>1, <2>2, <3>0, TextGives, PassNamesAre
    <3> HIDE DEF before
    <3> QED
      BY <3>1, TextBinds
  <2> QED
    BY <2>1, <2>2
<1>4. BindsTo(FromOr(former, Plain("decode_init")), idx, Link(edgeOf))
  <2>1. CASE t = 0
    <3>1. Outcome(former, idx) = "underflow" /\ edgeOf = Single("decode_init")
      BY <1>1, <2>1, TextUnderflows
    <3>2. Gives(Plain("decode_init"), idx, Single("decode_init"))
      BY PlainGives
    <3> HIDE DEF former, edgeOf
    <3> QED
      BY <3>1, <3>2, FallbackBinds
  <2>2. CASE t # 0
    <3>1. Gives(former, idx, Name("decode_select", t - 1, 0)) /\ edgeOf = Name("decode_select", t - 1, 0)
      BY <1>1, <2>2, TextGives DEF SelectName
    <3> HIDE DEF former, edgeOf
    <3> QED
      BY <3>1, TextBinds
  <2> QED
    BY <2>1, <2>2
<1>5. SelectTemplate.name = Text("decode_select", T, Zero) /\ SelectTemplate.inputs = inputs
  BY DEF SelectTemplate, One, Each
<1>6. /\ inputs.logits = FromOr(before, Plain("prefill_finalize")) /\ w.logits = Link(FinalizeName(t - 1))
      /\ inputs.prior = FromOr(former, Plain("decode_init")) /\ w.prior = Link(edgeOf)
      /\ DOMAIN inputs = {"logits", "prior"} /\ w = [p \in {"logits", "prior"} |-> w[p]]
  BY DEF SelectWiring
<1>7. Wiring(r, name, Keys) = w
  BY WiringOf
<1> HIDE DEF inputs, w, name, before, former, edgeOf
<1>8. ExpandsTo(SelectTemplate, idx, StageWith(name, w))
  <2>1. \A p \in DOMAIN SelectTemplate.inputs : BindsTo(SelectTemplate.inputs[p], idx, w[p])
    BY <1>3, <1>4, <1>5, <1>6
  <2>2. w = [p \in DOMAIN SelectTemplate.inputs |-> w[p]]
    BY <1>5, <1>6
  <2>3. Gives(SelectTemplate.name, idx, name)
    BY <1>2, <1>5
  <2> QED
    BY <2>1, <2>2, <2>3, TemplateExpands
<1> QED
  BY <1>7, <1>8 DEF StageOf, name

LEMMA EmbedExpands ==
  ASSUME NEW r, NEW idx, NEW t \in Nat, HasIndex(idx, "t", t, 0)
  PROVE  ExpandsTo(EmbedTemplate, idx, StageOf(r, Name("decode_embed", t, 0), Keys))
<1> DEFINE select == Text("decode_select", T, Zero)
           inputs == [selected |-> From(select), embedding |-> File("embedding")]
           w == EmbedWiring(t)
           name == Name("decode_embed", t, 0)
<1>1. Fills(T, idx, t) /\ Fills(Zero, idx, 0)
  BY IndexFills, NumberFills DEF T, Zero
<1>2. Gives(Text("decode_embed", T, Zero), idx, name)
  BY <1>1, TextGives
<1>3. BindsTo(From(select), idx, Link(SelectName(t)))
  <2>1. Gives(select, idx, SelectName(t))
    BY <1>1, TextGives DEF SelectName
  <2> HIDE DEF select
  <2> QED
    BY <2>1, TextBinds
<1>4. BindsTo(File("embedding"), idx, FileOf("embedding"))
  BY FileBinds
<1>5. EmbedTemplate.name = Text("decode_embed", T, Zero) /\ EmbedTemplate.inputs = inputs
  BY DEF EmbedTemplate, One, Each
<1>6. /\ inputs.selected = From(select) /\ w.selected = Link(SelectName(t))
      /\ inputs.embedding = File("embedding") /\ w.embedding = FileOf("embedding")
      /\ DOMAIN inputs = {"selected", "embedding"} /\ w = [p \in {"selected", "embedding"} |-> w[p]]
  BY DEF EmbedWiring
<1>7. Wiring(r, name, Keys) = w
  BY WiringOf
<1> HIDE DEF inputs, w, name, select
<1>8. ExpandsTo(EmbedTemplate, idx, StageWith(name, w))
  <2>1. \A p \in DOMAIN EmbedTemplate.inputs : BindsTo(EmbedTemplate.inputs[p], idx, w[p])
    BY <1>3, <1>4, <1>5, <1>6
  <2>2. w = [p \in DOMAIN EmbedTemplate.inputs |-> w[p]]
    BY <1>5, <1>6
  <2>3. Gives(EmbedTemplate.name, idx, name)
    BY <1>2, <1>5
  <2> QED
    BY <2>1, <2>2, <2>3, TemplateExpands
<1> QED
  BY <1>7, <1>8 DEF StageOf, name

LEMMA FinalizeExpands ==
  ASSUME NEW r, NEW idx, NEW t \in Nat, HasIndex(idx, "t", t, 0)
  PROVE  ExpandsTo(FinalizeTemplate(r.shape), idx, StageOf(r, Name("decode_finalize", t, 0), Keys))
<1> DEFINE last == r.shape.layers - 1
           upper == Text("decode_range", T, Number(last))
           inputs == [activations |-> From(upper), head |-> File("head")]
           w == FinalizeWiring(r, t)
           name == Name("decode_finalize", t, 0)
           template == FinalizeTemplate(r.shape)
<1>1. Fills(T, idx, t) /\ Fills(Zero, idx, 0) /\ Fills(Number(last), idx, last)
  BY IndexFills, NumberFills DEF T, Zero
<1>2. Gives(Text("decode_finalize", T, Zero), idx, name)
  BY <1>1, TextGives
<1>5. template.name = Text("decode_finalize", T, Zero) /\ template.inputs = inputs
  BY DEF FinalizeTemplate, One, Each
<1>6. /\ inputs.activations = From(upper) /\ w.activations = Link(RangeName(t, last))
      /\ inputs.head = File("head") /\ w.head = FileOf("head")
      /\ DOMAIN inputs = {"activations", "head"} /\ w = [p \in {"activations", "head"} |-> w[p]]
  BY DEF FinalizeWiring
<1>3. BindsTo(From(upper), idx, Link(RangeName(t, last)))
  <2> HIDE DEF last
  <2>1. Gives(upper, idx, RangeName(t, last))
    BY <1>1, TextGives, PassNamesAre
  <2> HIDE DEF upper
  <2> QED
    BY <2>1, TextBinds
<1>4. BindsTo(File("head"), idx, FileOf("head"))
  BY FileBinds
<1>7. Wiring(r, name, Keys) = w
  BY WiringOf
<1>9. template = FinalizeTemplate(r.shape)
  OBVIOUS
<1> HIDE DEF inputs, w, name, upper, last, template
<1>8. ExpandsTo(template, idx, StageWith(name, w))
  <2>1. \A p \in DOMAIN template.inputs : BindsTo(template.inputs[p], idx, w[p])
    BY <1>3, <1>4, <1>5, <1>6
  <2>2. w = [p \in DOMAIN template.inputs |-> w[p]]
    BY <1>5, <1>6
  <2>3. Gives(template.name, idx, name)
    BY <1>2, <1>5
  <2> QED
    BY <2>1, <2>2, <2>3, TemplateExpands
<1> QED
  BY <1>7, <1>8, <1>9 DEF StageOf, name

(* The weights of a layer are declared inputs. *)
ManifestIs(r) == manifest = ManifestOf(r.shape, r.tokens, r.batches)

LEMMA DeclaredInputs ==
  ASSUME NEW r, IsRun(r), ManifestIs(r),
         NEW kind \in {"aux_layer", "transformer_layer"}, NEW n \in 0 .. (r.shape.layers - 1)
  PROVE  Name(kind, 0, n) \in DOMAIN Inputs /\ Inputs[Name(kind, 0, n)] = Name(kind, 0, n)
<1> DEFINE N == r.shape.layers
           declared == manifest.inputs
           name == Name(kind, 0, n)
<1>1. N \in Nat
  BY DEF IsRun, IsShape
<1>2. declared = [f \in {"aux_layer", "transformer_layer"} |-> [m \in 1 .. N |-> Name(f, 0, m - 1)]]
  BY DEF ManifestIs, ManifestOf, IndexedInputs
<1>3. DOMAIN declared = {"aux_layer", "transformer_layer"}
  BY <1>2
<1>4. declared[kind] = [m \in 1 .. N |-> Name(kind, 0, m - 1)]
  BY <1>2
<1>5. n + 1 \in 1 .. N /\ (n + 1) - 1 = n
  BY <1>1
<1>6. n + 1 \in DOMAIN declared[kind] /\ declared[kind][n + 1] = name
  BY <1>4, <1>5
<1> HIDE DEF N, declared
<1>7. name \in {Name(kind, 0, m - 1) : m \in DOMAIN declared[kind]}
  BY <1>5, <1>6
<1> DEFINE all == UNION {{Name(f, 0, m - 1) : m \in DOMAIN declared[f]} : f \in DOMAIN declared}
<1>8. name \in all
  BY <1>3, <1>7
<1>9. Inputs = [x \in all |-> declared[x[1]][x[3] + 1]]
  BY DEF Inputs, declared
<1> HIDE DEF all
<1>10. name[1] = kind /\ name[3] = n
  BY NameParts
<1> QED
  BY <1>6, <1>8, <1>9, <1>10

LEMMA AuxExpands ==
  ASSUME NEW r, IsRun(r), ManifestIs(r), NEW idx, NEW t \in Nat, NEW n \in 0 .. (r.shape.layers - 1),
         HasIndex(idx, "t", t, 0), HasIndex(idx, "l", n, 0)
  PROVE  ExpandsTo(AuxTemplate(r.shape), idx, StageOf(r, Name("decode_aux", t, n), Keys))
<1> DEFINE embed == Text("decode_embed", T, Zero)
           inputs == [embedded |-> From(embed), layer |-> Weights("aux_layer")]
           w == AuxWiring(t, n)
           name == Name("decode_aux", t, n)
           template == AuxTemplate(r.shape)
           text == Text("decode_aux", T, L)
<1>0. n \in Int
  BY DEF IsRun, IsShape
<1>1. Fills(T, idx, t) /\ Fills(Zero, idx, 0) /\ Fills(L, idx, n)
  BY <1>0, IndexFills, NumberFills DEF T, Zero, L
<1>2. Gives(text, idx, name)
  BY <1>1, TextGives
<1>3. BindsTo(From(embed), idx, Link(StartOf(t)))
  <2>1. StartOf(t) = Name("decode_embed", t, 0)
    BY DEF StartOf, EmbedName
  <2>2. Gives(embed, idx, StartOf(t))
    BY <1>1, <2>1, TextGives
  <2> HIDE DEF embed
  <2> QED
    BY <2>2, TextBinds
<1>4. BindsTo(Weights("aux_layer"), idx, FileAt(Name("aux_layer", 0, n)))
  <2>1. Gives(Text("aux_layer", Zero, L), idx, Name("aux_layer", 0, n))
    BY <1>1, TextGives
  <2>2. Name("aux_layer", 0, n) \in DOMAIN Inputs /\ Inputs[Name("aux_layer", 0, n)] = Name("aux_layer", 0, n)
    BY DeclaredInputs
  <2>3. BindsTo(Input(Text("aux_layer", Zero, L)), idx, FileAt(Inputs[Name("aux_layer", 0, n)]))
    BY <2>1, <2>2, TextBinds
  <2> QED
    BY <2>2, <2>3 DEF Weights
<1>5. template.name = text /\ template.inputs = inputs
  BY DEF AuxTemplate, Each
<1>6. /\ inputs.embedded = From(embed) /\ w.embedded = Link(StartOf(t))
      /\ inputs.layer = Weights("aux_layer") /\ w.layer = FileAt(Name("aux_layer", 0, n))
      /\ DOMAIN inputs = {"embedded", "layer"} /\ w = [p \in {"embedded", "layer"} |-> w[p]]
  BY DEF AuxWiring
<1>7. Wiring(r, name, Keys) = w
  BY WiringOf
<1>9. template = AuxTemplate(r.shape)
  OBVIOUS
<1> HIDE DEF inputs, w, name, embed, template, text
<1>8. ExpandsTo(template, idx, StageWith(name, w))
  <2>1. \A p \in DOMAIN template.inputs : BindsTo(template.inputs[p], idx, w[p])
    BY <1>3, <1>4, <1>5, <1>6
  <2>2. w = [p \in DOMAIN template.inputs |-> w[p]]
    BY <1>5, <1>6
  <2>3. Gives(template.name, idx, name)
    BY <1>2, <1>5
  <2> QED
    BY <2>1, <2>2, <2>3, TemplateExpands
<1> QED
  BY <1>7, <1>8, <1>9 DEF StageOf, name

(* A layer of a pass, whichever repeat of the layers it belongs to. *)
LEMMA RangeExpands ==
  ASSUME NEW r, IsRun(r), ManifestIs(r), NEW idx, NEW t \in Nat, NEW n \in 0 .. (r.shape.layers - 1),
         NEW start \in Int, NEW count, NEW first, NEW a, NEW b,
         HasIndex(idx, "t", t, 0), HasIndex(idx, "l", n, start),
         n = start => Gives(first, idx, LowerOf(t, n)),
         n # start => n # 0,
         Gives(a, idx, DonorOf(r, t, n, DonorA(r.shape))),
         Gives(b, idx, DonorOf(r, t, n, DonorB(r.shape)))
  PROVE  ExpandsTo(DecodeRange(start, count, first, a, b), idx, StageOf(r, Name("decode_range", t, n), Keys))
<1> DEFINE before == Text("decode_range", T, Previous("l"))
           former == Text("decode_range", Previous("t"), L)
           earliest == Text("prefill_range", Zero, L)
           aux == Text("decode_aux", T, L)
           text == Text("decode_range", T, L)
           inputs == [activations |-> FromOr(before, first),
                      prior_kv |-> FromOr(former, earliest),
                      donor_a_kv |-> From(a), donor_b_kv |-> From(b),
                      ple |-> From(aux), layer |-> Weights("transformer_layer")]
           w == RangeWiring(r, t, n)
           name == Name("decode_range", t, n)
           template == DecodeRange(start, count, first, a, b)
<1>0. n \in Int
  BY DEF IsRun, IsShape
<1>1. /\ Fills(T, idx, t) /\ Fills(Zero, idx, 0) /\ Fills(L, idx, n)
      /\ t # 0 => Fills(Previous("t"), idx, t - 1)
      /\ t = 0 => PlaceOutcome(Previous("t"), idx) = "underflow"
      /\ n # start => Fills(Previous("l"), idx, n - 1)
      /\ n = start => PlaceOutcome(Previous("l"), idx) = "underflow"
  BY <1>0, IndexFills, NumberFills DEF T, Zero, L
<1>2. Gives(text, idx, name)
  BY <1>1, TextGives
<1>3. BindsTo(FromOr(before, first), idx, Link(LowerOf(t, n)))
  <2>1. CASE n = start
    <3>1. Outcome(before, idx) = "underflow"
      BY <1>1, <2>1, TextUnderflows
    <3> HIDE DEF before
    <3> QED
      BY <2>1, <3>1, FallbackBinds
  <2>2. CASE n # start
    <3>1. Gives(before, idx, Name("decode_range", t, n - 1))
      BY <1>1, <2>2, TextGives
    <3>2. LowerOf(t, n) = Name("decode_range", t, n - 1)
      BY <2>2, PassNamesAre DEF LowerOf
    <3> HIDE DEF before
    <3> QED
      BY <3>1, <3>2, TextBinds
  <2> QED
    BY <2>1, <2>2
<1>4. BindsTo(FromOr(former, earliest), idx, Link(PriorOf(t, n)))
  <2>1. CASE t = 0
    <3>1. Outcome(former, idx) = "underflow" /\ PriorOf(t, n) = Name("prefill_range", 0, n)
      BY <1>1, <2>1, TextUnderflows, PassNamesAre DEF PriorOf
    <3>2. Gives(earliest, idx, Name("prefill_range", 0, n))
      BY <1>1, TextGives
    <3> HIDE DEF former, earliest
    <3> QED
      BY <3>1, <3>2, FallbackBinds
  <2>2. CASE t # 0
    <3>0. t - 1 \in Nat /\ ~(t < 0)
      BY <2>2
    <3>1. Gives(former, idx, Name("decode_range", t - 1, n)) /\ PriorOf(t, n) = Name("decode_range", t - 1, n)
      BY <1>1, <2>2, <3>0, TextGives, PassNamesAre DEF PriorOf
    <3> HIDE DEF former, earliest
    <3> QED
      BY <3>1, TextBinds
  <2> QED
    BY <2>1, <2>2
<1>5. BindsTo(From(a), idx, Link(DonorOf(r, t, n, DonorA(r.shape))))
  BY TextBinds
<1>6. BindsTo(From(b), idx, Link(DonorOf(r, t, n, DonorB(r.shape))))
  BY TextBinds
<1>7. BindsTo(From(aux), idx, Link(AuxName(t, n)))
  <2>1. Gives(aux, idx, AuxName(t, n))
    BY <1>1, TextGives, PassNamesAre
  <2> HIDE DEF aux
  <2> QED
    BY <2>1, TextBinds
<1>8. BindsTo(Weights("transformer_layer"), idx, FileAt(Name("transformer_layer", 0, n)))
  <2>1. Gives(Text("transformer_layer", Zero, L), idx, Name("transformer_layer", 0, n))
    BY <1>1, TextGives
  <2>2. Name("transformer_layer", 0, n) \in DOMAIN Inputs
        /\ Inputs[Name("transformer_layer", 0, n)] = Name("transformer_layer", 0, n)
    BY DeclaredInputs
  <2>3. BindsTo(Input(Text("transformer_layer", Zero, L)), idx, FileAt(Inputs[Name("transformer_layer", 0, n)]))
    BY <2>1, <2>2, TextBinds
  <2> QED
    BY <2>2, <2>3 DEF Weights
<1>9. template.name = text /\ template.inputs = inputs
  BY DEF DecodeRange, Each
<1>10. Wiring(r, name, Keys) = w
  BY WiringOf
<1>11. DOMAIN inputs = RangeParams /\ w = [p \in RangeParams |-> w[p]]
  BY DEF RangeWiring, RangeParams
<1>12. /\ inputs.activations = FromOr(before, first)
       /\ inputs.prior_kv = FromOr(former, earliest)
       /\ inputs.donor_a_kv = From(a)
       /\ inputs.donor_b_kv = From(b)
       /\ inputs.ple = From(aux)
       /\ inputs.layer = Weights("transformer_layer")
  OBVIOUS
<1>13. /\ w.activations = Link(LowerOf(t, n))
       /\ w.prior_kv = Link(PriorOf(t, n))
       /\ w.donor_a_kv = Link(DonorOf(r, t, n, DonorA(r.shape)))
       /\ w.donor_b_kv = Link(DonorOf(r, t, n, DonorB(r.shape)))
       /\ w.ple = Link(AuxName(t, n))
       /\ w.layer = FileAt(Name("transformer_layer", 0, n))
  BY DEF RangeWiring
<1>14. template = DecodeRange(start, count, first, a, b)
  OBVIOUS
<1> HIDE DEF inputs, w, template, name, before, former, earliest, aux, text
<1>15. \A p \in RangeParams : BindsTo(inputs[p], idx, w[p])
  BY <1>3, <1>4, <1>5, <1>6, <1>7, <1>8, <1>12, <1>13 DEF RangeParams
<1>16. ExpandsTo(template, idx, StageWith(name, w))
  <2>1. \A p \in DOMAIN template.inputs : BindsTo(template.inputs[p], idx, w[p])
    BY <1>9, <1>11, <1>15
  <2>2. w = [p \in DOMAIN template.inputs |-> w[p]]
    BY <1>9, <1>11
  <2>3. Gives(template.name, idx, name)
    BY <1>2, <1>9
  <2> QED
    BY <2>1, <2>2, <2>3, TemplateExpands
<1> QED
  BY <1>10, <1>14, <1>16 DEF StageOf, name

OwnTemplate(s) ==
  DecodeRange(0, FirstShared(s), Text("decode_embed", T, Zero),
              Plain("input_embedding"), Plain("input_embedding"))
SharedTemplate(s) ==
  DecodeRange(FirstShared(s), s.shared, Text("decode_range", T, Number(Clip(FirstShared(s) - 1))),
              DecodeDonor(DonorA(s)), DecodeDonor(DonorB(s)))

LEMMA OwnExpands ==
  ASSUME NEW r, IsRun(r), ManifestIs(r), NEW idx, NEW t \in Nat, NEW n \in 0 .. (FirstShared(r.shape) - 1),
         HasIndex(idx, "t", t, 0), HasIndex(idx, "l", n, 0)
  PROVE  ExpandsTo(OwnTemplate(r.shape), idx, StageOf(r, Name("decode_range", t, n), Keys))
<1> DEFINE s == r.shape
           first == Text("decode_embed", T, Zero)
           donor == Plain("input_embedding")
<1>1. /\ s.layers \in Nat /\ s.shared \in Nat /\ FirstShared(s) \in Nat /\ FirstShared(s) = s.layers - s.shared
  BY BoundDonors DEF IsRun
<1>2. n \in 0 .. (s.layers - 1) /\ n < FirstShared(s)
  BY <1>1
<1>3. n = 0 => Gives(first, idx, LowerOf(t, n))
  <2>1. Fills(T, idx, t) /\ Fills(Zero, idx, 0)
    BY IndexFills, NumberFills DEF T, Zero
  <2>2. Gives(first, idx, Name("decode_embed", t, 0))
    BY <2>1, TextGives
  <2>3. n = 0 => LowerOf(t, n) = Name("decode_embed", t, 0)
    BY DEF LowerOf, StartOf, EmbedName
  <2> QED
    BY <2>2, <2>3
<1>4. \A d : Gives(donor, idx, DonorOf(r, t, n, d))
  <2>1. Gives(donor, idx, Single("input_embedding"))
    BY PlainGives
  <2>2. \A d : DonorOf(r, t, n, d) = Single("input_embedding")
    BY <1>2 DEF DonorOf, Embedding
  <2> QED
    BY <2>1, <2>2
<1>5. Gives(donor, idx, DonorOf(r, t, n, DonorA(s))) /\ Gives(donor, idx, DonorOf(r, t, n, DonorB(s)))
  BY <1>4
<1> HIDE DEF first, donor
<1>6. ExpandsTo(DecodeRange(0, FirstShared(s), first, donor, donor), idx, StageOf(r, Name("decode_range", t, n), Keys))
  BY <1>2, <1>3, <1>5, RangeExpands
<1> QED
  BY <1>6 DEF OwnTemplate, first, donor

LEMMA SharedExpands ==
  ASSUME NEW r, IsRun(r), ManifestIs(r), r.shape.shared > 0, NEW idx, NEW t \in Nat,
         NEW n \in FirstShared(r.shape) .. (r.shape.layers - 1),
         HasIndex(idx, "t", t, 0), HasIndex(idx, "l", n, FirstShared(r.shape))
  PROVE  ExpandsTo(SharedTemplate(r.shape), idx, StageOf(r, Name("decode_range", t, n), Keys))
<1> DEFINE s == r.shape
           F == FirstShared(s)
           first == Text("decode_range", T, Number(Clip(F - 1)))
           a == DecodeDonor(DonorA(s))
           b == DecodeDonor(DonorB(s))
<1>1. /\ s.layers \in Nat /\ s.shared \in Nat /\ F \in Nat /\ F = s.layers - s.shared /\ F > 0
      /\ DonorA(s) \in 0 .. (F - 1) /\ DonorB(s) \in 0 .. (F - 1)
  BY BoundDonors DEF IsRun
<1>2. n \in 0 .. (s.layers - 1) /\ ~(n < F) /\ F \in Int /\ n # 0
  BY <1>1
<1>3. n = F => Gives(first, idx, LowerOf(t, n))
  <2>1. Fills(T, idx, t) /\ Fills(Number(Clip(F - 1)), idx, Clip(F - 1))
    BY IndexFills, NumberFills DEF T
  <2>2. Clip(F - 1) = F - 1
    BY <1>1 DEF Clip
  <2>3. Gives(first, idx, Name("decode_range", t, F - 1))
    BY <2>1, <2>2, TextGives
  <2>4. n = F => LowerOf(t, n) = Name("decode_range", t, F - 1)
    BY <1>2, PassNamesAre DEF LowerOf
  <2> QED
    BY <2>3, <2>4
<1>4. ASSUME NEW d \in 0 .. (F - 1) PROVE Gives(DecodeDonor(d), idx, DonorOf(r, t, n, d))
  <2>1. ~(d < 0)
    BY <1>1
  <2>2. DecodeDonor(d) = Text("decode_range", T, Number(d))
    BY <2>1 DEF DecodeDonor
  <2>3. Fills(T, idx, t) /\ Fills(Number(d), idx, d)
    BY IndexFills, NumberFills DEF T
  <2>4. DonorOf(r, t, n, d) = Name("decode_range", t, d)
    BY <1>2, PassNamesAre DEF DonorOf
  <2> QED
    BY <2>2, <2>3, <2>4, TextGives
<1>5. Gives(a, idx, DonorOf(r, t, n, DonorA(s))) /\ Gives(b, idx, DonorOf(r, t, n, DonorB(s)))
  BY <1>1, <1>4
<1>6. SharedTemplate(s) = DecodeRange(F, s.shared, first, a, b)
  BY DEF SharedTemplate
<1>7. HasIndex(idx, "l", n, F)
  OBVIOUS
<1> HIDE DEF first, a, b, F
<1>8. ExpandsTo(DecodeRange(F, s.shared, first, a, b), idx, StageOf(r, Name("decode_range", t, n), Keys))
  BY <1>2, <1>3, <1>5, <1>7, RangeExpands
<1> QED
  BY <1>6, <1>8

-----------------------------------------------------------------------------
(* The parts of the repeats.                                               *)

LEMMA SingleItems ==
  /\ SeedItem.repeat = FALSE /\ PrepareItem.repeat = FALSE /\ EmbeddingItem.repeat = FALSE
  /\ InitItem.repeat = FALSE /\ OutputItem.repeat = FALSE
  /\ \A n : AuxItem(n).repeat = FALSE
  /\ \A s, n : RangeItem(s, n).repeat = FALSE
  /\ \A s : HeadItem(s).repeat = FALSE
<1>1. \A name, inputs : StageItem(name, inputs).repeat = FALSE
  BY DEF StageItem
<1>2. SeedItem.repeat = FALSE
  BY Triple DEF SeedItem, TokenizeItems, StageItem
<1>3. PrepareItem.repeat = FALSE
  BY Triple DEF PrepareItem, TokenizeItems, StageItem
<1> QED
  BY <1>1, <1>2, <1>3 DEF EmbeddingItem, InitItem, OutputItem, AuxItem, RangeItem, HeadItem

MergeExports ==
  [pieces |-> [key |-> Single("tokenize.pieces"), stage |-> Text("prompt_merge", B, Zero),
               entry |-> Single("prompt_merge_seed")]]
TokenExports ==
  [edge |-> [key |-> Single("decode.edge"), stage |-> Text("decode_select", T, Zero),
             entry |-> Single("decode_init")],
   logits |-> [key |-> Single("decode.logits"), stage |-> Text("decode_finalize", T, Zero),
               entry |-> Single("prefill_finalize")]]

LEMMA RepeatItems ==
  ASSUME NEW r
  PROVE  /\ MergeItem(r).repeat = TRUE /\ MergeItem(r).index = "b" /\ MergeItem(r).start = 0
         /\ MergeItem(r).count = r.batches /\ MergeItem(r).stages = <<MergeTemplate>>
         /\ MergeItem(r).exports = MergeExports
         /\ TokensItem(r).repeat = TRUE /\ TokensItem(r).index = "t" /\ TokensItem(r).start = 0
         /\ TokensItem(r).count = r.tokens /\ TokensItem(r).stages = DecodeStages(r.shape)
         /\ TokensItem(r).exports = TokenExports
<1>1. MergeItem(r) = RepeatItem("b", r.batches, <<MergeTemplate>>, MergeExports)
  BY Triple DEF MergeItem, TokenizeItems, MergeTemplate, MergeExports
<1>2. TokensItem(r) = RepeatItem("t", r.tokens, DecodeStages(r.shape), TokenExports)
  BY Triple DEF TokensItem, GenerationItems, TokenExports
<1> QED
  BY <1>1, <1>2 DEF RepeatItem

LEMMA DecodeParts ==
  ASSUME NEW r, IsRun(r)
  PROVE  LET s == r.shape
             D == DecodeStages(s)
         IN  /\ IsSequence(D) /\ Len(D) = IF s.shared = 0 THEN 5 ELSE 6
             /\ D[1] = SelectTemplate /\ D[2] = EmbedTemplate /\ D[3] = AuxTemplate(s)
             /\ D[4] = OwnTemplate(s)
             /\ s.shared = 0 => D[5] = FinalizeTemplate(s)
             /\ s.shared # 0 => D[5] = SharedTemplate(s) /\ D[6] = FinalizeTemplate(s)
<1> DEFINE s == r.shape
           D == DecodeStages(s)
           P == <<SelectTemplate, EmbedTemplate, AuxTemplate(s)>>
           O == <<OwnTemplate(s)>>
           S == SharedRange(s)
           Z == <<FinalizeTemplate(s)>>
           n == IF s.shared = 0 THEN 0 ELSE 1
<1>1. FirstShared(s) # 0
  BY BoundDonors DEF IsRun
<1>2. D = P \o O \o S \o Z
  <2>1. OwnRange(s) = O
    BY <1>1 DEF OwnRange, OwnTemplate
  <2> QED
    BY <2>1 DEF DecodeStages, SelectTemplate, EmbedTemplate, AuxTemplate, FinalizeTemplate
<1>3. IsSequence(P) /\ Len(P) = 3 /\ P[1] = SelectTemplate /\ P[2] = EmbedTemplate /\ P[3] = AuxTemplate(s)
  BY Triple
<1>4. IsSequence(O) /\ Len(O) = 1 /\ O[1] = OwnTemplate(s)
  BY Triple
<1>5. IsSequence(S) /\ Len(S) = n /\ (s.shared # 0 => S[1] = SharedTemplate(s))
  <2>1. CASE s.shared = 0
    BY <2>1, EmptySeq DEF SharedRange, IsSequence
  <2>2. CASE s.shared # 0
    <3>1. S = <<SharedTemplate(s)>>
      BY <2>2 DEF SharedRange, SharedTemplate
    <3> DEFINE X == SharedTemplate(s)
    <3>2. IsSequence(<<X>>) /\ Len(<<X>>) = 1 /\ <<X>>[1] = X
      BY Triple
    <3>3. n = 1
      BY <2>2
    <3>4. S = <<X>>
      BY <3>1
    <3> HIDE DEF X, S, n
    <3>5. IsSequence(S) /\ Len(S) = n /\ S[1] = X
      BY <3>2, <3>3, <3>4
    <3> QED
      BY <3>5 DEF X
  <2> QED
    BY <2>1, <2>2
<1>6. IsSequence(Z) /\ Len(Z) = 1 /\ Z[1] = FinalizeTemplate(s)
  BY Triple
<1>7. n \in Nat
  OBVIOUS
<1> HIDE DEF P, O, S, Z, n, D
<1> DEFINE P1 == P \o O
           P2 == P1 \o S
<1>8. IsSequence(P1) /\ Len(P1) = 4 /\ \A i \in 1 .. 4 : P1[i] = IF i <= 3 THEN P[i] ELSE O[i - 3]
  <2>1. /\ IsSequence(P \o O) /\ Len(P \o O) = Len(P) + Len(O)
        /\ \A i \in 1 .. (Len(P) + Len(O)) : (P \o O)[i] = IF i <= Len(P) THEN P[i] ELSE O[i - Len(P)]
    BY <1>3, <1>4, Joined, Zenon
  <2> QED
    BY <1>3, <1>4, <2>1
<1> HIDE DEF P1
<1>9. IsSequence(P2) /\ Len(P2) = 4 + n /\ \A i \in 1 .. (4 + n) : P2[i] = IF i <= 4 THEN P1[i] ELSE S[i - 4]
  <2>1. /\ IsSequence(P1 \o S) /\ Len(P1 \o S) = Len(P1) + Len(S)
        /\ \A i \in 1 .. (Len(P1) + Len(S)) : (P1 \o S)[i] = IF i <= Len(P1) THEN P1[i] ELSE S[i - Len(P1)]
    BY <1>5, <1>8, Joined, Zenon
  <2> QED
    BY <1>5, <1>8, <2>1
<1> HIDE DEF P2
<1>10. /\ IsSequence(D) /\ Len(D) = (4 + n) + 1
       /\ \A i \in 1 .. ((4 + n) + 1) : D[i] = IF i <= 4 + n THEN P2[i] ELSE Z[i - (4 + n)]
  <2>1. /\ IsSequence(P2 \o Z) /\ Len(P2 \o Z) = Len(P2) + Len(Z)
        /\ \A i \in 1 .. (Len(P2) + Len(Z)) : (P2 \o Z)[i] = IF i <= Len(P2) THEN P2[i] ELSE Z[i - Len(P2)]
    BY <1>6, <1>9, Joined, Zenon
  <2>2. D = P2 \o Z
    BY <1>2 DEF P2, P1
  <2> QED
    BY <1>6, <1>9, <2>1, <2>2
<1>11. D[1] = SelectTemplate /\ D[2] = EmbedTemplate /\ D[3] = AuxTemplate(s) /\ D[4] = OwnTemplate(s)
  BY <1>3, <1>4, <1>7, <1>8, <1>9, <1>10
<1>12. s.shared = 0 => D[5] = FinalizeTemplate(s)
  BY <1>6, <1>10 DEF n
<1>13. s.shared # 0 => D[5] = SharedTemplate(s) /\ D[6] = FinalizeTemplate(s)
  BY <1>5, <1>6, <1>9, <1>10 DEF n
<1>14. Len(D) = IF s.shared = 0 THEN 5 ELSE 6
  BY <1>10 DEF n
<1> QED
  BY <1>10, <1>11, <1>12, <1>13, <1>14 DEF D

-----------------------------------------------------------------------------
(* Where the expansion pushes which stage: the item of the manifest, the   *)
(* iteration, the part of the template and the stage of the part.          *)

Times(it) == IF it.repeat THEN it.count ELSE 1
Parts(it) == IF it.repeat THEN Len(it.stages) ELSE 1
Size(it, p) == IF it.repeat THEN it.stages[p].count ELSE 1

IsPlace(r, q) ==
  /\ q[1] \in 1 .. Len(Items(r))
  /\ q[2] \in 0 .. (Times(Items(r)[q[1]]) - 1)
  /\ q[3] \in 1 .. Parts(Items(r)[q[1]])
  /\ q[4] \in 0 .. (Size(Items(r)[q[1]], q[3]) - 1)

Less(p, q) ==
  \/ p[1] < q[1]
  \/ p[1] = q[1] /\ p[2] < q[2]
  \/ p[1] = q[1] /\ p[2] = q[2] /\ p[3] < q[3]
  \/ p[1] = q[1] /\ p[2] = q[2] /\ p[3] = q[3] /\ p[4] < q[4]

Ending(r) == IF r.shape.shared = 0 THEN 5 ELSE 6

Place(r, name) ==
  LET k == name[1]
      t == name[2]
      l == name[3]
      N == r.shape.layers
      F == FirstShared(r.shape)
  IN  CASE k = "prompt_merge_seed" -> <<1, 0, 1, 0>>
        [] k = "prompt_merge" -> <<2, t, 1, 0>>
        [] k = "prompt_prepare" -> <<3, 0, 1, 0>>
        [] k = "input_embedding" -> <<4, 0, 1, 0>>
        [] k = "prefill_prepare_aux" -> <<5 + l, 0, 1, 0>>
        [] k = "prefill_range" -> <<5 + N + l, 0, 1, 0>>
        [] k = "prefill_finalize" -> <<5 + N + N, 0, 1, 0>>
        [] k = "decode_init" -> <<6 + N + N, 0, 1, 0>>
        [] k = "decode_select" -> <<7 + N + N, t, 1, 0>>
        [] k = "decode_embed" -> <<7 + N + N, t, 2, 0>>
        [] k = "decode_aux" -> <<7 + N + N, t, 3, l>>
        [] k = "decode_range" -> <<7 + N + N, t, IF l < F THEN 4 ELSE 5, IF l < F THEN l ELSE l - F>>
        [] k = "decode_finalize" -> <<7 + N + N, t, Ending(r), 0>>
        [] OTHER -> <<8 + N + N, 0, 1, 0>>

NameAt(r, q) ==
  LET N == r.shape.layers
      F == FirstShared(r.shape)
  IN  CASE q[1] = 1 -> Single("prompt_merge_seed")
        [] q[1] = 2 -> Name("prompt_merge", q[2], 0)
        [] q[1] = 3 -> Single("prompt_prepare")
        [] q[1] = 4 -> Single("input_embedding")
        [] 4 < q[1] /\ q[1] < 5 + N -> Name("prefill_prepare_aux", 0, q[1] - 5)
        [] 4 + N < q[1] /\ q[1] < 5 + N + N -> Name("prefill_range", 0, q[1] - (5 + N))
        [] q[1] = 5 + N + N -> Single("prefill_finalize")
        [] q[1] = 6 + N + N -> Single("decode_init")
        [] q[1] = 7 + N + N /\ q[3] = 1 -> Name("decode_select", q[2], 0)
        [] q[1] = 7 + N + N /\ q[3] = 2 -> Name("decode_embed", q[2], 0)
        [] q[1] = 7 + N + N /\ q[3] = 3 -> Name("decode_aux", q[2], q[4])
        [] q[1] = 7 + N + N /\ q[3] = 4 -> Name("decode_range", q[2], q[4])
        [] q[1] = 7 + N + N /\ q[3] = 5 /\ Ending(r) = 6 -> Name("decode_range", q[2], F + q[4])
        [] q[1] = 7 + N + N /\ q[3] = Ending(r) -> Name("decode_finalize", q[2], 0)
        [] OTHER -> Single("output_finalize")

(* The stages of a run are those that have a place in its manifest. *)
IsName(r, name) == IsPlace(r, Place(r, name)) /\ NameAt(r, Place(r, name)) = name
Named(r, name, q) == IsName(r, name) /\ Place(r, name) = q

LEMMA ShapesAre ==
  ASSUME NEW r, IsRun(r)
  PROVE  LET s == r.shape
             N == s.layers
             M == Items(r)
         IN  /\ Len(M) = 8 + N + N
             /\ \A i \in 1 .. (8 + N + N) : i # 2 /\ i # 7 + N + N => M[i].repeat = FALSE
             /\ M[2] = MergeItem(r) /\ M[7 + N + N] = TokensItem(r)
             /\ M[2].repeat = TRUE /\ Times(M[2]) = r.batches /\ Parts(M[2]) = 1 /\ Size(M[2], 1) = 1
             /\ M[7 + N + N].repeat = TRUE
             /\ Times(M[7 + N + N]) = r.tokens /\ Parts(M[7 + N + N]) = Ending(r)
             /\ Size(M[7 + N + N], 1) = 1 /\ Size(M[7 + N + N], 2) = 1
             /\ Size(M[7 + N + N], 3) = N /\ Size(M[7 + N + N], 4) = FirstShared(s)
             /\ Ending(r) = 6 => Size(M[7 + N + N], 5) = s.shared
             /\ Size(M[7 + N + N], Ending(r)) = 1
<1> DEFINE s == r.shape
           N == s.layers
           M == Items(r)
           D == DecodeStages(s)
<1>1. ItemsAreListed(r)
  BY ItemsAre
<1>2. N \in Nat
  BY DEF IsRun, IsShape
<1>3. Len(M) = 8 + N + N /\ M[2] = MergeItem(r) /\ M[7 + N + N] = TokensItem(r)
  BY <1>1 DEF ItemsAreListed
<1>4. \A i \in 1 .. (8 + N + N) : i # 2 /\ i # 7 + N + N => M[i].repeat = FALSE
  <2> SUFFICES ASSUME NEW i \in 1 .. (8 + N + N), i # 2, i # 7 + N + N PROVE M[i].repeat = FALSE
    OBVIOUS
  <2>1. \/ i \in {1, 3, 4, 5 + N + N, 6 + N + N, 8 + N + N}
        \/ \E n \in 0 .. (N - 1) : i = 5 + n
        \/ \E n \in 0 .. (N - 1) : i = 5 + N + n
    <3>1. CASE i <= 4
      BY <3>1
    <3>2. CASE 5 <= i /\ i < 5 + N
      <4>1. i - 5 \in 0 .. (N - 1) /\ i = 5 + (i - 5)
        BY <1>2, <3>2
      <4> QED
        BY <4>1
    <3>3. CASE 5 + N <= i /\ i < 5 + N + N
      <4>1. i - (5 + N) \in 0 .. (N - 1) /\ i = 5 + N + (i - (5 + N))
        BY <1>2, <3>3
      <4> QED
        BY <4>1
    <3>4. CASE 5 + N + N <= i
      BY <1>2, <3>4
    <3> QED
      BY <1>2, <3>1, <3>2, <3>3, <3>4
  <2>2. /\ M[1] = SeedItem /\ M[3] = PrepareItem /\ M[4] = EmbeddingItem
        /\ \A n \in 0 .. (N - 1) : M[5 + n] = AuxItem(n)
        /\ \A n \in 0 .. (N - 1) : M[5 + N + n] = RangeItem(s, n)
        /\ M[5 + N + N] = HeadItem(s) /\ M[6 + N + N] = InitItem /\ M[8 + N + N] = OutputItem
    BY <1>1 DEF ItemsAreListed
  <2> HIDE DEF M, N, s
  <2>3. CASE i \in {1, 3, 4, 5 + N + N, 6 + N + N, 8 + N + N}
    BY <2>2, <2>3, SingleItems
  <2>4. CASE \E n \in 0 .. (N - 1) : i = 5 + n
    BY <2>2, <2>4, SingleItems
  <2>5. CASE \E n \in 0 .. (N - 1) : i = 5 + N + n
    BY <2>2, <2>5, SingleItems
  <2> QED
    BY <2>1, <2>3, <2>4, <2>5
<1>5. M[2].repeat = TRUE /\ Times(M[2]) = r.batches /\ Parts(M[2]) = 1 /\ Size(M[2], 1) = 1
  <2>1. /\ MergeItem(r).repeat = TRUE /\ MergeItem(r).count = r.batches /\ MergeItem(r).stages = <<MergeTemplate>>
    BY RepeatItems
  <2>2. Len(<<MergeTemplate>>) = 1 /\ <<MergeTemplate>>[1] = MergeTemplate
    BY Triple
  <2>3. MergeTemplate.count = 1
    BY DEF MergeTemplate, One, Each
  <2> HIDE DEF M
  <2> QED
    BY <1>3, <2>1, <2>2, <2>3 DEF Times, Parts, Size
<1>6. /\ TokensItem(r).repeat = TRUE /\ TokensItem(r).count = r.tokens /\ TokensItem(r).stages = D
  BY RepeatItems
<1>7. /\ Len(D) = Ending(r) /\ D[1].count = 1 /\ D[2].count = 1 /\ D[3].count = N /\ D[4].count = FirstShared(s)
      /\ Ending(r) = 6 => D[5].count = s.shared
      /\ D[Ending(r)].count = 1
  <2>1. /\ Len(D) = IF s.shared = 0 THEN 5 ELSE 6
        /\ D[1] = SelectTemplate /\ D[2] = EmbedTemplate /\ D[3] = AuxTemplate(s)
        /\ D[4] = OwnTemplate(s)
        /\ s.shared = 0 => D[5] = FinalizeTemplate(s)
        /\ s.shared # 0 => D[5] = SharedTemplate(s) /\ D[6] = FinalizeTemplate(s)
    BY DecodeParts
  <2>2. /\ SelectTemplate.count = 1 /\ EmbedTemplate.count = 1 /\ AuxTemplate(s).count = N
        /\ FinalizeTemplate(s).count = 1
    BY DEF SelectTemplate, EmbedTemplate, AuxTemplate, FinalizeTemplate, One, Each
  <2>3. OwnTemplate(s).count = FirstShared(s) /\ SharedTemplate(s).count = s.shared
    BY DEF OwnTemplate, SharedTemplate, DecodeRange, Each
  <2> HIDE DEF D, s
  <2>4. Ending(r) = IF s.shared = 0 THEN 5 ELSE 6
    BY DEF Ending, s
  <2> QED
    BY <2>1, <2>2, <2>3, <2>4 DEF N
<1>8. /\ M[7 + N + N].repeat = TRUE
      /\ Times(M[7 + N + N]) = r.tokens /\ Parts(M[7 + N + N]) = Ending(r)
      /\ \A p : Size(M[7 + N + N], p) = D[p].count
  <2> HIDE DEF M, D
  <2> QED
    BY <1>3, <1>6, <1>7 DEF Times, Parts, Size
<1> HIDE DEF M, D
<1> QED
  BY <1>3, <1>4, <1>5, <1>7, <1>8 DEF M

(* A stage of the manifest outside the repeats has one place. *)
LEMMA SinglePlace ==
  ASSUME NEW r, IsRun(r), NEW i \in 1 .. Len(Items(r)), Items(r)[i].repeat = FALSE
  PROVE  /\ IsPlace(r, <<i, 0, 1, 0>>)
         /\ \A q : IsPlace(r, q) /\ q[1] = i => q[2] = 0 /\ q[3] = 1 /\ q[4] = 0
<1>1. Times(Items(r)[i]) = 1 /\ Parts(Items(r)[i]) = 1 /\ \A p : Size(Items(r)[i], p) = 1
  BY DEF Times, Parts, Size
<1> QED
  BY <1>1 DEF IsPlace

LEMMA PlaceOf ==
  ASSUME NEW r
  PROVE  LET N == r.shape.layers
             F == FirstShared(r.shape)
         IN  \A t, l :
           /\ Place(r, Name("prompt_merge_seed", t, l)) = <<1, 0, 1, 0>>
           /\ Place(r, Name("prompt_merge", t, l)) = <<2, t, 1, 0>>
           /\ Place(r, Name("prompt_prepare", t, l)) = <<3, 0, 1, 0>>
           /\ Place(r, Name("input_embedding", t, l)) = <<4, 0, 1, 0>>
           /\ Place(r, Name("prefill_prepare_aux", t, l)) = <<5 + l, 0, 1, 0>>
           /\ Place(r, Name("prefill_range", t, l)) = <<5 + N + l, 0, 1, 0>>
           /\ Place(r, Name("prefill_finalize", t, l)) = <<5 + N + N, 0, 1, 0>>
           /\ Place(r, Name("decode_init", t, l)) = <<6 + N + N, 0, 1, 0>>
           /\ Place(r, Name("decode_select", t, l)) = <<7 + N + N, t, 1, 0>>
           /\ Place(r, Name("decode_embed", t, l)) = <<7 + N + N, t, 2, 0>>
           /\ Place(r, Name("decode_aux", t, l)) = <<7 + N + N, t, 3, l>>
           /\ Place(r, Name("decode_range", t, l)) = <<7 + N + N, t, IF l < F THEN 4 ELSE 5, IF l < F THEN l ELSE l - F>>
           /\ Place(r, Name("decode_finalize", t, l)) = <<7 + N + N, t, Ending(r), 0>>
           /\ Place(r, Name("output_finalize", t, l)) = <<8 + N + N, 0, 1, 0>>
<1> DEFINE N == r.shape.layers
           F == FirstShared(r.shape)
<1> SUFFICES ASSUME NEW t, NEW l
             PROVE
           /\ Place(r, Name("prompt_merge_seed", t, l)) = <<1, 0, 1, 0>>
           /\ Place(r, Name("prompt_merge", t, l)) = <<2, t, 1, 0>>
           /\ Place(r, Name("prompt_prepare", t, l)) = <<3, 0, 1, 0>>
           /\ Place(r, Name("input_embedding", t, l)) = <<4, 0, 1, 0>>
           /\ Place(r, Name("prefill_prepare_aux", t, l)) = <<5 + l, 0, 1, 0>>
           /\ Place(r, Name("prefill_range", t, l)) = <<5 + N + l, 0, 1, 0>>
           /\ Place(r, Name("prefill_finalize", t, l)) = <<5 + N + N, 0, 1, 0>>
           /\ Place(r, Name("decode_init", t, l)) = <<6 + N + N, 0, 1, 0>>
           /\ Place(r, Name("decode_select", t, l)) = <<7 + N + N, t, 1, 0>>
           /\ Place(r, Name("decode_embed", t, l)) = <<7 + N + N, t, 2, 0>>
           /\ Place(r, Name("decode_aux", t, l)) = <<7 + N + N, t, 3, l>>
           /\ Place(r, Name("decode_range", t, l)) = <<7 + N + N, t, IF l < F THEN 4 ELSE 5, IF l < F THEN l ELSE l - F>>
           /\ Place(r, Name("decode_finalize", t, l)) = <<7 + N + N, t, Ending(r), 0>>
           /\ Place(r, Name("output_finalize", t, l)) = <<8 + N + N, 0, 1, 0>>
  BY Zenon
<1>1. Place(r, Name("prompt_merge_seed", t, l)) = <<1, 0, 1, 0>>
  <2> DEFINE name == Name("prompt_merge_seed", t, l)
  <2>1. name[1] = "prompt_merge_seed" /\ name[2] = t /\ name[3] = l
    BY NameParts
  <2> HIDE DEF name
  <2>2. Place(r, name) = <<1, 0, 1, 0>>
    BY <2>1 DEF Place
  <2> QED
    BY <2>2 DEF name
<1>2. Place(r, Name("prompt_merge", t, l)) = <<2, t, 1, 0>>
  <2> DEFINE name == Name("prompt_merge", t, l)
  <2>1. name[1] = "prompt_merge" /\ name[2] = t /\ name[3] = l
    BY NameParts
  <2> HIDE DEF name
  <2>2. Place(r, name) = <<2, t, 1, 0>>
    BY <2>1 DEF Place
  <2> QED
    BY <2>2 DEF name
<1>3. Place(r, Name("prompt_prepare", t, l)) = <<3, 0, 1, 0>>
  <2> DEFINE name == Name("prompt_prepare", t, l)
  <2>1. name[1] = "prompt_prepare" /\ name[2] = t /\ name[3] = l
    BY NameParts
  <2> HIDE DEF name
  <2>2. Place(r, name) = <<3, 0, 1, 0>>
    BY <2>1 DEF Place
  <2> QED
    BY <2>2 DEF name
<1>4. Place(r, Name("input_embedding", t, l)) = <<4, 0, 1, 0>>
  <2> DEFINE name == Name("input_embedding", t, l)
  <2>1. name[1] = "input_embedding" /\ name[2] = t /\ name[3] = l
    BY NameParts
  <2> HIDE DEF name
  <2>2. Place(r, name) = <<4, 0, 1, 0>>
    BY <2>1 DEF Place
  <2> QED
    BY <2>2 DEF name
<1>5. Place(r, Name("prefill_prepare_aux", t, l)) = <<5 + l, 0, 1, 0>>
  <2> DEFINE name == Name("prefill_prepare_aux", t, l)
  <2>1. name[1] = "prefill_prepare_aux" /\ name[2] = t /\ name[3] = l
    BY NameParts
  <2> HIDE DEF name
  <2>2. Place(r, name) = <<5 + l, 0, 1, 0>>
    BY <2>1 DEF Place
  <2> QED
    BY <2>2 DEF name
<1>6. Place(r, Name("prefill_range", t, l)) = <<5 + N + l, 0, 1, 0>>
  <2> DEFINE name == Name("prefill_range", t, l)
  <2>1. name[1] = "prefill_range" /\ name[2] = t /\ name[3] = l
    BY NameParts
  <2> HIDE DEF name
  <2>2. Place(r, name) = <<5 + N + l, 0, 1, 0>>
    BY <2>1 DEF Place
  <2> QED
    BY <2>2 DEF name
<1>7. Place(r, Name("prefill_finalize", t, l)) = <<5 + N + N, 0, 1, 0>>
  <2> DEFINE name == Name("prefill_finalize", t, l)
  <2>1. name[1] = "prefill_finalize" /\ name[2] = t /\ name[3] = l
    BY NameParts
  <2> HIDE DEF name
  <2>2. Place(r, name) = <<5 + N + N, 0, 1, 0>>
    BY <2>1 DEF Place
  <2> QED
    BY <2>2 DEF name
<1>8. Place(r, Name("decode_init", t, l)) = <<6 + N + N, 0, 1, 0>>
  <2> DEFINE name == Name("decode_init", t, l)
  <2>1. name[1] = "decode_init" /\ name[2] = t /\ name[3] = l
    BY NameParts
  <2> HIDE DEF name
  <2>2. Place(r, name) = <<6 + N + N, 0, 1, 0>>
    BY <2>1 DEF Place
  <2> QED
    BY <2>2 DEF name
<1>9. Place(r, Name("decode_select", t, l)) = <<7 + N + N, t, 1, 0>>
  <2> DEFINE name == Name("decode_select", t, l)
  <2>1. name[1] = "decode_select" /\ name[2] = t /\ name[3] = l
    BY NameParts
  <2> HIDE DEF name
  <2>2. Place(r, name) = <<7 + N + N, t, 1, 0>>
    BY <2>1 DEF Place
  <2> QED
    BY <2>2 DEF name
<1>10. Place(r, Name("decode_embed", t, l)) = <<7 + N + N, t, 2, 0>>
  <2> DEFINE name == Name("decode_embed", t, l)
  <2>1. name[1] = "decode_embed" /\ name[2] = t /\ name[3] = l
    BY NameParts
  <2> HIDE DEF name
  <2>2. Place(r, name) = <<7 + N + N, t, 2, 0>>
    BY <2>1 DEF Place
  <2> QED
    BY <2>2 DEF name
<1>11. Place(r, Name("decode_aux", t, l)) = <<7 + N + N, t, 3, l>>
  <2> DEFINE name == Name("decode_aux", t, l)
  <2>1. name[1] = "decode_aux" /\ name[2] = t /\ name[3] = l
    BY NameParts
  <2> HIDE DEF name
  <2>2. Place(r, name) = <<7 + N + N, t, 3, l>>
    BY <2>1 DEF Place
  <2> QED
    BY <2>2 DEF name
<1>12. Place(r, Name("decode_range", t, l)) = <<7 + N + N, t, IF l < F THEN 4 ELSE 5, IF l < F THEN l ELSE l - F>>
  <2> DEFINE name == Name("decode_range", t, l)
  <2>1. name[1] = "decode_range" /\ name[2] = t /\ name[3] = l
    BY NameParts
  <2> HIDE DEF name
  <2>2. Place(r, name) = <<7 + N + N, t, IF l < F THEN 4 ELSE 5, IF l < F THEN l ELSE l - F>>
    BY <2>1 DEF Place
  <2> QED
    BY <2>2 DEF name
<1>13. Place(r, Name("decode_finalize", t, l)) = <<7 + N + N, t, Ending(r), 0>>
  <2> DEFINE name == Name("decode_finalize", t, l)
  <2>1. name[1] = "decode_finalize" /\ name[2] = t /\ name[3] = l
    BY NameParts
  <2> HIDE DEF name
  <2>2. Place(r, name) = <<7 + N + N, t, Ending(r), 0>>
    BY <2>1 DEF Place
  <2> QED
    BY <2>2 DEF name
<1>14. Place(r, Name("output_finalize", t, l)) = <<8 + N + N, 0, 1, 0>>
  <2> DEFINE name == Name("output_finalize", t, l)
  <2>1. name[1] = "output_finalize" /\ name[2] = t /\ name[3] = l
    BY NameParts
  <2> HIDE DEF name
  <2>2. Place(r, name) = <<8 + N + N, 0, 1, 0>>
    BY <2>1 DEF Place
  <2> QED
    BY <2>2 DEF name
<1> QED
  BY <1>1, <1>2, <1>3, <1>4, <1>5, <1>6, <1>7, <1>8, <1>9, <1>10, <1>11, <1>12, <1>13, <1>14

(* Names and places of all stages of a run. *)
LEMMA PromptNames ==
  ASSUME NEW r, IsRun(r)
  PROVE  /\ Named(r, Single("prompt_merge_seed"), <<1, 0, 1, 0>>)
         /\ \A b \in 0 .. (r.batches - 1) : Named(r, Name("prompt_merge", b, 0), <<2, b, 1, 0>>)
         /\ Named(r, Single("prompt_prepare"), <<3, 0, 1, 0>>)
         /\ Named(r, Single("input_embedding"), <<4, 0, 1, 0>>)
<1> DEFINE N == r.shape.layers
           M == Items(r)
<1>1. N \in Nat /\ N > 0
  BY DEF IsRun, IsShape
<1>2. /\ Len(M) = 8 + N + N
      /\ \A i \in 1 .. (8 + N + N) : i # 2 /\ i # 7 + N + N => M[i].repeat = FALSE
      /\ Times(M[2]) = r.batches /\ Parts(M[2]) = 1 /\ Size(M[2], 1) = 1
  BY ShapesAre
<1>3. ASSUME NEW i \in 1 .. Len(M), i # 2, i # 7 + N + N PROVE IsPlace(r, <<i, 0, 1, 0>>)
  BY <1>2, <1>3, SinglePlace
<1>4. Named(r, Single("prompt_merge_seed"), <<1, 0, 1, 0>>)
  <2>1. Place(r, Single("prompt_merge_seed")) = <<1, 0, 1, 0>>
    BY PlaceOf DEF Single
  <2>2. IsPlace(r, <<1, 0, 1, 0>>)
    <3>1. 1 \in 1 .. Len(M) /\ 1 # 2 /\ 1 # 7 + N + N
      <4> HIDE DEF M, N
      <4> QED
        BY <1>1, <1>2
    <3> HIDE DEF M, N
    <3> QED
      BY <1>3, <3>1
  <2>3. NameAt(r, <<1, 0, 1, 0>>) = Single("prompt_merge_seed")
    BY <1>1 DEF NameAt
  <2> QED
    BY <2>1, <2>2, <2>3 DEF Named, IsName
<1>5. ASSUME NEW b \in 0 .. (r.batches - 1) PROVE Named(r, Name("prompt_merge", b, 0), <<2, b, 1, 0>>)
  <2>1. Place(r, Name("prompt_merge", b, 0)) = <<2, b, 1, 0>>
    BY PlaceOf
  <2>2. IsPlace(r, <<2, b, 1, 0>>)
    BY <1>1, <1>2 DEF IsPlace
  <2>3. NameAt(r, <<2, b, 1, 0>>) = Name("prompt_merge", b, 0)
    BY <1>1 DEF NameAt
  <2> QED
    BY <2>1, <2>2, <2>3 DEF Named, IsName
<1>6. Named(r, Single("prompt_prepare"), <<3, 0, 1, 0>>)
  <2>1. Place(r, Single("prompt_prepare")) = <<3, 0, 1, 0>>
    BY PlaceOf DEF Single
  <2>2. IsPlace(r, <<3, 0, 1, 0>>)
    <3>1. 3 \in 1 .. Len(M) /\ 3 # 2 /\ 3 # 7 + N + N
      <4> HIDE DEF M, N
      <4> QED
        BY <1>1, <1>2
    <3> HIDE DEF M, N
    <3> QED
      BY <1>3, <3>1
  <2>3. NameAt(r, <<3, 0, 1, 0>>) = Single("prompt_prepare")
    BY <1>1 DEF NameAt
  <2> QED
    BY <2>1, <2>2, <2>3 DEF Named, IsName
<1>7. Named(r, Single("input_embedding"), <<4, 0, 1, 0>>)
  <2>1. Place(r, Single("input_embedding")) = <<4, 0, 1, 0>>
    BY PlaceOf DEF Single
  <2>2. IsPlace(r, <<4, 0, 1, 0>>)
    <3>1. 4 \in 1 .. Len(M) /\ 4 # 2 /\ 4 # 7 + N + N
      <4> HIDE DEF M, N
      <4> QED
        BY <1>1, <1>2
    <3> HIDE DEF M, N
    <3> QED
      BY <1>3, <3>1
  <2>3. NameAt(r, <<4, 0, 1, 0>>) = Single("input_embedding")
    BY <1>1 DEF NameAt
  <2> QED
    BY <2>1, <2>2, <2>3 DEF Named, IsName
<1> QED
  BY <1>4, <1>5, <1>6, <1>7

LEMMA PrefillNames ==
  ASSUME NEW r, IsRun(r)
  PROVE  LET N == r.shape.layers
         IN  /\ \A l \in 0 .. (N - 1) : Named(r, Name("prefill_prepare_aux", 0, l), <<5 + l, 0, 1, 0>>)
             /\ \A l \in 0 .. (N - 1) : Named(r, Name("prefill_range", 0, l), <<5 + N + l, 0, 1, 0>>)
             /\ Named(r, Single("prefill_finalize"), <<5 + N + N, 0, 1, 0>>)
             /\ Named(r, Single("decode_init"), <<6 + N + N, 0, 1, 0>>)
             /\ Named(r, Single("output_finalize"), <<8 + N + N, 0, 1, 0>>)
<1> DEFINE N == r.shape.layers
           M == Items(r)
<1>1. N \in Nat /\ N > 0
  BY DEF IsRun, IsShape
<1>2. /\ Len(M) = 8 + N + N
      /\ \A i \in 1 .. (8 + N + N) : i # 2 /\ i # 7 + N + N => M[i].repeat = FALSE
  BY ShapesAre
<1>3. ASSUME NEW i \in 1 .. Len(M), i # 2, i # 7 + N + N PROVE IsPlace(r, <<i, 0, 1, 0>>)
  BY <1>2, <1>3, SinglePlace
<1>4. ASSUME NEW l \in 0 .. (N - 1) PROVE Named(r, Name("prefill_prepare_aux", 0, l), <<5 + l, 0, 1, 0>>)
  <2>1. Place(r, Name("prefill_prepare_aux", 0, l)) = <<5 + l, 0, 1, 0>>
    BY PlaceOf
  <2>2. IsPlace(r, <<5 + l, 0, 1, 0>>)
    <3>1. 5 + l \in 1 .. Len(M) /\ 5 + l # 2 /\ 5 + l # 7 + N + N
      <4> HIDE DEF M, N
      <4> QED
        BY <1>1, <1>2
    <3> HIDE DEF M, N
    <3> QED
      BY <1>3, <3>1
  <2>3. NameAt(r, <<5 + l, 0, 1, 0>>) = Name("prefill_prepare_aux", 0, l)
    BY <1>1 DEF NameAt
  <2> QED
    BY <2>1, <2>2, <2>3 DEF Named, IsName
<1>5. ASSUME NEW l \in 0 .. (N - 1) PROVE Named(r, Name("prefill_range", 0, l), <<5 + N + l, 0, 1, 0>>)
  <2>1. Place(r, Name("prefill_range", 0, l)) = <<5 + N + l, 0, 1, 0>>
    BY PlaceOf
  <2>2. IsPlace(r, <<5 + N + l, 0, 1, 0>>)
    <3>1. 5 + N + l \in 1 .. Len(M) /\ 5 + N + l # 2 /\ 5 + N + l # 7 + N + N
      <4> HIDE DEF M, N
      <4> QED
        BY <1>1, <1>2
    <3> HIDE DEF M, N
    <3> QED
      BY <1>3, <3>1
  <2>3. NameAt(r, <<5 + N + l, 0, 1, 0>>) = Name("prefill_range", 0, l)
    BY <1>1 DEF NameAt
  <2> QED
    BY <2>1, <2>2, <2>3 DEF Named, IsName
<1>6. Named(r, Single("prefill_finalize"), <<5 + N + N, 0, 1, 0>>)
  <2>1. Place(r, Single("prefill_finalize")) = <<5 + N + N, 0, 1, 0>>
    BY PlaceOf DEF Single
  <2>2. IsPlace(r, <<5 + N + N, 0, 1, 0>>)
    <3>1. 5 + N + N \in 1 .. Len(M) /\ 5 + N + N # 2 /\ 5 + N + N # 7 + N + N
      <4> HIDE DEF M, N
      <4> QED
        BY <1>1, <1>2
    <3> HIDE DEF M, N
    <3> QED
      BY <1>3, <3>1
  <2>3. NameAt(r, <<5 + N + N, 0, 1, 0>>) = Single("prefill_finalize")
    BY <1>1 DEF NameAt
  <2> QED
    BY <2>1, <2>2, <2>3 DEF Named, IsName
<1>7. Named(r, Single("decode_init"), <<6 + N + N, 0, 1, 0>>)
  <2>1. Place(r, Single("decode_init")) = <<6 + N + N, 0, 1, 0>>
    BY PlaceOf DEF Single
  <2>2. IsPlace(r, <<6 + N + N, 0, 1, 0>>)
    <3>1. 6 + N + N \in 1 .. Len(M) /\ 6 + N + N # 2 /\ 6 + N + N # 7 + N + N
      <4> HIDE DEF M, N
      <4> QED
        BY <1>1, <1>2
    <3> HIDE DEF M, N
    <3> QED
      BY <1>3, <3>1
  <2>3. NameAt(r, <<6 + N + N, 0, 1, 0>>) = Single("decode_init")
    BY <1>1 DEF NameAt
  <2> QED
    BY <2>1, <2>2, <2>3 DEF Named, IsName
<1>8. Named(r, Single("output_finalize"), <<8 + N + N, 0, 1, 0>>)
  <2>1. Place(r, Single("output_finalize")) = <<8 + N + N, 0, 1, 0>>
    BY PlaceOf DEF Single
  <2>2. IsPlace(r, <<8 + N + N, 0, 1, 0>>)
    <3>1. 8 + N + N \in 1 .. Len(M) /\ 8 + N + N # 2 /\ 8 + N + N # 7 + N + N
      <4> HIDE DEF M, N
      <4> QED
        BY <1>1, <1>2
    <3> HIDE DEF M, N
    <3> QED
      BY <1>3, <3>1
  <2>3. NameAt(r, <<8 + N + N, 0, 1, 0>>) = Single("output_finalize")
    BY <1>1 DEF NameAt
  <2> QED
    BY <2>1, <2>2, <2>3 DEF Named, IsName
<1> QED
  BY <1>4, <1>5, <1>6, <1>7, <1>8

LEMMA DecodeNames ==
  ASSUME NEW r, IsRun(r), NEW t \in 0 .. (r.tokens - 1)
  PROVE  LET N == r.shape.layers
             F == FirstShared(r.shape)
         IN  /\ Named(r, Name("decode_select", t, 0), <<7 + N + N, t, 1, 0>>)
             /\ Named(r, Name("decode_embed", t, 0), <<7 + N + N, t, 2, 0>>)
             /\ \A l \in 0 .. (N - 1) : Named(r, Name("decode_aux", t, l), <<7 + N + N, t, 3, l>>)
             /\ \A l \in 0 .. (F - 1) : Named(r, Name("decode_range", t, l), <<7 + N + N, t, 4, l>>)
             /\ \A l \in F .. (N - 1) : Named(r, Name("decode_range", t, l), <<7 + N + N, t, 5, l - F>>)
             /\ Named(r, Name("decode_finalize", t, 0), <<7 + N + N, t, Ending(r), 0>>)
<1> DEFINE s == r.shape
           N == s.layers
           M == Items(r)
           F == FirstShared(s)
           J == 7 + N + N
<1>1. /\ N \in Nat /\ N > 0 /\ s.shared \in Nat /\ F \in Nat /\ F = N - s.shared
      /\ Ending(r) = IF s.shared = 0 THEN 5 ELSE 6
  BY BoundDonors DEF IsRun, Ending
<1>2. /\ Len(M) = 8 + N + N
      /\ Times(M[J]) = r.tokens /\ Parts(M[J]) = Ending(r)
      /\ Size(M[J], 1) = 1 /\ Size(M[J], 2) = 1 /\ Size(M[J], 3) = N /\ Size(M[J], 4) = F
      /\ Ending(r) = 6 => Size(M[J], 5) = s.shared
      /\ Size(M[J], Ending(r)) = 1
  BY ShapesAre
<1>3. ASSUME NEW p \in 1 .. Ending(r), NEW n \in 0 .. (Size(M[J], p) - 1) PROVE IsPlace(r, <<J, t, p, n>>)
  <2>1. J \in 1 .. Len(M)
    <3>1. Len(M) = 8 + N + N
      BY <1>2
    <3>2. N \in Nat
      BY <1>1
    <3> HIDE DEF M, s, N
    <3> QED
      BY <3>1, <3>2
  <2> HIDE DEF M, s, J
  <2> DEFINE q == <<J, t, p, n>>
  <2>2. q[1] = J /\ q[2] = t /\ q[3] = p /\ q[4] = n
    OBVIOUS
  <2> HIDE DEF q
  <2>3. IsPlace(r, q)
    BY <1>2, <2>1, <2>2 DEF IsPlace, M
  <2> QED
    BY <2>3 DEF q
<1>4. Named(r, Name("decode_select", t, 0), <<7 + N + N, t, 1, 0>>)
  <2>1. Place(r, Name("decode_select", t, 0)) = <<J, t, 1, 0>>
    BY PlaceOf
  <2>2. IsPlace(r, <<J, t, 1, 0>>)
    <3>1. 1 \in 1 .. Ending(r) /\ 0 \in 0 .. (Size(M[J], 1) - 1)
      <4> HIDE DEF M, J, s, F, N
      <4> QED
        BY <1>1, <1>2
    <3> HIDE DEF M, J, s, F, N
    <3> QED
      BY <1>3, <3>1
  <2>3. NameAt(r, <<J, t, 1, 0>>) = Name("decode_select", t, 0)
    BY <1>1 DEF NameAt
  <2> QED
    BY <2>1, <2>2, <2>3 DEF Named, IsName
<1>5. Named(r, Name("decode_embed", t, 0), <<7 + N + N, t, 2, 0>>)
  <2>1. Place(r, Name("decode_embed", t, 0)) = <<J, t, 2, 0>>
    BY PlaceOf
  <2>2. IsPlace(r, <<J, t, 2, 0>>)
    <3>1. 2 \in 1 .. Ending(r) /\ 0 \in 0 .. (Size(M[J], 2) - 1)
      <4> HIDE DEF M, J, s, F, N
      <4> QED
        BY <1>1, <1>2
    <3> HIDE DEF M, J, s, F, N
    <3> QED
      BY <1>3, <3>1
  <2>3. NameAt(r, <<J, t, 2, 0>>) = Name("decode_embed", t, 0)
    BY <1>1 DEF NameAt
  <2> QED
    BY <2>1, <2>2, <2>3 DEF Named, IsName
<1>6. ASSUME NEW l \in 0 .. (N - 1) PROVE Named(r, Name("decode_aux", t, l), <<7 + N + N, t, 3, l>>)
  <2>1. Place(r, Name("decode_aux", t, l)) = <<J, t, 3, l>>
    BY PlaceOf
  <2>2. IsPlace(r, <<J, t, 3, l>>)
    <3>1. 3 \in 1 .. Ending(r) /\ l \in 0 .. (Size(M[J], 3) - 1)
      <4> HIDE DEF M, J, s, F, N
      <4> QED
        BY <1>1, <1>2
    <3> HIDE DEF M, J, s, F, N
    <3> QED
      BY <1>3, <3>1
  <2>3. NameAt(r, <<J, t, 3, l>>) = Name("decode_aux", t, l)
    BY <1>1 DEF NameAt
  <2> QED
    BY <2>1, <2>2, <2>3 DEF Named, IsName
<1>7. ASSUME NEW l \in 0 .. (F - 1) PROVE Named(r, Name("decode_range", t, l), <<7 + N + N, t, 4, l>>)
  <2>0. l < F
    BY <1>1
  <2>1. Place(r, Name("decode_range", t, l)) = <<J, t, 4, l>>
    <3>1. Place(r, Name("decode_range", t, l)) = <<J, t, IF l < F THEN 4 ELSE 5, IF l < F THEN l ELSE l - F>>
      BY PlaceOf
    <3> QED
      BY <2>0, <3>1
  <2>2. IsPlace(r, <<J, t, 4, l>>)
    <3>1. 4 \in 1 .. Ending(r) /\ l \in 0 .. (Size(M[J], 4) - 1)
      <4> HIDE DEF M, J, s, F, N
      <4> QED
        BY <1>1, <1>2
    <3> HIDE DEF M, J, s, F, N
    <3> QED
      BY <1>3, <3>1
  <2>3. NameAt(r, <<J, t, 4, l>>) = Name("decode_range", t, l)
    BY <1>1 DEF NameAt
  <2> QED
    BY <2>1, <2>2, <2>3 DEF Named, IsName
<1>8. ASSUME NEW l \in F .. (N - 1) PROVE Named(r, Name("decode_range", t, l), <<7 + N + N, t, 5, l - F>>)
  <2>0. ~(l < F) /\ Ending(r) = 6 /\ l - F \in 0 .. (s.shared - 1) /\ F + (l - F) = l
    BY <1>1
  <2>1. Place(r, Name("decode_range", t, l)) = <<J, t, 5, l - F>>
    <3>1. Place(r, Name("decode_range", t, l)) = <<J, t, IF l < F THEN 4 ELSE 5, IF l < F THEN l ELSE l - F>>
      BY PlaceOf
    <3> QED
      BY <2>0, <3>1
  <2>2. IsPlace(r, <<J, t, 5, l - F>>)
    <3>1. 5 \in 1 .. Ending(r) /\ l - F \in 0 .. (Size(M[J], 5) - 1)
      <4> HIDE DEF M, J, s, F, N
      <4> QED
        BY <1>1, <1>2, <2>0
    <3> HIDE DEF M, J, s, F, N
    <3> QED
      BY <1>3, <3>1
  <2>3. NameAt(r, <<J, t, 5, l - F>>) = Name("decode_range", t, l)
    BY <1>1, <2>0 DEF NameAt
  <2> QED
    BY <2>1, <2>2, <2>3 DEF Named, IsName
<1>9. Named(r, Name("decode_finalize", t, 0), <<7 + N + N, t, Ending(r), 0>>)
  <2>1. Place(r, Name("decode_finalize", t, 0)) = <<J, t, Ending(r), 0>>
    BY PlaceOf
  <2>2. IsPlace(r, <<J, t, Ending(r), 0>>)
    <3>1. Ending(r) \in 1 .. Ending(r) /\ 0 \in 0 .. (Size(M[J], Ending(r)) - 1)
      <4> HIDE DEF M, J, s, F, N
      <4> QED
        BY <1>1, <1>2
    <3> HIDE DEF M, J, s, F, N
    <3> QED
      BY <1>3, <3>1
  <2>3. NameAt(r, <<J, t, Ending(r), 0>>) = Name("decode_finalize", t, 0)
    BY <1>1 DEF NameAt
  <2> QED
    BY <2>1, <2>2, <2>3 DEF Named, IsName
<1> QED
  BY <1>4, <1>5, <1>6, <1>7, <1>8, <1>9

(* Every stage of a run is one of these. *)
InPass(r, t, name) ==
  \/ name = Name("decode_select", t, 0) \/ name = Name("decode_embed", t, 0)
  \/ \E l \in 0 .. (r.shape.layers - 1) :
       name = Name("decode_aux", t, l) \/ name = Name("decode_range", t, l)
  \/ name = Name("decode_finalize", t, 0)
OneOf(r, name) ==
  \/ name = Single("prompt_merge_seed")
  \/ \E b \in 0 .. (r.batches - 1) : name = Name("prompt_merge", b, 0)
  \/ name = Single("prompt_prepare") \/ name = Single("input_embedding")
  \/ \E l \in 0 .. (r.shape.layers - 1) :
       name = Name("prefill_prepare_aux", 0, l) \/ name = Name("prefill_range", 0, l)
  \/ name = Single("prefill_finalize") \/ name = Single("decode_init")
  \/ \E t \in 0 .. (r.tokens - 1) : InPass(r, t, name)
  \/ name = Single("output_finalize")

LEMMA NameCases ==
  ASSUME NEW r, IsRun(r), NEW name, IsName(r, name)
  PROVE  OneOf(r, name)
<1> DEFINE q == Place(r, name)
           s == r.shape
           N == s.layers
           M == Items(r)
           F == FirstShared(s)
           J == 7 + N + N
<1>1. /\ N \in Nat /\ N > 0 /\ s.shared \in Nat /\ F \in Nat /\ F = N - s.shared
      /\ Ending(r) \in {5, 6}
  BY BoundDonors DEF IsRun, Ending
<1>2. /\ Len(M) = 8 + N + N
      /\ Times(M[2]) = r.batches
      /\ Times(M[J]) = r.tokens /\ Parts(M[J]) = Ending(r)
      /\ Size(M[J], 3) = N /\ Size(M[J], 4) = F
      /\ Ending(r) = 6 => Size(M[J], 5) = s.shared
  BY ShapesAre
<1>3. /\ q[1] \in 1 .. Len(M) /\ q[2] \in 0 .. (Times(M[q[1]]) - 1)
      /\ q[3] \in 1 .. Parts(M[q[1]]) /\ q[4] \in 0 .. (Size(M[q[1]], q[3]) - 1)
      /\ NameAt(r, q) = name
  BY DEF IsName, IsPlace
<1> HIDE DEF q
<1>15. NameAt(r, q) = name
  BY <1>3
<1>16. N \in Nat /\ N > 0
  BY <1>1
<1>17. Ending(r) \in {5, 6}
  BY <1>1
<1>4. q[1] \in 1 .. (8 + N + N)
  BY <1>2, <1>3
<1>5. CASE q[1] = 1
  <2>1. name = Single("prompt_merge_seed")
    BY <1>4, <1>5, <1>15, <1>16 DEF NameAt
  <2> QED
    BY <2>1 DEF OneOf
<1>6. CASE q[1] = 2
  <2>1. name = Name("prompt_merge", q[2], 0)
    BY <1>4, <1>6, <1>15, <1>16 DEF NameAt
  <2>2. q[2] \in 0 .. (r.batches - 1)
    <3> HIDE DEF M
    <3> QED
      BY <1>2, <1>3, <1>6
  <2> QED
    BY <2>1, <2>2 DEF OneOf
<1>7. CASE q[1] = 3
  <2>1. name = Single("prompt_prepare")
    BY <1>4, <1>7, <1>15, <1>16 DEF NameAt
  <2> QED
    BY <2>1 DEF OneOf
<1>8. CASE q[1] = 4
  <2>1. name = Single("input_embedding")
    BY <1>4, <1>8, <1>15, <1>16 DEF NameAt
  <2> QED
    BY <2>1 DEF OneOf
<1>9. CASE 4 < q[1] /\ q[1] < 5 + N
  <2>1. name = Name("prefill_prepare_aux", 0, q[1] - 5)
    BY <1>4, <1>9, <1>15, <1>16 DEF NameAt
  <2>2. q[1] - 5 \in 0 .. (N - 1)
    BY <1>1, <1>4, <1>9
  <2> QED
    BY <2>1, <2>2 DEF OneOf
<1>10. CASE 4 + N < q[1] /\ q[1] < 5 + N + N
  <2>1. name = Name("prefill_range", 0, q[1] - (5 + N))
    BY <1>4, <1>10, <1>15, <1>16 DEF NameAt
  <2>2. q[1] - (5 + N) \in 0 .. (N - 1)
    BY <1>1, <1>4, <1>10
  <2> QED
    BY <2>1, <2>2 DEF OneOf
<1>11. CASE q[1] = 5 + N + N
  <2>1. name = Single("prefill_finalize")
    BY <1>4, <1>11, <1>15, <1>16 DEF NameAt
  <2> QED
    BY <2>1 DEF OneOf
<1>12. CASE q[1] = 6 + N + N
  <2>1. name = Single("decode_init")
    BY <1>4, <1>12, <1>15, <1>16 DEF NameAt
  <2> QED
    BY <2>1 DEF OneOf
<1>13. CASE q[1] = 8 + N + N
  <2>1. name = Single("output_finalize")
    BY <1>4, <1>13, <1>15, <1>16 DEF NameAt
  <2> QED
    BY <2>1 DEF OneOf
<1>14. CASE q[1] = J
  <2>1. /\ q[2] \in 0 .. (r.tokens - 1) /\ q[3] \in 1 .. Ending(r)
        /\ q[4] \in 0 .. (Size(M[J], q[3]) - 1)
    <3> HIDE DEF M, J
    <3> QED
      BY <1>2, <1>3, <1>14
  <2>2. CASE q[3] = 1
    <3>1. name = Name("decode_select", q[2], 0)
      BY <1>14, <2>2, <1>15, <1>16, <1>17 DEF NameAt
    <3> QED
      BY <2>1, <3>1 DEF OneOf, InPass
  <2>3. CASE q[3] = 2
    <3>1. name = Name("decode_embed", q[2], 0)
      BY <1>14, <2>3, <1>15, <1>16, <1>17 DEF NameAt
    <3> QED
      BY <2>1, <3>1 DEF OneOf, InPass
  <2>4. CASE q[3] = 3
    <3>1. name = Name("decode_aux", q[2], q[4])
      BY <1>14, <2>4, <1>15, <1>16, <1>17 DEF NameAt
    <3>2. q[4] \in 0 .. (N - 1)
      BY <1>2, <2>1, <2>4
    <3> QED
      BY <2>1, <3>1, <3>2 DEF OneOf, InPass
  <2>5. CASE q[3] = 4
    <3>1. name = Name("decode_range", q[2], q[4])
      BY <1>14, <2>5, <1>15, <1>16, <1>17 DEF NameAt
    <3>2. q[4] \in 0 .. (F - 1)
      BY <1>2, <2>1, <2>5
    <3>3. q[4] \in 0 .. (N - 1)
      BY <1>1, <3>2
    <3> QED
      BY <2>1, <3>1, <3>3 DEF OneOf, InPass
  <2>6. CASE q[3] = 5 /\ Ending(r) = 6
    <3>1. name = Name("decode_range", q[2], F + q[4])
      BY <1>14, <2>6, <1>15, <1>16, <1>17 DEF NameAt
    <3>2. q[4] \in 0 .. (s.shared - 1)
      BY <1>2, <2>1, <2>6
    <3>3. F + q[4] \in 0 .. (N - 1)
      BY <1>1, <3>2
    <3> QED
      BY <2>1, <3>1, <3>3 DEF OneOf, InPass
  <2>7. CASE q[3] = Ending(r)
    <3>1. name = Name("decode_finalize", q[2], 0)
      BY <1>14, <2>7, <1>15, <1>16, <1>17 DEF NameAt
    <3> QED
      BY <2>1, <3>1 DEF OneOf, InPass
  <2> QED
    BY <1>1, <2>1, <2>2, <2>3, <2>4, <2>5, <2>6, <2>7
<1> QED
  BY <1>1, <1>4, <1>5, <1>6, <1>7, <1>8, <1>9, <1>10, <1>11, <1>12, <1>13, <1>14

(* What a stage reads comes before it, in the order of the manifest. *)
Behind(r) ==
  [pieces |-> IF r.batches = 0 THEN Single("prompt_merge_seed") ELSE Name("prompt_merge", r.batches - 1, 0),
   edge |-> IF r.tokens = 0 THEN Single("decode_init") ELSE SelectName(r.tokens - 1)]
Precedes(r, x, name) == IsName(r, x) /\ Less(Place(r, x), Place(r, name))

LEMMA SourcesWith ==
  ASSUME NEW name, NEW w, NEW x, x \in SourcesOf(StageWith(name, w))
  PROVE  \E p \in DOMAIN w : w[p].how = "from" /\ x = w[p].name
<1> QED
  BY DEF SourcesOf, StageWith

LEMMA LinkParts ==
  \A name : /\ Link(name).how = "from" /\ Link(name).name = name
            /\ FileAt(name).how = "external"
<1> QED
  BY DEF Link, FileAt

LEMMA WiringSources ==
  ASSUME NEW r, NEW name, NEW keys
  PROVE  /\ \A x : x \notin SourcesOf(StageWith(name, SeedWiring))
         /\ \A b, x : x \in SourcesOf(StageWith(name, MergeWiring(b))) => x = MergeSource(b)
         /\ \A x : x \in SourcesOf(StageWith(name, PrepareWiring(keys))) => x = keys.pieces
         /\ \A x : x \in SourcesOf(StageWith(name, EmbeddingWiring)) => x = Single("prompt_prepare")
         /\ \A p, n, x : x \in SourcesOf(StageWith(name, AuxWiring(p, n))) => x = StartOf(p)
         /\ \A p, n, x : x \in SourcesOf(StageWith(name, RangeWiring(r, p, n))) =>
              x \in {LowerOf(p, n), PriorOf(p, n), DonorOf(r, p, n, DonorA(r.shape)),
                     DonorOf(r, p, n, DonorB(r.shape)), AuxName(p, n)}
         /\ \A p, x : x \in SourcesOf(StageWith(name, FinalizeWiring(r, p))) => x = RangeName(p, r.shape.layers - 1)
         /\ \A x : x \notin SourcesOf(StageWith(name, NoWiring))
         /\ \A t, x : x \in SourcesOf(StageWith(name, SelectWiring(t))) =>
              x \in {FinalizeName(t - 1), IF t = 0 THEN Single("decode_init") ELSE SelectName(t - 1)}
         /\ \A t, x : x \in SourcesOf(StageWith(name, EmbedWiring(t))) => x = SelectName(t)
         /\ \A x : x \in SourcesOf(StageWith(name, OutputWiring(keys))) => x = keys.edge
<1>1. \A x : x \notin SourcesOf(StageWith(name, SeedWiring))
  BY SourcesWith, LinkParts DEF SeedWiring, FileOf
<1>2. \A b, x : x \in SourcesOf(StageWith(name, MergeWiring(b))) => x = MergeSource(b)
  <2> SUFFICES ASSUME NEW b, NEW x, x \in SourcesOf(StageWith(name, MergeWiring(b))) PROVE x = MergeSource(b)
    OBVIOUS
  <2>1. PICK p \in DOMAIN MergeWiring(b) : MergeWiring(b)[p].how = "from" /\ x = MergeWiring(b)[p].name
    BY SourcesWith
  <2> QED
    BY <2>1, LinkParts DEF MergeWiring, FileOf
<1>3. \A x : x \in SourcesOf(StageWith(name, PrepareWiring(keys))) => x = keys.pieces
  <2> SUFFICES ASSUME NEW x, x \in SourcesOf(StageWith(name, PrepareWiring(keys))) PROVE x = keys.pieces
    OBVIOUS
  <2>1. PICK p \in DOMAIN PrepareWiring(keys) : PrepareWiring(keys)[p].how = "from" /\ x = PrepareWiring(keys)[p].name
    BY SourcesWith
  <2> QED
    BY <2>1, LinkParts DEF PrepareWiring, FileOf
<1>4. \A x : x \in SourcesOf(StageWith(name, EmbeddingWiring)) => x = Single("prompt_prepare")
  <2> SUFFICES ASSUME NEW x, x \in SourcesOf(StageWith(name, EmbeddingWiring)) PROVE x = Single("prompt_prepare")
    OBVIOUS
  <2>1. PICK p \in DOMAIN EmbeddingWiring : EmbeddingWiring[p].how = "from" /\ x = EmbeddingWiring[p].name
    BY SourcesWith
  <2> QED
    BY <2>1, LinkParts DEF EmbeddingWiring, FileOf
<1>5. \A p, n, x : x \in SourcesOf(StageWith(name, AuxWiring(p, n))) => x = StartOf(p)
  <2> SUFFICES ASSUME NEW p, NEW n, NEW x, x \in SourcesOf(StageWith(name, AuxWiring(p, n))) PROVE x = StartOf(p)
    OBVIOUS
  <2>1. PICK q \in DOMAIN AuxWiring(p, n) : AuxWiring(p, n)[q].how = "from" /\ x = AuxWiring(p, n)[q].name
    BY SourcesWith
  <2> QED
    BY <2>1, LinkParts DEF AuxWiring, FileOf
<1>6. \A p, n, x : x \in SourcesOf(StageWith(name, RangeWiring(r, p, n))) =>
              x \in {LowerOf(p, n), PriorOf(p, n), DonorOf(r, p, n, DonorA(r.shape)),
                     DonorOf(r, p, n, DonorB(r.shape)), AuxName(p, n)}
  <2> SUFFICES ASSUME NEW p, NEW n, NEW x, x \in SourcesOf(StageWith(name, RangeWiring(r, p, n)))
               PROVE  x \in {LowerOf(p, n), PriorOf(p, n), DonorOf(r, p, n, DonorA(r.shape)),
                             DonorOf(r, p, n, DonorB(r.shape)), AuxName(p, n)}
    OBVIOUS
  <2>1. PICK q \in DOMAIN RangeWiring(r, p, n) :
          RangeWiring(r, p, n)[q].how = "from" /\ x = RangeWiring(r, p, n)[q].name
    BY SourcesWith
  <2> QED
    BY <2>1, LinkParts DEF RangeWiring, FileOf
<1>7. \A p, x : x \in SourcesOf(StageWith(name, FinalizeWiring(r, p))) => x = RangeName(p, r.shape.layers - 1)
  <2> SUFFICES ASSUME NEW p, NEW x, x \in SourcesOf(StageWith(name, FinalizeWiring(r, p)))
               PROVE x = RangeName(p, r.shape.layers - 1)
    OBVIOUS
  <2>1. PICK q \in DOMAIN FinalizeWiring(r, p) : FinalizeWiring(r, p)[q].how = "from" /\ x = FinalizeWiring(r, p)[q].name
    BY SourcesWith
  <2> QED
    BY <2>1, LinkParts DEF FinalizeWiring, FileOf
<1>8. \A x : x \notin SourcesOf(StageWith(name, NoWiring))
  BY SourcesWith DEF NoWiring
<1>9. \A t, x : x \in SourcesOf(StageWith(name, SelectWiring(t))) =>
              x \in {FinalizeName(t - 1), IF t = 0 THEN Single("decode_init") ELSE SelectName(t - 1)}
  <2> SUFFICES ASSUME NEW t, NEW x, x \in SourcesOf(StageWith(name, SelectWiring(t)))
               PROVE x \in {FinalizeName(t - 1), IF t = 0 THEN Single("decode_init") ELSE SelectName(t - 1)}
    OBVIOUS
  <2>1. PICK q \in DOMAIN SelectWiring(t) : SelectWiring(t)[q].how = "from" /\ x = SelectWiring(t)[q].name
    BY SourcesWith
  <2> QED
    BY <2>1, LinkParts DEF SelectWiring, FileOf
<1>10. \A t, x : x \in SourcesOf(StageWith(name, EmbedWiring(t))) => x = SelectName(t)
  <2> SUFFICES ASSUME NEW t, NEW x, x \in SourcesOf(StageWith(name, EmbedWiring(t))) PROVE x = SelectName(t)
    OBVIOUS
  <2>1. PICK q \in DOMAIN EmbedWiring(t) : EmbedWiring(t)[q].how = "from" /\ x = EmbedWiring(t)[q].name
    BY SourcesWith
  <2> QED
    BY <2>1, LinkParts DEF EmbedWiring, FileOf
<1>11. \A x : x \in SourcesOf(StageWith(name, OutputWiring(keys))) => x = keys.edge
  <2> SUFFICES ASSUME NEW x, x \in SourcesOf(StageWith(name, OutputWiring(keys))) PROVE x = keys.edge
    OBVIOUS
  <2>1. PICK p \in DOMAIN OutputWiring(keys) : OutputWiring(keys)[p].how = "from" /\ x = OutputWiring(keys)[p].name
    BY SourcesWith
  <2> QED
    BY <2>1, LinkParts DEF OutputWiring, FileOf
<1> QED
  BY <1>1, <1>2, <1>3, <1>4, <1>5, <1>6, <1>7, <1>8, <1>9, <1>10, <1>11

Follows(r, name) == \A x \in SourcesOf(StageOf(r, name, Behind(r))) : Precedes(r, x, name)

LEMMA NamedPrecedes ==
  ASSUME NEW r, NEW x, NEW name, NEW p, NEW q, Named(r, x, p), Named(r, name, q), Less(p, q)
  PROVE  Precedes(r, x, name)
<1> QED
  BY DEF Named, Precedes

LEMMA PromptFollows ==
  ASSUME NEW r, IsRun(r)
  PROVE  /\ Follows(r, Single("prompt_merge_seed"))
         /\ \A b \in 0 .. (r.batches - 1) : Follows(r, Name("prompt_merge", b, 0))
         /\ Follows(r, Single("prompt_prepare"))
         /\ Follows(r, Single("input_embedding"))
<1>1. /\ Named(r, Single("prompt_merge_seed"), <<1, 0, 1, 0>>)
      /\ \A b \in 0 .. (r.batches - 1) : Named(r, Name("prompt_merge", b, 0), <<2, b, 1, 0>>)
      /\ Named(r, Single("prompt_prepare"), <<3, 0, 1, 0>>)
      /\ Named(r, Single("input_embedding"), <<4, 0, 1, 0>>)
  BY PromptNames
<1>2. r.batches \in Nat
  BY DEF IsRun
<1>3. Follows(r, Single("prompt_merge_seed"))
  <2>1. Wiring(r, Single("prompt_merge_seed"), Behind(r)) = SeedWiring
    BY WiringOf DEF Single
  <2> QED
    BY <2>1, WiringSources DEF Follows, StageOf
<1>4. ASSUME NEW b \in 0 .. (r.batches - 1) PROVE Follows(r, Name("prompt_merge", b, 0))
  <2> DEFINE name == Name("prompt_merge", b, 0)
  <2>1. Wiring(r, name, Behind(r)) = MergeWiring(b)
    BY WiringOf
  <2>2. Named(r, name, <<2, b, 1, 0>>)
    BY <1>1
  <2> HIDE DEF name
  <2>3. \A x \in SourcesOf(StageOf(r, name, Behind(r))) : x = MergeSource(b)
    BY <2>1, WiringSources DEF StageOf
  <2>4. Precedes(r, MergeSource(b), name)
    <3>1. CASE b = 0
      <4>1. MergeSource(b) = Single("prompt_merge_seed") /\ Less(<<1, 0, 1, 0>>, <<2, b, 1, 0>>)
        BY <3>1 DEF MergeSource, Less
      <4> QED
        BY <1>1, <2>2, <4>1, NamedPrecedes
    <3>2. CASE b # 0
      <4>1. MergeSource(b) = Name("prompt_merge", b - 1, 0) /\ Less(<<2, b - 1, 1, 0>>, <<2, b, 1, 0>>)
        BY <1>2, <3>2 DEF MergeSource, Less
      <4>2. b - 1 \in 0 .. (r.batches - 1)
        BY <1>2, <3>2
      <4> QED
        BY <1>1, <2>2, <4>1, <4>2, NamedPrecedes
    <3> QED
      BY <3>1, <3>2
  <2>5. Follows(r, name)
    BY <2>3, <2>4 DEF Follows
  <2> QED
    BY <2>5 DEF name
<1>5. Follows(r, Single("prompt_prepare"))
  <2>1. Wiring(r, Single("prompt_prepare"), Behind(r)) = PrepareWiring(Behind(r))
    BY WiringOf DEF Single
  <2>2. \A x \in SourcesOf(StageOf(r, Single("prompt_prepare"), Behind(r))) : x = Behind(r).pieces
    BY <2>1, WiringSources DEF StageOf
  <2>3. Precedes(r, Behind(r).pieces, Single("prompt_prepare"))
    <3>1. CASE r.batches = 0
      <4>1. Behind(r).pieces = Single("prompt_merge_seed") /\ Less(<<1, 0, 1, 0>>, <<3, 0, 1, 0>>)
        BY <3>1 DEF Behind, Less
      <4> QED
        BY <1>1, <4>1, NamedPrecedes
    <3>2. CASE r.batches # 0
      <4>1. Behind(r).pieces = Name("prompt_merge", r.batches - 1, 0) /\ Less(<<2, r.batches - 1, 1, 0>>, <<3, 0, 1, 0>>)
        BY <3>2 DEF Behind, Less
      <4>2. r.batches - 1 \in 0 .. (r.batches - 1)
        BY <1>2, <3>2
      <4> QED
        BY <1>1, <4>1, <4>2, NamedPrecedes
    <3> QED
      BY <3>1, <3>2
  <2> QED
    BY <2>2, <2>3 DEF Follows
<1>6. Follows(r, Single("input_embedding"))
  <2>1. Wiring(r, Single("input_embedding"), Behind(r)) = EmbeddingWiring
    BY WiringOf DEF Single
  <2>2. \A x \in SourcesOf(StageOf(r, Single("input_embedding"), Behind(r))) : x = Single("prompt_prepare")
    BY <2>1, WiringSources DEF StageOf
  <2>3. Less(<<3, 0, 1, 0>>, <<4, 0, 1, 0>>)
    BY DEF Less
  <2>4. Precedes(r, Single("prompt_prepare"), Single("input_embedding"))
    BY <1>1, <2>3, NamedPrecedes
  <2> QED
    BY <2>2, <2>4 DEF Follows
<1> QED
  BY <1>3, <1>4, <1>5, <1>6

LEMMA PrefillFollows ==
  ASSUME NEW r, IsRun(r)
  PROVE  /\ \A l \in 0 .. (r.shape.layers - 1) : Follows(r, Name("prefill_prepare_aux", 0, l))
         /\ \A l \in 0 .. (r.shape.layers - 1) : Follows(r, Name("prefill_range", 0, l))
         /\ Follows(r, Single("prefill_finalize"))
         /\ Follows(r, Single("decode_init"))
<1> DEFINE s == r.shape
           N == s.layers
           F == FirstShared(s)
<1>1. /\ Named(r, Single("input_embedding"), <<4, 0, 1, 0>>)
      /\ \A l \in 0 .. (N - 1) : Named(r, Name("prefill_prepare_aux", 0, l), <<5 + l, 0, 1, 0>>)
      /\ \A l \in 0 .. (N - 1) : Named(r, Name("prefill_range", 0, l), <<5 + N + l, 0, 1, 0>>)
      /\ Named(r, Single("prefill_finalize"), <<5 + N + N, 0, 1, 0>>)
  BY PromptNames, PrefillNames
<1>2. /\ N \in Nat /\ N > 0 /\ s.shared \in Nat /\ F \in Nat /\ F = N - s.shared
      /\ s.shared > 0 => DonorA(s) \in 0 .. (F - 1) /\ DonorB(s) \in 0 .. (F - 1)
  BY BoundDonors DEF IsRun
<1>3. ASSUME NEW l \in 0 .. (N - 1) PROVE Follows(r, Name("prefill_prepare_aux", 0, l))
  <2> DEFINE name == Name("prefill_prepare_aux", 0, l)
  <2>1. Wiring(r, name, Behind(r)) = AuxWiring(-1, l)
    BY WiringOf
  <2>2. Named(r, name, <<5 + l, 0, 1, 0>>)
    BY <1>1
  <2> HIDE DEF name
  <2>3. \A x \in SourcesOf(StageOf(r, name, Behind(r))) : x = StartOf(-1)
    BY <2>1, WiringSources DEF StageOf
  <2>4. StartOf(-1) = Single("input_embedding")
    BY DEF StartOf, Embedding
  <2>5. Less(<<4, 0, 1, 0>>, <<5 + l, 0, 1, 0>>)
    BY <1>2 DEF Less
  <2>6. Precedes(r, StartOf(-1), name)
    BY <1>1, <2>2, <2>4, <2>5, NamedPrecedes
  <2>7. Follows(r, name)
    BY <2>3, <2>6 DEF Follows
  <2> QED
    BY <2>7 DEF name
<1>4. ASSUME NEW l \in 0 .. (N - 1) PROVE Follows(r, Name("prefill_range", 0, l))
  <2> DEFINE name == Name("prefill_range", 0, l)
             q == <<5 + N + l, 0, 1, 0>>
  <2>1. Wiring(r, name, Behind(r)) = RangeWiring(r, -1, l)
    BY WiringOf
  <2>2. Named(r, name, q)
    BY <1>1
  <2>3. Less(<<4, 0, 1, 0>>, q) /\ Less(<<5 + l, 0, 1, 0>>, q)
        /\ \A n \in 0 .. (N - 1) : n < l => Less(<<5 + N + n, 0, 1, 0>>, q)
    BY <1>2 DEF Less
  <2> HIDE DEF name, q, N, F, s
  <2>4. Precedes(r, Single("input_embedding"), name)
    BY <1>1, <2>2, <2>3, NamedPrecedes
  <2>5. Precedes(r, Name("prefill_prepare_aux", 0, l), name)
    BY <1>1, <2>2, <2>3, NamedPrecedes
  <2>6. ASSUME NEW n \in 0 .. (N - 1), n < l PROVE Precedes(r, Name("prefill_range", 0, n), name)
    BY <1>1, <2>2, <2>3, <2>6, NamedPrecedes
  <2>7. Precedes(r, LowerOf(-1, l), name)
    <3>1. CASE l = 0
      BY <2>4, <3>1 DEF LowerOf, StartOf, Embedding
    <3>2. CASE l # 0
      <4>1. LowerOf(-1, l) = Name("prefill_range", 0, l - 1)
        BY <3>2, PassNamesAre DEF LowerOf
      <4>2. l - 1 \in 0 .. (N - 1) /\ l - 1 < l
        BY <1>2, <3>2
      <4> QED
        BY <2>6, <4>1, <4>2
    <3> QED
      BY <3>1, <3>2
  <2>8. Precedes(r, PriorOf(-1, l), name)
    BY <2>4 DEF PriorOf, Embedding
  <2>9. ASSUME NEW d, s.shared > 0 => d \in 0 .. (F - 1) PROVE Precedes(r, DonorOf(r, -1, l, d), name)
    <3>1. CASE l < F
      <4>1. DonorOf(r, -1, l, d) = Embedding
        BY <3>1 DEF DonorOf, F, s
      <4> QED
        BY <2>4, <4>1 DEF Embedding
    <3>2. CASE ~(l < F)
      <4>1. DonorOf(r, -1, l, d) = Name("prefill_range", 0, d)
        BY <3>2, PassNamesAre DEF DonorOf, F, s
      <4>2. d \in 0 .. (N - 1) /\ d < l
        BY <1>2, <2>9, <3>2
      <4> QED
        BY <2>6, <4>1, <4>2
    <3> QED
      BY <3>1, <3>2
  <2>10. Precedes(r, DonorOf(r, -1, l, DonorA(s)), name) /\ Precedes(r, DonorOf(r, -1, l, DonorB(s)), name)
    BY <1>2, <2>9
  <2>11. Precedes(r, AuxName(-1, l), name)
    BY <2>5, PassNamesAre
  <2>12. \A x \in SourcesOf(StageOf(r, name, Behind(r))) :
           x \in {LowerOf(-1, l), PriorOf(-1, l), DonorOf(r, -1, l, DonorA(s)), DonorOf(r, -1, l, DonorB(s)), AuxName(-1, l)}
    BY <2>1, WiringSources DEF StageOf, s
  <2>13. Follows(r, name)
    BY <2>7, <2>8, <2>10, <2>11, <2>12 DEF Follows
  <2> QED
    BY <2>13 DEF name
<1>5. Follows(r, Single("prefill_finalize"))
  <2>1. Wiring(r, Single("prefill_finalize"), Behind(r)) = FinalizeWiring(r, -1)
    BY WiringOf DEF Single
  <2>2. \A x \in SourcesOf(StageOf(r, Single("prefill_finalize"), Behind(r))) : x = RangeName(-1, N - 1)
    BY <2>1, WiringSources DEF StageOf
  <2>3. Less(<<5 + N + (N - 1), 0, 1, 0>>, <<5 + N + N, 0, 1, 0>>) /\ N - 1 \in 0 .. (N - 1)
    BY <1>2 DEF Less
  <2>4. Named(r, Name("prefill_range", 0, N - 1), <<5 + N + (N - 1), 0, 1, 0>>)
    BY <1>1, <2>3
  <2>5. Precedes(r, RangeName(-1, N - 1), Single("prefill_finalize"))
    BY <1>1, <2>3, <2>4, NamedPrecedes, PassNamesAre
  <2> QED
    BY <2>2, <2>5 DEF Follows
<1>6. Follows(r, Single("decode_init"))
  <2>1. Wiring(r, Single("decode_init"), Behind(r)) = NoWiring
    BY WiringOf DEF Single
  <2> QED
    BY <2>1, WiringSources DEF Follows, StageOf
<1> QED
  BY <1>3, <1>4, <1>5, <1>6

LEMMA DecodeFollows ==
  ASSUME NEW r, IsRun(r), NEW t \in 0 .. (r.tokens - 1), NEW name, InPass(r, t, name)
  PROVE  Follows(r, name)
<1> DEFINE s == r.shape
           N == s.layers
           F == FirstShared(s)
           J == 7 + N + N
           PlaceIn(l) == <<J, t, IF l < F THEN 4 ELSE 5, IF l < F THEN l ELSE l - F>>
           Before(l) == IF t = 0 THEN <<5 + N + l, 0, 1, 0>>
                        ELSE <<J, t - 1, IF l < F THEN 4 ELSE 5, IF l < F THEN l ELSE l - F>>
<1>1. /\ N \in Nat /\ N > 0 /\ s.shared \in Nat /\ F \in Nat /\ F = N - s.shared
      /\ s.shared > 0 => DonorA(s) \in 0 .. (F - 1) /\ DonorB(s) \in 0 .. (F - 1)
      /\ t \in Nat /\ r.tokens \in Nat
  BY BoundDonors DEF IsRun
<1>2. /\ Named(r, Single("input_embedding"), <<4, 0, 1, 0>>)
      /\ \A l \in 0 .. (N - 1) : Named(r, Name("prefill_range", 0, l), <<5 + N + l, 0, 1, 0>>)
      /\ Named(r, Single("prefill_finalize"), <<5 + N + N, 0, 1, 0>>)
      /\ Named(r, Single("decode_init"), <<6 + N + N, 0, 1, 0>>)
  BY PromptNames, PrefillNames
<1>3. /\ Named(r, SelectName(t), <<J, t, 1, 0>>)
      /\ Named(r, EmbedName(t), <<J, t, 2, 0>>)
      /\ \A l \in 0 .. (N - 1) : Named(r, AuxName(t, l), <<J, t, 3, l>>)
      /\ Named(r, FinalizeName(t), <<J, t, Ending(r), 0>>)
  BY DecodeNames, PassNamesAre, <1>1 DEF SelectName, EmbedName
<1>4. ASSUME NEW u \in 0 .. (r.tokens - 1), NEW l \in 0 .. (N - 1)
      PROVE  Named(r, Name("decode_range", u, l), <<J, u, IF l < F THEN 4 ELSE 5, IF l < F THEN l ELSE l - F>>)
  <2>1. CASE l < F
    <3>1. l \in 0 .. (F - 1)
      BY <1>1, <2>1
    <3> QED
      BY <2>1, <3>1, DecodeNames
  <2>2. CASE ~(l < F)
    <3>1. l \in F .. (N - 1)
      BY <1>1, <2>2
    <3> QED
      BY <2>2, <3>1, DecodeNames
  <2> QED
    BY <2>1, <2>2
<1>5. ASSUME NEW l \in 0 .. (N - 1) PROVE Named(r, RangeName(t, l), PlaceIn(l))
  BY <1>1, <1>4, PassNamesAre
<1>6. ASSUME NEW l \in 0 .. (N - 1) PROVE Named(r, PriorOf(t, l), Before(l)) \/ t = 0
  <2>1. CASE t # 0
    <3>1. t - 1 \in 0 .. (r.tokens - 1) /\ t - 1 \in Nat /\ ~(t < 0)
      BY <1>1, <2>1
    <3>2. PriorOf(t, l) = Name("decode_range", t - 1, l)
      BY <3>1, PassNamesAre DEF PriorOf
    <3> QED
      BY <1>4, <2>1, <3>1, <3>2
  <2> QED
    BY <2>1
<1>7. CASE name = Name("decode_select", t, 0)
  <2>1. Wiring(r, name, Behind(r)) = SelectWiring(t)
    BY <1>7, WiringOf
  <2>2. Named(r, name, <<J, t, 1, 0>>)
    BY <1>3, <1>7 DEF SelectName
  <2>3. \A x \in SourcesOf(StageOf(r, name, Behind(r))) :
          x \in {FinalizeName(t - 1), IF t = 0 THEN Single("decode_init") ELSE SelectName(t - 1)}
    BY <2>1, WiringSources DEF StageOf
  <2>4. CASE t = 0
    <3>1. FinalizeName(t - 1) = Single("prefill_finalize")
      BY <2>4, PassNamesAre
    <3>2. Less(<<5 + N + N, 0, 1, 0>>, <<J, t, 1, 0>>) /\ Less(<<6 + N + N, 0, 1, 0>>, <<J, t, 1, 0>>)
      BY <1>1 DEF Less
    <3>3. Precedes(r, Single("prefill_finalize"), name) /\ Precedes(r, Single("decode_init"), name)
      BY <1>2, <2>2, <3>2, NamedPrecedes
    <3> QED
      BY <2>3, <2>4, <3>1, <3>3 DEF Follows
  <2>5. CASE t # 0
    <3>1. t - 1 \in 0 .. (r.tokens - 1) /\ t - 1 \in Nat
      BY <1>1, <2>5
    <3>2. Named(r, FinalizeName(t - 1), <<J, t - 1, Ending(r), 0>>) /\ Named(r, SelectName(t - 1), <<J, t - 1, 1, 0>>)
      BY <3>1, DecodeNames, PassNamesAre DEF SelectName
    <3>3. Less(<<J, t - 1, Ending(r), 0>>, <<J, t, 1, 0>>) /\ Less(<<J, t - 1, 1, 0>>, <<J, t, 1, 0>>)
      BY <1>1 DEF Less
    <3>4. Precedes(r, FinalizeName(t - 1), name) /\ Precedes(r, SelectName(t - 1), name)
      BY <2>2, <3>2, <3>3, NamedPrecedes
    <3> QED
      BY <2>3, <2>5, <3>4 DEF Follows
  <2> QED
    BY <2>4, <2>5
<1>8. CASE name = Name("decode_embed", t, 0)
  <2>1. Wiring(r, name, Behind(r)) = EmbedWiring(t)
    BY <1>8, WiringOf
  <2>2. Named(r, name, <<J, t, 2, 0>>)
    BY <1>3, <1>8 DEF EmbedName
  <2>3. \A x \in SourcesOf(StageOf(r, name, Behind(r))) : x = SelectName(t)
    BY <2>1, WiringSources DEF StageOf
  <2>4. Less(<<J, t, 1, 0>>, <<J, t, 2, 0>>)
    BY <1>1 DEF Less
  <2>5. Precedes(r, SelectName(t), name)
    BY <1>3, <2>2, <2>4, NamedPrecedes
  <2> QED
    BY <2>3, <2>5 DEF Follows
<1>9. ASSUME NEW l \in 0 .. (N - 1), name = Name("decode_aux", t, l) PROVE Follows(r, name)
  <2>1. Wiring(r, name, Behind(r)) = AuxWiring(t, l)
    BY <1>9, WiringOf
  <2>2. Named(r, name, <<J, t, 3, l>>)
    BY <1>1, <1>3, <1>9, PassNamesAre
  <2>3. \A x \in SourcesOf(StageOf(r, name, Behind(r))) : x = StartOf(t)
    BY <2>1, WiringSources DEF StageOf
  <2>4. StartOf(t) = EmbedName(t)
    BY <1>1 DEF StartOf
  <2>5. Less(<<J, t, 2, 0>>, <<J, t, 3, l>>)
    BY <1>1 DEF Less
  <2>6. Precedes(r, EmbedName(t), name)
    BY <1>3, <2>2, <2>5, NamedPrecedes
  <2> QED
    BY <2>3, <2>4, <2>6 DEF Follows
<1>10. ASSUME NEW l \in 0 .. (N - 1), name = Name("decode_range", t, l) PROVE Follows(r, name)
  <2> DEFINE q == PlaceIn(l)
  <2>1. Wiring(r, name, Behind(r)) = RangeWiring(r, t, l)
    BY <1>10, WiringOf
  <2>2. Named(r, name, q)
    BY <1>1, <1>5, <1>10, PassNamesAre
  <2>3. /\ Less(<<4, 0, 1, 0>>, q) /\ Less(<<J, t, 2, 0>>, q) /\ Less(<<J, t, 3, l>>, q)
        /\ Less(<<5 + N + l, 0, 1, 0>>, q)
    BY <1>1 DEF Less
  <2>4. \A n \in 0 .. (N - 1) : n < l => Less(PlaceIn(n), q)
    BY <1>1 DEF Less
  <2>5. t # 0 => Less(Before(l), q)
    BY <1>1 DEF Less
  <2>6. Precedes(r, Embedding, name)
    BY <1>2, <2>2, <2>3, NamedPrecedes DEF Embedding
  <2>7. Precedes(r, EmbedName(t), name)
    BY <1>3, <2>2, <2>3, NamedPrecedes
  <2>8. Precedes(r, AuxName(t, l), name)
    BY <1>3, <2>2, <2>3, NamedPrecedes
  <2> HIDE DEF q, PlaceIn, Before
  <2>9. ASSUME NEW n \in 0 .. (N - 1), n < l PROVE Precedes(r, RangeName(t, n), name)
    <3>1. Named(r, RangeName(t, n), PlaceIn(n)) /\ Less(PlaceIn(n), q)
      BY <1>5, <2>4, <2>9
    <3> QED
      BY <2>2, <3>1, NamedPrecedes
  <2>10. Precedes(r, PriorOf(t, l), name)
    <3>1. CASE t = 0
      <4>1. PriorOf(t, l) = Name("prefill_range", 0, l)
        BY <3>1, PassNamesAre DEF PriorOf
      <4> QED
        BY <1>2, <2>2, <2>3, <4>1, NamedPrecedes
    <3>2. CASE t # 0
      BY <1>6, <2>2, <2>5, <3>2, NamedPrecedes
    <3> QED
      BY <3>1, <3>2
  <2>11. Precedes(r, LowerOf(t, l), name)
    <3>1. CASE l = 0
      <4>1. LowerOf(t, l) = EmbedName(t)
        BY <1>1, <3>1 DEF LowerOf, StartOf
      <4> QED
        BY <2>7, <4>1
    <3>2. CASE l # 0
      <4>1. l - 1 \in 0 .. (N - 1) /\ l - 1 < l
        BY <1>1, <3>2
      <4>2. LowerOf(t, l) = RangeName(t, l - 1)
        BY <3>2 DEF LowerOf
      <4> QED
        BY <2>9, <4>1, <4>2
    <3> QED
      BY <3>1, <3>2
  <2>12. ASSUME NEW d, s.shared > 0 => d \in 0 .. (F - 1) PROVE Precedes(r, DonorOf(r, t, l, d), name)
    <3>1. CASE l < F
      <4>1. DonorOf(r, t, l, d) = Embedding
        BY <3>1 DEF DonorOf
      <4> QED
        BY <2>6, <4>1
    <3>2. CASE ~(l < F)
      <4>1. DonorOf(r, t, l, d) = RangeName(t, d)
        BY <3>2 DEF DonorOf
      <4>2. d \in 0 .. (N - 1) /\ d < l
        BY <1>1, <2>12, <3>2
      <4> QED
        BY <2>9, <4>1, <4>2
    <3> QED
      BY <3>1, <3>2
  <2>13. Precedes(r, DonorOf(r, t, l, DonorA(s)), name) /\ Precedes(r, DonorOf(r, t, l, DonorB(s)), name)
    BY <1>1, <2>12
  <2>14. \A x \in SourcesOf(StageOf(r, name, Behind(r))) :
           x \in {LowerOf(t, l), PriorOf(t, l), DonorOf(r, t, l, DonorA(s)), DonorOf(r, t, l, DonorB(s)), AuxName(t, l)}
    BY <2>1, WiringSources DEF StageOf, s
  <2> HIDE DEF s
  <2> QED
    BY <2>8, <2>10, <2>11, <2>13, <2>14 DEF Follows
<1>11. CASE name = Name("decode_finalize", t, 0)
  <2>1. Wiring(r, name, Behind(r)) = FinalizeWiring(r, t)
    BY <1>11, WiringOf
  <2>2. Named(r, name, <<J, t, Ending(r), 0>>)
    BY <1>1, <1>3, <1>11, PassNamesAre
  <2>3. \A x \in SourcesOf(StageOf(r, name, Behind(r))) : x = RangeName(t, N - 1)
    BY <2>1, WiringSources DEF StageOf
  <2>4. N - 1 \in 0 .. (N - 1)
    BY <1>1
  <2>5. Less(PlaceIn(N - 1), <<J, t, Ending(r), 0>>)
    BY <1>1 DEF Less, Ending
  <2>6. Named(r, RangeName(t, N - 1), PlaceIn(N - 1))
    BY <1>5, <2>4
  <2> HIDE DEF PlaceIn
  <2>7. Precedes(r, RangeName(t, N - 1), name)
    BY <2>2, <2>5, <2>6, NamedPrecedes
  <2> QED
    BY <2>3, <2>7 DEF Follows
<1> HIDE DEF PlaceIn, Before, J, F
<1> QED
  BY <1>7, <1>8, <1>9, <1>10, <1>11 DEF InPass

(* Every stage reads from earlier ones only. *)
LEMMA EveryNameFollows ==
  ASSUME NEW r, IsRun(r), NEW name, IsName(r, name)
  PROVE  Follows(r, name)
<1> DEFINE N == r.shape.layers
<1>1. CASE \E t \in 0 .. (r.tokens - 1) : InPass(r, t, name)
  BY <1>1, DecodeFollows
<1>2. CASE name = Single("output_finalize")
  <2>1. r.tokens \in Nat /\ N \in Nat
    BY DEF IsRun, IsShape
  <2>2. Wiring(r, name, Behind(r)) = OutputWiring(Behind(r))
    BY <1>2, WiringOf DEF Single
  <2>3. Named(r, name, <<8 + N + N, 0, 1, 0>>) /\ Named(r, Single("decode_init"), <<6 + N + N, 0, 1, 0>>)
    BY <1>2, PrefillNames
  <2>4. \A x \in SourcesOf(StageOf(r, name, Behind(r))) : x = Behind(r).edge
    BY <2>2, WiringSources DEF StageOf
  <2>5. Precedes(r, Behind(r).edge, name)
    <3>1. CASE r.tokens = 0
      <4>1. Behind(r).edge = Single("decode_init") /\ Less(<<6 + N + N, 0, 1, 0>>, <<8 + N + N, 0, 1, 0>>)
        BY <2>1, <3>1 DEF Behind, Less
      <4> QED
        BY <2>3, <4>1, NamedPrecedes
    <3>2. CASE r.tokens # 0
      <4>1. r.tokens - 1 \in 0 .. (r.tokens - 1)
        BY <2>1, <3>2
      <4>2. Named(r, Name("decode_select", r.tokens - 1, 0), <<7 + N + N, r.tokens - 1, 1, 0>>)
        BY <4>1, DecodeNames
      <4>3. Behind(r).edge = Name("decode_select", r.tokens - 1, 0)
            /\ Less(<<7 + N + N, r.tokens - 1, 1, 0>>, <<8 + N + N, 0, 1, 0>>)
        BY <2>1, <3>2 DEF Behind, Less, SelectName
      <4> QED
        BY <2>3, <4>2, <4>3, NamedPrecedes
    <3> QED
      BY <3>1, <3>2
  <2> QED
    BY <2>4, <2>5 DEF Follows
<1> QED
  BY <1>1, <1>2, NameCases, PromptFollows, PrefillFollows DEF OneOf

-----------------------------------------------------------------------------
(* What the expansion pushes at a place is the stage with the name of the  *)
(* place.                                                                  *)

PushedAt(r, i, name) == Named(r, name, <<i, 0, 1, 0>>) /\ Pushes(r, Items(r)[i].stage, name)

LEMMA PushedItem ==
  ASSUME NEW r, NEW i, NEW it, NEW name, Items(r)[i] = it, Named(r, name, <<i, 0, 1, 0>>),
         Pushes(r, it.stage, name)
  PROVE  PushedAt(r, i, name)
<1>1. Items(r)[i].stage = it.stage
  BY Zenon
<1>2. Pushes(r, Items(r)[i].stage, name)
  BY <1>1, Zenon
<1> QED
  BY <1>2, Zenon DEF PushedAt

LEMMA SinglePushes ==
  ASSUME NEW r, IsRun(r), NEW i \in 1 .. Len(Items(r)), Items(r)[i].repeat = FALSE
  PROVE  \E name : PushedAt(r, i, name)
<1> DEFINE N == r.shape.layers
           M == Items(r)
<1>1. N \in Nat /\ N > 0
  BY BoundDonors DEF IsRun
<1>2. /\ Len(M) = 8 + N + N /\ M[1] = SeedItem /\ M[3] = PrepareItem /\ M[4] = EmbeddingItem
      /\ \A n \in 0 .. (N - 1) : M[5 + n] = AuxItem(n)
      /\ \A n \in 0 .. (N - 1) : M[5 + N + n] = RangeItem(r.shape, n)
      /\ M[5 + N + N] = HeadItem(r.shape)
      /\ M[6 + N + N] = InitItem /\ M[8 + N + N] = OutputItem
  BY ItemsAre DEF ItemsAreListed
<1>3. M[2].repeat = TRUE /\ M[7 + N + N].repeat = TRUE
  BY ShapesAre
<1>4. /\ Named(r, Single("prompt_merge_seed"), <<1, 0, 1, 0>>)
      /\ Named(r, Single("prompt_prepare"), <<3, 0, 1, 0>>)
      /\ Named(r, Single("input_embedding"), <<4, 0, 1, 0>>)
  BY PromptNames
<1>5. /\ \A l \in 0 .. (N - 1) : Named(r, Name("prefill_prepare_aux", 0, l), <<5 + l, 0, 1, 0>>)
      /\ \A l \in 0 .. (N - 1) : Named(r, Name("prefill_range", 0, l), <<5 + N + l, 0, 1, 0>>)
      /\ Named(r, Single("prefill_finalize"), <<5 + N + N, 0, 1, 0>>)
      /\ Named(r, Single("decode_init"), <<6 + N + N, 0, 1, 0>>)
      /\ Named(r, Single("output_finalize"), <<8 + N + N, 0, 1, 0>>)
  BY PrefillNames
<1> HIDE DEF N, M
<1>6. i \in 1 .. (8 + N + N) /\ i # 2 /\ i # 7 + N + N
  <2>1. M[i].repeat = FALSE /\ i \in 1 .. Len(M)
    BY DEF M
  <2>2. i # 2 /\ i # 7 + N + N
    BY <1>3, <2>1
  <2> QED
    BY <1>2, <2>1, <2>2
<1> DEFINE Goal == \E name : PushedAt(r, i, name)
<1>7. CASE i = 1
  <2>1. Items(r)[i] = SeedItem /\ Named(r, Single("prompt_merge_seed"), <<i, 0, 1, 0>>)
    BY <1>2, <1>4, <1>7 DEF M
  <2>2. Pushes(r, SeedItem.stage, Single("prompt_merge_seed"))
    BY SeedPushes, Zenon
  <2> QED
    BY <2>1, <2>2, PushedItem, Zenon
<1>8. CASE i = 3
  <2>1. Items(r)[i] = PrepareItem /\ Named(r, Single("prompt_prepare"), <<i, 0, 1, 0>>)
    BY <1>2, <1>4, <1>8 DEF M
  <2>2. Pushes(r, PrepareItem.stage, Single("prompt_prepare"))
    BY PreparePushes, Zenon
  <2> QED
    BY <2>1, <2>2, PushedItem, Zenon
<1>9. CASE i = 4
  <2>1. Items(r)[i] = EmbeddingItem /\ Named(r, Single("input_embedding"), <<i, 0, 1, 0>>)
    BY <1>2, <1>4, <1>9 DEF M
  <2>2. Pushes(r, EmbeddingItem.stage, Single("input_embedding"))
    BY EmbeddingPushes, Zenon
  <2> QED
    BY <2>1, <2>2, PushedItem, Zenon
<1>10. CASE i \in 5 .. (4 + N)
  <2>1. PICK n \in 0 .. (N - 1) : i = 5 + n
    <3>1. i - 5 \in 0 .. (N - 1) /\ i = 5 + (i - 5)
      BY <1>1, <1>10
    <3> QED
      BY <3>1
  <2>2. Items(r)[i] = AuxItem(n) /\ Named(r, Name("prefill_prepare_aux", 0, n), <<i, 0, 1, 0>>)
    BY <1>2, <1>5, <2>1 DEF M
  <2>4. Pushes(r, AuxItem(n).stage, Name("prefill_prepare_aux", 0, n))
    BY AuxPushes, Zenon
  <2> QED
    BY <2>2, <2>4, PushedItem, Zenon
<1>11. CASE i \in (5 + N) .. (4 + N + N)
  <2>1. PICK n \in 0 .. (N - 1) : i = 5 + N + n
    <3>1. i - (5 + N) \in 0 .. (N - 1) /\ i = 5 + N + (i - (5 + N))
      BY <1>1, <1>11
    <3> QED
      BY <3>1
  <2>2. Items(r)[i] = RangeItem(r.shape, n) /\ Named(r, Name("prefill_range", 0, n), <<i, 0, 1, 0>>)
    BY <1>2, <1>5, <2>1 DEF M
  <2>3. n \in Int
    BY <1>1, <2>1
  <2>4. Pushes(r, RangeItem(r.shape, n).stage, Name("prefill_range", 0, n))
    BY <2>3, RangePushes, Zenon
  <2> QED
    BY <2>2, <2>4, PushedItem, Zenon
<1>12. CASE i = 5 + N + N
  <2>1. Items(r)[i] = HeadItem(r.shape) /\ Named(r, Single("prefill_finalize"), <<i, 0, 1, 0>>)
    BY <1>2, <1>5, <1>12 DEF M
  <2>2. Pushes(r, HeadItem(r.shape).stage, Single("prefill_finalize"))
    BY HeadPushes, Zenon
  <2> QED
    BY <2>1, <2>2, PushedItem, Zenon
<1>13. CASE i = 6 + N + N
  <2>1. Items(r)[i] = InitItem /\ Named(r, Single("decode_init"), <<i, 0, 1, 0>>)
    BY <1>2, <1>5, <1>13 DEF M
  <2>2. Pushes(r, InitItem.stage, Single("decode_init"))
    BY InitPushes, Zenon
  <2> QED
    BY <2>1, <2>2, PushedItem, Zenon
<1>14. CASE i = 8 + N + N
  <2>1. Items(r)[i] = OutputItem /\ Named(r, Single("output_finalize"), <<i, 0, 1, 0>>)
    BY <1>2, <1>5, <1>14 DEF M
  <2>2. Pushes(r, OutputItem.stage, Single("output_finalize"))
    BY OutputPushes, Zenon
  <2> QED
    BY <2>1, <2>2, PushedItem, Zenon
<1>15. Goal
  BY <1>1, <1>6, <1>7, <1>8, <1>9, <1>10, <1>11, <1>12, <1>13, <1>14
<1> QED
  BY <1>15 DEF Goal

(* The indexes of a place. *)
IndexesAt(it, o, p, n) ==
  IF it.stages[p].index = "none" THEN OuterIndex(it, o)
  ELSE Extended(InnerIndex(it.stages[p], n), OuterIndex(it, o))

LEMMA OuterHas ==
  ASSUME NEW it, it.start = 0, NEW o \in Nat
  PROVE  HasIndex(OuterIndex(it, o), it.index, o, 0)
<1>1. 0 + o = o
  OBVIOUS
<1> QED
  BY <1>1 DEF HasIndex, OuterIndex

LEMMA InnerHas ==
  ASSUME NEW it, it.start = 0, it.index = "t", NEW o \in Nat,
         NEW template, template.index = "l", NEW n
  PROVE  LET idx == Extended(InnerIndex(template, n), OuterIndex(it, o))
         IN  HasIndex(idx, "t", o, 0) /\ HasIndex(idx, "l", template.start + n, template.start)
<1> DEFINE f == InnerIndex(template, n)
           g == OuterIndex(it, o)
<1>1. DOMAIN g = {"t"} /\ g["t"] = [value |-> o, start |-> 0]
  <2>1. HasIndex(g, "t", o, 0)
    BY OuterHas
  <2> QED
    BY <2>1 DEF HasIndex, OuterIndex
<1>2. DOMAIN f = {"l"} /\ f["l"] = [value |-> template.start + n, start |-> template.start]
  BY DEF InnerIndex
<1> HIDE DEF f, g
<1>3. "t" # "l"
  OBVIOUS
<1>4. /\ "t" \in DOMAIN Extended(f, g) /\ Extended(f, g)["t"] = g["t"]
      /\ "l" \in DOMAIN Extended(f, g) /\ Extended(f, g)["l"] = f["l"]
  BY <1>1, <1>2, <1>3 DEF Extended
<1> QED
  BY <1>1, <1>2, <1>4 DEF HasIndex, f, g

LEMMA TemplateIndexes ==
  ASSUME NEW s
  PROVE  /\ MergeTemplate.index = "none" /\ SelectTemplate.index = "none"
         /\ EmbedTemplate.index = "none" /\ FinalizeTemplate(s).index = "none"
         /\ AuxTemplate(s).index = "l" /\ AuxTemplate(s).start = 0
         /\ OwnTemplate(s).index = "l" /\ OwnTemplate(s).start = 0
         /\ SharedTemplate(s).index = "l" /\ SharedTemplate(s).start = FirstShared(s)
BY DEF MergeTemplate, SelectTemplate, EmbedTemplate, FinalizeTemplate, AuxTemplate, OwnTemplate,
       SharedTemplate, DecodeRange, One, Each

RepeatedAt(r, i, o, p, n, name) ==
  /\ Named(r, name, <<i, o, p, n>>)
  /\ ExpandsTo(Items(r)[i].stages[p], IndexesAt(Items(r)[i], o, p, n), StageOf(r, name, Keys))

LEMMA RepeatedItem ==
  ASSUME NEW r, NEW i, NEW o, NEW p, NEW n, NEW name, NEW it, NEW template, NEW idx,
         Items(r)[i] = it, it.stages[p] = template, IndexesAt(it, o, p, n) = idx,
         Named(r, name, <<i, o, p, n>>), ExpandsTo(template, idx, StageOf(r, name, Keys))
  PROVE  RepeatedAt(r, i, o, p, n, name)
<1>1. Items(r)[i].stages[p] = template /\ IndexesAt(Items(r)[i], o, p, n) = idx
  BY Zenon
<1>2. ExpandsTo(Items(r)[i].stages[p], IndexesAt(Items(r)[i], o, p, n), StageOf(r, name, Keys))
  BY <1>1, Zenon
<1> QED
  BY <1>2, Zenon DEF RepeatedAt

LEMMA IndexesOf ==
  ASSUME NEW it, NEW o, NEW p, NEW n, NEW template, it.stages[p] = template
  PROVE  /\ template.index = "none" => IndexesAt(it, o, p, n) = OuterIndex(it, o)
         /\ template.index = "l" =>
              IndexesAt(it, o, p, n) = Extended(InnerIndex(template, n), OuterIndex(it, o))
<1>1. "l" # "none"
  OBVIOUS
<1> QED
  BY <1>1, Zenon DEF IndexesAt

LEMMA MergeRepeats ==
  ASSUME NEW r, IsRun(r), NEW b \in 0 .. (r.batches - 1)
  PROVE  RepeatedAt(r, 2, b, 1, 0, Name("prompt_merge", b, 0))
<1> DEFINE it == MergeItem(r)
           name == Name("prompt_merge", b, 0)
           idx == OuterIndex(it, b)
<1>1. Items(r)[2] = it
  BY ItemsAre, Zenon DEF ItemsAreListed
<1>2. it.index = "b" /\ it.start = 0 /\ it.stages = <<MergeTemplate>>
  BY RepeatItems, Zenon
<1>3. Named(r, name, <<2, b, 1, 0>>)
  BY PromptNames, Zenon
<1>4. r.batches \in Nat
  BY Zenon DEF IsRun
<1>5. b \in Nat
  BY <1>4
<1> HIDE DEF it, name
<1>6. it.stages[1] = MergeTemplate
  <2>1. <<MergeTemplate>>[1] = MergeTemplate
    BY Triple, Zenon
  <2> QED
    BY <1>2, <2>1, Zenon
<1>7. IndexesAt(it, b, 1, 0) = idx
  BY <1>6, IndexesOf, TemplateIndexes, Zenon
<1>8. HasIndex(idx, "b", b, 0)
  <2>1. HasIndex(OuterIndex(it, b), it.index, b, 0)
    BY <1>2, <1>5, OuterHas, Zenon
  <2> QED
    BY <1>2, <2>1, Zenon
<1> HIDE DEF idx
<1>9. ExpandsTo(MergeTemplate, idx, StageOf(r, name, Keys))
  BY <1>5, <1>8, MergeExpands, Zenon DEF name
<1>10. RepeatedAt(r, 2, b, 1, 0, name)
  BY <1>1, <1>3, <1>6, <1>7, <1>9, RepeatedItem, Zenon
<1> QED
  BY <1>10, Zenon DEF name

LEMMA SelectRepeats ==
  ASSUME NEW r, IsRun(r), NEW t \in 0 .. (r.tokens - 1)
  PROVE  RepeatedAt(r, 7 + r.shape.layers + r.shape.layers, t, 1, 0, Name("decode_select", t, 0))
<1> DEFINE it == TokensItem(r)
           i == 7 + r.shape.layers + r.shape.layers
           name == Name("decode_select", t, 0)
           idx == OuterIndex(it, t)
           template == SelectTemplate
<1>1. Items(r)[i] = it
  BY ItemsAre, Zenon DEF ItemsAreListed
<1>2. it.index = "t" /\ it.start = 0 /\ it.stages = DecodeStages(r.shape)
  BY RepeatItems, Zenon
<1>3. Named(r, name, <<i, t, 1, 0>>)
  BY DecodeNames, Zenon
<1>4. r.tokens \in Nat
  BY Zenon DEF IsRun
<1>5. t \in Nat
  BY <1>4
<1>6. DecodeStages(r.shape)[1] = template
  BY DecodeParts, Zenon
<1>7. template.index = "none"
  BY TemplateIndexes, Zenon
<1> HIDE DEF it, i
<1>8. it.stages[1] = template
  BY <1>2, <1>6, Zenon
<1>9. HasIndex(idx, "t", t, 0)
  <2>1. HasIndex(OuterIndex(it, t), it.index, t, 0)
    BY <1>2, <1>5, OuterHas, Zenon
  <2> QED
    BY <1>2, <2>1, Zenon
<1> HIDE DEF idx
<1>10. ExpandsTo(template, idx, StageOf(r, name, Keys))
  BY <1>5, <1>9, SelectExpands, Zenon
<1> HIDE DEF template, name
<1>11. IndexesAt(it, t, 1, 0) = idx
  BY <1>7, <1>8, IndexesOf, Zenon DEF idx
<1>12. RepeatedAt(r, i, t, 1, 0, name)
  BY <1>1, <1>3, <1>8, <1>10, <1>11, RepeatedItem, Zenon
<1> QED
  BY <1>12, Zenon DEF i, name

LEMMA EmbedRepeats ==
  ASSUME NEW r, IsRun(r), NEW t \in 0 .. (r.tokens - 1)
  PROVE  RepeatedAt(r, 7 + r.shape.layers + r.shape.layers, t, 2, 0, Name("decode_embed", t, 0))
<1> DEFINE it == TokensItem(r)
           i == 7 + r.shape.layers + r.shape.layers
           name == Name("decode_embed", t, 0)
           idx == OuterIndex(it, t)
           template == EmbedTemplate
<1>1. Items(r)[i] = it
  BY ItemsAre, Zenon DEF ItemsAreListed
<1>2. it.index = "t" /\ it.start = 0 /\ it.stages = DecodeStages(r.shape)
  BY RepeatItems, Zenon
<1>3. Named(r, name, <<i, t, 2, 0>>)
  BY DecodeNames, Zenon
<1>4. r.tokens \in Nat
  BY Zenon DEF IsRun
<1>5. t \in Nat
  BY <1>4
<1>6. DecodeStages(r.shape)[2] = template
  BY DecodeParts, Zenon
<1>7. template.index = "none"
  BY TemplateIndexes, Zenon
<1> HIDE DEF it, i
<1>8. it.stages[2] = template
  BY <1>2, <1>6, Zenon
<1>9. HasIndex(idx, "t", t, 0)
  <2>1. HasIndex(OuterIndex(it, t), it.index, t, 0)
    BY <1>2, <1>5, OuterHas, Zenon
  <2> QED
    BY <1>2, <2>1, Zenon
<1> HIDE DEF idx
<1>10. ExpandsTo(template, idx, StageOf(r, name, Keys))
  BY <1>5, <1>9, EmbedExpands, Zenon
<1> HIDE DEF template, name
<1>11. IndexesAt(it, t, 2, 0) = idx
  BY <1>7, <1>8, IndexesOf, Zenon DEF idx
<1>12. RepeatedAt(r, i, t, 2, 0, name)
  BY <1>1, <1>3, <1>8, <1>10, <1>11, RepeatedItem, Zenon
<1> QED
  BY <1>12, Zenon DEF i, name

LEMMA FinalizeRepeats ==
  ASSUME NEW r, IsRun(r), NEW t \in 0 .. (r.tokens - 1)
  PROVE  RepeatedAt(r, 7 + r.shape.layers + r.shape.layers, t, Ending(r), 0, Name("decode_finalize", t, 0))
<1> DEFINE it == TokensItem(r)
           i == 7 + r.shape.layers + r.shape.layers
           name == Name("decode_finalize", t, 0)
           idx == OuterIndex(it, t)
           template == FinalizeTemplate(r.shape)
<1>1. Items(r)[i] = it
  BY ItemsAre, Zenon DEF ItemsAreListed
<1>2. it.index = "t" /\ it.start = 0 /\ it.stages = DecodeStages(r.shape)
  BY RepeatItems, Zenon
<1>3. Named(r, name, <<i, t, Ending(r), 0>>)
  BY DecodeNames, Zenon
<1>4. r.tokens \in Nat
  BY Zenon DEF IsRun
<1>5. t \in Nat
  BY <1>4
<1>6. DecodeStages(r.shape)[Ending(r)] = template
  <2>1. CASE r.shape.shared = 0
    BY <2>1, DecodeParts, Zenon DEF Ending
  <2>2. CASE r.shape.shared # 0
    BY <2>2, DecodeParts, Zenon DEF Ending
  <2> QED
    BY <2>1, <2>2, Zenon
<1>7. template.index = "none"
  BY TemplateIndexes, Zenon
<1> HIDE DEF it, i
<1>8. it.stages[Ending(r)] = template
  BY <1>2, <1>6, Zenon
<1>9. HasIndex(idx, "t", t, 0)
  <2>1. HasIndex(OuterIndex(it, t), it.index, t, 0)
    BY <1>2, <1>5, OuterHas, Zenon
  <2> QED
    BY <1>2, <2>1, Zenon
<1> HIDE DEF idx
<1>10. ExpandsTo(template, idx, StageOf(r, name, Keys))
  BY <1>5, <1>9, FinalizeExpands, Zenon
<1> HIDE DEF template, name
<1>11. IndexesAt(it, t, Ending(r), 0) = idx
  BY <1>7, <1>8, IndexesOf, Zenon DEF idx
<1>12. RepeatedAt(r, i, t, Ending(r), 0, name)
  BY <1>1, <1>3, <1>8, <1>10, <1>11, RepeatedItem, Zenon
<1> QED
  BY <1>12, Zenon DEF i, name

LEMMA AuxRepeats ==
  ASSUME NEW r, IsRun(r), ManifestIs(r), NEW t \in 0 .. (r.tokens - 1), NEW l \in 0 .. (r.shape.layers - 1)
  PROVE  RepeatedAt(r, 7 + r.shape.layers + r.shape.layers, t, 3, l, Name("decode_aux", t, l))
<1> DEFINE it == TokensItem(r)
           i == 7 + r.shape.layers + r.shape.layers
           name == Name("decode_aux", t, l)
           template == AuxTemplate(r.shape)
           n == l
           idx == Extended(InnerIndex(template, n), OuterIndex(it, t))
<1>1. Items(r)[i] = it
  BY ItemsAre, Zenon DEF ItemsAreListed
<1>2. it.index = "t" /\ it.start = 0 /\ it.stages = DecodeStages(r.shape)
  BY RepeatItems, Zenon
<1>3. Named(r, name, <<i, t, 3, n>>)
  BY DecodeNames, Zenon
<1>4. r.tokens \in Nat /\ r.shape.layers \in Nat /\ FirstShared(r.shape) \in Nat
  BY BoundDonors, Zenon DEF IsRun
<1>5. t \in Nat
  BY <1>4
<1>6. DecodeStages(r.shape)[3] = template
  BY DecodeParts, Zenon
<1>7. template.index = "l" /\ template.start = 0
  BY TemplateIndexes, Zenon
<1>8. 0 + n = l
  BY <1>4
<1> HIDE DEF it, i, template, n
<1>9. it.stages[3] = template
  BY <1>2, <1>6, Zenon
<1>10. HasIndex(idx, "t", t, 0) /\ HasIndex(idx, "l", template.start + n, template.start)
  BY <1>2, <1>5, <1>7, InnerHas, Zenon
<1>11. IndexesAt(it, t, 3, n) = idx
  BY <1>7, <1>9, IndexesOf, Zenon
<1> HIDE DEF idx
<1>12. HasIndex(idx, "l", l, 0)
  BY <1>7, <1>8, <1>10, Zenon
<1>13. ExpandsTo(template, idx, StageOf(r, name, Keys))
  <2>1. l \in 0 .. (r.shape.layers - 1)
    BY <1>4
  <2> QED
    BY <1>5, <1>10, <1>12, <2>1, AuxExpands, Zenon DEF template
<1> HIDE DEF name
<1>14. RepeatedAt(r, i, t, 3, n, name)
  BY <1>1, <1>3, <1>9, <1>11, <1>13, RepeatedItem, Zenon
<1> QED
  BY <1>14, Zenon DEF i, name, n

LEMMA OwnRepeats ==
  ASSUME NEW r, IsRun(r), ManifestIs(r), NEW t \in 0 .. (r.tokens - 1), NEW l \in 0 .. (FirstShared(r.shape) - 1)
  PROVE  RepeatedAt(r, 7 + r.shape.layers + r.shape.layers, t, 4, l, Name("decode_range", t, l))
<1> DEFINE it == TokensItem(r)
           i == 7 + r.shape.layers + r.shape.layers
           name == Name("decode_range", t, l)
           template == OwnTemplate(r.shape)
           n == l
           idx == Extended(InnerIndex(template, n), OuterIndex(it, t))
<1>1. Items(r)[i] = it
  BY ItemsAre, Zenon DEF ItemsAreListed
<1>2. it.index = "t" /\ it.start = 0 /\ it.stages = DecodeStages(r.shape)
  BY RepeatItems, Zenon
<1>3. Named(r, name, <<i, t, 4, n>>)
  BY DecodeNames, Zenon
<1>4. r.tokens \in Nat /\ r.shape.layers \in Nat /\ FirstShared(r.shape) \in Nat
  BY BoundDonors, Zenon DEF IsRun
<1>5. t \in Nat
  BY <1>4
<1>6. DecodeStages(r.shape)[4] = template
  BY DecodeParts, Zenon
<1>7. template.index = "l" /\ template.start = 0
  BY TemplateIndexes, Zenon
<1>8. 0 + n = l
  BY <1>4
<1> HIDE DEF it, i, template, n
<1>9. it.stages[4] = template
  BY <1>2, <1>6, Zenon
<1>10. HasIndex(idx, "t", t, 0) /\ HasIndex(idx, "l", template.start + n, template.start)
  BY <1>2, <1>5, <1>7, InnerHas, Zenon
<1>11. IndexesAt(it, t, 4, n) = idx
  BY <1>7, <1>9, IndexesOf, Zenon
<1> HIDE DEF idx
<1>12. HasIndex(idx, "l", l, 0)
  BY <1>7, <1>8, <1>10, Zenon
<1>13. ExpandsTo(template, idx, StageOf(r, name, Keys))
  <2>1. l \in 0 .. (FirstShared(r.shape) - 1)
    BY <1>4
  <2> QED
    BY <1>5, <1>10, <1>12, <2>1, OwnExpands, Zenon DEF template
<1> HIDE DEF name
<1>14. RepeatedAt(r, i, t, 4, n, name)
  BY <1>1, <1>3, <1>9, <1>11, <1>13, RepeatedItem, Zenon
<1> QED
  BY <1>14, Zenon DEF i, name, n

LEMMA SharedRepeats ==
  ASSUME NEW r, IsRun(r), ManifestIs(r), r.shape.shared # 0, NEW t \in 0 .. (r.tokens - 1), NEW l \in FirstShared(r.shape) .. (r.shape.layers - 1)
  PROVE  RepeatedAt(r, 7 + r.shape.layers + r.shape.layers, t, 5, l - FirstShared(r.shape), Name("decode_range", t, l))
<1> DEFINE it == TokensItem(r)
           i == 7 + r.shape.layers + r.shape.layers
           name == Name("decode_range", t, l)
           template == SharedTemplate(r.shape)
           n == l - FirstShared(r.shape)
           idx == Extended(InnerIndex(template, n), OuterIndex(it, t))
<1>1. Items(r)[i] = it
  BY ItemsAre, Zenon DEF ItemsAreListed
<1>2. it.index = "t" /\ it.start = 0 /\ it.stages = DecodeStages(r.shape)
  BY RepeatItems, Zenon
<1>3. Named(r, name, <<i, t, 5, n>>)
  BY DecodeNames, Zenon
<1>4. r.tokens \in Nat /\ r.shape.layers \in Nat /\ FirstShared(r.shape) \in Nat
  BY BoundDonors, Zenon DEF IsRun
<1>5. t \in Nat
  BY <1>4
<1>6. DecodeStages(r.shape)[5] = template
  BY DecodeParts, Zenon
<1>7. template.index = "l" /\ template.start = FirstShared(r.shape)
  BY TemplateIndexes, Zenon
<1>8. FirstShared(r.shape) + n = l
  BY <1>4
<1> HIDE DEF it, i, template, n
<1>9. it.stages[5] = template
  BY <1>2, <1>6, Zenon
<1>10. HasIndex(idx, "t", t, 0) /\ HasIndex(idx, "l", template.start + n, template.start)
  BY <1>2, <1>5, <1>7, InnerHas, Zenon
<1>11. IndexesAt(it, t, 5, n) = idx
  BY <1>7, <1>9, IndexesOf, Zenon
<1> HIDE DEF idx
<1>12. HasIndex(idx, "l", l, FirstShared(r.shape))
  BY <1>7, <1>8, <1>10, Zenon
<1>13. ExpandsTo(template, idx, StageOf(r, name, Keys))
  <2>1. l \in FirstShared(r.shape) .. (r.shape.layers - 1)
    BY <1>4
  <2>2. r.shape.shared > 0
    BY BoundDonors DEF IsRun
  <2> QED
    BY <1>5, <1>10, <1>12, <2>1, <2>2, SharedExpands, Zenon DEF template
<1> HIDE DEF name
<1>14. RepeatedAt(r, i, t, 5, n, name)
  BY <1>1, <1>3, <1>9, <1>11, <1>13, RepeatedItem, Zenon
<1> QED
  BY <1>14, Zenon DEF i, name, n

LEMMA TokenRepeats ==
  ASSUME NEW r, IsRun(r), ManifestIs(r), NEW t \in 0 .. (r.tokens - 1), NEW p \in 1 .. Ending(r),
         NEW n \in 0 .. (Size(TokensItem(r), p) - 1)
  PROVE  \E name : RepeatedAt(r, 7 + r.shape.layers + r.shape.layers, t, p, n, name)
<1> DEFINE i == 7 + r.shape.layers + r.shape.layers
           F == FirstShared(r.shape)
           N == r.shape.layers
<1>1. /\ Size(TokensItem(r), 1) = 1 /\ Size(TokensItem(r), 2) = 1
      /\ Size(TokensItem(r), 3) = N /\ Size(TokensItem(r), 4) = F
      /\ Ending(r) = 6 => Size(TokensItem(r), 5) = r.shape.shared
      /\ Size(TokensItem(r), Ending(r)) = 1
  <2>1. /\ Items(r)[i] = TokensItem(r)
        /\ Size(Items(r)[i], 1) = 1 /\ Size(Items(r)[i], 2) = 1
        /\ Size(Items(r)[i], 3) = N /\ Size(Items(r)[i], 4) = F
        /\ Ending(r) = 6 => Size(Items(r)[i], 5) = r.shape.shared
        /\ Size(Items(r)[i], Ending(r)) = 1
    BY ShapesAre, Zenon
  <2> HIDE DEF i, N, F
  <2> QED
    BY <2>1, Zenon
<1>2. N \in Nat /\ F \in Nat /\ r.shape.shared \in Nat /\ F = N - r.shape.shared
  BY BoundDonors, Zenon DEF IsRun
<1>3. Ending(r) \in {5, 6} /\ (Ending(r) = 6 => r.shape.shared # 0)
  BY DEF Ending
<1> HIDE DEF i, N, F
<1>4. CASE p = 1
  <2>1. n = 0
    BY <1>1, <1>4
  <2>2. RepeatedAt(r, i, t, 1, 0, Name("decode_select", t, 0))
    BY SelectRepeats, Zenon DEF i
  <2>3. RepeatedAt(r, i, t, p, n, Name("decode_select", t, 0))
    BY <1>4, <2>1, <2>2, Zenon
  <2> QED
    BY <2>3, Zenon DEF i
<1>5. CASE p = 2
  <2>1. n = 0
    BY <1>1, <1>5
  <2>2. RepeatedAt(r, i, t, 2, 0, Name("decode_embed", t, 0))
    BY EmbedRepeats, Zenon DEF i
  <2>3. RepeatedAt(r, i, t, p, n, Name("decode_embed", t, 0))
    BY <1>5, <2>1, <2>2, Zenon
  <2> QED
    BY <2>3, Zenon DEF i
<1>6. CASE p = 3
  <2>1. n \in 0 .. (N - 1)
    BY <1>1, <1>6
  <2>2. RepeatedAt(r, i, t, 3, n, Name("decode_aux", t, n))
    BY <2>1, AuxRepeats, Zenon DEF i, N
  <2>3. RepeatedAt(r, i, t, p, n, Name("decode_aux", t, n))
    BY <1>6, <2>2, Zenon
  <2> QED
    BY <2>3, Zenon DEF i
<1>7. CASE p = 4
  <2>1. n \in 0 .. (F - 1)
    BY <1>1, <1>7
  <2>2. RepeatedAt(r, i, t, 4, n, Name("decode_range", t, n))
    BY <2>1, OwnRepeats, Zenon DEF i, F
  <2>3. RepeatedAt(r, i, t, p, n, Name("decode_range", t, n))
    BY <1>7, <2>2, Zenon
  <2> QED
    BY <2>3, Zenon DEF i
<1>8. CASE p = 5 /\ Ending(r) = 6
  <2>1. n \in 0 .. (r.shape.shared - 1) /\ r.shape.shared # 0
    BY <1>1, <1>3, <1>8
  <2>2. F + n \in F .. (N - 1) /\ (F + n) - F = n
    BY <1>2, <2>1
  <2>3. RepeatedAt(r, i, t, 5, (F + n) - F, Name("decode_range", t, F + n))
    BY <2>1, <2>2, SharedRepeats, Zenon DEF i, F, N
  <2>4. RepeatedAt(r, i, t, p, n, Name("decode_range", t, F + n))
    BY <1>8, <2>2, <2>3, Zenon
  <2> QED
    BY <2>4, Zenon DEF i
<1>9. CASE p = Ending(r)
  <2>1. n = 0
    BY <1>1, <1>9
  <2>2. RepeatedAt(r, i, t, Ending(r), 0, Name("decode_finalize", t, 0))
    BY FinalizeRepeats, Zenon DEF i
  <2>3. RepeatedAt(r, i, t, p, n, Name("decode_finalize", t, 0))
    BY <1>9, <2>1, <2>2, Zenon
  <2> QED
    BY <2>3, Zenon DEF i
<1>10. p \in {1, 2, 3, 4} \/ (p = 5 /\ Ending(r) = 6) \/ p = Ending(r)
  BY <1>3
<1> QED
  BY <1>4, <1>5, <1>6, <1>7, <1>8, <1>9, <1>10, Zenon

LEMMA RepeatPushes ==
  ASSUME NEW r, IsRun(r), ManifestIs(r), NEW i \in 1 .. Len(Items(r)), Items(r)[i].repeat = TRUE,
         NEW o \in 0 .. (Times(Items(r)[i]) - 1), NEW p \in 1 .. Parts(Items(r)[i]),
         NEW n \in 0 .. (Size(Items(r)[i], p) - 1)
  PROVE  \E name : RepeatedAt(r, i, o, p, n, name)
<1> DEFINE N == r.shape.layers
           M == Items(r)
<1>1. /\ Len(M) = 8 + N + N
      /\ \A j \in 1 .. (8 + N + N) : j # 2 /\ j # 7 + N + N => M[j].repeat = FALSE
      /\ M[7 + N + N] = TokensItem(r)
      /\ Times(M[2]) = r.batches /\ Parts(M[2]) = 1 /\ Size(M[2], 1) = 1
      /\ Times(M[7 + N + N]) = r.tokens /\ Parts(M[7 + N + N]) = Ending(r)
  BY ShapesAre, Zenon
<1>2. /\ i \in 1 .. Len(M) /\ M[i].repeat = TRUE /\ o \in 0 .. (Times(M[i]) - 1)
      /\ p \in 1 .. Parts(M[i]) /\ n \in 0 .. (Size(M[i], p) - 1)
  OBVIOUS
<1> HIDE DEF N, M
<1>3. i = 2 \/ i = 7 + N + N
  <2>1. i \in 1 .. (8 + N + N)
    BY <1>1, <1>2, Zenon
  <2> QED
    BY <1>1, <1>2, <2>1, Zenon
<1>4. CASE i = 2
  <2>1. o \in 0 .. (r.batches - 1) /\ p \in 1 .. 1
    BY <1>1, <1>2, <1>4, Zenon
  <2>2. p = 1
    BY <2>1
  <2>3. n \in 0 .. (1 - 1)
    BY <1>1, <1>2, <1>4, <2>2, Zenon
  <2>4. n = 0
    BY <2>3
  <2>5. RepeatedAt(r, 2, o, 1, 0, Name("prompt_merge", o, 0))
    BY <2>1, MergeRepeats, Zenon
  <2> QED
    BY <1>4, <2>2, <2>4, <2>5, Zenon
<1>5. CASE i = 7 + N + N
  <2>1. /\ o \in 0 .. (r.tokens - 1) /\ p \in 1 .. Ending(r)
        /\ n \in 0 .. (Size(TokensItem(r), p) - 1)
    BY <1>1, <1>2, <1>5, Zenon
  <2>2. \E name : RepeatedAt(r, 7 + N + N, o, p, n, name)
    BY <2>1, TokenRepeats, Zenon DEF N
  <2> QED
    BY <1>5, <2>2, Zenon
<1> QED
  BY <1>3, <1>4, <1>5, Zenon

-----------------------------------------------------------------------------
(* What the repeats export.                                                *)

LEMMA ExportedOf ==
  ASSUME NEW it, NEW x, x \in {it.exports[e] : e \in DOMAIN it.exports},
         \A y \in {it.exports[e] : e \in DOMAIN it.exports} : y.key = x.key => y = x
  PROVE  /\ DOMAIN Exported(it) = {y.key : y \in {it.exports[e] : e \in DOMAIN it.exports}}
         /\ Exported(it)[x.key] = IF it.count = 0 THEN x.entry ELSE Rendered(x.stage, LastIndex(it))
<1> DEFINE all == {it.exports[e] : e \in DOMAIN it.exports}
           Behind1(name) == CHOOSE y \in all : y.key = name
           G(name) == IF it.count = 0 THEN Behind1(name).entry ELSE Rendered(Behind1(name).stage, LastIndex(it))
           K == {y.key : y \in all}
<1>1. Exported(it) = [name \in K |-> G(name)]
  BY DEF Exported
<1>2. Behind1(x.key) = x
  BY Zenon
<1>3. x.key \in K
  OBVIOUS
<1>4. DOMAIN Exported(it) = K /\ Exported(it)[x.key] = G(x.key)
  <2> HIDE DEF G, K
  <2> QED
    BY <1>1, <1>3
<1> HIDE DEF Behind1
<1>5. G(x.key) = IF it.count = 0 THEN x.entry ELSE Rendered(x.stage, LastIndex(it))
  BY <1>2, Zenon DEF G
<1> QED
  BY <1>4, <1>5, Zenon DEF K

LEMMA MergeExported ==
  ASSUME NEW r, IsRun(r)
  PROVE  /\ CanExport(MergeItem(r))
         /\ DOMAIN Exported(MergeItem(r)) = {Keys.pieces}
         /\ Exported(MergeItem(r))[Keys.pieces] = Behind(r).pieces
<1> DEFINE it == MergeItem(r)
           x == MergeExports.pieces
           text == Text("prompt_merge", B, Zero)
           all == {it.exports[e] : e \in DOMAIN it.exports}
<1>1. it.index = "b" /\ it.start = 0 /\ it.count = r.batches /\ it.exports = MergeExports
  BY RepeatItems, Zenon
<1>2. r.batches \in Nat
  BY DEF IsRun
<1>3. DOMAIN MergeExports = {"pieces"}
  BY DEF MergeExports
<1>4. x.key = Single("tokenize.pieces") /\ x.stage = text /\ x.entry = Single("prompt_merge_seed")
  BY DEF MergeExports
<1>5. Keys.pieces = Single("tokenize.pieces")
  BY DEF Keys
<1> HIDE DEF it, x
<1>6. ASSUME r.batches # 0 PROVE Gives(text, LastIndex(it), Name("prompt_merge", r.batches - 1, 0))
  <2>1. r.batches - 1 \in Nat /\ Clip(it.count - 1) = r.batches - 1
    BY <1>1, <1>2, <1>6 DEF Clip
  <2>2. HasIndex(OuterIndex(it, r.batches - 1), it.index, r.batches - 1, 0)
    BY <1>1, <2>1, OuterHas, Zenon
  <2>3. HasIndex(LastIndex(it), "b", r.batches - 1, 0)
    BY <1>1, <2>1, <2>2, Zenon DEF LastIndex
  <2>4. r.batches - 1 \in Int /\ 0 \in Int /\ "b" # "none"
    BY <1>2
  <2>5. Fills(B, LastIndex(it), r.batches - 1)
    BY <2>3, <2>4, IndexFills, Zenon DEF B
  <2>6. Fills(Zero, LastIndex(it), 0)
    BY NumberFills, Zenon DEF Zero
  <2> QED
    BY <2>5, <2>6, TextGives, Zenon
<1> HIDE DEF text
<1>7. all = {x}
  <2>1. it.exports["pieces"] = x
    BY <1>1, Zenon DEF x
  <2> QED
    BY <1>1, <1>3, <2>1, Zenon
<1>8. CanExport(it)
  <2>1. ASSUME NEW e \in DOMAIN it.exports
        PROVE  it.count = 0 \/ Outcome(it.exports[e].stage, LastIndex(it)) = "text"
    <3>1. it.exports[e] = x
      BY <1>7, Zenon
    <3>2. it.exports[e].stage = text
      BY <1>4, <3>1, Zenon
    <3> QED
      BY <1>1, <1>6, <3>2, Zenon DEF Gives
  <2> QED
    BY <2>1, Zenon DEF CanExport
<1>9. x \in all /\ \A y \in all : y.key = x.key => y = x
  BY <1>7
<1>10. DOMAIN Exported(it) = {Keys.pieces}
  <2>1. DOMAIN Exported(it) = {y.key : y \in all}
    BY <1>9, ExportedOf, Zenon
  <2> HIDE DEF all
  <2>2. {y.key : y \in all} = {Keys.pieces}
    BY <1>4, <1>5, <1>7
  <2> QED
    BY <2>1, <2>2, Zenon
<1>11. Exported(it)[Keys.pieces] = IF it.count = 0 THEN x.entry ELSE Rendered(x.stage, LastIndex(it))
  <2>1. Exported(it)[x.key] = IF it.count = 0 THEN x.entry ELSE Rendered(x.stage, LastIndex(it))
    BY <1>9, ExportedOf, Zenon
  <2> QED
    BY <1>4, <1>5, <2>1, Zenon
<1>12. Exported(it)[Keys.pieces] = Behind(r).pieces
  <2>1. Behind(r).pieces = IF r.batches = 0 THEN Single("prompt_merge_seed") ELSE Name("prompt_merge", r.batches - 1, 0)
    BY DEF Behind
  <2>2. CASE r.batches = 0
    BY <1>1, <1>4, <1>11, <2>1, <2>2, Zenon
  <2>3. CASE r.batches # 0
    BY <1>1, <1>4, <1>6, <1>11, <2>1, <2>3, Zenon DEF Gives
  <2> QED
    BY <2>2, <2>3, Zenon
<1> QED
  BY <1>8, <1>10, <1>12, Zenon DEF it

LEMMA SingleKind ==
  ASSUME NEW kind
  PROVE  Single(kind)[1] = kind
<1>1. Name(kind, 0, 0)[1] = kind
  BY NameParts
<1> QED
  BY <1>1, Zenon DEF Single

LEMMA TokensExported ==
  ASSUME NEW r, IsRun(r)
  PROVE  /\ CanExport(TokensItem(r))
         /\ DOMAIN Exported(TokensItem(r)) = {Keys.edge, Single("decode.logits")}
         /\ Exported(TokensItem(r))[Keys.edge] = Behind(r).edge
<1> DEFINE it == TokensItem(r)
           x == TokenExports.edge
           y == TokenExports.logits
           edgeText == Text("decode_select", T, Zero)
           logitsText == Text("decode_finalize", T, Zero)
           all == {it.exports[e] : e \in DOMAIN it.exports}
<1>1. it.index = "t" /\ it.start = 0 /\ it.count = r.tokens /\ it.exports = TokenExports
  BY RepeatItems, Zenon
<1>2. r.tokens \in Nat
  BY DEF IsRun
<1>3. DOMAIN TokenExports = {"edge", "logits"}
  BY DEF TokenExports
<1>4. /\ x.key = Single("decode.edge") /\ x.stage = edgeText /\ x.entry = Single("decode_init")
      /\ y.key = Single("decode.logits") /\ y.stage = logitsText
  BY DEF TokenExports
<1>5. Keys.edge = Single("decode.edge")
  BY DEF Keys
<1>6. Single("decode.edge") # Single("decode.logits")
  <2>1. Single("decode.edge")[1] = "decode.edge" /\ Single("decode.logits")[1] = "decode.logits"
    BY SingleKind, Zenon
  <2>2. "decode.edge" # "decode.logits"
    OBVIOUS
  <2> QED
    BY <2>1, <2>2, Zenon
<1> HIDE DEF it, x, y
<1>7. ASSUME r.tokens # 0
      PROVE  /\ Gives(edgeText, LastIndex(it), Name("decode_select", r.tokens - 1, 0))
             /\ Gives(logitsText, LastIndex(it), Name("decode_finalize", r.tokens - 1, 0))
  <2>1. r.tokens - 1 \in Nat /\ Clip(it.count - 1) = r.tokens - 1
    BY <1>1, <1>2, <1>7 DEF Clip
  <2>2. HasIndex(OuterIndex(it, r.tokens - 1), it.index, r.tokens - 1, 0)
    BY <1>1, <2>1, OuterHas, Zenon
  <2>3. HasIndex(LastIndex(it), "t", r.tokens - 1, 0)
    BY <1>1, <2>1, <2>2, Zenon DEF LastIndex
  <2>4. r.tokens - 1 \in Int /\ 0 \in Int /\ "t" # "none"
    BY <1>2
  <2>5. Fills(T, LastIndex(it), r.tokens - 1)
    BY <2>3, <2>4, IndexFills, Zenon DEF T
  <2>6. Fills(Zero, LastIndex(it), 0)
    BY NumberFills, Zenon DEF Zero
  <2> QED
    BY <2>5, <2>6, TextGives, Zenon
<1> HIDE DEF edgeText, logitsText
<1>8. all = {x, y}
  <2>1. it.exports["edge"] = x /\ it.exports["logits"] = y
    BY <1>1, Zenon DEF x, y
  <2> QED
    BY <1>1, <1>3, <2>1
<1>9. CanExport(it)
  <2>1. ASSUME NEW e \in DOMAIN it.exports
        PROVE  it.count = 0 \/ Outcome(it.exports[e].stage, LastIndex(it)) = "text"
    <3>1. it.exports[e] = x \/ it.exports[e] = y
      BY <1>8, Zenon
    <3>2. it.exports[e].stage = edgeText \/ it.exports[e].stage = logitsText
      BY <1>4, <3>1, Zenon
    <3> QED
      BY <1>1, <1>7, <3>2, Zenon DEF Gives
  <2> QED
    BY <2>1, Zenon DEF CanExport
<1>10. x \in all /\ \A z \in all : z.key = x.key => z = x
  BY <1>4, <1>6, <1>8
<1>11. DOMAIN Exported(it) = {Keys.edge, Single("decode.logits")}
  <2>1. DOMAIN Exported(it) = {z.key : z \in all}
    BY <1>10, ExportedOf, Zenon
  <2> HIDE DEF all
  <2>2. {z.key : z \in all} = {x.key, y.key}
    BY <1>8
  <2> QED
    BY <1>4, <1>5, <2>1, <2>2, Zenon
<1>12. Exported(it)[Keys.edge] = IF it.count = 0 THEN x.entry ELSE Rendered(x.stage, LastIndex(it))
  <2>1. Exported(it)[x.key] = IF it.count = 0 THEN x.entry ELSE Rendered(x.stage, LastIndex(it))
    BY <1>10, ExportedOf, Zenon
  <2> QED
    BY <1>4, <1>5, <2>1, Zenon
<1>13. Exported(it)[Keys.edge] = Behind(r).edge
  <2>1. Behind(r).edge = IF r.tokens = 0 THEN Single("decode_init") ELSE Name("decode_select", r.tokens - 1, 0)
    BY DEF Behind, SelectName
  <2>2. CASE r.tokens = 0
    BY <1>1, <1>4, <1>12, <2>1, <2>2, Zenon
  <2>3. CASE r.tokens # 0
    BY <1>1, <1>4, <1>7, <1>12, <2>1, <2>3, Zenon DEF Gives
  <2> QED
    BY <2>2, <2>3, Zenon
<1> QED
  BY <1>9, <1>11, <1>13, Zenon DEF it

-----------------------------------------------------------------------------
(* What the exported names resolve to.                                     *)

ExportKeys == {Keys.pieces, Keys.edge, Single("decode.logits")}

LEMMA KeysAreNoNames ==
  ASSUME NEW r, IsRun(r), NEW name, IsName(r, name)
  PROVE  name \notin ExportKeys
<1> DEFINE Kinds == {"prompt_merge_seed", "prompt_merge", "prompt_prepare", "input_embedding",
                     "prefill_prepare_aux", "prefill_range", "prefill_finalize", "decode_init",
                     "decode_select", "decode_embed", "decode_aux", "decode_range",
                     "decode_finalize", "output_finalize"}
<1>1. OneOf(r, name)
  BY NameCases, Zenon
<1>2. \E kind \in Kinds : \E t, l : name = Name(kind, t, l)
  BY <1>1, Zenon DEF OneOf, InPass, Single
<1>3. name[1] \in Kinds
  <2>1. PICK kind \in Kinds : \E t, l : name = Name(kind, t, l)
    BY <1>2, Zenon
  <2>2. PICK t, l : name = Name(kind, t, l)
    BY <2>1, Zenon
  <2>3. Name(kind, t, l)[1] = kind
    BY NameParts
  <2> HIDE DEF Kinds
  <2> QED
    BY <2>1, <2>2, <2>3, Zenon
<1>4. \A x \in ExportKeys : x[1] \in {"tokenize.pieces", "decode.edge", "decode.logits"}
  <2>1. /\ Single("tokenize.pieces")[1] = "tokenize.pieces" /\ Single("decode.edge")[1] = "decode.edge"
        /\ Single("decode.logits")[1] = "decode.logits"
    BY SingleKind, Zenon
  <2>2. Keys.pieces = Single("tokenize.pieces") /\ Keys.edge = Single("decode.edge")
    BY DEF Keys
  <2> QED
    BY <2>1, <2>2, Zenon DEF ExportKeys
<1>5. \A k \in Kinds : k \notin {"tokenize.pieces", "decode.edge", "decode.logits"}
  OBVIOUS
<1> QED
  BY <1>3, <1>4, <1>5, Zenon

(* The wiring of a stage that reads no exported name. *)
Closed(r, name, w) ==
  /\ \A keys : Wiring(r, name, keys) = w
  /\ w = [p \in DOMAIN w |-> w[p]]

LEMMA WiringsAre ==
  ASSUME NEW r
  PROVE  /\ SeedWiring = [p \in DOMAIN SeedWiring |-> SeedWiring[p]]
         /\ \A b : MergeWiring(b) = [p \in DOMAIN MergeWiring(b) |-> MergeWiring(b)[p]]
         /\ EmbeddingWiring = [p \in DOMAIN EmbeddingWiring |-> EmbeddingWiring[p]]
         /\ \A t, l : AuxWiring(t, l) = [p \in DOMAIN AuxWiring(t, l) |-> AuxWiring(t, l)[p]]
         /\ \A t, l : RangeWiring(r, t, l) = [p \in DOMAIN RangeWiring(r, t, l) |-> RangeWiring(r, t, l)[p]]
         /\ \A t : FinalizeWiring(r, t) = [p \in DOMAIN FinalizeWiring(r, t) |-> FinalizeWiring(r, t)[p]]
         /\ NoWiring = [p \in DOMAIN NoWiring |-> NoWiring[p]]
         /\ \A t : SelectWiring(t) = [p \in DOMAIN SelectWiring(t) |-> SelectWiring(t)[p]]
         /\ \A t : EmbedWiring(t) = [p \in DOMAIN EmbedWiring(t) |-> EmbedWiring(t)[p]]
<1>1. SeedWiring = [p \in DOMAIN SeedWiring |-> SeedWiring[p]]
  BY DEF SeedWiring
<1>2. ASSUME NEW b PROVE MergeWiring(b) = [p \in DOMAIN MergeWiring(b) |-> MergeWiring(b)[p]]
  BY DEF MergeWiring
<1>3. EmbeddingWiring = [p \in DOMAIN EmbeddingWiring |-> EmbeddingWiring[p]]
  BY DEF EmbeddingWiring
<1>4. ASSUME NEW t, NEW l PROVE AuxWiring(t, l) = [p \in DOMAIN AuxWiring(t, l) |-> AuxWiring(t, l)[p]]
  BY DEF AuxWiring
<1>5. ASSUME NEW t, NEW l PROVE RangeWiring(r, t, l) = [p \in DOMAIN RangeWiring(r, t, l) |-> RangeWiring(r, t, l)[p]]
  BY DEF RangeWiring
<1>6. ASSUME NEW t PROVE FinalizeWiring(r, t) = [p \in DOMAIN FinalizeWiring(r, t) |-> FinalizeWiring(r, t)[p]]
  BY DEF FinalizeWiring
<1>7. NoWiring = [p \in DOMAIN NoWiring |-> NoWiring[p]]
  BY DEF NoWiring
<1>8. ASSUME NEW t PROVE SelectWiring(t) = [p \in DOMAIN SelectWiring(t) |-> SelectWiring(t)[p]]
  BY DEF SelectWiring
<1>9. ASSUME NEW t PROVE EmbedWiring(t) = [p \in DOMAIN EmbedWiring(t) |-> EmbedWiring(t)[p]]
  BY DEF EmbedWiring
<1> QED
  BY <1>1, <1>2, <1>3, <1>4, <1>5, <1>6, <1>7, <1>8, <1>9, Zenon

LEMMA ClosedWirings ==
  ASSUME NEW r, IsRun(r), NEW name, OneOf(r, name),
         name # Single("prompt_prepare"), name # Single("output_finalize")
  PROVE  \E w : Closed(r, name, w)
<1>1. CASE name = Single("prompt_merge_seed")
  <2>1. \A keys : Wiring(r, Single("prompt_merge_seed"), keys) = SeedWiring
    BY WiringOf DEF Single
  <2>2. SeedWiring = [p \in DOMAIN SeedWiring |-> SeedWiring[p]]
    BY WiringsAre, Zenon
  <2>3. Closed(r, Single("prompt_merge_seed"), SeedWiring)
    BY <2>1, <2>2, Zenon DEF Closed
  <2> QED
    BY <1>1, <2>3, Zenon
<1>2. CASE \E b \in 0 .. (r.batches - 1) : name = Name("prompt_merge", b, 0)
  <2>1. PICK b \in 0 .. (r.batches - 1) : name = Name("prompt_merge", b, 0)
    BY <1>2, Zenon
  <2>2. \A keys : Wiring(r, Name("prompt_merge", b, 0), keys) = MergeWiring(b)
    BY WiringOf
  <2>3. MergeWiring(b) = [p \in DOMAIN MergeWiring(b) |-> MergeWiring(b)[p]]
    BY WiringsAre, Zenon
  <2>4. Closed(r, Name("prompt_merge", b, 0), MergeWiring(b))
    BY <2>2, <2>3, Zenon DEF Closed
  <2> QED
    BY <2>1, <2>4, Zenon
<1>3. CASE name = Single("input_embedding")
  <2>1. \A keys : Wiring(r, Single("input_embedding"), keys) = EmbeddingWiring
    BY WiringOf DEF Single
  <2>2. EmbeddingWiring = [p \in DOMAIN EmbeddingWiring |-> EmbeddingWiring[p]]
    BY WiringsAre, Zenon
  <2>3. Closed(r, Single("input_embedding"), EmbeddingWiring)
    BY <2>1, <2>2, Zenon DEF Closed
  <2> QED
    BY <1>3, <2>3, Zenon
<1>4. CASE \E l \in 0 .. (r.shape.layers - 1) : name = Name("prefill_prepare_aux", 0, l)
  <2>1. PICK l \in 0 .. (r.shape.layers - 1) : name = Name("prefill_prepare_aux", 0, l)
    BY <1>4, Zenon
  <2>2. \A keys : Wiring(r, Name("prefill_prepare_aux", 0, l), keys) = AuxWiring(-1, l)
    BY WiringOf
  <2>3. AuxWiring(-1, l) = [p \in DOMAIN AuxWiring(-1, l) |-> AuxWiring(-1, l)[p]]
    BY WiringsAre, Zenon
  <2>4. Closed(r, Name("prefill_prepare_aux", 0, l), AuxWiring(-1, l))
    BY <2>2, <2>3, Zenon DEF Closed
  <2> QED
    BY <2>1, <2>4, Zenon
<1>5. CASE \E l \in 0 .. (r.shape.layers - 1) : name = Name("prefill_range", 0, l)
  <2>1. PICK l \in 0 .. (r.shape.layers - 1) : name = Name("prefill_range", 0, l)
    BY <1>5, Zenon
  <2>2. \A keys : Wiring(r, Name("prefill_range", 0, l), keys) = RangeWiring(r, -1, l)
    BY WiringOf
  <2>3. RangeWiring(r, -1, l) = [p \in DOMAIN RangeWiring(r, -1, l) |-> RangeWiring(r, -1, l)[p]]
    BY WiringsAre, Zenon
  <2>4. Closed(r, Name("prefill_range", 0, l), RangeWiring(r, -1, l))
    BY <2>2, <2>3, Zenon DEF Closed
  <2> QED
    BY <2>1, <2>4, Zenon
<1>6. CASE name = Single("prefill_finalize")
  <2>1. \A keys : Wiring(r, Single("prefill_finalize"), keys) = FinalizeWiring(r, -1)
    BY WiringOf DEF Single
  <2>2. FinalizeWiring(r, -1) = [p \in DOMAIN FinalizeWiring(r, -1) |-> FinalizeWiring(r, -1)[p]]
    BY WiringsAre, Zenon
  <2>3. Closed(r, Single("prefill_finalize"), FinalizeWiring(r, -1))
    BY <2>1, <2>2, Zenon DEF Closed
  <2> QED
    BY <1>6, <2>3, Zenon
<1>7. CASE name = Single("decode_init")
  <2>1. \A keys : Wiring(r, Single("decode_init"), keys) = NoWiring
    BY WiringOf DEF Single
  <2>2. NoWiring = [p \in DOMAIN NoWiring |-> NoWiring[p]]
    BY WiringsAre, Zenon
  <2>3. Closed(r, Single("decode_init"), NoWiring)
    BY <2>1, <2>2, Zenon DEF Closed
  <2> QED
    BY <1>7, <2>3, Zenon
<1>8. CASE \E t \in 0 .. (r.tokens - 1) : name = Name("decode_select", t, 0)
  <2>1. PICK t \in 0 .. (r.tokens - 1) : name = Name("decode_select", t, 0)
    BY <1>8, Zenon
  <2>2. \A keys : Wiring(r, Name("decode_select", t, 0), keys) = SelectWiring(t)
    BY WiringOf
  <2>3. SelectWiring(t) = [p \in DOMAIN SelectWiring(t) |-> SelectWiring(t)[p]]
    BY WiringsAre, Zenon
  <2>4. Closed(r, Name("decode_select", t, 0), SelectWiring(t))
    BY <2>2, <2>3, Zenon DEF Closed
  <2> QED
    BY <2>1, <2>4, Zenon
<1>9. CASE \E t \in 0 .. (r.tokens - 1) : name = Name("decode_embed", t, 0)
  <2>1. PICK t \in 0 .. (r.tokens - 1) : name = Name("decode_embed", t, 0)
    BY <1>9, Zenon
  <2>2. \A keys : Wiring(r, Name("decode_embed", t, 0), keys) = EmbedWiring(t)
    BY WiringOf
  <2>3. EmbedWiring(t) = [p \in DOMAIN EmbedWiring(t) |-> EmbedWiring(t)[p]]
    BY WiringsAre, Zenon
  <2>4. Closed(r, Name("decode_embed", t, 0), EmbedWiring(t))
    BY <2>2, <2>3, Zenon DEF Closed
  <2> QED
    BY <2>1, <2>4, Zenon
<1>10. CASE \E t \in 0 .. (r.tokens - 1) : \E l \in 0 .. (r.shape.layers - 1) : name = Name("decode_aux", t, l)
  <2>1. PICK t \in 0 .. (r.tokens - 1), l \in 0 .. (r.shape.layers - 1) : name = Name("decode_aux", t, l)
    BY <1>10, Zenon
  <2>2. \A keys : Wiring(r, Name("decode_aux", t, l), keys) = AuxWiring(t, l)
    BY WiringOf
  <2>3. AuxWiring(t, l) = [p \in DOMAIN AuxWiring(t, l) |-> AuxWiring(t, l)[p]]
    BY WiringsAre, Zenon
  <2>4. Closed(r, Name("decode_aux", t, l), AuxWiring(t, l))
    BY <2>2, <2>3, Zenon DEF Closed
  <2> QED
    BY <2>1, <2>4, Zenon
<1>11. CASE \E t \in 0 .. (r.tokens - 1) : \E l \in 0 .. (r.shape.layers - 1) : name = Name("decode_range", t, l)
  <2>1. PICK t \in 0 .. (r.tokens - 1), l \in 0 .. (r.shape.layers - 1) : name = Name("decode_range", t, l)
    BY <1>11, Zenon
  <2>2. \A keys : Wiring(r, Name("decode_range", t, l), keys) = RangeWiring(r, t, l)
    BY WiringOf
  <2>3. RangeWiring(r, t, l) = [p \in DOMAIN RangeWiring(r, t, l) |-> RangeWiring(r, t, l)[p]]
    BY WiringsAre, Zenon
  <2>4. Closed(r, Name("decode_range", t, l), RangeWiring(r, t, l))
    BY <2>2, <2>3, Zenon DEF Closed
  <2> QED
    BY <2>1, <2>4, Zenon
<1>12. CASE \E t \in 0 .. (r.tokens - 1) : name = Name("decode_finalize", t, 0)
  <2>1. PICK t \in 0 .. (r.tokens - 1) : name = Name("decode_finalize", t, 0)
    BY <1>12, Zenon
  <2>2. \A keys : Wiring(r, Name("decode_finalize", t, 0), keys) = FinalizeWiring(r, t)
    BY WiringOf
  <2>3. FinalizeWiring(r, t) = [p \in DOMAIN FinalizeWiring(r, t) |-> FinalizeWiring(r, t)[p]]
    BY WiringsAre, Zenon
  <2>4. Closed(r, Name("decode_finalize", t, 0), FinalizeWiring(r, t))
    BY <2>2, <2>3, Zenon DEF Closed
  <2> QED
    BY <2>1, <2>4, Zenon
<1> QED
  BY <1>1, <1>2, <1>3, <1>4, <1>5, <1>6, <1>7, <1>8, <1>9, <1>10, <1>11, <1>12, Zenon DEF OneOf, InPass

(* The stage after the exported names are resolved. *)
ResolvedStage(stage) ==
  [stage EXCEPT !.inputs = [p \in DOMAIN stage.inputs |-> Resolved(stage.inputs[p])]]

ExportsAre(r) ==
  /\ DOMAIN exports = ExportKeys
  /\ exports[Keys.pieces] = Behind(r).pieces
  /\ exports[Keys.edge] = Behind(r).edge

LEMMA LinkResolves ==
  ASSUME NEW name
  PROVE  /\ name \in DOMAIN exports => Resolved(Link(name)) = Link(exports[name])
         /\ name \notin DOMAIN exports => Resolved(Link(name)) = Link(name)
         /\ Resolved(FileAt(name)) = FileAt(name)
<1>1. Link(name).how = "from" /\ Link(name).name = name /\ FileAt(name).how # "from"
  BY DEF Link, FileAt
<1>2. [Link(name) EXCEPT !.name = exports[name]] = Link(exports[name])
  BY DEF Link
<1> QED
  BY <1>1, <1>2, Zenon DEF Resolved

LEMMA StageResolves ==
  ASSUME NEW r, IsRun(r), ExportsAre(r), NEW name, IsName(r, name)
  PROVE  ResolvedStage(StageOf(r, name, Keys)) = StageOf(r, name, Behind(r))
<1> DEFINE w == Wiring(r, name, Keys)
           v == Wiring(r, name, Behind(r))
           Rewired == [p \in DOMAIN w |-> Resolved(w[p])]
<1>1. ResolvedStage(StageOf(r, name, Keys)) = StageWith(name, Rewired)
  <2>1. StageOf(r, name, Keys) = StageWith(name, w)
    BY DEF StageOf
  <2> HIDE DEF w
  <2>2. ResolvedStage(StageWith(name, w)) = StageWith(name, Rewired)
    BY DEF ResolvedStage, StageWith
  <2> QED
    BY <2>1, <2>2, Zenon
<1>2. StageOf(r, name, Behind(r)) = StageWith(name, v)
  BY DEF StageOf
<1>3. Keys.pieces \in DOMAIN exports /\ Keys.edge \in DOMAIN exports
  BY DEF ExportsAre, ExportKeys
<1>4. exports[Keys.pieces] = Behind(r).pieces /\ exports[Keys.edge] = Behind(r).edge
  BY DEF ExportsAre
<1>5. CASE name = Single("prompt_prepare")
  <2>1. w = PrepareWiring(Keys) /\ v = PrepareWiring(Behind(r))
    BY <1>5, WiringOf DEF Single
  <2> HIDE DEF w, v
  <2>2. Resolved(Link(Keys.pieces)) = Link(Behind(r).pieces) /\ Resolved(FileOf("tokenizer")) = FileOf("tokenizer")
    BY <1>3, <1>4, LinkResolves, Zenon DEF FileOf
  <2>3. DOMAIN w = {"merged_pieces", "tokenizer"}
    BY <2>1 DEF PrepareWiring
  <2>4. w["merged_pieces"] = Link(Keys.pieces) /\ w["tokenizer"] = FileOf("tokenizer")
    BY <2>1 DEF PrepareWiring
  <2>5. Rewired = [p \in {"merged_pieces", "tokenizer"} |-> IF p = "merged_pieces" THEN Link(Behind(r).pieces) ELSE FileOf("tokenizer")]
    BY <2>2, <2>3, <2>4
  <2>6. v = [p \in {"merged_pieces", "tokenizer"} |-> IF p = "merged_pieces" THEN Link(Behind(r).pieces) ELSE FileOf("tokenizer")]
    BY <2>1 DEF PrepareWiring
  <2> QED
    BY <1>1, <1>2, <2>5, <2>6, Zenon
<1>6. CASE name = Single("output_finalize")
  <2>1. w = OutputWiring(Keys) /\ v = OutputWiring(Behind(r))
    BY <1>6, WiringOf DEF Single
  <2> HIDE DEF w, v
  <2>2. Resolved(Link(Keys.edge)) = Link(Behind(r).edge) /\ Resolved(FileOf("decoder")) = FileOf("decoder")
    BY <1>3, <1>4, LinkResolves, Zenon DEF FileOf
  <2>3. DOMAIN w = {"edge", "decoder"}
    BY <2>1 DEF OutputWiring
  <2>4. w["edge"] = Link(Keys.edge) /\ w["decoder"] = FileOf("decoder")
    BY <2>1 DEF OutputWiring
  <2>5. Rewired = [p \in {"edge", "decoder"} |-> IF p = "edge" THEN Link(Behind(r).edge) ELSE FileOf("decoder")]
    BY <2>2, <2>3, <2>4
  <2>6. v = [p \in {"edge", "decoder"} |-> IF p = "edge" THEN Link(Behind(r).edge) ELSE FileOf("decoder")]
    BY <2>1 DEF OutputWiring
  <2> QED
    BY <1>1, <1>2, <2>5, <2>6, Zenon
<1>7. CASE name # Single("prompt_prepare") /\ name # Single("output_finalize")
  <2>1. OneOf(r, name)
    BY NameCases, Zenon
  <2>2. PICK u : Closed(r, name, u)
    BY <1>7, <2>1, ClosedWirings, Zenon
  <2>3. w = u /\ v = u /\ u = [p \in DOMAIN u |-> u[p]]
    BY <2>2, Zenon DEF Closed
  <2>4. StageOf(r, name, Behind(r)) = StageWith(name, u)
    BY <1>2, <2>3, Zenon
  <2> HIDE DEF w, v
  <2>5. ASSUME NEW p \in DOMAIN u PROVE Resolved(u[p]) = u[p]
    <3>1. CASE u[p].how = "from"
      <4>1. u[p].name \in SourcesOf(StageWith(name, u))
        BY <3>1 DEF SourcesOf, StageWith
      <4>2. Follows(r, name)
        BY EveryNameFollows, Zenon
      <4>3. IsName(r, u[p].name)
        BY <2>4, <4>1, <4>2, Zenon DEF Follows, Precedes
      <4>4. u[p].name \notin DOMAIN exports
        BY <4>3, KeysAreNoNames, Zenon DEF ExportsAre
      <4> QED
        BY <4>4, Zenon DEF Resolved
    <3>2. CASE u[p].how # "from"
      BY <3>2, Zenon DEF Resolved
    <3> QED
      BY <3>1, <3>2, Zenon
  <2>6. [p \in DOMAIN u |-> Resolved(u[p])] = [p \in DOMAIN u |-> u[p]]
    BY <2>5
  <2>7. Rewired = u
    BY <2>3, <2>6, Zenon
  <2> QED
    BY <1>1, <2>4, <2>7, Zenon
<1> QED
  BY <1>5, <1>6, <1>7, Zenon

-----------------------------------------------------------------------------
(* The chain up to a place: its stages have the names of the places before *)
(* it, in their order.                                                     *)

Moves(r, c, d) == \A q : IsPlace(r, q) => (Less(q, d) <=> Less(q, c))
Same(p, q) == p[1] = q[1] /\ p[2] = q[2] /\ p[3] = q[3] /\ p[4] = q[4]
Steps(r, c, d) == \A q : IsPlace(r, q) => (Less(q, d) <=> (Less(q, c) \/ Same(q, c)))

Listed(r, c, keys, ch) ==
  /\ IsSequence(ch)
  /\ \A i \in 1 .. Len(ch) :
       /\ IsName(r, ch[i].name) /\ Less(Place(r, ch[i].name), c)
       /\ ch[i] = StageOf(r, ch[i].name, keys)
  /\ \A i, j \in 1 .. Len(ch) : i < j => Less(Place(r, ch[i].name), Place(r, ch[j].name))
  /\ \A name : IsName(r, name) /\ Less(Place(r, name), c) => \E i \in 1 .. Len(ch) : ch[i].name = name

LEMMA StageNameIs ==
  ASSUME NEW r, NEW name, NEW keys
  PROVE  StageOf(r, name, keys).name = name
BY DEF StageOf, StageWith

LEMMA NameIsPlace ==
  ASSUME NEW r, NEW name, IsName(r, name)
  PROVE  IsPlace(r, Place(r, name))
BY DEF IsName

LEMMA SameName ==
  ASSUME NEW r, NEW x, NEW y, IsName(r, x), IsName(r, y), Same(Place(r, x), Place(r, y))
  PROVE  x = y
<1> DEFINE p == Place(r, x)
           q == Place(r, y)
<1>1. NameAt(r, p) = x /\ NameAt(r, q) = y
  BY DEF IsName
<1>2. p[1] = q[1] /\ p[2] = q[2] /\ p[3] = q[3] /\ p[4] = q[4]
  BY DEF Same
<1> HIDE DEF p, q
<1>3. NameAt(r, p) = NameAt(r, q)
  BY <1>2, Zenon DEF NameAt
<1> QED
  BY <1>1, <1>3, Zenon

LEMMA ListedMoves ==
  ASSUME NEW r, NEW c, NEW d, NEW keys, NEW ch, Listed(r, c, keys, ch), Moves(r, c, d)
  PROVE  Listed(r, d, keys, ch)
<1>1. ASSUME NEW name, IsName(r, name) PROVE Less(Place(r, name), d) <=> Less(Place(r, name), c)
  <2>1. IsPlace(r, Place(r, name))
    BY <1>1, NameIsPlace, Zenon
  <2> QED
    BY <2>1, Zenon DEF Moves
<1>2. /\ IsSequence(ch)
      /\ \A i \in 1 .. Len(ch) :
           IsName(r, ch[i].name) /\ Less(Place(r, ch[i].name), c) /\ ch[i] = StageOf(r, ch[i].name, keys)
      /\ \A i, j \in 1 .. Len(ch) : i < j => Less(Place(r, ch[i].name), Place(r, ch[j].name))
      /\ \A name : IsName(r, name) /\ Less(Place(r, name), c) => \E i \in 1 .. Len(ch) : ch[i].name = name
  BY DEF Listed
<1> QED
  BY <1>1, <1>2, Zenon DEF Listed

LEMMA ListedPushes ==
  ASSUME NEW r, NEW c, NEW d, NEW keys, NEW ch, Listed(r, c, keys, ch), Steps(r, c, d),
         NEW new, IsName(r, new), Place(r, new) = c
  PROVE  Listed(r, d, keys, Append(ch, StageOf(r, new, keys)))
<1> DEFINE stage == StageOf(r, new, keys)
           longer == Append(ch, stage)
           n == Len(ch)
<1>1. /\ IsSequence(ch)
      /\ \A i \in 1 .. n :
           IsName(r, ch[i].name) /\ Less(Place(r, ch[i].name), c) /\ ch[i] = StageOf(r, ch[i].name, keys)
      /\ \A i, j \in 1 .. n : i < j => Less(Place(r, ch[i].name), Place(r, ch[j].name))
      /\ \A name : IsName(r, name) /\ Less(Place(r, name), c) => \E i \in 1 .. n : ch[i].name = name
  BY DEF Listed
<1>2. /\ IsSequence(longer) /\ Len(longer) = n + 1
      /\ \A i \in 1 .. n : longer[i] = ch[i]
      /\ longer[n + 1] = stage
  <2>1. IsSequence(ch)
    BY <1>1
  <2> HIDE DEF stage
  <2> QED
    BY <2>1, Longer
<1>3. n \in Nat
  BY <1>1, SequenceFacts
<1>4. stage.name = new
  BY StageNameIs, Zenon
<1>5. ASSUME NEW name, IsName(r, name)
      PROVE  Less(Place(r, name), d) <=> (Less(Place(r, name), c) \/ name = new)
  <2>1. IsPlace(r, Place(r, name))
    BY <1>5, NameIsPlace, Zenon
  <2>2. Less(Place(r, name), d) <=> (Less(Place(r, name), c) \/ Same(Place(r, name), c))
    BY <2>1, Zenon DEF Steps
  <2>3. Same(Place(r, name), Place(r, new)) => name = new
    BY <1>5, SameName, Zenon
  <2>4. Same(Place(r, new), Place(r, new))
    BY DEF Same
  <2> QED
    BY <2>2, <2>3, <2>4, Zenon
<1> HIDE DEF stage, longer, n
<1>6. \A i \in 1 .. (n + 1) : (i \in 1 .. n /\ longer[i] = ch[i]) \/ (i = n + 1 /\ longer[i] = stage)
  <2>1. ASSUME NEW i \in 1 .. (n + 1) PROVE i \in 1 .. n \/ i = n + 1
    BY <1>3
  <2> QED
    BY <1>2, <2>1, Zenon
<1>7. ASSUME NEW i \in 1 .. (n + 1)
      PROVE  /\ IsName(r, longer[i].name) /\ Less(Place(r, longer[i].name), d)
             /\ longer[i] = StageOf(r, longer[i].name, keys)
  <2>1. CASE i \in 1 .. n /\ longer[i] = ch[i]
    BY <1>1, <1>5, <2>1, Zenon
  <2>2. CASE i = n + 1 /\ longer[i] = stage
    BY <1>4, <1>5, <2>2, Zenon DEF stage
  <2> QED
    BY <1>6, <2>1, <2>2, Zenon
<1>8. ASSUME NEW i \in 1 .. (n + 1), NEW j \in 1 .. (n + 1), i < j
      PROVE  Less(Place(r, longer[i].name), Place(r, longer[j].name))
  <2>1. i \in 1 .. n
    BY <1>3, <1>8
  <2>2. longer[i] = ch[i]
    BY <1>2, <2>1, Zenon
  <2>3. CASE j \in 1 .. n /\ longer[j] = ch[j]
    BY <1>1, <1>8, <2>1, <2>2, <2>3, Zenon
  <2>4. CASE j = n + 1 /\ longer[j] = stage
    BY <1>1, <1>4, <2>1, <2>2, <2>4, Zenon
  <2> QED
    BY <1>6, <2>3, <2>4, Zenon
<1>9. ASSUME NEW name, IsName(r, name), Less(Place(r, name), d)
      PROVE  \E i \in 1 .. (n + 1) : longer[i].name = name
  <2>1. CASE name = new
    <3>1. n + 1 \in 1 .. (n + 1)
      BY <1>3
    <3> QED
      BY <1>2, <1>4, <2>1, <3>1, Zenon
  <2>2. CASE Less(Place(r, name), c)
    <3>1. PICK i \in 1 .. n : ch[i].name = name
      BY <1>1, <1>9, <2>2, Zenon
    <3>2. i \in 1 .. (n + 1)
      BY <1>3
    <3> QED
      BY <1>2, <3>1, <3>2, Zenon
  <2> QED
    BY <1>5, <1>9, <2>1, <2>2, Zenon
<1>10. Listed(r, d, keys, longer)
  BY <1>2, <1>7, <1>8, <1>9, Zenon DEF Listed
<1> QED
  BY <1>10, Zenon DEF longer, stage

LEMMA ListedResolves ==
  ASSUME NEW r, IsRun(r), NEW c, NEW ch, Listed(r, c, Keys, ch), ExportsAre(r)
  PROVE  Listed(r, c, Behind(r), [i \in DOMAIN ch |-> ResolvedStage(ch[i])])
<1> DEFINE new == [i \in DOMAIN ch |-> ResolvedStage(ch[i])]
           n == Len(ch)
           g == [i \in 1 .. n |-> ResolvedStage(ch[i])]
<1>1. /\ IsSequence(ch)
      /\ \A i \in 1 .. n :
           IsName(r, ch[i].name) /\ Less(Place(r, ch[i].name), c) /\ ch[i] = StageOf(r, ch[i].name, Keys)
      /\ \A i, j \in 1 .. n : i < j => Less(Place(r, ch[i].name), Place(r, ch[j].name))
      /\ \A name : IsName(r, name) /\ Less(Place(r, name), c) => \E i \in 1 .. n : ch[i].name = name
  BY DEF Listed
<1>2. n \in Nat /\ DOMAIN ch = 1 .. n
  BY <1>1, SequenceFacts
<1>3. new = g
  BY <1>2
<1>4. IsSequence(new) /\ Len(new) = n
  <2>1. g = [i \in 1 .. n |-> g[i]]
    OBVIOUS
  <2> HIDE DEF g
  <2>3. DOMAIN g = 1 .. n
    BY <2>1
  <2>2. IsSequence([i \in 1 .. n |-> g[i]]) /\ Len([i \in 1 .. n |-> g[i]]) = n
    BY <1>2, <2>3, SequenceOf, Zenon
  <2> QED
    BY <1>3, <2>1, <2>2, Zenon
<1>5. ASSUME NEW i \in 1 .. n
      PROVE  new[i] = StageOf(r, ch[i].name, Behind(r)) /\ new[i].name = ch[i].name
  <2>1. new[i] = ResolvedStage(ch[i])
    BY <1>2
  <2>2. ResolvedStage(StageOf(r, ch[i].name, Keys)) = StageOf(r, ch[i].name, Behind(r))
    BY <1>1, StageResolves, Zenon
  <2>3. new[i] = StageOf(r, ch[i].name, Behind(r))
    <3> HIDE DEF new
    <3> QED
      BY <1>1, <2>1, <2>2, Zenon
  <2>4. StageOf(r, ch[i].name, Behind(r)).name = ch[i].name
    BY StageNameIs, Zenon
  <2> HIDE DEF new
  <2> QED
    BY <2>3, <2>4, Zenon
<1> HIDE DEF new, g, n
<1>6. Listed(r, c, Behind(r), new)
  BY <1>1, <1>4, <1>5, Zenon DEF Listed
<1> QED
  BY <1>6, Zenon DEF new

-----------------------------------------------------------------------------
(* A chain with the stages of all places can be run.                       *)

LEMMA PlaceParts ==
  ASSUME NEW r, NEW q, IsPlace(r, q)
  PROVE  q[1] \in Int /\ q[2] \in Int /\ q[3] \in Int /\ q[4] \in Int
BY DEF IsPlace

LEMMA LessIsStrict ==
  ASSUME NEW p, p[1] \in Int /\ p[2] \in Int /\ p[3] \in Int /\ p[4] \in Int
  PROVE  ~Less(p, p)
BY DEF Less

LEMMA LessIsTransitive ==
  ASSUME NEW p, p[1] \in Int /\ p[2] \in Int /\ p[3] \in Int /\ p[4] \in Int,
         NEW q, q[1] \in Int /\ q[2] \in Int /\ q[3] \in Int /\ q[4] \in Int,
         NEW s, s[1] \in Int /\ s[2] \in Int /\ s[3] \in Int /\ s[4] \in Int,
         Less(p, q), Less(q, s)
  PROVE  Less(p, s)
BY DEF Less

AuxKinds == {"prefill_prepare_aux", "decode_aux"}

(* Aux stages read none of each other. *)
LEMMA AuxReads ==
  ASSUME NEW r, NEW keys, NEW name, name[1] \in AuxKinds, NEW x \in SourcesOf(StageOf(r, name, keys))
  PROVE  x[1] \notin AuxKinds
<1>1. \E p : Wiring(r, name, keys) = AuxWiring(p, name[3])
  <2>1. CASE name[1] = "prefill_prepare_aux"
    <3>1. Wiring(r, name, keys) = AuxWiring(-1, name[3])
      BY <2>1 DEF Wiring
    <3> QED
      BY <3>1, Zenon
  <2>2. CASE name[1] = "decode_aux"
    <3>1. Wiring(r, name, keys) = AuxWiring(name[2], name[3])
      BY <2>2 DEF Wiring
    <3> QED
      BY <3>1, Zenon
  <2> QED
    BY <2>1, <2>2, Zenon DEF AuxKinds
<1>2. PICK p : Wiring(r, name, keys) = AuxWiring(p, name[3])
  BY <1>1
<1>3. x = StartOf(p)
  BY <1>2, WiringSources DEF StageOf
<1>4. StartOf(p) = Name("input_embedding", 0, 0) \/ StartOf(p) = Name("decode_embed", p, 0)
  BY DEF StartOf, Embedding, Single, EmbedName
<1>5. x[1] = "input_embedding" \/ x[1] = "decode_embed"
  <2>1. Name("input_embedding", 0, 0)[1] = "input_embedding"
    BY NameParts
  <2>2. Name("decode_embed", p, 0)[1] = "decode_embed"
    BY NameParts
  <2> QED
    BY <1>3, <1>4, <2>1, <2>2, Zenon
<1> QED
  BY <1>5 DEF AuxKinds

EndPlace(r) == <<9 + r.shape.layers + r.shape.layers, 0, 1, 0>>

CanRun(ch) ==
  /\ \A i, j \in 1 .. Len(ch) : ch[i].name = ch[j].name => i = j
  /\ \A i \in 1 .. Len(ch) : \A x \in SourcesOf(ch[i]) : \E j \in 1 .. (i - 1) : ch[j].name = x
  /\ \A i, j \in 1 .. Len(ch) :
       i < j => ((\A k \in i .. j : IsAux(ch[k])) => ch[i].name \notin SourcesOf(ch[j]))
  /\ ch # <<>> /\ ch[Len(ch)].name = Single("output_finalize")

LEMMA ListedRuns ==
  ASSUME NEW r, IsRun(r), NEW ch, Listed(r, EndPlace(r), Behind(r), ch)
  PROVE  CanRun(ch)
<1> DEFINE n == Len(ch)
           N == r.shape.layers
           P(i) == Place(r, ch[i].name)
<1>1. /\ IsSequence(ch)
      /\ \A i \in 1 .. n :
           /\ IsName(r, ch[i].name) /\ Less(P(i), EndPlace(r))
           /\ ch[i] = StageOf(r, ch[i].name, Behind(r))
      /\ \A i, j \in 1 .. n : i < j => Less(P(i), P(j))
      /\ \A name : IsName(r, name) /\ Less(Place(r, name), EndPlace(r)) => \E i \in 1 .. n : ch[i].name = name
  BY Zenon DEF Listed
<1>2. n \in Nat /\ DOMAIN ch = 1 .. n
  BY <1>1, SequenceFacts
<1>3. N \in Nat /\ N > 0
  BY BoundDonors DEF IsRun
<1>4. \A i \in 1 .. n : IsPlace(r, P(i))
  BY <1>1, NameIsPlace, Zenon
<1>5. \A i \in 1 .. n : ~Less(P(i), P(i))
  BY <1>4, PlaceParts, LessIsStrict, Zenon
<1> HIDE DEF n, N
<1>6. ASSUME NEW i \in 1 .. n, NEW j \in 1 .. n, ch[i].name = ch[j].name PROVE i = j
  <2>1. P(i) = P(j)
    BY <1>6, Zenon
  <2> HIDE DEF P
  <2>2. ~(i < j) /\ ~(j < i)
    BY <1>1, <1>5, <2>1, Zenon
  <2> QED
    BY <1>2, <2>2
<1>7. ASSUME NEW i \in 1 .. n, NEW x \in SourcesOf(ch[i])
      PROVE  \E j \in 1 .. (i - 1) : ch[j].name = x
  <2>1. Follows(r, ch[i].name)
    BY <1>1, EveryNameFollows, Zenon
  <2>2. x \in SourcesOf(StageOf(r, ch[i].name, Behind(r)))
    BY <1>1, <1>7, Zenon
  <2>3. IsName(r, x) /\ Less(Place(r, x), P(i))
    BY <2>1, <2>2, Zenon DEF Follows, Precedes
  <2>4. IsPlace(r, Place(r, x))
    BY <2>3, NameIsPlace, Zenon
  <2>5. EndPlace(r)[1] \in Int /\ EndPlace(r)[2] \in Int /\ EndPlace(r)[3] \in Int /\ EndPlace(r)[4] \in Int
    BY <1>3 DEF EndPlace, N
  <2>6. Less(P(i), EndPlace(r)) /\ IsPlace(r, P(i))
    BY <1>1, <1>4, Zenon
  <2> HIDE DEF P
  <2>7. Less(Place(r, x), EndPlace(r))
    BY <2>3, <2>4, <2>5, <2>6, PlaceParts, LessIsTransitive, Zenon
  <2>8. PICK j \in 1 .. n : ch[j].name = x
    BY <1>1, <2>3, <2>7, Zenon
  <2>9. P(j) = Place(r, x)
    BY <2>8, Zenon DEF P
  <2>10. i # j
    BY <1>5, <2>3, <2>9, Zenon
  <2>11. ~(i < j)
    <3>1. ASSUME i < j PROVE FALSE
      <4>1. Less(P(i), P(j)) /\ Less(P(j), P(i))
        BY <1>1, <2>3, <2>9, <3>1, Zenon
      <4>2. Less(P(i), P(i))
        BY <1>4, <4>1, PlaceParts, LessIsTransitive, Zenon
      <4> QED
        BY <1>5, <4>2, Zenon
    <3> QED
      BY <3>1
  <2>12. j \in 1 .. (i - 1)
    BY <1>2, <2>10, <2>11
  <2> QED
    BY <2>8, <2>12, Zenon
<1>8. ASSUME NEW i \in 1 .. n, NEW j \in 1 .. n, i < j, \A k \in i .. j : IsAux(ch[k])
      PROVE  ch[i].name \notin SourcesOf(ch[j])
  <2>1. i \in i .. j /\ j \in i .. j
    BY <1>2, <1>8
  <2>2. ch[i].name[1] \in AuxKinds /\ ch[j].name[1] \in AuxKinds
    BY <1>8, <2>1, Zenon DEF IsAux, AuxKinds
  <2>3. ch[j] = StageOf(r, ch[j].name, Behind(r))
    BY <1>1, Zenon
  <2>4. ASSUME ch[i].name \in SourcesOf(ch[j]) PROVE FALSE
    <3>1. ch[i].name \in SourcesOf(StageOf(r, ch[j].name, Behind(r)))
      BY <2>3, <2>4, Zenon
    <3> QED
      BY <2>2, <3>1, AuxReads, Zenon
  <2> QED
    BY <2>4
<1>9. n \in 1 .. n /\ ch[n].name = Single("output_finalize")
  <2> DEFINE output == Single("output_finalize")
  <2>1. IsName(r, output) /\ Place(r, output) = <<8 + N + N, 0, 1, 0>>
    BY PrefillNames, Zenon DEF Named, N
  <2>2. EndPlace(r) = <<9 + N + N, 0, 1, 0>>
    BY DEF EndPlace, N
  <2> HIDE DEF output
  <2>3. Less(Place(r, output), EndPlace(r))
    BY <1>3, <2>1, <2>2 DEF Less
  <2>4. PICK i \in 1 .. n : ch[i].name = output
    BY <1>1, <2>1, <2>3, Zenon
  <2>5. n \in 1 .. n
    BY <1>2
  <2>6. ASSUME i < n PROVE FALSE
    <3> DEFINE q == P(n)
    <3>1. Less(<<8 + N + N, 0, 1, 0>>, q) /\ IsPlace(r, q)
      BY <1>1, <1>4, <2>1, <2>4, <2>5, <2>6, Zenon
    <3>2. Less(q, <<9 + N + N, 0, 1, 0>>)
      BY <1>1, <2>2, <2>5, Zenon
    <3> HIDE DEF q
    <3>3. q[1] \in Int /\ q[2] \in Int /\ q[3] \in Int /\ q[4] \in Int
      BY <3>1, PlaceParts
    <3>4. /\ Len(Items(r)) = 8 + N + N
          /\ \A j \in 1 .. (8 + N + N) : j # 2 /\ j # 7 + N + N => Items(r)[j].repeat = FALSE
      BY ShapesAre, Zenon DEF N
    <3>5. q[1] \in 1 .. (8 + N + N)
      BY <3>1, <3>4, Zenon DEF IsPlace
    <3>6. q[1] = 8 + N + N /\ (q[2] > 0 \/ q[3] > 1 \/ q[4] > 0)
      BY <1>3, <3>1, <3>3, <3>5 DEF Less
    <3>7. q[1] # 2 /\ q[1] # 7 + N + N /\ q[1] \in 1 .. (8 + N + N)
      BY <1>3, <3>6
    <3>8. q[1] \in 1 .. Len(Items(r)) /\ Items(r)[q[1]].repeat = FALSE
      BY <3>4, <3>7, Zenon
    <3>9. q[2] = 0 /\ q[3] = 1 /\ q[4] = 0
      BY <3>1, <3>8, SinglePlace, Zenon
    <3> QED
      BY <3>6, <3>9
  <2>7. i = n
    BY <1>2, <2>6
  <2> QED
    BY <2>4, <2>5, <2>7, Zenon DEF output
<1>10. ch # <<>>
  <2>1. n # 0
    BY <1>2, <1>9
  <2>2. Len(<<>>) = 0
    OBVIOUS
  <2> QED
    BY <2>1, <2>2, Zenon DEF n
<1>11. ch[Len(ch)].name = Single("output_finalize")
  BY <1>9, Zenon DEF n
<1> QED
  BY <1>6, <1>7, <1>8, <1>10, <1>11, Zenon DEF CanRun, n

-----------------------------------------------------------------------------
(* How the cursor of the expansion moves.                                  *)

IsCursor(r, i, o, p, n) ==
  /\ i \in 1 .. (Len(Items(r)) + 1)
  /\ IF i <= Len(Items(r)) /\ Items(r)[i].repeat
     THEN /\ o \in 0 .. Times(Items(r)[i]) /\ p \in 1 .. (Parts(Items(r)[i]) + 1) /\ n \in Nat
          /\ o = Times(Items(r)[i]) => p = 1 /\ n = 0
          /\ p = Parts(Items(r)[i]) + 1 => n = 0
          /\ p <= Parts(Items(r)[i]) => n <= Size(Items(r)[i], p)
     ELSE o = 0 /\ p = 1 /\ n = 0

LEMMA Counts ==
  ASSUME NEW r, IsRun(r), NEW i \in 1 .. Len(Items(r)), Items(r)[i].repeat = TRUE
  PROVE  /\ Times(Items(r)[i]) \in Nat /\ Parts(Items(r)[i]) \in Nat /\ Parts(Items(r)[i]) > 0
         /\ \A p \in 1 .. Parts(Items(r)[i]) : Size(Items(r)[i], p) \in Nat
<1> DEFINE N == r.shape.layers
           M == Items(r)
<1>1. /\ Len(M) = 8 + N + N
      /\ \A j \in 1 .. (8 + N + N) : j # 2 /\ j # 7 + N + N => M[j].repeat = FALSE
      /\ Times(M[2]) = r.batches /\ Parts(M[2]) = 1 /\ Size(M[2], 1) = 1
      /\ Times(M[7 + N + N]) = r.tokens /\ Parts(M[7 + N + N]) = Ending(r)
      /\ Size(M[7 + N + N], 1) = 1 /\ Size(M[7 + N + N], 2) = 1
      /\ Size(M[7 + N + N], 3) = N /\ Size(M[7 + N + N], 4) = FirstShared(r.shape)
      /\ Ending(r) = 6 => Size(M[7 + N + N], 5) = r.shape.shared
      /\ Size(M[7 + N + N], Ending(r)) = 1
  BY ShapesAre, Zenon
<1>2. N \in Nat /\ FirstShared(r.shape) \in Nat /\ r.shape.shared \in Nat
  BY BoundDonors, Zenon DEF IsRun
<1>3. r.batches \in Nat /\ r.tokens \in Nat /\ Ending(r) \in {5, 6}
  BY DEF IsRun, Ending
<1>4. i \in 1 .. Len(M) /\ M[i].repeat = TRUE
  OBVIOUS
<1> HIDE DEF N, M
<1>5. i = 2 \/ i = 7 + N + N
  <2>1. i \in 1 .. (8 + N + N)
    BY <1>1, <1>4, Zenon
  <2> QED
    BY <1>1, <1>4, <2>1, Zenon
<1>6. /\ Times(M[i]) \in Nat /\ Parts(M[i]) \in Nat /\ Parts(M[i]) > 0
      /\ \A p \in 1 .. Parts(M[i]) : Size(M[i], p) \in Nat
  <2>1. CASE i = 2
    <3>1. Times(M[i]) = r.batches /\ Parts(M[i]) = 1 /\ Size(M[i], 1) = 1
      BY <1>1, <2>1, Zenon
    <3>2. \A p \in 1 .. 1 : p = 1
      OBVIOUS
    <3>3. 1 \in Nat /\ 1 > 0
      OBVIOUS
    <3> QED
      BY <1>3, <3>1, <3>2, <3>3, Zenon
  <2>2. CASE i = 7 + N + N
    <3>1. Times(M[i]) = r.tokens /\ Parts(M[i]) = Ending(r)
      BY <1>1, <2>2, Zenon
    <3>2. ASSUME NEW p \in 1 .. Ending(r) PROVE Size(M[i], p) \in Nat
      <4>1. p \in {1, 2, 3, 4} \/ (p = 5 /\ Ending(r) = 6) \/ p = Ending(r)
        BY <1>3
      <4>2. 1 \in Nat
        OBVIOUS
      <4> QED
        BY <1>1, <1>2, <2>2, <4>1, <4>2, Zenon
    <3>3. Ending(r) \in Nat /\ Ending(r) > 0
      BY <1>3
    <3> QED
      BY <1>3, <3>1, <3>2, <3>3, Zenon
  <2> QED
    BY <1>5, <2>1, <2>2, Zenon
<1> QED
  BY <1>6, Zenon DEF M

LEMMA RepeatIsBoolean ==
  ASSUME NEW r, IsRun(r), NEW i \in 1 .. Len(Items(r))
  PROVE  Items(r)[i].repeat \in BOOLEAN
<1> DEFINE N == r.shape.layers
           M == Items(r)
<1>1. /\ Len(M) = 8 + N + N
      /\ \A j \in 1 .. (8 + N + N) : j # 2 /\ j # 7 + N + N => M[j].repeat = FALSE
      /\ M[2].repeat = TRUE /\ M[7 + N + N].repeat = TRUE
  BY ShapesAre, Zenon
<1>2. i \in 1 .. Len(M)
  OBVIOUS
<1> HIDE DEF N, M
<1>3. i \in 1 .. (8 + N + N)
  BY <1>1, <1>2, Zenon
<1>4. M[i].repeat = TRUE \/ M[i].repeat = FALSE
  BY <1>1, <1>3, Zenon
<1>5. M[i].repeat \in BOOLEAN
  BY <1>4, Zenon
<1> QED
  BY <1>5, Zenon DEF M

LEMMA StartIsCursor ==
  ASSUME NEW r, IsRun(r), NEW i \in 1 .. (Len(Items(r)) + 1)
  PROVE  IsCursor(r, i, 0, 1, 0)
<1>1. Len(Items(r)) \in Nat
  BY ItemsAre, SequenceFacts DEF ItemsAreListed
<1>2. CASE i <= Len(Items(r)) /\ Items(r)[i].repeat = TRUE
  <2>1. i \in 1 .. Len(Items(r))
    BY <1>1, <1>2
  <2>2. /\ Times(Items(r)[i]) \in Nat /\ Parts(Items(r)[i]) \in Nat /\ Parts(Items(r)[i]) > 0
        /\ \A p \in 1 .. Parts(Items(r)[i]) : Size(Items(r)[i], p) \in Nat
    BY <1>2, <2>1, Counts, Zenon
  <2>3. Size(Items(r)[i], 1) \in Nat
    <3>1. 1 \in 1 .. Parts(Items(r)[i])
      BY <2>2
    <3> QED
      BY <2>2, <3>1, Zenon
  <2>4. /\ 0 \in 0 .. Times(Items(r)[i]) /\ 1 \in 1 .. (Parts(Items(r)[i]) + 1)
        /\ 0 \in Nat /\ 0 <= Size(Items(r)[i], 1)
    BY <2>2, <2>3
  <2> QED
    BY <2>4, Zenon DEF IsCursor
<1>3. CASE ~(i <= Len(Items(r)) /\ Items(r)[i].repeat = TRUE)
  <2>1. ~(i <= Len(Items(r)) /\ Items(r)[i].repeat)
    <3>1. ASSUME i <= Len(Items(r)) PROVE Items(r)[i].repeat = FALSE
      <4>1. i \in 1 .. Len(Items(r))
        BY <1>1, <3>1
      <4>2. Items(r)[i].repeat # TRUE
        BY <1>3, <3>1
      <4> QED
        BY <4>1, <4>2, RepeatIsBoolean
    <3> QED
      BY <3>1
  <2> QED
    BY <2>1, Zenon DEF IsCursor
<1> QED
  BY <1>2, <1>3

LEMMA PartMoves ==
  ASSUME NEW r, NEW i, i \in Int, Items(r)[i].repeat = TRUE, NEW o \in Int, NEW p \in Int,
         Size(Items(r)[i], p) \in Nat
  PROVE  Moves(r, <<i, o, p, Size(Items(r)[i], p)>>, <<i, o, p + 1, 0>>)
<1> SUFFICES ASSUME NEW q, IsPlace(r, q)
             PROVE  Less(q, <<i, o, p + 1, 0>>) <=> Less(q, <<i, o, p, Size(Items(r)[i], p)>>)
  BY Zenon DEF Moves
<1>1. q[1] \in Int /\ q[2] \in Int /\ q[3] \in Int /\ q[4] \in Int
  BY PlaceParts
<1>2. q[4] \in 0 .. (Size(Items(r)[q[1]], q[3]) - 1)
  BY DEF IsPlace
<1>3. ASSUME q[1] = i, q[3] = p PROVE q[4] \in 0 .. (Size(Items(r)[i], p) - 1)
  BY <1>2, <1>3, Zenon
<1> DEFINE S == Size(Items(r)[i], p)
<1>4. S \in Nat /\ (q[1] = i /\ q[3] = p => q[4] \in 0 .. (S - 1))
  BY <1>3
<1>5. 0 <= q[4]
  BY <1>1, <1>2
<1> HIDE DEF S
<1>6. Less(q, <<i, o, p + 1, 0>>) <=> Less(q, <<i, o, p, S>>)
  BY <1>1, <1>4, <1>5 DEF Less
<1> QED
  BY <1>6 DEF S

LEMMA IterationMoves ==
  ASSUME NEW r, NEW i, i \in Int, NEW o \in Int, NEW p \in Int, p = Parts(Items(r)[i]) + 1,
         Parts(Items(r)[i]) \in Nat
  PROVE  Moves(r, <<i, o, p, 0>>, <<i, o + 1, 1, 0>>)
<1> SUFFICES ASSUME NEW q, IsPlace(r, q)
             PROVE  Less(q, <<i, o + 1, 1, 0>>) <=> Less(q, <<i, o, p, 0>>)
  BY Zenon DEF Moves
<1>1. q[1] \in Int /\ q[2] \in Int /\ q[3] \in Int /\ q[4] \in Int
  BY PlaceParts
<1>2. q[3] \in 1 .. Parts(Items(r)[q[1]]) /\ q[4] >= 0
  BY <1>1 DEF IsPlace
<1>3. ASSUME q[1] = i PROVE q[3] < p
  <2>1. q[3] \in 1 .. Parts(Items(r)[i])
    BY <1>2, <1>3, Zenon
  <2> QED
    BY <2>1
<1> QED
  BY <1>1, <1>2, <1>3 DEF Less

LEMMA RepeatMoves ==
  ASSUME NEW r, NEW i, i \in Int, NEW o \in Int, o = Times(Items(r)[i])
  PROVE  Moves(r, <<i, o, 1, 0>>, <<i + 1, 0, 1, 0>>)
<1> SUFFICES ASSUME NEW q, IsPlace(r, q)
             PROVE  Less(q, <<i + 1, 0, 1, 0>>) <=> Less(q, <<i, o, 1, 0>>)
  BY Zenon DEF Moves
<1>1. q[1] \in Int /\ q[2] \in Int /\ q[3] \in Int /\ q[4] \in Int
  BY PlaceParts
<1>2. q[2] \in 0 .. (Times(Items(r)[q[1]]) - 1) /\ q[3] >= 1 /\ q[4] >= 0
  BY <1>1 DEF IsPlace
<1>3. ASSUME q[1] = i PROVE q[2] < o
  <2>1. q[2] \in 0 .. (Times(Items(r)[i]) - 1)
    BY <1>2, <1>3, Zenon
  <2> QED
    BY <2>1
<1>4. q[2] >= 0
  BY <1>1, <1>2
<1> QED
  BY <1>1, <1>2, <1>3, <1>4 DEF Less

LEMMA SingleSteps ==
  ASSUME NEW r, IsRun(r), NEW i \in 1 .. Len(Items(r)), Items(r)[i].repeat = FALSE
  PROVE  Steps(r, <<i, 0, 1, 0>>, <<i + 1, 0, 1, 0>>)
<1> SUFFICES ASSUME NEW q, IsPlace(r, q)
             PROVE  Less(q, <<i + 1, 0, 1, 0>>) <=> (Less(q, <<i, 0, 1, 0>>) \/ Same(q, <<i, 0, 1, 0>>))
  BY Zenon DEF Steps
<1>1. q[1] \in Int /\ q[2] \in Int /\ q[3] \in Int /\ q[4] \in Int
  BY PlaceParts
<1>2. q[2] >= 0 /\ q[3] >= 1 /\ q[4] >= 0
  BY <1>1 DEF IsPlace
<1>3. q[1] = i => q[2] = 0 /\ q[3] = 1 /\ q[4] = 0
  BY SinglePlace, Zenon
<1>4. i \in Int
  OBVIOUS
<1> QED
  BY <1>1, <1>2, <1>3, <1>4 DEF Less, Same

LEMMA RepeatSteps ==
  ASSUME NEW r, NEW i \in Int, NEW o \in Int, NEW p \in Int, NEW n \in Int
  PROVE  Steps(r, <<i, o, p, n>>, <<i, o, p, n + 1>>)
<1> SUFFICES ASSUME NEW q, IsPlace(r, q)
             PROVE  Less(q, <<i, o, p, n + 1>>) <=> (Less(q, <<i, o, p, n>>) \/ Same(q, <<i, o, p, n>>))
  BY Zenon DEF Steps
<1>1. q[1] \in Int /\ q[2] \in Int /\ q[3] \in Int /\ q[4] \in Int
  BY PlaceParts
<1> QED
  BY <1>1 DEF Less, Same

-----------------------------------------------------------------------------
(* The expansion of an imported manifest.                                  *)

KeysOf(r, ph) == IF ph = "expanded" THEN Behind(r) ELSE Keys

ImportedAt(r, ph, i, o, p, n, ch) ==
  /\ IsRun(r) /\ ph \in {"expand", "expanded"}
  /\ IsCursor(r, i, o, p, n)
  /\ ph = "expanded" => i = Len(Items(r)) + 1
  /\ Listed(r, <<i, o, p, n>>, KeysOf(r, ph), ch)

LEMMA ExpandKeys ==
  ASSUME NEW r
  PROVE  KeysOf(r, "expand") = Keys /\ KeysOf(r, "expanded") = Behind(r) /\ "expand" # "expanded"
<1>1. "expand" # "expanded"
  OBVIOUS
<1> QED
  BY <1>1, Zenon DEF KeysOf

LEMMA ItemCount ==
  ASSUME NEW r, IsRun(r)
  PROVE  /\ Len(Items(r)) \in Nat
         /\ \A i \in 1 .. Len(Items(r)) : i \in Int /\ i + 1 \in 1 .. (Len(Items(r)) + 1)
<1>1. Len(Items(r)) \in Nat
  BY ItemsAre, SequenceFacts DEF ItemsAreListed
<1> QED
  BY <1>1

LEMMA ImportedParts ==
  ASSUME NEW r, NEW i, NEW o, NEW p, NEW n, NEW ch, ImportedAt(r, "expand", i, o, p, n, ch)
  PROVE  IsRun(r) /\ IsCursor(r, i, o, p, n) /\ Listed(r, <<i, o, p, n>>, Keys, ch)
BY ExpandKeys, Zenon DEF ImportedAt

LEMMA ImportedFrom ==
  ASSUME NEW r, NEW i, NEW o, NEW p, NEW n, NEW ch,
         IsRun(r), IsCursor(r, i, o, p, n), Listed(r, <<i, o, p, n>>, Keys, ch)
  PROVE  ImportedAt(r, "expand", i, o, p, n, ch)
BY ExpandKeys, Zenon DEF ImportedAt

LEMMA RepeatCursor ==
  ASSUME NEW r, NEW i \in 1 .. Len(Items(r)), NEW o, NEW p, NEW n, IsRun(r),
         Items(r)[i].repeat = TRUE
  PROVE  IsCursor(r, i, o, p, n) <=>
           /\ o \in 0 .. Times(Items(r)[i]) /\ p \in 1 .. (Parts(Items(r)[i]) + 1) /\ n \in Nat
           /\ o = Times(Items(r)[i]) => p = 1 /\ n = 0
           /\ p = Parts(Items(r)[i]) + 1 => n = 0
           /\ p <= Parts(Items(r)[i]) => n <= Size(Items(r)[i], p)
<1>1. Len(Items(r)) \in Nat
  BY ItemCount, Zenon
<1>2. i <= Len(Items(r)) /\ i \in 1 .. (Len(Items(r)) + 1)
  BY <1>1
<1>3. i <= Len(Items(r)) /\ Items(r)[i].repeat
  BY <1>2, Zenon
<1> QED
  BY <1>2, <1>3, Zenon DEF IsCursor

LEMMA RepeatCursorParts ==
  ASSUME NEW r, NEW i \in 1 .. Len(Items(r)), NEW o, NEW p, NEW n, IsRun(r),
         Items(r)[i].repeat = TRUE, IsCursor(r, i, o, p, n)
  PROVE  /\ o \in 0 .. Times(Items(r)[i]) /\ p \in 1 .. (Parts(Items(r)[i]) + 1) /\ n \in Nat
         /\ o = Times(Items(r)[i]) => p = 1 /\ n = 0
         /\ p = Parts(Items(r)[i]) + 1 => n = 0
         /\ p <= Parts(Items(r)[i]) => n <= Size(Items(r)[i], p)
<1> QED
  BY RepeatCursor, Zenon

LEMMA SingleStep ==
  ASSUME NEW r, NEW i \in 1 .. Len(Items(r)), NEW o, NEW p, NEW n, NEW ch,
         ImportedAt(r, "expand", i, o, p, n, ch), Items(r)[i].repeat = FALSE
  PROVE  ImportedAt(r, "expand", i + 1, 0, 1, 0, Append(ch, Expanded(Items(r)[i].stage, NoIndex)))
<1>1. IsRun(r) /\ IsCursor(r, i, o, p, n) /\ Listed(r, <<i, o, p, n>>, Keys, ch)
  BY ImportedParts, Zenon
<1>2. ~Items(r)[i].repeat
  BY Zenon
<1>3. o = 0 /\ p = 1 /\ n = 0
  BY <1>1, <1>2, Zenon DEF IsCursor
<1>4. PICK name : PushedAt(r, i, name)
  BY <1>1, SinglePushes, Zenon
<1>5. Expanded(Items(r)[i].stage, NoIndex) = StageOf(r, name, Keys)
  BY <1>4, Zenon DEF PushedAt, Pushes, ExpandsTo
<1>6. IsName(r, name) /\ Place(r, name) = <<i, 0, 1, 0>>
  BY <1>4, Zenon DEF PushedAt, Named
<1>7. Steps(r, <<i, 0, 1, 0>>, <<i + 1, 0, 1, 0>>)
  BY <1>1, SingleSteps, Zenon
<1>8. Listed(r, <<i, 0, 1, 0>>, Keys, ch)
  BY <1>1, <1>3, Zenon
<1>9. Listed(r, <<i + 1, 0, 1, 0>>, Keys, Append(ch, StageOf(r, name, Keys)))
  BY <1>6, <1>7, <1>8, ListedPushes, Zenon
<1>10. Listed(r, <<i + 1, 0, 1, 0>>, Keys, Append(ch, Expanded(Items(r)[i].stage, NoIndex)))
  BY <1>5, <1>9, Zenon
<1>11. i + 1 \in 1 .. (Len(Items(r)) + 1)
  BY <1>1, ItemCount, Zenon
<1>12. IsCursor(r, i + 1, 0, 1, 0)
  BY <1>1, <1>11, StartIsCursor, Zenon
<1> QED
  BY <1>1, <1>10, <1>12, ImportedFrom, Zenon

LEMMA RepeatStep ==
  ASSUME NEW r, ManifestIs(r), NEW i \in 1 .. Len(Items(r)), NEW o, NEW p, NEW n, NEW ch,
         ImportedAt(r, "expand", i, o, p, n, ch), Items(r)[i].repeat = TRUE,
         o \in 0 .. (Times(Items(r)[i]) - 1), p \in 1 .. Parts(Items(r)[i]),
         n \in 0 .. (Size(Items(r)[i], p) - 1)
  PROVE  LET template == Items(r)[i].stages[p]
             idx == IndexesAt(Items(r)[i], o, p, n)
         IN  /\ CanExpand(template, idx)
             /\ ImportedAt(r, "expand", i, o, p, n + 1, Append(ch, Expanded(template, idx)))
<1> DEFINE template == Items(r)[i].stages[p]
           idx == IndexesAt(Items(r)[i], o, p, n)
<1>1. IsRun(r) /\ IsCursor(r, i, o, p, n) /\ Listed(r, <<i, o, p, n>>, Keys, ch)
  BY ImportedParts, Zenon
<1>2. PICK name : RepeatedAt(r, i, o, p, n, name)
  BY <1>1, RepeatPushes, Zenon
<1>3. CanExpand(template, idx) /\ Expanded(template, idx) = StageOf(r, name, Keys)
  BY <1>2, Zenon DEF RepeatedAt, ExpandsTo
<1>4. IsName(r, name) /\ Place(r, name) = <<i, o, p, n>>
  BY <1>2, Zenon DEF RepeatedAt, Named
<1>5. i \in Int /\ o \in Int /\ p \in Int /\ n \in Int
  OBVIOUS
<1>6. Steps(r, <<i, o, p, n>>, <<i, o, p, n + 1>>)
  BY <1>5, RepeatSteps, Zenon
<1>7. Listed(r, <<i, o, p, n + 1>>, Keys, Append(ch, StageOf(r, name, Keys)))
  BY <1>1, <1>4, <1>6, ListedPushes, Zenon
<1> HIDE DEF template, idx
<1>8. Listed(r, <<i, o, p, n + 1>>, Keys, Append(ch, Expanded(template, idx)))
  BY <1>3, <1>7, Zenon
<1>9. IsCursor(r, i, o, p, n + 1)
  <2> DEFINE C == Times(Items(r)[i])
             P == Parts(Items(r)[i])
             S == Size(Items(r)[i], p)
  <2>1. C \in Nat /\ P \in Nat /\ S \in Nat
    BY <1>1, Counts, Zenon
  <2>2. o \in 0 .. (C - 1) /\ p \in 1 .. P /\ n \in 0 .. (S - 1)
    OBVIOUS
  <2> HIDE DEF C, P, S
  <2>3. /\ o \in 0 .. C /\ p \in 1 .. (P + 1) /\ n + 1 \in Nat
        /\ o # C /\ p # P + 1 /\ n + 1 <= S
    BY <2>1, <2>2
  <2> QED
    BY <1>1, <2>3, RepeatCursor, Zenon DEF C, P, S
<1>10. ImportedAt(r, "expand", i, o, p, n + 1, Append(ch, Expanded(template, idx)))
  BY <1>1, <1>8, <1>9, ImportedFrom, Zenon
<1> QED
  BY <1>3, <1>10, Zenon DEF template, idx

LEMMA PartStep ==
  ASSUME NEW r, NEW i \in 1 .. Len(Items(r)), NEW o, NEW p, NEW n, NEW ch,
         ImportedAt(r, "expand", i, o, p, n, ch), Items(r)[i].repeat = TRUE,
         o \in 0 .. (Times(Items(r)[i]) - 1), p \in 1 .. Parts(Items(r)[i]),
         n = Size(Items(r)[i], p)
  PROVE  ImportedAt(r, "expand", i, o, p + 1, 0, ch)
<1> DEFINE C == Times(Items(r)[i])
           P == Parts(Items(r)[i])
           S == Size(Items(r)[i], p)
<1>1. IsRun(r) /\ Listed(r, <<i, o, p, n>>, Keys, ch)
  BY ImportedParts, Zenon
<1>2. C \in Nat /\ P \in Nat /\ S \in Nat /\ \A q \in 1 .. P : Size(Items(r)[i], q) \in Nat
  BY <1>1, Counts, Zenon
<1>3. o \in 0 .. (C - 1) /\ p \in 1 .. P /\ i \in Int /\ o \in Int /\ p \in Int
  OBVIOUS
<1>4. Moves(r, <<i, o, p, S>>, <<i, o, p + 1, 0>>)
  BY <1>2, <1>3, PartMoves, Zenon
<1>5. Listed(r, <<i, o, p, S>>, Keys, ch)
  BY <1>1, Zenon
<1>6. Listed(r, <<i, o, p + 1, 0>>, Keys, ch)
  BY <1>4, <1>5, ListedMoves, Zenon
<1> HIDE DEF C, P, S
<1>7. p + 1 <= P => 0 <= Size(Items(r)[i], p + 1)
  <2> SUFFICES ASSUME p + 1 <= P PROVE 0 <= Size(Items(r)[i], p + 1)
    OBVIOUS
  <2>1. p + 1 \in 1 .. P
    BY <1>2, <1>3
  <2>2. Size(Items(r)[i], p + 1) \in Nat
    BY <1>2, <2>1, Zenon
  <2> QED
    BY <2>2
<1>8. o \in 0 .. C /\ p + 1 \in 1 .. (P + 1) /\ 0 \in Nat /\ o # C
  BY <1>2, <1>3
<1>9. IsCursor(r, i, o, p + 1, 0)
  BY <1>1, <1>7, <1>8, RepeatCursor, Zenon DEF C, P
<1> QED
  BY <1>1, <1>6, <1>9, ImportedFrom, Zenon

LEMMA IterationStep ==
  ASSUME NEW r, NEW i \in 1 .. Len(Items(r)), NEW o, NEW p, NEW n, NEW ch,
         ImportedAt(r, "expand", i, o, p, n, ch), Items(r)[i].repeat = TRUE,
         o \in 0 .. (Times(Items(r)[i]) - 1), p > Parts(Items(r)[i])
  PROVE  ImportedAt(r, "expand", i, o + 1, 1, n, ch)
<1> DEFINE C == Times(Items(r)[i])
           P == Parts(Items(r)[i])
<1>1. IsRun(r) /\ IsCursor(r, i, o, p, n) /\ Listed(r, <<i, o, p, n>>, Keys, ch)
  BY ImportedParts, Zenon
<1>2. C \in Nat /\ P \in Nat /\ P > 0 /\ \A q \in 1 .. P : Size(Items(r)[i], q) \in Nat
  BY <1>1, Counts, Zenon
<1>3. n = 0 /\ p = P + 1
  <2>1. /\ o \in 0 .. Times(Items(r)[i]) /\ p \in 1 .. (Parts(Items(r)[i]) + 1) /\ n \in Nat
        /\ o = Times(Items(r)[i]) => p = 1 /\ n = 0
        /\ p = Parts(Items(r)[i]) + 1 => n = 0
        /\ p <= Parts(Items(r)[i]) => n <= Size(Items(r)[i], p)
    BY <1>1, RepeatCursorParts, Zenon
  <2>2. p = P + 1
    BY <1>2, <2>1
  <2> QED
    BY <2>1, <2>2
<1>4. o \in 0 .. (C - 1) /\ i \in Int /\ o \in Int
  OBVIOUS
<1> HIDE DEF C, P
<1>5. p \in Int
  BY <1>2, <1>3
<1>6. Moves(r, <<i, o, p, 0>>, <<i, o + 1, 1, 0>>)
  BY <1>2, <1>3, <1>4, <1>5, IterationMoves, Zenon DEF P
<1>7. Listed(r, <<i, o, p, 0>>, Keys, ch)
  BY <1>1, <1>3, Zenon
<1>8. Listed(r, <<i, o + 1, 1, 0>>, Keys, ch)
  BY <1>6, <1>7, ListedMoves, Zenon
<1>9. 0 <= Size(Items(r)[i], 1)
  <2>1. 1 \in 1 .. P
    BY <1>2
  <2>2. Size(Items(r)[i], 1) \in Nat
    BY <1>2, <2>1, Zenon
  <2> QED
    BY <2>2
<1>10. o + 1 \in 0 .. C /\ 1 \in 1 .. (P + 1) /\ 0 \in Nat
  BY <1>2, <1>4
<1>11. IsCursor(r, i, o + 1, 1, 0)
  BY <1>1, <1>9, <1>10, RepeatCursor, Zenon DEF C, P
<1>12. ImportedAt(r, "expand", i, o + 1, 1, 0, ch)
  BY <1>1, <1>8, <1>11, ImportedFrom, Zenon
<1> QED
  BY <1>3, <1>12, Zenon

LEMMA EndStep ==
  ASSUME NEW r, NEW i \in 1 .. Len(Items(r)), NEW o, NEW p, NEW n, NEW ch,
         ImportedAt(r, "expand", i, o, p, n, ch), Items(r)[i].repeat = TRUE,
         o >= Times(Items(r)[i])
  PROVE  ImportedAt(r, "expand", i + 1, 0, 1, 0, ch)
<1>1. IsRun(r) /\ IsCursor(r, i, o, p, n) /\ Listed(r, <<i, o, p, n>>, Keys, ch)
  BY ImportedParts, Zenon
<1>2. p = 1 /\ n = 0 /\ o = Times(Items(r)[i])
  <2>1. /\ o \in 0 .. Times(Items(r)[i]) /\ p \in 1 .. (Parts(Items(r)[i]) + 1) /\ n \in Nat
        /\ o = Times(Items(r)[i]) => p = 1 /\ n = 0
        /\ p = Parts(Items(r)[i]) + 1 => n = 0
        /\ p <= Parts(Items(r)[i]) => n <= Size(Items(r)[i], p)
    BY <1>1, RepeatCursorParts, Zenon
  <2>2. Times(Items(r)[i]) \in Nat
    BY <1>1, Counts, Zenon
  <2>3. o = Times(Items(r)[i])
    BY <2>1, <2>2
  <2> QED
    BY <2>1, <2>3
<1>3. Listed(r, <<i, o, 1, 0>>, Keys, ch)
  BY <1>1, <1>2, Zenon
<1>4. Times(Items(r)[i]) \in Nat
  BY <1>1, Counts, Zenon
<1>5. o \in Int /\ i \in Int
  BY <1>2, <1>4
<1>6. Moves(r, <<i, o, 1, 0>>, <<i + 1, 0, 1, 0>>)
  BY <1>2, <1>5, RepeatMoves, Zenon
<1>7. Listed(r, <<i + 1, 0, 1, 0>>, Keys, ch)
  BY <1>3, <1>6, ListedMoves, Zenon
<1>8. i + 1 \in 1 .. (Len(Items(r)) + 1)
  BY <1>1, ItemCount, Zenon
<1>9. IsCursor(r, i + 1, 0, 1, 0)
  BY <1>1, <1>8, StartIsCursor, Zenon
<1> QED
  BY <1>1, <1>7, <1>9, ImportedFrom, Zenon

LEMMA ResolveStep ==
  ASSUME NEW r, NEW i, NEW o, NEW p, NEW n, NEW ch,
         ImportedAt(r, "expand", i, o, p, n, ch), i = Len(Items(r)) + 1, ExportsAre(r)
  PROVE  ImportedAt(r, "expanded", i, o, p, n, [j \in DOMAIN ch |-> ResolvedStage(ch[j])])
<1> DEFINE resolved == [j \in DOMAIN ch |-> ResolvedStage(ch[j])]
<1>1. IsRun(r) /\ IsCursor(r, i, o, p, n) /\ Listed(r, <<i, o, p, n>>, Keys, ch)
  BY ImportedParts, Zenon
<1>2. Listed(r, <<i, o, p, n>>, Behind(r), resolved)
  BY <1>1, ListedResolves, Zenon
<1> HIDE DEF resolved
<1>3. Listed(r, <<i, o, p, n>>, KeysOf(r, "expanded"), resolved)
  BY <1>2, ExpandKeys, Zenon
<1>4. ImportedAt(r, "expanded", i, o, p, n, resolved)
  BY <1>1, <1>3, Zenon DEF ImportedAt
<1> QED
  BY <1>4, Zenon DEF resolved

(* What is exported when the expansion comes to an item. *)
ExportsUpTo(r, i, e) ==
  LET N == r.shape.layers
  IN  /\ i <= 2 => DOMAIN e = {}
      /\ 2 < i /\ i <= 7 + N + N => DOMAIN e = {Keys.pieces} /\ e[Keys.pieces] = Behind(r).pieces
      /\ 7 + N + N < i => /\ DOMAIN e = ExportKeys
                          /\ e[Keys.pieces] = Behind(r).pieces /\ e[Keys.edge] = Behind(r).edge

LEMMA NothingExported ==
  ASSUME NEW r, IsRun(r), NEW i \in 1 .. Len(Items(r)), Items(r)[i].repeat = FALSE,
         NEW e, ExportsUpTo(r, i, e)
  PROVE  ExportsUpTo(r, i + 1, e)
<1> DEFINE N == r.shape.layers
           M == Items(r)
<1>1. N \in Nat /\ N > 0
  BY BoundDonors DEF IsRun
<1>2. M[2].repeat = TRUE /\ M[7 + N + N].repeat = TRUE
  BY ShapesAre, Zenon
<1>3. i \in Int /\ M[i].repeat = FALSE
  OBVIOUS
<1> HIDE DEF M
<1>4. i # 2 /\ i # 7 + N + N
  BY <1>2, <1>3, Zenon
<1>5. i + 1 <= 2 => i <= 2
  BY <1>3
<1>6. 2 < i + 1 => 2 < i
  BY <1>3, <1>4
<1>7. i + 1 <= 7 + N + N => i <= 7 + N + N
  BY <1>1, <1>3
<1>8. 7 + N + N < i + 1 => 7 + N + N < i
  BY <1>1, <1>3, <1>4
<1> QED
  BY <1>5, <1>6, <1>7, <1>8, Zenon DEF ExportsUpTo

LEMMA ExtendedHas ==
  ASSUME NEW x, NEW y, NEW k
  PROVE  /\ k \in DOMAIN y => Extended(x, y)[k] = y[k]
         /\ k \in DOMAIN x /\ k \notin DOMAIN y => Extended(x, y)[k] = x[k]
BY DEF Extended

LEMMA RepeatExports ==
  ASSUME NEW r, IsRun(r), NEW i \in 1 .. Len(Items(r)), Items(r)[i].repeat = TRUE,
         NEW e, ExportsUpTo(r, i, e)
  PROVE  CanExport(Items(r)[i]) /\ ExportsUpTo(r, i + 1, Extended(e, Exported(Items(r)[i])))
<1> DEFINE N == r.shape.layers
           M == Items(r)
           f == Extended(e, Exported(M[i]))
<1>1. N \in Nat /\ N > 0
  BY BoundDonors DEF IsRun
<1>2. /\ Len(M) = 8 + N + N
      /\ \A j \in 1 .. (8 + N + N) : j # 2 /\ j # 7 + N + N => M[j].repeat = FALSE
      /\ M[2] = MergeItem(r) /\ M[7 + N + N] = TokensItem(r)
  BY ShapesAre, Zenon
<1>3. i \in 1 .. Len(M) /\ M[i].repeat = TRUE
  OBVIOUS
<1>4. DOMAIN f = DOMAIN e \cup DOMAIN Exported(M[i])
  BY DEF Extended
<1> HIDE DEF N, M
<1>5. i = 2 \/ i = 7 + N + N
  <2>1. i \in 1 .. (8 + N + N)
    BY <1>2, <1>3, Zenon
  <2> QED
    BY <1>2, <1>3, <2>1, Zenon
<1>6. CASE i = 2
  <2>1. M[i] = MergeItem(r)
    BY <1>2, <1>6, Zenon
  <2>2. /\ CanExport(M[i]) /\ DOMAIN Exported(M[i]) = {Keys.pieces}
        /\ Exported(M[i])[Keys.pieces] = Behind(r).pieces
    BY <2>1, MergeExported, Zenon
  <2>3. DOMAIN e = {}
    <3>1. i <= 2
      BY <1>6
    <3> QED
      BY <3>1, Zenon DEF ExportsUpTo
  <2>4. DOMAIN f = {Keys.pieces} /\ f[Keys.pieces] = Behind(r).pieces
    <3>1. DOMAIN f = DOMAIN e \cup DOMAIN Exported(M[i])
      BY <1>4, Zenon
    <3>2. f[Keys.pieces] = Exported(M[i])[Keys.pieces]
      <4>1. Keys.pieces \in DOMAIN Exported(M[i])
        BY <2>2, Zenon
      <4> QED
        BY <4>1, ExtendedHas DEF f
    <3> HIDE DEF f
    <3> QED
      BY <2>2, <2>3, <3>1, <3>2, Zenon
  <2> HIDE DEF f
  <2>5. ~(i + 1 <= 2) /\ ~(7 + N + N < i + 1)
    BY <1>1, <1>6
  <2>6. ExportsUpTo(r, i + 1, f)
    BY <2>4, <2>5, Zenon DEF ExportsUpTo, N
  <2> QED
    BY <2>2, <2>6, Zenon DEF f, M
<1>7. CASE i = 7 + N + N
  <2>1. M[i] = TokensItem(r)
    BY <1>2, <1>7, Zenon
  <2>2. /\ CanExport(M[i]) /\ DOMAIN Exported(M[i]) = {Keys.edge, Single("decode.logits")}
        /\ Exported(M[i])[Keys.edge] = Behind(r).edge
    BY <2>1, TokensExported, Zenon
  <2>3. DOMAIN e = {Keys.pieces} /\ e[Keys.pieces] = Behind(r).pieces
    <3>1. 2 < i /\ i <= 7 + N + N
      BY <1>1, <1>7
    <3> QED
      BY <3>1, Zenon DEF ExportsUpTo, N
  <2>4. Keys.pieces \notin {Keys.edge, Single("decode.logits")}
    <3>1. /\ Single("tokenize.pieces")[1] = "tokenize.pieces" /\ Single("decode.edge")[1] = "decode.edge"
          /\ Single("decode.logits")[1] = "decode.logits"
      BY SingleKind, Zenon
    <3>2. Keys.pieces = Single("tokenize.pieces") /\ Keys.edge = Single("decode.edge")
      BY DEF Keys
    <3>3. "tokenize.pieces" # "decode.edge" /\ "tokenize.pieces" # "decode.logits"
      OBVIOUS
    <3>4. Keys.pieces # Keys.edge /\ Keys.pieces # Single("decode.logits")
      BY <3>1, <3>2, <3>3, Zenon
    <3> QED
      BY <3>4, Zenon
  <2>5. /\ DOMAIN f = ExportKeys
        /\ f[Keys.pieces] = Behind(r).pieces /\ f[Keys.edge] = Behind(r).edge
    <3>1. DOMAIN f = DOMAIN e \cup DOMAIN Exported(M[i])
      BY <1>4, Zenon
    <3>2. f[Keys.edge] = Exported(M[i])[Keys.edge]
      <4>1. Keys.edge \in DOMAIN Exported(M[i])
        BY <2>2, Zenon
      <4> QED
        BY <4>1, ExtendedHas DEF f
    <3>3. f[Keys.pieces] = e[Keys.pieces]
      <4>1. Keys.pieces \in DOMAIN e /\ Keys.pieces \notin DOMAIN Exported(M[i])
        BY <2>2, <2>3, <2>4, Zenon
      <4> QED
        BY <4>1, ExtendedHas DEF f
    <3>4. {Keys.pieces} \cup {Keys.edge, Single("decode.logits")} = ExportKeys
      BY DEF ExportKeys
    <3> HIDE DEF f
    <3> QED
      BY <2>2, <2>3, <3>1, <3>2, <3>3, <3>4, Zenon
  <2> HIDE DEF f
  <2>6. ~(i + 1 <= 2) /\ ~(i + 1 <= 7 + N + N)
    BY <1>1, <1>7
  <2>7. ExportsUpTo(r, i + 1, f)
    BY <2>5, <2>6, Zenon DEF ExportsUpTo, N
  <2> QED
    BY <2>2, <2>7, Zenon DEF f, M
<1> QED
  BY <1>5, <1>6, <1>7, Zenon

(* The state of the expansion of an imported manifest. *)
ImportInv ==
  IsImported =>
    /\ ManifestIs(spec)
    /\ ImportedAt(spec, phase, item, outer, part, inner, chain)
    /\ ExportsUpTo(spec, item, exports)

LEMMA ItemIs ==
  ASSUME NEW r, ManifestIs(r)
  PROVE  /\ manifest.items = Items(r)
         /\ Item = Items(r)[item] /\ Part = Items(r)[item].stages[part]
         /\ Indexes = IndexesAt(Items(r)[item], outer, part, inner)
<1>1. manifest.items = Items(r)
  BY Zenon DEF ManifestIs, Items
<1>2. Item = Items(r)[item]
  BY <1>1, Zenon DEF Item
<1>3. Part = Items(r)[item].stages[part]
  BY <1>2, Zenon DEF Part
<1>4. Indexes = IndexesAt(Items(r)[item], outer, part, inner)
  BY <1>2, <1>3, Zenon DEF Indexes, IndexesAt
<1> QED
  BY <1>1, <1>2, <1>3, <1>4

LEMMA AtItemIs ==
  ASSUME NEW r, ManifestIs(r), ImportedAt(r, phase, item, outer, part, inner, chain),
         NEW repeat \in BOOLEAN, AtItem(repeat)
  PROVE  /\ item \in 1 .. Len(Items(r)) /\ Items(r)[item].repeat = repeat
         /\ ImportedAt(r, "expand", item, outer, part, inner, chain)
<1>1. phase = "expand" /\ item <= Len(manifest.items) /\ manifest.items[item].repeat = repeat
  BY Zenon DEF AtItem
<1>2. item <= Len(Items(r)) /\ Items(r)[item].repeat = repeat
  BY <1>1, ItemIs, Zenon
<1>3. ImportedAt(r, "expand", item, outer, part, inner, chain)
  BY <1>1, Zenon
<1>4. IsRun(r) /\ IsCursor(r, item, outer, part, inner)
  BY <1>3, Zenon DEF ImportedAt
<1>5. item \in 1 .. (Len(Items(r)) + 1) /\ Len(Items(r)) \in Nat
  BY <1>4, ItemCount, Zenon DEF IsCursor
<1>6. item \in 1 .. Len(Items(r))
  BY <1>2, <1>5
<1> QED
  BY <1>2, <1>3, <1>6

LEMMA RepeatCounts ==
  ASSUME NEW it, it.repeat = TRUE
  PROVE  /\ Times(it) = it.count /\ Parts(it) = Len(it.stages)
         /\ \A p : Size(it, p) = it.stages[p].count
BY DEF Times, Parts, Size

LEMMA InPartIs ==
  ASSUME NEW r, ManifestIs(r), ImportedAt(r, phase, item, outer, part, inner, chain),
         AtItem(TRUE), outer < Item.count, part <= Len(Item.stages)
  PROVE  /\ outer \in 0 .. (Times(Items(r)[item]) - 1) /\ part \in 1 .. Parts(Items(r)[item])
         /\ inner \in 0 .. Size(Items(r)[item], part) /\ Part.count = Size(Items(r)[item], part)
<1> DEFINE it == Items(r)[item]
<1>1. /\ item \in 1 .. Len(Items(r)) /\ it.repeat = TRUE
      /\ ImportedAt(r, "expand", item, outer, part, inner, chain)
  BY AtItemIs
<1>2. Item = it /\ Part = it.stages[part]
  BY ItemIs
<1>3. IsRun(r) /\ IsCursor(r, item, outer, part, inner)
  BY <1>1, Zenon DEF ImportedAt
<1>4. Times(it) = it.count /\ Parts(it) = Len(it.stages) /\ Size(it, part) = it.stages[part].count
  BY <1>1, RepeatCounts, Zenon
<1>5. Times(it) \in Nat /\ Parts(it) \in Nat /\ \A p \in 1 .. Parts(it) : Size(it, p) \in Nat
  BY <1>1, <1>3, Counts, Zenon
<1>6. /\ outer \in 0 .. Times(it) /\ part \in 1 .. (Parts(it) + 1) /\ inner \in Nat
      /\ outer = Times(it) => part = 1 /\ inner = 0
      /\ part = Parts(it) + 1 => inner = 0
      /\ part <= Parts(it) => inner <= Size(it, part)
  BY <1>1, <1>3, RepeatCursorParts, Zenon
<1> HIDE DEF it
<1>7. outer < Times(it) /\ part <= Parts(it) /\ Part.count = Size(it, part)
  BY <1>2, <1>4, Zenon
<1>8. outer \in 0 .. (Times(it) - 1) /\ part \in 1 .. Parts(it)
  BY <1>5, <1>6, <1>7
<1>9. inner \in 0 .. Size(it, part)
  <2>1. Size(it, part) \in Nat
    BY <1>5, <1>8, Zenon
  <2> QED
    BY <1>6, <1>7, <2>1
<1> QED
  BY <1>7, <1>8, <1>9, Zenon DEF it

LEMMA ImportKept ==
  ASSUME ImportInv, spec' = spec, manifest' = manifest,
         ASSUME IsImported, ManifestIs(spec), IsRun(spec),
                ImportedAt(spec, phase, item, outer, part, inner, chain), ExportsUpTo(spec, item, exports)
         PROVE  /\ ImportedAt(spec, phase', item', outer', part', inner', chain')
                /\ ExportsUpTo(spec, item', exports')
  PROVE  ImportInv'
<1> SUFFICES ASSUME IsImported'
             PROVE  /\ ManifestIs(spec)'
                    /\ ImportedAt(spec, phase, item, outer, part, inner, chain)'
                    /\ ExportsUpTo(spec, item, exports)'
  BY Zenon DEF ImportInv
<1>1. IsImported
  BY DEF IsImported
<1>2. /\ ManifestIs(spec) /\ ImportedAt(spec, phase, item, outer, part, inner, chain)
      /\ ExportsUpTo(spec, item, exports)
  BY <1>1, Zenon DEF ImportInv
<1>3. IsRun(spec)
  BY <1>2, Zenon DEF ImportedAt
<1>4. ImportedAt(spec, phase', item', outer', part', inner', chain') /\ ExportsUpTo(spec, item', exports')
  BY <1>1, <1>2, <1>3
<1>5. ManifestIs(spec)'
  BY <1>2 DEF ManifestIs
<1> QED
  BY <1>4, <1>5, Zenon

LEMMA PushStageImports == ImportInv /\ PushStage => ImportInv'
<1> SUFFICES ASSUME ImportInv, PushStage PROVE ImportInv'
  OBVIOUS
<1>1. /\ AtItem(FALSE) /\ chain' = Append(chain, Expanded(Item.stage, NoIndex))
      /\ item' = item + 1 /\ outer' = 0 /\ part' = 1 /\ inner' = 0
      /\ spec' = spec /\ manifest' = manifest /\ phase' = phase /\ exports' = exports
  BY DEF PushStage, NextItem
<1>2. ASSUME IsImported, ManifestIs(spec), IsRun(spec),
             ImportedAt(spec, phase, item, outer, part, inner, chain), ExportsUpTo(spec, item, exports)
      PROVE  /\ ImportedAt(spec, phase', item', outer', part', inner', chain')
             /\ ExportsUpTo(spec, item', exports')
  <2> DEFINE it == Items(spec)[item]
  <2>1. /\ item \in 1 .. Len(Items(spec)) /\ it.repeat = FALSE
        /\ ImportedAt(spec, "expand", item, outer, part, inner, chain)
    <3>1. FALSE \in BOOLEAN
      OBVIOUS
    <3> QED
      BY <1>1, <1>2, <3>1, AtItemIs, Zenon
  <2>2. phase = "expand"
    BY <1>1, Zenon DEF AtItem
  <2>3. Item = it
    BY <1>2, ItemIs, Zenon
  <2> DEFINE longer == Append(chain, Expanded(it.stage, NoIndex))
  <2>4. ImportedAt(spec, "expand", item + 1, 0, 1, 0, longer)
    BY <2>1, SingleStep, Zenon
  <2>5. ExportsUpTo(spec, item + 1, exports)
    BY <1>2, <2>1, NothingExported, Zenon
  <2>6. chain' = longer
    BY <1>1, <2>3, Zenon
  <2> HIDE DEF longer
  <2> QED
    BY <1>1, <2>2, <2>4, <2>5, <2>6, Zenon
<1> QED
  BY <1>1, <1>2, ImportKept

LEMMA PushRepeatedImports == ImportInv /\ PushRepeated => ImportInv'
<1> SUFFICES ASSUME ImportInv, PushRepeated PROVE ImportInv'
  OBVIOUS
<1>1. /\ AtItem(TRUE) /\ outer < Item.count /\ part <= Len(Item.stages) /\ inner < Part.count
      /\ chain' = Append(chain, Expanded(Part, Indexes)) /\ inner' = inner + 1
      /\ spec' = spec /\ manifest' = manifest /\ phase' = phase /\ item' = item /\ outer' = outer
      /\ part' = part /\ exports' = exports
  BY DEF PushRepeated, InPart
<1>2. ASSUME IsImported, ManifestIs(spec), IsRun(spec),
             ImportedAt(spec, phase, item, outer, part, inner, chain), ExportsUpTo(spec, item, exports)
      PROVE  /\ ImportedAt(spec, phase', item', outer', part', inner', chain')
             /\ ExportsUpTo(spec, item', exports')
  <2> DEFINE it == Items(spec)[item]
             template == it.stages[part]
             idx == IndexesAt(it, outer, part, inner)
             longer == Append(chain, Expanded(template, idx))
  <2>1. /\ item \in 1 .. Len(Items(spec)) /\ it.repeat = TRUE
        /\ ImportedAt(spec, "expand", item, outer, part, inner, chain)
    BY <1>1, <1>2, AtItemIs
  <2>2. phase = "expand"
    BY <1>1, Zenon DEF AtItem
  <2>3. Part = template /\ Indexes = idx
    BY <1>2, ItemIs, Zenon
  <2>4. /\ outer \in 0 .. (Times(it) - 1) /\ part \in 1 .. Parts(it)
        /\ inner \in 0 .. Size(it, part) /\ Part.count = Size(it, part)
    BY <1>1, <1>2, InPartIs, Zenon
  <2>5. inner \in 0 .. (Size(it, part) - 1)
    <3>1. Size(it, part) \in Nat
      BY <1>2, <2>1, <2>4, Counts, Zenon
    <3> HIDE DEF it
    <3> QED
      BY <1>1, <2>4, <3>1
  <2>6. ImportedAt(spec, "expand", item, outer, part, inner + 1, longer)
    BY <1>2, <2>1, <2>4, <2>5, RepeatStep, Zenon
  <2>7. chain' = longer
    BY <1>1, <2>3, Zenon
  <2> HIDE DEF longer
  <2> QED
    BY <1>1, <1>2, <2>2, <2>6, <2>7, Zenon
<1> QED
  BY <1>1, <1>2, ImportKept

LEMMA NextPartImports == ImportInv /\ NextPart => ImportInv'
<1> SUFFICES ASSUME ImportInv, NextPart PROVE ImportInv'
  OBVIOUS
<1>1. /\ AtItem(TRUE) /\ outer < Item.count /\ part <= Len(Item.stages) /\ inner = Part.count
      /\ part' = part + 1 /\ inner' = 0
      /\ spec' = spec /\ manifest' = manifest /\ phase' = phase /\ item' = item /\ outer' = outer
      /\ exports' = exports /\ chain' = chain
  BY DEF NextPart
<1>2. ASSUME IsImported, ManifestIs(spec), IsRun(spec),
             ImportedAt(spec, phase, item, outer, part, inner, chain), ExportsUpTo(spec, item, exports)
      PROVE  /\ ImportedAt(spec, phase', item', outer', part', inner', chain')
             /\ ExportsUpTo(spec, item', exports')
  <2> DEFINE it == Items(spec)[item]
  <2>1. /\ item \in 1 .. Len(Items(spec)) /\ it.repeat = TRUE
        /\ ImportedAt(spec, "expand", item, outer, part, inner, chain)
    BY <1>1, <1>2, AtItemIs
  <2>2. phase = "expand"
    BY <1>1, Zenon DEF AtItem
  <2>3. /\ outer \in 0 .. (Times(it) - 1) /\ part \in 1 .. Parts(it)
        /\ Part.count = Size(it, part)
    BY <1>1, <1>2, InPartIs, Zenon
  <2>4. inner = Size(it, part)
    BY <1>1, <2>3, Zenon
  <2>5. ImportedAt(spec, "expand", item, outer, part + 1, 0, chain)
    BY <2>1, <2>3, <2>4, PartStep
  <2> QED
    BY <1>1, <1>2, <2>2, <2>5, Zenon
<1> QED
  BY <1>1, <1>2, ImportKept

LEMMA NextIterationImports == ImportInv /\ NextIteration => ImportInv'
<1> SUFFICES ASSUME ImportInv, NextIteration PROVE ImportInv'
  OBVIOUS
<1>1. /\ AtItem(TRUE) /\ outer < Item.count /\ part > Len(Item.stages)
      /\ outer' = outer + 1 /\ part' = 1 /\ inner' = inner
      /\ spec' = spec /\ manifest' = manifest /\ phase' = phase /\ item' = item
      /\ exports' = exports /\ chain' = chain
  BY DEF NextIteration
<1>2. ASSUME IsImported, ManifestIs(spec), IsRun(spec),
             ImportedAt(spec, phase, item, outer, part, inner, chain), ExportsUpTo(spec, item, exports)
      PROVE  /\ ImportedAt(spec, phase', item', outer', part', inner', chain')
             /\ ExportsUpTo(spec, item', exports')
  <2> DEFINE it == Items(spec)[item]
  <2>1. /\ item \in 1 .. Len(Items(spec)) /\ it.repeat = TRUE
        /\ ImportedAt(spec, "expand", item, outer, part, inner, chain)
    BY <1>1, <1>2, AtItemIs
  <2>2. phase = "expand"
    BY <1>1, Zenon DEF AtItem
  <2>3. Item = it
    BY <1>2, ItemIs, Zenon
  <2>4. Times(it) = it.count /\ Parts(it) = Len(it.stages)
    BY <2>1, RepeatCounts, Zenon
  <2>5. Times(it) \in Nat
    BY <1>2, <2>1, Counts, Zenon
  <2>6. outer \in 0 .. Times(it)
    <3>1. IsCursor(spec, item, outer, part, inner)
      BY <2>1, Zenon DEF ImportedAt
    <3> QED
      BY <1>2, <2>1, <3>1, RepeatCursorParts, Zenon
  <2>7. outer < Times(it) /\ part > Parts(it)
    BY <1>1, <2>3, <2>4, Zenon
  <2> HIDE DEF it
  <2>8. outer \in 0 .. (Times(it) - 1)
    BY <2>5, <2>6, <2>7
  <2>9. ImportedAt(spec, "expand", item, outer + 1, 1, inner, chain)
    BY <2>1, <2>7, <2>8, IterationStep, Zenon DEF it
  <2> QED
    BY <1>1, <1>2, <2>2, <2>9, Zenon
<1> QED
  BY <1>1, <1>2, ImportKept

LEMMA EndRepeatImports == ImportInv /\ EndRepeat => ImportInv'
<1> SUFFICES ASSUME ImportInv, EndRepeat PROVE ImportInv'
  OBVIOUS
<1>1. /\ AtItem(TRUE) /\ outer = Item.count
      /\ exports' = Extended(exports, Exported(Item))
      /\ item' = item + 1 /\ outer' = 0 /\ part' = 1 /\ inner' = 0
      /\ spec' = spec /\ manifest' = manifest /\ phase' = phase /\ chain' = chain
  BY DEF EndRepeat, NextItem
<1>2. ASSUME IsImported, ManifestIs(spec), IsRun(spec),
             ImportedAt(spec, phase, item, outer, part, inner, chain), ExportsUpTo(spec, item, exports)
      PROVE  /\ ImportedAt(spec, phase', item', outer', part', inner', chain')
             /\ ExportsUpTo(spec, item', exports')
  <2> DEFINE it == Items(spec)[item]
             more == Extended(exports, Exported(it))
  <2>1. /\ item \in 1 .. Len(Items(spec)) /\ it.repeat = TRUE
        /\ ImportedAt(spec, "expand", item, outer, part, inner, chain)
    BY <1>1, <1>2, AtItemIs
  <2>2. phase = "expand"
    BY <1>1, Zenon DEF AtItem
  <2>3. Item = it
    BY <1>2, ItemIs, Zenon
  <2>4. Times(it) \in Nat /\ Times(it) = it.count
    BY <1>2, <2>1, Counts, RepeatCounts, Zenon
  <2>5. outer >= Times(it)
    <3>1. outer = Times(it)
      BY <1>1, <2>3, <2>4, Zenon
    <3> HIDE DEF it
    <3> QED
      BY <2>4, <3>1
  <2>6. ImportedAt(spec, "expand", item + 1, 0, 1, 0, chain)
    BY <2>1, <2>5, EndStep, Zenon
  <2>7. ExportsUpTo(spec, item + 1, more)
    BY <1>2, <2>1, RepeatExports, Zenon
  <2>8. exports' = more
    BY <1>1, <2>3, Zenon
  <2> HIDE DEF more
  <2> QED
    BY <1>1, <2>2, <2>6, <2>7, <2>8, Zenon
<1> QED
  BY <1>1, <1>2, ImportKept

(* An imported manifest never fails to expand. *)
LEMMA FailExpansionImports == ImportInv /\ FailExpansion => ~IsImported
<1> SUFFICES ASSUME ImportInv, FailExpansion, IsImported PROVE FALSE
  OBVIOUS
<1>1. /\ ManifestIs(spec) /\ ImportedAt(spec, phase, item, outer, part, inner, chain)
      /\ ExportsUpTo(spec, item, exports)
  BY Zenon DEF ImportInv
<1>2. IsRun(spec)
  BY <1>1, Zenon DEF ImportedAt
<1> DEFINE it == Items(spec)[item]
<1>3. AtItem(TRUE)
  BY DEF FailExpansion, InPart
<1>4. /\ item \in 1 .. Len(Items(spec)) /\ it.repeat = TRUE
      /\ ImportedAt(spec, "expand", item, outer, part, inner, chain)
  BY <1>1, <1>3, AtItemIs
<1>5. Item = it /\ Part = it.stages[part] /\ Indexes = IndexesAt(it, outer, part, inner)
  BY <1>1, ItemIs, Zenon
<1>6. CASE InPart /\ ~CanExpand(Part, Indexes)
  <2>1. outer < Item.count /\ part <= Len(Item.stages) /\ inner < Part.count
    BY <1>6 DEF InPart
  <2>2. /\ outer \in 0 .. (Times(it) - 1) /\ part \in 1 .. Parts(it)
        /\ inner \in 0 .. Size(it, part) /\ Part.count = Size(it, part)
    BY <1>1, <1>3, <2>1, InPartIs, Zenon
  <2>3. inner \in 0 .. (Size(it, part) - 1)
    <3>1. Size(it, part) \in Nat
      BY <1>2, <1>4, <2>2, Counts, Zenon
    <3> HIDE DEF it
    <3> QED
      BY <2>1, <2>2, <3>1
  <2>4. CanExpand(it.stages[part], IndexesAt(it, outer, part, inner))
    BY <1>1, <1>4, <2>2, <2>3, RepeatStep, Zenon
  <2> QED
    BY <1>5, <1>6, <2>4, Zenon
<1>7. CASE ~CanExport(Item)
  <2>1. CanExport(it)
    BY <1>1, <1>2, <1>4, RepeatExports, Zenon
  <2> QED
    BY <1>5, <1>7, <2>1, Zenon
<1> QED
  BY <1>6, <1>7 DEF FailExpansion

LEMMA ResolveExportsImports == ImportInv /\ ResolveExports => ImportInv'
<1> SUFFICES ASSUME ImportInv, ResolveExports PROVE ImportInv'
  OBVIOUS
<1>1. /\ phase = "expand" /\ item > Len(manifest.items) /\ phase' = "expanded"
      /\ chain' = [i \in DOMAIN chain |-> ResolvedStage(chain[i])]
      /\ spec' = spec /\ manifest' = manifest /\ exports' = exports
      /\ item' = item /\ outer' = outer /\ part' = part /\ inner' = inner
  BY DEF ResolveExports, ResolvedStage, loopVars
<1>2. ASSUME IsImported, ManifestIs(spec), IsRun(spec),
             ImportedAt(spec, phase, item, outer, part, inner, chain), ExportsUpTo(spec, item, exports)
      PROVE  /\ ImportedAt(spec, phase', item', outer', part', inner', chain')
             /\ ExportsUpTo(spec, item', exports')
  <2> DEFINE N == spec.shape.layers
             resolved == [i \in DOMAIN chain |-> ResolvedStage(chain[i])]
  <2>1. ImportedAt(spec, "expand", item, outer, part, inner, chain)
    BY <1>1, <1>2, Zenon
  <2>2. item > Len(Items(spec))
    BY <1>1, <1>2, ItemIs, Zenon
  <2>3. item \in 1 .. (Len(Items(spec)) + 1) /\ Len(Items(spec)) \in Nat
    BY <1>2, <2>1, ItemCount, Zenon DEF ImportedAt, IsCursor
  <2>4. item = Len(Items(spec)) + 1
    BY <2>2, <2>3
  <2>5. N \in Nat /\ Len(Items(spec)) = 8 + N + N
    <3>1. N \in Nat
      BY <1>2, BoundDonors DEF IsRun
    <3>2. Len(Items(spec)) = 8 + N + N
      BY <1>2, ShapesAre, Zenon
    <3> QED
      BY <3>1, <3>2
  <2> HIDE DEF N
  <2>6. 7 + N + N < item
    BY <2>4, <2>5
  <2>7. ExportsAre(spec)
    BY <1>2, <2>6, Zenon DEF ExportsUpTo, ExportsAre, N
  <2>8. ImportedAt(spec, "expanded", item, outer, part, inner, resolved)
    BY <2>1, <2>4, <2>7, ResolveStep, Zenon
  <2>9. chain' = resolved
    BY <1>1, Zenon
  <2> HIDE DEF resolved
  <2> QED
    BY <1>1, <1>2, <2>8, <2>9, Zenon
<1> QED
  BY <1>1, <1>2, ImportKept

LEMMA ImportStays ==
  ASSUME ImportInv, UNCHANGED expansionVars
  PROVE  ImportInv'
<1>1. /\ spec' = spec /\ manifest' = manifest /\ phase' = phase /\ exports' = exports /\ chain' = chain
      /\ item' = item /\ outer' = outer /\ part' = part /\ inner' = inner
  BY DEF expansionVars, loopVars
<1>2. ASSUME ImportedAt(spec, phase, item, outer, part, inner, chain), ExportsUpTo(spec, item, exports)
      PROVE  /\ ImportedAt(spec, phase', item', outer', part', inner', chain')
             /\ ExportsUpTo(spec, item', exports')
  BY <1>1, <1>2, Zenon
<1> QED
  BY <1>1, <1>2, ImportKept

LEMMA InitImports == Init /\ (IsImported => DonorsBound(spec.shape)) => ImportInv
<1> SUFFICES ASSUME Init, IsImported, DonorsBound(spec.shape)
             PROVE  /\ ManifestIs(spec) /\ ImportedAt(spec, phase, item, outer, part, inner, chain)
                    /\ ExportsUpTo(spec, item, exports)
  BY Zenon DEF ImportInv
<1>1. InitExpansion
  BY DEF Init, InitDirect
<1>2. /\ spec \in Runs /\ ManifestIs(spec) /\ phase = "expand" /\ item = 1 /\ outer = 0 /\ part = 1 /\ inner = 0
      /\ DOMAIN exports = {} /\ chain = <<>>
  BY <1>1 DEF InitExpansion, IsImported, ManifestIs
<1>3. IsRun(spec)
  <2>1. spec.shape \in Shapes /\ spec.tokens \in Tokens /\ spec.batches \in Batches
    BY <1>2 DEF Runs
  <2>2. IsShape(spec.shape) /\ spec.tokens \in Nat /\ spec.batches \in Nat
    BY <2>1, ExpansionAssumption
  <2> QED
    BY <2>2, Zenon DEF IsRun
<1>4. ExportsUpTo(spec, 1, exports)
  <2>1. spec.shape.layers \in Nat
    BY <1>3, BoundDonors DEF IsRun
  <2>2. ~(2 < 1) /\ ~(7 + spec.shape.layers + spec.shape.layers < 1)
    BY <2>1
  <2> QED
    BY <1>2, <2>2, Zenon DEF ExportsUpTo
<1>5. IsCursor(spec, 1, 0, 1, 0)
  <2>1. 1 \in 1 .. (Len(Items(spec)) + 1)
    BY <1>3, ItemCount
  <2> QED
    BY <1>3, <2>1, StartIsCursor, Zenon
<1>6. Listed(spec, <<1, 0, 1, 0>>, Keys, <<>>)
  <2>1. IsSequence(<<>>) /\ Len(<<>>) = 0 /\ 1 .. 0 = {}
    BY EmptySeq DEF IsSequence
  <2>2. ASSUME NEW name, IsName(spec, name), Less(Place(spec, name), <<1, 0, 1, 0>>) PROVE FALSE
    <3> DEFINE q == Place(spec, name)
    <3>1. IsPlace(spec, q)
      BY <2>2, NameIsPlace, Zenon
    <3>2. q[1] \in Int /\ q[2] \in Int /\ q[3] \in Int /\ q[4] \in Int
      BY <3>1, PlaceParts, Zenon
    <3>3. Less(q, <<1, 0, 1, 0>>)
      BY <2>2
    <3> HIDE DEF q
    <3>4. q[1] >= 1 /\ q[2] >= 0 /\ q[3] >= 1 /\ q[4] >= 0
      BY <3>1, <3>2 DEF IsPlace
    <3> QED
      BY <3>2, <3>3, <3>4 DEF Less
  <2> QED
    BY <2>1, <2>2, Zenon DEF Listed
<1>7. ImportedAt(spec, "expand", 1, 0, 1, 0, <<>>)
  BY <1>3, <1>5, <1>6, ImportedFrom, Zenon
<1> QED
  BY <1>2, <1>4, <1>7, Zenon

LEMMA NextImports == ImportInv /\ [Next]_vars => ImportInv'
<1> SUFFICES ASSUME ImportInv, [Next]_vars PROVE ImportInv'
  OBVIOUS
<1>1. CASE NextExpansion
  <2>1. CASE PushStage
    BY <2>1, PushStageImports
  <2>2. CASE PushRepeated
    BY <2>2, PushRepeatedImports
  <2>3. CASE NextPart
    BY <2>3, NextPartImports
  <2>4. CASE NextIteration
    BY <2>4, NextIterationImports
  <2>5. CASE EndRepeat
    BY <2>5, EndRepeatImports
  <2>6. CASE FailExpansion
    <3>1. ~IsImported /\ spec' = spec
      BY <2>6, FailExpansionImports DEF FailExpansion
    <3> QED
      BY <3>1 DEF ImportInv, IsImported
  <2>7. CASE ResolveExports
    BY <2>7, ResolveExportsImports
  <2> QED
    BY <1>1, <2>1, <2>2, <2>3, <2>4, <2>5, <2>6, <2>7 DEF NextExpansion
<1>2. CASE NextInfer /\ UNCHANGED <<directVars, gateVars>>
  <2>1. UNCHANGED expansionVars
    BY <1>2 DEF NextInfer
  <2> QED
    BY <2>1, ImportStays
<1>3. CASE NextDirect
  <2>1. UNCHANGED expansionVars
    BY <1>3 DEF NextDirect, Start, Prompt, Embed, Aux, RangeStage, Finalize, DecodeInit, Select, EmbedToken,
                Output, Finish, At
  <2> QED
    BY <2>1, ImportStays
<1>4. CASE Judge
  <2>1. UNCHANGED expansionVars
    BY <1>4 DEF Judge
  <2> QED
    BY <2>1, ImportStays
<1>5. CASE UNCHANGED vars
  <2>1. UNCHANGED expansionVars
    BY <1>5 DEF vars
  <2> QED
    BY <2>1, ImportStays
<1> QED
  BY <1>1, <1>2, <1>3, <1>4, <1>5 DEF Next

LEMMA ImportIsInvariant == Spec /\ (IsImported => DonorsBound(spec.shape)) => []ImportInv
<1> QED
  BY InitImports, NextImports, PTL DEF Spec

(* A manifest that the importer wrote can be expanded, and the runner can  *)
(* execute the chain (expand_chain_table, run_aux_wave), for any number of *)
(* layers, tokens and merge batches, if the layers that share a cache have *)
(* two donors.                                                             *)
THEOREM ImportedChainsRun == Spec /\ (IsImported => DonorsBound(spec.shape)) => []ChainIsRunnable
<1>1. ImportInv => ChainIsRunnable
  <2> SUFFICES ASSUME ImportInv, IsImported
               PROVE  /\ phase /= "failed"
                      /\ phase = "expanded" =>
                           /\ \A i, j \in DOMAIN chain : chain[i].name = chain[j].name => i = j
                           /\ \A i \in DOMAIN chain : ReadsEarlier(i)
                           /\ \A i, j \in DOMAIN chain : i < j => WaveReadsBefore(i, j)
                           /\ chain # <<>> /\ chain[Len(chain)].name = Single("output_finalize")
    BY Zenon DEF ChainIsRunnable
  <2>1. ImportedAt(spec, phase, item, outer, part, inner, chain)
    BY Zenon DEF ImportInv
  <2>2. IsRun(spec) /\ phase \in {"expand", "expanded"}
    BY <2>1, Zenon DEF ImportedAt
  <2>3. phase # "failed"
    BY <2>2
  <2>4. ASSUME phase = "expanded" PROVE CanRun(chain) /\ DOMAIN chain = 1 .. Len(chain)
    <3>1. item = Len(Items(spec)) + 1 /\ IsCursor(spec, item, outer, part, inner)
      BY <2>1, <2>4, Zenon DEF ImportedAt
    <3>2. Len(Items(spec)) = 8 + spec.shape.layers + spec.shape.layers /\ spec.shape.layers \in Nat
      <4>1. Len(Items(spec)) = 8 + spec.shape.layers + spec.shape.layers
        BY <2>2, ShapesAre, Zenon
      <4>2. spec.shape.layers \in Nat
        BY <2>2, BoundDonors DEF IsRun
      <4> QED
        BY <4>1, <4>2
    <3>3. item = 9 + spec.shape.layers + spec.shape.layers /\ ~(item <= Len(Items(spec)))
      BY <3>1, <3>2
    <3>4. outer = 0 /\ part = 1 /\ inner = 0
      BY <3>1, <3>3, Zenon DEF IsCursor
    <3>5. <<item, outer, part, inner>> = EndPlace(spec)
      BY <3>3, <3>4, Zenon DEF EndPlace
    <3>6. Listed(spec, <<item, outer, part, inner>>, KeysOf(spec, phase), chain)
      BY <2>1, Zenon DEF ImportedAt
    <3>7. KeysOf(spec, phase) = Behind(spec)
      BY <2>4, Zenon DEF KeysOf
    <3>8. Listed(spec, EndPlace(spec), Behind(spec), chain)
      BY <3>5, <3>6, <3>7, Zenon
    <3>9. IsSequence(chain)
      BY <3>8, Zenon DEF Listed
    <3> QED
      BY <2>2, <3>8, <3>9, ListedRuns, SequenceFacts, Zenon
  <2> QED
    BY <2>3, <2>4, Zenon DEF CanRun, ReadsEarlier, WaveReadsBefore
<1> QED
  BY <1>1, ImportIsInvariant, PTL
=============================================================================

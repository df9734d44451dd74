--------------------------- MODULE InferRunProofs ---------------------------
(***************************************************************************)
(* Proofs about InferRun, second part: the direct runtime reads what the   *)
(* stages of an imported chain read, and an uncheckpointed run of such a   *)
(* chain fails only where one of its stages does, for models with any      *)
(* number of layers and for any number of tokens and merge batches; and    *)
(* the verdict of the parity gate is exact for its four-layer model.       *)
(***************************************************************************)
EXTENDS ChainExpansionProofs

-----------------------------------------------------------------------------
(* An expanded chain: every stage of the run once, with its wiring.         *)

Complete(r, ch) ==
  /\ \A i, j \in DOMAIN ch : ch[i].name = ch[j].name => i = j
  /\ \A i \in DOMAIN ch : IsName(r, ch[i].name) /\ ch[i] = StageOf(r, ch[i].name, Behind(r))
  /\ \A name : IsName(r, name) => \E i \in DOMAIN ch : ch[i].name = name

LEMMA AllBeforeTheEnd ==
  ASSUME NEW r, IsRun(r), NEW name, IsName(r, name)
  PROVE  Less(Place(r, name), EndPlace(r))
<1> DEFINE q == Place(r, name)
           N == r.shape.layers
<1>1. IsPlace(r, q) /\ Len(Items(r)) = 8 + N + N /\ N \in Nat
  <2>1. IsPlace(r, q)
    BY NameIsPlace, Zenon
  <2>2. Len(Items(r)) = 8 + N + N
    BY ShapesAre, Zenon
  <2>3. N \in Nat
    BY BoundDonors DEF IsRun
  <2> QED
    BY <2>1, <2>2, <2>3
<1>2. EndPlace(r)[1] = 9 + N + N
  BY DEF EndPlace
<1> HIDE DEF q, N
<1>3. q[1] \in 1 .. (8 + N + N)
  BY <1>1, Zenon DEF IsPlace
<1>4. q[1] < EndPlace(r)[1]
  BY <1>1, <1>2, <1>3
<1> QED
  BY <1>4, Zenon DEF Less, q

LEMMA ListedIsComplete ==
  ASSUME NEW r, IsRun(r), NEW ch, Listed(r, EndPlace(r), Behind(r), ch)
  PROVE  Complete(r, ch)
<1>1. /\ IsSequence(ch)
      /\ \A i \in 1 .. Len(ch) : IsName(r, ch[i].name) /\ ch[i] = StageOf(r, ch[i].name, Behind(r))
      /\ \A name : IsName(r, name) /\ Less(Place(r, name), EndPlace(r)) => \E i \in 1 .. Len(ch) : ch[i].name = name
  BY Zenon DEF Listed
<1>2. DOMAIN ch = 1 .. Len(ch)
  BY <1>1, SequenceFacts
<1>3. \A i, j \in 1 .. Len(ch) : ch[i].name = ch[j].name => i = j
  BY ListedRuns, Zenon DEF CanRun
<1> QED
  BY <1>1, <1>2, <1>3, AllBeforeTheEnd, Zenon DEF Complete

LEMMA AtTheEnd ==
  ASSUME ImportInv, IsImported, phase = "expanded"
  PROVE  IsRun(spec) /\ Listed(spec, EndPlace(spec), Behind(spec), chain)
<1>1. ImportedAt(spec, phase, item, outer, part, inner, chain)
  BY Zenon DEF ImportInv
<1>2. IsRun(spec)
  BY <1>1, Zenon DEF ImportedAt
<1>3. item = Len(Items(spec)) + 1 /\ IsCursor(spec, item, outer, part, inner)
  BY <1>1, Zenon DEF ImportedAt
<1>4. Len(Items(spec)) = 8 + spec.shape.layers + spec.shape.layers /\ spec.shape.layers \in Nat
  <2>1. Len(Items(spec)) = 8 + spec.shape.layers + spec.shape.layers
    BY <1>2, ShapesAre, Zenon
  <2>2. spec.shape.layers \in Nat
    BY <1>2, BoundDonors DEF IsRun
  <2> QED
    BY <2>1, <2>2
<1>5. item = 9 + spec.shape.layers + spec.shape.layers /\ ~(item <= Len(Items(spec)))
  BY <1>3, <1>4
<1>6. outer = 0 /\ part = 1 /\ inner = 0
  BY <1>3, <1>5, Zenon DEF IsCursor
<1>7. <<item, outer, part, inner>> = EndPlace(spec)
  BY <1>5, <1>6, Zenon DEF EndPlace
<1>8. Listed(spec, <<item, outer, part, inner>>, KeysOf(spec, phase), chain)
  BY <1>1, Zenon DEF ImportedAt
<1>9. KeysOf(spec, phase) = Behind(spec)
  BY Zenon DEF KeysOf
<1> QED
  BY <1>2, <1>7, <1>8, <1>9, Zenon

(* What the stages of a chain make use of, and where it comes from. *)
ReadsOf(r, name, keys) ==
  [p \in Used(r.shape, name, DOMAIN Wiring(r, name, keys)) |-> Wiring(r, name, keys)[p].name]

LEMMA ChainReadsAre ==
  ASSUME ImportInv, IsImported, phase = "expanded"
  PROVE  /\ IsRun(spec)
         /\ \A name : name \in StageNames <=> IsName(spec, name)
         /\ \A name \in StageNames : /\ StageNamed(name).inputs = Wiring(spec, name, Behind(spec))
                                     /\ ChainReads(name) = ReadsOf(spec, name, Behind(spec))
<1>1. IsRun(spec) /\ Complete(spec, chain)
  BY AtTheEnd, ListedIsComplete, Zenon
<1>2. ASSUME NEW name PROVE name \in StageNames <=> IsName(spec, name)
  <2>1. name \in StageNames <=> \E i \in DOMAIN chain : chain[i].name = name
    BY DEF StageNames
  <2> QED
    BY <1>1, <2>1, Zenon DEF Complete
<1>3. ASSUME NEW name \in StageNames
      PROVE  /\ StageNamed(name).inputs = Wiring(spec, name, Behind(spec))
             /\ ChainReads(name) = ReadsOf(spec, name, Behind(spec))
  <2>1. IndexOf(name) \in DOMAIN chain /\ chain[IndexOf(name)].name = name
    BY DEF StageNames, IndexOf
  <2>2. StageNamed(name) = StageOf(spec, name, Behind(spec))
    BY <1>1, <2>1, Zenon DEF Complete, StageNamed
  <2>3. StageNamed(name).inputs = Wiring(spec, name, Behind(spec))
    BY <2>2 DEF StageOf, StageWith
  <2> QED
    BY <2>3, Zenon DEF ChainReads, ReadsOf, Shape
<1> QED
  BY <1>1, <1>2, <1>3, Zenon

-----------------------------------------------------------------------------
(* The boundaries of the direct runtime, each with its turn: the pass, the *)
(* place in it, and which of a layer's two stages it is.                    *)

IsBoundary(s, n, x) ==
  \/ x = Single("prompt_prepare") \/ x = Single("input_embedding") \/ x = Single("prefill_finalize")
  \/ x = Single("decode_init") \/ x = Single("output_finalize")
  \/ \E l \in 0 .. (s.layers - 1) : x = Name("prefill_prepare_aux", 0, l) \/ x = Name("prefill_range", 0, l)
  \/ \E t \in 0 .. (n - 1) : x = Name("decode_select", t, 0)
  \/ \E t \in 0 .. (n - 2) :
       \/ x = Name("decode_embed", t, 0) \/ x = Name("decode_finalize", t, 0)
       \/ \E l \in 0 .. (s.layers - 1) : x = Name("decode_aux", t, l) \/ x = Name("decode_range", t, l)

LEMMA LayerNamesAre ==
  ASSUME NEW s, NEW x
  PROVE  \A p : x \in LayerNames(s, p) <=> \E l \in 0 .. (s.layers - 1) : x = AuxName(p, l) \/ x = RangeName(p, l)
<1> QED
  BY DEF LayerNames, Layers

LEMMA PrefillLayersAre ==
  ASSUME NEW s, NEW x
  PROVE  x \in LayerNames(s, -1) <=>
           \E l \in 0 .. (s.layers - 1) : x = Name("prefill_prepare_aux", 0, l) \/ x = Name("prefill_range", 0, l)
<1>1. \A l : AuxName(-1, l) = Name("prefill_prepare_aux", 0, l) /\ RangeName(-1, l) = Name("prefill_range", 0, l)
  BY PassNamesAre
<1>2. x \in LayerNames(s, -1) <=> \E l \in 0 .. (s.layers - 1) : x = AuxName(-1, l) \/ x = RangeName(-1, l)
  BY LayerNamesAre
<1> QED
  BY <1>1, <1>2

LEMMA DecodePassIs ==
  ASSUME NEW s, NEW x, NEW t \in Nat
  PROVE  x \in DecodePassNames(s, t) <=>
           \/ x = Name("decode_embed", t, 0) \/ x = Name("decode_finalize", t, 0)
           \/ \E l \in 0 .. (s.layers - 1) : x = Name("decode_aux", t, l) \/ x = Name("decode_range", t, l)
<1>1. /\ FinalizeName(t) = Name("decode_finalize", t, 0)
      /\ \A l : AuxName(t, l) = Name("decode_aux", t, l) /\ RangeName(t, l) = Name("decode_range", t, l)
  BY PassNamesAre, Zenon
<1>2. x \in DecodePassNames(s, t) <=> x = EmbedName(t) \/ x = FinalizeName(t) \/ x \in LayerNames(s, t)
  BY Zenon DEF DecodePassNames
<1>3. x \in LayerNames(s, t) <=>
        \E l \in 0 .. (s.layers - 1) : x = Name("decode_aux", t, l) \/ x = Name("decode_range", t, l)
  <2>1. x \in LayerNames(s, t) <=> \E l \in 0 .. (s.layers - 1) : x = AuxName(t, l) \/ x = RangeName(t, l)
    BY LayerNamesAre
  <2> QED
    BY <1>1, <2>1
<1> QED
  BY <1>1, <1>2, <1>3, Zenon DEF EmbedName

LEMMA BoundariesAre ==
  ASSUME NEW s, NEW n \in Nat, NEW x
  PROVE  x \in BoundaryNames(s, n) <=> IsBoundary(s, n, x)
<1> DEFINE Fixed == {Single("prompt_prepare"), Embedding, FinalizeName(-1), Single("decode_init"),
                     Single("output_finalize")}
           Selects == {SelectName(t) : t \in 0 .. (n - 1)}
           Passes == UNION {DecodePassNames(s, t) : t \in 0 .. (n - 2)}
<1>1. x \in Fixed <=>
        \/ x = Single("prompt_prepare") \/ x = Single("input_embedding") \/ x = Single("prefill_finalize")
        \/ x = Single("decode_init") \/ x = Single("output_finalize")
  <2>1. FinalizeName(-1) = Single("prefill_finalize")
    BY PassNamesAre
  <2> QED
    BY <2>1, Zenon DEF Embedding
<1>2. x \in Selects <=> \E t \in 0 .. (n - 1) : x = Name("decode_select", t, 0)
  BY DEF SelectName
<1>3. x \in Passes <=> \E t \in 0 .. (n - 2) : x \in DecodePassNames(s, t)
  BY Zenon
<1>4. \A t \in 0 .. (n - 2) : x \in DecodePassNames(s, t) <=>
        \/ x = Name("decode_embed", t, 0) \/ x = Name("decode_finalize", t, 0)
        \/ \E l \in 0 .. (s.layers - 1) : x = Name("decode_aux", t, l) \/ x = Name("decode_range", t, l)
  <2> SUFFICES ASSUME NEW t \in 0 .. (n - 2)
               PROVE  x \in DecodePassNames(s, t) <=>
                        \/ x = Name("decode_embed", t, 0) \/ x = Name("decode_finalize", t, 0)
                        \/ \E l \in 0 .. (s.layers - 1) : x = Name("decode_aux", t, l) \/ x = Name("decode_range", t, l)
    BY Zenon
  <2>1. t \in Nat
    OBVIOUS
  <2> QED
    BY <2>1, DecodePassIs
<1>5. BoundaryNames(s, n) = Fixed \cup LayerNames(s, -1) \cup Selects \cup Passes
  BY Zenon DEF BoundaryNames
<1>6. x \in LayerNames(s, -1) <=>
        \E l \in 0 .. (s.layers - 1) : x = Name("prefill_prepare_aux", 0, l) \/ x = Name("prefill_range", 0, l)
  BY PrefillLayersAre
<1> HIDE DEF Fixed, Selects, Passes
<1> QED
  BY <1>1, <1>2, <1>3, <1>4, <1>5, <1>6, Zenon DEF IsBoundary

Turn(s, n, x) ==
  LET k == x[1]
      t == x[2]
      l == x[3]
  IN  CASE k = "prompt_prepare" -> <<-2, 0, 0>>
        [] k = "input_embedding" -> <<-1, 0, 0>>
        [] k = "prefill_prepare_aux" -> <<-1, l + 1, 0>>
        [] k = "prefill_range" -> <<-1, l + 1, 1>>
        [] k = "prefill_finalize" -> <<-1, s.layers + 1, 0>>
        [] k = "decode_init" -> <<-1, s.layers + 2, 0>>
        [] k = "decode_select" -> <<t, -1, 0>>
        [] k = "decode_embed" -> <<t, 0, 0>>
        [] k = "decode_aux" -> <<t, l + 1, 0>>
        [] k = "decode_range" -> <<t, l + 1, 1>>
        [] k = "decode_finalize" -> <<t, s.layers + 1, 0>>
        [] OTHER -> <<n, 0, 0>>

(* The boundary whose turn it is. *)
BoundaryAt(s, n, q) ==
  CASE q[1] = -2 -> Single("prompt_prepare")
    [] q[1] = -1 /\ q[2] = 0 -> Single("input_embedding")
    [] q[1] = -1 /\ 1 <= q[2] /\ q[2] <= s.layers /\ q[3] = 0 -> Name("prefill_prepare_aux", 0, q[2] - 1)
    [] q[1] = -1 /\ 1 <= q[2] /\ q[2] <= s.layers /\ q[3] = 1 -> Name("prefill_range", 0, q[2] - 1)
    [] q[1] = -1 /\ q[2] = s.layers + 1 -> Single("prefill_finalize")
    [] q[1] = -1 /\ q[2] = s.layers + 2 -> Single("decode_init")
    [] q[1] = n -> Single("output_finalize")
    [] 0 <= q[1] /\ q[1] < n /\ q[2] = -1 -> Name("decode_select", q[1], 0)
    [] 0 <= q[1] /\ q[1] < n /\ q[2] = 0 -> Name("decode_embed", q[1], 0)
    [] 0 <= q[1] /\ q[1] < n /\ 1 <= q[2] /\ q[2] <= s.layers /\ q[3] = 0 -> Name("decode_aux", q[1], q[2] - 1)
    [] 0 <= q[1] /\ q[1] < n /\ 1 <= q[2] /\ q[2] <= s.layers /\ q[3] = 1 -> Name("decode_range", q[1], q[2] - 1)
    [] OTHER -> Name("decode_finalize", q[1], 0)

IsTurn(s, n, q) ==
  \/ q[1] = -2 /\ q[2] = 0 /\ q[3] = 0
  \/ q[1] = -1 /\ q[2] \in 0 .. (s.layers + 2) /\ (q[3] = 0 \/ (q[3] = 1 /\ q[2] \in 1 .. s.layers))
  \/ /\ q[1] \in 0 .. (n - 1) /\ q[2] \in -1 .. (s.layers + 1)
     /\ q[3] = 0 \/ (q[3] = 1 /\ q[2] \in 1 .. s.layers)
     /\ q[1] = n - 1 => q[2] = -1
  \/ q[1] = n /\ q[2] = 0 /\ q[3] = 0

TurnOf(s, n, x, q) == Turn(s, n, x) = q /\ IsTurn(s, n, q) /\ BoundaryAt(s, n, q) = x

LEMMA FixedTurns ==
  ASSUME NEW s, NEW n \in Nat, s.layers \in Nat
  PROVE  /\ TurnOf(s, n, Single("prompt_prepare"), <<-2, 0, 0>>)
         /\ TurnOf(s, n, Single("input_embedding"), <<-1, 0, 0>>)
         /\ TurnOf(s, n, Single("prefill_finalize"), <<-1, s.layers + 1, 0>>)
         /\ TurnOf(s, n, Single("decode_init"), <<-1, s.layers + 2, 0>>)
         /\ TurnOf(s, n, Single("output_finalize"), <<n, 0, 0>>)
<1> DEFINE N == s.layers
<1>0. N \in Nat
  OBVIOUS
<1>1. TurnOf(s, n, Single("prompt_prepare"), <<-2, 0, 0>>)
  <2>1. Turn(s, n, Single("prompt_prepare")) = <<-2, 0, 0>>
    BY NameParts DEF Turn, Single
  <2>2. IsTurn(s, n, <<-2, 0, 0>>)
    BY DEF IsTurn
  <2>3. BoundaryAt(s, n, <<-2, 0, 0>>) = Single("prompt_prepare")
    BY DEF BoundaryAt
  <2> QED
    BY <2>1, <2>2, <2>3, Zenon DEF TurnOf
<1>2. TurnOf(s, n, Single("input_embedding"), <<-1, 0, 0>>)
  <2>1. Turn(s, n, Single("input_embedding")) = <<-1, 0, 0>>
    BY NameParts DEF Turn, Single
  <2>2. IsTurn(s, n, <<-1, 0, 0>>)
    BY DEF IsTurn
  <2>3. BoundaryAt(s, n, <<-1, 0, 0>>) = Single("input_embedding")
    BY DEF BoundaryAt
  <2> QED
    BY <2>1, <2>2, <2>3, Zenon DEF TurnOf
<1>3. TurnOf(s, n, Single("prefill_finalize"), <<-1, s.layers + 1, 0>>)
  <2>1. Turn(s, n, Single("prefill_finalize")) = <<-1, s.layers + 1, 0>>
    BY NameParts DEF Turn, Single
  <2>2. IsTurn(s, n, <<-1, s.layers + 1, 0>>)
    BY DEF IsTurn
  <2>3. BoundaryAt(s, n, <<-1, s.layers + 1, 0>>) = Single("prefill_finalize")
    BY DEF BoundaryAt
  <2> QED
    BY <2>1, <2>2, <2>3, Zenon DEF TurnOf
<1>4. TurnOf(s, n, Single("decode_init"), <<-1, s.layers + 2, 0>>)
  <2>1. Turn(s, n, Single("decode_init")) = <<-1, s.layers + 2, 0>>
    BY NameParts DEF Turn, Single
  <2>2. IsTurn(s, n, <<-1, s.layers + 2, 0>>)
    BY DEF IsTurn
  <2>3. BoundaryAt(s, n, <<-1, s.layers + 2, 0>>) = Single("decode_init")
    BY DEF BoundaryAt
  <2> QED
    BY <2>1, <2>2, <2>3, Zenon DEF TurnOf
<1>5. TurnOf(s, n, Single("output_finalize"), <<n, 0, 0>>)
  <2>1. Turn(s, n, Single("output_finalize")) = <<n, 0, 0>>
    BY NameParts DEF Turn, Single
  <2>2. IsTurn(s, n, <<n, 0, 0>>)
    BY DEF IsTurn
  <2>3. BoundaryAt(s, n, <<n, 0, 0>>) = Single("output_finalize")
    BY DEF BoundaryAt
  <2> QED
    BY <2>1, <2>2, <2>3, Zenon DEF TurnOf
<1> QED
  BY <1>1, <1>2, <1>3, <1>4, <1>5

LEMMA PrefillTurns ==
  ASSUME NEW s, NEW n \in Nat, s.layers \in Nat, NEW l \in 0 .. (s.layers - 1)
  PROVE  /\ TurnOf(s, n, Name("prefill_prepare_aux", 0, l), <<-1, l + 1, 0>>)
         /\ TurnOf(s, n, Name("prefill_range", 0, l), <<-1, l + 1, 1>>)
<1>1. TurnOf(s, n, Name("prefill_prepare_aux", 0, l), <<-1, l + 1, 0>>)
  <2>1. Turn(s, n, Name("prefill_prepare_aux", 0, l)) = <<-1, l + 1, 0>>
    BY NameParts DEF Turn
  <2>2. IsTurn(s, n, <<-1, l + 1, 0>>)
    BY DEF IsTurn
  <2>3. BoundaryAt(s, n, <<-1, l + 1, 0>>) = Name("prefill_prepare_aux", 0, l)
    <3>1. BoundaryAt(s, n, <<-1, l + 1, 0>>) = Name("prefill_prepare_aux", 0, (l + 1) - 1)
      BY DEF BoundaryAt
    <3> QED
      BY <3>1
  <2> QED
    BY <2>1, <2>2, <2>3, Zenon DEF TurnOf
<1>2. TurnOf(s, n, Name("prefill_range", 0, l), <<-1, l + 1, 1>>)
  <2>1. Turn(s, n, Name("prefill_range", 0, l)) = <<-1, l + 1, 1>>
    BY NameParts DEF Turn
  <2>2. IsTurn(s, n, <<-1, l + 1, 1>>)
    BY DEF IsTurn
  <2>3. BoundaryAt(s, n, <<-1, l + 1, 1>>) = Name("prefill_range", 0, l)
    <3>1. BoundaryAt(s, n, <<-1, l + 1, 1>>) = Name("prefill_range", 0, (l + 1) - 1)
      BY DEF BoundaryAt
    <3> QED
      BY <3>1
  <2> QED
    BY <2>1, <2>2, <2>3, Zenon DEF TurnOf
<1> QED
  BY <1>1, <1>2

LEMMA SelectTurns ==
  ASSUME NEW s, NEW n \in Nat, s.layers \in Nat, NEW t \in 0 .. (n - 1)
  PROVE  /\ TurnOf(s, n, Name("decode_select", t, 0), <<t, -1, 0>>)
<1>1. TurnOf(s, n, Name("decode_select", t, 0), <<t, -1, 0>>)
  <2>1. Turn(s, n, Name("decode_select", t, 0)) = <<t, -1, 0>>
    BY NameParts DEF Turn
  <2>2. IsTurn(s, n, <<t, -1, 0>>)
    BY DEF IsTurn
  <2>3. BoundaryAt(s, n, <<t, -1, 0>>) = Name("decode_select", t, 0)
    <3>1. BoundaryAt(s, n, <<t, -1, 0>>) = Name("decode_select", t, 0)
      BY DEF BoundaryAt
    <3> QED
      BY <3>1
  <2> QED
    BY <2>1, <2>2, <2>3, Zenon DEF TurnOf
<1> QED
  BY <1>1

LEMMA PassTurns ==
  ASSUME NEW s, NEW n \in Nat, s.layers \in Nat, NEW t \in 0 .. (n - 2)
  PROVE  /\ TurnOf(s, n, Name("decode_embed", t, 0), <<t, 0, 0>>)
         /\ TurnOf(s, n, Name("decode_finalize", t, 0), <<t, s.layers + 1, 0>>)
<1>1. TurnOf(s, n, Name("decode_embed", t, 0), <<t, 0, 0>>)
  <2>1. Turn(s, n, Name("decode_embed", t, 0)) = <<t, 0, 0>>
    BY NameParts DEF Turn
  <2>2. IsTurn(s, n, <<t, 0, 0>>)
    BY DEF IsTurn
  <2>3. BoundaryAt(s, n, <<t, 0, 0>>) = Name("decode_embed", t, 0)
    <3>1. BoundaryAt(s, n, <<t, 0, 0>>) = Name("decode_embed", t, 0)
      BY DEF BoundaryAt
    <3> QED
      BY <3>1
  <2> QED
    BY <2>1, <2>2, <2>3, Zenon DEF TurnOf
<1>2. TurnOf(s, n, Name("decode_finalize", t, 0), <<t, s.layers + 1, 0>>)
  <2>1. Turn(s, n, Name("decode_finalize", t, 0)) = <<t, s.layers + 1, 0>>
    BY NameParts DEF Turn
  <2>2. IsTurn(s, n, <<t, s.layers + 1, 0>>)
    BY DEF IsTurn
  <2>3. BoundaryAt(s, n, <<t, s.layers + 1, 0>>) = Name("decode_finalize", t, 0)
    <3>1. BoundaryAt(s, n, <<t, s.layers + 1, 0>>) = Name("decode_finalize", t, 0)
      BY DEF BoundaryAt
    <3> QED
      BY <3>1
  <2> QED
    BY <2>1, <2>2, <2>3, Zenon DEF TurnOf
<1> QED
  BY <1>1, <1>2

LEMMA DecodeTurns ==
  ASSUME NEW s, NEW n \in Nat, s.layers \in Nat, NEW t \in 0 .. (n - 2), NEW l \in 0 .. (s.layers - 1)
  PROVE  /\ TurnOf(s, n, Name("decode_aux", t, l), <<t, l + 1, 0>>)
         /\ TurnOf(s, n, Name("decode_range", t, l), <<t, l + 1, 1>>)
<1>1. TurnOf(s, n, Name("decode_aux", t, l), <<t, l + 1, 0>>)
  <2>1. Turn(s, n, Name("decode_aux", t, l)) = <<t, l + 1, 0>>
    BY NameParts DEF Turn
  <2>2. IsTurn(s, n, <<t, l + 1, 0>>)
    BY DEF IsTurn
  <2>3. BoundaryAt(s, n, <<t, l + 1, 0>>) = Name("decode_aux", t, l)
    <3>1. BoundaryAt(s, n, <<t, l + 1, 0>>) = Name("decode_aux", t, (l + 1) - 1)
      BY DEF BoundaryAt
    <3> QED
      BY <3>1
  <2> QED
    BY <2>1, <2>2, <2>3, Zenon DEF TurnOf
<1>2. TurnOf(s, n, Name("decode_range", t, l), <<t, l + 1, 1>>)
  <2>1. Turn(s, n, Name("decode_range", t, l)) = <<t, l + 1, 1>>
    BY NameParts DEF Turn
  <2>2. IsTurn(s, n, <<t, l + 1, 1>>)
    BY DEF IsTurn
  <2>3. BoundaryAt(s, n, <<t, l + 1, 1>>) = Name("decode_range", t, l)
    <3>1. BoundaryAt(s, n, <<t, l + 1, 1>>) = Name("decode_range", t, (l + 1) - 1)
      BY DEF BoundaryAt
    <3> QED
      BY <3>1
  <2> QED
    BY <2>1, <2>2, <2>3, Zenon DEF TurnOf
<1> QED
  BY <1>1, <1>2

LEMMA BoundaryTurns ==
  ASSUME NEW s, NEW n \in Nat, s.layers \in Nat, NEW x, IsBoundary(s, n, x)
  PROVE  TurnOf(s, n, x, Turn(s, n, x))
<1>1. ASSUME NEW q, TurnOf(s, n, x, q) PROVE TurnOf(s, n, x, Turn(s, n, x))
  BY <1>1, Zenon DEF TurnOf
<1>2. CASE \/ x = Single("prompt_prepare") \/ x = Single("input_embedding") \/ x = Single("prefill_finalize")
           \/ x = Single("decode_init") \/ x = Single("output_finalize")
  BY <1>1, <1>2, FixedTurns, Zenon
<1>3. CASE \E l \in 0 .. (s.layers - 1) : x = Name("prefill_prepare_aux", 0, l) \/ x = Name("prefill_range", 0, l)
  BY <1>1, <1>3, PrefillTurns, Zenon
<1>4. CASE \E t \in 0 .. (n - 1) : x = Name("decode_select", t, 0)
  BY <1>1, <1>4, SelectTurns, Zenon
<1>5. CASE \E t \in 0 .. (n - 2) : x = Name("decode_embed", t, 0) \/ x = Name("decode_finalize", t, 0)
  BY <1>1, <1>5, PassTurns, Zenon
<1>6. CASE \E t \in 0 .. (n - 2) : \E l \in 0 .. (s.layers - 1) : x = Name("decode_aux", t, l) \/ x = Name("decode_range", t, l)
  BY <1>1, <1>6, DecodeTurns, Zenon
<1> QED
  BY <1>2, <1>3, <1>4, <1>5, <1>6, Zenon DEF IsBoundary

Earlier(p, q) ==
  \/ p[1] < q[1]
  \/ p[1] = q[1] /\ p[2] < q[2]
  \/ p[1] = q[1] /\ p[2] = q[2] /\ p[3] < q[3]

(* No turn is between c and d. *)
Follow(s, n, c, d) ==
  \A q : IsTurn(s, n, q) =>
    (Earlier(q, d) <=> Earlier(q, c) \/ (q[1] = c[1] /\ q[2] = c[2] /\ q[3] = c[3]))

BoundariesBefore(s, n, d) == {x \in BoundaryNames(s, n) : Earlier(Turn(s, n, x), d)}

LEMMA TurnsFollow ==
  ASSUME NEW s, NEW n \in Nat, s.layers \in Nat, s.layers > 0
  PROVE  /\ Follow(s, n, <<-2, 0, 0>>, <<-1, 0, 0>>)
         /\ Follow(s, n, <<-1, 0, 0>>, <<-1, 1, 0>>)
         /\ \A t \in 0 .. (n - 2) : Follow(s, n, <<t, 0, 0>>, <<t, 1, 0>>)
         /\ Follow(s, n, <<-1, s.layers + 1, 0>>, <<-1, s.layers + 2, 0>>)
         /\ \A t \in 0 .. (n - 2) : Follow(s, n, <<t, s.layers + 1, 0>>, <<t + 1, -1, 0>>)
         /\ n > 0 => Follow(s, n, <<-1, s.layers + 2, 0>>, <<0, -1, 0>>)
         /\ n = 0 => Follow(s, n, <<-1, s.layers + 2, 0>>, <<n, 0, 0>>)
         /\ \A t \in 0 .. (n - 2) : Follow(s, n, <<t, -1, 0>>, <<t, 0, 0>>)
         /\ n > 0 => Follow(s, n, <<n - 1, -1, 0>>, <<n, 0, 0>>)
         /\ Follow(s, n, <<n, 0, 0>>, <<n, 1, 0>>)
<1> DEFINE N == s.layers
<1>0. N \in Nat /\ N > 0
  OBVIOUS
<1>1. Follow(s, n, <<-2, 0, 0>>, <<-1, 0, 0>>)
  BY DEF Follow, Earlier, IsTurn
<1>2. Follow(s, n, <<-1, 0, 0>>, <<-1, 1, 0>>)
  BY DEF Follow, Earlier, IsTurn
<1>3. ASSUME NEW t \in 0 .. (n - 2) PROVE Follow(s, n, <<t, 0, 0>>, <<t, 1, 0>>)
  BY DEF Follow, Earlier, IsTurn
<1>4. Follow(s, n, <<-1, s.layers + 1, 0>>, <<-1, s.layers + 2, 0>>)
  BY DEF Follow, Earlier, IsTurn
<1>5. ASSUME NEW t \in 0 .. (n - 2) PROVE Follow(s, n, <<t, s.layers + 1, 0>>, <<t + 1, -1, 0>>)
  BY DEF Follow, Earlier, IsTurn
<1>6. ASSUME n > 0 PROVE Follow(s, n, <<-1, s.layers + 2, 0>>, <<0, -1, 0>>)
  BY <1>6 DEF Follow, Earlier, IsTurn
<1>7. ASSUME n = 0 PROVE Follow(s, n, <<-1, s.layers + 2, 0>>, <<n, 0, 0>>)
  BY <1>7 DEF Follow, Earlier, IsTurn
<1>8. ASSUME NEW t \in 0 .. (n - 2) PROVE Follow(s, n, <<t, -1, 0>>, <<t, 0, 0>>)
  BY DEF Follow, Earlier, IsTurn
<1>9. ASSUME n > 0 PROVE Follow(s, n, <<n - 1, -1, 0>>, <<n, 0, 0>>)
  BY <1>9 DEF Follow, Earlier, IsTurn
<1>10. Follow(s, n, <<n, 0, 0>>, <<n, 1, 0>>)
  BY DEF Follow, Earlier, IsTurn
<1> QED
  BY <1>1, <1>2, <1>3, <1>4, <1>5, <1>6, <1>7, <1>8, <1>9, <1>10

LEMMA LayerTurnsFollow ==
  ASSUME NEW s, NEW n \in Nat, s.layers \in Nat, NEW p, p = -1 \/ p \in 0 .. (n - 2),
         NEW l \in 0 .. (s.layers - 1)
  PROVE  /\ Follow(s, n, <<p, l + 1, 0>>, <<p, l + 1, 1>>)
         /\ Follow(s, n, <<p, l + 1, 1>>, <<p, (l + 1) + 1, 0>>)
<1>1. Follow(s, n, <<p, l + 1, 0>>, <<p, l + 1, 1>>)
  BY DEF Follow, Earlier, IsTurn
<1>2. Follow(s, n, <<p, l + 1, 1>>, <<p, (l + 1) + 1, 0>>)
  BY DEF Follow, Earlier, IsTurn
<1> QED
  BY <1>1, <1>2

LEMMA RecordMoves ==
  ASSUME NEW s, NEW n \in Nat, s.layers \in Nat, NEW name, IsBoundary(s, n, name),
         NEW c, NEW d, TurnOf(s, n, name, c), Follow(s, n, c, d),
         ~Earlier(c, c)
  PROVE  /\ name \notin BoundariesBefore(s, n, c)
         /\ BoundariesBefore(s, n, d) = BoundariesBefore(s, n, c) \cup {name}
         /\ name \in BoundaryNames(s, n)
<1>1. name \in BoundaryNames(s, n) /\ Turn(s, n, name) = c
  BY BoundariesAre, Zenon DEF TurnOf
<1>2. name \notin BoundariesBefore(s, n, c)
  BY <1>1, Zenon DEF BoundariesBefore
<1>3. ASSUME NEW x \in BoundaryNames(s, n)
      PROVE  Earlier(Turn(s, n, x), d) <=> Earlier(Turn(s, n, x), c) \/ x = name
  <2> DEFINE q == Turn(s, n, x)
  <2>1. IsBoundary(s, n, x)
    BY BoundariesAre, Zenon
  <2>2. TurnOf(s, n, x, q)
    BY <2>1, BoundaryTurns, Zenon
  <2>3. IsTurn(s, n, q) /\ BoundaryAt(s, n, q) = x
    BY <2>2, Zenon DEF TurnOf
  <2>4. Earlier(q, d) <=> Earlier(q, c) \/ (q[1] = c[1] /\ q[2] = c[2] /\ q[3] = c[3])
    BY <2>3, Zenon DEF Follow
  <2>5. BoundaryAt(s, n, c) = name
    BY Zenon DEF TurnOf
  <2> HIDE DEF q
  <2>6. ASSUME q[1] = c[1], q[2] = c[2], q[3] = c[3] PROVE x = name
    <3>1. BoundaryAt(s, n, q) = BoundaryAt(s, n, c)
      BY <2>6, Zenon DEF BoundaryAt
    <3> QED
      BY <2>3, <2>5, <3>1, Zenon
  <2>7. ASSUME x = name PROVE q[1] = c[1] /\ q[2] = c[2] /\ q[3] = c[3]
    <3>1. q = c
      BY <1>1, <2>7, Zenon DEF q
    <3> QED
      BY <3>1, Zenon
  <2> QED
    BY <2>4, <2>6, <2>7, Zenon DEF q
<1>4. BoundariesBefore(s, n, d) = BoundariesBefore(s, n, c) \cup {name}
  BY <1>1, <1>3 DEF BoundariesBefore
<1> QED
  BY <1>1, <1>2, <1>4

LEMMA NothingFirst ==
  ASSUME NEW s, NEW n \in Nat, s.layers \in Nat
  PROVE  /\ BoundariesBefore(s, n, <<-2, 0, 0>>) = {}
         /\ BoundariesBefore(s, n, <<n, 1, 0>>) = BoundaryNames(s, n)
<1>1. ASSUME NEW x \in BoundaryNames(s, n)
      PROVE  ~Earlier(Turn(s, n, x), <<-2, 0, 0>>) /\ Earlier(Turn(s, n, x), <<n, 1, 0>>)
  <2> DEFINE q == Turn(s, n, x)
  <2>1. IsBoundary(s, n, x)
    BY BoundariesAre, Zenon
  <2>2. TurnOf(s, n, x, q)
    BY <2>1, BoundaryTurns, Zenon
  <2>3. IsTurn(s, n, q)
    BY <2>2, Zenon DEF TurnOf
  <2> HIDE DEF q
  <2>4. ~Earlier(q, <<-2, 0, 0>>) /\ Earlier(q, <<n, 1, 0>>)
    BY <2>3 DEF IsTurn, Earlier
  <2> QED
    BY <2>4 DEF q
<1> QED
  BY <1>1 DEF BoundariesBefore

-----------------------------------------------------------------------------
(* What a boundary reads, of what it is given and in the chain.             *)

TakenOf(s, name, inputs) == [p \in Used(s, name, DOMAIN inputs) |-> inputs[p]]

LEMMA TakenIsRead ==
  ASSUME NEW r, NEW name, NEW keys, NEW inputs, NEW w,
         Wiring(r, name, keys) = w, DOMAIN inputs = DOMAIN w,
         \A p \in Used(r.shape, name, DOMAIN w) : inputs[p] = w[p].name
  PROVE  TakenOf(r.shape, name, inputs) = ReadsOf(r, name, keys)
<1> DEFINE U == Used(r.shape, name, DOMAIN w)
<1>1. TakenOf(r.shape, name, inputs) = [p \in U |-> inputs[p]]
  BY Zenon DEF TakenOf
<1>2. ReadsOf(r, name, keys) = [p \in U |-> w[p].name]
  BY Zenon DEF ReadsOf
<1> HIDE DEF U
<1>3. \A p \in U : inputs[p] = w[p].name
  BY DEF U
<1> QED
  BY <1>1, <1>2, <1>3

LEMMA UsedAreParams ==
  ASSUME NEW s, NEW name, NEW params, NEW p \in Used(s, name, params)
  PROVE  /\ p \in params /\ p # "merged_pieces"
         /\ p = "donor_a_kv" => UsesDonor(s, name, DonorA(s))
         /\ p = "donor_b_kv" => UsesDonor(s, name, DonorB(s))
<1> QED
  BY DEF Used

LEMMA UsedInParams ==
  ASSUME NEW s, NEW name, NEW params
  PROVE  \A p \in Used(s, name, params) : p \in params
<1> QED
  BY DEF Used

LEMMA TakesPrompt ==
  ASSUME NEW r, NEW keys
  PROVE  TakenOf(r.shape, Single("prompt_prepare"), [tokenizer |-> Single("tokenizer")])
           = ReadsOf(r, Single("prompt_prepare"), keys)
<1> DEFINE name == Single("prompt_prepare")
           inputs == [tokenizer |-> Single("tokenizer")]
           w == Wiring(r, name, keys)
<1>1. w = PrepareWiring(keys)
  BY WiringOf DEF Single
<1>2. w["tokenizer"].name = Single("tokenizer") /\ DOMAIN w = {"merged_pieces", "tokenizer"}
  BY <1>1 DEF PrepareWiring, FileOf, FileAt
<1>3. DOMAIN inputs = {"tokenizer"} /\ inputs["tokenizer"] = Single("tokenizer")
  OBVIOUS
<1> HIDE DEF w, inputs
<1>4. "merged_pieces" \notin Used(r.shape, name, DOMAIN w)
  BY UsedAreParams, Zenon
<1>5. Used(r.shape, name, DOMAIN inputs) = Used(r.shape, name, DOMAIN w)
  BY <1>2, <1>3 DEF Used
<1>6. \A p \in Used(r.shape, name, DOMAIN w) : inputs[p] = w[p].name
  <2> SUFFICES ASSUME NEW p \in Used(r.shape, name, DOMAIN w) PROVE inputs[p] = w[p].name
    OBVIOUS
  <2>1. p = "tokenizer"
    BY <1>2, <1>4, UsedAreParams
  <2> QED
    BY <1>2, <1>3, <2>1
<1>7. TakenOf(r.shape, name, inputs) = [p \in Used(r.shape, name, DOMAIN w) |-> inputs[p]]
  BY <1>5, Zenon DEF TakenOf
<1>8. ReadsOf(r, name, keys) = [p \in Used(r.shape, name, DOMAIN w) |-> w[p].name]
  BY Zenon DEF ReadsOf, w
<1>9. TakenOf(r.shape, name, inputs) = ReadsOf(r, name, keys)
  <2> DEFINE U == Used(r.shape, name, DOMAIN w)
  <2>1. /\ TakenOf(r.shape, name, inputs) = [p \in U |-> inputs[p]]
        /\ ReadsOf(r, name, keys) = [p \in U |-> w[p].name]
        /\ \A p \in U : inputs[p] = w[p].name
    BY <1>6, <1>7, <1>8, Zenon
  <2> HIDE DEF U
  <2> QED
    BY <2>1
<1> QED
  BY <1>9, Zenon DEF inputs

LEMMA TakesEmbedding ==
  ASSUME NEW r, NEW keys
  PROVE  TakenOf(r.shape, Embedding, [prompt |-> Single("prompt_prepare"), embedding |-> Single("embedding")])
           = ReadsOf(r, Embedding, keys)
<1> DEFINE inputs == [prompt |-> Single("prompt_prepare"), embedding |-> Single("embedding")]
           w == EmbeddingWiring
<1>1. Wiring(r, Embedding, keys) = w
  BY WiringOf DEF Single, Embedding
<1>2. DOMAIN inputs = {"prompt", "embedding"} /\ DOMAIN w = {"prompt", "embedding"}
  BY DEF EmbeddingWiring
<1>3. \A p \in {"prompt", "embedding"} : inputs[p] = w[p].name
  BY DEF EmbeddingWiring, FileOf, FileAt, Link
<1> HIDE DEF inputs, w
<1>4. \A p \in Used(r.shape, Embedding, DOMAIN w) : inputs[p] = w[p].name
  BY <1>2, <1>3, UsedInParams, Zenon
<1>5. TakenOf(r.shape, Embedding, inputs) = ReadsOf(r, Embedding, keys)
  BY <1>1, <1>2, <1>4, TakenIsRead, Zenon
<1> QED
  BY <1>5, Zenon DEF inputs

LEMMA TakesInit ==
  ASSUME NEW r, NEW keys
  PROVE  TakenOf(r.shape, Single("decode_init"), [p \in {} |-> Embedding])
           = ReadsOf(r, Single("decode_init"), keys)
<1> DEFINE inputs == [p \in {} |-> Embedding]
           w == NoWiring
<1>1. Wiring(r, Single("decode_init"), keys) = w
  BY WiringOf DEF Single, Embedding
<1>2. DOMAIN inputs = {} /\ DOMAIN w = {}
  BY DEF NoWiring
<1>3. \A p \in {} : inputs[p] = w[p].name
  BY DEF NoWiring, FileOf, FileAt
<1> HIDE DEF inputs, w
<1>4. \A p \in Used(r.shape, Single("decode_init"), DOMAIN w) : inputs[p] = w[p].name
  BY <1>2, <1>3, UsedInParams, Zenon
<1>5. TakenOf(r.shape, Single("decode_init"), inputs) = ReadsOf(r, Single("decode_init"), keys)
  BY <1>1, <1>2, <1>4, TakenIsRead, Zenon
<1> QED
  BY <1>5, Zenon DEF inputs

LEMMA TakesSelect ==
  ASSUME NEW r, NEW keys, NEW t
  PROVE  TakenOf(r.shape, SelectName(t), [logits |-> FinalizeName(t - 1), prior |-> IF t = 0 THEN Single("decode_init") ELSE SelectName(t - 1)])
           = ReadsOf(r, SelectName(t), keys)
<1> DEFINE inputs == [logits |-> FinalizeName(t - 1), prior |-> IF t = 0 THEN Single("decode_init") ELSE SelectName(t - 1)]
           w == SelectWiring(t)
<1>1. Wiring(r, SelectName(t), keys) = w
  BY WiringOf DEF SelectName
<1>2. DOMAIN inputs = {"logits", "prior"} /\ DOMAIN w = {"logits", "prior"}
  BY DEF SelectWiring
<1>3. \A p \in {"logits", "prior"} : inputs[p] = w[p].name
  BY DEF SelectWiring, Link
<1> HIDE DEF inputs, w
<1>4. \A p \in Used(r.shape, SelectName(t), DOMAIN w) : inputs[p] = w[p].name
  BY <1>2, <1>3, UsedInParams, Zenon
<1>5. TakenOf(r.shape, SelectName(t), inputs) = ReadsOf(r, SelectName(t), keys)
  BY <1>1, <1>2, <1>4, TakenIsRead, Zenon
<1> QED
  BY <1>5, Zenon DEF inputs

LEMMA TakesEmbed ==
  ASSUME NEW r, NEW keys, NEW t
  PROVE  TakenOf(r.shape, EmbedName(t), [selected |-> SelectName(t), embedding |-> Single("embedding")])
           = ReadsOf(r, EmbedName(t), keys)
<1> DEFINE inputs == [selected |-> SelectName(t), embedding |-> Single("embedding")]
           w == EmbedWiring(t)
<1>1. Wiring(r, EmbedName(t), keys) = w
  BY WiringOf DEF EmbedName
<1>2. DOMAIN inputs = {"selected", "embedding"} /\ DOMAIN w = {"selected", "embedding"}
  BY DEF EmbedWiring
<1>3. \A p \in {"selected", "embedding"} : inputs[p] = w[p].name
  BY DEF EmbedWiring, Link, FileOf, FileAt
<1> HIDE DEF inputs, w
<1>4. \A p \in Used(r.shape, EmbedName(t), DOMAIN w) : inputs[p] = w[p].name
  BY <1>2, <1>3, UsedInParams, Zenon
<1>5. TakenOf(r.shape, EmbedName(t), inputs) = ReadsOf(r, EmbedName(t), keys)
  BY <1>1, <1>2, <1>4, TakenIsRead, Zenon
<1> QED
  BY <1>5, Zenon DEF inputs

LEMMA TakesOutput ==
  ASSUME NEW r, NEW keys
  PROVE  TakenOf(r.shape, Single("output_finalize"), [edge |-> keys.edge, decoder |-> Single("decoder")])
           = ReadsOf(r, Single("output_finalize"), keys)
<1> DEFINE inputs == [edge |-> keys.edge, decoder |-> Single("decoder")]
           w == OutputWiring(keys)
<1>1. Wiring(r, Single("output_finalize"), keys) = w
  BY WiringOf DEF Single
<1>2. DOMAIN inputs = {"edge", "decoder"} /\ DOMAIN w = {"edge", "decoder"}
  BY DEF OutputWiring
<1>3. \A p \in {"edge", "decoder"} : inputs[p] = w[p].name
  BY DEF OutputWiring, Link, FileOf, FileAt
<1> HIDE DEF inputs, w
<1>4. \A p \in Used(r.shape, Single("output_finalize"), DOMAIN w) : inputs[p] = w[p].name
  BY <1>2, <1>3, UsedInParams, Zenon
<1>5. TakenOf(r.shape, Single("output_finalize"), inputs) = ReadsOf(r, Single("output_finalize"), keys)
  BY <1>1, <1>2, <1>4, TakenIsRead, Zenon
<1> QED
  BY <1>5, Zenon DEF inputs

LEMMA TakesAux ==
  ASSUME NEW r, NEW keys, NEW p, p = -1 \/ p \in Nat, NEW n
  PROVE  TakenOf(r.shape, AuxName(p, n), [embedded |-> StartOf(p), layer |-> Name("aux_layer", 0, n)])
           = ReadsOf(r, AuxName(p, n), keys)
<1> DEFINE inputs == [embedded |-> StartOf(p), layer |-> Name("aux_layer", 0, n)]
           w == AuxWiring(p, n)
<1>1. Wiring(r, AuxName(p, n), keys) = w
  <2>1. CASE p = -1
    BY <2>1, PassNamesAre, WiringOf DEF Single
  <2>2. CASE p \in Nat
    BY <2>2, PassNamesAre, WiringOf
  <2> QED
    BY <2>1, <2>2
<1>2. DOMAIN inputs = {"embedded", "layer"} /\ DOMAIN w = {"embedded", "layer"}
  BY DEF AuxWiring
<1>3. \A x \in {"embedded", "layer"} : inputs[x] = w[x].name
  BY DEF AuxWiring, Link, FileAt
<1> HIDE DEF inputs, w
<1>4. \A x \in Used(r.shape, AuxName(p, n), DOMAIN w) : inputs[x] = w[x].name
  BY <1>2, <1>3, UsedInParams, Zenon
<1>5. TakenOf(r.shape, AuxName(p, n), inputs) = ReadsOf(r, AuxName(p, n), keys)
  BY <1>1, <1>2, <1>4, TakenIsRead, Zenon
<1> QED
  BY <1>5, Zenon DEF inputs

LEMMA TakesFinalize ==
  ASSUME NEW r, NEW keys, NEW p, p = -1 \/ p \in Nat
  PROVE  TakenOf(r.shape, FinalizeName(p), [activations |-> RangeName(p, r.shape.layers - 1), head |-> Single("head")])
           = ReadsOf(r, FinalizeName(p), keys)
<1> DEFINE inputs == [activations |-> RangeName(p, r.shape.layers - 1), head |-> Single("head")]
           w == FinalizeWiring(r, p)
<1>1. Wiring(r, FinalizeName(p), keys) = w
  <2>1. CASE p = -1
    BY <2>1, PassNamesAre, WiringOf DEF Single
  <2>2. CASE p \in Nat
    BY <2>2, PassNamesAre, WiringOf
  <2> QED
    BY <2>1, <2>2
<1>2. DOMAIN inputs = {"activations", "head"} /\ DOMAIN w = {"activations", "head"}
  BY DEF FinalizeWiring
<1>3. \A x \in {"activations", "head"} : inputs[x] = w[x].name
  BY DEF FinalizeWiring, Link, FileOf, FileAt
<1> HIDE DEF inputs, w
<1>4. \A x \in Used(r.shape, FinalizeName(p), DOMAIN w) : inputs[x] = w[x].name
  BY <1>2, <1>3, UsedInParams, Zenon
<1>5. TakenOf(r.shape, FinalizeName(p), inputs) = ReadsOf(r, FinalizeName(p), keys)
  BY <1>1, <1>2, <1>4, TakenIsRead, Zenon
<1> QED
  BY <1>5, Zenon DEF inputs

LEMMA DonorsAreNone ==
  ASSUME NEW s, IsShape(s), DonorsBound(s), NEW n \in Layers(s)
  PROVE  /\ KvDonor(s, n) = DonorA(s) => n >= FirstShared(s) /\ DonorA(s) \in 0 .. (FirstShared(s) - 1)
         /\ KvDonor(s, n) = DonorB(s) => n >= FirstShared(s) /\ DonorB(s) \in 0 .. (FirstShared(s) - 1)
<1>1. DonorA(s) # -1 /\ DonorB(s) # -1
  <2>1. CASE s.shared = 0
    <3>1. \A l \in Layers(s) : l < FirstShared(s)
      BY <2>1, BoundDonors DEF Layers, FirstShared
    <3>2. \A l \in Layers(s) : KvDonor(s, l) = -1
      BY <3>1, Zenon DEF KvDonor
    <3>3. Donors(s) = {}
      BY <3>2 DEF Donors
    <3>4. Cardinality(Donors(s)) < 2
      BY <3>3, FS_EmptySet
    <3>5. DonorA(s) = -2
      BY <3>3, Zenon DEF DonorA
    <3>6. DonorB(s) = -3
      BY <3>4, Zenon DEF DonorB
    <3> QED
      BY <3>5, <3>6
  <2>2. CASE s.shared # 0
    <3>1. s.shared > 0 /\ FirstShared(s) \in Nat
      BY <2>2, BoundDonors
    <3>2. DonorA(s) \in 0 .. (FirstShared(s) - 1) /\ DonorB(s) \in 0 .. (FirstShared(s) - 1)
      BY <3>1, BoundDonors
    <3> QED
      BY <3>1, <3>2
  <2> QED
    BY <2>1, <2>2
<1>2. KvDonor(s, n) # -1 => n >= FirstShared(s) /\ KvDonor(s, n) \in 0 .. (FirstShared(s) - 1)
  BY DonorIsBefore
<1> QED
  BY <1>1, <1>2, Zenon

LEMMA TakesRange ==
  ASSUME NEW r, IsRun(r), NEW keys, NEW p, p = -1 \/ p \in Nat, NEW n \in Layers(r.shape), NEW a, NEW b,
         KvDonor(r.shape, n) = DonorA(r.shape) => a = DonorOf(r, p, n, DonorA(r.shape)),
         KvDonor(r.shape, n) = DonorB(r.shape) => b = DonorOf(r, p, n, DonorB(r.shape))
  PROVE  TakenOf(r.shape, RangeName(p, n),
                 [activations |-> LowerOf(p, n), prior_kv |-> PriorOf(p, n), donor_a_kv |-> a, donor_b_kv |-> b,
                  ple |-> AuxName(p, n), layer |-> Name("transformer_layer", 0, n)])
           = ReadsOf(r, RangeName(p, n), keys)
<1> DEFINE inputs == [activations |-> LowerOf(p, n), prior_kv |-> PriorOf(p, n), donor_a_kv |-> a, donor_b_kv |-> b,
                      ple |-> AuxName(p, n), layer |-> Name("transformer_layer", 0, n)]
           w == RangeWiring(r, p, n)
           name == RangeName(p, n)
<1>1. Wiring(r, name, keys) = w
  <2>1. CASE p = -1
    BY <2>1, PassNamesAre, WiringOf
  <2>2. CASE p \in Nat
    BY <2>2, PassNamesAre, WiringOf
  <2> QED
    BY <2>1, <2>2
<1>2. DOMAIN inputs = RangeParams /\ DOMAIN w = RangeParams
  BY DEF RangeWiring, RangeParams
<1>3. \A x \in RangeParams \ {"donor_a_kv", "donor_b_kv"} : inputs[x] = w[x].name
  BY DEF RangeWiring, RangeParams, Link, FileAt
<1>4. /\ inputs["donor_a_kv"] = a /\ w["donor_a_kv"].name = DonorOf(r, p, n, DonorA(r.shape))
      /\ inputs["donor_b_kv"] = b /\ w["donor_b_kv"].name = DonorOf(r, p, n, DonorB(r.shape))
  BY DEF RangeWiring, Link
<1>5. IsRange(name) /\ name[3] = n
  BY DEF IsRange, RangeName, PassName, Name
<1> HIDE DEF inputs, w, name
<1>6. ASSUME NEW x \in Used(r.shape, name, DOMAIN w) PROVE inputs[x] = w[x].name
  <2>1. /\ x \in RangeParams
        /\ x = "donor_a_kv" => UsesDonor(r.shape, name, DonorA(r.shape))
        /\ x = "donor_b_kv" => UsesDonor(r.shape, name, DonorB(r.shape))
    BY <1>2, UsedAreParams, Zenon
  <2>2. CASE x = "donor_a_kv"
    BY <1>4, <1>5, <2>1, <2>2, Zenon DEF UsesDonor
  <2>3. CASE x = "donor_b_kv"
    BY <1>4, <1>5, <2>1, <2>3, Zenon DEF UsesDonor
  <2>4. CASE x \notin {"donor_a_kv", "donor_b_kv"}
    BY <1>3, <2>1, <2>4, Zenon
  <2> QED
    BY <2>2, <2>3, <2>4
<1>7. TakenOf(r.shape, name, inputs) = ReadsOf(r, name, keys)
  BY <1>1, <1>2, <1>6, TakenIsRead, Zenon
<1> QED
  BY <1>7, Zenon DEF inputs, name

(* Only the edge of the last selection depends on which run it is. *)
LEMMA KeysAreTheSame ==
  ASSUME NEW r, IsRun(r), NEW n \in Nat, NEW x, IsBoundary(r.shape, n, x), NEW j, NEW k,
         x = Single("output_finalize") => j.edge = k.edge
  PROVE  ReadsOf(r, x, j) = ReadsOf(r, x, k)
<1> DEFINE N == r.shape.layers
<1>0. N \in Nat /\ Layers(r.shape) = 0 .. (N - 1)
  BY BoundDonors DEF IsRun
<1>1. CASE x = Single("prompt_prepare")
  BY <1>1, TakesPrompt, Zenon
<1>2. CASE x = Single("input_embedding")
  BY <1>2, TakesEmbedding, Zenon DEF Embedding
<1>3. ASSUME NEW p, p = -1 \/ p \in Nat, x = FinalizeName(p) PROVE ReadsOf(r, x, j) = ReadsOf(r, x, k)
  BY <1>3, TakesFinalize, Zenon
<1>4. CASE x = Single("decode_init")
  BY <1>4, TakesInit, Zenon
<1>5. CASE x = Single("output_finalize")
  <2>1. j.edge = k.edge
    BY <1>5
  <2>2. /\ TakenOf(r.shape, Single("output_finalize"), [edge |-> j.edge, decoder |-> Single("decoder")])
             = ReadsOf(r, Single("output_finalize"), j)
        /\ TakenOf(r.shape, Single("output_finalize"), [edge |-> k.edge, decoder |-> Single("decoder")])
             = ReadsOf(r, Single("output_finalize"), k)
    BY TakesOutput, Zenon
  <2>3. [edge |-> j.edge, decoder |-> Single("decoder")] = [edge |-> k.edge, decoder |-> Single("decoder")]
    BY <2>1, Zenon
  <2> QED
    BY <1>5, <2>2, <2>3, Zenon
<1>6. ASSUME NEW p, p = -1 \/ p \in Nat, NEW l \in 0 .. (N - 1), x = AuxName(p, l) PROVE ReadsOf(r, x, j) = ReadsOf(r, x, k)
  <2> DEFINE given == [embedded |-> StartOf(p), layer |-> Name("aux_layer", 0, l)]
  <2>1. TakenOf(r.shape, AuxName(p, l), given) = ReadsOf(r, AuxName(p, l), j)
    BY <1>6, TakesAux, Zenon
  <2>2. TakenOf(r.shape, AuxName(p, l), given) = ReadsOf(r, AuxName(p, l), k)
    BY <1>6, TakesAux, Zenon
  <2> QED
    BY <1>6, <2>1, <2>2, Zenon
<1>7. ASSUME NEW p, p = -1 \/ p \in Nat, NEW l \in 0 .. (N - 1), x = RangeName(p, l) PROVE ReadsOf(r, x, j) = ReadsOf(r, x, k)
  <2> DEFINE given == [activations |-> LowerOf(p, l), prior_kv |-> PriorOf(p, l),
                       donor_a_kv |-> DonorOf(r, p, l, DonorA(r.shape)),
                       donor_b_kv |-> DonorOf(r, p, l, DonorB(r.shape)),
                       ple |-> AuxName(p, l), layer |-> Name("transformer_layer", 0, l)]
  <2>1. l \in Layers(r.shape)
    BY <1>0
  <2>2. TakenOf(r.shape, RangeName(p, l), given) = ReadsOf(r, RangeName(p, l), j)
    BY <1>7, <2>1, TakesRange, Zenon
  <2>3. TakenOf(r.shape, RangeName(p, l), given) = ReadsOf(r, RangeName(p, l), k)
    BY <1>7, <2>1, TakesRange, Zenon
  <2> QED
    BY <1>7, <2>2, <2>3, Zenon
<1>8. CASE \E t \in 0 .. (n - 1) : x = Name("decode_select", t, 0)
  BY <1>8, TakesSelect, Zenon DEF SelectName
<1>9. CASE x = Single("prefill_finalize")
  <2>1. x = FinalizeName(-1)
    BY <1>9, PassNamesAre
  <2> QED
    BY <1>3, <2>1
<1>10. CASE \E l \in 0 .. (N - 1) : x = Name("prefill_prepare_aux", 0, l) \/ x = Name("prefill_range", 0, l)
  <2>1. PICK l \in 0 .. (N - 1) : x = AuxName(-1, l) \/ x = RangeName(-1, l)
    BY <1>10, PassNamesAre
  <2> QED
    BY <1>6, <1>7, <2>1
<1>11. ASSUME NEW t \in 0 .. (n - 2), \/ x = Name("decode_embed", t, 0) \/ x = Name("decode_finalize", t, 0)
                                     \/ \E l \in 0 .. (N - 1) : x = Name("decode_aux", t, l) \/ x = Name("decode_range", t, l)
       PROVE  ReadsOf(r, x, j) = ReadsOf(r, x, k)
  <2>1. t \in Nat
    OBVIOUS
  <2>2. CASE x = Name("decode_embed", t, 0)
    BY <2>2, TakesEmbed, Zenon DEF EmbedName
  <2>3. CASE x = Name("decode_finalize", t, 0)
    <3>1. x = FinalizeName(t)
      BY <2>1, <2>3, PassNamesAre, Zenon
    <3> QED
      BY <1>3, <2>1, <3>1, Zenon
  <2>4. CASE \E l \in 0 .. (N - 1) : x = Name("decode_aux", t, l) \/ x = Name("decode_range", t, l)
    <3>1. PICK l \in 0 .. (N - 1) : x = AuxName(t, l) \/ x = RangeName(t, l)
      BY <2>1, <2>4, PassNamesAre
    <3> QED
      BY <1>6, <1>7, <2>1, <3>1, Zenon
  <2> QED
    BY <1>11, <2>2, <2>3, <2>4
<1> QED
  BY <1>1, <1>2, <1>4, <1>5, <1>8, <1>9, <1>10, <1>11, Zenon DEF IsBoundary, N

-----------------------------------------------------------------------------
(* The names that a trace to compare with must have are those of a run.     *)

LEMMA NamesOfRun ==
  ASSUME NEW r, IsRun(r), NEW x
  PROVE  IsName(r, x) <=> OneOf(r, x)
<1> DEFINE N == r.shape.layers
           F == FirstShared(r.shape)
<1>1. IsName(r, x) => OneOf(r, x)
  BY NameCases
<1>2. F \in Nat /\ N \in Nat /\ F <= N
  BY BoundDonors DEF IsRun
<1>3. ASSUME NEW q, Named(r, x, q) PROVE IsName(r, x)
  BY <1>3, Zenon DEF Named
<1>4. ASSUME \/ x = Single("prompt_merge_seed") \/ \E b \in 0 .. (r.batches - 1) : x = Name("prompt_merge", b, 0)
             \/ x = Single("prompt_prepare") \/ x = Single("input_embedding")
      PROVE  IsName(r, x)
  BY <1>3, <1>4, PromptNames, Zenon
<1>5. ASSUME \/ \E l \in 0 .. (N - 1) : x = Name("prefill_prepare_aux", 0, l) \/ x = Name("prefill_range", 0, l)
             \/ x = Single("prefill_finalize") \/ x = Single("decode_init") \/ x = Single("output_finalize")
      PROVE  IsName(r, x)
  BY <1>3, <1>5, PrefillNames, Zenon
<1>6. ASSUME NEW t \in 0 .. (r.tokens - 1), InPass(r, t, x) PROVE IsName(r, x)
  <2>1. /\ \A y \in {Name("decode_select", t, 0), Name("decode_embed", t, 0), Name("decode_finalize", t, 0)} : IsName(r, y)
        /\ \A l \in 0 .. (N - 1) : IsName(r, Name("decode_aux", t, l))
        /\ \A l \in 0 .. (F - 1) : IsName(r, Name("decode_range", t, l))
        /\ \A l \in F .. (N - 1) : IsName(r, Name("decode_range", t, l))
    BY DecodeNames DEF Named
  <2>2. \A l \in 0 .. (N - 1) : l \in 0 .. (F - 1) \/ l \in F .. (N - 1)
    BY <1>2
  <2>3. \A l \in 0 .. (N - 1) : IsName(r, Name("decode_range", t, l))
    BY <2>1, <2>2, Zenon
  <2> QED
    BY <1>6, <2>1, <2>3, Zenon DEF InPass
<1> QED
  BY <1>1, <1>4, <1>5, <1>6, Zenon DEF OneOf

LEMMA ReferenceIs ==
  ASSUME NEW r, IsRun(r), NEW x
  PROVE  x \in ReferenceNames(r.shape, r.tokens, r.batches) <=> IsName(r, x)
<1> DEFINE s == r.shape
           n == r.tokens
           N == s.layers
           Own(t) == \/ x = Name("decode_embed", t, 0) \/ x = Name("decode_finalize", t, 0)
                     \/ \E l \in 0 .. (N - 1) : x = Name("decode_aux", t, l) \/ x = Name("decode_range", t, l)
<1>0. n \in Nat /\ r.batches \in Nat
  BY DEF IsRun
<1>1. x \in ReferenceNames(s, n, r.batches) <=>
        \/ x \in BoundaryNames(s, n) \/ x = Single("prompt_merge_seed")
        \/ \E b \in 0 .. (r.batches - 1) : x = Name("prompt_merge", b, 0)
        \/ n # 0 /\ x \in DecodePassNames(s, n - 1)
  BY DEF ReferenceNames
<1>2. x \in BoundaryNames(s, n) <=> IsBoundary(s, n, x)
  BY <1>0, BoundariesAre, Zenon
<1>3. n # 0 => (x \in DecodePassNames(s, n - 1) <=> Own(n - 1))
  <2>1. n # 0 => n - 1 \in Nat
    BY <1>0
  <2> QED
    BY <2>1, DecodePassIs
<1>4. \A t : InPass(r, t, x) <=> x = Name("decode_select", t, 0) \/ Own(t)
  BY Zenon DEF InPass
<1>5. (\E t \in 0 .. (n - 1) : Own(t)) <=> (\E t \in 0 .. (n - 2) : Own(t)) \/ (n # 0 /\ Own(n - 1))
  <2> HIDE DEF Own, n
  <2>1. \A t \in 0 .. (n - 1) : t \in 0 .. (n - 2) \/ (n # 0 /\ t = n - 1)
    BY <1>0
  <2>2. \A t \in 0 .. (n - 2) : t \in 0 .. (n - 1)
    BY <1>0
  <2>3. n # 0 => n - 1 \in 0 .. (n - 1)
    BY <1>0
  <2> QED
    BY <2>1, <2>2, <2>3, Zenon
<1>6. (\E t \in 0 .. (n - 1) : InPass(r, t, x)) <=>
        (\E t \in 0 .. (n - 1) : x = Name("decode_select", t, 0)) \/ (\E t \in 0 .. (n - 1) : Own(t))
  <2> HIDE DEF Own
  <2> QED
    BY <1>4, Zenon
<1>7. IsBoundary(s, n, x) <=>
        \/ x = Single("prompt_prepare") \/ x = Single("input_embedding") \/ x = Single("prefill_finalize")
        \/ x = Single("decode_init") \/ x = Single("output_finalize")
        \/ \E l \in 0 .. (N - 1) : x = Name("prefill_prepare_aux", 0, l) \/ x = Name("prefill_range", 0, l)
        \/ \E t \in 0 .. (n - 1) : x = Name("decode_select", t, 0)
        \/ \E t \in 0 .. (n - 2) : Own(t)
  BY Zenon DEF IsBoundary
<1>8. OneOf(r, x) <=>
        \/ x = Single("prompt_merge_seed")
        \/ \E b \in 0 .. (r.batches - 1) : x = Name("prompt_merge", b, 0)
        \/ x = Single("prompt_prepare") \/ x = Single("input_embedding")
        \/ \E l \in 0 .. (N - 1) : x = Name("prefill_prepare_aux", 0, l) \/ x = Name("prefill_range", 0, l)
        \/ x = Single("prefill_finalize") \/ x = Single("decode_init")
        \/ \E t \in 0 .. (n - 1) : InPass(r, t, x)
        \/ x = Single("output_finalize")
  BY Zenon DEF OneOf
<1> HIDE DEF Own, s, n, N
<1>9. x \in ReferenceNames(s, n, r.batches) <=> OneOf(r, x)
  BY <1>1, <1>2, <1>3, <1>5, <1>6, <1>7, <1>8, Zenon
<1> QED
  BY <1>9, NamesOfRun DEF s, n

(* No two names of a repeat are the same, nor a name of another kind. *)
LEMMA CountsAreBounds ==
  ASSUME NEW r, IsRun(r), NEW t \in Nat
  PROVE  /\ IsName(r, Name("decode_select", t, 0)) <=> t < r.tokens
         /\ IsName(r, Name("prompt_merge", t, 0)) <=> t < r.batches
<1>0. r.tokens \in Nat /\ r.batches \in Nat
  BY DEF IsRun
<1>1. OneOf(r, Name("decode_select", t, 0)) <=> t < r.tokens
  <2>1. t < r.tokens <=> t \in 0 .. (r.tokens - 1)
    BY <1>0
  <2>2. t \in 0 .. (r.tokens - 1) => InPass(r, t, Name("decode_select", t, 0))
    BY Zenon DEF InPass
  <2>3. ASSUME OneOf(r, Name("decode_select", t, 0)) PROVE t \in 0 .. (r.tokens - 1)
    BY <2>3 DEF OneOf, InPass, Name, Single
  <2> QED
    BY <2>1, <2>2, <2>3, Zenon DEF OneOf
<1>2. OneOf(r, Name("prompt_merge", t, 0)) <=> t < r.batches
  <2>1. t < r.batches <=> t \in 0 .. (r.batches - 1)
    BY <1>0
  <2>2. ASSUME OneOf(r, Name("prompt_merge", t, 0)) PROVE t \in 0 .. (r.batches - 1)
    BY <2>2 DEF OneOf, InPass, Name, Single
  <2> QED
    BY <2>1, <2>2, Zenon DEF OneOf
<1> QED
  BY <1>1, <1>2, NamesOfRun, Zenon

LEMMA NamesTellTheRun ==
  ASSUME NEW r, IsRun(r), NEW q, IsRun(q), \A x : IsName(r, x) <=> IsName(q, x)
  PROVE  r.tokens = q.tokens /\ r.batches = q.batches
<1>0. r.tokens \in Nat /\ r.batches \in Nat /\ q.tokens \in Nat /\ q.batches \in Nat
  BY DEF IsRun
<1>1. \A t \in Nat : (t < r.tokens <=> t < q.tokens) /\ (t < r.batches <=> t < q.batches)
  BY CountsAreBounds, Zenon
<1> QED
  BY <1>0, <1>1

-----------------------------------------------------------------------------
(* The invariant of the direct runtime.                                     *)

EdgeBefore(t) == IF t = 0 THEN Single("decode_init") ELSE SelectName(t - 1)
DirectKeys(n) == [pieces |-> Single("none"), edge |-> EdgeBefore(n)]

DirectSteps == {"prompt", "embedding", "aux", "range", "finalize", "init", "select", "embed_token",
                "output", "finish", "done"}

(* The turn of what is recorded next. *)
TurnNow(s, n, st, p, l) ==
  CASE st = "prompt" -> <<-2, 0, 0>>
    [] st = "embedding" -> <<-1, 0, 0>>
    [] st = "aux" -> <<p, l + 1, 0>>
    [] st = "range" -> <<p, l + 1, 1>>
    [] st = "finalize" -> <<p, s.layers + 1, 0>>
    [] st = "init" -> <<-1, s.layers + 2, 0>>
    [] st = "select" -> <<p, -1, 0>>
    [] st = "embed_token" -> <<p, 0, 0>>
    [] st = "output" -> <<n, 0, 0>>
    [] OTHER -> <<n, 1, 0>>

Recorded(r, n, st, p, l, rec) ==
  /\ DOMAIN rec = BoundariesBefore(r.shape, n, TurnNow(r.shape, n, st, p, l))
  /\ \A name \in DOMAIN rec : rec[name] = ReadsOf(r, name, DirectKeys(n))

(* What the variables of the loops hold: the caches of this pass so far and *)
(* of the whole pass before, the activations below, the last selection.     *)
IsPass(n, p) == p = -1 \/ p \in 0 .. (n - 2)
Caches(p, l) == [i \in 1 .. l |-> RangeName(p, i - 1)]
CachesBefore(s, p) == IF p = -1 THEN <<>> ELSE Caches(p - 1, s.layers)
InLayers(s, n, p, l, sd, cu, lo, pl, ed) ==
  /\ IsPass(n, p) /\ l \in 0 .. s.layers
  /\ sd = StartOf(p) /\ cu = LowerOf(p, l)
  /\ lo = Caches(p, l) /\ pl = CachesBefore(s, p)
  /\ p # -1 => ed = SelectName(p)
BetweenPasses(s, p, l, lo, pl) == l = 0 /\ lo = <<>> /\ pl = CachesBefore(s, p)

ValuesAt(s, n, st, p, l, sd, cu, lo, pl, lg, ed) ==
  /\ st \in {"prompt", "embedding"} => p = -1 /\ BetweenPasses(s, p, l, lo, pl)
  /\ st \in {"aux", "range", "finalize"} =>
       InLayers(s, n, p, l, sd, cu, lo, pl, ed) /\ (st = "finalize" <=> l = s.layers)
  /\ st = "init" => p = 0 /\ BetweenPasses(s, p, l, lo, pl) /\ lg = FinalizeName(-1)
  /\ st = "select" =>
       p \in 0 .. (n - 1) /\ BetweenPasses(s, p, l, lo, pl) /\ lg = FinalizeName(p - 1) /\ ed = EdgeBefore(p)
  /\ st = "embed_token" => p \in 0 .. (n - 2) /\ BetweenPasses(s, p, l, lo, pl) /\ ed = SelectName(p)
  /\ st = "output" => ed = EdgeBefore(n)

DirectStarted ==
  /\ IsImported /\ phase = "expanded"
  /\ directSpec.tokens \in Nat /\ directSpec.batches \in Nat
  /\ required = BoundaryNames(spec.shape, directSpec.tokens)
  /\ step \in DirectSteps \cup {"refused"}
  /\ step = "refused" <=>
       /\ directSpec.compare
       /\ StageNames # ReferenceNames(spec.shape, directSpec.tokens, directSpec.batches)
  /\ step \in DirectSteps =>
       /\ Recorded(spec, directSpec.tokens, step, pass, layer, records)
       /\ ValuesAt(spec.shape, directSpec.tokens, step, pass, layer, seed, current, layerOutputs, priorLayers, logits, edge)

DirectInv ==
  /\ step \in {"none", "refused"} => pass = -1 /\ layer = 0 /\ layerOutputs = <<>> /\ priorLayers = <<>> /\ DOMAIN records = {}
  /\ step = "none" => directSpec = NoSpec
  /\ step # "none" => DirectStarted

LEMMA EmptyCaches ==
  \A p : Caches(p, 0) = <<>>
<1> SUFFICES ASSUME NEW p PROVE Caches(p, 0) = <<>>
  OBVIOUS
<1>1. 1 .. 0 = {}
  OBVIOUS
<1> QED
  BY <1>1 DEF Caches

LEMMA MoreCaches ==
  ASSUME NEW p, NEW l \in Nat
  PROVE  /\ Len(Caches(p, l)) = l
         /\ \A n \in 0 .. (l - 1) : n + 1 \in 1 .. l /\ Caches(p, l)[n + 1] = RangeName(p, n)
         /\ Append(Caches(p, l), RangeName(p, l)) = Caches(p, l + 1)
<1>1. Len(Caches(p, l)) = l /\ DOMAIN Caches(p, l) = 1 .. l
  BY DEF Caches
<1>2. ASSUME NEW n \in 0 .. (l - 1) PROVE n + 1 \in 1 .. l /\ Caches(p, l)[n + 1] = RangeName(p, n)
  <2>1. n + 1 \in 1 .. l /\ (n + 1) - 1 = n
    OBVIOUS
  <2> QED
    BY <2>1, Zenon DEF Caches
<1>3. Append(Caches(p, l), RangeName(p, l)) = Caches(p, l + 1)
  <2> DEFINE c == Caches(p, l)
             d == Caches(p, l + 1)
             e == RangeName(p, l)
  <2>0. IsSequence(c) /\ Len(c) = l
    <3> DEFINE names == {RangeName(p, i - 1) : i \in 1 .. l}
    <3>1. c \in Seq(names)
      <4>1. c \in [1 .. l -> names]
        BY DEF Caches
      <4> HIDE DEF names, c
      <4> QED
        BY <4>1
    <3> QED
      BY <1>1, <3>1, Zenon DEF IsSequence
  <2>1. /\ IsSequence(Append(c, e)) /\ Len(Append(c, e)) = l + 1
        /\ \A i \in 1 .. l : Append(c, e)[i] = c[i]
        /\ Append(c, e)[l + 1] = e
    <3> HIDE DEF c, e
    <3>1. /\ IsSequence(Append(c, e)) /\ Len(Append(c, e)) = Len(c) + 1
          /\ \A i \in 1 .. Len(c) : Append(c, e)[i] = c[i]
          /\ Append(c, e)[Len(c) + 1] = e
      BY <2>0, Longer, Zenon
    <3> QED
      BY <2>0, <3>1, Zenon
  <2>2. \A i \in 1 .. (l + 1) : d[i] = RangeName(p, i - 1)
    BY DEF Caches
  <2>3. \A i \in 1 .. l : c[i] = RangeName(p, i - 1)
    BY DEF Caches
  <2>4. d = [i \in 1 .. (l + 1) |-> d[i]]
    BY DEF Caches
  <2>5. (l + 1) - 1 = l
    OBVIOUS
  <2>6. \A i \in 1 .. (l + 1) : i <= l => i \in 1 .. l
    OBVIOUS
  <2>7. \A i \in 1 .. (l + 1) : ~(i <= l) => i = l + 1
    OBVIOUS
  <2> HIDE DEF c, d
  <2> DEFINE longer == Append(c, e)
  <2>8. \A i \in 1 .. (l + 1) : longer[i] = d[i]
    <3>1. \A i \in 1 .. l : longer[i] = c[i] /\ c[i] = d[i]
      <4>1. \A i \in 1 .. l : i \in 1 .. (l + 1)
        OBVIOUS
      <4> QED
        BY <2>1, <2>2, <2>3, <4>1, Zenon
    <3>2. longer[l + 1] = d[l + 1]
      <4>1. l + 1 \in 1 .. (l + 1)
        OBVIOUS
      <4> HIDE DEF e
      <4>2. d[l + 1] = e
        BY <2>2, <2>5, <4>1, Zenon DEF e
      <4> QED
        BY <2>1, <4>2, Zenon
    <3> HIDE DEF longer, e
    <3> QED
      BY <2>6, <2>7, <3>1, <3>2, Zenon
  <2>9. longer = d
    <3>1. IsSequence(longer) /\ Len(longer) = l + 1
      BY <2>1
    <3> HIDE DEF longer, e
    <3>2. DOMAIN longer = 1 .. (l + 1) /\ longer = [i \in 1 .. (l + 1) |-> longer[i]]
      <4>1. DOMAIN longer = 1 .. (l + 1)
        BY <3>1, SequenceFacts, Zenon
      <4>2. PICK S : longer \in Seq(S)
        BY <3>1, Zenon DEF IsSequence
      <4>3. longer = [i \in DOMAIN longer |-> longer[i]]
        BY <4>2
      <4> QED
        BY <4>1, <4>3, Zenon
    <3> QED
      BY <2>4, <2>8, <3>2
  <2> QED
    BY <2>9 DEF c, d, e, longer
<1> QED
  BY <1>1, <1>2, <1>3

LEMMA DirectRunIs ==
  ASSUME ImportInv, DirectInv, step # "none"
  PROVE  /\ IsRun(spec) /\ directSpec.tokens \in Nat /\ directSpec.batches \in Nat
         /\ spec.shape.layers \in Nat /\ spec.shape.layers > 0
         /\ (directSpec.compare /\ step # "refused") <=>
              /\ directSpec.compare
              /\ directSpec.tokens = spec.tokens /\ directSpec.batches = spec.batches
<1>1. /\ IsImported /\ phase = "expanded" /\ directSpec.tokens \in Nat /\ directSpec.batches \in Nat
      /\ step = "refused" <=> directSpec.compare /\ StageNames # ReferenceNames(spec.shape, directSpec.tokens, directSpec.batches)
  BY Zenon DEF DirectInv, DirectStarted
<1>2. IsRun(spec) /\ \A x : x \in StageNames <=> IsName(spec, x)
  BY <1>1, ChainReadsAre, Zenon
<1>3. spec.shape.layers \in Nat /\ spec.shape.layers > 0
  BY <1>2, BoundDonors DEF IsRun
<1> DEFINE other == [shape |-> spec.shape, tokens |-> directSpec.tokens, batches |-> directSpec.batches]
<1>4. other.shape = spec.shape /\ other.tokens = directSpec.tokens /\ other.batches = directSpec.batches
  OBVIOUS
<1> HIDE DEF other
<1>5. IsRun(other)
  BY <1>1, <1>2, <1>4, Zenon DEF IsRun
<1>6. \A x : x \in ReferenceNames(spec.shape, directSpec.tokens, directSpec.batches) <=> IsName(other, x)
  BY <1>4, <1>5, ReferenceIs, Zenon
<1>7. ASSUME StageNames = ReferenceNames(spec.shape, directSpec.tokens, directSpec.batches)
      PROVE  directSpec.tokens = spec.tokens /\ directSpec.batches = spec.batches
  <2>1. \A x : IsName(spec, x) <=> IsName(other, x)
    BY <1>2, <1>6, <1>7, Zenon
  <2> QED
    BY <1>2, <1>4, <1>5, <2>1, NamesTellTheRun
<1>8. ASSUME directSpec.tokens = spec.tokens, directSpec.batches = spec.batches
      PROVE  StageNames = ReferenceNames(spec.shape, directSpec.tokens, directSpec.batches)
  <2>1. \A x : x \in ReferenceNames(spec.shape, directSpec.tokens, directSpec.batches) <=> IsName(spec, x)
    BY <1>2, <1>8, ReferenceIs, Zenon
  <2>2. \A x : x \in ReferenceNames(spec.shape, directSpec.tokens, directSpec.batches) <=> x \in StageNames
    BY <1>2, <2>1, Zenon
  <2> QED
    BY <2>2
<1> QED
  BY <1>1, <1>2, <1>3, <1>7, <1>8, Zenon

LEMMA RecordKeeps ==
  ASSUME ImportInv, DirectInv, step \in DirectSteps,
         UNCHANGED <<expansionVars, directSpec, required>>,
         NEW name, NEW inputs, NEW then, Record(name, inputs, then),
         NEW c, TurnNow(spec.shape, directSpec.tokens, step, pass, layer) = c, ~Earlier(c, c),
         IsBoundary(spec.shape, directSpec.tokens, name), TurnOf(spec.shape, directSpec.tokens, name, c),
         NEW d, Follow(spec.shape, directSpec.tokens, c, d),
         TakenOf(spec.shape, name, inputs) = ReadsOf(spec, name, DirectKeys(directSpec.tokens))
  PROVE  /\ step' = then
         /\ DOMAIN records' = BoundariesBefore(spec.shape, directSpec.tokens, d)
         /\ \A x \in DOMAIN records' : records'[x] = ReadsOf(spec, x, DirectKeys(directSpec.tokens))
<1> DEFINE n == directSpec.tokens
           s == spec.shape
           given == Reads(name, inputs)
<1>1. step # "none" /\ step # "refused"
  BY DEF DirectSteps
<1>2. /\ IsRun(spec) /\ n \in Nat /\ s.layers \in Nat
      /\ directSpec.compare => n = spec.tokens /\ directSpec.batches = spec.batches
  BY <1>1, DirectRunIs, Zenon
<1>3. /\ IsImported /\ phase = "expanded" /\ required = BoundaryNames(s, n)
      /\ directSpec.compare => StageNames = ReferenceNames(s, n, directSpec.batches)
      /\ DOMAIN records = BoundariesBefore(s, n, c)
      /\ \A x \in DOMAIN records : records[x] = ReadsOf(spec, x, DirectKeys(n))
  BY <1>1, Zenon DEF DirectInv, DirectStarted, Recorded
<1>4. /\ name \notin BoundariesBefore(s, n, c)
      /\ BoundariesBefore(s, n, d) = BoundariesBefore(s, n, c) \cup {name}
      /\ name \in BoundaryNames(s, n)
  BY <1>2, RecordMoves
<1>5. given = ReadsOf(spec, name, DirectKeys(n))
  BY Zenon DEF Reads, TakenOf, Shape
<1>6. Accepted(name, inputs)
  <2>1. name \in required /\ name \notin DOMAIN records
    BY <1>3, <1>4, Zenon
  <2>2. ASSUME directSpec.compare PROVE name \in StageNames /\ given = ChainReads(name)
    <3>1. name \in ReferenceNames(s, n, directSpec.batches)
      BY <1>4 DEF ReferenceNames
    <3>2. name \in StageNames
      BY <1>3, <2>2, <3>1, Zenon
    <3>3. ChainReads(name) = ReadsOf(spec, name, Behind(spec))
      BY <1>3, <3>2, ChainReadsAre, Zenon
    <3>4. DirectKeys(n).edge = Behind(spec).edge
      BY <1>2, <2>2 DEF DirectKeys, Behind, EdgeBefore
    <3>5. ReadsOf(spec, name, DirectKeys(n)) = ReadsOf(spec, name, Behind(spec))
      BY <1>2, <3>4, KeysAreTheSame
    <3> QED
      BY <1>5, <3>2, <3>3, <3>5, Zenon
  <2> QED
    BY <2>1, <2>2, Zenon DEF Accepted
<1>7. step' = then /\ records' = Extended(records, [x \in {name} |-> given])
  BY <1>6, Zenon DEF Record
<1> HIDE DEF given
<1>8. /\ DOMAIN records' = DOMAIN records \cup {name}
      /\ \A x \in DOMAIN records' : records'[x] = IF x = name THEN given ELSE records[x]
  BY <1>7 DEF Extended
<1> QED
  BY <1>3, <1>4, <1>5, <1>7, <1>8, Zenon

LEMMA DirectGoesOn ==
  ASSUME DirectInv, step \in DirectSteps, UNCHANGED <<expansionVars, directSpec, required>>, step' \in DirectSteps,
         Recorded(spec, directSpec.tokens, step', pass', layer', records'),
         ValuesAt(spec.shape, directSpec.tokens, step', pass', layer', seed', current', layerOutputs', priorLayers',
                  logits', edge')
  PROVE  DirectInv'
<1>1. /\ spec' = spec /\ phase' = phase /\ chain' = chain /\ directSpec' = directSpec /\ required' = required
  BY DEF expansionVars
<1>2. step # "none" /\ step # "refused" /\ step' # "none" /\ step' # "refused"
  BY DEF DirectSteps
<1>3. /\ IsImported /\ phase = "expanded"
      /\ directSpec.tokens \in Nat /\ directSpec.batches \in Nat
      /\ required = BoundaryNames(spec.shape, directSpec.tokens)
      /\ ~(directSpec.compare /\ StageNames # ReferenceNames(spec.shape, directSpec.tokens, directSpec.batches))
  BY <1>2, Zenon DEF DirectInv, DirectStarted
<1>4. IsImported' /\ StageNames' = StageNames
  BY <1>1, <1>3 DEF IsImported, ByHand, StageNames
<1>5. /\ directSpec'.tokens = directSpec.tokens /\ directSpec'.batches = directSpec.batches
      /\ directSpec'.compare = directSpec.compare /\ spec'.shape = spec.shape
  BY <1>1, Zenon
<1>6. phase' = "expanded" /\ directSpec'.tokens \in Nat /\ directSpec'.batches \in Nat
      /\ required' = BoundaryNames(spec'.shape, directSpec'.tokens)
  BY <1>1, <1>3, <1>5, Zenon
<1>7. ~(directSpec'.compare /\ StageNames' # ReferenceNames(spec'.shape, directSpec'.tokens, directSpec'.batches))
  BY <1>3, <1>4, <1>5, Zenon
<1>8. Recorded(spec', directSpec'.tokens, step', pass', layer', records')
  BY <1>1, Zenon
<1>9. ValuesAt(spec'.shape, directSpec'.tokens, step', pass', layer', seed', current', layerOutputs', priorLayers',
               logits', edge')
  BY <1>5, Zenon
<1>10. step' \in DirectSteps \cup {"refused"}
  OBVIOUS
<1>11. DirectStarted'
  BY <1>2, <1>4, <1>6, <1>7, <1>8, <1>9, <1>10, Zenon DEF DirectStarted
<1> QED
  BY <1>2, <1>11, Zenon DEF DirectInv

LEMMA DirectRecords ==
  ASSUME ImportInv, DirectInv, step \in DirectSteps,
         UNCHANGED <<expansionVars, directSpec, required>>,
         NEW name, NEW inputs, NEW then \in DirectSteps, Record(name, inputs, then),
         NEW c, TurnNow(spec.shape, directSpec.tokens, step, pass, layer) = c, ~Earlier(c, c),
         IsBoundary(spec.shape, directSpec.tokens, name), TurnOf(spec.shape, directSpec.tokens, name, c),
         NEW d, Follow(spec.shape, directSpec.tokens, c, d),
         TakenOf(spec.shape, name, inputs) = ReadsOf(spec, name, DirectKeys(directSpec.tokens)),
         TurnNow(spec.shape, directSpec.tokens, then, pass', layer') = d,
         ValuesAt(spec.shape, directSpec.tokens, then, pass', layer', seed', current', layerOutputs', priorLayers',
                  logits', edge')
  PROVE  DirectInv'
<1>1. /\ step' = then
      /\ DOMAIN records' = BoundariesBefore(spec.shape, directSpec.tokens, d)
      /\ \A x \in DOMAIN records' : records'[x] = ReadsOf(spec, x, DirectKeys(directSpec.tokens))
  BY RecordKeeps
<1>2. TurnNow(spec.shape, directSpec.tokens, step', pass', layer') = d
  BY <1>1, Zenon
<1>3. Recorded(spec, directSpec.tokens, step', pass', layer', records')
  BY <1>1, <1>2, Zenon DEF Recorded
<1>4. ValuesAt(spec.shape, directSpec.tokens, step', pass', layer', seed', current', layerOutputs', priorLayers',
               logits', edge')
  BY <1>1, Zenon
<1>5. step' \in DirectSteps
  BY <1>1, Zenon
<1> QED
  BY <1>3, <1>4, <1>5, DirectGoesOn, Zenon

LEMMA ValuesNow ==
  ASSUME ImportInv, DirectInv, step \in DirectSteps
  PROVE  /\ IsRun(spec) /\ directSpec.tokens \in Nat /\ directSpec.batches \in Nat
         /\ spec.shape.layers \in Nat /\ spec.shape.layers > 0
         /\ ValuesAt(spec.shape, directSpec.tokens, step, pass, layer, seed, current, layerOutputs, priorLayers, logits, edge)
<1>1. step # "none" /\ step # "refused"
  BY DEF DirectSteps
<1>2. /\ IsRun(spec) /\ directSpec.tokens \in Nat /\ directSpec.batches \in Nat
      /\ spec.shape.layers \in Nat /\ spec.shape.layers > 0
  BY <1>1, DirectRunIs, Zenon
<1>3. DirectStarted
  BY <1>1, Zenon DEF DirectInv
<1> QED
  BY <1>2, <1>3, Zenon DEF DirectStarted

LEMMA PromptKeeps == ImportInv /\ DirectInv /\ Prompt => DirectInv'
<1> SUFFICES ASSUME ImportInv, DirectInv, Prompt PROVE DirectInv'
  OBVIOUS
<1> DEFINE n == directSpec.tokens
           s == spec.shape
           name == Single("prompt_prepare")
           c == <<-2, 0, 0>>
           d == <<-1, 0, 0>>
<1>1. /\ step = "prompt" /\ UNCHANGED <<expansionVars, directSpec, required>>
      /\ Record(name, [tokenizer |-> Single("tokenizer")], "embedding")
      /\ UNCHANGED <<pass, layer, valueVars>>
  BY DEF Prompt, At
<1>2. step \in DirectSteps /\ "embedding" \in DirectSteps
  BY <1>1 DEF DirectSteps
<1>3. /\ n \in Nat /\ s.layers \in Nat /\ s.layers > 0
      /\ ValuesAt(s, n, step, pass, layer, seed, current, layerOutputs, priorLayers, logits, edge)
  BY <1>2, ValuesNow, Zenon
<1>4. TurnNow(s, n, step, pass, layer) = c /\ ~Earlier(c, c) /\ TurnNow(s, n, "embedding", pass', layer') = d
  BY <1>1 DEF TurnNow, Earlier
<1>5. IsBoundary(s, n, name)
  BY Zenon DEF IsBoundary
<1>6. TurnOf(s, n, name, c)
  BY <1>3, FixedTurns, Zenon
<1>7. Follow(s, n, c, d)
  BY <1>3, TurnsFollow
<1>8. TakenOf(s, name, [tokenizer |-> Single("tokenizer")]) = ReadsOf(spec, name, DirectKeys(n))
  BY TakesPrompt, Zenon
<1>9. ValuesAt(s, n, "embedding", pass', layer', seed', current', layerOutputs', priorLayers', logits', edge')
  BY <1>1, <1>3 DEF ValuesAt, valueVars
<1> HIDE DEF n, s, name, c, d
<1> QED
  BY <1>1, <1>2, <1>4, <1>5, <1>6, <1>7, <1>8, <1>9, DirectRecords DEF n, s

LEMMA PassIs ==
  ASSUME NEW s, s.layers \in Nat, NEW n \in Nat, NEW p, IsPass(n, p)
  PROVE  (p = -1 \/ p \in 0 .. (n - 2)) /\ (p = -1 \/ p \in Nat) /\ p \in Int
<1>1. p = -1 \/ p \in 0 .. (n - 2)
  BY Zenon DEF IsPass
<1> QED
  BY <1>1

LEMMA LayersAre ==
  ASSUME NEW s, s.layers \in Nat, NEW n, NEW p, NEW l, NEW sd, NEW cu, NEW lo, NEW pl, NEW ed,
         InLayers(s, n, p, l, sd, cu, lo, pl, ed), l # s.layers
  PROVE  /\ IsPass(n, p) /\ l \in 0 .. (s.layers - 1)
         /\ sd = StartOf(p) /\ cu = LowerOf(p, l)
         /\ lo = Caches(p, l) /\ pl = CachesBefore(s, p)
         /\ p # -1 => ed = SelectName(p)
<1>1. l \in 0 .. s.layers
  BY Zenon DEF InLayers
<1>2. l \in 0 .. (s.layers - 1)
  BY <1>1
<1> QED
  BY <1>2, Zenon DEF InLayers

LEMMA LayerBoundaries ==
  ASSUME NEW s, s.layers \in Nat, NEW n \in Nat, NEW p, IsPass(n, p), NEW l \in 0 .. (s.layers - 1)
  PROVE  /\ IsBoundary(s, n, AuxName(p, l)) /\ TurnOf(s, n, AuxName(p, l), <<p, l + 1, 0>>)
         /\ Follow(s, n, <<p, l + 1, 0>>, <<p, l + 1, 1>>)
         /\ IsBoundary(s, n, RangeName(p, l)) /\ TurnOf(s, n, RangeName(p, l), <<p, l + 1, 1>>)
         /\ Follow(s, n, <<p, l + 1, 1>>, <<p, (l + 1) + 1, 0>>)
         /\ ~Earlier(<<p, l + 1, 0>>, <<p, l + 1, 0>>) /\ ~Earlier(<<p, l + 1, 1>>, <<p, l + 1, 1>>)
<1>1. (p = -1 \/ p \in 0 .. (n - 2)) /\ p \in Int
  BY PassIs, Zenon
<1>2. /\ Follow(s, n, <<p, l + 1, 0>>, <<p, l + 1, 1>>)
      /\ Follow(s, n, <<p, l + 1, 1>>, <<p, (l + 1) + 1, 0>>)
  BY <1>1, LayerTurnsFollow
<1>3. CASE p = -1
  <2>1. AuxName(p, l) = Name("prefill_prepare_aux", 0, l) /\ RangeName(p, l) = Name("prefill_range", 0, l)
    BY <1>3, PassNamesAre
  <2>2. /\ TurnOf(s, n, Name("prefill_prepare_aux", 0, l), <<-1, l + 1, 0>>)
        /\ TurnOf(s, n, Name("prefill_range", 0, l), <<-1, l + 1, 1>>)
    BY PrefillTurns
  <2>3. /\ IsBoundary(s, n, Name("prefill_prepare_aux", 0, l))
        /\ IsBoundary(s, n, Name("prefill_range", 0, l))
    BY Zenon DEF IsBoundary
  <2>4. ~Earlier(<<p, l + 1, 0>>, <<p, l + 1, 0>>) /\ ~Earlier(<<p, l + 1, 1>>, <<p, l + 1, 1>>)
    BY <1>1 DEF Earlier
  <2> QED
    BY <1>2, <1>3, <2>1, <2>2, <2>3, <2>4
<1>4. CASE p \in 0 .. (n - 2)
  <2>0. p \in Nat
    BY <1>4
  <2>1. AuxName(p, l) = Name("decode_aux", p, l) /\ RangeName(p, l) = Name("decode_range", p, l)
    BY <2>0, PassNamesAre
  <2>2. /\ TurnOf(s, n, Name("decode_aux", p, l), <<p, l + 1, 0>>)
        /\ TurnOf(s, n, Name("decode_range", p, l), <<p, l + 1, 1>>)
    BY <1>4, DecodeTurns
  <2>3. /\ IsBoundary(s, n, Name("decode_aux", p, l))
        /\ IsBoundary(s, n, Name("decode_range", p, l))
    BY <1>4, Zenon DEF IsBoundary
  <2>4. ~Earlier(<<p, l + 1, 0>>, <<p, l + 1, 0>>) /\ ~Earlier(<<p, l + 1, 1>>, <<p, l + 1, 1>>)
    BY <1>1 DEF Earlier
  <2> QED
    BY <1>2, <2>1, <2>2, <2>3, <2>4
<1> QED
  BY <1>1, <1>3, <1>4

LEMMA EmbedKeeps == ImportInv /\ DirectInv /\ Embed => DirectInv'
<1> SUFFICES ASSUME ImportInv, DirectInv, Embed PROVE DirectInv'
  OBVIOUS
<1> DEFINE n == directSpec.tokens
           s == spec.shape
           name == Embedding
           inputs == [prompt |-> Single("prompt_prepare"), embedding |-> Single("embedding")]
           then == "aux"
           c == <<-1, 0, 0>>
           d == <<-1, 1, 0>>
<1>1. /\ step = "embedding" /\ UNCHANGED <<expansionVars, directSpec, required>>
      /\ Record(name, inputs, then)
      /\ seed' = Embedding /\ current' = Embedding
      /\ UNCHANGED <<pass, layer, layerOutputs, priorLayers, logits, edge>>
  BY DEF Embed, At, Shape
<1>2. step \in DirectSteps /\ then \in DirectSteps
  BY <1>1 DEF DirectSteps
<1>3. /\ IsRun(spec) /\ n \in Nat /\ s.layers \in Nat /\ s.layers > 0
      /\ ValuesAt(s, n, step, pass, layer, seed, current, layerOutputs, priorLayers, logits, edge)
  BY <1>2, ValuesNow, Zenon
<1>10. pass = -1 /\ layer = 0 /\ layerOutputs = <<>> /\ priorLayers = <<>>
  BY <1>1, <1>3, Zenon DEF ValuesAt, BetweenPasses, CachesBefore
<1>4. TurnNow(s, n, step, pass, layer) = c /\ ~Earlier(c, c) /\ TurnNow(s, n, then, pass', layer') = d
  BY <1>1, <1>10 DEF TurnNow, Earlier
<1>5. IsBoundary(s, n, name)
  BY Zenon DEF IsBoundary, Embedding
<1>6. TurnOf(s, n, name, c)
  BY <1>3, FixedTurns, Zenon DEF Embedding
<1>7. Follow(s, n, c, d)
  BY <1>3, TurnsFollow
<1>8. TakenOf(s, name, inputs) = ReadsOf(spec, name, DirectKeys(n))
  BY TakesEmbedding, Zenon
<1>9. ValuesAt(s, n, then, pass', layer', seed', current', layerOutputs', priorLayers', logits', edge')
  <2>1. /\ pass' = -1 /\ layer' = 0 /\ layerOutputs' = Caches(pass', 0) /\ priorLayers' = CachesBefore(s, pass')
    BY <1>1, <1>10, EmptyCaches DEF CachesBefore
  <2>2. seed' = StartOf(pass') /\ current' = LowerOf(pass', layer')
    BY <1>1, <2>1 DEF StartOf, LowerOf
  <2>3. InLayers(s, n, pass', layer', seed', current', layerOutputs', priorLayers', edge')
    BY <1>3, <2>1, <2>2 DEF InLayers, IsPass
  <2> HIDE DEF n, s
  <2>4. layer' # s.layers
    BY <1>3, <2>1
  <2> QED
    BY <2>3, <2>4 DEF ValuesAt
<1> HIDE DEF n, s, name, inputs, then, c, d
<1> QED
  BY <1>1, <1>2, <1>4, <1>5, <1>6, <1>7, <1>8, <1>9, DirectRecords DEF n, s

LEMMA AuxKeeps == ImportInv /\ DirectInv /\ Aux => DirectInv'
<1> SUFFICES ASSUME ImportInv, DirectInv, Aux PROVE DirectInv'
  OBVIOUS
<1> DEFINE n == directSpec.tokens
           s == spec.shape
           name == AuxName(pass, layer)
           inputs == [embedded |-> seed, layer |-> Name("aux_layer", 0, layer)]
           then == "range"
           c == <<pass, layer + 1, 0>>
           d == <<pass, layer + 1, 1>>
<1>1. /\ step = "aux" /\ UNCHANGED <<expansionVars, directSpec, required>>
      /\ Record(name, inputs, then)
      /\ UNCHANGED <<pass, layer, valueVars>>
  BY DEF Aux, At, Shape
<1>2. step \in DirectSteps /\ then \in DirectSteps
  BY <1>1 DEF DirectSteps
<1>3. /\ IsRun(spec) /\ n \in Nat /\ s.layers \in Nat /\ s.layers > 0
      /\ ValuesAt(s, n, step, pass, layer, seed, current, layerOutputs, priorLayers, logits, edge)
  BY <1>2, ValuesNow, Zenon
<1>10. InLayers(s, n, pass, layer, seed, current, layerOutputs, priorLayers, edge) /\ layer # s.layers
  BY <1>1, <1>3 DEF ValuesAt
<1>11. /\ IsPass(n, pass) /\ layer \in 0 .. (s.layers - 1)
       /\ seed = StartOf(pass) /\ current = LowerOf(pass, layer)
       /\ layerOutputs = Caches(pass, layer) /\ priorLayers = CachesBefore(s, pass)
       /\ pass # -1 => edge = SelectName(pass)
  BY <1>3, <1>10, LayersAre, Zenon
<1>12. (pass = -1 \/ pass \in 0 .. (n - 2)) /\ (pass = -1 \/ pass \in Nat) /\ pass \in Int
  BY <1>3, <1>11, PassIs, Zenon
<1>13. /\ IsBoundary(s, n, AuxName(pass, layer)) /\ TurnOf(s, n, AuxName(pass, layer), <<pass, layer + 1, 0>>)
       /\ Follow(s, n, <<pass, layer + 1, 0>>, <<pass, layer + 1, 1>>)
       /\ IsBoundary(s, n, RangeName(pass, layer)) /\ TurnOf(s, n, RangeName(pass, layer), <<pass, layer + 1, 1>>)
       /\ Follow(s, n, <<pass, layer + 1, 1>>, <<pass, (layer + 1) + 1, 0>>)
       /\ ~Earlier(<<pass, layer + 1, 0>>, <<pass, layer + 1, 0>>)
       /\ ~Earlier(<<pass, layer + 1, 1>>, <<pass, layer + 1, 1>>)
  BY <1>3, <1>11, LayerBoundaries, Zenon
<1>4. TurnNow(s, n, step, pass, layer) = c /\ ~Earlier(c, c) /\ TurnNow(s, n, then, pass', layer') = d
  <2> HIDE DEF n, s
  <2>1. TurnNow(s, n, step, pass, layer) = c /\ TurnNow(s, n, then, pass', layer') = d
    BY <1>1 DEF TurnNow
  <2> QED
    BY <1>13, <2>1
<1>5. IsBoundary(s, n, name)
  BY <1>13, Zenon
<1>6. TurnOf(s, n, name, c)
  BY <1>13, Zenon
<1>7. Follow(s, n, c, d)
  BY <1>13, Zenon
<1>8. TakenOf(s, name, inputs) = ReadsOf(spec, name, DirectKeys(n))
  <2>1. TakenOf(s, AuxName(pass, layer), [embedded |-> StartOf(pass), layer |-> Name("aux_layer", 0, layer)])
          = ReadsOf(spec, AuxName(pass, layer), DirectKeys(n))
    BY <1>12, TakesAux
  <2> QED
    BY <1>11, <2>1, Zenon
<1>9. ValuesAt(s, n, then, pass', layer', seed', current', layerOutputs', priorLayers', logits', edge')
  <2>1. InLayers(s, n, pass', layer', seed', current', layerOutputs', priorLayers', edge') /\ layer' # s.layers
    BY <1>1, <1>10 DEF valueVars
  <2> HIDE DEF n, s
  <2> QED
    BY <2>1 DEF ValuesAt
<1> HIDE DEF n, s, name, inputs, then, c, d
<1> QED
  BY <1>1, <1>2, <1>4, <1>5, <1>6, <1>7, <1>8, <1>9, DirectRecords DEF n, s

(* What the direct runtime hands to a layer. *)
LEMMA DonorIsComputed ==
  ASSUME NEW s, IsShape(s), DonorsBound(s), NEW l \in Layers(s), NEW p, NEW donor,
         donor = DonorA(s) \/ donor = DonorB(s), KvDonor(s, l) = donor
  PROVE  /\ donor >= 0 /\ donor < Len(Caches(p, l)) /\ Caches(p, l)[donor + 1] = RangeName(p, donor)
         /\ ~(l < FirstShared(s))
<1>1. l >= FirstShared(s) /\ donor \in 0 .. (FirstShared(s) - 1)
  BY DonorsAreNone, Zenon
<1>2. l \in Nat /\ FirstShared(s) \in Nat
  BY BoundDonors
<1>3. donor \in 0 .. (l - 1) /\ ~(l < FirstShared(s)) /\ donor >= 0 /\ donor < l
  BY <1>1, <1>2
<1>4. Len(Caches(p, l)) = l /\ Caches(p, l)[donor + 1] = RangeName(p, donor)
  BY <1>2, <1>3, MoreCaches, Zenon
<1> QED
  BY <1>3, <1>4

LEMMA PriorIsKept ==
  ASSUME NEW s, s.layers \in Nat, NEW p, p = -1 \/ p \in Nat, NEW l \in 0 .. (s.layers - 1)
  PROVE  PriorOf(p, l) = IF l < Len(CachesBefore(s, p)) THEN CachesBefore(s, p)[l + 1] ELSE Embedding
<1>1. CASE p = -1
  <2>1. CachesBefore(s, p) = <<>> /\ PriorOf(p, l) = Embedding
    BY <1>1 DEF CachesBefore, PriorOf
  <2> QED
    BY <2>1
<1>2. CASE p \in Nat
  <2>1. CachesBefore(s, p) = Caches(p - 1, s.layers) /\ PriorOf(p, l) = RangeName(p - 1, l)
    BY <1>2 DEF CachesBefore, PriorOf
  <2>2. Len(Caches(p - 1, s.layers)) = s.layers /\ Caches(p - 1, s.layers)[l + 1] = RangeName(p - 1, l)
    BY MoreCaches, Zenon
  <2> QED
    BY <2>1, <2>2
<1> QED
  BY <1>1, <1>2

LEMMA RangeStageKeeps == ImportInv /\ DirectInv /\ RangeStage => DirectInv'
<1> SUFFICES ASSUME ImportInv, DirectInv, RangeStage PROVE DirectInv'
  OBVIOUS
<1> DEFINE n == directSpec.tokens
           s == spec.shape
           name == RangeName(pass, layer)
           inputs == [activations |-> current,
                      prior_kv |-> PriorCache(layer),
                      donor_a_kv |-> DonorInput(DonorA(s)),
                      donor_b_kv |-> DonorInput(DonorB(s)),
                      ple |-> AuxName(pass, layer),
                      layer |-> Name("transformer_layer", 0, layer)]
           then == IF layer + 1 = s.layers THEN "finalize" ELSE "aux"
           c == <<pass, layer + 1, 1>>
           d == <<pass, (layer + 1) + 1, 0>>
<1>1. /\ step = "range" /\ UNCHANGED <<expansionVars, directSpec, required>>
      /\ Record(name, inputs, then)
      /\ current' = name
      /\ layerOutputs' = Append(layerOutputs, name)
      /\ layer' = layer + 1
      /\ UNCHANGED <<pass, seed, priorLayers, logits, edge>>
  BY DEF RangeStage, At, Shape
<1>2. step \in DirectSteps /\ then \in DirectSteps
  BY <1>1 DEF DirectSteps
<1>3. /\ IsRun(spec) /\ n \in Nat /\ s.layers \in Nat /\ s.layers > 0
      /\ ValuesAt(s, n, step, pass, layer, seed, current, layerOutputs, priorLayers, logits, edge)
  BY <1>2, ValuesNow, Zenon
<1>10. InLayers(s, n, pass, layer, seed, current, layerOutputs, priorLayers, edge) /\ layer # s.layers
  BY <1>1, <1>3 DEF ValuesAt
<1>11. /\ IsPass(n, pass) /\ layer \in 0 .. (s.layers - 1)
       /\ seed = StartOf(pass) /\ current = LowerOf(pass, layer)
       /\ layerOutputs = Caches(pass, layer) /\ priorLayers = CachesBefore(s, pass)
       /\ pass # -1 => edge = SelectName(pass)
  BY <1>3, <1>10, LayersAre, Zenon
<1>12. (pass = -1 \/ pass \in 0 .. (n - 2)) /\ (pass = -1 \/ pass \in Nat) /\ pass \in Int
  BY <1>3, <1>11, PassIs, Zenon
<1>13. /\ IsBoundary(s, n, AuxName(pass, layer)) /\ TurnOf(s, n, AuxName(pass, layer), <<pass, layer + 1, 0>>)
       /\ Follow(s, n, <<pass, layer + 1, 0>>, <<pass, layer + 1, 1>>)
       /\ IsBoundary(s, n, RangeName(pass, layer)) /\ TurnOf(s, n, RangeName(pass, layer), <<pass, layer + 1, 1>>)
       /\ Follow(s, n, <<pass, layer + 1, 1>>, <<pass, (layer + 1) + 1, 0>>)
       /\ ~Earlier(<<pass, layer + 1, 0>>, <<pass, layer + 1, 0>>)
       /\ ~Earlier(<<pass, layer + 1, 1>>, <<pass, layer + 1, 1>>)
  BY <1>3, <1>11, LayerBoundaries, Zenon
<1>14. layer' = layer + 1 /\ pass' = pass
  BY <1>1
<1>15. IsShape(s) /\ DonorsBound(s) /\ Layers(s) = 0 .. (s.layers - 1)
  BY <1>3, BoundDonors DEF IsRun
<1>4. TurnNow(s, n, step, pass, layer) = c /\ ~Earlier(c, c) /\ TurnNow(s, n, then, pass', layer') = d
  <2> DEFINE e == s.layers
  <2>1. TurnNow(s, n, step, pass, layer) = c
    BY <1>1 DEF TurnNow
  <2>2. CASE layer + 1 = s.layers
    <3>1. then = "finalize" /\ s.layers + 1 = (layer + 1) + 1
      BY <2>2
    <3> HIDE DEF then, n, s
    <3>2. TurnNow(s, n, then, pass', layer') = <<pass', s.layers + 1, 0>>
      BY <3>1 DEF TurnNow
    <3> QED
      BY <1>13, <1>14, <2>1, <3>1, <3>2
  <2>3. CASE layer + 1 # s.layers
    <3>1. then = "aux"
      BY <2>3
    <3> HIDE DEF then, n, s
    <3>2. TurnNow(s, n, then, pass', layer') = <<pass', layer' + 1, 0>>
      BY <3>1 DEF TurnNow
    <3> QED
      BY <1>13, <1>14, <2>1, <3>2
  <2> QED
    BY <2>2, <2>3
<1>5. IsBoundary(s, n, name)
  BY <1>13, Zenon
<1>6. TurnOf(s, n, name, c)
  BY <1>13, Zenon
<1>7. Follow(s, n, c, d)
  BY <1>13, Zenon
<1>8. TakenOf(s, name, inputs) = ReadsOf(spec, name, DirectKeys(n))
  <2>1. layer \in Layers(s)
    BY <1>11, <1>15, Zenon
  <2>2. PriorCache(layer) = PriorOf(pass, layer)
    BY <1>3, <1>11, <1>12, PriorIsKept, Zenon DEF PriorCache
  <2>3. ASSUME NEW donor, donor = DonorA(s) \/ donor = DonorB(s), KvDonor(s, layer) = donor
        PROVE  DonorInput(donor) = DonorOf(spec, pass, layer, donor)
    <3>1. IsShape(s) /\ DonorsBound(s) /\ layer \in Layers(s)
      BY <1>15, <2>1
    <3>2. (donor = DonorA(s) \/ donor = DonorB(s)) /\ KvDonor(s, layer) = donor
      BY <2>3, Zenon
    <3> HIDE DEF s, n, name, inputs, then, c, d
    <3>3. /\ donor >= 0 /\ donor < Len(Caches(pass, layer)) /\ Caches(pass, layer)[donor + 1] = RangeName(pass, donor)
          /\ ~(layer < FirstShared(s))
      BY <3>1, <3>2, DonorIsComputed, ZenonT(60)
    <3>4. DonorInput(donor) = RangeName(pass, donor)
      BY <1>11, <3>3, Zenon DEF DonorInput
    <3>5. DonorOf(spec, pass, layer, donor) = RangeName(pass, donor)
      BY <3>3, Zenon DEF DonorOf, s
    <3> QED
      BY <3>4, <3>5, Zenon
  <2> DEFINE a == DonorInput(DonorA(s))
             b == DonorInput(DonorB(s))
  <2>4. /\ KvDonor(s, layer) = DonorA(s) => a = DonorOf(spec, pass, layer, DonorA(s))
        /\ KvDonor(s, layer) = DonorB(s) => b = DonorOf(spec, pass, layer, DonorB(s))
    BY <2>3, Zenon
  <2>5. inputs = [activations |-> LowerOf(pass, layer), prior_kv |-> PriorOf(pass, layer), donor_a_kv |-> a,
                  donor_b_kv |-> b, ple |-> AuxName(pass, layer), layer |-> Name("transformer_layer", 0, layer)]
    BY <1>11, <2>2, Zenon
  <2> HIDE DEF a, b, inputs
  <2>6. TakenOf(s, name, [activations |-> LowerOf(pass, layer), prior_kv |-> PriorOf(pass, layer), donor_a_kv |-> a,
                  donor_b_kv |-> b, ple |-> AuxName(pass, layer), layer |-> Name("transformer_layer", 0, layer)])
          = ReadsOf(spec, name, DirectKeys(n))
    BY <1>3, <1>12, <2>1, <2>4, TakesRange, Zenon
  <2> QED
    BY <2>5, <2>6, Zenon
<1>9. ValuesAt(s, n, then, pass', layer', seed', current', layerOutputs', priorLayers', logits', edge')
  <2>1. layer' \in 0 .. s.layers /\ layer' - 1 = layer /\ layer' # 0
    BY <1>3, <1>11, <1>14
  <2>2. current' = LowerOf(pass', layer')
    <3>1. LowerOf(pass', layer') = RangeName(pass', layer' - 1)
      BY <2>1, Zenon DEF LowerOf
    <3> QED
      BY <1>1, <1>14, <2>1, <3>1, Zenon
  <2>3. layerOutputs' = Caches(pass', layer')
    <3>1. layer \in Nat
      BY <1>3, <1>11
    <3>2. Append(Caches(pass, layer), RangeName(pass, layer)) = Caches(pass, layer + 1)
      BY <3>1, MoreCaches, Zenon
    <3> QED
      BY <1>1, <1>11, <1>14, <3>2, Zenon
  <2>4. InLayers(s, n, pass', layer', seed', current', layerOutputs', priorLayers', edge')
    <3>1. seed' = seed /\ priorLayers' = priorLayers /\ edge' = edge
      BY <1>1
    <3> QED
      BY <1>11, <1>14, <2>1, <2>2, <2>3, <3>1, Zenon DEF InLayers
  <2>5. (then = "finalize" <=> layer' = s.layers) /\ then \in {"finalize", "aux"}
    BY <1>14
  <2> HIDE DEF n, s, then
  <2> QED
    BY <2>4, <2>5 DEF ValuesAt
<1> HIDE DEF n, s, name, inputs, then, c, d
<1> QED
  BY <1>1, <1>2, <1>4, <1>5, <1>6, <1>7, <1>8, <1>9, DirectRecords DEF n, s

LEMMA FinalizePrefillKeeps == ImportInv /\ DirectInv /\ Finalize /\ pass = -1 => DirectInv'
<1> SUFFICES ASSUME ImportInv, DirectInv, Finalize, pass = -1 PROVE DirectInv'
  OBVIOUS
<1> DEFINE n == directSpec.tokens
           s == spec.shape
           name == FinalizeName(pass)
           inputs == [activations |-> current, head |-> Single("head")]
           then == "init"
           c == <<-1, s.layers + 1, 0>>
           d == <<-1, s.layers + 2, 0>>
<1>1. /\ step = "finalize" /\ UNCHANGED <<expansionVars, directSpec, required>>
      /\ Record(name, inputs, then)
      /\ logits' = FinalizeName(pass)
      /\ priorLayers' = layerOutputs
      /\ layerOutputs' = <<>>
      /\ layer' = 0
      /\ pass' = pass + 1
      /\ UNCHANGED <<seed, current, edge>>
  BY DEF Finalize, At, Shape
<1>2. step \in DirectSteps /\ then \in DirectSteps
  BY <1>1 DEF DirectSteps
<1>3. /\ IsRun(spec) /\ n \in Nat /\ s.layers \in Nat /\ s.layers > 0
      /\ ValuesAt(s, n, step, pass, layer, seed, current, layerOutputs, priorLayers, logits, edge)
  BY <1>2, ValuesNow, Zenon
<1>10. InLayers(s, n, pass, layer, seed, current, layerOutputs, priorLayers, edge) /\ layer = s.layers
  BY <1>1, <1>3 DEF ValuesAt
<1>11. /\ IsPass(n, pass) /\ layer = s.layers
       /\ current = LowerOf(pass, layer) /\ layerOutputs = Caches(pass, s.layers)
       /\ pass # -1 => edge = SelectName(pass)
  BY <1>3, <1>10, Zenon DEF InLayers
<1>12. (pass = -1 \/ pass \in 0 .. (n - 2)) /\ (pass = -1 \/ pass \in Nat) /\ pass \in Int
  BY <1>3, <1>11, PassIs, Zenon
<1>13. current = RangeName(pass, s.layers - 1)
  <2>1. layer # 0
    BY <1>3, <1>11
  <2> QED
    BY <1>11, <2>1, Zenon DEF LowerOf
<1>4. TurnNow(s, n, step, pass, layer) = c /\ ~Earlier(c, c) /\ TurnNow(s, n, then, pass', layer') = d
  <2> HIDE DEF n, s
  <2> QED
    BY <1>1, <1>3 DEF TurnNow, Earlier
<1>5. IsBoundary(s, n, name)
  <2>1. FinalizeName(pass) = Single("prefill_finalize")
    BY PassNamesAre
  <2> QED
    BY <2>1, Zenon DEF IsBoundary
<1>6. TurnOf(s, n, name, c)
  <2>1. FinalizeName(pass) = Single("prefill_finalize")
    BY PassNamesAre
  <2> QED
    BY <1>3, <2>1, FixedTurns, Zenon
<1>7. Follow(s, n, c, d)
  BY <1>3, TurnsFollow
<1>8. TakenOf(s, name, inputs) = ReadsOf(spec, name, DirectKeys(n))
  <2>1. TakenOf(s, FinalizeName(pass), [activations |-> RangeName(pass, s.layers - 1), head |-> Single("head")])
          = ReadsOf(spec, FinalizeName(pass), DirectKeys(n))
    BY <1>12, TakesFinalize, Zenon
  <2> QED
    BY <1>13, <2>1, Zenon
<1>9. ValuesAt(s, n, then, pass', layer', seed', current', layerOutputs', priorLayers', logits', edge')
  <2>1. pass' = 0 /\ 0 - 1 = -1 /\ 0 # -1
    BY <1>1
  <2>2. CachesBefore(s, 0) = Caches(-1, s.layers)
    BY <2>1, Zenon DEF CachesBefore
  <2>3. BetweenPasses(s, pass', layer', layerOutputs', priorLayers') /\ logits' = FinalizeName(-1)
    BY <1>1, <1>11, <2>1, <2>2, Zenon DEF BetweenPasses
  <2> HIDE DEF n, s
  <2> QED
    BY <2>1, <2>3 DEF ValuesAt
<1> HIDE DEF n, s, name, inputs, then, c, d
<1> QED
  BY <1>1, <1>2, <1>4, <1>5, <1>6, <1>7, <1>8, <1>9, DirectRecords DEF n, s

LEMMA FinalizeDecodeKeeps == ImportInv /\ DirectInv /\ Finalize /\ ~(pass < 0) => DirectInv'
<1> SUFFICES ASSUME ImportInv, DirectInv, Finalize, ~(pass < 0) PROVE DirectInv'
  OBVIOUS
<1> DEFINE n == directSpec.tokens
           s == spec.shape
           name == FinalizeName(pass)
           inputs == [activations |-> current, head |-> Single("head")]
           then == "select"
           c == <<pass, s.layers + 1, 0>>
           d == <<pass + 1, -1, 0>>
<1>1. /\ step = "finalize" /\ UNCHANGED <<expansionVars, directSpec, required>>
      /\ Record(name, inputs, then)
      /\ logits' = FinalizeName(pass)
      /\ priorLayers' = layerOutputs
      /\ layerOutputs' = <<>>
      /\ layer' = 0
      /\ pass' = pass + 1
      /\ UNCHANGED <<seed, current, edge>>
  BY DEF Finalize, At, Shape
<1>2. step \in DirectSteps /\ then \in DirectSteps
  BY <1>1 DEF DirectSteps
<1>3. /\ IsRun(spec) /\ n \in Nat /\ s.layers \in Nat /\ s.layers > 0
      /\ ValuesAt(s, n, step, pass, layer, seed, current, layerOutputs, priorLayers, logits, edge)
  BY <1>2, ValuesNow, Zenon
<1>10. InLayers(s, n, pass, layer, seed, current, layerOutputs, priorLayers, edge) /\ layer = s.layers
  BY <1>1, <1>3 DEF ValuesAt
<1>11. /\ IsPass(n, pass) /\ layer = s.layers
       /\ current = LowerOf(pass, layer) /\ layerOutputs = Caches(pass, s.layers)
       /\ pass # -1 => edge = SelectName(pass)
  BY <1>3, <1>10, Zenon DEF InLayers
<1>12. (pass = -1 \/ pass \in 0 .. (n - 2)) /\ (pass = -1 \/ pass \in Nat) /\ pass \in Int
  BY <1>3, <1>11, PassIs, Zenon
<1>13. current = RangeName(pass, s.layers - 1)
  <2>1. layer # 0
    BY <1>3, <1>11
  <2> QED
    BY <1>11, <2>1, Zenon DEF LowerOf
<1>14. pass \in 0 .. (n - 2) /\ pass \in Nat
  BY <1>12
<1>4. TurnNow(s, n, step, pass, layer) = c /\ ~Earlier(c, c) /\ TurnNow(s, n, then, pass', layer') = d
  <2> HIDE DEF n, s
  <2> QED
    BY <1>1, <1>3, <1>14 DEF TurnNow, Earlier
<1>5. IsBoundary(s, n, name)
  <2>1. FinalizeName(pass) = Name("decode_finalize", pass, 0)
    BY <1>14, PassNamesAre
  <2> HIDE DEF n, s
  <2> QED
    BY <1>14, <2>1, Zenon DEF IsBoundary
<1>6. TurnOf(s, n, name, c)
  <2>1. FinalizeName(pass) = Name("decode_finalize", pass, 0)
    BY <1>14, PassNamesAre
  <2> QED
    BY <1>3, <1>14, <2>1, PassTurns, Zenon
<1>7. Follow(s, n, c, d)
  BY <1>3, <1>14, TurnsFollow
<1>8. TakenOf(s, name, inputs) = ReadsOf(spec, name, DirectKeys(n))
  <2>1. TakenOf(s, FinalizeName(pass), [activations |-> RangeName(pass, s.layers - 1), head |-> Single("head")])
          = ReadsOf(spec, FinalizeName(pass), DirectKeys(n))
    BY <1>12, TakesFinalize, Zenon
  <2> QED
    BY <1>13, <2>1, Zenon
<1>9. ValuesAt(s, n, then, pass', layer', seed', current', layerOutputs', priorLayers', logits', edge')
  <2>1. pass' \in 0 .. (n - 1) /\ pass' - 1 = pass /\ pass' # -1 /\ pass' # 0
    <3>1. pass' = pass + 1 /\ n \in Nat
      BY <1>1, <1>3
    <3> HIDE DEF n, s
    <3> QED
      BY <1>14, <3>1
  <2>2. CachesBefore(s, pass') = Caches(pass, s.layers)
    BY <2>1, Zenon DEF CachesBefore
  <2>3. BetweenPasses(s, pass', layer', layerOutputs', priorLayers') /\ logits' = FinalizeName(pass' - 1)
    BY <1>1, <1>11, <2>1, <2>2, Zenon DEF BetweenPasses
  <2>4. edge' = EdgeBefore(pass')
    <3>1. EdgeBefore(pass') = SelectName(pass' - 1)
      BY <2>1, Zenon DEF EdgeBefore
    <3> QED
      BY <1>1, <1>11, <2>1, <3>1
  <2> HIDE DEF n, s
  <2> QED
    BY <2>1, <2>3, <2>4 DEF ValuesAt
<1> HIDE DEF n, s, name, inputs, then, c, d
<1> QED
  BY <1>1, <1>2, <1>4, <1>5, <1>6, <1>7, <1>8, <1>9, DirectRecords DEF n, s

LEMMA DecodeInitKeeps == ImportInv /\ DirectInv /\ DecodeInit => DirectInv'
<1> SUFFICES ASSUME ImportInv, DirectInv, DecodeInit PROVE DirectInv'
  OBVIOUS
<1> DEFINE n == directSpec.tokens
           s == spec.shape
           name == Single("decode_init")
           inputs == [p \in {} |-> Embedding]
           then == IF n = 0 THEN "output" ELSE "select"
           c == <<-1, s.layers + 2, 0>>
           d == IF n = 0 THEN <<n, 0, 0>> ELSE <<0, -1, 0>>
<1>1. /\ step = "init" /\ UNCHANGED <<expansionVars, directSpec, required>>
      /\ Record(name, inputs, then)
      /\ edge' = Single("decode_init")
      /\ UNCHANGED <<pass, layer, seed, current, layerOutputs, priorLayers, logits>>
  BY DEF DecodeInit, At, Shape
<1>2. step \in DirectSteps /\ then \in DirectSteps
  BY <1>1 DEF DirectSteps
<1>3. /\ IsRun(spec) /\ n \in Nat /\ s.layers \in Nat /\ s.layers > 0
      /\ ValuesAt(s, n, step, pass, layer, seed, current, layerOutputs, priorLayers, logits, edge)
  BY <1>2, ValuesNow, Zenon
<1>10. pass = 0 /\ BetweenPasses(s, pass, layer, layerOutputs, priorLayers) /\ logits = FinalizeName(-1)
  BY <1>1, <1>3, Zenon DEF ValuesAt
<1>4. TurnNow(s, n, step, pass, layer) = c /\ ~Earlier(c, c) /\ TurnNow(s, n, then, pass', layer') = d
  <2> HIDE DEF n, s
  <2> QED
    BY <1>1, <1>3, <1>10 DEF TurnNow, Earlier
<1>5. IsBoundary(s, n, name)
  BY Zenon DEF IsBoundary
<1>6. TurnOf(s, n, name, c)
  BY <1>3, FixedTurns, Zenon
<1>7. Follow(s, n, c, d)
  <2>1. CASE n = 0
    BY <1>3, <2>1, TurnsFollow
  <2>2. CASE n > 0
    BY <1>3, <2>2, TurnsFollow
  <2> QED
    BY <1>3, <2>1, <2>2
<1>8. TakenOf(s, name, inputs) = ReadsOf(spec, name, DirectKeys(n))
  BY TakesInit, Zenon
<1>9. ValuesAt(s, n, then, pass', layer', seed', current', layerOutputs', priorLayers', logits', edge')
  <2>1. edge' = EdgeBefore(0) /\ pass' = 0 /\ 0 - 1 = -1
    <3>1. EdgeBefore(0) = Single("decode_init")
      BY Zenon DEF EdgeBefore
    <3> QED
      BY <1>1, <1>10, <3>1
  <2>2. BetweenPasses(s, pass', layer', layerOutputs', priorLayers') /\ logits' = FinalizeName(-1)
    BY <1>1, <1>10, Zenon
  <2> HIDE DEF s
  <2>3. n # 0 => 0 \in 0 .. (n - 1)
    BY <1>3
  <2> QED
    BY <2>1, <2>2, <2>3 DEF ValuesAt
<1> HIDE DEF n, s, name, inputs, then, c, d
<1> QED
  BY <1>1, <1>2, <1>4, <1>5, <1>6, <1>7, <1>8, <1>9, DirectRecords DEF n, s

LEMMA SelectKeeps == ImportInv /\ DirectInv /\ Select => DirectInv'
<1> SUFFICES ASSUME ImportInv, DirectInv, Select PROVE DirectInv'
  OBVIOUS
<1> DEFINE n == directSpec.tokens
           s == spec.shape
           name == SelectName(pass)
           inputs == [logits |-> logits, prior |-> edge]
           then == IF pass + 1 = n THEN "output" ELSE "embed_token"
           c == <<pass, -1, 0>>
           d == IF pass + 1 = n THEN <<n, 0, 0>> ELSE <<pass, 0, 0>>
<1>1. /\ step = "select" /\ UNCHANGED <<expansionVars, directSpec, required>>
      /\ Record(name, inputs, then)
      /\ edge' = SelectName(pass)
      /\ UNCHANGED <<pass, layer, seed, current, layerOutputs, priorLayers, logits>>
  BY DEF Select, At, Shape, IsLastToken
<1>2. step \in DirectSteps /\ then \in DirectSteps
  BY <1>1 DEF DirectSteps
<1>3. /\ IsRun(spec) /\ n \in Nat /\ s.layers \in Nat /\ s.layers > 0
      /\ ValuesAt(s, n, step, pass, layer, seed, current, layerOutputs, priorLayers, logits, edge)
  BY <1>2, ValuesNow, Zenon
<1>10. /\ pass \in 0 .. (n - 1) /\ BetweenPasses(s, pass, layer, layerOutputs, priorLayers)
       /\ logits = FinalizeName(pass - 1) /\ edge = EdgeBefore(pass)
  BY <1>1, <1>3, Zenon DEF ValuesAt
<1>11. pass + 1 # n => pass \in 0 .. (n - 2)
  <2> HIDE DEF n, s
  <2> QED
    BY <1>3, <1>10
<1>12. pass + 1 = n => pass = n - 1 /\ n # 0 /\ n > 0
  <2> HIDE DEF n, s
  <2> QED
    BY <1>3, <1>10
<1>4. TurnNow(s, n, step, pass, layer) = c /\ ~Earlier(c, c) /\ TurnNow(s, n, then, pass', layer') = d
  <2> HIDE DEF n, s
  <2> QED
    BY <1>1, <1>3, <1>10 DEF TurnNow, Earlier
<1>5. IsBoundary(s, n, name)
  BY <1>10, Zenon DEF IsBoundary, SelectName
<1>6. TurnOf(s, n, name, c)
  BY <1>3, <1>10, SelectTurns, Zenon DEF SelectName
<1>7. Follow(s, n, c, d)
  <2>1. CASE pass + 1 = n
    <3>1. Follow(s, n, <<n - 1, -1, 0>>, <<n, 0, 0>>)
      BY <1>3, <1>12, <2>1, TurnsFollow
    <3> HIDE DEF n, s
    <3>2. Follow(s, n, <<pass, -1, 0>>, <<n, 0, 0>>)
      BY <1>12, <2>1, <3>1
    <3> QED
      BY <2>1, <3>2
  <2>2. CASE pass + 1 # n
    <3>1. Follow(s, n, <<pass, -1, 0>>, <<pass, 0, 0>>)
      BY <1>3, <1>11, <2>2, TurnsFollow
    <3> QED
      BY <2>2, <3>1
  <2> QED
    BY <2>1, <2>2
<1>8. TakenOf(s, name, inputs) = ReadsOf(spec, name, DirectKeys(n))
  <2>1. inputs = [logits |-> FinalizeName(pass - 1), prior |-> IF pass = 0 THEN Single("decode_init") ELSE SelectName(pass - 1)]
    BY <1>10, Zenon DEF EdgeBefore
  <2> QED
    BY <2>1, TakesSelect, Zenon
<1>9. ValuesAt(s, n, then, pass', layer', seed', current', layerOutputs', priorLayers', logits', edge')
  <2>1. edge' = SelectName(pass) /\ pass' = pass
    BY <1>1
  <2>2. BetweenPasses(s, pass', layer', layerOutputs', priorLayers')
    BY <1>1, <1>10, Zenon
  <2> HIDE DEF s
  <2>3. pass + 1 = n => edge' = EdgeBefore(n)
    <3> HIDE DEF n
    <3> QED
      BY <1>12, <2>1, Zenon DEF EdgeBefore
  <2> HIDE DEF n
  <2> QED
    BY <1>11, <2>1, <2>2, <2>3 DEF ValuesAt
<1> HIDE DEF n, s, name, inputs, then, c, d
<1> QED
  BY <1>1, <1>2, <1>4, <1>5, <1>6, <1>7, <1>8, <1>9, DirectRecords DEF n, s

LEMMA EmbedTokenKeeps == ImportInv /\ DirectInv /\ EmbedToken => DirectInv'
<1> SUFFICES ASSUME ImportInv, DirectInv, EmbedToken PROVE DirectInv'
  OBVIOUS
<1> DEFINE n == directSpec.tokens
           s == spec.shape
           name == EmbedName(pass)
           inputs == [selected |-> edge, embedding |-> Single("embedding")]
           then == "aux"
           c == <<pass, 0, 0>>
           d == <<pass, 1, 0>>
<1>1. /\ step = "embed_token" /\ UNCHANGED <<expansionVars, directSpec, required>>
      /\ Record(name, inputs, then)
      /\ seed' = EmbedName(pass) /\ current' = EmbedName(pass)
      /\ UNCHANGED <<pass, layer, layerOutputs, priorLayers, logits, edge>>
  BY DEF EmbedToken, At, Shape
<1>2. step \in DirectSteps /\ then \in DirectSteps
  BY <1>1 DEF DirectSteps
<1>3. /\ IsRun(spec) /\ n \in Nat /\ s.layers \in Nat /\ s.layers > 0
      /\ ValuesAt(s, n, step, pass, layer, seed, current, layerOutputs, priorLayers, logits, edge)
  BY <1>2, ValuesNow, Zenon
<1>10. /\ pass \in 0 .. (n - 2) /\ BetweenPasses(s, pass, layer, layerOutputs, priorLayers) /\ edge = SelectName(pass)
  BY <1>1, <1>3, Zenon DEF ValuesAt
<1>11. layer = 0 /\ layerOutputs = <<>> /\ priorLayers = CachesBefore(s, pass)
  BY <1>10, Zenon DEF BetweenPasses
<1>12. ~(pass < 0) /\ pass # -1
  BY <1>10
<1>4. TurnNow(s, n, step, pass, layer) = c /\ ~Earlier(c, c) /\ TurnNow(s, n, then, pass', layer') = d
  <2> HIDE DEF n, s
  <2> QED
    BY <1>1, <1>10, <1>11 DEF TurnNow, Earlier
<1>5. IsBoundary(s, n, name)
  BY <1>10, Zenon DEF IsBoundary, EmbedName
<1>6. TurnOf(s, n, name, c)
  BY <1>3, <1>10, PassTurns, Zenon DEF EmbedName
<1>7. Follow(s, n, c, d)
  BY <1>3, <1>10, TurnsFollow
<1>8. TakenOf(s, name, inputs) = ReadsOf(spec, name, DirectKeys(n))
  BY <1>10, TakesEmbed, Zenon
<1>9. ValuesAt(s, n, then, pass', layer', seed', current', layerOutputs', priorLayers', logits', edge')
  <2>1. /\ pass' = pass /\ layer' = 0 /\ layerOutputs' = Caches(pass', 0) /\ priorLayers' = CachesBefore(s, pass')
         /\ edge' = SelectName(pass')
    BY <1>1, <1>10, <1>11, EmptyCaches, Zenon
  <2>2. seed' = StartOf(pass') /\ current' = LowerOf(pass', layer')
    BY <1>1, <1>12, <2>1, Zenon DEF StartOf, LowerOf
  <2>3. layer' # s.layers /\ 0 \in 0 .. s.layers
    BY <1>3, <2>1
  <2>4. InLayers(s, n, pass', layer', seed', current', layerOutputs', priorLayers', edge')
    BY <1>10, <2>1, <2>2, <2>3, Zenon DEF InLayers, IsPass
  <2> HIDE DEF n, s
  <2> QED
    BY <2>3, <2>4 DEF ValuesAt
<1> HIDE DEF n, s, name, inputs, then, c, d
<1> QED
  BY <1>1, <1>2, <1>4, <1>5, <1>6, <1>7, <1>8, <1>9, DirectRecords DEF n, s

LEMMA OutputKeeps == ImportInv /\ DirectInv /\ Output => DirectInv'
<1> SUFFICES ASSUME ImportInv, DirectInv, Output PROVE DirectInv'
  OBVIOUS
<1> DEFINE n == directSpec.tokens
           s == spec.shape
           name == Single("output_finalize")
           inputs == [edge |-> edge, decoder |-> Single("decoder")]
           then == "finish"
           c == <<n, 0, 0>>
           d == <<n, 1, 0>>
<1>1. /\ step = "output" /\ UNCHANGED <<expansionVars, directSpec, required>>
      /\ Record(name, inputs, then)
      /\ UNCHANGED <<pass, layer, valueVars>>
  BY DEF Output, At, Shape
<1>2. step \in DirectSteps /\ then \in DirectSteps
  BY <1>1 DEF DirectSteps
<1>3. /\ IsRun(spec) /\ n \in Nat /\ s.layers \in Nat /\ s.layers > 0
      /\ ValuesAt(s, n, step, pass, layer, seed, current, layerOutputs, priorLayers, logits, edge)
  BY <1>2, ValuesNow, Zenon
<1>10. edge = EdgeBefore(n)
  BY <1>1, <1>3, Zenon DEF ValuesAt
<1>4. TurnNow(s, n, step, pass, layer) = c /\ ~Earlier(c, c) /\ TurnNow(s, n, then, pass', layer') = d
  <2> HIDE DEF s
  <2> QED
    BY <1>1, <1>3 DEF TurnNow, Earlier
<1>5. IsBoundary(s, n, name)
  BY Zenon DEF IsBoundary
<1>6. TurnOf(s, n, name, c)
  BY <1>3, FixedTurns, Zenon
<1>7. Follow(s, n, c, d)
  BY <1>3, TurnsFollow
<1>8. TakenOf(s, name, inputs) = ReadsOf(spec, name, DirectKeys(n))
  <2>1. DirectKeys(n).edge = edge
    BY <1>10 DEF DirectKeys
  <2>2. TakenOf(s, name, [edge |-> DirectKeys(n).edge, decoder |-> Single("decoder")]) = ReadsOf(spec, name, DirectKeys(n))
    BY TakesOutput, Zenon
  <2> QED
    BY <2>1, <2>2, Zenon
<1>9. ValuesAt(s, n, then, pass', layer', seed', current', layerOutputs', priorLayers', logits', edge')
  BY DEF ValuesAt
<1> HIDE DEF n, s, name, inputs, then, c, d
<1> QED
  BY <1>1, <1>2, <1>4, <1>5, <1>6, <1>7, <1>8, <1>9, DirectRecords DEF n, s

LEMMA FinishKeeps == ImportInv /\ DirectInv /\ Finish => DirectInv'
<1> SUFFICES ASSUME ImportInv, DirectInv, Finish PROVE DirectInv'
  OBVIOUS
<1> DEFINE n == directSpec.tokens
           s == spec.shape
<1>1. /\ step = "finish" /\ UNCHANGED <<expansionVars, directSpec, required>>
      /\ step' = IF DOMAIN records = required THEN "done" ELSE "failed"
      /\ UNCHANGED <<pass, layer, records>>
  BY DEF Finish, At
<1>2. step \in DirectSteps /\ "done" \in DirectSteps /\ step # "none"
  BY <1>1 DEF DirectSteps
<1>3. n \in Nat /\ s.layers \in Nat
  BY <1>2, ValuesNow, Zenon
<1>4. required = BoundaryNames(s, n) /\ Recorded(spec, n, step, pass, layer, records)
  BY <1>2, Zenon DEF DirectInv, DirectStarted
<1>5. TurnNow(s, n, "finish", pass, layer) = <<n, 1, 0>> /\ TurnNow(s, n, "done", pass', layer') = <<n, 1, 0>>
  BY DEF TurnNow
<1>6. BoundariesBefore(s, n, <<n, 1, 0>>) = BoundaryNames(s, n)
  BY <1>3, NothingFirst, Zenon
<1>7. DOMAIN records = BoundaryNames(s, n) /\ \A x \in DOMAIN records : records[x] = ReadsOf(spec, x, DirectKeys(n))
  BY <1>1, <1>4, <1>5, <1>6, Zenon DEF Recorded
<1>8. step' = "done" /\ records' = records
  BY <1>1, <1>4, <1>7
<1>9. Recorded(spec, n, step', pass', layer', records')
  BY <1>5, <1>6, <1>7, <1>8, Zenon DEF Recorded
<1>10. ValuesAt(s, n, step', pass', layer', seed', current', layerOutputs', priorLayers', logits', edge')
  BY <1>8 DEF ValuesAt
<1> HIDE DEF n, s
<1>11. step' \in DirectSteps
  BY <1>2, <1>8
<1> QED
  BY <1>1, <1>2, <1>9, <1>10, <1>11, DirectGoesOn, Zenon DEF n, s

(* Steps that leave the direct run alone. *)
LEMMA DirectStays ==
  ASSUME DirectInv, UNCHANGED directVars, step = "none" \/ UNCHANGED expansionVars
  PROVE  DirectInv'
<1>1. /\ step' = step /\ directSpec' = directSpec /\ required' = required /\ pass' = pass /\ layer' = layer
      /\ seed' = seed /\ current' = current /\ layerOutputs' = layerOutputs /\ priorLayers' = priorLayers
      /\ logits' = logits /\ edge' = edge /\ records' = records
  BY DEF directVars, valueVars
<1>2. CASE step = "none"
  <2>1. DirectInv => pass = -1 /\ layer = 0 /\ layerOutputs = <<>> /\ priorLayers = <<>> /\ DOMAIN records = {}
                     /\ directSpec = NoSpec
    BY <1>2 DEF DirectInv
  <2> QED
    BY <1>1, <1>2, <2>1 DEF DirectInv
<1>3. CASE step = "refused" /\ UNCHANGED expansionVars
  <2>1. /\ pass = -1 /\ layer = 0 /\ layerOutputs = <<>> /\ priorLayers = <<>> /\ DOMAIN records = {}
        /\ IsImported /\ phase = "expanded"
        /\ directSpec.tokens \in Nat /\ directSpec.batches \in Nat
        /\ required = BoundaryNames(spec.shape, directSpec.tokens)
        /\ directSpec.compare /\ StageNames # ReferenceNames(spec.shape, directSpec.tokens, directSpec.batches)
    BY <1>3, Zenon DEF DirectInv, DirectStarted
  <2>2. spec' = spec /\ phase' = phase /\ chain' = chain
    BY <1>3 DEF expansionVars
  <2>3. IsImported' /\ StageNames' = StageNames
    BY <2>1, <2>2 DEF IsImported, ByHand, StageNames
  <2>4. /\ directSpec'.tokens = directSpec.tokens /\ directSpec'.batches = directSpec.batches
        /\ directSpec'.compare = directSpec.compare /\ spec'.shape = spec.shape
    BY <1>1, <2>2, Zenon
  <2>5. directSpec'.compare /\ StageNames' # ReferenceNames(spec'.shape, directSpec'.tokens, directSpec'.batches)
    BY <2>1, <2>3, <2>4, Zenon
  <2>6. /\ phase' = "expanded" /\ directSpec'.tokens \in Nat /\ directSpec'.batches \in Nat
        /\ required' = BoundaryNames(spec'.shape, directSpec'.tokens)
    BY <1>1, <2>1, <2>2, <2>4, Zenon
  <2>7. step' = "refused" /\ step' \notin DirectSteps /\ step' # "none"
    BY <1>1, <1>3 DEF DirectSteps
  <2>8. DirectStarted'
    BY <2>3, <2>5, <2>6, <2>7 DEF DirectStarted
  <2> QED
    BY <1>1, <2>1, <2>7, <2>8, Zenon DEF DirectInv
<1>4. CASE step # "none" /\ step # "refused" /\ UNCHANGED expansionVars
  <2>1. DirectStarted
    BY <1>4, Zenon DEF DirectInv
  <2>2. step \in DirectSteps
    BY <1>4, <2>1, Zenon DEF DirectStarted
  <2>3. /\ Recorded(spec, directSpec.tokens, step, pass, layer, records)
        /\ ValuesAt(spec.shape, directSpec.tokens, step, pass, layer, seed, current, layerOutputs, priorLayers,
                    logits, edge)
    BY <2>1, <2>2, Zenon DEF DirectStarted
  <2>4. /\ Recorded(spec, directSpec.tokens, step', pass', layer', records')
        /\ ValuesAt(spec.shape, directSpec.tokens, step', pass', layer', seed', current', layerOutputs', priorLayers',
                    logits', edge')
    BY <1>1, <2>3, Zenon
  <2>5. step' \in DirectSteps
    BY <1>1, <2>2, Zenon
  <2>6. UNCHANGED <<expansionVars, directSpec, required>>
    BY <1>1, <1>4
  <2> QED
    BY <2>2, <2>4, <2>5, <2>6, DirectGoesOn, Zenon
<1> QED
  BY <1>2, <1>3, <1>4

LEMMA StartKeeps == ImportInv /\ DirectInv /\ Start => DirectInv'
<1> SUFFICES ASSUME ImportInv, DirectInv, Start PROVE DirectInv'
  OBVIOUS
<1>1. /\ phase = "expanded" /\ IsImported /\ step = "none"
      /\ UNCHANGED <<expansionVars, pass, layer, valueVars, records>>
      /\ required' = BoundaryNames(spec.shape, directSpec'.tokens)
      /\ step' = IF directSpec'.compare
                    /\ StageNames # ReferenceNames(spec.shape, directSpec'.tokens, directSpec'.batches)
                 THEN "refused" ELSE "prompt"
  BY DEF Start, Shape
<1>2. /\ directSpec'.tokens \in Nat /\ directSpec'.batches \in Nat /\ directSpec'.compare \in BOOLEAN
  <2>1. PICK tokens \in DirectTokens, batches \in DirectBatches, compare \in BOOLEAN :
          directSpec' = [tokens |-> tokens, batches |-> batches, compare |-> compare]
    BY DEF Start
  <2> QED
    BY <2>1, DirectAssumption
<1>3. /\ spec' = spec /\ phase' = phase /\ chain' = chain /\ pass' = pass /\ layer' = layer
      /\ layerOutputs' = layerOutputs /\ priorLayers' = priorLayers /\ records' = records
  BY <1>1 DEF expansionVars, valueVars
<1>4. pass = -1 /\ layer = 0 /\ layerOutputs = <<>> /\ priorLayers = <<>> /\ DOMAIN records = {}
  BY <1>1, Zenon DEF DirectInv
<1>5. IsImported' /\ StageNames' = StageNames
  BY <1>1, <1>3 DEF IsImported, ByHand, StageNames
<1>6. spec'.shape = spec.shape
  BY <1>3, Zenon
<1>7. required' = BoundaryNames(spec'.shape, directSpec'.tokens)
  BY <1>1, <1>6, Zenon
<1>8. step' = "refused" <=>
        directSpec'.compare /\ StageNames' # ReferenceNames(spec'.shape, directSpec'.tokens, directSpec'.batches)
  <2> DEFINE other == StageNames # ReferenceNames(spec.shape, directSpec'.tokens, directSpec'.batches)
  <2>1. step' = "refused" <=> directSpec'.compare /\ other
    <3> HIDE DEF other
    <3> QED
      BY <1>1 DEF other
  <2>2. other <=> StageNames' # ReferenceNames(spec'.shape, directSpec'.tokens, directSpec'.batches)
    BY <1>5, <1>6, Zenon
  <2> QED
    BY <2>1, <2>2, Zenon
<1>9. step' \in {"refused", "prompt"}
  BY <1>1
<1>10. spec.shape.layers \in Nat
  BY <1>1, ChainReadsAre, BoundDonors DEF IsRun
<1>11. TurnNow(spec'.shape, directSpec'.tokens, "prompt", pass', layer') = <<-2, 0, 0>>
  BY DEF TurnNow
<1>12. BoundariesBefore(spec'.shape, directSpec'.tokens, <<-2, 0, 0>>) = {}
  BY <1>2, <1>6, <1>10, NothingFirst, Zenon
<1>13. Recorded(spec', directSpec'.tokens, "prompt", pass', layer', records')
  <2>1. DOMAIN records' = {}
    BY <1>3, <1>4
  <2> QED
    BY <1>11, <1>12, <2>1, Zenon DEF Recorded
<1>14. ValuesAt(spec'.shape, directSpec'.tokens, "prompt", pass', layer', seed', current', layerOutputs', priorLayers',
                logits', edge')
  <2>1. pass' = -1 /\ BetweenPasses(spec'.shape, pass', layer', layerOutputs', priorLayers')
    BY <1>3, <1>4 DEF BetweenPasses, CachesBefore
  <2> QED
    BY <2>1 DEF ValuesAt
<1>15. step' \in DirectSteps => step' = "prompt"
  BY <1>9 DEF DirectSteps
<1>16. step' \in DirectSteps \cup {"refused"} /\ step' # "none"
  BY <1>9 DEF DirectSteps
<1>17. DirectStarted'
  BY <1>1, <1>2, <1>3, <1>5, <1>7, <1>8, <1>13, <1>14, <1>15, <1>16, Zenon DEF DirectStarted
<1>18. pass' = -1 /\ layer' = 0 /\ layerOutputs' = <<>> /\ priorLayers' = <<>> /\ DOMAIN records' = {}
  BY <1>3, <1>4
<1> QED
  BY <1>16, <1>17, <1>18, Zenon DEF DirectInv

LEMMA InitDirectInv == Init => DirectInv
<1> SUFFICES ASSUME Init PROVE DirectInv
  OBVIOUS
<1>1. /\ step = "none" /\ directSpec = NoSpec /\ pass = -1 /\ layer = 0 /\ layerOutputs = <<>> /\ priorLayers = <<>>
      /\ records = [name \in {} |-> <<>>]
  BY DEF Init, InitDirect
<1>2. DOMAIN records = {}
  BY <1>1
<1> QED
  BY <1>1, <1>2 DEF DirectInv

LEMMA NextKeepsDirect == ImportInv /\ DirectInv /\ [Next]_vars => DirectInv'
<1> SUFFICES ASSUME ImportInv, DirectInv, [Next]_vars PROVE DirectInv'
  OBVIOUS
<1>1. CASE NextExpansion /\ UNCHANGED <<directVars, gateVars, inferVars>>
  <2>1. phase = "expand"
    BY <1>1 DEF NextExpansion, PushStage, PushRepeated, NextPart, NextIteration, EndRepeat, FailExpansion,
                ResolveExports, InPart, AtItem
  <2>2. step = "none"
    BY <2>1 DEF DirectInv, DirectStarted
  <2> QED
    BY <1>1, <2>2, DirectStays
<1>2. CASE NextInfer /\ UNCHANGED <<directVars, gateVars>>
  <2>1. UNCHANGED expansionVars
    BY <1>2 DEF NextInfer
  <2> QED
    BY <1>2, <2>1, DirectStays
<1>3. CASE NextDirect
  <2>1. CASE Finalize
    <3>1. CASE pass = -1
      BY <2>1, <3>1, FinalizePrefillKeeps
    <3>2. CASE ~(pass < 0)
      BY <2>1, <3>2, FinalizeDecodeKeeps
    <3>3. pass = -1 \/ ~(pass < 0)
      <4>1. step = "finalize" /\ step \in DirectSteps
        BY <2>1 DEF Finalize, At, DirectSteps
      <4> DEFINE n == directSpec.tokens
                 s == spec.shape
      <4>2. /\ n \in Nat /\ s.layers \in Nat
            /\ ValuesAt(s, n, step, pass, layer, seed, current, layerOutputs, priorLayers, logits, edge)
        BY <4>1, ValuesNow, Zenon
      <4> HIDE DEF n, s
      <4>3. InLayers(s, n, pass, layer, seed, current, layerOutputs, priorLayers, edge)
        BY <4>1, <4>2 DEF ValuesAt
      <4>4. IsPass(n, pass)
        BY <4>3, Zenon DEF InLayers
      <4>5. pass = -1 \/ pass \in Nat
        BY <4>2, <4>4, PassIs, Zenon
      <4> QED
        BY <4>5
    <3> QED
      BY <3>1, <3>2, <3>3
  <2> QED
    BY <1>3, <2>1, StartKeeps, PromptKeeps, EmbedKeeps, AuxKeeps, RangeStageKeeps, DecodeInitKeeps, SelectKeeps,
       EmbedTokenKeeps, OutputKeeps, FinishKeeps, Zenon DEF NextDirect
<1>4. CASE Judge
  <2>1. UNCHANGED <<expansionVars, directVars>>
    BY <1>4 DEF Judge
  <2> QED
    BY <2>1, DirectStays
<1>5. CASE UNCHANGED vars
  <2>1. UNCHANGED expansionVars /\ UNCHANGED directVars
    BY <1>5 DEF vars
  <2> QED
    BY <2>1, DirectStays
<1> QED
  BY <1>1, <1>2, <1>3, <1>4, <1>5 DEF Next

LEMMA DirectIsInvariant == Spec /\ (IsImported => DonorsBound(spec.shape)) => [](ImportInv /\ DirectInv)
<1>1. Init /\ (IsImported => DonorsBound(spec.shape)) => ImportInv /\ DirectInv
  BY InitImports, InitDirectInv
<1>2. ImportInv /\ DirectInv /\ [Next]_vars => (ImportInv /\ DirectInv)'
  BY NextImports, NextKeepsDirect
<1> QED
  BY <1>1, <1>2, PTL DEF Spec

(* The diagnostics never fail a direct run (DirectTrace::record, finish),  *)
(* and a trace is refused exactly if it is of a run with other tokens or   *)
(* other merges.                                                           *)
THEOREM DirectTracesAreAccepted == Spec /\ (IsImported => DonorsBound(spec.shape)) => []TraceIsAccepted
<1>1. ImportInv /\ DirectInv => TraceIsAccepted
  <2> SUFFICES ASSUME ImportInv, DirectInv PROVE TraceIsAccepted
    OBVIOUS
  <2>1. CASE step = "none"
    <3>1. ~directSpec.compare
      BY <2>1 DEF DirectInv, NoSpec
    <3> QED
      BY <2>1, <3>1 DEF TraceIsAccepted
  <2>2. CASE step # "none"
    <3>1. (directSpec.compare /\ step # "refused") <=>
            directSpec.compare /\ directSpec.tokens = spec.tokens /\ directSpec.batches = spec.batches
      BY <2>2, DirectRunIs, Zenon
    <3>2. (step \in DirectSteps \cup {"refused"}) /\ (step = "refused" => directSpec.compare)
      BY <2>2, Zenon DEF DirectInv, DirectStarted
    <3>3. step # "failed"
      BY <3>2 DEF DirectSteps
    <3> QED
      BY <3>1, <3>2, <3>3 DEF TraceIsAccepted, OtherRun, SameRun
  <2> QED
    BY <2>1, <2>2
<1> QED
  BY <1>1, DirectIsInvariant, PTL

LEMMA BoundaryIsName ==
  ASSUME NEW r, IsRun(r), NEW n \in Nat, n <= r.tokens, NEW x, IsBoundary(r.shape, n, x)
  PROVE  IsName(r, x)
<1>1. r.tokens \in Nat
  BY DEF IsRun
<1>2. (\A t \in 0 .. (n - 1) : t \in 0 .. (r.tokens - 1)) /\ (\A t \in 0 .. (n - 2) : t \in 0 .. (r.tokens - 1))
  BY <1>1
<1>3. CASE \/ x = Single("prompt_prepare") \/ x = Single("input_embedding") \/ x = Single("prefill_finalize")
           \/ x = Single("decode_init") \/ x = Single("output_finalize")
           \/ \E l \in 0 .. (r.shape.layers - 1) : x = Name("prefill_prepare_aux", 0, l) \/ x = Name("prefill_range", 0, l)
  <2>1. OneOf(r, x)
    BY <1>3, Zenon DEF OneOf
  <2> QED
    BY <2>1, NamesOfRun, Zenon
<1>4. CASE \E t \in 0 .. (n - 1) : x = Name("decode_select", t, 0)
  <2>1. \E t \in 0 .. (r.tokens - 1) : InPass(r, t, x)
    BY <1>2, <1>4, Zenon DEF InPass
  <2>2. OneOf(r, x)
    BY <2>1, Zenon DEF OneOf
  <2> QED
    BY <2>2, NamesOfRun, Zenon
<1>5. CASE \E t \in 0 .. (n - 2) :
             \/ x = Name("decode_embed", t, 0) \/ x = Name("decode_finalize", t, 0)
             \/ \E l \in 0 .. (r.shape.layers - 1) : x = Name("decode_aux", t, l) \/ x = Name("decode_range", t, l)
  <2>1. \E t \in 0 .. (r.tokens - 1) : InPass(r, t, x)
    BY <1>2, <1>5, Zenon DEF InPass
  <2>2. OneOf(r, x)
    BY <2>1, Zenon DEF OneOf
  <2> QED
    BY <2>2, NamesOfRun, Zenon
<1> QED
  BY <1>3, <1>4, <1>5, Zenon DEF IsBoundary

LEMMA RecordsAre ==
  ASSUME ImportInv, DirectInv, NEW name \in DOMAIN records
  PROVE  /\ step \in DirectSteps /\ IsRun(spec) /\ directSpec.tokens \in Nat
         /\ IsImported /\ phase = "expanded"
         /\ IsBoundary(spec.shape, directSpec.tokens, name)
         /\ records[name] = ReadsOf(spec, name, DirectKeys(directSpec.tokens))
<1>1. step # "none" /\ step # "refused"
  BY DEF DirectInv
<1>2. DirectStarted
  BY <1>1, Zenon DEF DirectInv
<1>3. step \in DirectSteps /\ IsImported /\ phase = "expanded"
  BY <1>1, <1>2, Zenon DEF DirectStarted
<1>4. Recorded(spec, directSpec.tokens, step, pass, layer, records)
  BY <1>2, <1>3, Zenon DEF DirectStarted
<1>5. IsRun(spec) /\ directSpec.tokens \in Nat
  BY <1>1, DirectRunIs, Zenon
<1>6. name \in BoundaryNames(spec.shape, directSpec.tokens)
  <2>1. name \in BoundariesBefore(spec.shape, directSpec.tokens,
                                  TurnNow(spec.shape, directSpec.tokens, step, pass, layer))
    BY <1>4, Zenon DEF Recorded
  <2> QED
    BY <2>1, Zenon DEF BoundariesBefore
<1>7. IsBoundary(spec.shape, directSpec.tokens, name)
  BY <1>5, <1>6, BoundariesAre, Zenon
<1>8. records[name] = ReadsOf(spec, name, DirectKeys(directSpec.tokens))
  BY <1>4, Zenon DEF Recorded
<1> QED
  BY <1>3, <1>5, <1>7, <1>8

(* Every boundary that the direct runtime records has read what the stage  *)
(* of that name reads in the expanded chain (model.rs, chain expansion),   *)
(* for any number of layers, any pattern of types, and any two runs.       *)
THEOREM DirectRunReadsTheSame == Spec /\ (IsImported => DonorsBound(spec.shape)) => []DirectReadsTheSame
<1>1. ImportInv /\ DirectInv => DirectReadsTheSame
  <2> SUFFICES ASSUME ImportInv, DirectInv, NEW name \in DOMAIN records PROVE ReadsTheSame(name)
    BY Zenon DEF DirectReadsTheSame
  <2> DEFINE n == directSpec.tokens
  <2>1. /\ IsRun(spec) /\ n \in Nat /\ IsImported /\ phase = "expanded"
        /\ IsBoundary(spec.shape, n, name) /\ records[name] = ReadsOf(spec, name, DirectKeys(n))
    BY RecordsAre, Zenon
  <2>2. CASE name = Single("output_finalize") /\ ~SameRun
    BY <2>2, Zenon DEF ReadsTheSame
  <2>3. CASE ~(name = Single("output_finalize") /\ ~SameRun) /\ name \in StageNames
    <3>1. ChainReads(name) = ReadsOf(spec, name, Behind(spec))
      BY <2>1, <2>3, ChainReadsAre, Zenon
    <3>2. name = Single("output_finalize") => DirectKeys(n).edge = Behind(spec).edge
      BY <2>3 DEF SameRun, DirectKeys, Behind, EdgeBefore
    <3>3. ReadsOf(spec, name, DirectKeys(n)) = ReadsOf(spec, name, Behind(spec))
      BY <2>1, <3>2, KeysAreTheSame
    <3> QED
      BY <2>1, <2>3, <3>1, <3>3, Zenon DEF ReadsTheSame
  <2>4. CASE name \notin StageNames
    <3>1. ~IsName(spec, name)
      BY <2>1, <2>4, ChainReadsAre, Zenon
    <3>2. ~(n <= spec.tokens)
      BY <2>1, <3>1, BoundaryIsName, Zenon
    <3>3. n > spec.tokens
      BY <2>1, <3>2 DEF IsRun
    <3> QED
      BY <2>4, <3>3, Zenon DEF ReadsTheSame
  <2> QED
    BY <2>2, <2>3, <2>4
<1> QED
  BY <1>1, DirectIsInvariant, PTL

(* What the stages of a run's boundaries read are boundaries too. *)
LEMMA PassBoundaries ==
  ASSUME NEW s, s.layers \in Nat, NEW n \in Nat, NEW p, IsPass(n, p)
  PROVE  /\ IsBoundary(s, n, StartOf(p)) /\ IsBoundary(s, n, FinalizeName(p))
         /\ \A l \in 0 .. (s.layers - 1) :
              /\ IsBoundary(s, n, AuxName(p, l)) /\ IsBoundary(s, n, RangeName(p, l))
              /\ IsBoundary(s, n, LowerOf(p, l)) /\ IsBoundary(s, n, PriorOf(p, l))
<1>1. (p = -1 \/ p \in 0 .. (n - 2)) /\ (p = -1 \/ p \in Nat) /\ p \in Int
  BY PassIs, Zenon
<1>2. IsBoundary(s, n, Embedding)
  BY Zenon DEF IsBoundary, Embedding
<1>3. IsBoundary(s, n, StartOf(p)) /\ IsBoundary(s, n, FinalizeName(p))
  <2>1. CASE p = -1
    <3>1. StartOf(p) = Embedding /\ FinalizeName(p) = Single("prefill_finalize")
      BY <2>1, PassNamesAre DEF StartOf
    <3>2. IsBoundary(s, n, Single("prefill_finalize"))
      BY Zenon DEF IsBoundary
    <3> QED
      BY <1>2, <3>1, <3>2, Zenon
  <2>2. CASE p \in 0 .. (n - 2)
    <3>1. p \in Nat /\ ~(p < 0)
      BY <2>2
    <3>2. StartOf(p) = Name("decode_embed", p, 0) /\ FinalizeName(p) = Name("decode_finalize", p, 0)
      BY <3>1, PassNamesAre DEF StartOf, EmbedName
    <3>3. IsBoundary(s, n, Name("decode_embed", p, 0)) /\ IsBoundary(s, n, Name("decode_finalize", p, 0))
      BY <2>2, Zenon DEF IsBoundary
    <3> QED
      BY <3>2, <3>3, Zenon
  <2> QED
    BY <1>1, <2>1, <2>2
<1>4. \A q, l : IsPass(n, q) /\ l \in 0 .. (s.layers - 1) =>
        IsBoundary(s, n, AuxName(q, l)) /\ IsBoundary(s, n, RangeName(q, l))
  BY LayerBoundaries, Zenon
<1>5. ASSUME NEW l \in 0 .. (s.layers - 1)
      PROVE  IsBoundary(s, n, LowerOf(p, l)) /\ IsBoundary(s, n, PriorOf(p, l))
  <2>1. IsBoundary(s, n, LowerOf(p, l))
    <3>1. CASE l = 0
      BY <1>3, <3>1, Zenon DEF LowerOf
    <3>2. CASE l # 0
      <4>1. l - 1 \in 0 .. (s.layers - 1)
        BY <3>2
      <4>2. LowerOf(p, l) = RangeName(p, l - 1)
        BY <3>2, Zenon DEF LowerOf
      <4> QED
        BY <1>4, <4>1, <4>2, Zenon
    <3> QED
      BY <3>1, <3>2
  <2>2. IsBoundary(s, n, PriorOf(p, l))
    <3>1. CASE p = -1
      <4>1. PriorOf(p, l) = Embedding
        BY <3>1 DEF PriorOf
      <4> QED
        BY <1>2, <4>1, Zenon
    <3>2. CASE p \in 0 .. (n - 2)
      <4>1. PriorOf(p, l) = RangeName(p - 1, l)
        BY <3>2 DEF PriorOf
      <4>2. p - 1 = -1 \/ p - 1 \in 0 .. (n - 2)
        BY <3>2
      <4>3. IsPass(n, p - 1)
        BY <4>2, Zenon DEF IsPass
      <4> QED
        BY <1>4, <4>1, <4>3, Zenon
    <3> QED
      BY <1>1, <3>1, <3>2
  <2> QED
    BY <2>1, <2>2
<1> QED
  BY <1>3, <1>4, <1>5, Zenon

(* The boundaries that a wiring names under a parameter that is used. *)
ClosedAt(r, x, w) ==
  \A q \in Used(r.shape, x, DOMAIN w) : w[q].how = "from" => IsBoundary(r.shape, r.tokens, w[q].name)

LEMMA ClosedPrompt ==
  ASSUME NEW r, NEW keys
  PROVE  ClosedAt(r, Single("prompt_prepare"), PrepareWiring(keys)) /\ ClosedAt(r, Embedding, EmbeddingWiring)
         /\ ClosedAt(r, Single("decode_init"), NoWiring)
<1>1. ASSUME NEW x, NEW w, NEW q \in Used(r.shape, x, DOMAIN w) PROVE q \in DOMAIN w /\ q # "merged_pieces"
  BY UsedAreParams
<1>2. ClosedAt(r, Single("prompt_prepare"), PrepareWiring(keys))
  <2> DEFINE w == PrepareWiring(keys)
  <2>1. DOMAIN w = {"merged_pieces", "tokenizer"} /\ w["tokenizer"].how = "external"
    BY DEF PrepareWiring, FileOf, FileAt
  <2> HIDE DEF w
  <2>2. ASSUME NEW q \in Used(r.shape, Single("prompt_prepare"), DOMAIN w), w[q].how = "from" PROVE FALSE
    <3>1. q = "tokenizer"
      BY <1>1, <2>1
    <3> QED
      BY <2>1, <2>2, <3>1
  <2> QED
    BY <2>2, Zenon DEF ClosedAt, w
<1>3. ClosedAt(r, Embedding, EmbeddingWiring)
  <2> DEFINE w == EmbeddingWiring
  <2>1. DOMAIN w = {"prompt", "embedding"} /\ w["embedding"].how = "external" /\ w["prompt"].name = Single("prompt_prepare")
    BY DEF EmbeddingWiring, FileOf, FileAt, Link
  <2>2. IsBoundary(r.shape, r.tokens, Single("prompt_prepare"))
    BY Zenon DEF IsBoundary
  <2> HIDE DEF w
  <2>3. ASSUME NEW q \in Used(r.shape, Embedding, DOMAIN w), w[q].how = "from"
        PROVE  IsBoundary(r.shape, r.tokens, w[q].name)
    <3>1. q = "prompt"
      <4>1. q \in {"prompt", "embedding"}
        BY <1>1, <2>1
      <4> QED
        BY <2>1, <2>3, <4>1
    <3> QED
      BY <2>1, <2>2, <3>1
  <2> QED
    BY <2>3, Zenon DEF ClosedAt, w
<1>4. ClosedAt(r, Single("decode_init"), NoWiring)
  <2>1. DOMAIN NoWiring = {}
    BY DEF NoWiring
  <2> QED
    BY <1>1, <2>1 DEF ClosedAt
<1> QED
  BY <1>2, <1>3, <1>4

LEMMA ClosedSelections ==
  ASSUME NEW r, IsRun(r), NEW t \in 0 .. (r.tokens - 1), NEW x
  PROVE  /\ ClosedAt(r, x, SelectWiring(t))
         /\ t \in 0 .. (r.tokens - 2) => ClosedAt(r, x, EmbedWiring(t))
<1> DEFINE n == r.tokens
           s == r.shape
<1>0. n \in Nat /\ s.layers \in Nat
  BY BoundDonors DEF IsRun
<1>1. ASSUME NEW w, NEW q \in Used(s, x, DOMAIN w) PROVE q \in DOMAIN w
  BY UsedAreParams
<1>2. \A u \in 0 .. (n - 1) : IsBoundary(s, n, SelectName(u))
  BY Zenon DEF IsBoundary, SelectName
<1>3. IsBoundary(s, n, FinalizeName(t - 1))
  <2>1. t - 1 = -1 \/ t - 1 \in 0 .. (n - 2)
    BY <1>0
  <2>2. IsPass(n, t - 1)
    BY <2>1, Zenon DEF IsPass
  <2> QED
    BY <1>0, <2>2, PassBoundaries, Zenon
<1>4. IsBoundary(s, n, IF t = 0 THEN Single("decode_init") ELSE SelectName(t - 1))
  <2>1. CASE t = 0
    BY <2>1, Zenon DEF IsBoundary
  <2>2. CASE t # 0
    <3>1. t - 1 \in 0 .. (n - 1)
      BY <1>0, <2>2
    <3>2. IsBoundary(s, n, SelectName(t - 1))
      BY <1>2, <3>1, Zenon
    <3> QED
      BY <2>2, <3>2, Zenon
  <2> QED
    BY <2>1, <2>2
<1> HIDE DEF n, s
<1>5. ClosedAt(r, x, SelectWiring(t))
  <2> DEFINE w == SelectWiring(t)
  <2>1. /\ DOMAIN w = {"logits", "prior"} /\ w["logits"].name = FinalizeName(t - 1)
        /\ w["prior"].name = IF t = 0 THEN Single("decode_init") ELSE SelectName(t - 1)
    BY DEF SelectWiring, Link
  <2> HIDE DEF w
  <2>2. ASSUME NEW q \in Used(s, x, DOMAIN w), w[q].how = "from"
        PROVE  IsBoundary(s, n, w[q].name)
    <3>1. q = "logits" \/ q = "prior"
      BY <1>1, <2>1
    <3> QED
      BY <1>3, <1>4, <2>1, <3>1, Zenon
  <2> QED
    BY <2>2, Zenon DEF ClosedAt, w, n, s
<1>6. ASSUME t \in 0 .. (r.tokens - 2) PROVE ClosedAt(r, x, EmbedWiring(t))
  <2> DEFINE w == EmbedWiring(t)
  <2>1. DOMAIN w = {"selected", "embedding"} /\ w["selected"].name = SelectName(t) /\ w["embedding"].how = "external"
    BY DEF EmbedWiring, Link, FileOf, FileAt
  <2>2. IsBoundary(s, n, SelectName(t))
    BY <1>2, Zenon DEF n
  <2> HIDE DEF w
  <2>3. ASSUME NEW q \in Used(s, x, DOMAIN w), w[q].how = "from"
        PROVE  IsBoundary(s, n, w[q].name)
    <3>1. q \in {"selected", "embedding"}
      BY <1>1, <2>1
    <3>2. q = "selected"
      BY <2>1, <2>3, <3>1
    <3> QED
      BY <2>1, <2>2, <3>2, Zenon
  <2> QED
    BY <2>3, Zenon DEF ClosedAt, w, n, s
<1> QED
  BY <1>5, <1>6

LEMMA ClosedLayers ==
  ASSUME NEW r, IsRun(r), NEW p, IsPass(r.tokens, p), NEW x
  PROVE  /\ ClosedAt(r, x, FinalizeWiring(r, p))
         /\ \A l \in 0 .. (r.shape.layers - 1) : ClosedAt(r, x, AuxWiring(p, l))
<1> DEFINE n == r.tokens
           s == r.shape
<1>0. n \in Nat /\ s.layers \in Nat /\ s.layers > 0
  BY BoundDonors DEF IsRun
<1>1. ASSUME NEW w, NEW q \in Used(s, x, DOMAIN w) PROVE q \in DOMAIN w
  BY UsedAreParams
<1>2. /\ IsBoundary(s, n, StartOf(p))
      /\ \A l \in 0 .. (s.layers - 1) : IsBoundary(s, n, RangeName(p, l))
  BY <1>0, PassBoundaries, Zenon
<1>3. s.layers - 1 \in 0 .. (s.layers - 1)
  BY <1>0
<1>4. IsBoundary(s, n, RangeName(p, s.layers - 1))
  BY <1>2, <1>3, Zenon
<1>5. ClosedAt(r, x, FinalizeWiring(r, p))
  <2> DEFINE w == FinalizeWiring(r, p)
  <2>1. /\ DOMAIN w = {"activations", "head"} /\ w["activations"].name = RangeName(p, s.layers - 1)
        /\ w["head"].how = "external"
    BY DEF FinalizeWiring, Link, FileOf, FileAt
  <2> HIDE DEF w, n, s
  <2>2. ASSUME NEW q \in Used(s, x, DOMAIN w), w[q].how = "from"
        PROVE  IsBoundary(s, n, w[q].name)
    <3>1. q \in {"activations", "head"}
      BY <1>1, <2>1
    <3>2. q = "activations"
      BY <2>1, <2>2, <3>1
    <3> QED
      BY <1>4, <2>1, <3>2, Zenon
  <2> QED
    BY <2>2, Zenon DEF ClosedAt, w, n, s
<1>6. ASSUME NEW l \in 0 .. (s.layers - 1) PROVE ClosedAt(r, x, AuxWiring(p, l))
  <2> DEFINE w == AuxWiring(p, l)
  <2>1. DOMAIN w = {"embedded", "layer"} /\ w["embedded"].name = StartOf(p) /\ w["layer"].how = "external"
    BY DEF AuxWiring, Link, FileAt
  <2> HIDE DEF w, n, s
  <2>2. ASSUME NEW q \in Used(s, x, DOMAIN w), w[q].how = "from"
        PROVE  IsBoundary(s, n, w[q].name)
    <3>1. q \in {"embedded", "layer"}
      BY <1>1, <2>1
    <3>2. q = "embedded"
      BY <2>1, <2>2, <3>1
    <3> QED
      BY <1>2, <2>1, <3>2, Zenon
  <2> QED
    BY <2>2, Zenon DEF ClosedAt, w, n, s
<1> QED
  BY <1>5, <1>6

(* A layer makes use of one donor, which is a layer before the shared ones. *)
LEMMA UsedDonors ==
  ASSUME NEW s, IsShape(s), DonorsBound(s), NEW p, p = -1 \/ p \in Nat, NEW l \in Layers(s), NEW params
  PROVE  /\ "donor_a_kv" \in Used(s, RangeName(p, l), params) => DonorA(s) \in 0 .. (s.layers - 1)
         /\ "donor_b_kv" \in Used(s, RangeName(p, l), params) => DonorB(s) \in 0 .. (s.layers - 1)
<1>1. IsRange(RangeName(p, l)) /\ RangeName(p, l)[3] = l
  <2>1. RangeName(p, l) = Name("prefill_range", 0, l) \/ RangeName(p, l) = Name("decode_range", p, l)
    <3>1. CASE p = -1
      BY <3>1, PassNamesAre
    <3>2. CASE p \in Nat
      BY <3>2, PassNamesAre
    <3> QED
      BY <3>1, <3>2
  <2> QED
    BY <2>1, NameParts DEF IsRange
<1>2. \A donor : UsesDonor(s, RangeName(p, l), donor) => KvDonor(s, l) = donor
  BY <1>1, Zenon DEF UsesDonor
<1>3. FirstShared(s) \in Nat /\ s.layers \in Nat /\ s.shared \in Nat /\ FirstShared(s) = s.layers - s.shared
  BY BoundDonors
<1>4. \A i \in 0 .. (FirstShared(s) - 1) : i \in 0 .. (s.layers - 1)
  BY <1>3
<1>5. ASSUME "donor_a_kv" \in Used(s, RangeName(p, l), params) PROVE DonorA(s) \in 0 .. (s.layers - 1)
  <2>1. UsesDonor(s, RangeName(p, l), DonorA(s))
    BY <1>5, UsedAreParams
  <2>2. KvDonor(s, l) = DonorA(s)
    BY <1>2, <2>1, Zenon
  <2> QED
    BY <1>4, <2>2, DonorsAreNone
<1>6. ASSUME "donor_b_kv" \in Used(s, RangeName(p, l), params) PROVE DonorB(s) \in 0 .. (s.layers - 1)
  <2>1. UsesDonor(s, RangeName(p, l), DonorB(s))
    BY <1>6, UsedAreParams
  <2>2. KvDonor(s, l) = DonorB(s)
    BY <1>2, <2>1, Zenon
  <2> QED
    BY <1>4, <2>2, DonorsAreNone
<1> QED
  BY <1>5, <1>6

LEMMA ClosedRanges ==
  ASSUME NEW r, IsRun(r), NEW p, IsPass(r.tokens, p), NEW l \in 0 .. (r.shape.layers - 1)
  PROVE  ClosedAt(r, RangeName(p, l), RangeWiring(r, p, l))
<1> DEFINE n == r.tokens
           s == r.shape
           x == RangeName(p, l)
           w == RangeWiring(r, p, l)
<1>0. n \in Nat /\ s.layers \in Nat /\ s.layers > 0 /\ IsShape(s) /\ DonorsBound(s) /\ l \in Layers(s)
  BY BoundDonors DEF IsRun
<1>1. \A q \in Used(s, x, DOMAIN w) : q \in DOMAIN w
  BY UsedInParams
<1>2. (p = -1 \/ p \in 0 .. (n - 2)) /\ (p = -1 \/ p \in Nat)
  BY <1>0, PassIs, Zenon
<1>3. /\ IsBoundary(s, n, AuxName(p, l)) /\ IsBoundary(s, n, LowerOf(p, l)) /\ IsBoundary(s, n, PriorOf(p, l))
      /\ \A i \in 0 .. (s.layers - 1) : IsBoundary(s, n, RangeName(p, i))
  BY <1>0, PassBoundaries, Zenon
<1>4. IsBoundary(s, n, Embedding)
  BY Zenon DEF IsBoundary, Embedding
<1>5. /\ "donor_a_kv" \in Used(s, x, DOMAIN w) => DonorA(s) \in 0 .. (s.layers - 1)
      /\ "donor_b_kv" \in Used(s, x, DOMAIN w) => DonorB(s) \in 0 .. (s.layers - 1)
  BY <1>0, <1>2, UsedDonors
<1>6. \A donor \in 0 .. (s.layers - 1) : IsBoundary(s, n, DonorOf(r, p, l, donor))
  BY <1>3, <1>4, Zenon DEF DonorOf
<1>7. /\ DOMAIN w = {"activations", "prior_kv", "donor_a_kv", "donor_b_kv", "ple", "layer"}
      /\ w["activations"].name = LowerOf(p, l) /\ w["prior_kv"].name = PriorOf(p, l)
      /\ w["donor_a_kv"].name = DonorOf(r, p, l, DonorA(s)) /\ w["donor_b_kv"].name = DonorOf(r, p, l, DonorB(s))
      /\ w["ple"].name = AuxName(p, l) /\ w["layer"].how = "external"
  BY DEF RangeWiring, Link, FileAt
<1> HIDE DEF w, n, s, x
<1>8. ASSUME NEW q \in Used(s, x, DOMAIN w), w[q].how = "from" PROVE IsBoundary(s, n, w[q].name)
  <2>1. q \in {"activations", "prior_kv", "donor_a_kv", "donor_b_kv", "ple", "layer"}
    BY <1>1, <1>7
  <2>2. q # "layer"
    BY <1>7, <1>8
  <2>3. CASE q = "donor_a_kv"
    BY <1>5, <1>6, <1>7, <1>8, <2>3, Zenon
  <2>4. CASE q = "donor_b_kv"
    BY <1>5, <1>6, <1>7, <1>8, <2>4, Zenon
  <2>5. CASE q = "activations" \/ q = "prior_kv" \/ q = "ple"
    BY <1>3, <1>7, <2>5, Zenon
  <2> QED
    BY <2>1, <2>2, <2>3, <2>4, <2>5
<1> QED
  BY <1>8, Zenon DEF ClosedAt, w, n, s, x

LEMMA ClosedOutput ==
  ASSUME NEW r, NEW keys, IsBoundary(r.shape, r.tokens, keys.edge), NEW x
  PROVE  ClosedAt(r, x, OutputWiring(keys))
<1> DEFINE n == r.tokens
           s == r.shape
           w == OutputWiring(keys)
<1>1. \A q \in Used(s, x, DOMAIN w) : q \in DOMAIN w
  BY UsedInParams
<1>2. DOMAIN w = {"edge", "decoder"} /\ w["edge"].name = keys.edge /\ w["decoder"].how = "external"
  BY DEF OutputWiring, Link, FileOf, FileAt
<1> HIDE DEF w, n, s
<1>3. ASSUME NEW q \in Used(s, x, DOMAIN w), w[q].how = "from" PROVE IsBoundary(s, n, w[q].name)
  <2>1. q = "edge" \/ q = "decoder"
    BY <1>1, <1>2
  <2>2. q = "edge"
    BY <1>2, <1>3, <2>1
  <2> QED
    BY <1>2, <2>2 DEF n, s
<1> QED
  BY <1>3, Zenon DEF ClosedAt, w, n, s

LEMMA ClosedBoundaries ==
  ASSUME NEW r, IsRun(r), NEW x, IsBoundary(r.shape, r.tokens, x), NEW keys,
         IsBoundary(r.shape, r.tokens, keys.edge)
  PROVE  ClosedAt(r, x, Wiring(r, x, keys))
<1> DEFINE n == r.tokens
           s == r.shape
           N == s.layers
<1>0. n \in Nat /\ N \in Nat
  BY BoundDonors DEF IsRun
<1>1. ASSUME NEW w, Wiring(r, x, keys) = w, ClosedAt(r, x, w) PROVE ClosedAt(r, x, Wiring(r, x, keys))
  BY <1>1, Zenon
<1>2. CASE x = Single("prompt_prepare")
  <2>1. Wiring(r, x, keys) = PrepareWiring(keys)
    BY <1>2, WiringOf DEF Single
  <2> QED
    BY <1>2, <2>1, ClosedPrompt, Zenon
<1>3. CASE x = Single("input_embedding")
  <2>1. Wiring(r, x, keys) = EmbeddingWiring
    BY <1>3, WiringOf DEF Single
  <2>2. x = Embedding
    BY <1>3 DEF Embedding
  <2> QED
    BY <2>1, <2>2, ClosedPrompt, Zenon
<1>4. CASE x = Single("decode_init")
  <2>1. Wiring(r, x, keys) = NoWiring
    BY <1>4, WiringOf DEF Single
  <2> QED
    BY <1>4, <2>1, ClosedPrompt, Zenon
<1>5. CASE x = Single("output_finalize")
  <2>1. Wiring(r, x, keys) = OutputWiring(keys)
    BY <1>5, WiringOf DEF Single
  <2> QED
    BY <2>1, ClosedOutput, Zenon
<1>6. CASE x = Single("prefill_finalize")
  <2>1. Wiring(r, x, keys) = FinalizeWiring(r, -1)
    BY <1>6, WiringOf DEF Single
  <2>2. IsPass(n, -1)
    BY DEF IsPass
  <2> HIDE DEF s, N
  <2>3. ClosedAt(r, x, FinalizeWiring(r, -1))
    BY <2>2, ClosedLayers, Zenon
  <2> QED
    BY <2>1, <2>3
<1>7. CASE \E l \in 0 .. (N - 1) : x = Name("prefill_prepare_aux", 0, l) \/ x = Name("prefill_range", 0, l)
  <2>1. PICK l \in 0 .. (N - 1) : x = Name("prefill_prepare_aux", 0, l) \/ x = Name("prefill_range", 0, l)
    BY <1>7
  <2>2. IsPass(n, -1)
    BY DEF IsPass
  <2>3. CASE x = Name("prefill_prepare_aux", 0, l)
    <3>1. Wiring(r, x, keys) = AuxWiring(-1, l)
      BY <2>3, WiringOf
    <3>2. ClosedAt(r, x, AuxWiring(-1, l))
      BY <2>2, ClosedLayers, Zenon
    <3> QED
      BY <3>1, <3>2
  <2>4. CASE x = Name("prefill_range", 0, l)
    <3>1. Wiring(r, x, keys) = RangeWiring(r, -1, l)
      BY <2>4, WiringOf
    <3>2. ClosedAt(r, RangeName(-1, l), RangeWiring(r, -1, l))
      BY <2>2, ClosedRanges, Zenon
    <3>3. RangeName(-1, l) = x
      BY <2>4, PassNamesAre
    <3> QED
      BY <3>1, <3>2, <3>3
  <2> QED
    BY <2>1, <2>3, <2>4
<1>8. CASE \E t \in 0 .. (n - 1) : x = Name("decode_select", t, 0)
  <2>1. PICK t \in 0 .. (n - 1) : x = Name("decode_select", t, 0)
    BY <1>8
  <2>2. Wiring(r, x, keys) = SelectWiring(t)
    BY <2>1, WiringOf
  <2>3. ClosedAt(r, x, SelectWiring(t))
    BY ClosedSelections, Zenon
  <2> QED
    BY <2>2, <2>3
<1>9. CASE \E t \in 0 .. (n - 2) :
             \/ x = Name("decode_embed", t, 0) \/ x = Name("decode_finalize", t, 0)
             \/ \E l \in 0 .. (N - 1) : x = Name("decode_aux", t, l) \/ x = Name("decode_range", t, l)
  <2>1. PICK t \in 0 .. (n - 2) :
             \/ x = Name("decode_embed", t, 0) \/ x = Name("decode_finalize", t, 0)
             \/ \E l \in 0 .. (N - 1) : x = Name("decode_aux", t, l) \/ x = Name("decode_range", t, l)
    BY <1>9
  <2>2. t \in Nat /\ t \in 0 .. (n - 1)
    BY <1>0
  <2>3. IsPass(n, t)
    BY Zenon DEF IsPass
  <2>4. CASE x = Name("decode_embed", t, 0)
    <3>1. Wiring(r, x, keys) = EmbedWiring(t)
      BY <2>4, WiringOf
    <3>2. ClosedAt(r, x, EmbedWiring(t))
      BY <2>2, ClosedSelections, Zenon
    <3> QED
      BY <3>1, <3>2
  <2>5. CASE x = Name("decode_finalize", t, 0)
    <3>1. Wiring(r, x, keys) = FinalizeWiring(r, t)
      BY <2>5, WiringOf
    <3>2. ClosedAt(r, x, FinalizeWiring(r, t))
      BY <2>3, ClosedLayers, Zenon
    <3> QED
      BY <3>1, <3>2
  <2>6. ASSUME NEW l \in 0 .. (N - 1), x = Name("decode_aux", t, l) PROVE ClosedAt(r, x, Wiring(r, x, keys))
    <3>0. Wiring(r, Name("decode_aux", t, l), keys) = AuxWiring(t, l)
      BY WiringOf
    <3>1. Wiring(r, x, keys) = AuxWiring(t, l)
      BY <2>6, <3>0, Zenon
    <3>2. ClosedAt(r, x, AuxWiring(t, l))
      BY <2>3, ClosedLayers, Zenon
    <3> QED
      BY <3>1, <3>2
  <2>7. ASSUME NEW l \in 0 .. (N - 1), x = Name("decode_range", t, l) PROVE ClosedAt(r, x, Wiring(r, x, keys))
    <3>0. Wiring(r, Name("decode_range", t, l), keys) = RangeWiring(r, t, l)
      BY WiringOf
    <3>1. Wiring(r, x, keys) = RangeWiring(r, t, l)
      BY <2>7, <3>0, Zenon
    <3>2. ClosedAt(r, RangeName(t, l), RangeWiring(r, t, l))
      BY <2>3, ClosedRanges, Zenon
    <3>3. RangeName(t, l) = x
      BY <2>2, <2>7, PassNamesAre
    <3> QED
      BY <3>1, <3>2, <3>3
  <2> QED
    BY <2>1, <2>4, <2>5, <2>6, <2>7, Zenon
<1> HIDE DEF n, s, N
<1> QED
  BY <1>2, <1>3, <1>4, <1>5, <1>6, <1>7, <1>8, <1>9, Zenon DEF IsBoundary, n, s, N

(* A direct run that ends has the output of its chain, and everything that *)
(* the output depends on (run_direct): the merges and the pass after the   *)
(* last selection, which it leaves out, are not needed.                    *)
THEOREM DirectRunIsComplete == Spec /\ (IsImported => DonorsBound(spec.shape)) => []NothingIsMissing
<1>1. ImportInv /\ DirectInv => NothingIsMissing
  <2> SUFFICES ASSUME ImportInv, DirectInv, step = "done", SameRun
               PROVE  /\ Single("output_finalize") \in DOMAIN records
                      /\ \A name \in DOMAIN records : InputsOf(name) \subseteq DOMAIN records
    BY Zenon DEF NothingIsMissing
  <2> DEFINE n == directSpec.tokens
             s == spec.shape
  <2>1. step \in DirectSteps /\ step # "none" /\ step # "refused"
    BY DEF DirectSteps
  <2>2. IsRun(spec) /\ n \in Nat /\ s.layers \in Nat
    BY <2>1, DirectRunIs, Zenon
  <2>3. /\ IsImported /\ phase = "expanded"
        /\ Recorded(spec, n, step, pass, layer, records)
    BY <2>1, Zenon DEF DirectInv, DirectStarted
  <2>4. n = spec.tokens
    BY DEF SameRun
  <2>5. TurnNow(s, n, step, pass, layer) = <<n, 1, 0>>
    BY DEF TurnNow
  <2> HIDE DEF s
  <2>6. DOMAIN records = BoundaryNames(s, n)
    BY <2>2, <2>3, <2>5, NothingFirst, Zenon DEF Recorded, s
  <2>7. \A x : x \in DOMAIN records <=> IsBoundary(s, n, x)
    BY <2>2, <2>6, BoundariesAre, Zenon
  <2>8. IsBoundary(s, n, Single("output_finalize"))
    BY Zenon DEF IsBoundary
  <2>9. IsBoundary(s, n, Behind(spec).edge)
    <3>1. CASE n = 0
      <4>1. Behind(spec).edge = Single("decode_init")
        BY <2>4, <3>1 DEF Behind
      <4> QED
        BY <4>1, Zenon DEF IsBoundary
    <3>2. CASE n # 0
      <4>1. Behind(spec).edge = Name("decode_select", n - 1, 0)
        BY <2>4, <3>2 DEF Behind, SelectName
      <4>2. n - 1 \in 0 .. (n - 1)
        BY <2>2, <3>2
      <4> QED
        BY <4>1, <4>2, Zenon DEF IsBoundary
    <3> QED
      BY <3>1, <3>2
  <2>10. ASSUME NEW name \in DOMAIN records, NEW x \in InputsOf(name) PROVE x \in DOMAIN records
    <3>1. IsBoundary(s, n, name)
      BY <2>7, Zenon
    <3>2. IsName(spec, name)
      <4>1. n <= spec.tokens
        BY <2>2, <2>4
      <4> QED
        BY <2>2, <3>1, <4>1, BoundaryIsName, Zenon DEF s
    <3>3. StageNamed(name).inputs = Wiring(spec, name, Behind(spec))
      BY <2>3, <3>2, ChainReadsAre, Zenon
    <3> DEFINE w == Wiring(spec, name, Behind(spec))
    <3>4. InputsOf(name) = {w[p].name : p \in {q \in Used(s, name, DOMAIN w) : w[q].how = "from"}}
      BY <3>3, Zenon DEF InputsOf, Shape, s
    <3> HIDE DEF w
    <3>5. PICK p \in Used(s, name, DOMAIN w) : w[p].how = "from" /\ x = w[p].name
      BY <3>4
    <3>6. ClosedAt(spec, name, w)
      BY <2>2, <2>4, <2>9, <3>1, ClosedBoundaries, Zenon DEF w, s
    <3>7. IsBoundary(s, n, w[p].name)
      BY <2>4, <3>5, <3>6, Zenon DEF ClosedAt, s
    <3> QED
      BY <2>7, <3>5, <3>7, Zenon
  <2> QED
    BY <2>7, <2>8, <2>10, Zenon
<1> QED
  BY <1>1, DirectIsInvariant, PTL
-----------------------------------------------------------------------------
(* The inputs of an imported chain can be loaded when it is their turn.     *)

(* Which routine runs a stage of a kind, and what it takes. *)
RoutineOf(kind) ==
  CASE kind \in {"prompt_merge_seed", "prompt_merge"} -> "prompt_merge"
    [] kind = "prompt_prepare" -> "prompt_prepare"
    [] kind = "input_embedding" -> "input_embedding"
    [] kind \in AuxKinds -> "prefill_prepare_aux"
    [] kind \in {"prefill_range", "decode_range"} -> "prefill_range"
    [] kind \in {"prefill_finalize", "decode_finalize"} -> "prefill_finalize"
    [] kind = "decode_init" -> "decode_init"
    [] kind = "decode_select" -> "decode_select_token"
    [] kind = "decode_embed" -> "decode_embed"
    [] OTHER -> "output_finalize"
Kinds == {"prompt_merge_seed", "prompt_merge", "prompt_prepare", "input_embedding",
          "prefill_prepare_aux", "decode_aux", "prefill_range", "decode_range",
          "prefill_finalize", "decode_finalize", "decode_init", "decode_select",
          "decode_embed", "output_finalize"}
RowKinds == {"input_embedding", "decode_embed", "prefill_range", "decode_range"}
RowTypes == {"aux_activations", "range_activations", "finalize_activations"}
EdgeKinds == {"decode_init", "decode_select"}
Takes(as, kind) ==
  \/ as = "pieces" /\ kind \in {"prompt_merge_seed", "prompt_merge"}
  \/ as = "prompt" /\ kind = "prompt_prepare"
  \/ as \in RowTypes /\ kind \in RowKinds
  \/ as = "range_ple" /\ kind \in AuxKinds
  \/ as = "logits" /\ kind \in {"prefill_finalize", "decode_finalize"}
  \/ as \in {"edge", "embed_edge", "output_edge"} /\ kind \in EdgeKinds

LEMMA KindRoutine ==
  ASSUME NEW stage, stage.name[1] \in Kinds
  PROVE  KindOf(stage) # NoStage /\ KindOf(stage).routine = RoutineOf(stage.name[1])
<1> DEFINE k == stage.name[1]
<1>1. CASE k \in {"prompt_merge_seed", "prompt_merge", "prompt_prepare", "input_embedding"}
  BY <1>1 DEF KindOf, FromStageSpec, Project, Stage, NoStage, RoutineOf, AuxKinds
<1>2. CASE k \in {"prefill_prepare_aux", "decode_aux", "prefill_range", "decode_range"}
  BY <1>2 DEF KindOf, FromStageSpec, Project, Stage, NoStage, RoutineOf, AuxKinds, HasLayer
<1>3. CASE k \in {"prefill_finalize", "decode_finalize", "decode_init", "decode_select",
             "decode_embed", "output_finalize"}
  BY <1>3 DEF KindOf, FromStageSpec, Project, Stage, NoStage, RoutineOf, AuxKinds
<1> QED
  BY <1>1, <1>2, <1>3 DEF Kinds

(* The types of the values, and the parameters of the routines. *)
LEMMA RoutinesAre ==
  /\ Params("prompt_merge") = [initial_pieces |-> "pieces"] /\ ModelParams("prompt_merge") = {"tokenizer"}
  /\ Params("prompt_prepare") = [merged_pieces |-> "pieces"] /\ ModelParams("prompt_prepare") = {"tokenizer"}
  /\ Params("input_embedding") = [prompt |-> "prompt"] /\ ModelParams("input_embedding") = {"embedding"}
  /\ Params("prefill_prepare_aux") = [embedded |-> "aux_activations"] /\ ModelParams("prefill_prepare_aux") = {"layer"}
  /\ Params("prefill_range") = [activations |-> "range_activations", prior_kv |-> "range_activations",
                                donor_a_kv |-> "range_activations", donor_b_kv |-> "range_activations",
                                ple |-> "range_ple"]
  /\ ModelParams("prefill_range") = {"layer"}
  /\ Params("prefill_finalize") = [activations |-> "finalize_activations"] /\ ModelParams("prefill_finalize") = {"head"}
  /\ Params("decode_init") = [p \in {} |-> "none"] /\ ModelParams("decode_init") = {}
  /\ Params("decode_select_token") = [logits |-> "logits", prior |-> "edge"] /\ ModelParams("decode_select_token") = {}
  /\ Params("decode_embed") = [selected |-> "embed_edge"] /\ ModelParams("decode_embed") = {"embedding"}
  /\ Params("output_finalize") = [edge |-> "output_edge"] /\ ModelParams("output_finalize") = {"decoder"}
<1>1. /\ Routines.prompt_merge = PromptMerge /\ Routines.prompt_prepare = PromptPrepare
      /\ Routines.input_embedding = InputEmbedding /\ Routines.prefill_prepare_aux = PrefillPrepareAux
      /\ Routines.prefill_range = PrefillRange /\ Routines.prefill_finalize = PrefillFinalize
      /\ Routines.decode_init = DecodeInitRoutine /\ Routines.decode_select_token = DecodeSelectToken
      /\ Routines.decode_embed = DecodeEmbed /\ Routines.output_finalize = OutputFinalize
  BY DEF Routines
<1>2. /\ Params("prompt_merge") = PromptMerge.params /\ ModelParams("prompt_merge") = PromptMerge.model
      /\ Params("prompt_prepare") = PromptPrepare.params /\ ModelParams("prompt_prepare") = PromptPrepare.model
      /\ Params("input_embedding") = InputEmbedding.params /\ ModelParams("input_embedding") = InputEmbedding.model
  BY <1>1, Zenon DEF Params, ModelParams
<1>3. /\ Params("prefill_prepare_aux") = PrefillPrepareAux.params /\ ModelParams("prefill_prepare_aux") = PrefillPrepareAux.model
      /\ Params("prefill_range") = PrefillRange.params /\ ModelParams("prefill_range") = PrefillRange.model
      /\ Params("prefill_finalize") = PrefillFinalize.params /\ ModelParams("prefill_finalize") = PrefillFinalize.model
  BY <1>1, Zenon DEF Params, ModelParams
<1>4. /\ Params("decode_init") = DecodeInitRoutine.params /\ ModelParams("decode_init") = DecodeInitRoutine.model
      /\ Params("decode_select_token") = DecodeSelectToken.params /\ ModelParams("decode_select_token") = DecodeSelectToken.model
      /\ Params("decode_embed") = DecodeEmbed.params /\ ModelParams("decode_embed") = DecodeEmbed.model
      /\ Params("output_finalize") = OutputFinalize.params /\ ModelParams("output_finalize") = OutputFinalize.model
  BY <1>1, Zenon DEF Params, ModelParams
<1> QED
  BY <1>2, <1>3, <1>4 DEF PromptMerge, PromptPrepare, InputEmbedding, PrefillPrepareAux, PrefillRange, PrefillFinalize,
     DecodeInitRoutine, DecodeSelectToken, DecodeEmbed, OutputFinalize

LEMMA ValueTypes ==
  ASSUME NEW stage, stage.name[1] \in Kinds
  PROVE  /\ stage.name[1] \in {"prompt_merge_seed", "prompt_merge"} => Value(stage).type = "BpePieces"
         /\ stage.name[1] = "prompt_prepare" => Value(stage).type = "PromptTokenization"
         /\ stage.name[1] \in RowKinds => Value(stage).type \in ActivationTypes
         /\ stage.name[1] \in AuxKinds => Value(stage).type = "PleLayerInputs"
         /\ stage.name[1] \in {"prefill_finalize", "decode_finalize"} => Value(stage).type = "PrefillLogits"
         /\ stage.name[1] \in EdgeKinds => Value(stage).type = "DecodeEdge"
         /\ stage.name[1] = "output_finalize" => Value(stage).type = "GeneratedOutput"
<1> DEFINE k == stage.name[1]
           r == KindOf(stage).routine
<1>1. r = RoutineOf(k)
  BY KindRoutine
<1>2. Value(stage).type = Routines[r].value
  BY DEF Value
<1>3. /\ Routines["prompt_merge"].value = "BpePieces" /\ Routines["prompt_prepare"].value = "PromptTokenization"
      /\ Routines["input_embedding"].value = "EmbeddedActivations" /\ Routines["prefill_prepare_aux"].value = "PleLayerInputs"
      /\ Routines["prefill_range"].value = "RangeActivations" /\ Routines["prefill_finalize"].value = "PrefillLogits"
      /\ Routines["decode_init"].value = "DecodeEdge" /\ Routines["decode_select_token"].value = "DecodeEdge"
      /\ Routines["decode_embed"].value = "DecodeActivations" /\ Routines["output_finalize"].value = "GeneratedOutput"
  BY DEF Routines, PromptMerge, PromptPrepare, InputEmbedding, PrefillPrepareAux, PrefillRange, PrefillFinalize,
     DecodeInitRoutine, DecodeSelectToken, DecodeEmbed, OutputFinalize
<1>4. /\ k \in {"prompt_merge_seed", "prompt_merge"} => RoutineOf(k) = "prompt_merge"
      /\ k = "prompt_prepare" => RoutineOf(k) = "prompt_prepare"
      /\ k \in RowKinds => RoutineOf(k) \in {"input_embedding", "decode_embed", "prefill_range"}
      /\ k \in AuxKinds => RoutineOf(k) = "prefill_prepare_aux"
      /\ k \in {"prefill_finalize", "decode_finalize"} => RoutineOf(k) = "prefill_finalize"
      /\ k \in EdgeKinds => RoutineOf(k) \in {"decode_init", "decode_select_token"}
      /\ k = "output_finalize" => RoutineOf(k) = "output_finalize"
  <2> HIDE DEF k
  <2> QED
    BY DEF RoutineOf, RowKinds, AuxKinds, EdgeKinds
<1>5. "EmbeddedActivations" \in ActivationTypes /\ "DecodeActivations" \in ActivationTypes /\ "RangeActivations" \in ActivationTypes
  BY DEF ActivationTypes
<1> HIDE DEF k, r
<1>6. \A q : q = r => Value(stage).type = Routines[q].value
  BY <1>2, Zenon
<1>7. r \in {"input_embedding", "decode_embed", "prefill_range"} => Value(stage).type \in ActivationTypes
  BY <1>3, <1>5, <1>6
<1>8. r \in {"decode_init", "decode_select_token"} => Value(stage).type = "DecodeEdge"
  BY <1>3, <1>6
<1> QED
  BY <1>1, <1>3, <1>4, <1>6, <1>7, <1>8 DEF k

LEMMA TakenConverts ==
  ASSUME NEW stage, stage.name[1] \in Kinds, NEW as, Takes(as, stage.name[1])
  PROVE  Converted(Value(stage), as) # {}
<1> DEFINE k == stage.name[1]
           v == Value(stage)
           f == v.fields
<1>1. Converted(v, as) =
        CASE as = "pieces" /\ v.type = "BpePieces" -> {f}
          [] as = "prompt" /\ v.type = "PromptTokenization" -> {[token_ids |-> f.token_ids]}
          [] as = "aux_activations" /\ v.type \in ActivationTypes -> {AuxActivations(f)}
          [] as = "range_activations" /\ v.type \in ActivationTypes -> {RangeActivations(f)}
          [] as = "finalize_activations" /\ v.type \in ActivationTypes -> {FinalizeActivations(f)}
          [] as = "range_ple" /\ v.type = "PleLayerInputs" -> {RangePle(f)}
          [] as = "logits" /\ v.type = "PrefillLogits" -> {Logits(f)}
          [] as = "edge" /\ v.type = "DecodeEdge" -> {f}
          [] as \in {"embed_edge", "output_edge"} /\ v.type = "DecodeEdge" -> {Edge(f)}
          [] OTHER -> {}
  BY Zenon DEF Converted
<1>2. /\ k \in {"prompt_merge_seed", "prompt_merge"} => v.type = "BpePieces"
      /\ k = "prompt_prepare" => v.type = "PromptTokenization"
      /\ k \in RowKinds => v.type \in ActivationTypes
      /\ k \in AuxKinds => v.type = "PleLayerInputs"
      /\ k \in {"prefill_finalize", "decode_finalize"} => v.type = "PrefillLogits"
      /\ k \in EdgeKinds => v.type = "DecodeEdge"
  BY ValueTypes
<1> HIDE DEF v, f, k
<1>3. CASE as \in RowTypes /\ k \in RowKinds
  BY <1>1, <1>2, <1>3 DEF RowTypes, v
<1>4. CASE ~(as \in RowTypes /\ k \in RowKinds)
  BY <1>1, <1>2, <1>4 DEF Takes, v, k
<1> QED
  BY <1>3, <1>4

(* A wiring gives a routine what it takes. *)
Fits(routine, w) ==
  /\ \A p \in DOMAIN Params(routine) :
       p \in DOMAIN w /\ (w[p].how = "external" \/ (w[p].how = "from" /\ Takes(Params(routine)[p], w[p].name[1])))
  /\ \A p \in ModelParams(routine) : p \in DOMAIN w /\ w[p].how = "external"

LEMMA FileIsExternal ==
  \A kind : FileOf(kind).how = "external"
BY LinkParts, Zenon DEF FileOf

LEMMA PromptFits ==
  ASSUME NEW keys, keys.pieces[1] \in {"prompt_merge_seed", "prompt_merge"}
  PROVE  /\ Fits("prompt_merge", SeedWiring)
         /\ \A b : Fits("prompt_merge", MergeWiring(b))
         /\ Fits("prompt_prepare", PrepareWiring(keys))
         /\ Fits("input_embedding", EmbeddingWiring)
<1>1. /\ Params("prompt_merge") = [initial_pieces |-> "pieces"] /\ ModelParams("prompt_merge") = {"tokenizer"}
      /\ Params("prompt_prepare") = [merged_pieces |-> "pieces"] /\ ModelParams("prompt_prepare") = {"tokenizer"}
      /\ Params("input_embedding") = [prompt |-> "prompt"] /\ ModelParams("input_embedding") = {"embedding"}
  BY RoutinesAre
<1>2. Fits("prompt_merge", SeedWiring)
  BY <1>1, FileIsExternal DEF Fits, SeedWiring
<1>3. ASSUME NEW b PROVE Fits("prompt_merge", MergeWiring(b))
  <2>1. MergeSource(b)[1] \in {"prompt_merge_seed", "prompt_merge"}
    BY NameParts DEF MergeSource, Single
  <2> DEFINE x == MergeSource(b)
  <2>2. Link(x).how = "from" /\ Link(x).name = x
    BY LinkParts
  <2>3. MergeWiring(b) = [initial_pieces |-> Link(x), tokenizer |-> FileOf("tokenizer")]
    BY DEF MergeWiring
  <2> HIDE DEF x
  <2> QED
    BY <1>1, <2>1, <2>2, <2>3, FileIsExternal DEF Fits, Takes, x
<1>4. Fits("prompt_prepare", PrepareWiring(keys))
  <2> DEFINE x == keys.pieces
  <2>2. Link(x).how = "from" /\ Link(x).name = x
    BY LinkParts
  <2>3. PrepareWiring(keys) = [merged_pieces |-> Link(x), tokenizer |-> FileOf("tokenizer")]
    BY DEF PrepareWiring
  <2> HIDE DEF x
  <2> QED
    BY <1>1, <2>2, <2>3, FileIsExternal DEF Fits, Takes, x
<1>5. Fits("input_embedding", EmbeddingWiring)
  <2> DEFINE x == Single("prompt_prepare")
  <2>1. x[1] = "prompt_prepare"
    BY NameParts DEF Single
  <2>2. Link(x).how = "from" /\ Link(x).name = x
    BY LinkParts
  <2>3. EmbeddingWiring = [prompt |-> Link(x), embedding |-> FileOf("embedding")]
    BY DEF EmbeddingWiring
  <2> HIDE DEF x
  <2> QED
    BY <1>1, <2>1, <2>2, <2>3, FileIsExternal DEF Fits, Takes
<1> QED
  BY <1>2, <1>3, <1>4, <1>5

(* Where activations come from. *)
LEMMA RowsFrom ==
  ASSUME NEW p \in Int
  PROVE  /\ StartOf(p)[1] \in RowKinds
         /\ \A n : RangeName(p, n)[1] \in RowKinds
         /\ \A n : AuxName(p, n)[1] \in AuxKinds
         /\ FinalizeName(p)[1] \in {"prefill_finalize", "decode_finalize"}
         /\ \A t : SelectName(t)[1] = "decode_select"
<1>1. StartOf(p)[1] \in RowKinds
  BY NameParts DEF StartOf, Embedding, EmbedName, Single, RowKinds
<1>2. \A n : RangeName(p, n)[1] \in RowKinds /\ AuxName(p, n)[1] \in AuxKinds
  BY NameParts DEF RangeName, AuxName, PassName, RowKinds, AuxKinds
<1>3. FinalizeName(p)[1] \in {"prefill_finalize", "decode_finalize"}
  BY NameParts DEF FinalizeName, PassName
<1>4. \A t : SelectName(t)[1] = "decode_select"
  BY NameParts DEF SelectName
<1> QED
  BY <1>1, <1>2, <1>3, <1>4

LEMMA LayersFit ==
  ASSUME NEW r, NEW p \in Int, NEW n
  PROVE  /\ Fits("prefill_prepare_aux", AuxWiring(p, n))
         /\ Fits("prefill_range", RangeWiring(r, p, n))
         /\ Fits("prefill_finalize", FinalizeWiring(r, p))
<1>1. /\ Params("prefill_prepare_aux") = [embedded |-> "aux_activations"] /\ ModelParams("prefill_prepare_aux") = {"layer"}
      /\ Params("prefill_range") = [activations |-> "range_activations", prior_kv |-> "range_activations",
                                    donor_a_kv |-> "range_activations", donor_b_kv |-> "range_activations",
                                    ple |-> "range_ple"]
      /\ ModelParams("prefill_range") = {"layer"}
      /\ Params("prefill_finalize") = [activations |-> "finalize_activations"] /\ ModelParams("prefill_finalize") = {"head"}
  BY RoutinesAre
<1>2. \A x : Link(x).how = "from" /\ Link(x).name = x /\ FileAt(x).how = "external"
  BY LinkParts
<1>3. "aux_activations" \in RowTypes /\ "range_activations" \in RowTypes /\ "finalize_activations" \in RowTypes
  BY DEF RowTypes
<1>4. \A as, kind : as \in RowTypes /\ kind \in RowKinds => Takes(as, kind)
  BY DEF Takes
<1>5. Fits("prefill_prepare_aux", AuxWiring(p, n))
  <2> DEFINE x == StartOf(p)
             f == FileAt(Name("aux_layer", 0, n))
  <2>1. Link(x).how = "from" /\ Link(x).name = x /\ x[1] \in RowKinds /\ f.how = "external"
    BY <1>2, RowsFrom
  <2>2. AuxWiring(p, n) = [embedded |-> Link(x), layer |-> f]
    BY DEF AuxWiring
  <2> HIDE DEF x, f
  <2> QED
    BY <1>1, <1>3, <1>4, <2>1, <2>2 DEF Fits
<1>6. Fits("prefill_range", RangeWiring(r, p, n))
  <2> DEFINE a == LowerOf(p, n)
             b == PriorOf(p, n)
             c == DonorOf(r, p, n, DonorA(r.shape))
             d == DonorOf(r, p, n, DonorB(r.shape))
             e == AuxName(p, n)
             f == FileAt(Name("transformer_layer", 0, n))
  <2>0. p - 1 \in Int
    OBVIOUS
  <2>1. a[1] \in RowKinds /\ e[1] \in AuxKinds
    BY RowsFrom DEF LowerOf
  <2>2. Embedding[1] \in RowKinds
    BY NameParts DEF Embedding, Single, RowKinds
  <2>3. b[1] \in RowKinds
    BY <2>0, <2>2, RowsFrom DEF PriorOf
  <2>4. \A m : DonorOf(r, p, n, m)[1] \in RowKinds
    BY <2>2, RowsFrom DEF DonorOf
  <2>5. c[1] \in RowKinds /\ d[1] \in RowKinds
    BY <2>4, Zenon
  <2>6. f.how = "external" /\ \A x \in {a, b, c, d, e} : Link(x).how = "from" /\ Link(x).name = x
    BY <1>2, Zenon
  <2>7. RangeWiring(r, p, n) = [activations |-> Link(a), prior_kv |-> Link(b), donor_a_kv |-> Link(c),
                                donor_b_kv |-> Link(d), ple |-> Link(e), layer |-> f]
    BY DEF RangeWiring
  <2>8. Takes("range_ple", e[1])
    BY <2>1 DEF Takes
  <2> HIDE DEF a, b, c, d, e, f
  <2> QED
    BY <1>1, <1>3, <1>4, <2>1, <2>3, <2>5, <2>6, <2>7, <2>8 DEF Fits
<1>7. Fits("prefill_finalize", FinalizeWiring(r, p))
  <2> DEFINE x == RangeName(p, r.shape.layers - 1)
  <2>1. Link(x).how = "from" /\ Link(x).name = x /\ x[1] \in RowKinds
    BY <1>2, RowsFrom
  <2>2. FinalizeWiring(r, p) = [activations |-> Link(x), head |-> FileOf("head")]
    BY DEF FinalizeWiring
  <2> HIDE DEF x
  <2> QED
    BY <1>1, <1>3, <1>4, <2>1, <2>2, FileIsExternal DEF Fits
<1> QED
  BY <1>5, <1>6, <1>7

LEMMA DecodeFits ==
  ASSUME NEW keys, keys.edge[1] \in EdgeKinds
  PROVE  /\ Fits("decode_init", NoWiring)
         /\ \A t \in Nat : Fits("decode_select_token", SelectWiring(t)) /\ Fits("decode_embed", EmbedWiring(t))
         /\ Fits("output_finalize", OutputWiring(keys))
<1>1. /\ Params("decode_init") = [p \in {} |-> "none"] /\ ModelParams("decode_init") = {}
      /\ Params("decode_select_token") = [logits |-> "logits", prior |-> "edge"] /\ ModelParams("decode_select_token") = {}
      /\ Params("decode_embed") = [selected |-> "embed_edge"] /\ ModelParams("decode_embed") = {"embedding"}
      /\ Params("output_finalize") = [edge |-> "output_edge"] /\ ModelParams("output_finalize") = {"decoder"}
  BY RoutinesAre
<1>2. \A x : Link(x).how = "from" /\ Link(x).name = x
  BY LinkParts
<1>3. Fits("decode_init", NoWiring)
  BY <1>1 DEF Fits
<1>4. ASSUME NEW t \in Nat PROVE Fits("decode_select_token", SelectWiring(t)) /\ Fits("decode_embed", EmbedWiring(t))
  <2> DEFINE a == FinalizeName(t - 1)
             b == IF t = 0 THEN Single("decode_init") ELSE SelectName(t - 1)
             c == SelectName(t)
  <2>1. a[1] \in {"prefill_finalize", "decode_finalize"}
    BY RowsFrom
  <2>2. b[1] \in EdgeKinds /\ c[1] \in EdgeKinds
    BY NameParts DEF Single, SelectName, EdgeKinds
  <2>3. Takes("logits", a[1]) /\ Takes("edge", b[1]) /\ Takes("embed_edge", c[1])
    BY <2>1, <2>2 DEF Takes
  <2>4. SelectWiring(t) = [logits |-> Link(a), prior |-> Link(b)]
    BY DEF SelectWiring
  <2>5. EmbedWiring(t) = [selected |-> Link(c), embedding |-> FileOf("embedding")]
    BY DEF EmbedWiring
  <2> HIDE DEF a, b, c
  <2> QED
    BY <1>1, <1>2, <2>3, <2>4, <2>5, FileIsExternal DEF Fits
<1>5. Fits("output_finalize", OutputWiring(keys))
  <2> DEFINE x == keys.edge
  <2>1. Takes("output_edge", x[1])
    BY DEF Takes
  <2>2. OutputWiring(keys) = [edge |-> Link(x), decoder |-> FileOf("decoder")]
    BY DEF OutputWiring
  <2> HIDE DEF x
  <2> QED
    BY <1>1, <1>2, <2>1, <2>2, FileIsExternal DEF Fits
<1> QED
  BY <1>3, <1>4, <1>5

LEMMA RoutinesOfKinds ==
  /\ RoutineOf("prompt_merge_seed") = "prompt_merge" /\ RoutineOf("prompt_merge") = "prompt_merge"
  /\ RoutineOf("prompt_prepare") = "prompt_prepare" /\ RoutineOf("input_embedding") = "input_embedding"
  /\ RoutineOf("prefill_prepare_aux") = "prefill_prepare_aux" /\ RoutineOf("decode_aux") = "prefill_prepare_aux"
  /\ RoutineOf("prefill_range") = "prefill_range" /\ RoutineOf("decode_range") = "prefill_range"
  /\ RoutineOf("prefill_finalize") = "prefill_finalize" /\ RoutineOf("decode_finalize") = "prefill_finalize"
  /\ RoutineOf("decode_init") = "decode_init" /\ RoutineOf("decode_select") = "decode_select_token"
  /\ RoutineOf("decode_embed") = "decode_embed" /\ RoutineOf("output_finalize") = "output_finalize"
BY DEF RoutineOf, AuxKinds

(* The stage of every name is of a known kind and gets what its routine takes. *)
FitsName(r, x) == x[1] \in Kinds /\ Fits(RoutineOf(x[1]), Wiring(r, x, Behind(r)))

LEMMA FitsLiteral ==
  ASSUME NEW r, NEW k \in Kinds, NEW t, NEW l, NEW w, Wiring(r, Name(k, t, l), Behind(r)) = w,
         Fits(RoutineOf(k), w)
  PROVE  FitsName(r, Name(k, t, l))
<1>1. Name(k, t, l)[1] = k
  BY NameParts
<1> QED
  BY <1>1, Zenon DEF FitsName

LEMMA NameFits ==
  ASSUME NEW r, IsRun(r), NEW x, IsName(r, x)
  PROVE  FitsName(r, x)
<1> DEFINE keys == Behind(r)
           N == r.shape.layers
<1>1. keys.pieces[1] \in {"prompt_merge_seed", "prompt_merge"} /\ keys.edge[1] \in EdgeKinds
  BY NameParts DEF Behind, Single, SelectName, EdgeKinds
<1>2. N \in Nat /\ r.tokens \in Nat /\ r.batches \in Nat
  BY BoundDonors DEF IsRun
<1>3. OneOf(r, x)
  BY NameCases
<1>4. /\ Fits("prompt_merge", SeedWiring) /\ \A b : Fits("prompt_merge", MergeWiring(b))
      /\ Fits("prompt_prepare", PrepareWiring(keys)) /\ Fits("input_embedding", EmbeddingWiring)
  BY <1>1, PromptFits
<1>5. /\ Fits("decode_init", NoWiring)
      /\ \A t \in Nat : Fits("decode_select_token", SelectWiring(t)) /\ Fits("decode_embed", EmbedWiring(t))
      /\ Fits("output_finalize", OutputWiring(keys))
  BY <1>1, DecodeFits
<1>6. \A k \in {"prompt_merge_seed", "prompt_merge", "prompt_prepare", "input_embedding",
                "prefill_prepare_aux", "decode_aux", "prefill_range", "decode_range",
                "prefill_finalize", "decode_finalize", "decode_init", "decode_select",
                "decode_embed", "output_finalize"} : k \in Kinds
  BY DEF Kinds
<1> HIDE DEF keys
<1>7. ASSUME NEW t, NEW l
      PROVE  /\ FitsName(r, Name("prompt_merge_seed", t, l)) /\ FitsName(r, Name("prompt_merge", t, l))
             /\ FitsName(r, Name("prompt_prepare", t, l)) /\ FitsName(r, Name("input_embedding", t, l))
             /\ FitsName(r, Name("prefill_prepare_aux", t, l)) /\ FitsName(r, Name("prefill_range", t, l))
             /\ FitsName(r, Name("prefill_finalize", t, l)) /\ FitsName(r, Name("decode_init", t, l))
             /\ FitsName(r, Name("output_finalize", t, l))
  <2>1. /\ Wiring(r, Name("prompt_merge_seed", t, l), Behind(r)) = SeedWiring
        /\ Wiring(r, Name("prompt_merge", t, l), Behind(r)) = MergeWiring(t)
        /\ Wiring(r, Name("prompt_prepare", t, l), Behind(r)) = PrepareWiring(Behind(r))
        /\ Wiring(r, Name("input_embedding", t, l), Behind(r)) = EmbeddingWiring
        /\ Wiring(r, Name("prefill_prepare_aux", t, l), Behind(r)) = AuxWiring(-1, l)
        /\ Wiring(r, Name("prefill_range", t, l), Behind(r)) = RangeWiring(r, -1, l)
        /\ Wiring(r, Name("prefill_finalize", t, l), Behind(r)) = FinalizeWiring(r, -1)
        /\ Wiring(r, Name("decode_init", t, l), Behind(r)) = NoWiring
        /\ Wiring(r, Name("output_finalize", t, l), Behind(r)) = OutputWiring(Behind(r))
    BY WiringOf
  <2>2. -1 \in Int
    OBVIOUS
  <2>3. /\ Fits("prefill_prepare_aux", AuxWiring(-1, l)) /\ Fits("prefill_range", RangeWiring(r, -1, l))
        /\ Fits("prefill_finalize", FinalizeWiring(r, -1))
    BY <2>2, LayersFit, Zenon
  <2>4. FitsName(r, Name("prompt_merge_seed", t, l)) /\ FitsName(r, Name("prompt_merge", t, l))
    BY <1>4, <1>6, <2>1, RoutinesOfKinds, FitsLiteral, Zenon
  <2>5. FitsName(r, Name("prompt_prepare", t, l)) /\ FitsName(r, Name("input_embedding", t, l))
    BY <1>4, <1>6, <2>1, RoutinesOfKinds, FitsLiteral, Zenon DEF keys
  <2>6. FitsName(r, Name("prefill_prepare_aux", t, l)) /\ FitsName(r, Name("prefill_range", t, l))
    BY <1>6, <2>1, <2>3, RoutinesOfKinds, FitsLiteral, Zenon
  <2>7. FitsName(r, Name("prefill_finalize", t, l))
    BY <1>6, <2>1, <2>3, RoutinesOfKinds, FitsLiteral, Zenon
  <2>8. FitsName(r, Name("decode_init", t, l)) /\ FitsName(r, Name("output_finalize", t, l))
    BY <1>5, <1>6, <2>1, RoutinesOfKinds, FitsLiteral, Zenon DEF keys
  <2> QED
    BY <2>4, <2>5, <2>6, <2>7, <2>8
<1>8. ASSUME NEW t \in Nat, NEW l
      PROVE  /\ FitsName(r, Name("decode_select", t, l)) /\ FitsName(r, Name("decode_embed", t, l))
             /\ FitsName(r, Name("decode_aux", t, l)) /\ FitsName(r, Name("decode_range", t, l))
             /\ FitsName(r, Name("decode_finalize", t, l))
  <2>1. /\ Wiring(r, Name("decode_select", t, l), Behind(r)) = SelectWiring(t)
        /\ Wiring(r, Name("decode_embed", t, l), Behind(r)) = EmbedWiring(t)
        /\ Wiring(r, Name("decode_aux", t, l), Behind(r)) = AuxWiring(t, l)
        /\ Wiring(r, Name("decode_range", t, l), Behind(r)) = RangeWiring(r, t, l)
        /\ Wiring(r, Name("decode_finalize", t, l), Behind(r)) = FinalizeWiring(r, t)
    BY WiringOf
  <2>2. t \in Int
    OBVIOUS
  <2>3. /\ Fits("prefill_prepare_aux", AuxWiring(t, l)) /\ Fits("prefill_range", RangeWiring(r, t, l))
        /\ Fits("prefill_finalize", FinalizeWiring(r, t))
    BY <2>2, LayersFit, Zenon
  <2>4. FitsName(r, Name("decode_select", t, l)) /\ FitsName(r, Name("decode_embed", t, l))
    BY <1>5, <1>6, <2>1, RoutinesOfKinds, FitsLiteral, Zenon
  <2>5. FitsName(r, Name("decode_aux", t, l)) /\ FitsName(r, Name("decode_range", t, l))
    BY <1>6, <2>1, <2>3, RoutinesOfKinds, FitsLiteral, Zenon
  <2>6. FitsName(r, Name("decode_finalize", t, l))
    BY <1>6, <2>1, <2>3, RoutinesOfKinds, FitsLiteral, Zenon
  <2> QED
    BY <2>4, <2>5, <2>6
<1>9. ASSUME NEW t \in 0 .. (r.tokens - 1), InPass(r, t, x) PROVE FitsName(r, x)
  <2>1. t \in Nat
    BY <1>2
  <2> QED
    BY <1>8, <1>9, <2>1, Zenon DEF InPass
<1> QED
  BY <1>3, <1>7, <1>9, Zenon DEF OneOf, Single

(* A stage whose sources have all run can be loaded. *)
LEMMA SourcesLoad ==
  ASSUME IsSequence(chain), Distinct, StoreInv, at \in 1 .. (Len(chain) + 1), NEW i \in DOMAIN chain,
         \A j \in DOMAIN chain : chain[j].name[1] \in Kinds,
         Fits(RoutineOf(chain[i].name[1]), chain[i].inputs),
         \A x \in SourcesOf(chain[i]) : \E j \in 1 .. (at - 1) : chain[j].name = x
  PROVE  CanLoad(chain[i])
<1> DEFINE stage == chain[i]
           routine == KindOf(stage).routine
<1>1. Len(chain) \in Nat /\ DOMAIN chain = 1 .. Len(chain)
  BY SequenceFacts
<1>2. \A j \in 1 .. (at - 1) : j \in DOMAIN chain
  BY <1>1
<1>3. routine = RoutineOf(stage.name[1]) /\ stage.name[1] \in Kinds
  BY KindRoutine
<1>4. Fits(routine, stage.inputs)
  BY <1>3, Zenon
<1>5. ASSUME NEW p \in Producers(stage)
      PROVE  \E j \in 1 .. (at - 1) :
               /\ stage.inputs[p].name = chain[j].name /\ j \in DOMAIN chain
               /\ stage.inputs[p].name \in StageNames /\ Producer(stage, p) = j
               /\ stage.inputs[p].name \in DOMAIN values
               /\ values[stage.inputs[p].name] = [commitment |-> chain[j].name, value |-> Value(chain[j])]
               /\ commitments[j] = chain[j].name /\ j \in DOMAIN commitments
  <2> HIDE DEF stage
  <2>1. stage.inputs[p].name \in SourcesOf(stage)
    BY <1>5, Zenon DEF Producers, SourcesOf
  <2>2. PICK j \in 1 .. (at - 1) : chain[j].name = stage.inputs[p].name
    BY <2>1, Zenon DEF stage
  <2>3. j \in DOMAIN chain
    BY <1>2
  <2>4. IndexOf(chain[j].name) = j /\ chain[j].name \in StageNames
    BY <2>3, IndexOfName
  <2>5. Producer(stage, p) = j
    BY <2>2, <2>4, Zenon DEF Producer
  <2>6. /\ chain[j].name \in DOMAIN values
        /\ values[chain[j].name] = [commitment |-> chain[j].name, value |-> Value(chain[j])]
        /\ commitments[j] = chain[j].name /\ j \in DOMAIN commitments
    BY DEF StoreInv
  <2> QED
    BY <2>2, <2>3, <2>4, <2>5, <2>6, Zenon
<1>6. InputsReady(stage)
  BY <1>5, Zenon DEF InputsReady
<1>7. IsFresh(stage)
  <2> SUFFICES ASSUME NEW p \in CachedParams(stage)
               PROVE  values[stage.inputs[p].name].commitment = commitments[Producer(stage, p)]
    BY DEF IsFresh
  <2>1. p \in Producers(stage)
    BY DEF CachedParams
  <2> HIDE DEF stage
  <2>2. PICK j \in 1 .. (at - 1) :
          /\ Producer(stage, p) = j
          /\ values[stage.inputs[p].name] = [commitment |-> chain[j].name, value |-> Value(chain[j])]
          /\ commitments[j] = chain[j].name
    BY <1>5, <2>1, Zenon
  <2> QED
    BY <2>2
<1>8. ASSUME NEW p, p \in DOMAIN stage.inputs, stage.inputs[p].how = "external" PROVE ModelFile(stage, p) # {}
  BY <1>8 DEF ModelFile
<1>9. ASSUME NEW p \in DOMAIN Params(routine) PROVE Loads(stage, p) # {}
  <2> DEFINE as == Params(routine)[p]
             kind == stage.inputs[p].name[1]
  <2>1. /\ p \in DOMAIN stage.inputs
        /\ stage.inputs[p].how = "external" \/ (stage.inputs[p].how = "from" /\ Takes(as, kind))
    BY <1>4, Zenon DEF Fits
  <2>2. CASE stage.inputs[p].how = "external"
    <3>1. p \notin CachedParams(stage)
      <4> HIDE DEF stage
      <4> QED
        BY <2>2 DEF CachedParams, Producers
    <3>2. Loads(stage, p) = ModelFile(stage, p)
      BY <3>1, Zenon DEF Loads
    <3> QED
      BY <1>8, <2>1, <2>2, <3>2, Zenon
  <2>3. CASE stage.inputs[p].how = "from" /\ Takes(as, kind)
    <3>1. p \in Producers(stage)
      BY <2>1, <2>3, Zenon DEF Producers
    <3>2. PICK j \in 1 .. (at - 1) :
               /\ stage.inputs[p].name = chain[j].name /\ j \in DOMAIN chain
               /\ stage.inputs[p].name \in DOMAIN values
               /\ values[stage.inputs[p].name] = [commitment |-> chain[j].name, value |-> Value(chain[j])]
      BY <1>5, <3>1, Zenon
    <3>3. p \in CachedParams(stage)
      BY <3>1, <3>2, Zenon DEF CachedParams
    <3> HIDE DEF stage, routine
    <3>4. Cached(stage, p) = Value(chain[j])
      <4>1. values[stage.inputs[p].name].value = Value(chain[j])
        BY <3>2
      <4> QED
        BY <4>1, Zenon DEF Cached
    <3>5. Takes(as, chain[j].name[1]) /\ chain[j].name[1] \in Kinds
      BY <2>3, <3>2, Zenon
    <3>6. Converted(Value(chain[j]), as) # {}
      BY <3>5, TakenConverts, Zenon
    <3>7. Loads(stage, p) = Converted(Cached(stage, p), as)
      BY <3>3, Zenon DEF Loads, routine
    <3> QED
      BY <3>4, <3>6, <3>7, Zenon
  <2> QED
    BY <2>1, <2>2, <2>3
<1>10. ASSUME NEW p \in ModelParams(routine) PROVE ModelFile(stage, p) # {}
  <2>1. p \in DOMAIN stage.inputs /\ stage.inputs[p].how = "external"
    BY <1>4, Zenon DEF Fits
  <2> QED
    BY <1>8, <2>1, Zenon
<1> QED
  BY <1>6, <1>7, <1>9, <1>10, Zenon DEF CanLoad

(* What an imported chain is, once it is expanded. *)
LEMMA ImportedStages ==
  ASSUME ImportInv, IsImported, phase = "expanded"
  PROVE  /\ CanRun(chain) /\ IsSequence(chain)
         /\ \A i \in DOMAIN chain : chain[i].name[1] \in Kinds
         /\ \A i \in DOMAIN chain : Fits(RoutineOf(chain[i].name[1]), chain[i].inputs)
<1>1. IsRun(spec) /\ Listed(spec, EndPlace(spec), Behind(spec), chain)
  BY AtTheEnd
<1>2. CanRun(chain) /\ Complete(spec, chain) /\ IsSequence(chain)
  BY <1>1, ListedRuns, ListedIsComplete, Zenon DEF Listed
<1>3. ASSUME NEW i \in DOMAIN chain
      PROVE  chain[i].name[1] \in Kinds /\ Fits(RoutineOf(chain[i].name[1]), chain[i].inputs)
  <2>1. IsName(spec, chain[i].name) /\ chain[i] = StageOf(spec, chain[i].name, Behind(spec))
    BY <1>2, Zenon DEF Complete
  <2> DEFINE x == chain[i].name
  <2>2. FitsName(spec, x)
    BY <1>1, <2>1, NameFits, Zenon
  <2>3. StageOf(spec, x, Behind(spec)).inputs = Wiring(spec, x, Behind(spec))
    BY DEF StageOf, StageWith
  <2>4. chain[i].inputs = Wiring(spec, x, Behind(spec))
    BY <2>1, <2>3, Zenon
  <2> QED
    BY <2>2, <2>4, Zenon DEF FitsName
<1> QED
  BY <1>2, <1>3, Zenon

LEMMA AuxStagesAreAux ==
  ASSUME NEW stage, IsAuxStage(stage), stage.name[1] \in Kinds
  PROVE  IsAux(stage)
<1> DEFINE k == stage.name[1]
<1>1. RoutineOf(k) = "prefill_prepare_aux"
  BY KindRoutine, Zenon DEF IsAuxStage
<1> HIDE DEF k
<1>2. k \in AuxKinds
  BY <1>1 DEF RoutineOf
<1> QED
  BY <1>2 DEF IsAux, AuxKinds, k

(* The stage in turn can be loaded, and so can the whole wave that starts  *)
(* there: nothing in it waits for another one of it.                       *)
LEMMA ImportedLoads ==
  ASSUME ImportInv, IsImported, InferInv, infer \in {"running", "wave"}, at <= Len(chain),
         NEW i, i = at \/ i \in AuxWaveRange(at)
  PROVE  CanLoad(chain[i])
<1>1. phase = "expanded" /\ Distinct /\ StoreInv /\ IsSequence(chain) /\ at \in 1 .. (Len(chain) + 1)
  BY DEF InferInv, StartedInv, RunInv, HasStarted
<1>2. /\ CanRun(chain)
      /\ \A j \in DOMAIN chain : chain[j].name[1] \in Kinds
      /\ \A j \in DOMAIN chain : Fits(RoutineOf(chain[j].name[1]), chain[j].inputs)
  BY <1>1, ImportedStages
<1>3. Len(chain) \in Nat /\ DOMAIN chain = 1 .. Len(chain)
  BY <1>1, SequenceFacts
<1>4. at \in 1 .. Len(chain) /\ at \in Nat
  BY <1>1, <1>3
<1>5. /\ i \in 1 .. Len(chain) /\ at <= i
      /\ i = at \/ \A j \in at .. i : IsAuxStage(chain[j])
  <2>1. CASE i = at
    BY <1>4, <2>1
  <2>2. CASE i \in AuxWaveRange(at)
    <3>1. i \in DOMAIN chain /\ i >= at /\ \A j \in at .. i : IsAuxStage(chain[j])
      BY <2>2 DEF AuxWaveRange
    <3> QED
      BY <1>3, <1>4, <3>1
  <2> QED
    BY <2>1, <2>2
<1>6. ASSUME NEW x \in SourcesOf(chain[i]) PROVE \E j \in 1 .. (at - 1) : chain[j].name = x
  <2>1. PICK j \in 1 .. (i - 1) : chain[j].name = x
    BY <1>2, <1>5, Zenon DEF CanRun
  <2>2. j \in 1 .. Len(chain) /\ j < i /\ i \in Nat /\ j \in Nat
    BY <1>3, <1>5
  <2>3. CASE j < at
    <3>1. j \in 1 .. (at - 1)
      BY <1>4, <2>2, <2>3
    <3> QED
      BY <2>1, <3>1, Zenon
  <2>4. CASE ~(j < at)
    <3>1. i # at /\ \A k \in j .. i : k \in at .. i /\ k \in DOMAIN chain
      BY <1>3, <1>4, <1>5, <2>2, <2>4
    <3>2. \A k \in j .. i : IsAuxStage(chain[k])
      BY <1>5, <3>1, Zenon
    <3>3. \A k \in j .. i : IsAux(chain[k])
      BY <1>2, <3>1, <3>2, AuxStagesAreAux, Zenon
    <3>4. chain[j].name \notin SourcesOf(chain[i])
      BY <1>2, <1>5, <2>2, <3>3, Zenon DEF CanRun
    <3> QED
      BY <2>1, <3>4, Zenon
  <2> QED
    BY <2>3, <2>4
<1>7. i \in DOMAIN chain
  BY <1>3, <1>5
<1> QED
  BY <1>1, <1>2, <1>6, <1>7, SourcesLoad, Zenon

-----------------------------------------------------------------------------
(* How a run of the uncheckpointed runner ends.                             *)

CauseInv == IsImported => cause \in {"none", "stage"}

(* Its result is what the last stage of the chain has generated. *)
LEMMA ImportedResult ==
  ASSUME ImportInv, IsImported, InferInv, infer = "running", at > Len(chain)
  PROVE  lastOutput.type = "GeneratedOutput"
<1>1. phase = "expanded" /\ IsSequence(chain) /\ at \in 1 .. (Len(chain) + 1)
  BY DEF InferInv, StartedInv, HasStarted
<1>2. CanRun(chain) /\ \A i \in DOMAIN chain : chain[i].name[1] \in Kinds
  BY <1>1, ImportedStages
<1>3. Len(chain) \in Nat /\ DOMAIN chain = 1 .. Len(chain)
  BY <1>1, SequenceFacts
<1>4. Len(chain) # 0
  <2>1. PICK S : chain \in Seq(S)
    BY <1>1 DEF IsSequence
  <2>2. chain # <<>>
    BY <1>2 DEF CanRun
  <2> QED
    BY <2>1, <2>2, EmptySeq
<1>5. at > 1 /\ at - 1 = Len(chain) /\ Len(chain) \in DOMAIN chain
  BY <1>1, <1>3, <1>4
<1>6. lastOutput = Value(chain[Len(chain)])
  BY <1>5 DEF InferInv, RunInv, ReportInv
<1>7. chain[Len(chain)].name[1] = "output_finalize"
  <2>1. chain[Len(chain)].name = Single("output_finalize")
    BY <1>2, Zenon DEF CanRun
  <2> QED
    BY <2>1, NameParts DEF Single
<1>8. Value(chain[Len(chain)]).type = "GeneratedOutput"
  BY <1>2, <1>5, <1>7, ValueTypes, Zenon
<1> QED
  BY <1>6, <1>8, Zenon

LEMMA ImportedStarts ==
  ASSUME ImportInv, IsImported, phase = "expanded"
  PROVE  IsSupported /\ HasUniqueNames
<1>1. CanRun(chain) /\ IsSequence(chain) /\ \A i \in DOMAIN chain : chain[i].name[1] \in Kinds
  BY ImportedStages
<1>2. DOMAIN chain = 1 .. Len(chain)
  BY <1>1, SequenceFacts
<1>3. Distinct
  BY <1>1, <1>2, Zenon DEF CanRun, Distinct
<1> QED
  BY <1>1, <1>3, UniqueNames, KindRoutine, Zenon DEF IsSupported

LEMMA NextKeepsCause ==
  ASSUME ImportInv, InferInv, CauseInv, [Next]_vars
  PROVE  CauseInv'
<1>1. CASE NextInfer
  <2>1. spec' = spec
    BY <1>1 DEF NextInfer, expansionVars
  <2> SUFFICES ASSUME IsImported PROVE cause' \in {"none", "stage"}
    BY <2>1 DEF CauseInv, IsImported
  <2>2. cause \in {"none", "stage"}
    BY DEF CauseInv
  <2>3. CASE StartInfer
    <3>1. IsSupported /\ HasUniqueNames
      BY <2>3, ImportedStarts DEF StartInfer
    <3> QED
      BY <2>2, <2>3, <3>1 DEF StartInfer
  <2>4. CASE StageFails
    <3>1. infer = "running" /\ at <= Len(chain) /\ FailInfer(IF CanLoad(chain[at]) THEN "stage" ELSE "inputs")
      BY <2>4 DEF StageFails, AtStage
    <3>2. CanLoad(chain[at])
      BY <3>1, ImportedLoads
    <3> QED
      BY <3>1, <3>2 DEF FailInfer
  <2>5. CASE WaveFails
    <3>1. infer = "running" /\ at <= Len(chain) /\ ~WaveCanStart
      BY <2>5 DEF WaveFails, AtWave
    <3>2. \A i \in AuxWaveRange(at) : CanLoad(chain[i])
      BY <3>1, ImportedLoads
    <3>3. WaveCanStart
      BY <3>2, Zenon DEF WaveCanStart, CanLoad
    <3> QED
      BY <3>1, <3>3
  <2>6. CASE JobFails
    <3>1. infer = "wave" /\ cause = "none"
      BY <2>6 DEF JobFails, InWave
    <3>2. at <= Len(chain) /\ DOMAIN jobs = AuxWaveRange(at)
      BY <3>1 DEF InferInv, WaveInv
    <3>3. PICK i \in InState("running") : cause' = IF CanLoad(chain[i]) THEN "stage" ELSE "inputs"
      BY <2>6 DEF JobFails
    <3>4. i \in AuxWaveRange(at)
      BY <3>2 DEF InState
    <3>5. CanLoad(chain[i])
      BY <3>1, <3>2, <3>4, ImportedLoads
    <3> QED
      BY <3>3, <3>5
  <2>7. CASE AbortWave
    BY <2>2, <2>7 DEF AbortWave, FailInfer
  <2>8. CASE EndChain
    <3>1. infer = "running" /\ at > Len(chain)
      BY <2>8 DEF EndChain
    <3>2. lastOutput.type = "GeneratedOutput"
      BY <3>1, ImportedResult
    <3> QED
      BY <2>2, <2>8, <3>2 DEF EndChain
  <2>9. CASE Kill
    BY <2>9 DEF Kill
  <2>10. CASE RunStage \/ PrepareWave \/ StartJob \/ FinishJob \/ JobIsAwaited \/ JoinWave
    BY <2>2, <2>10 DEF RunStage, PrepareWave, StartJob, FinishJob, JobIsAwaited, JoinWave
  <2> QED
    BY <1>1, <2>3, <2>4, <2>5, <2>6, <2>7, <2>8, <2>9, <2>10 DEF NextInfer
<1>2. CASE UNCHANGED inferVars
  <2>1. cause' = cause
    BY <1>2 DEF inferVars
  <2>2. spec' = spec
    BY DEF Next, vars, expansionVars, NextExpansion, PushStage, PushRepeated, NextPart, NextIteration, EndRepeat,
           FailExpansion, ResolveExports, NextDirect, Start, Prompt, Embed, Aux, RangeStage, Finalize, DecodeInit,
           Select, EmbedToken, Output, Finish, At, Judge, NextInfer
  <2> QED
    BY <2>1, <2>2 DEF CauseInv, IsImported
<1> QED
  <2>1. UNCHANGED vars => UNCHANGED inferVars
    BY DEF vars
  <2> QED
    BY <1>1, <1>2, <2>1 DEF Next

LEMMA CauseIsInvariant ==
  Spec /\ (IsImported => DonorsBound(spec.shape)) => [](ImportInv /\ InferInv /\ CauseInv)
<1>1. Init => CauseInv
  BY DEF Init, InitInfer, CauseInv
<1>2. Init /\ (IsImported => DonorsBound(spec.shape)) => ImportInv /\ InferInv /\ CauseInv
  BY <1>1, InitImports, InitInfers
<1>3. ImportInv /\ InferInv /\ CauseInv /\ [Next]_vars => (ImportInv /\ InferInv /\ CauseInv)'
  BY NextImports, NextKeepsInfer, NextKeepsCause
<1> QED
  BY <1>2, <1>3, PTL DEF Spec

(* A chain that was imported fails only if one of its stages does          *)
(* (run_uncheckpointed_chain and its waves): every stage finds its inputs   *)
(* in memory, and of the type it asks for.  At the end the result is that   *)
(* of the last stage, the report lists all stages in chain order, and the   *)
(* waves are the aux stages of each pass.  Only a run that was killed       *)
(* leaves its staging directory behind.                                    *)
THEOREM RunsEndCleanly == Spec /\ (IsImported => DonorsBound(spec.shape)) => []InferEndsCleanly
<1>1. ImportInv /\ InferInv /\ CauseInv => InferEndsCleanly
  <2> SUFFICES ASSUME InferInv, CauseInv PROVE InferEndsCleanly
    OBVIOUS
  <2>1. IsImported => cause \in {"none", "stage"}
    BY DEF CauseInv
  <2>2. staging => infer \in {"running", "wave", "killed"}
    BY DEF InferInv, EndInv
  <2>3. ASSUME infer = "done"
        PROVE  /\ lastOutput = Value(chain[Len(chain)])
               /\ report = [i \in DOMAIN chain |-> i]
               /\ {waves[w].first : w \in DOMAIN waves} = AuxRuns
               /\ \A w \in DOMAIN waves :
                    /\ waves[w].parallelism \in 1 .. waves[w].count
                    /\ ~IsAuxStage(chain[waves[w].first + waves[w].count])
    <3>1. IsSequence(chain) /\ ReportInv /\ IsSupported /\ at = Len(chain) + 1 /\ lastOutput.type = "GeneratedOutput"
      BY <2>3 DEF InferInv, StartedInv, RunInv, EndInv, HasStarted
    <3>2. Len(chain) \in Nat /\ DOMAIN chain = 1 .. Len(chain)
      BY <3>1, SequenceFacts
    <3>3. at # 1
      <4>1. Nothing.type = "none"
        BY DEF Nothing
      <4> QED
        BY <3>1, <4>1 DEF ReportInv
    <3>4. at - 1 = Len(chain) /\ at > 1 /\ Len(chain) \in DOMAIN chain
      BY <3>1, <3>2, <3>3
    <3>5. lastOutput = Value(chain[Len(chain)])
      BY <3>1, <3>4 DEF ReportInv
    <3>6. report = [i \in DOMAIN chain |-> i]
      BY <3>1, <3>2, <3>4 DEF ReportInv
    <3>7. {waves[w].first : w \in DOMAIN waves} = AuxRuns
      <4>1. \A i \in AuxRuns : i < at
        BY <3>1, <3>2 DEF AuxRuns
      <4> QED
        BY <3>1, <4>1 DEF ReportInv
    <3>8. ~IsAuxStage(chain[Len(chain)])
      <4> SUFFICES ASSUME IsAuxStage(chain[Len(chain)]) PROVE FALSE
        OBVIOUS
      <4>1. Value(chain[Len(chain)]).type = Routines["prefill_prepare_aux"].value
        BY DEF Value, IsAuxStage
      <4>2. Routines["prefill_prepare_aux"].value = "PleLayerInputs"
        BY DEF Routines, PrefillPrepareAux
      <4> QED
        BY <3>1, <3>5, <4>1, <4>2
    <3>9. ASSUME NEW w \in DOMAIN waves
          PROVE  /\ waves[w].parallelism \in 1 .. waves[w].count
                 /\ ~IsAuxStage(chain[waves[w].first + waves[w].count])
      <4> DEFINE x == waves[w]
      <4>1. WaveIsWhole(x)
        BY <3>1 DEF ReportInv
      <4> HIDE DEF x
      <4>2. /\ x.first \in Nat /\ x.count \in Nat /\ x.count > 1 /\ x.parallelism \in 1 .. x.count
            /\ x.first + x.count <= at
            /\ IsAuxStage(chain[(x.first + x.count) - 1])
            /\ x.first + x.count <= Len(chain) => ~IsAuxStage(chain[x.first + x.count])
        BY <4>1 DEF WaveIsWhole
      <4>3. x.first + x.count # Len(chain) + 1
        <5>1. ASSUME x.first + x.count = Len(chain) + 1 PROVE FALSE
          <6>1. (x.first + x.count) - 1 = Len(chain)
            BY <3>2, <4>2, <5>1
          <6> QED
            BY <3>8, <4>2, <6>1
        <5> QED
          BY <5>1
      <4>4. x.first + x.count <= Len(chain)
        BY <3>1, <3>2, <4>2, <4>3
      <4> QED
        BY <4>2, <4>4 DEF x
    <3> QED
      BY <3>5, <3>6, <3>7, <3>9
  <2> QED
    BY <2>1, <2>2, <2>3 DEF InferEndsCleanly
<1> QED
  BY <1>1, CauseIsInvariant, PTL

-----------------------------------------------------------------------------
(* The list of stages that the parity gate expects of its model.            *)

BundleRun(r) == IsRun(r) /\ IsBundle(r.shape)

(* The m-th stage of a pass, and the i-th of the list. *)
PassAt(t, m) ==
  CASE m = 0 -> SelectName(t)
    [] m = 1 -> EmbedName(t)
    [] 2 <= m /\ m <= 5 -> AuxName(t, m - 2)
    [] 6 <= m /\ m <= 9 -> RangeName(t, m - 6)
    [] OTHER -> FinalizeName(t)
ListLength(r) == 14 + r.batches + 11 * r.tokens
ListAt(r, i) ==
  LET BB == r.batches
      k == i - (BB + 14)
  IN  CASE i = 1 -> Single("prompt_merge_seed")
        [] 1 < i /\ i <= BB + 1 -> Name("prompt_merge", i - 2, 0)
        [] i = BB + 2 -> Single("prompt_prepare")
        [] i = BB + 3 -> Embedding
        [] BB + 3 < i /\ i <= BB + 7 -> AuxName(-1, i - (BB + 4))
        [] BB + 7 < i /\ i <= BB + 11 -> RangeName(-1, i - (BB + 8))
        [] i = BB + 12 -> FinalizeName(-1)
        [] i = BB + 13 -> Single("decode_init")
        [] BB + 13 < i /\ i <= BB + 13 + 11 * r.tokens -> PassAt(k \div 11, k % 11)
        [] OTHER -> Single("output_finalize")
ListOf(r) == [i \in 1 .. ListLength(r) |-> ListAt(r, i)]

Begins(e, s, a) == IsSequence(s) /\ Len(s) = a /\ \A i \in 1 .. a : s[i] = e[i]
Continues(e, t, a, b) == IsSequence(t) /\ Len(t) = b /\ \A j \in 1 .. b : t[j] = e[a + j]

LEMMA JoinedBegins ==
  ASSUME NEW e, NEW s, NEW a \in Nat, Begins(e, s, a), NEW t, NEW b \in Nat, Continues(e, t, a, b)
  PROVE  Begins(e, s \o t, a + b)
<1>1. /\ IsSequence(s) /\ Len(s) = a /\ IsSequence(t) /\ Len(t) = b
      /\ \A i \in 1 .. a : s[i] = e[i]
      /\ \A j \in 1 .. b : t[j] = e[a + j]
  BY Zenon DEF Begins, Continues
<1> DEFINE u == s \o t
<1>2. /\ IsSequence(u) /\ Len(u) = a + b
      /\ \A i \in 1 .. (a + b) : u[i] = IF i <= a THEN s[i] ELSE t[i - a]
  BY <1>1, Joined
<1> HIDE DEF u
<1>3. ASSUME NEW i \in 1 .. (a + b) PROVE u[i] = e[i]
  <2>1. CASE i <= a
    BY <1>1, <1>2, <2>1
  <2>2. CASE ~(i <= a)
    <3>1. i - a \in 1 .. b /\ a + (i - a) = i
      BY <2>2
    <3>2. t[i - a] = e[a + (i - a)]
      BY <1>1, <3>1, Zenon
    <3>3. u[i] = t[i - a]
      BY <1>2, <2>2, Zenon
    <3> QED
      BY <3>1, <3>2, <3>3, Zenon
  <2> QED
    BY <2>1, <2>2
<1> QED
  BY <1>2, <1>3, Zenon DEF Begins, u

LEMMA FunctionContinues ==
  ASSUME NEW e, NEW a, NEW b \in Nat, NEW f, DOMAIN f = 1 .. b, f = [j \in 1 .. b |-> f[j]],
         \A j \in 1 .. b : f[j] = e[a + j]
  PROVE  Continues(e, f, a, b)
<1>1. IsSequence([j \in 1 .. b |-> f[j]]) /\ Len([j \in 1 .. b |-> f[j]]) = b
  BY SequenceOf, Zenon
<1>2. IsSequence(f) /\ Len(f) = b
  BY <1>1, Zenon
<1> QED
  BY <1>2, Zenon DEF Continues

LEMMA Pairs ==
  ASSUME NEW x, NEW y
  PROVE  /\ IsSequence(<<x, y>>) /\ Len(<<x, y>>) = 2 /\ <<x, y>>[1] = x /\ <<x, y>>[2] = y
         /\ IsSequence(<<x>>) /\ Len(<<x>>) = 1 /\ <<x>>[1] = x
<1>1. <<x, y>> \in Seq({x, y}) /\ <<x>> \in Seq({x})
  OBVIOUS
<1> QED
  BY <1>1 DEF IsSequence

LEMMA SingleContinues ==
  ASSUME NEW e, NEW a \in Nat, NEW x, e[a + 1] = x
  PROVE  Continues(e, <<x>>, a, 1)
<1> DEFINE q == <<x>>
<1>1. IsSequence(q) /\ Len(q) = 1 /\ q[1] = x
  BY Pairs, Zenon
<1> HIDE DEF q
<1>2. \A j \in 1 .. 1 : q[j] = e[a + j]
  BY <1>1
<1> QED
  BY <1>1, <1>2, Zenon DEF Continues, q

LEMMA PairContinues ==
  ASSUME NEW e, NEW a \in Nat, NEW x, e[a + 1] = x, NEW y, e[a + 2] = y
  PROVE  Continues(e, <<x, y>>, a, 2)
<1> DEFINE q == <<x, y>>
<1>1. IsSequence(q) /\ Len(q) = 2 /\ q[1] = x /\ q[2] = y
  BY Pairs, Zenon
<1> HIDE DEF q
<1>2. \A j \in 1 .. 2 : q[j] = e[a + j]
  BY <1>1
<1> QED
  BY <1>1, <1>2, Zenon DEF Continues, q

LEMMA LayersOfPass ==
  ASSUME NEW s, s.layers = 4, NEW p, NEW e, NEW a
  PROVE  /\ (\A j \in 1 .. 4 : AuxName(p, j - 1) = e[a + j]) => Continues(e, AuxNames(s, p), a, 4)
         /\ (\A j \in 1 .. 4 : RangeName(p, j - 1) = e[a + j]) => Continues(e, RangeNames(s, p), a, 4)
<1>1. /\ DOMAIN AuxNames(s, p) = 1 .. 4 /\ AuxNames(s, p) = [j \in 1 .. 4 |-> AuxNames(s, p)[j]]
      /\ \A j \in 1 .. 4 : AuxNames(s, p)[j] = AuxName(p, j - 1)
  BY DEF AuxNames
<1>2. /\ DOMAIN RangeNames(s, p) = 1 .. 4 /\ RangeNames(s, p) = [j \in 1 .. 4 |-> RangeNames(s, p)[j]]
      /\ \A j \in 1 .. 4 : RangeNames(s, p)[j] = RangeName(p, j - 1)
  BY DEF RangeNames
<1> DEFINE x == AuxNames(s, p)
           y == RangeNames(s, p)
<1>3. 4 \in Nat
  OBVIOUS
<1> HIDE DEF x, y
<1>4. ASSUME \A j \in 1 .. 4 : AuxName(p, j - 1) = e[a + j] PROVE Continues(e, x, a, 4)
  <2>1. DOMAIN x = 1 .. 4 /\ x = [j \in 1 .. 4 |-> x[j]] /\ \A j \in 1 .. 4 : x[j] = e[a + j]
    BY <1>1, <1>4, Zenon DEF x
  <2> QED
    BY <1>3, <2>1, FunctionContinues, Zenon
<1>5. ASSUME \A j \in 1 .. 4 : RangeName(p, j - 1) = e[a + j] PROVE Continues(e, y, a, 4)
  <2>1. DOMAIN y = 1 .. 4 /\ y = [j \in 1 .. 4 |-> y[j]] /\ \A j \in 1 .. 4 : y[j] = e[a + j]
    BY <1>2, <1>5, Zenon DEF y
  <2> QED
    BY <1>3, <2>1, FunctionContinues, Zenon
<1> QED
  BY <1>4, <1>5, Zenon DEF x, y

(* The names of a pass, one by one. *)
LEMMA PassNamesAt ==
  ASSUME NEW s, s.layers = 4, NEW t
  PROVE  \A i \in 1 .. 11 : PassNames(s, t)[i] = PassAt(t, i - 1)
<1> DEFINE e == [i \in 1 .. 11 |-> PassAt(t, i - 1)]
           Q0 == <<SelectName(t), EmbedName(t)>>
           Q1 == Q0 \o AuxNames(s, t)
           Q2 == Q1 \o RangeNames(s, t)
           Q3 == Q2 \o <<FinalizeName(t)>>
<1>1. \A i \in 1 .. 11 : e[i] = PassAt(t, i - 1)
  OBVIOUS
<1>2. e[1] = SelectName(t) /\ e[2] = EmbedName(t) /\ e[11] = FinalizeName(t)
  BY DEF PassAt
<1>3. \A j \in 1 .. 4 : AuxName(t, j - 1) = e[2 + j]
  BY DEF PassAt
<1>4. \A j \in 1 .. 4 : RangeName(t, j - 1) = e[6 + j]
  BY DEF PassAt
<1> HIDE DEF e
<1>5. Begins(e, Q0, 2)
  <2>1. IsSequence(Q0) /\ Len(Q0) = 2 /\ Q0[1] = SelectName(t) /\ Q0[2] = EmbedName(t)
    BY Pairs, Zenon
  <2> HIDE DEF Q0
  <2>2. \A i \in 1 .. 2 : Q0[i] = e[i]
    BY <1>2, <2>1
  <2> QED
    BY <2>1, <2>2, Zenon DEF Begins
<1>6. Begins(e, Q1, 6)
  <2>1. Continues(e, AuxNames(s, t), 2, 4)
    BY <1>3, LayersOfPass, Zenon
  <2> HIDE DEF Q0
  <2>2. Begins(e, Q0 \o AuxNames(s, t), 2 + 4)
    BY <1>5, <2>1, JoinedBegins
  <2> QED
    BY <2>2
<1>7. Begins(e, Q2, 10)
  <2>1. Continues(e, RangeNames(s, t), 6, 4)
    BY <1>4, LayersOfPass, Zenon
  <2> HIDE DEF Q1
  <2>2. Begins(e, Q1 \o RangeNames(s, t), 6 + 4)
    BY <1>6, <2>1, JoinedBegins
  <2> QED
    BY <2>2
<1>8. Begins(e, Q3, 11)
  <2>1. Continues(e, <<FinalizeName(t)>>, 10, 1)
    BY <1>2, SingleContinues
  <2> HIDE DEF Q2
  <2>2. Begins(e, Q2 \o <<FinalizeName(t)>>, 10 + 1)
    BY <1>7, <2>1, JoinedBegins
  <2> QED
    BY <2>2
<1>9. PassNames(s, t) = Q3
  BY Zenon DEF PassNames
<1> HIDE DEF Q3
<1> QED
  BY <1>1, <1>8, <1>9, Zenon DEF Begins

LEMMA BundleParts ==
  ASSUME NEW r, BundleRun(r)
  PROVE  /\ IsRun(r) /\ r.shape.layers = 4 /\ r.shape.shared = 2 /\ FirstShared(r.shape) = 2
         /\ r.tokens \in Nat /\ r.batches \in Nat /\ ListLength(r) \in Nat /\ Ending(r) = 6
BY DEF BundleRun, IsRun, IsBundle, FirstShared, ListLength, Ending

(* What the list holds where. *)
LEMMA ListHas ==
  ASSUME NEW r, BundleRun(r)
  PROVE  LET BB == r.batches
             e == ListOf(r)
         IN  /\ e[1] = Single("prompt_merge_seed")
             /\ \A b \in 1 .. BB : e[1 + b] = Name("prompt_merge", b - 1, 0)
             /\ e[BB + 1 + 1] = Single("prompt_prepare") /\ e[BB + 1 + 2] = Embedding
             /\ \A j \in 1 .. 4 : AuxName(-1, j - 1) = e[BB + 3 + j]
             /\ \A j \in 1 .. 4 : RangeName(-1, j - 1) = e[BB + 7 + j]
             /\ e[BB + 11 + 1] = FinalizeName(-1) /\ e[BB + 11 + 2] = Single("decode_init")
             /\ \A j \in 1 .. (11 * r.tokens) : e[BB + 13 + j] = PassAt((j - 1) \div 11, (j - 1) % 11)
             /\ e[BB + 13 + 11 * r.tokens + 1] = Single("output_finalize")
<1> DEFINE BB == r.batches
           TT == r.tokens
           e == ListOf(r)
           n == 14 + BB + 11 * TT
<1>1. BB \in Nat /\ TT \in Nat
  BY BundleParts
<1>2. \A i \in 1 .. n : e[i] = ListAt(r, i)
  BY DEF ListOf, ListLength
<1>3. ListAt(r, 1) = Single("prompt_merge_seed")
  <2> DEFINE i == 1
  <2>1. i = 1 /\ i \in Int
    OBVIOUS
  <2> HIDE DEF i
  <2>2. ListAt(r, i) = Single("prompt_merge_seed")
    BY <1>1, <2>1 DEF ListAt, BB, TT
  <2> QED
    BY <2>2 DEF i
<1>3a. ASSUME NEW b \in 1 .. BB PROVE ListAt(r, 1 + b) = Name("prompt_merge", b - 1, 0)
  <2> DEFINE i == 1 + b
  <2>1. i \in Int /\ i # 1 /\ 1 < i /\ i <= BB + 1 /\ i - 2 = b - 1
    BY <1>1
  <2> HIDE DEF i
  <2>2. ListAt(r, i) = Name("prompt_merge", b - 1, 0)
    BY <1>1, <2>1 DEF ListAt, BB, TT
  <2> QED
    BY <2>2 DEF i
<1>3b. ListAt(r, BB + 1 + 1) = Single("prompt_prepare")
  <2> DEFINE i == BB + 1 + 1
  <2>1. i \in Int /\ i # 1 /\ ~(i <= BB + 1) /\ i = BB + 2
    BY <1>1
  <2> HIDE DEF i
  <2>2. ListAt(r, i) = Single("prompt_prepare")
    BY <1>1, <2>1 DEF ListAt, BB, TT
  <2> QED
    BY <2>2 DEF i
<1>3c. ListAt(r, BB + 1 + 2) = Embedding
  <2> DEFINE i == BB + 1 + 2
  <2>1. i \in Int /\ i # 1 /\ ~(i <= BB + 1) /\ i # BB + 2 /\ i = BB + 3
    BY <1>1
  <2> HIDE DEF i
  <2>2. ListAt(r, i) = Embedding
    BY <1>1, <2>1 DEF ListAt, BB, TT
  <2> QED
    BY <2>2 DEF i
<1>4. ASSUME NEW j \in 1 .. 4 PROVE ListAt(r, BB + 3 + j) = AuxName(-1, j - 1)
  <2> DEFINE i == BB + 3 + j
  <2>1. /\ i \in Int /\ i # 1 /\ ~(i <= BB + 1) /\ i # BB + 2 /\ i # BB + 3
        /\ BB + 3 < i /\ i <= BB + 7 /\ i - (BB + 4) = j - 1
    BY <1>1
  <2> HIDE DEF i
  <2>2. ListAt(r, i) = AuxName(-1, j - 1)
    BY <1>1, <2>1 DEF ListAt, BB, TT
  <2> QED
    BY <2>2 DEF i
<1>5. ASSUME NEW j \in 1 .. 4 PROVE ListAt(r, BB + 7 + j) = RangeName(-1, j - 1)
  <2> DEFINE i == BB + 7 + j
  <2>1. /\ i \in Int /\ i # 1 /\ ~(i <= BB + 1) /\ i # BB + 2 /\ i # BB + 3
        /\ ~(i <= BB + 7) /\ BB + 7 < i /\ i <= BB + 11 /\ i - (BB + 8) = j - 1
    BY <1>1
  <2> HIDE DEF i
  <2>2. ListAt(r, i) = RangeName(-1, j - 1)
    BY <1>1, <2>1 DEF ListAt, BB, TT
  <2> QED
    BY <2>2 DEF i
<1>6. ListAt(r, BB + 11 + 1) = FinalizeName(-1)
  <2> DEFINE i == BB + 11 + 1
  <2>1. /\ i \in Int /\ i # 1 /\ ~(i <= BB + 1) /\ i # BB + 2 /\ i # BB + 3
        /\ ~(i <= BB + 7) /\ ~(i <= BB + 11) /\ i = BB + 12
    BY <1>1
  <2> HIDE DEF i
  <2>2. ListAt(r, i) = FinalizeName(-1)
    BY <1>1, <2>1 DEF ListAt, BB, TT
  <2> QED
    BY <2>2 DEF i
<1>6a. ListAt(r, BB + 11 + 2) = Single("decode_init")
  <2> DEFINE i == BB + 11 + 2
  <2>1. /\ i \in Int /\ i # 1 /\ ~(i <= BB + 1) /\ i # BB + 2 /\ i # BB + 3
        /\ ~(i <= BB + 7) /\ ~(i <= BB + 11) /\ i # BB + 12 /\ i = BB + 13
    BY <1>1
  <2> HIDE DEF i
  <2>2. ListAt(r, i) = Single("decode_init")
    BY <1>1, <2>1 DEF ListAt, BB, TT
  <2> QED
    BY <2>2 DEF i
<1>7. ASSUME NEW j \in 1 .. (11 * TT) PROVE ListAt(r, BB + 13 + j) = PassAt((j - 1) \div 11, (j - 1) % 11)
  <2> DEFINE i == BB + 13 + j
  <2>1. /\ i # 1 /\ ~(i <= BB + 1) /\ i # BB + 2 /\ i # BB + 3
        /\ ~(i <= BB + 7) /\ ~(i <= BB + 11) /\ i # BB + 12 /\ i # BB + 13
        /\ BB + 13 < i /\ i <= BB + 13 + 11 * TT /\ i - (BB + 14) = j - 1
    BY <1>1
  <2> HIDE DEF i
  <2>2. ListAt(r, i) = PassAt((j - 1) \div 11, (j - 1) % 11)
    BY <2>1 DEF ListAt
  <2> QED
    BY <2>2 DEF i
<1>8. ListAt(r, BB + 13 + 11 * TT + 1) = Single("output_finalize")
  <2> DEFINE i == BB + 13 + 11 * TT + 1
  <2>1. /\ i # 1 /\ ~(i <= BB + 1) /\ i # BB + 2 /\ i # BB + 3
        /\ ~(i <= BB + 7) /\ ~(i <= BB + 11) /\ i # BB + 12 /\ i # BB + 13
        /\ ~(i <= BB + 13 + 11 * TT)
    BY <1>1
  <2> HIDE DEF i
  <2>2. ListAt(r, i) = Single("output_finalize")
    BY <2>1 DEF ListAt
  <2> QED
    BY <2>2 DEF i
<1> HIDE DEF e
<1>9. /\ 1 \in 1 .. n /\ BB + 1 + 1 \in 1 .. n /\ BB + 1 + 2 \in 1 .. n /\ BB + 11 + 1 \in 1 .. n /\ BB + 11 + 2 \in 1 .. n
      /\ BB + 13 + 11 * TT + 1 \in 1 .. n
      /\ \A b \in 1 .. BB : 1 + b \in 1 .. n
      /\ \A j \in 1 .. 4 : BB + 3 + j \in 1 .. n /\ BB + 7 + j \in 1 .. n
      /\ \A j \in 1 .. (11 * TT) : BB + 13 + j \in 1 .. n
  BY <1>1
<1> HIDE DEF n
<1>10. /\ e[1] = Single("prompt_merge_seed")
       /\ \A b \in 1 .. BB : e[1 + b] = Name("prompt_merge", b - 1, 0)
       /\ e[BB + 1 + 1] = Single("prompt_prepare") /\ e[BB + 1 + 2] = Embedding
  BY <1>2, <1>3, <1>3a, <1>3b, <1>3c, <1>9, Zenon
<1>11. /\ \A j \in 1 .. 4 : AuxName(-1, j - 1) = e[BB + 3 + j]
       /\ \A j \in 1 .. 4 : RangeName(-1, j - 1) = e[BB + 7 + j]
  BY <1>2, <1>4, <1>5, <1>9, Zenon
<1>12. /\ e[BB + 11 + 1] = FinalizeName(-1) /\ e[BB + 11 + 2] = Single("decode_init")
       /\ \A j \in 1 .. (11 * TT) : e[BB + 13 + j] = PassAt((j - 1) \div 11, (j - 1) % 11)
       /\ e[BB + 13 + 11 * TT + 1] = Single("output_finalize")
  BY <1>2, <1>6, <1>6a, <1>7, <1>8, <1>9, Zenon
<1> QED
  BY <1>10, <1>11, <1>12, Zenon DEF e

(* The list of the gate, stage by stage. *)
LEMMA StagedNamesAre ==
  ASSUME NEW r, BundleRun(r)
  PROVE  StagedNames(r.shape, r.tokens, r.batches) = ListOf(r)
<1> DEFINE s == r.shape
           BB == r.batches
           TT == r.tokens
           e == ListOf(r)
           M == [b \in 1 .. BB |-> Name("prompt_merge", b - 1, 0)]
           P == PassesNames(s, TT)
           Q0 == <<Single("prompt_merge_seed")>>
           Q1 == Q0 \o M
           Q2 == Q1 \o <<Single("prompt_prepare"), Embedding>>
           Q3 == Q2 \o AuxNames(s, -1)
           Q4 == Q3 \o RangeNames(s, -1)
           Q5 == Q4 \o <<FinalizeName(-1), Single("decode_init")>>
           Q6 == Q5 \o P
           Q7 == Q6 \o <<Single("output_finalize")>>
<1>0. StagedNames(s, TT, BB) = Q7
  BY Zenon DEF StagedNames
<1>1. s.layers = 4 /\ BB \in Nat /\ TT \in Nat
  BY BundleParts
<1>2. /\ e[1] = Single("prompt_merge_seed")
      /\ \A b \in 1 .. BB : e[1 + b] = Name("prompt_merge", b - 1, 0)
      /\ e[BB + 1 + 1] = Single("prompt_prepare") /\ e[BB + 1 + 2] = Embedding
      /\ \A j \in 1 .. 4 : AuxName(-1, j - 1) = e[BB + 3 + j]
      /\ \A j \in 1 .. 4 : RangeName(-1, j - 1) = e[BB + 7 + j]
      /\ e[BB + 11 + 1] = FinalizeName(-1) /\ e[BB + 11 + 2] = Single("decode_init")
      /\ \A j \in 1 .. (11 * TT) : e[BB + 13 + j] = PassAt((j - 1) \div 11, (j - 1) % 11)
      /\ e[BB + 13 + 11 * TT + 1] = Single("output_finalize")
  BY ListHas
<1>3. Continues(e, M, 1, BB)
  <2>1. DOMAIN M = 1 .. BB /\ M = [j \in 1 .. BB |-> M[j]] /\ \A j \in 1 .. BB : M[j] = Name("prompt_merge", j - 1, 0)
    OBVIOUS
  <2> HIDE DEF M, e
  <2>2. \A j \in 1 .. BB : M[j] = e[1 + j]
    BY <1>2, <2>1, Zenon
  <2> HIDE DEF BB
  <2> QED
    BY <1>1, <2>1, <2>2, FunctionContinues, Zenon
<1>4. 11 * TT \in Nat
  BY <1>1
<1>5. Continues(e, P, BB + 13, 11 * TT)
  <2>1. /\ DOMAIN P = 1 .. (TT * PassLength(s)) /\ P = [j \in DOMAIN P |-> P[j]]
        /\ \A j \in DOMAIN P : P[j] = PassNames(s, (j - 1) \div PassLength(s))[((j - 1) % PassLength(s)) + 1]
    BY DEF PassesNames
  <2>2. PassLength(s) = 11
    BY <1>1 DEF PassLength
  <2>3. TT * PassLength(s) = 11 * TT
    BY <1>1, <2>2
  <2> HIDE DEF P, e, s
  <2>4. ASSUME NEW j \in 1 .. (11 * TT) PROVE P[j] = e[BB + 13 + j]
    <3>1. P[j] = PassNames(s, (j - 1) \div 11)[((j - 1) % 11) + 1]
      BY <2>1, <2>2, <2>3, <2>4, Zenon
    <3>2. ((j - 1) % 11) + 1 \in 1 .. 11 /\ (((j - 1) % 11) + 1) - 1 = (j - 1) % 11
      BY <1>1
    <3>3. PassNames(s, (j - 1) \div 11)[((j - 1) % 11) + 1] = PassAt((j - 1) \div 11, (((j - 1) % 11) + 1) - 1)
      BY <1>1, <3>2, PassNamesAt, Zenon
    <3> QED
      BY <1>2, <3>1, <3>2, <3>3, Zenon
  <2>5. DOMAIN P = 1 .. (11 * TT) /\ P = [j \in 1 .. (11 * TT) |-> P[j]]
    BY <2>1, <2>3, Zenon
  <2> QED
    BY <1>4, <2>4, <2>5, FunctionContinues, Zenon
<1> HIDE DEF e, M, P, s, BB, TT
<1>6. Begins(e, Q0, 1)
  <2>1. IsSequence(Q0) /\ Len(Q0) = 1 /\ Q0[1] = Single("prompt_merge_seed")
    BY Pairs, Zenon
  <2> HIDE DEF Q0
  <2>2. \A i \in 1 .. 1 : Q0[i] = e[i]
    BY <1>2, <2>1
  <2> QED
    BY <2>1, <2>2, Zenon DEF Begins
<1> HIDE DEF Q0
<1>7. Begins(e, Q1, 1 + BB)
  BY <1>1, <1>3, <1>6, JoinedBegins
<1> HIDE DEF Q1
<1>8. Begins(e, Q2, BB + 3)
  <2>1. BB + 1 \in Nat /\ 1 + BB = BB + 1 /\ (BB + 1) + 2 = BB + 3 /\ 2 \in Nat
    BY <1>1
  <2>2. Continues(e, <<Single("prompt_prepare"), Embedding>>, BB + 1, 2)
    BY <1>2, <2>1, PairContinues, Zenon
  <2>3. Begins(e, Q2, (BB + 1) + 2)
    BY <1>7, <2>1, <2>2, JoinedBegins, Zenon
  <2> QED
    BY <2>1, <2>3, Zenon
<1> HIDE DEF Q2
<1>9. Begins(e, Q3, BB + 7)
  <2>1. BB + 3 \in Nat /\ (BB + 3) + 4 = BB + 7 /\ 4 \in Nat
    BY <1>1
  <2>2. Continues(e, AuxNames(s, -1), BB + 3, 4)
    BY <1>1, <1>2, LayersOfPass, Zenon
  <2>3. Begins(e, Q3, (BB + 3) + 4)
    BY <1>8, <2>1, <2>2, JoinedBegins, Zenon
  <2> QED
    BY <2>1, <2>3, Zenon
<1> HIDE DEF Q3
<1>10. Begins(e, Q4, BB + 11)
  <2>1. BB + 7 \in Nat /\ (BB + 7) + 4 = BB + 11 /\ 4 \in Nat
    BY <1>1
  <2>2. Continues(e, RangeNames(s, -1), BB + 7, 4)
    BY <1>1, <1>2, LayersOfPass, Zenon
  <2>3. Begins(e, Q4, (BB + 7) + 4)
    BY <1>9, <2>1, <2>2, JoinedBegins, Zenon
  <2> QED
    BY <2>1, <2>3, Zenon
<1> HIDE DEF Q4
<1>11. Begins(e, Q5, BB + 13)
  <2>1. BB + 11 \in Nat /\ (BB + 11) + 2 = BB + 13 /\ 2 \in Nat
    BY <1>1
  <2>2. Continues(e, <<FinalizeName(-1), Single("decode_init")>>, BB + 11, 2)
    BY <1>2, <2>1, PairContinues, Zenon
  <2>3. Begins(e, Q5, (BB + 11) + 2)
    BY <1>10, <2>1, <2>2, JoinedBegins, Zenon
  <2> QED
    BY <2>1, <2>3, Zenon
<1> HIDE DEF Q5
<1>12. Begins(e, Q6, BB + 13 + 11 * TT)
  <2>1. BB + 13 \in Nat
    BY <1>1
  <2> QED
    BY <1>4, <1>5, <1>11, <2>1, JoinedBegins, Zenon
<1> HIDE DEF Q6
<1>13. Begins(e, Q7, BB + 13 + 11 * TT + 1)
  <2>1. BB + 13 + 11 * TT \in Nat /\ 1 \in Nat
    BY <1>1
  <2>2. Continues(e, <<Single("output_finalize")>>, BB + 13 + 11 * TT, 1)
    BY <1>2, <2>1, SingleContinues, Zenon
  <2> QED
    BY <1>12, <2>1, <2>2, JoinedBegins, Zenon
<1> HIDE DEF Q7
<1>14. BB + 13 + 11 * TT + 1 = ListLength(r)
  BY <1>1 DEF ListLength, BB, TT
<1>15. Q7 = [i \in 1 .. ListLength(r) |-> Q7[i]] /\ \A i \in 1 .. ListLength(r) : Q7[i] = e[i]
  <2>1. IsSequence(Q7) /\ Len(Q7) = ListLength(r) /\ \A i \in 1 .. ListLength(r) : Q7[i] = e[i]
    BY <1>13, <1>14, Zenon DEF Begins
  <2>2. PICK S : Q7 \in Seq(S)
    BY <2>1, Zenon DEF IsSequence
  <2>3. Q7 \in [1 .. Len(Q7) -> S]
    BY <2>2, LenProperties
  <2>4. Q7 = [i \in 1 .. Len(Q7) |-> Q7[i]]
    BY <2>3
  <2> QED
    BY <2>1, <2>4, Zenon
<1>16. e = [i \in 1 .. ListLength(r) |-> e[i]]
  BY DEF e, ListOf
<1>17. Q7 = e
  BY <1>15, <1>16
<1> QED
  BY <1>0, <1>17, Zenon DEF s, BB, TT, e

(* Where in the list the stage of a place is. *)
Offset(q) ==
  CASE q[3] = 1 -> 0
    [] q[3] = 2 -> 1
    [] q[3] = 3 -> 2 + q[4]
    [] q[3] = 4 -> 6 + q[4]
    [] q[3] = 5 -> 8 + q[4]
    [] OTHER -> 10
PositionOf(r, q) ==
  CASE q[1] = 1 -> 1
    [] q[1] = 2 -> 2 + q[2]
    [] q[1] = 15 -> r.batches + 14 + 11 * q[2] + Offset(q)
    [] q[1] = 16 -> r.batches + 14 + 11 * r.tokens
    [] OTHER -> (q[1] - 1) + r.batches

IsBundlePlace(r, q) ==
  /\ q[1] \in 1 .. 16 /\ q[2] \in Nat /\ q[3] \in Nat /\ q[4] \in Nat
  /\ q[1] = 2 => q[2] < r.batches /\ q[3] = 1 /\ q[4] = 0
  /\ q[1] = 15 => /\ q[2] < r.tokens /\ q[3] \in 1 .. 6
                  /\ q[3] \in {1, 2, 6} => q[4] = 0
                  /\ q[3] = 3 => q[4] < 4
                  /\ q[3] \in {4, 5} => q[4] < 2
  /\ q[1] # 2 /\ q[1] # 15 => q[2] = 0 /\ q[3] = 1 /\ q[4] = 0

LEMMA BundlePlaces ==
  ASSUME NEW r, BundleRun(r), NEW q, IsPlace(r, q)
  PROVE  IsBundlePlace(r, q)
<1> DEFINE M == Items(r)
<1>1. /\ IsRun(r) /\ r.shape.layers = 4 /\ r.shape.shared = 2 /\ FirstShared(r.shape) = 2 /\ Ending(r) = 6
      /\ r.tokens \in Nat /\ r.batches \in Nat
  BY BundleParts
<1>2. LET N == r.shape.layers
      IN  /\ Len(M) = 8 + N + N
          /\ \A i \in 1 .. (8 + N + N) : i # 2 /\ i # 7 + N + N => M[i].repeat = FALSE
          /\ M[2].repeat = TRUE /\ Times(M[2]) = r.batches /\ Parts(M[2]) = 1 /\ Size(M[2], 1) = 1
          /\ M[7 + N + N].repeat = TRUE
          /\ Times(M[7 + N + N]) = r.tokens /\ Parts(M[7 + N + N]) = Ending(r)
          /\ Size(M[7 + N + N], 1) = 1 /\ Size(M[7 + N + N], 2) = 1
          /\ Size(M[7 + N + N], 3) = N /\ Size(M[7 + N + N], 4) = FirstShared(r.shape)
          /\ Ending(r) = 6 => Size(M[7 + N + N], 5) = r.shape.shared
          /\ Size(M[7 + N + N], Ending(r)) = 1
  BY <1>1, ShapesAre, Zenon
<1>3. 8 + r.shape.layers + r.shape.layers = 16 /\ 7 + r.shape.layers + r.shape.layers = 15
  BY <1>1
<1> HIDE DEF M
<1>4. /\ Len(M) = 16 /\ \A i \in 1 .. 16 : i # 2 /\ i # 15 => M[i].repeat = FALSE
      /\ Times(M[2]) = r.batches /\ Parts(M[2]) = 1 /\ Size(M[2], 1) = 1
      /\ Times(M[15]) = r.tokens /\ Parts(M[15]) = 6
      /\ Size(M[15], 1) = 1 /\ Size(M[15], 2) = 1 /\ Size(M[15], 3) = 4 /\ Size(M[15], 4) = 2
      /\ Size(M[15], 5) = 2 /\ Size(M[15], 6) = 1
  BY <1>1, <1>2, <1>3, Zenon
<1>5. /\ q[1] \in 1 .. 16 /\ q[2] \in 0 .. (Times(M[q[1]]) - 1) /\ q[3] \in 1 .. Parts(M[q[1]])
      /\ q[4] \in 0 .. (Size(M[q[1]], q[3]) - 1)
  BY <1>4, Zenon DEF IsPlace, M
<1>6. CASE q[1] = 2
  <2>1. q[2] \in 0 .. (r.batches - 1) /\ q[3] \in 1 .. 1
    BY <1>4, <1>5, <1>6, Zenon
  <2>2. q[3] = 1
    BY <2>1
  <2>3. q[4] \in 0 .. (1 - 1)
    BY <1>4, <1>5, <1>6, <2>2, Zenon
  <2> QED
    BY <1>1, <1>6, <2>1, <2>2, <2>3 DEF IsBundlePlace
<1>7. CASE q[1] = 15
  <2>1. q[2] \in 0 .. (r.tokens - 1) /\ q[3] \in 1 .. 6
    BY <1>4, <1>5, <1>7, Zenon
  <2>2. q[4] \in 0 .. (Size(M[15], q[3]) - 1)
    BY <1>5, <1>7, Zenon
  <2>3. CASE q[3] \in {1, 2, 6}
    <3>1. Size(M[15], q[3]) = 1
      BY <1>4, <2>3
    <3> QED
      BY <1>1, <1>7, <2>1, <2>2, <2>3, <3>1 DEF IsBundlePlace
  <2>4. CASE q[3] = 3
    <3>1. Size(M[15], q[3]) = 4
      BY <1>4, <2>4
    <3> QED
      BY <1>1, <1>7, <2>1, <2>2, <2>4, <3>1 DEF IsBundlePlace
  <2>5. CASE q[3] \in {4, 5}
    <3>1. Size(M[15], q[3]) = 2
      BY <1>4, <2>5
    <3> QED
      BY <1>1, <1>7, <2>1, <2>2, <2>5, <3>1 DEF IsBundlePlace
  <2>6. q[3] \in {1, 2, 6} \/ q[3] = 3 \/ q[3] \in {4, 5}
    BY <2>1
  <2> QED
    BY <2>3, <2>4, <2>5, <2>6
<1>8. CASE q[1] # 2 /\ q[1] # 15
  <2>1. M[q[1]].repeat = FALSE
    BY <1>4, <1>5, <1>8, Zenon
  <2>2. Times(M[q[1]]) = 1 /\ Parts(M[q[1]]) = 1 /\ \A p : Size(M[q[1]], p) = 1
    BY <2>1 DEF Times, Parts, Size
  <2> QED
    BY <1>5, <1>8, <2>2 DEF IsBundlePlace
<1> QED
  BY <1>6, <1>7, <1>8

LEMMA OffsetIs ==
  ASSUME NEW r, NEW q, IsBundlePlace(r, q), q[1] = 15
  PROVE  Offset(q) \in 0 .. 10
BY DEF IsBundlePlace, Offset

LEMMA OffsetGrows ==
  ASSUME NEW r, NEW p, NEW q, IsBundlePlace(r, p), p[1] = 15, IsBundlePlace(r, q), q[1] = 15,
         p[3] < q[3] \/ (p[3] = q[3] /\ p[4] < q[4])
  PROVE  Offset(p) < Offset(q)
BY DEF IsBundlePlace, Offset

LEMMA PositionsAre ==
  ASSUME NEW r, BundleRun(r), NEW q, IsBundlePlace(r, q)
  PROVE  PositionOf(r, q) \in 1 .. ListLength(r)
<1>1. r.tokens \in Nat /\ r.batches \in Nat
  BY BundleParts
<1>2. CASE q[1] = 15
  <2>1. Offset(q) \in 0 .. 10 /\ q[2] \in Nat /\ q[2] < r.tokens
    BY <1>2, OffsetIs DEF IsBundlePlace
  <2>2. PositionOf(r, q) = r.batches + 14 + 11 * q[2] + Offset(q)
    BY <1>2 DEF PositionOf
  <2> QED
    BY <1>1, <2>1, <2>2 DEF ListLength
<1>3. CASE q[1] # 15
  BY <1>1, <1>3 DEF IsBundlePlace, PositionOf, ListLength
<1> QED
  BY <1>2, <1>3

LEMMA PositionsGrow ==
  ASSUME NEW r, BundleRun(r), NEW p, IsBundlePlace(r, p), NEW q, IsBundlePlace(r, q), Less(p, q)
  PROVE  PositionOf(r, p) < PositionOf(r, q)
<1>1. r.tokens \in Nat /\ r.batches \in Nat
  BY BundleParts
<1>2. CASE p[1] = 15 /\ q[1] = 15
  <2>1. /\ Offset(p) \in 0 .. 10 /\ Offset(q) \in 0 .. 10 /\ p[2] \in Nat /\ q[2] \in Nat
    BY <1>2, OffsetIs DEF IsBundlePlace
  <2>2. /\ PositionOf(r, p) = r.batches + 14 + 11 * p[2] + Offset(p)
        /\ PositionOf(r, q) = r.batches + 14 + 11 * q[2] + Offset(q)
    BY <1>2 DEF PositionOf
  <2>3. CASE p[2] < q[2]
    BY <1>1, <2>1, <2>2, <2>3
  <2>4. CASE p[2] = q[2] /\ (p[3] < q[3] \/ (p[3] = q[3] /\ p[4] < q[4]))
    <3>1. Offset(p) < Offset(q)
      BY <1>2, <2>4, OffsetGrows
    <3> QED
      BY <1>1, <2>1, <2>2, <2>4, <3>1
  <2> QED
    BY <1>2, <2>3, <2>4 DEF Less, IsBundlePlace
<1>3. CASE p[1] = 15 /\ q[1] # 15
  <2>1. Offset(p) \in 0 .. 10 /\ p[2] \in Nat /\ p[2] < r.tokens
    BY <1>3, OffsetIs DEF IsBundlePlace
  <2>2. PositionOf(r, p) = r.batches + 14 + 11 * p[2] + Offset(p)
    BY <1>3 DEF PositionOf
  <2>3. q[1] = 16
    BY <1>3 DEF Less, IsBundlePlace
  <2>4. PositionOf(r, q) = r.batches + 14 + 11 * r.tokens
    BY <2>3 DEF PositionOf
  <2> QED
    BY <1>1, <2>1, <2>2, <2>4
<1>4. CASE p[1] # 15 /\ q[1] = 15
  <2>1. Offset(q) \in 0 .. 10 /\ q[2] \in Nat /\ q[2] < r.tokens
    BY <1>4, OffsetIs DEF IsBundlePlace
  <2>2. PositionOf(r, q) = r.batches + 14 + 11 * q[2] + Offset(q)
    BY <1>4 DEF PositionOf
  <2>3. p[1] \in 1 .. 14 /\ (p[1] = 2 => p[2] \in Nat /\ p[2] < r.batches)
    BY <1>4 DEF Less, IsBundlePlace
  <2>4. PositionOf(r, p) < r.batches + 14
    BY <1>1, <2>3 DEF PositionOf
  <2>5. PositionOf(r, p) \in Int
    BY PositionsAre DEF ListLength
  <2> QED
    BY <1>1, <2>1, <2>2, <2>4, <2>5
<1>5. CASE p[1] # 15 /\ q[1] # 15
  BY <1>1, <1>5 DEF IsBundlePlace, PositionOf, Less
<1> QED
  BY <1>2, <1>3, <1>4, <1>5

LEMMA PlaceParts4 ==
  ASSUME NEW i, NEW o, NEW p, NEW n
  PROVE  <<i, o, p, n>>[1] = i /\ <<i, o, p, n>>[2] = o /\ <<i, o, p, n>>[3] = p /\ <<i, o, p, n>>[4] = n
OBVIOUS

LEMMA PlaceIs ==
  ASSUME NEW r
  PROVE  /\ PositionOf(r, <<1, 0, 1, 0>>) = 1
         /\ \A b : PositionOf(r, <<2, b, 1, 0>>) = 2 + b
         /\ \A i \in 3 .. 14 : PositionOf(r, <<i, 0, 1, 0>>) = (i - 1) + r.batches
         /\ PositionOf(r, <<16, 0, 1, 0>>) = r.batches + 14 + 11 * r.tokens
         /\ \A t : /\ PositionOf(r, <<15, t, 1, 0>>) = r.batches + 14 + 11 * t + 0
                   /\ PositionOf(r, <<15, t, 2, 0>>) = r.batches + 14 + 11 * t + 1
                   /\ \A n : PositionOf(r, <<15, t, 3, n>>) = r.batches + 14 + 11 * t + (2 + n)
                   /\ \A n : PositionOf(r, <<15, t, 4, n>>) = r.batches + 14 + 11 * t + (6 + n)
                   /\ \A n : PositionOf(r, <<15, t, 5, n>>) = r.batches + 14 + 11 * t + (8 + n)
                   /\ PositionOf(r, <<15, t, 6, 0>>) = r.batches + 14 + 11 * t + 10
<1>1. PositionOf(r, <<1, 0, 1, 0>>) = 1
  BY PlaceParts4 DEF PositionOf
<1>2. ASSUME NEW b PROVE PositionOf(r, <<2, b, 1, 0>>) = 2 + b
  <2> DEFINE q == <<2, b, 1, 0>>
  <2>1. q[1] = 2 /\ q[2] = b
    BY PlaceParts4, Zenon
  <2> HIDE DEF q
  <2>2. PositionOf(r, q) = 2 + b
    BY <2>1 DEF PositionOf
  <2> QED
    BY <2>2 DEF q
<1>3. ASSUME NEW i \in 3 .. 14 PROVE PositionOf(r, <<i, 0, 1, 0>>) = (i - 1) + r.batches
  <2> DEFINE q == <<i, 0, 1, 0>>
  <2>1. q[1] = i
    BY PlaceParts4, Zenon
  <2> HIDE DEF q
  <2>2. PositionOf(r, q) = (i - 1) + r.batches
    BY <2>1 DEF PositionOf
  <2> QED
    BY <2>2 DEF q
<1>4. PositionOf(r, <<16, 0, 1, 0>>) = r.batches + 14 + 11 * r.tokens
  BY PlaceParts4 DEF PositionOf
<1>5. ASSUME NEW q, q[1] = 15 PROVE PositionOf(r, q) = r.batches + 14 + 11 * q[2] + Offset(q)
  BY <1>5 DEF PositionOf
<1>6. ASSUME NEW q
      PROVE  /\ q[3] = 1 => Offset(q) = 0
             /\ q[3] = 2 => Offset(q) = 1
             /\ q[3] = 3 => Offset(q) = 2 + q[4]
             /\ q[3] = 4 => Offset(q) = 6 + q[4]
             /\ q[3] = 5 => Offset(q) = 8 + q[4]
             /\ q[3] = 6 => Offset(q) = 10
  BY DEF Offset
<1>7. ASSUME NEW t PROVE PositionOf(r, <<15, t, 1, 0>>) = r.batches + 14 + 11 * t + 0
  <2> DEFINE q == <<15, t, 1, 0>>
  <2>1. q[1] = 15 /\ q[2] = t /\ q[3] = 1 /\ q[4] = 0
    BY PlaceParts4, Zenon
  <2> HIDE DEF q
  <2>2. PositionOf(r, q) = r.batches + 14 + 11 * q[2] + Offset(q)
    BY <1>5, <2>1, Zenon
  <2>3. Offset(q) = 0
    BY <1>6, <2>1
  <2>4. PositionOf(r, q) = r.batches + 14 + 11 * t + 0
    BY <2>1, <2>2, <2>3, Zenon
  <2> QED
    BY <2>4 DEF q
<1>8. ASSUME NEW t PROVE PositionOf(r, <<15, t, 2, 0>>) = r.batches + 14 + 11 * t + 1
  <2> DEFINE q == <<15, t, 2, 0>>
  <2>1. q[1] = 15 /\ q[2] = t /\ q[3] = 2 /\ q[4] = 0
    BY PlaceParts4, Zenon
  <2> HIDE DEF q
  <2>2. PositionOf(r, q) = r.batches + 14 + 11 * q[2] + Offset(q)
    BY <1>5, <2>1, Zenon
  <2>3. Offset(q) = 1
    BY <1>6, <2>1
  <2>4. PositionOf(r, q) = r.batches + 14 + 11 * t + 1
    BY <2>1, <2>2, <2>3, Zenon
  <2> QED
    BY <2>4 DEF q
<1>9. ASSUME NEW t, NEW n PROVE PositionOf(r, <<15, t, 3, n>>) = r.batches + 14 + 11 * t + (2 + n)
  <2> DEFINE q == <<15, t, 3, n>>
  <2>1. q[1] = 15 /\ q[2] = t /\ q[3] = 3 /\ q[4] = n
    BY PlaceParts4, Zenon
  <2> HIDE DEF q
  <2>2. PositionOf(r, q) = r.batches + 14 + 11 * q[2] + Offset(q)
    BY <1>5, <2>1, Zenon
  <2>3. Offset(q) = (2 + n)
    BY <1>6, <2>1
  <2>4. PositionOf(r, q) = r.batches + 14 + 11 * t + (2 + n)
    BY <2>1, <2>2, <2>3, Zenon
  <2> QED
    BY <2>4 DEF q
<1>10. ASSUME NEW t, NEW n PROVE PositionOf(r, <<15, t, 4, n>>) = r.batches + 14 + 11 * t + (6 + n)
  <2> DEFINE q == <<15, t, 4, n>>
  <2>1. q[1] = 15 /\ q[2] = t /\ q[3] = 4 /\ q[4] = n
    BY PlaceParts4, Zenon
  <2> HIDE DEF q
  <2>2. PositionOf(r, q) = r.batches + 14 + 11 * q[2] + Offset(q)
    BY <1>5, <2>1, Zenon
  <2>3. Offset(q) = (6 + n)
    BY <1>6, <2>1
  <2>4. PositionOf(r, q) = r.batches + 14 + 11 * t + (6 + n)
    BY <2>1, <2>2, <2>3, Zenon
  <2> QED
    BY <2>4 DEF q
<1>11. ASSUME NEW t, NEW n PROVE PositionOf(r, <<15, t, 5, n>>) = r.batches + 14 + 11 * t + (8 + n)
  <2> DEFINE q == <<15, t, 5, n>>
  <2>1. q[1] = 15 /\ q[2] = t /\ q[3] = 5 /\ q[4] = n
    BY PlaceParts4, Zenon
  <2> HIDE DEF q
  <2>2. PositionOf(r, q) = r.batches + 14 + 11 * q[2] + Offset(q)
    BY <1>5, <2>1, Zenon
  <2>3. Offset(q) = (8 + n)
    BY <1>6, <2>1
  <2>4. PositionOf(r, q) = r.batches + 14 + 11 * t + (8 + n)
    BY <2>1, <2>2, <2>3, Zenon
  <2> QED
    BY <2>4 DEF q
<1>12. ASSUME NEW t PROVE PositionOf(r, <<15, t, 6, 0>>) = r.batches + 14 + 11 * t + 10
  <2> DEFINE q == <<15, t, 6, 0>>
  <2>1. q[1] = 15 /\ q[2] = t /\ q[3] = 6 /\ q[4] = 0
    BY PlaceParts4, Zenon
  <2> HIDE DEF q
  <2>2. PositionOf(r, q) = r.batches + 14 + 11 * q[2] + Offset(q)
    BY <1>5, <2>1, Zenon
  <2>3. Offset(q) = 10
    BY <1>6, <2>1
  <2>4. PositionOf(r, q) = r.batches + 14 + 11 * t + 10
    BY <2>1, <2>2, <2>3, Zenon
  <2> QED
    BY <2>4 DEF q
<1> QED
  BY <1>1, <1>2, <1>3, <1>4, <1>7, <1>8, <1>9, <1>10, <1>11, <1>12, Zenon

AtPosition(r, x, k) == \E q : Named(r, x, q) /\ PositionOf(r, q) = k

LEMMA FixedPositions ==
  ASSUME NEW r, BundleRun(r)
  PROVE  LET BB == r.batches
         IN  /\ AtPosition(r, Single("prompt_merge_seed"), 1)
             /\ \A b \in 1 .. BB : AtPosition(r, Name("prompt_merge", b - 1, 0), 1 + b)
             /\ AtPosition(r, Single("prompt_prepare"), BB + 1 + 1)
             /\ AtPosition(r, Embedding, BB + 1 + 2)
             /\ \A j \in 1 .. 4 : AtPosition(r, AuxName(-1, j - 1), BB + 3 + j)
             /\ \A j \in 1 .. 4 : AtPosition(r, RangeName(-1, j - 1), BB + 7 + j)
             /\ AtPosition(r, FinalizeName(-1), BB + 11 + 1)
             /\ AtPosition(r, Single("decode_init"), BB + 11 + 2)
             /\ AtPosition(r, Single("output_finalize"), BB + 13 + 11 * r.tokens + 1)
<1> DEFINE BB == r.batches
           TT == r.tokens
<1>1. IsRun(r) /\ r.shape.layers = 4 /\ BB \in Nat /\ TT \in Nat
  BY BundleParts
<1>2. /\ Named(r, Single("prompt_merge_seed"), <<1, 0, 1, 0>>)
      /\ \A b \in 0 .. (BB - 1) : Named(r, Name("prompt_merge", b, 0), <<2, b, 1, 0>>)
      /\ Named(r, Single("prompt_prepare"), <<3, 0, 1, 0>>)
      /\ Named(r, Single("input_embedding"), <<4, 0, 1, 0>>)
  BY <1>1, PromptNames, Zenon
<1>3. LET N == r.shape.layers
      IN  /\ \A l \in 0 .. (N - 1) : Named(r, Name("prefill_prepare_aux", 0, l), <<5 + l, 0, 1, 0>>)
          /\ \A l \in 0 .. (N - 1) : Named(r, Name("prefill_range", 0, l), <<5 + N + l, 0, 1, 0>>)
          /\ Named(r, Single("prefill_finalize"), <<5 + N + N, 0, 1, 0>>)
          /\ Named(r, Single("decode_init"), <<6 + N + N, 0, 1, 0>>)
          /\ Named(r, Single("output_finalize"), <<8 + N + N, 0, 1, 0>>)
  BY <1>1, PrefillNames, Zenon
<1>4. 5 + r.shape.layers + r.shape.layers = 13 /\ 6 + r.shape.layers + r.shape.layers = 14
      /\ 8 + r.shape.layers + r.shape.layers = 16 /\ 5 + r.shape.layers = 9
      /\ 0 .. (r.shape.layers - 1) = 0 .. 3
  BY <1>1
<1>5. /\ \A l \in 0 .. 3 : Named(r, Name("prefill_prepare_aux", 0, l), <<5 + l, 0, 1, 0>>)
      /\ \A l \in 0 .. 3 : Named(r, Name("prefill_range", 0, l), <<9 + l, 0, 1, 0>>)
      /\ Named(r, Single("prefill_finalize"), <<13, 0, 1, 0>>)
      /\ Named(r, Single("decode_init"), <<14, 0, 1, 0>>)
      /\ Named(r, Single("output_finalize"), <<16, 0, 1, 0>>)
  BY <1>3, <1>4, Zenon
<1>6. AtPosition(r, Single("prompt_merge_seed"), 1)
  <2>1. PositionOf(r, <<1, 0, 1, 0>>) = 1
    BY PlaceIs, Zenon
  <2> QED
    BY <1>2, <2>1, Zenon DEF AtPosition
<1>7. ASSUME NEW b \in 1 .. BB PROVE AtPosition(r, Name("prompt_merge", b - 1, 0), 1 + b)
  <2>1. PositionOf(r, <<2, b - 1, 1, 0>>) = 2 + (b - 1)
    BY PlaceIs, Zenon
  <2>2. 2 + (b - 1) = 1 + b /\ b - 1 \in 0 .. (BB - 1)
    BY <1>1
  <2>3. Named(r, Name("prompt_merge", b - 1, 0), <<2, b - 1, 1, 0>>)
    BY <1>2, <2>2, Zenon
  <2> QED
    BY <2>1, <2>2, <2>3, Zenon DEF AtPosition
<1>8. AtPosition(r, Single("prompt_prepare"), BB + 1 + 1) /\ AtPosition(r, Embedding, BB + 1 + 2)
  <2>1. 3 \in 3 .. 14 /\ 4 \in 3 .. 14 /\ (3 - 1) + BB = BB + 1 + 1 /\ (4 - 1) + BB = BB + 1 + 2
    BY <1>1
  <2>2. PositionOf(r, <<3, 0, 1, 0>>) = BB + 1 + 1
    BY <2>1, PlaceIs, Zenon
  <2>3. PositionOf(r, <<4, 0, 1, 0>>) = BB + 1 + 2
    BY <2>1, PlaceIs, Zenon
  <2> QED
    BY <1>2, <2>2, <2>3, Zenon DEF AtPosition, Embedding
<1>9. ASSUME NEW j \in 1 .. 4
      PROVE  AtPosition(r, AuxName(-1, j - 1), BB + 3 + j) /\ AtPosition(r, RangeName(-1, j - 1), BB + 7 + j)
  <2>1. /\ j - 1 \in 0 .. 3 /\ 5 + (j - 1) \in 3 .. 14 /\ 9 + (j - 1) \in 3 .. 14
        /\ ((5 + (j - 1)) - 1) + BB = BB + 3 + j /\ ((9 + (j - 1)) - 1) + BB = BB + 7 + j
    BY <1>1
  <2>2. PositionOf(r, <<5 + (j - 1), 0, 1, 0>>) = BB + 3 + j
    BY <2>1, PlaceIs, Zenon
  <2>3. PositionOf(r, <<9 + (j - 1), 0, 1, 0>>) = BB + 7 + j
    BY <2>1, PlaceIs, Zenon
  <2>4. /\ Named(r, Name("prefill_prepare_aux", 0, j - 1), <<5 + (j - 1), 0, 1, 0>>)
        /\ Named(r, Name("prefill_range", 0, j - 1), <<9 + (j - 1), 0, 1, 0>>)
    BY <1>5, <2>1, Zenon
  <2>5. AuxName(-1, j - 1) = Name("prefill_prepare_aux", 0, j - 1) /\ RangeName(-1, j - 1) = Name("prefill_range", 0, j - 1)
    BY PassNamesAre, Zenon
  <2> QED
    BY <2>2, <2>3, <2>4, <2>5, Zenon DEF AtPosition
<1>10. AtPosition(r, FinalizeName(-1), BB + 11 + 1) /\ AtPosition(r, Single("decode_init"), BB + 11 + 2)
  <2>1. 13 \in 3 .. 14 /\ 14 \in 3 .. 14 /\ (13 - 1) + BB = BB + 11 + 1 /\ (14 - 1) + BB = BB + 11 + 2
    BY <1>1
  <2>2. PositionOf(r, <<13, 0, 1, 0>>) = BB + 11 + 1
    BY <2>1, PlaceIs, Zenon
  <2>3. PositionOf(r, <<14, 0, 1, 0>>) = BB + 11 + 2
    BY <2>1, PlaceIs, Zenon
  <2>4. FinalizeName(-1) = Single("prefill_finalize")
    BY PassNamesAre, Zenon
  <2> QED
    BY <1>5, <2>2, <2>3, <2>4, Zenon DEF AtPosition
<1>11. AtPosition(r, Single("output_finalize"), BB + 13 + 11 * TT + 1)
  <2>1. PositionOf(r, <<16, 0, 1, 0>>) = BB + 14 + 11 * TT
    BY PlaceIs, Zenon
  <2>2. BB + 14 + 11 * TT = BB + 13 + 11 * TT + 1
    BY <1>1
  <2> QED
    BY <1>5, <2>1, <2>2, Zenon DEF AtPosition
<1> QED
  BY <1>6, <1>7, <1>8, <1>9, <1>10, <1>11, Zenon

LEMMA PassPositions ==
  ASSUME NEW r, BundleRun(r), NEW t \in 0 .. (r.tokens - 1), NEW m \in 0 .. 10
  PROVE  AtPosition(r, PassAt(t, m), r.batches + 14 + 11 * t + m)
<1> DEFINE c == r.batches + 14 + 11 * t
<1>1. IsRun(r) /\ r.shape.layers = 4 /\ FirstShared(r.shape) = 2 /\ Ending(r) = 6 /\ c \in Int /\ t \in Nat
  BY BundleParts
<1>2. LET N == r.shape.layers
          F == FirstShared(r.shape)
      IN  /\ Named(r, Name("decode_select", t, 0), <<7 + N + N, t, 1, 0>>)
          /\ Named(r, Name("decode_embed", t, 0), <<7 + N + N, t, 2, 0>>)
          /\ \A l \in 0 .. (N - 1) : Named(r, Name("decode_aux", t, l), <<7 + N + N, t, 3, l>>)
          /\ \A l \in 0 .. (F - 1) : Named(r, Name("decode_range", t, l), <<7 + N + N, t, 4, l>>)
          /\ \A l \in F .. (N - 1) : Named(r, Name("decode_range", t, l), <<7 + N + N, t, 5, l - F>>)
          /\ Named(r, Name("decode_finalize", t, 0), <<7 + N + N, t, Ending(r), 0>>)
  BY <1>1, DecodeNames, Zenon
<1>3. /\ 7 + r.shape.layers + r.shape.layers = 15 /\ 0 .. (r.shape.layers - 1) = 0 .. 3
      /\ 0 .. (FirstShared(r.shape) - 1) = 0 .. 1 /\ FirstShared(r.shape) .. (r.shape.layers - 1) = 2 .. 3
  BY <1>1
<1>4. /\ Named(r, Name("decode_select", t, 0), <<15, t, 1, 0>>)
      /\ Named(r, Name("decode_embed", t, 0), <<15, t, 2, 0>>)
      /\ \A l \in 0 .. 3 : Named(r, Name("decode_aux", t, l), <<15, t, 3, l>>)
      /\ \A l \in 0 .. 1 : Named(r, Name("decode_range", t, l), <<15, t, 4, l>>)
      /\ \A l \in 2 .. 3 : Named(r, Name("decode_range", t, l), <<15, t, 5, l - 2>>)
      /\ Named(r, Name("decode_finalize", t, 0), <<15, t, 6, 0>>)
  BY <1>1, <1>2, <1>3, Zenon
<1>5. /\ FinalizeName(t) = Name("decode_finalize", t, 0)
      /\ \A l : AuxName(t, l) = Name("decode_aux", t, l) /\ RangeName(t, l) = Name("decode_range", t, l)
  BY <1>1, PassNamesAre, Zenon
<1>6. /\ PositionOf(r, <<15, t, 1, 0>>) = c + 0 /\ PositionOf(r, <<15, t, 2, 0>>) = c + 1
      /\ \A n : PositionOf(r, <<15, t, 3, n>>) = c + (2 + n)
      /\ \A n : PositionOf(r, <<15, t, 4, n>>) = c + (6 + n)
      /\ \A n : PositionOf(r, <<15, t, 5, n>>) = c + (8 + n)
      /\ PositionOf(r, <<15, t, 6, 0>>) = c + 10
  BY PlaceIs DEF c
<1> HIDE DEF c
<1>7. CASE m = 0
  <2>1. PassAt(t, m) = Name("decode_select", t, 0)
    BY <1>7 DEF PassAt, SelectName
  <2> QED
    BY <1>4, <1>6, <1>7, <2>1, Zenon DEF AtPosition, c
<1>8. CASE m = 1
  <2>1. PassAt(t, m) = Name("decode_embed", t, 0)
    BY <1>8 DEF PassAt, EmbedName
  <2> QED
    BY <1>4, <1>6, <1>8, <2>1, Zenon DEF AtPosition, c
<1>9. CASE 2 <= m /\ m <= 5
  <2>1. PassAt(t, m) = AuxName(t, m - 2)
    BY <1>9 DEF PassAt
  <2>2. m - 2 \in 0 .. 3 /\ c + (2 + (m - 2)) = c + m
    BY <1>1, <1>9
  <2>3. PassAt(t, m) = Name("decode_aux", t, m - 2)
    BY <1>5, <2>1, Zenon
  <2>4. Named(r, Name("decode_aux", t, m - 2), <<15, t, 3, m - 2>>)
    BY <1>4, <2>2, Zenon
  <2>5. PositionOf(r, <<15, t, 3, m - 2>>) = c + m
    BY <1>6, <2>2, Zenon
  <2>6. AtPosition(r, Name("decode_aux", t, m - 2), c + m)
    BY <2>4, <2>5, Zenon DEF AtPosition
  <2> QED
    BY <2>3, <2>6, Zenon DEF c
<1>10. CASE 6 <= m /\ m <= 7
  <2>1. PassAt(t, m) = RangeName(t, m - 6)
    BY <1>10 DEF PassAt
  <2>2. m - 6 \in 0 .. 1 /\ c + (6 + (m - 6)) = c + m
    BY <1>1, <1>10
  <2>3. PassAt(t, m) = Name("decode_range", t, m - 6)
    BY <1>5, <2>1, Zenon
  <2>4. Named(r, Name("decode_range", t, m - 6), <<15, t, 4, m - 6>>)
    BY <1>4, <2>2, Zenon
  <2>5. PositionOf(r, <<15, t, 4, m - 6>>) = c + m
    BY <1>6, <2>2, Zenon
  <2>6. AtPosition(r, Name("decode_range", t, m - 6), c + m)
    BY <2>4, <2>5, Zenon DEF AtPosition
  <2> QED
    BY <2>3, <2>6, Zenon DEF c
<1>11. CASE 8 <= m /\ m <= 9
  <2>1. PassAt(t, m) = RangeName(t, m - 6)
    BY <1>11 DEF PassAt
  <2>2. m - 6 \in 2 .. 3 /\ c + (8 + ((m - 6) - 2)) = c + m
    BY <1>1, <1>11
  <2>3. PassAt(t, m) = Name("decode_range", t, m - 6)
    BY <1>5, <2>1, Zenon
  <2>4. Named(r, Name("decode_range", t, m - 6), <<15, t, 5, (m - 6) - 2>>)
    BY <1>4, <2>2, Zenon
  <2>5. PositionOf(r, <<15, t, 5, (m - 6) - 2>>) = c + m
    BY <1>6, <2>2, Zenon
  <2>6. AtPosition(r, Name("decode_range", t, m - 6), c + m)
    BY <2>4, <2>5, Zenon DEF AtPosition
  <2> QED
    BY <2>3, <2>6, Zenon DEF c
<1>12. CASE m = 10
  <2>1. PassAt(t, m) = FinalizeName(t)
    BY <1>12 DEF PassAt
  <2> QED
    BY <1>4, <1>5, <1>6, <1>12, <2>1, Zenon DEF AtPosition, c
<1>13. m = 0 \/ m = 1 \/ (2 <= m /\ m <= 5) \/ (6 <= m /\ m <= 7) \/ (8 <= m /\ m <= 9) \/ m = 10
  OBVIOUS
<1> QED
  BY <1>7, <1>8, <1>9, <1>10, <1>11, <1>12, <1>13

LEMMA ListPositions ==
  ASSUME NEW r, BundleRun(r), NEW k \in 1 .. ListLength(r)
  PROVE  AtPosition(r, ListOf(r)[k], k)
<1> DEFINE BB == r.batches
           TT == r.tokens
           e == ListOf(r)
<1>1. BB \in Nat /\ TT \in Nat
  BY BundleParts
<1>2. k \in 1 .. (14 + BB + 11 * TT)
  BY DEF ListLength
<1>3. \/ k = 1 \/ \E b \in 1 .. BB : k = 1 + b
      \/ k = BB + 1 + 1 \/ k = BB + 1 + 2
      \/ \E j \in 1 .. 4 : k = BB + 3 + j
      \/ \E j \in 1 .. 4 : k = BB + 7 + j
      \/ k = BB + 11 + 1 \/ k = BB + 11 + 2
      \/ \E j \in 1 .. (11 * TT) : k = BB + 13 + j
      \/ k = BB + 13 + 11 * TT + 1
  <2>1. CASE k > 1 /\ k <= BB + 1
    <3>1. k - 1 \in 1 .. BB /\ k = 1 + (k - 1)
      BY <1>1, <2>1
    <3> QED
      BY <3>1
  <2>2. CASE BB + 3 < k /\ k <= BB + 7
    <3>1. k - (BB + 3) \in 1 .. 4 /\ k = BB + 3 + (k - (BB + 3))
      BY <1>1, <2>2
    <3> QED
      BY <3>1
  <2>3. CASE BB + 7 < k /\ k <= BB + 11
    <3>1. k - (BB + 7) \in 1 .. 4 /\ k = BB + 7 + (k - (BB + 7))
      BY <1>1, <2>3
    <3> QED
      BY <3>1
  <2>4. CASE BB + 13 < k /\ k <= BB + 13 + 11 * TT
    <3>1. k - (BB + 13) \in 1 .. (11 * TT) /\ k = BB + 13 + (k - (BB + 13))
      BY <1>1, <2>4
    <3> QED
      BY <3>1
  <2>5. \/ k = 1 \/ (k > 1 /\ k <= BB + 1) \/ k = BB + 1 + 1 \/ k = BB + 1 + 2 \/ (BB + 3 < k /\ k <= BB + 7)
        \/ (BB + 7 < k /\ k <= BB + 11) \/ k = BB + 11 + 1 \/ k = BB + 11 + 2
        \/ (BB + 13 < k /\ k <= BB + 13 + 11 * TT) \/ k = BB + 13 + 11 * TT + 1
    BY <1>1, <1>2
  <2> QED
    BY <2>1, <2>2, <2>3, <2>4, <2>5, Zenon
<1>4. /\ e[1] = Single("prompt_merge_seed")
      /\ \A b \in 1 .. BB : e[1 + b] = Name("prompt_merge", b - 1, 0)
      /\ e[BB + 1 + 1] = Single("prompt_prepare") /\ e[BB + 1 + 2] = Embedding
      /\ \A j \in 1 .. 4 : AuxName(-1, j - 1) = e[BB + 3 + j]
      /\ \A j \in 1 .. 4 : RangeName(-1, j - 1) = e[BB + 7 + j]
      /\ e[BB + 11 + 1] = FinalizeName(-1) /\ e[BB + 11 + 2] = Single("decode_init")
      /\ \A j \in 1 .. (11 * TT) : e[BB + 13 + j] = PassAt((j - 1) \div 11, (j - 1) % 11)
      /\ e[BB + 13 + 11 * TT + 1] = Single("output_finalize")
  BY ListHas, Zenon
<1>5. /\ AtPosition(r, Single("prompt_merge_seed"), 1)
      /\ \A b \in 1 .. BB : AtPosition(r, Name("prompt_merge", b - 1, 0), 1 + b)
      /\ AtPosition(r, Single("prompt_prepare"), BB + 1 + 1)
      /\ AtPosition(r, Embedding, BB + 1 + 2)
      /\ \A j \in 1 .. 4 : AtPosition(r, AuxName(-1, j - 1), BB + 3 + j)
      /\ \A j \in 1 .. 4 : AtPosition(r, RangeName(-1, j - 1), BB + 7 + j)
      /\ AtPosition(r, FinalizeName(-1), BB + 11 + 1)
      /\ AtPosition(r, Single("decode_init"), BB + 11 + 2)
      /\ AtPosition(r, Single("output_finalize"), BB + 13 + 11 * TT + 1)
  BY FixedPositions, Zenon
<1>6. ASSUME NEW j \in 1 .. (11 * TT) PROVE AtPosition(r, PassAt((j - 1) \div 11, (j - 1) % 11), BB + 13 + j)
  <2> DEFINE t == (j - 1) \div 11
             m == (j - 1) % 11
  <2>1. t \in 0 .. (TT - 1) /\ m \in 0 .. 10 /\ BB + 14 + 11 * t + m = BB + 13 + j
    BY <1>1
  <2> HIDE DEF t, m
  <2>2. AtPosition(r, PassAt(t, m), BB + 14 + 11 * t + m)
    BY <2>1, PassPositions, Zenon
  <2> QED
    BY <2>1, <2>2, Zenon DEF t, m
<1> HIDE DEF e, BB, TT
<1> QED
  BY <1>3, <1>4, <1>5, <1>6, Zenon DEF e

GrowingOnto(m, n, p) ==
  /\ m \in Nat /\ n \in Nat
  /\ \A i \in 1 .. m : p[i] \in 1 .. n
  /\ \A i, j \in 1 .. m : i < j => p[i] < p[j]
  /\ \A k \in 1 .. n : \E i \in 1 .. m : p[i] = k

LEMMA GrowsOnto ==
  ASSUME NEW m, NEW n, NEW p, GrowingOnto(m, n, p)
  PROVE  m = n /\ \A i \in 1 .. m : p[i] = i
<1> USE DEF GrowingOnto
<1> DEFINE Bad == {i \in 1 .. m : p[i] # i}
<1>1. Bad = {}
  <2> SUFFICES ASSUME Bad # {} PROVE FALSE
    OBVIOUS
  <2>1. Bad \subseteq Nat
    OBVIOUS
  <2>2. PICK i \in Bad : \A y \in Bad : i <= y
    <3> HIDE DEF Bad
    <3> QED
      BY <2>1, LeastOf
  <2>3. i \in 1 .. m /\ p[i] # i /\ p[i] \in 1 .. n
    OBVIOUS
  <2>4. \A j \in 1 .. m : j < i => p[j] = j
    <3> SUFFICES ASSUME NEW j \in 1 .. m, j < i, p[j] # j PROVE FALSE
      OBVIOUS
    <3>1. j \in Bad
      OBVIOUS
    <3>2. i <= j
      BY <2>2, <3>1, Zenon
    <3> QED
      BY <2>3, <3>2
  <2> HIDE DEF Bad
  <2>5. p[i] > i
    <3>1. CASE i = 1
      BY <2>3, <3>1
    <3>2. CASE i > 1
      <4>1. i - 1 \in 1 .. m /\ i - 1 < i
        BY <2>3, <3>2
      <4>2. p[i - 1] = i - 1 /\ p[i - 1] < p[i]
        BY <2>3, <2>4, <4>1, Zenon
      <4> QED
        BY <2>3, <4>2
    <3> QED
      BY <2>3, <3>1, <3>2
  <2>6. i \in 1 .. n
    BY <2>3, <2>5
  <2>7. PICK j \in 1 .. m : p[j] = i
    BY <2>6
  <2>8. CASE j < i
    <3>1. p[j] = j
      BY <2>4, <2>8
    <3> QED
      BY <2>7, <2>8, <3>1
  <2>9. CASE j = i
    BY <2>3, <2>7, <2>9
  <2>10. CASE i < j
    <3>1. p[i] < p[j]
      BY <2>3, <2>10
    <3> QED
      BY <2>3, <2>5, <2>7, <3>1
  <2> QED
    BY <2>3, <2>8, <2>9, <2>10
<1>2. \A i \in 1 .. m : p[i] = i
  BY <1>1
<1>3. m <= n
  <2>1. CASE m = 0
    BY <2>1
  <2>2. CASE m # 0
    <3>1. m \in 1 .. m
      BY <2>2
    <3>2. m \in 1 .. n
      BY <1>2, <3>1
    <3> QED
      BY <3>2
  <2> QED
    BY <2>1, <2>2
<1>4. n <= m
  <2>1. CASE n = 0
    BY <2>1
  <2>2. CASE n # 0
    <3>1. n \in 1 .. n
      BY <2>2
    <3>2. PICK i \in 1 .. m : p[i] = n
      BY <3>1
    <3>3. i = n
      BY <1>2, <3>2
    <3> QED
      BY <3>3
  <2> QED
    BY <2>1, <2>2
<1> QED
  BY <1>2, <1>3, <1>4

(* The chain of the gate's model is the list that the gate expects. *)
LEMMA ChainIsTheList ==
  ASSUME NEW r, BundleRun(r), NEW keys, NEW ch, Listed(r, EndPlace(r), keys, ch)
  PROVE  /\ [i \in DOMAIN ch |-> ch[i].name] = ListOf(r)
         /\ Len(ch) = ListLength(r) /\ DOMAIN ch = 1 .. ListLength(r)
<1> DEFINE m == Len(ch)
           n == ListLength(r)
           e == ListOf(r)
           P(x) == PositionOf(r, Place(r, x))
           p == [i \in 1 .. m |-> P(ch[i].name)]
<1>1. /\ IsSequence(ch)
      /\ \A i \in 1 .. m : IsName(r, ch[i].name) /\ Less(Place(r, ch[i].name), EndPlace(r))
      /\ \A i, j \in 1 .. m : i < j => Less(Place(r, ch[i].name), Place(r, ch[j].name))
      /\ \A name : IsName(r, name) /\ Less(Place(r, name), EndPlace(r)) => \E i \in 1 .. m : ch[i].name = name
  BY Zenon DEF Listed
<1>2. m \in Nat /\ DOMAIN ch = 1 .. m /\ n \in Nat /\ IsRun(r)
  BY <1>1, SequenceFacts, BundleParts
<1>3. ASSUME NEW x, IsName(r, x) PROVE IsBundlePlace(r, Place(r, x))
  BY <1>3, BundlePlaces, NameIsPlace, Zenon
<1>4. \A i \in 1 .. m : p[i] = P(ch[i].name)
  OBVIOUS
<1> HIDE DEF p
<1>5. \A i \in 1 .. m : p[i] \in 1 .. n
  <2> SUFFICES ASSUME NEW i \in 1 .. m PROVE p[i] \in 1 .. n
    OBVIOUS
  <2>1. IsBundlePlace(r, Place(r, ch[i].name))
    BY <1>1, <1>3, Zenon
  <2>2. P(ch[i].name) \in 1 .. n
    BY <2>1, PositionsAre, Zenon
  <2> QED
    BY <1>4, <2>2, Zenon
<1>6. \A i, j \in 1 .. m : i < j => p[i] < p[j]
  <2> SUFFICES ASSUME NEW i \in 1 .. m, NEW j \in 1 .. m, i < j PROVE p[i] < p[j]
    OBVIOUS
  <2>1. IsBundlePlace(r, Place(r, ch[i].name)) /\ IsBundlePlace(r, Place(r, ch[j].name))
    BY <1>1, <1>3, Zenon
  <2>2. Less(Place(r, ch[i].name), Place(r, ch[j].name))
    BY <1>1, Zenon
  <2>3. P(ch[i].name) < P(ch[j].name)
    BY <2>1, <2>2, PositionsGrow, Zenon
  <2> QED
    BY <1>4, <2>3, Zenon
<1>7. ASSUME NEW k \in 1 .. n PROVE \E i \in 1 .. m : ch[i].name = e[k] /\ p[i] = k
  <2>1. PICK q : Named(r, e[k], q) /\ PositionOf(r, q) = k
    BY ListPositions, Zenon DEF AtPosition
  <2>2. IsName(r, e[k]) /\ Place(r, e[k]) = q
    BY <2>1, Zenon DEF Named
  <2>3. Less(Place(r, e[k]), EndPlace(r))
    BY <1>2, <2>2, AllBeforeTheEnd, Zenon
  <2>4. PICK i \in 1 .. m : ch[i].name = e[k]
    BY <1>1, <2>2, <2>3, Zenon
  <2>5. p[i] = k
    BY <1>4, <2>1, <2>2, <2>4, Zenon
  <2> QED
    BY <2>4, <2>5, Zenon
<1> HIDE DEF P, n, m, e
<1>8. m = n /\ \A i \in 1 .. m : p[i] = i
  <2>1. \A k \in 1 .. n : \E i \in 1 .. m : p[i] = k
    BY <1>7, Zenon
  <2>2. m \in Nat /\ n \in Nat
    BY <1>2, Zenon
  <2>3. GrowingOnto(m, n, p)
    BY <2>2, <1>5, <1>6, <2>1, Zenon DEF GrowingOnto
  <2> QED
    BY <2>3, GrowsOnto, Zenon
<1>9. ASSUME NEW k \in 1 .. n PROVE ch[k].name = e[k]
  <2>1. PICK i \in 1 .. m : ch[i].name = e[k] /\ p[i] = k
    BY <1>7, Zenon
  <2>2. i = k
    BY <1>8, <2>1, Zenon
  <2> QED
    BY <2>1, <2>2, Zenon
<1>10. e = [k \in 1 .. n |-> e[k]]
  BY DEF e, ListOf, n
<1>11. DOMAIN ch = 1 .. n
  BY <1>2, <1>8, Zenon
<1>12. [i \in DOMAIN ch |-> ch[i].name] = e
  BY <1>9, <1>10, <1>11
<1> QED
  BY <1>8, <1>11, <1>12, Zenon DEF e, m, n

-----------------------------------------------------------------------------
(* What the gate reads of a directory in which one boundary deviates.       *)

Directory(names, dirs, vals, errors, authenticated, donors) ==
  [names |-> names, dirs |-> dirs, values |-> vals, errors |-> errors, authenticated |-> authenticated,
   donors |-> donors]
Unspoiled(names, vals, donors) == Directory(names, Range(names), vals, {}, {}, donors)
OtherValue(vals, name) == [n \in DOMAIN vals |-> IF n = name THEN [wrong |-> name] ELSE vals[n]]
OtherDonor(donors, name) == [donors EXCEPT ![name].donor_a_kv = Embedding]

LEMMA MaxIs ==
  ASSUME NEW n \in Nat, NEW d, d \subseteq 1 .. n, d # {}
  PROVE  Max(d) \in d /\ \A y \in d : Max(d) >= y
<1> DEFINE far == {n - y : y \in d}
<1>1. far \subseteq Nat /\ far # {}
  <2>1. \A y \in d : y \in 1 .. n /\ n - y \in Nat
    OBVIOUS
  <2> QED
    BY <2>1
<1>2. PICK x \in far : \A y \in far : x <= y
  <2> HIDE DEF far
  <2> QED
    BY <1>1, LeastOf
<1>3. PICK m \in d : x = n - m
  OBVIOUS
<1>4. \A y \in d : m >= y
  <2> SUFFICES ASSUME NEW y \in d PROVE m >= y
    OBVIOUS
  <2>1. n - y \in far
    OBVIOUS
  <2>2. n - m <= n - y
    BY <1>2, <1>3, <2>1
  <2>3. m \in 1 .. n /\ y \in 1 .. n
    OBVIOUS
  <2> QED
    BY <2>2, <2>3
<1> HIDE DEF far
<1>5. \E z \in d : \A y \in d : z >= y
  BY <1>4
<1> QED
  BY <1>5 DEF Max

LEMMA AtEndIs ==
  ASSUME NEW n \in Nat, NEW N, DOMAIN N \subseteq 1 .. n, NEW x
  PROVE  LET k == Max(DOMAIN N) + 1
         IN  /\ k \notin DOMAIN N
             /\ DOMAIN AtEnd(N, x) = DOMAIN N \cup {k}
             /\ AtEnd(N, x)[k] = x /\ \A i \in DOMAIN N : AtEnd(N, x)[i] = N[i]
             /\ DOMAIN N # {} => k - 1 \in DOMAIN N /\ k \in Nat /\ \A i \in DOMAIN N : i < k
<1> DEFINE d == DOMAIN N
           k == Max(d) + 1
           g == [i \in {k} |-> x]
<1>1. d # {} => Max(d) \in d /\ \A y \in d : Max(d) >= y
  BY MaxIs, Zenon
<1>2. d # {} => k - 1 \in d /\ k \in Nat /\ \A i \in d : i < k
  <2> DEFINE m == Max(d)
  <2>1. d # {} => m \in d /\ \A y \in d : m >= y
    BY <1>1, Zenon
  <2>2. k = m + 1 /\ d \subseteq 1 .. n
    OBVIOUS
  <2>3. ASSUME d # {} PROVE m \in 1 .. n /\ \A y \in d : y \in 1 .. n /\ m >= y
    BY <2>1, <2>2, <2>3, Zenon
  <2> HIDE DEF d, m
  <2>4. ASSUME d # {} PROVE k - 1 = m /\ k \in Nat /\ \A i \in d : i < k
    <3>1. m \in 1 .. n
      BY <2>3, <2>4, Zenon
    <3>2. ASSUME NEW i \in d PROVE i < m + 1
      <4>1. i \in 1 .. n /\ m >= i
        BY <2>3, <2>4, Zenon
      <4> QED
        BY <3>1, <4>1
    <3>3. k - 1 = m /\ k \in Nat
      BY <2>2, <3>1
    <3> QED
      BY <2>2, <3>2, <3>3, Zenon
  <2> HIDE DEF k
  <2> QED
    BY <2>1, <2>4, Zenon
<1>3. k \notin d
  <2>1. CASE d = {}
    BY <2>1
  <2>2. CASE d # {}
    BY <1>2, <2>2
  <2> QED
    BY <2>1, <2>2
<1>4. AtEnd(N, x) = Extended(N, g)
  BY Zenon DEF AtEnd
<1>5. DOMAIN g = {k} /\ g[k] = x
  OBVIOUS
<1> HIDE DEF k, g
<1>6. DOMAIN Extended(N, g) = d \cup {k}
  BY <1>5 DEF Extended
<1>7. Extended(N, g)[k] = x /\ \A i \in d : Extended(N, g)[i] = N[i]
  BY <1>3, <1>5 DEF Extended
<1> QED
  BY <1>2, <1>3, <1>4, <1>6, <1>7, Zenon DEF d, k

LEMMA WithoutIs ==
  ASSUME NEW N, NEW x
  PROVE  /\ DOMAIN Without(N, x) = {i \in DOMAIN N : N[i] # x}
         /\ \A i \in DOMAIN Without(N, x) : Without(N, x)[i] = N[i]
BY DEF Without, Restrict

LEMMA TwiceIsSeen ==
  ASSUME NEW n \in Nat, NEW N, DOMAIN N \subseteq 1 .. n, NEW x \in Range(N)
  PROVE  ~IsInjective(AtEnd(N, x))
<1> DEFINE k == Max(DOMAIN N) + 1
           TT == AtEnd(N, x)
<1>1. /\ k \notin DOMAIN N /\ DOMAIN TT = DOMAIN N \cup {k}
      /\ TT[k] = x /\ \A i \in DOMAIN N : TT[i] = N[i]
  BY AtEndIs, Zenon
<1>2. PICK i \in DOMAIN N : N[i] = x
  BY DEF Range
<1> HIDE DEF k, TT
<1>3. i \in DOMAIN TT /\ k \in DOMAIN TT /\ TT[i] = TT[k] /\ i # k
  BY <1>1, <1>2
<1>4. ~IsInjective(TT)
  BY <1>3, Zenon DEF IsInjective
<1> QED
  BY <1>4 DEF TT

LEMMA LateIsListed ==
  ASSUME NEW n \in Nat, NEW N, DOMAIN N \subseteq 1 .. n, IsInjective(N), NEW x \in Range(N)
  PROVE  IsInjective(AtEnd(Without(N, x), x)) /\ Range(AtEnd(Without(N, x), x)) = Range(N)
<1> DEFINE M == Without(N, x)
           k == Max(DOMAIN M) + 1
           LL == AtEnd(M, x)
<1>1. DOMAIN M = {i \in DOMAIN N : N[i] # x} /\ \A i \in DOMAIN M : M[i] = N[i]
  BY WithoutIs, Zenon
<1>2. DOMAIN M \subseteq 1 .. n
  BY <1>1
<1>3. /\ k \notin DOMAIN M /\ DOMAIN LL = DOMAIN M \cup {k}
      /\ LL[k] = x /\ \A i \in DOMAIN M : LL[i] = M[i]
  BY <1>2, AtEndIs, Zenon
<1> HIDE DEF M, k, LL
<1>4. IsInjective(LL)
  <2> SUFFICES ASSUME NEW i \in DOMAIN LL, NEW j \in DOMAIN LL, LL[i] = LL[j] PROVE i = j
    BY Zenon DEF IsInjective
  <2>1. \A a \in DOMAIN M : a \in DOMAIN N /\ LL[a] = N[a] /\ N[a] # x
    BY <1>1, <1>3
  <2>2. \A a, b \in DOMAIN N : N[a] = N[b] => a = b
    BY Zenon DEF IsInjective
  <2>3. (i \in DOMAIN M \/ i = k) /\ (j \in DOMAIN M \/ j = k)
    BY <1>3
  <2> QED
    BY <1>3, <2>1, <2>2, <2>3, Zenon
<1>5. ASSUME NEW y \in Range(LL) PROVE y \in Range(N)
  <2>1. PICK i \in DOMAIN LL : y = LL[i]
    BY DEF Range
  <2>2. CASE i = k
    BY <1>3, <2>1, <2>2, Zenon
  <2>3. CASE i \in DOMAIN M
    <3>1. i \in DOMAIN N /\ y = N[i]
      BY <1>1, <1>3, <2>1, <2>3
    <3> QED
      BY <3>1 DEF Range
  <2> QED
    BY <1>3, <2>1, <2>2, <2>3
<1>6. ASSUME NEW y \in Range(N) PROVE y \in Range(LL)
  <2>1. CASE y = x
    BY <1>3, <2>1 DEF Range
  <2>2. CASE y # x
    <3>1. PICK i \in DOMAIN N : y = N[i]
      BY DEF Range
    <3>2. i \in DOMAIN M /\ y = M[i]
      BY <1>1, <2>2, <3>1
    <3>3. i \in DOMAIN LL /\ y = LL[i]
      BY <1>3, <3>2
    <3> QED
      BY <3>3 DEF Range
  <2> QED
    BY <2>1, <2>2
<1> QED
  BY <1>4, <1>5, <1>6 DEF M, LL

(* Only of the last of a sequence nothing is seen. *)
LEMMA LateIsSeen ==
  ASSUME NEW n \in Nat, n > 1, NEW N, DOMAIN N = 1 .. n, N = [i \in 1 .. n |-> N[i]], IsInjective(N),
         NEW x \in Range(N)
  PROVE  AtEnd(Without(N, x), x) = N <=> x = N[n]
<1> DEFINE M == Without(N, x)
           d == DOMAIN M
           k == Max(d) + 1
           LL == AtEnd(M, x)
<1>1. d = {i \in 1 .. n : N[i] # x} /\ \A i \in d : M[i] = N[i]
  BY WithoutIs, Zenon
<1>2. d \subseteq 1 .. n
  BY <1>1
<1>3. /\ DOMAIN LL = d \cup {k}
      /\ LL[k] = x /\ \A i \in d : LL[i] = M[i]
      /\ d # {} => k - 1 \in d /\ k \in Nat /\ \A i \in d : i < k
  BY <1>2, AtEndIs, Zenon
<1>4. LL = [i \in d \cup {k} |-> LL[i]]
  BY <1>3 DEF LL, AtEnd, Extended
<1>5. \A a, b \in 1 .. n : N[a] = N[b] => a = b
  BY Zenon DEF IsInjective
<1> HIDE DEF M, d, k, LL
<1>6. CASE x = N[n]
  <2>1. d = 1 .. (n - 1)
    <3>1. \A i \in 1 .. n : N[i] # x <=> i # n
      BY <1>5, <1>6
    <3> QED
      BY <1>1, <3>1
  <2>2. n - 1 \in d
    BY <2>1
  <2>3. k - 1 \in 1 .. (n - 1) /\ k \in Nat /\ n - 1 < k
    BY <1>3, <2>1, <2>2
  <2>4. k = n
    BY <2>3
  <2>5. d \cup {k} = 1 .. n
    BY <2>1, <2>4
  <2>6. \A i \in 1 .. n : LL[i] = N[i]
    BY <1>1, <1>3, <1>6, <2>4, <2>5
  <2> QED
    BY <1>4, <1>6, <2>5, <2>6 DEF LL, M
<1>7. CASE x # N[n]
  <2>1. n \in d
    BY <1>1, <1>7
  <2>2. k \in Nat /\ n < k
    BY <1>3, <2>1
  <2>3. k \notin 1 .. n
    BY <2>2
  <2>4. LL # N
    BY <1>3, <2>3
  <2> QED
    BY <1>7, <2>4 DEF LL, M
<1> QED
  BY <1>6, <1>7

(* The parts of a directory in which one boundary deviates. *)
Deviant == {"missing", "unpublished", "stray", "twice", "late", "value", "errors", "authenticated", "donor"}
NamesLeft(kind, N, x) ==
  CASE kind = "missing" -> Without(N, x)
    [] kind = "twice" -> AtEnd(N, x)
    [] kind = "late" -> AtEnd(Without(N, x), x)
    [] OTHER -> N
DirsLeft(kind, N, x) ==
  CASE kind \in {"missing", "unpublished"} -> Range(N) \ {x}
    [] kind = "stray" -> Range(N) \cup {x}
    [] OTHER -> Range(N)
ErrorsLeft(kind, x) == IF kind = "errors" THEN {x} ELSE {}
AuthenticatedLeft(kind, x) == IF kind = "authenticated" THEN {x} ELSE {}
ValuesLeft(kind, V, x) == IF kind = "value" THEN OtherValue(V, x) ELSE V
DonorsLeft(kind, D, x) == IF kind = "donor" THEN OtherDonor(D, x) ELSE D

LEMMA DeviatingIs ==
  ASSUME NEW N, NEW V, NEW D, NEW x, NEW kind \in Deviant
  PROVE  Deviating(Unspoiled(N, V, D), kind, x)
           = Directory(NamesLeft(kind, N, x), DirsLeft(kind, N, x), ValuesLeft(kind, V, x), ErrorsLeft(kind, x),
                       AuthenticatedLeft(kind, x), DonorsLeft(kind, D, x))
<1> DEFINE E == Range(N)
           R == [names |-> N, dirs |-> E, values |-> V, errors |-> {}, authenticated |-> {}, donors |-> D]
           M == Without(N, x)
           LL == AtEnd(M, x)
           TT == AtEnd(N, x)
           W == OtherValue(V, x)
           U == OtherDonor(D, x)
           Made(k) == Directory(NamesLeft(k, N, x), DirsLeft(k, N, x), ValuesLeft(k, V, x), ErrorsLeft(k, x),
                                 AuthenticatedLeft(k, x), DonorsLeft(k, D, x))
<1>1. Unspoiled(N, V, D) = R
  BY Zenon DEF Unspoiled, Directory
<1>2. R.names = N /\ R.dirs = E /\ R.values = V /\ R.donors = D
  OBVIOUS
<1>3. Deviating(R, "missing", x) = [R EXCEPT !.names = M, !.dirs = E \ {x}]
  BY <1>2 DEF Deviating
<1>4. Deviating(R, "unpublished", x) = [R EXCEPT !.dirs = E \ {x}]
  BY <1>2 DEF Deviating
<1>5. Deviating(R, "stray", x) = [R EXCEPT !.dirs = E \cup {x}]
  BY <1>2 DEF Deviating
<1>6. Deviating(R, "twice", x) = [R EXCEPT !.names = TT]
  BY <1>2 DEF Deviating
<1>7. Deviating(R, "late", x) = [R EXCEPT !.names = LL]
  BY <1>2 DEF Deviating
<1>8. Deviating(R, "value", x) = [R EXCEPT !.values = W]
  BY <1>2 DEF Deviating, OtherValue
<1>9. Deviating(R, "errors", x) = [R EXCEPT !.errors = {x}]
  BY DEF Deviating
<1>10. Deviating(R, "authenticated", x) = [R EXCEPT !.authenticated = {x}]
  BY DEF Deviating
<1>11. Deviating(R, "donor", x) = [R EXCEPT !.donors = U]
  BY <1>2 DEF Deviating, OtherDonor
<1>20. /\ Made("missing") = Directory(M, E \ {x}, V, {}, {}, D)
       /\ Made("unpublished") = Directory(N, E \ {x}, V, {}, {}, D)
       /\ Made("stray") = Directory(N, E \cup {x}, V, {}, {}, D)
  BY DEF NamesLeft, DirsLeft, ValuesLeft, ErrorsLeft, AuthenticatedLeft, DonorsLeft
<1>21. /\ Made("twice") = Directory(TT, E, V, {}, {}, D)
       /\ Made("late") = Directory(LL, E, V, {}, {}, D)
       /\ Made("value") = Directory(N, E, W, {}, {}, D)
  BY DEF NamesLeft, DirsLeft, ValuesLeft, ErrorsLeft, AuthenticatedLeft, DonorsLeft
<1>22. /\ Made("errors") = Directory(N, E, V, {x}, {}, D)
       /\ Made("authenticated") = Directory(N, E, V, {}, {x}, D)
       /\ Made("donor") = Directory(N, E, V, {}, {}, U)
  BY DEF NamesLeft, DirsLeft, ValuesLeft, ErrorsLeft, AuthenticatedLeft, DonorsLeft
<1> HIDE DEF E, M, LL, TT, W, U, Made
<1>13. \A e : [R EXCEPT !.dirs = e] = Directory(N, e, V, {}, {}, D)
  BY DEF Directory
<1>13a. \A l : [R EXCEPT !.names = l] = Directory(l, E, V, {}, {}, D)
  BY DEF Directory
<1>14. \A w : [R EXCEPT !.values = w] = Directory(N, E, w, {}, {}, D)
  BY DEF Directory
<1>14a. \A u : [R EXCEPT !.donors = u] = Directory(N, E, V, {}, {}, u)
  BY DEF Directory
<1>15. [R EXCEPT !.errors = {x}] = Directory(N, E, V, {x}, {}, D)
  BY DEF Directory
<1>16. [R EXCEPT !.authenticated = {x}] = Directory(N, E, V, {}, {x}, D)
  BY DEF Directory
<1> HIDE DEF R
<1>12. [R EXCEPT !.names = M, !.dirs = E \ {x}] = Directory(M, E \ {x}, V, {}, {}, D)
  <2> DEFINE Q == [names |-> M, dirs |-> E, values |-> V, errors |-> {}, authenticated |-> {}, donors |-> D]
  <2>1. [R EXCEPT !.names = M] = Q
    BY DEF R
  <2>2. [Q EXCEPT !.dirs = E \ {x}] = Directory(M, E \ {x}, V, {}, {}, D)
    BY DEF Directory
  <2> HIDE DEF Q
  <2> QED
    BY <2>1, <2>2, Zenon
<1>23. /\ Deviating(R, "missing", x) = Made("missing") /\ Deviating(R, "unpublished", x) = Made("unpublished")
       /\ Deviating(R, "stray", x) = Made("stray")
  BY <1>3, <1>4, <1>5, <1>12, <1>13, <1>20, Zenon
<1>24. /\ Deviating(R, "twice", x) = Made("twice") /\ Deviating(R, "late", x) = Made("late")
       /\ Deviating(R, "value", x) = Made("value")
  BY <1>6, <1>7, <1>8, <1>13a, <1>14, <1>21, Zenon
<1>25. /\ Deviating(R, "errors", x) = Made("errors")
       /\ Deviating(R, "authenticated", x) = Made("authenticated") /\ Deviating(R, "donor", x) = Made("donor")
  BY <1>9, <1>10, <1>11, <1>14a, <1>15, <1>16, <1>22, Zenon
<1>26. Deviating(R, kind, x) = Made(kind)
  BY <1>23, <1>24, <1>25, Zenon DEF Deviant
<1> QED
  BY <1>1, <1>26, Zenon DEF Made

(* What the gate reads of a directory, part by part. *)
Listing(names, dirs, errors, authenticated, expected) ==
  /\ IsInjective(names) /\ Range(names) = expected /\ dirs = expected
  /\ authenticated = {} /\ \A n \in errors : ~HasErrors(n)
Judged == {RangeName(p, n) : p \in -1 .. (spec.tokens - 1), n \in {2, 3}}
DonorsAre(D) ==
  \A p \in -1 .. (spec.tokens - 1) : \A n \in {2, 3} :
    D[RangeName(p, n)].donor_a_kv = RangeName(p, 0) /\ D[RangeName(p, n)].donor_b_kv = RangeName(p, 1)

LEMMA DirectoryRead ==
  ASSUME NEW l, NEW e, NEW v, NEW b, NEW a, NEW d, NEW E
  PROVE  /\ ReadBoundaries(Directory(l, e, v, b, a, d), E) <=> Listing(l, e, b, a, E)
         /\ Directory(l, e, v, b, a, d).names = l /\ Directory(l, e, v, b, a, d).values = v
         /\ ValidDonors(Directory(l, e, v, b, a, d)) <=> DonorsAre(d)
<1> DEFINE X == Directory(l, e, v, b, a, d)
<1>1. /\ X.names = l /\ X.dirs = e /\ X.values = v /\ X.errors = b /\ X.authenticated = a /\ X.donors = d
  BY DEF Directory
<1> HIDE DEF X
<1>2. ReadBoundaries(X, E) <=> Listing(l, e, b, a, E)
  BY <1>1 DEF ReadBoundaries, CheckInventory, Listing
<1>3. ValidDonors(X) <=> DonorsAre(d)
  BY <1>1, Zenon DEF ValidDonors, DonorsAre
<1> QED
  BY <1>1, <1>2, <1>3, Zenon DEF X

(* Of one that deviates in a boundary which the path has. *)
Readable(kind, x, expected) ==
  CASE kind = "stray" -> x \in expected
    [] kind = "errors" -> ~HasErrors(x)
    [] OTHER -> kind \in {"late", "value", "donor"}

LEMMA DeviatingRead ==
  ASSUME NEW n \in Nat, NEW N, DOMAIN N \subseteq 1 .. n, IsInjective(N), NEW V, NEW D,
         NEW kind \in Deviant, NEW x, kind = "stray" \/ x \in Range(N)
  PROVE  /\ ReadBoundaries(Deviating(Unspoiled(N, V, D), kind, x), Range(N)) <=> Readable(kind, x, Range(N))
         /\ Deviating(Unspoiled(N, V, D), kind, x).names = NamesLeft(kind, N, x)
         /\ Deviating(Unspoiled(N, V, D), kind, x).values = ValuesLeft(kind, V, x)
         /\ ValidDonors(Deviating(Unspoiled(N, V, D), kind, x)) <=> DonorsAre(DonorsLeft(kind, D, x))
<1> DEFINE X == Deviating(Unspoiled(N, V, D), kind, x)
           E == Range(N)
           Lists == Listing(NamesLeft(kind, N, x), DirsLeft(kind, N, x), ErrorsLeft(kind, x),
                             AuthenticatedLeft(kind, x), E)
<1>1. X = Directory(NamesLeft(kind, N, x), DirsLeft(kind, N, x), ValuesLeft(kind, V, x), ErrorsLeft(kind, x),
                    AuthenticatedLeft(kind, x), DonorsLeft(kind, D, x))
  BY DeviatingIs
<1> HIDE DEF X
<1>2. /\ ReadBoundaries(X, E) <=> Lists
      /\ X.names = NamesLeft(kind, N, x) /\ X.values = ValuesLeft(kind, V, x)
      /\ ValidDonors(X) <=> DonorsAre(DonorsLeft(kind, D, x))
  <2> DEFINE l == NamesLeft(kind, N, x)
             e == DirsLeft(kind, N, x)
             v == ValuesLeft(kind, V, x)
             b == ErrorsLeft(kind, x)
             a == AuthenticatedLeft(kind, x)
             d == DonorsLeft(kind, D, x)
  <2> HIDE DEF l, e, v, b, a, d, E
  <2>1. X = Directory(l, e, v, b, a, d)
    BY <1>1, Zenon DEF l, e, v, b, a, d
  <2>2. /\ ReadBoundaries(Directory(l, e, v, b, a, d), E) <=> Listing(l, e, b, a, E)
        /\ Directory(l, e, v, b, a, d).names = l /\ Directory(l, e, v, b, a, d).values = v
        /\ ValidDonors(Directory(l, e, v, b, a, d)) <=> DonorsAre(d)
    BY DirectoryRead
  <2>3. /\ ReadBoundaries(X, E) <=> Listing(l, e, b, a, E)
        /\ X.names = l /\ X.values = v
        /\ ValidDonors(X) <=> DonorsAre(d)
    BY <2>1, <2>2, Zenon
  <2> QED
    BY <2>3 DEF l, e, v, b, a, d, E
<1>3. Lists <=> Readable(kind, x, E)
  <2> DEFINE names == NamesLeft(kind, N, x)
             dirs == DirsLeft(kind, N, x)
             errors == ErrorsLeft(kind, x)
             authenticated == AuthenticatedLeft(kind, x)
  <2>1. CASE kind \in {"missing", "unpublished"}
    <3>1. x \in E /\ dirs = E \ {x}
      BY <2>1 DEF DirsLeft
    <3>2. dirs # E
      BY <3>1
    <3>3. ~Readable(kind, x, E)
      BY <2>1 DEF Readable
    <3> QED
      BY <3>2, <3>3, Zenon DEF Listing
  <2>2. CASE kind = "stray"
    <3>1. names = N /\ dirs = E \cup {x} /\ errors = {} /\ authenticated = {}
      BY <2>2 DEF NamesLeft, DirsLeft, ErrorsLeft, AuthenticatedLeft
    <3>2. Readable(kind, x, E) <=> x \in E
      BY <2>2 DEF Readable
    <3>3. E \cup {x} = E <=> x \in E
      OBVIOUS
    <3> HIDE DEF names, dirs, errors, authenticated
    <3>4. Listing(names, dirs, errors, authenticated, E) <=> x \in E
      BY <3>1, <3>3 DEF Listing
    <3> QED
      BY <3>2, <3>4, Zenon DEF names, dirs, errors, authenticated
  <2>3. CASE kind = "twice"
    <3>1. names = AtEnd(N, x) /\ x \in E
      BY <2>3 DEF NamesLeft
    <3>2. ~IsInjective(names)
      BY <3>1, TwiceIsSeen, Zenon
    <3>3. ~Readable(kind, x, E)
      BY <2>3 DEF Readable
    <3> QED
      BY <3>2, <3>3, Zenon DEF Listing
  <2>4. CASE kind = "late"
    <3>1. names = AtEnd(Without(N, x), x) /\ dirs = E /\ errors = {} /\ authenticated = {} /\ x \in E
      BY <2>4 DEF NamesLeft, DirsLeft, ErrorsLeft, AuthenticatedLeft
    <3>2. IsInjective(names) /\ Range(names) = E
      BY <3>1, LateIsListed, Zenon
    <3>3. Readable(kind, x, E)
      BY <2>4 DEF Readable
    <3> HIDE DEF names, dirs, errors, authenticated
    <3>4. Listing(names, dirs, errors, authenticated, E)
      BY <3>1, <3>2 DEF Listing
    <3> QED
      BY <3>3, <3>4, Zenon DEF names, dirs, errors, authenticated
  <2>5. CASE kind \in {"value", "donor"}
    <3>1. names = N /\ dirs = E /\ errors = {} /\ authenticated = {}
      BY <2>5 DEF NamesLeft, DirsLeft, ErrorsLeft, AuthenticatedLeft
    <3>2. Readable(kind, x, E)
      BY <2>5 DEF Readable
    <3> HIDE DEF names, dirs, errors, authenticated
    <3>3. Listing(names, dirs, errors, authenticated, E)
      BY <3>1 DEF Listing
    <3> QED
      BY <3>2, <3>3, Zenon DEF names, dirs, errors, authenticated
  <2>6. CASE kind = "errors"
    <3>1. names = N /\ dirs = E /\ errors = {x} /\ authenticated = {}
      BY <2>6 DEF NamesLeft, DirsLeft, ErrorsLeft, AuthenticatedLeft
    <3>2. Readable(kind, x, E) <=> ~HasErrors(x)
      BY <2>6 DEF Readable
    <3> HIDE DEF names, dirs, errors, authenticated
    <3>3. Listing(names, dirs, errors, authenticated, E) <=> ~HasErrors(x)
      BY <3>1 DEF Listing
    <3> QED
      BY <3>2, <3>3, Zenon DEF names, dirs, errors, authenticated
  <2>7. CASE kind = "authenticated"
    <3>1. authenticated = {x}
      BY <2>7 DEF AuthenticatedLeft
    <3>2. authenticated # {}
      BY <3>1
    <3>3. ~Readable(kind, x, E)
      BY <2>7 DEF Readable
    <3> QED
      BY <3>2, <3>3, Zenon DEF Listing
  <2> QED
    BY <2>1, <2>2, <2>3, <2>4, <2>5, <2>6, <2>7 DEF Deviant
<1> QED
  BY <1>2, <1>3, Zenon DEF X

LEMMA OtherDonorIsSeen ==
  ASSUME NEW D, NEW x \in Judged, x \in DOMAIN D, "donor_a_kv" \in DOMAIN D[x]
  PROVE  ~DonorsAre(OtherDonor(D, x))
<1>1. PICK p \in -1 .. (spec.tokens - 1), n \in {2, 3} : x = RangeName(p, n)
  BY DEF Judged
<1> DEFINE e == Embedding
<1>2. OtherDonor(D, x)[x].donor_a_kv = e
  <2> HIDE DEF e
  <2>1. OtherDonor(D, x) = [D EXCEPT ![x].donor_a_kv = e]
    BY Zenon DEF OtherDonor, e
  <2> QED
    BY <2>1
<1>3. RangeName(p, 0) # e
  BY DEF RangeName, PassName, Name, Single, Embedding
<1> HIDE DEF e
<1>4. OtherDonor(D, x)[RangeName(p, n)].donor_a_kv # RangeName(p, 0)
  BY <1>1, <1>2, <1>3, Zenon
<1> QED
  BY <1>4, Zenon DEF DonorsAre

(* A staged directory that passes by itself. *)
FineStaged(dir, names) == ReadBoundaries(dir, Range(names)) /\ dir.names = names /\ ValidDonors(dir)
FineDonors(D) == DonorsAre(D) /\ \A x \in Judged : x \in DOMAIN D /\ "donor_a_kv" \in DOMAIN D[x]

LEMMA DeviatingStaged ==
  ASSUME NEW n \in Nat, n > 1, NEW N, DOMAIN N = 1 .. n, N = [i \in 1 .. n |-> N[i]], IsInjective(N),
         NEW V, NEW D, FineDonors(D), NEW kind \in Deviant, NEW x, kind = "stray" \/ x \in Range(N),
         kind = "donor" => x \in Judged
  PROVE  FineStaged(Deviating(Unspoiled(N, V, D), kind, x), N)
           <=> /\ Readable(kind, x, Range(N)) /\ kind # "donor"
               /\ kind = "late" => x = N[n]
<1> DEFINE X == Deviating(Unspoiled(N, V, D), kind, x)
           E == Range(N)
<1>1. /\ ReadBoundaries(X, E) <=> Readable(kind, x, E)
      /\ X.names = NamesLeft(kind, N, x)
      /\ ValidDonors(X) <=> DonorsAre(DonorsLeft(kind, D, x))
  <2>1. DOMAIN N \subseteq 1 .. n
    OBVIOUS
  <2> QED
    BY <2>1, DeviatingRead
<1> HIDE DEF X
<1>2. ValidDonors(X) <=> kind # "donor"
  <2>1. CASE kind = "donor"
    <3>1. x \in Judged /\ x \in DOMAIN D /\ "donor_a_kv" \in DOMAIN D[x]
      BY <2>1, Zenon DEF FineDonors
    <3>2. DonorsLeft(kind, D, x) = OtherDonor(D, x)
      BY <2>1, Zenon DEF DonorsLeft
    <3> QED
      BY <1>1, <2>1, <3>1, <3>2, OtherDonorIsSeen, Zenon
  <2>2. CASE kind # "donor"
    <3>1. DonorsLeft(kind, D, x) = D
      BY <2>2, Zenon DEF DonorsLeft
    <3> QED
      BY <1>1, <2>2, <3>1, Zenon DEF FineDonors
  <2> QED
    BY <2>1, <2>2
<1>3. CASE kind \in {"missing", "twice"}
  <2>1. ~Readable(kind, x, E)
    BY <1>3 DEF Readable
  <2> QED
    BY <1>1, <2>1, Zenon DEF FineStaged, X
<1>4. CASE kind = "late"
  <2>1. X.names = AtEnd(Without(N, x), x)
    BY <1>1, <1>4 DEF NamesLeft
  <2>2. X.names = N <=> x = N[n]
    BY <1>4, <2>1, LateIsSeen
  <2> QED
    BY <1>1, <1>2, <1>4, <2>2, Zenon DEF FineStaged, X
<1>5. CASE kind \notin {"missing", "twice", "late"}
  <2>1. X.names = N /\ kind # "late"
    BY <1>1, <1>5 DEF NamesLeft
  <2> QED
    BY <1>1, <1>2, <2>1, Zenon DEF FineStaged, X
<1> QED
  BY <1>3, <1>4, <1>5

-----------------------------------------------------------------------------
(* What there is to judge, when the direct run of an expanded chain is done.*)

LEMMA BundleDonors ==
  ASSUME NEW s, IsBundle(s)
  PROVE  Donors(s) = {0, 1} /\ DonorsBound(s) /\ DonorA(s) = 0 /\ DonorB(s) = 1
<1>1. Layers(s) = 0 .. 3
  BY DEF Layers, IsBundle
<1>2. \A l \in 0 .. 3 : KvDonor(s, l) = IF l < 2 THEN -1 ELSE l - 2
  BY <1>1, Zenon DEF IsBundle
<1>3. KvDonor(s, 0) = -1 /\ KvDonor(s, 1) = -1 /\ KvDonor(s, 2) = 0 /\ KvDonor(s, 3) = 1
  BY <1>2
<1>4. Donors(s) = {0, 1}
  <2>1. \A x : x \in Donors(s) <=> x # -1 /\ \E l \in 0 .. 3 : x = KvDonor(s, l)
    BY <1>1 DEF Donors
  <2>2. \A l \in 0 .. 3 : l = 0 \/ l = 1 \/ l = 2 \/ l = 3
    OBVIOUS
  <2>3. \A x : x \in Donors(s) => x \in {0, 1}
    BY <1>3, <2>1, <2>2, Zenon
  <2>4. 0 \in Donors(s) /\ 1 \in Donors(s)
    <3>1. 2 \in 0 .. 3 /\ 3 \in 0 .. 3 /\ 0 # -1 /\ 1 # -1
      OBVIOUS
    <3> QED
      BY <1>3, <2>1, <3>1, Zenon
  <2> QED
    BY <2>3, <2>4
<1>5. Cardinality({0, 1}) = 2
  <2>1. IsFiniteSet({0}) /\ Cardinality({0}) = 1
    BY FS_Singleton
  <2>2. Cardinality({0} \cup {1}) = 2
    <3>1. 1 \notin {0}
      OBVIOUS
    <3>2. Cardinality({0} \cup {1}) = IF 1 \in {0} THEN Cardinality({0}) ELSE Cardinality({0}) + 1
      BY <2>1, FS_AddElement
    <3> QED
      BY <2>1, <3>1, <3>2
  <2>3. {0} \cup {1} = {0, 1}
    OBVIOUS
  <2> QED
    BY <2>2, <2>3
<1>6. DonorA(s) = 0
  <2>1. DonorA(s) = CHOOSE d \in {0, 1} : \A e \in {0, 1} : d <= e
    BY <1>4 DEF DonorA
  <2> QED
    BY <2>1
<1>7. DonorB(s) = 1
  <2>1. {0, 1} \ {0} = {1}
    OBVIOUS
  <2>2. ~(Cardinality(Donors(s)) < 2) /\ Donors(s) \ {DonorA(s)} = {1}
    BY <1>4, <1>5, <1>6, <2>1
  <2>3. DonorB(s) = CHOOSE d \in {1} : \A e \in {1} : d <= e
    BY <2>2 DEF DonorB
  <2> QED
    BY <2>3
<1> QED
  BY <1>4, <1>5, <1>6, <1>7, Zenon DEF DonorsBound

LEMMA NothingIsWrong ==
  ASSUME NEW r, NEW name, NEW keys
  PROVE  "wrong" \notin DOMAIN Wiring(r, name, keys)
BY DEF Wiring, SeedWiring, MergeWiring, PrepareWiring, EmbeddingWiring, AuxWiring, RangeWiring, FinalizeWiring,
       NoWiring, SelectWiring, EmbedWiring, OutputWiring

ChainNames == [i \in DOMAIN chain |-> chain[i].name]
StagedValues == [n \in StageNames |-> ChainReads(n)]
StagedDonors == [n \in {m \in StageNames : IsRange(m)} |-> [p \in DonorParams |-> StageNamed(n).inputs[p].name]]
InDirect == Restrict(ChainNames, {i \in DOMAIN ChainNames : ChainNames[i] \in DOMAIN records})

LEMMA RightIs ==
  /\ Right("raster") = Unspoiled(ChainNames, StagedValues, StagedDonors)
  /\ Right("native") = Unspoiled(ChainNames, StagedValues, StagedDonors)
  /\ Right("direct") = Unspoiled(InDirect, records, StagedDonors)
BY DEF Right, Unspoiled, Directory, ChainNames, StagedValues, StagedDonors, InDirect

Judging ==
  /\ ImportInv /\ DirectInv /\ step = "done"
  /\ IsBundle(spec.shape) /\ directSpec.tokens = spec.tokens

LEMMA JudgedChain ==
  ASSUME Judging
  PROVE  /\ IsImported /\ phase = "expanded" /\ BundleRun(spec)
         /\ Len(chain) \in Nat /\ Len(chain) > 1 /\ DOMAIN chain = 1 .. Len(chain)
         /\ DOMAIN ChainNames = 1 .. Len(chain) /\ ChainNames = [i \in 1 .. Len(chain) |-> ChainNames[i]]
         /\ IsInjective(ChainNames) /\ Range(ChainNames) = StageNames
         /\ ChainNames = StagedNames(spec.shape, spec.tokens, spec.batches)
         /\ ChainNames[Len(chain)] = chain[Len(chain)].name
<1> USE DEF Judging
<1>1. DirectStarted
  BY DEF DirectInv
<1>2. IsImported /\ phase = "expanded"
  BY <1>1, Zenon DEF DirectStarted
<1>3. IsRun(spec) /\ Listed(spec, EndPlace(spec), Behind(spec), chain)
  BY <1>2, AtTheEnd, Zenon
<1>4. BundleRun(spec)
  BY <1>3, Zenon DEF BundleRun
<1>5. /\ ChainNames = ListOf(spec)
      /\ Len(chain) = ListLength(spec) /\ DOMAIN chain = 1 .. ListLength(spec)
  BY <1>3, <1>4, ChainIsTheList, Zenon DEF ChainNames
<1>6. ListLength(spec) \in Nat /\ ListLength(spec) > 1
  BY <1>4, BundleParts DEF ListLength
<1>7. DOMAIN ChainNames = DOMAIN chain /\ ChainNames = [i \in DOMAIN chain |-> ChainNames[i]]
      /\ \A i \in DOMAIN chain : ChainNames[i] = chain[i].name
  BY DEF ChainNames
<1>8. Complete(spec, chain)
  BY <1>3, ListedIsComplete, Zenon
<1>9. IsInjective(ChainNames)
  BY <1>7, <1>8, Zenon DEF IsInjective, Complete
<1>10. Range(ChainNames) = StageNames
  BY <1>7 DEF Range, StageNames
<1>11. ChainNames = StagedNames(spec.shape, spec.tokens, spec.batches)
  BY <1>4, <1>5, StagedNamesAre, Zenon
<1>12. Len(chain) \in DOMAIN chain
  BY <1>5, <1>6
<1> QED
  BY <1>2, <1>4, <1>5, <1>6, <1>7, <1>9, <1>10, <1>11, <1>12, Zenon

LEMMA JudgedRecords ==
  ASSUME Judging
  PROVE  /\ DOMAIN records = BoundaryNames(spec.shape, spec.tokens) /\ DOMAIN records \subseteq StageNames
         /\ \A x \in DOMAIN records : records[x] = StagedValues[x]
         /\ DOMAIN StagedValues = StageNames
         /\ \A x \in StageNames : \A y : StagedValues[x] # [wrong |-> y]
<1> DEFINE n == directSpec.tokens
           s == spec.shape
<1>0. ImportInv /\ DirectInv /\ step = "done" /\ IsBundle(s) /\ n = spec.tokens
  BY DEF Judging
<1>1. step \in DirectSteps /\ step # "none" /\ step # "refused"
  BY <1>0 DEF DirectSteps
<1>2. IsRun(spec) /\ n \in Nat /\ s.layers \in Nat
  BY <1>0, <1>1, DirectRunIs, Zenon
<1>3. /\ IsImported /\ phase = "expanded"
      /\ Recorded(spec, n, step, pass, layer, records)
  BY <1>0, <1>1, Zenon DEF DirectInv, DirectStarted
<1>5. TurnNow(s, n, step, pass, layer) = <<n, 1, 0>>
  BY <1>0 DEF TurnNow
<1> HIDE DEF s
<1>6. DOMAIN records = BoundaryNames(s, n)
  BY <1>2, <1>3, <1>5, NothingFirst, Zenon DEF Recorded, s
<1>7. /\ \A name : name \in StageNames <=> IsName(spec, name)
      /\ \A name \in StageNames : ChainReads(name) = ReadsOf(spec, name, Behind(spec))
  BY <1>0, <1>3, ChainReadsAre, Zenon
<1>8. DOMAIN StagedValues = StageNames /\ \A x \in StageNames : StagedValues[x] = ChainReads(x)
  BY DEF StagedValues
<1>9. ASSUME NEW x \in DOMAIN records PROVE x \in StageNames /\ records[x] = StagedValues[x]
  <2>1. IsBoundary(s, n, x)
    BY <1>2, <1>6, BoundariesAre, Zenon
  <2>2. n <= spec.tokens
    BY <1>0, <1>2
  <2>3. x \in StageNames
    BY <1>2, <1>7, <2>1, <2>2, BoundaryIsName, Zenon DEF s
  <2>4. records[x] = ReadsOf(spec, x, DirectKeys(n))
    BY <1>0, RecordsAre, Zenon
  <2>5. DirectKeys(n).edge = Behind(spec).edge
    BY <1>0 DEF DirectKeys, Behind, EdgeBefore
  <2>6. ReadsOf(spec, x, DirectKeys(n)) = ReadsOf(spec, x, Behind(spec))
    BY <1>2, <2>1, <2>5, KeysAreTheSame DEF s
  <2> QED
    BY <1>7, <1>8, <2>3, <2>4, <2>6, Zenon
<1>10. ASSUME NEW x \in StageNames, NEW y PROVE StagedValues[x] # [wrong |-> y]
  <2> DEFINE w == Wiring(spec, x, Behind(spec))
             v == ReadsOf(spec, x, Behind(spec))
  <2>1. DOMAIN v = Used(s, x, DOMAIN w)
    BY DEF ReadsOf, s
  <2>2. "wrong" \notin DOMAIN w
    BY NothingIsWrong, Zenon
  <2> HIDE DEF w, v
  <2>3. "wrong" \notin DOMAIN v
    BY <2>1, <2>2, UsedInParams, Zenon
  <2>4. "wrong" \in DOMAIN [wrong |-> y]
    OBVIOUS
  <2>5. v # [wrong |-> y]
    BY <2>3, <2>4, Zenon
  <2> QED
    BY <1>7, <1>8, <2>5, Zenon DEF v
<1> QED
  BY <1>0, <1>6, <1>8, <1>9, <1>10, Zenon DEF s

LEMMA JudgedDonors ==
  ASSUME Judging
  PROVE  FineDonors(StagedDonors) /\ Judged \subseteq StageNames
<1>0. ImportInv /\ DirectInv /\ step = "done" /\ IsBundle(spec.shape)
  BY DEF Judging
<1>1. IsImported /\ phase = "expanded" /\ BundleRun(spec)
  BY JudgedChain, Zenon
<1>2. /\ IsRun(spec) /\ spec.tokens \in Nat /\ spec.shape.layers = 4 /\ FirstShared(spec.shape) = 2
  BY <1>1, BundleParts, Zenon
<1>3. DonorA(spec.shape) = 0 /\ DonorB(spec.shape) = 1
  BY <1>0, BundleDonors, Zenon
<1>4. /\ \A name : name \in StageNames <=> IsName(spec, name)
      /\ \A name \in StageNames : StageNamed(name).inputs = Wiring(spec, name, Behind(spec))
  BY <1>0, <1>1, ChainReadsAre, Zenon
<1>5. ASSUME NEW p \in -1 .. (spec.tokens - 1), NEW n \in {2, 3}
      PROVE  /\ RangeName(p, n) \in StageNames /\ IsRange(RangeName(p, n))
             /\ StagedDonors[RangeName(p, n)].donor_a_kv = RangeName(p, 0)
             /\ StagedDonors[RangeName(p, n)].donor_b_kv = RangeName(p, 1)
             /\ RangeName(p, n) \in DOMAIN StagedDonors
             /\ "donor_a_kv" \in DOMAIN StagedDonors[RangeName(p, n)]
  <2> DEFINE x == RangeName(p, n)
             w == RangeWiring(spec, p, n)
  <2>1. n \in 0 .. (spec.shape.layers - 1)
    BY <1>2
  <2>2. p = -1 \/ (p \in Nat /\ p \in 0 .. (spec.tokens - 1))
    BY <1>2
  <2>3. \/ x = Name("prefill_range", 0, n)
        \/ x = Name("decode_range", p, n) /\ p \in 0 .. (spec.tokens - 1)
    BY <2>2, PassNamesAre, Zenon
  <2>4. IsRange(x)
    BY <2>3 DEF IsRange, Name
  <2>5. OneOf(spec, x)
    <3>1. CASE x = Name("prefill_range", 0, n)
      <4> HIDE DEF x
      <4> QED
        BY <2>1, <3>1, Zenon DEF OneOf
    <3>2. CASE x = Name("decode_range", p, n) /\ p \in 0 .. (spec.tokens - 1)
      <4> HIDE DEF x
      <4>1. InPass(spec, p, x)
        BY <2>1, <3>2, Zenon DEF InPass
      <4> QED
        BY <3>2, <4>1, Zenon DEF OneOf
    <3> QED
      BY <2>3, <3>1, <3>2
  <2>6. x \in StageNames
    BY <1>2, <1>4, <2>5, NamesOfRun, Zenon
  <2>7. Wiring(spec, x, Behind(spec)) = w
    <3>1. CASE p = -1
      BY <3>1, PassNamesAre, WiringOf
    <3>2. CASE p \in Nat
      BY <3>2, PassNamesAre, WiringOf
    <3> QED
      BY <2>2, <3>1, <3>2
  <2>8. w["donor_a_kv"].name = RangeName(p, 0) /\ w["donor_b_kv"].name = RangeName(p, 1)
    <3>1. ~(n < FirstShared(spec.shape))
      BY <1>2
    <3> QED
      BY <1>3, <3>1 DEF RangeWiring, DonorOf, Link
  <2> HIDE DEF x, w
  <2>9. StageNamed(x).inputs = w
    BY <1>4, <2>6, <2>7, Zenon
  <2>10. /\ x \in DOMAIN StagedDonors /\ "donor_a_kv" \in DOMAIN StagedDonors[x]
         /\ StagedDonors[x]["donor_a_kv"] = w["donor_a_kv"].name
         /\ StagedDonors[x]["donor_b_kv"] = w["donor_b_kv"].name
    BY <2>4, <2>6, <2>9 DEF StagedDonors, DonorParams
  <2> QED
    BY <2>4, <2>6, <2>8, <2>10 DEF x
<1>6. DonorsAre(StagedDonors)
  BY <1>5, Zenon DEF DonorsAre
<1>7. ASSUME NEW x \in Judged
      PROVE  x \in StageNames /\ x \in DOMAIN StagedDonors /\ "donor_a_kv" \in DOMAIN StagedDonors[x]
  <2>1. PICK p \in -1 .. (spec.tokens - 1), n \in {2, 3} : x = RangeName(p, n)
    BY DEF Judged
  <2> QED
    BY <1>5, <2>1, Zenon
<1> QED
  BY <1>6, <1>7 DEF FineDonors

-----------------------------------------------------------------------------
(* The verdict on each deviation.                                           *)

LEMMA JudgedInDirect ==
  ASSUME Judging
  PROVE  DOMAIN InDirect \subseteq 1 .. Len(chain) /\ IsInjective(InDirect) /\ Range(InDirect) = DOMAIN records
<1>1. /\ DOMAIN ChainNames = 1 .. Len(chain) /\ IsInjective(ChainNames) /\ Range(ChainNames) = StageNames
      /\ DOMAIN records \subseteq StageNames
  BY JudgedChain, JudgedRecords, Zenon
<1> DEFINE D == DOMAIN records
           I == DOMAIN InDirect
<1>2. I = {i \in DOMAIN ChainNames : ChainNames[i] \in D} /\ \A i \in I : InDirect[i] = ChainNames[i]
  BY DEF InDirect, Restrict
<1> HIDE DEF D, I
<1>3. I \subseteq 1 .. Len(chain)
  BY <1>1, <1>2
<1>4. IsInjective(InDirect)
  <2>1. \A i \in I : i \in DOMAIN ChainNames
    BY <1>2
  <2> QED
    BY <1>1, <1>2, <2>1, Zenon DEF IsInjective, I
<1>5. ASSUME NEW x \in D PROVE \E i \in I : InDirect[i] = x
  <2>1. x \in Range(ChainNames)
    BY <1>1 DEF D
  <2>2. PICK i \in DOMAIN ChainNames : ChainNames[i] = x
    BY <2>1 DEF Range
  <2> QED
    BY <1>2, <2>2
<1>6. \A i \in I : InDirect[i] \in D
  BY <1>2
<1>7. Range(InDirect) = D
  BY <1>5, <1>6 DEF Range, I
<1> QED
  BY <1>3, <1>4, <1>7 DEF I, D

SameValues(S, a, b) == \A n \in S : a.values[n] = b.values[n]

LEMMA RunCaseIs ==
  ASSUME Judging, NEW a, NEW b, NEW c
  PROVE  RunCase(a, b, c) <=>
           /\ FineStaged(a, ChainNames) /\ FineStaged(b, ChainNames) /\ ReadBoundaries(c, DOMAIN records)
           /\ SameValues(StageNames, a, b) /\ SameValues(DOMAIN records, b, c)
<1> DEFINE LL == StagedNames(Shape, spec.tokens, spec.batches)
           BB == BoundaryNames(Shape, spec.tokens)
<1>1. LL = ChainNames /\ Range(ChainNames) = StageNames
  BY JudgedChain, Zenon DEF Shape
<1>2. BB = DOMAIN records /\ DOMAIN records \subseteq StageNames
  BY JudgedRecords, Zenon DEF Shape
<1>3. RunCase(a, b, c) <=>
        /\ \A dir \in {a, b} : ReadBoundaries(dir, Range(LL)) /\ dir.names = LL /\ ValidDonors(dir)
        /\ ReadBoundaries(c, BB)
        /\ \A n \in Range(LL) : a.values[n] = b.values[n]
        /\ \A n \in Range(LL) \cap BB : b.values[n] = c.values[n]
  BY Zenon DEF RunCase
<1> HIDE DEF LL, BB
<1>4. (\A dir \in {a, b} : ReadBoundaries(dir, Range(LL)) /\ dir.names = LL /\ ValidDonors(dir))
        <=> FineStaged(a, LL) /\ FineStaged(b, LL)
  BY DEF FineStaged
<1>5. Range(LL) \cap BB = DOMAIN records
  BY <1>1, <1>2
<1> QED
  BY <1>1, <1>2, <1>3, <1>4, <1>5, Zenon DEF SameValues

(* The deviations of the cases. *)
IsDeviation(d) ==
  /\ d.paths \subseteq Paths
  /\ d.paths # {} => d.kind \in Deviant /\ d.name \in StageNames
  /\ d.kind = "donor" => d.name \in Judged /\ "direct" \notin d.paths

LEMMA DeviationsAre ==
  ASSUME Judging, NEW d \in {NoDeviation} \cup Deviations
  PROVE  IsDeviation(d)
<1>1. CASE d = NoDeviation
  BY <1>1 DEF NoDeviation, IsDeviation
<1>2. CASE d \in Deviations
  <2>1. Deviations = [kind : {"missing", "unpublished", "stray", "twice", "late", "value", "errors", "authenticated"},
                      paths : {{"raster"}, {"native"}, {"direct"}, {"raster", "native"}, Paths},
                      name : StageNames]
                     \cup [kind : {"donor"}, paths : {{"raster"}, {"native"}, {"raster", "native"}}, name : Judged]
    BY DEF Deviations, Judged
  <2>2. Judged \subseteq StageNames
    BY JudgedDonors
  <2>3. CASE d \in [kind : {"donor"}, paths : {{"raster"}, {"native"}, {"raster", "native"}}, name : Judged]
    <3>1. d.kind = "donor" /\ d.paths \in {{"raster"}, {"native"}, {"raster", "native"}} /\ d.name \in Judged
      BY <2>3
    <3>2. d.paths \subseteq Paths /\ "direct" \notin d.paths
      BY <3>1 DEF Paths
    <3>3. d.kind \in Deviant
      BY <3>1 DEF Deviant
    <3> QED
      BY <2>2, <3>1, <3>2, <3>3 DEF IsDeviation
  <2>4. CASE d \in [kind : {"missing", "unpublished", "stray", "twice", "late", "value", "errors", "authenticated"},
                    paths : {{"raster"}, {"native"}, {"direct"}, {"raster", "native"}, Paths},
                    name : StageNames]
    <3>1. /\ d.kind \in {"missing", "unpublished", "stray", "twice", "late", "value", "errors", "authenticated"}
          /\ d.paths \in {{"raster"}, {"native"}, {"direct"}, {"raster", "native"}, Paths}
          /\ d.name \in StageNames
      BY <2>4
    <3>2. d.paths \subseteq Paths
      BY <3>1 DEF Paths
    <3>3. d.kind \in Deviant /\ d.kind # "donor"
      BY <3>1 DEF Deviant
    <3> QED
      BY <3>1, <3>2, <3>3, Zenon DEF IsDeviation
  <2> QED
    BY <1>2, <2>1, <2>3, <2>4, Zenon
<1> QED
  BY <1>1, <1>2

(* A deviation that shows in what a path left, its values aside. *)
Shows(d, path) ==
  CASE d.kind = "stray" -> ~Has(path, d.name)
    [] d.kind = "late" -> path # "direct" /\ d.name # chain[Len(chain)].name
    [] d.kind = "errors" -> Has(path, d.name) /\ HasErrors(d.name)
    [] d.kind = "value" -> FALSE
    [] OTHER -> Has(path, d.name)
Mixed(d, path) == Has(path, d.name) /\ \E other \in Paths \ d.paths : Has(other, d.name)
Wrong(d, path) == IF d.kind = "value" THEN Mixed(d, path) ELSE Shows(d, path)
ValuesNowLeft(d, path, vals) ==
  IF path \in d.paths /\ d.kind = "value" /\ Has(path, d.name) THEN OtherValue(vals, d.name) ELSE vals

LEMMA StagedLeft ==
  ASSUME Judging, NEW d, IsDeviation(d), NEW path \in {"raster", "native"}
  PROVE  /\ FineStaged(Left(path, d), ChainNames) <=> (path \in d.paths => ~Shows(d, path))
         /\ Left(path, d).values = ValuesNowLeft(d, path, StagedValues)
<1> DEFINE U == Unspoiled(ChainNames, StagedValues, StagedDonors)
           x == d.name
           E == Range(ChainNames)
<1>1. Right(path) = U /\ Has(path, x)
  BY RightIs DEF Has
<1>2. /\ Len(chain) \in Nat /\ Len(chain) > 1
      /\ DOMAIN ChainNames = 1 .. Len(chain) /\ ChainNames = [i \in 1 .. Len(chain) |-> ChainNames[i]]
      /\ IsInjective(ChainNames) /\ E = StageNames
      /\ ChainNames[Len(chain)] = chain[Len(chain)].name /\ FineDonors(StagedDonors)
  BY JudgedChain, JudgedDonors, Zenon
<1>3. U = Directory(ChainNames, E, StagedValues, {}, {}, StagedDonors)
  BY Zenon DEF Unspoiled
<1>4. U.dirs = E
  BY <1>3 DEF Directory
<1> HIDE DEF U, E
<1>5. CASE path \notin d.paths
  <2>1. Left(path, d) = U
    BY <1>1, <1>5, Zenon DEF Left
  <2>2. Listing(ChainNames, E, {}, {}, E)
    BY <1>2 DEF Listing, E
  <2>3. ReadBoundaries(U, E) /\ U.names = ChainNames /\ U.values = StagedValues /\ ValidDonors(U)
    <3>1. DonorsAre(StagedDonors)
      BY <1>2, Zenon DEF FineDonors
    <3> QED
      BY <1>3, <2>2, <3>1, DirectoryRead
  <2>4. ValuesNowLeft(d, path, StagedValues) = StagedValues
    BY <1>5, Zenon DEF ValuesNowLeft
  <2> QED
    BY <1>5, <2>1, <2>3, <2>4, Zenon DEF FineStaged, E
<1>6. CASE path \in d.paths
  <2>1. d.kind \in Deviant /\ x \in E /\ (d.kind = "donor" => x \in Judged)
    BY <1>2, <1>6 DEF IsDeviation
  <2>2. Left(path, d) = Deviating(U, d.kind, x)
    BY <1>1, <1>4, <1>6, <2>1, Zenon DEF Left
  <2> DEFINE k == d.kind
             X == Deviating(U, k, x)
  <2>3. X.values = ValuesLeft(k, StagedValues, x)
    <3>1. DOMAIN ChainNames \subseteq 1 .. Len(chain)
      BY <1>2
    <3> QED
      BY <1>2, <2>1, <3>1, DeviatingRead DEF U, E
  <2>4. FineStaged(X, ChainNames) <=>
          /\ Readable(k, x, E) /\ k # "donor"
          /\ k = "late" => x = ChainNames[Len(chain)]
    BY <1>2, <2>1, DeviatingStaged DEF U, E
  <2> HIDE DEF X, x
  <2>5. (Readable(k, x, E) /\ k # "donor" /\ (k = "late" => x = ChainNames[Len(chain)])) <=> ~Shows(d, path)
    BY <1>1, <1>2, <2>1 DEF Readable, Shows, Deviant, x
  <2>6. ValuesLeft(k, StagedValues, x) = ValuesNowLeft(d, path, StagedValues)
    BY <1>1, <1>6, Zenon DEF ValuesLeft, ValuesNowLeft, x
  <2> QED
    BY <1>6, <2>2, <2>3, <2>4, <2>5, <2>6, Zenon DEF X, x
<1> QED
  BY <1>5, <1>6

LEMMA DirectLeft ==
  ASSUME Judging, NEW d, IsDeviation(d)
  PROVE  /\ ReadBoundaries(Left("direct", d), DOMAIN records) <=> ("direct" \in d.paths => ~Shows(d, "direct"))
         /\ Left("direct", d).values = ValuesNowLeft(d, "direct", records)
<1> DEFINE U == Unspoiled(InDirect, records, StagedDonors)
           x == d.name
           E == Range(InDirect)
<1>1. Right("direct") = U
  BY RightIs, Zenon
<1>2. /\ Len(chain) \in Nat
      /\ DOMAIN InDirect \subseteq 1 .. Len(chain) /\ IsInjective(InDirect) /\ E = DOMAIN records
  BY JudgedChain, JudgedInDirect, Zenon
<1>3. U = Directory(InDirect, E, records, {}, {}, StagedDonors)
  BY Zenon DEF Unspoiled
<1>4. U.dirs = E
  BY <1>3 DEF Directory
<1>5. Has("direct", x) <=> x \in E
  <2>1. E = BoundaryNames(Shape, spec.tokens)
    BY <1>2, JudgedRecords, Zenon DEF Shape
  <2> QED
    BY <2>1 DEF Has
<1> HIDE DEF U, E
<1>6. CASE ~("direct" \in d.paths /\ (d.kind = "stray" \/ x \in E))
  <2>1. Left("direct", d) = U
    BY <1>1, <1>4, <1>6, Zenon DEF Left
  <2>2. Listing(InDirect, E, {}, {}, E)
    BY <1>2 DEF Listing, E
  <2>3. ReadBoundaries(U, E) /\ U.values = records
    BY <1>3, <2>2, DirectoryRead
  <2>4. ValuesNowLeft(d, "direct", records) = records
    BY <1>5, <1>6 DEF ValuesNowLeft
  <2>5. "direct" \in d.paths => ~Shows(d, "direct")
    BY <1>5, <1>6 DEF Shows
  <2> QED
    BY <1>2, <2>1, <2>3, <2>4, <2>5, Zenon
<1>7. CASE "direct" \in d.paths /\ (d.kind = "stray" \/ x \in E)
  <2>1. d.kind \in Deviant /\ d.kind # "donor"
    BY <1>7 DEF IsDeviation
  <2>2. Left("direct", d) = Deviating(U, d.kind, x)
    BY <1>1, <1>4, <1>7, Zenon DEF Left
  <2> DEFINE k == d.kind
             X == Deviating(U, k, x)
  <2>3. /\ ReadBoundaries(X, E) <=> Readable(k, x, E)
        /\ X.values = ValuesLeft(k, records, x)
    BY <1>2, <1>7, <2>1, DeviatingRead DEF U, E
  <2> HIDE DEF X, x
  <2>5. Readable(k, x, E) <=> ~Shows(d, "direct")
    BY <1>5, <1>7, <2>1 DEF Readable, Shows, Deviant, x
  <2>6. ValuesLeft(k, records, x) = ValuesNowLeft(d, "direct", records)
    BY <1>5, <1>7 DEF ValuesLeft, ValuesNowLeft, x
  <2> QED
    BY <1>2, <1>7, <2>2, <2>3, <2>5, <2>6, Zenon DEF X, x
<1> QED
  BY <1>6, <1>7

Agree(S, V, W) == \A n \in S : V[n] = W[n]
Spoilable(S, V, W, x) ==
  /\ S \subseteq DOMAIN V /\ S \subseteq DOMAIN W /\ Agree(S, V, W)
  /\ x \in S => V[x] # [wrong |-> x]

LEMMA OtherValuesAgree ==
  ASSUME NEW S, NEW V, NEW W, NEW x, Spoilable(S, V, W, x)
  PROVE  /\ Agree(S, V, W) /\ Agree(S, OtherValue(V, x), OtherValue(W, x))
         /\ Agree(S, OtherValue(V, x), W) <=> x \notin S
         /\ Agree(S, V, OtherValue(W, x)) <=> x \notin S
<1> DEFINE w == [wrong |-> x]
           OV == OtherValue(V, x)
           OW == OtherValue(W, x)
<1>0. /\ S \subseteq DOMAIN V /\ S \subseteq DOMAIN W /\ \A n \in S : V[n] = W[n]
      /\ x \in S => V[x] # w
  BY Zenon DEF Spoilable, Agree
<1>1. \A n \in S : OV[n] = (IF n = x THEN w ELSE V[n]) /\ OW[n] = (IF n = x THEN w ELSE W[n])
  BY <1>0 DEF OtherValue
<1> HIDE DEF w, OV, OW
<1>3. (\A n \in S : V[n] = W[n]) /\ (\A n \in S : OV[n] = OW[n])
  BY <1>0, <1>1
<1>4. (\A n \in S : OV[n] = W[n]) <=> x \notin S
  BY <1>0, <1>1
<1>5. (\A n \in S : V[n] = OW[n]) <=> x \notin S
  BY <1>0, <1>1
<1> QED
  BY <1>3, <1>4, <1>5, Zenon DEF OV, OW, Agree

(* The verdict on a case: what is wrong in it is seen, and nothing else is. *)
LEMMA VerdictIs ==
  ASSUME Judging, NEW d, IsDeviation(d)
  PROVE  RunCase(Left("raster", d), Left("native", d), Left("direct", d))
           <=> \A path \in d.paths : ~Wrong(d, path)
<1> DEFINE a == Left("raster", d)
           b == Left("native", d)
           c == Left("direct", d)
           x == d.name
           R == DOMAIN records
           Va == ValuesNowLeft(d, "raster", StagedValues)
           Vb == ValuesNowLeft(d, "native", StagedValues)
           Vc == ValuesNowLeft(d, "direct", records)
<1>1. /\ FineStaged(a, ChainNames) <=> ("raster" \in d.paths => ~Shows(d, "raster"))
      /\ FineStaged(b, ChainNames) <=> ("native" \in d.paths => ~Shows(d, "native"))
      /\ a.values = Va /\ b.values = Vb
  BY StagedLeft
<1>2. /\ ReadBoundaries(c, R) <=> ("direct" \in d.paths => ~Shows(d, "direct"))
      /\ c.values = Vc
  BY DirectLeft
<1>3. RunCase(a, b, c) <=>
        /\ FineStaged(a, ChainNames) /\ FineStaged(b, ChainNames) /\ ReadBoundaries(c, R)
        /\ SameValues(StageNames, a, b) /\ SameValues(R, b, c)
  BY RunCaseIs
<1> HIDE DEF a, b, c
<1>4. /\ R \subseteq StageNames /\ \A n \in R : records[n] = StagedValues[n]
      /\ DOMAIN StagedValues = StageNames
      /\ \A n \in StageNames : \A y : StagedValues[n] # [wrong |-> y]
      /\ R = BoundaryNames(spec.shape, spec.tokens)
  BY JudgedRecords, Zenon
<1>5. Has("raster", x) /\ Has("native", x) /\ (Has("direct", x) <=> x \in R)
  BY <1>4, Zenon DEF Has, Shape
<1>6. d.paths \subseteq Paths
  BY Zenon DEF IsDeviation
<1> DEFINE ra == "raster" \in d.paths
           na == "native" \in d.paths
           di == "direct" \in d.paths
<1>8. CASE d.kind # "value"
  <2>1. Va = StagedValues /\ Vb = StagedValues /\ Vc = records
    BY <1>8, Zenon DEF ValuesNowLeft
  <2>2. SameValues(StageNames, a, b) /\ SameValues(R, b, c)
    BY <1>1, <1>2, <1>4, <2>1, Zenon DEF SameValues
  <2>3. \A path \in d.paths : ~Wrong(d, path) <=> ~Shows(d, path)
    BY <1>8, Zenon DEF Wrong
  <2>4. (\A path \in d.paths : ~Shows(d, path)) <=>
          /\ ra => ~Shows(d, "raster")
          /\ na => ~Shows(d, "native")
          /\ di => ~Shows(d, "direct")
    BY <1>6 DEF Paths
  <2>5. (\A path \in d.paths : ~Wrong(d, path)) <=> (\A path \in d.paths : ~Shows(d, path))
    BY <2>3, Zenon
  <2>6. RunCase(a, b, c) <=> \A path \in d.paths : ~Shows(d, path)
    BY <1>1, <1>2, <1>3, <2>2, <2>4, Zenon
  <2> QED
    BY <2>5, <2>6, Zenon DEF a, b, c
<1>9. CASE d.kind = "value"
  <2>0. d.paths # {} => x \in StageNames
    BY Zenon DEF IsDeviation
  <2>1. /\ Va = IF ra THEN OtherValue(StagedValues, x) ELSE StagedValues
        /\ Vb = IF na THEN OtherValue(StagedValues, x) ELSE StagedValues
        /\ Vc = IF di /\ x \in R THEN OtherValue(records, x) ELSE records
    BY <1>5, <1>9, Zenon DEF ValuesNowLeft
  <2>2. \A path \in Paths : ~Shows(d, path)
    BY <1>9 DEF Shows
  <2>3. RunCase(a, b, c) <=> SameValues(StageNames, a, b) /\ SameValues(R, b, c)
    BY <1>1, <1>2, <1>3, <2>2, Zenon DEF Paths
  <2> HIDE DEF Va, Vb, Vc, x, R
  <2>4. SameValues(StageNames, a, b) <=> (x \in StageNames => (ra <=> na))
    <3>1. Spoilable(StageNames, StagedValues, StagedValues, x)
      BY <1>4, Zenon DEF Spoilable, Agree
    <3>2. /\ Agree(StageNames, StagedValues, StagedValues)
          /\ Agree(StageNames, OtherValue(StagedValues, x), OtherValue(StagedValues, x))
          /\ Agree(StageNames, OtherValue(StagedValues, x), StagedValues) <=> x \notin StageNames
          /\ Agree(StageNames, StagedValues, OtherValue(StagedValues, x)) <=> x \notin StageNames
      BY <3>1, OtherValuesAgree, Zenon
    <3>3. SameValues(StageNames, a, b) <=> Agree(StageNames, Va, Vb)
      BY <1>1, Zenon DEF SameValues, Agree
    <3> QED
      BY <2>1, <3>2, <3>3, Zenon
  <2>5. SameValues(R, b, c) <=> (x \in R => (na <=> di))
    <3>1. Spoilable(R, StagedValues, records, x)
      <4>1. R \subseteq DOMAIN StagedValues /\ R \subseteq DOMAIN records
        BY <1>4 DEF R
      <4> QED
        BY <1>4, <4>1, Zenon DEF Spoilable, Agree, R
    <3>2. /\ Agree(R, StagedValues, records)
          /\ Agree(R, OtherValue(StagedValues, x), OtherValue(records, x))
          /\ Agree(R, OtherValue(StagedValues, x), records) <=> x \notin R
          /\ Agree(R, StagedValues, OtherValue(records, x)) <=> x \notin R
      BY <3>1, OtherValuesAgree, Zenon
    <3>3. SameValues(R, b, c) <=> Agree(R, Vb, Vc)
      BY <1>1, <1>2, Zenon DEF SameValues, Agree
    <3> QED
      BY <2>1, <3>2, <3>3, Zenon
  <2>6. ASSUME NEW path \in d.paths
        PROVE  Wrong(d, path) <=> Has(path, x) /\ (~ra \/ ~na \/ (~di /\ x \in R))
    <3>1. (\E other \in Paths \ d.paths : Has(other, x)) <=> (~ra \/ ~na \/ (~di /\ x \in R))
      BY <1>5 DEF Paths
    <3> QED
      BY <1>9, <3>1, Zenon DEF Wrong, Mixed, x
  <2>7. (\A path \in d.paths : ~Wrong(d, path)) <=>
          /\ ra => ~(~ra \/ ~na \/ (~di /\ x \in R))
          /\ na => ~(~ra \/ ~na \/ (~di /\ x \in R))
          /\ di /\ x \in R => ~(~ra \/ ~na \/ (~di /\ x \in R))
    <3> DEFINE lone == ~ra \/ ~na \/ (~di /\ x \in R)
    <3>1. \A path \in d.paths : path = "raster" \/ path = "native" \/ path = "direct"
      BY <1>6 DEF Paths
    <3>2. \A path \in d.paths : Wrong(d, path) <=> Has(path, x) /\ lone
      BY <2>6, Zenon
    <3> HIDE DEF lone
    <3>3. (\A path \in d.paths : ~Wrong(d, path)) <=> (ra => ~lone) /\ (na => ~lone) /\ (di /\ x \in R => ~lone)
      BY <1>5, <3>1, <3>2, Zenon DEF x
    <3> QED
      BY <3>3, Zenon DEF lone
  <2>8. ra \/ na \/ di => x \in StageNames
    BY <2>0 DEF x
  <2> HIDE DEF ra, na, di
  <2>9. RunCase(a, b, c) <=> (x \in StageNames => (ra <=> na)) /\ (x \in R => (na <=> di))
    BY <2>3, <2>4, <2>5, Zenon
  <2>10. RunCase(a, b, c) <=> \A path \in d.paths : ~Wrong(d, path)
    BY <2>7, <2>8, <2>9, Zenon
  <2> QED
    BY <2>10, Zenon DEF a, b, c
<1> QED
  BY <1>8, <1>9

-----------------------------------------------------------------------------
(* The verdict stands.                                                      *)

BundleInv == (IsImported => DonorsBound(spec.shape)) => ImportInv /\ DirectInv
VerdictInv == verdict # "none" => phase = "expanded" /\ GateIsExact

LEMMA WrongIs ==
  \A path : IsWrongIn(path) <=> Wrong(deviation, path)
BY DEF IsWrongIn, Wrong, Shows, Mixed

LEMMA WrongStays ==
  ASSUME spec' = spec, chain' = chain
  PROVE  \A path : IsWrongIn(path)' <=> Wrong(deviation', path)
<1>1. \A path, name : Has(path, name)' <=> Has(path, name)
  BY DEF Has, Shape
<1> QED
  BY <1>1 DEF IsWrongIn, Wrong, Shows, Mixed

LEMMA SpecStays == [Next]_vars => spec' = spec
BY DEF Next, vars, expansionVars, NextExpansion, PushStage, PushRepeated, NextPart, NextIteration, EndRepeat, FailExpansion,
       ResolveExports, NextDirect, Start, Prompt, Embed, Aux, RangeStage, Finalize, DecodeInit, Select, EmbedToken,
       Output, Finish, At, Judge, NextInfer

LEMMA NextBundles == BundleInv /\ [Next]_vars => BundleInv'
<1> SUFFICES ASSUME BundleInv, [Next]_vars, (IsImported => DonorsBound(spec.shape))'
             PROVE  (ImportInv /\ DirectInv)'
  BY DEF BundleInv
<1>1. spec' = spec
  BY SpecStays, Zenon
<1>2. IsImported => DonorsBound(spec.shape)
  BY <1>1 DEF IsImported, ByHand, DonorsBound, Donors, Layers, KvDonor, FirstShared
<1>3. ImportInv /\ DirectInv
  BY <1>2, Zenon DEF BundleInv
<1> QED
  BY <1>3, NextImports, NextKeepsDirect, Zenon

LEMMA JudgeIsExact ==
  ASSUME BundleInv, Judge
  PROVE  VerdictInv'
<1>1. /\ step = "done" /\ IsBundle(spec.shape) /\ directSpec.tokens = spec.tokens
      /\ deviation' \in {NoDeviation} \cup Deviations
      /\ verdict' = IF RunCase(Left("raster", deviation'), Left("native", deviation'), Left("direct", deviation'))
                    THEN "passed" ELSE "failed"
      /\ UNCHANGED expansionVars
  BY Zenon DEF Judge, Shape
<1>2. Judging
  <2>1. DonorsBound(spec.shape)
    BY <1>1, BundleDonors, Zenon
  <2> QED
    BY <1>1, <2>1, Zenon DEF BundleInv, Judging
<1>3. IsDeviation(deviation')
  BY <1>1, <1>2, DeviationsAre, Zenon
<1>4. RunCase(Left("raster", deviation'), Left("native", deviation'), Left("direct", deviation'))
        <=> \A path \in deviation'.paths : ~Wrong(deviation', path)
  BY <1>2, <1>3, VerdictIs, Zenon
<1>5. spec' = spec /\ chain' = chain /\ phase' = phase
  BY <1>1 DEF expansionVars
<1>6. \A path : IsWrongIn(path)' <=> Wrong(deviation', path)
  BY <1>5, WrongStays, Zenon
<1>7. verdict' = "passed" <=> \A path \in deviation'.paths : ~Wrong(deviation', path)
  BY <1>1, <1>4
<1>8. GateIsExact'
  BY <1>6, <1>7, Zenon DEF GateIsExact
<1>9. phase' = "expanded"
  BY <1>2, <1>5, JudgedChain, Zenon
<1> QED
  BY <1>8, <1>9, Zenon DEF VerdictInv

LEMMA VerdictStands ==
  ASSUME VerdictInv, UNCHANGED gateVars, phase = "expand" \/ UNCHANGED expansionVars
  PROVE  VerdictInv'
<1>1. verdict' = verdict /\ deviation' = deviation
  BY DEF gateVars
<1> SUFFICES ASSUME verdict # "none" PROVE phase' = "expanded" /\ GateIsExact'
  BY <1>1 DEF VerdictInv
<1>2. phase = "expanded" /\ GateIsExact
  BY Zenon DEF VerdictInv
<1>3. spec' = spec /\ chain' = chain /\ phase' = phase
  BY <1>2 DEF expansionVars
<1>4. \A path : IsWrongIn(path)' <=> Wrong(deviation', path)
  BY <1>3, WrongStays, Zenon
<1>5. verdict = "passed" <=> \A path \in deviation.paths : ~Wrong(deviation, path)
  BY <1>2, WrongIs, Zenon DEF GateIsExact
<1>6. GateIsExact'
  BY <1>1, <1>4, <1>5, Zenon DEF GateIsExact
<1> QED
  BY <1>2, <1>3, <1>6, Zenon

LEMMA NextKeepsVerdict == BundleInv /\ VerdictInv /\ [Next]_vars => VerdictInv'
<1> SUFFICES ASSUME BundleInv, VerdictInv, [Next]_vars PROVE VerdictInv'
  OBVIOUS
<1>1. CASE NextExpansion /\ UNCHANGED <<directVars, gateVars, inferVars>>
  <2>1. phase = "expand"
    BY <1>1 DEF NextExpansion, PushStage, PushRepeated, NextPart, NextIteration, EndRepeat, FailExpansion,
                ResolveExports, InPart, AtItem
  <2> QED
    BY <1>1, <2>1, VerdictStands
<1>2. CASE NextInfer /\ UNCHANGED <<directVars, gateVars>>
  <2>1. UNCHANGED expansionVars
    BY <1>2 DEF NextInfer
  <2> QED
    BY <1>2, <2>1, VerdictStands
<1>3. CASE NextDirect /\ UNCHANGED <<gateVars, inferVars>>
  <2>1. UNCHANGED expansionVars
    BY <1>3 DEF NextDirect, Start, Prompt, Embed, Aux, RangeStage, Finalize, DecodeInit, Select, EmbedToken,
                Output, Finish, At
  <2> QED
    BY <1>3, <2>1, VerdictStands
<1>4. CASE Judge
  BY <1>4, JudgeIsExact, Zenon
<1>5. CASE UNCHANGED vars
  <2>1. UNCHANGED expansionVars /\ UNCHANGED gateVars
    BY <1>5 DEF vars
  <2> QED
    BY <2>1, VerdictStands, Zenon
<1> QED
  BY <1>1, <1>2, <1>3, <1>4, <1>5 DEF Next

(* The verdict of the regression gate (parity.rs, run_case and what it     *)
(* compares): a case passes exactly if nothing is wrong in it that the     *)
(* gate can see.  A boundary that is missing, executed twice, out of       *)
(* place, stray, bad or bound to another donor fails the case even if all  *)
(* three paths agree in it, and a wrong value does if one of the paths has *)
(* the boundary and is right.  This holds for the four-layer model of the  *)
(* gate, for any number of tokens and of merge batches, and every boundary.*)
THEOREM GateSeesWhatIsWrong == Spec => []GateIsExact
<1>1. Init => BundleInv /\ VerdictInv
  <2>1. Init => BundleInv
    BY InitImports, InitDirectInv DEF BundleInv
  <2>2. Init => VerdictInv
    BY DEF Init, InitGate, VerdictInv
  <2> QED
    BY <2>1, <2>2
<1>2. BundleInv /\ VerdictInv /\ [Next]_vars => (BundleInv /\ VerdictInv)'
  BY NextBundles, NextKeepsVerdict
<1>3. VerdictInv => GateIsExact
  BY DEF VerdictInv, GateIsExact
<1> QED
  BY <1>1, <1>2, <1>3, PTL DEF Spec
=============================================================================

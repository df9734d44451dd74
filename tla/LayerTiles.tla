------------------------------ MODULE LayerTiles ------------------------------
(***************************************************************************)
(* The same layer as Raster tiles: what each tile makes of its inputs.  A  *)
(* tile cannot abort; it hands a failure on until the end of the layer.    *)
(* LayerPass says in which order the tiles run.                            *)
(***************************************************************************)
EXTENDS LayerValues, SequencesExt

TileFails(name) == \E i \in MatrixPages(name) : MacFails(name, i)

TilePle(l, row, embedding) ==
  IF TileFails("ple") THEN Failed
  ELSE Scale("input", Plus(Scale("embedding", embedding),
                           Norm(l, "ple", Scale("projection", TileProduct(l, "ple", row)))))

TileWindowStart(p, window) == IF window = 0 \/ p + 1 < window THEN 0 ELSE p + 1 - window
TileWindowLen(p, window) == IF window = 0 \/ p + 1 < window THEN p + 1 ELSE window
TileVisible(p, k, window) == k <= p /\ (window = 0 \/ p - k < window)

ProjectionFails == \E w \in {"w_q", "w_k", "w_v"} : TileFails(w)
TileKey(l, p, row) ==
  [position |-> p,
   k |-> Rope(Norm(l, "k", TileProduct(l, "w_k", Norm(l, "input", row))), p),
   v |-> ValueNorm(TileProduct(l, "w_v", Norm(l, "input", row)))]
TileQuery(l, p, local, row) ==
  [position |-> p, local |-> local, residual |-> row,
   q |-> Rope(Norm(l, "q", TileProduct(l, "w_q", Norm(l, "input", row))), p)]

(* Keys of an inherited cache that go on into the next one.                *)
(* A faulty variant: those that the next step will see.                    *)
NextStepKept(keys, start, window) ==
  KeysAt(keys, {k \in Nat : k > TileWindowStart(start, window) + 1})
Kept(keys, start, window) ==
  KeysAt(keys, {k \in Nat : k >= TileWindowStart(start, window)})

-----------------------------------------------------------------------------
(* Attention over a chunk of keys.  s.scores has a slot for each position  *)
(* of the window, s.filled counts the keys that were scored.               *)

ZeroScores(query, window) ==
  [scores |-> [i \in 1 .. TileWindowLen(query.position, window) |-> Failed], filled |-> 0]

Slot(query, key, window) == key.position - TileWindowStart(query.position, window)

PushScore(s, query, key, window) ==
  IF ~TileVisible(query.position, key.position, window) THEN s
  ELSE [scores |-> [s.scores EXCEPT ![Slot(query, key, window) + 1] = key.k],
        filled |-> s.filled + 1]
ScoreKeys(s, query, keys, window) ==
  LET scored[n \in 0 .. Len(keys)] ==
        IF n = 0 THEN s ELSE PushScore(scored[n - 1], query, keys[n], window)
  IN  scored[Len(keys)]

SoftmaxFails(s) == Len(s.scores) = 0 \/ s.filled # Len(s.scores)

AccumulateKeys(values, query, keys, window) ==
  values \cup {<<key.position - TileWindowStart(query.position, window), key.v>> :
                 key \in {k \in ToSet(keys) : TileVisible(query.position, k.position, window)}}

-----------------------------------------------------------------------------
(* The rest of a row. *)

AttnResidual(l, query, context) ==
  Plus(Norm(l, "post_attn", TileProduct(l, "w_o", context)), query.residual)
GatedMlp(l, ff) == Times(Gelu(TileProduct(l, "w_gate", ff)), TileProduct(l, "w_up", ff))
FinishMlp(l, residual) ==
  LET down == TileProduct(l, "w_down", GatedMlp(l, Norm(l, "pre_ffw", residual)))
  IN  Plus(Norm(l, "post_ffw", down), residual)
PleGated(l, xs, ple) == Times(Gelu(TileProduct(l, "ple_gate", xs)), ple)
FinishLayer(l, xs, ple) ==
  Scale("layer", Plus(Norm(l, "ple_post", TileProduct(l, "ple_out", PleGated(l, xs, ple))), xs))

ClosingMatrices == {"w_o", "w_gate", "w_up", "w_down", "ple_gate", "ple_out"}
TileRow(l, query, context, ple) ==
  IF context = Failed \/ \E w \in ClosingMatrices : TileFails(w) THEN Failed
  ELSE FinishLayer(l, FinishMlp(l, AttnResidual(l, query, context)), ple)
=============================================================================

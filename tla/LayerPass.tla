------------------------------ MODULE LayerPass ------------------------------
(***************************************************************************)
(* The transformer layers of a generation, pass by pass: a pass over the   *)
(* prompt and then one for each selected token.  A layer reads the rows of *)
(* the layer before it, its own cache of the pass before, and, if it has   *)
(* none, the cache of its donor in this pass; it publishes its rows and a  *)
(* cache, which keeps what the next pass can see.                          *)
(*                                                                         *)
(* In a chain every layer is a stage, executed as a native kernel or as    *)
(* tiles; the direct runtime has functions of its own.  Tiles go through   *)
(* caches in chunks.                                                       *)
(***************************************************************************)
EXTENDS ChainTemplate, LayerKernel, LayerView, LayerTiles

CONSTANTS
  Window,      (* of sliding layers                                          *)
  ChunkSize,   (* keys that a tile takes at a time                           *)
  Shapes,      (* models                                                     *)
  Wirings,     (* which caches sharing layers are bound to                   *)
  TornMatrices, Threads,
  PromptLengths, Passes

ASSUME PassAssumption ==
  /\ Window \in Nat \ {0} /\ ChunkSize \in Nat \ {0}
  /\ \A s \in Shapes : Importable(s)
  /\ Wirings \subseteq {"imported", "unbound"}
  /\ Threads \subseteq Nat \ {0} /\ PromptLengths \subseteq Nat /\ Passes \in Nat

VARIABLES
  shape, wiring, runtime,  (* the model, and who runs it                     *)
  facts,                   (* of each layer, written at import               *)
  phase,
  pass, start, count,      (* the position of its first row, and its rows    *)
  layer,                   (* the next layer                                 *)
  ple,                     (* layers' own inputs, as far as prepared         *)
  caches, prior,           (* layer -> its cache, of this pass, of the last  *)
  out,                     (* rows published by the layer before             *)
  tile                     (* a stage of tiles at work                       *)

given == <<shape, wiring, runtime, facts, torn, threads>>
passVars == <<pass, start, count, prior>>
vars == <<given, phase, passVars, layer, ple, caches, out, tile>>

NoTile ==
  [keys |-> <<>>, queries |-> <<>>, errors |-> 0, kv |-> <<>>, rows |-> <<>>,
   at |-> 0, list |-> 1, scores |-> <<>>, filled |-> 0, values |-> {}, broken |-> FALSE, missing |-> 0]

-----------------------------------------------------------------------------
(* What a layer reads.                                                     *)

Facts(s, l) ==
  [layer |-> l, window |-> IF s.types[l] = "sliding" THEN Window ELSE 0,
   donor |-> KvDonor(s, l), a |-> DonorA(s), b |-> DonorB(s)]
F == facts[layer]

InputRows == [i \in 1 .. count |-> Row(layer, start + i - 1)]
PriorOf(l) == IF pass = 0 THEN <<>> ELSE prior[l]

(* A chain binds candidates of sharing layers only, the direct runtime     *)
(* takes whatever layers have been computed.                               *)
BoundDonor(d) ==
  IF d < 0 \/ d \notin DOMAIN caches \/ wiring = "unbound" THEN <<>>
  ELSE IF runtime = "staged" /\ layer < FirstShared(shape) THEN <<>>
  ELSE caches[d]

-----------------------------------------------------------------------------
Init ==
  /\ shape \in Shapes /\ wiring \in Wirings /\ runtime \in {"staged", "direct"}
  /\ torn \in TornMatrices /\ threads \in Threads
  /\ facts = [l \in Layers(shape) |-> Facts(shape, l)]
  /\ phase = "layer" /\ pass = 0 /\ start = 0 /\ count \in PromptLengths
  /\ layer = 0 /\ ple = <<>>
  /\ caches = [l \in {} |-> <<>>] /\ prior = [l \in {} |-> <<>>]
  /\ out = <<>> /\ tile = NoTile

Executors == IF runtime = "direct" THEN {"view"} ELSE {"kernel", "tiles"}
PreparedRow(how, l, row, embedding) ==
  CASE how = "view" -> ViewPle(l, row, embedding)
    [] how = "kernel" -> KernelPle(l, row, embedding)
    [] how = "tiles" -> TilePle(l, row, embedding)
Prepared(how, l) ==
  [i \in 1 .. count |-> PreparedRow(how, l, Row(0, start + i - 1), Embedding(l, start + i - 1))]

(* A chain prepares the inputs of all layers first, the direct runtime     *)
(* those of a layer before the layer.                                      *)
PreparedFirst == IF runtime = "staged" THEN shape.layers ELSE layer + 1

PrepareAux ==
  /\ phase = "layer" /\ layer < shape.layers /\ Len(ple) < PreparedFirst
  /\ \E how \in Executors :
       LET rows == Prepared(how, Len(ple))
       IN  IF Failed \in ToSet(rows) THEN phase' = "failed" /\ UNCHANGED ple
           ELSE ple' = Append(ple, rows) /\ UNCHANGED phase
  /\ UNCHANGED <<given, passVars, layer, caches, out, tile>>

BeginLayer == phase = "layer" /\ layer < shape.layers /\ Len(ple) >= PreparedFirst

Publish(rows, kv) ==
  /\ out' = rows
  /\ caches' = [l \in 0 .. layer |-> IF l = layer THEN kv ELSE caches[l]]
  /\ layer' = layer + 1

Computed(how) ==
  IF how = "kernel"
  THEN KernelLayer(F, start, InputRows, PriorOf(layer), BoundDonor(F.a), BoundDonor(F.b), ple[layer + 1])
  ELSE ViewLayer(F, start, InputRows, PriorOf(layer), BoundDonor(F.a), BoundDonor(F.b), ple[layer + 1])

RunNative ==
  /\ BeginLayer
  /\ \E how \in Executors \ {"tiles"} : \E result \in {Computed(how)} :
       IF result.failed THEN phase' = "failed" /\ UNCHANGED <<layer, caches, out>>
       ELSE Publish(result.rows, result.kv) /\ UNCHANGED phase
  /\ tile' = NoTile
  /\ UNCHANGED <<given, passVars, ple>>

-----------------------------------------------------------------------------
(* A layer as tiles.                                                       *)

TileStep == UNCHANGED <<given, passVars, layer, ple, caches, out>>
Chunk(keys, at) == SubSeq(keys, at + 1, IF at + ChunkSize < Len(keys) THEN at + ChunkSize ELSE Len(keys))

BeginTiles ==
  /\ BeginLayer /\ "tiles" \in Executors
  /\ tile' = NoTile /\ phase' = "project"
  /\ TileStep

(* A token that fails leaves neither query nor key. *)
ProjectToken ==
  /\ phase = "project" /\ tile.at < count
  /\ LET p == start + tile.at
         row == InputRows[tile.at + 1]
     IN  tile' = IF ProjectionFails THEN [tile EXCEPT !.errors = @ + 1, !.at = @ + 1]
                 ELSE [tile EXCEPT !.keys = Append(@, TileKey(layer, p, row)),
                                   !.queries = Append(@, TileQuery(layer, p, tile.at, row)),
                                   !.at = @ + 1]
  /\ UNCHANGED phase /\ TileStep

CarryChunk ==
  /\ phase = "carry" /\ tile.at < Len(PriorOf(layer))
  /\ tile' = [tile EXCEPT !.kv = @ \o Kept(Chunk(PriorOf(layer), tile.at), start, F.window),
                          !.at = @ + ChunkSize]
  /\ UNCHANGED phase /\ TileStep

TheQuery == tile.queries[Len(tile.rows) + 1]
BeginQuery(t) ==
  IF Len(t.rows) = Len(t.queries) THEN phase' = "close" /\ tile' = t
  ELSE LET zero == ZeroScores(t.queries[Len(t.rows) + 1], F.window)
       IN  /\ phase' = "score"
           /\ tile' = [t EXCEPT !.scores = zero.scores, !.filled = zero.filled,
                                !.values = {}, !.broken = FALSE, !.list = 1, !.at = 0]

EndSweep ==
  \/ /\ phase = "project" /\ tile.at >= count
     /\ phase' = "carry" /\ tile' = [tile EXCEPT !.at = 0]
     /\ TileStep
  \/ /\ phase = "carry" /\ tile.at >= Len(PriorOf(layer))
     /\ BeginQuery(tile)
     /\ TileStep

(* Both candidates are swept too, and the source must be the layer's donor. *)
Lists == <<PriorOf(layer), tile.keys, BoundDonor(F.a), BoundDonor(F.b)>>
SourceLayers == <<-1, -1, F.a, F.b>>
Sweeping(p) == phase = p /\ tile.list <= 4
AtChunk == tile.at < Len(Lists[tile.list])
TheChunk == IF SourceLayers[tile.list] = F.donor THEN Chunk(Lists[tile.list], tile.at) ELSE <<>>

ScoreChunk ==
  /\ Sweeping("score") /\ AtChunk
  /\ LET s == ScoreKeys([scores |-> tile.scores, filled |-> tile.filled], TheQuery, TheChunk, F.window)
     IN  tile' = [tile EXCEPT !.scores = s.scores, !.filled = s.filled, !.at = @ + ChunkSize]
  /\ UNCHANGED phase /\ TileStep

(* The failure of the softmax reaches the context with the first chunk. *)
Scored == [scores |-> tile.scores, filled |-> tile.filled]
AccumulateChunk ==
  /\ Sweeping("weigh") /\ AtChunk
  /\ tile' = [tile EXCEPT
       !.at = @ + ChunkSize,
       !.broken = @ \/ (SourceLayers[tile.list] = F.donor /\ SoftmaxFails(Scored)),
       !.values = IF SoftmaxFails(Scored) THEN @
                  ELSE AccumulateKeys(@, TheQuery, TheChunk, F.window)]
  /\ UNCHANGED phase /\ TileStep

NextList ==
  /\ tile.list <= 4 /\ phase \in {"score", "weigh"} /\ ~AtChunk
  /\ tile' = [tile EXCEPT !.list = @ + 1, !.at = 0]
  /\ UNCHANGED phase /\ TileStep

SoftmaxScores ==
  /\ phase = "score" /\ tile.list > 4
  /\ phase' = "weigh"
  /\ tile' = [tile EXCEPT !.list = 1, !.missing = IF SoftmaxFails(Scored) THEN @ + 1 ELSE @]
  /\ TileStep

(* finish_layer: the row of a query, and the key beside it. *)
FinishRow ==
  /\ phase = "weigh" /\ tile.list > 4
  /\ LET context == IF tile.broken THEN Failed
                    ELSE Context(TheQuery.q, tile.scores, tile.values)
         row == TileRow(layer, TheQuery, context, ple[layer + 1][TheQuery.local + 1])
     IN  IF TheQuery.local >= Len(ple[layer + 1]) \/ TheQuery.local >= Len(tile.keys)
         THEN phase' = "failed" /\ UNCHANGED tile
         ELSE BeginQuery([tile EXCEPT !.rows = Append(@, row),
                                      !.errors = IF row = Failed THEN @ + 1 ELSE @,
                                      !.kv = Append(@, tile.keys[TheQuery.local + 1])])
  /\ TileStep

EndLayer ==
  /\ phase = "close"
  /\ IF tile.errors > 0 THEN phase' = "failed" /\ UNCHANGED <<layer, caches, out>>
     ELSE phase' = "layer" /\ Publish(tile.rows, tile.kv)
  /\ UNCHANGED <<given, passVars, ple, tile>>

-----------------------------------------------------------------------------
(* The head refuses a pass without rows. *)
EndPass ==
  /\ phase = "layer" /\ layer = shape.layers
  /\ IF count = 0 THEN phase' = "failed" /\ UNCHANGED <<passVars, layer, ple, caches>>
     ELSE IF pass = Passes THEN phase' = "done" /\ UNCHANGED <<passVars, layer, ple, caches>>
     ELSE /\ pass' = pass + 1 /\ start' = start + count /\ count' = 1
          /\ prior' = caches /\ caches' = [l \in {} |-> <<>>]
          /\ layer' = 0 /\ ple' = <<>> /\ UNCHANGED phase
  /\ tile' = NoTile
  /\ UNCHANGED <<given, out>>

Next ==
  \/ PrepareAux \/ RunNative \/ EndPass
  \/ BeginTiles \/ ProjectToken \/ CarryChunk \/ EndSweep
  \/ ScoreChunk \/ NextList \/ SoftmaxScores \/ AccumulateChunk \/ FinishRow \/ EndLayer

Spec == Init /\ [][Next]_vars

-----------------------------------------------------------------------------
(* Properties.                                                             *)

(* Kernels, tiles and the direct runtime all compute causal attention over *)
(* the whole history: dropped keys, borrowed caches, chunks, pages and     *)
(* threads never show in a row, and a layer fails only for a prompt        *)
(* without tokens, or where the pages that tiles read cut the rows.        *)
Promise == INSTANCE CausalAttention WITH
  failed <- phase = "failed",
  embedded <- start + count,
  reached <- [l \in Layers(shape) |-> IF l < layer THEN start + count ELSE start]
IsCausalAttention == Promise!Spec

(* A published cache is exactly what the layer's first row of the pass saw *)
(* and the pass added: no position twice, none missing, in their order, so *)
(* that the next pass, or a borrower in this one, finds its whole window.  *)
CachesAreWindows ==
  \A l \in DOMAIN caches :
    LET first == KernelWindowStart(start, facts[l].window)
    IN  [i \in DOMAIN caches[l] |-> caches[l][i].position] =
          [i \in 1 .. (start + count - first) |-> first + i - 1]

(* Tiles do not publish a layer if a query has missed keys of its window   *)
(* ("it fails here instead", softmax_scores_inner).                        *)
IncompleteWindowsFail == phase = "layer" => tile.missing = 0
=============================================================================

----------------------------- MODULE LayerValues -----------------------------
(***************************************************************************)
(* The values that a transformer layer computes, as terms: a term tells    *)
(* which operation was applied to which weights, row and position, so that *)
(* equal terms are equal numbers whoever computed them.  Heads and numbers *)
(* are not looked into.                                                    *)
(*                                                                         *)
(* A product with a matrix names the row of weights behind each of its     *)
(* values.  Tiles take a matrix page by page; native code takes its rows   *)
(* in chunks, one thread a chunk.                                          *)
(***************************************************************************)
EXTENDS Integers, Sequences

CONSTANTS
  Rows, Cols,          (* of every matrix                                    *)
  WholePage, TornPage, (* values a page holds: of whole rows, or not         *)
  MinParRows, MinRowsPerChunk

ASSUME LayoutAssumption ==
  /\ {Rows, Cols, WholePage, TornPage, MinRowsPerChunk} \subseteq Nat \ {0}
  /\ MinParRows \in Nat /\ WholePage % Cols = 0

VARIABLES
  torn,      (* the matrix that was written in pages which cut its rows      *)
  threads    (* of native code                                               *)

-----------------------------------------------------------------------------
Failed == <<"failed">>

(* A row of activations, by its layer (0: the embedding) and its position. *)
Row(l, p) == <<"row", l, p>>
Embedding(l, p) == <<"ple", l, p>>
Product(l, name, order, x) == <<"product", l, name, order, x>>
Norm(l, name, x) == <<"norm", l, name, x>>
ValueNorm(x) == <<"value_norm", x>>
Rope(x, p) == IF p = 0 THEN x ELSE <<"rope", p, x>>
Plus(x, y) == <<"sum", x, y>>
Times(x, y) == <<"times", x, y>>
Gelu(x) == <<"gelu", x>>
Scale(name, x) == <<"scale", name, x>>

(* A query over a window: the keys by their slots, which one softmax turns *)
(* into weights, and the values that were added up, each with the weight   *)
(* of its slot.                                                            *)
Context(q, keys, values) == <<"context", q, keys, values>>

(* The keys of a cache at some positions, in their order. *)
KeysAt(cache, positions) ==
  LET found[n \in 0 .. Len(cache)] ==
        IF n = 0 THEN <<>>
        ELSE IF cache[n].position \in positions THEN Append(found[n - 1], cache[n])
        ELSE found[n - 1]
  IN  found[Len(cache)]

-----------------------------------------------------------------------------
(* Products in tiles.                                                      *)

PageSize(name) == IF name = torn THEN TornPage ELSE WholePage
MatrixPages(name) == 0 .. ((Rows * Cols + PageSize(name) - 1) \div PageSize(name) - 1)
Offset(name, i) == i * PageSize(name)
ValuesIn(name, i) ==
  IF Offset(name, i) + PageSize(name) <= Rows * Cols THEN PageSize(name)
  ELSE Rows * Cols - Offset(name, i)

MacFails(name, i) == ValuesIn(name, i) % Cols # 0 \/ Offset(name, i) % Cols # 0
MacWrites(name, i) ==
  {[at |-> Offset(name, i) \div Cols + j, row |-> (Offset(name, i) + j * Cols) \div Cols] :
     j \in 0 .. (ValuesIn(name, i) \div Cols - 1)}

(* A tile that fails leaves its error in the accumulator. *)
TileProduct(l, name, x) ==
  LET writes == UNION {MacWrites(name, i) : i \in MatrixPages(name)}
      order == [r \in 1 .. Rows |-> {w.row : w \in {v \in writes : v.at = r - 1}}]
  IN  IF x = Failed \/ \E i \in MatrixPages(name) : MacFails(name, i) THEN Failed
      ELSE Product(l, name, order, x)

(* Products in native code, over the pages joined or over the weights file. *)
Larger(m, n) == IF m < n THEN n ELSE m
ChunkRows == Larger(MinRowsPerChunk, (Rows + threads - 1) \div threads)
RowsInto(offset, local) == offset + local

NativeRow(r) == IF threads = 1 \/ Rows < MinParRows THEN RowsInto(0, r)
                ELSE RowsInto((r \div ChunkRows) * ChunkRows, r % ChunkRows)

NativeProduct(l, name, x) == Product(l, name, [r \in 1 .. Rows |-> {NativeRow(r - 1)}], x)
=============================================================================

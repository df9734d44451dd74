--------------------------- MODULE CausalAttention ---------------------------
(***************************************************************************)
(* What the layers of a model promise: each computes one row per token, in *)
(* the order of the layers, and attends to the positions of its window in  *)
(* the whole history of the layer that its keys come from.  There are no   *)
(* passes, caches, chunks or pages.                                        *)
(***************************************************************************)
EXTENDS ChainTemplate, LayerValues

CONSTANT Window

VARIABLES
  shape, runtime,
  failed,
  embedded,   (* tokens so far                                               *)
  reached,    (* layer -> the tokens that it has seen                        *)
  out         (* the rows published last                                     *)

Order == [r \in 1 .. Rows |-> {r - 1}]
Of(l, name, x) == Product(l, name, Order, x)

WindowOf(l) == IF shape.types[l] = "sliding" THEN Window ELSE 0
Seen(l, p) == {k \in 0 .. p : WindowOf(l) = 0 \/ k > p - WindowOf(l)}
KeysOf(l) == IF KvDonor(shape, l) = -1 THEN l ELSE KvDonor(shape, l)

Normed(l, p) == Norm(l, "input", Row(l, p))
Query(l, p) == Rope(Norm(l, "q", Of(l, "w_q", Normed(l, p))), p)
Key(l, p) == Rope(Norm(l, "k", Of(l, "w_k", Normed(l, p))), p)
Value(l, p) == ValueNorm(Of(l, "w_v", Normed(l, p)))

Attended(l, p) ==
  LET first == CHOOSE k \in Seen(l, p) : \A j \in Seen(l, p) : k <= j
  IN  Context(Query(l, p),
              [i \in 1 .. Cardinality(Seen(l, p)) |-> Key(KeysOf(l), first + i - 1)],
              {<<k - first, Value(KeysOf(l), k)>> : k \in Seen(l, p)})

PerLayer(l, p) ==
  Scale("input", Plus(Scale("embedding", Embedding(l, p)),
                      Norm(l, "ple", Scale("projection", Of(l, "ple", Row(0, p))))))

Computed(l, p) ==
  LET attn == Plus(Norm(l, "post_attn", Of(l, "w_o", Attended(l, p))), Row(l, p))
      ff == Norm(l, "pre_ffw", attn)
      hidden == Times(Gelu(Of(l, "w_gate", ff)), Of(l, "w_up", ff))
      xs == Plus(Norm(l, "post_ffw", Of(l, "w_down", hidden)), attn)
      gated == Times(Gelu(Of(l, "ple_gate", xs)), PerLayer(l, p))
  IN  Scale("layer", Plus(Norm(l, "ple_post", Of(l, "ple_out", gated)), xs))

-----------------------------------------------------------------------------
Before(l) == IF l = 0 THEN embedded ELSE reached[l - 1]

Init ==
  /\ embedded \in Nat /\ reached = [l \in Layers(shape) |-> 0] /\ out = <<>>
  /\ failed = FALSE

Embed ==
  /\ \A l \in Layers(shape) : reached[l] = embedded
  /\ embedded' \in Nat /\ embedded' > embedded
  /\ UNCHANGED <<reached, out, failed>>

Attend(l) ==
  /\ reached[l] < Before(l)
  /\ out' = [i \in 1 .. (Before(l) - reached[l]) |-> Computed(l, reached[l] + i - 1)]
  /\ reached' = [reached EXCEPT ![l] = Before(l)]
  /\ UNCHANGED <<embedded, failed>>

(* A pass may fail only without tokens, or where the pages of a matrix that tiles *)
(* read cut its rows. *)
Fail ==
  /\ embedded = 0 \/ (runtime = "staged" /\ torn # "none")
  /\ failed' = TRUE
  /\ UNCHANGED <<embedded, reached, out>>

(* The model, its weights, the threads and who runs it are given. *)
given == <<shape, runtime, torn, threads>>
Next ==
  /\ ~failed
  /\ Embed \/ Fail \/ \E l \in Layers(shape) : Attend(l)
  /\ UNCHANGED given
Spec == Init /\ [][Next]_<<given, embedded, reached, out, failed>>
=============================================================================

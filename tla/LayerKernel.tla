----------------------------- MODULE LayerKernel -----------------------------
(***************************************************************************)
(* A transformer layer and its per-layer inputs as native kernels of the   *)
(* staged runner: functions of everything they read.                       *)
(*                                                                         *)
(* A layer's facts are its number, its window, whose cache it uses (donor: *)
(* -1 for its own) and the two candidates.  A cache is a sequence of keys. *)
(***************************************************************************)
EXTENDS LayerValues, SequencesExt

KernelPle(l, row, embedding) ==
  Scale("input", Plus(Scale("embedding", embedding),
                      Norm(l, "ple", Scale("projection", NativeProduct(l, "ple", row)))))

KernelWindowStart(p, window) ==
  IF window = 0 THEN 0 ELSE IF p + 1 < window THEN 0 ELSE p + 1 - window
KernelVisible(p, k, window) == k <= p /\ (window = 0 \/ p - k < window)

(* Keys and queries of the rows, from the position start on. *)
KernelKey(f, p, row) ==
  LET normed == Norm(f.layer, "input", row)
  IN  [position |-> p,
       k |-> Rope(Norm(f.layer, "k", NativeProduct(f.layer, "w_k", normed)), p),
       v |-> ValueNorm(NativeProduct(f.layer, "w_v", normed))]
KernelQuery(f, p, local, row) ==
  [position |-> p, local |-> local, residual |-> row,
   q |-> Rope(Norm(f.layer, "q", NativeProduct(f.layer, "w_q", Norm(f.layer, "input", row))), p)]

(* Scores by slots, with a slot for each position of the window, and then  *)
(* the values of the same keys.                                            *)
KernelContext(query, source, window) ==
  LET start == KernelWindowStart(query.position, window)
      len == query.position - start + 1
      visible == KeysAt(source, {k \in Nat : KernelVisible(query.position, k, window)})
      slots == {key.position - start : key \in ToSet(visible)}
      InSlot(s) == visible[CHOOSE i \in DOMAIN visible :
                             /\ visible[i].position - start = s
                             /\ \A j \in DOMAIN visible : visible[j].position - start = s => j <= i]
  IN  IF Len(visible) # len \/ ~(slots \subseteq 0 .. (len - 1)) THEN Failed
      ELSE Context(query.q, [s \in 1 .. len |-> IF s - 1 \in slots THEN InSlot(s - 1).k ELSE Failed],
                   {<<key.position - start, key.v>> : key \in ToSet(visible)})

(* A faulty variant: every borrower uses the first donor. *)
FirstDonor(f, prior, own, donorA, donorB) ==
  IF f.donor = -1 THEN prior \o own ELSE donorA
KernelSource(f, prior, own, donorA, donorB) ==
  IF f.donor = -1 THEN prior \o own ELSE IF f.donor = f.a THEN donorA ELSE donorB

KernelResidual(f, query, context) ==
  Plus(Norm(f.layer, "post_attn", NativeProduct(f.layer, "w_o", context)), query.residual)
KernelMlp(f, residual) ==
  LET ff == Norm(f.layer, "pre_ffw", residual)
      gated == Times(Gelu(NativeProduct(f.layer, "w_gate", ff)), NativeProduct(f.layer, "w_up", ff))
  IN  Plus(Norm(f.layer, "post_ffw", NativeProduct(f.layer, "w_down", gated)), residual)
KernelFinish(f, xs, ple) ==
  LET gated == Times(Gelu(NativeProduct(f.layer, "ple_gate", xs)), ple)
  IN  Scale("layer", Plus(Norm(f.layer, "ple_post", NativeProduct(f.layer, "ple_out", gated)), xs))

KernelRow(f, query, source, ple) ==
  LET context == KernelContext(query, source, f.window)
  IN  IF context = Failed \/ query.local >= Len(ple) THEN Failed
      ELSE KernelFinish(f, KernelMlp(f, KernelResidual(f, query, context)), ple[query.local + 1])

KernelKv(f, prior, own, start) ==
  KeysAt(prior, {k \in Nat : k >= KernelWindowStart(start, f.window)}) \o own

(* All tokens are projected before the first attends, each on a thread. *)
KernelLayer(f, start, rows, prior, donorA, donorB, ple) ==
  LET own == [i \in DOMAIN rows |-> KernelKey(f, start + i - 1, rows[i])]
      source == KernelSource(f, prior, own, donorA, donorB)
      outRows == [i \in DOMAIN rows |->
                    KernelRow(f, KernelQuery(f, start + i - 1, i - 1, rows[i]), source, ple)]
  IN  IF rows = <<>> THEN [rows |-> <<>>, kv |-> <<>>, failed |-> FALSE]
      ELSE [rows |-> outRows, kv |-> KernelKv(f, prior, own, start),
            failed |-> Failed \in ToSet(outRows)]
=============================================================================

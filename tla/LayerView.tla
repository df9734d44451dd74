------------------------------ MODULE LayerView ------------------------------
(***************************************************************************)
(* The same layer in the direct runtime, which keeps code of its own: it   *)
(* reads the weights from their file, checks less of a layer's facts, and  *)
(* takes one token after the other.                                        *)
(***************************************************************************)
EXTENDS LayerValues, SequencesExt, FiniteSets

ViewPle(l, row, embedding) ==
  LET projected == Norm(l, "ple", Scale("projection", NativeProduct(l, "ple", row)))
  IN  Scale("input", Plus(Scale("embedding", embedding), projected))

ViewWindowStart(p, window) == IF window = 0 \/ p + 1 < window THEN 0 ELSE p + 1 - window
ViewVisible(p, k, window) == k <= p /\ (window = 0 \/ p - k < window)

ViewProjected(f, p, row) ==
  LET Normed(norm, w) == Norm(f.layer, norm, NativeProduct(f.layer, w, Norm(f.layer, "input", row)))
  IN  [q |-> Rope(Normed("q", "w_q"), p), k |-> Rope(Normed("k", "w_k"), p),
       v |-> ValueNorm(NativeProduct(f.layer, "w_v", Norm(f.layer, "input", row)))]
ViewKeys(f, start, rows) ==
  [i \in DOMAIN rows |-> LET t == ViewProjected(f, start + i - 1, rows[i])
                         IN  [position |-> start + i - 1, k |-> t.k, v |-> t.v]]
ViewQueries(f, start, rows) ==
  [i \in DOMAIN rows |-> [position |-> start + i - 1, local |-> i - 1, residual |-> rows[i],
                          q |-> ViewProjected(f, start + i - 1, rows[i]).q]]

(* Slots that no key has reached keep a zero, but then a key is missing. *)
ViewContext(query, source, window) ==
  LET start == ViewWindowStart(query.position, window)
      visible == {i \in DOMAIN source : ViewVisible(query.position, source[i].position, window)}
      Slot(i) == source[i].position - start
      Filled(s) == {i \in visible : Slot(i) = s}
      Latest(s) == CHOOSE i \in Filled(s) : \A j \in Filled(s) : j <= i
      len == query.position - start + 1
  IN  IF Cardinality(visible) # len THEN Failed
      ELSE Context(query.q,
                   [s \in 1 .. len |-> IF Filled(s - 1) = {} THEN Failed ELSE source[Latest(s - 1)].k],
                   {<<Slot(i), source[i].v>> : i \in visible})

ViewClosed(f, query, context, ple) ==
  LET Of(name, x) == NativeProduct(f.layer, name, x)
      NormOf(name, x) == Norm(f.layer, name, x)
      residual == Plus(NormOf("post_attn", Of("w_o", context)), query.residual)
      ff == NormOf("pre_ffw", residual)
      down == Of("w_down", Times(Gelu(Of("w_gate", ff)), Of("w_up", ff)))
      xs == Plus(NormOf("post_ffw", down), residual)
      gated == Times(Gelu(Of("ple_gate", xs)), ple)
  IN  Scale("layer", Plus(NormOf("ple_post", Of("ple_out", gated)), xs))

ViewRow(f, query, prior, own, donorA, donorB, ple) ==
  LET source == IF f.donor = -1 THEN prior \o own ELSE IF f.donor = f.a THEN donorA ELSE donorB
      context == ViewContext(query, source, f.window)
  IN  IF context = Failed \/ query.local >= Len(ple) THEN Failed
      ELSE ViewClosed(f, query, context, ple[query.local + 1])

ViewKv(f, prior, own, start) ==
  KeysAt(prior, {k \in Nat : k >= ViewWindowStart(start, f.window)}) \o own

ViewLayer(f, start, rows, prior, donorA, donorB, ple) ==
  LET own == ViewKeys(f, start, rows)
      queries == ViewQueries(f, start, rows)
      outRows == [i \in DOMAIN rows |-> ViewRow(f, queries[i], prior, own, donorA, donorB, ple)]
  IN  IF rows = <<>> THEN [rows |-> <<>>, kv |-> <<>>, failed |-> FALSE]
      ELSE [rows |-> outRows, kv |-> ViewKv(f, prior, own, start),
            failed |-> Failed \in ToSet(outRows)]
=============================================================================

----------------------------- MODULE MCInferRun ------------------------------
(***************************************************************************)
(* Instances of InferRun for TLC: models with  and without layers that     *)
(* share a cache, and manifests that nobody imported.                      *)
(***************************************************************************)
EXTENDS InferRun

ShapeOf(types, shared) ==
  [layers |-> Len(types), shared |-> shared,
   types |-> [n \in 0 .. (Len(types) - 1) |-> types[n + 1]]]

NoSharing == ShapeOf(<<"full">>, 0)
OwnCaches == ShapeOf(<<"sliding", "full">>, 0)
TwoDonors == ShapeOf(<<"sliding", "full", "sliding", "full">>, 2)
LaterDonors == ShapeOf(<<"full", "sliding", "sliding", "full", "full", "sliding">>, 3)
ThreeDonors == ShapeOf(<<"sliding", "full", "other", "sliding", "full", "other">>, 3)
MCShapes == {NoSharing, OwnCaches, TwoDonors, LaterDonors, ThreeDonors}

(* Models whose shared layers all have the same type, or no donor at all.  *)
OneDonor == ShapeOf(<<"sliding", "full", "sliding">>, 1)
NoDonor == ShapeOf(<<"sliding", "full">>, 1)
MCOneDonorShapes == {TwoDonors, OneDonor, NoDonor}

(* Manifests of one repeat, from 2 on, with one template. *)
WithRepeat(count, inputs, exported) ==
  [inputs |-> [weights |-> <<Single("a"), Single("b"), Single("c")>>],
   items |-> <<StageItem(Plain("seed"), NoInputs),
               [RepeatItem("t", count, <<One(Text("step", T, Zero), inputs)>>, exported)
                  EXCEPT !.start = 2],
               StageItem(Plain("use"), [x |-> From(Plain("out"))])>>]
ExportOf(text) == [out |-> [key |-> Single("out"), stage |-> text, entry |-> Single("seed")]]
LastStep == ExportOf(Text("step", T, Zero))

(* Chains without a repeat, of stages that the runner knows.  *)
InOrder(items) == [inputs |-> [weights |-> <<Single("a")>>], items |-> items]
AuxFrom(n, source) ==
  StageItem(Text("prefill_prepare_aux", Zero, Number(n)),
            [embedded |-> From(Plain(source)), layer |-> Input(Text("weights", Zero, Zero))])

MCHandWritten ==
  {WithRepeat(3, [prior |-> From(Text("step", Previous("t"), Zero))], LastStep),
   WithRepeat(2, [prior |-> FromOr(Text("step", Previous("t"), Zero), Text("seed", L, Zero))], LastStep),
   WithRepeat(2, [w |-> Input(Text("weights", Zero, T))], LastStep),
   WithRepeat(1, [w |-> Input(Text("weights", Zero, T))], LastStep),
   WithRepeat(1, NoInputs, ExportOf(Text("step", Previous("t"), Zero))),
   WithRepeat(0, [w |-> From(Plain("seed"))], LastStep)}
  \cup {InOrder(<<StageItem(Plain("decode_init"), NoInputs)>>),
        InOrder(<<StageItem(Plain("decode_init"), NoInputs), StageItem(Plain("decode_init"), NoInputs)>>),
        InOrder(<<AuxFrom(0, "decode_init"), AuxFrom(1, "decode_init"), StageItem(Plain("decode_init"), NoInputs)>>),
        InOrder(<<StageItem(Plain("decode_init"), NoInputs), AuxFrom(0, "decode_init"), AuxFrom(1, "decode_init")>>)}
=============================================================================

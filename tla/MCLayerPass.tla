----------------------------- MODULE MCLayerPass -----------------------------
(***************************************************************************)
(* Instances of LayerPass for TLC: sliding and full layers, with caches of *)
(* their own and shared ones.                                              *)
(***************************************************************************)
EXTENDS LayerPass

ShapeOf(types, shared) ==
  [layers |-> Len(types), shared |-> shared,
   types |-> [n \in 0 .. (Len(types) - 1) |-> types[n + 1]]]

MCShapes ==
  {ShapeOf(<<"full", "sliding">>, 0),
   ShapeOf(<<"sliding", "full", "sliding", "full">>, 2),
   ShapeOf(<<"full", "sliding", "sliding", "full", "sliding">>, 2)}
MCSharing == {ShapeOf(<<"sliding", "full", "sliding", "full">>, 2)}
MCTorn == {"none", "ple", "w_k", "w_down"}
=============================================================================

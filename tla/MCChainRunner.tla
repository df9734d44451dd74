--------------------------- MODULE MCChainRunner ---------------------------
(***************************************************************************)
(* Instances of ChainRunner for TLC: six-stage chains with the shapes that *)
(* an imported manifest has, and two that the importer does not write.     *)
(***************************************************************************)
EXTENDS ChainRunnerInvariant

(* Embedding, one aux stage per layer, the layers, the end of the chain:   *)
(* stages 2 to 4 are a wave.                                               *)
PrefillChain ==
  [aux |-> {2, 3, 4},
   producers |-> <<{}, {1}, {1}, {1}, {1, 2, 3}, {4, 5}>>]

(* Two waves and, at the end, an aux stage on its own.                     *)
TwoWaves ==
  [aux |-> {1, 2, 4, 5},
   producers |-> <<{}, {}, {1, 2}, {3}, {2}, {3, 4, 5}>>]

(* Aux stages that never are neighbours: no wave.                          *)
LoneAux ==
  [aux |-> {2, 4, 6},
   producers |-> <<{}, {1}, {1, 2}, {3}, {3, 4}, {5}>>]

(* Not well formed: a stage of a wave reads from another one.              *)
WaveReadsItself ==
  [aux |-> {2, 3, 4},
   producers |-> <<{}, {1}, {1}, {3}, {4}, {5}>>]

(* Not well formed: a binding that names a later stage, and one that names *)
(* no stage at all.                                                        *)
ReadsForward ==
  [aux |-> {5, 6},
   producers |-> <<{}, {1}, {4}, {3}, {4}, {NoStage}>>]

MCChains == {PrefillChain, TwoWaves, LoneAux, WaveReadsItself, ReadsForward}
MCReferences == {NoStage, 1, 3, 6}

MCStageHash == [i \in Stage |-> i]

(* A claimed list: the honest one, cut or extended, with a wrong hash at   *)
(* up to two places (99 for a hash no stage has, or another stage's hash). *)
HonestList == [i \in Stage |-> i]
Corrupt(list, places, hash) ==
  [i \in DOMAIN list |-> IF i \in places THEN hash ELSE list[i]]
MCClaimedLists ==
  LET lengths == {SubSeq(HonestList, 1, n) : n \in 0 .. NumStages}
                   \cup {HonestList \o <<1>>, HonestList \o <<99, 99>>}
      places == {{}} \cup {{i} : i \in Stage} \cup {{2, 4}, {3, 6}}
  IN  {Corrupt(list, p, h) : list \in lengths, p \in places, h \in {3, 99}}
MCHashes == Stage \cup {99}
=============================================================================

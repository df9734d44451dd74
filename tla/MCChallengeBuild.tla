-------------------------- MODULE MCChallengeBuild --------------------------
(***************************************************************************)
(* Instances of ChallengeBuild for TLC: chains of four stages, two of them *)
(* a wave, and claims that are cut, extended, wrong in one or two places   *)
(* or name another stage.                                                  *)
(***************************************************************************)
EXTENDS ChallengeBuild

WaveChain ==
  [aux |-> {2, 3}, producers |-> <<{}, {1}, {1}, {1, 2, 3}>>]
WaveAtTheEnd ==
  [aux |-> {3, 4}, producers |-> <<{}, {1}, {2}, {1, 2}>>]
MCChains == {WaveChain, WaveAtTheEnd}

(* The stages sort by name in another order than the chain's. *)
MCNameRank == <<3, 1, 4, 2>>

MCHashes == Stage \cup {99}
MCStageHash == [i \in Stage |-> i]
HonestList == [i \in Stage |-> i]

Corrupt(list, places, value) ==
  [i \in DOMAIN list |-> IF i \in places THEN value ELSE list[i]]
Places == {{}, {1}, {2}, {3}, {4}, {2, 4}}

MCClaimedLists ==
  {Corrupt(list, p, 99) :
     list \in {HonestList, SubSeq(HonestList, 1, 2), <<>>, HonestList \o <<99>>}, p \in Places}

HonestTrace == [i \in Stage |-> HonestCheckpoint(i)]
MCClaimedTraces ==
  {Corrupt(trace, p, c) :
     trace \in {HonestTrace, SubSeq(HonestTrace, 1, 2), <<>>, Append(HonestTrace, HonestTrace[2])},
     p \in Places,
     c \in {[stage |-> 3, hash |-> 99], [stage |-> NoStage, hash |-> 2]}}
=============================================================================

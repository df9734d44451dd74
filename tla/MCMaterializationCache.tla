----------------------- MODULE MCMaterializationCache -----------------------
(***************************************************************************)
(* Instances of MaterializationCache for TLC: three threads and three      *)
(* keys, so that a full cache of two entries evicts while others load.     *)
(***************************************************************************)
EXTENDS MaterializationCache, TLC

CONSTANTS k1, k2, k3, t1, t2, t3

MCKeys == {k1, k2, k3}
MCThreads == {t1, t2, t3}

(* All threads want the same weights; one after the other, each other's;   *)
(* more keys than the cache holds; and calls without a key. *)
MCPrograms ==
  {[t \in MCThreads |-> <<k1, k2>>],
   (t1 :> <<k1, k2, k1>> @@ t2 :> <<k2, k3>> @@ t3 :> <<k1>>),
   (t1 :> <<k1, k2>> @@ t2 :> <<k2, k1>> @@ t3 :> <<k3, k1>>),
   (t1 :> <<NoKey, k1>> @@ t2 :> <<k1, NoKey>> @@ t3 :> <<k2, k1>>)}
=============================================================================

-------------------------- MODULE HashVerification --------------------------
(***************************************************************************)
(* What hash verification promises whoever runs a challenge                *)
(* (docs/workflows/challenge-build.md, run_until_hash_divergence): the     *)
(* recomputed checkpoints are compared with the claimed hashes one by one, *)
(* in chain order, the first disagreement ends the comparison and is the   *)
(* verdict, and a claim is accepted only when both lists are exhausted     *)
(* together.  Recomputation may fail, which gives no verdict.  Waves,      *)
(* pools, caches and files do not appear here.                             *)
(***************************************************************************)
EXTENDS Naturals, Sequences

CONSTANTS
  NumStages,   (* checkpoints of the honest run                              *)
  StageHash,   (* their hashes                                               *)
  Claims       (* the claimed lists                                          *)

VARIABLES
  claimed,   (* the claimed hash list                                        *)
  checked,   (* checkpoints compared so far                                  *)
  outcome,   (* "open", "agrees", "diverges" or "aborted"; "none" where      *)
             (* nobody claims anything                                       *)
  at         (* index of the divergence, 0 if none                           *)

vars == <<claimed, checked, outcome, at>>

Agrees(i) == i <= Len(claimed) /\ claimed[i] = StageHash[i]

Init ==
  /\ claimed \in Claims
  /\ checked = 0 /\ outcome \in {"open", "none"} /\ at = 0

(* The next checkpoint of the honest run against the claim.                *)
Check ==
  /\ outcome = "open" /\ checked < NumStages
  /\ checked' = checked + 1
  /\ IF Agrees(checked')
     THEN UNCHANGED <<outcome, at>>
     ELSE outcome' = "diverges" /\ at' = checked'
  /\ UNCHANGED claimed

(* All checkpoints agree: does the claim go on?                            *)
Conclude ==
  /\ outcome = "open" /\ checked = NumStages
  /\ IF Len(claimed) > NumStages
     THEN outcome' = "diverges" /\ at' = NumStages + 1
     ELSE outcome' = "agrees" /\ UNCHANGED at
  /\ UNCHANGED <<claimed, checked>>

(* A stage could not be recomputed.                                        *)
GiveUp ==
  /\ outcome = "open"
  /\ outcome' = "aborted"
  /\ UNCHANGED <<claimed, checked, at>>

Next == Check \/ Conclude \/ GiveUp

Spec == Init /\ [][Next]_vars
FairSpec == Spec /\ WF_vars(Next)
=============================================================================

------------------------------ MODULE InferRun ------------------------------
(***************************************************************************)
(* A chain manifest is expanded, and then either the uncheckpointed runner *)
(* runs the chain, or the direct runtime computes the same boundaries and  *)
(* the parity gate judges them.                                            *)
(***************************************************************************)
EXTENDS UncheckpointedRun, ParityGate

vars == <<expansionVars, directVars, gateVars, inferVars>>

Init == InitDirect /\ InitGate /\ InitInfer

Next ==
  \/ NextExpansion /\ UNCHANGED <<directVars, gateVars, inferVars>>
  \/ infer = "none" /\ NextDirect /\ UNCHANGED <<gateVars, inferVars>>
  \/ Judge /\ UNCHANGED inferVars
  \/ step = "none" /\ NextInfer /\ UNCHANGED <<directVars, gateVars>>

Spec == Init /\ [][Next]_vars
=============================================================================

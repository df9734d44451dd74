----------------------------- MODULE MCClaimBuild -----------------------------
(***************************************************************************)
(* An instance of ClaimBuild for TLC: two contents of each file, and three *)
(* edits and two imports at any time.                                      *)
(***************************************************************************)
EXTENDS ClaimBuild

MCContents == {1, 2}
=============================================================================

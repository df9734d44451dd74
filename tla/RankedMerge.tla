----------------------------- MODULE RankedMerge -----------------------------
(***************************************************************************)
(* What ranked byte-pair merging promises, without batches, buckets and    *)
(* scans: as long as some rule applies to two neighbouring pieces of one   *)
(* segment, the rule of the least rank is applied, at its leftmost place;  *)
(* when none applies the pieces are the tokens of the prompt.              *)
(***************************************************************************)
EXTENDS Integers, Sequences

CONSTANTS
  Piece,  (* records with a text and a segment                               *)
  Rules   (* the merges, by increasing rank: left, right, merged             *)

VARIABLES pieces, progress

(* Rule r applies to the pieces at i and i + 1. *)
Applies(i, r) ==
  /\ i \in 1 .. (Len(pieces) - 1) /\ r \in DOMAIN Rules
  /\ pieces[i].segment = pieces[i + 1].segment
  /\ pieces[i].text = Rules[r].left /\ pieces[i + 1].text = Rules[r].right

IsBest(i, r) ==
  /\ Applies(i, r)
  /\ \A j \in 1 .. (Len(pieces) - 1), q \in DOMAIN Rules :
       Applies(j, q) => r < q \/ (r = q /\ i <= j)

(* The pieces with those at i and i + 1 replaced by one of the given text. *)
Joined(i, text) ==
  [k \in 1 .. (Len(pieces) - 1) |->
     IF k < i THEN pieces[k]
     ELSE IF k = i THEN [pieces[i] EXCEPT !.text = text]
     ELSE pieces[k + 1]]

Init == pieces = <<>> /\ progress = "prompt"

Begin ==
  /\ progress = "prompt" /\ progress' = "merging"
  /\ pieces' \in Seq(Piece)

Merge ==
  /\ progress = "merging" /\ UNCHANGED progress
  /\ \E i \in 1 .. (Len(pieces) - 1), r \in DOMAIN Rules :
       IsBest(i, r) /\ pieces' = Joined(i, Rules[r].merged)

End ==
  /\ progress = "merging" /\ progress' = "tokens"
  /\ \A i \in 1 .. (Len(pieces) - 1), r \in DOMAIN Rules : ~Applies(i, r)
  /\ UNCHANGED pieces

Next == Begin \/ Merge \/ End

Spec == Init /\ [][Next]_<<pieces, progress>>
=============================================================================

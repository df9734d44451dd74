---------------------------- MODULE GreedyDecoding ----------------------------
(***************************************************************************)
(* What generation promises: a model scores every token of its vocabulary, *)
(* the first of the best is taken, and at the end the answer is the text   *)
(* of the tokens before the first terminal one, with everything that was   *)
(* generated reported beside it.                                           *)
(***************************************************************************)
EXTENDS Integers, Sequences, SequencesExt

CONSTANTS
  Token,           (* 0 .. n - 1                                             *)
  Decoder,         (* token -> its row of the decoder table                  *)
  Lead, Trail,     (* the bytes of a character of two bytes                  *)
  Letter, Garbage  (* that character, and the replacement character          *)

VARIABLES scores, ids, output

Unscored == [t \in {} |-> 0]
Nothing == [count |-> -1]

FirstOfBest(s) ==
  CHOOSE t \in Token : \A u \in Token : s[u] < s[t] \/ (s[u] = s[t] /\ t <= u)

-----------------------------------------------------------------------------
(* The text of generated tokens.                                           *)

(* A run of bytes as UTF-8, with a replacement for each byte that belongs  *)
(* to no character.                                                        *)
Lossy(bytes) ==
  LET Starts(i) == bytes[i] = Lead /\ i < Len(bytes) /\ bytes[i + 1] = Trail
      Char(i) == IF Starts(i) THEN <<Letter>>
                 ELSE IF i > 1 /\ Starts(i - 1) THEN <<>> ELSE <<Garbage>>
  IN  FlattenSeq([i \in 1 .. Len(bytes) |-> Char(i)])

IsByte(t) == Decoder[t].byte # "none" /\ ~Decoder[t].special
StopsAt(s) == {i \in DOMAIN s : Decoder[s[i]].terminal}
Visible(s) ==
  IF StopsAt(s) = {} THEN s
  ELSE SubSeq(s, 1, (CHOOSE i \in StopsAt(s) : \A j \in StopsAt(s) : i <= j) - 1)

(* The bytes of the longest run that starts at i. *)
RunFrom(s, i) ==
  LET last == CHOOSE j \in i .. Len(s) :
                /\ \A k \in i .. j : IsByte(s[k])
                /\ j = Len(s) \/ ~IsByte(s[j + 1])
  IN  [k \in 1 .. (last - i + 1) |-> Decoder[s[i + k - 1]].byte]

TextAt(s, i) ==
  IF Decoder[s[i]].special THEN <<>>
  ELSE IF ~IsByte(s[i]) THEN <<Decoder[s[i]].text>>
  ELSE IF i > 1 /\ IsByte(s[i - 1]) THEN <<>> ELSE Lossy(RunFrom(s, i))

TextOf(s) == FlattenSeq([i \in 1 .. Len(s) |-> TextAt(s, i)])
Answer(s) == TextOf(Visible(s))

Report(s) ==
  [count |-> Len(s), ids |-> s, digest |-> s, text |-> Answer(s),
   reason |-> IF StopsAt(s) = {} THEN "max_new_tokens" ELSE "eos"]

-----------------------------------------------------------------------------
Init == scores = Unscored /\ ids = <<>> /\ output = Nothing

ScoreAll ==
  /\ output = Nothing
  /\ scores' \in [Token -> Int]
  /\ UNCHANGED <<ids, output>>

Choose ==
  /\ scores # Unscored /\ output = Nothing
  /\ ids' = Append(ids, FirstOfBest(scores))
  /\ scores' = Unscored
  /\ UNCHANGED output

Publish ==
  /\ output = Nothing
  /\ output' = Report(ids)
  /\ UNCHANGED <<scores, ids>>

Next == ScoreAll \/ Choose \/ Publish
Spec == Init /\ [][Next]_<<scores, ids, output>>
=============================================================================

--------------------------- MODULE PromptTokenizer ---------------------------
(***************************************************************************)
(* Tokenization of a prompt: split_prompt of run-prep, the prompt_merge    *)
(* stages and the prompt_prepare stage of the chain, and the unbounded     *)
(* loop of the direct runtime.                                             *)
(*                                                                         *)
(* The number of merge stages is fixed when the run is prepared.  A stage  *)
(* does at most MergesPerBatch merges, with the native kernel, which stops *)
(* early, or as tiles under Raster, which do all rounds and leave the      *)
(* pieces alone when nothing applies.  Which of the two executes a stage   *)
(* is chosen for each one, as the reference stage of a run and the replay  *)
(* of a challenge do.  A merge is preceded by a scan of the pieces, one    *)
(* piece a step.  A token stands for its text and its id.                  *)
(***************************************************************************)
EXTENDS Integers, Sequences, FiniteSets

CONSTANTS
  Token,           (* texts of pieces                                        *)
  Vocab,           (* the tokens of the vocabulary                           *)
  Special,         (* the added tokens                                       *)
  Char,            (* characters, as the tokens they are once normalized     *)
  Space,           (* the space, where it is not replaced                    *)
  Bytes,           (* the byte tokens of a character                         *)
  Profiles,        (* the tokenizer options that may be set                  *)
  Unknown,         (* unk_token                                              *)
  NoToken,         (* no unk_token                                           *)
  Rules,           (* the merges, by increasing rank: left, right, merged    *)
  BucketOf,        (* the hash of a pair of tokens                           *)
  MergesPerBatch,
  Prompts          (* sequences of characters and added tokens               *)

(* validate_tokenizer_profile and prompt_tokenizer refuse anything else.   *)
Profile == [splitSpaces : BOOLEAN, byteFallback : BOOLEAN, fuseUnknown : BOOLEAN,
            unknown : {Unknown, NoToken}]

ASSUME TokenizerAssumption ==
  /\ Vocab \subseteq Token /\ Special \subseteq Vocab /\ Char \subseteq Token
  /\ Unknown \in Vocab /\ NoToken \notin Token
  /\ Char \cap Special = {}
  /\ Bytes \in [Char -> Seq(Token)]
  /\ Profiles \subseteq Profile
  /\ Rules \in Seq([left : Vocab, right : Vocab, merged : Vocab])
  /\ BucketOf \in [Token \X Token -> Nat]
  /\ MergesPerBatch \in Nat \ {0}
  /\ Prompts \subseteq Seq(Char \cup Special)

Piece == [text : Token, segment : Nat]

VARIABLES
  profile, prompt, runtime,  (* the input, and which runtime: staged, direct *)
  phase,
  at, segment, afterUnknown, (* split_prompt: symbols taken, the segment,    *)
                             (* whether the last piece is the unknown token  *)
  pieces,
  batches, batch,            (* merge stages in the chain, and completed     *)
  how, round,                (* who executes the stage, merges it has tried  *)
  scanned, best              (* the pieces looked at, the best match in them *)

inputVars == <<profile, prompt, runtime>>
splitVars == <<at, segment, afterUnknown>>
stageVars == <<batches, batch, how>>
vars == <<inputVars, phase, splitVars, pieces, stageVars, round, scanned, best>>

-----------------------------------------------------------------------------
(* The tables, and what is computed from them.                             *)

NoMatch == [rank |-> 0, left |-> 0]
Count == Len(pieces)

(* Faults: mistakes that would break a property, used by no action.        *)
AnySegment(i) == TRUE
RoundedDown(n) == IF n \div MergesPerBatch = 0 THEN 1 ELSE n \div MergesPerBatch
LastOfEquals(rank) == rank # 0 /\ (best.rank = 0 \/ rank <= best.rank)
OnlyWhenFull == how # "none" /\ round = MergesPerBatch

(* A pair of neighbours may be merged within a segment only. *)
SameSegment(i) == pieces[i].segment = pieces[i + 1].segment

(* The rules in the bucket that the pair hashes to; those that match.      *)
Bucket(left, right) ==
  {r \in DOMAIN Rules : BucketOf[<<Rules[r].left, Rules[r].right>>] = BucketOf[<<left, right>>]}
Matching(left, right) ==
  {r \in Bucket(left, right) : Rules[r].left = left /\ Rules[r].right = right}

(* The rank of the first rule for the pieces at i and i + 1, 0 if none.    *)
RankAt(i) ==
  IF SameSegment(i) /\ Matching(pieces[i].text, pieces[i + 1].text) # {}
  THEN CHOOSE r \in Matching(pieces[i].text, pieces[i + 1].text) :
         \A q \in Matching(pieces[i].text, pieces[i + 1].text) : r <= q
  ELSE 0

(* A match replaces the best one only if it has a smaller rank.            *)
IsBetter(rank) == rank # 0 /\ (best.rank = 0 \/ rank < best.rank)

(* The pieces after the best merge.                                        *)
Merged ==
  [k \in 1 .. (Count - 1) |->
     IF k < best.left THEN pieces[k]
     ELSE IF k = best.left THEN [pieces[k] EXCEPT !.text = Rules[best.rank].merged]
     ELSE pieces[k + 1]]

(* tokenizer_repeat_count, and the stage before the repeats: as many       *)
(* batches as n merges need, at least one.                                 *)
BatchesFor(n) ==
  LET full == n \div MergesPerBatch
      needed == IF n % MergesPerBatch = 0 THEN full ELSE full + 1
  IN  IF needed = 0 THEN 1 ELSE needed

-----------------------------------------------------------------------------
Init ==
  /\ profile \in Profiles /\ prompt \in Prompts
  /\ runtime \in {"staged", "direct"}
  /\ phase = "split"
  /\ at = 0 /\ segment = 0 /\ afterUnknown = FALSE
  /\ pieces = <<>>
  /\ batches = 0 /\ batch = 0 /\ how = "none" /\ round = 0
  /\ scanned = 0 /\ best = NoMatch

(* split_prompt takes the next symbol c of the prompt.                     *)
Take(c) ==
  /\ phase = "split" /\ at < Len(prompt) /\ prompt[at + 1] = c
  /\ at' = at + 1
  /\ UNCHANGED <<inputVars, phase, stageVars, round, scanned, best>>

Piecewise(texts) == pieces' = pieces \o [k \in 1 .. Len(texts) |-> [text |-> texts[k], segment |-> segment]]

(* A space ends the segment in a profile that splits at spaces, unless the *)
(* normalizer has replaced it.                                             *)
EndsSegment(c) == profile.splitSpaces /\ c = Space

CanFallBack(c) ==
  profile.byteFallback /\ \A k \in DOMAIN Bytes[c] : Bytes[c][k] \in Vocab

AfterChar(c, isUnknown) ==
  /\ segment' = IF EndsSegment(c) THEN segment + 1 ELSE segment
  /\ afterUnknown' = (isUnknown /\ ~EndsSegment(c))

TakeSpecial(c) ==
  /\ c \in Special /\ Take(c)
  /\ pieces' = Append(pieces, [text |-> c, segment |-> segment + 1])
  /\ segment' = segment + 2 /\ afterUnknown' = FALSE

TakeKnown(c) ==
  /\ c \in Char \cap Vocab /\ Take(c)
  /\ Piecewise(<<c>>) /\ AfterChar(c, FALSE)

TakeBytes(c) ==
  /\ c \in Char \ Vocab /\ CanFallBack(c) /\ Take(c)
  /\ Piecewise(Bytes[c]) /\ AfterChar(c, FALSE)

(* The unknown token, once for a run of unknown characters if fused. *)
TakeUnknown(c) ==
  /\ c \in Char \ Vocab /\ ~CanFallBack(c) /\ profile.unknown # NoToken /\ Take(c)
  /\ IF profile.fuseUnknown /\ afterUnknown
     THEN UNCHANGED pieces
     ELSE Piecewise(<<profile.unknown>>)
  /\ AfterChar(c, TRUE)

DropChar(c) ==
  /\ c \in Char \ Vocab /\ ~CanFallBack(c) /\ profile.unknown = NoToken /\ Take(c)
  /\ UNCHANGED pieces /\ AfterChar(c, FALSE)

(* The number of stages of the chain is written into the run manifest.     *)
EndSplit ==
  /\ phase = "split" /\ at = Len(prompt)
  /\ phase' = "merge"
  /\ batches' = BatchesFor(IF Count = 0 THEN 0 ELSE Count - 1)
  /\ UNCHANGED <<inputVars, splitVars, pieces, batch, how, round, scanned, best>>

(* The next prompt_merge stage, or the one loop of the direct runtime.     *)
StageToBegin == phase = "merge" /\ how = "none" /\ batch < batches
BeginStage ==
  /\ StageToBegin
  /\ how' \in IF runtime = "direct" THEN {"loop"} ELSE {"kernel", "tiles"}
  /\ round' = 0 /\ scanned' = 0 /\ best' = NoMatch
  /\ UNCHANGED <<inputVars, phase, splitVars, pieces, batches, batch>>

(* A stage is over after MergesPerBatch rounds.                            *)
RoundsDone == how \in {"kernel", "tiles"} /\ round = MergesPerBatch
MoreToScan == phase \in {"merge", "finalize"} /\ scanned < Count
Scanning == (phase = "finalize" \/ how # "none") /\ ~RoundsDone

(* begin_ranked_step, scan_merge_rules and finish_ranked_step for the next *)
(* piece, or the next window of best_merge.                                *)
ScanPair ==
  /\ Scanning /\ MoreToScan
  /\ scanned' = scanned + 1
  /\ best' = IF scanned > 0 /\ IsBetter(RankAt(scanned))
             THEN [rank |-> RankAt(scanned), left |-> scanned]
             ELSE best
  /\ UNCHANGED <<inputVars, phase, splitVars, pieces, stageVars, round>>

ScanDone == Scanning /\ scanned = Count

(* apply, apply_ranked_merge. *)
MergeBest ==
  /\ phase = "merge" /\ ScanDone /\ best # NoMatch
  /\ pieces' = Merged
  /\ round' = IF how = "loop" THEN 0 ELSE round + 1
  /\ scanned' = 0 /\ best' = NoMatch
  /\ UNCHANGED <<inputVars, phase, splitVars, stageVars>>

(* Nothing to merge: the tiles go through their other rounds all the same. *)
IdleRound ==
  /\ phase = "merge" /\ how = "tiles" /\ ScanDone /\ best = NoMatch
  /\ round' = round + 1 /\ scanned' = 0
  /\ UNCHANGED <<inputVars, phase, splitVars, pieces, stageVars, best>>

StageDone == RoundsDone \/ (how \in {"kernel", "loop"} /\ ScanDone /\ best = NoMatch)
EndStage ==
  /\ phase = "merge" /\ StageDone
  /\ how' = "none" /\ scanned' = 0
  /\ batch' = IF how = "loop" THEN batches ELSE batch + 1
  /\ UNCHANGED <<inputVars, phase, splitVars, pieces, batches, round, best>>

(* prompt_prepare, finalize_prompt: one more scan, which must find nothing.*)
BeginFinalize ==
  /\ phase = "merge" /\ how = "none" /\ batch = batches
  /\ phase' = "finalize" /\ round' = 0 /\ scanned' = 0 /\ best' = NoMatch
  /\ UNCHANGED <<inputVars, splitVars, pieces, stageVars>>

Absent == \E k \in 1 .. Count : pieces[k].text \notin Vocab

Finalize ==
  /\ phase = "finalize" /\ ScanDone
  /\ phase' = IF best # NoMatch THEN "exhausted" ELSE IF Absent THEN "absent" ELSE "tokens"
  /\ UNCHANGED <<inputVars, splitVars, pieces, stageVars, round, scanned, best>>

Split ==
  \/ \E c \in Special : TakeSpecial(c)
  \/ \E c \in Char : TakeKnown(c) \/ TakeBytes(c) \/ TakeUnknown(c) \/ DropChar(c)
  \/ EndSplit

Next ==
  \/ Split
  \/ BeginStage \/ ScanPair \/ MergeBest \/ IdleRound \/ EndStage
  \/ BeginFinalize \/ Finalize

Spec == Init /\ [][Next]_vars

(* Every step is one of a loop of one thread. *)
FairSpec == Spec /\ WF_vars(Next)
-----------------------------------------------------------------------------
(* Properties.                                                             *)

(* Every variable has its type. *)
TypeOK ==
  /\ profile \in Profiles /\ prompt \in Prompts
  /\ runtime \in {"staged", "direct"}
  /\ phase \in {"split", "merge", "finalize", "exhausted", "absent", "tokens"}
  /\ at \in 0 .. Len(prompt) /\ segment \in Nat /\ afterUnknown \in BOOLEAN
  /\ pieces \in Seq(Piece)
  /\ batches \in Nat /\ batch \in 0 .. batches
  /\ how \in {"none", "kernel", "tiles", "loop"} /\ round \in 0 .. MergesPerBatch
  /\ scanned \in 0 .. Count
  /\ best.rank \in {0} \cup DOMAIN Rules /\ best.left \in 0 .. Count

M == INSTANCE RankedMerge WITH
       pieces <- IF phase = "split" THEN <<>> ELSE pieces,
       progress <- CASE phase = "split" -> "prompt"
                     [] phase = "tokens" -> "tokens"
                     [] OTHER -> "merging"

(* The match that a scan has kept is the one of least rank, and of these   *)
(* the leftmost, among the pieces that it has looked at: the rules are     *)
(* those of the tables, whatever bucket they are in. *)
ScanIsBest ==
  IF best = NoMatch
  THEN \A i \in 1 .. (scanned - 1), r \in DOMAIN Rules : ~M!Applies(i, r)
  ELSE /\ best.left \in 1 .. (scanned - 1) /\ M!Applies(best.left, best.rank)
       /\ \A i \in 1 .. (scanned - 1), r \in DOMAIN Rules :
            M!Applies(i, r) => best.rank < r \/ (best.rank = r /\ best.left <= i)

(* The chain has enough stages for its prompt, however they are executed,  *)
(* and every piece that is left has an id: a prepared run never fails to   *)
(* tokenize ("tokenization budget exhausted", "absent from vocabulary"). *)
TokenizationSucceeds == phase \notin {"exhausted", "absent"}

(* split_prompt gives a special token at position j of the prompt this     *)
(* segment.                                                                *)
SegmentOf(j) ==
  1 + 2 * Cardinality({k \in 1 .. (j - 1) : prompt[k] \in Special})
    + Cardinality({k \in 1 .. (j - 1) : prompt[k] \notin Special /\ EndsSegment(prompt[k])})

(* An added token of the prompt (a turn marker) reaches the end as a piece *)
(* of its own, never merged with text beside it, and the segments keep     *)
(* their order. *)
SpecialsSurvive ==
  phase # "split" =>
    /\ \A j \in 1 .. Len(prompt) : prompt[j] \in Special =>
         \E i \in 1 .. Count : pieces[i] = [text |-> prompt[j], segment |-> SegmentOf(j)]
    /\ \A i, k \in 1 .. Count : i < k => pieces[i].segment <= pieces[k].segment

(* Batches, buckets, scans and the way a stage is executed make no         *)
(* difference: the pieces go through the same merges, and end when none is *)
(* left, in the staged and in the direct runtime. *)
MergesAreRanked == M!Spec

(* Every prompt is tokenized. *)
TokenizationEnds == <>(phase = "tokens")
=============================================================================

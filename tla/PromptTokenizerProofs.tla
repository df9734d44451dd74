------------------------ MODULE PromptTokenizerProofs ------------------------
(***************************************************************************)
(* Theorems about PromptTokenizer, for any tables, prompts and batch size. *)
(*                                                                         *)
(* A tokenization can fail only in its last stage, when a merge is still   *)
(* possible after all batches.  What has to be carried through the run is  *)
(* the account of BudgetInv: the merges left in the chain are enough for   *)
(* the pieces left, since each merge takes one of either away, unless      *)
(* nothing can be merged any more.  That a batch which found nothing may   *)
(* stop early needs ScanIsBest, the invariant of the scan.                 *)
(***************************************************************************)
EXTENDS PromptTokenizer, WellFoundedInduction, SequenceTheorems, FiniteSetTheorems, TLAPS

(* Nothing can be merged. *)
Settled == \A i \in 1 .. (Count - 1), r \in DOMAIN Rules : ~M!Applies(i, r)

(* Where the stages are, and what is at rest between scans. *)
StageInv ==
  /\ phase = "split" => batches = 0 /\ batch = 0
  /\ phase # "split" => batches > 0
  /\ phase # "merge" => how = "none"
  /\ how # "none" => batch < batches
  /\ how \in {"kernel", "tiles"} => runtime = "staged"
  /\ how = "loop" => runtime = "direct"
  /\ phase \in {"split", "merge"} /\ how = "none" => scanned = 0 /\ best = NoMatch
  /\ how = "loop" => round = 0
  /\ RoundsDone => scanned = 0 /\ best = NoMatch
  /\ phase \in {"finalize", "exhausted", "absent", "tokens"} => batch = batches

(* Merges that the staged chain may still do. *)
Budget == MergesPerBatch * (batches - batch) - (IF how = "none" THEN 0 ELSE round)

BudgetInv ==
  /\ phase = "merge" /\ runtime = "staged" => Settled \/ Count - 1 <= Budget
  /\ phase = "merge" /\ runtime = "direct" /\ batch = batches => Settled
  /\ phase = "merge" /\ runtime = "direct" => batch = 0 \/ batch = batches
  /\ phase \in {"finalize", "exhausted", "absent", "tokens"} => Settled

KnownInv == \A k \in 1 .. Count : pieces[k].text \in Vocab

TokenInv ==
  /\ TypeOK /\ StageInv /\ ScanIsBest /\ BudgetInv /\ KnownInv
  /\ TokenizationSucceeds
-----------------------------------------------------------------------------
(* Facts about the operators.                                              *)

SmallerNat == {p \in Nat \X Nat : p[1] < p[2]}

(* A set of natural numbers that is not empty has a least element. *)
LEMMA LeastNumber ==
  ASSUME NEW T, T \subseteq Nat, T # {}
  PROVE  \E x \in T : \A y \in T : x <= y
  <1>1. IsWellFoundedOn(SmallerNat, Nat)
    <2>1. OpToRel(<, Nat) = SmallerNat
      BY DEF OpToRel, SmallerNat
    <2> QED
      BY <2>1, NatLessThanWellFounded
  <1>2. \E x \in T : \A y \in T : <<y, x>> \notin SmallerNat
    BY <1>1, WFMin
  <1>3. ASSUME NEW x \in Nat, NEW y \in Nat, <<y, x>> \notin SmallerNat
        PROVE  x <= y
    <2>1. <<y, x>> \in Nat \X Nat
      OBVIOUS
    <2>2. ~(y < x)
      BY <1>3, <2>1 DEF SmallerNat
    <2> QED
      BY <2>2
  <1> QED
    BY <1>2, <1>3

LEMMA Division ==
  ASSUME NEW n \in Nat, NEW m \in Nat, m > 0
  PROVE  /\ n \div m \in Nat /\ n % m \in 0 .. (m - 1)
         /\ n = m * (n \div m) + (n % m)
  <1>1. n \div m \in Nat /\ n % m \in 0 .. (m - 1)
    OBVIOUS
  <1>2. n = m * (n \div m) + (n % m)
    OBVIOUS
  <1> QED
    BY <1>1, <1>2

(* The chain that is prepared for n merges can do n merges. *)
LEMMA EnoughBatches ==
  ASSUME NEW n \in Nat
  PROVE  BatchesFor(n) \in Nat /\ BatchesFor(n) > 0 /\ n <= MergesPerBatch * BatchesFor(n)
  <1> DEFINE full == n \div MergesPerBatch
  <1>1. /\ MergesPerBatch \in Nat /\ MergesPerBatch > 0
        /\ full \in Nat /\ n % MergesPerBatch \in 0 .. (MergesPerBatch - 1)
        /\ n = MergesPerBatch * full + (n % MergesPerBatch)
    <2>1. MergesPerBatch \in Nat /\ MergesPerBatch > 0
      BY TokenizerAssumption
    <2> QED
      BY <2>1, Division
  <1> HIDE DEF full
  <1>2. MergesPerBatch * (full + 1) = MergesPerBatch * full + MergesPerBatch
    BY <1>1
  <1>3. BatchesFor(n) = IF n % MergesPerBatch = 0 THEN (IF full = 0 THEN 1 ELSE full)
                        ELSE (IF full + 1 = 0 THEN 1 ELSE full + 1)
    BY DEF BatchesFor, full
  <1> QED
    BY <1>1, <1>2, <1>3

(* RankAt finds the rule of least rank that applies, in its bucket, if one *)
(* applies at all. *)
LEMMA RankAtIsLeast ==
  ASSUME TypeOK, phase # "split", NEW i \in 1 .. (Count - 1)
  PROVE  /\ RankAt(i) \in {0} \cup DOMAIN Rules
         /\ RankAt(i) # 0 => M!Applies(i, RankAt(i))
         /\ \A r \in DOMAIN Rules : M!Applies(i, r) => RankAt(i) # 0 /\ RankAt(i) <= r
  <1> DEFINE S == Matching(pieces[i].text, pieces[i + 1].text)
  <1>1. S = {r \in DOMAIN Rules : Rules[r].left = pieces[i].text /\ Rules[r].right = pieces[i + 1].text}
    BY DEF Matching, Bucket
  <1>2. DOMAIN Rules \subseteq Nat \ {0}
    BY TokenizerAssumption
  <1>3. \A r \in DOMAIN Rules : M!Applies(i, r) <=> SameSegment(i) /\ r \in S
    BY <1>1 DEF M!Applies, SameSegment, Count
  <1>4. ASSUME S # {}
        PROVE  \E r \in S : \A q \in S : r <= q
    BY <1>1, <1>2, <1>4, LeastNumber
  <1> DEFINE least == CHOOSE r \in S : \A q \in S : r <= q
  <1>5. S # {} => least \in S /\ \A q \in S : least <= q
    BY <1>4
  <1>6. RankAt(i) = IF SameSegment(i) /\ S # {} THEN least ELSE 0
    BY DEF RankAt
  <1> HIDE DEF S, least
  <1>7. S \subseteq DOMAIN Rules
    BY <1>1
  <1> QED
    BY <1>2, <1>3, <1>5, <1>6, <1>7

(* A prompt's characters that give pieces give them from the vocabulary. *)
LEMMA PiecewiseKnown ==
  ASSUME TypeOK, KnownInv, NEW texts \in Seq(Vocab), Piecewise(texts)
  PROVE  pieces' \in Seq(Piece) /\ KnownInv'
  <1> DEFINE new == [k \in 1 .. Len(texts) |-> [text |-> texts[k], segment |-> segment]]
  <1>1. Vocab \subseteq Token /\ segment \in Nat /\ pieces \in Seq(Piece)
    BY TokenizerAssumption DEF TypeOK
  <1>2. new \in Seq(Piece) /\ Len(new) = Len(texts) /\ \A k \in 1 .. Len(new) : new[k].text \in Vocab
    BY <1>1 DEF Piece
  <1>3. pieces' = pieces \o new
    BY DEF Piecewise
  <1> HIDE DEF new
  <1>4. pieces' \in Seq(Piece) /\ Len(pieces') = Count + Len(new)
    BY <1>1, <1>2, <1>3, ConcatProperties DEF Count
  <1>5. ASSUME NEW k \in 1 .. Len(pieces')
        PROVE  pieces'[k].text \in Vocab
    <2>1. CASE k <= Count
      BY <1>1, <1>2, <1>3, <1>4, <2>1 DEF Count, KnownInv
    <2>2. CASE k > Count
      <3>1. k - Count \in 1 .. Len(new) /\ pieces'[k] = new[k - Count]
        BY <1>1, <1>2, <1>3, <1>4, <2>2 DEF Count
      <3> QED
        BY <1>2, <3>1
    <2> QED
      BY <1>1, <1>4, <2>1, <2>2 DEF Count
  <1> QED
    BY <1>4, <1>5 DEF KnownInv, Count
-----------------------------------------------------------------------------
(* The steps.                                                              *)

LEMMA InitInv == Init => TokenInv
  <1> SUFFICES ASSUME Init PROVE TokenInv
    OBVIOUS
  <1> USE DEF Init
  <1>1. prompt \in Seq(Char \cup Special) /\ MergesPerBatch \in Nat \ {0}
    BY TokenizerAssumption
  <1>2. TypeOK
    <2>1. Len(prompt) \in Nat /\ pieces \in Seq(Piece) /\ Len(pieces) = 0
      BY <1>1
    <2>2. afterUnknown \in BOOLEAN
      BY Zenon
    <2>3. /\ at \in 0 .. Len(prompt) /\ segment \in Nat /\ batches \in Nat /\ batch \in 0 .. batches
          /\ round \in 0 .. MergesPerBatch /\ scanned \in 0 .. Count
          /\ best.rank \in {0} \cup DOMAIN Rules /\ best.left \in 0 .. Count
      BY <1>1, <2>1 DEF NoMatch, Count
    <2> QED
      BY Zenon, <2>1, <2>2, <2>3 DEF TypeOK
  <1>3. StageInv
    BY <1>1 DEF StageInv, RoundsDone
  <1>4. ScanIsBest
    BY DEF ScanIsBest, NoMatch
  <1>5. BudgetInv /\ KnownInv /\ TokenizationSucceeds
    BY DEF BudgetInv, KnownInv, TokenizationSucceeds, Count
  <1> QED
    BY <1>2, <1>3, <1>4, <1>5 DEF TokenInv

(* A step of split_prompt that takes a symbol keeps all but the pieces'    *)
(* part of the invariant, which is at rest. *)
LEMMA TakeInv ==
  ASSUME TokenInv, NEW c, Take(c), pieces' \in Seq(Piece), KnownInv',
         segment' \in Nat, afterUnknown' \in BOOLEAN
  PROVE  TokenInv'
  <1> USE DEF Take, inputVars, stageVars
  <1>1. phase = "split" /\ phase' = "split" /\ TypeOK /\ StageInv
    BY DEF TokenInv
  <1>2. scanned = 0 /\ best = NoMatch /\ how = "none"
    BY <1>1 DEF StageInv
  <1>3. at' \in 0 .. Len(prompt')
    <2>1. Len(prompt) \in Nat
      BY <1>1, TokenizerAssumption DEF TypeOK
    <2> QED
      BY <1>1, <2>1 DEF TypeOK
  <1>4. TypeOK'
    <2>1. Len(pieces') \in Nat
      OBVIOUS
    <2> QED
      BY <1>1, <1>2, <1>3, <2>1 DEF TypeOK, Count, NoMatch
  <1>5. StageInv'
    BY <1>1 DEF StageInv, RoundsDone, NoMatch
  <1>6. ScanIsBest'
    BY <1>2 DEF ScanIsBest, NoMatch
  <1>7. BudgetInv' /\ TokenizationSucceeds'
    BY <1>1 DEF BudgetInv, TokenizationSucceeds
  <1> QED
    BY <1>4, <1>5, <1>6, <1>7 DEF TokenInv

LEMMA SplitInv ==
  ASSUME TokenInv, Split
  PROVE  TokenInv'
  <1> USE DEF TokenInv
  <1>1. segment \in Nat /\ afterUnknown \in BOOLEAN /\ pieces \in Seq(Piece)
    BY DEF TypeOK
  <1>2. ASSUME NEW c, NEW u \in BOOLEAN, AfterChar(c, u)
        PROVE  segment' \in Nat /\ afterUnknown' \in BOOLEAN
    BY <1>1, <1>2 DEF AfterChar
  <1>3. ASSUME UNCHANGED pieces
        PROVE  pieces' \in Seq(Piece) /\ KnownInv'
    BY <1>1, <1>3 DEF KnownInv, Count
  <1>4. ASSUME NEW c \in Special, TakeSpecial(c)
        PROVE  TokenInv'
    <2>1. c \in Vocab /\ c \in Token
      BY TokenizerAssumption
    <2> DEFINE p == [text |-> c, segment |-> segment + 1]
    <2>2. p \in Piece /\ p.text \in Vocab
      BY <1>1, <2>1 DEF Piece
    <2>3. Take(c) /\ pieces' = Append(pieces, p) /\ segment' = segment + 2 /\ afterUnknown' = FALSE
      BY Zenon, <1>4 DEF TakeSpecial
    <2> HIDE DEF p
    <2>4. pieces' \in Seq(Piece) /\ KnownInv'
      BY <1>1, <2>2, <2>3 DEF KnownInv, Count
    <2>5. segment' \in Nat
      BY <1>1, <2>3
    <2>6. afterUnknown' \in BOOLEAN
      BY Zenon, <2>3
    <2> QED
      BY <2>3, <2>4, <2>5, <2>6, TakeInv
  <1>5. ASSUME NEW c \in Char, TakeKnown(c)
        PROVE  TokenInv'
    <2>1. c \in Vocab /\ Take(c) /\ Piecewise(<<c>>) /\ AfterChar(c, FALSE)
      BY Zenon, <1>5 DEF TakeKnown
    <2>2. <<c>> \in Seq(Vocab)
      BY <2>1
    <2> QED
      BY <1>2, <2>1, <2>2, PiecewiseKnown, TakeInv
  <1>6. ASSUME NEW c \in Char, TakeBytes(c)
        PROVE  TokenInv'
    <2>1. Bytes[c] \in Seq(Token)
      BY TokenizerAssumption
    <2>2. CanFallBack(c) /\ Take(c) /\ Piecewise(Bytes[c]) /\ AfterChar(c, FALSE)
      BY Zenon, <1>6 DEF TakeBytes
    <2>3. Bytes[c] \in Seq(Vocab)
      BY <2>1, <2>2 DEF CanFallBack
    <2> QED
      BY <1>2, <2>2, <2>3, PiecewiseKnown, TakeInv
  <1>7. ASSUME NEW c \in Char, TakeUnknown(c)
        PROVE  TokenInv'
    <2>1. profile.unknown = Unknown /\ Unknown \in Vocab
      BY <1>7, TokenizerAssumption DEF TakeUnknown, TypeOK, Profile
    <2>2. <<profile.unknown>> \in Seq(Vocab)
      BY <2>1
    <2>3. Take(c) /\ AfterChar(c, TRUE) /\ (UNCHANGED pieces \/ Piecewise(<<profile.unknown>>))
      BY Zenon, <1>7 DEF TakeUnknown
    <2>4. pieces' \in Seq(Piece) /\ KnownInv'
      BY <1>3, <2>2, <2>3, PiecewiseKnown
    <2> QED
      BY <1>2, <2>3, <2>4, TakeInv
  <1>8. ASSUME NEW c \in Char, DropChar(c)
        PROVE  TokenInv'
    BY <1>2, <1>3, <1>8, TakeInv DEF DropChar
  <1>9. ASSUME EndSplit
        PROVE  TokenInv'
    <2> USE DEF EndSplit, inputVars, splitVars
    <2> DEFINE n == IF Count = 0 THEN 0 ELSE Count - 1
    <2>1. Count \in Nat /\ n \in Nat /\ (Count = 0 \/ n = Count - 1)
      BY <1>1 DEF Count
    <2>2. batches' = BatchesFor(n) /\ batches' \in Nat /\ batches' > 0 /\ n <= MergesPerBatch * batches'
      BY <1>9, <2>1, EnoughBatches
    <2>3. batch' = 0 /\ how' = "none" /\ scanned' = 0 /\ best' = NoMatch /\ round' = round
      BY <1>9 DEF StageInv
    <2>4. TypeOK'
      BY <1>9, <2>2, <2>3 DEF TypeOK, Count, NoMatch
    <2>5. StageInv'
      BY <1>9, <2>2, <2>3 DEF StageInv, RoundsDone, NoMatch
    <2>6. ScanIsBest'
      BY <2>3 DEF ScanIsBest, NoMatch
    <2>7. BudgetInv'
      <3>1. MergesPerBatch \in Nat
        BY TokenizerAssumption
      <3>2. MergesPerBatch * (batches' - batch') = MergesPerBatch * batches'
        BY <2>2, <2>3
      <3>3. Count' - 1 <= Budget'
        BY <1>9, <2>1, <2>2, <2>3, <3>1, <3>2 DEF Budget, Count
      <3> QED
        BY <1>9, <2>2, <2>3, <3>3 DEF BudgetInv
    <2>8. KnownInv' /\ TokenizationSucceeds'
      BY <1>9 DEF KnownInv, TokenizationSucceeds, Count
    <2> QED
      BY <2>4, <2>5, <2>6, <2>7, <2>8
  <1> QED
    BY <1>4, <1>5, <1>6, <1>7, <1>8, <1>9 DEF Split

LEMMA BeginStageInv ==
  ASSUME TokenInv, BeginStage
  PROVE  TokenInv'
  <1> USE DEF TokenInv, BeginStage, inputVars, splitVars
  <1>1. /\ phase = "merge" /\ phase' = "merge" /\ how = "none" /\ batch < batches
        /\ round' = 0 /\ scanned' = 0 /\ best' = NoMatch
        /\ how' \in {"kernel", "tiles", "loop"}
        /\ (how' = "loop" <=> runtime = "direct")
    BY DEF StageToBegin
  <1>2. MergesPerBatch \in Nat /\ MergesPerBatch > 0 /\ Count \in Nat
    BY TokenizerAssumption DEF TypeOK, Count
  <1>3. TypeOK'
    BY <1>1, <1>2 DEF TypeOK, Count, NoMatch
  <1>4. StageInv'
    BY <1>1, <1>2 DEF StageInv, RoundsDone, NoMatch, TypeOK
  <1>5. ScanIsBest'
    BY <1>1 DEF ScanIsBest, NoMatch
  <1>6. BudgetInv'
    <2>1. Settled => Settled'
      BY <1>1 DEF Settled, Count, M!Applies
    <2>2. Budget' = Budget
      BY <1>1 DEF Budget
    <2> QED
      BY <1>1, <2>1, <2>2 DEF BudgetInv, Count
  <1>7. KnownInv' /\ TokenizationSucceeds'
    BY DEF KnownInv, TokenizationSucceeds, Count
  <1> QED
    BY <1>3, <1>4, <1>5, <1>6, <1>7

(* The scan has one more pair behind it. *)
LEMMA ScanPairBest ==
  ASSUME TokenInv, ScanPair
  PROVE  ScanIsBest' /\ best'.rank \in {0} \cup DOMAIN Rules /\ best'.left \in 0 .. Count
  <1> USE DEF TokenInv
  <1>1. /\ phase # "split" /\ phase' = phase /\ pieces' = pieces
        /\ scanned \in Nat /\ scanned < Count /\ scanned' = scanned + 1 /\ Count \in Nat
    BY DEF ScanPair, MoreToScan, TypeOK, Count
  <1>2. DOMAIN Rules \subseteq Nat \ {0}
    BY TokenizerAssumption
  <1>3. \A i, r : M!Applies(i, r)' <=> M!Applies(i, r)
    BY <1>1 DEF M!Applies
  <1> DEFINE now == RankAt(scanned)
             P(i, r) == M!Applies(i, r)
  <1>4. scanned > 0 => /\ now \in {0} \cup DOMAIN Rules
                       /\ now # 0 => P(scanned, now)
                       /\ \A r \in DOMAIN Rules : P(scanned, r) => now # 0 /\ now <= r
    <2> SUFFICES ASSUME scanned > 0
                 PROVE  /\ now \in {0} \cup DOMAIN Rules
                        /\ now # 0 => P(scanned, now)
                        /\ \A r \in DOMAIN Rules : P(scanned, r) => now # 0 /\ now <= r
      OBVIOUS
    <2>1. scanned \in 1 .. (Count - 1)
      BY <1>1
    <2> QED
      BY <1>1, <2>1, RankAtIsLeast
  <1>5. best' = IF scanned > 0 /\ now # 0 /\ (best.rank = 0 \/ now < best.rank)
                THEN [rank |-> now, left |-> scanned] ELSE best
    BY DEF ScanPair, IsBetter
  <1>6. /\ best.rank \in {0} \cup DOMAIN Rules /\ best.left \in 0 .. Count
        /\ best # NoMatch =>
             /\ best.left \in 1 .. (scanned - 1) /\ P(best.left, best.rank)
             /\ \A i \in 1 .. (scanned - 1), r \in DOMAIN Rules :
                  P(i, r) => best.rank < r \/ (best.rank = r /\ best.left <= i)
        /\ best = NoMatch => \A i \in 1 .. (scanned - 1), r \in DOMAIN Rules : ~P(i, r)
    BY DEF ScanIsBest, TypeOK
  <1>7. best = NoMatch => best.rank = 0
    BY DEF NoMatch
  <1>8. best # NoMatch => best.rank \in DOMAIN Rules
    BY <1>6 DEF M!Applies
  <1>9. ScanIsBest' <=>
          IF best' = NoMatch
          THEN \A i \in 1 .. scanned, r \in DOMAIN Rules : ~P(i, r)
          ELSE /\ best'.left \in 1 .. scanned /\ P(best'.left, best'.rank)
               /\ \A i \in 1 .. scanned, r \in DOMAIN Rules :
                    P(i, r) => best'.rank < r \/ (best'.rank = r /\ best'.left <= i)
    <2>1. 1 .. (scanned' - 1) = 1 .. scanned
      BY <1>1
    <2> QED
      BY <1>3, <2>1 DEF ScanIsBest
  <1> HIDE DEF now, P
  <1>10. CASE scanned > 0 /\ now # 0 /\ (best.rank = 0 \/ now < best.rank)
    <2>1. best' = [rank |-> now, left |-> scanned] /\ best'.rank = now /\ best'.left = scanned
      BY <1>5, <1>10
    <2>2. best' # NoMatch
      BY <1>10, <2>1 DEF NoMatch
    <2>3. ASSUME NEW i \in 1 .. scanned, NEW r \in DOMAIN Rules, P(i, r)
          PROVE  now < r \/ (now = r /\ scanned <= i)
      <3>1. CASE i = scanned
        BY <1>1, <1>2, <1>4, <1>10, <2>3, <3>1
      <3>2. CASE i # scanned
        <4>1. i \in 1 .. (scanned - 1)
          BY <1>1, <3>2
        <4>2. best # NoMatch /\ best.rank <= r
          BY <1>2, <1>6, <1>8, <2>3, <4>1
        <4> QED
          BY <1>2, <1>4, <1>8, <1>10, <4>2
      <3> QED
        BY <3>1, <3>2
    <2>4. scanned \in 1 .. scanned /\ P(scanned, now)
      BY <1>1, <1>4, <1>10
    <2>5. ScanIsBest'
      BY <1>9, <2>1, <2>2, <2>3, <2>4
    <2> QED
      BY <1>1, <1>4, <1>10, <2>1, <2>5
  <1>11. CASE ~(scanned > 0 /\ now # 0 /\ (best.rank = 0 \/ now < best.rank))
    <2>1. best' = best
      BY <1>5, <1>11
    <2>2. ASSUME best = NoMatch, NEW i \in 1 .. scanned, NEW r \in DOMAIN Rules
          PROVE  ~P(i, r)
      <3>1. CASE i = scanned
        BY <1>1, <1>4, <1>7, <1>11, <2>2, <3>1
      <3>2. CASE i # scanned
        <4>1. i \in 1 .. (scanned - 1)
          BY <1>1, <3>2
        <4> QED
          BY <1>6, <2>2, <4>1
      <3> QED
        BY <3>1, <3>2
    <2>3. ASSUME best # NoMatch, NEW i \in 1 .. scanned, NEW r \in DOMAIN Rules, P(i, r)
          PROVE  best.rank < r \/ (best.rank = r /\ best.left <= i)
      <3>1. CASE i = scanned
        <4>1. best.rank <= now /\ now <= r /\ best.left <= scanned
          BY <1>1, <1>2, <1>4, <1>6, <1>8, <1>11, <2>3, <3>1
        <4> QED
          BY <1>1, <1>2, <1>4, <1>6, <1>8, <3>1, <4>1
      <3>2. CASE i # scanned
        <4>1. i \in 1 .. (scanned - 1)
          BY <1>1, <3>2
        <4> QED
          BY <1>6, <2>3, <4>1
      <3> QED
        BY <3>1, <3>2
    <2>4. best # NoMatch => best.left \in 1 .. scanned /\ P(best.left, best.rank)
      BY <1>1, <1>6
    <2>5. ScanIsBest'
      BY <1>9, <2>1, <2>2, <2>3, <2>4
    <2> QED
      BY <1>6, <2>1, <2>5
  <1> QED
    BY <1>10, <1>11

LEMMA ScanPairInv ==
  ASSUME TokenInv, ScanPair
  PROVE  TokenInv'
  <1> USE DEF TokenInv, inputVars, splitVars, stageVars
  <1>1. /\ UNCHANGED <<inputVars, phase, splitVars, pieces, stageVars, round>>
        /\ phase \in {"merge", "finalize"} /\ ~RoundsDone /\ (phase = "finalize" \/ how # "none")
        /\ scanned \in Nat /\ scanned < Count /\ scanned' = scanned + 1 /\ Count \in Nat
    BY DEF ScanPair, Scanning, MoreToScan, TypeOK, Count
  <1>2. ScanIsBest' /\ best'.rank \in {0} \cup DOMAIN Rules /\ best'.left \in 0 .. Count
    BY ScanPairBest
  <1>3. scanned' \in 0 .. Count
    BY <1>1
  <1>4. TypeOK'
    BY <1>1, <1>2, <1>3 DEF TypeOK, Count
  <1>5. StageInv'
    BY <1>1 DEF StageInv, RoundsDone
  <1>6. (Settled <=> Settled') /\ Budget' = Budget
    BY <1>1 DEF Settled, Budget, Count, M!Applies
  <1>7. BudgetInv' /\ KnownInv' /\ TokenizationSucceeds'
    BY <1>1, <1>6 DEF BudgetInv, KnownInv, TokenizationSucceeds, Count
  <1> QED
    BY <1>2, <1>4, <1>5, <1>7

(* A scan that is done has found nothing only if there is nothing. *)
LEMMA ScanDoneFacts ==
  ASSUME TokenInv, ScanDone, phase # "split"
  PROVE  /\ best = NoMatch => Settled
         /\ best # NoMatch =>
              /\ best.left \in 1 .. (Count - 1) /\ best.rank \in DOMAIN Rules
              /\ M!Applies(best.left, best.rank) /\ ~Settled
  <1>1. scanned = Count /\ ScanIsBest
    BY DEF ScanDone, TokenInv
  <1>2. best # NoMatch => best.rank \in DOMAIN Rules
    BY <1>1 DEF ScanIsBest, M!Applies
  <1> QED
    BY <1>1, <1>2 DEF ScanIsBest, Settled

(* The merged pieces: one less, all of them from the vocabulary. *)
LEMMA MergedFacts ==
  ASSUME TokenInv, best.left \in 1 .. (Count - 1), best.rank \in DOMAIN Rules
  PROVE  /\ Merged \in Seq(Piece) /\ Len(Merged) = Count - 1 /\ Count - 1 \in Nat
         /\ \A k \in 1 .. (Count - 1) : Merged[k].text \in Vocab
  <1>1. pieces \in Seq(Piece) /\ Count \in Nat /\ KnownInv
    BY DEF TokenInv, TypeOK, Count
  <1>2. Rules[best.rank].merged \in Vocab /\ Vocab \subseteq Token
    <2> DEFINE Rule == [left : Vocab, right : Vocab, merged : Vocab]
    <2>1. Rules \in Seq(Rule) /\ Vocab \subseteq Token
      BY TokenizerAssumption
    <2> HIDE DEF Rule
    <2>2. Rules[best.rank] \in Rule
      BY <2>1
    <2> QED
      BY <2>1, <2>2 DEF Rule
  <1>3. Count - 1 \in Nat
    BY <1>1
  <1>4. ASSUME NEW k \in 1 .. (Count - 1)
        PROVE  Merged[k] \in Piece /\ Merged[k].text \in Vocab
    <2>1. pieces[k] \in Piece /\ pieces[k + 1] \in Piece
          /\ pieces[k].text \in Vocab /\ pieces[k + 1].text \in Vocab
      BY <1>1, <1>4 DEF Count, KnownInv
    <2>2. [pieces[k] EXCEPT !.text = Rules[best.rank].merged]
            = [text |-> Rules[best.rank].merged, segment |-> pieces[k].segment]
      BY <2>1 DEF Piece
    <2>3. Merged[k] = IF k < best.left THEN pieces[k]
                      ELSE IF k = best.left
                      THEN [text |-> Rules[best.rank].merged, segment |-> pieces[k].segment]
                      ELSE pieces[k + 1]
      BY <2>2 DEF Merged
    <2> QED
      BY <1>2, <2>1, <2>3 DEF Piece
  <1>5. DOMAIN Merged = 1 .. (Count - 1)
    BY DEF Merged
  <1>6. Merged \in [1 .. (Count - 1) -> Piece]
    BY <1>4, <1>5 DEF Merged
  <1>7. Merged \in Seq(Piece) /\ Len(Merged) = Count - 1
    BY <1>3, <1>6
  <1> QED
    BY <1>3, <1>4, <1>7

LEMMA MergeBestInv ==
  ASSUME TokenInv, MergeBest
  PROVE  TokenInv'
  <1> USE DEF TokenInv, inputVars, splitVars, stageVars
  <1>1. /\ UNCHANGED <<inputVars, phase, splitVars, stageVars>>
        /\ phase = "merge" /\ ScanDone /\ best # NoMatch
        /\ pieces' = Merged /\ scanned' = 0 /\ best' = NoMatch
        /\ round' = IF how = "loop" THEN 0 ELSE round + 1
    BY DEF MergeBest
  <1>2. how # "none" /\ ~RoundsDone
    BY <1>1 DEF ScanDone, Scanning
  <1>3. /\ best.left \in 1 .. (Count - 1) /\ best.rank \in DOMAIN Rules /\ ~Settled
    BY <1>1, ScanDoneFacts
  <1>4. /\ pieces' \in Seq(Piece) /\ Count' = Count - 1 /\ Count - 1 \in Nat
        /\ \A k \in 1 .. (Count - 1) : pieces'[k].text \in Vocab
    BY <1>1, <1>3, MergedFacts DEF Count
  <1>5. MergesPerBatch \in Nat /\ round \in 0 .. MergesPerBatch /\ batches \in Nat /\ batch \in Nat
    BY TokenizerAssumption DEF TypeOK
  <1>6. round' \in 0 .. MergesPerBatch /\ (how # "loop" => round' = round + 1)
    BY <1>1, <1>2, <1>5 DEF RoundsDone, TypeOK
  <1>7. TypeOK'
    <2>1. scanned' \in 0 .. Count' /\ best'.rank \in {0} \cup DOMAIN Rules /\ best'.left \in 0 .. Count'
      BY <1>1, <1>4 DEF NoMatch
    <2> QED
      BY <1>1, <1>4, <1>6, <2>1 DEF TypeOK
  <1>8. StageInv'
    BY <1>1, <1>2, <1>5 DEF StageInv, RoundsDone, NoMatch
  <1>9. ScanIsBest'
    BY <1>1 DEF ScanIsBest, NoMatch
  <1>10. BudgetInv'
    <2>1. batch < batches
      BY <1>2 DEF StageInv
    <2>2. runtime = "staged" => how # "loop" /\ Count - 1 <= Budget
      BY <1>1, <1>3 DEF BudgetInv, StageInv
    <2>3. how # "loop" => Budget' = Budget - 1
      BY <1>1, <1>2, <1>5, <1>6 DEF Budget
    <2>4. Budget \in Int
      BY <1>5 DEF Budget
    <2> QED
      BY <1>1, <1>4, <1>5, <2>1, <2>2, <2>3, <2>4 DEF BudgetInv
  <1>11. KnownInv' /\ TokenizationSucceeds'
    BY <1>1, <1>4 DEF KnownInv, TokenizationSucceeds
  <1> QED
    BY <1>7, <1>8, <1>9, <1>10, <1>11

LEMMA IdleRoundInv ==
  ASSUME TokenInv, IdleRound
  PROVE  TokenInv'
  <1> USE DEF TokenInv, inputVars, splitVars, stageVars
  <1>1. /\ UNCHANGED <<inputVars, phase, splitVars, pieces, stageVars, best>>
        /\ phase = "merge" /\ how = "tiles" /\ ScanDone /\ best = NoMatch
        /\ round' = round + 1 /\ scanned' = 0
    BY DEF IdleRound
  <1>2. ~RoundsDone
    BY <1>1 DEF ScanDone, Scanning
  <1>3. round' \in 0 .. MergesPerBatch /\ Count \in Nat
    BY <1>1, <1>2, TokenizerAssumption DEF RoundsDone, TypeOK, Count
  <1>4. Settled'
    <2>1. Settled
      BY <1>1, ScanDoneFacts
    <2> QED
      BY <1>1, <2>1 DEF Settled, Count, M!Applies
  <1>5. TypeOK'
    BY <1>1, <1>3 DEF TypeOK, Count, NoMatch
  <1>6. StageInv'
    BY <1>1 DEF StageInv, RoundsDone
  <1>7. ScanIsBest'
    BY <1>1 DEF ScanIsBest, NoMatch
  <1>8. BudgetInv' /\ KnownInv' /\ TokenizationSucceeds'
    BY <1>1, <1>4 DEF BudgetInv, KnownInv, TokenizationSucceeds, Count
  <1> QED
    BY <1>5, <1>6, <1>7, <1>8

LEMMA EndStageInv ==
  ASSUME TokenInv, EndStage
  PROVE  TokenInv'
  <1> USE DEF TokenInv, inputVars, splitVars
  <1>1. /\ UNCHANGED <<inputVars, phase, splitVars, pieces, batches, round, best>>
        /\ phase = "merge" /\ how \in {"kernel", "tiles", "loop"}
        /\ RoundsDone \/ (how \in {"kernel", "loop"} /\ ScanDone /\ best = NoMatch)
        /\ how' = "none" /\ scanned' = 0
        /\ batch' = IF how = "loop" THEN batches ELSE batch + 1
    BY DEF EndStage, StageDone, RoundsDone
  <1>2. best = NoMatch
    BY <1>1 DEF StageInv
  <1>3. /\ batch < batches /\ batches \in Nat /\ batch \in Nat /\ Count \in Nat
        /\ MergesPerBatch \in Nat /\ round \in 0 .. MergesPerBatch
    BY <1>1, TokenizerAssumption DEF StageInv, TypeOK, Count
  <1>4. batch' \in 0 .. batches
    BY <1>1, <1>3
  <1>5. TypeOK'
    BY <1>1, <1>2, <1>3, <1>4 DEF TypeOK, Count, NoMatch
  <1>6. StageInv'
    BY <1>1, <1>2, <1>3 DEF StageInv, RoundsDone
  <1>7. ScanIsBest'
    BY <1>1, <1>2 DEF ScanIsBest, NoMatch
  <1>8. Settled => Settled'
    BY <1>1 DEF Settled, Count, M!Applies
  <1>9. ~RoundsDone => Settled
    BY <1>1, ScanDoneFacts
  <1>10. BudgetInv'
    <2>1. CASE RoundsDone
      <3>1. runtime = "staged" /\ round = MergesPerBatch /\ batch' = batch + 1
        BY <1>1, <2>1 DEF RoundsDone, StageInv
      <3>2. MergesPerBatch * (batches - (batch + 1)) = MergesPerBatch * (batches - batch) - MergesPerBatch
        BY <1>3
      <3>3. Budget = MergesPerBatch * (batches - batch) - MergesPerBatch
        BY <1>1, <3>1 DEF Budget
      <3>4. Budget' = MergesPerBatch * (batches - (batch + 1))
        <4> DEFINE more == MergesPerBatch * (batches - (batch + 1))
        <4>1. more \in Int
          BY <1>3
        <4>2. Budget' = more - 0
          BY <1>1, <3>1 DEF Budget
        <4> HIDE DEF more
        <4> QED
          BY <4>1, <4>2 DEF more
      <3> QED
        BY <1>1, <1>8, <3>1, <3>2, <3>3, <3>4 DEF BudgetInv, Count
    <2>2. CASE ~RoundsDone
      BY <1>1, <1>3, <1>8, <1>9, <2>2 DEF BudgetInv, StageInv
    <2> QED
      BY <2>1, <2>2
  <1>11. KnownInv' /\ TokenizationSucceeds'
    BY <1>1 DEF KnownInv, TokenizationSucceeds, Count
  <1> QED
    BY <1>5, <1>6, <1>7, <1>10, <1>11

LEMMA BeginFinalizeInv ==
  ASSUME TokenInv, BeginFinalize
  PROVE  TokenInv'
  <1> USE DEF TokenInv, inputVars, splitVars, stageVars
  <1>1. /\ UNCHANGED <<inputVars, splitVars, pieces, stageVars>>
        /\ phase = "merge" /\ phase' = "finalize" /\ how = "none" /\ batch = batches
        /\ round' = 0 /\ scanned' = 0 /\ best' = NoMatch
    BY DEF BeginFinalize
  <1>2. /\ Count \in Nat /\ MergesPerBatch \in Nat /\ MergesPerBatch > 0
        /\ batches \in Nat
    BY TokenizerAssumption DEF TypeOK, Count
  <1>3. Settled
    <2>1. CASE runtime = "direct"
      BY <1>1, <2>1 DEF BudgetInv
    <2>2. CASE runtime = "staged"
      <3>1. Budget = 0
        BY <1>1, <1>2 DEF Budget
      <3>2. Settled \/ Count - 1 <= 0
        BY <1>1, <2>2, <3>1 DEF BudgetInv
      <3>3. Count - 1 <= 0 => 1 .. (Count - 1) = {}
        BY <1>2
      <3> QED
        BY <3>2, <3>3 DEF Settled
    <2> QED
      BY <2>1, <2>2 DEF TypeOK
  <1>4. Settled'
    BY <1>1, <1>3 DEF Settled, Count, M!Applies
  <1>5. TypeOK'
    BY <1>1, <1>2 DEF TypeOK, Count, NoMatch
  <1>6. StageInv'
    BY <1>1 DEF StageInv, RoundsDone
  <1>7. ScanIsBest'
    BY <1>1 DEF ScanIsBest, NoMatch
  <1>8. BudgetInv' /\ KnownInv' /\ TokenizationSucceeds'
    BY <1>1, <1>4 DEF BudgetInv, KnownInv, TokenizationSucceeds, Count
  <1> QED
    BY <1>5, <1>6, <1>7, <1>8

(* The last scan finds nothing, and every piece has an id. *)
LEMMA FinalizeSucceeds ==
  ASSUME TokenInv, Finalize
  PROVE  phase = "finalize" /\ phase' = "tokens" /\ Settled
  <1>1. phase = "finalize" /\ ScanDone
        /\ phase' = IF best # NoMatch THEN "exhausted" ELSE IF Absent THEN "absent" ELSE "tokens"
    BY DEF Finalize
  <1>2. Settled /\ ~Absent
    BY <1>1 DEF TokenInv, BudgetInv, KnownInv, Absent
  <1>3. best = NoMatch
    BY <1>1, <1>2, ScanDoneFacts
  <1> QED
    BY <1>1, <1>2, <1>3

LEMMA FinalizeInv ==
  ASSUME TokenInv, Finalize
  PROVE  TokenInv'
  <1> USE DEF TokenInv, inputVars, splitVars, stageVars
  <1>1. /\ UNCHANGED <<inputVars, splitVars, pieces, stageVars, round, scanned, best>>
        /\ phase = "finalize" /\ phase' = "tokens" /\ Settled
    BY FinalizeSucceeds DEF Finalize
  <1>2. Settled'
    BY <1>1 DEF Settled, Count, M!Applies
  <1>3. TypeOK' /\ StageInv'
    BY <1>1 DEF TypeOK, StageInv, Count, RoundsDone
  <1>4. ScanIsBest'
    BY <1>1 DEF ScanIsBest, M!Applies
  <1>5. BudgetInv' /\ KnownInv' /\ TokenizationSucceeds'
    BY <1>1, <1>2 DEF BudgetInv, KnownInv, TokenizationSucceeds, Count
  <1> QED
    BY <1>3, <1>4, <1>5

LEMMA StutterInv ==
  ASSUME TokenInv, UNCHANGED vars
  PROVE  TokenInv'
  <1> USE DEF vars, inputVars, splitVars, stageVars
  <1>1. TypeOK' /\ StageInv'
    BY DEF TokenInv, TypeOK, StageInv, Count, RoundsDone
  <1>2. ScanIsBest'
    BY DEF TokenInv, ScanIsBest, M!Applies
  <1>3. (Settled <=> Settled') /\ Budget' = Budget
    BY DEF Settled, Budget, Count, M!Applies
  <1>4. BudgetInv' /\ KnownInv' /\ TokenizationSucceeds'
    BY <1>3 DEF TokenInv, BudgetInv, KnownInv, TokenizationSucceeds, Count
  <1> QED
    BY <1>1, <1>2, <1>4 DEF TokenInv

(* The invariant holds in every reachable state. *)
THEOREM TokenInvariance == Spec => []TokenInv
  <1>1. Init => TokenInv
    BY InitInv
  <1>2. TokenInv /\ [Next]_vars => TokenInv'
    BY SplitInv, BeginStageInv, ScanPairInv, MergeBestInv, IdleRoundInv, EndStageInv,
       BeginFinalizeInv, FinalizeInv, StutterInv DEF Next
  <1> QED
    BY <1>1, <1>2, PTL DEF Spec

(* Every variable keeps its type. *)
THEOREM TokenTypeCorrect == Spec => []TypeOK
  <1>1. TokenInv => TypeOK
    BY DEF TokenInv
  <1> QED
    BY <1>1, TokenInvariance, PTL

(* Whatever its scans have looked at, the match kept is the best of it. *)
THEOREM ScansFindTheBest == Spec => []ScanIsBest
  <1>1. TokenInv => ScanIsBest
    BY DEF TokenInv
  <1> QED
    BY <1>1, TokenInvariance, PTL

(* tokenizer_repeat_count suffices for every prompt and every table that   *)
(* run-prep accepts: the chain never ends with "tokenization budget        *)
(* exhausted", nor with a piece that has no id. *)
THEOREM BudgetSuffices == Spec => []TokenizationSucceeds
  <1>1. TokenInv => TokenizationSucceeds
    BY DEF TokenInv
  <1> QED
    BY <1>1, TokenInvariance, PTL
-----------------------------------------------------------------------------
(* Batches of scans implement ranked merging.                              *)

LEMMA MergeImplements ==
  ASSUME TokenInv, MergeBest
  PROVE  M!Merge
  <1>1. phase = "merge" /\ phase' = "merge" /\ ScanDone /\ best # NoMatch /\ pieces' = Merged
    BY DEF MergeBest
  <1>2. /\ best.left \in 1 .. (Count - 1) /\ best.rank \in DOMAIN Rules
        /\ M!Applies(best.left, best.rank)
    BY <1>1, ScanDoneFacts
  <1>3. M!IsBest(best.left, best.rank)
    <2>1. scanned = Count
      BY <1>1 DEF ScanDone
    <2> QED
      BY <1>1, <1>2, <2>1 DEF TokenInv, ScanIsBest, M!IsBest, Count
  <1>4. Merged = M!Joined(best.left, Rules[best.rank].merged)
    BY <1>1 DEF Merged, M!Joined, Count
  <1> QED
    BY <1>1, <1>2, <1>3, <1>4 DEF M!Merge, Count

LEMMA StepImplements ==
  ASSUME TokenInv, [Next]_vars
  PROVE  [M!Next]_<<IF phase = "split" THEN <<>> ELSE pieces,
                    CASE phase = "split" -> "prompt"
                      [] phase = "tokens" -> "tokens"
                      [] OTHER -> "merging">>
  <1> DEFINE mapped == <<IF phase = "split" THEN <<>> ELSE pieces,
                         CASE phase = "split" -> "prompt"
                           [] phase = "tokens" -> "tokens"
                           [] OTHER -> "merging">>
  <1> USE DEF inputVars, splitVars, stageVars
  <1>1. ASSUME UNCHANGED <<phase, pieces>>
        PROVE  UNCHANGED mapped
    BY <1>1
  <1>2. ASSUME NEW c, Take(c)
        PROVE  UNCHANGED mapped
    BY <1>2 DEF Take
  <1>3. ASSUME EndSplit
        PROVE  M!Next
    <2>1. phase = "split" /\ phase' = "merge" /\ pieces' = pieces /\ pieces \in Seq(Piece)
      BY <1>3 DEF EndSplit, TokenInv, TypeOK
    <2> QED
      BY <2>1 DEF M!Next, M!Begin
  <1>4. ASSUME Split
        PROVE  M!Next \/ UNCHANGED mapped
    <2> HIDE DEF mapped
    <2>1. EndSplit \/ \E c \in Special \cup Char : Take(c)
      BY <1>4 DEF Split, TakeSpecial, TakeKnown, TakeBytes, TakeUnknown, DropChar
    <2> QED
      BY <1>2, <1>3, <2>1
  <1>5. ASSUME MergeBest
        PROVE  M!Next
    BY <1>5, MergeImplements DEF M!Next
  <1>6. ASSUME BeginFinalize
        PROVE  UNCHANGED mapped
    BY <1>6 DEF BeginFinalize
  <1>7. ASSUME Finalize
        PROVE  M!Next
    <2>1. phase = "finalize" /\ phase' = "tokens" /\ pieces' = pieces /\ Settled
      BY <1>7, FinalizeSucceeds DEF Finalize
    <2>2. M!End
      BY <2>1 DEF M!End, Settled, Count
    <2> QED
      BY <2>2 DEF M!Next
  <1>8. ASSUME BeginStage \/ ScanPair \/ IdleRound \/ EndStage \/ UNCHANGED vars
        PROVE  UNCHANGED <<phase, pieces>>
    BY <1>8 DEF BeginStage, ScanPair, IdleRound, EndStage, vars
  <1> HIDE DEF mapped
  <1>9. M!Next \/ UNCHANGED mapped
    BY <1>1, <1>4, <1>5, <1>6, <1>7, <1>8 DEF Next
  <1> QED
    BY <1>9 DEF mapped

(* The staged chain, with any mix of native and Raster stages, and the     *)
(* direct runtime perform the merges of RankedMerge and stop where it      *)
(* stops: they agree on the tokens of every prompt. *)
THEOREM TokenizerImplementsRankedMerge == Spec => MergesAreRanked
  <1>1. Init => M!Init
    BY DEF Init, M!Init
  <1>2. TokenInv /\ [Next]_vars =>
          [M!Next]_<<IF phase = "split" THEN <<>> ELSE pieces,
                     CASE phase = "split" -> "prompt"
                       [] phase = "tokens" -> "tokens"
                       [] OTHER -> "merging">>
    BY StepImplements
  <1> QED
    BY <1>1, <1>2, TokenInvariance, PTL DEF Spec, M!Spec, MergesAreRanked
-----------------------------------------------------------------------------
(* Added tokens survive.  split_prompt gives each of them a segment of its *)
(* own, below all that come later, and merges stay within a segment.       *)

SpecialsTo(j) == {k \in 1 .. j : prompt[k] \in Special}
EndsTo(j) == {k \in 1 .. j : prompt[k] \notin Special /\ EndsSegment(prompt[k])}
Reached(j) == 2 * Cardinality(SpecialsTo(j)) + Cardinality(EndsTo(j))

(* No other piece of s is in the segment of this one. *)
AloneAt(s, i, t, g) ==
  /\ s[i] = [text |-> t, segment |-> g]
  /\ \A k \in 1 .. Len(s) : k # i => s[k].segment # g
Alone(s, t, g) == \E i \in 1 .. Len(s) : AloneAt(s, i, t, g)
Ordered(s) == \A i, k \in 1 .. Len(s) : i < k => s[i].segment <= s[k].segment

PlaceInv ==
  /\ Ordered(pieces)
  /\ phase = "split" => segment = Reached(at)
  /\ \A i \in 1 .. Count : pieces[i].segment <= segment
  /\ phase # "split" => at = Len(prompt)
SpecialInv ==
  \A j \in 1 .. at :
    prompt[j] \in Special => Alone(pieces, prompt[j], SegmentOf(j)) /\ SegmentOf(j) < segment

LEMMA SegmentIsReached ==
  ASSUME NEW j \in Nat
  PROVE  SegmentOf(j + 1) = 1 + Reached(j) /\ Reached(j) \in Nat
  <1>1. (j + 1) - 1 = j
    OBVIOUS
  <1>2. SegmentOf(j + 1) = 1 + 2 * Cardinality(SpecialsTo(j)) + Cardinality(EndsTo(j))
    BY <1>1 DEF SegmentOf, SpecialsTo, EndsTo
  <1>3. Cardinality(SpecialsTo(j)) \in Nat /\ Cardinality(EndsTo(j)) \in Nat
    <2>1. IsFiniteSet(1 .. j)
      BY FS_Interval
    <2>2. SpecialsTo(j) \in SUBSET (1 .. j) /\ EndsTo(j) \in SUBSET (1 .. j)
      BY DEF SpecialsTo, EndsTo
    <2> QED
      BY <2>1, <2>2, FS_Subset, FS_CardinalityType
  <1> QED
    BY <1>2, <1>3 DEF Reached

LEMMA ReachedStep ==
  ASSUME NEW j \in Nat
  PROVE  Reached(j + 1) = Reached(j) + (IF prompt[j + 1] \in Special THEN 2
                                        ELSE IF EndsSegment(prompt[j + 1]) THEN 1 ELSE 0)
  <1> DEFINE c == prompt[j + 1]
  <1>1. /\ IsFiniteSet(SpecialsTo(j)) /\ IsFiniteSet(EndsTo(j))
        /\ j + 1 \notin SpecialsTo(j) /\ j + 1 \notin EndsTo(j)
    <2>1. IsFiniteSet(1 .. j)
      BY FS_Interval
    <2>2. SpecialsTo(j) \in SUBSET (1 .. j) /\ EndsTo(j) \in SUBSET (1 .. j)
      BY DEF SpecialsTo, EndsTo
    <2> QED
      BY <2>1, <2>2, FS_Subset
  <1>2. 1 .. (j + 1) = (1 .. j) \cup {j + 1}
    OBVIOUS
  <1>3. SpecialsTo(j + 1) = IF c \in Special THEN SpecialsTo(j) \cup {j + 1} ELSE SpecialsTo(j)
    BY <1>2 DEF SpecialsTo
  <1>4. EndsTo(j + 1) = IF c \notin Special /\ EndsSegment(c) THEN EndsTo(j) \cup {j + 1}
                        ELSE EndsTo(j)
    BY <1>2 DEF EndsTo
  <1>5. Cardinality(SpecialsTo(j) \cup {j + 1}) = Cardinality(SpecialsTo(j)) + 1
        /\ Cardinality(EndsTo(j) \cup {j + 1}) = Cardinality(EndsTo(j)) + 1
    BY <1>1, FS_AddElement
  <1>6. Cardinality(SpecialsTo(j)) \in Nat /\ Cardinality(EndsTo(j)) \in Nat
    BY <1>1, FS_CardinalityType
  <1> HIDE DEF c
  <1> QED
    BY <1>3, <1>4, <1>5, <1>6 DEF Reached, c

(* Pieces of a later segment, appended. *)
LEMMA AppendedKeeps ==
  ASSUME NEW s \in Seq(Piece), NEW new \in Seq(Piece), NEW g0 \in Nat,
         \A i \in 1 .. Len(s) : s[i].segment <= g0,
         \A i \in 1 .. Len(new) : new[i].segment = g0
  PROVE  /\ \A i \in 1 .. Len(s \o new) : (s \o new)[i].segment <= g0
         /\ Ordered(s) => Ordered(s \o new)
         /\ \A t, g : g < g0 /\ Alone(s, t, g) => Alone(s \o new, t, g)
  <1> DEFINE m == s \o new
  <1>1. Len(m) = Len(s) + Len(new) /\ Len(s) \in Nat /\ Len(new) \in Nat
    OBVIOUS
  <1>2. \A i \in 1 .. Len(s) : i \in 1 .. Len(m) /\ m[i] = s[i]
    OBVIOUS
  <1>3. \A i \in 1 .. Len(m) : i \notin 1 .. Len(s) => m[i].segment = g0
    <2> SUFFICES ASSUME NEW i \in 1 .. Len(m), i \notin 1 .. Len(s) PROVE m[i].segment = g0
      OBVIOUS
    <2>1. i - Len(s) \in 1 .. Len(new) /\ m[i] = new[i - Len(s)]
      BY <1>1
    <2> QED
      BY <2>1
  <1>4. \A i \in 1 .. Len(s) : s[i].segment \in Nat
    <2> SUFFICES ASSUME NEW i \in 1 .. Len(s) PROVE s[i].segment \in Nat
      OBVIOUS
    <2>1. s[i] \in Piece
      OBVIOUS
    <2> QED
      BY <2>1 DEF Piece
  <1> HIDE DEF m
  <1>5. \A i \in 1 .. Len(m) : m[i].segment <= g0
    BY <1>2, <1>3
  <1>6. Ordered(s) => Ordered(m)
    <2> SUFFICES ASSUME Ordered(s), NEW i \in 1 .. Len(m), NEW k \in 1 .. Len(m), i < k
                 PROVE  m[i].segment <= m[k].segment
      BY DEF Ordered
    <2>1. CASE k \in 1 .. Len(s)
      <3>1. i \in 1 .. Len(s)
        BY <1>1, <2>1
      <3> QED
        BY <1>2, <2>1, <3>1 DEF Ordered
    <2>2. CASE k \notin 1 .. Len(s)
      BY <1>3, <1>5, <2>2
    <2> QED
      BY <2>1, <2>2
  <1>7. ASSUME NEW t, NEW g, g < g0, Alone(s, t, g)
        PROVE  Alone(m, t, g)
    <2>1. PICK i \in 1 .. Len(s) : AloneAt(s, i, t, g)
      BY <1>7 DEF Alone
    <2>2. s[i].segment = g /\ g \in Nat
      BY <1>4, <2>1 DEF AloneAt
    <2>3. ASSUME NEW k \in 1 .. Len(m), k # i
          PROVE  m[k].segment # g
      BY <1>2, <1>3, <1>7, <2>1, <2>2, <2>3 DEF AloneAt
    <2>4. AloneAt(m, i, t, g)
      BY <1>2, <2>1, <2>3 DEF AloneAt
    <2> QED
      BY <1>2, <2>4 DEF Alone
  <1> QED
    BY <1>5, <1>6, <1>7 DEF m

(* A merge within a segment. *)
LEMMA MergedKeeps ==
  ASSUME TokenInv, NEW r \in DOMAIN Rules, best.rank = r, best.left \in 1 .. (Count - 1),
         M!Applies(best.left, r)
  PROVE  /\ Ordered(pieces) => Ordered(Merged)
         /\ \A g : (\A i \in 1 .. Count : pieces[i].segment <= g) =>
                     \A i \in 1 .. Len(Merged) : Merged[i].segment <= g
         /\ \A t, g : Alone(pieces, t, g) => Alone(Merged, t, g)
  <1> DEFINE l == best.left
             n == Count - 1
             m == Merged
             Source(k) == IF k <= l THEN k ELSE k + 1
  <1>1. n \in Nat /\ Len(m) = n /\ Count = n + 1 /\ l \in 1 .. n /\ l \in Int /\ Count \in Nat
    BY MergedFacts DEF TokenInv, TypeOK, Count
  <1>2. pieces[l].segment = pieces[l + 1].segment
    BY DEF M!Applies
  <1>3. \A k \in 1 .. n : Source(k) \in 1 .. Count
    BY <1>1
  <1>4. \A k \in 1 .. n : m[k].segment = pieces[Source(k)].segment
    <2> SUFFICES ASSUME NEW k \in 1 .. n PROVE m[k].segment = pieces[Source(k)].segment
      OBVIOUS
    <2>1. pieces[k] \in Piece
      BY <1>1 DEF TokenInv, TypeOK, Count
    <2>2. [pieces[k] EXCEPT !.text = Rules[r].merged].segment = pieces[k].segment
      BY <2>1 DEF Piece
    <2>3. m[k] = IF k < l THEN pieces[k]
                 ELSE IF k = l THEN [pieces[k] EXCEPT !.text = Rules[r].merged]
                 ELSE pieces[k + 1]
      BY DEF Merged
    <2> HIDE DEF m, l
    <2> QED
      BY <1>1, <2>2, <2>3
  <1>5. \A k \in 1 .. n : k # l => m[k] = pieces[Source(k)]
    BY <1>1 DEF Merged
  <1> HIDE DEF m
  <1>6. ASSUME Ordered(pieces), NEW i \in 1 .. n, NEW k \in 1 .. n, i < k
        PROVE  m[i].segment <= m[k].segment
    <2>1. Source(i) < Source(k)
      BY <1>1, <1>6
    <2>2. Source(i) \in 1 .. Count /\ Source(k) \in 1 .. Count
      BY <1>3
    <2> HIDE DEF Source
    <2>3. pieces[Source(i)].segment <= pieces[Source(k)].segment
      BY <1>6, <2>1, <2>2 DEF Ordered, Count
    <2> QED
      BY <1>4, <2>3
  <1>7. ASSUME NEW t, NEW g, Alone(pieces, t, g)
        PROVE  Alone(m, t, g)
    <2>1. PICK i \in 1 .. Count : AloneAt(pieces, i, t, g)
      BY <1>7 DEF Alone, Count
    <2>2. i # l /\ i # l + 1
      <3>1. l \in 1 .. Count /\ l + 1 \in 1 .. Count /\ l # l + 1
        BY <1>1
      <3>2. pieces[i].segment = g /\ \A k \in 1 .. Count : k # i => pieces[k].segment # g
        BY <2>1 DEF AloneAt, Count
      <3> QED
        BY <1>2, <3>1, <3>2
    <2> DEFINE h == IF i < l THEN i ELSE i - 1
    <2>3. h \in 1 .. n /\ h # l /\ Source(h) = i
      BY <1>1, <2>2
    <2>4. m[h] = [text |-> t, segment |-> g]
      BY <1>5, <2>1, <2>3 DEF AloneAt
    <2>5. ASSUME NEW k \in 1 .. n, k # h
          PROVE  m[k].segment # g
      <3>1. Source(k) # i
        BY <1>1, <2>2, <2>5
      <3>2. Source(k) \in 1 .. Count
        BY <1>3
      <3> HIDE DEF Source
      <3> QED
        BY <1>4, <2>1, <3>1, <3>2 DEF AloneAt, Count
    <2> HIDE DEF h
    <2>6. AloneAt(m, h, t, g)
      BY <1>1, <2>4, <2>5 DEF AloneAt
    <2> QED
      BY <1>1, <2>3, <2>6 DEF Alone
  <1>8. ASSUME NEW g, \A i \in 1 .. Count : pieces[i].segment <= g, NEW i \in 1 .. n
        PROVE  m[i].segment <= g
    <2> HIDE DEF Source
    <2> QED
      BY <1>3, <1>4, <1>8
  <1>9. Ordered(pieces) => Ordered(m)
    BY <1>1, <1>6 DEF Ordered
  <1> QED
    BY <1>1, <1>7, <1>8, <1>9 DEF m

LEMMA TakePlaces ==
  ASSUME TokenInv, PlaceInv, SpecialInv, NEW c, Take(c)
  PROVE  /\ at \in Nat /\ at' = at + 1 /\ phase = "split" /\ phase' = "split"
         /\ at + 1 \in 1 .. Len(prompt) /\ c = prompt[at + 1]
         /\ segment \in Nat /\ segment = Reached(at) /\ SegmentOf(at + 1) = segment + 1
         /\ Reached(at + 1) = segment + (IF c \in Special THEN 2
                                         ELSE IF EndsSegment(c) THEN 1 ELSE 0)
         /\ \A j : Reached(j)' = Reached(j) /\ SegmentOf(j)' = SegmentOf(j)
         /\ pieces \in Seq(Piece) /\ UNCHANGED <<prompt, profile>>
  <1>1. /\ phase = "split" /\ phase' = "split" /\ at < Len(prompt) /\ prompt[at + 1] = c
        /\ at' = at + 1 /\ UNCHANGED <<prompt, profile>>
    BY DEF Take, inputVars
  <1>2. Len(prompt) \in Nat /\ at \in Nat /\ segment \in Nat /\ pieces \in Seq(Piece)
    BY TokenizerAssumption DEF TokenInv, TypeOK
  <1>3. segment = Reached(at)
    BY <1>1 DEF PlaceInv
  <1>4. /\ SegmentOf(at + 1) = 1 + segment
        /\ Reached(at + 1) = segment + (IF c \in Special THEN 2
                                        ELSE IF EndsSegment(c) THEN 1 ELSE 0)
    BY <1>1, <1>2, <1>3, SegmentIsReached, ReachedStep
  <1>5. \A j : Reached(j)' = Reached(j) /\ SegmentOf(j)' = SegmentOf(j)
    BY <1>1 DEF Reached, SegmentOf, SpecialsTo, EndsTo, EndsSegment
  <1> QED
    BY <1>1, <1>2, <1>3, <1>4, <1>5

(* A character: its pieces are of the segment that it is in. *)
LEMMA TakeCharSpecials ==
  ASSUME TokenInv, PlaceInv, SpecialInv, NEW c \in Char, NEW u, Take(c), AfterChar(c, u),
         NEW texts \in Seq(Vocab), UNCHANGED pieces \/ Piecewise(texts)
  PROVE  PlaceInv' /\ SpecialInv'
  <1>1. c \notin Special
    BY TokenizerAssumption
  <1>2. segment' = IF EndsSegment(c) THEN segment + 1 ELSE segment
    BY Zenon DEF AfterChar
  <1>3. /\ at \in Nat /\ at' = at + 1 /\ phase = "split" /\ phase' = "split"
        /\ at + 1 \in 1 .. Len(prompt) /\ c = prompt[at + 1] /\ segment \in Nat
        /\ Reached(at + 1) = segment'
        /\ \A j : Reached(j)' = Reached(j) /\ SegmentOf(j)' = SegmentOf(j)
        /\ pieces \in Seq(Piece) /\ UNCHANGED prompt
    BY <1>1, <1>2, TakePlaces
  <1>4. PICK new \in Seq(Piece) :
          pieces' = pieces \o new /\ \A i \in 1 .. Len(new) : new[i].segment = segment
    <2>1. CASE UNCHANGED pieces
      <3> DEFINE new == <<>>
      <3>1. new \in Seq(Piece) /\ pieces' = pieces \o new /\ 1 .. Len(new) = {}
        BY <1>3, <2>1
      <3> HIDE DEF new
      <3> QED
        BY <3>1
    <2>2. CASE Piecewise(texts)
      <3> DEFINE new == [k \in 1 .. Len(texts) |-> [text |-> texts[k], segment |-> segment]]
      <3>1. new \in Seq(Piece) /\ \A i \in 1 .. Len(new) : new[i].segment = segment
        BY <1>3, TokenizerAssumption DEF Piece
      <3>2. pieces' = pieces \o new
        BY <2>2 DEF Piecewise
      <3> HIDE DEF new
      <3> QED
        BY <3>1, <3>2
    <2> QED
      BY <2>1, <2>2
  <1>5. \A i \in 1 .. Len(pieces) : pieces[i].segment <= segment
    BY DEF PlaceInv, Count
  <1>6. /\ \A i \in 1 .. Len(pieces') : pieces'[i].segment <= segment
        /\ Ordered(pieces')
        /\ \A t, g : g < segment /\ Alone(pieces, t, g) => Alone(pieces', t, g)
    <2>1. /\ \A i \in 1 .. Len(pieces \o new) : (pieces \o new)[i].segment <= segment
          /\ Ordered(pieces) => Ordered(pieces \o new)
          /\ \A t, g : g < segment /\ Alone(pieces, t, g) => Alone(pieces \o new, t, g)
      BY <1>3, <1>4, <1>5, AppendedKeeps
    <2> QED
      BY Zenon, <1>4, <2>1 DEF PlaceInv
  <1>7. PlaceInv'
    <2>1. ASSUME NEW i \in 1 .. Len(pieces')
          PROVE  pieces'[i].segment <= segment'
      <3>1. pieces' \in Seq(Piece)
        BY <1>3, <1>4
      <3>2. pieces'[i] \in Piece
        BY <3>1
      <3>3. pieces'[i].segment \in Nat /\ pieces'[i].segment <= segment
        BY <1>6, <3>2 DEF Piece
      <3> QED
        BY <1>2, <1>3, <3>3
    <2>2. Ordered(pieces)'
      BY Zenon, <1>6 DEF Ordered
    <2>3. Reached(at)' = Reached(at + 1)
      BY <1>3 DEF Reached, SpecialsTo, EndsTo
    <2> QED
      BY <1>3, <2>1, <2>2, <2>3 DEF PlaceInv, Count
  <1>8. SpecialInv'
    <2> SUFFICES ASSUME NEW j \in 1 .. at', prompt'[j] \in Special
                 PROVE  Alone(pieces', prompt'[j], SegmentOf(j)') /\ SegmentOf(j)' < segment'
      BY DEF SpecialInv, Alone, AloneAt
    <2>1. j \in 1 .. at
      BY <1>1, <1>3
    <2>2. Alone(pieces, prompt[j], SegmentOf(j)) /\ SegmentOf(j) < segment
      BY <1>3, <2>1 DEF SpecialInv
    <2>3. SegmentOf(j) \in Nat
      <3>1. j - 1 \in Nat /\ (j - 1) + 1 = j
        BY <2>1
      <3>2. SegmentOf((j - 1) + 1) = 1 + Reached(j - 1) /\ Reached(j - 1) \in Nat
        BY <3>1, SegmentIsReached
      <3> QED
        BY <3>1, <3>2
    <2> QED
      BY <1>2, <1>3, <1>6, <2>2, <2>3
  <1> QED
    BY <1>7, <1>8

(* An added token: a new segment, that no piece is in or will be. *)
LEMMA TakeSpecialSpecials ==
  ASSUME TokenInv, PlaceInv, SpecialInv, NEW c \in Special, TakeSpecial(c)
  PROVE  PlaceInv' /\ SpecialInv'
  <1> DEFINE g == segment + 1
             p == [text |-> c, segment |-> g]
             new == <<p>>
  <1>1. Take(c) /\ pieces' = Append(pieces, p) /\ segment' = segment + 2
    BY Zenon DEF TakeSpecial
  <1>2. /\ at \in Nat /\ at' = at + 1 /\ phase = "split" /\ phase' = "split"
        /\ at + 1 \in 1 .. Len(prompt) /\ c = prompt[at + 1] /\ segment \in Nat
        /\ Reached(at + 1) = segment' /\ SegmentOf(at + 1) = g
        /\ \A j : Reached(j)' = Reached(j) /\ SegmentOf(j)' = SegmentOf(j)
        /\ pieces \in Seq(Piece) /\ UNCHANGED prompt
    BY <1>1, TakePlaces
  <1>3. p \in Piece /\ g \in Nat /\ segment < g /\ g < segment'
    BY <1>1, <1>2, TokenizerAssumption DEF Piece
  <1>4. p.text = c /\ p.segment = g
    OBVIOUS
  <1> HIDE DEF p
  <1>5. new \in Seq(Piece) /\ pieces' = pieces \o new /\ \A i \in 1 .. Len(new) : new[i].segment = g
    <2>1. new \in Seq(Piece) /\ Len(new) = 1 /\ new[1] = p
      BY <1>3
    <2>2. pieces' = pieces \o new
      BY <1>1, <1>2, <1>3
    <2> HIDE DEF new, g
    <2>3. ASSUME NEW i \in 1 .. Len(new)
          PROVE  new[i].segment = g
      <3>1. i = 1
        BY <2>1
      <3> QED
        BY <1>4, <2>1, <3>1
    <2> QED
      BY <2>1, <2>2, <2>3
  <1>6. \A i \in 1 .. Len(pieces) : pieces[i].segment \in Nat /\ pieces[i].segment <= segment
    <2> SUFFICES ASSUME NEW i \in 1 .. Len(pieces)
                 PROVE  pieces[i].segment \in Nat /\ pieces[i].segment <= segment
      OBVIOUS
    <2>1. pieces[i] \in Piece
      BY <1>2
    <2> QED
      BY <2>1 DEF PlaceInv, Count, Piece
  <1> HIDE DEF g, new
  <1>7. /\ \A i \in 1 .. Len(pieces') : pieces'[i].segment <= g
        /\ Ordered(pieces')
        /\ \A t, h : h < g /\ Alone(pieces, t, h) => Alone(pieces', t, h)
    <2>1. \A i \in 1 .. Len(pieces) : pieces[i].segment <= g
      BY <1>2, <1>3, <1>6
    <2>2. /\ \A i \in 1 .. Len(pieces \o new) : (pieces \o new)[i].segment <= g
          /\ Ordered(pieces) => Ordered(pieces \o new)
          /\ \A t, h : h < g /\ Alone(pieces, t, h) => Alone(pieces \o new, t, h)
      BY <1>2, <1>3, <1>5, <2>1, AppendedKeeps
    <2> QED
      BY Zenon, <1>5, <2>2 DEF PlaceInv
  <1>8. Len(pieces') = Len(pieces) + 1 /\ Len(pieces) \in Nat /\ pieces' \in Seq(Piece)
        /\ pieces'[Len(pieces) + 1] = p /\ \A i \in 1 .. Len(pieces) : pieces'[i] = pieces[i]
    BY <1>1, <1>2, <1>3
  <1>9. Alone(pieces', c, g)
    <2> DEFINE n == Len(pieces) + 1
    <2>1. n \in 1 .. Len(pieces') /\ pieces'[n] = [text |-> c, segment |-> g]
      BY <1>8 DEF p
    <2>2. ASSUME NEW k \in 1 .. Len(pieces'), k # n
          PROVE  pieces'[k].segment # g
      <3>1. k \in 1 .. Len(pieces)
        BY <1>8, <2>2
      <3> QED
        BY <1>2, <1>3, <1>6, <1>8, <3>1
    <2>3. AloneAt(pieces', n, c, g)
      BY <2>1, <2>2 DEF AloneAt
    <2> QED
      BY <2>1, <2>3 DEF Alone
  <1>10. PlaceInv'
    <2>1. ASSUME NEW i \in 1 .. Len(pieces')
          PROVE  pieces'[i].segment <= segment'
      <3>1. pieces'[i] \in Piece
        BY <1>8
      <3>2. pieces'[i].segment \in Nat /\ pieces'[i].segment <= g
        BY <1>7, <3>1 DEF Piece
      <3> QED
        BY <1>1, <1>2, <1>3, <3>2
    <2>2. Ordered(pieces)'
      BY Zenon, <1>7 DEF Ordered
    <2>3. Reached(at)' = Reached(at + 1)
      BY <1>2 DEF Reached, SpecialsTo, EndsTo
    <2> QED
      BY <1>2, <2>1, <2>2, <2>3 DEF PlaceInv, Count
  <1>11. SpecialInv'
    <2> SUFFICES ASSUME NEW j \in 1 .. at', prompt'[j] \in Special
                 PROVE  Alone(pieces', prompt'[j], SegmentOf(j)') /\ SegmentOf(j)' < segment'
      BY DEF SpecialInv, Alone, AloneAt
    <2>1. CASE j = at + 1
      BY <1>2, <1>3, <1>9, <2>1
    <2>2. CASE j # at + 1
      <3>1. j \in 1 .. at
        BY <1>2, <2>2
      <3>2. Alone(pieces, prompt[j], SegmentOf(j)) /\ SegmentOf(j) < segment
        BY <1>2, <3>1 DEF SpecialInv
      <3>3. j - 1 \in Nat /\ (j - 1) + 1 = j
        BY <3>1
      <3>4. SegmentOf((j - 1) + 1) = 1 + Reached(j - 1) /\ Reached(j - 1) \in Nat
        BY <3>3, SegmentIsReached
      <3>5. SegmentOf(j) \in Nat
        BY <3>3, <3>4
      <3> QED
        BY <1>1, <1>2, <1>3, <1>7, <3>2, <3>5
    <2> QED
      BY <2>1, <2>2
  <1> QED
    BY <1>10, <1>11

(* Other steps leave the pieces alone; the last of split_prompt has the    *)
(* whole prompt behind it. *)
LEMMA RestSpecials ==
  ASSUME PlaceInv, SpecialInv, UNCHANGED <<prompt, profile, at, segment, pieces>>,
         phase' = "split" => phase = "split",
         phase' # "split" => phase # "split" \/ at = Len(prompt)
  PROVE  PlaceInv' /\ SpecialInv'
  <1>1. \A j : Reached(j)' = Reached(j) /\ SegmentOf(j)' = SegmentOf(j)
    BY DEF Reached, SegmentOf, SpecialsTo, EndsTo, EndsSegment
  <1>2. Reached(at)' = Reached(at)
    BY DEF Reached, SpecialsTo, EndsTo, EndsSegment
  <1>3. PlaceInv'
    BY <1>2 DEF PlaceInv, Ordered, Count
  <1>4. SpecialInv'
    BY <1>1 DEF SpecialInv, Alone, AloneAt
  <1> QED
    BY <1>3, <1>4

LEMMA SplitSpecials ==
  ASSUME TokenInv, PlaceInv, SpecialInv, Split
  PROVE  PlaceInv' /\ SpecialInv'
  <1>1. ASSUME NEW c \in Special, TakeSpecial(c)
        PROVE  PlaceInv' /\ SpecialInv'
    BY <1>1, TakeSpecialSpecials
  <1>2. ASSUME NEW c \in Char, TakeKnown(c)
        PROVE  PlaceInv' /\ SpecialInv'
    <2>1. c \in Vocab /\ Take(c) /\ Piecewise(<<c>>) /\ AfterChar(c, FALSE)
      BY Zenon, <1>2 DEF TakeKnown
    <2>2. <<c>> \in Seq(Vocab)
      BY <2>1
    <2> QED
      BY <2>1, <2>2, TakeCharSpecials
  <1>3. ASSUME NEW c \in Char, TakeBytes(c)
        PROVE  PlaceInv' /\ SpecialInv'
    <2>1. Bytes[c] \in Seq(Token)
      BY TokenizerAssumption
    <2>2. CanFallBack(c) /\ Take(c) /\ Piecewise(Bytes[c]) /\ AfterChar(c, FALSE)
      BY Zenon, <1>3 DEF TakeBytes
    <2>3. Bytes[c] \in Seq(Vocab)
      BY <2>1, <2>2 DEF CanFallBack
    <2> QED
      BY <2>2, <2>3, TakeCharSpecials
  <1>4. ASSUME NEW c \in Char, TakeUnknown(c)
        PROVE  PlaceInv' /\ SpecialInv'
    <2>1. profile.unknown = Unknown /\ Unknown \in Vocab
      BY <1>4, TokenizerAssumption DEF TakeUnknown, TokenInv, TypeOK, Profile
    <2>2. <<profile.unknown>> \in Seq(Vocab)
      BY <2>1
    <2>3. Take(c) /\ AfterChar(c, TRUE) /\ (UNCHANGED pieces \/ Piecewise(<<profile.unknown>>))
      BY Zenon, <1>4 DEF TakeUnknown
    <2> QED
      BY <2>2, <2>3, TakeCharSpecials
  <1>5. ASSUME NEW c \in Char, DropChar(c)
        PROVE  PlaceInv' /\ SpecialInv'
    <2>1. Take(c) /\ AfterChar(c, FALSE) /\ UNCHANGED pieces
      BY Zenon, <1>5 DEF DropChar
    <2>2. <<Unknown>> \in Seq(Vocab)
      BY TokenizerAssumption
    <2> QED
      BY <2>1, <2>2, TakeCharSpecials
  <1>6. ASSUME EndSplit
        PROVE  PlaceInv' /\ SpecialInv'
    <2>1. /\ at = Len(prompt) /\ phase' = "merge"
          /\ UNCHANGED <<prompt, profile, at, segment, pieces>>
      BY <1>6 DEF EndSplit, inputVars, splitVars
    <2> QED
      BY <2>1, RestSpecials
  <1> QED
    BY <1>1, <1>2, <1>3, <1>4, <1>5, <1>6 DEF Split

LEMMA MergeSpecials ==
  ASSUME TokenInv, PlaceInv, SpecialInv, MergeBest
  PROVE  PlaceInv' /\ SpecialInv'
  <1>1. /\ phase = "merge" /\ phase' = "merge" /\ ScanDone /\ best # NoMatch /\ pieces' = Merged
        /\ UNCHANGED <<prompt, profile, at, segment>>
    BY DEF MergeBest, inputVars, splitVars
  <1>2. /\ best.left \in 1 .. (Count - 1) /\ best.rank \in DOMAIN Rules
        /\ M!Applies(best.left, best.rank)
    BY <1>1, ScanDoneFacts
  <1>3. /\ Ordered(pieces) => Ordered(Merged)
        /\ \A g : (\A i \in 1 .. Count : pieces[i].segment <= g) =>
                    \A i \in 1 .. Len(Merged) : Merged[i].segment <= g
        /\ \A t, g : Alone(pieces, t, g) => Alone(Merged, t, g)
    BY <1>2, MergedKeeps
  <1>4. PlaceInv'
    <2>1. Ordered(pieces')
      BY Zenon, <1>1, <1>3 DEF PlaceInv
    <2>2. \A i \in 1 .. Len(pieces') : pieces'[i].segment <= segment
      BY Zenon, <1>1, <1>3 DEF PlaceInv
    <2> QED
      BY <1>1, <2>1, <2>2 DEF PlaceInv, Ordered, Count
  <1>5. \A j : SegmentOf(j)' = SegmentOf(j)
    BY <1>1 DEF SegmentOf, EndsSegment
  <1>6. SpecialInv'
    <2> SUFFICES ASSUME NEW j \in 1 .. at', prompt'[j] \in Special
                 PROVE  Alone(pieces', prompt'[j], SegmentOf(j)') /\ SegmentOf(j)' < segment'
      BY DEF SpecialInv, Alone, AloneAt
    <2>1. Alone(pieces, prompt[j], SegmentOf(j)) /\ SegmentOf(j) < segment
      BY <1>1 DEF SpecialInv
    <2>2. Alone(pieces', prompt[j], SegmentOf(j))
      BY Zenon, <1>1, <1>3, <2>1
    <2> QED
      BY <1>1, <1>5, <2>1, <2>2
  <1> QED
    BY <1>4, <1>6

(* A special token of the prompt is never merged, split or lost, in any    *)
(* tables and any profile, and what surrounds it stays on its side. *)
THEOREM SpecialsAlwaysSurvive == Spec => []SpecialsSurvive
  <1>1. Init => PlaceInv /\ SpecialInv
    <2> SUFFICES ASSUME Init PROVE PlaceInv /\ SpecialInv
      OBVIOUS
    <2>1. phase = "split" /\ at = 0 /\ segment = 0 /\ pieces = <<>>
      BY DEF Init
    <2>2. SpecialsTo(0) = {} /\ EndsTo(0) = {}
      BY DEF SpecialsTo, EndsTo
    <2>3. Reached(0) = 0
      BY <2>2, FS_EmptySet DEF Reached
    <2> QED
      BY <2>1, <2>3 DEF PlaceInv, SpecialInv, Ordered, Count
  <1>2. TokenInv /\ PlaceInv /\ SpecialInv /\ [Next]_vars => PlaceInv' /\ SpecialInv'
    <2> SUFFICES ASSUME TokenInv, PlaceInv, SpecialInv, [Next]_vars
                 PROVE  PlaceInv' /\ SpecialInv'
      OBVIOUS
    <2>1. ASSUME BeginStage \/ ScanPair \/ IdleRound \/ EndStage \/ BeginFinalize \/ Finalize
                 \/ UNCHANGED vars
          PROVE  /\ UNCHANGED <<prompt, profile, at, segment, pieces>>
                 /\ phase' = "split" <=> phase = "split"
      BY <2>1 DEF BeginStage, StageToBegin, ScanPair, IdleRound, EndStage, BeginFinalize, Finalize,
                  vars, inputVars, splitVars
    <2>2. CASE Split
      BY <2>2, SplitSpecials
    <2>3. CASE MergeBest
      BY <2>3, MergeSpecials
    <2>4. CASE BeginStage \/ ScanPair \/ IdleRound \/ EndStage \/ BeginFinalize \/ Finalize
               \/ UNCHANGED vars
      BY Zenon, <2>1, <2>4, RestSpecials
    <2> QED
      BY <2>2, <2>3, <2>4 DEF Next
  <1>3. PlaceInv /\ SpecialInv => SpecialsSurvive
    <2> SUFFICES ASSUME PlaceInv, SpecialInv, phase # "split"
                 PROVE  /\ \A j \in 1 .. Len(prompt) : prompt[j] \in Special =>
                             \E i \in 1 .. Count :
                               pieces[i] = [text |-> prompt[j], segment |-> SegmentOf(j)]
                        /\ \A i, k \in 1 .. Count : i < k =>
                             pieces[i].segment <= pieces[k].segment
      BY DEF SpecialsSurvive
    <2>1. at = Len(prompt)
      BY DEF PlaceInv
    <2> QED
      BY Zenon, <2>1 DEF PlaceInv, SpecialInv, Ordered, Alone, AloneAt, Count
  <1> QED
    BY <1>1, <1>2, <1>3, TokenInvariance, PTL DEF Spec
=============================================================================

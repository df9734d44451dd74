-------------------------- MODULE DecodeLoopProofs --------------------------
(***************************************************************************)
(* Proofs about DecodeLoop, for every vocabulary, layout of its pages,     *)
(* prompt and budget.                                                      *)
(***************************************************************************)
EXTENDS DecodeLoop, TLAPS

-----------------------------------------------------------------------------
(* The inductive invariant behind the safety properties.                   *)

(* The records keep their fields. *)
Entries == Seq([token : Token, value : Score])
ShapeInv ==
  /\ logits \in [position : Nat, entries : Entries, errors : Nat]
  /\ scan = [has |-> scan.has, token |-> scan.token, value |-> scan.value, seen |-> scan.seen]
  /\ edge = [selected |-> edge.selected, position |-> edge.position, token |-> edge.token,
             ids |-> edge.ids]
  /\ edge.position \in Nat
  /\ fin = [count |-> fin.count, json |-> fin.json, text |-> fin.text,
            pending |-> fin.pending, stopped |-> fin.stopped]

(* A selection is expected only within the budget, and the edge says        *)
(* whether there has been one. *)
StepInv ==
  /\ phase = "select" => step < budget
  /\ edge.selected <=> step > 0
  /\ edge.selected => edge.token \in Token
  /\ edge.ids \in Seq(Token) /\ Len(edge.ids) = step

(* The scores stand for the last position. *)
PositionInv ==
  /\ PositionsFollow
  /\ phase \in {"scores", "select"} => logits.position = Len(prompt) + step
  /\ phase = "head" /\ rows = 0 => prompt = <<>>

(* Without an error, the entries are those of all tokens in the pages that *)
(* were read, and these pages end at the end of a row. *)
Read == IF PageOffset(page) <= Values THEN PageOffset(page) ELSE Values
HeadInv ==
  /\ phase = "scores" =>
       /\ scores \in [Token -> Score]
       /\ how \in {"native", "tiles"} /\ (runtime = "direct" => how = "native")
       /\ how = "native" => /\ logits.errors = 0
                            /\ page # 0 => logits.entries = AllEntries
       /\ how = "tiles" /\ logits.errors = 0 =>
            /\ Len(logits.entries) * layout.width = Read
            /\ logits.entries = [i \in 1 .. Len(logits.entries) |-> Entry(i - 1)]
       /\ logits.errors # 0 => runtime = "staged" /\ layout.page % layout.width # 0
  /\ phase = "select" =>
       scores \in [Token -> Score] /\ logits.entries = AllEntries

(* The scan holds the first of the best entries that it has seen. *)
ScanInv ==
  /\ phase = "select" =>
       /\ scan.seen \in 0 .. Vocab /\ (scan.has <=> scan.seen > 0)
       /\ scan.has =>
            /\ scan.token \in 0 .. (scan.seen - 1) /\ scan.value = scores[scan.token]
            /\ \A u \in 0 .. (scan.seen - 1) :
                 scores[u] < scan.value \/ (scores[u] = scan.value /\ scan.token <= u)
  /\ phase # "select" => scan = NoScan

FinInv ==
  /\ fin.count \in 0 .. step
  /\ phase \notin {"finalize", "done", "failed"} => fin.count = 0
  /\ phase # "done" => output = Nothing

DecodeInv ==
  /\ TypeOK /\ ShapeInv /\ StepInv /\ PositionInv /\ HeadInv /\ ScanInv /\ FinInv /\ OnlyTornRowsFail

-----------------------------------------------------------------------------
(* Facts about numbers.                                                    *)

LEMMA Cancel ==
  ASSUME NEW a \in Int, NEW b \in Int, NEW w \in Nat \ {0}, a * w = b * w PROVE a = b
  OBVIOUS
LEMMA CancelLess ==
  ASSUME NEW a \in Int, NEW b \in Int, NEW w \in Nat \ {0} PROVE a * w < b * w <=> a < b
  OBVIOUS
LEMMA NextMultiple ==
  ASSUME NEW k \in Nat, NEW w \in Nat
  PROVE  k * w \in Nat /\ (k + 1) * w = k * w + w
  OBVIOUS
LEMMA Concatenated ==
  ASSUME NEW S, NEW s \in Seq(S), NEW r \in Seq(S)
  PROVE  s \o r \in Seq(S) /\ Len(s \o r) = Len(s) + Len(r)
  OBVIOUS
LEMMA DivExact ==
  ASSUME NEW x \in Nat, NEW w \in Nat \ {0}, x % w = 0
  PROVE  (x \div w) * w = x /\ x \div w \in Nat
  OBVIOUS
LEMMA DivBounds ==
  ASSUME NEW x \in Nat, NEW w \in Nat \ {0}
  PROVE  (x \div w) * w <= x /\ x < (x \div w) * w + w /\ x \div w \in Nat
  OBVIOUS
LEMMA ModMult ==
  ASSUME NEW k \in Nat, NEW w \in Nat \ {0}
  PROVE  (k * w) % w = 0 /\ (k * w) \div w = k /\ k * w \in Nat
  OBVIOUS

LEMMA Numbers ==
  ASSUME layout \in Layouts
  PROVE  /\ layout.width \in Nat \ {0} /\ layout.page \in Nat \ {0}
         /\ Vocab \in Nat \ {0} /\ Values \in Nat \ {0} /\ PageCount \in Nat \ {0}
         /\ Values = Vocab * layout.width
  <1>1. layout.width \in Nat \ {0} /\ layout.page \in Nat \ {0} /\ Vocab \in Nat \ {0}
    BY DecodeAssumption
  <1>2. Values = Vocab * layout.width /\ Values \in Nat \ {0}
    BY <1>1 DEF Values
  <1>3. (Values + layout.page - 1) \div layout.page \in Nat \ {0}
    <2> DEFINE x == Values + layout.page - 1
    <2>1. x \in Nat /\ x >= layout.page
      BY <1>1, <1>2
    <2> HIDE DEF x
    <2>2. (x \div layout.page) \in Nat /\ x < (x \div layout.page) * layout.page + layout.page
      BY <1>1, <2>1, DivBounds
    <2>3. x \div layout.page # 0
      BY <1>1, <2>1, <2>2
    <2> QED
      BY <2>2, <2>3 DEF x
  <1> QED
    BY <1>1, <1>2, <1>3 DEF PageCount

(* The pages cover the table, and each begins within it. *)
LEMMA PagesCover ==
  ASSUME layout \in Layouts, NEW p \in Nat
  PROVE  /\ PageOffset(p) \in Nat /\ PageOffset(p + 1) = PageOffset(p) + layout.page
         /\ p < PageCount <=> PageOffset(p) < Values
         /\ p < PageCount => /\ PageLength(p) \in Nat \ {0}
                             /\ PageOffset(p) + PageLength(p) =
                                  IF PageOffset(p + 1) <= Values THEN PageOffset(p + 1) ELSE Values
  <1> DEFINE P == layout.page
             x == Values + P - 1
             c == x \div P
  <1>1. P \in Nat \ {0} /\ Values \in Nat \ {0}
    BY Numbers
  <1>2. PageOffset(p) = p * P /\ PageOffset(p + 1) = (p + 1) * P /\ PageCount = c
    BY DEF PageOffset, PageCount
  <1>3. p * P \in Nat /\ (p + 1) * P = p * P + P
    BY <1>1, NextMultiple
  <1>4. c \in Nat /\ c * P <= x /\ x < c * P + P
    <2>1. x \in Nat
      BY <1>1
    <2> HIDE DEF x
    <2> QED
      BY <1>1, <2>1, DivBounds
  <1> HIDE DEF c
  <1>5. p < c <=> p * P < Values
    <2>1. ASSUME p < c PROVE p * P < Values
      <3>1. ~(c * P < (p + 1) * P)
        BY <1>1, <1>4, <2>1, CancelLess
      <3>2. c * P \in Nat
        BY <1>1, <1>4
      <3> QED
        BY <1>1, <1>3, <1>4, <3>1, <3>2
    <2>2. ASSUME ~(p < c) PROVE ~(p * P < Values)
      <3>1. ~(p * P < c * P)
        BY <1>1, <1>4, <2>2, CancelLess
      <3>2. c * P \in Nat
        BY <1>1, <1>4
      <3> QED
        BY <1>1, <1>3, <1>4, <3>1, <3>2
    <2> QED
      BY <2>1, <2>2
  <1>6. p < c => /\ PageLength(p) \in Nat \ {0}
                 /\ p * P + PageLength(p) = IF (p + 1) * P <= Values THEN (p + 1) * P ELSE Values
    BY <1>1, <1>2, <1>3, <1>5 DEF PageLength
  <1> QED
    BY <1>1, <1>2, <1>3, <1>5, <1>6

(* Where a page holds whole rows, no row is torn. *)
LEMMA NoTornRow ==
  ASSUME layout \in Layouts, layout.page % layout.width = 0, NEW t \in Token
  PROVE  HasRow(t)
  <1> DEFINE w == layout.width
             P == layout.page
             q == P \div w
             g == (t * w) \div P
  <1>1. w \in Nat \ {0} /\ P \in Nat \ {0} /\ Vocab \in Nat \ {0} /\ Values = Vocab * w
    BY Numbers
  <1>2. t \in Nat /\ t + 1 <= Vocab /\ t * w \in Nat /\ t * w + w <= Values
    <2>1. t \in Nat /\ t + 1 <= Vocab
      BY <1>1 DEF Token
    <2>2. ~(Vocab * w < (t + 1) * w)
      BY <1>1, <2>1, CancelLess
    <2> QED
      BY <1>1, <2>1, <2>2
  <1>3. q \in Nat /\ q * w = P
    BY <1>1, DivExact
  <1>4. g \in Nat /\ g * P <= t * w /\ t * w < g * P + P
    <2> DEFINE x == t * w
    <2>1. x \in Nat
      BY <1>2
    <2> HIDE DEF x
    <2>2. (x \div P) \in Nat /\ (x \div P) * P <= x /\ x < (x \div P) * P + P
      BY <1>1, <2>1, DivBounds
    <2> QED
      BY <2>2 DEF x
  <1> HIDE DEF g, q
  <1>5. PageOf(t) = g
    BY DEF PageOf, g
  <1>6. g * P = (g * q) * w /\ g * P + P = (g * q + q) * w
    BY <1>1, <1>3, <1>4
  <1>7. t * w + w <= g * P + P
    <2>1. t < g * q + q
      <3>1. t * w < (g * q + q) * w
        BY <1>4, <1>6
      <3>2. g * q + q \in Int
        BY <1>3, <1>4
      <3> QED
        BY <1>1, <1>2, <3>1, <3>2, CancelLess
    <2>2. ~((g * q + q) * w < (t + 1) * w)
      <3>1. g * q + q \in Int /\ ~(g * q + q < t + 1)
        BY <1>2, <1>3, <1>4, <2>1
      <3> QED
        BY <1>1, <1>2, <3>1, CancelLess
    <2>3. (t + 1) * w = t * w + w /\ t * w + w \in Int /\ g * P + P \in Int
      <3>1. t \in Nat /\ w \in Nat /\ P \in Nat
        BY <1>1, <1>2
      <3> QED
        BY <1>4, <3>1, NextMultiple
    <2>4. ~(g * P + P < t * w + w)
      BY <1>6, <2>2, <2>3
    <2> QED
      BY <2>3, <2>4
  <1>8. g < PageCount
    <2>1. PageOffset(g) < Values
      BY <1>1, <1>2, <1>4 DEF PageOffset
    <2> QED
      BY <1>4, <2>1, PagesCover
  <1>9. (t * w - PageOffset(g)) + w <= PageLength(g)
    <2>1. PageOffset(g) = g * P /\ g * P \in Nat
      BY <1>1, <1>4 DEF PageOffset
    <2>2. PageLength(g) = IF g * P + P <= Values THEN P ELSE Values - g * P
      BY <2>1 DEF PageLength
    <2>3. Values \in Nat
      BY <1>1
    <2> QED
      BY <1>1, <1>2, <1>7, <2>1, <2>2, <2>3
  <1> QED
    BY <1>5, <1>8, <1>9 DEF HasRow

LEMMA NoTornPage ==
  ASSUME layout \in Layouts, layout.page % layout.width = 0, NEW p \in Nat, p < PageCount
  PROVE  WholeRows(p)
  <1> DEFINE w == layout.width
             q == layout.page \div w
  <1>1. w \in Nat \ {0} /\ layout.page \in Nat \ {0} /\ Vocab \in Nat \ {0} /\ Values = Vocab * w
    BY Numbers
  <1>2. q \in Nat /\ q * w = layout.page
    BY <1>1, DivExact
  <1> HIDE DEF q
  <1>3. PageOffset(p) = (p * q) * w /\ p * q \in Nat
    BY <1>1, <1>2 DEF PageOffset
  <1>4. \E k \in Nat : PageLength(p) = k * w
    <2>1. CASE PageOffset(p) + layout.page <= Values
      BY <1>2, <2>1 DEF PageLength
    <2>2. CASE ~(PageOffset(p) + layout.page <= Values)
      <3>1. PageLength(p) = (Vocab - p * q) * w
        BY <1>1, <1>3, <2>2 DEF PageLength
      <3>2. (p * q) * w < Vocab * w
        BY <1>1, <1>3, PagesCover
      <3>3. Vocab - p * q \in Nat
        BY <1>1, <1>3, <3>2, CancelLess
      <3> QED
        BY <3>1, <3>3
    <2> QED
      BY <2>1, <2>2
  <1> QED
    BY <1>1, <1>3, <1>4, ModMult DEF WholeRows

(* A page of whole rows, as tokens. *)
LEMMA PageIsRows ==
  ASSUME layout \in Layouts, NEW p \in Nat, p < PageCount, WholeRows(p)
  PROVE  LET m == PageLength(p) \div layout.width
         IN  /\ m \in Nat /\ FirstToken(p) \in Nat
             /\ m * layout.width = PageLength(p)
             /\ FirstToken(p) * layout.width = PageOffset(p)
             /\ FirstToken(p) + m <= Vocab
  <1> DEFINE w == layout.width
             m == PageLength(p) \div w
             k == FirstToken(p)
  <1>1. w \in Nat \ {0} /\ Vocab \in Nat \ {0} /\ Values = Vocab * w /\ Values \in Nat
    BY Numbers
  <1>2. /\ PageOffset(p) \in Nat /\ PageLength(p) \in Nat
        /\ PageOffset(p) + PageLength(p) <= Values
    <2>1. /\ PageOffset(p) \in Nat /\ PageLength(p) \in Nat \ {0}
          /\ PageOffset(p + 1) = PageOffset(p) + layout.page
          /\ PageOffset(p) + PageLength(p) =
               IF PageOffset(p + 1) <= Values THEN PageOffset(p + 1) ELSE Values
      BY PagesCover
    <2>2. layout.page \in Nat
      BY Numbers
    <2> QED
      BY <1>1, <2>1, <2>2
  <1>3. m \in Nat /\ m * w = PageLength(p)
    BY <1>1, <1>2, DivExact DEF WholeRows
  <1>4. k \in Nat /\ k * w = PageOffset(p)
    BY <1>1, <1>2, DivExact DEF WholeRows, FirstToken
  <1> HIDE DEF m, k
  <1>5. (k + m) * w = PageOffset(p) + PageLength(p)
    BY <1>1, <1>3, <1>4
  <1>6. k + m <= Vocab
    <2>1. ~(Vocab * w < (k + m) * w)
      BY <1>1, <1>2, <1>5
    <2>2. k + m \in Int
      BY <1>3, <1>4
    <2>3. ~(Vocab < k + m)
      BY <1>1, <2>1, <2>2, CancelLess
    <2> QED
      BY <1>1, <2>2, <2>3
  <1> QED
    BY <1>3, <1>4, <1>6 DEF m, k

-----------------------------------------------------------------------------
(* The steps.                                                              *)

LEMMA DecodeInitInv == Init => DecodeInv
  <1> SUFFICES ASSUME Init PROVE DecodeInv
    OBVIOUS
  <1> USE DecodeAssumption DEF Entries, Init, NoLogits, NoScan, EmptyEdge, EmptyFinal
  <1>1. budget \in Nat /\ PageCount \in Nat
    BY Numbers
  <1>2. TypeOK
    BY <1>1 DEF TypeOK
  <1>3. ShapeInv
    BY DEF ShapeInv
  <1>4. StepInv
    <2>1. /\ edge.ids \in Seq(Token) /\ Len(edge.ids) = 0 /\ edge.selected = FALSE
          /\ step = 0 /\ phase = "embed"
      OBVIOUS
    <2> HIDE DEF Init
    <2> QED
      BY <2>1 DEF StepInv
  <1>6. PositionInv /\ FinInv
    BY <1>1 DEF PositionInv, PositionsFollow, FinInv
  <1>5. HeadInv /\ ScanInv /\ OnlyTornRowsFail
    BY DEF HeadInv, ScanInv, OnlyTornRowsFail
  <1> QED
    BY <1>2, <1>3, <1>4, <1>5, <1>6 DEF DecodeInv

LEMMA EmbedInv == DecodeInv /\ (EmbedPrompt \/ EmbedSelected) => DecodeInv'
  <1> SUFFICES ASSUME DecodeInv, EmbedPrompt \/ EmbedSelected PROVE DecodeInv'
    OBVIOUS
  <1> USE DEF DecodeInv, inputVars, headVars
  <1>1. /\ phase = "embed" /\ phase' \in {"head", "failed"}
        /\ UNCHANGED <<inputVars, how, step, scores, headVars, scan, edge, fin, output>>
        /\ PageCount' = PageCount
    BY DEF EmbedPrompt, EmbedSelected, Fail, PageCount, Values
  <1>2. prompt \in Seq(Token) /\ Len(prompt) \in Nat /\ step \in Nat
    BY DecodeAssumption DEF TypeOK
  <1>3. phase' = "head" => /\ rows' \in Nat /\ start' \in Nat
                           /\ start' + rows' = Len(prompt) + step
                           /\ rows' = 0 => prompt = <<>>
    <2>1. CASE EmbedPrompt
      BY <1>2, <2>1 DEF EmbedPrompt, Fail
    <2>2. CASE EmbedSelected
      BY <1>2, <2>2 DEF EmbedSelected, Fail, EmbedsSelected, PositionInv, PositionsFollow, ShapeInv
    <2> QED
      BY <2>1, <2>2
  <1>4. phase' = "failed" =>
          UNCHANGED <<rows, start>> /\ runtime = "staged" /\ layout.page % layout.width # 0
    <2>1. CASE EmbedPrompt
      <3>1. phase' = "failed" => ~EmbedsPrompt /\ UNCHANGED <<rows, start>>
        BY <2>1 DEF EmbedPrompt, Fail
      <3>2. ~EmbedsPrompt => runtime = "staged" /\ \E t \in Token : ~HasRow(t)
        BY <1>2 DEF EmbedsPrompt, RowErrors, TypeOK
      <3> QED
        BY <3>1, <3>2, NoTornRow DEF TypeOK
    <2>2. CASE EmbedSelected
      <3>1. phase' = "failed" => ~EmbedsSelected /\ UNCHANGED <<rows, start>>
        BY <2>2 DEF EmbedSelected, Fail
      <3>2. edge.selected /\ edge.token \in Token
        BY <1>2, <2>2 DEF EmbedSelected, StepInv
      <3>3. ~EmbedsSelected => runtime = "staged" /\ ~HasRow(edge.token)
        BY <3>2 DEF EmbedsSelected, TypeOK
      <3> QED
        BY <3>1, <3>2, <3>3, NoTornRow DEF TypeOK
    <2> QED
      BY <2>1, <2>2
  <1>5. TypeOK'
    BY <1>1, <1>3, <1>4 DEF TypeOK
  <1>6. ShapeInv' /\ StepInv' /\ HeadInv' /\ ScanInv' /\ FinInv'
    BY <1>1 DEF ShapeInv, StepInv, HeadInv, ScanInv, FinInv
  <1>7. PositionInv'
    BY <1>1, <1>3 DEF PositionInv, PositionsFollow, DecodePosition
  <1>8. OnlyTornRowsFail'
    BY <1>1, <1>4 DEF OnlyTornRowsFail
  <1> QED
    BY <1>5, <1>6, <1>7, <1>8

LEMMA BeginHeadInv == DecodeInv /\ BeginHead => DecodeInv'
  <1> SUFFICES ASSUME DecodeInv, BeginHead PROVE DecodeInv'
    OBVIOUS
  <1> USE DEF DecodeInv, BeginHead, inputVars, headVars
  <1>1. /\ phase = "head" /\ phase' \in {"scores", "failed"}
        /\ UNCHANGED <<inputVars, step, rows, start, scan, edge, fin, output>>
        /\ phase' = "failed" => UNCHANGED <<how, scores, headVars>> /\ prompt = <<>>
        /\ PageCount' = PageCount /\ PageCount \in Nat \ {0}
    BY Numbers DEF Fail, PageCount, Values, PositionInv, TypeOK
  <1>2. phase' = "scores" =>
          /\ how' \in Executors /\ scores' \in [Token -> Score] /\ page' = 0
          /\ logits' = [position |-> Len(prompt) + step, entries |-> <<>>, errors |-> 0]
    BY <1>1 DEF Fail, NoLogits, PositionInv, PositionsFollow
  <1>3. prompt \in Seq(Token) /\ Len(prompt) + step \in Nat
    BY DecodeAssumption DEF TypeOK
  <1>4. TypeOK' /\ ShapeInv'
    <2>1. scan = NoScan
      BY <1>1 DEF ScanInv
    <2>2. TypeOK'
      BY <1>1, <1>2, <1>3, <2>1 DEF TypeOK, NoScan, Executors
    <2>3. logits' \in [position : Nat, entries : Entries, errors : Nat]
      <3>1. <<>> \in Entries
        BY DEF Entries
      <3>2. CASE phase' = "failed"
        BY <1>1, <3>2 DEF ShapeInv
      <3>3. CASE phase' = "scores"
        BY <1>2, <1>3, <3>1, <3>3
      <3> QED
        BY <1>1, <3>2, <3>3
    <2>4. ShapeInv'
      BY <1>1, <2>3 DEF ShapeInv
    <2> QED
      BY <2>2, <2>4
  <1>5. StepInv' /\ ScanInv' /\ FinInv' /\ OnlyTornRowsFail'
    BY <1>1 DEF StepInv, ScanInv, FinInv, OnlyTornRowsFail
  <1>6. PositionInv'
    BY <1>1, <1>2 DEF PositionInv, PositionsFollow, DecodePosition
  <1>7. HeadInv'
    <2>1. phase' = "scores" => PageOffset(page)' = 0 /\ Values' \in Nat /\ layout'.width \in Nat
      BY <1>1, <1>2, Numbers DEF PageOffset, Values, TypeOK
    <2>2. phase' = "scores" => Read' = 0 /\ Len(logits'.entries) * layout'.width = 0
      BY <1>2, <2>1 DEF Read
    <2> QED
      BY <1>1, <1>2, <2>2 DEF HeadInv, Executors
  <1> QED
    BY <1>4, <1>5, <1>6, <1>7

LEMMA ScoreAllInv == DecodeInv /\ ScoreAll => DecodeInv'
  <1> SUFFICES ASSUME DecodeInv, ScoreAll PROVE DecodeInv'
    OBVIOUS
  <1> USE DEF DecodeInv, ScoreAll, inputVars, modelVars
  <1>1. /\ phase = "scores" /\ how = "native" /\ logits.errors = 0 /\ scores \in [Token -> Score]
        /\ UNCHANGED <<inputVars, phase, how, step, modelVars, scan, edge, fin, output>>
        /\ PageCount' = PageCount /\ PageCount \in Nat \ {0} /\ page' = PageCount
        /\ Vocab \in Nat \ {0}
    BY Numbers DEF HeadInv, PageCount, Values, TypeOK
  <1>2. /\ logits'.position = logits.position /\ logits'.errors = logits.errors
        /\ logits'.entries = AllEntries
        /\ AllEntries \in Entries /\ AllEntries' = AllEntries
        /\ logits' \in [position : Nat, entries : Entries, errors : Nat]
    <2>1. AllEntries \in Entries
      <3>1. \A i \in 1 .. Vocab : i - 1 \in Token
        BY <1>1 DEF Token
      <3>2. \A i \in 1 .. Vocab : Entry(i - 1) \in [token : Token, value : Score]
        BY <1>1, <3>1 DEF Entry
      <3> HIDE DEF DecodeInv, ScoreAll
      <3> QED
        BY <1>1, <3>2 DEF AllEntries, Entries
    <2>2. AllEntries' = AllEntries
      BY <1>1 DEF AllEntries, Entry
    <2> QED
      BY <2>1, <2>2 DEF ShapeInv
  <1>3. Len(logits'.entries) \in Nat
    BY <1>2 DEF Entries
  <1>4. TypeOK'
    <2>1. scan' = NoScan
      BY <1>1 DEF ScanInv
    <2> QED
      BY <1>1, <1>2, <1>3, <2>1 DEF TypeOK, NoScan
  <1>5. ShapeInv' /\ StepInv' /\ ScanInv' /\ FinInv' /\ OnlyTornRowsFail'
    BY <1>1, <1>2 DEF ShapeInv, StepInv, ScanInv, FinInv, OnlyTornRowsFail
  <1>6. PositionInv'
    BY <1>1, <1>2 DEF PositionInv, PositionsFollow, DecodePosition
  <1>7. HeadInv'
    BY <1>1, <1>2 DEF HeadInv
  <1> QED
    BY <1>4, <1>5, <1>6, <1>7

(* A page of whole rows goes on where the entries end. *)
LEMMA ScorePageInv == DecodeInv /\ ScorePage => DecodeInv'
  <1> SUFFICES ASSUME DecodeInv, ScorePage PROVE DecodeInv'
    OBVIOUS
  <1> USE DEF DecodeInv
  <1> DEFINE w == layout.width
             n == Len(logits.entries)
             m == PageLength(page) \div w
  <1>1. /\ phase = "scores" /\ how = "tiles" /\ page < PageCount /\ page' = page + 1
        /\ UNCHANGED <<inputVars, phase, how, step, modelVars, scan, edge, fin, output>>
        /\ logits' = IF WholeRows(page)
                     THEN [logits EXCEPT !.entries = @ \o PageEntries(page)]
                     ELSE [logits EXCEPT !.errors = @ + 1]
    BY DEF ScorePage
  <1>2. /\ layout \in Layouts /\ page \in Nat /\ scores \in [Token -> Score]
        /\ PageCount \in Nat /\ PageCount' = PageCount /\ Values' = Values
        /\ Vocab \in Nat \ {0} /\ w \in Nat \ {0} /\ runtime = "staged" /\ Values \in Nat
    BY <1>1, Numbers DEF TypeOK, HeadInv, PageCount, Values, inputVars
  <1>3. logits \in [position : Nat, entries : Entries, errors : Nat]
    BY DEF ShapeInv
  <1>4. logits.entries \in Entries /\ n \in Nat
    BY <1>3 DEF Entries
  <1>5. ASSUME WholeRows(page)
        PROVE  /\ m \in Nat /\ FirstToken(page) \in Nat
               /\ m * w = PageLength(page) /\ FirstToken(page) * w = PageOffset(page)
               /\ FirstToken(page) + m <= Vocab
               /\ PageEntries(page) = [i \in 1 .. m |-> Entry(FirstToken(page) + i - 1)]
               /\ PageEntries(page) \in Entries /\ Len(PageEntries(page)) = m
    <2>1. /\ m \in Nat /\ FirstToken(page) \in Nat
          /\ m * w = PageLength(page) /\ FirstToken(page) * w = PageOffset(page)
          /\ FirstToken(page) + m <= Vocab
      BY <1>1, <1>2, <1>5, PageIsRows
    <2>2. PageEntries(page) = [i \in 1 .. m |-> Entry(FirstToken(page) + i - 1)]
      BY DEF PageEntries
    <2> HIDE DEF m
    <2>3. \A i \in 1 .. m : FirstToken(page) + i - 1 \in Token
      BY <1>2, <2>1 DEF Token
    <2>4. \A i \in 1 .. m : Entry(FirstToken(page) + i - 1) \in [token : Token, value : Score]
      BY <1>2, <2>3 DEF Entry
    <2> QED
      BY <2>1, <2>2, <2>4 DEF Entries
  <1> HIDE DEF m
  <1>6. /\ logits' \in [position : Nat, entries : Entries, errors : Nat]
        /\ logits'.position = logits.position
    <2>1. CASE WholeRows(page)
      <3>1. logits.entries \o PageEntries(page) \in Entries
        BY <1>4, <1>5, <2>1 DEF Entries
      <3> QED
        BY <1>1, <1>3, <2>1, <3>1
    <2>2. CASE ~WholeRows(page)
      BY <1>1, <1>3, <2>2
    <2> QED
      BY <2>1, <2>2
  <1>7. Len(logits'.entries) \in Nat
    <2>1. logits'.entries \in Entries
      BY <1>6
    <2> QED
      BY <2>1 DEF Entries
  <1>8. TypeOK'
    <2>1. scan' = NoScan
      BY <1>1 DEF ScanInv
    <2> QED
      BY <1>1, <1>2, <1>6, <1>7, <2>1 DEF TypeOK, NoScan, inputVars, modelVars
  <1>9. ShapeInv' /\ StepInv' /\ ScanInv' /\ FinInv' /\ OnlyTornRowsFail'
    BY <1>1, <1>6 DEF ShapeInv, StepInv, ScanInv, FinInv, OnlyTornRowsFail, inputVars
  <1>10. PositionInv'
    BY <1>1, <1>6 DEF PositionInv, PositionsFollow, DecodePosition, inputVars, modelVars
  <1>11. HeadInv'
    <2>1. phase' = "scores" /\ how' = "tiles" /\ scores' = scores /\ layout' = layout
          /\ runtime' = runtime
      BY <1>1 DEF inputVars, modelVars
    <2>2. CASE ~WholeRows(page)
      <3>1. logits'.errors = logits.errors + 1 /\ logits.errors \in Nat
        BY <1>1, <1>3, <2>2
      <3>2. layout.page % layout.width # 0
        BY <1>1, <1>2, <2>2, NoTornPage
      <3> QED
        BY <1>1, <1>2, <2>1, <3>1, <3>2 DEF HeadInv
    <2>3. CASE WholeRows(page) /\ logits.errors # 0
      <3>1. logits'.errors = logits.errors
        BY <1>1, <1>3, <2>3
      <3> QED
        BY <1>1, <1>2, <2>1, <2>3, <3>1 DEF HeadInv
    <2>4. CASE WholeRows(page) /\ logits.errors = 0
      <3>1. logits'.errors = 0 /\ logits'.entries = logits.entries \o PageEntries(page)
        BY <1>1, <1>3, <2>4
      <3>2. /\ n * w = Read
            /\ logits.entries = [i \in 1 .. n |-> Entry(i - 1)]
        BY <1>1, <2>4 DEF HeadInv
      <3>3. /\ PageOffset(page) \in Nat /\ PageOffset(page) < Values
            /\ PageOffset(page) + PageLength(page) =
                 IF PageOffset(page + 1) <= Values THEN PageOffset(page + 1) ELSE Values
        BY <1>1, <1>2, PagesCover
      <3>4. Read = PageOffset(page) /\ Read' = PageOffset(page) + PageLength(page)
        <4>1. PageOffset(page)' = PageOffset(page + 1)
          BY <1>1, <2>1 DEF PageOffset
        <4> QED
          BY <1>2, <3>3, <4>1 DEF Read
      <3>5. n = FirstToken(page)
        <4>1. FirstToken(page) \in Int /\ FirstToken(page) * w = n * w
          BY <1>5, <2>4, <3>2, <3>4
        <4> HIDE DEF DecodeInv
        <4> QED
          BY <1>2, <1>4, <4>1, Cancel
      <3>6. Len(logits'.entries) = n + m /\ (n + m) * w = Read'
        <4>1. Len(logits'.entries) = n + m
          <5>1. PageEntries(page) \in Entries /\ Len(PageEntries(page)) = m
            BY <1>5, <2>4
          <5>2. Len(logits.entries \o PageEntries(page)) = n + Len(PageEntries(page))
            BY <1>4, <5>1, Concatenated DEF Entries
          <5> QED
            BY <3>1, <5>1, <5>2
        <4>2. (n + m) * w = n * w + m * w
          BY <1>2, <1>4, <1>5, <2>4
        <4> QED
          BY <1>5, <2>4, <3>2, <3>4, <4>1, <4>2
      <3>7. logits'.entries = [i \in 1 .. (n + m) |-> Entry(i - 1)]
        <4>1. logits'.entries \in Entries
          BY <1>6
        <4>2. ASSUME NEW i \in 1 .. (n + m) PROVE logits'.entries[i] = Entry(i - 1)
          <5>1. CASE i <= n
            BY <1>4, <1>5, <2>4, <3>1, <3>2, <5>1 DEF Entries
          <5>2. CASE i > n
            <6>1. i - n \in 1 .. m /\ n + (i - n) - 1 = i - 1
              BY <1>4, <1>5, <2>4, <5>2
            <6>2. logits'.entries[i] = PageEntries(page)[i - n]
              BY <1>4, <1>5, <2>4, <3>1, <5>2 DEF Entries
            <6> QED
              BY <1>5, <2>4, <3>5, <6>1, <6>2
          <5> QED
            BY <1>4, <5>1, <5>2
        <4> QED
          BY <3>6, <4>1, <4>2 DEF Entries
      <3>8. \A i : Entry(i)' = Entry(i)
        BY <2>1 DEF Entry
      <3> QED
        BY <1>1, <1>2, <2>1, <3>1, <3>6, <3>7, <3>8 DEF HeadInv
    <2> QED
      BY <2>2, <2>3, <2>4
  <1> QED
    BY <1>8, <1>9, <1>10, <1>11

(* At the last page, every token has its entry. *)
LEMMA HeadIsComplete ==
  ASSUME DecodeInv, phase = "scores", page = PageCount, logits.errors = 0
  PROVE  logits.entries = AllEntries
  <1> USE DEF DecodeInv
  <1>1. /\ layout \in Layouts /\ page \in Nat \ {0} /\ Vocab \in Nat \ {0}
        /\ layout.width \in Nat \ {0} /\ Values = Vocab * layout.width /\ Values \in Nat
    BY Numbers DEF TypeOK
  <1>2. CASE how = "native"
    BY <1>1, <1>2 DEF HeadInv
  <1>3. CASE how = "tiles"
    <2>1. /\ Len(logits.entries) * layout.width = Read
          /\ logits.entries = [i \in 1 .. Len(logits.entries) |-> Entry(i - 1)]
      BY <1>3 DEF HeadInv
    <2>2. Read = Values
      <3>1. PageOffset(page) \in Nat /\ ~(PageOffset(page) < Values)
        BY <1>1, PagesCover
      <3> QED
        BY <1>1, <3>1 DEF Read
    <2>3. Len(logits.entries) \in Int
      BY DEF ShapeInv, Entries
    <2>4. Len(logits.entries) = Vocab
      <3> DEFINE n == Len(logits.entries)
      <3>1. n * layout.width = Vocab * layout.width /\ n \in Int /\ Vocab \in Int
        BY <1>1, <2>1, <2>2, <2>3
      <3> HIDE DEF n, DecodeInv
      <3>2. n = Vocab
        BY <1>1, <3>1, Cancel
      <3> QED
        BY <3>2 DEF n
    <2> QED
      BY <2>1, <2>4 DEF AllEntries
  <1> QED
    BY <1>2, <1>3 DEF HeadInv

LEMMA EndHeadInv == DecodeInv /\ EndHead => DecodeInv'
  <1> SUFFICES ASSUME DecodeInv, EndHead PROVE DecodeInv'
    OBVIOUS
  <1> USE DEF DecodeInv
  <1>1. /\ phase = "scores" /\ page = PageCount /\ how' = "none"
        /\ phase' = IF logits.errors > 0 THEN "failed"
                    ELSE IF step < budget THEN "select" ELSE "finalize"
        /\ UNCHANGED <<inputVars, step, modelVars, headVars, scan, edge, fin, output>>
    BY DEF EndHead
  <1> USE DEF inputVars, modelVars, headVars
  <1>2. scan = NoScan /\ PageCount' = PageCount /\ logits.errors \in Nat /\ Vocab \in Nat
    BY <1>1, Numbers DEF ScanInv, PageCount, Values, TypeOK
  <1>3. TypeOK'
    BY <1>1, <1>2 DEF TypeOK
  <1>4. ShapeInv' /\ StepInv' /\ FinInv'
    BY <1>1 DEF ShapeInv, StepInv, FinInv
  <1>5. PositionInv'
    BY <1>1 DEF PositionInv, PositionsFollow
  <1>6. HeadInv'
    <2>1. phase' = "select" => logits.entries = AllEntries /\ scores \in [Token -> Score]
      BY <1>1, <1>2, HeadIsComplete DEF HeadInv
    <2>2. AllEntries' = AllEntries
      BY <1>1 DEF AllEntries, Entry
    <2> QED
      BY <1>1, <2>1, <2>2 DEF HeadInv
  <1>7. ScanInv'
    BY <1>1, <1>2 DEF ScanInv, NoScan
  <1>8. OnlyTornRowsFail'
    BY <1>1, <1>2 DEF OnlyTornRowsFail, HeadInv
  <1> QED
    BY <1>3, <1>4, <1>5, <1>6, <1>7, <1>8

LEMMA ScoresAreInts ==
  ASSUME scores \in [Token -> Score]
  PROVE  \A u \in Token : u \in Int /\ scores[u] \in Int
  <1>1. Score \subseteq Int /\ Vocab \in Nat
    BY DecodeAssumption
  <1>2. \A u \in Token : scores[u] \in Score
    OBVIOUS
  <1>3. \A u \in Token : u \in Int
    BY <1>1 DEF Token
  <1> QED
    BY <1>1, <1>2, <1>3

LEMMA TokensBelow ==
  ASSUME NEW k \in Token
  PROVE  \A u \in 0 .. k : u \in Token
  <1>1. Vocab \in Nat
    BY DecodeAssumption
  <1> QED
    BY <1>1 DEF Token

(* The best of the entries seen stays the best when one more is seen. *)
LEMMA ScanEntryInv == DecodeInv /\ ScanEntry => DecodeInv'
  <1> SUFFICES ASSUME DecodeInv, ScanEntry PROVE DecodeInv'
    OBVIOUS
  <1> USE DEF DecodeInv
  <1> DEFINE k == scan.seen
             e == logits.entries[k + 1]
  <1>1. /\ phase = "select" /\ k < Len(logits.entries)
        /\ scan' = IF Better(e) THEN [has |-> TRUE, token |-> e.token, value |-> e.value, seen |-> k + 1]
                                ELSE [scan EXCEPT !.seen = @ + 1]
        /\ UNCHANGED <<inputVars, phase, how, step, modelVars, headVars, edge, fin, output>>
    BY DEF ScanEntry
  <1> USE DEF inputVars, modelVars, headVars
  <1>2. /\ Vocab \in Nat \ {0} /\ scores \in [Token -> Score] /\ Score \subseteq Int
        /\ logits.entries = AllEntries /\ Len(logits.entries) = Vocab /\ k \in 0 .. (Vocab - 1)
    <2>1. Vocab \in Nat \ {0} /\ Score \subseteq Int
      BY DecodeAssumption
    <2>2. logits.entries = AllEntries /\ scores \in [Token -> Score] /\ k \in 0 .. Vocab
      BY <1>1 DEF HeadInv, ScanInv
    <2>3. Len(AllEntries) = Vocab
      BY <2>1 DEF AllEntries
    <2> QED
      BY <1>1, <2>1, <2>2, <2>3
  <1>3. k \in Token /\ e.token = k /\ e.value = scores[k] /\ scores[k] \in Int
    <2> HIDE DEF DecodeInv
    <2>1. k \in Token /\ k + 1 \in 1 .. Vocab
      BY <1>2 DEF Token
    <2> HIDE DEF k
    <2>2. AllEntries[k + 1] = Entry(k + 1 - 1) /\ k + 1 - 1 = k
      BY <2>1, <1>2 DEF AllEntries
    <2>3. e = Entry(k)
      BY <1>2, <2>2
    <2> HIDE DEF e
    <2>4. e.token = k /\ e.value = scores[k]
      BY <2>3 DEF Entry
    <2> QED
      BY <1>2, <2>1, <2>4, ScoresAreInts
  <1>4. \A u \in 0 .. k : scores[u] \in Int
    <2> HIDE DEF DecodeInv, k
    <2> QED
      BY <1>2, <1>3, ScoresAreInts, TokensBelow
  <1>5. /\ scan = [has |-> scan.has, token |-> scan.token, value |-> scan.value, seen |-> scan.seen]
        /\ scan.has <=> k > 0
        /\ scan.has =>
             /\ scan.token \in 0 .. (k - 1) /\ scan.value = scores[scan.token]
             /\ \A u \in 0 .. (k - 1) :
                  scores[u] < scan.value \/ (scores[u] = scan.value /\ scan.token <= u)
    BY <1>1 DEF ShapeInv, ScanInv
  <1> HIDE DEF e
  <1>6. /\ scan'.has = TRUE /\ scan'.seen = k + 1
        /\ scan'.token \in 0 .. k /\ scan'.value = scores[scan'.token]
        /\ \A u \in 0 .. k :
             scores[u] < scan'.value \/ (scores[u] = scan'.value /\ scan'.token <= u)
        /\ scan' = [has |-> scan'.has, token |-> scan'.token, value |-> scan'.value,
                    seen |-> scan'.seen]
    <2>1. CASE Better(e)
      <3>1. scan' = [has |-> TRUE, token |-> k, value |-> scores[k], seen |-> k + 1]
        BY <1>1, <1>3, <2>1
      <3>2. ASSUME NEW u \in 0 .. k
            PROVE  scores[u] < scores[k] \/ (scores[u] = scores[k] /\ k <= u)
        <4>1. CASE u = k
          BY <1>4, <3>2, <4>1
        <4>2. CASE u # k
          <5>1. u \in 0 .. (k - 1) /\ k > 0 /\ scan.has
            BY <1>2, <1>5, <3>2, <4>2
          <5>2. scores[k] > scan.value
            BY <1>3, <2>1, <5>1 DEF Better
          <5>3. scan.value \in Int /\ scores[u] \in Int
            BY <1>2, <1>4, <1>5, <3>2, <5>1
          <5> QED
            BY <1>3, <1>5, <5>1, <5>2, <5>3
        <4> QED
          BY <4>1, <4>2
      <3> QED
        BY <1>2, <3>1, <3>2
    <2>2. CASE ~Better(e)
      <3>1. scan' = [has |-> scan.has, token |-> scan.token, value |-> scan.value, seen |-> k + 1]
        BY <1>1, <1>5, <2>2
      <3>2. scan.has = TRUE /\ ~(scores[k] > scan.value)
        <4>1. scan.has \in BOOLEAN
          BY DEF TypeOK
        <4> QED
          BY <1>3, <2>2, <4>1 DEF Better
      <3>3. scan.token \in 0 .. (k - 1) /\ scan.value \in Int /\ scan.value = scores[scan.token]
        BY <1>2, <1>4, <1>5, <3>2
      <3>4. ASSUME NEW u \in 0 .. k
            PROVE  scores[u] < scan.value \/ (scores[u] = scan.value /\ scan.token <= u)
        <4>1. CASE u = k
          BY <1>2, <1>3, <3>2, <3>3, <4>1
        <4>2. CASE u # k
          <5>1. u \in 0 .. (k - 1)
            BY <1>2, <3>4, <4>2
          <5> QED
            BY <1>5, <3>2, <5>1
        <4> QED
          BY <4>1, <4>2
      <3> QED
        BY <1>2, <3>1, <3>2, <3>3, <3>4
    <2> QED
      BY <2>1, <2>2
  <1>7. TypeOK'
    <2>1. scan'.seen \in 0 .. Len(logits'.entries) /\ scan'.has \in BOOLEAN
      <3> HIDE DEF DecodeInv
      <3>1. logits' = logits
        BY <1>1
      <3>2. k + 1 \in 0 .. Vocab
        BY <1>2
      <3> QED
        BY <1>2, <1>6, <3>1, <3>2
    <2>2. PageCount' = PageCount
      BY <1>1 DEF PageCount, Values
    <2> QED
      BY <1>1, <2>1, <2>2 DEF TypeOK
  <1>8. ShapeInv'
    BY <1>1, <1>6 DEF ShapeInv
  <1>9. StepInv' /\ FinInv' /\ OnlyTornRowsFail'
    BY <1>1 DEF StepInv, FinInv, OnlyTornRowsFail
  <1>10. PositionInv'
    BY <1>1 DEF PositionInv, PositionsFollow
  <1>11. HeadInv'
    BY <1>1 DEF HeadInv, AllEntries, Entry
  <1>12. ScanInv'
    BY <1>1, <1>2, <1>6 DEF ScanInv
  <1> QED
    BY <1>7, <1>8, <1>9, <1>10, <1>11, <1>12

(* A scan that has seen everything has found a token. *)
LEMMA ScanIsComplete ==
  ASSUME DecodeInv, phase = "select", scan.seen = Len(logits.entries)
  PROVE  /\ scan.has /\ scan.token \in Token
         /\ scan.token = Promise!FirstOfBest(scores)
  <1> USE DEF DecodeInv
  <1>1. Vocab \in Nat \ {0} /\ Score \subseteq Int
    BY DecodeAssumption
  <1>2. logits.entries = AllEntries /\ scores \in [Token -> Score]
    BY DEF HeadInv
  <1>3. scan.seen = Vocab
    <2>1. Len(AllEntries) = Vocab
      BY <1>1 DEF AllEntries
    <2> QED
      BY <1>2, <2>1
  <1>4. /\ scan.has /\ scan.token \in Token /\ scan.value = scores[scan.token]
        /\ \A u \in Token :
             scores[u] < scan.value \/ (scores[u] = scan.value /\ scan.token <= u)
    BY <1>1, <1>3 DEF ScanInv, Token
  <1>5. \A u \in Token : u \in Int /\ scores[u] \in Int
    BY <1>2, ScoresAreInts
  <1> DEFINE IsBest(t) == \A u \in Token :
               scores[u] < scores[t] \/ (scores[u] = scores[t] /\ t <= u)
             best == CHOOSE t \in Token : IsBest(t)
  <1>6. IsBest(scan.token)
    BY <1>4
  <1>7. best \in Token /\ IsBest(best)
    <2> HIDE DEF IsBest
    <2> QED
      BY <1>4, <1>6
  <1>8. Promise!FirstOfBest(scores) = best
    BY Zenon DEF Promise!FirstOfBest
  <1> HIDE DEF best
  <1>9. scan.token = best
    BY <1>4, <1>5, <1>6, <1>7
  <1> QED
    BY <1>4, <1>8, <1>9

LEMMA SelectStep ==
  ASSUME DecodeInv, Select
  PROVE  /\ edge' = [selected |-> TRUE, position |-> logits.position, token |-> scan.token,
                     ids |-> Append(edge.ids, scan.token)]
         /\ scores' = Unscored /\ step' = step + 1 /\ phase' \in {"embed", "finalize"}
         /\ scan' = NoScan /\ logits' = NoLogits /\ page' = 0
         /\ UNCHANGED <<inputVars, how, rows, start, fin, output>>
         /\ phase = "select"
  <1>1. phase = "select" /\ scan.seen = Len(logits.entries)
    BY DEF Select
  <1>2. scan.has
    BY <1>1, ScanIsComplete
  <1>3. [Selected EXCEPT !.ids = Transcript] =
          [selected |-> TRUE, position |-> logits.position, token |-> scan.token,
           ids |-> Append(edge.ids, scan.token)]
    <2> DEFINE b == TRUE
               p == logits.position
               t == scan.token
               l == Transcript
    <2>1. Selected = [EmptyEdge EXCEPT !.selected = b, !.position = p, !.token = t]
      BY DEF Selected
    <2> HIDE DEF b, p, t, l
    <2>2. [EmptyEdge EXCEPT !.selected = b] =
            [selected |-> b, position |-> 0, token |-> 0, ids |-> <<>>]
      BY DEF EmptyEdge
    <2>3. ASSUME NEW m, m = [selected |-> b, position |-> 0, token |-> 0, ids |-> <<>>]
          PROVE  [m EXCEPT !.position = p] =
                   [selected |-> b, position |-> p, token |-> 0, ids |-> <<>>]
      BY <2>3
    <2>4. ASSUME NEW m, m = [selected |-> b, position |-> p, token |-> 0, ids |-> <<>>]
          PROVE  [m EXCEPT !.token = t] =
                   [selected |-> b, position |-> p, token |-> t, ids |-> <<>>]
      BY <2>4
    <2>5. ASSUME NEW m, m = [selected |-> b, position |-> p, token |-> t, ids |-> <<>>]
          PROVE  [m EXCEPT !.ids = l] =
                   [selected |-> b, position |-> p, token |-> t, ids |-> l]
      BY <2>5
    <2>6. [EmptyEdge EXCEPT !.selected = b, !.position = p, !.token = t] =
            [[[EmptyEdge EXCEPT !.selected = b] EXCEPT !.position = p] EXCEPT !.token = t]
      OBVIOUS
    <2>7. Selected = [selected |-> b, position |-> p, token |-> t, ids |-> <<>>]
      BY Zenon, <2>1, <2>2, <2>3, <2>4, <2>6
    <2>8. [Selected EXCEPT !.ids = l] = [selected |-> b, position |-> p, token |-> t, ids |-> l]
      BY Zenon, <2>5, <2>7
    <2> QED
      BY <2>8 DEF b, p, t, l, Transcript
  <1> QED
    BY <1>1, <1>2, <1>3 DEF Select, AfterSelection

LEMMA SelectInv == DecodeInv /\ Select => DecodeInv'
  <1> SUFFICES ASSUME DecodeInv, Select PROVE DecodeInv'
    OBVIOUS
  <1> USE DEF DecodeInv, inputVars
  <1>1. /\ edge' = [selected |-> TRUE, position |-> logits.position, token |-> scan.token,
                    ids |-> Append(edge.ids, scan.token)]
        /\ scores' = Unscored /\ step' = step + 1 /\ phase' \in {"embed", "finalize"}
        /\ scan' = NoScan /\ logits' = NoLogits /\ page' = 0
        /\ UNCHANGED <<inputVars, how, rows, start, fin, output>>
        /\ phase = "select"
    BY SelectStep
  <1>2. scan.token \in Token
    BY ScanIsComplete DEF Select
  <1>3. /\ step \in 0 .. budget /\ step < budget /\ budget \in Nat
        /\ edge.ids \in Seq(Token) /\ Len(edge.ids) = step
    BY <1>1, DecodeAssumption DEF TypeOK, StepInv
  <1>4. edge'.ids \in Seq(Token) /\ Len(edge'.ids) = step'
    BY <1>1, <1>2, <1>3
  <1>5. PageCount' = PageCount /\ PageCount \in Nat
    BY <1>1, Numbers DEF PageCount, Values, TypeOK
  <1>6. TypeOK'
    BY <1>1, <1>3, <1>4, <1>5 DEF TypeOK, NoScan, NoLogits
  <1>7. logits.position = Len(prompt) + step /\ logits.position \in Nat
    BY <1>1 DEF PositionInv, TypeOK
  <1>8. ShapeInv'
    <2>1. <<>> \in Entries
      BY DEF Entries
    <2>2. logits' \in [position : Nat, entries : Entries, errors : Nat]
      BY <1>1, <2>1 DEF NoLogits
    <2>3. /\ scan' = [has |-> scan'.has, token |-> scan'.token, value |-> scan'.value,
                      seen |-> scan'.seen]
          /\ edge' = [selected |-> edge'.selected, position |-> edge'.position,
                      token |-> edge'.token, ids |-> edge'.ids]
      BY <1>1 DEF NoScan
    <2> QED
      BY <1>1, <1>7, <2>2, <2>3 DEF ShapeInv
  <1>9. StepInv'
    BY <1>1, <1>2, <1>3, <1>4 DEF StepInv
  <1>10. PositionInv'
    <2>1. Len(prompt) \in Nat
      BY DecodeAssumption DEF TypeOK
    <2> QED
      BY <1>1, <1>3, <1>7, <2>1 DEF PositionInv, PositionsFollow
  <1>11. HeadInv' /\ ScanInv' /\ OnlyTornRowsFail'
    BY <1>1 DEF HeadInv, ScanInv, OnlyTornRowsFail
  <1>12. FinInv'
    BY <1>1, <1>3 DEF FinInv
  <1> QED
    BY <1>6, <1>8, <1>9, <1>10, <1>11, <1>12

(* The decoder of the text counts every token that it is given. *)
IsFinal(h) == h = [count |-> h.count, json |-> h.json, text |-> h.text,
                   pending |-> h.pending, stopped |-> h.stopped]

LEMMA FinalExcept ==
  ASSUME NEW h, IsFinal(h), NEW a
  PROVE  /\ [h EXCEPT !.stopped = a] =
              [count |-> h.count, json |-> h.json, text |-> h.text, pending |-> h.pending,
               stopped |-> a]
         /\ [h EXCEPT !.pending = a] =
              [count |-> h.count, json |-> h.json, text |-> h.text, pending |-> a,
               stopped |-> h.stopped]
         /\ [h EXCEPT !.text = a] =
              [count |-> h.count, json |-> h.json, text |-> a, pending |-> h.pending,
               stopped |-> h.stopped]
  BY DEF IsFinal

LEMMA FlushKeeps ==
  ASSUME NEW g, IsFinal(g)
  PROVE  FlushPending(g).count = g.count /\ IsFinal(FlushPending(g))
  BY DEF FlushPending, IsFinal

LEMMA AfterTokenCounts ==
  ASSUME NEW f, NEW t, IsFinal(f)
  PROVE  AfterToken(f, t).count = f.count + 1 /\ IsFinal(AfterToken(f, t))
  <1> DEFINE g == Counted(f, t)
             Keeps(x, h) == x.count = h.count /\ IsFinal(x)
             a == Append(f.json, t)
             b == f.count + 1
  <1>1. Counted(f, t) = [f EXCEPT !.json = a, !.count = b]
    BY Zenon DEF Counted
  <1>2. Counted(f, t) = [count |-> b, json |-> a, text |-> f.text, pending |-> f.pending,
                         stopped |-> f.stopped]
    <2> HIDE DEF a, b
    <2>1. PICK c, j, x, p, s :
            f = [count |-> c, json |-> j, text |-> x, pending |-> p, stopped |-> s]
      BY DEF IsFinal
    <2>2. [f EXCEPT !.json = a] =
            [count |-> c, json |-> a, text |-> x, pending |-> p, stopped |-> s]
      BY <2>1
    <2>3. [f EXCEPT !.json = a, !.count = b] = [[f EXCEPT !.json = a] EXCEPT !.count = b]
      OBVIOUS
    <2>4. ASSUME NEW m, m = [count |-> c, json |-> a, text |-> x, pending |-> p, stopped |-> s]
          PROVE  [m EXCEPT !.count = b] =
                   [count |-> b, json |-> a, text |-> x, pending |-> p, stopped |-> s]
      BY <2>4
    <2>5. Counted(f, t) = [count |-> b, json |-> a, text |-> x, pending |-> p, stopped |-> s]
      BY Zenon, <1>1, <2>2, <2>3, <2>4
    <2>6. f.text = x /\ f.pending = p /\ f.stopped = s
      BY <2>1
    <2> QED
      BY Zenon, <2>5, <2>6
  <1>3. g.count = f.count + 1 /\ IsFinal(g)
    <2> HIDE DEF a
    <2> QED
      BY <1>2 DEF IsFinal
  <1>4. \/ AfterToken(f, t) = g
        \/ AfterToken(f, t) = [FlushPending(g) EXCEPT !.stopped = TRUE]
        \/ AfterToken(f, t) = FlushPending(g)
        \/ AfterToken(f, t) = [g EXCEPT !.pending = Append(@, Decoder[t].byte)]
        \/ AfterToken(f, t) = [FlushPending(g) EXCEPT !.text = Append(@, Decoder[t].text)]
    BY DEF AfterToken
  <1> HIDE DEF g
  <1>5. Keeps(g, g) /\ Keeps(FlushPending(g), g)
    BY <1>3, FlushKeeps
  <1>6. ASSUME NEW h, NEW d, IsFinal(h)
        PROVE  /\ Keeps([h EXCEPT !.stopped = d], h) /\ Keeps([h EXCEPT !.pending = d], h)
               /\ Keeps([h EXCEPT !.text = d], h)
    BY <1>6, FinalExcept DEF IsFinal
  <1>7. /\ Keeps([FlushPending(g) EXCEPT !.stopped = TRUE], g)
        /\ Keeps([g EXCEPT !.pending = Append(g.pending, Decoder[t].byte)], g)
        /\ Keeps([FlushPending(g) EXCEPT !.text = Append(FlushPending(g).text, Decoder[t].text)], g)
    <2> DEFINE m == FlushPending(g)
    <2>1. Keeps(m, g) /\ IsFinal(m)
      BY <1>5
    <2> HIDE DEF m
    <2>2. Keeps([m EXCEPT !.stopped = TRUE], m)
      <3> HIDE DEF Keeps
      <3> QED
        BY Zenon, <1>6, <2>1
    <2>3. Keeps([g EXCEPT !.pending = Append(g.pending, Decoder[t].byte)], g)
      <3> HIDE DEF Keeps
      <3> QED
        BY Zenon, <1>6, <1>3
    <2>4. Keeps([m EXCEPT !.text = Append(m.text, Decoder[t].text)], m)
      <3> HIDE DEF Keeps
      <3> QED
        BY Zenon, <1>6, <2>1
    <2>5. /\ Keeps([m EXCEPT !.stopped = TRUE], g)
          /\ Keeps([m EXCEPT !.text = Append(m.text, Decoder[t].text)], g)
      BY Zenon, <2>1, <2>2, <2>4
    <2> QED
      BY Zenon, <2>3, <2>5 DEF m
  <1>8. Keeps(AfterToken(f, t), g)
    BY Zenon, <1>4, <1>5, <1>7
  <1> QED
    BY <1>3, <1>8

LEMMA ConsumeInv == DecodeInv /\ ConsumeToken => DecodeInv'
  <1> SUFFICES ASSUME DecodeInv, ConsumeToken PROVE DecodeInv'
    OBVIOUS
  <1> USE DEF DecodeInv
  <1>1. /\ phase = "finalize" /\ fin.count < Len(edge.ids)
        /\ fin' = AfterToken(fin, edge.ids[fin.count + 1])
        /\ UNCHANGED <<inputVars, phase, how, step, modelVars, headVars, scan, edge, output>>
    BY DEF ConsumeToken
  <1> USE DEF inputVars, modelVars, headVars
  <1>2. /\ fin'.count = fin.count + 1
        /\ fin' = [count |-> fin'.count, json |-> fin'.json, text |-> fin'.text,
                   pending |-> fin'.pending, stopped |-> fin'.stopped]
    BY <1>1, AfterTokenCounts DEF ShapeInv, IsFinal
  <1>3. TypeOK'
    BY <1>1 DEF TypeOK, PageCount, Values
  <1>4. ShapeInv'
    BY <1>1, <1>2 DEF ShapeInv
  <1>5. StepInv' /\ HeadInv' /\ ScanInv' /\ OnlyTornRowsFail'
    BY <1>1 DEF StepInv, HeadInv, ScanInv, OnlyTornRowsFail
  <1>6. PositionInv'
    BY <1>1 DEF PositionInv, PositionsFollow
  <1>7. FinInv'
    BY <1>1, <1>2 DEF FinInv, StepInv, TypeOK
  <1> QED
    BY <1>3, <1>4, <1>5, <1>6, <1>7

LEMMA FinishInv == DecodeInv /\ FinishOutput => DecodeInv'
  <1> SUFFICES ASSUME DecodeInv, FinishOutput PROVE DecodeInv'
    OBVIOUS
  <1> USE DEF DecodeInv
  <1>1. /\ phase = "finalize" /\ fin.count = Len(edge.ids) /\ fin' = FlushPending(fin)
        /\ UNCHANGED <<inputVars, how, step, modelVars, headVars, scan, edge>>
    BY DEF FinishOutput
  <1>2. phase' = "done"
    <2>1. edge.selected = (fin.count > 0)
      <3>1. edge.selected \in BOOLEAN /\ (edge.selected <=> fin.count > 0)
        BY <1>1 DEF StepInv, TypeOK
      <3> QED
        BY <3>1
    <2> QED
      BY <2>1 DEF FinishOutput, Fail
  <1> USE DEF inputVars, modelVars, headVars
  <1>3. /\ fin'.count = fin.count
        /\ fin' = [count |-> fin'.count, json |-> fin'.json, text |-> fin'.text,
                   pending |-> fin'.pending, stopped |-> fin'.stopped]
    BY <1>1 DEF ShapeInv, FlushPending
  <1>4. TypeOK'
    BY <1>1, <1>2 DEF TypeOK, PageCount, Values
  <1>5. ShapeInv'
    BY <1>1, <1>3 DEF ShapeInv
  <1>6. StepInv' /\ HeadInv' /\ ScanInv' /\ OnlyTornRowsFail'
    BY <1>1, <1>2 DEF StepInv, HeadInv, ScanInv, OnlyTornRowsFail
  <1>7. PositionInv' /\ FinInv'
    BY <1>1, <1>2, <1>3 DEF PositionInv, PositionsFollow, FinInv
  <1> QED
    BY <1>4, <1>5, <1>6, <1>7

LEMMA DecodeNextInv == DecodeInv /\ [Next]_vars => DecodeInv'
  <1> SUFFICES ASSUME DecodeInv, [Next]_vars PROVE DecodeInv'
    OBVIOUS
  <1>1. CASE EmbedPrompt \/ EmbedSelected BY <1>1, EmbedInv
  <1>2. CASE BeginHead BY <1>2, BeginHeadInv
  <1>3. CASE ScoreAll  BY <1>3, ScoreAllInv
  <1>4. CASE ScorePage BY <1>4, ScorePageInv
  <1>5. CASE EndHead   BY <1>5, EndHeadInv
  <1>6. CASE ScanEntry BY <1>6, ScanEntryInv
  <1>7. CASE Select    BY <1>7, SelectInv
  <1>8. CASE ConsumeToken BY <1>8, ConsumeInv
  <1>9. CASE FinishOutput BY <1>9, FinishInv
  <1>10. CASE UNCHANGED vars
    <2> USE <1>10 DEF DecodeInv, vars, inputVars, modelVars, headVars
    <2>1. TypeOK' /\ ShapeInv' /\ StepInv' /\ FinInv' /\ OnlyTornRowsFail'
      BY DEF TypeOK, PageCount, Values, ShapeInv, StepInv, FinInv, OnlyTornRowsFail
    <2>2. PositionInv' /\ ScanInv'
      BY DEF PositionInv, PositionsFollow, DecodePosition, ScanInv
    <2>3. HeadInv'
      BY DEF HeadInv, AllEntries, Entry, Read, PageOffset, Values
    <2> QED
      BY <2>1, <2>2, <2>3
  <1> QED
    BY <1>1, <1>2, <1>3, <1>4, <1>5, <1>6, <1>7, <1>8, <1>9, <1>10 DEF Next

(* Steps, positions, entries, scan and transcript of a generation stay     *)
(* consistent, for every vocabulary and every layout of its pages. *)
THEOREM DecodeInvariance == Spec => []DecodeInv
  <1> QED
    BY DecodeInitInv, DecodeNextInv, PTL DEF Spec

-----------------------------------------------------------------------------
(* The properties that the runs check, for every instance.                 *)

(* A selected token stands right after everything before it. *)
THEOREM PositionsAlwaysFollow == Spec => []PositionsFollow
  <1>1. DecodeInv => PositionsFollow
    BY DEF DecodeInv, PositionInv
  <1> QED
    BY <1>1, DecodeInvariance, PTL

(* Only an empty prompt or a page that cuts a row makes a generation fail: *)
(* no offset into the pages is wrong, however long the table is. *)
THEOREM FailuresAreTornRows == Spec => []OnlyTornRowsFail
  <1>1. DecodeInv => OnlyTornRowsFail
    BY DEF DecodeInv
  <1> QED
    BY <1>1, DecodeInvariance, PTL

(* Whoever scores and scans, each selection is the one of GreedyDecoding:  *)
(* the first of the best scores is appended to the transcript. *)
SelectionsAreGreedy == [][Select => Promise!Choose]_vars

(* No step of either runtime selects another token. *)
THEOREM SelectionsStayGreedy == Spec => SelectionsAreGreedy
  <1>1. ASSUME DecodeInv, Select PROVE Promise!Choose
    <2>1. /\ edge'.ids = Append(edge.ids, scan.token) /\ scores' = Unscored
          /\ output' = output /\ phase = "select"
      BY <1>1, SelectStep
    <2>2. scan.token = Promise!FirstOfBest(scores)
      BY <1>1, ScanIsComplete DEF Select
    <2>3. scores # Unscored
      <3>1. scores \in [Token -> Score] /\ 0 \in Token
        BY <1>1, <2>1, DecodeAssumption DEF DecodeInv, HeadInv, Token
      <3>2. DOMAIN Unscored = {} /\ DOMAIN scores = Token
        BY <3>1 DEF Unscored
      <3> QED
        BY <3>1, <3>2
    <2>4. output = Nothing
      BY <1>1, <2>1 DEF DecodeInv, FinInv
    <2>5. edge.ids' = Append(edge.ids, scan.token)
      BY <2>1
    <2> QED
      BY <2>1, <2>2, <2>3, <2>4, <2>5
      DEF Promise!Choose, Promise!Unscored, Promise!Nothing, Unscored, Nothing
  <1>2. DecodeInv /\ [Next]_vars => [Select => Promise!Choose]_vars
    BY <1>1
  <1> QED
    BY <1>2, DecodeInvariance, PTL DEF Spec, SelectionsAreGreedy
=============================================================================

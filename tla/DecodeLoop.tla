------------------------------ MODULE DecodeLoop ------------------------------
(***************************************************************************)
(* Generation around the transformer layers: the embedding of the prompt   *)
(* and of each selected token, the scores of the output head, the greedy   *)
(* selection, the edge that carries the transcript from one iteration to   *)
(* the next, and the output that is made of it in the end.                 *)
(*                                                                         *)
(* A chain runs the stages input_embedding, prefill_finalize, decode_init, *)
(* decode_select_token, decode_embed and output_finalize, each as a native *)
(* kernel or as Raster tiles, and its loop is unrolled: it embeds and      *)
(* scores after the last selection too, and never stops early.  The direct *)
(* runtime calls the same code in a loop of its own.  Tiles take the       *)
(* projection a page at a time.  A layer keeps the number of rows and      *)
(* where they start.                                                       *)
(***************************************************************************)
EXTENDS Integers, Sequences, FiniteSets

CONSTANTS
  Vocab,           (* the number of tokens                                   *)
  Score,           (* scores of a token                                      *)
  Decoder,         (* token -> its row of the decoder table                  *)
  Lead, Trail,     (* the bytes of a character of two bytes                  *)
  Letter, Garbage, (* that character, and the replacement character          *)
  Layouts,         (* the width of a row and the values that a page holds    *)
  Prompts,         (* token ids of prompts                                   *)
  Budgets          (* tokens to generate                                     *)

Token == 0 .. (Vocab - 1)
Bytes == {Lead, Trail}

ASSUME DecodeAssumption ==
  /\ Vocab \in Nat \ {0}
  /\ Score \subseteq Int
  /\ Decoder \in [Token -> [text : STRING, byte : Bytes \cup {"none"},
                            special : BOOLEAN, terminal : BOOLEAN]]
  /\ Lead # Trail /\ "none" \notin Bytes
  /\ \A l \in Layouts : l.width \in Nat \ {0} /\ l.page \in Nat \ {0}
  /\ Prompts \subseteq Seq(Token)
  /\ Budgets \subseteq Nat

VARIABLES
  runtime, layout, prompt, budget,  (* the input, and which runtime          *)
  phase, how,      (* what comes next, and who executes it                   *)
  step,            (* tokens selected                                        *)
  rows, start,     (* the activations: how many, and the position of the first *)
  scores,          (* what the model makes of them                           *)
  logits,          (* position, entries and errors of the head               *)
  page,            (* the pages that were scored                             *)
  scan,            (* the running best, and the entries looked at            *)
  edge, fin,       (* the transcript, and the decoder of its text            *)
  output

inputVars == <<runtime, layout, prompt, budget>>
modelVars == <<rows, start, scores>>
headVars == <<logits, page>>
vars == <<inputVars, phase, how, step, modelVars, headVars, scan, edge, fin, output>>

Unscored == [t \in {} |-> 0]
Nothing == [count |-> -1]
NoLogits == [position |-> 0, entries |-> <<>>, errors |-> 0]
NoScan == [has |-> FALSE, token |-> 0, value |-> 0, seen |-> 0]
EmptyEdge == [selected |-> FALSE, position |-> 0, token |-> 0, ids |-> <<>>]
EmptyFinal == [count |-> 0, json |-> <<>>, text |-> <<>>, pending |-> <<>>, stopped |-> FALSE]

-----------------------------------------------------------------------------
(* Pages of a table of Vocab rows; offsets count values.                   *)

Values == Vocab * layout.width
(* A faulty variant: the rest that fills no page is forgotten.             *)
FullPages == Values \div layout.page
PageCount == (Values + layout.page - 1) \div layout.page
PageOffset(p) == p * layout.page
PageLength(p) == IF PageOffset(p) + layout.page <= Values THEN layout.page
                 ELSE Values - PageOffset(p)

(* The row of a token is looked for in one page, whoever embeds it. *)
PageOf(t) == (t * layout.width) \div layout.page
HasRow(t) ==
  /\ PageOf(t) < PageCount
  /\ (t * layout.width - PageOffset(PageOf(t))) + layout.width <= PageLength(PageOf(t))

(* The direct runtime reads the rows from the weights file, whose rows are *)
(* never cut.  A tile counts the rows it cannot find, a kernel stops at    *)
(* the first.                                                              *)
RowErrors(ts) == {i \in DOMAIN ts : ~HasRow(ts[i])}
EmbedsPrompt == runtime = "direct" \/ RowErrors(prompt) = {}
EmbedsSelected == edge.selected /\ (runtime = "direct" \/ HasRow(edge.token))

(* A tile takes whole rows only. *)
WholeRows(p) == PageLength(p) % layout.width = 0 /\ PageOffset(p) % layout.width = 0

FirstToken(p) == PageOffset(p) \div layout.width

Entry(t) == [token |-> t, value |-> scores[t]]
PageEntries(p) ==
  [i \in 1 .. (PageLength(p) \div layout.width) |-> Entry(FirstToken(p) + i - 1)]
AllEntries == [i \in 1 .. Vocab |-> Entry(i - 1)]

-----------------------------------------------------------------------------
Init ==
  /\ runtime \in {"staged", "direct"} /\ layout \in Layouts
  /\ prompt \in Prompts /\ budget \in Budgets
  /\ phase = "embed" /\ how = "none" /\ step = 0
  /\ rows = 0 /\ start = 0 /\ scores = Unscored
  /\ logits = NoLogits /\ page = 0 /\ scan = NoScan
  /\ edge = EmptyEdge /\ fin = EmptyFinal /\ output = Nothing

Fail == phase' = "failed"

(* input_embedding *)
EmbedPrompt ==
  /\ phase = "embed" /\ step = 0
  /\ IF EmbedsPrompt THEN /\ rows' = Len(prompt) /\ start' = 0 /\ phase' = "head"
                       ELSE Fail /\ UNCHANGED <<rows, start>>
  /\ UNCHANGED <<inputVars, how, step, scores, headVars, scan, edge, fin, output>>

(* decode_embed *)
EmbedSelected ==
  /\ phase = "embed" /\ step > 0
  /\ IF EmbedsSelected
     THEN /\ rows' = 1 /\ start' = edge.position /\ phase' = "head"
     ELSE Fail /\ UNCHANGED <<rows, start>>
  /\ UNCHANGED <<inputVars, how, step, scores, headVars, scan, edge, fin, output>>

Executors == IF runtime = "direct" THEN {"native"} ELSE {"native", "tiles"}

(* A faulty variant: the number of rows, whatever came before them.        *)
RowsOnly == rows
DecodePosition == start + rows

(* prefill_finalize, after the layers. *)
BeginHead ==
  /\ phase = "head"
  /\ IF rows = 0 THEN Fail /\ UNCHANGED <<how, scores, headVars>>
     ELSE /\ how' \in Executors
          /\ scores' \in [Token -> Score]
          /\ logits' = [NoLogits EXCEPT !.position = DecodePosition]
          /\ page' = 0 /\ phase' = "scores"
  /\ UNCHANGED <<inputVars, step, rows, start, scan, edge, fin, output>>

ScoreAll ==
  /\ phase = "scores" /\ how = "native" /\ page = 0
  /\ logits' = [logits EXCEPT !.entries = AllEntries]
  /\ page' = PageCount
  /\ UNCHANGED <<inputVars, phase, how, step, modelVars, scan, edge, fin, output>>

(* A faulty variant: a page that cannot be read is tried again.            *)
RetryPage ==
  /\ phase = "scores" /\ how = "tiles" /\ page < PageCount
  /\ logits' = IF WholeRows(page)
               THEN [logits EXCEPT !.entries = @ \o PageEntries(page)]
               ELSE [logits EXCEPT !.errors = 1]
  /\ page' = IF WholeRows(page) THEN page + 1 ELSE page
  /\ UNCHANGED <<inputVars, phase, how, step, modelVars, scan, edge, fin, output>>

ScorePage ==
  /\ phase = "scores" /\ how = "tiles" /\ page < PageCount
  /\ logits' = IF WholeRows(page)
               THEN [logits EXCEPT !.entries = @ \o PageEntries(page)]
               ELSE [logits EXCEPT !.errors = @ + 1]
  /\ page' = page + 1
  /\ UNCHANGED <<inputVars, phase, how, step, modelVars, scan, edge, fin, output>>

(* The chain has budget iterations. *)
EndHead ==
  /\ phase = "scores" /\ page = PageCount
  /\ phase' = IF logits.errors > 0 THEN "failed"
              ELSE IF step < budget THEN "select" ELSE "finalize"
  /\ how' = "none"
  /\ UNCHANGED <<inputVars, step, modelVars, headVars, scan, edge, fin, output>>

-----------------------------------------------------------------------------
(* decode_select_token: the kernel and the tiles look at the entries one   *)
(* by one, and the best of a chunk goes on into the next.                  *)

(* A faulty variant: the last of equals wins.                              *)
NotWorse(e) == ~scan.has \/ e.value >= scan.value
Better(e) == ~scan.has \/ e.value > scan.value

ScanEntry ==
  /\ phase = "select" /\ scan.seen < Len(logits.entries)
  /\ LET e == logits.entries[scan.seen + 1]
     IN  scan' = IF Better(e) THEN [has |-> TRUE, token |-> e.token, value |-> e.value,
                                    seen |-> scan.seen + 1]
                              ELSE [scan EXCEPT !.seen = @ + 1]
  /\ UNCHANGED <<inputVars, phase, how, step, modelVars, headVars, edge, fin, output>>

(* The direct runtime leaves its loop with the last token.                 *)
AfterSelection == IF runtime = "direct" /\ step + 1 = budget THEN "finalize" ELSE "embed"

Selected ==
  [EmptyEdge EXCEPT !.selected = TRUE, !.position = logits.position, !.token = scan.token]
Transcript == Append(edge.ids, scan.token)

Select ==
  /\ phase = "select" /\ scan.seen = Len(logits.entries)
  /\ IF ~scan.has THEN Fail /\ UNCHANGED <<step, scores, edge>>
     ELSE /\ edge' = [Selected EXCEPT !.ids = Transcript]
          /\ scores' = Unscored
          /\ step' = step + 1 /\ phase' = AfterSelection
  /\ scan' = NoScan /\ logits' = NoLogits /\ page' = 0
  /\ UNCHANGED <<inputVars, how, rows, start, fin, output>>

-----------------------------------------------------------------------------
(* output_finalize *)

(* Bytes as UTF-8, with a replacement for each that is out of place.       *)
Decoded(bytes) ==
  LET Starts(i) == bytes[i] = Lead /\ i < Len(bytes) /\ bytes[i + 1] = Trail
      Garbled == {i \in DOMAIN bytes : ~Starts(i) /\ ~(i > 1 /\ Starts(i - 1))}
      Chars == {i \in DOMAIN bytes : Starts(i)} \cup Garbled
      Nth(k) == CHOOSE i \in Chars : Cardinality({j \in Chars : j < i}) = k - 1
  IN  [k \in 1 .. Cardinality(Chars) |-> IF Nth(k) \in Garbled THEN Garbage ELSE Letter]

FlushPending(f) ==
  IF f.pending = <<>> THEN f
  ELSE [f EXCEPT !.text = @ \o Decoded(f.pending), !.pending = <<>>]

Counted(f, t) == [f EXCEPT !.json = Append(@, t), !.count = @ + 1]

AfterToken(f, t) ==
  LET g == Counted(f, t)
      row == Decoder[t]
  IN  CASE g.stopped -> g
        [] row.terminal -> [FlushPending(g) EXCEPT !.stopped = TRUE]
        [] row.special -> FlushPending(g)
        [] row.byte # "none" -> [g EXCEPT !.pending = Append(@, row.byte)]
        [] OTHER -> [FlushPending(g) EXCEPT !.text = Append(@, row.text)]

ConsumeToken ==
  /\ phase = "finalize" /\ fin.count < Len(edge.ids)
  /\ fin' = AfterToken(fin, edge.ids[fin.count + 1])
  /\ UNCHANGED <<inputVars, phase, how, step, modelVars, headVars, scan, edge, output>>

GeneratedOutput(f) ==
  [count |-> f.count, ids |-> edge.ids, digest |-> f.json, text |-> f.text,
   reason |-> IF f.stopped THEN "eos" ELSE "max_new_tokens"]

FinishOutput ==
  /\ phase = "finalize" /\ fin.count = Len(edge.ids)
  /\ fin' = FlushPending(fin)
  /\ IF edge.selected # (fin.count > 0) THEN Fail /\ UNCHANGED output
     ELSE output' = GeneratedOutput(fin') /\ phase' = "done"
  /\ UNCHANGED <<inputVars, how, step, modelVars, headVars, scan, edge>>

Next ==
  \/ EmbedPrompt \/ EmbedSelected
  \/ BeginHead \/ ScoreAll \/ ScorePage \/ EndHead
  \/ ScanEntry \/ Select
  \/ ConsumeToken \/ FinishOutput

Spec == Init /\ [][Next]_vars
FairSpec == Spec /\ WF_vars(Next)

-----------------------------------------------------------------------------
(* Properties.                                                             *)

TypeOK ==
  /\ runtime \in {"staged", "direct"} /\ layout \in Layouts
  /\ prompt \in Prompts /\ budget \in Budgets
  /\ phase \in {"embed", "head", "scores", "select", "finalize", "done", "failed"}
  /\ how \in {"none", "native", "tiles"}
  /\ step \in 0 .. budget
  /\ rows \in Nat /\ start \in Nat /\ page \in 0 .. PageCount
  /\ scores = Unscored \/ scores \in [Token -> Score]
  /\ logits.position \in Nat /\ logits.errors \in Nat
  /\ scan.has \in BOOLEAN /\ scan.seen \in 0 .. Len(logits.entries)
  /\ edge.selected \in BOOLEAN /\ edge.ids \in Seq(Token) /\ Len(edge.ids) = step

(* What is generated implements greedy decoding: kernels, tiles and the    *)
(* direct loop take the first of the best scores, and the published output *)
(* reports what was generated and the text up to the first terminal token. *)
Promise == INSTANCE GreedyDecoding WITH ids <- edge.ids
IsGreedyDecoding == Promise!Spec

(* A row stands where the transcript says: the prompt from 0 on, and each  *)
(* selected token right after everything before it, although positions are *)
(* handed on as a start and a number of rows (begin_logits) and a decode   *)
(* stage sees one row only.                                                *)
PositionsFollow ==
  /\ phase \in {"head", "scores"} => DecodePosition = Len(prompt) + step
  /\ edge.selected => edge.position = Len(prompt) + step - 1

(* A generation fails only for an empty prompt, or where a row is cut in   *)
(* two by the end of a page; never for the flags and counts it keeps.      *)
OnlyTornRowsFail ==
  phase = "failed" =>
    \/ prompt = <<>>
    \/ runtime = "staged" /\ layout.page % layout.width # 0

(* Every generation comes to an end, if the runner goes on. *)
GenerationEnds == <>(phase \in {"done", "failed"})
=============================================================================

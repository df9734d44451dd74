--------------------------- MODULE HeadArithmetic ---------------------------
(***************************************************************************)
(* The arithmetic of one attention head for one query, in the numbers of   *)
(* DetNum: the query's row is normalised (the inverse root of its mean     *)
(* square is found by bisection) and rotated; every visible key is scored; *)
(* softmax turns the scores into weights that must add up to 1.0; and the  *)
(* weighted value rows are accumulated and narrowed once.  Keys arrive in  *)
(* any order in both sweeps, each in the slot of its own position: the     *)
(* order of wrapping additions is not part of the contract                 *)
(* (det-num/src/ops.rs:14-16).  Which keys a query sees is LayerPass.      *)
(***************************************************************************)
EXTENDS DetNum

CONSTANTS
  NumLanes, (* the width of a head *)
  NumPairs, (* the pairs of lanes that position rotates *)
  NumSlots, (* the width of the query's window *)
  Inputs    (* what heads are computed from *)

Lanes == 1 .. NumLanes
Slots == 1 .. NumSlots
Row == [Lanes -> Act]

ASSUME HeadAssumption ==
  /\ NumLanes \in Nat \ {0} /\ NumSlots \in Nat \ {0} /\ NumPairs \in Nat
  /\ 2 * NumPairs <= NumLanes
  /\ One + NumSlots < ActLimit
  /\ Inputs \subseteq [row : Row, norm : Row, eps : 0 .. AccLimit - 1,
                       cos : [1 .. NumPairs -> Act], sin : [1 .. NumPairs -> Act],
                       keys : [Slots -> Row], values : [Slots -> Row]]

VARIABLES
  input,    (* the head's input *)
  phase,    (* "norm", "root", "query", "scores", "context" or "done" *)
  low,      (* bisection: the root is at least this *)
  high,     (* bisection: the root is at most this, rounded down *)
  scale,    (* the inverse root of the mean square *)
  query,    (* the query, normalised and rotated *)
  scores,   (* of each key *)
  seen,     (* the keys that the current sweep has had *)
  weights,  (* of each key *)
  acc,      (* the accumulators of the context *)
  context   (* the head's result *)

vars == <<input, phase, low, high, scale, query, scores, seen, weights, acc, context>>

ZeroRow == [d \in Lanes |-> 0]

Init ==
  /\ input \in Inputs
  /\ phase = "norm"
  /\ low = 0 /\ high = 0 /\ scale = 0
  /\ query = ZeroRow
  /\ scores = [k \in Slots |-> 0]
  /\ seen = {}
  /\ weights = [k \in Slots |-> 0]
  /\ acc = ZeroRow
  /\ context = ZeroRow

-----------------------------------------------------------------------------
(* Normalising and rotating the query.                                     *)

MeanSquare(row) ==
  DivAccBy(ClampAcc(Sum([d \in Lanes |-> row[d] * row[d]], NumLanes)), NumLanes)

Adjusted == AccAddSat(MeanSquare(input.row), input.eps)

(* c is the inverse root of x if this is Target. *)
Product(c, x) == c * c * x
Target == AccOne * AccOne

(* Nothing to search for if the largest activation is not too large. *)
BeginRoot ==
  /\ phase = "norm"
  /\ IF Product(ActMax, Adjusted) <= Target
     THEN scale' = ActMax /\ phase' = "query" /\ UNCHANGED high
     ELSE high' = ActMax /\ phase' = "root" /\ UNCHANGED scale
  /\ UNCHANGED <<input, low, query, scores, seen, weights, acc, context>>

Middle == low + (high - low + 1) \div 2

Bisect ==
  /\ phase = "root"
  /\ low < high
  /\ IF Product(Middle, Adjusted) <= Target
     THEN low' = Middle /\ UNCHANGED high
     ELSE high' = Middle - 1 /\ UNCHANGED low
  /\ UNCHANGED <<input, phase, scale, query, scores, seen, weights, acc, context>>

(* A faulty variant: the root is always rounded down. *)
RoundedDown(x) == low

(* The root rounded down or up, whichever is closer, and even if neither is. *)
Settled(x) ==
  LET upper == IF low < ActMax THEN low + 1 ELSE ActMax
      lowerError == Target - Product(low, x)
      upperError == Product(upper, x) - Target
  IN IF \/ upper = low
        \/ lowerError < upperError
        \/ lowerError = upperError /\ low % 2 = 0
     THEN low
     ELSE upper

Settle ==
  /\ phase = "root"
  /\ low = high
  /\ scale' = Settled(Adjusted)
  /\ phase' = "query"
  /\ UNCHANGED <<input, low, high, query, scores, seen, weights, acc, context>>

Normed == [d \in Lanes |-> MulSat(MulSat(input.row[d], scale), input.norm[d])]

(* Lanes d and d + NumPairs turn by the angle of the query's position. *)
Rotated(row) ==
  [d \in Lanes |->
     IF d <= NumPairs
     THEN SubSat(MulSat(row[d], input.cos[d]), MulSat(row[d + NumPairs], input.sin[d]))
     ELSE IF d <= 2 * NumPairs
     THEN LET p == d - NumPairs
          IN AddSat(MulSat(row[d], input.cos[p]), MulSat(row[p], input.sin[p]))
     ELSE row[d]]

Project ==
  /\ phase = "query"
  /\ query' = Rotated(Normed)
  /\ phase' = "scores"
  /\ UNCHANGED <<input, low, high, scale, scores, seen, weights, acc, context>>

-----------------------------------------------------------------------------
(* Scores and weights.                                                     *)

Score(k) ==
  /\ phase = "scores"
  /\ k \notin seen
  /\ scores' = [scores EXCEPT ![k] = Dot(query, input.keys[k], NumLanes)]
  /\ seen' = seen \cup {k}
  /\ UNCHANGED <<input, phase, low, high, scale, query, weights, acc, context>>

(* The first slot of the greatest score. *)
First == CHOOSE k \in Slots : \A j \in Slots :
           scores[j] <= scores[k] /\ (j < k => scores[j] < scores[k])

Exps == [k \in Slots |-> ExpTerm(scores[k], scores[First])]

(* The fold saturates; all its terms have one sign. *)
Total(exps) == ClampAcc(Sum(exps, NumSlots))

(* A faulty variant: the quotient is cut off, not rounded. *)
CutWeight(exp, total) == ((exp * AccOne) \div total) \div One

RawWeight(exp, total) == Requantize(DivAcc(exp, total))

RawWeights == [k \in Slots |-> RawWeight(Exps[k], Total(Exps))]

(* A faulty variant: the weights are left as they were rounded. *)
Uncorrected(raw) == raw

(* What is missing from 1.0, or more than it, is the first maximum's. *)
Corrected(raw) ==
  LET residual == SubSat(One, ClampAct(Sum(raw, NumSlots)))
  IN [raw EXCEPT ![First] = AddSat(@, residual)]

Softmax ==
  /\ phase = "scores"
  /\ seen = Slots
  /\ weights' = Corrected(RawWeights)
  /\ seen' = {}
  /\ phase' = "context"
  /\ UNCHANGED <<input, low, high, scale, query, scores, acc, context>>

-----------------------------------------------------------------------------
(* The weighted sum of the values.                                         *)

Accumulate(k) ==
  /\ phase = "context"
  /\ k \notin seen
  /\ acc' = [d \in Lanes |-> MacBits(acc[d], weights[k], input.values[k][d])]
  /\ seen' = seen \cup {k}
  /\ UNCHANGED <<input, phase, low, high, scale, query, scores, weights, context>>

Finish ==
  /\ phase = "context"
  /\ seen = Slots
  /\ context' = [d \in Lanes |-> Requantize(acc[d])]
  /\ phase' = "done"
  /\ UNCHANGED <<input, low, high, scale, query, scores, seen, weights, acc>>

Next ==
  \/ BeginRoot
  \/ Bisect
  \/ Settle
  \/ Project
  \/ \E k \in Slots : Score(k)
  \/ Softmax
  \/ \E k \in Slots : Accumulate(k)
  \/ Finish

Spec == Init /\ [][Next]_vars

-----------------------------------------------------------------------------
TypeOK ==
  /\ input \in Inputs
  /\ phase \in {"norm", "root", "query", "scores", "context", "done"}
  /\ low \in 0 .. ActMax /\ high \in 0 .. ActMax /\ scale \in 0 .. ActMax
  /\ query \in Row /\ context \in Row
  /\ scores \in [Slots -> Act] /\ weights \in [Slots -> Act]
  /\ seen \subseteq Slots
  /\ acc \in [Lanes -> Acc]

(* The bisection of inv_sqrt_acc ends at the activation whose square times *)
(* the mean square is nearest to 1.0, the largest one where nothing is too *)
(* large: no row, width or epsilon makes it miss the root (ops.rs:722-765).*)
ScaleIsNearest ==
  phase \notin {"norm", "root"} =>
    /\ Adjusted = 0 => scale = ActMax
    /\ \A c \in 0 .. ActMax :
         Magnitude(Product(scale, Adjusted) - Target)
           <= Magnitude(Product(c, Adjusted) - Target)

(* Each weight but the first maximum's is its share of the exponentials,   *)
(* up to two roundings; the first maximum's, which is corrected by the     *)
(* residual, is off by the roundings of all the others                     *)
(* (ops.rs:233-274).                                                       *)
SharesAreClose ==
  phase \in {"context", "done"} =>
    LET total == Sum(Exps, NumSlots)
    IN \A k \in Slots :
         LET roundings == IF k = First THEN NumSlots - 1 ELSE 1
         IN 2 * One * Magnitude(weights[k] * total - One * Exps[k])
              <= roundings * (One + 1) * total

(* The weights add up to 1.0, and the result is the exact weighted sum of  *)
(* the value rows, narrowed once: whatever the scores, even where the      *)
(* residual makes a weight negative, and in whatever order the keys come,  *)
(* the wrapping accumulators lose nothing (ops.rs:339-355,                 *)
(* prefill_range.rs:631-661).                                              *)
ContextIsWeightedMean ==
  phase = "done" =>
    /\ Sum(weights, NumSlots) = One
    /\ \A d \in Lanes :
         context[d] = Requantize(Sum([k \in Slots |-> weights[k] * input.values[k][d]],
                                     NumSlots))
=============================================================================

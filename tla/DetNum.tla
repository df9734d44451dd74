------------------------------- MODULE DetNum -------------------------------
(***************************************************************************)
(* The deterministic fixed-point numbers of crates/det-num, and the        *)
(* operations that attention uses.  A number is its bit pattern: an Act is *)
(* an integer in -ActLimit .. ActLimit - 1 that counts parts of One, an    *)
(* Acc one in -AccLimit .. AccLimit - 1 that counts parts of One * One.    *)
(* In the program ActLimit = 2^31 and One = 2^16, so that AccLimit = 2^63. *)
(***************************************************************************)
EXTENDS Integers

CONSTANTS
  ActLimit, (* activations have the bits of a signed word of this limit *)
  One,      (* the bits of the activation 1.0 *)
  Ln2       (* the bits of the accumulator ln 2 *)

ASSUME WidthAssumption ==
  /\ ActLimit \in Nat /\ One \in Nat \ {0} /\ Ln2 \in Nat \ {0}
  /\ One < ActLimit
  /\ One * One <= 2 * ActLimit

AccLimit == 2 * ActLimit * ActLimit
AccOne == One * One
ActMax == ActLimit - 1

Act == -ActLimit .. ActLimit - 1
Acc == -AccLimit .. AccLimit - 1

Clamp(v, limit) ==
  IF v < -limit THEN -limit ELSE IF v >= limit THEN limit - 1 ELSE v

ClampAct(v) == Clamp(v, ActLimit)
ClampAcc(v) == Clamp(v, AccLimit)

(* Two's complement: the value in Acc that differs from v by whole words. *)
Wrap(v) == ((v + AccLimit) % (2 * AccLimit)) - AccLimit

Magnitude(v) == IF v < 0 THEN -v ELSE v

(* n / d for d > 0, rounded to the nearest integer and to the even one of two. *)
RoundTiesEven(n, d) ==
  LET quotient == Magnitude(n) \div d
      remainder == Magnitude(n) % d
      away == 2 * remainder > d \/ (2 * remainder = d /\ quotient % 2 = 1)
      rounded == IF away THEN quotient + 1 ELSE quotient
  IN IF n < 0 THEN -rounded ELSE rounded

-----------------------------------------------------------------------------
MacBits(acc, a, b) == Wrap(acc + a * b)
AddSat(a, b) == ClampAct(a + b)
SubSat(a, b) == ClampAct(a - b)
AccAddSat(a, b) == ClampAcc(a + b)
Requantize(x) == ClampAct(RoundTiesEven(x, One))
MulSat(a, b) == Requantize(a * b)
DivAcc(a, b) == ClampAcc(RoundTiesEven(a * AccOne, b))
DivAccBy(a, n) == ClampAcc(RoundTiesEven(a, n))
AccMul(a, b) == ClampAcc(RoundTiesEven(a * b, AccOne))

(* f[1] + ... + f[n] *)
Sum(f, n) == LET s[i \in 0 .. n] == IF i = 0 THEN 0 ELSE s[i - 1] + f[i] IN s[n]

(* The product of two rows of n lanes, each term added with wrapping. *)
Dot(a, b, n) ==
  LET s[i \in 0 .. n] == IF i = 0 THEN 0 ELSE MacBits(s[i - 1], a[i], b[i])
  IN Requantize(s[n])

(* exp(delta) for an accumulator delta <= 0: five terms of the series for the part *)
(* below ln 2, halved once for every ln 2 in delta. *)
SoftmaxExpTerm(delta) ==
  LET r == (-delta) % Ln2
      r2 == AccMul(r, r)
      r3 == AccMul(r2, r)
      r4 == AccMul(r3, r)
      r5 == AccMul(r4, r)
      tail == AccAddSat(DivAccBy(r4, 24), -DivAccBy(r5, 120))
      series == AccAddSat(AccAddSat(AccOne, -r),
                          AccAddSat(DivAccBy(r2, 2), AccAddSat(-DivAccBy(r3, 6), tail)))
  IN IF delta <= -16 * AccOne \/ series <= 0
     THEN 0
     ELSE RoundTiesEven(series, 2 ^ ((-delta) \div Ln2))

ExpTerm(logit, maximum) == SoftmaxExpTerm(SubSat(logit, maximum) * One)

(* The series lies between 0 and 1.0 for every difference of two activations, and is *)
(* 1.0 for equal ones. *)
ASSUME ExpAssumption ==
  /\ SoftmaxExpTerm(0) = AccOne
  /\ \A a \in -ActLimit .. 0 : SoftmaxExpTerm(a * One) \in 0 .. AccOne
=============================================================================

------------------------ MODULE HeadArithmeticProofs ------------------------
(***************************************************************************)
(* Theorems about HeadArithmetic, for words of any width, heads of any     *)
(* width, windows of any length that fits beside 1.0 in a word, and any    *)
(* rows and values.  The root: a bisection keeps the root between its      *)
(* bounds.  The weights: a rounded share is off by less than one part, so  *)
(* that all of them, and the residual, fit in words, and the absolute      *)
(* weights add up to less than a word has values; therefore no accumulator *)
(* of the context leaves its word.                                         *)
(*                                                                         *)
(* First what the proofs need of DetNum: how far rounding moves a quotient,*)
(* which words saturate or wrap, and the laws of finite sums.  An induction*)
(* over the terms of a sum is an argument about a set of indices (Climb),  *)
(* which the provers can instantiate.                                      *)
(***************************************************************************)
EXTENDS HeadArithmetic, WellFoundedInduction, TLAPS

-----------------------------------------------------------------------------
(* Sums.                                                                   *)

LEMMA LeastOf ==
  ASSUME NEW T, T \subseteq Nat, T # {}
  PROVE  \E x \in T : \A y \in T : x <= y
<1> DEFINE R == OpToRel(<, Nat)
<1>1. R = {p \in Nat \X Nat : p[1] < p[2]}
  BY Zenon DEF OpToRel
<1>2. IsWellFoundedOn(R, Nat)
  BY NatLessThanWellFounded
<1> HIDE DEF R
<1>3. PICK x \in T : \A y \in T : <<y, x>> \notin R
  BY <1>2, WFMin
<1>4. ASSUME NEW y \in T PROVE x <= y
  <2>1. x \in Nat /\ y \in Nat /\ <<y, x>> \notin R
    BY <1>3
  <2> QED
    BY <1>1, <2>1
<1> QED
  BY <1>3, <1>4

(* A set that holds 0, and every index after one that it holds, holds all of them. *)
LEMMA Climb ==
  ASSUME NEW n \in Nat, NEW T, 0 \in T, \A i \in 1 .. n : i - 1 \in T => i \in T
  PROVE  \A i \in 0 .. n : i \in T
<1> DEFINE missing == {i \in 0 .. n : i \notin T}
<1>1. SUFFICES ASSUME missing # {} PROVE FALSE
  OBVIOUS
<1>2. PICK x \in missing : \A y \in missing : x <= y
  <2>1. missing \subseteq Nat
    OBVIOUS
  <2> HIDE DEF missing
  <2> QED BY <1>1, <2>1, LeastOf
<1>3. x \in 1 .. n
  OBVIOUS
<1>4. x - 1 \in 0 .. n /\ ~(x <= x - 1)
  BY <1>3
<1>5. x - 1 \in T
  BY <1>2, <1>4
<1> QED
  BY <1>3, <1>5

(* The partial sums of f. *)
PartialSums(s, f, n) ==
  /\ s \in [0 .. n -> Int]
  /\ s[0] = 0
  /\ \A i \in 1 .. n : s[i] = s[i - 1] + f[i]

LEMMA SumsExist ==
  ASSUME NEW n \in Nat, NEW f \in [1 .. n -> Int]
  PROVE  \E s : PartialSums(s, f, n)
<1> DEFINE T == {k \in 0 .. n : \E s : PartialSums(s, f, k)}
<1>1. 0 \in T
  <2>1. PartialSums([i \in 0 .. 0 |-> 0], f, 0)
    BY DEF PartialSums
  <2> QED
    BY <2>1
<1>2. ASSUME NEW k \in 1 .. n, k - 1 \in T PROVE k \in T
  <2>1. PICK s : PartialSums(s, f, k - 1)
    BY <1>2
  <2> DEFINE t == [i \in 0 .. k |-> IF i = k THEN s[k - 1] + f[k] ELSE s[i]]
  <2>2. PartialSums(t, f, k)
    BY <2>1 DEF PartialSums
  <2> QED
    BY <2>2
<1>3. n \in T
  <2> HIDE DEF T
  <2>1. \A i \in 0 .. n : i \in T
    BY <1>1, <1>2, Climb
  <2> QED
    BY <2>1
<1> QED
  BY <1>3

(* A sum is the last of the partial sums. *)
LEMMA SumIsLast ==
  ASSUME NEW n \in Nat, NEW f \in [1 .. n -> Int]
  PROVE  \E s : PartialSums(s, f, n) /\ Sum(f, n) = s[n]
<1> DEFINE step(g) == [i \in 0 .. n |-> IF i = 0 THEN 0 ELSE g[i - 1] + f[i]]
           s == CHOOSE g : g = step(g)
<1>1. \E g : g = step(g)
  <2>1. PICK g : PartialSums(g, f, n)
    BY SumsExist
  <2>2. g = step(g)
    BY <2>1 DEF PartialSums
  <2> QED
    BY <2>2
<1>2. s = step(s)
  BY <1>1
<1>3. Sum(f, n) = s[n]
  BY DEF Sum
<1>4. \A i \in 0 .. n : i \in {j \in 0 .. n : s[j] \in Int}
  <2> DEFINE T == {j \in 0 .. n : s[j] \in Int}
  <2> HIDE DEF s
  <2>1. 0 \in T
    BY <1>2
  <2>2. ASSUME NEW i \in 1 .. n, i - 1 \in T PROVE i \in T
    BY <1>2, <2>2
  <2> HIDE DEF T
  <2>3. \A i \in 0 .. n : i \in T
    BY <2>1, <2>2, Climb
  <2> QED
    BY <2>3 DEF T
<1>5. PartialSums(s, f, n)
  <2> HIDE DEF s
  <2> QED BY <1>2, <1>4 DEF PartialSums
<1> QED
  <2> HIDE DEF s
  <2> QED BY <1>3, <1>5

LEMMA SumType ==
  ASSUME NEW n \in Nat, NEW f \in [1 .. n -> Int]
  PROVE  Sum(f, n) \in Int
BY SumIsLast DEF PartialSums

(* Sums are ordered as their terms are. *)
LEMMA SumIsMonotone ==
  ASSUME NEW n \in Nat, NEW f \in [1 .. n -> Int], NEW g \in [1 .. n -> Int],
         \A i \in 1 .. n : f[i] <= g[i]
  PROVE  Sum(f, n) <= Sum(g, n)
<1>1. PICK s : PartialSums(s, f, n) /\ Sum(f, n) = s[n]
  BY SumIsLast
<1>2. PICK t : PartialSums(t, g, n) /\ Sum(g, n) = t[n]
  BY SumIsLast
<1> DEFINE T == {i \in 0 .. n : s[i] <= t[i]}
<1>3. 0 \in T
  BY <1>1, <1>2 DEF PartialSums
<1>4. ASSUME NEW i \in 1 .. n, i - 1 \in T PROVE i \in T
  <2>1. s[i] = s[i - 1] + f[i] /\ t[i] = t[i - 1] + g[i] /\ s[i - 1] <= t[i - 1]
    BY <1>1, <1>2, <1>4 DEF PartialSums
  <2>2. s[i - 1] \in Int /\ t[i - 1] \in Int /\ f[i] \in Int /\ g[i] \in Int
    BY <1>1, <1>2 DEF PartialSums
  <2> QED
    BY <2>1, <2>2
<1>5. \A i \in 0 .. n : i \in T
  <2> HIDE DEF T
  <2> QED BY <1>3, <1>4, Climb
<1> QED
  BY <1>1, <1>2, <1>5

(* The sum of a * f[i] + b * g[i]. *)
LEMMA SumIsLinear ==
  ASSUME NEW n \in Nat, NEW f \in [1 .. n -> Int], NEW g \in [1 .. n -> Int],
         NEW h \in [1 .. n -> Int], NEW a \in Int, NEW b \in Int,
         \A i \in 1 .. n : h[i] = a * f[i] + b * g[i]
  PROVE  Sum(h, n) = a * Sum(f, n) + b * Sum(g, n)
<1>1. PICK s : PartialSums(s, f, n) /\ Sum(f, n) = s[n]
  BY SumIsLast
<1>2. PICK t : PartialSums(t, g, n) /\ Sum(g, n) = t[n]
  BY SumIsLast
<1>3. PICK u : PartialSums(u, h, n) /\ Sum(h, n) = u[n]
  BY SumIsLast
<1> DEFINE T == {i \in 0 .. n : u[i] = a * s[i] + b * t[i]}
<1>4. 0 \in T
  <2>1. s[0] = 0 /\ t[0] = 0 /\ u[0] = 0
    BY <1>1, <1>2, <1>3 DEF PartialSums
  <2> QED
    BY <2>1
<1>5. ASSUME NEW i \in 1 .. n, i - 1 \in T PROVE i \in T
  <2>1. /\ s[i] = s[i - 1] + f[i] /\ t[i] = t[i - 1] + g[i] /\ u[i] = u[i - 1] + h[i]
        /\ u[i - 1] = a * s[i - 1] + b * t[i - 1] /\ h[i] = a * f[i] + b * g[i]
    BY <1>1, <1>2, <1>3, <1>5 DEF PartialSums
  <2>2. s[i - 1] \in Int /\ t[i - 1] \in Int /\ f[i] \in Int /\ g[i] \in Int
    <3>1. i - 1 \in 0 .. n
      OBVIOUS
    <3> QED
      BY <1>1, <1>2, <3>1 DEF PartialSums
  <2>3. ASSUME NEW x \in Int, NEW y \in Int, NEW v \in Int, NEW w \in Int
        PROVE  (a * x + b * y) + (a * v + b * w) = a * (x + v) + b * (y + w)
    <3>1. a * (x + v) = a * x + a * v
      OBVIOUS
    <3>2. b * (y + w) = b * y + b * w
      OBVIOUS
    <3>3. a * x \in Int /\ a * v \in Int /\ b * y \in Int /\ b * w \in Int
      OBVIOUS
    <3> QED
      BY <3>1, <3>2, <3>3
  <2>4. u[i] = a * s[i] + b * t[i]
    BY <2>1, <2>2, <2>3
  <2> QED
    BY <2>4
<1>6. \A i \in 0 .. n : i \in T
  <2> HIDE DEF T
  <2> QED BY <1>4, <1>5, Climb
<1> QED
  BY <1>1, <1>2, <1>3, <1>6

LEMMA SumOfMultiples ==
  ASSUME NEW n \in Nat, NEW f \in [1 .. n -> Int], NEW h \in [1 .. n -> Int], NEW c \in Int,
         \A i \in 1 .. n : h[i] = c * f[i]
  PROVE  Sum(h, n) = c * Sum(f, n)
<1>1. PICK zero \in Int : zero = 0
  OBVIOUS
<1>2. \A v \in Int : zero * v = 0 /\ c * v \in Int
  BY <1>1
<1>3. \A i \in 1 .. n : f[i] \in Int /\ h[i] = c * f[i] + zero * f[i]
  BY <1>2
<1>4. Sum(h, n) = c * Sum(f, n) + zero * Sum(f, n)
  BY <1>3, SumIsLinear
<1>5. Sum(f, n) \in Int
  BY SumType
<1> QED
  BY <1>2, <1>4, <1>5

(* n equal terms. *)
LEMMA SumOfEqual ==
  ASSUME NEW n \in Nat, NEW f \in [1 .. n -> Int], NEW c \in Int,
         \A i \in 1 .. n : f[i] = c
  PROVE  Sum(f, n) = n * c
<1>1. PICK s : PartialSums(s, f, n) /\ Sum(f, n) = s[n]
  BY SumIsLast
<1> DEFINE T == {i \in 0 .. n : s[i] = i * c}
<1>2. 0 \in T
  BY <1>1 DEF PartialSums
<1>3. ASSUME NEW i \in 1 .. n, i - 1 \in T PROVE i \in T
  <2>1. s[i] = s[i - 1] + c /\ s[i - 1] = (i - 1) * c
    BY <1>1, <1>3 DEF PartialSums
  <2>2. (i - 1) * c + c = i * c
    OBVIOUS
  <2> QED
    BY <2>1, <2>2
<1>4. \A i \in 0 .. n : i \in T
  <2> HIDE DEF T
  <2> QED BY <1>2, <1>3, Climb
<1> QED
  BY <1>1, <1>4

(* A sum that differs in one term. *)
LEMMA SumWithout ==
  ASSUME NEW n \in Nat, NEW f \in [1 .. n -> Int], NEW g \in [1 .. n -> Int],
         NEW m \in 1 .. n, \A i \in 1 .. n : i # m => g[i] = f[i]
  PROVE  Sum(g, n) = Sum(f, n) + g[m] - f[m]
<1>1. PICK s : PartialSums(s, f, n) /\ Sum(f, n) = s[n]
  BY SumIsLast
<1>2. PICK t : PartialSums(t, g, n) /\ Sum(g, n) = t[n]
  BY SumIsLast
<1> DEFINE T == {i \in 0 .. n : t[i] = IF i < m THEN s[i] ELSE s[i] + g[m] - f[m]}
<1>3. 0 \in T
  BY <1>1, <1>2 DEF PartialSums
<1>4. ASSUME NEW i \in 1 .. n, i - 1 \in T PROVE i \in T
  <2>1. /\ s[i] = s[i - 1] + f[i] /\ t[i] = t[i - 1] + g[i]
        /\ t[i - 1] = IF i - 1 < m THEN s[i - 1] ELSE s[i - 1] + g[m] - f[m]
    BY <1>1, <1>2, <1>4 DEF PartialSums
  <2>2. s[i - 1] \in Int /\ f[i] \in Int /\ g[m] \in Int /\ f[m] \in Int /\ g[i] \in Int
    BY <1>1 DEF PartialSums
  <2>3. CASE i < m
    BY <2>1, <2>2, <2>3
  <2>4. CASE i = m
    BY <2>1, <2>2, <2>4
  <2>5. CASE i > m
    BY <2>1, <2>2, <2>5
  <2> QED
    BY <2>3, <2>4, <2>5
<1>5. \A i \in 0 .. n : i \in T
  <2> HIDE DEF T
  <2> QED BY <1>3, <1>4, Climb
<1> QED
  BY <1>1, <1>2, <1>5

(* No term of a sum without negative terms is more than the sum. *)
LEMMA SumHoldsTerms ==
  ASSUME NEW n \in Nat, NEW f \in [1 .. n -> Int], \A i \in 1 .. n : f[i] >= 0,
         NEW m \in 1 .. n
  PROVE  f[m] <= Sum(f, n)
<1> DEFINE zeros == [i \in 1 .. n |-> 0]
           one == [i \in 1 .. n |-> IF i = m THEN f[m] ELSE 0]
<1>1. zeros \in [1 .. n -> Int] /\ one \in [1 .. n -> Int] /\ f[m] \in Int
  OBVIOUS
<1>2. /\ \A i \in 1 .. n : zeros[i] = 0 /\ one[i] <= f[i] /\ (i # m => one[i] = zeros[i])
      /\ one[m] = f[m]
  OBVIOUS
<1> HIDE DEF zeros, one
<1>3. Sum(zeros, n) = n * 0
  BY <1>1, <1>2, SumOfEqual
<1>4. Sum(one, n) = Sum(zeros, n) + one[m] - zeros[m]
  BY <1>1, <1>2, SumWithout
<1>5. Sum(one, n) <= Sum(f, n)
  BY <1>1, <1>2, SumIsMonotone
<1>6. Sum(f, n) \in Int
  BY SumType
<1> QED
  BY <1>1, <1>2, <1>3, <1>4, <1>5, <1>6

(* A sum is as small as its terms. *)
LEMMA SumIsBounded ==
  ASSUME NEW n \in Nat, NEW f \in [1 .. n -> Int], NEW g \in [1 .. n -> Int],
         \A i \in 1 .. n : f[i] <= g[i] /\ -g[i] <= f[i]
  PROVE  Sum(f, n) <= Sum(g, n) /\ -Sum(g, n) <= Sum(f, n)
<1> DEFINE h == [i \in 1 .. n |-> -g[i]]
<1>1. h \in [1 .. n -> Int] /\ \A i \in 1 .. n : h[i] = -g[i]
  OBVIOUS
<1> HIDE DEF h
<1>2. PICK minus \in Int : minus = -1
  OBVIOUS
<1>3. Sum(h, n) = minus * Sum(g, n)
  <2>1. \A i \in 1 .. n : h[i] = minus * g[i]
    BY <1>1, <1>2
  <2> QED
    BY <1>1, <2>1, SumOfMultiples
<1>4. Sum(h, n) <= Sum(f, n) /\ Sum(f, n) <= Sum(g, n)
  BY <1>1, <1>2, SumIsMonotone
<1>5. Sum(g, n) \in Int
  BY SumType
<1> QED
  BY <1>2, <1>3, <1>4, <1>5

-----------------------------------------------------------------------------
(* Words.                                                                  *)

LEMMA Widths ==
  /\ ActLimit \in Nat /\ One \in Nat /\ One > 0 /\ One < ActLimit
  /\ AccLimit \in Nat /\ ActLimit < AccLimit /\ AccOne \in Nat /\ AccOne > 0
  /\ AccOne < AccLimit
<1>1. /\ ActLimit \in Nat /\ One \in Nat /\ One > 0 /\ One < ActLimit
      /\ One * One <= 2 * ActLimit
  BY WidthAssumption
<1>2. ActLimit * ActLimit \in Nat /\ ActLimit * ActLimit >= 2 * ActLimit
  BY <1>1
<1>3. AccLimit = 2 * (ActLimit * ActLimit)
  BY <1>1 DEF AccLimit
<1>4. One * One \in Nat /\ One * One > 0
  BY <1>1
<1> QED
  BY <1>1, <1>2, <1>3, <1>4 DEF AccOne

LEMMA ClampType ==
  ASSUME NEW v \in Int, NEW limit \in Nat, limit > 0
  PROVE  Clamp(v, limit) \in -limit .. limit - 1
BY DEF Clamp

LEMMA ClampFits ==
  ASSUME NEW limit \in Nat, NEW v \in -limit .. limit - 1
  PROVE  Clamp(v, limit) = v
BY DEF Clamp

LEMMA WrapType ==
  ASSUME NEW v \in Int
  PROVE  Wrap(v) \in Acc
<1>1. AccLimit \in Nat /\ 2 * AccLimit \in Nat /\ 2 * AccLimit > 0
  BY Widths
<1>2. (v + AccLimit) % (2 * AccLimit) \in 0 .. 2 * AccLimit - 1
  BY <1>1
<1> QED
  BY <1>1, <1>2 DEF Wrap, Acc

LEMMA WrapFits ==
  ASSUME NEW v \in Acc
  PROVE  Wrap(v) = v
<1>1. AccLimit \in Nat /\ v \in Int /\ v + AccLimit \in 0 .. 2 * AccLimit - 1
  BY Widths DEF Acc
<1>2. ASSUME NEW n \in Nat, NEW m \in Nat, n < m PROVE n % m = n
  BY <1>2
<1>3. (v + AccLimit) % (2 * AccLimit) = v + AccLimit
  BY <1>1, <1>2
<1> QED
  BY <1>1, <1>3 DEF Wrap

LEMMA Division ==
  ASSUME NEW n \in Nat, NEW d \in Nat, d > 0
  PROVE  /\ n \div d \in Nat /\ n % d \in 0 .. d - 1
         /\ n = d * (n \div d) + (n % d)
<1>1. n \div d \in Nat /\ n % d \in 0 .. d - 1
  OBVIOUS
<1>2. n = d * (n \div d) + (n % d)
  OBVIOUS
<1> QED
  BY <1>1, <1>2

(* A rounded quotient is off by half at most, and has the sign of the dividend. *)
LEMMA Rounding ==
  ASSUME NEW n \in Int, NEW d \in Nat, d > 0
  PROVE  /\ RoundTiesEven(n, d) \in Int
         /\ 2 * (RoundTiesEven(n, d) * d - n) \in -d .. d
         /\ n >= 0 => RoundTiesEven(n, d) >= 0
<1> DEFINE m == Magnitude(n)
           q == m \div d
           r == m % d
           up == 2 * r > d \/ (2 * r = d /\ q % 2 = 1)
           p == IF up THEN q + 1 ELSE q
<1>1. m \in Nat /\ m = (IF n < 0 THEN -n ELSE n)
  BY DEF Magnitude
<1>2. q \in Nat /\ r \in 0 .. d - 1 /\ m = d * q + r
  <2> HIDE DEF m
  <2> QED BY <1>1, Division
<1>3. RoundTiesEven(n, d) = IF n < 0 THEN -p ELSE p
  BY DEF RoundTiesEven
<1> HIDE DEF m, q, r
<1>4. p \in Nat /\ p \in {q, q + 1}
  BY <1>2
<1> DEFINE e == p * d - m
<1>5. e = IF up THEN d - r ELSE -r
  <2>1. (q + 1) * d = q * d + d /\ q * d = d * q /\ d * q \in Int
    BY <1>2
  <2>2. e = IF up THEN (d * q + d) - (d * q + r) ELSE d * q - (d * q + r)
    BY <1>2, <2>1
  <2> HIDE DEF e
  <2> QED BY <1>2, <2>1, <2>2
<1>6. e \in Int /\ 2 * e \in -d .. d
  <2> HIDE DEF e, p
  <2>1. CASE up
    BY <1>2, <1>5, <2>1
  <2>2. CASE ~up
    BY <1>2, <1>5, <2>2
  <2> QED
    BY <2>1, <2>2
<1>7. RoundTiesEven(n, d) * d - n = IF n < 0 THEN -e ELSE e
  <2>1. p * d \in Int /\ (-p) * d = -(p * d)
    BY <1>4
  <2> HIDE DEF p
  <2> QED BY <1>1, <1>3, <2>1
<1> HIDE DEF p, e
<1> QED
  BY <1>3, <1>4, <1>6, <1>7

(* So it lies within bounds that are whole. *)
LEMMA RoundedWithin ==
  ASSUME NEW d \in Nat, d > 0, NEW k \in Nat, NEW n \in Int, n >= 0, n <= k * d
  PROVE  RoundTiesEven(n, d) \in 0 .. k
<1> DEFINE r == RoundTiesEven(n, d)
<1>1. r \in Int /\ 2 * (r * d - n) <= d /\ r >= 0
  <2> QED BY Rounding
<1> HIDE DEF r
<1>2. SUFFICES ASSUME r > k PROVE FALSE
  BY <1>1 DEF r
<1>3. r * d >= (k + 1) * d
  BY <1>1, <1>2
<1>4. (k + 1) * d = k * d + d /\ k * d \in Int /\ r * d \in Int
  BY <1>1
<1> QED
  BY <1>1, <1>3, <1>4

LEMMA RequantizeType ==
  ASSUME NEW v \in Int
  PROVE  Requantize(v) \in Act
<1>1. RoundTiesEven(v, One) \in Int
  BY Widths, Rounding
<1> QED
  BY <1>1, Widths, ClampType DEF Requantize, ClampAct, Act

LEMMA MulSatType ==
  ASSUME NEW a \in Int, NEW b \in Int
  PROVE  MulSat(a, b) \in Act
<1>1. a * b \in Int
  OBVIOUS
<1> QED
  BY <1>1, RequantizeType DEF MulSat

LEMMA AddSatType ==
  ASSUME NEW a \in Int, NEW b \in Int
  PROVE  AddSat(a, b) \in Act /\ SubSat(a, b) \in Act
BY Widths, ClampType DEF AddSat, SubSat, ClampAct, Act

LEMMA MacBitsType ==
  ASSUME NEW a \in Int, NEW b \in Int, NEW c \in Int
  PROVE  MacBits(c, a, b) \in Acc
<1>1. c + a * b \in Int
  OBVIOUS
<1> QED
  BY <1>1, WrapType DEF MacBits

(* The partial sums of a product of rows, wrapped. *)
PartialDots(s, a, b, n) ==
  s = [i \in 0 .. n |-> IF i = 0 THEN 0 ELSE MacBits(s[i - 1], a[i], b[i])]

LEMMA DotType ==
  ASSUME NEW n \in Nat, NEW a \in [1 .. n -> Int], NEW b \in [1 .. n -> Int]
  PROVE  Dot(a, b, n) \in Act
<1> DEFINE step(g) == [i \in 0 .. n |-> IF i = 0 THEN 0 ELSE MacBits(g[i - 1], a[i], b[i])]
           s == CHOOSE g : g = step(g)
           T == {k \in 0 .. n : \E g : PartialDots(g, a, b, k)}
<1>1. 0 \in T
  <2>1. PartialDots([i \in 0 .. 0 |-> 0], a, b, 0)
    BY DEF PartialDots
  <2> QED
    BY <2>1
<1>2. ASSUME NEW k \in 1 .. n, k - 1 \in T PROVE k \in T
  <2>1. PICK g : PartialDots(g, a, b, k - 1)
    BY <1>2
  <2> DEFINE h == [i \in 0 .. k |-> IF i = k THEN MacBits(g[k - 1], a[k], b[k]) ELSE g[i]]
  <2>2. PartialDots(h, a, b, k)
    BY <2>1 DEF PartialDots
  <2> QED
    BY <2>2
<1>3. \E g : g = step(g)
  <2> HIDE DEF T
  <2>1. \A i \in 0 .. n : i \in T
    BY <1>1, <1>2, Climb
  <2> QED
    BY <2>1 DEF T, PartialDots
<1>4. s = step(s)
  BY <1>3
<1>5. Dot(a, b, n) = Requantize(s[n])
  BY DEF Dot
<1> DEFINE U == {i \in 0 .. n : s[i] \in Int}
<1> HIDE DEF s
<1>6. 0 \in U
  BY <1>4
<1>7. ASSUME NEW i \in 1 .. n, i - 1 \in U PROVE i \in U
  <2>1. s[i] = MacBits(s[i - 1], a[i], b[i]) /\ s[i - 1] \in Int
    BY <1>4, <1>7
  <2>2. s[i] \in Acc
    BY <2>1, MacBitsType
  <2> QED
    BY <2>2, Widths DEF Acc
<1>8. s[n] \in Int
  <2> HIDE DEF U
  <2>1. \A i \in 0 .. n : i \in U
    BY <1>6, <1>7, Climb
  <2> QED
    BY <2>1 DEF U
<1> QED
  BY <1>5, <1>8, RequantizeType

-----------------------------------------------------------------------------
(* The inductive invariant.                                                *)

(* The root is between low and high, and there is something to search for. *)
RootInv ==
  /\ phase = "norm" => low = 0
  /\ phase = "root" =>
       /\ low <= high
       /\ Product(low, Adjusted) <= Target
       /\ Target < Product(high + 1, Adjusted)
       /\ Target < Product(ActMax, Adjusted)
  /\ ScaleIsNearest

Sizes == [k \in Slots |-> Magnitude(weights[k])]

WeightInv ==
  /\ SharesAreClose
  /\ phase \in {"context", "done"} =>
       Sum(weights, NumSlots) = One /\ Sum(Sizes, NumSlots) < 2 * ActLimit

(* What the keys of S have added to lane d. *)
Added(S, d) == [k \in Slots |-> IF k \in S THEN weights[k] * input.values[k][d] ELSE 0]

ContextInv ==
  /\ phase \notin {"context", "done"} => acc = ZeroRow
  /\ phase = "context" => \A d \in Lanes : acc[d] = Sum(Added(seen, d), NumSlots)
  /\ ContextIsWeightedMean

HeadInv == TypeOK /\ RootInv /\ WeightInv /\ ContextInv

-----------------------------------------------------------------------------
(* The parts of a state, and their types.                                  *)

LEMMA Shapes ==
  /\ NumLanes \in Nat /\ NumLanes > 0 /\ NumSlots \in Nat /\ NumSlots > 0 /\ NumPairs \in Nat
  /\ 2 * NumPairs <= NumLanes /\ One + NumSlots < ActLimit
  /\ Lanes = 1 .. NumLanes /\ Slots = 1 .. NumSlots
BY HeadAssumption DEF Lanes, Slots

LEMMA InputType ==
  ASSUME TypeOK
  PROVE  /\ input.row \in Row /\ input.norm \in Row /\ input.eps \in 0 .. AccLimit - 1
         /\ input.cos \in [1 .. NumPairs -> Act] /\ input.sin \in [1 .. NumPairs -> Act]
         /\ input.keys \in [Slots -> Row] /\ input.values \in [Slots -> Row]
BY HeadAssumption DEF TypeOK

LEMMA ActIsInt == Act \subseteq Int /\ Acc \subseteq Int /\ 0 \in Act /\ 0 \in Acc
BY Widths DEF Act, Acc

LEMMA ActMaxType == ActMax \in Nat /\ ActMax > 0 /\ ActMax = ActLimit - 1
BY Widths DEF ActMax

(* The mean square is an accumulator that is not negative. *)
LEMMA AdjustedType ==
  ASSUME TypeOK
  PROVE  Adjusted \in 0 .. AccLimit - 1
<1> DEFINE squares == [d \in Lanes |-> input.row[d] * input.row[d]]
           zeros == [d \in Lanes |-> 0]
<1>1. squares \in [1 .. NumLanes -> Int] /\ \A d \in Lanes : squares[d] >= 0
  <2>1. \A d \in Lanes : input.row[d] \in Int
    BY InputType, ActIsInt DEF Row
  <2>2. \A v \in Int : v * v \in Int /\ v * v >= 0
    OBVIOUS
  <2> QED
    BY <2>1, <2>2, Shapes
<1>2. Sum(squares, NumLanes) \in Int /\ Sum(squares, NumLanes) >= 0
  <2>1. zeros \in [1 .. NumLanes -> Int] /\ \A d \in 1 .. NumLanes : zeros[d] = 0
    BY Shapes
  <2> HIDE DEF squares, zeros
  <2>2. Sum(zeros, NumLanes) = NumLanes * 0
    BY <2>1, Shapes, SumOfEqual
  <2>3. \A d \in 1 .. NumLanes : zeros[d] <= squares[d]
    BY <1>1, <2>1, Shapes
  <2>4. Sum(zeros, NumLanes) <= Sum(squares, NumLanes)
    BY <1>1, <2>1, <2>3, Shapes, SumIsMonotone
  <2>5. NumLanes * 0 = 0
    BY Shapes
  <2>6. Sum(squares, NumLanes) \in Int
    BY <1>1, Shapes, SumType
  <2> QED
    BY <2>2, <2>4, <2>5, <2>6
<1> DEFINE total == ClampAcc(Sum(squares, NumLanes))
<1>3. total \in 0 .. AccLimit - 1
  BY <1>2, Widths DEF ClampAcc, Clamp
<1>4. RoundTiesEven(total, NumLanes) \in 0 .. AccLimit - 1
  <2> HIDE DEF total
  <2>1. AccLimit - 1 \in Nat /\ total \in Int /\ total >= 0
    BY <1>3, Widths
  <2>2. (AccLimit - 1) * NumLanes >= AccLimit - 1
    BY <2>1, Shapes
  <2>3. (AccLimit - 1) * NumLanes \in Int
    BY <2>1, Shapes
  <2>4. total <= (AccLimit - 1) * NumLanes
    BY <1>3, <2>1, <2>2, <2>3
  <2> QED
    BY <2>1, <2>4, Shapes, RoundedWithin
<1>5. MeanSquare(input.row) \in 0 .. AccLimit - 1
  <2>1. MeanSquare(input.row) = ClampAcc(RoundTiesEven(total, NumLanes))
    BY DEF MeanSquare, DivAccBy
  <2> HIDE DEF total
  <2> QED BY <1>4, <2>1, Widths DEF ClampAcc, Clamp
<1> QED
  BY <1>5, InputType, Widths DEF Adjusted, AccAddSat, ClampAcc, Clamp

LEMMA TargetType == Target \in Nat
<1>1. AccOne * AccOne \in Nat
  BY Widths
<1> QED
  BY <1>1 DEF Target

(* A larger candidate has a larger product. *)
LEMMA ProductIsMonotone ==
  ASSUME NEW b \in Nat, NEW c \in Nat, NEW x \in Nat, b <= c
  PROVE  Product(b, x) <= Product(c, x) /\ Product(b, x) \in Nat /\ Product(c, x) \in Nat
<1>1. b * b \in Nat /\ c * c \in Nat /\ b * b <= c * c
  <2>1. b * b <= b * c /\ b * c <= c * c
    OBVIOUS
  <2>2. b * b \in Nat /\ b * c \in Nat /\ c * c \in Nat
    OBVIOUS
  <2> QED
    BY <2>1, <2>2
<1>2. ASSUME NEW v \in Nat, NEW w \in Nat, v <= w
      PROVE  v * x <= w * x /\ v * x \in Nat /\ w * x \in Nat
  BY <1>2
<1> QED
  BY <1>1, <1>2 DEF Product

LEMMA ProductOfZero ==
  ASSUME NEW x \in Nat
  PROVE  Product(0, x) = 0 /\ \A c \in Nat : Product(c, 0) = 0
<1>1. \A v \in Nat : 0 * v = 0 /\ v * 0 = 0 /\ v * v \in Nat
  OBVIOUS
<1> QED
  BY <1>1 DEF Product

-----------------------------------------------------------------------------
(* The root.                                                               *)

(* If even the largest activation is not too large, it is the nearest. *)
LEMMA LargestIsNearest ==
  ASSUME TypeOK, Product(ActMax, Adjusted) <= Target, NEW c \in 0 .. ActMax
  PROVE  Magnitude(Product(ActMax, Adjusted) - Target)
           <= Magnitude(Product(c, Adjusted) - Target)
<1>1. Adjusted \in Nat /\ c \in Nat /\ ActMax \in Nat /\ c <= ActMax /\ Target \in Nat
  BY AdjustedType, ActMaxType, TargetType, Widths
<1>2. /\ Product(c, Adjusted) <= Product(ActMax, Adjusted)
      /\ Product(c, Adjusted) \in Nat /\ Product(ActMax, Adjusted) \in Nat
  BY <1>1, ProductIsMonotone
<1> QED
  BY <1>1, <1>2 DEF Magnitude

(* The closer of the two bounds is the nearest of all. *)
LEMMA SettledIsNearest ==
  ASSUME TypeOK, RootInv, phase = "root", low = high
  PROVE  /\ Settled(Adjusted) \in 0 .. ActMax
         /\ Adjusted # 0
         /\ \A c \in 0 .. ActMax :
              Magnitude(Product(Settled(Adjusted), Adjusted) - Target)
                <= Magnitude(Product(c, Adjusted) - Target)
<1> DEFINE x == Adjusted
           p(c) == Product(c, x)
<1>1. x \in Nat /\ low \in Nat /\ low <= ActMax /\ ActMax \in Nat /\ Target \in Nat
  BY AdjustedType, ActMaxType, TargetType, Widths DEF TypeOK
<1>2. p(low) <= Target /\ Target < p(low + 1) /\ Target < p(ActMax)
  BY DEF RootInv
<1>3. p(low) \in Nat /\ p(low + 1) \in Nat /\ low + 1 \in Nat
  <2> HIDE DEF x
  <2>1. low \in Nat /\ low + 1 \in Nat /\ low <= low + 1
    BY <1>1
  <2> QED
    BY <1>1, <2>1, ProductIsMonotone
<1>4. low < ActMax
  <2> HIDE DEF x
  <2>1. low # ActMax
    BY <1>1, <1>2, <1>3
  <2> QED
    BY <1>1, <2>1
<1>5. x # 0
  <2> HIDE DEF x
  <2>1. x = 0 => p(ActMax) = 0
    BY <1>1, ProductOfZero
  <2> QED
    BY <1>1, <1>2, <2>1
<1> DEFINE s == Settled(x)
<1>6. \/ s = low /\ Target - p(low) <= p(low + 1) - Target
      \/ s = low + 1 /\ p(low + 1) - Target <= Target - p(low)
  <2>1. s = IF \/ low + 1 = low
               \/ Target - p(low) < p(low + 1) - Target
               \/ Target - p(low) = p(low + 1) - Target /\ low % 2 = 0
            THEN low ELSE low + 1
    BY <1>4 DEF Settled
  <2> HIDE DEF s, p
  <2> QED BY <1>1, <1>3, <2>1
<1>7. ASSUME NEW c \in 0 .. ActMax
      PROVE  \/ p(c) \in Nat /\ p(c) <= p(low)
             \/ p(c) \in Nat /\ p(low + 1) <= p(c)
  <2> HIDE DEF x
  <2>1. c \in Nat /\ (c <= low \/ low + 1 <= c)
    BY <1>1
  <2>2. CASE c <= low
    BY <1>1, <2>1, <2>2, ProductIsMonotone
  <2>3. CASE low + 1 <= c
    BY <1>1, <1>3, <2>1, <2>3, ProductIsMonotone
  <2> QED
    BY <2>1, <2>2, <2>3
<1>8. ASSUME NEW c \in 0 .. ActMax PROVE Magnitude(p(s) - Target) <= Magnitude(p(c) - Target)
  <2> HIDE DEF s, p
  <2>1. CASE s = low
    BY <1>1, <1>2, <1>3, <1>6, <1>7, <2>1 DEF Magnitude
  <2>2. CASE s = low + 1
    BY <1>1, <1>2, <1>3, <1>6, <1>7, <2>2 DEF Magnitude
  <2> QED
    BY <1>6, <2>1, <2>2
<1>9. s \in 0 .. ActMax
  <2> HIDE DEF s, p
  <2> QED BY <1>1, <1>4, <1>6
<1> QED
  BY <1>5, <1>8, <1>9

LEMMA MiddleType ==
  ASSUME TypeOK, low < high
  PROVE  Middle \in Nat /\ low < Middle /\ Middle <= high /\ high \in Nat /\ low \in Nat
<1>1. low \in Nat /\ high \in Nat
  BY ActMaxType DEF TypeOK
<1>2. ASSUME NEW n \in Nat, n > 0 PROVE (n + 1) \div 2 \in 1 .. n
  BY <1>2
<1>3. (high - low + 1) \div 2 \in 1 .. (high - low)
  BY <1>1, <1>2
<1> QED
  BY <1>1, <1>3 DEF Middle

(* Every step of the bisection narrows its bounds, so it comes to an end. *)
BisectionNarrows == [][Bisect => high' - low' < high - low /\ low' <= high']_vars

-----------------------------------------------------------------------------
(* The weights.                                                            *)

(* Some score is the greatest, and the first of the greatest. *)
LEMMA FirstIsGreatest ==
  ASSUME TypeOK
  PROVE  First \in Slots /\ \A j \in Slots : scores[j] <= scores[First]
<1> DEFINE leads(m, i) == \A j \in 1 .. i : scores[j] <= scores[m]
                                          /\ (j < m => scores[j] < scores[m])
           T == {i \in 0 .. NumSlots : i = 0 \/ \E m \in 1 .. i : leads(m, i)}
<1>1. \A j \in 1 .. NumSlots : scores[j] \in Int
  BY Shapes, ActIsInt DEF TypeOK
<1>2. 0 \in T
  BY Shapes
<1>3. ASSUME NEW i \in 1 .. NumSlots, i - 1 \in T PROVE i \in T
  <2>1. CASE i = 1
    <3>1. leads(1, 1)
      BY <1>1, Shapes
    <3> QED
      BY <2>1, <3>1
  <2>2. CASE i > 1
    <3>1. PICK m \in 1 .. i - 1 : leads(m, i - 1)
      BY <1>3, <2>2
    <3>2. scores[m] \in Int /\ scores[i] \in Int /\ m \in 1 .. i /\ m < i /\ i \in 1 .. i
      BY <1>1, <2>2, Shapes
    <3>3. \A j \in 1 .. i : j = i \/ j \in 1 .. i - 1
      BY Shapes
    <3>4. CASE scores[i] <= scores[m]
      <4>1. leads(m, i)
        BY <3>1, <3>2, <3>3, <3>4
      <4> QED
        BY <3>2, <4>1
    <3>5. CASE scores[m] < scores[i]
      <4>1. ASSUME NEW j \in 1 .. i - 1 PROVE scores[j] < scores[i]
        <5>1. scores[j] <= scores[m] /\ scores[j] \in Int
          BY <1>1, <3>1, Shapes
        <5> QED
          BY <3>2, <3>5, <5>1
      <4>2. ASSUME NEW j \in 1 .. i
            PROVE  scores[j] <= scores[i] /\ (j < i => scores[j] < scores[i])
        <5>1. CASE j = i
          BY <3>2, <5>1, Shapes
        <5>2. CASE j # i
          <6>1. scores[j] < scores[i] /\ scores[j] \in Int
            BY <1>1, <3>3, <4>1, <5>2, Shapes
          <6> QED
            BY <3>2, <6>1
        <5> QED
          BY <5>1, <5>2
      <4>3. leads(i, i)
        BY <4>2
      <4> QED
        BY <3>2, <4>3
    <3> QED
      BY <3>2, <3>4, <3>5
  <2> QED
    BY <2>1, <2>2, Shapes
<1>4. NumSlots \in T
  <2> HIDE DEF T
  <2>1. \A i \in 0 .. NumSlots : i \in T
    BY <1>2, <1>3, Shapes, Climb
  <2> QED
    BY <2>1, Shapes
<1>5. \E m \in Slots : leads(m, NumSlots)
  BY <1>4, Shapes
<1>6. First \in Slots /\ leads(First, NumSlots)
  BY <1>5, Shapes DEF First
<1> QED
  BY <1>6, Shapes

(* No score is above the first maximum, so that no exponential is above 1.0. *)
LEMMA ExpsType ==
  ASSUME TypeOK
  PROVE  /\ Exps \in [1 .. NumSlots -> Int]
         /\ \A k \in Slots : Exps[k] \in 0 .. AccOne
         /\ Exps[First] = AccOne
<1>1. \A k \in Slots : scores[k] \in Int
  BY ActIsInt DEF TypeOK
<1>2. First \in Slots /\ \A k \in Slots : scores[k] <= scores[First]
  BY FirstIsGreatest
<1>3. ASSUME NEW k \in Slots PROVE ExpTerm(scores[k], scores[First]) \in 0 .. AccOne
  <2>1. SubSat(scores[k], scores[First]) \in -ActLimit .. 0
    BY <1>1, <1>2, Widths DEF SubSat, ClampAct, Clamp
  <2> QED
    BY <2>1, ExpAssumption DEF ExpTerm
<1>4. ExpTerm(scores[First], scores[First]) = AccOne
  <2>1. SubSat(scores[First], scores[First]) = 0
    BY <1>1, <1>2, Widths DEF SubSat, ClampAct, Clamp
  <2>2. 0 * One = 0
    BY Widths
  <2> QED
    BY <2>1, <2>2, ExpAssumption DEF ExpTerm
<1>5. \A k \in Slots : Exps[k] = ExpTerm(scores[k], scores[First])
  BY DEF Exps
<1>6. Exps \in [1 .. NumSlots -> Int]
  <2>1. Exps = [k \in Slots |-> ExpTerm(scores[k], scores[First])]
    BY DEF Exps
  <2>2. \A k \in Slots : ExpTerm(scores[k], scores[First]) \in Int
    BY <1>3, Widths
  <2> QED
    BY <2>1, <2>2, Shapes
<1> QED
  BY <1>2, <1>3, <1>4, <1>5, <1>6

(* The sum of the exponentials fits in an accumulator. *)
LEMMA TotalFits ==
  ASSUME TypeOK
  PROVE  /\ Sum(Exps, NumSlots) \in Nat /\ Sum(Exps, NumSlots) > 0
         /\ Total(Exps) = Sum(Exps, NumSlots)
         /\ \A k \in Slots : Exps[k] <= Sum(Exps, NumSlots)
<1> DEFINE e == Exps
           s == Sum(e, NumSlots)
           full == [k \in 1 .. NumSlots |-> AccOne]
<1>1. /\ e \in [1 .. NumSlots -> Int] /\ \A k \in Slots : e[k] \in 0 .. AccOne
      /\ First \in Slots /\ e[First] = AccOne
  BY ExpsType, FirstIsGreatest
<1>2. full \in [1 .. NumSlots -> Int] /\ \A k \in 1 .. NumSlots : full[k] = AccOne
  BY Widths
<1> HIDE DEF e, full
<1>3. s \in Int /\ \A k \in Slots : e[k] <= s
  BY <1>1, Shapes, SumType, SumHoldsTerms
<1>4. s <= NumSlots * AccOne
  <2>1. Sum(full, NumSlots) = NumSlots * AccOne
    BY <1>2, Shapes, Widths, SumOfEqual
  <2>2. \A k \in 1 .. NumSlots : e[k] <= full[k]
    BY <1>1, <1>2, Shapes
  <2>3. s <= Sum(full, NumSlots)
    BY <1>1, <1>2, <2>2, Shapes, SumIsMonotone
  <2> QED
    BY <2>1, <2>3
<1>5. NumSlots * AccOne < AccLimit
  <2>1. /\ NumSlots \in Nat /\ ActLimit \in Nat /\ NumSlots < ActLimit
        /\ AccOne \in Nat /\ AccOne <= 2 * ActLimit /\ ActLimit > 0
    BY Shapes, Widths, WidthAssumption DEF AccOne
  <2>2. NumSlots * AccOne <= NumSlots * (2 * ActLimit)
    BY <2>1
  <2>3. NumSlots * (2 * ActLimit) < ActLimit * (2 * ActLimit)
    BY <2>1
  <2>4. AccLimit = ActLimit * (2 * ActLimit)
    BY <2>1 DEF AccLimit
  <2>5. NumSlots * AccOne \in Nat /\ NumSlots * (2 * ActLimit) \in Nat
        /\ ActLimit * (2 * ActLimit) \in Nat
    BY <2>1
  <2> QED
    BY <2>2, <2>3, <2>4, <2>5
<1>6. s \in 0 .. AccLimit - 1 /\ s > 0
  <2>1. s >= AccOne
    BY <1>1, <1>3
  <2>2. NumSlots * AccOne \in Nat
    BY Shapes, Widths
  <2> HIDE DEF s
  <2> QED BY <1>3, <1>4, <1>5, <2>1, <2>2, Widths
<1>7. Total(e) = s
  <2> HIDE DEF s
  <2>1. Total(e) = ClampAcc(s)
    BY DEF Total, s
  <2> QED
    BY <1>6, <2>1, Widths DEF ClampAcc, Clamp
<1> QED
  BY <1>3, <1>6, <1>7 DEF e

(* The two roundings of a share move it by less than one part of a word. *)
LEMMA RawShare ==
  ASSUME NEW s \in Nat, s > 0, NEW e \in 0 .. AccOne, e <= s
  PROVE  /\ RawWeight(e, s) \in 0 .. One
         /\ 2 * One * (RawWeight(e, s) * s - One * e) \in -((One + 1) * s) .. (One + 1) * s
<1> DEFINE n == e * AccOne
           q == RoundTiesEven(n, s)
           u == RoundTiesEven(q, One)
<1>1. e \in Nat /\ AccOne \in Nat /\ One \in Nat /\ One > 0 /\ AccOne = One * One
  BY Widths DEF AccOne
<1>2. n \in Int /\ n >= 0 /\ n <= AccOne * s
  <2>1. n \in Nat
    BY <1>1
  <2>2. n <= AccOne * s
    BY <1>1
  <2> QED
    BY <2>1, <2>2
<1>3. q \in 0 .. AccOne /\ 2 * (q * s - n) \in -s .. s
  <2> HIDE DEF n
  <2> QED BY <1>1, <1>2, Rounding, RoundedWithin
<1>4. u \in 0 .. One /\ 2 * (u * One - q) \in -One .. One
  <2> HIDE DEF q
  <2> QED BY <1>1, <1>3, Rounding, RoundedWithin
<1>5. RawWeight(e, s) = u
  <2>1. DivAcc(e, s) = q
    <3> HIDE DEF q
    <3>1. DivAcc(e, s) = ClampAcc(q)
      BY DEF DivAcc, q
    <3> QED
      BY <1>3, <3>1, Widths DEF ClampAcc, Clamp
  <2>2. Requantize(q) = u
    <3> HIDE DEF u
    <3>1. Requantize(q) = ClampAct(u)
      BY DEF Requantize, u
    <3> QED
      BY <1>4, <3>1, Widths DEF ClampAct, Clamp
  <2> QED
    BY <2>1, <2>2 DEF RawWeight
<1> DEFINE a == 2 * (q * s - n)
           b == 2 * (u * One - q)
<1>6. 2 * One * (u * s - One * e) = b * s + a
  <2>1. n = One * One * e
    BY <1>1
  <2> HIDE DEF n, q, u
  <2>2. q \in Int /\ u \in Int
    BY <1>3, <1>4
  <2> QED
    BY <1>1, <2>1, <2>2
<1> HIDE DEF a, b, u
<1>7. b * s \in -(One * s) .. One * s
  <2>1. b \in -One .. One
    BY <1>4 DEF b, u
  <2>2. b * s <= One * s /\ (-One) * s <= b * s
    BY <1>1, <2>1
  <2>3. (-One) * s = -(One * s) /\ One * s \in Int /\ b * s \in Int
    BY <1>1, <2>1
  <2> QED
    BY <2>2, <2>3
<1>8. b * s + a \in -((One + 1) * s) .. (One + 1) * s
  <2>1. (One + 1) * s = One * s + s /\ One * s \in Int
    BY <1>1
  <2>2. a \in -s .. s
    BY <1>3 DEF a
  <2> QED
    BY <1>7, <2>1, <2>2
<1> QED
  BY <1>4, <1>5, <1>6, <1>8 DEF u

(* The raw weights, what each is off its share, and that their sum is near 1.0. *)
LEMMA RawWeightsFit ==
  ASSUME TypeOK
  PROVE  LET s == Sum(Exps, NumSlots)
             u == RawWeights
             h == [k \in Slots |-> 2 * One * (u[k] * s - One * Exps[k])]
         IN /\ u \in [1 .. NumSlots -> Int] /\ \A k \in Slots : u[k] \in 0 .. One
            /\ h \in [1 .. NumSlots -> Int]
            /\ \A k \in Slots : h[k] \in -((One + 1) * s) .. (One + 1) * s
            /\ Sum(h, NumSlots) = 2 * One * s * (Sum(u, NumSlots) - One)
            /\ Sum(u, NumSlots) \in 0 .. One + NumSlots
            /\ \A k \in Slots : u[k] <= Sum(u, NumSlots)
<1> DEFINE s == Sum(Exps, NumSlots)
           u == RawWeights
           e == Exps
           h == [k \in Slots |-> 2 * One * (u[k] * s - One * e[k])]
           b == (One + 1) * s
           c == [k \in 1 .. NumSlots |-> b]
           t == Sum(u, NumSlots)
<1>1. /\ s \in Nat /\ s > 0 /\ Total(e) = s /\ One \in Nat /\ One > 0
      /\ e \in [1 .. NumSlots -> Int] /\ \A k \in Slots : e[k] \in 0 .. AccOne /\ e[k] <= s
  BY TotalFits, ExpsType, Widths
<1>2. u = [k \in Slots |-> RawWeight(e[k], s)]
  BY <1>1 DEF RawWeights
<1> HIDE DEF u, e, s
<1>3. ASSUME NEW k \in Slots PROVE u[k] \in 0 .. One /\ h[k] \in -b .. b
  <2>1. u[k] = RawWeight(e[k], s)
    BY <1>2
  <2>2. h[k] = 2 * One * (RawWeight(e[k], s) * s - One * e[k])
    BY <2>1
  <2> HIDE DEF h
  <2> QED BY <1>1, <2>1, <2>2, RawShare
<1>4. u \in [1 .. NumSlots -> Int]
  <2>1. \A k \in Slots : RawWeight(e[k], s) \in Int
    BY <1>1, <1>2, <1>3
  <2> QED
    BY <1>2, <2>1, Shapes
<1>5. h \in [1 .. NumSlots -> Int]
  <2>1. \A k \in Slots : u[k] \in Int /\ e[k] \in Int
    BY <1>1, <1>4, Shapes
  <2>2. \A k \in Slots : 2 * One * (u[k] * s - One * e[k]) \in Int
    BY <1>1, <2>1
  <2> QED
    BY <2>2, Shapes
<1>6. t \in Int /\ t >= 0 /\ \A k \in Slots : u[k] <= t
  <2>1. \A k \in 1 .. NumSlots : u[k] >= 0
    BY <1>1, <1>3, Shapes
  <2>2. t \in Int /\ \A k \in 1 .. NumSlots : u[k] <= t
    BY <1>4, <2>1, Shapes, SumType, SumHoldsTerms
  <2>3. 1 \in 1 .. NumSlots /\ u[1] \in Int
    BY <1>4, Shapes
  <2> HIDE DEF t
  <2> QED BY <2>1, <2>2, <2>3, Shapes
<1>7. Sum(h, NumSlots) = 2 * One * s * (t - One)
  <2> DEFINE x == 2 * One * s
             y == -(2 * One * One)
  <2>1. x \in Int /\ y \in Int
    BY <1>1
  <2>2. ASSUME NEW k \in 1 .. NumSlots PROVE h[k] = x * u[k] + y * e[k]
    <3>1. u[k] \in Int /\ e[k] \in Int /\ k \in Slots
      BY <1>1, <1>4, Shapes
    <3>2. h[k] = 2 * One * (u[k] * s - One * e[k])
      BY <3>1
    <3> QED
      BY <1>1, <3>1, <3>2
  <2> HIDE DEF x, y, h
  <2>3. Sum(h, NumSlots) = x * Sum(u, NumSlots) + y * Sum(e, NumSlots)
    BY <1>1, <1>4, <1>5, <2>1, <2>2, Shapes, SumIsLinear
  <2>4. Sum(e, NumSlots) = s
    BY DEF s, e
  <2>5. x * t + y * s = 2 * One * s * (t - One)
    <3> HIDE DEF t
    <3> QED BY <1>1, <1>6 DEF x, y
  <2> QED
    BY <2>3, <2>4, <2>5
<1>8. t <= One + NumSlots
  <2>1. b \in Nat
    BY <1>1
  <2>2. c \in [1 .. NumSlots -> Int] /\ \A k \in 1 .. NumSlots : c[k] = b
    BY <2>1
  <2>3. \A k \in 1 .. NumSlots : h[k] <= c[k] /\ -c[k] <= h[k]
    <3> HIDE DEF h, b, c
    <3> QED BY <1>3, <2>1, <2>2, Shapes
  <2>4. Sum(c, NumSlots) = NumSlots * b
    <3> HIDE DEF c, b
    <3> QED BY <2>1, <2>2, Shapes, SumOfEqual
  <2>5. Sum(h, NumSlots) <= NumSlots * b
    <3> HIDE DEF c, b, h
    <3> QED BY <1>5, <2>2, <2>3, <2>4, Shapes, SumIsBounded
  <2>6. 2 * One * s * (t - One) <= NumSlots * ((One + 1) * s)
    BY <1>7, <2>5
  <2> HIDE DEF t
  <2>7. SUFFICES ASSUME t - One >= NumSlots + 1 PROVE FALSE
    BY <1>1, <1>6, Shapes
  <2>8. 2 * One * s * (NumSlots + 1) <= 2 * One * s * (t - One)
    <3>1. 2 * One * s \in Nat
      BY <1>1
    <3> DEFINE z == 2 * One * s
    <3> HIDE DEF z
    <3>2. z * (NumSlots + 1) <= z * (t - One)
      BY <1>1, <1>6, <2>7, <3>1, Shapes DEF z
    <3> QED
      BY <3>2 DEF z
  <2>9. NumSlots * ((One + 1) * s) < 2 * One * s * (NumSlots + 1)
    <3>1. (One + 1) * s <= 2 * One * s /\ 2 * One * s > 0
      BY <1>1
    <3> DEFINE v == (One + 1) * s
               z == 2 * One * s
    <3>2. v \in Nat /\ z \in Nat
      BY <1>1
    <3> HIDE DEF v, z
    <3>3. NumSlots * v <= NumSlots * z /\ z * (NumSlots + 1) = NumSlots * z + z
      BY <3>1, <3>2, Shapes DEF v, z
    <3>4. NumSlots * v \in Int /\ NumSlots * z \in Int
      BY <3>2, Shapes
    <3>5. NumSlots * v < z * (NumSlots + 1)
      BY <3>1, <3>2, <3>3, <3>4 DEF z
    <3> QED
      BY <3>5 DEF v, z
  <2>10. /\ NumSlots * ((One + 1) * s) \in Int /\ 2 * One * s * (NumSlots + 1) \in Int
         /\ 2 * One * s * (t - One) \in Int
    BY <1>1, <1>6, Shapes
  <2> QED
    BY <2>6, <2>8, <2>9, <2>10
<1>9. t \in 0 .. One + NumSlots
  <2> HIDE DEF t
  <2> QED BY <1>1, <1>6, <1>8, Shapes
<1> QED
  BY <1>3, <1>4, <1>5, <1>6, <1>7, <1>9 DEF u, e, s

(* What the residual makes of the raw weights. *)
LEMMA CorrectedWeights ==
  ASSUME TypeOK
  PROVE  LET u == RawWeights
             w == Corrected(u)
             t == Sum(u, NumSlots)
         IN /\ w \in [Slots -> Act]
            /\ \A k \in Slots : k # First => w[k] = u[k]
            /\ w[First] = u[First] + One - t
<1> DEFINE u == RawWeights
           w == Corrected(u)
           t == Sum(u, NumSlots)
           m == First
<1>1. /\ u \in [1 .. NumSlots -> Int] /\ \A k \in Slots : u[k] \in 0 .. One /\ u[k] <= t
      /\ t \in 0 .. One + NumSlots
  BY RawWeightsFit
<1>2. m \in Slots
  BY FirstIsGreatest
<1>3. w = [u EXCEPT ![m] = AddSat(u[m], SubSat(One, ClampAct(t)))]
  BY DEF Corrected
<1> HIDE DEF u, t, m, w
<1>4. One - t \in -NumSlots .. One /\ u[m] + One - t \in -NumSlots .. One
  BY <1>1, <1>2, Shapes, Widths
<1>5. AddSat(u[m], SubSat(One, ClampAct(t))) = u[m] + One - t
  <2>1. ClampAct(t) = t
    BY <1>1, Shapes, Widths DEF ClampAct, Clamp
  <2>2. SubSat(One, t) = One - t
    BY <1>1, <1>4, Shapes, Widths DEF SubSat, ClampAct, Clamp
  <2>3. AddSat(u[m], One - t) = u[m] + One - t
    BY <1>1, <1>2, <1>4, Shapes, Widths DEF AddSat, ClampAct, Clamp
  <2> QED
    BY <2>1, <2>2, <2>3
<1>6. w[m] = u[m] + One - t /\ \A k \in Slots : k # m => w[k] = u[k]
  BY <1>1, <1>2, <1>3, <1>5, Shapes
<1>7. w \in [Slots -> Act]
  <2>1. \A k \in Slots : u[k] \in Act
    BY <1>1, Shapes, Widths DEF Act
  <2>2. u[m] + One - t \in Act
    BY <1>4, Shapes, Widths DEF Act
  <2>3. u \in [Slots -> Act]
    BY <1>1, <2>1, Shapes
  <2> QED
    BY <1>3, <1>5, <2>2, <2>3
<1> QED
  BY <1>6, <1>7 DEF u, t, m, w

(* They add up to 1.0, and their sizes to less than a word has values. *)
LEMMA CorrectedSums ==
  ASSUME TypeOK
  PROVE  LET w == Corrected(RawWeights)
         IN /\ Sum(w, NumSlots) = One
            /\ Sum([k \in Slots |-> Magnitude(w[k])], NumSlots) < 2 * ActLimit
<1> DEFINE u == RawWeights
           w == Corrected(u)
           t == Sum(u, NumSlots)
           m == First
           z == [k \in Slots |-> Magnitude(w[k])]
<1>1. /\ u \in [1 .. NumSlots -> Int] /\ \A k \in Slots : u[k] \in 0 .. One /\ u[k] <= t
      /\ t \in 0 .. One + NumSlots
  BY RawWeightsFit
<1>2. m \in Slots
  BY FirstIsGreatest
<1>3. /\ w \in [1 .. NumSlots -> Int] /\ \A k \in Slots : k # m => w[k] = u[k]
      /\ w[m] = u[m] + One - t
  <2>1. w \in [Slots -> Act]
    BY CorrectedWeights
  <2>2. w \in [1 .. NumSlots -> Int]
    <3> HIDE DEF w
    <3> QED BY <2>1, Shapes, ActIsInt
  <2> QED
    BY <2>2, CorrectedWeights
<1> HIDE DEF u, w, m
<1>4. Sum(w, NumSlots) = One
  <2>1. Sum(w, NumSlots) = Sum(u, NumSlots) + w[m] - u[m]
    BY <1>1, <1>2, <1>3, Shapes, SumWithout
  <2> HIDE DEF t
  <2>2. Sum(u, NumSlots) = t
    BY DEF t
  <2> QED
    BY <1>1, <1>2, <1>3, <2>1, <2>2, Shapes, Widths
<1>5. /\ z \in [1 .. NumSlots -> Int]
      /\ \A k \in Slots : k # m => z[k] = u[k]
      /\ z[m] = Magnitude(w[m])
  <2>1. \A k \in Slots : Magnitude(w[k]) \in Int
    BY <1>3, Shapes DEF Magnitude
  <2>2. \A k \in Slots : k # m => Magnitude(w[k]) = u[k]
    BY <1>1, <1>3, Shapes, Widths DEF Magnitude
  <2> QED
    BY <1>2, <2>1, <2>2, Shapes
<1>6. Sum(z, NumSlots) = t + z[m] - u[m]
  <2> HIDE DEF z
  <2> QED BY <1>1, <1>2, <1>5, Shapes, SumWithout
<1>7. t + z[m] - u[m] < 2 * ActLimit
  <2> HIDE DEF z, t
  <2>1. u[m] \in 0 .. One /\ t \in 0 .. One + NumSlots /\ w[m] \in Int
    BY <1>1, <1>2, <1>3, Shapes
  <2>2. z[m] = IF w[m] < 0 THEN -w[m] ELSE w[m]
    BY <1>5 DEF Magnitude
  <2> QED
    BY <1>3, <2>1, <2>2, Shapes, Widths
<1> QED
  BY <1>4, <1>6, <1>7 DEF u, w

(* All roundings but its own move the first maximum's weight. *)
LEMMA CorrectedShares ==
  ASSUME TypeOK
  PROVE  LET w == Corrected(RawWeights)
             s == Sum(Exps, NumSlots)
         IN \A k \in Slots :
              LET roundings == IF k = First THEN NumSlots - 1 ELSE 1
              IN 2 * One * Magnitude(w[k] * s - One * Exps[k]) <= roundings * (One + 1) * s
<1> DEFINE s == Sum(Exps, NumSlots)
           e == Exps
           u == RawWeights
           w == Corrected(u)
           t == Sum(u, NumSlots)
           m == First
           b == (One + 1) * s
           h == [k \in Slots |-> 2 * One * (u[k] * s - One * e[k])]
           off(k) == w[k] * s - One * e[k]
<1>1. /\ u \in [1 .. NumSlots -> Int] /\ \A k \in Slots : u[k] \in 0 .. One
      /\ h \in [1 .. NumSlots -> Int] /\ \A k \in Slots : h[k] \in -b .. b
      /\ Sum(h, NumSlots) = 2 * One * s * (t - One)
      /\ t \in 0 .. One + NumSlots
  BY RawWeightsFit
<1>2. /\ m \in Slots /\ s \in Nat /\ One \in Nat /\ One > 0 /\ NumSlots \in Nat
      /\ \A k \in Slots : e[k] \in Int
  BY FirstIsGreatest, TotalFits, ExpsType, Widths, Shapes
<1>3. (\A k \in Slots : k # m => w[k] = u[k]) /\ w[m] = u[m] + One - t
  BY CorrectedWeights
<1> HIDE DEF u, w, m, e, s, t
<1>4. b \in Nat /\ \A k \in Slots : h[k] = 2 * One * (u[k] * s - One * e[k])
  BY <1>2
<1>5. ASSUME NEW x \in Int, NEW c \in Int, 2 * One * x \in -c .. c
      PROVE  2 * One * Magnitude(x) <= c
  <2>1. CASE x < 0
    <3>1. 2 * One * (-x) = -(2 * One * x) /\ 2 * One * x \in Int
      BY <1>2
    <3> QED
      BY <1>5, <2>1, <3>1 DEF Magnitude
  <2>2. CASE x >= 0
    BY <1>5, <2>2 DEF Magnitude
  <2> QED
    BY <2>1, <2>2
<1>6. ASSUME NEW k \in Slots, k # m PROVE 2 * One * Magnitude(off(k)) <= 1 * (One + 1) * s
  <2>1. off(k) = u[k] * s - One * e[k]
    BY <1>3, <1>6
  <2>2. u[k] \in Int /\ e[k] \in Int
    BY <1>1, <1>2, Shapes
  <2>3. off(k) \in Int
    BY <1>2, <2>1, <2>2
  <2>4. 2 * One * off(k) \in -b .. b
    <3> HIDE DEF b, h
    <3> QED BY <1>1, <1>4, <2>1
  <2>5. 2 * One * Magnitude(off(k)) <= b
    <3> HIDE DEF b, off
    <3> QED BY <1>4, <1>5, <2>3, <2>4
  <2>6. 1 * (One + 1) * s = b
    BY <1>2
  <2> HIDE DEF b
  <2> QED BY <2>5, <2>6
<1>7. 2 * One * Magnitude(off(m)) <= (NumSlots - 1) * (One + 1) * s
  <2> DEFINE g == [k \in 1 .. NumSlots |-> IF k = m THEN 0 ELSE h[k]]
             c == [k \in 1 .. NumSlots |-> b]
             d == [k \in 1 .. NumSlots |-> IF k = m THEN 0 ELSE b]
  <2>1. u[m] \in Int /\ e[m] \in Int /\ t \in Int /\ h[m] \in Int
    <3> HIDE DEF h
    <3> QED BY <1>1, <1>2, Shapes, Widths
  <2>2. off(m) \in Int /\ 2 * One * off(m) = h[m] - Sum(h, NumSlots)
    <3>1. off(m) = (u[m] + One - t) * s - One * e[m]
      BY <1>3
    <3>2. h[m] = 2 * One * (u[m] * s - One * e[m])
      BY <1>2, <1>4
    <3>3. Sum(h, NumSlots) = 2 * One * s * (t - One)
      BY <1>1
    <3> HIDE DEF off, h
    <3> QED BY <1>2, <2>1, <3>1, <3>2, <3>3
  <2>3. g \in [1 .. NumSlots -> Int] /\ c \in [1 .. NumSlots -> Int] /\ d \in [1 .. NumSlots -> Int]
    <3> HIDE DEF h, b
    <3> QED BY <1>1, <1>4, Shapes
  <2>4. /\ g[m] = 0 /\ \A k \in 1 .. NumSlots : k # m => g[k] = h[k]
        /\ \A k \in 1 .. NumSlots : c[k] = b
        /\ d[m] = 0 /\ \A k \in 1 .. NumSlots : k # m => d[k] = c[k]
        /\ \A k \in 1 .. NumSlots : g[k] <= d[k] /\ -d[k] <= g[k]
    <3> HIDE DEF h, b
    <3> QED BY <1>1, <1>2, <1>4, Shapes
  <2> HIDE DEF g, c, d, h
  <2>5. Sum(g, NumSlots) = Sum(h, NumSlots) + g[m] - h[m]
    <3>1. h \in [1 .. NumSlots -> Int] /\ m \in 1 .. NumSlots
      BY <1>1, <1>2, Shapes
    <3>2. \A k \in 1 .. NumSlots : k # m => g[k] = h[k]
      BY <2>4
    <3> QED
      BY <2>3, <3>1, <3>2, Shapes, SumWithout
  <2>6. Sum(c, NumSlots) = NumSlots * b
    <3> HIDE DEF b
    <3> QED BY <1>4, <2>3, <2>4, Shapes, SumOfEqual
  <2>7. Sum(d, NumSlots) = Sum(c, NumSlots) + d[m] - c[m]
    BY <1>2, <2>3, <2>4, Shapes, SumWithout
  <2>8. Sum(g, NumSlots) <= Sum(d, NumSlots) /\ -Sum(d, NumSlots) <= Sum(g, NumSlots)
    BY <2>3, <2>4, Shapes, SumIsBounded
  <2>9. Sum(d, NumSlots) = NumSlots * b - b
    <3>1. NumSlots * b \in Int /\ c[m] = b
      BY <1>2, <1>4, <2>4, Shapes
    <3> HIDE DEF b
    <3> QED BY <1>2, <1>4, <2>4, <2>6, <2>7, <3>1
  <2>10. Sum(g, NumSlots) = -(2 * One * off(m))
    <3>1. Sum(h, NumSlots) \in Int
      BY <1>1, <1>2, SumType
    <3> HIDE DEF off
    <3> QED BY <2>1, <2>2, <2>4, <2>5, <3>1
  <2>11. NumSlots * b - b \in Int /\ 2 * One * off(m) \in -(NumSlots * b - b) .. (NumSlots * b - b)
    <3>1. NumSlots * b - b \in Int /\ 2 * One * off(m) \in Int
      BY <1>2, <1>4, <2>2
    <3> HIDE DEF b, off
    <3> QED BY <2>8, <2>9, <2>10, <3>1
  <2>12. 2 * One * Magnitude(off(m)) <= NumSlots * b - b
    <3> HIDE DEF b, off
    <3> QED BY <1>5, <2>2, <2>11
  <2>13. (NumSlots - 1) * (One + 1) * s = NumSlots * b - b
    BY <1>2
  <2> HIDE DEF b, off
  <2> QED BY <2>12, <2>13
<1>8. ASSUME NEW k \in Slots
      PROVE  2 * One * Magnitude(off(k))
               <= (IF k = m THEN NumSlots - 1 ELSE 1) * (One + 1) * s
  <2> HIDE DEF off
  <2>1. CASE k = m
    BY <1>7, <2>1
  <2>2. CASE k # m
    BY <1>6, <2>2
  <2> QED
    BY <2>1, <2>2
<1> QED
  BY <1>8 DEF u, w, m, e, s

-----------------------------------------------------------------------------
(* The context.                                                            *)

LEMMA AddedType ==
  ASSUME TypeOK, NEW S, NEW d \in Lanes
  PROVE  /\ Added(S, d) \in [1 .. NumSlots -> Int]
         /\ \A k \in Slots : weights[k] * input.values[k][d] \in Int
<1>1. \A k \in Slots : weights[k] \in Int /\ input.values[k][d] \in Int
  <2>1. \A k \in Slots : input.values[k] \in [Lanes -> Act]
    BY InputType DEF Row
  <2>2. \A k \in Slots : input.values[k][d] \in Act
    BY <2>1
  <2>3. \A k \in Slots : weights[k] \in Act
    BY DEF TypeOK
  <2> QED
    BY <2>2, <2>3, ActIsInt
<1>2. \A v \in Int, w \in Int : v * w \in Int
  OBVIOUS
<1> QED
  BY <1>1, <1>2, Shapes DEF Added

(* Whichever keys have been added, their sum fits in an accumulator. *)
LEMMA AddedFits ==
  ASSUME TypeOK, WeightInv, phase \in {"context", "done"}, NEW S, NEW d \in Lanes
  PROVE  Sum(Added(S, d), NumSlots) \in Acc
<1> DEFINE a == Added(S, d)
           bound == [k \in 1 .. NumSlots |-> ActLimit * Sizes[k]]
<1>1. a \in [1 .. NumSlots -> Int]
  BY AddedType
<1>2. /\ Sizes \in [1 .. NumSlots -> Int] /\ \A k \in Slots : Sizes[k] = Magnitude(weights[k])
      /\ \A k \in Slots : weights[k] \in Int /\ Sizes[k] >= 0
  <2>1. \A k \in Slots : weights[k] \in Int
    <3>1. \A k \in Slots : weights[k] \in Act
      BY DEF TypeOK
    <3> QED
      BY <3>1, ActIsInt
  <2>2. \A k \in Slots : Magnitude(weights[k]) \in Int /\ Magnitude(weights[k]) >= 0
    BY <2>1 DEF Magnitude
  <2> QED
    BY <2>1, <2>2, Shapes DEF Sizes
<1>3. bound \in [1 .. NumSlots -> Int] /\ \A k \in 1 .. NumSlots : bound[k] = ActLimit * Sizes[k]
  <2>1. \A k \in 1 .. NumSlots : ActLimit * Sizes[k] \in Int
    BY <1>2, Widths
  <2> QED
    BY <2>1
<1>4. ASSUME NEW k \in 1 .. NumSlots PROVE a[k] <= bound[k] /\ -bound[k] <= a[k]
  <2> DEFINE w == weights[k]
             v == input.values[k][d]
  <2>1. w \in Int /\ v \in -ActLimit .. ActLimit /\ ActLimit \in Nat
    <3>1. k \in Slots /\ input.values[k] \in [Lanes -> Act]
      BY InputType, Shapes DEF Row
    <3>2. v \in Act /\ w \in Int
      BY <1>2, <3>1
    <3> HIDE DEF v, w
    <3> QED BY <3>2, Widths DEF Act
  <2>2. bound[k] = ActLimit * Magnitude(w)
    BY <1>2, <1>3, Shapes
  <2>3. a[k] = IF k \in S THEN w * v ELSE 0
    BY Shapes DEF Added
  <2> HIDE DEF w, v, a, bound
  <2>4. Magnitude(w) \in Nat /\ (w = Magnitude(w) \/ w = -Magnitude(w))
    BY <2>1 DEF Magnitude
  <2>5. ASSUME NEW x \in Nat
        PROVE  /\ x * v <= ActLimit * x /\ -(ActLimit * x) <= x * v
               /\ x * v \in Int /\ ActLimit * x \in Nat /\ (-x) * v = -(x * v)
    <3>1. x * v <= x * ActLimit /\ x * (-ActLimit) <= x * v
      BY <2>1
    <3>2. x * (-ActLimit) = -(ActLimit * x) /\ x * ActLimit = ActLimit * x
      BY <2>1
    <3>3. x * v \in Int /\ ActLimit * x \in Nat /\ (-x) * v = -(x * v)
      BY <2>1
    <3> QED
      BY <3>1, <3>2, <3>3
  <2>6. w * v <= ActLimit * Magnitude(w) /\ -(ActLimit * Magnitude(w)) <= w * v
    <3> DEFINE x == Magnitude(w)
    <3> HIDE DEF x
    <3>1. /\ x * v <= ActLimit * x /\ -(ActLimit * x) <= x * v
          /\ x * v \in Int /\ ActLimit * x \in Nat /\ (-x) * v = -(x * v)
      BY <2>4, <2>5 DEF x
    <3>2. w * v = x * v \/ w * v = -(x * v)
      BY <2>4, <3>1 DEF x
    <3> QED
      BY <3>1, <3>2 DEF x
  <2>7. ActLimit * Magnitude(w) \in Nat
    BY <2>4, <2>5
  <2> QED
    BY <2>2, <2>3, <2>6, <2>7
<1> DEFINE z == Sum(Sizes, NumSlots)
<1>5. z \in Int /\ z <= 2 * ActLimit - 1
  <2>1. z \in Int
    BY <1>2, Shapes, SumType
  <2>2. z < 2 * ActLimit
    BY DEF WeightInv
  <2> HIDE DEF z
  <2> QED BY <2>1, <2>2, Widths
<1>6. Sum(bound, NumSlots) = ActLimit * z
  <2>1. ActLimit \in Int
    BY Widths
  <2> HIDE DEF bound
  <2> QED BY <1>2, <1>3, <2>1, Shapes, SumOfMultiples
<1>7. ActLimit * z <= AccLimit - 1 /\ ActLimit * z \in Int
  <2> HIDE DEF z
  <2>1. ActLimit \in Nat /\ ActLimit >= 1
    BY Widths
  <2>2. ActLimit * z <= ActLimit * (2 * ActLimit - 1)
    BY <1>5, <2>1
  <2>3. ActLimit * (2 * ActLimit - 1) = 2 * ActLimit * ActLimit - ActLimit
    BY <2>1
  <2>4. AccLimit = 2 * ActLimit * ActLimit
    BY DEF AccLimit
  <2>5. ActLimit * z \in Int /\ 2 * ActLimit * ActLimit \in Int
    BY <1>5, <2>1
  <2> QED
    BY <2>1, <2>2, <2>3, <2>4, <2>5
<1>8. /\ Sum(a, NumSlots) <= Sum(bound, NumSlots) /\ -Sum(bound, NumSlots) <= Sum(a, NumSlots)
      /\ Sum(a, NumSlots) \in Int
  <2> HIDE DEF a, bound
  <2> QED BY <1>1, <1>3, <1>4, Shapes, SumType, SumIsBounded
<1> HIDE DEF z, a, bound
<1>9. Sum(a, NumSlots) \in Acc
  BY <1>6, <1>7, <1>8, Widths DEF Acc
<1> QED
  BY <1>9 DEF a

(* One key more adds its own term. *)
LEMMA AddedOnce ==
  ASSUME TypeOK, NEW S, NEW k \in Slots, k \notin S, NEW d \in Lanes
  PROVE  Sum(Added(S \cup {k}, d), NumSlots)
           = Sum(Added(S, d), NumSlots) + weights[k] * input.values[k][d]
<1> DEFINE a == Added(S, d)
           c == Added(S \cup {k}, d)
<1>1. a \in [1 .. NumSlots -> Int] /\ c \in [1 .. NumSlots -> Int]
  BY AddedType
<1>2. /\ a[k] = 0 /\ c[k] = weights[k] * input.values[k][d]
      /\ \A j \in 1 .. NumSlots : j # k => c[j] = a[j]
  BY Shapes DEF Added
<1>3. weights[k] * input.values[k][d] \in Int /\ k \in 1 .. NumSlots
  BY AddedType, Shapes
<1> HIDE DEF a, c
<1>4. Sum(c, NumSlots) = Sum(a, NumSlots) + c[k] - a[k]
  BY <1>1, <1>2, <1>3, Shapes, SumWithout
<1>5. Sum(a, NumSlots) \in Int
  BY <1>1, Shapes, SumType
<1>6. Sum(c, NumSlots) = Sum(a, NumSlots) + weights[k] * input.values[k][d]
  BY <1>2, <1>3, <1>4, <1>5
<1> QED
  BY <1>6 DEF a, c

LEMMA NothingAdded ==
  ASSUME TypeOK, NEW d \in Lanes
  PROVE  Sum(Added({}, d), NumSlots) = 0
<1>1. Added({}, d) \in [1 .. NumSlots -> Int] /\ \A k \in 1 .. NumSlots : Added({}, d)[k] = 0
  BY AddedType, Shapes DEF Added
<1>2. Sum(Added({}, d), NumSlots) = NumSlots * 0
  BY <1>1, Shapes, SumOfEqual
<1> QED
  BY <1>2, Shapes

-----------------------------------------------------------------------------
(* Every step keeps the invariant.                                         *)

(* While the weights are not there, nothing has been accumulated. *)
LEMMA InitHead == Init => HeadInv
<1> SUFFICES ASSUME Init PROVE HeadInv
  OBVIOUS
<1>1. ZeroRow \in Row /\ ZeroRow \in [Lanes -> Acc]
  BY ActIsInt DEF ZeroRow, Row
<1>2. TypeOK
  BY <1>1, ActIsInt, ActMaxType DEF Init, TypeOK
<1> QED
  BY <1>2
  DEF HeadInv, Init, RootInv, ScaleIsNearest, WeightInv, SharesAreClose, ContextInv,
      ContextIsWeightedMean

(* A step that leaves input and root alone, and is not the search's, keeps RootInv. *)
LEMMA RootStays ==
  ASSUME HeadInv, phase \notin {"norm", "root"}, phase' \notin {"norm", "root"},
         UNCHANGED <<input, scale>>
  PROVE  RootInv'
<1>1. Adjusted' = Adjusted /\ scale' = scale
  BY DEF Adjusted
<1>2. ScaleIsNearest'
  BY <1>1 DEF HeadInv, RootInv, ScaleIsNearest
<1> QED
  BY <1>2 DEF RootInv

(* Before softmax there is nothing to say of weights and context. *)
LEMMA NothingYet ==
  ASSUME HeadInv, phase \notin {"context", "done"}, phase' \notin {"context", "done"},
         acc' = acc
  PROVE  WeightInv' /\ ContextInv'
BY DEF HeadInv, WeightInv, SharesAreClose, ContextInv, ContextIsWeightedMean, ZeroRow

(* Softmax's weights stay what they are. *)
LEMMA WeightsStay ==
  ASSUME HeadInv, phase \in {"context", "done"}, UNCHANGED <<scores, weights>>
  PROVE  WeightInv'
<1>1. Exps' = Exps /\ First' = First /\ Sizes' = Sizes /\ weights' = weights
  BY DEF Exps, First, Sizes
<1>2. SharesAreClose'
  BY <1>1 DEF HeadInv, WeightInv, SharesAreClose
<1>3. Sum(weights', NumSlots) = One /\ Sum(Sizes', NumSlots) < 2 * ActLimit
  BY <1>1 DEF HeadInv, WeightInv
<1> QED
  BY <1>2, <1>3 DEF WeightInv

LEMMA BeginRootStep ==
  ASSUME HeadInv, BeginRoot
  PROVE  HeadInv'
<1>1. phase = "norm" /\ low = 0 /\ TypeOK /\ Adjusted' = Adjusted /\ low' = low
  BY DEF HeadInv, RootInv, BeginRoot, Adjusted
<1>2. TypeOK'
  BY <1>1, ActMaxType DEF TypeOK, BeginRoot
<1>3. WeightInv' /\ ContextInv'
  BY <1>1, NothingYet DEF BeginRoot
<1>4. /\ Adjusted \in Nat /\ Target \in Nat /\ ActMax \in Nat /\ ActMax + 1 \in Nat
      /\ ActMax <= ActMax + 1
  BY <1>1, AdjustedType, TargetType, ActMaxType, Widths
<1>5. CASE Product(ActMax, Adjusted) <= Target
  <2>1. phase' = "query" /\ scale' = ActMax
    BY <1>5 DEF BeginRoot
  <2>2. ScaleIsNearest'
    BY <1>1, <1>5, <2>1, LargestIsNearest DEF ScaleIsNearest
  <2>3. RootInv'
    BY <2>1, <2>2 DEF RootInv
  <2> QED
    BY <1>2, <1>3, <2>3 DEF HeadInv
<1>6. CASE ~(Product(ActMax, Adjusted) <= Target)
  <2>1. phase' = "root" /\ high' = ActMax /\ low' = 0
    BY <1>1, <1>6 DEF BeginRoot
  <2>2. Product(0, Adjusted) = 0
    BY <1>4, ProductOfZero
  <2>3. /\ Product(ActMax, Adjusted) <= Product(ActMax + 1, Adjusted)
        /\ Product(ActMax, Adjusted) \in Nat /\ Product(ActMax + 1, Adjusted) \in Nat
    BY <1>4, ProductIsMonotone
  <2>4. Target < Product(ActMax, Adjusted) /\ Target < Product(ActMax + 1, Adjusted)
    BY <1>4, <1>6, <2>3
  <2>5. RootInv'
    BY <1>1, <1>4, <2>1, <2>2, <2>4 DEF RootInv, ScaleIsNearest
  <2> QED
    BY <1>2, <1>3, <2>5 DEF HeadInv
<1> QED
  BY <1>5, <1>6

LEMMA BisectStep ==
  ASSUME HeadInv, Bisect
  PROVE  HeadInv' /\ high' - low' < high - low /\ low' <= high'
<1>1. phase = "root" /\ phase' = "root" /\ low < high /\ TypeOK /\ Adjusted' = Adjusted
  BY DEF HeadInv, Bisect, Adjusted
<1>2. Middle \in Nat /\ low < Middle /\ Middle <= high /\ high \in Nat /\ low \in Nat
  BY <1>1, MiddleType
<1>3. high <= ActMax /\ ActMax \in Nat
  BY <1>1, ActMaxType DEF TypeOK
<1>4. \/ Product(Middle, Adjusted) <= Target /\ low' = Middle /\ high' = high
      \/ ~(Product(Middle, Adjusted) <= Target) /\ high' = Middle - 1 /\ low' = low
  BY DEF Bisect
<1>5. low' \in 0 .. ActMax /\ high' \in 0 .. ActMax /\ low' <= high'
      /\ high' - low' < high - low
  BY <1>2, <1>3, <1>4
<1>6. TypeOK'
  BY <1>5 DEF HeadInv, TypeOK, Bisect
<1>7. WeightInv' /\ ContextInv'
  BY <1>1, NothingYet DEF Bisect
<1>8. /\ Product(low, Adjusted) <= Target /\ Target < Product(high + 1, Adjusted)
      /\ Target < Product(ActMax, Adjusted)
  BY <1>1 DEF HeadInv, RootInv
<1>9. Target < Product(Middle, Adjusted) \/ Product(Middle, Adjusted) <= Target
  BY <1>1, <1>2, AdjustedType, TargetType, ProductIsMonotone, Widths
<1>10. Product(low', Adjusted) <= Target /\ Target < Product(high' + 1, Adjusted)
  <2>1. CASE low' = Middle /\ high' = high /\ Product(Middle, Adjusted) <= Target
    BY <1>8, <2>1
  <2>2. CASE high' = Middle - 1 /\ low' = low /\ ~(Product(Middle, Adjusted) <= Target)
    <3>1. high' + 1 = Middle
      BY <1>2, <2>2
    <3> QED
      BY <1>8, <1>9, <2>2, <3>1
  <2> QED
    BY <1>4, <2>1, <2>2
<1>11. RootInv'
  BY <1>1, <1>5, <1>8, <1>10 DEF RootInv, ScaleIsNearest
<1> QED
  BY <1>5, <1>6, <1>7, <1>11 DEF HeadInv

LEMMA SettleStep ==
  ASSUME HeadInv, Settle
  PROVE  HeadInv'
<1>1. /\ phase = "root" /\ phase' = "query" /\ low = high /\ TypeOK /\ RootInv
      /\ scale' = Settled(Adjusted) /\ Adjusted' = Adjusted
  BY DEF HeadInv, Settle, Adjusted
<1>2. /\ Settled(Adjusted) \in 0 .. ActMax /\ Adjusted # 0
      /\ \A c \in 0 .. ActMax :
           Magnitude(Product(Settled(Adjusted), Adjusted) - Target)
             <= Magnitude(Product(c, Adjusted) - Target)
  BY <1>1, SettledIsNearest
<1>3. TypeOK'
  BY <1>1, <1>2 DEF TypeOK, Settle
<1>4. WeightInv' /\ ContextInv'
  BY <1>1, NothingYet DEF Settle
<1>5. ScaleIsNearest'
  BY <1>1, <1>2 DEF ScaleIsNearest
<1>6. RootInv'
  BY <1>1, <1>5 DEF RootInv
<1> QED
  BY <1>3, <1>4, <1>6 DEF HeadInv

LEMMA QueryType ==
  ASSUME TypeOK
  PROVE  Rotated(Normed) \in Row
<1>1. scale \in Int
  BY ActMaxType DEF TypeOK
<1>2. Normed \in Row
  <2>1. ASSUME NEW d \in Lanes
        PROVE  MulSat(MulSat(input.row[d], scale), input.norm[d]) \in Act
    <3>1. input.row[d] \in Int /\ input.norm[d] \in Int
      BY InputType, ActIsInt DEF Row
    <3>2. MulSat(input.row[d], scale) \in Int
      BY <1>1, <3>1, MulSatType, ActIsInt
    <3> QED
      BY <3>1, <3>2, MulSatType
  <2> QED
    BY <2>1 DEF Normed, Row
<1> DEFINE r == Normed
<1> HIDE DEF r
<1>3. \A d \in Lanes : r[d] \in Act /\ r[d] \in Int
  BY <1>2, ActIsInt DEF r, Row
<1>4. \A p \in 1 .. NumPairs : /\ input.cos[p] \in Int /\ input.sin[p] \in Int
                              /\ p \in Lanes /\ p + NumPairs \in Lanes
  <2>1. \A p \in 1 .. NumPairs : input.cos[p] \in Act /\ input.sin[p] \in Act
    BY InputType
  <2>2. \A p \in 1 .. NumPairs : p \in Lanes /\ p + NumPairs \in Lanes
    BY Shapes
  <2> QED
    BY <2>1, <2>2, ActIsInt
<1>5. ASSUME NEW d \in Lanes
      PROVE  (IF d <= NumPairs
              THEN SubSat(MulSat(r[d], input.cos[d]), MulSat(r[d + NumPairs], input.sin[d]))
              ELSE IF d <= 2 * NumPairs
              THEN AddSat(MulSat(r[d], input.cos[d - NumPairs]),
                          MulSat(r[d - NumPairs], input.sin[d - NumPairs]))
              ELSE r[d]) \in Act
  <2>1. CASE d <= NumPairs
    <3>1. d \in 1 .. NumPairs
      BY <2>1, Shapes
    <3>2. MulSat(r[d], input.cos[d]) \in Int /\ MulSat(r[d + NumPairs], input.sin[d]) \in Int
      BY <1>3, <1>4, <3>1, MulSatType, ActIsInt
    <3> QED
      BY <2>1, <3>2, AddSatType
  <2>2. CASE ~(d <= NumPairs) /\ d <= 2 * NumPairs
    <3> DEFINE p == d - NumPairs
    <3>1. p \in 1 .. NumPairs
      BY <2>2, Shapes
    <3> HIDE DEF p
    <3>2. MulSat(r[d], input.cos[p]) \in Int /\ MulSat(r[p], input.sin[p]) \in Int
      BY <1>3, <1>4, <3>1, MulSatType, ActIsInt
    <3>3. AddSat(MulSat(r[d], input.cos[p]), MulSat(r[p], input.sin[p])) \in Act
      BY <3>2, AddSatType
    <3> QED
      BY <2>2, <3>3 DEF p
  <2>3. CASE ~(d <= NumPairs) /\ ~(d <= 2 * NumPairs)
    BY <1>3, <2>3
  <2> QED
    BY <2>1, <2>2, <2>3
<1>6. Rotated(r) \in Row
  BY <1>5 DEF Rotated, Row
<1> QED
  BY <1>6 DEF r

LEMMA ProjectStep ==
  ASSUME HeadInv, Project
  PROVE  HeadInv'
<1>1. phase = "query" /\ phase' = "scores" /\ TypeOK /\ query' = Rotated(Normed)
  BY DEF HeadInv, Project
<1>2. TypeOK'
  BY <1>1, QueryType DEF TypeOK, Project
<1>3. RootInv' /\ WeightInv' /\ ContextInv'
  BY <1>1, RootStays, NothingYet DEF Project
<1> QED
  BY <1>2, <1>3 DEF HeadInv

LEMMA ScoreStep ==
  ASSUME HeadInv, NEW k \in Slots, Score(k)
  PROVE  HeadInv'
<1>1. /\ phase = "scores" /\ phase' = "scores" /\ TypeOK
      /\ scores' = [scores EXCEPT ![k] = Dot(query, input.keys[k], NumLanes)]
  BY DEF HeadInv, Score
<1>2. Dot(query, input.keys[k], NumLanes) \in Act
  <2>1. query \in [Lanes -> Act] /\ input.keys[k] \in [Lanes -> Act]
    BY <1>1, InputType DEF TypeOK, Row
  <2>2. query \in [1 .. NumLanes -> Int] /\ input.keys[k] \in [1 .. NumLanes -> Int]
    BY <2>1, Shapes, ActIsInt
  <2> QED
    BY <2>2, Shapes, DotType
<1>3. TypeOK'
  BY <1>1, <1>2 DEF TypeOK, Score
<1>4. RootInv' /\ WeightInv' /\ ContextInv'
  BY <1>1, RootStays, NothingYet DEF Score
<1> QED
  BY <1>3, <1>4 DEF HeadInv

LEMMA SoftmaxStep ==
  ASSUME HeadInv, Softmax
  PROVE  HeadInv'
<1> DEFINE w == Corrected(RawWeights)
<1>1. /\ phase = "scores" /\ phase' = "context" /\ TypeOK /\ weights' = w
      /\ scores' = scores /\ seen' = {} /\ acc' = acc /\ input' = input
  BY DEF HeadInv, Softmax
<1>2. w \in [Slots -> Act]
  BY <1>1, CorrectedWeights
<1>3. TypeOK'
  BY <1>1, <1>2 DEF TypeOK, Softmax
<1>4. RootInv'
  BY <1>1, RootStays DEF Softmax
<1>5. Exps' = Exps /\ First' = First
  BY <1>1 DEF Exps, First
<1>6. SharesAreClose'
  <2>1. \A k \in Slots :
          LET roundings == IF k = First THEN NumSlots - 1 ELSE 1
          IN 2 * One * Magnitude(w[k] * Sum(Exps, NumSlots) - One * Exps[k])
               <= roundings * (One + 1) * Sum(Exps, NumSlots)
    BY <1>1, CorrectedShares
  <2> HIDE DEF w
  <2> QED BY <1>1, <1>5, <2>1 DEF SharesAreClose
<1>7. Sum(weights', NumSlots) = One /\ Sum(Sizes', NumSlots) < 2 * ActLimit
  <2>1. /\ Sum(w, NumSlots) = One
        /\ Sum([k \in Slots |-> Magnitude(w[k])], NumSlots) < 2 * ActLimit
    BY <1>1, CorrectedSums
  <2>2. Sizes' = [k \in Slots |-> Magnitude(w[k])]
    BY <1>1 DEF Sizes
  <2> QED
    BY <1>1, <2>1, <2>2
<1>8. WeightInv'
  BY <1>6, <1>7 DEF WeightInv
<1>9. \A d \in Lanes : acc'[d] = Sum(Added(seen, d)', NumSlots)
  <2>1. acc' = ZeroRow
    BY <1>1 DEF HeadInv, ContextInv
  <2>2. ASSUME NEW d \in Lanes PROVE Added(seen, d)' = Added({}, d)
    BY <1>1 DEF Added
  <2>3. \A d \in Lanes : Sum(Added({}, d), NumSlots) = 0
    BY <1>1, NothingAdded
  <2> QED
    BY <2>1, <2>2, <2>3 DEF ZeroRow
<1>10. ContextInv'
  BY <1>1, <1>9 DEF ContextInv, ContextIsWeightedMean
<1> QED
  BY <1>3, <1>4, <1>8, <1>10 DEF HeadInv

LEMMA AccumulateStep ==
  ASSUME HeadInv, NEW k \in Slots, Accumulate(k)
  PROVE  HeadInv'
<1>1. /\ phase = "context" /\ phase' = "context" /\ TypeOK /\ WeightInv
      /\ k \notin seen /\ seen' = seen \cup {k} /\ weights' = weights /\ input' = input
      /\ acc' = [d \in Lanes |-> MacBits(acc[d], weights[k], input.values[k][d])]
      /\ scores' = scores
  BY DEF HeadInv, Accumulate
<1>2. ASSUME NEW d \in Lanes
      PROVE  acc'[d] \in Acc /\ acc'[d] = Sum(Added(seen \cup {k}, d), NumSlots)
  <2>1. acc[d] = Sum(Added(seen, d), NumSlots)
    BY <1>1 DEF HeadInv, ContextInv
  <2>2. acc'[d] = Wrap(Sum(Added(seen, d), NumSlots) + weights[k] * input.values[k][d])
    BY <1>1, <2>1 DEF MacBits
  <2>3. Sum(Added(seen \cup {k}, d), NumSlots)
          = Sum(Added(seen, d), NumSlots) + weights[k] * input.values[k][d]
    BY <1>1, AddedOnce
  <2>4. Sum(Added(seen \cup {k}, d), NumSlots) \in Acc
    BY <1>1, AddedFits
  <2> QED
    BY <2>2, <2>3, <2>4, WrapFits
<1>3. TypeOK'
  <2>1. acc' \in [Lanes -> Acc]
    <3>1. \A d \in Lanes : acc'[d] = MacBits(acc[d], weights[k], input.values[k][d])
      BY <1>1
    <3>2. \A d \in Lanes : MacBits(acc[d], weights[k], input.values[k][d]) \in Acc
      BY <1>2, <3>1
    <3> QED
      BY <1>1, <3>2
  <2> QED
    BY <1>1, <2>1 DEF TypeOK, Accumulate
<1>4. RootInv'
  BY <1>1, RootStays DEF Accumulate
<1>5. WeightInv'
  BY <1>1, WeightsStay
<1>6. ASSUME NEW d \in Lanes PROVE Added(seen, d)' = Added(seen \cup {k}, d)
  BY <1>1 DEF Added
<1>7. ContextInv'
  BY <1>1, <1>2, <1>6 DEF ContextInv, ContextIsWeightedMean
<1> QED
  BY <1>3, <1>4, <1>5, <1>7 DEF HeadInv

LEMMA FinishStep ==
  ASSUME HeadInv, Finish
  PROVE  HeadInv'
<1>1. /\ phase = "context" /\ phase' = "done" /\ TypeOK /\ seen = Slots
      /\ weights' = weights /\ input' = input /\ scores' = scores
      /\ context' = [d \in Lanes |-> Requantize(acc[d])]
  BY DEF HeadInv, Finish
<1>2. TypeOK'
  <2>1. \A d \in Lanes : acc[d] \in Int
    BY <1>1, ActIsInt DEF TypeOK
  <2>2. \A d \in Lanes : Requantize(acc[d]) \in Act
    BY <2>1, RequantizeType
  <2>3. context' \in Row
    BY <1>1, <2>2 DEF Row
  <2> QED
    BY <1>1, <2>3 DEF TypeOK, Finish
<1>3. RootInv'
  BY <1>1, RootStays DEF Finish
<1>4. WeightInv'
  BY <1>1, WeightsStay
<1>5. ASSUME NEW d \in Lanes
      PROVE  context'[d] = Requantize(Sum([k \in Slots |-> weights[k] * input.values[k][d]],
                                          NumSlots))
  <2>1. acc[d] = Sum(Added(Slots, d), NumSlots)
    BY <1>1 DEF HeadInv, ContextInv
  <2>2. Added(Slots, d) = [k \in Slots |-> weights[k] * input.values[k][d]]
    BY DEF Added
  <2> QED
    BY <1>1, <2>1, <2>2
<1>6. Sum(weights, NumSlots) = One
  BY <1>1 DEF WeightInv, HeadInv
<1>7. ContextIsWeightedMean'
  BY <1>1, <1>5, <1>6 DEF ContextIsWeightedMean
<1>8. ContextInv'
  BY <1>1, <1>7 DEF ContextInv
<1> QED
  BY <1>2, <1>3, <1>4, <1>8 DEF HeadInv

LEMMA HeadStutter ==
  ASSUME HeadInv, UNCHANGED vars
  PROVE  HeadInv'
<1>1. Adjusted' = Adjusted /\ Exps' = Exps /\ First' = First /\ Sizes' = Sizes
  BY DEF vars, Adjusted, Exps, First, Sizes
<1>2. ASSUME NEW d \in Lanes PROVE Added(seen, d)' = Added(seen, d)
  BY DEF vars, Added
<1>3. TypeOK'
  BY DEF HeadInv, TypeOK, vars
<1>4. RootInv'
  BY <1>1 DEF HeadInv, RootInv, ScaleIsNearest, vars
<1>5. WeightInv'
  BY <1>1 DEF HeadInv, WeightInv, SharesAreClose, vars
<1>6. ContextIsWeightedMean'
  BY DEF HeadInv, ContextInv, ContextIsWeightedMean, vars
<1>7. ContextInv'
  BY <1>2, <1>6 DEF HeadInv, ContextInv, vars
<1> QED
  BY <1>3, <1>4, <1>5, <1>7 DEF HeadInv

(* The invariant holds of every head, whatever its width, window, rows and values. *)
THEOREM HeadInvariance == Spec => []HeadInv
<1>1. ASSUME HeadInv, [Next]_vars PROVE HeadInv'
  <2>1. CASE BeginRoot
    BY <1>1, <2>1, BeginRootStep
  <2>2. CASE Bisect
    BY <1>1, <2>2, BisectStep
  <2>3. CASE Settle
    BY <1>1, <2>3, SettleStep
  <2>4. CASE Project
    BY <1>1, <2>4, ProjectStep
  <2>5. CASE \E k \in Slots : Score(k)
    BY <1>1, <2>5, ScoreStep
  <2>6. CASE Softmax
    BY <1>1, <2>6, SoftmaxStep
  <2>7. CASE \E k \in Slots : Accumulate(k)
    BY <1>1, <2>7, AccumulateStep
  <2>8. CASE Finish
    BY <1>1, <2>8, FinishStep
  <2>9. CASE UNCHANGED vars
    BY <1>1, <2>9, HeadStutter
  <2> QED
    BY <1>1, <2>1, <2>2, <2>3, <2>4, <2>5, <2>6, <2>7, <2>8, <2>9 DEF Next
<1> QED
  BY <1>1, InitHead, PTL DEF Spec

(* Every number of a head stays in its word. *)
THEOREM HeadTypes == Spec => []TypeOK
<1>1. HeadInv => TypeOK
  BY DEF HeadInv
<1> QED
  BY <1>1, HeadInvariance, PTL

(* Bisection finds the inverse root that is nearest. *)
THEOREM RootIsFound == Spec => []ScaleIsNearest
<1>1. HeadInv => ScaleIsNearest
  BY DEF HeadInv, RootInv
<1> QED
  BY <1>1, HeadInvariance, PTL

(* Each of its steps narrows the bounds, which never cross. *)
THEOREM BisectionComesToAnEnd == Spec => BisectionNarrows
<1>1. HeadInv /\ [Next]_vars => [Bisect => high' - low' < high - low /\ low' <= high']_vars
  BY BisectStep
<1> QED
  BY <1>1, HeadInvariance, PTL DEF Spec, BisectionNarrows

(* Weights are the shares of the exponentials but for their roundings. *)
THEOREM WeightsAreShares == Spec => []SharesAreClose
<1>1. HeadInv => SharesAreClose
  BY DEF HeadInv, WeightInv
<1> QED
  BY <1>1, HeadInvariance, PTL

(* The wrapping accumulators lose nothing: the context is the exact weighted sum. *)
THEOREM ContextIsExact == Spec => []ContextIsWeightedMean
<1>1. HeadInv => ContextIsWeightedMean
  BY DEF HeadInv, ContextInv
<1> QED
  BY <1>1, HeadInvariance, PTL
=============================================================================

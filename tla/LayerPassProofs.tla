---------------------------- MODULE LayerPassProofs ----------------------------
(***************************************************************************)
(* The layers of a generation compute causal attention, whoever runs them. *)
(*                                                                         *)
(* The argument: every product is the product with the whole matrix; every *)
(* key is a function of its layer and its position, so that a cache is an  *)
(* interval of positions; a query finds its whole window in its source;    *)
(* and the tiles carry both through their chunks.                          *)
(***************************************************************************)
EXTENDS LayerPass, WellFoundedInduction, SequenceTheorems, FiniteSetTheorems, TLAPS

-----------------------------------------------------------------------------
(* An induction over the places of a sequence, as an argument about a set. *)

LEMMA LeastOf ==
  ASSUME NEW Places, Places \subseteq Nat, Places # {}
  PROVE  \E x \in Places : \A y \in Places : x <= y
<1> DEFINE R == OpToRel(<, Nat)
<1>1. R = {p \in Nat \X Nat : p[1] < p[2]}
  BY Zenon DEF OpToRel
<1>2. IsWellFoundedOn(R, Nat)
  BY NatLessThanWellFounded
<1> HIDE DEF R
<1>3. PICK x \in Places : \A y \in Places : <<y, x>> \notin R
  BY <1>2, WFMin
<1>4. ASSUME NEW y \in Places PROVE x <= y
  <2>1. x \in Nat /\ y \in Nat /\ <<y, x>> \notin R
    BY <1>3
  <2> QED
    BY <1>1, <2>1
<1> QED
  BY <1>3, <1>4

(* A set that holds 0, and every index after one that it holds, holds all of them. *)
LEMMA Climb ==
  ASSUME NEW n \in Nat, NEW Places, 0 \in Places, \A i \in 1 .. n : i - 1 \in Places => i \in Places
  PROVE  \A i \in 0 .. n : i \in Places
<1> DEFINE missing == {i \in 0 .. n : i \notin Places}
<1>1. SUFFICES ASSUME missing # {} PROVE FALSE
  OBVIOUS
<1>2. PICK x \in missing : \A y \in missing : x <= y
  <2>1. missing \subseteq Nat
    OBVIOUS
  <2> HIDE DEF missing
  <2> QED BY <1>1, <2>1, LeastOf
<1>3. x \in 1 .. n
  OBVIOUS
<1>4. x - 1 \in 0 .. n /\ ~(x <= x - 1)
  BY <1>3
<1>5. x - 1 \in Places
  BY <1>2, <1>4
<1> QED
  BY <1>3, <1>5

LEMMA Division ==
  ASSUME NEW n \in Nat, NEW d \in Nat, d > 0
  PROVE  /\ n \div d \in Nat /\ n % d \in 0 .. d - 1
         /\ n = (n \div d) * d + (n % d)
<1>1. n \div d \in Nat /\ n % d \in 0 .. d - 1
  OBVIOUS
<1>2. n = d * (n \div d) + (n % d)
  OBVIOUS
<1> QED
  BY <1>1, <1>2

(* A quotient of a product. *)
LEMMA Multiple ==
  ASSUME NEW n \in Nat, NEW d \in Nat, d > 0
  PROVE  /\ (n * d) \div d = n
         /\ (n * d) % d = 0
<1>1. n * d \in Nat
  OBVIOUS
<1>2. /\ (n * d) \div d \in Nat /\ (n * d) % d \in 0 .. d - 1
      /\ n * d = ((n * d) \div d) * d + ((n * d) % d)
  BY <1>1, Division
<1> DEFINE q == (n * d) \div d
           r == (n * d) % d
<1>3. q \in Nat /\ r \in 0 .. d - 1 /\ (n - q) * d = r
  BY <1>2
<1> HIDE DEF q, r
<1>4. n - q \in Int /\ ~(n - q >= 1) /\ ~(n - q <= -1)
  BY <1>3
<1> QED
  BY <1>3, <1>4 DEF q, r

-----------------------------------------------------------------------------
(* Products: native code and tiles that do not fail take each row of a     *)
(* matrix once, and into its place.                                        *)

Order == [r \in 1 .. Rows |-> {r - 1}]

LEMMA Layout ==
  /\ Rows \in Nat /\ Rows > 0 /\ Cols \in Nat /\ Cols > 0
  /\ WholePage \in Nat /\ WholePage > 0 /\ TornPage \in Nat /\ TornPage > 0
  /\ MinRowsPerChunk \in Nat /\ MinRowsPerChunk > 0 /\ MinParRows \in Nat
  /\ WholePage % Cols = 0
BY LayoutAssumption

(* Whatever the number of threads, a row of a product comes from its row.  *)
LEMMA NativeRowIsRow ==
  ASSUME threads \in Nat, threads > 0, NEW r \in Nat
  PROVE  NativeRow(r) = r
<1>1. (Rows + threads - 1) \div threads \in Nat
  <2>1. Rows + threads - 1 \in Nat
    BY Layout
  <2> QED
    BY <2>1, Division
<1>2. ChunkRows \in Nat /\ ChunkRows > 0
  BY <1>1, Layout DEF ChunkRows, Larger
<1>3. (r \div ChunkRows) * ChunkRows + (r % ChunkRows) = r
  <2> DEFINE c == ChunkRows
  <2>1. c \in Nat /\ c > 0
    BY <1>2
  <2> HIDE DEF c
  <2>2. (r \div c) * c + (r % c) = r
    BY <2>1, Division
  <2> QED
    BY <2>2 DEF c
<1> QED
  BY <1>3 DEF NativeRow, RowsInto

LEMMA NativeIsWhole ==
  ASSUME threads \in Nat, threads > 0
  PROVE  \A l, name, x : NativeProduct(l, name, x) = Product(l, name, Order, x)
<1>1. \A r \in 1 .. Rows : NativeRow(r - 1) = r - 1
  BY NativeRowIsRow, Layout
<1>2. [r \in 1 .. Rows |-> {NativeRow(r - 1)}] = Order
  BY <1>1 DEF Order
<1> QED
  BY <1>2, Zenon DEF NativeProduct

(* Only a matrix in torn pages makes a tile fail. *)
LEMMA WholePagesFit ==
  ASSUME NEW name, TileFails(name)
  PROVE  name = torn
<1>1. SUFFICES ASSUME name # torn PROVE FALSE
  OBVIOUS
<1>2. PageSize(name) = WholePage
  BY <1>1 DEF PageSize
<1>3. PICK i \in MatrixPages(name) : MacFails(name, i)
  BY DEF TileFails
<1>4. i \in Nat
  BY <1>3 DEF MatrixPages
<1> DEFINE w == WholePage \div Cols
<1>5. w \in Nat /\ WholePage = w * Cols
  BY Layout, Division
<1> HIDE DEF w
<1>6. i * w \in Nat /\ Offset(name, i) = (i * w) * Cols
  BY <1>2, <1>4, <1>5, Layout DEF Offset
<1>7. Offset(name, i) % Cols = 0
  BY <1>6, Layout, Multiple
<1>8. ValuesIn(name, i) % Cols = 0
  <2>1. CASE Offset(name, i) + PageSize(name) <= Rows * Cols
    BY <1>2, <2>1, Layout DEF ValuesIn
  <2>2. CASE ~(Offset(name, i) + PageSize(name) <= Rows * Cols)
    <3>1. ValuesIn(name, i) = (Rows - i * w) * Cols
      BY <1>6, <2>2, Layout DEF ValuesIn
    <3>2. Rows - i * w \in Nat
      <4> DEFINE p == (Rows * Cols + PageSize(name) - 1) \div PageSize(name)
      <4>1. /\ Rows * Cols + WholePage - 1 \in Nat /\ Rows * Cols \in Nat
        BY Layout
      <4>2. p \in Nat /\ p * WholePage <= Rows * Cols + WholePage - 1
        <5>1. /\ p \in Nat /\ (Rows * Cols + WholePage - 1) % WholePage \in 0 .. WholePage - 1
              /\ Rows * Cols + WholePage - 1 = p * WholePage + ((Rows * Cols + WholePage - 1) % WholePage)
          BY <1>2, <4>1, Layout, Division
        <5> DEFINE m == (Rows * Cols + WholePage - 1) % WholePage
        <5>2. m \in Nat /\ Rows * Cols + WholePage - 1 = p * WholePage + m
          BY <5>1, Layout
        <5> HIDE DEF m, p
        <5> QED
          BY <4>1, <5>1, <5>2, Layout
      <4>3. i <= p - 1
        BY <1>3 DEF MatrixPages
      <4> HIDE DEF p
      <4>4. (i + 1) * WholePage <= p * WholePage
        BY <1>4, <4>2, <4>3, Layout
      <4>5. i * WholePage < Rows * Cols
        BY <1>4, <4>1, <4>2, <4>4, Layout
      <4>6. (i * w) * Cols < Rows * Cols
        BY <1>4, <1>5, <4>5, Layout
      <4> QED
        BY <1>6, <4>6, Layout
    <3> QED
      BY <3>1, <3>2, Layout, Multiple
  <2> QED
    BY <2>1, <2>2
<1> QED
  BY <1>3, <1>7, <1>8 DEF MacFails

(* The rows that the tiles of a matrix write are those of the matrix, each *)
(* into its place.                                                         *)
LEMMA WritesInPlace ==
  ASSUME NEW name, NEW i \in MatrixPages(name), ~MacFails(name, i)
  PROVE  \A w \in MacWrites(name, i) : w.row = w.at
<1>1. i \in Nat /\ PageSize(name) \in Nat /\ PageSize(name) > 0
  BY Layout DEF MatrixPages, PageSize
<1>2. Offset(name, i) \in Nat
  BY <1>1 DEF Offset
<1> DEFINE m == Offset(name, i) \div Cols
<1>3. m \in Nat /\ Offset(name, i) = m * Cols
  <2>1. /\ m \in Nat /\ Offset(name, i) % Cols = 0
        /\ Offset(name, i) = m * Cols + (Offset(name, i) % Cols)
    BY <1>2, Layout, Division DEF MacFails
  <2> HIDE DEF m
  <2> QED
    BY <2>1, Layout
<1>4. \A j \in Nat : (Offset(name, i) + j * Cols) \div Cols = m + j
  <2>1. SUFFICES ASSUME NEW j \in Nat PROVE (Offset(name, i) + j * Cols) \div Cols = m + j
    OBVIOUS
  <2> HIDE DEF m
  <2>2. Offset(name, i) + j * Cols = (m + j) * Cols /\ m + j \in Nat
    BY <1>3, Layout
  <2> QED
    BY <2>2, Layout, Multiple
<1> HIDE DEF m
<1>5. \A j \in 0 .. (ValuesIn(name, i) \div Cols - 1) : j \in Nat
  OBVIOUS
<1> QED
  BY <1>4, <1>5 DEF MacWrites, m

LEMMA EveryRowIsWritten ==
  ASSUME NEW name, \A i \in MatrixPages(name) : ~MacFails(name, i),
         NEW r \in 0 .. (Rows - 1)
  PROVE  \E i \in MatrixPages(name) : \E w \in MacWrites(name, i) : w.at = r
<1> DEFINE size == PageSize(name)
           i == (r * Cols) \div size
           pages == (Rows * Cols + size - 1) \div size
<1>1. size \in Nat /\ size > 0 /\ r \in Nat /\ r + 1 <= Rows
  BY Layout DEF PageSize
<1>2. r * Cols \in Nat /\ Rows * Cols \in Nat /\ r * Cols + Cols <= Rows * Cols
  BY <1>1, Layout
<1>3. /\ i \in Nat /\ i * size <= r * Cols /\ r * Cols < i * size + size
      /\ i * size \in Nat
  <2>1. /\ i \in Nat /\ (r * Cols) % size \in 0 .. size - 1
        /\ r * Cols = i * size + ((r * Cols) % size)
    BY <1>1, <1>2, Division
  <2> HIDE DEF i, size
  <2> QED
    BY <1>1, <1>2, <2>1
<1>4. /\ pages \in Nat /\ Rows * Cols <= pages * size /\ pages * size \in Nat
  <2>1. Rows * Cols + size - 1 \in Nat
    BY <1>1, <1>2
  <2>2. /\ pages \in Nat /\ (Rows * Cols + size - 1) % size \in 0 .. size - 1
        /\ Rows * Cols + size - 1 = pages * size + ((Rows * Cols + size - 1) % size)
    BY <1>1, <2>1, Division
  <2> HIDE DEF pages, size
  <2> QED
    BY <1>1, <1>2, <2>1, <2>2
<1>5. i \in MatrixPages(name)
  <2> HIDE DEF i, pages, size
  <2>1. i * size < pages * size
    BY <1>1, <1>2, <1>3, <1>4, Layout
  <2>2. i < pages
    BY <1>1, <1>3, <1>4, <2>1
  <2> QED
    BY <1>3, <1>4, <2>2 DEF MatrixPages, pages, size
<1>6. ~MacFails(name, i) /\ Offset(name, i) = i * size
  BY <1>5 DEF Offset
<1> HIDE DEF i
<1> DEFINE m == Offset(name, i) \div Cols
           values == ValuesIn(name, i)
           v == values \div Cols
<1>7. m \in Nat /\ i * size = m * Cols
  <2>1. /\ m \in Nat /\ Offset(name, i) % Cols = 0
        /\ Offset(name, i) = m * Cols + (Offset(name, i) % Cols)
    BY <1>3, <1>6, Layout, Division DEF MacFails
  <2> HIDE DEF m, size
  <2> QED
    BY <1>3, <1>6, <2>1, Layout
<1>8. /\ values \in Nat /\ values % Cols = 0
      /\ r * Cols + Cols <= i * size + values \/ values = size
  <2>1. values = size \/ values = Rows * Cols - i * size
    BY <1>6 DEF ValuesIn
  <2>0. values % Cols = 0
    BY <1>6 DEF MacFails
  <2> HIDE DEF size, values
  <2>2. CASE values = size
    BY <1>1, <2>0, <2>2
  <2>3. CASE values = Rows * Cols - i * size
    <3>1. i * size + values = Rows * Cols /\ values \in Int
      BY <1>2, <1>3, <2>3
    <3>2. values >= 0
      BY <1>2, <1>3, <2>3, Layout
    <3> QED
      BY <1>2, <1>3, <2>0, <3>1, <3>2
  <2> QED
    BY <2>1, <2>2, <2>3
<1>9. v \in Nat /\ values = v * Cols
  <2>1. v \in Nat /\ values = v * Cols + (values % Cols)
    BY <1>8, Layout, Division
  <2> HIDE DEF v, values
  <2> QED
    BY <1>8, <2>1, Layout
<1> DEFINE j == r - m
<1>10. j \in Nat /\ j < v
  <2> HIDE DEF m, v, values, size
  <2>1. m * Cols <= r * Cols
    BY <1>3, <1>7
  <2>2. m <= r
    BY <1>1, <1>7, <2>1, Layout
  <2>3. r * Cols < m * Cols + v * Cols
    <3>1. CASE r * Cols + Cols <= i * size + values
      BY <1>2, <1>7, <1>9, <3>1, Layout
    <3>2. CASE values = size
      BY <1>2, <1>3, <1>7, <1>9, <3>2, Layout
    <3> QED
      BY <1>8, <3>1, <3>2
  <2>4. r < m + v
    BY <1>1, <1>7, <1>9, <2>3, Layout
  <2> QED
    BY <1>1, <1>7, <1>9, <2>2, <2>4
<1> DEFINE w == [at |-> m + j, row |-> (Offset(name, i) + j * Cols) \div Cols]
<1>11. w \in MacWrites(name, i)
  <2>1. j \in 0 .. (v - 1)
    BY <1>9, <1>10
  <2> HIDE DEF j
  <2> QED
    BY <2>1 DEF MacWrites
<1>12. w.at = r
  BY <1>1, <1>7
<1> QED
  BY <1>5, <1>11, <1>12

LEMMA TileIsWhole ==
  ASSUME NEW name, ~TileFails(name)
  PROVE  \A l, x : x # Failed => TileProduct(l, name, x) = Product(l, name, Order, x)
<1> DEFINE writes == UNION {MacWrites(name, i) : i \in MatrixPages(name)}
           rowsAt(r) == {w.row : w \in {v \in writes : v.at = r - 1}}
<1>1. \A i \in MatrixPages(name) : ~MacFails(name, i)
  BY DEF TileFails
<1>2. ASSUME NEW r \in 1 .. Rows PROVE rowsAt(r) = {r - 1}
  <2>1. \A w \in writes : w.row = w.at
    BY <1>1, WritesInPlace
  <2>2. r - 1 \in 0 .. (Rows - 1)
    BY Layout
  <2>3. \E w \in writes : w.at = r - 1
    BY <1>1, <2>2, EveryRowIsWritten
  <2> HIDE DEF writes
  <2> QED
    BY <2>1, <2>3
<1>3. [r \in 1 .. Rows |-> rowsAt(r)] = Order
  BY <1>2 DEF Order
<1> QED
  BY <1>1, <1>3 DEF TileProduct

-----------------------------------------------------------------------------
(* Caches.  Whoever computes it, the key of a layer at a position is the   *)
(* one of the promise, and a cache of consecutive positions is given by    *)
(* the first of them and the one after the last.                           *)

KeyAt(l, p) == [position |-> p, k |-> Promise!Key(l, p), v |-> Promise!Value(l, p)]
Cache(l, first, next) == [i \in 1 .. (next - first) |-> KeyAt(l, first + i - 1)]

Keys(l) == {KeyAt(l, p) : p \in Nat}

LEMMA CacheFacts ==
  ASSUME NEW l, NEW a \in Nat, NEW b \in Nat, a <= b
  PROVE  /\ Cache(l, a, b) \in Seq(Keys(l)) /\ b - a \in Nat
         /\ Len(Cache(l, a, b)) = b - a
         /\ DOMAIN Cache(l, a, b) = 1 .. (b - a)
<1>1. b - a \in Nat /\ \A i \in 1 .. (b - a) : a + i - 1 \in Nat
  OBVIOUS
<1>2. Cache(l, a, b) \in Seq(Keys(l))
  BY <1>1 DEF Cache, Keys
<1> QED
  BY <1>1, <1>2 DEF Cache

LEMMA EmptyCache ==
  ASSUME NEW l, NEW a \in Nat
  PROVE  Cache(l, a, a) = <<>>
BY DEF Cache

LEMMA CacheFrom ==
  ASSUME NEW l, NEW a \in Nat, NEW n \in Nat
  PROVE  Cache(l, a, a + n) = [i \in 1 .. n |-> KeyAt(l, a + i - 1)]
<1>1. \A m : m = n => [i \in 1 .. m |-> KeyAt(l, a + i - 1)] = [i \in 1 .. n |-> KeyAt(l, a + i - 1)]
  OBVIOUS
<1>2. (a + n) - a = n
  OBVIOUS
<1>3. Cache(l, a, a + n) = [i \in 1 .. ((a + n) - a) |-> KeyAt(l, a + i - 1)]
  BY DEF Cache
<1> QED
  BY <1>1, <1>2, <1>3

LEMMA CacheKey ==
  ASSUME NEW l, NEW a, NEW b, NEW i \in 1 .. (b - a)
  PROVE  Cache(l, a, b)[i] = KeyAt(l, a + i - 1)
BY DEF Cache

LEMMA IsCache ==
  ASSUME NEW l, NEW a \in Nat, NEW b \in Nat, a <= b
  PROVE  \A s \in Seq(Keys(l)) :
           (/\ Len(s) = b - a
            /\ \A i \in 1 .. (b - a) : s[i] = KeyAt(l, a + i - 1)) => s = Cache(l, a, b)
<1>1. SUFFICES ASSUME NEW s \in Seq(Keys(l)), Len(s) = b - a,
                      \A i \in 1 .. (b - a) : s[i] = KeyAt(l, a + i - 1)
               PROVE  s = Cache(l, a, b)
  OBVIOUS
<1>2. s = [i \in 1 .. (b - a) |-> s[i]]
  BY <1>1
<1> QED
  BY <1>1, <1>2 DEF Cache

LEMMA CacheConcat ==
  ASSUME NEW l, NEW a \in Nat, NEW b \in Nat, NEW c \in Nat, a <= b, b <= c
  PROVE  Cache(l, a, b) \o Cache(l, b, c) = Cache(l, a, c)
<1> DEFINE s == Cache(l, a, b)
           t == Cache(l, b, c)
<1>1. s \in Seq(Keys(l)) /\ Len(s) = b - a
  BY CacheFacts
<1>2. t \in Seq(Keys(l)) /\ Len(t) = c - b
  BY CacheFacts
<1>3. /\ \A i \in 1 .. (b - a) : s[i] = KeyAt(l, a + i - 1)
      /\ \A i \in 1 .. (c - b) : t[i] = KeyAt(l, b + i - 1)
  BY CacheKey
<1> HIDE DEF s, t
<1>4. /\ s \o t \in Seq(Keys(l)) /\ Len(s \o t) = Len(s) + Len(t)
      /\ \A i \in 1 .. Len(s) + Len(t) :
           (s \o t)[i] = IF i <= Len(s) THEN s[i] ELSE t[i - Len(s)]
  BY <1>1, <1>2, ConcatProperties
<1>5. Len(s) + Len(t) = c - a
  BY <1>1, <1>2
<1>6. ASSUME NEW i \in 1 .. (c - a) PROVE (s \o t)[i] = KeyAt(l, a + i - 1)
  <2>0. (s \o t)[i] = IF i <= b - a THEN s[i] ELSE t[i - (b - a)]
    BY <1>1, <1>4, <1>5
  <2>1. CASE i <= b - a
    <3>1. i \in 1 .. (b - a)
      BY <2>1
    <3> QED
      BY <1>3, <2>0, <2>1, <3>1
  <2>2. CASE ~(i <= b - a)
    <3>1. i - (b - a) \in 1 .. (c - b) /\ b + (i - (b - a)) - 1 = a + i - 1
      BY <2>2
    <3>2. t[i - (b - a)] = KeyAt(l, b + (i - (b - a)) - 1)
      BY <1>3, <3>1
    <3> QED
      BY <2>0, <2>2, <3>1, <3>2
  <2> QED
    BY <2>1, <2>2
<1>7. a <= c
  OBVIOUS
<1> QED
  BY <1>4, <1>5, <1>6, <1>7, IsCache DEF s, t

LEMMA CacheAppend ==
  ASSUME NEW l, NEW a \in Nat, NEW b \in Nat, a <= b
  PROVE  Append(Cache(l, a, b), KeyAt(l, b)) = Cache(l, a, b + 1)
<1>1. Cache(l, b, b + 1) = <<KeyAt(l, b)>>
  BY DEF Cache
<1>2. Cache(l, a, b) \o Cache(l, b, b + 1) = Cache(l, a, b + 1)
  <2>1. b + 1 \in Nat /\ b <= b + 1
    OBVIOUS
  <2> QED
    BY <2>1, CacheConcat
<1>3. Cache(l, a, b) \in Seq(Keys(l)) /\ KeyAt(l, b) \in Keys(l)
  BY CacheFacts DEF Keys
<1>4. \A S : \A s \in Seq(S), x \in S : Append(s, x) = s \o <<x>>
  OBVIOUS
<1> QED
  BY <1>1, <1>2, <1>3, <1>4

(* Values of a sequence after place m, up to place n. *)
Part(s, m, n) == SubSeq(s, m + 1, n)

LEMMA CacheSub ==
  ASSUME NEW l, NEW a \in Nat, NEW b \in Nat, NEW m \in Nat, NEW n \in Nat,
         m <= n, a + n <= b
  PROVE  Part(Cache(l, a, b), m, n) = Cache(l, a + m, a + n)
<1> DEFINE s == Cache(l, a, b)
           t == SubSeq(s, m + 1, n)
<1>1. \A i \in 1 .. (b - a) : s[i] = KeyAt(l, a + i - 1) /\ s[i] \in Keys(l)
  BY CacheKey DEF Keys
<1> HIDE DEF s
<1>2. \A i \in m + 1 .. n : s[i] \in Keys(l)
  BY <1>1
<1>3. /\ t \in Seq(Keys(l))
      /\ Len(t) = IF m + 1 <= n THEN n - (m + 1) + 1 ELSE 0
      /\ \A i \in 1 .. n - (m + 1) + 1 : t[i] = s[m + 1 + i - 1]
  BY <1>2, SubSeqProperties
<1> HIDE DEF t
<1>4. Len(t) = (a + n) - (a + m)
  BY <1>3
<1>5. ASSUME NEW i \in 1 .. ((a + n) - (a + m)) PROVE t[i] = KeyAt(l, (a + m) + i - 1)
  <2>1. /\ i \in 1 .. n - (m + 1) + 1 /\ m + 1 + i - 1 \in 1 .. (b - a)
        /\ a + (m + 1 + i - 1) - 1 = (a + m) + i - 1
    OBVIOUS
  <2> QED
    BY <1>1, <1>3, <2>1
<1>6. a + m \in Nat /\ a + n \in Nat /\ a + m <= a + n
  OBVIOUS
<1> QED
  BY <1>3, <1>4, <1>5, <1>6, IsCache DEF s, t, Part

(* The keys of an interval of positions are an interval of the cache.      *)
LEMMA KeysOfInterval ==
  ASSUME NEW l, NEW a \in Nat, NEW b \in Nat, NEW lo \in Nat, NEW hi \in Nat,
         a <= lo, lo <= hi, hi <= b, NEW P
  PROVE  (\A p \in a .. (b - 1) : p \in P <=> (lo <= p /\ p < hi))
            => KeysAt(Cache(l, a, b), P) = Cache(l, lo, hi)
<1> DEFINE s == Cache(l, a, b)
           n == b - a
           step(g) == [m \in 0 .. Len(s) |->
                         IF m = 0 THEN <<>>
                         ELSE IF s[m].position \in P THEN Append(g[m - 1], s[m])
                         ELSE g[m - 1]]
           found == CHOOSE g : g = step(g)
           Reached(m) == IF a + m < lo THEN lo ELSE IF a + m > hi THEN hi ELSE a + m
           explicit == [m \in 0 .. n |-> Cache(l, lo, Reached(m))]
<1>1. n \in Nat /\ Len(s) = n
  <2>1. a <= b
    OBVIOUS
  <2>2. Len(Cache(l, a, b)) = b - a /\ b - a \in Nat
    BY <2>1, CacheFacts
  <2> QED
    BY <2>2
<1>2. \A m \in 1 .. n : s[m] = KeyAt(l, a + m - 1) /\ s[m].position = a + m - 1
  <2>1. \A p : KeyAt(l, p).position = p
    BY Zenon DEF KeyAt
  <2> QED
    BY <2>1, CacheKey
<1>0. SUFFICES ASSUME \A p \in a .. (b - 1) : p \in P <=> (lo <= p /\ p < hi)
               PROVE  KeysAt(s, P) = Cache(l, lo, hi)
  OBVIOUS
<1> HIDE DEF s
<1>3. explicit[0] = <<>> /\ explicit[n] = Cache(l, lo, hi)
  <2>1. Reached(0) = lo /\ Reached(n) = hi
    OBVIOUS
  <2> QED
    BY <1>1, <2>1, EmptyCache
<1>4. ASSUME NEW m \in 1 .. n
      PROVE  explicit[m] = IF s[m].position \in P THEN Append(explicit[m - 1], s[m]) ELSE explicit[m - 1]
  <2>1. m - 1 \in 0 .. n /\ m \in 0 .. n /\ a + m - 1 \in a .. (b - 1) /\ a + m - 1 \in Nat
    BY <1>1
  <2>2. CASE lo <= a + m - 1 /\ a + m - 1 < hi
    <3>1. Reached(m - 1) = a + m - 1 /\ Reached(m) = (a + m - 1) + 1
      BY <2>1, <2>2
    <3>2. s[m].position \in P
      BY <1>0, <1>2, <2>1, <2>2
    <3>3. Append(Cache(l, lo, a + m - 1), KeyAt(l, a + m - 1)) = Cache(l, lo, (a + m - 1) + 1)
      BY <2>1, <2>2, CacheAppend
    <3> QED
      BY <1>2, <2>1, <3>1, <3>2, <3>3
  <2>3. CASE ~(lo <= a + m - 1 /\ a + m - 1 < hi)
    <3>1. Reached(m - 1) = Reached(m)
      BY <2>1, <2>3
    <3>2. s[m].position \notin P
      BY <1>0, <1>2, <2>1, <2>3
    <3> QED
      BY <2>1, <3>1, <3>2
  <2> QED
    BY <2>2, <2>3
<1>5. explicit = step(explicit)
  <2>1. explicit = [m \in 0 .. n |-> explicit[m]]
    OBVIOUS
  <2> HIDE DEF explicit
  <2>2. \A m \in 0 .. n :
          explicit[m] = IF m = 0 THEN <<>>
                        ELSE IF s[m].position \in P THEN Append(explicit[m - 1], s[m])
                        ELSE explicit[m - 1]
    BY <1>1, <1>3, <1>4
  <2> QED
    BY <1>1, <2>1, <2>2
<1> HIDE DEF explicit
<1>6. found = step(found)
  BY <1>5
<1>7. KeysAt(s, P) = found[n]
  BY <1>1 DEF KeysAt
<1> HIDE DEF found
<1>8. \A m \in 0 .. n : found[m] = explicit[m]
  <2> DEFINE S == {m \in 0 .. n : found[m] = explicit[m]}
  <2>1. 0 \in S
    BY <1>1, <1>3, <1>6
  <2>2. ASSUME NEW m \in 1 .. n, m - 1 \in S PROVE m \in S
    <3>0. m \in 0 .. Len(s) /\ m # 0
      BY <1>1
    <3>1. found[m] = IF s[m].position \in P THEN Append(found[m - 1], s[m]) ELSE found[m - 1]
      <4>1. found[m] = step(found)[m]
        BY <1>6, Zenon
      <4> HIDE DEF n
      <4> QED
        BY <3>0, <4>1
    <3>2. found[m - 1] = explicit[m - 1]
      BY <2>2
    <3> QED
      BY <1>4, <3>1, <3>2
  <2> HIDE DEF S
  <2>3. \A m \in 0 .. n : m \in S
    BY <1>1, <2>1, <2>2, Climb
  <2> QED
    BY <2>3 DEF S
<1> QED
  BY <1>1, <1>3, <1>7, <1>8 DEF s

-----------------------------------------------------------------------------
(* The promise's terms are the layers' own.                                *)

LEMMA SameTerms ==
  /\ \A l, p : Promise!Row(l, p) = Row(l, p)
  /\ \A l, p : Promise!Embedding(l, p) = Embedding(l, p)
  /\ \A l, name, order, x : Promise!Product(l, name, order, x) = Product(l, name, order, x)
  /\ \A l, name, x : Promise!Norm(l, name, x) = Norm(l, name, x)
  /\ \A x : Promise!ValueNorm(x) = ValueNorm(x)
  /\ \A x, p : Promise!Rope(x, p) = Rope(x, p)
  /\ \A x, y : Promise!Plus(x, y) = Plus(x, y) /\ Promise!Times(x, y) = Times(x, y)
  /\ \A x : Promise!Gelu(x) = Gelu(x)
  /\ \A name, x : Promise!Scale(name, x) = Scale(name, x)
  /\ \A q, keys, values : Promise!Context(q, keys, values) = Context(q, keys, values)
  /\ Promise!Order = Order
BY DEF Promise!Row, Row, Promise!Embedding, Embedding, Promise!Product, Product, Promise!Norm, Norm,
       Promise!ValueNorm, ValueNorm, Promise!Rope, Rope, Promise!Plus, Plus, Promise!Times, Times,
       Promise!Gelu, Gelu, Promise!Scale, Scale, Promise!Context, Context, Promise!Order, Order

Of(l, name, x) == Product(l, name, Order, x)

LEMMA PromisedKey ==
  /\ \A l, p : Promise!Query(l, p) = Rope(Norm(l, "q", Of(l, "w_q", Norm(l, "input", Row(l, p)))), p)
  /\ \A l, p : Promise!Key(l, p) = Rope(Norm(l, "k", Of(l, "w_k", Norm(l, "input", Row(l, p)))), p)
  /\ \A l, p : Promise!Value(l, p) = ValueNorm(Of(l, "w_v", Norm(l, "input", Row(l, p))))
BY SameTerms DEF Promise!Query, Promise!Key, Promise!Value, Promise!Normed, Promise!Of, Of

(* No value that a layer computes is a failure. *)
LEMMA NotFailed ==
  /\ \A l, p : Row(l, p) # Failed
  /\ \A l, name, x : Norm(l, name, x) # Failed
  /\ \A x, y : Times(x, y) # Failed /\ Plus(x, y) # Failed
  /\ \A name, x : Scale(name, x) # Failed
  /\ \A q, keys, values : Context(q, keys, values) # Failed
BY DEF Row, Norm, Times, Plus, Scale, Context, Failed

LEMMA KernelKeyIs ==
  ASSUME threads \in Nat, threads > 0, NEW f, NEW p
  PROVE  KernelKey(f, p, Row(f.layer, p)) = KeyAt(f.layer, p)
BY NativeIsWhole, PromisedKey DEF KernelKey, KeyAt, Of

LEMMA ViewKeyIs ==
  ASSUME threads \in Nat, threads > 0, NEW f, NEW p
  PROVE  /\ ViewProjected(f, p, Row(f.layer, p)).q = Promise!Query(f.layer, p)
         /\ ViewProjected(f, p, Row(f.layer, p)).k = Promise!Key(f.layer, p)
         /\ ViewProjected(f, p, Row(f.layer, p)).v = Promise!Value(f.layer, p)
BY NativeIsWhole, PromisedKey DEF ViewProjected, Of

LEMMA TileKeyIs ==
  ASSUME ~ProjectionFails, NEW l, NEW p
  PROVE  TileKey(l, p, Row(l, p)) = KeyAt(l, p)
<1>1. ~TileFails("w_k") /\ ~TileFails("w_v")
  BY DEF ProjectionFails
<1> QED
  BY <1>1, TileIsWhole, NotFailed, PromisedKey DEF TileKey, KeyAt, Of

LEMMA TileQueryIs ==
  ASSUME ~ProjectionFails, NEW l, NEW p, NEW i
  PROVE  TileQuery(l, p, i, Row(l, p)) =
           [position |-> p, local |-> i, residual |-> Row(l, p), q |-> Promise!Query(l, p)]
<1>1. ~TileFails("w_q")
  BY DEF ProjectionFails
<1> QED
  BY <1>1, TileIsWhole, NotFailed, PromisedKey DEF TileQuery, Of

(* The windows of the three executors are one. *)
LEMMA Windows ==
  ASSUME NEW p \in Nat, NEW w \in Nat
  PROVE  /\ KernelWindowStart(p, w) \in 0 .. p
         /\ ViewWindowStart(p, w) = KernelWindowStart(p, w)
         /\ TileWindowStart(p, w) = KernelWindowStart(p, w)
         /\ TileWindowLen(p, w) = p - KernelWindowStart(p, w) + 1
BY DEF KernelWindowStart, ViewWindowStart, TileWindowStart, TileWindowLen

LEMMA WindowSees ==
  ASSUME NEW p \in Nat, NEW w \in Nat, NEW k \in Nat
  PROVE  /\ KernelVisible(p, k, w) <=> KernelWindowStart(p, w) <= k /\ k <= p
         /\ ViewVisible(p, k, w) <=> KernelVisible(p, k, w)
         /\ TileVisible(p, k, w) <=> KernelVisible(p, k, w)
BY DEF KernelWindowStart, KernelVisible, ViewVisible, TileVisible

LEMMA WindowMoves ==
  ASSUME NEW p \in Nat, NEW q \in Nat, p <= q, NEW w \in Nat
  PROVE  KernelWindowStart(p, w) <= KernelWindowStart(q, w)
BY DEF KernelWindowStart

-----------------------------------------------------------------------------
(* The inductive invariant.                                                *)

WindowSize(l) == facts[l].window
FirstSeen(l) == KernelWindowStart(start, WindowSize(l))

GivenInv ==
  /\ shape \in Shapes /\ threads \in Threads
  /\ runtime \in {"staged", "direct"}
  /\ facts = [l \in Layers(shape) |-> Facts(shape, l)]

TilePhases == {"project", "carry", "score", "weigh", "close"}
PassInv ==
  /\ phase \in {"layer", "failed", "done"} \cup TilePhases
  /\ pass \in Nat /\ start \in Nat /\ count \in Nat /\ layer \in 0 .. shape.layers
  /\ pass = 0 => start = 0
  /\ count = 0 => pass = 0
  /\ phase \in TilePhases => layer < shape.layers /\ runtime = "staged"

CachesInv == caches = [l \in 0 .. (layer - 1) |-> Cache(l, FirstSeen(l), start + count)]

(* The cache of the pass before may hold more than this pass can see.      *)
PriorIs(l, first) == first \in 0 .. FirstSeen(l) /\ PriorOf(l) = Cache(l, first, start)
PriorInv == \A l \in Layers(shape) : \E first \in 0 .. FirstSeen(l) : PriorIs(l, first)

QueryAt(i) ==
  [position |-> start + i - 1, local |-> i - 1, residual |-> Row(layer, start + i - 1),
   q |-> Promise!Query(layer, start + i - 1)]
Queries(n) == [i \in 1 .. n |-> QueryAt(i)]
Projected(n) ==
  /\ ProjectionFails => tile.keys = <<>> /\ tile.queries = <<>> /\ tile.errors = n
  /\ ~ProjectionFails => tile.keys = Cache(layer, start, start + n) /\ tile.queries = Queries(n)

(* The end of what has been kept of a prior cache that has been swept up   *)
(* to a place.                                                             *)
Carried(first, at) ==
  IF first + at < FirstSeen(layer) THEN FirstSeen(layer)
  ELSE IF first + at < start THEN first + at ELSE start

TileFields ==
  {"keys", "queries", "errors", "kv", "rows", "at", "list", "scores", "filled", "values", "broken",
   "missing"}
TileInv ==
  /\ DOMAIN tile = TileFields
  /\ tile.at \in Nat /\ tile.errors \in Nat /\ tile.list \in 1 .. 5
  /\ phase = "project" =>
       tile.at \in 0 .. count /\ Projected(tile.at) /\ tile.kv = <<>> /\ tile.rows = <<>>
  /\ phase \in {"carry", "score", "weigh", "close"} =>
       /\ ProjectionFails => tile.keys = <<>> /\ tile.queries = <<>> /\ tile.rows = <<>>
       /\ ProjectionFails => tile.errors >= count
       /\ ~ProjectionFails => tile.keys = Cache(layer, start, start + count) /\ tile.queries = Queries(count)
  /\ phase = "carry" =>
       /\ tile.rows = <<>>
       /\ \E first \in 0 .. FirstSeen(layer) :
            PriorIs(layer, first) /\ tile.kv = Cache(layer, FirstSeen(layer), Carried(first, tile.at))
  /\ phase \in {"score", "weigh", "close"} =>
       /\ \E S : tile.rows \in Seq(S)
       /\ Len(tile.rows) \in 0 .. count
       /\ tile.kv = Cache(layer, FirstSeen(layer), start + Len(tile.rows))
  /\ phase \in {"score", "weigh"} => Len(tile.rows) < Len(tile.queries)
  /\ phase = "close" => Len(tile.rows) = Len(tile.queries)

LayerInv == GivenInv /\ PassInv /\ CachesInv /\ PriorInv /\ TileInv

LEMMA GivenFacts ==
  ASSUME GivenInv
  PROVE  /\ threads \in Nat /\ threads > 0 /\ shape.layers \in Nat /\ shape.layers > 0
         /\ Layers(shape) = 0 .. (shape.layers - 1)
         /\ \A l \in Layers(shape) :
              facts[l] = Facts(shape, l) /\ facts[l].layer = l /\ WindowSize(l) \in Nat
BY PassAssumption DEF GivenInv, Layers, WindowSize, Facts, Importable, IsShape

LEMMA FirstSeenIs ==
  ASSUME GivenInv, start \in Nat, NEW l \in Layers(shape)
  PROVE  FirstSeen(l) \in 0 .. start /\ FirstSeen(l) \in Nat
<1>1. WindowSize(l) \in Nat
  BY GivenFacts
<1>2. KernelWindowStart(start, WindowSize(l)) \in 0 .. start
  BY <1>1, Windows
<1> QED
  BY <1>2 DEF FirstSeen

(* What a cache keeps of the one before. *)
LEMMA KeptIs ==
  ASSUME GivenInv, start \in Nat, NEW l \in Layers(shape), NEW first \in 0 .. FirstSeen(l)
  PROVE  KeysAt(Cache(l, first, start), {k \in Nat : k >= FirstSeen(l)}) = Cache(l, FirstSeen(l), start)
<1>1. FirstSeen(l) \in Nat /\ FirstSeen(l) <= start /\ first \in Nat /\ first <= FirstSeen(l)
  BY FirstSeenIs
<1>2. \A p \in first .. (start - 1) :
        p \in {k \in Nat : k >= FirstSeen(l)} <=> (FirstSeen(l) <= p /\ p < start)
  BY <1>1
<1> HIDE DEF FirstSeen
<1> QED
  BY <1>1, <1>2, KeysOfInterval

LEMMA InputRowsAre ==
  /\ DOMAIN InputRows = 1 .. count
  /\ \A i \in 1 .. count : InputRows[i] = Row(layer, start + (i - 1))
BY DEF InputRows

LEMMA NativeOwn ==
  ASSUME GivenInv, PassInv, layer < shape.layers
  PROVE  /\ [i \in DOMAIN InputRows |-> KernelKey(F, start + i - 1, InputRows[i])]
              = Cache(layer, start, start + count)
         /\ ViewKeys(F, start, InputRows) = Cache(layer, start, start + count)
<1>1. layer \in Layers(shape) /\ F.layer = layer /\ threads \in Nat /\ threads > 0
  BY GivenFacts DEF PassInv, F
<1>2. start \in Nat /\ count \in Nat
  BY DEF PassInv
<1>3. DOMAIN InputRows = 1 .. count /\ \A i \in 1 .. count : InputRows[i] = Row(layer, start + (i - 1))
  BY InputRowsAre
<1>4. Cache(layer, start, start + count) = [i \in 1 .. count |-> KeyAt(layer, start + i - 1)]
  BY <1>2, CacheFrom
<1>5. [i \in DOMAIN InputRows |-> KernelKey(F, start + i - 1, InputRows[i])]
         = Cache(layer, start, start + count)
  <2>1. \A p : KernelKey(F, p, Row(layer, p)) = KeyAt(layer, p)
    BY <1>1, KernelKeyIs
  <2>2. \A i \in 1 .. count : KernelKey(F, start + i - 1, InputRows[i]) = KeyAt(layer, start + i - 1)
    BY <1>3, <2>1
  <2>3. [i \in DOMAIN InputRows |-> KernelKey(F, start + i - 1, InputRows[i])]
          = [i \in 1 .. count |-> KeyAt(layer, start + i - 1)]
    BY <1>3, <2>2, Zenon
  <2> QED
    BY <1>4, <2>3
<1>6. ViewKeys(F, start, InputRows) = Cache(layer, start, start + count)
  <2> DEFINE t(p) == ViewProjected(F, p, Row(layer, p))
             v(i) == ViewProjected(F, start + i - 1, InputRows[i])
             key(i) == [position |-> start + i - 1, k |-> v(i).k, v |-> v(i).v]
  <2>1. \A p : t(p).k = Promise!Key(layer, p) /\ t(p).v = Promise!Value(layer, p)
    BY <1>1, ViewKeyIs
  <2>2. \A i \in 1 .. count : v(i) = t(start + i - 1)
    BY <1>3
  <2>3. \A i \in 1 .. count : key(i) = KeyAt(layer, start + i - 1)
    BY <2>1, <2>2 DEF KeyAt
  <2>4. ViewKeys(F, start, InputRows) = [i \in DOMAIN InputRows |-> key(i)]
    BY DEF ViewKeys
  <2> HIDE DEF key
  <2>5. [i \in DOMAIN InputRows |-> key(i)] = [i \in 1 .. count |-> KeyAt(layer, start + i - 1)]
    BY <1>3, <2>3, Zenon
  <2> QED
    BY <1>4, <2>4, <2>5
<1> QED
  BY <1>5, <1>6

LEMMA NativeKv ==
  ASSUME GivenInv, PassInv, PriorInv, layer < shape.layers,
         NEW donorA, NEW donorB, NEW ples
  PROVE  /\ KernelLayer(F, start, InputRows, PriorOf(layer), donorA, donorB, ples).kv =
              Cache(layer, FirstSeen(layer), start + count)
         /\ ViewLayer(F, start, InputRows, PriorOf(layer), donorA, donorB, ples).kv =
              Cache(layer, FirstSeen(layer), start + count)
<1>1. layer \in Layers(shape) /\ F.layer = layer /\ threads \in Nat /\ threads > 0 /\ F.window \in Nat
      /\ F.window = WindowSize(layer)
  BY GivenFacts DEF PassInv, F, WindowSize
<1>2. PICK first \in 0 .. FirstSeen(layer) : PriorOf(layer) = Cache(layer, first, start)
  BY <1>1 DEF PriorInv, PriorIs
<1>3. start \in Nat /\ count \in Nat
  BY DEF PassInv
<1>4. FirstSeen(layer) \in 0 .. start /\ FirstSeen(layer) \in Nat
  BY <1>1, <1>3, FirstSeenIs
<1>5. /\ KernelWindowStart(start, F.window) = FirstSeen(layer)
      /\ ViewWindowStart(start, F.window) = FirstSeen(layer)
  BY <1>1, <1>3, Windows DEF FirstSeen
<1>6. KeysAt(PriorOf(layer), {k \in Nat : k >= FirstSeen(layer)}) = Cache(layer, FirstSeen(layer), start)
  BY <1>1, <1>2, <1>3, KeptIs
<1>7. Cache(layer, FirstSeen(layer), start) \o Cache(layer, start, start + count)
        = Cache(layer, FirstSeen(layer), start + count)
  <2>1. start + count \in Nat /\ FirstSeen(layer) <= start /\ start <= start + count
    BY <1>3, <1>4
  <2> HIDE DEF FirstSeen
  <2> QED
    BY <1>3, <1>4, <2>1, CacheConcat
<1>8. DOMAIN InputRows = 1 .. count
  BY InputRowsAre
<1>9. /\ [i \in DOMAIN InputRows |-> KernelKey(F, start + i - 1, InputRows[i])]
           = Cache(layer, start, start + count)
      /\ ViewKeys(F, start, InputRows) = Cache(layer, start, start + count)
  BY NativeOwn
<1>10. InputRows = <<>> => Cache(layer, FirstSeen(layer), start + count) = <<>>
  <2>1. InputRows = <<>> => count = 0
    BY <1>3, <1>8
  <2>2. count = 0 => start + count = FirstSeen(layer)
    BY <1>3, <1>4 DEF PassInv
  <2> QED
    BY <2>1, <2>2, <1>4, EmptyCache
<1>11. KernelLayer(F, start, InputRows, PriorOf(layer), donorA, donorB, ples).kv =
         IF InputRows = <<>> THEN <<>>
         ELSE KeysAt(PriorOf(layer), {k \in Nat : k >= KernelWindowStart(start, F.window)})
                \o [i \in DOMAIN InputRows |-> KernelKey(F, start + i - 1, InputRows[i])]
  BY DEF KernelLayer, KernelKv
<1>12. ViewLayer(F, start, InputRows, PriorOf(layer), donorA, donorB, ples).kv =
         IF InputRows = <<>> THEN <<>>
         ELSE KeysAt(PriorOf(layer), {k \in Nat : k >= ViewWindowStart(start, F.window)})
                \o ViewKeys(F, start, InputRows)
  BY DEF ViewLayer, ViewKv
<1> QED
  BY <1>5, <1>6, <1>7, <1>9, <1>10, <1>11, <1>12

-----------------------------------------------------------------------------
(* The invariant holds at the start and every step keeps it.               *)

LEMMA NoTileFields ==
  /\ DOMAIN NoTile = TileFields /\ NoTile.at = 0 /\ NoTile.errors = 0 /\ NoTile.list = 1
  /\ NoTile.keys = <<>> /\ NoTile.queries = <<>> /\ NoTile.kv = <<>> /\ NoTile.rows = <<>>
BY DEF NoTile, TileFields

LEMMA GivenStays ==
  ASSUME GivenInv, UNCHANGED given
  PROVE  GivenInv' /\ (ProjectionFails' <=> ProjectionFails) /\ \A l : WindowSize(l)' = WindowSize(l)
<1>1. GivenInv'
  BY DEF GivenInv, given
<1>2. ProjectionFails' <=> ProjectionFails
  BY DEF given, ProjectionFails, TileFails, MatrixPages, MacFails, ValuesIn, Offset, PageSize
<1>3. \A l : WindowSize(l)' = WindowSize(l)
  BY DEF given, WindowSize
<1> QED
  BY <1>1, <1>2, <1>3

(* What a step leaves of a pass, and of the caches in it. *)
LEMMA PassStays ==
  ASSUME LayerInv, UNCHANGED <<given, passVars, layer, caches>>
  PROVE  /\ GivenInv' /\ CachesInv' /\ PriorInv'
         /\ \A l : FirstSeen(l)' = FirstSeen(l)
         /\ \A l, first : PriorIs(l, first)' <=> PriorIs(l, first)
<1>1. GivenInv' /\ \A l : WindowSize(l)' = WindowSize(l)
  BY GivenStays DEF LayerInv
<1>2. \A l : FirstSeen(l)' = FirstSeen(l)
  BY <1>1 DEF FirstSeen, passVars
<1>3. \A l, first : PriorIs(l, first)' <=> PriorIs(l, first)
  BY <1>2 DEF PriorIs, PriorOf, passVars
<1>4. CachesInv'
  BY <1>2 DEF LayerInv, CachesInv, passVars
<1>5. PriorInv'
  BY <1>2, <1>3 DEF LayerInv, PriorInv, given
<1> QED
  BY <1>1, <1>2, <1>3, <1>4, <1>5

LEMMA IdleTile ==
  ASSUME TileInv, phase' \in {"layer", "failed", "done"}, tile' = tile \/ tile' = NoTile
  PROVE  TileInv'
BY NoTileFields DEF TileInv

LEMMA LayerInvInit == Init => LayerInv
<1> SUFFICES ASSUME Init PROVE LayerInv
  OBVIOUS
<1>1. GivenInv
  BY PassAssumption DEF Init, GivenInv
<1>2. PassInv
  BY <1>1, GivenFacts, PassAssumption DEF Init, PassInv
<1>3. CachesInv
  BY DEF Init, CachesInv
<1>4. PriorInv
  <2> SUFFICES ASSUME NEW l \in Layers(shape)
               PROVE  \E first \in 0 .. FirstSeen(l) : PriorIs(l, first)
    BY DEF PriorInv
  <2>1. start = 0 /\ PriorOf(l) = <<>>
    BY DEF Init, PriorOf
  <2>2. FirstSeen(l) = 0
    BY <1>1, <2>1, FirstSeenIs
  <2>3. Cache(l, 0, start) = <<>>
    BY <2>1, EmptyCache
  <2> QED
    BY <2>1, <2>2, <2>3 DEF PriorIs
<1>5. TileInv
  BY NoTileFields DEF Init, TileInv
<1> QED
  BY <1>1, <1>2, <1>3, <1>4, <1>5 DEF LayerInv

LEMMA LayerInvPrepare ==
  ASSUME LayerInv, PrepareAux
  PROVE  LayerInv'
<1>1. UNCHANGED <<given, passVars, layer, caches, out, tile>> /\ phase' \in {"layer", "failed"}
  BY DEF PrepareAux
<1>2. GivenInv' /\ CachesInv' /\ PriorInv'
  BY <1>1, PassStays
<1>3. TileInv'
  BY <1>1, IdleTile DEF LayerInv
<1>4. PassInv'
  BY <1>1 DEF LayerInv, PassInv, TilePhases, passVars, given
<1> QED
  BY <1>2, <1>3, <1>4 DEF LayerInv

(* A layer publishes its cache. *)
LEMMA PublishedCache ==
  ASSUME LayerInv, layer < shape.layers, UNCHANGED <<given, passVars>>,
         NEW rows, NEW kv, Publish(rows, kv), kv = Cache(layer, FirstSeen(layer), start + count)
  PROVE  CachesInv' /\ PriorInv'
<1>1. GivenInv' /\ \A l : WindowSize(l)' = WindowSize(l)
  BY GivenStays DEF LayerInv
<1>2. \A l : FirstSeen(l)' = FirstSeen(l)
  BY <1>1 DEF FirstSeen, passVars
<1>3. \A l, first : PriorIs(l, first)' <=> PriorIs(l, first)
  BY <1>2 DEF PriorIs, PriorOf, passVars
<1>4. PriorInv'
  BY <1>2, <1>3 DEF LayerInv, PriorInv, given
<1>5. layer \in Nat /\ layer' = layer + 1 /\ 0 .. (layer' - 1) = 0 .. layer
  BY GivenFacts DEF LayerInv, PassInv, Publish
<1>6. \A l \in 0 .. layer : (IF l = layer THEN kv ELSE caches[l]) = Cache(l, FirstSeen(l), start + count)
  BY <1>5 DEF LayerInv, CachesInv
<1>7. caches' = [l \in 0 .. layer |-> Cache(l, FirstSeen(l), start + count)]
  BY <1>6, Zenon DEF Publish
<1>8. CachesInv'
  BY <1>2, <1>5, <1>7 DEF CachesInv, passVars
<1> QED
  BY <1>4, <1>8

LEMMA LayerInvNative ==
  ASSUME LayerInv, RunNative
  PROVE  LayerInv'
<1> USE DEF LayerInv
<1>1. /\ UNCHANGED <<given, passVars>> /\ tile' = NoTile /\ phase = "layer" /\ layer < shape.layers
      /\ phase' \in {"layer", "failed"}
  BY DEF RunNative, BeginLayer
<1>2. TileInv'
  BY <1>1, IdleTile
<1>3. GivenInv'
  BY <1>1, GivenStays
<1>4. PICK how \in Executors \ {"tiles"} :
        IF Computed(how).failed THEN UNCHANGED <<layer, caches, out>>
        ELSE Publish(Computed(how).rows, Computed(how).kv)
  BY DEF RunNative
<1>5. Computed(how).kv = Cache(layer, FirstSeen(layer), start + count)
  BY <1>1, NativeKv DEF Computed
<1>6. CASE Computed(how).failed
  <2>1. CachesInv' /\ PriorInv'
    BY <1>1, <1>4, <1>6, PassStays
  <2>2. PassInv'
    BY <1>1, <1>4, <1>6 DEF PassInv, TilePhases, passVars, given
  <2> QED
    BY <1>2, <1>3, <2>1, <2>2
<1>7. CASE ~Computed(how).failed
  <2>1. Publish(Computed(how).rows, Computed(how).kv)
    BY <1>4, <1>7
  <2>2. CachesInv' /\ PriorInv'
    BY <1>1, <1>5, <2>1, PublishedCache
  <2>3. PassInv'
    BY <1>1, <2>1, GivenFacts DEF PassInv, TilePhases, passVars, given, Publish
  <2> QED
    BY <1>2, <1>3, <2>2, <2>3
<1> QED
  BY <1>6, <1>7

LEMMA LayerInvEndPass ==
  ASSUME LayerInv, EndPass
  PROVE  LayerInv'
<1> USE DEF LayerInv
<1>1. /\ UNCHANGED <<given, out>> /\ tile' = NoTile /\ phase = "layer" /\ layer = shape.layers
      /\ phase' \in {"layer", "done", "failed"}
  BY DEF EndPass
<1>2. TileInv'
  BY <1>1, IdleTile
<1>3. GivenInv' /\ \A l : WindowSize(l)' = WindowSize(l)
  BY <1>1, GivenStays
<1>4. CASE UNCHANGED <<passVars, layer, ple, caches>>
  <2>1. CachesInv' /\ PriorInv'
    BY <1>1, <1>4, PassStays
  <2>2. PassInv'
    BY <1>1, <1>4 DEF PassInv, TilePhases, passVars, given
  <2> QED
    BY <1>2, <1>3, <2>1, <2>2
<1>5. CASE /\ count # 0 /\ phase' = "layer"
           /\ pass' = pass + 1 /\ start' = start + count /\ count' = 1
           /\ prior' = caches /\ caches' = [l \in {} |-> <<>>]
           /\ layer' = 0 /\ ple' = <<>>
  <2>1. PassInv'
    BY <1>1, <1>3, <1>5, GivenFacts DEF PassInv, TilePhases, given
  <2>2. 0 .. (layer' - 1) = {}
    BY <1>5
  <2>3. CachesInv'
    BY <1>5, <2>2 DEF CachesInv
  <2>4. PriorInv'
    <3> SUFFICES ASSUME NEW l \in Layers(shape)
                 PROVE  \E first \in 0 .. FirstSeen(l)' : PriorIs(l, first)'
      BY <1>1 DEF PriorInv, given
    <3>1. start \in Nat /\ start' \in Nat /\ start <= start' /\ WindowSize(l) \in Nat
      BY <1>5, GivenFacts DEF PassInv
    <3>2. KernelWindowStart(start, WindowSize(l)) <= KernelWindowStart(start', WindowSize(l))
      BY <3>1, WindowMoves
    <3>3. FirstSeen(l) <= FirstSeen(l)'
      BY <1>3, <3>2 DEF FirstSeen
    <3>4. FirstSeen(l) \in Nat
      BY <3>1, FirstSeenIs
    <3>5. FirstSeen(l)' \in Nat
      <4>1. KernelWindowStart(start', WindowSize(l)) \in 0 .. start'
        BY <3>1, Windows
      <4> QED
        BY <1>3, <3>1, <4>1 DEF FirstSeen
    <3>6. FirstSeen(l) \in 0 .. FirstSeen(l)'
      BY <3>3, <3>4, <3>5
    <3>7. l \in 0 .. (layer - 1)
      BY <1>1, GivenFacts
    <3>8. caches[l] = Cache(l, FirstSeen(l), start')
      BY <1>5, <3>7 DEF CachesInv
    <3>9. PriorOf(l)' = caches[l]
      BY <1>5 DEF PriorOf, PassInv
    <3> QED
      BY <3>6, <3>8, <3>9 DEF PriorIs
  <2> QED
    BY <1>2, <1>3, <2>1, <2>3, <2>4
<1> QED
  BY <1>4, <1>5 DEF EndPass

(* A step of a tile changes the tile, and the phase of its layer. *)
LEMMA TileStepStays ==
  ASSUME LayerInv, TileStep, phase' \in TilePhases,
         phase \in TilePhases \/ (BeginLayer /\ "tiles" \in Executors)
  PROVE  /\ GivenInv' /\ PassInv' /\ CachesInv' /\ PriorInv'
         /\ ProjectionFails' <=> ProjectionFails
         /\ FirstSeen(layer)' = FirstSeen(layer)
         /\ \A first : PriorIs(layer, first)' <=> PriorIs(layer, first)
         /\ UNCHANGED <<start, count, layer>>
         /\ \A n : Queries(n)' = Queries(n)
<1>1. UNCHANGED <<given, passVars, layer, caches, out>> /\ UNCHANGED <<start, count, layer, runtime, shape>>
  BY DEF TileStep, passVars, given
<1>2. GivenInv' /\ CachesInv' /\ PriorInv' /\ (\A l : FirstSeen(l)' = FirstSeen(l))
      /\ \A l, first : PriorIs(l, first)' <=> PriorIs(l, first)
  BY <1>1, PassStays
<1>3. ProjectionFails' <=> ProjectionFails
  BY <1>1, GivenStays DEF LayerInv
<1>4. layer < shape.layers /\ runtime = "staged"
  BY DEF LayerInv, PassInv, TilePhases, BeginLayer, Executors, GivenInv
<1>5. PassInv'
  BY <1>1, <1>4 DEF LayerInv, PassInv, passVars
<1>6. \A n : Queries(n)' = Queries(n)
  BY <1>1 DEF Queries, QueryAt
<1> QED
  BY <1>1, <1>2, <1>3, <1>5, <1>6

LEMMA LayerInvBeginTiles ==
  ASSUME LayerInv, BeginTiles
  PROVE  LayerInv'
<1>1. TileStep /\ phase' = "project" /\ tile' = NoTile /\ BeginLayer /\ "tiles" \in Executors
  BY DEF BeginTiles
<1>2. GivenInv' /\ PassInv' /\ CachesInv' /\ PriorInv' /\ start \in Nat /\ UNCHANGED <<start, count, layer>>
      /\ count \in Nat /\ \A n : Queries(n)' = Queries(n)
  BY <1>1, TileStepStays DEF TilePhases, LayerInv, PassInv
<1>3. Cache(layer, start, start + 0) = <<>>
  BY <1>2, EmptyCache
<1>4. Queries(0) = <<>>
  BY DEF Queries
<1>5. TileInv'
  BY <1>1, <1>2, <1>3, <1>4, NoTileFields DEF TileInv, Projected
<1> QED
  BY <1>2, <1>5 DEF LayerInv

(* Queries of the tokens so far. *)
LEMMA QueriesAre ==
  ASSUME NEW n \in Nat
  PROVE  /\ Queries(n) \in Seq({QueryAt(i) : i \in Nat}) /\ Len(Queries(n)) = n
         /\ Append(Queries(n), QueryAt(n + 1)) = Queries(n + 1)
<1> DEFINE S == {QueryAt(i) : i \in Nat}
<1>1. Queries(n) \in Seq(S) /\ Len(Queries(n)) = n
  BY DEF Queries
<1>2. QueryAt(n + 1) \in S
  OBVIOUS
<1>3. Append(Queries(n), QueryAt(n + 1)) = Queries(n + 1)
  BY <1>1, <1>2 DEF Queries
<1> QED
  BY <1>1, <1>3

LEMMA QueryIs ==
  ASSUME NEW n \in Nat, start \in Nat
  PROVE  QueryAt(n + 1) =
           [position |-> start + n, local |-> n, residual |-> Row(layer, start + n),
            q |-> Promise!Query(layer, start + n)]
<1>1. start + (n + 1) - 1 = start + n /\ (n + 1) - 1 = n
  OBVIOUS
<1>2. QueryAt(n + 1) =
        [position |-> start + (n + 1) - 1, local |-> (n + 1) - 1, residual |-> Row(layer, start + (n + 1) - 1),
         q |-> Promise!Query(layer, start + (n + 1) - 1)]
  BY Zenon DEF QueryAt
<1> QED
  BY <1>1, <1>2, Zenon

LEMMA LayerInvProject ==
  ASSUME LayerInv, ProjectToken
  PROVE  LayerInv'
<1>1. TileStep /\ phase' = "project" /\ phase = "project" /\ tile.at < count
  BY DEF ProjectToken
<1>2. /\ GivenInv' /\ PassInv' /\ CachesInv' /\ PriorInv' /\ UNCHANGED <<start, count, layer>>
      /\ ProjectionFails' <=> ProjectionFails
      /\ \A n : Queries(n)' = Queries(n)
  <2>1. phase' \in TilePhases /\ phase \in TilePhases
    BY <1>1 DEF TilePhases
  <2>2. ProjectionFails' <=> ProjectionFails
    BY <1>1, <2>1, TileStepStays
  <2>3. /\ GivenInv' /\ PassInv' /\ CachesInv' /\ PriorInv' /\ UNCHANGED <<start, count, layer>>
        /\ \A n : Queries(n)' = Queries(n)
    BY <1>1, <2>1, TileStepStays
  <2> QED
    BY <2>2, <2>3
<1>3. start \in Nat /\ count \in Nat /\ tile.at \in Nat
  BY DEF LayerInv, PassInv, TileInv
<1>4. Projected(tile.at) /\ tile.kv = <<>> /\ tile.rows = <<>> /\ DOMAIN tile = TileFields
      /\ tile.errors \in Nat /\ tile.list \in 1 .. 5
  BY <1>1 DEF LayerInv, TileInv
<1>5. InputRows[tile.at + 1] = Row(layer, start + tile.at)
  <2>1. tile.at + 1 \in 1 .. count /\ start + (tile.at + 1) - 1 = start + tile.at
    BY <1>1, <1>3
  <2> QED
    BY <2>1 DEF InputRows
<1>6. CASE ProjectionFails
  <2>1. tile' = [tile EXCEPT !.errors = @ + 1, !.at = @ + 1]
    BY <1>6 DEF ProjectToken
  <2>2. /\ tile'.keys = tile.keys /\ tile'.queries = tile.queries /\ tile'.kv = tile.kv
        /\ tile'.rows = tile.rows /\ tile'.list = tile.list /\ tile'.errors = tile.errors + 1
        /\ tile'.at = tile.at + 1 /\ DOMAIN tile' = TileFields
    BY <1>4, <2>1 DEF TileFields
  <2>3. TileInv'
    BY <1>1, <1>2, <1>3, <1>4, <1>6, <2>2 DEF TileInv, Projected
  <2> QED
    BY <1>2, <2>3 DEF LayerInv
<1>7. CASE ~ProjectionFails
  <2> DEFINE p == start + tile.at
             key == TileKey(layer, p, Row(layer, p))
             query == TileQuery(layer, p, tile.at, Row(layer, p))
  <2>1. tile' = [tile EXCEPT !.keys = Append(@, key), !.queries = Append(@, query), !.at = @ + 1]
    BY <1>5, <1>7 DEF ProjectToken
  <2>2. key = KeyAt(layer, p)
    BY <1>7, TileKeyIs
  <2>3. query = QueryAt(tile.at + 1)
    BY <1>3, <1>7, TileQueryIs, QueryIs
  <2> HIDE DEF key, query
  <2>4. /\ tile'.keys = Append(tile.keys, key) /\ tile'.queries = Append(tile.queries, query)
        /\ tile'.kv = tile.kv /\ tile'.rows = tile.rows /\ tile'.list = tile.list
        /\ tile'.errors = tile.errors /\ tile'.at = tile.at + 1 /\ DOMAIN tile' = TileFields
    BY <1>4, <2>1 DEF TileFields
  <2>5. tile'.keys = Cache(layer, start, start + (tile.at + 1))
    <3>1. start + tile.at \in Nat /\ start <= start + tile.at /\ (start + tile.at) + 1 = start + (tile.at + 1)
      BY <1>3
    <3>2. Append(Cache(layer, start, p), KeyAt(layer, p)) = Cache(layer, start, p + 1)
      BY <1>3, <3>1, CacheAppend
    <3> QED
      BY <1>4, <1>7, <2>2, <2>4, <3>1, <3>2 DEF Projected
  <2>6. tile'.queries = Queries(tile.at + 1)
    BY <1>3, <1>4, <1>7, <2>3, <2>4, QueriesAre DEF Projected
  <2>7. TileInv'
    BY <1>1, <1>2, <1>3, <1>4, <1>7, <2>4, <2>5, <2>6 DEF TileInv, Projected
  <2> QED
    BY <1>2, <2>7 DEF LayerInv
<1> QED
  BY <1>6, <1>7

(* A chunk of a cache carries what of it is kept. *)
LEMMA CarriedChunk ==
  ASSUME NEW l, NEW first \in Nat, NEW kept \in Nat, NEW next \in Nat, NEW at \in Nat,
         first <= kept, kept <= next, first + at < next,
         NEW size \in Nat, size > 0
  PROVE  LET end == IF at + size < next - first THEN at + size ELSE next - first
             part == Part(Cache(l, first, next), at, end)
             from == IF first + at < kept THEN kept ELSE first + at
             upto == IF first + (at + size) < kept THEN kept
                     ELSE IF first + (at + size) < next THEN first + (at + size) ELSE next
         IN  Cache(l, kept, from) \o KeysAt(part, {k \in Nat : k >= kept}) = Cache(l, kept, upto)
<1> DEFINE end == IF at + size < next - first THEN at + size ELSE next - first
           part == Part(Cache(l, first, next), at, end)
           from == IF first + at < kept THEN kept ELSE first + at
           upto == IF first + (at + size) < kept THEN kept
                   ELSE IF first + (at + size) < next THEN first + (at + size) ELSE next
           a == first + at
           b == first + end
           P == {k \in Nat : k >= kept}
<1>1. end \in Nat /\ at <= end /\ b <= next /\ a \in Nat /\ b \in Nat /\ a < b
  OBVIOUS
<1>2. part = Cache(l, a, b)
  <2>1. first + end <= next
    BY <1>1
  <2>2. end \in Nat /\ at <= end
    BY <1>1
  <2> HIDE DEF end
  <2> QED
    BY <2>1, <2>2, CacheSub
<1> SUFFICES Cache(l, kept, from) \o KeysAt(Cache(l, a, b), P) = Cache(l, kept, upto)
  BY <1>2
<1>3. CASE b <= kept
  <2>1. from = kept /\ upto = kept
    BY <1>1, <1>3
  <2>2. \A p \in a .. (b - 1) : p \in P <=> (b <= p /\ p < b)
    BY <1>1, <1>3
  <2> HIDE DEF a, b, P, from, upto
  <2>3. KeysAt(Cache(l, a, b), P) = Cache(l, b, b)
    BY <1>1, <2>2, KeysOfInterval
  <2>4. Cache(l, b, b) = <<>> /\ Cache(l, kept, kept) = <<>>
    BY <1>1, EmptyCache
  <2> QED
    BY <2>1, <2>3, <2>4
<1>4. CASE b > kept
  <2>1. upto = b /\ from \in Nat /\ a <= from /\ kept <= from /\ from <= b
    BY <1>1, <1>4
  <2>2. \A p \in a .. (b - 1) : p \in P <=> (from <= p /\ p < b)
    BY <1>1
  <2> HIDE DEF a, b, P, from, upto
  <2>3. KeysAt(Cache(l, a, b), P) = Cache(l, from, b)
    BY <1>1, <2>1, <2>2, KeysOfInterval
  <2>4. Cache(l, kept, from) \o Cache(l, from, b) = Cache(l, kept, b)
    BY <1>1, <2>1, CacheConcat
  <2> QED
    BY <2>1, <2>3, <2>4
<1> QED
  BY <1>1, <1>3, <1>4

LEMMA LayerInvCarry ==
  ASSUME LayerInv, CarryChunk
  PROVE  LayerInv'
<1>1. TileStep /\ phase' = "carry" /\ phase = "carry" /\ tile.at < Len(PriorOf(layer))
      /\ phase \in TilePhases /\ phase' \in TilePhases
  BY DEF CarryChunk, TilePhases
<1>2. /\ GivenInv' /\ PassInv' /\ CachesInv' /\ PriorInv' /\ UNCHANGED <<start, count, layer>>
      /\ \A n : Queries(n)' = Queries(n)
      /\ FirstSeen(layer)' = FirstSeen(layer)
      /\ \A first : PriorIs(layer, first)' <=> PriorIs(layer, first)
  BY <1>1, TileStepStays
<1>3. ProjectionFails' <=> ProjectionFails
  BY <1>1, TileStepStays
<1>4. start \in Nat /\ count \in Nat /\ tile.at \in Nat /\ layer \in Layers(shape)
  BY <1>1, GivenFacts DEF LayerInv, PassInv, TileInv
<1>5. FirstSeen(layer) \in Nat /\ FirstSeen(layer) <= start
  BY <1>4, FirstSeenIs DEF LayerInv
<1>6. PICK first \in 0 .. FirstSeen(layer) :
        PriorIs(layer, first) /\ tile.kv = Cache(layer, FirstSeen(layer), Carried(first, tile.at))
  BY <1>1 DEF LayerInv, TileInv
<1>7. PriorOf(layer) = Cache(layer, first, start) /\ Len(PriorOf(layer)) = start - first
      /\ first \in Nat /\ first <= start
  <2>1. PriorOf(layer) = Cache(layer, first, start)
    BY <1>6 DEF PriorIs
  <2>2. first \in Nat /\ first <= start
    BY <1>4, <1>5
  <2>3. Len(Cache(layer, first, start)) = start - first
    BY <1>4, <2>2, CacheFacts
  <2> QED
    BY <2>1, <2>2, <2>3
<1>8. ChunkSize \in Nat /\ ChunkSize > 0
  BY PassAssumption
<1> DEFINE at == tile.at + ChunkSize
           kept == Kept(Chunk(PriorOf(layer), tile.at), start, F.window)
<1>9. TileWindowStart(start, F.window) = FirstSeen(layer)
  <2>1. F.window = WindowSize(layer) /\ WindowSize(layer) \in Nat
    BY <1>4, GivenFacts DEF LayerInv, F, WindowSize
  <2> QED
    BY <1>4, <2>1, Windows DEF FirstSeen
<1>10. tile.kv \o kept = Cache(layer, FirstSeen(layer), Carried(first, at))
  <2> DEFINE s == Cache(layer, first, start)
             end == IF tile.at + ChunkSize < start - first THEN tile.at + ChunkSize ELSE start - first
  <2>1. kept = KeysAt(Part(s, tile.at, end), {k \in Nat : k >= FirstSeen(layer)})
    BY <1>7, <1>9 DEF Kept, Chunk, Part
  <2>2. first + tile.at < start
    BY <1>1, <1>4, <1>7
  <2> HIDE DEF kept, FirstSeen
  <2>3. /\ FirstSeen(layer) \in Nat /\ first <= FirstSeen(layer)
    BY <1>5, <1>6
  <2>4. Cache(layer, FirstSeen(layer), Carried(first, tile.at))
          \o KeysAt(Part(s, tile.at, end), {k \in Nat : k >= FirstSeen(layer)})
          = Cache(layer, FirstSeen(layer), Carried(first, at))
    BY <1>4, <1>5, <1>7, <1>8, <2>2, <2>3, CarriedChunk DEF Carried
  <2> QED
    BY <1>6, <2>1, <2>4
<1>11. tile' = [tile EXCEPT !.kv = @ \o kept, !.at = at]
  BY DEF CarryChunk
<1> HIDE DEF kept, at
<1>12. /\ tile'.keys = tile.keys /\ tile'.queries = tile.queries /\ tile'.rows = tile.rows
       /\ tile'.list = tile.list /\ tile'.errors = tile.errors
       /\ tile'.kv = tile.kv \o kept /\ tile'.at = at /\ DOMAIN tile' = TileFields
  BY <1>11 DEF LayerInv, TileInv, TileFields
<1>13. at \in Nat
  BY <1>4, <1>8 DEF at
<1>14. tile'.kv = Cache(layer, FirstSeen(layer), Carried(first, tile.at))'
  BY <1>2, <1>10, <1>12 DEF Carried
<1>15. TileInv'
  BY <1>1, <1>2, <1>3, <1>6, <1>12, <1>13, <1>14 DEF LayerInv, TileInv
<1> QED
  BY <1>2, <1>15 DEF LayerInv

(* The tile of a layer between two of its rows. *)
Between(t) ==
  /\ DOMAIN t = TileFields /\ t.at \in Nat /\ t.errors \in Nat /\ t.list \in 1 .. 5
  /\ ProjectionFails => t.keys = <<>> /\ t.queries = <<>> /\ t.rows = <<>>
  /\ ProjectionFails => t.errors >= count
  /\ ~ProjectionFails => t.keys = Cache(layer, start, start + count) /\ t.queries = Queries(count)
  /\ \E S : t.rows \in Seq(S)
  /\ Len(t.rows) \in 0 .. count
  /\ t.kv = Cache(layer, FirstSeen(layer), start + Len(t.rows))
  /\ Len(t.rows) <= Len(t.queries)

LEMMA LayerInvBeginQuery ==
  ASSUME LayerInv, TileStep, phase \in TilePhases, NEW t, Between(t), BeginQuery(t)
  PROVE  LayerInv'
<1>1. phase' \in {"score", "close"} /\ phase' \in TilePhases
  BY DEF BeginQuery, TilePhases
<1>2. /\ GivenInv' /\ PassInv' /\ CachesInv' /\ PriorInv' /\ UNCHANGED <<start, count, layer>>
      /\ \A n : Queries(n)' = Queries(n)
      /\ FirstSeen(layer)' = FirstSeen(layer)
  BY <1>1, TileStepStays
<1>3. ProjectionFails' <=> ProjectionFails
  BY <1>1, TileStepStays
<1>4. count \in Nat /\ Len(Queries(count)) = count /\ Len(t.rows) \in Nat
      /\ Len(t.queries) \in Nat
  <2>1. count \in Nat /\ Len(t.rows) \in Nat
    BY DEF LayerInv, PassInv, Between
  <2>2. Len(Queries(count)) = count
    BY <2>1, QueriesAre
  <2>3. Len(<<>>) = 0
    OBVIOUS
  <2> QED
    BY <2>1, <2>2, <2>3 DEF Between
<1>5. /\ tile'.keys = t.keys /\ tile'.queries = t.queries /\ tile'.rows = t.rows
      /\ tile'.list \in 1 .. 5 /\ tile'.errors = t.errors /\ tile'.kv = t.kv /\ tile'.at \in Nat
      /\ DOMAIN tile' = TileFields
  <2>1. CASE tile' = t
    BY <2>1 DEF Between
  <2>2. CASE tile' # t
    <3> DEFINE zero == ZeroScores(t.queries[Len(t.rows) + 1], F.window)
    <3>1. tile' = [t EXCEPT !.scores = zero.scores, !.filled = zero.filled,
                            !.values = {}, !.broken = FALSE, !.list = 1, !.at = 0]
      BY <2>2 DEF BeginQuery
    <3> HIDE DEF zero
    <3> QED
      BY <3>1 DEF Between, TileFields
  <2> QED
    BY <2>1, <2>2
<1>6. phase' = "close" => Len(t.rows) = Len(t.queries)
  BY DEF BeginQuery
<1>7. phase' = "score" => Len(t.rows) < Len(t.queries)
  BY <1>4 DEF BeginQuery, Between
<1>8. tile'.kv = Cache(layer, FirstSeen(layer), start + Len(tile.rows))'
  BY <1>2, <1>5 DEF Between
<1>9. TileInv'
  BY <1>1, <1>2, <1>3, <1>5, <1>6, <1>7, <1>8 DEF TileInv, Between
<1> QED
  BY <1>2, <1>9 DEF LayerInv

(* The prior cache has been carried whole. *)
LEMMA CarriedWhole ==
  ASSUME LayerInv, phase = "carry", tile.at >= Len(PriorOf(layer))
  PROVE  Between(tile)
<1>1. start \in Nat /\ count \in Nat /\ tile.at \in Nat /\ layer \in Layers(shape)
  BY GivenFacts DEF LayerInv, PassInv, TileInv, TilePhases
<1>2. FirstSeen(layer) \in Nat /\ FirstSeen(layer) <= start
  BY <1>1, FirstSeenIs DEF LayerInv
<1>3. PICK first \in 0 .. FirstSeen(layer) :
        PriorIs(layer, first) /\ tile.kv = Cache(layer, FirstSeen(layer), Carried(first, tile.at))
  BY DEF LayerInv, TileInv
<1>4. first \in Nat /\ first <= FirstSeen(layer) /\ first <= start
  BY <1>1, <1>2
<1>5. tile.at >= start - first
  <2>1. Len(Cache(layer, first, start)) = start - first
    BY <1>1, <1>4, CacheFacts
  <2> QED
    BY <1>3, <2>1 DEF PriorIs
<1>6. Carried(first, tile.at) = start
  BY <1>1, <1>2, <1>4, <1>5 DEF Carried
<1>7. tile.rows = <<>> /\ Len(tile.rows) = 0 /\ start + Len(tile.rows) = start /\ tile.rows \in Seq({})
  <2>1. tile.rows = <<>>
    BY DEF LayerInv, TileInv
  <2>2. <<>> \in Seq({}) /\ Len(<<>>) = 0
    OBVIOUS
  <2> QED
    BY <1>1, <2>1, <2>2
<1>8. Len(tile.queries) \in Nat
  BY <1>1, QueriesAre DEF LayerInv, TileInv
<1>9. Between(tile)
  BY <1>1, <1>3, <1>6, <1>7, <1>8 DEF Between, LayerInv, TileInv
<1> QED
  BY <1>9

LEMMA LayerInvEndSweep ==
  ASSUME LayerInv, EndSweep
  PROVE  LayerInv'
<1>1. TileStep /\ phase \in TilePhases
  BY DEF EndSweep, TilePhases
<1>2. start \in Nat /\ count \in Nat /\ tile.at \in Nat /\ layer \in Layers(shape)
  BY <1>1, GivenFacts DEF LayerInv, PassInv, TileInv
<1>3. FirstSeen(layer) \in Nat /\ FirstSeen(layer) <= start
  BY <1>2, FirstSeenIs DEF LayerInv
<1>4. Cache(layer, FirstSeen(layer), FirstSeen(layer)) = <<>>
  BY <1>3, EmptyCache
<1>5. CASE phase = "project" /\ tile.at >= count
  <2>1. phase' = "carry" /\ tile' = [tile EXCEPT !.at = 0] /\ phase' \in TilePhases
    BY <1>5 DEF EndSweep, TilePhases
  <2>2. /\ GivenInv' /\ PassInv' /\ CachesInv' /\ PriorInv' /\ UNCHANGED <<start, count, layer>>
        /\ \A n : Queries(n)' = Queries(n)
        /\ FirstSeen(layer)' = FirstSeen(layer)
        /\ \A first : PriorIs(layer, first)' <=> PriorIs(layer, first)
    BY <1>1, <2>1, TileStepStays
  <2>3. ProjectionFails' <=> ProjectionFails
    BY <1>1, <2>1, TileStepStays
  <2>4. PICK first \in 0 .. FirstSeen(layer) : PriorIs(layer, first)
    BY <1>2 DEF LayerInv, PriorInv
  <2>5. Carried(first, 0) = FirstSeen(layer)
    BY <1>2, <1>3 DEF Carried
  <2>6. /\ tile'.keys = tile.keys /\ tile'.queries = tile.queries /\ tile'.rows = tile.rows
        /\ tile'.list = tile.list /\ tile'.errors = tile.errors /\ tile'.kv = tile.kv
        /\ tile'.at = 0 /\ DOMAIN tile' = TileFields
    BY <2>1 DEF LayerInv, TileInv, TileFields
  <2>7. tile.at = count /\ Projected(count) /\ tile.kv = <<>> /\ tile.rows = <<>>
    BY <1>2, <1>5 DEF LayerInv, TileInv
  <2>8. tile'.kv = Cache(layer, FirstSeen(layer), Carried(first, tile.at))'
    <3>1. Carried(first, tile.at)' = Carried(first, 0)
      BY <2>2, <2>6 DEF Carried
    <3> QED
      BY <1>4, <2>2, <2>5, <2>6, <2>7, <3>1
  <2>9. TileInv'
    BY <1>2, <2>1, <2>2, <2>3, <2>4, <2>6, <2>7, <2>8 DEF LayerInv, TileInv, Projected
  <2> QED
    BY <2>2, <2>9 DEF LayerInv
<1>6. CASE phase = "carry" /\ tile.at >= Len(PriorOf(layer)) /\ BeginQuery(tile)
  <2>1. Between(tile)
    BY <1>6, CarriedWhole
  <2> QED
    BY <1>1, <1>6, <2>1, LayerInvBeginQuery
<1> QED
  BY <1>5, <1>6 DEF EndSweep

(* A sweep changes what a query has seen, and nothing else. *)
LEMMA LayerInvSweep ==
  ASSUME LayerInv, TileStep, phase \in {"score", "weigh"}, phase' \in {"score", "weigh"},
         DOMAIN tile' = TileFields, tile'.at \in Nat, tile'.list \in 1 .. 5,
         tile'.keys = tile.keys, tile'.queries = tile.queries, tile'.rows = tile.rows,
         tile'.errors = tile.errors, tile'.kv = tile.kv
  PROVE  LayerInv'
<1>1. phase \in TilePhases /\ phase' \in TilePhases
  BY DEF TilePhases
<1>2. /\ GivenInv' /\ PassInv' /\ CachesInv' /\ PriorInv' /\ UNCHANGED <<start, count, layer>>
      /\ \A n : Queries(n)' = Queries(n)
      /\ FirstSeen(layer)' = FirstSeen(layer)
  BY <1>1, TileStepStays
<1>3. ProjectionFails' <=> ProjectionFails
  BY <1>1, TileStepStays
<1>4. tile'.kv = Cache(layer, FirstSeen(layer), start + Len(tile.rows))'
  BY <1>2 DEF LayerInv, TileInv
<1>5. TileInv'
  BY <1>2, <1>3, <1>4 DEF LayerInv, TileInv
<1> QED
  BY <1>2, <1>5 DEF LayerInv

LEMMA LayerInvScore ==
  ASSUME LayerInv, ScoreChunk
  PROVE  LayerInv'
<1> DEFINE s == ScoreKeys([scores |-> tile.scores, filled |-> tile.filled], TheQuery, TheChunk, F.window)
<1>1. TileStep /\ phase = "score" /\ phase' = "score"
      /\ tile' = [tile EXCEPT !.scores = s.scores, !.filled = s.filled, !.at = @ + ChunkSize]
  BY DEF ScoreChunk, Sweeping
<1> HIDE DEF s
<1>2. DOMAIN tile = TileFields /\ tile.at \in Nat /\ tile.list \in 1 .. 5 /\ ChunkSize \in Nat
  BY PassAssumption DEF LayerInv, TileInv
<1> QED
  BY <1>1, <1>2, LayerInvSweep DEF TileFields

LEMMA LayerInvWeigh ==
  ASSUME LayerInv, AccumulateChunk
  PROVE  LayerInv'
<1> DEFINE broken == tile.broken \/ (SourceLayers[tile.list] = F.donor /\ SoftmaxFails(Scored))
           values == IF SoftmaxFails(Scored) THEN tile.values
                     ELSE AccumulateKeys(tile.values, TheQuery, TheChunk, F.window)
<1>1. TileStep /\ phase = "weigh" /\ phase' = "weigh"
      /\ tile' = [tile EXCEPT !.at = @ + ChunkSize, !.broken = broken, !.values = values]
  BY DEF AccumulateChunk, Sweeping
<1> HIDE DEF broken, values
<1>2. DOMAIN tile = TileFields /\ tile.at \in Nat /\ tile.list \in 1 .. 5 /\ ChunkSize \in Nat
  BY PassAssumption DEF LayerInv, TileInv
<1> QED
  BY <1>1, <1>2, LayerInvSweep DEF TileFields

LEMMA LayerInvNextList ==
  ASSUME LayerInv, NextList \/ SoftmaxScores
  PROVE  LayerInv'
<1>1. TileStep /\ phase \in {"score", "weigh"} /\ phase' \in {"score", "weigh"}
  BY DEF NextList, SoftmaxScores
<1>2. DOMAIN tile = TileFields /\ tile.at \in Nat /\ tile.list \in 1 .. 5
  BY DEF LayerInv, TileInv
<1>3. CASE NextList
  <2>1. tile.list + 1 \in 1 .. 5 /\ tile' = [tile EXCEPT !.list = @ + 1, !.at = 0]
    BY <1>2, <1>3 DEF NextList
  <2> QED
    BY <1>1, <1>2, <2>1, LayerInvSweep DEF TileFields
<1>4. CASE SoftmaxScores
  <2> DEFINE missing == IF SoftmaxFails(Scored) THEN tile.missing + 1 ELSE tile.missing
  <2>1. tile' = [tile EXCEPT !.list = 1, !.missing = missing]
    BY <1>4 DEF SoftmaxScores
  <2> HIDE DEF missing
  <2> QED
    BY <1>1, <1>2, <2>1, LayerInvSweep DEF TileFields
<1> QED
  BY <1>3, <1>4

(* The tile of a layer with one more row. *)
Finished(row) ==
  [tile EXCEPT !.rows = Append(@, row),
               !.errors = IF row = Failed THEN @ + 1 ELSE @,
               !.kv = Append(@, tile.keys[TheQuery.local + 1])]

LEMMA FinishedIs ==
  ASSUME LayerInv, phase = "weigh", NEW row
  PROVE  Between(Finished(row))
<1> DEFINE key == tile.keys[TheQuery.local + 1]
           t == Finished(row)
           n == Len(tile.rows)
<1>1. start \in Nat /\ count \in Nat /\ layer \in Layers(shape)
  BY GivenFacts DEF LayerInv, PassInv, TilePhases
<1>2. FirstSeen(layer) \in Nat /\ FirstSeen(layer) <= start
  BY <1>1, FirstSeenIs DEF LayerInv
<1>3. /\ n \in 0 .. count /\ n < Len(tile.queries)
      /\ tile.kv = Cache(layer, FirstSeen(layer), start + n)
      /\ DOMAIN tile = TileFields /\ tile.at \in Nat /\ tile.list \in 1 .. 5 /\ tile.errors \in Nat
  BY DEF LayerInv, TileInv
<1>4. ~ProjectionFails /\ tile.keys = Cache(layer, start, start + count) /\ tile.queries = Queries(count)
  <2>1. ~ProjectionFails
    <3>1. SUFFICES ASSUME ProjectionFails PROVE FALSE
      OBVIOUS
    <3>2. tile.queries = <<>>
      BY <3>1 DEF LayerInv, TileInv
    <3> QED
      BY <1>3, <3>2
  <2> QED
    BY <2>1 DEF LayerInv, TileInv
<1>5. Len(tile.queries) = count /\ n < count
  BY <1>1, <1>3, <1>4, QueriesAre
<1>6. TheQuery.local = n
  <2>1. n + 1 \in 1 .. count /\ TheQuery = QueryAt(n + 1)
    BY <1>1, <1>3, <1>4, <1>5 DEF TheQuery, Queries
  <2>2. n \in Nat
    BY <1>3
  <2> HIDE DEF n
  <2>3. QueryAt(n + 1).local = n
    <3>1. QueryAt(n + 1) =
            [position |-> start + n, local |-> n, residual |-> Row(layer, start + n),
             q |-> Promise!Query(layer, start + n)]
      BY <1>1, <2>2, QueryIs, Zenon
    <3> QED
      BY <3>1
  <2> QED
    BY <2>1, <2>3
<1>7. key = KeyAt(layer, start + n)
  <2>1. n + 1 \in 1 .. ((start + count) - start) /\ start + ((n + 1) - 1) = start + n
    BY <1>1, <1>3, <1>5
  <2>2. Cache(layer, start, start + count)[n + 1] = KeyAt(layer, start + ((n + 1) - 1))
    BY <2>1, CacheKey
  <2> QED
    BY <1>4, <1>6, <2>1, <2>2
<1> HIDE DEF key
<1>8. /\ t.rows = Append(tile.rows, row) /\ t.kv = Append(tile.kv, key)
      /\ t.errors = (IF row = Failed THEN tile.errors + 1 ELSE tile.errors)
      /\ t.keys = tile.keys /\ t.queries = tile.queries
      /\ t.at = tile.at /\ t.list = tile.list /\ DOMAIN t = TileFields
  BY <1>3 DEF TileFields, Finished, key
<1> HIDE DEF t
<1>9. PICK S : tile.rows \in Seq(S)
  BY DEF LayerInv, TileInv
<1>10. t.rows \in Seq(S \cup {row}) /\ Len(t.rows) = n + 1
  <2>1. tile.rows \in Seq(S \cup {row})
    BY <1>9
  <2> QED
    BY <1>8, <2>1, AppendProperties
<1>11. t.kv = Cache(layer, FirstSeen(layer), start + Len(t.rows))
  <2>1. start + n \in Nat /\ FirstSeen(layer) <= start + n /\ (start + n) + 1 = start + (n + 1)
    BY <1>1, <1>2, <1>3
  <2> HIDE DEF FirstSeen
  <2>2. Append(Cache(layer, FirstSeen(layer), start + n), KeyAt(layer, start + n))
          = Cache(layer, FirstSeen(layer), (start + n) + 1)
    BY <1>2, <2>1, CacheAppend
  <2> QED
    BY <1>3, <1>7, <1>8, <1>10, <2>1, <2>2
<1>12. Between(t)
  <2>1. t.errors \in Nat /\ Len(t.rows) \in 0 .. count /\ Len(t.rows) <= Len(t.queries)
    BY <1>1, <1>3, <1>5, <1>8, <1>10
  <2>2. \E Q : t.rows \in Seq(Q)
    BY <1>10
  <2> QED
    BY <1>3, <1>4, <1>8, <1>11, <2>1, <2>2 DEF Between
<1> QED
  BY <1>12 DEF t

LEMMA LayerInvFinishRow ==
  ASSUME LayerInv, FinishRow
  PROVE  LayerInv'
<1> DEFINE context == IF tile.broken THEN Failed ELSE Context(TheQuery.q, tile.scores, tile.values)
           row == TileRow(layer, TheQuery, context, ple[layer + 1][TheQuery.local + 1])
<1>1. TileStep /\ phase = "weigh" /\ phase \in TilePhases
  BY DEF FinishRow, TilePhases
<1>2. CASE phase' = "failed" /\ tile' = tile
  <2>1. TileInv'
    BY <1>2, IdleTile DEF LayerInv
  <2>2. UNCHANGED <<given, passVars, layer, caches>>
    BY <1>1 DEF TileStep
  <2>3. GivenInv' /\ CachesInv' /\ PriorInv'
    BY <2>2, PassStays
  <2>4. PassInv'
    BY <1>1, <1>2 DEF LayerInv, PassInv, TilePhases, TileStep, passVars, given
  <2> QED
    BY <2>1, <2>3, <2>4 DEF LayerInv
<1>3. CASE BeginQuery(Finished(row))
  <2>1. Between(Finished(row))
    BY <1>1, FinishedIs
  <2> QED
    BY <1>1, <1>3, <2>1, LayerInvBeginQuery
<1> QED
  BY <1>2, <1>3 DEF FinishRow, Finished

LEMMA LayerInvEndLayer ==
  ASSUME LayerInv, EndLayer
  PROVE  LayerInv'
<1>1. /\ UNCHANGED <<given, passVars>> /\ UNCHANGED tile /\ phase = "close"
      /\ phase' \in {"layer", "failed"}
  BY DEF EndLayer
<1>2. layer < shape.layers /\ start \in Nat /\ count \in Nat /\ layer \in Layers(shape)
  BY <1>1, GivenFacts DEF LayerInv, PassInv, TilePhases
<1>3. TileInv'
  BY <1>1, IdleTile DEF LayerInv
<1>4. GivenInv'
  BY <1>1, GivenStays DEF LayerInv
<1>5. CASE tile.errors > 0
  <2>1. UNCHANGED <<layer, caches, out>> /\ phase' = "failed"
    BY <1>5 DEF EndLayer
  <2>2. CachesInv' /\ PriorInv'
    BY <1>1, <2>1, PassStays
  <2>3. PassInv'
    BY <1>1, <2>1 DEF LayerInv, PassInv, TilePhases, passVars, given
  <2> QED
    BY <1>3, <1>4, <2>2, <2>3 DEF LayerInv
<1>6. CASE ~(tile.errors > 0)
  <2>1. Publish(tile.rows, tile.kv) /\ phase' = "layer"
    BY <1>6 DEF EndLayer
  <2>2. Len(tile.rows) = count
    <3>1. /\ Len(tile.rows) = Len(tile.queries) /\ tile.errors \in Nat /\ Len(tile.rows) \in 0 .. count
          /\ ProjectionFails => tile.errors >= count
          /\ ~ProjectionFails => tile.queries = Queries(count)
      BY <1>1 DEF LayerInv, TileInv
    <3>2. CASE ProjectionFails
      BY <1>2, <1>6, <3>1, <3>2
    <3>3. CASE ~ProjectionFails
      BY <1>2, <3>1, <3>3, QueriesAre
    <3> QED
      BY <3>2, <3>3
  <2>3. tile.kv = Cache(layer, FirstSeen(layer), start + count)
    BY <1>1, <2>2 DEF LayerInv, TileInv
  <2>4. CachesInv' /\ PriorInv'
    BY <1>1, <1>2, <2>1, <2>3, PublishedCache
  <2>5. PassInv'
    BY <1>1, <1>2, <2>1, GivenFacts DEF LayerInv, PassInv, TilePhases, passVars, given, Publish
  <2> QED
    BY <1>3, <1>4, <2>4, <2>5 DEF LayerInv
<1> QED
  BY <1>5, <1>6

LEMMA LayerInvNext == LayerInv /\ [Next]_vars => LayerInv'
<1> SUFFICES ASSUME LayerInv, [Next]_vars PROVE LayerInv'
  OBVIOUS
<1>1. CASE UNCHANGED vars
  <2>1. UNCHANGED <<given, passVars, layer, caches>> /\ UNCHANGED <<phase, tile, out, start, count>>
    BY <1>1 DEF vars, passVars
  <2>2. GivenInv' /\ CachesInv' /\ PriorInv' /\ (\A l : FirstSeen(l)' = FirstSeen(l))
        /\ \A l, first : PriorIs(l, first)' <=> PriorIs(l, first)
    BY <2>1, PassStays
  <2>3. ProjectionFails' <=> ProjectionFails
    BY <2>1, GivenStays DEF LayerInv
  <2>4. PassInv'
    BY <2>1 DEF LayerInv, PassInv, passVars, given
  <2>5. TileInv'
    BY <2>1, <2>2, <2>3 DEF LayerInv, TileInv, Projected, Queries, QueryAt, Carried
  <2> QED
    BY <2>2, <2>4, <2>5 DEF LayerInv
<1> QED
  BY <1>1, LayerInvPrepare, LayerInvNative, LayerInvEndPass, LayerInvBeginTiles, LayerInvProject,
     LayerInvCarry, LayerInvEndSweep, LayerInvScore, LayerInvNextList, LayerInvWeigh,
     LayerInvFinishRow, LayerInvEndLayer DEF Next

LEMMA LayerInvHolds == Spec => []LayerInv
BY LayerInvInit, LayerInvNext, PTL DEF Spec

(* Whatever executes the layers, and whatever the window, the chunks, the  *)
(* pages, the threads and the number of passes: a published cache is the   *)
(* window of the first row of its pass and then the pass, position by      *)
(* position.                                                               *)
THEOREM CachesStayWindows == Spec => []CachesAreWindows
<1>1. LayerInv => CachesAreWindows
  <2> SUFFICES ASSUME LayerInv, NEW l \in DOMAIN caches
               PROVE  [i \in DOMAIN caches[l] |-> caches[l][i].position] =
                        [i \in 1 .. (start + count - KernelWindowStart(start, facts[l].window)) |->
                           KernelWindowStart(start, facts[l].window) + i - 1]
    BY DEF CachesAreWindows
  <2> DEFINE first == KernelWindowStart(start, facts[l].window)
             next == start + count
  <2>1. first = FirstSeen(l)
    BY DEF FirstSeen, WindowSize
  <2>2. l \in Layers(shape) /\ start \in Nat /\ count \in Nat /\ caches[l] = Cache(l, first, next)
    BY <2>1, GivenFacts DEF LayerInv, PassInv, CachesInv
  <2>3. first \in Nat /\ first <= next /\ next \in Nat
    BY <2>1, <2>2, FirstSeenIs DEF LayerInv
  <2> HIDE DEF first
  <2>4. next - first = start + (count - first)
    BY <2>2, <2>3
  <2> HIDE DEF next
  <2>5. DOMAIN caches[l] = 1 .. (next - first)
    BY <2>2, <2>3, CacheFacts
  <2>6. ASSUME NEW i \in DOMAIN caches[l] PROVE caches[l][i].position = first + (i - 1)
    <3>1. Cache(l, first, next)[i] = KeyAt(l, first + (i - 1))
      BY <2>5, <2>6, CacheKey
    <3> QED
      BY <2>2, <3>1 DEF KeyAt
  <2> QED
    BY <2>4, <2>5, <2>6, Zenon DEF first
<1> QED
  BY <1>1, LayerInvHolds, PTL

-----------------------------------------------------------------------------
(* Whose cache a layer uses.                                               *)

DonorOf(l) == facts[l].donor
SourceOf(l) == IF DonorOf(l) = -1 THEN l ELSE DonorOf(l)

(* The donor is the last layer before the shared ones with the type. *)
LEMMA DonorIsBefore ==
  ASSUME NEW s, IsShape(s), NEW l \in Layers(s), KvDonor(s, l) # -1
  PROVE  /\ l >= FirstShared(s) /\ KvDonor(s, l) \in 0 .. (FirstShared(s) - 1)
         /\ s.types[KvDonor(s, l)] = s.types[l]
<1> DEFINE same == {d \in 0 .. (FirstShared(s) - 1) : s.types[d] = s.types[l]}
           far == {FirstShared(s) - d : d \in same}
<1>1. FirstShared(s) \in Nat
  BY DEF IsShape, FirstShared
<1>2. l >= FirstShared(s) /\ same # {} /\ KvDonor(s, l) = CHOOSE d \in same : \A e \in same : e <= d
  <2>1. KvDonor(s, l) = IF l < FirstShared(s) \/ same = {} THEN -1
                        ELSE CHOOSE d \in same : \A e \in same : e <= d
    BY Zenon DEF KvDonor
  <2>2. l \in Int
    BY DEF Layers, IsShape
  <2> HIDE DEF same
  <2> QED
    BY <1>1, <2>1, <2>2
<1>3. far \subseteq Nat /\ far # {}
  BY <1>1, <1>2
<1> HIDE DEF same
<1>4. PICK x \in far : \A y \in far : x <= y
  <2> HIDE DEF far
  <2> QED
    BY <1>3, LeastOf
<1>5. PICK d \in same : x = FirstShared(s) - d
  OBVIOUS
<1>6. \A e \in same : e <= d
  <2>1. same \subseteq Nat
    BY <1>1 DEF same
  <2> SUFFICES ASSUME NEW e \in same PROVE e <= d
    OBVIOUS
  <2>2. FirstShared(s) - e \in far
    OBVIOUS
  <2> QED
    BY <1>1, <1>4, <1>5, <2>1, <2>2
<1>7. KvDonor(s, l) \in same
  <2> DEFINE best == CHOOSE b \in same : \A e \in same : e <= b
  <2>1. best \in same
    BY <1>5, <1>6
  <2> HIDE DEF best
  <2> QED
    BY <1>2, <2>1 DEF best
<1> QED
  BY <1>2, <1>7 DEF same

LEMMA DonorsAreLayers ==
  ASSUME NEW s, Importable(s)
  PROVE  /\ Donors(s) \subseteq Nat /\ IsFiniteSet(Donors(s))
         /\ Cardinality(Donors(s)) \in 0 .. 2
<1>1. IsShape(s) /\ FirstShared(s) \in Nat /\ Cardinality(Donors(s)) <= 2
  BY DEF Importable, IsShape, FirstShared
<1>2. \A d \in Donors(s) : d \in 0 .. (FirstShared(s) - 1)
  BY <1>1, DonorIsBefore DEF Donors
<1>3. Donors(s) \in SUBSET Nat /\ \A d \in Donors(s) : d <= FirstShared(s)
  BY <1>1, <1>2
<1>4. IsFiniteSet(Donors(s))
  BY <1>1, <1>3, FS_BoundedSetOfNaturals
<1> QED
  BY <1>1, <1>3, <1>4, FS_CardinalityType

(* The first two donors are all there are. *)
LEMMA Candidates ==
  ASSUME NEW s, Importable(s)
  PROVE  /\ DonorA(s) # -1 /\ DonorB(s) # -1 /\ DonorA(s) # DonorB(s)
         /\ Donors(s) \subseteq {DonorA(s), DonorB(s)}
<1> DEFINE rest == Donors(s) \ {DonorA(s)}
<1>1. /\ Donors(s) \subseteq Nat /\ IsFiniteSet(Donors(s)) /\ Cardinality(Donors(s)) \in 0 .. 2
  BY DonorsAreLayers
<1>2. CASE Donors(s) = {}
  <2>1. Cardinality(Donors(s)) < 2
    BY <1>2, FS_EmptySet
  <2> QED
    BY <1>2, <2>1 DEF DonorA, DonorB
<1>3. CASE Donors(s) # {}
  <2>1. PICK a \in Donors(s) : \A e \in Donors(s) : a <= e
    BY <1>1, <1>3, LeastOf
  <2>2. DonorA(s) \in Donors(s)
    BY <1>3, <2>1 DEF DonorA
  <2>3. IsFiniteSet(rest) /\ Cardinality(rest) = Cardinality(Donors(s)) - 1
    BY <1>1, <2>2, FS_RemoveElement
  <2>4. CASE rest = {}
    <3>1. Cardinality(Donors(s)) < 2
      BY <1>1, <2>3, <2>4, FS_EmptySet
    <3> QED
      BY <1>1, <2>2, <2>4, <3>1 DEF DonorB
  <2>5. CASE rest # {}
    <3>1. Cardinality(rest) # 0
      BY <2>3, <2>5, FS_EmptySet
    <3>2. Cardinality(rest) = 1 /\ ~(Cardinality(Donors(s)) < 2)
      <4>1. Cardinality(rest) \in Nat
        BY <2>3, FS_CardinalityType
      <4> QED
        BY <1>1, <2>3, <3>1, <4>1
    <3>3. PICK b : rest = {b}
      BY <2>3, <3>2, FS_Singleton
    <3>4. b \in Nat /\ b \in Donors(s)
      BY <1>1, <3>3
    <3>5. DonorB(s) = CHOOSE d \in {b} : \A e \in {b} : d <= e
      BY <3>2, <3>3 DEF DonorB
    <3>6. DonorB(s) = b
      BY <3>4, <3>5
    <3> QED
      BY <1>1, <2>2, <3>3, <3>4, <3>6
  <2> QED
    BY <2>4, <2>5
<1> QED
  BY <1>2, <1>3

LEMMA DonorFacts ==
  ASSUME GivenInv, NEW l \in Layers(shape)
  PROVE  /\ facts[l].a # -1 /\ facts[l].b # -1 /\ facts[l].a # facts[l].b
         /\ DonorOf(l) = KvDonor(shape, l)
         /\ SourceOf(l) \in Layers(shape) /\ WindowSize(SourceOf(l)) = WindowSize(l)
         /\ DonorOf(l) # -1 => /\ DonorOf(l) \in {facts[l].a, facts[l].b}
                               /\ DonorOf(l) \in 0 .. (l - 1) /\ l >= FirstShared(shape)
<1>1. Importable(shape) /\ IsShape(shape) /\ FirstShared(shape) \in Nat
      /\ Layers(shape) = 0 .. (shape.layers - 1) /\ FirstShared(shape) <= shape.layers
      /\ shape.layers \in Nat
  BY PassAssumption DEF GivenInv, Importable, IsShape, FirstShared, Layers
<1>2. facts[l] = Facts(shape, l) /\ l \in 0 .. (shape.layers - 1)
  BY <1>1 DEF GivenInv
<1>3. facts[l].a = DonorA(shape) /\ facts[l].b = DonorB(shape) /\ DonorOf(l) = KvDonor(shape, l)
  BY <1>2 DEF Facts, DonorOf
<1>4. CASE DonorOf(l) = -1
  BY <1>1, <1>3, <1>4, Candidates DEF SourceOf
<1>5. CASE DonorOf(l) # -1
  <2>1. /\ l >= FirstShared(shape) /\ DonorOf(l) \in 0 .. (FirstShared(shape) - 1)
        /\ shape.types[DonorOf(l)] = shape.types[l]
    BY <1>1, <1>3, <1>5, DonorIsBefore
  <2>2. DonorOf(l) \in Layers(shape) /\ DonorOf(l) \in 0 .. (l - 1)
    BY <1>1, <1>2, <2>1
  <2>3. DonorOf(l) \in Donors(shape)
    BY <1>3, <1>5 DEF Donors
  <2>4. WindowSize(DonorOf(l)) = WindowSize(l)
    BY <1>2, <2>1, <2>2 DEF GivenInv, WindowSize, Facts
  <2> QED
    BY <1>1, <1>3, <1>5, <2>1, <2>2, <2>3, <2>4, Candidates DEF SourceOf
<1> QED
  BY <1>4, <1>5

-----------------------------------------------------------------------------
(* What a query attends to: the keys and the values of a layer in an       *)
(* interval of positions.                                                  *)

KeysFrom(l, first, next) == [s \in 1 .. (next - first) |-> Promise!Key(l, first + (s - 1))]
ValuesFrom(l, first, next) == {<<p - first, Promise!Value(l, p)>> : p \in first .. (next - 1)}

SlotsOf(keys, first) == {key.position - first : key \in ToSet(keys)}
ValuesOf(keys, first) == {<<key.position - first, key.v>> : key \in ToSet(keys)}

LEMMA KeyFields ==
  ASSUME NEW l, NEW p
  PROVE  /\ KeyAt(l, p).position = p /\ KeyAt(l, p).k = Promise!Key(l, p)
         /\ KeyAt(l, p).v = Promise!Value(l, p)
BY DEF KeyAt

(* The keys of a cache, by their places and as a set. *)
LEMMA CacheSlots ==
  ASSUME NEW l, NEW a \in Nat, NEW b \in Nat, a <= b
  PROVE  /\ \A i \in 1 .. (b - a) : /\ Cache(l, a, b)[i] = KeyAt(l, a + (i - 1))
                                    /\ Cache(l, a, b)[i].position - a = i - 1
         /\ SlotsOf(Cache(l, a, b), a) = 0 .. ((b - a) - 1)
         /\ ValuesOf(Cache(l, a, b), a) = ValuesFrom(l, a, b)
<1> DEFINE s == Cache(l, a, b)
<1>1. DOMAIN s = 1 .. (b - a) /\ b - a \in Nat
  BY CacheFacts
<1>2. \A i \in 1 .. (b - a) : s[i] = KeyAt(l, a + (i - 1))
  BY CacheKey
<1>3. \A i \in 1 .. (b - a) : s[i].position = a + (i - 1) /\ s[i].v = Promise!Value(l, a + (i - 1))
  BY <1>2, KeyFields
<1> HIDE DEF s
<1>4. ToSet(s) = {s[i] : i \in 1 .. (b - a)}
  BY <1>1 DEF ToSet
<1>5. \A i \in 1 .. (b - a) : s[i].position - a = i - 1
  BY <1>3
<1>6. SlotsOf(s, a) = 0 .. ((b - a) - 1)
  <2>1. ASSUME NEW key \in ToSet(s) PROVE key.position - a \in 0 .. ((b - a) - 1)
    BY <1>1, <1>4, <1>5
  <2>2. ASSUME NEW n \in 0 .. ((b - a) - 1) PROVE \E key \in ToSet(s) : key.position - a = n
    <3>1. n + 1 \in 1 .. (b - a)
      BY <1>1
    <3>2. s[n + 1] \in ToSet(s) /\ s[n + 1].position - a = n
      BY <1>4, <1>5, <3>1
    <3> QED
      BY <3>2
  <2> QED
    BY <2>1, <2>2 DEF SlotsOf
<1>7. ValuesOf(s, a) = ValuesFrom(l, a, b)
  <2>1. ASSUME NEW key \in ToSet(s)
        PROVE  \E p \in a .. (b - 1) : <<key.position - a, key.v>> = <<p - a, Promise!Value(l, p)>>
    <3>1. PICK i \in 1 .. (b - a) : key = s[i]
      BY <1>4
    <3>2. a + (i - 1) \in a .. (b - 1)
      BY <1>1
    <3> QED
      BY <1>3, <3>1, <3>2
  <2>2. ASSUME NEW p \in a .. (b - 1)
        PROVE  \E key \in ToSet(s) : <<key.position - a, key.v>> = <<p - a, Promise!Value(l, p)>>
    <3>1. (p - a) + 1 \in 1 .. (b - a) /\ a + (((p - a) + 1) - 1) = p
      OBVIOUS
    <3>2. s[(p - a) + 1] \in ToSet(s) /\ s[(p - a) + 1].position = p
          /\ s[(p - a) + 1].v = Promise!Value(l, p)
      BY <1>3, <1>4, <3>1
    <3> QED
      BY <3>2
  <2> QED
    BY <2>1, <2>2 DEF ValuesFrom, ValuesOf
<1> QED
  BY <1>2, <1>5, <1>6, <1>7 DEF s

(* A kernel finds its whole window in a source that holds it. *)
LEMMA KernelContextIs ==
  ASSUME NEW k, NEW a \in Nat, NEW next \in Nat, NEW p \in Nat, NEW w \in Nat,
         a <= KernelWindowStart(p, w), p < next, NEW query, query.position = p
  PROVE  LET first == KernelWindowStart(p, w)
         IN  KernelContext(query, Cache(k, a, next), w) =
               Context(query.q, KeysFrom(k, first, p + 1), ValuesFrom(k, first, p + 1))
<1> DEFINE first == KernelWindowStart(p, w)
           len == (p - first) + 1
           V == KeysAt(Cache(k, a, next), {j \in Nat : KernelVisible(p, j, w)})
           slots == SlotsOf(V, first)
           InSlot(s) == V[CHOOSE i \in DOMAIN V :
                            /\ V[i].position - first = s
                            /\ \A j \in DOMAIN V : V[j].position - first = s => j <= i]
<1>1. first \in Nat /\ first <= p
  BY Windows
<1>2. V = Cache(k, first, p + 1)
  <2>1. \A j \in a .. (next - 1) :
          j \in {m \in Nat : KernelVisible(p, m, w)} <=> (first <= j /\ j < p + 1)
    <3> SUFFICES ASSUME NEW j \in a .. (next - 1)
                 PROVE  KernelVisible(p, j, w) <=> (first <= j /\ j < p + 1)
      OBVIOUS
    <3>1. j \in Nat
      OBVIOUS
    <3>2. KernelVisible(p, j, w) <=> (first <= j /\ j <= p)
      BY <3>1, WindowSees
    <3> QED
      BY <3>1, <3>2
  <2>2. a <= first /\ first <= p + 1 /\ p + 1 <= next /\ p + 1 \in Nat
    BY <1>1
  <2> HIDE DEF first
  <2> QED
    BY <1>1, <2>1, <2>2, KeysOfInterval
<1>3. KernelContext(query, Cache(k, a, next), w) =
        IF Len(V) # len \/ ~(slots \subseteq 0 .. (len - 1)) THEN Failed
        ELSE Context(query.q, [s \in 1 .. len |-> IF s - 1 \in slots THEN InSlot(s - 1).k ELSE Failed],
                     ValuesOf(V, first))
  BY DEF KernelContext, SlotsOf, ValuesOf
<1> HIDE DEF V, first
<1>4. p + 1 \in Nat /\ first <= p + 1 /\ (p + 1) - first = len /\ len \in Nat
  BY <1>1
<1>5. Len(V) = len /\ DOMAIN V = 1 .. len
  <2>1. /\ Len(Cache(k, first, p + 1)) = (p + 1) - first
        /\ DOMAIN Cache(k, first, p + 1) = 1 .. ((p + 1) - first)
    <3>1. first \in Nat
      BY <1>1
    <3>2. p + 1 \in Nat
      BY <1>4
    <3>3. first <= p + 1
      BY <1>4
    <3>4. DOMAIN Cache(k, first, p + 1) = 1 .. ((p + 1) - first)
      BY <3>1, <3>2, <3>3, CacheFacts
    <3>5. Len(Cache(k, first, p + 1)) = (p + 1) - first
      BY <3>1, <3>2, <3>3, CacheFacts
    <3> QED
      BY <3>4, <3>5
  <2> HIDE DEF len
  <2> QED
    BY <1>2, <1>4, <2>1
<1>6. /\ \A i \in 1 .. len : V[i] = KeyAt(k, first + (i - 1)) /\ V[i].position - first = i - 1
      /\ slots = 0 .. (len - 1)
      /\ ValuesOf(V, first) = ValuesFrom(k, first, p + 1)
  <2> DEFINE C == Cache(k, first, p + 1)
  <2>1. first \in Nat
    BY <1>1
  <2>2. p + 1 \in Nat
    BY <1>4
  <2>3. first <= p + 1
    BY <1>4
  <2>4. \A i \in 1 .. ((p + 1) - first) : /\ C[i] = KeyAt(k, first + (i - 1))
                                           /\ C[i].position - first = i - 1
    BY <2>1, <2>2, <2>3, CacheSlots
  <2>5. SlotsOf(C, first) = 0 .. (((p + 1) - first) - 1)
    BY <2>1, <2>2, <2>3, CacheSlots
  <2>6. ValuesOf(C, first) = ValuesFrom(k, first, p + 1)
    BY <2>1, <2>2, <2>3, CacheSlots
  <2> HIDE DEF len
  <2> QED
    BY <1>2, <1>4, <2>4, <2>5, <2>6
<1>7. ASSUME NEW s \in 1 .. len PROVE InSlot(s - 1) = V[s]
  <2>1. \A j \in 1 .. len : V[j].position - first = s - 1 <=> j = s
    <3>1. \A j \in 1 .. len : V[j].position - first = j - 1
      BY <1>6
    <3> QED
      BY <1>4, <3>1
  <2>2. \A i \in 1 .. len :
          (/\ V[i].position - first = s - 1
           /\ \A j \in 1 .. len : V[j].position - first = s - 1 => j <= i) <=> i = s
    BY <1>4, <2>1
  <2>3. (CHOOSE i \in 1 .. len :
           /\ V[i].position - first = s - 1
           /\ \A j \in 1 .. len : V[j].position - first = s - 1 => j <= i) = s
    BY <2>2
  <2> QED
    BY <1>5, <2>3
<1> HIDE DEF InSlot, len, slots
<1>8. [s \in 1 .. len |-> IF s - 1 \in slots THEN InSlot(s - 1).k ELSE Failed] = KeysFrom(k, first, p + 1)
  <2>1. ASSUME NEW s \in 1 .. len
        PROVE  (IF s - 1 \in slots THEN InSlot(s - 1).k ELSE Failed) = Promise!Key(k, first + (s - 1))
    <3>1. s - 1 \in slots
      BY <1>4, <1>6
    <3>2. InSlot(s - 1).k = Promise!Key(k, first + (s - 1))
      BY <1>6, <1>7, KeyFields
    <3> QED
      BY <3>1, <3>2
  <2> QED
    BY <1>4, <2>1 DEF KeysFrom
<1> QED
  BY <1>3, <1>5, <1>6, <1>8 DEF first

(* And so does the direct runtime. *)
LEMMA ViewContextIs ==
  ASSUME NEW k, NEW a \in Nat, NEW next \in Nat, NEW p \in Nat, NEW w \in Nat,
         a <= KernelWindowStart(p, w), p < next, NEW query, query.position = p
  PROVE  LET first == KernelWindowStart(p, w)
         IN  ViewContext(query, Cache(k, a, next), w) =
               Context(query.q, KeysFrom(k, first, p + 1), ValuesFrom(k, first, p + 1))
<1> DEFINE first == KernelWindowStart(p, w)
           s == Cache(k, a, next)
           len == (p - first) + 1
           visible == {i \in DOMAIN s : ViewVisible(p, s[i].position, w)}
           slot(i) == s[i].position - first
           Filled(n) == {i \in visible : slot(i) = n}
           Latest(n) == CHOOSE i \in Filled(n) : \A j \in Filled(n) : j <= i
           lo == (first - a) + 1
           hi == (p - a) + 1
<1>1. first \in Nat /\ first <= p /\ a <= first /\ len \in Nat /\ (p + 1) - first = len
  <2>1. first \in 0 .. p
    BY Windows
  <2> HIDE DEF first
  <2> QED
    BY <2>1 DEF first
<1>2. ViewWindowStart(p, w) = first
  BY Windows
<1>3. DOMAIN s = 1 .. (next - a) /\ \A i \in 1 .. (next - a) : s[i] = KeyAt(k, a + (i - 1))
  <2>1. a <= next
    BY <1>1
  <2> QED
    <3>1. DOMAIN s = 1 .. (next - a)
      BY <2>1, CacheFacts
    <3>2. \A i \in 1 .. (next - a) : s[i] = KeyAt(k, a + (i - 1))
      BY CacheKey
    <3> QED
      BY <3>1, <3>2
<1>4. \A i \in 1 .. (next - a) :
        /\ s[i].position = a + (i - 1) /\ s[i].k = Promise!Key(k, a + (i - 1))
        /\ s[i].v = Promise!Value(k, a + (i - 1))
  BY <1>3, KeyFields
<1>5. ViewContext(query, s, w) =
        IF Cardinality(visible) # len THEN Failed
        ELSE Context(query.q, [n \in 1 .. len |-> IF Filled(n - 1) = {} THEN Failed ELSE s[Latest(n - 1)].k],
                     {<<slot(i), s[i].v>> : i \in visible})
  BY <1>2 DEF ViewContext
<1> HIDE DEF s, first
<1>6. visible = lo .. hi
  <2>1. ASSUME NEW i \in 1 .. (next - a) PROVE ViewVisible(p, s[i].position, w) <=> i \in lo .. hi
    <3>1. a + (i - 1) \in Nat
      OBVIOUS
    <3>2. ViewVisible(p, a + (i - 1), w) <=> (first <= a + (i - 1) /\ a + (i - 1) <= p)
      BY <3>1, WindowSees DEF first
    <3> QED
      BY <1>1, <1>4, <3>1, <3>2
  <2>2. lo .. hi \subseteq 1 .. (next - a)
    BY <1>1
  <2> QED
    BY <1>3, <2>1, <2>2
<1> HIDE DEF visible
<1>7. Cardinality(visible) = len
  <2>1. lo \in Int /\ hi \in Int /\ ~(lo > hi) /\ (hi - lo) + 1 = len
    BY <1>1
  <2> HIDE DEF lo, hi, len
  <2>2. Cardinality(lo .. hi) = IF lo > hi THEN 0 ELSE (hi - lo) + 1
    BY <2>1, FS_Interval
  <2> QED
    BY <1>6, <2>1, <2>2
<1>8. \A i \in visible : i \in 1 .. (next - a) /\ slot(i) = (a + (i - 1)) - first
  BY <1>1, <1>4, <1>6
<1>9. ASSUME NEW n \in 1 .. len
      PROVE  (IF Filled(n - 1) = {} THEN Failed ELSE s[Latest(n - 1)].k) = Promise!Key(k, first + (n - 1))
  <2> DEFINE i == (first - a) + n
  <2>1. i \in visible /\ i \in 1 .. (next - a) /\ a + (i - 1) = first + (n - 1)
    BY <1>1, <1>6
  <2>2. \A j \in visible : slot(j) = n - 1 <=> j = i
    BY <1>1, <1>6, <1>8
  <2> HIDE DEF i
  <2>3. Filled(n - 1) = {i}
    BY <2>1, <2>2
  <2>4. Latest(n - 1) = CHOOSE j \in {i} : \A m \in {i} : m <= j
    BY <2>3
  <2>5. Latest(n - 1) = i
    BY <2>1, <2>4
  <2> QED
    BY <1>4, <2>1, <2>3, <2>5
<1>10. [n \in 1 .. len |-> IF Filled(n - 1) = {} THEN Failed ELSE s[Latest(n - 1)].k] = KeysFrom(k, first, p + 1)
  <2> HIDE DEF len, Filled, Latest
  <2> QED
    BY <1>1, <1>9 DEF KeysFrom
<1>11. {<<slot(i), s[i].v>> : i \in visible} = ValuesFrom(k, first, p + 1)
  <2>1. ASSUME NEW i \in visible
        PROVE  \E j \in first .. ((p + 1) - 1) : <<slot(i), s[i].v>> = <<j - first, Promise!Value(k, j)>>
    <3>1. a + (i - 1) \in first .. ((p + 1) - 1)
      BY <1>1, <1>6
    <3> QED
      BY <1>4, <1>8, <3>1
  <2>2. ASSUME NEW j \in first .. ((p + 1) - 1)
        PROVE  \E i \in visible : <<slot(i), s[i].v>> = <<j - first, Promise!Value(k, j)>>
    <3>1. (j - a) + 1 \in visible /\ a + (((j - a) + 1) - 1) = j
      BY <1>1, <1>6
    <3>2. slot((j - a) + 1) = j - first /\ s[(j - a) + 1].v = Promise!Value(k, j)
      BY <1>4, <1>8, <3>1
    <3> QED
      BY <3>1, <3>2
  <2> HIDE DEF slot
  <2> QED
    BY <2>1, <2>2 DEF ValuesFrom
<1> QED
  BY <1>5, <1>7, <1>10, <1>11 DEF first, s

-----------------------------------------------------------------------------
(* The promise attends to the same interval.                               *)

WindowFirst(l, p) == KernelWindowStart(p, WindowSize(l))
Attended(l, p) ==
  Context(Promise!Query(l, p), KeysFrom(SourceOf(l), WindowFirst(l, p), p + 1),
          ValuesFrom(SourceOf(l), WindowFirst(l, p), p + 1))

LEMMA PromisedContext ==
  ASSUME GivenInv, NEW l \in Layers(shape), NEW p \in Nat
  PROVE  Promise!Attended(l, p) = Attended(l, p)
<1> DEFINE K == SourceOf(l)
           lo == WindowFirst(l, p)
           seen == Promise!Seen(l, p)
           least == CHOOSE k \in seen : \A j \in seen : k <= j
<1>1. Promise!WindowOf(l) = WindowSize(l) /\ WindowSize(l) \in Nat
  <2>1. facts[l] = Facts(shape, l) /\ WindowSize(l) \in Nat
    BY GivenFacts
  <2> QED
    BY <2>1 DEF Promise!WindowOf, WindowSize, Facts
<1>2. Promise!KeysOf(l) = K
  <2>1. Promise!KvDonor(shape, l) = KvDonor(shape, l)
    BY DEF Promise!KvDonor, KvDonor, Promise!FirstShared, FirstShared
  <2>2. DonorOf(l) = KvDonor(shape, l)
    BY DonorFacts
  <2> QED
    BY <2>1, <2>2 DEF Promise!KeysOf, SourceOf
<1>3. lo \in Nat /\ lo <= p
  <2>1. KernelWindowStart(p, WindowSize(l)) \in 0 .. p
    BY <1>1, Windows
  <2> QED
    BY <2>1 DEF WindowFirst
<1>4. seen = lo .. p
  <2>1. \A k \in 0 .. p : (WindowSize(l) = 0 \/ k > p - WindowSize(l)) <=> lo <= k
    BY <1>1 DEF WindowFirst, KernelWindowStart
  <2> HIDE DEF lo
  <2> QED
    BY <1>1, <1>3, <2>1 DEF Promise!Seen
<1> HIDE DEF seen, lo
<1>5. least = lo
  BY <1>3, <1>4
<1>6. Cardinality(seen) = (p + 1) - lo
  <2>1. Cardinality(lo .. p) = IF lo > p THEN 0 ELSE p - lo + 1
    BY <1>3, FS_Interval
  <2> QED
    BY <1>3, <1>4, <2>1
<1>7. Promise!Attended(l, p) =
        Promise!Context(Promise!Query(l, p),
                        [i \in 1 .. Cardinality(seen) |-> Promise!Key(K, least + (i - 1))],
                        {<<k - least, Promise!Value(K, k)>> : k \in seen})
  <2>1. Promise!Attended(l, p) =
          Promise!Context(Promise!Query(l, p),
            [i \in 1 .. Cardinality(seen) |-> Promise!Key(Promise!KeysOf(l), least + (i - 1))],
            {<<k - least, Promise!Value(Promise!KeysOf(l), k)>> : k \in seen})
    <3>1. Promise!Cardinality(seen) = Cardinality(seen)
      BY Zenon DEF Promise!Cardinality, Cardinality
    <3> QED
      BY <3>1, Zenon DEF Promise!Attended, seen
  <2> QED
    BY <1>2, <2>1
<1>8. [i \in 1 .. Cardinality(seen) |-> Promise!Key(K, least + (i - 1))] = KeysFrom(K, lo, p + 1)
  <2> HIDE DEF least
  <2> QED
    BY <1>5, <1>6 DEF KeysFrom
<1>9. {<<k - least, Promise!Value(K, k)>> : k \in seen} = ValuesFrom(K, lo, p + 1)
  <2> HIDE DEF least
  <2>1. (p + 1) - 1 = p
    OBVIOUS
  <2> QED
    BY <1>4, <1>5, <2>1 DEF ValuesFrom
<1>10. \A q, keys, values : Promise!Context(q, keys, values) = Context(q, keys, values)
  BY SameTerms
<1> QED
  BY <1>7, <1>8, <1>9, <1>10 DEF Attended, lo

-----------------------------------------------------------------------------
(* The rest of a row.                                                      *)

RowFrom(l, context, residual, ple0) ==
  LET attn == Plus(Norm(l, "post_attn", Of(l, "w_o", context)), residual)
      ff == Norm(l, "pre_ffw", attn)
      hidden == Times(Gelu(Of(l, "w_gate", ff)), Of(l, "w_up", ff))
      xs == Plus(Norm(l, "post_ffw", Of(l, "w_down", hidden)), attn)
      gated == Times(Gelu(Of(l, "ple_gate", xs)), ple0)
  IN  Scale("layer", Plus(Norm(l, "ple_post", Of(l, "ple_out", gated)), xs))

LEMMA PromisedOf == \A l, name, x : Promise!Of(l, name, x) = Of(l, name, x)
BY SameTerms DEF Promise!Of, Of

LEMMA PromisedPle ==
  ASSUME NEW l, NEW p
  PROVE  /\ Promise!PerLayer(l, p) =
              Scale("input", Plus(Scale("embedding", Embedding(l, p)),
                                  Norm(l, "ple", Scale("projection", Of(l, "ple", Row(0, p))))))
         /\ Promise!PerLayer(l, p) # Failed
BY SameTerms, PromisedOf, NotFailed DEF Promise!PerLayer

LEMMA PromisedRow ==
  ASSUME NEW l, NEW p
  PROVE  /\ Promise!Computed(l, p) =
              RowFrom(l, Promise!Attended(l, p), Row(l, p), Promise!PerLayer(l, p))
         /\ Promise!Computed(l, p) # Failed
BY SameTerms, PromisedOf, NotFailed DEF Promise!Computed, RowFrom

LEMMA KernelRowIs ==
  ASSUME threads \in Nat, threads > 0, NEW f, NEW query, NEW context, NEW ple0
  PROVE  /\ KernelFinish(f, KernelMlp(f, KernelResidual(f, query, context)), ple0)
              = RowFrom(f.layer, context, query.residual, ple0)
         /\ ViewClosed(f, query, context, ple0) = RowFrom(f.layer, context, query.residual, ple0)
<1>1. \A l, name, x : NativeProduct(l, name, x) = Of(l, name, x)
  BY NativeIsWhole DEF Of
<1>2. KernelFinish(f, KernelMlp(f, KernelResidual(f, query, context)), ple0)
        = RowFrom(f.layer, context, query.residual, ple0)
  BY <1>1 DEF KernelFinish, KernelMlp, KernelResidual, RowFrom
<1>3. ViewClosed(f, query, context, ple0) = RowFrom(f.layer, context, query.residual, ple0)
  BY <1>1 DEF ViewClosed, RowFrom
<1> QED
  BY <1>2, <1>3

ClosingFails == \E w \in ClosingMatrices : TileFails(w)

LEMMA TileRowIs ==
  ASSUME ~ClosingFails, NEW l, NEW query, NEW context, context # Failed, NEW ple0
  PROVE  TileRow(l, query, context, ple0) = RowFrom(l, context, query.residual, ple0)
<1>1. \A x : x # Failed => /\ TileProduct(l, "w_o", x) = Of(l, "w_o", x)
                           /\ TileProduct(l, "w_gate", x) = Of(l, "w_gate", x)
                           /\ TileProduct(l, "w_up", x) = Of(l, "w_up", x)
                           /\ TileProduct(l, "w_down", x) = Of(l, "w_down", x)
                           /\ TileProduct(l, "ple_gate", x) = Of(l, "ple_gate", x)
                           /\ TileProduct(l, "ple_out", x) = Of(l, "ple_out", x)
  <2>1. \A w \in ClosingMatrices : ~TileFails(w)
    BY DEF ClosingFails
  <2>2. \A w \in ClosingMatrices : \A x : x # Failed => TileProduct(l, w, x) = Of(l, w, x)
    BY <2>1, TileIsWhole DEF Of
  <2> QED
    BY <2>2 DEF ClosingMatrices
<1> DEFINE attn == AttnResidual(l, query, context)
           xs == FinishMlp(l, attn)
<1>2. attn = Plus(Norm(l, "post_attn", Of(l, "w_o", context)), query.residual)
  BY <1>1 DEF AttnResidual
<1>3. GatedMlp(l, Norm(l, "pre_ffw", attn)) =
        Times(Gelu(Of(l, "w_gate", Norm(l, "pre_ffw", attn))), Of(l, "w_up", Norm(l, "pre_ffw", attn)))
  BY <1>1, NotFailed DEF GatedMlp
<1>4. xs = Plus(Norm(l, "post_ffw", Of(l, "w_down", GatedMlp(l, Norm(l, "pre_ffw", attn)))), attn)
  BY <1>1, <1>3, NotFailed DEF FinishMlp
<1>5. xs # Failed
  BY <1>4, NotFailed
<1>6. PleGated(l, xs, ple0) = Times(Gelu(Of(l, "ple_gate", xs)), ple0)
  BY <1>1, <1>5 DEF PleGated
<1>7. FinishLayer(l, xs, ple0) =
        Scale("layer", Plus(Norm(l, "ple_post", Of(l, "ple_out", PleGated(l, xs, ple0))), xs))
  BY <1>1, <1>6, NotFailed DEF FinishLayer
<1>8. TileRow(l, query, context, ple0) = FinishLayer(l, xs, ple0)
  BY DEF TileRow, ClosingFails
<1> HIDE DEF attn, xs
<1> QED
  BY <1>2, <1>3, <1>4, <1>6, <1>7, <1>8 DEF RowFrom

LEMMA PreparedIs ==
  ASSUME threads \in Nat, threads > 0, NEW how \in Executors, NEW l, NEW p,
         ~(how = "tiles" /\ TileFails("ple"))
  PROVE  PreparedRow(how, l, Row(0, p), Embedding(l, p)) = Promise!PerLayer(l, p)
<1>1. \A name, x : NativeProduct(l, name, x) = Of(l, name, x)
  BY NativeIsWhole DEF Of
<1>2. how = "tiles" => TileProduct(l, "ple", Row(0, p)) = Of(l, "ple", Row(0, p))
  BY TileIsWhole, NotFailed DEF Of
<1>3. how \in {"view", "kernel", "tiles"}
  BY DEF Executors
<1>4. CASE how = "view"
  BY <1>1, <1>4, PromisedPle DEF PreparedRow, ViewPle
<1>5. CASE how = "kernel"
  BY <1>1, <1>5, PromisedPle DEF PreparedRow, KernelPle
<1>6. CASE how = "tiles"
  BY <1>2, <1>6, PromisedPle DEF PreparedRow, TilePle
<1> QED
  BY <1>3, <1>4, <1>5, <1>6

-----------------------------------------------------------------------------
(* A borrower reads the cache of its donor, whole.                         *)

LEMMA BoundDonorIs ==
  ASSUME LayerInv, wiring = "imported", layer < shape.layers, DonorOf(layer) # -1
  PROVE  BoundDonor(DonorOf(layer)) = Cache(DonorOf(layer), FirstSeen(layer), start + count)
<1> DEFINE d == DonorOf(layer)
<1>1. layer \in Layers(shape)
  BY GivenFacts DEF LayerInv, PassInv
<1>2. d \in 0 .. (layer - 1) /\ layer >= FirstShared(shape) /\ WindowSize(d) = WindowSize(layer)
  BY <1>1, DonorFacts DEF LayerInv, SourceOf
<1>3. FirstShared(shape) \in Nat
  BY PassAssumption DEF LayerInv, GivenInv, Importable, IsShape, FirstShared
<1> HIDE DEF d
<1>4. DOMAIN caches = 0 .. (layer - 1) /\ caches[d] = Cache(d, FirstSeen(d), start + count)
  BY <1>2 DEF LayerInv, CachesInv
<1>5. FirstSeen(d) = FirstSeen(layer)
  BY <1>2 DEF FirstSeen
<1>6. d >= 0 /\ ~(layer < FirstShared(shape))
  BY <1>1, <1>2, <1>3 DEF LayerInv, PassInv
<1>7. BoundDonor(d) = caches[d]
  BY <1>2, <1>4, <1>6 DEF BoundDonor
<1> QED
  BY <1>4, <1>5, <1>7 DEF d

-----------------------------------------------------------------------------
(* How far a sweep of the tiles has come.                                  *)

Upto(i, list, at, lo, hi) ==
  IF list < i THEN lo ELSE IF list = i /\ lo + at < hi THEN lo + at ELSE hi

(* The position up to which the source of a query was swept. *)
SweptAt(first, list, at) ==
  IF DonorOf(layer) = -1
  THEN IF list = 1 THEN Upto(1, list, at, first, start) ELSE Upto(2, list, at, start, start + count)
  ELSE Upto(IF DonorOf(layer) = F.a THEN 3 ELSE 4, list, at, FirstSeen(layer), start + count)

LEMMA ChunkOfCache ==
  ASSUME NEW l, NEW lo \in Nat, NEW hi \in Nat, lo <= hi, NEW at \in Nat, at < hi - lo
  PROVE  /\ Len(Cache(l, lo, hi)) = hi - lo
         /\ Chunk(Cache(l, lo, hi), at) =
              Cache(l, lo + at, IF lo + (at + ChunkSize) < hi THEN lo + (at + ChunkSize) ELSE hi)
<1> DEFINE s == Cache(l, lo, hi)
           n == hi - lo
           end == IF at + ChunkSize < n THEN at + ChunkSize ELSE n
<1>1. Len(s) = n /\ ChunkSize \in Nat
  BY CacheFacts, PassAssumption
<1>2. Chunk(s, at) = Part(s, at, end)
  BY <1>1 DEF Chunk, Part
<1>3. end \in Nat /\ at <= end /\ lo + end <= hi
  BY <1>1
<1>4. lo + end = IF lo + (at + ChunkSize) < hi THEN lo + (at + ChunkSize) ELSE hi
  BY <1>1
<1> HIDE DEF end
<1>5. Part(s, at, end) = Cache(l, lo + at, lo + end)
  BY <1>3, CacheSub
<1> QED
  BY <1>1, <1>2, <1>4, <1>5

(* The lists that a query's tiles sweep: those of its source hold it, one  *)
(* behind the other.                                                       *)
Weighing(first) ==
  /\ LayerInv /\ wiring = "imported" /\ layer < shape.layers /\ count > 0
  /\ PriorIs(layer, first) /\ tile.keys = Cache(layer, start, start + count)
  /\ tile.list \in 1 .. 5 /\ tile.at \in Nat

LEMMA ListsAre ==
  ASSUME NEW first, Weighing(first)
  PROVE  /\ first \in Nat /\ first <= start /\ start \in Nat /\ count \in Nat
         /\ FirstSeen(layer) \in Nat /\ FirstSeen(layer) <= start /\ first <= FirstSeen(layer)
         /\ DonorOf(layer) = -1 =>
              /\ Lists[1] = Cache(layer, first, start)
              /\ Lists[2] = Cache(layer, start, start + count)
              /\ \A i \in 1 .. 4 : SourceLayers[i] = DonorOf(layer) <=> i \in {1, 2}
         /\ DonorOf(layer) # -1 =>
              \E i \in {3, 4} :
                /\ i = IF DonorOf(layer) = F.a THEN 3 ELSE 4
                /\ Lists[i] = Cache(DonorOf(layer), FirstSeen(layer), start + count)
                /\ \A j \in 1 .. 4 : SourceLayers[j] = DonorOf(layer) <=> j = i
<1>1. layer \in Layers(shape) /\ start \in Nat /\ count \in Nat
  BY GivenFacts DEF Weighing, LayerInv, PassInv
<1>2. FirstSeen(layer) \in Nat /\ FirstSeen(layer) <= start
  BY <1>1, FirstSeenIs DEF Weighing, LayerInv
<1>3. first \in 0 .. FirstSeen(layer) /\ PriorOf(layer) = Cache(layer, first, start)
  BY DEF Weighing, PriorIs
<1>4. first \in Nat /\ first <= start /\ first <= FirstSeen(layer)
  BY <1>1, <1>2, <1>3
<1>5. /\ F.a # -1 /\ F.b # -1 /\ F.a # F.b
      /\ DonorOf(layer) # -1 => DonorOf(layer) \in {F.a, F.b}
  BY <1>1, DonorFacts DEF Weighing, LayerInv, F
<1>6. CASE DonorOf(layer) = -1
  <2>1. Lists[1] = PriorOf(layer) /\ Lists[2] = tile.keys
    BY DEF Lists
  <2>2. \A i \in 1 .. 4 : SourceLayers[i] = -1 <=> i \in {1, 2}
    BY <1>5 DEF SourceLayers
  <2> QED
    BY <1>1, <1>2, <1>3, <1>4, <1>6, <2>1, <2>2 DEF Weighing
<1>7. CASE DonorOf(layer) # -1
  <2>1. BoundDonor(DonorOf(layer)) = Cache(DonorOf(layer), FirstSeen(layer), start + count)
    BY <1>7, BoundDonorIs DEF Weighing
  <2> DEFINE i == IF DonorOf(layer) = F.a THEN 3 ELSE 4
  <2>2. Lists[i] = BoundDonor(DonorOf(layer))
    BY <1>5, <1>7 DEF Lists
  <2>3. \A j \in 1 .. 4 : SourceLayers[j] = DonorOf(layer) <=> j = i
    BY <1>5, <1>7 DEF SourceLayers
  <2> QED
    BY <1>1, <1>2, <1>4, <1>7, <2>1, <2>2, <2>3
<1> QED
  BY <1>6, <1>7

(* A list that holds an interval is swept chunk by chunk. *)
SweptInChunks(l, i, at, lo, hi) ==
  LET s == Cache(l, lo, hi)
      x == Upto(i, i, at, lo, hi)
      y == Upto(i, i, at + ChunkSize, lo, hi)
  IN  /\ x \in Nat /\ y \in Nat /\ x <= y
      /\ at < Len(s) => Chunk(s, at) = Cache(l, x, y)
      /\ ~(at < Len(s)) => x = hi

LEMMA SweepOfList ==
  ASSUME NEW l, NEW lo \in Nat, NEW hi \in Nat, lo <= hi, NEW at \in Nat, NEW i \in 1 .. 4
  PROVE  SweptInChunks(l, i, at, lo, hi)
<1> DEFINE s == Cache(l, lo, hi)
           x == Upto(i, i, at, lo, hi)
           y == Upto(i, i, at + ChunkSize, lo, hi)
<1>1. Len(s) = hi - lo
  BY CacheFacts
<1>2. ChunkSize \in Nat /\ ChunkSize > 0
  BY PassAssumption
<1>3. /\ x = IF lo + at < hi THEN lo + at ELSE hi
      /\ y = IF lo + (at + ChunkSize) < hi THEN lo + (at + ChunkSize) ELSE hi
  BY DEF Upto
<1>4. x \in Nat /\ y \in Nat /\ x <= y
  BY <1>2, <1>3
<1>5. ASSUME at < Len(s) PROVE Chunk(s, at) = Cache(l, x, y)
  <2>1. at < hi - lo /\ x = lo + at
    BY <1>1, <1>3, <1>5
  <2>2. Chunk(s, at) =
          Cache(l, lo + at, IF lo + (at + ChunkSize) < hi THEN lo + (at + ChunkSize) ELSE hi)
    BY <2>1, ChunkOfCache
  <2> QED
    BY <1>3, <2>1, <2>2
<1>6. ~(at < Len(s)) => x = hi
  BY <1>1, <1>3
<1> QED
  BY <1>4, <1>5, <1>6 DEF SweptInChunks

LEMMA SweepMoves ==
  ASSUME NEW first, Weighing(first)
  PROVE  LET x == SweptAt(first, tile.list, tile.at)
             y == SweptAt(first, tile.list, tile.at + ChunkSize)
         IN  /\ x \in Nat /\ y \in Nat /\ x <= y
             /\ tile.list <= 4 /\ AtChunk => TheChunk = Cache(SourceOf(layer), x, y)
             /\ tile.list <= 4 /\ ~AtChunk => SweptAt(first, tile.list + 1, 0) = x
<1> DEFINE n == tile.list
           at == tile.at
           x == SweptAt(first, n, at)
           y == SweptAt(first, n, at + ChunkSize)
           D == DonorOf(layer)
           K == SourceOf(layer)
           seen == FirstSeen(layer)
           next == start + count
<1>1. /\ first \in Nat /\ first <= start /\ start \in Nat /\ next \in Nat /\ start < next
      /\ seen \in Nat /\ seen <= start /\ first <= seen /\ start <= next /\ seen <= next
      /\ n \in 1 .. 5 /\ at \in Nat
  BY ListsAre DEF Weighing
<1>2. F.donor = D /\ K = IF D = -1 THEN layer ELSE D
  BY DEF F, DonorOf, SourceOf
<1>3. \A l, z : z \in Nat => Cache(l, z, z) = <<>>
  BY EmptyCache
<1>4. TheChunk = IF SourceLayers[n] = D THEN Chunk(Lists[n], at) ELSE <<>>
  BY <1>2 DEF TheChunk
<1>5. AtChunk <=> at < Len(Lists[n])
  BY DEF AtChunk
<1> HIDE DEF D, K, seen, next
<1>6. CASE D = -1
  <2>1. /\ Lists[1] = Cache(layer, first, start) /\ Lists[2] = Cache(layer, start, next)
        /\ \A i \in 1 .. 4 : SourceLayers[i] = D <=> i \in {1, 2}
    BY <1>6, ListsAre DEF D, next
  <2>2. \A l, a : SweptAt(first, l, a) =
                    IF l = 1 THEN Upto(1, l, a, first, start) ELSE Upto(2, l, a, start, next)
    BY <1>6 DEF SweptAt, D, next
  <2> HIDE DEF n, at
  <2>3. CASE n = 1
    <3>1. SweptInChunks(layer, 1, at, first, start)
      <4>1. first \in Nat /\ start \in Nat /\ first <= start /\ at \in Nat /\ 1 \in 1 .. 4
        BY <1>1
      <4> QED
        BY <4>1, SweepOfList
    <3>2. x = Upto(1, 1, at, first, start) /\ y = Upto(1, 1, at + ChunkSize, first, start)
      BY <2>2, <2>3
    <3>3. SweptAt(first, n + 1, 0) = start
      BY <1>1, <2>2, <2>3 DEF Upto
    <3> HIDE DEF x, y
    <3>5. x \in Nat /\ y \in Nat /\ x <= y
      BY <3>1, <3>2 DEF SweptInChunks
    <3>6. AtChunk => TheChunk = Cache(K, x, y)
      BY <1>2, <1>4, <1>5, <1>6, <2>1, <2>3, <3>1, <3>2 DEF SweptInChunks
    <3>7. ~AtChunk => SweptAt(first, n + 1, 0) = x
      BY <1>5, <2>1, <2>3, <3>1, <3>2, <3>3 DEF SweptInChunks
    <3> QED
      BY <3>5, <3>6, <3>7 DEF n, at, x, y, K
  <2>4. CASE n = 2
    <3>1. SweptInChunks(layer, 2, at, start, next)
      <4>1. start \in Nat /\ next \in Nat /\ start <= next /\ at \in Nat /\ 2 \in 1 .. 4
        BY <1>1
      <4> QED
        BY <4>1, SweepOfList
    <3>2. x = Upto(2, 2, at, start, next) /\ y = Upto(2, 2, at + ChunkSize, start, next)
      BY <2>2, <2>4
    <3>3. SweptAt(first, n + 1, 0) = next
      BY <1>1, <2>2, <2>4 DEF Upto
    <3> HIDE DEF x, y
    <3>5. x \in Nat /\ y \in Nat /\ x <= y
      BY <3>1, <3>2 DEF SweptInChunks
    <3>6. AtChunk => TheChunk = Cache(K, x, y)
      BY <1>2, <1>4, <1>5, <1>6, <2>1, <2>4, <3>1, <3>2 DEF SweptInChunks
    <3>7. ~AtChunk => SweptAt(first, n + 1, 0) = x
      BY <1>5, <2>1, <2>4, <3>1, <3>2, <3>3 DEF SweptInChunks
    <3> QED
      BY <3>5, <3>6, <3>7 DEF n, at, x, y, K
  <2>5. CASE n \in 3 .. 5
    <3>1. x = next /\ y = next /\ SweptAt(first, n + 1, 0) = next
      BY <1>1, <2>2, <2>5 DEF Upto
    <3>2. n <= 4 => TheChunk = <<>>
      BY <1>4, <2>1, <2>5
    <3> QED
      BY <1>1, <1>3, <3>1, <3>2 DEF n, at
  <2> QED
    BY <1>1, <2>3, <2>4, <2>5 DEF n, at
<1>7. CASE D # -1
  <2>1. PICK i \in {3, 4} : /\ i = IF D = F.a THEN 3 ELSE 4
                            /\ Lists[i] = Cache(D, seen, next)
                            /\ \A j \in 1 .. 4 : SourceLayers[j] = D <=> j = i
    BY <1>7, ListsAre DEF D, next, seen
  <2>2. \A l, a : SweptAt(first, l, a) = Upto(i, l, a, seen, next)
    BY <1>7, <2>1 DEF SweptAt, D, seen, next
  <2> HIDE DEF n, at
  <2>3. CASE n = i
    <3>1. SweptInChunks(D, i, at, seen, next)
      <4>1. seen \in Nat /\ next \in Nat /\ seen <= next /\ at \in Nat /\ i \in 1 .. 4
        BY <1>1
      <4> QED
        BY <4>1, SweepOfList
    <3>2. x = Upto(i, i, at, seen, next) /\ y = Upto(i, i, at + ChunkSize, seen, next)
      BY <2>2, <2>3
    <3>3. SweptAt(first, n + 1, 0) = next
      BY <1>1, <2>2, <2>3 DEF Upto
    <3>4. SourceLayers[n] = D
      BY <2>1, <2>3
    <3> HIDE DEF x, y
    <3>5. x \in Nat /\ y \in Nat /\ x <= y
      BY <3>1, <3>2 DEF SweptInChunks
    <3>6. AtChunk => TheChunk = Cache(K, x, y)
      BY <1>2, <1>4, <1>5, <1>7, <2>1, <2>3, <3>1, <3>2, <3>4 DEF SweptInChunks
    <3>7. ~AtChunk => SweptAt(first, n + 1, 0) = x
      BY <1>5, <2>1, <2>3, <3>1, <3>2, <3>3 DEF SweptInChunks
    <3> QED
      BY <3>5, <3>6, <3>7 DEF n, at, x, y, K
  <2>4. CASE n < i
    <3>1. x = seen /\ y = seen /\ SweptAt(first, n + 1, 0) = seen
      BY <1>1, <2>1, <2>2, <2>4 DEF Upto
    <3>2. TheChunk = <<>>
      BY <1>1, <1>4, <2>1, <2>4
    <3> QED
      BY <1>1, <1>3, <3>1, <3>2 DEF n, at
  <2>5. CASE n > i
    <3>1. x = next /\ y = next /\ SweptAt(first, n + 1, 0) = next
      BY <1>1, <2>1, <2>2, <2>5 DEF Upto
    <3>2. n <= 4 => TheChunk = <<>>
      BY <1>1, <1>4, <2>1, <2>5
    <3> QED
      BY <1>1, <1>3, <3>1, <3>2 DEF n, at
  <2> QED
    BY <1>1, <2>1, <2>3, <2>4, <2>5 DEF n, at
<1> QED
  BY <1>6, <1>7

(* A sweep begins before the window of any query and ends after it. *)
LEMMA SweepEnds ==
  ASSUME LayerInv, layer < shape.layers, NEW first, PriorIs(layer, first)
  PROVE  /\ SweptAt(first, 1, 0) \in Nat /\ SweptAt(first, 1, 0) <= FirstSeen(layer)
         /\ count > 0 => SweptAt(first, 5, 0) = start + count
<1>1. layer \in Layers(shape) /\ start \in Nat /\ count \in Nat
  BY GivenFacts DEF LayerInv, PassInv
<1>2. FirstSeen(layer) \in Nat /\ FirstSeen(layer) <= start
  BY <1>1, FirstSeenIs DEF LayerInv
<1>3. first \in 0 .. FirstSeen(layer)
  BY DEF PriorIs
<1> HIDE DEF FirstSeen
<1> QED
  BY <1>1, <1>2, <1>3 DEF SweptAt, Upto

-----------------------------------------------------------------------------
(* The state of a query after its source was swept up to a position.       *)

Within(first, p, x) == IF x < first THEN first ELSE IF x > p THEN p + 1 ELSE x
ScoredTo(k, first, p, x) ==
  [scores |-> [s \in 1 .. ((p + 1) - first) |->
                 IF first + (s - 1) < x THEN Promise!Key(k, first + (s - 1)) ELSE Failed],
   filled |-> x - first]

LEMMA PushIs ==
  ASSUME NEW k, NEW p \in Nat, NEW w \in Nat, NEW query, query.position = p, NEW x \in Nat
  PROVE  LET first == KernelWindowStart(p, w)
         IN  PushScore(ScoredTo(k, first, p, Within(first, p, x)), query, KeyAt(k, x), w)
               = ScoredTo(k, first, p, Within(first, p, x + 1))
<1> DEFINE first == KernelWindowStart(p, w)
           before == ScoredTo(k, first, p, Within(first, p, x))
           after == ScoredTo(k, first, p, Within(first, p, x + 1))
           len == (p + 1) - first
<1>1. first \in 0 .. p /\ TileWindowStart(p, w) = first
      /\ (TileVisible(p, x, w) <=> first <= x /\ x <= p)
  BY Windows, WindowSees
<1>2. KeyAt(k, x).position = x /\ KeyAt(k, x).k = Promise!Key(k, x)
  BY KeyFields
<1> HIDE DEF first
<1>3. CASE ~(first <= x /\ x <= p)
  <2>1. PushScore(before, query, KeyAt(k, x), w) = before
    BY <1>1, <1>2, <1>3 DEF PushScore
  <2>2. Within(first, p, x) = Within(first, p, x + 1)
    BY <1>1, <1>3 DEF Within
  <2> QED
    BY <2>1, <2>2 DEF first
<1>4. CASE first <= x /\ x <= p
  <2>1. Within(first, p, x) = x /\ Within(first, p, x + 1) = x + 1
    BY <1>1, <1>4 DEF Within
  <2>2. Slot(query, KeyAt(k, x), w) + 1 = (x - first) + 1
    BY <1>1, <1>2 DEF Slot
  <2>3. PushScore(before, query, KeyAt(k, x), w) =
          [scores |-> [before.scores EXCEPT ![(x - first) + 1] = Promise!Key(k, x)],
           filled |-> before.filled + 1]
    BY <1>1, <1>2, <1>4, <2>2 DEF PushScore
  <2>4. before.filled + 1 = after.filled
    BY <1>1, <2>1 DEF ScoredTo
  <2>5. [before.scores EXCEPT ![(x - first) + 1] = Promise!Key(k, x)] = after.scores
    <3>1. before.scores = [s \in 1 .. len |-> IF first + (s - 1) < x THEN Promise!Key(k, first + (s - 1)) ELSE Failed]
      BY <2>1 DEF ScoredTo
    <3>2. after.scores = [s \in 1 .. len |-> IF first + (s - 1) < x + 1 THEN Promise!Key(k, first + (s - 1)) ELSE Failed]
      BY <2>1 DEF ScoredTo
    <3>3. ASSUME NEW s \in 1 .. len
          PROVE  (IF s = (x - first) + 1 THEN Promise!Key(k, x)
                  ELSE IF first + (s - 1) < x THEN Promise!Key(k, first + (s - 1)) ELSE Failed)
                 = IF first + (s - 1) < x + 1 THEN Promise!Key(k, first + (s - 1)) ELSE Failed
      <4>1. CASE s = (x - first) + 1
        <5>1. first + (s - 1) = x /\ x < x + 1
          BY <1>1, <4>1
        <5> QED
          BY <4>1, <5>1
      <4>2. CASE s # (x - first) + 1
        <5>1. first + (s - 1) < x <=> first + (s - 1) < x + 1
          BY <1>1, <4>2
        <5> QED
          BY <4>2, <5>1
      <4> QED
        BY <4>1, <4>2
    <3> DEFINE old(i) == IF first + (i - 1) < x THEN Promise!Key(k, first + (i - 1)) ELSE Failed
               new(i) == IF first + (i - 1) < x + 1 THEN Promise!Key(k, first + (i - 1)) ELSE Failed
    <3>4. /\ before.scores = [i \in 1 .. len |-> old(i)] /\ after.scores = [i \in 1 .. len |-> new(i)]
          /\ \A i \in 1 .. len : (IF i = (x - first) + 1 THEN Promise!Key(k, x) ELSE old(i)) = new(i)
      BY <3>1, <3>2, <3>3
    <3> HIDE DEF len, old, new, before, after
    <3> QED
      BY <3>4
  <2>6. after = [scores |-> after.scores, filled |-> after.filled]
    BY DEF ScoredTo
  <2> QED
    BY <2>3, <2>4, <2>5, <2>6 DEF first
<1> QED
  BY <1>3, <1>4

(* A chunk of the source scores its part of the window. *)
LEMMA ScoresMove ==
  ASSUME NEW k, NEW p \in Nat, NEW w \in Nat, NEW query, query.position = p,
         NEW x \in Nat, NEW y \in Nat, x <= y
  PROVE  LET first == KernelWindowStart(p, w)
         IN  ScoreKeys(ScoredTo(k, first, p, Within(first, p, x)), query, Cache(k, x, y), w)
               = ScoredTo(k, first, p, Within(first, p, y))
<1> DEFINE first == KernelWindowStart(p, w)
           s == ScoredTo(k, first, p, Within(first, p, x))
           keys == Cache(k, x, y)
           n == y - x
           step(g) == [m \in 0 .. Len(keys) |->
                         IF m = 0 THEN s ELSE PushScore(g[m - 1], query, keys[m], w)]
           scored == CHOOSE g : g = step(g)
           explicit == [m \in 0 .. n |-> ScoredTo(k, first, p, Within(first, p, x + m))]
<1>1. n \in Nat /\ Len(keys) = n
  BY CacheFacts
<1>2. \A m \in 1 .. n : keys[m] = KeyAt(k, x + (m - 1))
  BY CacheKey
<1> HIDE DEF keys
<1>3. explicit[0] = s /\ explicit[n] = ScoredTo(k, first, p, Within(first, p, y))
  <2>1. x + 0 = x /\ x + n = y
    BY <1>1
  <2> QED
    BY <1>1, <2>1
<1>4. ASSUME NEW m \in 1 .. n
      PROVE  explicit[m] = PushScore(explicit[m - 1], query, keys[m], w)
  <2>1. m - 1 \in 0 .. n /\ m \in 0 .. n /\ x + (m - 1) \in Nat /\ (x + (m - 1)) + 1 = x + m
    BY <1>1
  <2>2. PushScore(ScoredTo(k, first, p, Within(first, p, x + (m - 1))), query, KeyAt(k, x + (m - 1)), w)
          = ScoredTo(k, first, p, Within(first, p, (x + (m - 1)) + 1))
    <3>1. x + (m - 1) \in Nat
      BY <2>1
    <3> QED
      BY <3>1, PushIs
  <2> HIDE DEF first
  <2> QED
    BY <1>2, <2>1, <2>2
<1> HIDE DEF s, first
<1>5. explicit = step(explicit)
  <2>1. explicit = [m \in 0 .. n |-> explicit[m]]
    OBVIOUS
  <2> HIDE DEF explicit
  <2>2. \A m \in 0 .. n :
          explicit[m] = IF m = 0 THEN s ELSE PushScore(explicit[m - 1], query, keys[m], w)
    BY <1>1, <1>3, <1>4
  <2> QED
    BY <1>1, <2>1, <2>2
<1> HIDE DEF explicit
<1>6. scored = step(scored)
  BY <1>5
<1>7. ScoreKeys(s, query, keys, w) = scored[n]
  BY <1>1 DEF ScoreKeys
<1> HIDE DEF scored
<1>8. \A m \in 0 .. n : scored[m] = explicit[m]
  <2> DEFINE S == {m \in 0 .. n : scored[m] = explicit[m]}
  <2>1. 0 \in S
    BY <1>1, <1>3, <1>6
  <2>2. ASSUME NEW m \in 1 .. n, m - 1 \in S PROVE m \in S
    <3>1. m \in 0 .. Len(keys) /\ m # 0
      BY <1>1
    <3>2. scored[m] = PushScore(scored[m - 1], query, keys[m], w)
      <4>1. scored[m] = step(scored)[m]
        BY <1>6, Zenon
      <4> HIDE DEF n
      <4> QED
        BY <3>1, <4>1
    <3>3. scored[m - 1] = explicit[m - 1]
      BY <2>2
    <3> QED
      BY <1>4, <3>2, <3>3
  <2> HIDE DEF S
  <2>3. \A m \in 0 .. n : m \in S
    BY <1>1, <2>1, <2>2, Climb
  <2> QED
    BY <2>3 DEF S
<1> QED
  BY <1>1, <1>3, <1>7, <1>8 DEF s, keys, first

(* A chunk of the source adds the values of its part of the window. *)
LEMMA ValuesMove ==
  ASSUME NEW k, NEW p \in Nat, NEW w \in Nat, NEW query, query.position = p,
         NEW x \in Nat, NEW y \in Nat, x <= y
  PROVE  LET first == KernelWindowStart(p, w)
         IN  AccumulateKeys(ValuesFrom(k, first, Within(first, p, x)), query, Cache(k, x, y), w)
               = ValuesFrom(k, first, Within(first, p, y))
<1> DEFINE first == KernelWindowStart(p, w)
           keys == Cache(k, x, y)
           seen == {key \in ToSet(keys) : TileVisible(query.position, key.position, w)}
           old == ValuesFrom(k, first, Within(first, p, x))
           added == {<<key.position - TileWindowStart(query.position, w), key.v>> : key \in seen}
           new == ValuesFrom(k, first, Within(first, p, y))
<1>1. first \in 0 .. p /\ TileWindowStart(p, w) = first
      /\ \A z \in Nat : TileVisible(p, z, w) <=> first <= z /\ z <= p
  BY Windows, WindowSees
<1>2. y - x \in Nat /\ DOMAIN keys = 1 .. (y - x)
  BY CacheFacts
<1>3. \A m \in 1 .. (y - x) : keys[m] = KeyAt(k, x + (m - 1))
  BY CacheKey
<1>4. \A z : KeyAt(k, z).position = z /\ KeyAt(k, z).v = Promise!Value(k, z)
  BY KeyFields
<1> HIDE DEF first, keys
<1>5. ASSUME NEW key \in seen
      PROVE  \E z \in x .. (y - 1) : first <= z /\ z <= p /\ key = KeyAt(k, z)
  <2>1. PICK m \in 1 .. (y - x) : key = keys[m]
    BY <1>2, <1>5 DEF ToSet
  <2>2. x + (m - 1) \in x .. (y - 1) /\ x + (m - 1) \in Nat /\ key = KeyAt(k, x + (m - 1))
    BY <1>2, <1>3, <2>1
  <2>3. TileVisible(p, x + (m - 1), w)
    BY <1>4, <1>5, <2>2
  <2> QED
    BY <1>1, <2>2, <2>3
<1>6. ASSUME NEW z \in x .. (y - 1), first <= z, z <= p PROVE KeyAt(k, z) \in seen
  <2>1. (z - x) + 1 \in 1 .. (y - x) /\ x + (((z - x) + 1) - 1) = z /\ z \in Nat
    OBVIOUS
  <2>2. KeyAt(k, z) = keys[(z - x) + 1]
    BY <1>3, <2>1
  <2>3. KeyAt(k, z) \in ToSet(keys)
    BY <1>2, <2>1, <2>2 DEF ToSet
  <2>4. TileVisible(p, z, w)
    BY <1>1, <1>6, <2>1
  <2> QED
    BY <1>4, <2>3, <2>4
<1> DEFINE pair(z) == <<z - first, Promise!Value(k, z)>>
<1>7. \A z : KeyAt(k, z) \in seen => pair(z) \in added
  BY <1>1, <1>4
<1>8. \A e \in added : \E z \in x .. (y - 1) : first <= z /\ z <= p /\ e = pair(z)
  BY <1>1, <1>4, <1>5
<1>9. /\ \A e \in old : \E z \in first .. (Within(first, p, x) - 1) : e = pair(z)
      /\ \A z \in first .. (Within(first, p, x) - 1) : pair(z) \in old
      /\ \A e \in new : \E z \in first .. (Within(first, p, y) - 1) : e = pair(z)
      /\ \A z \in first .. (Within(first, p, y) - 1) : pair(z) \in new
  BY DEF ValuesFrom
<1>10. AccumulateKeys(old, query, keys, w) = old \cup added
  BY DEF AccumulateKeys
<1> HIDE DEF seen, old, added, new, pair
<1>11. ASSUME NEW e \in old \cup added PROVE e \in new
  <2>1. CASE e \in old
    <3>1. PICK z \in first .. (Within(first, p, x) - 1) : e = pair(z)
      BY <1>9, <2>1
    <3>2. z \in first .. (Within(first, p, y) - 1)
      BY <1>1 DEF Within
    <3> QED
      BY <1>9, <3>1, <3>2
  <2>2. CASE e \in added
    <3>1. PICK z \in x .. (y - 1) : first <= z /\ z <= p /\ e = pair(z)
      BY <1>8, <2>2
    <3>2. z \in first .. (Within(first, p, y) - 1)
      BY <1>1, <3>1 DEF Within
    <3> QED
      BY <1>9, <3>1, <3>2
  <2> QED
    BY <1>11, <2>1, <2>2
<1>12. ASSUME NEW e \in new PROVE e \in old \cup added
  <2>1. PICK z \in first .. (Within(first, p, y) - 1) : e = pair(z)
    BY <1>9, <1>12
  <2>2. CASE z < x
    <3>1. z \in first .. (Within(first, p, x) - 1)
      BY <1>1, <2>2 DEF Within
    <3> QED
      BY <1>9, <2>1, <3>1
  <2>3. CASE ~(z < x)
    <3>1. z \in x .. (y - 1) /\ first <= z /\ z <= p
      BY <1>1, <2>3 DEF Within
    <3> QED
      BY <1>6, <1>7, <2>1, <3>1
  <2> QED
    BY <2>2, <2>3
<1> QED
  BY <1>10, <1>11, <1>12 DEF old, new, keys, first

-----------------------------------------------------------------------------
(* What the layers compute: the rest of the inductive invariant.           *)

PleRows(l) == [i \in 1 .. count |-> Promise!PerLayer(l, start + (i - 1))]
PleOf(n) == [j \in 1 .. n |-> PleRows(j - 1)]
PleInv == \E n \in Nat : ple = PleOf(n) /\ (phase \in TilePhases => layer < n)

ComputedRows(n) == [i \in 1 .. n |-> Promise!Computed(layer, start + (i - 1))]
RowsAre(t) ==
  /\ t.errors > 0 => ProjectionFails \/ ClosingFails
  /\ ClosingFails => t.errors >= Len(t.rows)
  /\ ~ClosingFails => t.rows = ComputedRows(Len(t.rows))
RowsInv == phase \in TilePhases => RowsAre(tile)

(* The query at work, by its position, and what it has gathered. *)
Pos == start + Len(tile.rows)
Gathered(x) == ScoredTo(SourceOf(layer), WindowFirst(layer, Pos), Pos, x)
ValuesTo(x) == ValuesFrom(SourceOf(layer), WindowFirst(layer, Pos), x)
SweptTo(first) == Within(WindowFirst(layer, Pos), Pos, SweptAt(first, tile.list, tile.at))
QueryInv ==
  phase \in {"score", "weigh"} =>
    /\ tile.broken = FALSE
    /\ tile.list = 5 => tile.at = 0
    /\ \E first \in 0 .. FirstSeen(layer) :
         /\ PriorIs(layer, first)
         /\ phase = "score" => Scored = Gathered(SweptTo(first)) /\ tile.values = {}
         /\ phase = "weigh" => Scored = Gathered(Pos + 1) /\ tile.values = ValuesTo(SweptTo(first))

RowInv ==
  /\ LayerInv /\ wiring = "imported"
  /\ PleInv /\ RowsInv /\ QueryInv
  /\ count = 0 => out = <<>>
  /\ tile.missing = 0

LEMMA ComputedStays ==
  ASSUME UNCHANGED shape
  PROVE  \A l, p : Promise!Computed(l, p)' = Promise!Computed(l, p)
<1>1. \A l, p : Promise!Attended(l, p)' = Promise!Attended(l, p)
  BY DEF Promise!Attended, Promise!Seen, Promise!WindowOf, Promise!KeysOf, Promise!KvDonor, Promise!FirstShared
<1> QED
  BY <1>1 DEF Promise!Computed

LEMMA TermsStay ==
  ASSUME UNCHANGED given, UNCHANGED <<start, count, layer>>
  PROVE  /\ \A l : PleRows(l)' = PleRows(l) /\ SourceOf(l)' = SourceOf(l) /\ DonorOf(l)' = DonorOf(l)
         /\ \A n : PleOf(n)' = PleOf(n) /\ ComputedRows(n)' = ComputedRows(n)
         /\ \A l, p : WindowFirst(l, p)' = WindowFirst(l, p)
         /\ \A first, list, at : SweptAt(first, list, at)' = SweptAt(first, list, at)
         /\ FirstSeen(layer)' = FirstSeen(layer)
         /\ (ClosingFails' <=> ClosingFails) /\ (ProjectionFails' <=> ProjectionFails)
<1>1. UNCHANGED <<shape, wiring, runtime, facts, torn, threads>>
  BY DEF given
<1>2. \A l : PleRows(l)' = PleRows(l)
  BY DEF PleRows
<1>3. \A n : PleOf(n)' = PleOf(n)
  BY <1>2 DEF PleOf
<1>4. \A n : ComputedRows(n)' = ComputedRows(n)
  BY <1>1, ComputedStays DEF ComputedRows
<1>5. \A l : SourceOf(l)' = SourceOf(l) /\ DonorOf(l)' = DonorOf(l)
  BY <1>1 DEF SourceOf, DonorOf
<1>6. \A l, p : WindowFirst(l, p)' = WindowFirst(l, p)
  BY <1>1 DEF WindowFirst, WindowSize
<1>7. FirstSeen(layer)' = FirstSeen(layer)
  BY <1>1 DEF FirstSeen, WindowSize
<1>8. \A first, list, at : SweptAt(first, list, at)' = SweptAt(first, list, at)
  BY <1>1, <1>5, <1>7 DEF SweptAt, Upto, F
<1>9. \A w : TileFails(w)' <=> TileFails(w)
  BY <1>1 DEF TileFails, MatrixPages, MacFails, ValuesIn, Offset, PageSize
<1>10. (ClosingFails' <=> ClosingFails) /\ (ProjectionFails' <=> ProjectionFails)
  BY <1>9 DEF ClosingFails, ProjectionFails
<1> QED
  BY <1>2, <1>3, <1>4, <1>5, <1>6, <1>7, <1>8, <1>10

LEMMA PlesAre ==
  ASSUME NEW n \in Nat
  PROVE  /\ Len(PleOf(n)) = n /\ PleOf(0) = <<>>
         /\ \A j \in 1 .. n : PleOf(n)[j] = PleRows(j - 1)
         /\ Append(PleOf(n), PleRows(n)) = PleOf(n + 1)
<1> DEFINE S == {PleRows(j) : j \in Nat}
<1>1. PleOf(n) \in Seq(S) /\ Len(PleOf(n)) = n
  BY DEF PleOf
<1>2. PleRows(n) \in S
  OBVIOUS
<1>3. Append(PleOf(n), PleRows(n)) = PleOf(n + 1)
  BY <1>1, <1>2 DEF PleOf
<1> QED
  BY <1>1, <1>3 DEF PleOf

LEMMA ComputedRowsAre ==
  ASSUME NEW n \in Nat
  PROVE  /\ Len(ComputedRows(n)) = n /\ ComputedRows(0) = <<>>
         /\ Append(ComputedRows(n), Promise!Computed(layer, start + n)) = ComputedRows(n + 1)
<1> DEFINE S == {Promise!Computed(layer, start + (i - 1)) : i \in Nat}
<1>1. ComputedRows(n) \in Seq(S) /\ Len(ComputedRows(n)) = n
  BY DEF ComputedRows
<1>2. Promise!Computed(layer, start + ((n + 1) - 1)) \in S /\ (n + 1) - 1 = n
  OBVIOUS
<1>3. Append(ComputedRows(n), Promise!Computed(layer, start + n)) = ComputedRows(n + 1)
  BY <1>1, <1>2 DEF ComputedRows
<1> QED
  BY <1>1, <1>3 DEF ComputedRows

-----------------------------------------------------------------------------
(* Native code and the direct runtime.                                     *)

LEMMA SourceIs ==
  ASSUME LayerInv, wiring = "imported", layer < shape.layers
  PROVE  \E lo \in 0 .. FirstSeen(layer) :
           KernelSource(F, PriorOf(layer), Cache(layer, start, start + count),
                        BoundDonor(F.a), BoundDonor(F.b))
             = Cache(SourceOf(layer), lo, start + count)
<1> DEFINE own == Cache(layer, start, start + count)
           D == DonorOf(layer)
<1>1. layer \in Layers(shape) /\ start \in Nat /\ count \in Nat
  BY GivenFacts DEF LayerInv, PassInv
<1>2. FirstSeen(layer) \in Nat /\ FirstSeen(layer) <= start
  BY <1>1, FirstSeenIs DEF LayerInv
<1>3. F.donor = D /\ F.a # -1 /\ (D # -1 => D \in {F.a, F.b})
  BY <1>1, DonorFacts DEF LayerInv, F, DonorOf
<1> HIDE DEF D
<1>4. CASE D = -1
  <2>1. PICK first \in 0 .. FirstSeen(layer) : PriorOf(layer) = Cache(layer, first, start)
    BY <1>1 DEF LayerInv, PriorInv, PriorIs
  <2>2. first \in Nat /\ first <= start /\ start + count \in Nat /\ start <= start + count
    BY <1>1, <1>2
  <2>3. Cache(layer, first, start) \o own = Cache(layer, first, start + count)
    BY <1>1, <2>2, CacheConcat
  <2>4. SourceOf(layer) = layer
    BY <1>4 DEF SourceOf, D
  <2> QED
    BY <1>3, <1>4, <2>1, <2>3, <2>4 DEF KernelSource
<1>5. CASE D # -1
  <2>1. BoundDonor(D) = Cache(D, FirstSeen(layer), start + count)
    BY <1>5, BoundDonorIs DEF D
  <2>2. SourceOf(layer) = D
    BY <1>5 DEF SourceOf, D
  <2>3. FirstSeen(layer) \in 0 .. FirstSeen(layer)
    BY <1>2
  <2> QED
    BY <1>3, <1>5, <2>1, <2>2, <2>3 DEF KernelSource
<1> QED
  BY <1>4, <1>5

(* A row of the pass finds its window from the first row's on. *)
LEMMA WindowFirstIs ==
  ASSUME LayerInv, layer < shape.layers, NEW p \in Nat, start <= p
  PROVE  /\ layer \in Layers(shape) /\ F.layer = layer /\ F.window = WindowSize(layer)
         /\ F.window \in Nat
         /\ KernelWindowStart(p, F.window) = WindowFirst(layer, p)
         /\ WindowFirst(layer, p) \in Nat /\ WindowFirst(layer, p) <= p
         /\ FirstSeen(layer) <= WindowFirst(layer, p)
<1>1. layer \in Layers(shape) /\ start \in Nat
  BY GivenFacts DEF LayerInv, PassInv
<1>2. F.layer = layer /\ F.window = WindowSize(layer) /\ F.window \in Nat
  BY <1>1, GivenFacts DEF LayerInv, F, WindowSize
<1>3. KernelWindowStart(p, F.window) \in 0 .. p
  BY <1>2, Windows
<1>4. KernelWindowStart(start, F.window) <= KernelWindowStart(p, F.window)
  BY <1>1, <1>2, WindowMoves
<1> QED
  BY <1>1, <1>2, <1>3, <1>4 DEF WindowFirst, FirstSeen

LEMMA NativeQueryIs ==
  ASSUME threads \in Nat, threads > 0, NEW f, NEW p, NEW i
  PROVE  KernelQuery(f, p, i, Row(f.layer, p)) =
           [position |-> p, local |-> i, residual |-> Row(f.layer, p), q |-> Promise!Query(f.layer, p)]
BY NativeIsWhole, PromisedKey DEF KernelQuery, Of

LEMMA NativeRowIs ==
  ASSUME LayerInv, wiring = "imported", layer < shape.layers,
         NEW lo \in 0 .. FirstSeen(layer), NEW i \in 1 .. count,
         NEW ples, Len(ples) = count, ples[i] = Promise!PerLayer(layer, start + (i - 1)),
         NEW query,
         query = [position |-> start + (i - 1), local |-> i - 1, residual |-> Row(layer, start + (i - 1)),
                  q |-> Promise!Query(layer, start + (i - 1))]
  PROVE  /\ KernelContext(query, Cache(SourceOf(layer), lo, start + count), F.window)
              = Promise!Attended(layer, start + (i - 1))
         /\ ViewContext(query, Cache(SourceOf(layer), lo, start + count), F.window)
              = Promise!Attended(layer, start + (i - 1))
         /\ KernelRow(F, query, Cache(SourceOf(layer), lo, start + count), ples)
              = Promise!Computed(layer, start + (i - 1))
<1> DEFINE p == start + (i - 1)
           K == SourceOf(layer)
           next == start + count
<1>1. start \in Nat /\ count \in Nat /\ threads \in Nat /\ threads > 0
  BY GivenFacts DEF LayerInv, PassInv
<1>2. p \in Nat /\ start <= p /\ p < next /\ next \in Nat /\ ~(i - 1 >= count) /\ (i - 1) + 1 = i
  BY <1>1
<1>3. query.position = p /\ query.local = i - 1 /\ query.residual = Row(layer, p)
      /\ query.q = Promise!Query(layer, p)
  OBVIOUS
<1> HIDE DEF p, next, K
<1>4. /\ layer \in Layers(shape) /\ F.layer = layer /\ F.window \in Nat
      /\ KernelWindowStart(p, F.window) = WindowFirst(layer, p)
      /\ WindowFirst(layer, p) \in Nat /\ FirstSeen(layer) <= WindowFirst(layer, p)
  BY <1>2, WindowFirstIs
<1>5. lo \in Nat /\ lo <= KernelWindowStart(p, F.window)
  <2>1. FirstSeen(layer) \in Nat
    BY <1>1, <1>4, FirstSeenIs DEF LayerInv
  <2> QED
    BY <1>4, <2>1
<1>6. Attended(layer, p) = Context(query.q, KeysFrom(K, WindowFirst(layer, p), p + 1),
                                   ValuesFrom(K, WindowFirst(layer, p), p + 1))
  BY <1>3 DEF Attended, K
<1>7. KernelContext(query, Cache(K, lo, next), F.window) = Attended(layer, p)
  <2>1. KernelContext(query, Cache(K, lo, next), F.window)
          = Context(query.q, KeysFrom(K, KernelWindowStart(p, F.window), p + 1),
                    ValuesFrom(K, KernelWindowStart(p, F.window), p + 1))
    BY <1>2, <1>3, <1>4, <1>5, KernelContextIs
  <2> QED
    BY <1>4, <1>6, <2>1
<1>8. ViewContext(query, Cache(K, lo, next), F.window) = Attended(layer, p)
  <2>1. ViewContext(query, Cache(K, lo, next), F.window)
          = Context(query.q, KeysFrom(K, KernelWindowStart(p, F.window), p + 1),
                    ValuesFrom(K, KernelWindowStart(p, F.window), p + 1))
    BY <1>2, <1>3, <1>4, <1>5, ViewContextIs
  <2> QED
    BY <1>4, <1>6, <2>1
<1>9. Promise!Attended(layer, p) = Attended(layer, p)
  BY <1>2, <1>4, PromisedContext DEF LayerInv
<1>10. Attended(layer, p) # Failed
  BY NotFailed DEF Attended
<1>11. KernelRow(F, query, Cache(K, lo, next), ples)
         = KernelFinish(F, KernelMlp(F, KernelResidual(F, query, Attended(layer, p))), ples[i])
  BY <1>2, <1>3, <1>7, <1>10 DEF KernelRow
<1>12. KernelFinish(F, KernelMlp(F, KernelResidual(F, query, Attended(layer, p))), ples[i])
         = RowFrom(layer, Attended(layer, p), Row(layer, p), ples[i])
  BY <1>1, <1>3, <1>4, KernelRowIs
<1>13. Promise!Computed(layer, p)
         = RowFrom(layer, Promise!Attended(layer, p), Row(layer, p), Promise!PerLayer(layer, p))
  BY PromisedRow
<1> QED
  BY <1>7, <1>8, <1>9, <1>11, <1>12, <1>13 DEF p, K, next

(* A layer that runs natively publishes what is promised. *)
LEMMA NativeRows ==
  ASSUME LayerInv, wiring = "imported", layer < shape.layers, NEW ples, Len(ples) = count,
         \A i \in 1 .. count : ples[i] = Promise!PerLayer(layer, start + (i - 1)),
         NEW result,
         \/ result = KernelLayer(F, start, InputRows, PriorOf(layer), BoundDonor(F.a), BoundDonor(F.b), ples)
         \/ result = ViewLayer(F, start, InputRows, PriorOf(layer), BoundDonor(F.a), BoundDonor(F.b), ples)
  PROVE  result.failed = FALSE /\ result.rows = ComputedRows(count)
<1> DEFINE own == Cache(layer, start, start + count)
           prior0 == PriorOf(layer)
           fromA == BoundDonor(F.a)
           fromB == BoundDonor(F.b)
           query(i) == [position |-> start + (i - 1), local |-> i - 1,
                        residual |-> Row(layer, start + (i - 1)), q |-> Promise!Query(layer, start + (i - 1))]
           source == KernelSource(F, prior0, own, fromA, fromB)
           computed(i) == Promise!Computed(layer, start + (i - 1))
<1>1. layer \in Layers(shape) /\ F.layer = layer /\ threads \in Nat /\ threads > 0
      /\ start \in Nat /\ count \in Nat
  BY GivenFacts DEF LayerInv, PassInv, F
<1>2. DOMAIN InputRows = 1 .. count /\ \A i \in 1 .. count : InputRows[i] = Row(layer, start + (i - 1))
  BY InputRowsAre
<1>3. /\ [i \in DOMAIN InputRows |-> KernelKey(F, start + i - 1, InputRows[i])] = own
      /\ ViewKeys(F, start, InputRows) = own
  BY NativeOwn DEF LayerInv
<1>4. PICK lo \in 0 .. FirstSeen(layer) : source = Cache(SourceOf(layer), lo, start + count)
  BY SourceIs
<1>5. ASSUME NEW i \in 1 .. count
      PROVE  /\ KernelQuery(F, start + (i - 1), i - 1, InputRows[i]) = query(i)
             /\ KernelRow(F, query(i), source, ples) = computed(i)
             /\ ViewRow(F, query(i), prior0, own, fromA, fromB, ples) = computed(i)
  <2>1. KernelQuery(F, start + (i - 1), i - 1, InputRows[i]) = query(i)
    BY <1>1, <1>2, NativeQueryIs
  <2>2. /\ KernelContext(query(i), source, F.window) = Promise!Attended(layer, start + (i - 1))
        /\ ViewContext(query(i), source, F.window) = Promise!Attended(layer, start + (i - 1))
        /\ KernelRow(F, query(i), source, ples) = computed(i)
    <3>1. ples[i] = Promise!PerLayer(layer, start + (i - 1))
      OBVIOUS
    <3> DEFINE q == query(i)
    <3>2. q = [position |-> start + (i - 1), local |-> i - 1,
               residual |-> Row(layer, start + (i - 1)), q |-> Promise!Query(layer, start + (i - 1))]
      OBVIOUS
    <3> HIDE DEF q, source
    <3>3. /\ KernelContext(q, Cache(SourceOf(layer), lo, start + count), F.window)
               = Promise!Attended(layer, start + (i - 1))
          /\ ViewContext(q, Cache(SourceOf(layer), lo, start + count), F.window)
               = Promise!Attended(layer, start + (i - 1))
          /\ KernelRow(F, q, Cache(SourceOf(layer), lo, start + count), ples)
               = Promise!Computed(layer, start + (i - 1))
      BY <3>1, <3>2, NativeRowIs
    <3> QED
      BY <1>4, <3>3 DEF q
  <2> DEFINE context == Promise!Attended(layer, start + (i - 1))
             q == query(i)
  <2>3. context # Failed
    <3>1. start + (i - 1) \in Nat
      BY <1>1
    <3>2. context = Attended(layer, start + (i - 1))
      BY <1>1, <3>1, PromisedContext DEF LayerInv
    <3> QED
      BY <3>2, NotFailed DEF Attended
  <2>4. /\ ViewContext(q, source, F.window) = context /\ q.local = i - 1
        /\ q.residual = Row(layer, start + (i - 1))
    BY <2>2
  <2>5. ~(i - 1 >= Len(ples)) /\ (i - 1) + 1 = i
    BY <1>1
  <2>6. source = IF F.donor = -1 THEN prior0 \o own ELSE IF F.donor = F.a THEN fromA ELSE fromB
    BY DEF KernelSource
  <2>7. computed(i) = RowFrom(layer, context, Row(layer, start + (i - 1)), ples[i])
    BY PromisedRow
  <2> HIDE DEF context, q, source, own, fromA, fromB, computed, prior0
  <2>8. ViewRow(F, q, prior0, own, fromA, fromB, ples) = ViewClosed(F, q, context, ples[i])
    BY <2>3, <2>4, <2>5, <2>6 DEF ViewRow
  <2>9. ViewClosed(F, q, context, ples[i]) = RowFrom(F.layer, context, q.residual, ples[i])
    BY <1>1, KernelRowIs
  <2>10. ViewRow(F, q, prior0, own, fromA, fromB, ples) = computed(i)
    BY <1>1, <2>4, <2>7, <2>8, <2>9
  <2> QED
    BY <2>1, <2>2, <2>10 DEF q, source, computed
<1>6. /\ [i \in 1 .. count |-> computed(i)] = ComputedRows(count)
      /\ Failed \notin ToSet(ComputedRows(count))
  <2>1. [i \in 1 .. count |-> computed(i)] = ComputedRows(count)
    BY DEF ComputedRows
  <2>2. \A i \in 1 .. count : computed(i) # Failed
    BY PromisedRow
  <2> HIDE DEF computed
  <2>3. Failed \notin ToSet([i \in 1 .. count |-> computed(i)])
    BY <2>2 DEF ToSet
  <2> QED
    BY <2>1, <2>3
<1>7. InputRows = <<>> => <<>> = ComputedRows(count)
  <2>1. InputRows = <<>> => count = 0
    BY <1>1, <1>2
  <2>2. ComputedRows(0) = <<>>
    BY ComputedRowsAre
  <2> QED
    BY <2>1, <2>2
<1> HIDE DEF own, fromA, fromB, prior0
<1>8. CASE result = KernelLayer(F, start, InputRows, prior0, fromA, fromB, ples)
  <2> DEFINE row(i) == KernelRow(F, KernelQuery(F, start + i - 1, i - 1, InputRows[i]), source, ples)
             rows == [i \in DOMAIN InputRows |-> row(i)]
  <2>1. result = IF InputRows = <<>> THEN [rows |-> <<>>, kv |-> <<>>, failed |-> FALSE]
                 ELSE [rows |-> rows, kv |-> KernelKv(F, prior0, own, start), failed |-> Failed \in ToSet(rows)]
    BY <1>3, <1>8 DEF KernelLayer
  <2>2. \A i \in 1 .. count : row(i) = computed(i)
    BY <1>5
  <2> HIDE DEF row, computed
  <2>3. rows = ComputedRows(count)
    BY <1>2, <1>6, <2>2, Zenon
  <2> HIDE DEF rows
  <2>5. CASE InputRows = <<>>
    BY <1>7, <2>1, <2>5
  <2>6. CASE InputRows # <<>>
    <3>1. result.rows = rows /\ (result.failed = (Failed \in ToSet(rows)))
      BY <2>1, <2>6
    <3>2. Failed \notin ToSet(rows)
      BY <1>6, <2>3
    <3>3. (Failed \in ToSet(rows)) = FALSE
      BY <3>2
    <3> QED
      BY <2>3, <3>1, <3>3, Zenon
  <2> QED
    BY <2>5, <2>6
<1>9. CASE result = ViewLayer(F, start, InputRows, prior0, fromA, fromB, ples)
  <2> DEFINE queries == ViewQueries(F, start, InputRows)
             row(i) == ViewRow(F, queries[i], prior0, own, fromA, fromB, ples)
             rows == [i \in DOMAIN InputRows |-> row(i)]
  <2>1. result = IF InputRows = <<>> THEN [rows |-> <<>>, kv |-> <<>>, failed |-> FALSE]
                 ELSE [rows |-> rows, kv |-> ViewKv(F, prior0, own, start), failed |-> Failed \in ToSet(rows)]
    BY <1>3, <1>9 DEF ViewLayer
  <2>2. \A i \in 1 .. count : queries[i] = query(i)
    <3>1. \A i \in 1 .. count : ViewProjected(F, start + (i - 1), InputRows[i]).q
                                  = Promise!Query(layer, start + (i - 1))
      BY <1>1, <1>2, ViewKeyIs
    <3> QED
      BY <1>2, <3>1 DEF ViewQueries
  <2>3. \A i \in 1 .. count : row(i) = computed(i)
    BY <1>5, <2>2
  <2> HIDE DEF row, computed
  <2>4. rows = ComputedRows(count)
    BY <1>2, <1>6, <2>3, Zenon
  <2> HIDE DEF rows
  <2>5. CASE InputRows = <<>>
    BY <1>7, <2>1, <2>5
  <2>6. CASE InputRows # <<>>
    <3>1. result.rows = rows /\ (result.failed = (Failed \in ToSet(rows)))
      BY <2>1, <2>6
    <3>2. Failed \notin ToSet(rows)
      BY <1>6, <2>4
    <3>3. (Failed \in ToSet(rows)) = FALSE
      BY <3>2
    <3> QED
      BY <2>4, <3>1, <3>3, Zenon
  <2> QED
    BY <2>5, <2>6
<1> QED
  BY <1>8, <1>9 DEF own, fromA, fromB, prior0

-----------------------------------------------------------------------------
(* The steps of the promise.                                               *)

Reached == [l \in Layers(shape) |-> IF l < layer THEN start + count ELSE start]
PromisedVars == <<Promise!given, start + count, Reached, out, phase = "failed">>

LEMMA Stutters ==
  ASSUME UNCHANGED given, UNCHANGED <<start, count, layer, out>>, phase' = "failed" <=> phase = "failed"
  PROVE  UNCHANGED PromisedVars
<1>1. UNCHANGED <<shape, runtime, torn, threads>>
  BY DEF given
<1>2. UNCHANGED Promise!given
  BY <1>1 DEF Promise!given
<1>3. UNCHANGED Reached /\ UNCHANGED (start + count) /\ UNCHANGED out
  BY <1>1 DEF Reached
<1>4. UNCHANGED (phase = "failed")
  OBVIOUS
<1> HIDE DEF Reached
<1> QED
  BY <1>2, <1>3, <1>4, Zenon DEF PromisedVars

LEMMA FailsOnlyThen ==
  ASSUME UNCHANGED given, UNCHANGED <<start, count, layer, out>>, phase # "failed", phase' = "failed",
         start + count = 0 \/ (runtime = "staged" /\ torn # "none")
  PROVE  Promise!Next
<1>1. UNCHANGED <<shape, runtime, torn, threads>>
  BY DEF given
<1>2. UNCHANGED Promise!given
  BY <1>1 DEF Promise!given
<1>3. UNCHANGED Reached /\ UNCHANGED (start + count) /\ UNCHANGED out
  BY <1>1 DEF Reached
<1>4. Promise!Fail
  BY <1>3 DEF Promise!Fail, Reached
<1> QED
  BY <1>2, <1>4 DEF Promise!Next

LEMMA PromisedLayers == Promise!Layers(shape) = Layers(shape)
BY DEF Promise!Layers, Layers

LEMMA PublishAttends ==
  ASSUME LayerInv, layer < shape.layers, UNCHANGED given, UNCHANGED <<start, count>>,
         NEW kv, Publish(ComputedRows(count), kv), phase # "failed", phase' # "failed",
         count = 0 => out = <<>>
  PROVE  Promise!Next \/ UNCHANGED PromisedVars
<1>1. layer \in Layers(shape) /\ start \in Nat /\ count \in Nat /\ shape.layers \in Nat
      /\ Layers(shape) = 0 .. (shape.layers - 1)
  BY GivenFacts DEF LayerInv, PassInv
<1>2. UNCHANGED <<shape, runtime, torn, threads>> /\ layer' = layer + 1 /\ out' = ComputedRows(count)
  BY DEF given, Publish
<1>3. UNCHANGED Promise!given
  BY <1>2 DEF Promise!given
<1>4. Reached' = [l \in Layers(shape) |-> IF l < layer + 1 THEN start + count ELSE start]
  BY <1>2 DEF Reached
<1>5. CASE count = 0
  <2>1. Reached = [l \in Layers(shape) |-> start] /\ Reached' = [l \in Layers(shape) |-> start]
    BY <1>1, <1>4, <1>5 DEF Reached
  <2>2. out' = out
    BY <1>2, <1>5, ComputedRowsAre
  <2>3. UNCHANGED (phase = "failed")
    OBVIOUS
  <2> QED
    BY <1>3, <2>1, <2>2, <2>3, Zenon DEF PromisedVars
<1>6. CASE count # 0
  <2> DEFINE embedded == start + count
             before == IF layer = 0 THEN embedded ELSE Reached[layer - 1]
  <2>1. before = embedded /\ Reached[layer] = start
    <3>1. layer # 0 => layer - 1 \in Layers(shape) /\ layer - 1 < layer
      BY <1>1
    <3> QED
      BY <1>1, <3>1 DEF Reached
  <2>2. start < embedded /\ embedded - start = count
    BY <1>1, <1>6
  <2>3. Reached' = [Reached EXCEPT ![layer] = embedded]
    <3> DEFINE old(l) == IF l < layer THEN embedded ELSE start
               new(l) == IF l < layer + 1 THEN embedded ELSE start
    <3>1. \A l \in Layers(shape) : new(l) = IF l = layer THEN embedded ELSE old(l)
      BY <1>1
    <3>2. Reached = [l \in Layers(shape) |-> old(l)] /\ Reached' = [l \in Layers(shape) |-> new(l)]
      BY <1>4 DEF Reached
    <3> HIDE DEF old, new, embedded
    <3> QED
      BY <1>1, <3>1, <3>2
  <2>4. ComputedRows(count) = [i \in 1 .. count |-> Promise!Computed(layer, start + (i - 1))]
    BY DEF ComputedRows
  <2>5. Promise!Before(layer) = embedded
    BY <2>1 DEF Promise!Before, Reached
  <2>6. UNCHANGED embedded /\ UNCHANGED (phase = "failed")
    OBVIOUS
  <2>7. out' = [i \in 1 .. (embedded - Reached[layer]) |-> Promise!Computed(layer, Reached[layer] + (i - 1))]
    BY <1>2, <2>1, <2>2, <2>4
  <2> HIDE DEF embedded
  <2>8. ASSUME NEW l, l = layer PROVE Promise!Attend(l)
    <3>1. Reached[layer] < Promise!Before(layer)
      BY <2>1, <2>2, <2>5
    <3>2. out' = [i \in 1 .. (Promise!Before(layer) - Reached[layer]) |->
                    Promise!Computed(layer, Reached[layer] + (i - 1))]
      BY <2>5, <2>7
    <3>3. Reached' = [Reached EXCEPT ![layer] = Promise!Before(layer)]
      BY <2>3, <2>5
    <3>4. /\ Reached[l] < Promise!Before(l) /\ Reached' = [Reached EXCEPT ![l] = Promise!Before(l)]
          /\ out' = [i \in 1 .. (Promise!Before(l) - Reached[l]) |->
                       Promise!Computed(l, Reached[l] + (i - 1))]
      BY <2>8, <3>1, <3>2, <3>3
    <3> QED
      BY <2>6, <3>4, Zenon DEF Promise!Attend, Reached, embedded
  <2>9. layer \in Promise!Layers(shape)
    BY <1>1, PromisedLayers
  <2>10. Promise!Next
    BY <1>3, <2>8, <2>9 DEF Promise!Next
  <2> QED
    BY <2>10
<1> QED
  BY <1>5, <1>6

LEMMA PassEmbeds ==
  ASSUME LayerInv, layer = shape.layers, UNCHANGED given, UNCHANGED out,
         start' = start + count, count' = 1, layer' = 0, phase # "failed", phase' # "failed"
  PROVE  Promise!Next
<1>1. start \in Nat /\ count \in Nat /\ shape.layers \in Nat /\ Layers(shape) = 0 .. (shape.layers - 1)
  BY GivenFacts DEF LayerInv, PassInv
<1>2. UNCHANGED <<shape, runtime, torn, threads>>
  BY DEF given
<1>3. UNCHANGED Promise!given
  BY <1>2 DEF Promise!given
<1>4. Reached = [l \in Layers(shape) |-> start + count]
  BY <1>1 DEF Reached
<1>5. Reached' = [l \in Layers(shape) |-> start + count]
  BY <1>1, <1>2 DEF Reached
<1>6. start' + count' \in Nat /\ start' + count' > start + count
  BY <1>1
<1>7. UNCHANGED (phase = "failed")
  OBVIOUS
<1>8. Promise!Embed
  <2>1. \A l \in Promise!Layers(shape) : Reached[l] = start + count
    BY <1>4, PromisedLayers
  <2>2. UNCHANGED Reached
    BY <1>4, <1>5
  <2> QED
    BY <1>6, <1>7, <2>1, <2>2 DEF Promise!Embed, Reached
<1> QED
  BY <1>3, <1>8 DEF Promise!Next

-----------------------------------------------------------------------------
(* Steps between layers: each keeps the invariant, and is a step of the    *)
(* promise or none.                                                        *)

Promised == Promise!Next \/ UNCHANGED PromisedVars

(* Outside of a stage of tiles only the inputs matter. *)
LEMMA RowInvIdle ==
  ASSUME LayerInv', wiring' = "imported", phase' \in {"layer", "failed", "done"},
         tile'.missing = 0, \E n \in Nat : ple' = PleOf(n)', count' = 0 => out' = <<>>
  PROVE  RowInv'
BY DEF RowInv, PleInv, RowsInv, QueryInv, TilePhases

LEMMA RowInvInit == Init /\ wiring = "imported" => RowInv
<1> SUFFICES ASSUME Init, wiring = "imported" PROVE RowInv
  OBVIOUS
<1>1. LayerInv
  BY LayerInvInit
<1>2. phase = "layer" /\ out = <<>> /\ tile.missing = 0
  BY DEF Init, NoTile
<1>3. PleInv
  <2>1. ple = PleOf(0) /\ 0 \in Nat
    BY PlesAre DEF Init
  <2> QED
    BY <1>2, <2>1 DEF PleInv, TilePhases
<1> QED
  BY <1>1, <1>2, <1>3 DEF RowInv, RowsInv, QueryInv, TilePhases

(* A layer's inputs are what they are, whoever prepares them. *)
LEMMA PreparedRowsAre ==
  ASSUME LayerInv, NEW how \in Executors, NEW l
  PROVE  /\ Failed \notin ToSet(Prepared(how, l)) => Prepared(how, l) = PleRows(l)
         /\ Failed \in ToSet(Prepared(how, l)) => runtime = "staged" /\ torn # "none"
<1> DEFINE row(i) == PreparedRow(how, l, Row(0, start + (i - 1)), Embedding(l, start + (i - 1)))
           rows == [i \in 1 .. count |-> row(i)]
<1>1. threads \in Nat /\ threads > 0 /\ count \in Nat
  BY GivenFacts DEF LayerInv, PassInv
<1>2. Prepared(how, l) = rows
  BY DEF Prepared
<1>3. CASE how = "tiles" /\ TileFails("ple")
  <2>1. runtime = "staged" /\ torn # "none"
    <3>1. torn = "ple"
      BY <1>3, WholePagesFit
    <3> QED
      BY <1>3, <3>1 DEF LayerInv, GivenInv, Executors
  <2>2. \A i \in 1 .. count : row(i) = Failed
    BY <1>3 DEF PreparedRow, TilePle
  <2>3. rows # PleRows(l) => Failed \in ToSet(rows)
    <3>1. CASE count = 0
      <4>1. rows = PleRows(l)
        BY <3>1 DEF PleRows
      <4> QED
        BY <4>1
    <3>2. CASE count # 0
      <4>1. 1 \in 1 .. count /\ row(1) = Failed
        BY <1>1, <2>2, <3>2
      <4> HIDE DEF row
      <4> QED
        BY <4>1 DEF ToSet
    <3> QED
      BY <3>1, <3>2
  <2> QED
    BY <1>2, <2>1, <2>3
<1>4. CASE ~(how = "tiles" /\ TileFails("ple"))
  <2>1. \A i \in 1 .. count : row(i) = Promise!PerLayer(l, start + (i - 1))
    BY <1>1, <1>4, PreparedIs
  <2>2. \A i \in 1 .. count : row(i) # Failed
    BY <2>1, PromisedPle
  <2> HIDE DEF row
  <2>3. rows = PleRows(l)
    BY <2>1, Zenon DEF PleRows
  <2>4. Failed \notin ToSet(rows)
    BY <2>2 DEF ToSet
  <2> QED
    BY <1>2, <2>3, <2>4
<1> QED
  BY <1>3, <1>4

LEMMA RowInvPrepare ==
  ASSUME RowInv, PrepareAux
  PROVE  RowInv' /\ Promised
<1>1. /\ UNCHANGED given /\ UNCHANGED <<start, count, layer, out, tile>> /\ phase = "layer"
      /\ phase' \in {"layer", "failed"}
  BY DEF PrepareAux, passVars
<1>2. LayerInv' /\ LayerInv /\ wiring' = "imported"
  BY <1>1, LayerInvPrepare DEF RowInv, given
<1>3. PICK n \in Nat : ple = PleOf(n)
  BY DEF RowInv, PleInv
<1>4. Len(ple) = n
  BY <1>3, PlesAre
<1>5. PICK how \in Executors :
        IF Failed \in ToSet(Prepared(how, n)) THEN phase' = "failed" /\ UNCHANGED ple
        ELSE ple' = Append(ple, Prepared(how, n)) /\ UNCHANGED phase
  BY <1>4 DEF PrepareAux
<1>6. \A m : PleOf(m)' = PleOf(m)
  BY <1>1, TermsStay
<1>7. CASE Failed \in ToSet(Prepared(how, n))
  <2>1. phase' = "failed" /\ ple' = PleOf(n)'
    BY <1>3, <1>5, <1>6, <1>7
  <2>2. RowInv'
    BY <1>1, <1>2, <2>1, RowInvIdle DEF RowInv
  <2>3. runtime = "staged" /\ torn # "none"
    BY <1>2, <1>7, PreparedRowsAre
  <2>4. Promise!Next
    BY <1>1, <2>1, <2>3, FailsOnlyThen
  <2> QED
    BY <2>2, <2>4 DEF Promised
<1>8. CASE Failed \notin ToSet(Prepared(how, n))
  <2>1. Prepared(how, n) = PleRows(n)
    BY <1>2, <1>8, PreparedRowsAre
  <2>2. ple' = PleOf(n + 1)' /\ phase' = "layer"
    <3>1. Append(PleOf(n), PleRows(n)) = PleOf(n + 1)
      BY PlesAre
    <3> QED
      BY <1>1, <1>3, <1>5, <1>6, <1>8, <2>1, <3>1
  <2>3. RowInv'
    <3>1. n + 1 \in Nat
      OBVIOUS
    <3> QED
      BY <1>1, <1>2, <2>2, <3>1, RowInvIdle DEF RowInv
  <2>4. UNCHANGED PromisedVars
    <3>1. phase' = "failed" <=> phase = "failed"
      BY <1>1, <2>2
    <3> QED
      BY <1>1, <3>1, Stutters
  <2> QED
    BY <2>3, <2>4 DEF Promised
<1> QED
  BY <1>7, <1>8

(* The inputs of the next layer are ready. *)
LEMMA InputsOfLayer ==
  ASSUME RowInv, BeginLayer \/ phase \in TilePhases
  PROVE  /\ layer < shape.layers /\ layer + 1 \in 1 .. Len(ple)
         /\ ple[layer + 1] = PleRows(layer) /\ Len(ple[layer + 1]) = count
         /\ \E n \in Nat : ple = PleOf(n) /\ layer < n
<1>1. layer \in Nat /\ layer < shape.layers /\ count \in Nat /\ shape.layers \in Nat
  BY GivenFacts DEF RowInv, LayerInv, PassInv, BeginLayer
<1>2. PICK n \in Nat : ple = PleOf(n) /\ (phase \in TilePhases => layer < n)
  BY DEF RowInv, PleInv
<1>3. Len(ple) = n
  BY <1>2, PlesAre
<1>4. layer < n
  BY <1>1, <1>2, <1>3 DEF BeginLayer, PreparedFirst
<1>5. layer + 1 \in 1 .. n /\ (layer + 1) - 1 = layer
  BY <1>1, <1>4
<1>6. ple[layer + 1] = PleRows(layer)
  <2>1. PleOf(n)[layer + 1] = PleRows((layer + 1) - 1)
    BY <1>5, PlesAre
  <2> QED
    BY <1>2, <1>5, <2>1
<1>7. Len(PleRows(layer)) = count
  BY <1>1 DEF PleRows
<1> QED
  BY <1>1, <1>2, <1>3, <1>4, <1>5, <1>6, <1>7

LEMMA RowInvNative ==
  ASSUME RowInv, RunNative
  PROVE  RowInv' /\ Promised
<1>1. /\ UNCHANGED given /\ UNCHANGED <<start, count, ple>> /\ phase = "layer" /\ tile' = NoTile
      /\ BeginLayer
  BY DEF RunNative, passVars, BeginLayer
<1>2. LayerInv' /\ LayerInv /\ wiring = "imported" /\ wiring' = "imported"
  BY <1>1, LayerInvNative DEF RowInv, given
<1>3. PICK n \in Nat : ple = PleOf(n)
  BY DEF RowInv, PleInv
<1>4. PICK how \in Executors \ {"tiles"} :
        IF Computed(how).failed THEN phase' = "failed" /\ UNCHANGED <<layer, caches, out>>
        ELSE Publish(Computed(how).rows, Computed(how).kv) /\ UNCHANGED phase
  BY DEF RunNative
<1>5. /\ layer < shape.layers /\ Len(ple[layer + 1]) = count /\ count \in Nat
      /\ \A i \in 1 .. count : ple[layer + 1][i] = Promise!PerLayer(layer, start + (i - 1))
  <2>1. ple[layer + 1] = PleRows(layer) /\ Len(ple[layer + 1]) = count /\ layer < shape.layers
    BY <1>1, InputsOfLayer
  <2> QED
    BY <1>2, <2>1 DEF PleRows, LayerInv, PassInv
<1>6. Computed(how).failed = FALSE /\ Computed(how).rows = ComputedRows(count)
  <2> DEFINE ples == ple[layer + 1]
             result == Computed(how)
  <2>1. \/ result = KernelLayer(F, start, InputRows, PriorOf(layer), BoundDonor(F.a), BoundDonor(F.b), ples)
        \/ result = ViewLayer(F, start, InputRows, PriorOf(layer), BoundDonor(F.a), BoundDonor(F.b), ples)
    BY DEF Computed
  <2> HIDE DEF result, ples
  <2>2. /\ Len(ples) = count
        /\ \A i \in 1 .. count : ples[i] = Promise!PerLayer(layer, start + (i - 1))
    BY <1>5 DEF ples
  <2>3. result.failed = FALSE /\ result.rows = ComputedRows(count)
    BY <1>2, <1>5, <2>1, <2>2, NativeRows
  <2> QED
    BY <2>3 DEF result
<1> DEFINE kv == Computed(how).kv
<1>7. Publish(ComputedRows(count), kv) /\ phase' = "layer"
  BY <1>1, <1>4, <1>6
<1> HIDE DEF kv
<1>8. count = 0 => out' = <<>>
  BY <1>7, ComputedRowsAre DEF Publish
<1>9. RowInv'
  <2>1. ple' = PleOf(n)'
    <3>1. PleOf(n)' = PleOf(n)
      BY <1>1 DEF PleOf, PleRows
    <3> QED
      BY <1>1, <1>3, <3>1
  <2>2. tile'.missing = 0
    BY <1>1 DEF NoTile
  <2> QED
    BY <1>1, <1>2, <1>7, <1>8, <2>1, <2>2, RowInvIdle
<1>10. Promised
  <2>1. count = 0 => out = <<>>
    BY DEF RowInv
  <2>2. phase # "failed" /\ phase' # "failed"
    BY <1>1, <1>7
  <2> QED
    BY <1>1, <1>2, <1>5, <1>7, <2>1, <2>2, PublishAttends DEF Promised
<1> QED
  BY <1>9, <1>10

LEMMA RowInvEndPass ==
  ASSUME RowInv, EndPass
  PROVE  RowInv' /\ Promised
<1>1. /\ UNCHANGED given /\ UNCHANGED out /\ phase = "layer" /\ tile' = NoTile /\ layer = shape.layers
  BY DEF EndPass
<1>2. LayerInv' /\ LayerInv /\ wiring' = "imported" /\ tile'.missing = 0
  BY <1>1, LayerInvEndPass DEF RowInv, given, NoTile
<1>3. PICK n \in Nat : ple = PleOf(n)
  BY DEF RowInv, PleInv
<1>4. CASE UNCHANGED <<passVars, layer, ple, caches>> /\ phase' \in {"failed", "done"}
           /\ (phase' = "failed" => count = 0)
  <2>1. UNCHANGED <<start, count, layer, ple>>
    BY <1>4 DEF passVars
  <2>2. PleOf(n)' = PleOf(n)
    BY <1>1, <2>1, TermsStay
  <2>3. RowInv'
    BY <1>1, <1>2, <1>3, <1>4, <2>1, <2>2, RowInvIdle DEF RowInv
  <2>4. CASE phase' = "failed"
    <3>1. start + count = 0
      BY <1>2, <1>4, <2>4 DEF LayerInv, PassInv
    <3>2. Promise!Next
      BY <1>1, <2>1, <2>4, <3>1, FailsOnlyThen
    <3> QED
      BY <2>3, <3>2 DEF Promised
  <2>5. CASE phase' # "failed"
    <3>1. phase' = "failed" <=> phase = "failed"
      BY <1>1, <2>5
    <3>2. UNCHANGED PromisedVars
      BY <1>1, <2>1, <3>1, Stutters
    <3> QED
      BY <2>3, <3>2 DEF Promised
  <2> QED
    BY <2>4, <2>5
<1>5. CASE start' = start + count /\ count' = 1 /\ layer' = 0 /\ ple' = <<>> /\ phase' = "layer"
  <2>1. ple' = PleOf(0)'
    <3>1. PleOf(0)' = <<>>
      BY DEF PleOf
    <3> QED
      BY <1>5, <3>1
  <2>2. RowInv'
    <3>1. 0 \in Nat /\ ~(count' = 0)
      BY <1>5
    <3> QED
      BY <1>1, <1>2, <1>5, <2>1, <3>1, RowInvIdle
  <2>3. Promise!Next
    <3>1. phase # "failed" /\ phase' # "failed"
      BY <1>1, <1>5
    <3> QED
      BY <1>1, <1>2, <1>5, <3>1, PassEmbeds
  <2> QED
    BY <2>2, <2>3 DEF Promised
<1>6. \/ UNCHANGED <<passVars, layer, ple, caches>> /\ phase' \in {"failed", "done"}
           /\ (phase' = "failed" => count = 0)
      \/ start' = start + count /\ count' = 1 /\ layer' = 0 /\ ple' = <<>> /\ phase' = "layer"
  BY <1>1 DEF EndPass
<1> QED
  BY <1>4, <1>5, <1>6

-----------------------------------------------------------------------------
(* Steps of tiles.                                                         *)

LEMMA RowInvTile ==
  ASSUME RowInv, LayerInv', TileStep, phase' \in TilePhases, phase \in TilePhases \/ BeginLayer,
         RowsInv', QueryInv', tile'.missing = 0
  PROVE  RowInv' /\ Promised
<1>1. UNCHANGED given /\ UNCHANGED <<start, count, layer, ple, out>>
  BY DEF TileStep, passVars
<1>2. PICK n \in Nat : ple = PleOf(n) /\ layer < n
  BY InputsOfLayer
<1>3. PleOf(n)' = PleOf(n)
  BY <1>1, TermsStay
<1>4. PleInv'
  BY <1>1, <1>2, <1>3 DEF PleInv
<1>5. RowInv'
  BY <1>1, <1>4 DEF RowInv, given
<1>6. phase' = "failed" <=> phase = "failed"
  BY DEF TilePhases, BeginLayer
<1>7. UNCHANGED PromisedVars
  BY <1>1, <1>6, Stutters
<1> QED
  BY <1>5, <1>7 DEF Promised

LEMMA RowsStay ==
  ASSUME UNCHANGED given, UNCHANGED <<start, count, layer>>, NEW t, RowsAre(t),
         tile'.errors = t.errors, tile'.rows = t.rows
  PROVE  RowsInv'
<1>1. /\ ClosingFails' <=> ClosingFails
      /\ ProjectionFails' <=> ProjectionFails
      /\ \A n : ComputedRows(n)' = ComputedRows(n)
  BY TermsStay
<1> QED
  BY <1>1 DEF RowsInv, RowsAre

LEMMA QueryInvNext ==
  ASSUME LayerInv, TileStep, phase \in TilePhases, phase' \in TilePhases,
         NEW first \in 0 .. FirstSeen(layer), PriorIs(layer, first),
         NEW p, p = start + Len(tile'.rows),
         tile'.broken = FALSE, tile'.list = 5 => tile'.at = 0,
         phase' = "score" =>
           /\ [scores |-> tile'.scores, filled |-> tile'.filled] =
                ScoredTo(SourceOf(layer), WindowFirst(layer, p), p,
                         Within(WindowFirst(layer, p), p, SweptAt(first, tile'.list, tile'.at)))
           /\ tile'.values = {},
         phase' = "weigh" =>
           /\ [scores |-> tile'.scores, filled |-> tile'.filled] =
                ScoredTo(SourceOf(layer), WindowFirst(layer, p), p, p + 1)
           /\ tile'.values =
                ValuesFrom(SourceOf(layer), WindowFirst(layer, p),
                           Within(WindowFirst(layer, p), p, SweptAt(first, tile'.list, tile'.at)))
  PROVE  QueryInv'
<1>1. UNCHANGED given /\ UNCHANGED <<start, count, layer>>
  BY DEF TileStep, passVars
<1>2. UNCHANGED <<shape, facts>>
  BY <1>1 DEF given
<1>3. Pos' = p
  BY <1>1 DEF Pos
<1>4. SourceOf(layer)' = SourceOf(layer)
  BY <1>1, <1>2 DEF SourceOf, DonorOf
<1>5. WindowFirst(layer, Pos)' = WindowFirst(layer, p)
  BY <1>1, <1>2, <1>3 DEF WindowFirst, WindowSize
<1>6. SweptTo(first)' = Within(WindowFirst(layer, p), p, SweptAt(first, tile'.list, tile'.at))
  <2>1. FirstSeen(layer)' = FirstSeen(layer)
    BY <1>1, <1>2 DEF FirstSeen, WindowSize
  <2>2. SweptAt(first, tile.list, tile.at)' = SweptAt(first, tile'.list, tile'.at)
    BY <1>1, <1>2, <2>1 DEF SweptAt, DonorOf, F
  <2> QED
    BY <1>3, <1>5, <2>2 DEF SweptTo
<1>7. FirstSeen(layer)' = FirstSeen(layer) /\ (PriorIs(layer, first)' <=> PriorIs(layer, first))
  BY TileStepStays
<1>8. Scored' = [scores |-> tile'.scores, filled |-> tile'.filled]
  BY DEF Scored
<1> DEFINE x == SweptTo(first)
<1>9. /\ Gathered(x)' = ScoredTo(SourceOf(layer), WindowFirst(layer, p), p, x')
      /\ Gathered(Pos + 1)' = ScoredTo(SourceOf(layer), WindowFirst(layer, p), p, p + 1)
      /\ ValuesTo(x)' = ValuesFrom(SourceOf(layer), WindowFirst(layer, p), x')
  BY <1>3, <1>4, <1>5 DEF Gathered, ValuesTo
<1>10. first \in 0 .. FirstSeen(layer)'
  BY <1>7
<1>11. /\ phase' = "score" => Scored' = Gathered(x)' /\ tile'.values = {}
       /\ phase' = "weigh" => Scored' = Gathered(Pos + 1)' /\ tile'.values = ValuesTo(x)'
  BY <1>6, <1>8, <1>9
<1> QED
  BY <1>7, <1>10, <1>11 DEF QueryInv

LEMMA RowInvBeginQuery ==
  ASSUME RowInv, LayerInv', TileStep, phase \in TilePhases, NEW t, Between(t), RowsAre(t),
         t.missing = 0, BeginQuery(t)
  PROVE  RowInv' /\ Promised
<1>1. UNCHANGED given /\ UNCHANGED <<start, count, layer>> /\ phase' \in {"score", "close"}
      /\ phase' \in TilePhases /\ LayerInv
  BY DEF TileStep, passVars, BeginQuery, TilePhases, RowInv
<1>2. CASE Len(t.rows) = Len(t.queries)
  <2>1. phase' = "close" /\ tile' = t
    BY <1>2 DEF BeginQuery
  <2>2. RowsInv'
    BY <1>1, <2>1, RowsStay
  <2>3. QueryInv'
    BY <2>1 DEF QueryInv
  <2> QED
    BY <1>1, <2>1, <2>2, <2>3, RowInvTile
<1>3. CASE Len(t.rows) # Len(t.queries)
  <2> DEFINE n == Len(t.rows)
             p == start + n
             zero == ZeroScores(t.queries[n + 1], F.window)
             lo == WindowFirst(layer, p)
  <2>1. /\ phase' = "score"
        /\ tile' = [t EXCEPT !.scores = zero.scores, !.filled = zero.filled,
                             !.values = {}, !.broken = FALSE, !.list = 1, !.at = 0]
    BY <1>3 DEF BeginQuery
  <2>2. start \in Nat /\ count \in Nat /\ layer < shape.layers /\ layer \in Layers(shape)
    BY <1>1, GivenFacts DEF LayerInv, PassInv
  <2>3. ~ProjectionFails
    <3>1. Len(<<>>) = 0
      OBVIOUS
    <3> QED
      BY <1>3, <3>1 DEF Between
  <2>4. n \in Nat /\ n < count /\ t.queries = Queries(count) /\ n + 1 \in 1 .. count
    <3>1. t.queries = Queries(count) /\ n \in 0 .. count /\ n <= Len(t.queries)
      BY <2>3 DEF Between
    <3>2. Len(t.queries) = count
      BY <2>2, <3>1, QueriesAre
    <3> QED
      BY <1>3, <2>2, <3>1, <3>2
  <2>5. t.queries[n + 1].position = p
    <3>1. t.queries[n + 1] = QueryAt(n + 1)
      BY <2>4 DEF Queries
    <3>2. n \in Nat
      BY <2>4
    <3> HIDE DEF n
    <3>3. QueryAt(n + 1) = [position |-> start + n, local |-> n, residual |-> Row(layer, start + n),
                            q |-> Promise!Query(layer, start + n)]
      BY <2>2, <3>2, QueryIs
    <3> QED
      BY <3>1, <3>3
  <2>6. p \in Nat /\ start <= p
    BY <2>2, <2>4
  <2> HIDE DEF p, n
  <2>7. /\ F.window \in Nat /\ KernelWindowStart(p, F.window) = lo /\ lo \in Nat /\ lo <= p
        /\ FirstSeen(layer) <= lo
    BY <1>1, <2>2, <2>6, WindowFirstIs
  <2>8. zero.filled = 0 /\ zero.scores = [i \in 1 .. ((p + 1) - lo) |-> Failed]
    <3>0. TileWindowLen(p, F.window) = (p - KernelWindowStart(p, F.window)) + 1
      BY <2>6, <2>7, Windows
    <3> HIDE DEF lo
    <3>1. TileWindowLen(p, F.window) = (p + 1) - lo
      BY <2>6, <2>7, <3>0
    <3> QED
      BY <2>5, <3>1 DEF ZeroScores
  <2>9. PICK first \in 0 .. FirstSeen(layer) : PriorIs(layer, first)
    BY <1>1, <2>2 DEF LayerInv, PriorInv
  <2>10. Within(lo, p, SweptAt(first, 1, 0)) = lo
    <3>1. SweptAt(first, 1, 0) \in Nat /\ SweptAt(first, 1, 0) <= FirstSeen(layer)
      BY <1>1, <2>2, <2>9, SweepEnds
    <3>2. FirstSeen(layer) \in Nat
      BY <1>1, <2>2, FirstSeenIs DEF LayerInv
    <3> HIDE DEF lo
    <3>3. SweptAt(first, 1, 0) <= lo
      BY <2>7, <3>1, <3>2
    <3> QED
      BY <2>6, <2>7, <3>1, <3>3 DEF Within
  <2>11. ScoredTo(SourceOf(layer), lo, p, lo) = [scores |-> zero.scores, filled |-> zero.filled]
    <3>1. \A s \in 1 .. ((p + 1) - lo) : ~(lo + (s - 1) < lo)
      BY <2>6, <2>7
    <3>2. lo - lo = 0
      BY <2>7
    <3> HIDE DEF lo, zero
    <3> QED
      BY <2>8, <3>1, <3>2 DEF ScoredTo
  <2> HIDE DEF zero, lo
  <2>12. /\ tile'.scores = zero.scores /\ tile'.filled = zero.filled /\ tile'.values = {}
         /\ tile'.broken = FALSE /\ tile'.list = 1 /\ tile'.at = 0 /\ tile'.missing = 0
         /\ tile'.rows = t.rows /\ tile'.errors = t.errors
    BY <2>1 DEF Between, TileFields
  <2>13. RowsInv'
    BY <1>1, <2>12, RowsStay
  <2>14. QueryInv'
    <3>1. p = start + Len(tile'.rows)
      BY <2>12 DEF p, n
    <3>2. [scores |-> tile'.scores, filled |-> tile'.filled] =
            ScoredTo(SourceOf(layer), WindowFirst(layer, p), p,
                     Within(WindowFirst(layer, p), p, SweptAt(first, tile'.list, tile'.at)))
      BY <2>10, <2>11, <2>12 DEF lo
    <3> QED
      BY <1>1, <2>1, <2>9, <2>12, <3>1, <3>2, QueryInvNext
  <2> QED
    BY <1>1, <2>12, <2>13, <2>14, RowInvTile
<1> QED
  BY <1>2, <1>3

LEMMA RowInvBeginTiles ==
  ASSUME RowInv, BeginTiles
  PROVE  RowInv' /\ Promised
<1>1. TileStep /\ phase' = "project" /\ tile' = NoTile /\ BeginLayer
  BY DEF BeginTiles
<1>2. LayerInv'
  BY LayerInvBeginTiles DEF RowInv
<1>3. UNCHANGED given /\ UNCHANGED <<start, count, layer>>
  BY <1>1 DEF TileStep, passVars
<1>4. RowsAre(NoTile)
  BY ComputedRowsAre, NoTileFields DEF RowsAre
<1>5. RowsInv'
  BY <1>1, <1>3, <1>4, RowsStay
<1>6. QueryInv' /\ tile'.missing = 0
  BY <1>1 DEF QueryInv, NoTile
<1> QED
  BY <1>1, <1>2, <1>5, <1>6, RowInvTile DEF TilePhases

(* Errors of projections are those of the pages, and no row is finished. *)
LEMMA RowInvProject ==
  ASSUME RowInv, ProjectToken
  PROVE  RowInv' /\ Promised
<1> DEFINE p == start + tile.at
           row == InputRows[tile.at + 1]
           key == TileKey(layer, p, row)
           query == TileQuery(layer, p, tile.at, row)
<1>1. TileStep /\ phase = "project" /\ phase' = "project" /\ LayerInv /\ LayerInv'
  BY LayerInvProject DEF ProjectToken, RowInv
<1>2. UNCHANGED given /\ UNCHANGED <<start, count, layer>>
  BY <1>1 DEF TileStep, passVars
<1>3. tile' = IF ProjectionFails THEN [tile EXCEPT !.errors = @ + 1, !.at = @ + 1]
              ELSE [tile EXCEPT !.keys = Append(@, key), !.queries = Append(@, query), !.at = @ + 1]
  BY DEF ProjectToken
<1> HIDE DEF key, query
<1>4. tile'.rows = tile.rows /\ tile'.missing = tile.missing
      /\ tile'.errors = IF ProjectionFails THEN tile.errors + 1 ELSE tile.errors
  BY <1>1, <1>3 DEF LayerInv, TileInv, TileFields
<1>5. RowsAre(tile) /\ tile.rows = <<>> /\ tile.errors \in Nat /\ Len(<<>>) = 0
  BY <1>1 DEF RowInv, RowsInv, TilePhases, LayerInv, TileInv
<1>6. RowsInv'
  <2> DEFINE t == [tile EXCEPT !.errors = tile'.errors]
  <2>1. t.errors = tile'.errors /\ t.rows = tile.rows
    BY <1>1 DEF LayerInv, TileInv, TileFields
  <2>2. RowsAre(t)
    BY <1>4, <1>5, <2>1 DEF RowsAre
  <2> HIDE DEF t
  <2> QED
    BY <1>2, <1>4, <2>1, <2>2, RowsStay
<1>7. QueryInv'
  BY <1>1 DEF QueryInv
<1>8. tile'.missing = 0
  BY <1>4 DEF RowInv
<1> QED
  BY <1>1, <1>6, <1>7, <1>8, RowInvTile DEF TilePhases

LEMMA RowInvCarry ==
  ASSUME RowInv, CarryChunk
  PROVE  RowInv' /\ Promised
<1> DEFINE kv == tile.kv \o Kept(Chunk(PriorOf(layer), tile.at), start, F.window)
<1>1. TileStep /\ phase = "carry" /\ phase' = "carry" /\ LayerInv /\ LayerInv'
      /\ tile' = [tile EXCEPT !.kv = kv, !.at = @ + ChunkSize]
  BY LayerInvCarry DEF CarryChunk, RowInv
<1>2. UNCHANGED given /\ UNCHANGED <<start, count, layer>>
  BY <1>1 DEF TileStep, passVars
<1> HIDE DEF kv
<1>3. tile'.rows = tile.rows /\ tile'.missing = tile.missing /\ tile'.errors = tile.errors
  BY <1>1 DEF LayerInv, TileInv, TileFields
<1>4. RowsAre(tile)
  BY <1>1 DEF RowInv, RowsInv, TilePhases
<1>5. RowsInv'
  BY <1>2, <1>3, <1>4, RowsStay
<1>6. QueryInv' /\ tile'.missing = 0
  BY <1>1, <1>3 DEF QueryInv, RowInv
<1> QED
  BY <1>1, <1>5, <1>6, RowInvTile DEF TilePhases

LEMMA RowInvEndSweep ==
  ASSUME RowInv, EndSweep
  PROVE  RowInv' /\ Promised
<1>1. TileStep /\ phase \in {"project", "carry"} /\ phase \in TilePhases /\ LayerInv /\ LayerInv'
  BY LayerInvEndSweep DEF EndSweep, RowInv, TilePhases
<1>2. UNCHANGED given /\ UNCHANGED <<start, count, layer>>
  BY <1>1 DEF TileStep, passVars
<1>3. RowsAre(tile) /\ tile.missing = 0
  BY <1>1 DEF RowInv, RowsInv
<1>4. CASE phase = "project"
  <2>1. phase' = "carry" /\ tile' = [tile EXCEPT !.at = 0]
    BY <1>4 DEF EndSweep
  <2>2. tile'.rows = tile.rows /\ tile'.missing = tile.missing /\ tile'.errors = tile.errors
    BY <1>1, <2>1 DEF LayerInv, TileInv, TileFields
  <2>3. RowsInv'
    BY <1>2, <1>3, <2>2, RowsStay
  <2>4. QueryInv' /\ tile'.missing = 0
    BY <1>3, <2>1, <2>2 DEF QueryInv
  <2> QED
    BY <1>1, <2>1, <2>3, <2>4, RowInvTile DEF TilePhases
<1>5. CASE phase = "carry"
  <2>1. BeginQuery(tile)
    BY <1>5 DEF EndSweep
  <2>2. Between(tile)
    BY <1>1, <1>5, CarriedWhole DEF EndSweep
  <2> QED
    BY <1>1, <1>3, <2>1, <2>2, RowInvBeginQuery
<1> QED
  BY <1>1, <1>4, <1>5

-----------------------------------------------------------------------------
(* A query at work.                                                        *)

LEMMA AtQuery ==
  ASSUME RowInv, phase \in {"score", "weigh"}
  PROVE  /\ LayerInv /\ layer < shape.layers /\ layer \in Layers(shape)
         /\ start \in Nat /\ count \in Nat /\ count > 0
         /\ Len(tile.rows) \in Nat /\ Len(tile.rows) < count
         /\ Pos \in Nat /\ start <= Pos /\ Pos < start + count
         /\ ~ProjectionFails
         /\ TheQuery = [position |-> Pos, local |-> Len(tile.rows), residual |-> Row(layer, Pos),
                        q |-> Promise!Query(layer, Pos)]
         /\ tile.keys = Cache(layer, start, start + count)
         /\ F.window \in Nat /\ KernelWindowStart(Pos, F.window) = WindowFirst(layer, Pos)
         /\ WindowFirst(layer, Pos) \in Nat /\ WindowFirst(layer, Pos) <= Pos
         /\ FirstSeen(layer) <= WindowFirst(layer, Pos) /\ FirstSeen(layer) \in Nat
         /\ \A first : PriorIs(layer, first) => Weighing(first)
<1> DEFINE n == Len(tile.rows)
<1>1. LayerInv /\ wiring = "imported"
  BY DEF RowInv
<1>2. start \in Nat /\ count \in Nat /\ layer < shape.layers /\ layer \in Layers(shape)
  BY <1>1, GivenFacts DEF LayerInv, PassInv, TilePhases
<1>3. n \in Nat /\ n < Len(tile.queries)
  BY <1>1 DEF LayerInv, TileInv
<1>4. ~ProjectionFails
  <2>1. Len(<<>>) = 0
    OBVIOUS
  <2> QED
    BY <1>1, <1>3, <2>1 DEF LayerInv, TileInv
<1>5. tile.keys = Cache(layer, start, start + count) /\ tile.queries = Queries(count)
  BY <1>1, <1>4 DEF LayerInv, TileInv
<1>6. n < count /\ n + 1 \in 1 .. count
  <2>1. Len(tile.queries) = count
    BY <1>2, <1>5, QueriesAre
  <2> QED
    BY <1>2, <1>3, <2>1
<1>7. Pos \in Nat /\ start <= Pos /\ Pos < start + count /\ count > 0
  BY <1>2, <1>3, <1>6 DEF Pos
<1>8. TheQuery = [position |-> Pos, local |-> n, residual |-> Row(layer, Pos),
                  q |-> Promise!Query(layer, Pos)]
  <2>1. TheQuery = QueryAt(n + 1)
    BY <1>5, <1>6 DEF TheQuery, Queries
  <2>2. n \in Nat /\ start \in Nat
    BY <1>2, <1>3
  <2>3. Pos = start + n
    BY DEF Pos
  <2> HIDE DEF n
  <2>4. QueryAt(n + 1) = [position |-> start + n, local |-> n, residual |-> Row(layer, start + n),
                          q |-> Promise!Query(layer, start + n)]
    BY <2>2, QueryIs
  <2> QED
    BY <2>1, <2>3, <2>4
<1>9. /\ F.window \in Nat /\ KernelWindowStart(Pos, F.window) = WindowFirst(layer, Pos)
      /\ WindowFirst(layer, Pos) \in Nat /\ WindowFirst(layer, Pos) <= Pos
      /\ FirstSeen(layer) <= WindowFirst(layer, Pos)
  <2> DEFINE p == Pos
  <2>1. p \in Nat /\ start <= p
    BY <1>7
  <2> HIDE DEF p
  <2>2. /\ F.window \in Nat /\ KernelWindowStart(p, F.window) = WindowFirst(layer, p)
        /\ WindowFirst(layer, p) \in Nat /\ WindowFirst(layer, p) <= p
        /\ FirstSeen(layer) <= WindowFirst(layer, p)
    BY <1>1, <1>2, <2>1, WindowFirstIs
  <2> QED
    BY <2>2 DEF p
<1>10. FirstSeen(layer) \in Nat
  BY <1>1, <1>2, FirstSeenIs DEF LayerInv
<1>11. \A first : PriorIs(layer, first) => Weighing(first)
  <2>1. tile.list \in 1 .. 5 /\ tile.at \in Nat
    BY <1>1 DEF LayerInv, TileInv
  <2> QED
    BY <1>1, <1>2, <1>5, <1>7, <2>1 DEF Weighing
<1> QED
  BY <1>1, <1>2, <1>3, <1>4, <1>5, <1>6, <1>7, <1>8, <1>9, <1>10, <1>11

LEMMA RowInvScore ==
  ASSUME RowInv, ScoreChunk
  PROVE  RowInv' /\ Promised
<1> DEFINE lo == WindowFirst(layer, Pos)
           K == SourceOf(layer)
           s == ScoreKeys([scores |-> tile.scores, filled |-> tile.filled], TheQuery, TheChunk, F.window)
<1>1. TileStep /\ phase = "score" /\ phase' = "score" /\ LayerInv' /\ tile.list <= 4 /\ AtChunk
      /\ phase \in TilePhases
      /\ tile' = [tile EXCEPT !.scores = s.scores, !.filled = s.filled, !.at = @ + ChunkSize]
  BY LayerInvScore DEF ScoreChunk, Sweeping, RowInv, TilePhases
<1>2. UNCHANGED given /\ UNCHANGED <<start, count, layer>>
  BY <1>1 DEF TileStep, passVars
<1>3. /\ LayerInv /\ Pos \in Nat /\ F.window \in Nat /\ KernelWindowStart(Pos, F.window) = lo
      /\ TheQuery.position = Pos /\ \A first : PriorIs(layer, first) => Weighing(first)
  BY <1>1, AtQuery
<1>4. PICK first \in 0 .. FirstSeen(layer) :
        PriorIs(layer, first) /\ Scored = Gathered(SweptTo(first)) /\ tile.values = {}
  BY <1>1 DEF RowInv, QueryInv
<1> DEFINE x == SweptAt(first, tile.list, tile.at)
           y == SweptAt(first, tile.list, tile.at + ChunkSize)
<1>5. x \in Nat /\ y \in Nat /\ x <= y /\ TheChunk = Cache(K, x, y)
  BY <1>1, <1>3, <1>4, SweepMoves
<1>6. Scored = ScoredTo(K, lo, Pos, Within(lo, Pos, x))
  BY <1>4 DEF Gathered, SweptTo
<1> HIDE DEF x, y, K
<1>7. s = ScoredTo(K, lo, Pos, Within(lo, Pos, y))
  <2> DEFINE p == Pos
             w == F.window
  <2>1. s = ScoreKeys(ScoredTo(K, lo, p, Within(lo, p, x)), TheQuery, Cache(K, x, y), w)
    BY <1>5, <1>6 DEF Scored
  <2>2. p \in Nat /\ w \in Nat /\ TheQuery.position = p /\ KernelWindowStart(p, w) = lo
    BY <1>3
  <2> DEFINE query == TheQuery
  <2>3. query.position = p
    BY <2>2
  <2> HIDE DEF p, w, s, query
  <2>4. ScoreKeys(ScoredTo(K, KernelWindowStart(p, w), p, Within(KernelWindowStart(p, w), p, x)),
                  query, Cache(K, x, y), w)
          = ScoredTo(K, KernelWindowStart(p, w), p, Within(KernelWindowStart(p, w), p, y))
    BY <1>5, <2>2, <2>3, ScoresMove
  <2> QED
    BY <2>1, <2>2, <2>4 DEF p, query
<1>8. s = [scores |-> s.scores, filled |-> s.filled]
  BY <1>7 DEF ScoredTo
<1> HIDE DEF s
<1>9. /\ tile'.scores = s.scores /\ tile'.filled = s.filled /\ tile'.values = tile.values
      /\ tile'.at = tile.at + ChunkSize /\ tile'.list = tile.list /\ tile'.rows = tile.rows
      /\ tile'.errors = tile.errors /\ tile'.broken = tile.broken /\ tile'.missing = tile.missing
  BY <1>1, <1>3 DEF LayerInv, TileInv, TileFields
<1>10. RowsInv'
  <2>1. RowsAre(tile)
    BY <1>1 DEF RowInv, RowsInv
  <2> QED
    BY <1>2, <1>9, <2>1, RowsStay
<1>11. tile.broken = FALSE /\ tile.missing = 0 /\ ~(tile.list = 5)
  <2>1. tile.broken = FALSE /\ tile.missing = 0
    BY <1>1 DEF RowInv, QueryInv
  <2> QED
    BY <1>1, <2>1
<1>12. QueryInv'
  <2> DEFINE p == Pos
  <2>1. p = start + Len(tile'.rows)
    BY <1>9 DEF Pos
  <2>2. [scores |-> tile'.scores, filled |-> tile'.filled] =
          ScoredTo(SourceOf(layer), WindowFirst(layer, p), p,
                   Within(WindowFirst(layer, p), p, SweptAt(first, tile'.list, tile'.at)))
    BY <1>7, <1>8, <1>9 DEF y, K
  <2>3. tile'.broken = FALSE /\ (tile'.list = 5 => tile'.at = 0) /\ tile'.values = {}
        /\ ~(phase' = "weigh") /\ phase' \in TilePhases
    BY <1>1, <1>4, <1>9, <1>11 DEF TilePhases
  <2> HIDE DEF p
  <2> QED
    BY <1>1, <1>3, <1>4, <2>1, <2>2, <2>3, QueryInvNext
<1> QED
  BY <1>1, <1>9, <1>10, <1>11, <1>12, RowInvTile

(* Every slot has been scored: the softmax does not fail. *)
LEMMA WholeScores ==
  ASSUME RowInv, phase \in {"score", "weigh"}, Scored = Gathered(Pos + 1)
  PROVE  SoftmaxFails(Scored) = FALSE
<1> DEFINE lo == WindowFirst(layer, Pos)
<1>1. Pos \in Nat /\ lo \in Nat /\ lo <= Pos
  BY AtQuery
<1> HIDE DEF lo
<1>2. Scored.filled = (Pos + 1) - lo /\ Len(Scored.scores) = (Pos + 1) - lo
  <2>1. (Pos + 1) - lo \in Nat
    BY <1>1
  <2> QED
    BY <1>1, <2>1 DEF Gathered, ScoredTo, lo
<1>3. ~(Len(Scored.scores) = 0) /\ ~(Scored.filled # Len(Scored.scores))
  BY <1>1, <1>2
<1> QED
  BY <1>3 DEF SoftmaxFails

LEMMA RowInvWeigh ==
  ASSUME RowInv, AccumulateChunk
  PROVE  RowInv' /\ Promised
<1> DEFINE lo == WindowFirst(layer, Pos)
           K == SourceOf(layer)
           values == AccumulateKeys(tile.values, TheQuery, TheChunk, F.window)
<1>1. TileStep /\ phase = "weigh" /\ phase' = "weigh" /\ LayerInv' /\ tile.list <= 4 /\ AtChunk
      /\ phase \in TilePhases
  BY LayerInvWeigh DEF AccumulateChunk, Sweeping, RowInv, TilePhases
<1>2. UNCHANGED given /\ UNCHANGED <<start, count, layer>>
  BY <1>1 DEF TileStep, passVars
<1>3. /\ LayerInv /\ Pos \in Nat /\ F.window \in Nat /\ KernelWindowStart(Pos, F.window) = lo
      /\ TheQuery.position = Pos /\ \A first : PriorIs(layer, first) => Weighing(first)
  BY <1>1, AtQuery
<1>4. PICK first \in 0 .. FirstSeen(layer) :
        PriorIs(layer, first) /\ Scored = Gathered(Pos + 1) /\ tile.values = ValuesTo(SweptTo(first))
  BY <1>1 DEF RowInv, QueryInv
<1>5. tile.broken = FALSE /\ tile.missing = 0 /\ ~(tile.list = 5) /\ SoftmaxFails(Scored) = FALSE
  <2>1. tile.broken = FALSE /\ tile.missing = 0
    BY <1>1 DEF RowInv, QueryInv
  <2>2. ~(tile.list = 5)
    <3>1. tile.list <= 4
      BY <1>1
    <3> QED
      BY <3>1
  <2>3. SoftmaxFails(Scored) = FALSE
    <3>1. phase \in {"score", "weigh"}
      BY <1>1
    <3>2. Scored = Gathered(Pos + 1)
      BY <1>4
    <3> QED
      BY <1>1, <3>1, <3>2, WholeScores
  <2> QED
    BY <2>1, <2>2, <2>3
<1>6. tile' = [tile EXCEPT !.at = @ + ChunkSize, !.broken = FALSE, !.values = values]
  BY <1>5 DEF AccumulateChunk
<1> DEFINE x == SweptAt(first, tile.list, tile.at)
           y == SweptAt(first, tile.list, tile.at + ChunkSize)
<1>7. x \in Nat /\ y \in Nat /\ x <= y /\ TheChunk = Cache(K, x, y)
  BY <1>1, <1>3, <1>4, SweepMoves
<1>8. tile.values = ValuesFrom(K, lo, Within(lo, Pos, x))
  BY <1>4 DEF ValuesTo, SweptTo
<1> HIDE DEF x, y, K
<1>9. values = ValuesFrom(K, lo, Within(lo, Pos, y))
  <2> DEFINE p == Pos
             w == F.window
             query == TheQuery
  <2>1. values = AccumulateKeys(ValuesFrom(K, lo, Within(lo, p, x)), query, Cache(K, x, y), w)
    BY <1>7, <1>8
  <2>2. p \in Nat /\ w \in Nat /\ KernelWindowStart(p, w) = lo
    BY <1>3
  <2>3. query.position = p
    BY <1>3
  <2> HIDE DEF p, w, values, query
  <2>4. AccumulateKeys(ValuesFrom(K, KernelWindowStart(p, w), Within(KernelWindowStart(p, w), p, x)),
                       query, Cache(K, x, y), w)
          = ValuesFrom(K, KernelWindowStart(p, w), Within(KernelWindowStart(p, w), p, y))
    BY <1>7, <2>2, <2>3, ValuesMove
  <2> QED
    BY <2>1, <2>2, <2>4 DEF p
<1> HIDE DEF values
<1>10. /\ tile'.scores = tile.scores /\ tile'.filled = tile.filled /\ tile'.values = values
       /\ tile'.at = tile.at + ChunkSize /\ tile'.list = tile.list /\ tile'.rows = tile.rows
       /\ tile'.errors = tile.errors /\ tile'.broken = FALSE /\ tile'.missing = tile.missing
  BY <1>3, <1>6 DEF LayerInv, TileInv, TileFields
<1>11. RowsInv'
  <2>1. RowsAre(tile)
    BY <1>1 DEF RowInv, RowsInv
  <2> QED
    BY <1>2, <1>10, <2>1, RowsStay
<1>12. QueryInv'
  <2> DEFINE p == Pos
  <2>1. p = start + Len(tile'.rows)
    BY <1>10 DEF Pos
  <2>2. tile'.values = ValuesFrom(SourceOf(layer), WindowFirst(layer, p),
                                  Within(WindowFirst(layer, p), p, SweptAt(first, tile'.list, tile'.at)))
    BY <1>9, <1>10 DEF y, K
  <2>3. [scores |-> tile'.scores, filled |-> tile'.filled]
          = ScoredTo(SourceOf(layer), WindowFirst(layer, p), p, p + 1)
    BY <1>4, <1>10 DEF Scored, Gathered
  <2>4. (tile'.list = 5 => tile'.at = 0) /\ ~(phase' = "score") /\ phase' \in TilePhases
    BY <1>1, <1>5, <1>10 DEF TilePhases
  <2> HIDE DEF p
  <2> QED
    BY <1>1, <1>3, <1>4, <1>10, <2>1, <2>2, <2>3, <2>4, QueryInvNext
<1> QED
  BY <1>1, <1>5, <1>10, <1>11, <1>12, RowInvTile


-----------------------------------------------------------------------------
(* A sweep goes on with the next list; after the last, the scores become   *)
(* weights and the lists are swept again.                                  *)

LEMMA RowInvNextList ==
  ASSUME RowInv, NextList
  PROVE  RowInv' /\ Promised
<1> DEFINE lo == WindowFirst(layer, Pos)
<1>1. TileStep /\ phase \in {"score", "weigh"} /\ phase' = phase /\ LayerInv' /\ tile.list <= 4 /\ ~AtChunk
      /\ phase \in TilePhases /\ tile' = [tile EXCEPT !.list = @ + 1, !.at = 0]
  BY LayerInvNextList DEF NextList, RowInv, TilePhases
<1>2. UNCHANGED given /\ UNCHANGED <<start, count, layer>>
  BY <1>1 DEF TileStep, passVars
<1>3. /\ LayerInv /\ Pos \in Nat
      /\ \A first : PriorIs(layer, first) => Weighing(first)
  BY <1>1, AtQuery
<1>4. PICK first \in 0 .. FirstSeen(layer) :
        /\ PriorIs(layer, first)
        /\ phase = "score" => Scored = Gathered(SweptTo(first)) /\ tile.values = {}
        /\ phase = "weigh" => Scored = Gathered(Pos + 1) /\ tile.values = ValuesTo(SweptTo(first))
  BY <1>1 DEF RowInv, QueryInv
<1>5. SweptAt(first, tile.list + 1, 0) = SweptAt(first, tile.list, tile.at)
  BY <1>1, <1>3, <1>4, SweepMoves
<1>6. /\ tile'.scores = tile.scores /\ tile'.filled = tile.filled /\ tile'.values = tile.values
      /\ tile'.at = 0 /\ tile'.list = tile.list + 1 /\ tile'.rows = tile.rows
      /\ tile'.errors = tile.errors /\ tile'.broken = tile.broken /\ tile'.missing = tile.missing
  BY <1>1, <1>3 DEF LayerInv, TileInv, TileFields
<1>7. RowsInv'
  <2>1. RowsAre(tile)
    BY <1>1 DEF RowInv, RowsInv
  <2> QED
    BY <1>2, <1>6, <2>1, RowsStay
<1>8. tile.broken = FALSE /\ tile.missing = 0
  BY <1>1 DEF RowInv, QueryInv
<1>9. QueryInv'
  <2> DEFINE p == Pos
  <2>1. p = start + Len(tile'.rows)
    BY <1>6 DEF Pos
  <2>2. Within(lo, p, SweptAt(first, tile'.list, tile'.at)) = SweptTo(first)
    BY <1>5, <1>6 DEF SweptTo
  <2>3. /\ phase' = "score" =>
             /\ [scores |-> tile'.scores, filled |-> tile'.filled] =
                  ScoredTo(SourceOf(layer), WindowFirst(layer, p), p,
                           Within(WindowFirst(layer, p), p, SweptAt(first, tile'.list, tile'.at)))
             /\ tile'.values = {}
        /\ phase' = "weigh" =>
             /\ [scores |-> tile'.scores, filled |-> tile'.filled] =
                  ScoredTo(SourceOf(layer), WindowFirst(layer, p), p, p + 1)
             /\ tile'.values = ValuesFrom(SourceOf(layer), WindowFirst(layer, p),
                                 Within(WindowFirst(layer, p), p, SweptAt(first, tile'.list, tile'.at)))
    BY <1>1, <1>4, <1>6, <2>2 DEF Scored, Gathered, ValuesTo
  <2>4. tile'.broken = FALSE /\ (tile'.list = 5 => tile'.at = 0) /\ phase' \in TilePhases
    BY <1>1, <1>6, <1>8
  <2> HIDE DEF p
  <2> QED
    BY <1>1, <1>3, <1>4, <2>1, <2>3, <2>4, QueryInvNext
<1> QED
  BY <1>1, <1>6, <1>7, <1>8, <1>9, RowInvTile

LEMMA RowInvSoftmax ==
  ASSUME RowInv, SoftmaxScores
  PROVE  RowInv' /\ Promised
<1> DEFINE lo == WindowFirst(layer, Pos)
           K == SourceOf(layer)
           missing == IF SoftmaxFails(Scored) THEN tile.missing + 1 ELSE tile.missing
<1>1. TileStep /\ phase = "score" /\ phase' = "weigh" /\ LayerInv' /\ tile.list > 4
      /\ phase \in TilePhases /\ phase' \in TilePhases
      /\ tile' = [tile EXCEPT !.list = 1, !.missing = missing]
  BY LayerInvNextList DEF SoftmaxScores, RowInv, TilePhases
<1> HIDE DEF missing
<1>2. UNCHANGED given /\ UNCHANGED <<start, count, layer>>
  BY <1>1 DEF TileStep, passVars
<1>3. /\ LayerInv /\ Pos \in Nat /\ start \in Nat /\ count \in Nat /\ count > 0 /\ Pos < start + count
      /\ lo \in Nat /\ lo <= Pos /\ FirstSeen(layer) <= lo /\ FirstSeen(layer) \in Nat
      /\ layer < shape.layers
  BY <1>1, AtQuery
<1>4. PICK first \in 0 .. FirstSeen(layer) :
        PriorIs(layer, first) /\ Scored = Gathered(SweptTo(first)) /\ tile.values = {}
  BY <1>1 DEF RowInv, QueryInv
<1>5. tile.list = 5 /\ tile.at = 0 /\ tile.broken = FALSE /\ tile.missing = 0
  <2>1. tile.list \in 1 .. 5
    BY <1>3 DEF LayerInv, TileInv
  <2>2. tile.list = 5
    BY <1>1, <2>1
  <2> QED
    BY <1>1, <2>2 DEF RowInv, QueryInv
<1>6. /\ SweptAt(first, 1, 0) \in Nat /\ SweptAt(first, 1, 0) <= FirstSeen(layer)
      /\ SweptAt(first, 5, 0) = start + count
  BY <1>3, <1>4, SweepEnds
<1>7. SweptTo(first) = Pos + 1
  <2>1. Within(lo, Pos, start + count) = Pos + 1
    BY <1>3 DEF Within
  <2> QED
    BY <1>5, <1>6, <2>1 DEF SweptTo
<1>8. Scored = Gathered(Pos + 1) /\ SoftmaxFails(Scored) = FALSE
  <2>1. Scored = Gathered(Pos + 1)
    BY <1>4, <1>7
  <2>2. phase \in {"score", "weigh"}
    BY <1>1
  <2> QED
    BY <2>1, <2>2, WholeScores
<1>9. /\ tile'.scores = tile.scores /\ tile'.filled = tile.filled /\ tile'.values = tile.values
      /\ tile'.at = 0 /\ tile'.list = 1 /\ tile'.rows = tile.rows
      /\ tile'.errors = tile.errors /\ tile'.broken = FALSE /\ tile'.missing = 0
  <2>1. missing = 0
    BY <1>5, <1>8 DEF missing
  <2> QED
    BY <1>1, <1>3, <1>5, <2>1 DEF LayerInv, TileInv, TileFields
<1>10. RowsInv'
  <2>1. RowsAre(tile)
    BY <1>1 DEF RowInv, RowsInv
  <2> QED
    BY <1>2, <1>9, <2>1, RowsStay
<1>11. Within(lo, Pos, SweptAt(first, 1, 0)) = lo
  BY <1>3, <1>6 DEF Within
<1>12. ValuesFrom(K, lo, lo) = {}
  <2>1. lo .. (lo - 1) = {}
    BY <1>3
  <2> QED
    BY <2>1 DEF ValuesFrom
<1>13. QueryInv'
  <2> DEFINE p == Pos
  <2>1. p = start + Len(tile'.rows)
    BY <1>9 DEF Pos
  <2>2. tile'.values = ValuesFrom(SourceOf(layer), WindowFirst(layer, p),
                                  Within(WindowFirst(layer, p), p, SweptAt(first, tile'.list, tile'.at)))
    BY <1>4, <1>9, <1>11, <1>12
  <2>3. [scores |-> tile'.scores, filled |-> tile'.filled]
          = ScoredTo(SourceOf(layer), WindowFirst(layer, p), p, p + 1)
    BY <1>8, <1>9 DEF Scored, Gathered
  <2>4. (tile'.list = 5 => tile'.at = 0) /\ ~(phase' = "score")
    BY <1>1, <1>9
  <2> HIDE DEF p
  <2> QED
    BY <1>1, <1>3, <1>4, <1>9, <2>1, <2>2, <2>3, <2>4, QueryInvNext
<1> QED
  BY <1>1, <1>9, <1>10, <1>13, RowInvTile


(* The row of a query is the promised one, unless the pages cut its last   *)
(* matrices.                                                               *)
LEMMA RowOfQuery ==
  ASSUME RowInv, phase = "weigh", tile.list > 4
  PROVE  LET context == IF tile.broken THEN Failed ELSE Context(TheQuery.q, tile.scores, tile.values)
             row == TileRow(layer, TheQuery, context, ple[layer + 1][TheQuery.local + 1])
         IN  /\ ClosingFails => row = Failed
             /\ ~ClosingFails => row = Promise!Computed(layer, Pos)
<1> DEFINE n == Len(tile.rows)
           lo == WindowFirst(layer, Pos)
           K == SourceOf(layer)
           context == IF tile.broken THEN Failed ELSE Context(TheQuery.q, tile.scores, tile.values)
           ple0 == ple[layer + 1][TheQuery.local + 1]
<1>1. phase \in {"score", "weigh"} /\ phase \in TilePhases
  BY DEF TilePhases
<1>2. /\ LayerInv /\ Pos \in Nat /\ start \in Nat /\ count \in Nat /\ count > 0 /\ Pos < start + count
      /\ lo \in Nat /\ lo <= Pos /\ n \in Nat /\ n < count /\ layer < shape.layers
      /\ layer \in Layers(shape)
      /\ TheQuery = [position |-> Pos, local |-> n, residual |-> Row(layer, Pos),
                     q |-> Promise!Query(layer, Pos)]
  BY <1>1, AtQuery
<1>3. PICK first \in 0 .. FirstSeen(layer) :
        PriorIs(layer, first) /\ Scored = Gathered(Pos + 1) /\ tile.values = ValuesTo(SweptTo(first))
  BY DEF RowInv, QueryInv
<1>4. tile.list = 5 /\ tile.at = 0 /\ tile.broken = FALSE
  <2>1. tile.list \in 1 .. 5
    BY <1>2 DEF LayerInv, TileInv
  <2>2. tile.list = 5
    BY <2>1
  <2> QED
    BY <2>2 DEF RowInv, QueryInv
<1>5. SweptTo(first) = Pos + 1
  <2>1. SweptAt(first, 5, 0) = start + count
    BY <1>2, <1>3, SweepEnds
  <2>2. Within(lo, Pos, start + count) = Pos + 1
    BY <1>2 DEF Within
  <2> QED
    BY <1>4, <2>1, <2>2 DEF SweptTo
<1>6. tile.values = ValuesFrom(K, lo, Pos + 1)
  BY <1>3, <1>5 DEF ValuesTo
<1>7. tile.scores = KeysFrom(K, lo, Pos + 1)
  <2> DEFINE p == Pos
             first0 == lo
             key(s) == Promise!Key(K, first0 + (s - 1))
             held(s) == IF first0 + (s - 1) < p + 1 THEN key(s) ELSE Failed
  <2>1. tile.scores = [s \in 1 .. ((p + 1) - first0) |-> held(s)]
    BY <1>3 DEF Scored, Gathered, ScoredTo
  <2>2. p \in Nat /\ first0 \in Nat
    BY <1>2
  <2>3. KeysFrom(K, first0, p + 1) = [s \in 1 .. ((p + 1) - first0) |-> key(s)]
    BY DEF KeysFrom
  <2> HIDE DEF p, first0, key
  <2>4. \A s \in 1 .. ((p + 1) - first0) : held(s) = key(s)
    BY <2>2
  <2> HIDE DEF held
  <2>5. tile.scores = KeysFrom(K, first0, p + 1)
    BY <2>1, <2>3, <2>4, Zenon
  <2> QED
    BY <2>5 DEF first0, p
<1>8. context = Promise!Attended(layer, Pos) /\ context # Failed
  <2>1. TheQuery.q = Promise!Query(layer, Pos)
    BY <1>2
  <2>2. context = Attended(layer, Pos)
    BY <1>4, <1>6, <1>7, <2>1 DEF Attended
  <2>3. GivenInv
    BY <1>2 DEF LayerInv
  <2> DEFINE p == Pos
  <2>4. p \in Nat
    BY <1>2
  <2> HIDE DEF p
  <2>5. Promise!Attended(layer, p) = Attended(layer, p)
    BY <1>2, <2>3, <2>4, PromisedContext
  <2>6. Attended(layer, Pos) # Failed
    BY DEF Attended, Context, Failed
  <2> QED
    BY <2>2, <2>5, <2>6 DEF p
<1>9. TheQuery.residual = Row(layer, Pos) /\ TheQuery.local = n
  BY <1>2
<1>10. ple0 = Promise!PerLayer(layer, Pos)
  <2>1. ple[layer + 1] = PleRows(layer)
    BY <1>1, InputsOfLayer
  <2>2. n + 1 \in 1 .. count /\ start + ((n + 1) - 1) = start + n
    BY <1>2
  <2>3. ple0 = PleRows(layer)[n + 1]
    BY <1>9, <2>1
  <2>4. PleRows(layer)[n + 1] = Promise!PerLayer(layer, start + ((n + 1) - 1))
    BY <2>2 DEF PleRows
  <2> QED
    BY <2>2, <2>3, <2>4 DEF Pos
<1> HIDE DEF context, ple0
<1> DEFINE row == TileRow(layer, TheQuery, context, ple0)
<1>11. ClosingFails => row = Failed
  BY DEF TileRow, ClosingFails
<1>12. ASSUME ~ClosingFails PROVE row = Promise!Computed(layer, Pos)
  <2> DEFINE query == TheQuery
  <2> HIDE DEF query
  <2>1. TileRow(layer, query, context, ple0) = RowFrom(layer, context, query.residual, ple0)
    BY <1>8, <1>12, TileRowIs
  <2>2. row = RowFrom(layer, Promise!Attended(layer, Pos), Row(layer, Pos), Promise!PerLayer(layer, Pos))
    BY <1>8, <1>9, <1>10, <2>1 DEF query
  <2> QED
    BY <2>2, PromisedRow
<1> QED
  BY <1>11, <1>12 DEF context, ple0

LEMMA RowInvFinishRow ==
  ASSUME RowInv, FinishRow
  PROVE  RowInv' /\ Promised
<1> DEFINE n == Len(tile.rows)
           context == IF tile.broken THEN Failed ELSE Context(TheQuery.q, tile.scores, tile.values)
           row == TileRow(layer, TheQuery, context, ple[layer + 1][TheQuery.local + 1])
           t == Finished(row)
<1>1. TileStep /\ phase = "weigh" /\ phase \in TilePhases /\ tile.list > 4 /\ LayerInv /\ LayerInv'
  BY LayerInvFinishRow DEF FinishRow, TilePhases, RowInv
<1>2. /\ n \in Nat /\ n < count /\ count \in Nat /\ start \in Nat /\ TheQuery.local = n
      /\ tile.keys = Cache(layer, start, start + count)
  <2>1. phase \in {"score", "weigh"}
    BY <1>1
  <2> QED
    BY <2>1, AtQuery
<1>3. Len(ple[layer + 1]) = count /\ Len(tile.keys) = count
  <2>1. Len(ple[layer + 1]) = count
    BY <1>1, InputsOfLayer
  <2>2. Len(Cache(layer, start, start + count)) = (start + count) - start
    <3>1. start \in Nat /\ start + count \in Nat /\ start <= start + count
      BY <1>2
    <3> QED
      BY <3>1, CacheFacts
  <2> QED
    BY <1>2, <2>1, <2>2
<1>4. BeginQuery(t)
  <2>1. ~(TheQuery.local >= Len(ple[layer + 1]) \/ TheQuery.local >= Len(tile.keys))
    BY <1>2, <1>3
  <2> QED
    BY <2>1 DEF FinishRow, Finished
<1>5. /\ ClosingFails => row = Failed
      /\ ~ClosingFails => row = Promise!Computed(layer, Pos)
  BY <1>1, RowOfQuery
<1> HIDE DEF row
<1>6. Between(t)
  BY <1>1, FinishedIs
<1>7. /\ t.rows = Append(tile.rows, row) /\ t.missing = tile.missing
      /\ t.errors = (IF row = Failed THEN tile.errors + 1 ELSE tile.errors)
      /\ tile.errors \in Nat /\ \E S : tile.rows \in Seq(S)
  BY <1>1 DEF Finished, LayerInv, TileInv, TileFields
<1>8. RowsAre(tile) /\ tile.missing = 0
  BY <1>1 DEF RowInv, RowsInv
<1>9. Len(t.rows) = n + 1
  <2>1. PICK S : tile.rows \in Seq(S)
    BY <1>7
  <2>2. tile.rows \in Seq(S \cup {row})
    BY <2>1
  <2> QED
    BY <1>7, <2>2, AppendProperties
<1> HIDE DEF t
<1>10. CASE ClosingFails
  <2>1. t.errors = tile.errors + 1 /\ tile.errors >= n
    BY <1>5, <1>7, <1>8, <1>10 DEF RowsAre
  <2> HIDE DEF n
  <2>2. t.errors >= n + 1
    BY <1>2, <1>7, <2>1
  <2>3. RowsAre(t)
    BY <1>9, <1>10, <2>2 DEF RowsAre
  <2> QED
    BY <1>1, <1>4, <1>6, <1>7, <1>8, <2>3, RowInvBeginQuery
<1>11. CASE ~ClosingFails
  <2>1. row = Promise!Computed(layer, start + n) /\ row # Failed
    BY <1>5, <1>11, PromisedRow DEF Pos
  <2>2. tile.rows = ComputedRows(n)
    BY <1>8, <1>11 DEF RowsAre
  <2> HIDE DEF n
  <2>3. Append(ComputedRows(n), Promise!Computed(layer, start + n)) = ComputedRows(n + 1)
    BY <1>2, ComputedRowsAre
  <2>4. t.rows = ComputedRows(Len(t.rows)) /\ t.errors = tile.errors
    BY <1>7, <1>9, <2>1, <2>2, <2>3
  <2>5. RowsAre(t)
    BY <1>8, <1>11, <2>4 DEF RowsAre
  <2> QED
    BY <1>1, <1>4, <1>6, <1>7, <1>8, <2>5, RowInvBeginQuery
<1> QED
  BY <1>10, <1>11


LEMMA RowInvEndLayer ==
  ASSUME RowInv, EndLayer
  PROVE  RowInv' /\ Promised
<1>1. /\ UNCHANGED given /\ UNCHANGED <<start, count, ple, tile>> /\ phase = "close" /\ phase \in TilePhases
      /\ phase # "failed" /\ phase' \in {"layer", "failed"}
  BY DEF EndLayer, passVars, TilePhases
<1>2. LayerInv' /\ LayerInv /\ wiring = "imported" /\ wiring' = "imported" /\ tile'.missing = 0
      /\ RowsAre(tile) /\ (count = 0 => out = <<>>)
  BY <1>1, LayerInvEndLayer DEF RowInv, RowsInv, given
<1>3. layer < shape.layers /\ runtime = "staged" /\ start \in Nat /\ count \in Nat
  BY <1>1, <1>2 DEF LayerInv, PassInv
<1>4. \E n \in Nat : ple' = PleOf(n)'
  <2>1. PICK n \in Nat : ple = PleOf(n)
    BY DEF RowInv, PleInv
  <2>2. PleOf(n)' = PleOf(n)
    BY <1>1 DEF PleOf, PleRows
  <2> QED
    BY <1>1, <2>1, <2>2
<1>5. CASE tile.errors > 0
  <2>1. UNCHANGED <<layer, caches, out>> /\ phase' = "failed"
    BY <1>5 DEF EndLayer
  <2>2. RowInv'
    BY <1>1, <1>2, <1>4, <2>1, RowInvIdle
  <2>3. torn # "none"
    <3>1. PICK w \in {"w_q", "w_k", "w_v"} \cup ClosingMatrices : TileFails(w)
      BY <1>2, <1>5 DEF RowsAre, ProjectionFails, ClosingFails
    <3>2. w = torn
      BY <3>1, WholePagesFit
    <3> QED
      BY <3>1, <3>2 DEF ClosingMatrices
  <2>4. Promise!Next
    BY <1>1, <1>3, <2>1, <2>3, FailsOnlyThen
  <2> QED
    BY <2>2, <2>4 DEF Promised
<1>6. CASE ~(tile.errors > 0)
  <2>1. Publish(tile.rows, tile.kv) /\ phase' = "layer"
    BY <1>6 DEF EndLayer
  <2>2. Len(tile.rows) = count
    <3>1. /\ Len(tile.rows) = Len(tile.queries) /\ tile.errors \in Nat /\ Len(tile.rows) \in 0 .. count
          /\ ProjectionFails => tile.errors >= count
          /\ ~ProjectionFails => tile.queries = Queries(count)
      BY <1>1, <1>2 DEF LayerInv, TileInv
    <3>2. CASE ProjectionFails
      BY <1>3, <1>6, <3>1, <3>2
    <3>3. CASE ~ProjectionFails
      BY <1>3, <3>1, <3>3, QueriesAre
    <3> QED
      BY <3>2, <3>3
  <2>3. tile.rows = ComputedRows(count)
    <3>1. CASE ClosingFails
      <4>1. count = 0
        BY <1>2, <1>3, <1>6, <2>2, <3>1 DEF RowsAre, LayerInv, TileInv
      <4>2. \E S : tile.rows \in Seq(S)
        BY <1>1, <1>2 DEF LayerInv, TileInv
      <4>3. tile.rows = <<>>
        BY <2>2, <4>1, <4>2
      <4> QED
        BY <4>1, <4>3, ComputedRowsAre
    <3>2. CASE ~ClosingFails
      BY <1>2, <2>2, <3>2 DEF RowsAre
    <3> QED
      BY <3>1, <3>2
  <2> DEFINE kv == tile.kv
  <2>4. Publish(ComputedRows(count), kv)
    BY <2>1, <2>3
  <2> HIDE DEF kv
  <2>5. count' = 0 => out' = <<>>
    BY <1>1, <2>4, ComputedRowsAre DEF Publish
  <2>6. RowInv'
    BY <1>1, <1>2, <1>4, <2>5, RowInvIdle
  <2>7. phase' # "failed"
    BY <2>1
  <2>8. Promise!Next \/ UNCHANGED PromisedVars
    BY <1>1, <1>2, <1>3, <2>4, <2>7, PublishAttends
  <2> QED
    BY <2>6, <2>8 DEF Promised
<1> QED
  BY <1>5, <1>6

-----------------------------------------------------------------------------
(* The layers keep the promise, and the invariant that shows it.           *)

LEMMA RowInvNext == RowInv /\ [Next]_vars => RowInv' /\ Promised
<1> SUFFICES ASSUME RowInv, [Next]_vars PROVE RowInv' /\ Promised
  OBVIOUS
<1>1. CASE UNCHANGED vars
  <2>1. /\ UNCHANGED given /\ UNCHANGED <<start, count, layer>> /\ UNCHANGED <<ple, out, tile, phase>>
    BY <1>1 DEF vars, passVars
  <2>2. LayerInv' /\ wiring' = "imported"
    BY <1>1, <2>1, LayerInvNext DEF RowInv, given
  <2>3. PleInv'
    <3>1. PICK n \in Nat : ple = PleOf(n) /\ (phase \in TilePhases => layer < n)
      BY DEF RowInv, PleInv
    <3>2. PleOf(n)' = PleOf(n)
      BY <2>1, TermsStay
    <3> QED
      BY <2>1, <3>1, <3>2 DEF PleInv
  <2>4. RowsInv'
    <3>1. CASE phase \in TilePhases
      <4>1. RowsAre(tile) /\ tile'.errors = tile.errors /\ tile'.rows = tile.rows
        BY <2>1, <3>1 DEF RowInv, RowsInv
      <4> QED
        BY <2>1, <4>1, RowsStay
    <3>2. CASE phase \notin TilePhases
      BY <2>1, <3>2 DEF RowsInv
    <3> QED
      BY <3>1, <3>2
  <2>5. QueryInv'
    <3>1. QueryInv
      BY DEF RowInv
    <3>2. UNCHANGED <<shape, facts, pass, prior>>
      BY <1>1 DEF vars, passVars, given
    <3>3. /\ FirstSeen(layer)' = FirstSeen(layer)
          /\ \A first : PriorIs(layer, first)' <=> PriorIs(layer, first)
      BY <2>1, <3>2 DEF FirstSeen, WindowSize, PriorIs, PriorOf
    <3>4. Pos' = Pos /\ SourceOf(layer)' = SourceOf(layer) /\ Scored' = Scored
      BY <2>1, <3>2 DEF Pos, SourceOf, DonorOf, Scored
    <3>5. WindowFirst(layer, Pos)' = WindowFirst(layer, Pos)
      BY <2>1, <3>2, <3>4 DEF WindowFirst, WindowSize
    <3>6. \A first : SweptTo(first)' = SweptTo(first)
      <4>1. \A first : SweptAt(first, tile.list, tile.at)' = SweptAt(first, tile.list, tile.at)
        BY <2>1, <3>2, <3>3 DEF SweptAt, DonorOf, F
      <4> QED
        BY <3>4, <3>5, <4>1 DEF SweptTo
    <3>7. /\ \A x : Gathered(x)' = Gathered(x) /\ ValuesTo(x)' = ValuesTo(x)
      BY <3>4, <3>5 DEF Gathered, ValuesTo
    <3>8. Gathered(Pos + 1)' = Gathered(Pos + 1)
      BY <3>4, <3>5 DEF Gathered
    <3>9. \A first : /\ Gathered(SweptTo(first))' = Gathered(SweptTo(first))
                     /\ ValuesTo(SweptTo(first))' = ValuesTo(SweptTo(first))
      BY <3>4, <3>5, <3>6 DEF Gathered, ValuesTo
    <3> QED
      BY <2>1, <3>1, <3>3, <3>4, <3>8, <3>9 DEF QueryInv
  <2>6. RowInv'
    BY <2>1, <2>2, <2>3, <2>4, <2>5 DEF RowInv
  <2>7. UNCHANGED PromisedVars
    <3>1. UNCHANGED <<start, count, layer, out>> /\ (phase' = "failed" <=> phase = "failed")
      BY <2>1
    <3> QED
      BY <2>1, <3>1, Stutters
  <2> QED
    BY <2>6, <2>7 DEF Promised
<1>2. CASE Next
  BY <1>2, RowInvPrepare, RowInvNative, RowInvEndPass, RowInvBeginTiles, RowInvProject, RowInvCarry,
     RowInvEndSweep, RowInvScore, RowInvNextList, RowInvSoftmax, RowInvWeigh, RowInvFinishRow,
     RowInvEndLayer DEF Next
<1> QED
  BY <1>1, <1>2

LEMMA PromiseBegins == Init => Promise!Init
<1> SUFFICES ASSUME Init PROVE Promise!Init
  OBVIOUS
<1>1. shape.layers \in Nat /\ Layers(shape) = 0 .. (shape.layers - 1)
  <2>1. GivenInv
    BY LayerInvInit DEF LayerInv
  <2> QED
    BY <2>1, GivenFacts
<1>2. start = 0 /\ layer = 0 /\ count \in Nat /\ out = <<>> /\ phase = "layer"
  BY PassAssumption DEF Init
<1>3. \A l \in Layers(shape) : (IF l < layer THEN start + count ELSE start) = 0
  BY <1>1, <1>2
<1>4. Reached = [l \in Promise!Layers(shape) |-> 0]
  BY <1>3, PromisedLayers DEF Reached
<1>5. start + count \in Nat /\ (phase = "failed") = FALSE
  BY <1>2
<1> QED
  BY <1>2, <1>4, <1>5 DEF Promise!Init, Reached

(* Whoever executes the layers, kernels, tiles or the direct runtime, each *)
(* row is causal attention over the whole history, once per token and      *)
(* layer, whatever the window, the chunks, the pages, the threads and the  *)
(* number of passes; a pass fails only without tokens, or where the pages  *)
(* that tiles read cut the rows of a matrix.  The wiring is the one that   *)
(* an import gives a chain.                                                *)
THEOREM LayersAttend == Spec /\ wiring = "imported" => IsCausalAttention
<1>1. Promised => [Promise!Next]_<<Promise!given, start + count, Reached, out, phase = "failed">>
  BY DEF Promised, PromisedVars
<1> QED
  BY <1>1, RowInvInit, RowInvNext, PromiseBegins, PTL
  DEF Spec, IsCausalAttention, Promise!Spec, Reached

(* With the wiring of an import no query misses a key of its window.       *)
THEOREM ImportedWindowsAreWhole == Spec /\ wiring = "imported" => []IncompleteWindowsFail
<1>1. RowInv => IncompleteWindowsFail
  BY DEF RowInv, IncompleteWindowsFail
<1> QED
  BY <1>1, RowInvInit, RowInvNext, PTL DEF Spec
=============================================================================

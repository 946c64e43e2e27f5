--------------------------- MODULE OperatorsProofs ---------------------------
(***************************************************************************)
(* Theorems about the size classes, the arithmetic of requests and the     *)
(* lists, for machine words, numbers of bins and lists of any size.        *)
(***************************************************************************)
EXTENDS Operators, ListProofs, FiniteSetTheorems

-----------------------------------------------------------------------------
(* The shift: ShiftedOne *)

Doubled(f, n) == IF n = 0 THEN 1 ELSE 2 * f[n - 1]

\* f is ShiftedOne up to m.
DoublesTo(f, m) == f = [n \in 0 .. m |-> Doubled(f, n)]

LEMMA DoublesExist == \A m \in Nat : \E f : DoublesTo(f, m)
<1> DEFINE S == {m \in Nat : \E f : DoublesTo(f, m)}
<1>1. 0 \in S
  <2> DEFINE f == [n \in 0 .. 0 |-> 1]
  <2>1. f = [n \in 0 .. 0 |-> Doubled(f, n)]
    BY DEF Doubled
  <2> HIDE DEF f
  <2>2. QED
    BY <2>1 DEF DoublesTo
<1>2. ASSUME NEW m \in Nat, m \in S
      PROVE  m + 1 \in S
  <2>1. PICK f : f = [n \in 0 .. m |-> Doubled(f, n)]
    BY <1>2 DEF DoublesTo
  <2> DEFINE g == [n \in 0 .. m + 1 |-> Doubled(f, n)]
  <2>2. \A n \in 0 .. m : g[n] = f[n]
    BY <2>1
  <2>3. ASSUME NEW n \in 0 .. m + 1
        PROVE  Doubled(f, n) = Doubled(g, n)
    <3>1. n = 0 \/ n - 1 \in 0 .. m
      OBVIOUS
    <3> HIDE DEF g
    <3>2. QED
      BY <2>2, <3>1 DEF Doubled
  <2>4. g = [n \in 0 .. m + 1 |-> Doubled(g, n)]
    <3>1. [n \in 0 .. m + 1 |-> Doubled(f, n)] = [n \in 0 .. m + 1 |-> Doubled(g, n)]
      BY <2>3, Zenon
    <3>2. QED
      BY <3>1
  <2> HIDE DEF g
  <2>5. QED
    BY <2>4 DEF DoublesTo
<1> HIDE DEF S
<1>3. \A m \in Nat : m \in S
  BY <1>1, <1>2, Induction
<1>4. QED
  BY <1>3 DEF S

LEMMA DoublesUnique ==
  ASSUME NEW m \in Nat, NEW k \in Nat, m <= k, NEW f, NEW g, DoublesTo(f, m), DoublesTo(g, k)
  PROVE  \A n \in 0 .. m : f[n] = g[n]
<1> DEFINE S == {n \in Nat : n <= m => f[n] = g[n]}
<1>1. ASSUME NEW n \in Nat, n <= m
      PROVE  f[n] = Doubled(f, n) /\ g[n] = Doubled(g, n)
  <2>1. n \in 0 .. m /\ n \in 0 .. k
    BY <1>1
  <2>2. f = [i \in 0 .. m |-> Doubled(f, i)] /\ g = [i \in 0 .. k |-> Doubled(g, i)]
    BY DEF DoublesTo
  <2>3. f[n] = [i \in 0 .. m |-> Doubled(f, i)][n] /\ g[n] = [i \in 0 .. k |-> Doubled(g, i)][n]
    BY <2>2
  <2>4. QED
    BY <2>1, <2>3
<1>2. 0 \in S
  BY <1>1 DEF Doubled
<1>3. ASSUME NEW n \in Nat, n \in S
      PROVE  n + 1 \in S
  <2> SUFFICES ASSUME n + 1 <= m PROVE f[n + 1] = g[n + 1]
    OBVIOUS
  <2>1. f[n] = g[n] /\ (n + 1) - 1 = n /\ n + 1 # 0
    BY <1>3
  <2>2. QED
    BY <1>1, <2>1 DEF Doubled
<1> HIDE DEF S
<1>4. \A n \in Nat : n \in S
  BY <1>2, <1>3, Induction
<1>5. QED
  BY <1>4 DEF S

\* ShiftedOne is 1 and doubles.
LEMMA ShiftDoubles ==
  /\ ShiftedOne[0] = 1
  /\ \A n \in Nat : ShiftedOne[n + 1] = 2 * ShiftedOne[n]
<1> DEFINE F(m) == CHOOSE f : DoublesTo(f, m)
           g == [m \in Nat |-> F(m)[m]]
           Fits(f) == f = [n \in Nat |-> Doubled(f, n)]
<1>1. ASSUME NEW m \in Nat
      PROVE  DoublesTo(F(m), m)
  BY DoublesExist
<1>2. ASSUME NEW m \in Nat
      PROVE  g[m] = Doubled(g, m)
  <2>1. F(m) = [n \in 0 .. m |-> Doubled(F(m), n)]
    BY <1>1 DEF DoublesTo
  <2> HIDE DEF F
  <2>2. F(m)[m] = Doubled(F(m), m)
    BY <2>1
  <2>3. CASE m = 0
    BY <2>2, <2>3 DEF Doubled
  <2>4. CASE m # 0
    <3>1. m - 1 \in Nat /\ m - 1 <= m /\ m - 1 \in 0 .. m - 1
      BY <2>4
    <3>2. F(m - 1)[m - 1] = F(m)[m - 1]
      BY <1>1, <3>1, DoublesUnique
    <3>3. g[m - 1] = F(m)[m - 1]
      BY <3>1, <3>2
    <3>4. QED
      BY <2>2, <3>3 DEF Doubled
  <2>5. QED
    BY <2>3, <2>4
<1>3. g = [n \in Nat |-> Doubled(g, n)]
  BY <1>2
<1> HIDE DEF g
<1>4. ShiftedOne = CHOOSE f : Fits(f)
  BY DEF ShiftedOne, Doubled
<1>5. Fits(ShiftedOne)
  <2>1. Fits(g)
    BY <1>3
  <2> HIDE DEF Fits
  <2>2. QED
    BY <1>4, <2>1
<1>6. \A n \in Nat : ShiftedOne[n] = Doubled(ShiftedOne, n)
  BY <1>5
<1>7. QED
  BY <1>6 DEF Doubled

LEMMA ShiftNat == \A n \in Nat : ShiftedOne[n] \in Nat /\ ShiftedOne[n] >= 1
<1> DEFINE S == {n \in Nat : ShiftedOne[n] \in Nat /\ ShiftedOne[n] >= 1}
<1>1. 0 \in S
  BY ShiftDoubles
<1>2. ASSUME NEW n \in Nat, n \in S
      PROVE  n + 1 \in S
  BY <1>2, ShiftDoubles
<1> HIDE DEF S
<1>3. \A n \in Nat : n \in S
  BY <1>1, <1>2, Induction
<1>4. QED
  BY <1>3 DEF S

\* A longer shift is no smaller.
LEMMA ShiftGrows ==
  ASSUME NEW i \in Nat, NEW j \in Nat, i <= j
  PROVE  ShiftedOne[i] <= ShiftedOne[j]
<1> DEFINE S == {n \in Nat : ShiftedOne[i] <= ShiftedOne[i + n]}
<1>1. 0 \in S
  BY ShiftNat
<1>2. ASSUME NEW n \in Nat, n \in S
      PROVE  n + 1 \in S
  <2>1. i + n \in Nat /\ i + (n + 1) = (i + n) + 1
    OBVIOUS
  <2>2. ShiftedOne[(i + n) + 1] = 2 * ShiftedOne[i + n]
    BY <2>1, ShiftDoubles
  <2>3. ShiftedOne[i] \in Nat /\ ShiftedOne[i + n] \in Nat
    BY <2>1, ShiftNat
  <2>4. QED
    BY <1>2, <2>1, <2>2, <2>3
<1> HIDE DEF S
<1>3. \A n \in Nat : n \in S
  BY <1>1, <1>2, Induction
<1>4. j - i \in S /\ i + (j - i) = j
  BY <1>3
<1>5. QED
  BY <1>4 DEF S

(* Size classes: size2Class *)

LastSize == 2 * MaxSize + 256
Halved(f, m) == IF m > 7 THEN 1 + f[m \div 2] ELSE 0
HalvesTo(f, m) == f = [n \in 0 .. m |-> Halved(f, n)]

LEMMA Quotients ==
  ASSUME NEW n \in Nat
  PROVE  /\ n \div 2 \in Nat /\ 2 * (n \div 2) <= n /\ n <= 2 * (n \div 2) + 1
         /\ n \div 8 \in Nat /\ 8 * (n \div 8) <= n /\ n <= 8 * (n \div 8) + 7
         /\ n \div 32 \in Nat /\ 32 * (n \div 32) <= n /\ n <= 32 * (n \div 32) + 31
  OBVIOUS

LEMMA HalvesExist == \A m \in Nat : \E f : HalvesTo(f, m)
<1> DEFINE S == {m \in Nat : \E f : HalvesTo(f, m)}
<1>1. 0 \in S
  <2> DEFINE f == [n \in 0 .. 0 |-> 0]
  <2>1. f = [n \in 0 .. 0 |-> Halved(f, n)]
    BY DEF Halved
  <2> HIDE DEF f
  <2>2. QED
    BY <2>1 DEF HalvesTo
<1>2. ASSUME NEW m \in Nat, m \in S
      PROVE  m + 1 \in S
  <2>1. PICK f : f = [n \in 0 .. m |-> Halved(f, n)]
    BY <1>2 DEF HalvesTo
  <2> DEFINE g == [n \in 0 .. m + 1 |-> Halved(f, n)]
  <2>2. \A n \in 0 .. m : g[n] = f[n]
    BY <2>1
  <2>3. ASSUME NEW n \in 0 .. m + 1
        PROVE  Halved(f, n) = Halved(g, n)
    <3>1. n <= 7 \/ n \div 2 \in 0 .. m
      BY Quotients
    <3> HIDE DEF g
    <3>2. QED
      BY <2>2, <3>1 DEF Halved
  <2>4. g = [n \in 0 .. m + 1 |-> Halved(g, n)]
    <3>1. [n \in 0 .. m + 1 |-> Halved(f, n)] = [n \in 0 .. m + 1 |-> Halved(g, n)]
      BY <2>3, Zenon
    <3>2. QED
      BY <3>1
  <2> HIDE DEF g
  <2>5. QED
    BY <2>4 DEF HalvesTo
<1> HIDE DEF S
<1>3. \A m \in Nat : m \in S
  BY <1>1, <1>2, Induction
<1>4. QED
  BY <1>3 DEF S

LEMMA HalvingsIs ==
  ASSUME NEW m \in Sizes
  PROVE  Halvings[m] = IF m > 7 THEN 1 + Halvings[m \div 2] ELSE 0
<1> DEFINE Fits(f) == f = [n \in Sizes |-> Halved(f, n)]
<1>1. LastSize \in Nat /\ Sizes = 0 .. LastSize
  BY KingsleyAssumption DEF LastSize, Sizes
<1>2. Halvings = CHOOSE f : Fits(f)
  BY DEF Halvings, Halved
<1>3. PICK f : HalvesTo(f, LastSize)
  BY <1>1, HalvesExist
<1>4. Fits(f)
  BY <1>1, <1>3 DEF HalvesTo
<1>5. Fits(Halvings)
  <2> HIDE DEF Fits
  <2>1. QED
    BY <1>2, <1>4
<1>6. QED
  BY <1>5 DEF Halved

\* What the loop counts
LEMMA HalvingsBound ==
  ASSUME NEW m \in Sizes, m >= 4
  PROVE  /\ Halvings[m] \in Nat
         /\ 4 * ShiftedOne[Halvings[m]] <= m /\ m < 8 * ShiftedOne[Halvings[m]]
<1> DEFINE P(k) == /\ Halvings[k] \in Nat
                   /\ 4 * ShiftedOne[Halvings[k]] <= k /\ k < 8 * ShiftedOne[Halvings[k]]
           S == {n \in Nat : \A k \in Sizes : 4 <= k /\ k <= n => P(k)}
<1>1. Sizes = 0 .. LastSize /\ LastSize \in Nat
  BY KingsleyAssumption DEF LastSize, Sizes
<1>2. 0 \in S
  BY <1>1
<1>3. ASSUME NEW n \in Nat, n \in S
      PROVE  n + 1 \in S
  <2> SUFFICES ASSUME NEW k \in Sizes, 4 <= k, k <= n + 1 PROVE P(k)
    OBVIOUS
  <2>1. k \in Nat
    BY <1>1
  <2>2. CASE k <= 7
    <3>1. Halvings[k] = 0
      BY <2>1, <2>2, HalvingsIs
    <3>2. QED
      BY <2>1, <2>2, <3>1, ShiftDoubles
  <2>3. CASE k > 7
    <3> DEFINE q == k \div 2
    <3>1. q \in Nat /\ 2 * q <= k /\ k <= 2 * q + 1
      BY <2>1, Quotients
    <3>2. Halvings[k] = 1 + Halvings[q]
      BY <2>3, HalvingsIs
    <3> HIDE DEF q
    <3>3. q \in Sizes /\ 4 <= q /\ q <= n
      BY <1>1, <2>1, <2>3, <3>1
    <3>4. P(q)
      BY <1>3, <3>3
    <3>5. /\ ShiftedOne[Halvings[k]] = 2 * ShiftedOne[Halvings[q]]
          /\ Halvings[k] = Halvings[q] + 1 /\ ShiftedOne[Halvings[q]] \in Nat
      BY <3>2, <3>4, ShiftDoubles, ShiftNat
    <3>6. QED
      BY <2>1, <3>1, <3>4, <3>5
  <2>4. QED
    BY <2>1, <2>2, <2>3
<1> HIDE DEF S
<1>4. \A n \in Nat : n \in S
  BY <1>2, <1>3, Induction
<1>5. m \in S /\ m <= m
  BY <1>1, <1>4
<1>6. QED
  BY <1>5 DEF S

LEMMA ClassSizes ==
  /\ class2Size(0) = 8 /\ class2Size(1) = 16 /\ class2Size(2) = 32
  /\ class2Size(3) = 64 /\ class2Size(4) = 128
<1>1. ShiftedOne[1] = 2
  <2>1. ShiftedOne[0 + 1] = 2 * ShiftedOne[0] /\ ShiftedOne[0] = 1
    BY ShiftDoubles
  <2>2. QED
    BY <2>1
<1>2. ShiftedOne[1 + 1] = 4
  BY <1>1, ShiftDoubles
<1>3. ShiftedOne[2 + 1] = 8
  BY <1>2, ShiftDoubles
<1>4. ShiftedOne[3 + 1] = 16
  BY <1>3, ShiftDoubles
<1>5. ShiftedOne[4 + 1] = 32
  BY <1>4, ShiftDoubles
<1>6. ShiftedOne[5 + 1] = 64
  BY <1>5, ShiftDoubles
<1>7. ShiftedOne[6 + 1] = 128
  BY <1>6, ShiftDoubles
<1>8. QED
  BY <1>3, <1>4, <1>5, <1>6, <1>7 DEF class2Size

\* size2Class names a class that the size fits, and does not fit the one before.
LEMMA ClassTight ==
  ASSUME NEW sz \in Sizes, sz > 0
  PROVE  /\ size2Class(sz) \in Nat /\ class2Size(size2Class(sz)) >= sz
         /\ size2Class(sz) > 0 => class2Size(size2Class(sz) - 1) < sz
<1>1. sz \in Nat /\ sz - 1 \in Nat
  BY KingsleyAssumption DEF Sizes
<1>2. CASE sz <= 8
  BY <1>1, <1>2, ClassSizes DEF size2Class
<1>3. CASE sz > 8 /\ sz <= 128
  <2> DEFINE q == (sz - 1) \div 8
  <2>1. q \in Nat /\ 8 * q <= sz - 1 /\ sz - 1 <= 8 * q + 7
    BY <1>1, Quotients
  <2>2. size2Class(sz) = cl[q]
    BY <1>1, <1>3 DEF size2Class
  <2> HIDE DEF q
  <2>3. q \in 1 .. 15
    BY <1>1, <1>3, <2>1
  <2>4. CASE q = 1
    <3>1. cl[q] = 1
      BY <2>4 DEF cl
    <3>2. QED
      BY <1>1, <2>1, <2>2, <2>4, <3>1, ClassSizes
  <2>5. CASE q \in 2 .. 3
    <3>1. cl[q] = 2
      BY <2>5 DEF cl
    <3>2. QED
      BY <1>1, <2>1, <2>2, <2>5, <3>1, ClassSizes
  <2>6. CASE q \in 4 .. 7
    <3>1. cl[q] = 3
      BY <2>6 DEF cl
    <3>2. QED
      BY <1>1, <2>1, <2>2, <2>6, <3>1, ClassSizes
  <2>7. CASE q \in 8 .. 15
    <3>1. cl[q] = 4
      BY <2>7 DEF cl
    <3>2. QED
      BY <1>1, <2>1, <2>2, <2>7, <3>1, ClassSizes
  <2>8. QED
    BY <2>3, <2>4, <2>5, <2>6, <2>7
<1>4. CASE sz > 128
  <2> DEFINE m == (sz - 1) \div 32
             k == Halvings[m]
  <2>1. m \in Nat /\ 32 * m <= sz - 1 /\ sz - 1 <= 32 * m + 31
    BY <1>1, Quotients
  <2>2. size2Class(sz) = 5 + k
    BY <1>1, <1>4 DEF size2Class
  <2> HIDE DEF m
  <2>3. m \in Sizes /\ m >= 4
    BY <1>1, <1>4, <2>1, KingsleyAssumption DEF Sizes
  <2>4. k \in Nat /\ 4 * ShiftedOne[k] <= m /\ m < 8 * ShiftedOne[k]
    BY <2>3, HalvingsBound
  <2> HIDE DEF k
  <2>5. ShiftedOne[k + 7] = 128 * ShiftedOne[k] /\ ShiftedOne[k + 8] = 256 * ShiftedOne[k]
    <3>1. ShiftedOne[k + 1] = 2 * ShiftedOne[k] /\ ShiftedOne[k] \in Nat
      BY <2>4, ShiftDoubles, ShiftNat
    <3>2. ShiftedOne[(k + 1) + 1] = 4 * ShiftedOne[k] /\ (k + 1) + 1 = k + 2
      BY <2>4, <3>1, ShiftDoubles
    <3>3. ShiftedOne[(k + 2) + 1] = 8 * ShiftedOne[k] /\ (k + 2) + 1 = k + 3
      BY <2>4, <3>1, <3>2, ShiftDoubles
    <3>4. ShiftedOne[(k + 3) + 1] = 16 * ShiftedOne[k] /\ (k + 3) + 1 = k + 4
      BY <2>4, <3>1, <3>3, ShiftDoubles
    <3>5. ShiftedOne[(k + 4) + 1] = 32 * ShiftedOne[k] /\ (k + 4) + 1 = k + 5
      BY <2>4, <3>1, <3>4, ShiftDoubles
    <3>6. ShiftedOne[(k + 5) + 1] = 64 * ShiftedOne[k] /\ (k + 5) + 1 = k + 6
      BY <2>4, <3>1, <3>5, ShiftDoubles
    <3>7. ShiftedOne[(k + 6) + 1] = 128 * ShiftedOne[k] /\ (k + 6) + 1 = k + 7
      BY <2>4, <3>1, <3>6, ShiftDoubles
    <3>8. ShiftedOne[(k + 7) + 1] = 256 * ShiftedOne[k] /\ (k + 7) + 1 = k + 8
      BY <2>4, <3>1, <3>7, ShiftDoubles
    <3>9. QED
      BY <3>7, <3>8
  <2>6. /\ class2Size(5 + k) = 256 * ShiftedOne[k]
        /\ class2Size((5 + k) - 1) = 128 * ShiftedOne[k]
    <3>1. (5 + k) + 3 = k + 8 /\ ((5 + k) - 1) + 3 = k + 7
      BY <2>4
    <3>2. QED
      BY <2>5, <3>1 DEF class2Size
  <2>7. ShiftedOne[k] \in Nat
    BY <2>4, ShiftNat
  <2>8. sz <= 256 * ShiftedOne[k] /\ 128 * ShiftedOne[k] < sz
    BY <1>1, <2>1, <2>4, <2>7
  <2>9. QED
    BY <2>2, <2>4, <2>6, <2>8
<1>5. QED
  BY <1>1, <1>2, <1>3, <1>4

LEMMA ClassNat == \A c \in Nat : class2Size(c) \in Nat /\ class2Size(c) >= 8
<1> SUFFICES ASSUME NEW c \in Nat PROVE class2Size(c) \in Nat /\ class2Size(c) >= 8
  OBVIOUS
<1>1. ShiftedOne[3] = 8
  BY ClassSizes DEF class2Size
<1>2. c + 3 \in Nat /\ 3 <= c + 3
  OBVIOUS
<1>3. ShiftedOne[c + 3] \in Nat /\ ShiftedOne[3] <= ShiftedOne[c + 3]
  BY <1>2, ShiftNat, ShiftGrows
<1>4. QED
  BY <1>1, <1>3 DEF class2Size

LEMMA ClassGrows ==
  ASSUME NEW c \in Nat, NEW d \in Nat, c <= d
  PROVE  class2Size(c) <= class2Size(d)
<1>1. c + 3 \in Nat /\ d + 3 \in Nat /\ c + 3 <= d + 3
  OBVIOUS
<1>2. QED
  BY <1>1, ShiftGrows DEF class2Size

(* Bins: StrictSegHeap *)

LEMMA BinsNat == NUMBINS \in Nat \ {0} /\ NUMBINS - 1 \in Nat /\ maxObjectSize \in Nat
<1>1. NUMBINS - 1 \in Nat
  BY KingsleyAssumption
<1>2. QED
  BY <1>1, KingsleyAssumption, ClassNat DEF maxObjectSize

\* The size a block is rounded to
LEMMA RoundedIs ==
  ASSUME NEW sz \in 0 .. MaxSize
  PROVE  /\ Rounded(sz) \in Nat /\ Rounded(sz) >= sz /\ Rounded(sz) >= 16
         /\ Rounded(sz) <= MaxSize + 23 /\ Rounded(sz) \in Sizes
<1> DEFINE n == IF sz < 16 THEN 16 ELSE sz
           q == (n + 7) \div 8
<1>1. n \in Nat /\ n >= sz /\ n >= 16 /\ n <= MaxSize + 16 /\ MaxSize \in Nat
  BY KingsleyAssumption
<1>2. Rounded(sz) = 8 * q
  BY DEF Rounded, Align
<1> HIDE DEF n
<1>3. q \in Nat /\ 8 * q <= n + 7 /\ n + 7 <= 8 * q + 7
  BY <1>1, Quotients
<1>4. Sizes = 0 .. 2 * MaxSize + 256
  BY DEF Sizes
<1> HIDE DEF q
<1>5. QED
  BY <1>1, <1>2, <1>3, <1>4

\* The blocks of the bins and beyond
LEMMA BlockSizeIs ==
  ASSUME NEW sz \in 0 .. MaxSize
  PROVE  BlockSize(sz) \in Sizes /\ BlockSize(sz) >= 16
<1>1. /\ Rounded(sz) \in Nat /\ Rounded(sz) >= 16
      /\ Rounded(sz) <= MaxSize + 23 /\ Rounded(sz) \in Sizes
  BY RoundedIs
<1>2. CASE BlockSize(sz) = Rounded(sz)
  BY <1>1, <1>2
<1>3. CASE BlockSize(sz) # Rounded(sz)
  <2> DEFINE c == size2Class(Rounded(sz))
  <2>1. BlockSize(sz) = class2Size(c)
    BY <1>3 DEF BlockSize, MallocBin
  <2>2. c \in Nat /\ class2Size(c) >= Rounded(sz) /\ (c > 0 => class2Size(c - 1) < Rounded(sz))
    BY <1>1, ClassTight
  <2> HIDE DEF c
  <2>3. class2Size(c) \in Nat
    BY <2>2, ClassNat
  <2>4. c > 0 /\ class2Size(c) = 2 * class2Size(c - 1)
    <3>1. c # 0
      BY <1>1, <2>2, ClassSizes
    <3>2. c - 1 \in Nat /\ (c - 1) + 3 \in Nat /\ c + 3 = ((c - 1) + 3) + 1
      BY <2>2, <3>1
    <3>3. ShiftedOne[((c - 1) + 3) + 1] = 2 * ShiftedOne[(c - 1) + 3]
      BY <3>2, ShiftDoubles
    <3>4. QED
      BY <2>2, <3>1, <3>2, <3>3 DEF class2Size
  <2>5. class2Size(c - 1) \in Nat
    BY <2>2, <2>4, ClassNat
  <2>6. MaxSize \in Nat /\ Sizes = 0 .. 2 * MaxSize + 256
    BY KingsleyAssumption DEF Sizes
  <2>7. class2Size(c) \in 0 .. 2 * MaxSize + 256 /\ class2Size(c) >= 16
    BY <1>1, <2>2, <2>3, <2>4, <2>5, <2>6
  <2>8. QED
    BY <2>1, <2>6, <2>7
<1>4. QED
  BY <1>2, <1>3

\* The class that free stops at is not larger than the object.
StepsTo(f, k, sz) ==
  f = [c \in 0 .. k |-> IF class2Size(c) > sz THEN f[c - 1] ELSE c]

LEMMA StepsExist ==
  ASSUME NEW sz \in Nat, sz >= 8
  PROVE  \A k \in Nat : \E f : StepsTo(f, k, sz)
<1> DEFINE S == {k \in Nat : \E f : StepsTo(f, k, sz)}
<1>1. 0 \in S
  <2> DEFINE f == [c \in 0 .. 0 |-> 0]
  <2>1. ~ (class2Size(0) > sz)
    BY ClassSizes
  <2>2. f = [c \in 0 .. 0 |-> IF class2Size(c) > sz THEN f[c - 1] ELSE c]
    BY <2>1
  <2> HIDE DEF f
  <2>3. QED
    BY <2>2 DEF StepsTo
<1>2. ASSUME NEW k \in Nat, k \in S
      PROVE  k + 1 \in S
  <2>1. PICK f : f = [c \in 0 .. k |-> IF class2Size(c) > sz THEN f[c - 1] ELSE c]
    BY <1>2 DEF StepsTo
  <2> DEFINE Body(e, c) == IF class2Size(c) > sz THEN e[c - 1] ELSE c
             g == [c \in 0 .. k + 1 |-> Body(f, c)]
  <2>2. \A c \in 0 .. k : g[c] = f[c]
    BY <2>1
  <2>3. ASSUME NEW c \in 0 .. k + 1
        PROVE  Body(f, c) = Body(g, c)
    <3>1. c = 0 \/ c - 1 \in 0 .. k
      OBVIOUS
    <3> HIDE DEF g
    <3>2. QED
      BY <2>2, <3>1, ClassSizes
  <2>4. g = [c \in 0 .. k + 1 |-> Body(g, c)]
    <3> HIDE DEF Body
    <3>1. [c \in 0 .. k + 1 |-> Body(f, c)] = [c \in 0 .. k + 1 |-> Body(g, c)]
      BY <2>3, Zenon
    <3>2. QED
      BY <3>1
  <2> HIDE DEF g
  <2>5. QED
    BY <2>4 DEF StepsTo
<1> HIDE DEF S
<1>3. \A k \in Nat : k \in S
  BY <1>1, <1>2, Induction
<1>4. QED
  BY <1>3 DEF S

LEMMA StepDownFits ==
  ASSUME NEW sz \in Sizes, sz >= 8, sz <= maxObjectSize
  PROVE  StepDown(sz) \in Nat /\ class2Size(StepDown(sz)) <= sz
<1> DEFINE from == CHOOSE f : StepsTo(f, NUMBINS - 1, sz)
<1>1. sz \in Nat
  BY KingsleyAssumption DEF Sizes
<1>2. StepsTo(from, NUMBINS - 1, sz)
  BY <1>1, BinsNat, StepsExist
<1>3. StepDown(sz) = from[size2Class(sz)]
  BY DEF StepDown, StepsTo
<1> HIDE DEF from
<1>4. from = [c \in 0 .. NUMBINS - 1 |-> IF class2Size(c) > sz THEN from[c - 1] ELSE c]
  BY <1>2 DEF StepsTo
<1> DEFINE S == {k \in Nat : k <= NUMBINS - 1 => from[k] \in Nat /\ class2Size(from[k]) <= sz}
<1>5. 0 \in S
  <2>1. from[0] = IF class2Size(0) > sz THEN from[0 - 1] ELSE 0
    BY <1>4, BinsNat
  <2>2. QED
    BY <1>1, <2>1, ClassSizes
<1>6. ASSUME NEW k \in Nat, k \in S
      PROVE  k + 1 \in S
  <2> SUFFICES ASSUME k + 1 <= NUMBINS - 1
               PROVE  from[k + 1] \in Nat /\ class2Size(from[k + 1]) <= sz
    OBVIOUS
  <2>1. from[k + 1] = IF class2Size(k + 1) > sz THEN from[(k + 1) - 1] ELSE k + 1
    <3>1. k + 1 \in 0 .. NUMBINS - 1
      BY BinsNat
    <3> DEFINE Body(c) == IF class2Size(c) > sz THEN from[c - 1] ELSE c
    <3>2. from = [c \in 0 .. NUMBINS - 1 |-> Body(c)]
      BY <1>4
    <3> HIDE DEF Body
    <3>3. from[k + 1] = Body(k + 1)
      BY <3>1, <3>2
    <3>4. QED
      BY <3>3 DEF Body
  <2>2. (k + 1) - 1 = k /\ k <= NUMBINS - 1
    BY BinsNat
  <2>3. class2Size(k + 1) \in Nat
    BY ClassNat
  <2>4. QED
    BY <1>1, <1>6, <2>1, <2>2, <2>3
<1> HIDE DEF S
<1>7. \A k \in Nat : k \in S
  BY <1>5, <1>6, Induction
<1>8. size2Class(sz) \in Nat /\ size2Class(sz) <= NUMBINS - 1
  <2> DEFINE c == size2Class(sz)
  <2>1. c \in Nat /\ (c > 0 => class2Size(c - 1) < sz)
    BY <1>1, ClassTight
  <2> HIDE DEF c
  <2>2. ASSUME c > NUMBINS - 1
        PROVE  FALSE
    <3>1. c - 1 \in Nat /\ NUMBINS - 1 <= c - 1 /\ c > 0
      BY <2>1, <2>2, BinsNat
    <3>2. class2Size(NUMBINS - 1) <= class2Size(c - 1)
      BY <3>1, BinsNat, ClassGrows
    <3>3. class2Size(c - 1) \in Nat
      BY <3>1, ClassNat
    <3>4. QED
      BY <1>1, <2>1, <3>1, <3>2, <3>3, BinsNat DEF maxObjectSize
  <2>3. QED
    BY <2>1, <2>2, BinsNat DEF c
<1>9. QED
  BY <1>3, <1>7, <1>8 DEF S

-----------------------------------------------------------------------------
(* One input: a size *)

LEMMA TightFits ==
  ASSUME h.kind = "sizes" => h.size \in 0 .. MaxSize
  PROVE  TightFit
<1> SUFFICES ASSUME h.kind = "sizes", size > 0
             PROVE  /\ class2Size(size2Class(size)) >= size
                    /\ \A c \in 0 .. size2Class(size) - 1 : class2Size(c) < size
  BY DEF TightFit
<1>1. size \in Nat /\ size \in Sizes
  BY KingsleyAssumption DEF size, Sizes
<1> DEFINE d == size2Class(size)
<1>2. d \in Nat /\ class2Size(d) >= size /\ (d > 0 => class2Size(d - 1) < size)
  BY <1>1, ClassTight
<1> HIDE DEF d
<1>3. ASSUME NEW c \in 0 .. d - 1
      PROVE  class2Size(c) < size
  <2>1. c \in Nat /\ d - 1 \in Nat /\ c <= d - 1 /\ d > 0
    BY <1>2
  <2>2. class2Size(c) <= class2Size(d - 1) /\ class2Size(c) \in Nat /\ class2Size(d - 1) \in Nat
    BY <2>1, ClassGrows, ClassNat
  <2>3. QED
    BY <1>1, <1>2, <2>1, <2>2
<1>4. QED
  BY <1>2, <1>3 DEF d

LEMMA RecycledFit ==
  ASSUME h.kind = "sizes" => h.size \in 0 .. MaxSize
  PROVE  RecycledFits
<1> SUFFICES ASSUME h.kind = "sizes", NEW sz \in 1 .. MaxSize, MallocBin(sz) # Big,
                    MallocBin(sz) = FreeBin(BlockSize(size))
             PROVE  BlockSize(size) >= sz
  BY DEF RecycledFits
<1> DEFINE b == BlockSize(size)
           c == MallocBin(sz)
<1>1. b \in Sizes /\ b >= 16
  BY BlockSizeIs DEF size
<1>2. b \in Nat /\ sz \in Nat /\ sz \in 0 .. MaxSize
  BY <1>1, KingsleyAssumption DEF Sizes
<1>3. /\ Rounded(sz) \in Sizes /\ Rounded(sz) \in Nat /\ Rounded(sz) >= sz /\ Rounded(sz) >= 16
  BY <1>2, RoundedIs
<1>4. c = size2Class(Rounded(sz))
  BY DEF MallocBin
<1>5. c \in Nat /\ class2Size(c) >= Rounded(sz)
  BY <1>3, <1>4, ClassTight
<1> HIDE DEF b, c
<1>6. b <= maxObjectSize /\ c = StepDown(b)
  BY <1>2, BinsNat DEF FreeBin, b, c
<1>7. class2Size(c) <= b /\ class2Size(c) \in Nat
  BY <1>1, <1>2, <1>5, <1>6, StepDownFits, ClassNat
<1>8. b >= sz
  BY <1>2, <1>3, <1>5, <1>7
<1>9. QED
  BY <1>8 DEF b

-----------------------------------------------------------------------------
(* Requests in machine words *)

\* What the constants are
LEMMA WordFacts ==
  /\ Word \in Nat \ {0} /\ IntWord \in Nat \ {0} /\ PageSize \in Nat \ {0}
  /\ HeaderSize \in Nat /\ ArenaHeader \in Nat /\ ChunkSize \in Nat
  /\ InitialMallocSize \in Nat /\ InitialMallocSize >= 16
  /\ IntWord = 4 * InitialMallocSize /\ IntWord <= Word
  /\ MaxSize \in Nat /\ Word <= MaxSize + 1
  /\ maxObjectSize + ArenaHeader + HeaderSize + PageSize + 32 <= Word
  /\ ArenaHeader + ChunkSize + PageSize <= Word
<1>1. /\ Word \in Nat \ {0} /\ IntWord \in Nat \ {0} /\ PageSize \in Nat \ {0}
      /\ HeaderSize \in Nat /\ ArenaHeader \in Nat /\ ChunkSize \in Nat
      /\ InitialMallocSize \in Nat /\ InitialMallocSize >= 16
      /\ IntWord = InitialMallocSize * 4 /\ Word % IntWord = 0
      /\ Word <= MaxSize + 1
      /\ maxObjectSize + ArenaHeader + HeaderSize + PageSize + 32 <= Word
      /\ ArenaHeader + ChunkSize + PageSize <= Word
  BY RequestsAssumption
<1>2. ASSUME NEW a \in Nat \ {0}, NEW b \in Nat \ {0}, a % b = 0
      PROVE  b <= a
  <2>1. a < b => a % b = a
    OBVIOUS
  <2>2. QED
    BY <1>2, <2>1
<1>3. IntWord <= Word
  BY <1>1, <1>2
<1>4. QED
  BY <1>1, <1>3, KingsleyAssumption

\* A number that fits a word is left as it is.
LEMMA WrapIs ==
  ASSUME NEW n \in Nat
  PROVE  /\ Wrap(n) \in Nat /\ Wrap(n) < Word
         /\ n < Word => Wrap(n) = n
<1>1. ASSUME NEW b \in Nat \ {0}
      PROVE  n % b \in Nat /\ n % b < b /\ (n < b => n % b = n)
  OBVIOUS
<1>2. QED
  BY <1>1, WordFacts DEF Wrap

\* AlignUp gives a number of the word, and rounds up if there is room.
LEMMA AlignUpIs ==
  ASSUME NEW n \in Nat, NEW to \in Nat \ {0}
  PROVE  /\ AlignUp(n, to) \in Nat /\ AlignUp(n, to) < Word
         /\ n + to - 1 < Word => n <= AlignUp(n, to) /\ AlignUp(n, to) <= n + to - 1
<1> DEFINE w == Wrap(n + to - 1)
<1>1. n + to - 1 \in Nat
  OBVIOUS
<1>2. w \in Nat /\ w < Word /\ (n + to - 1 < Word => w = n + to - 1)
  BY <1>1, WrapIs
<1>3. AlignUp(n, to) = w - (w % to)
  BY DEF AlignUp, AlignDown
<1> HIDE DEF w
<1>4. w % to \in Nat /\ w % to < to /\ w % to <= w
  <2>1. ASSUME NEW m \in Nat, NEW b \in Nat \ {0}
        PROVE  m % b \in Nat /\ m % b < b /\ m % b <= m
    <3>1. m % b \in Nat /\ m % b < b
      OBVIOUS
    <3>2. m < b => m % b = m
      OBVIOUS
    <3>3. QED
      BY <3>1, <3>2
  <2>2. QED
    BY <1>2, <2>1
<1>5. Word \in Nat
  BY WordFacts
<1>6. QED
  BY <1>2, <1>3, <1>4, <1>5

LEMMA ToIntIs ==
  ASSUME NEW n \in Nat, n < 2 * InitialMallocSize
  PROVE  ToInt(n) = n
<1>1. IntWord \div 2 = 2 * InitialMallocSize
  <2>1. ASSUME NEW k \in Nat PROVE (4 * k) \div 2 = 2 * k
    OBVIOUS
  <2>2. QED
    BY <2>1, WordFacts
<1>2. n < IntWord
  BY WordFacts
<1>3. n % IntWord = n
  <2>1. ASSUME NEW x \in Nat, NEW b \in Nat \ {0}, x < b PROVE x % b = x
    BY <2>1
  <2>2. QED
    BY <1>2, <2>1, WordFacts
<1>4. QED
  BY <1>1, <1>3, WordFacts DEF ToInt

LEMMA TempIsInside ==
  ASSUME h.kind = "sizes" => h.size \in 0 .. MaxSize
  PROVE  TempInside
<1> SUFFICES ASSUME h.kind = "sizes", NEW allocated \in 0 .. InitialMallocSize,
                    TempRequest(size) < InitialMallocSize, size < InitialMallocSize,
                    ~TempRefuses(allocated, ToInt(TempRequest(size)))
             PROVE  LET sz == TempRequest(size) IN
                    /\ TempBlock(allocated, ToInt(sz)) \subseteq 0 .. InitialMallocSize - 1
                    /\ Cardinality(TempBlock(allocated, ToInt(sz))) >= size
  BY DEF TempInside
<1> DEFINE sz == TempRequest(size)
           n == IF size < 16 THEN 16 ELSE size
<1>1. size \in Nat /\ allocated \in Nat /\ InitialMallocSize \in Nat
  BY WordFacts DEF size
<1>2. n \in Nat /\ n >= size /\ n + 16 - 1 < Word
  BY <1>1, WordFacts
<1>3. sz = AlignUp(n, 16)
  BY DEF TempRequest
<1> HIDE DEF n, sz
<1>4. sz \in Nat /\ sz >= size
  BY <1>1, <1>2, <1>3, AlignUpIs
<1>5. sz < InitialMallocSize
  BY DEF sz
<1>6. ToInt(sz) = sz
  BY <1>1, <1>4, <1>5, ToIntIs
<1>7. allocated + sz \in Nat /\ allocated + sz < 2 * InitialMallocSize
  BY <1>1, <1>4, <1>5
<1>8. ToInt(allocated + sz) = allocated + sz
  BY <1>7, ToIntIs
<1>9. ~ (allocated + sz > InitialMallocSize)
  <2>1. ~ TempRefuses(allocated, ToInt(sz))
    BY DEF sz
  <2>2. QED
    BY <1>6, <1>8, <2>1 DEF TempRefuses
<1>10. TempBlock(allocated, ToInt(sz)) = allocated .. allocated + sz - 1
  BY <1>6 DEF TempBlock
<1>11. allocated .. allocated + sz - 1 \subseteq 0 .. InitialMallocSize - 1
  BY <1>1, <1>4, <1>9
<1>12. Cardinality(allocated .. allocated + sz - 1) >= size
  <2>1. allocated \in Int /\ allocated + sz - 1 \in Int
    BY <1>1, <1>4
  <2>2. Cardinality(allocated .. allocated + sz - 1)
          = IF allocated > allocated + sz - 1 THEN 0 ELSE (allocated + sz - 1) - allocated + 1
    BY <2>1, FS_Interval
  <2>3. QED
    BY <1>1, <1>4, <2>2
<1>13. QED
  BY <1>10, <1>11, <1>12 DEF sz

\* What is asked of StrictSegHeap, and the size of the block that gives
LEMMA AskedIs ==
  ASSUME NEW sz \in Nat
  PROVE  /\ Asked(sz) \in Sizes /\ Asked(sz) \in Nat
         /\ sz + 7 < Word =>
              Asked(sz) >= sz /\ Asked(sz) >= 16 /\ Asked(sz) <= (IF sz < 16 THEN 16 ELSE sz) + 7
<1> DEFINE n == IF sz < 16 THEN 16 ELSE sz
<1>1. n \in Nat /\ n >= sz /\ n >= 16
  OBVIOUS
<1>2. Asked(sz) = AlignUp(n, 8)
  BY DEF Asked
<1>3. sz + 7 < Word => n + 8 - 1 < Word
  BY WordFacts, BinsNat
<1> HIDE DEF n
<1>4. /\ AlignUp(n, 8) \in Nat /\ AlignUp(n, 8) < Word
      /\ n + 8 - 1 < Word => n <= AlignUp(n, 8) /\ AlignUp(n, 8) <= n + 8 - 1
  BY <1>1, AlignUpIs
<1>5. Asked(sz) \in Sizes
  BY <1>2, <1>4, WordFacts DEF Sizes
<1>6. QED
  BY <1>1, <1>2, <1>3, <1>4, <1>5 DEF n

LEMMA UsableIs ==
  ASSUME NEW sz \in Nat
  PROVE  /\ Usable(sz) \in Nat
         /\ Asked(sz) > 0 => Usable(sz) >= Asked(sz)
         /\ Usable(sz) = Asked(sz) \/ Asked(sz) <= 0 \/ Usable(sz) <= maxObjectSize
<1>1. Asked(sz) \in Sizes /\ Asked(sz) \in Nat
  BY AskedIs
<1>2. CASE ~ (Asked(sz) <= maxObjectSize)
  BY <1>1, <1>2 DEF Usable
<1>3. CASE Asked(sz) <= maxObjectSize /\ Asked(sz) = 0
  <2>1. size2Class(Asked(sz)) = 0
    BY <1>3 DEF size2Class
  <2>2. QED
    BY <1>1, <1>3, <2>1, ClassSizes DEF Usable
<1>4. CASE Asked(sz) <= maxObjectSize /\ Asked(sz) > 0
  <2> DEFINE c == size2Class(Asked(sz))
  <2>1. /\ c \in Nat /\ class2Size(c) >= Asked(sz)
        /\ c > 0 => class2Size(c - 1) < Asked(sz)
    BY <1>1, <1>4, ClassTight
  <2>2. Usable(sz) = class2Size(c)
    BY <1>4 DEF Usable
  <2> HIDE DEF c
  <2>3. class2Size(c) \in Nat
    BY <2>1, ClassNat
  <2>4. c <= NUMBINS - 1
    <3>1. ASSUME c > NUMBINS - 1
          PROVE  FALSE
      <4>1. c - 1 \in Nat /\ NUMBINS - 1 <= c - 1 /\ c > 0
        BY <2>1, <3>1, BinsNat
      <4>2. class2Size(NUMBINS - 1) <= class2Size(c - 1)
        BY <4>1, BinsNat, ClassGrows
      <4>3. class2Size(c - 1) \in Nat
        BY <4>1, ClassNat
      <4>4. QED
        BY <1>1, <1>4, <2>1, <4>1, <4>2, <4>3, BinsNat DEF maxObjectSize
    <3>2. QED
      BY <2>1, <3>1, BinsNat
  <2>5. class2Size(c) <= maxObjectSize
    BY <2>1, <2>4, BinsNat, ClassGrows DEF maxObjectSize
  <2>6. QED
    BY <1>4, <2>1, <2>2, <2>3, <2>5
<1>5. QED
  BY <1>1, <1>2, <1>3, <1>4

LEMMA PagesDoCover ==
  ASSUME h.kind = "sizes" => h.size \in 0 .. MaxSize
  PROVE  PagesCover
<1> SUFFICES ASSUME h.kind = "sizes", size + ArenaHeader + HeaderSize + 16 + PageSize < Word
             PROVE  PagesTaken(size) >= ArenaHeader + HeaderSize + size
  BY DEF PagesCover
<1> DEFINE a == Asked(size)
           u == Usable(size)
           z == ZoneSize(size)
           r == ArenaRequest(size)
<1>1. size \in Nat
  BY WordFacts DEF size
<1>2. a \in Nat /\ a >= size /\ a >= 16 /\ a <= (IF size < 16 THEN 16 ELSE size) + 7
  BY <1>1, AskedIs, WordFacts
<1>3. u \in Nat /\ (a > 0 => u >= a) /\ (u = a \/ a <= 0 \/ u <= maxObjectSize)
  BY <1>1, UsableIs
<1>4. z = AlignUp(Wrap(u + HeaderSize), 8)
  BY DEF ZoneSize
<1>5. r = Wrap(ArenaHeader + (IF ChunkSize < z THEN z ELSE ChunkSize))
  BY DEF ArenaRequest
<1>6. PagesTaken(size) = PageSize * (Wrap(r + PageSize - 1) \div PageSize)
  BY DEF PagesTaken
<1> HIDE DEF a, u, z, r
<1>7. maxObjectSize \in Nat
  BY BinsNat
<1>8. u + HeaderSize \in Nat /\ u + HeaderSize + ArenaHeader + PageSize + 6 < Word /\ u >= size
  <2>1. CASE u <= maxObjectSize
    BY <1>1, <1>2, <1>3, <1>7, <2>1, WordFacts
  <2>2. CASE u = a /\ size >= 16
    BY <1>1, <1>2, <1>3, <2>2, WordFacts
  <2>3. CASE u = a /\ size < 16
    BY <1>1, <1>2, <1>3, <1>7, <2>3, WordFacts
  <2>4. QED
    BY <1>1, <1>2, <1>3, <2>1, <2>2, <2>3
<1>9. Wrap(u + HeaderSize) = u + HeaderSize
  BY <1>8, WrapIs, WordFacts
<1>10. z \in Nat /\ z >= u + HeaderSize /\ z <= u + HeaderSize + 7
  <2>1. u + HeaderSize + 8 - 1 < Word
    BY <1>8, WordFacts
  <2>2. QED
    BY <1>4, <1>8, <1>9, <2>1, AlignUpIs
<1> DEFINE m == IF ChunkSize < z THEN z ELSE ChunkSize
<1>11. m \in Nat /\ m >= z /\ ArenaHeader + m \in Nat /\ ArenaHeader + m + PageSize - 1 < Word
  BY <1>8, <1>10, WordFacts
<1>12. r = ArenaHeader + m
  <2>1. ArenaHeader + m < Word
    BY <1>11, WordFacts
  <2>2. Wrap(ArenaHeader + m) = ArenaHeader + m
    BY <1>11, <2>1, WrapIs
  <2>3. QED
    BY <1>5, <2>2
<1> HIDE DEF m
<1>13. r \in Nat /\ r + PageSize - 1 \in Nat /\ Wrap(r + PageSize - 1) = r + PageSize - 1
  BY <1>11, <1>12, WrapIs, WordFacts
<1>14. PageSize * ((r + PageSize - 1) \div PageSize) >= r
  <2>1. ASSUME NEW x \in Nat, NEW b \in Nat \ {0}
        PROVE  x \div b \in Int /\ x < b * (x \div b) + b
    OBVIOUS
  <2> DEFINE q == (r + PageSize - 1) \div PageSize
  <2>2. q \in Int /\ r + PageSize - 1 < PageSize * q + PageSize
    BY <1>13, <2>1, WordFacts
  <2> HIDE DEF q
  <2>3. PageSize * q \in Int
    BY <2>2, WordFacts
  <2>4. PageSize * q >= r
    BY <1>13, <2>2, <2>3, WordFacts
  <2>5. QED
    BY <2>4 DEF q
<1>15. r >= ArenaHeader + HeaderSize + size
  BY <1>1, <1>3, <1>8, <1>10, <1>11, <1>12, WordFacts
<1>16. QED
  <2> DEFINE p == PagesTaken(size)
  <2>1. p = PageSize * ((r + PageSize - 1) \div PageSize)
    BY <1>6, <1>13
  <2>2. p >= r /\ p \in Int
    <3>1. (r + PageSize - 1) \div PageSize \in Int
      <4>1. ASSUME NEW x \in Nat, NEW b \in Nat \ {0}
            PROVE  x \div b \in Int
        OBVIOUS
      <4>2. QED
        BY <1>13, <4>1, WordFacts
    <3>2. QED
      BY <1>14, <2>1, <3>1, WordFacts
  <2> HIDE DEF p
  <2>3. p >= ArenaHeader + HeaderSize + size
    BY <1>1, <1>13, <1>15, <2>2, WordFacts
  <2>4. QED
    BY <2>3 DEF p

LEMMA WritesAreInside ==
  ASSUME h.kind = "sizes" => h.size \in 0 .. MaxSize
  PROVE  WritesInside
<1> SUFFICES ASSUME h.kind = "sizes", NEW other \in 0 .. 20
             PROVE  LET n == CallocAsks(other, size) IN
                    /\ n + 8 < Word => CallocClears(other, size) <= Usable(n)
                    /\ size + 8 < Word => /\ CopySize(Usable(other), size) <= Usable(size)
                                          /\ CopySize(Usable(other), size) <= Usable(other)
  BY DEF WritesInside
<1> DEFINE n == CallocAsks(other, size)
<1>1. size \in Nat /\ other \in Nat /\ Word \in Nat
  BY WordFacts DEF size
<1>2. ASSUME NEW k \in Nat, k + 8 < Word
      PROVE  Usable(k) \in Nat /\ Usable(k) >= k
  <2>1. k + 7 < Word
    BY <1>1, <1>2
  <2>2. Asked(k) \in Nat /\ Asked(k) >= k /\ Asked(k) >= 16
    BY <2>1, AskedIs
  <2>3. Usable(k) \in Nat /\ Usable(k) >= Asked(k)
    BY <2>2, UsableIs
  <2>4. QED
    BY <2>2, <2>3
<1>3. n + 8 < Word => CallocClears(other, size) <= Usable(n)
  <2>1. other * size \in Nat /\ other * size = size * other
    <3>1. ASSUME NEW x \in Nat, NEW y \in Nat
          PROVE  x * y \in Nat /\ x * y = y * x
      OBVIOUS
    <3>2. QED
      BY <1>1, <3>1
  <2>2. n \in Nat /\ CallocClears(other, size) = n
    BY <2>1, WrapIs DEF CallocAsks, CallocClears
  <2> HIDE DEF n
  <2>3. QED
    BY <1>2, <2>2
<1>4. size + 8 < Word => /\ CopySize(Usable(other), size) <= Usable(size)
                         /\ CopySize(Usable(other), size) <= Usable(other)
  <2>1. Usable(other) \in Nat
    BY <1>1, UsableIs
  <2>2. CopySize(Usable(other), size) <= size /\ CopySize(Usable(other), size) <= Usable(other)
        /\ CopySize(Usable(other), size) \in Nat
    BY <1>1, <2>1 DEF CopySize
  <2>3. QED
    BY <1>1, <1>2, <2>2
<1>5. QED
  BY <1>3, <1>4

-----------------------------------------------------------------------------
(* One input: a pair of lists *)

\* A list of the pair, from its head round to its head
RingFrom(head, s) == [i \in Nat |-> IF i \in 1 .. Len(s) THEN s[i] ELSE head]

LEMMA ListFacts ==
  /\ ListItems \subseteq ListNodes /\ ListA \in ListNodes /\ ListB \in ListNodes /\ ListA # ListB
  /\ IsFiniteSet(ListNodes) /\ Cardinality(ListNodes) \in Nat
<1>1. IsFiniteSet({ListA, ListB})
  <2>1. IsFiniteSet({}) /\ {ListA, ListB} = ({} \cup {ListA}) \cup {ListB}
    BY FS_EmptySet
  <2>2. IsFiniteSet({} \cup {ListA})
    BY <2>1, FS_AddElement
  <2>3. QED
    BY <2>1, <2>2, FS_AddElement
<1>2. IsFiniteSet(ListNodes)
  BY <1>1, OperatorsAssumption, FS_Union DEF ListNodes
<1>3. QED
  BY <1>2, OperatorsAssumption, FS_CardinalityType DEF ListNodes

\* A ring is a list that Walk and WalkBack agree about.
LEMMA IsRing ==
  ASSUME NEW g, Pointers(g, ListNodes), NEW head, NEW n \in Nat, NEW r \in [Nat -> ListNodes],
         Ring(g, head, n, r), NEW s, s = [i \in 1 .. n |-> r[i]]
  PROVE  Is(g, head, s)
<1> DEFINE max == Cardinality(ListNodes)
           f == [i \in 1 .. n |-> r[i]]
<1>1. max \in Nat /\ n <= max
  <2>1. f \in [1 .. n -> ListNodes]
    OBVIOUS
  <2>2. \A i, j \in 1 .. n : f[i] = f[j] => i = j
    BY DEF Ring
  <2>3. IsFiniteSet(1 .. n) /\ Cardinality(1 .. n) = n
    <3>1. 1 \in Int /\ n \in Int
      OBVIOUS
    <3>2. QED
      BY <3>1, FS_Interval
  <2> HIDE DEF f
  <2>4. f \in Injection(1 .. n, ListNodes)
    BY <2>1, <2>2 DEF Injection, IsInjective
  <2>5. QED
    BY <2>3, <2>4, ListFacts, FS_Injection
<1>2. g.next \in [ListNodes -> ListNodes] /\ g.prev \in [ListNodes -> ListNodes]
  BY DEF Pointers
<1>3. Walk(g, head, max) = s
  <2> HIDE DEF max
  <2>1. Walk(g, head, max) = Items(r, n)
    <3>1. g.next \in [ListNodes -> ListNodes]
      BY <1>2
    <3>2. max \in Nat
      BY <1>1
    <3>3. n <= max
      BY <1>1
    <3>4. QED
      BY <3>1, <3>2, <3>3, WalkLists
  <2>2. QED
    BY <2>1 DEF Items
<1>4. WalkBack(g, head, max) = Reverse(s)
  <2> DEFINE b == [next |-> g.prev, prev |-> g.next]
  <2>1. Back(r, n) \in [Nat -> ListNodes] /\ Ring(b, head, n, Back(r, n))
    BY RingBack
  <2>2. b.next \in [ListNodes -> ListNodes]
    BY <1>2
  <2> HIDE DEF b
  <2>3. Walk(b, head, max) = Items(Back(r, n), n)
    BY <1>1, <2>1, <2>2, WalkLists
  <2>4. Items(Back(r, n), n) = [i \in 1 .. n |-> r[(n - i) + 1]]
    <3>1. \A i \in 1 .. n : Back(r, n)[i] = r[(n - i) + 1]
      BY DEF Back
    <3>2. QED
      BY <3>1 DEF Items
  <2>5. Reverse(s) = [i \in 1 .. n |-> r[(n - i) + 1]]
    <3>1. Len(s) = n
      OBVIOUS
    <3>2. \A i \in 1 .. n : s[(n - i) + 1] = r[(n - i) + 1]
      OBVIOUS
    <3>3. QED
      BY <3>1, <3>2 DEF Reverse
  <2>6. WalkBack(g, head, max) = Walk(b, head, max)
    BY DEF WalkBack, b
  <2>7. QED
    BY <2>3, <2>4, <2>5, <2>6
<1>5. QED
  BY <1>3, <1>4 DEF Is, max

\* The next of a sequence's element, the first after the last
LEMMA AfterIs ==
  ASSUME NEW q \in Seq(ListNodes), NEW k \in 1 .. Len(q),
         \A i, j \in 1 .. Len(q) : q[i] = q[j] => i = j
  PROVE  After(q, q[k]) = q[IF k = Len(q) THEN 1 ELSE k + 1]
<1> DEFINE c == CHOOSE i \in DOMAIN q : q[i] = q[k]
<1>1. DOMAIN q = 1 .. Len(q)
  OBVIOUS
<1>2. c \in DOMAIN q /\ q[c] = q[k]
  BY <1>1
<1>3. After(q, q[k]) = q[IF c = Len(q) THEN 1 ELSE c + 1]
  BY DEF After
<1> HIDE DEF c
<1>4. c = k
  BY <1>1, <1>2
<1>5. QED
  BY <1>3, <1>4

LEMMA ReverseIs ==
  ASSUME NEW q \in Seq(ListNodes)
  PROVE  /\ Reverse(q) \in Seq(ListNodes) /\ Len(Reverse(q)) = Len(q)
         /\ \A k \in 1 .. Len(q) : Reverse(q)[k] = q[(Len(q) - k) + 1]
<1> DEFINE n == Len(q)
           f == [i \in 1 .. n |-> q[(n - i) + 1]]
<1>1. n \in Nat
  OBVIOUS
<1>2. f \in [1 .. n -> ListNodes]
  OBVIOUS
<1>3. Reverse(q) = f
  BY DEF Reverse
<1> HIDE DEF n
<1>4. f \in Seq(ListNodes) /\ Len(f) = n
  BY <1>1, <1>2, ListIsSeq
<1>5. QED
  BY <1>1, <1>3, <1>4 DEF n

LEMMA WithHeadIs ==
  ASSUME NEW head \in ListNodes, NEW s \in Seq(ListNodes)
  PROVE  LET q == WithHead(head, s) IN
         /\ q \in Seq(ListNodes) /\ Len(q) = Len(s) + 1
         /\ \A k \in 0 .. Len(s) : q[k + 1] = RingFrom(head, s)[k]
<1> DEFINE q == <<head>> \o s
<1>1. Len(s) \in Nat /\ <<head>> \in Seq(ListNodes) /\ Len(<<head>>) = 1 /\ <<head>>[1] = head
  OBVIOUS
<1>2. /\ q \in Seq(ListNodes) /\ Len(q) = 1 + Len(s)
      /\ \A i \in 1 .. 1 + Len(s) : q[i] = IF i <= 1 THEN <<head>>[i] ELSE s[i - 1]
  BY <1>1, ConcatProperties
<1> HIDE DEF q
<1>3. ASSUME NEW k \in 0 .. Len(s)
      PROVE  q[k + 1] = RingFrom(head, s)[k]
  <2>1. k + 1 \in 1 .. 1 + Len(s) /\ k \in Nat /\ (k + 1) - 1 = k /\ (k = 0 \/ k \in 1 .. Len(s))
    BY <1>1
  <2>2. RingFrom(head, s)[k] = IF k \in 1 .. Len(s) THEN s[k] ELSE head
    BY <2>1 DEF RingFrom
  <2>3. QED
    BY <1>1, <1>2, <2>1, <2>2
<1>4. QED
  BY <1>1, <1>2, <1>3 DEF q, WithHead

\* The pointers of the pair's nodes make a ring of each list.
LEMMA RingOfOne ==
  ASSUME NEW head \in ListNodes, NEW s \in Seq(ListNodes),
         \A i, j \in 0 .. Len(s) : RingFrom(head, s)[i] = RingFrom(head, s)[j] => i = j,
         \A i \in 0 .. Len(s) : RingOf(RingFrom(head, s)[i]) = WithHead(head, s)
  PROVE  Ring(PairPointers, head, Len(s), RingFrom(head, s))
<1> DEFINE n == Len(s)
           r == RingFrom(head, s)
           q == WithHead(head, s)
           v == Reverse(q)
<1>1. n \in Nat
  OBVIOUS
<1>2. /\ q \in Seq(ListNodes) /\ Len(q) = n + 1
      /\ \A k \in 0 .. n : q[k + 1] = r[k]
  BY WithHeadIs
<1>3. /\ v \in Seq(ListNodes) /\ Len(v) = n + 1
      /\ \A k \in 1 .. n + 1 : v[k] = q[((n + 1) - k) + 1]
  <2> HIDE DEF q, n
  <2>1. QED
    BY <1>2, ReverseIs
<1>4. r[0] = head /\ r[n + 1] = head /\ \A i \in 0 .. n : r[i] \in ListNodes
  <2>1. n + 1 \in Nat /\ n + 1 \notin 1 .. n /\ 0 \notin 1 .. n
    BY <1>1
  <2>2. r[0] = head /\ r[n + 1] = head
    BY <2>1 DEF RingFrom
  <2>3. \A i \in 0 .. n : r[i] \in ListNodes
    BY <1>1 DEF RingFrom
  <2>4. QED
    BY <2>2, <2>3
<1>5. /\ \A i, j \in 0 .. n : r[i] = r[j] => i = j
      /\ \A i \in 0 .. n : RingOf(r[i]) = q
  OBVIOUS
<1> HIDE DEF n, r, q, v
<1>6. /\ \A i, j \in 1 .. Len(q) : q[i] = q[j] => i = j
      /\ \A i, j \in 1 .. Len(v) : v[i] = v[j] => i = j
  <2>1. ASSUME NEW i \in 1 .. n + 1, NEW j \in 1 .. n + 1, q[i] = q[j]
        PROVE  i = j
    <3>1. i - 1 \in 0 .. n /\ j - 1 \in 0 .. n /\ (i - 1) + 1 = i /\ (j - 1) + 1 = j
      BY <1>1
    <3>2. r[i - 1] = r[j - 1]
      BY <1>2, <2>1, <3>1
    <3>3. QED
      BY <1>5, <3>1, <3>2
  <2>2. ASSUME NEW i \in 1 .. n + 1, NEW j \in 1 .. n + 1, v[i] = v[j]
        PROVE  i = j
    <3>1. ((n + 1) - i) + 1 \in 1 .. n + 1 /\ ((n + 1) - j) + 1 \in 1 .. n + 1
      BY <1>1
    <3>2. q[((n + 1) - i) + 1] = q[((n + 1) - j) + 1]
      BY <1>3, <2>2
    <3>3. ((n + 1) - i) + 1 = ((n + 1) - j) + 1
      BY <2>1, <3>1, <3>2
    <3>4. QED
      BY <1>1, <3>3
  <2>3. QED
    BY <1>2, <1>3, <2>1, <2>2
<1>7. ASSUME NEW i \in 0 .. n
      PROVE  PairPointers.next[r[i]] = r[i + 1]
  <2>1. PairPointers.next[r[i]] = After(q, r[i])
    BY <1>4, <1>5 DEF PairPointers
  <2>2. i + 1 \in 1 .. Len(q) /\ q[i + 1] = r[i]
    BY <1>1, <1>2
  <2>3. After(q, r[i]) = q[IF i + 1 = n + 1 THEN 1 ELSE (i + 1) + 1]
    <3>1. After(q, q[i + 1]) = q[IF i + 1 = Len(q) THEN 1 ELSE (i + 1) + 1]
      BY <1>2, <1>6, <2>2, AfterIs
    <3>2. QED
      BY <1>2, <2>2, <3>1
  <2>4. CASE i = n
    <3>1. 0 \in 0 .. n /\ q[0 + 1] = r[0] /\ 0 + 1 = 1
      BY <1>1, <1>2
    <3>2. QED
      BY <1>4, <2>1, <2>3, <2>4, <3>1
  <2>5. CASE i # n
    <3>1. i + 1 \in 0 .. n /\ i + 1 # n + 1
      BY <1>1, <2>5
    <3>2. q[(i + 1) + 1] = r[i + 1]
      BY <1>2, <3>1
    <3>3. QED
      BY <2>1, <2>3, <3>1, <3>2
  <2>6. QED
    BY <2>4, <2>5
<1>8. ASSUME NEW i \in 0 .. n
      PROVE  PairPointers.prev[r[i + 1]] = r[i]
  <2> DEFINE j == IF i = n THEN 0 ELSE i + 1
             k == (n + 1) - j
  <2>1. j \in 0 .. n /\ k \in 1 .. n + 1
    BY <1>1
  <2>2. r[i + 1] = r[j]
    BY <1>1, <1>4
  <2>3. v[k] = r[j]
    <3>1. ((n + 1) - k) + 1 = j + 1
      BY <1>1, <2>1
    <3> HIDE DEF j, k
    <3>2. v[k] = q[j + 1]
      BY <1>3, <2>1, <3>1
    <3>3. QED
      BY <1>2, <2>1, <3>2
  <2>4. PairPointers.prev[r[j]] = After(v, r[j])
    <3> HIDE DEF j, k
    <3>1. PairPointers.prev[r[j]] = After(Reverse(RingOf(r[j])), r[j])
      BY <1>4, <2>1 DEF PairPointers
    <3>2. QED
      BY <1>5, <2>1, <3>1 DEF v
  <2>5. After(v, r[j]) = v[IF k = n + 1 THEN 1 ELSE k + 1]
    <3> HIDE DEF j, k
    <3>1. After(v, v[k]) = v[IF k = Len(v) THEN 1 ELSE k + 1]
      BY <1>3, <1>6, <2>1, AfterIs
    <3>2. QED
      BY <1>3, <2>3, <3>1
  <2>6. CASE i = n
    <3>1. j = 0 /\ k = n + 1 /\ 1 \in 1 .. n + 1 /\ ((n + 1) - 1) + 1 = n + 1
      BY <1>1, <2>6
    <3>2. v[1] = q[n + 1] /\ q[n + 1] = r[n]
      BY <1>1, <1>2, <1>3, <3>1
    <3>3. QED
      BY <2>2, <2>4, <2>5, <2>6, <3>1, <3>2
  <2>7. CASE i # n
    <3>1. j = i + 1 /\ k = n - i /\ k # n + 1 /\ k + 1 \in 1 .. n + 1
          /\ ((n + 1) - (k + 1)) + 1 = i + 1
      BY <1>1, <2>7
    <3>2. v[k + 1] = q[i + 1] /\ q[i + 1] = r[i]
      BY <1>2, <1>3, <3>1
    <3>3. QED
      BY <2>2, <2>4, <2>5, <3>1, <3>2
  <2>8. QED
    BY <2>6, <2>7
<1>9. Ring(PairPointers, head, n, r)
  BY <1>4, <1>5, <1>7, <1>8 DEF Ring
<1>10. QED
  BY <1>9 DEF n, r

\* What a state is
OperatorsType ==
  \/ h \in [kind : {"sizes"}, size : 0 .. MaxSize]
  \/ h \in [kind : {"pairs"}, lists : [1 .. 2 -> Seq(ListItems)]]

\* No node is in two places.
OperatorsInv ==
  /\ OperatorsType
  /\ h.kind = "pairs" =>
       \A i, j \in 1 .. 2 : \A k \in 1 .. Len(h.lists[i]), m \in 1 .. Len(h.lists[j]) :
         h.lists[i][k] = h.lists[j][m] => i = j /\ k = m

RingA == RingFrom(ListA, A)
RingB == RingFrom(ListB, BB)

\* The two rings, and what is in neither
PairRings ==
  /\ A \in Seq(ListItems) /\ BB \in Seq(ListItems)
  /\ RingA \in [Nat -> ListNodes] /\ RingB \in [Nat -> ListNodes]
  /\ Pointers(PairPointers, ListNodes)
  /\ Ring(PairPointers, ListA, Len(A), RingA) /\ Ring(PairPointers, ListB, Len(BB), RingB)
  /\ \A i \in 0 .. Len(A), j \in 0 .. Len(BB) : RingA[i] # RingB[j]
  /\ \A e \in Unlisted : /\ e \in ListNodes
                         /\ \A i \in 0 .. Len(A) : RingA[i] # e
                         /\ \A j \in 0 .. Len(BB) : RingB[j] # e

LEMMA RingValues ==
  ASSUME NEW head \in ListNodes, NEW s \in Seq(ListItems)
  PROVE  /\ RingFrom(head, s) \in [Nat -> ListNodes] /\ s \in Seq(ListNodes)
         /\ RingFrom(head, s)[0] = head /\ RingFrom(head, s)[Len(s) + 1] = head
         /\ \A k \in 1 .. Len(s) : RingFrom(head, s)[k] = s[k] /\ s[k] \in ListItems
         /\ DOMAIN s = 1 .. Len(s) /\ Len(s) \in Nat
<1>1. Len(s) \in Nat /\ DOMAIN s = 1 .. Len(s) /\ \A k \in 1 .. Len(s) : s[k] \in ListItems
  OBVIOUS
<1>2. s \in Seq(ListNodes)
  <2>1. Seq(ListItems) \subseteq Seq(ListNodes)
    BY ListFacts
  <2>2. QED
    BY <2>1
<1>3. RingFrom(head, s) \in [Nat -> ListNodes]
  BY <1>1, ListFacts DEF RingFrom
<1>4. RingFrom(head, s)[0] = head /\ RingFrom(head, s)[Len(s) + 1] = head
  <2>1. Len(s) + 1 \in Nat /\ Len(s) + 1 \notin 1 .. Len(s) /\ 0 \notin 1 .. Len(s)
    BY <1>1
  <2>2. QED
    BY <2>1 DEF RingFrom
<1>5. \A k \in 1 .. Len(s) : RingFrom(head, s)[k] = s[k]
  BY <1>1 DEF RingFrom
<1>6. QED
  BY <1>1, <1>2, <1>3, <1>4, <1>5

LEMMA AfterIn ==
  ASSUME NEW q \in Seq(ListNodes), NEW x \in ToSet(q)
  PROVE  After(q, x) \in ListNodes /\ x \in ToSet(Reverse(q))
<1> DEFINE c == CHOOSE i \in DOMAIN q : q[i] = x
<1>1. DOMAIN q = 1 .. Len(q) /\ Len(q) \in Nat
  OBVIOUS
<1>2. c \in DOMAIN q /\ q[c] = x
  BY <1>1 DEF ToSet
<1>3. After(q, x) = q[IF c = Len(q) THEN 1 ELSE c + 1]
  BY DEF After
<1> HIDE DEF c
<1>4. After(q, x) \in ListNodes
  BY <1>1, <1>2, <1>3
<1>5. x \in ToSet(Reverse(q))
  <2> DEFINE k == (Len(q) - c) + 1
  <2>1. k \in 1 .. Len(q) /\ (Len(q) - k) + 1 = c
    BY <1>1, <1>2
  <2>2. Reverse(q)[k] = x /\ DOMAIN Reverse(q) = 1 .. Len(q)
    <3> HIDE DEF k
    <3>1. /\ Reverse(q) \in Seq(ListNodes) /\ Len(Reverse(q)) = Len(q)
          /\ \A l \in 1 .. Len(q) : Reverse(q)[l] = q[(Len(q) - l) + 1]
      BY ReverseIs
    <3>2. Reverse(q)[k] = q[c]
      BY <2>1, <3>1
    <3>3. DOMAIN Reverse(q) = 1 .. Len(q)
      BY <3>1
    <3>4. QED
      BY <1>2, <3>2, <3>3
  <2> HIDE DEF k
  <2>3. QED
    BY <2>1, <2>2 DEF ToSet
<1>6. QED
  BY <1>4, <1>5

LEMMA PairsAre ==
  ASSUME OperatorsInv, h.kind = "pairs"
  PROVE  PairRings
<1>1. /\ A \in Seq(ListItems) /\ BB \in Seq(ListItems)
      /\ A = h.lists[1] /\ BB = h.lists[2]
  BY DEF OperatorsInv, OperatorsType, A, BB
<1>2. /\ \A k, m \in 1 .. Len(A) : A[k] = A[m] => k = m
      /\ \A k, m \in 1 .. Len(BB) : BB[k] = BB[m] => k = m
      /\ \A k \in 1 .. Len(A), m \in 1 .. Len(BB) : A[k] # BB[m]
  BY <1>1 DEF OperatorsInv
<1>3. /\ RingA \in [Nat -> ListNodes] /\ A \in Seq(ListNodes)
      /\ RingA[0] = ListA /\ RingA[Len(A) + 1] = ListA
      /\ \A k \in 1 .. Len(A) : RingA[k] = A[k] /\ A[k] \in ListItems
      /\ DOMAIN A = 1 .. Len(A) /\ Len(A) \in Nat
  <2>1. ListA \in ListNodes
    BY ListFacts
  <2>2. /\ RingFrom(ListA, A) \in [Nat -> ListNodes] /\ A \in Seq(ListNodes)
        /\ RingFrom(ListA, A)[0] = ListA /\ RingFrom(ListA, A)[Len(A) + 1] = ListA
        /\ \A k \in 1 .. Len(A) : RingFrom(ListA, A)[k] = A[k] /\ A[k] \in ListItems
        /\ DOMAIN A = 1 .. Len(A) /\ Len(A) \in Nat
    BY <1>1, <2>1, RingValues
  <2>3. QED
    BY <2>2 DEF RingA
<1>4. /\ RingB \in [Nat -> ListNodes] /\ BB \in Seq(ListNodes)
      /\ RingB[0] = ListB /\ RingB[Len(BB) + 1] = ListB
      /\ \A k \in 1 .. Len(BB) : RingB[k] = BB[k] /\ BB[k] \in ListItems
      /\ DOMAIN BB = 1 .. Len(BB) /\ Len(BB) \in Nat
  <2>1. ListB \in ListNodes
    BY ListFacts
  <2>2. /\ RingFrom(ListB, BB) \in [Nat -> ListNodes] /\ BB \in Seq(ListNodes)
        /\ RingFrom(ListB, BB)[0] = ListB /\ RingFrom(ListB, BB)[Len(BB) + 1] = ListB
        /\ \A k \in 1 .. Len(BB) : RingFrom(ListB, BB)[k] = BB[k] /\ BB[k] \in ListItems
        /\ DOMAIN BB = 1 .. Len(BB) /\ Len(BB) \in Nat
    BY <1>1, <2>1, RingValues
  <2>3. QED
    BY <2>2 DEF RingB
<1>5. ListA \notin ListItems /\ ListB \notin ListItems /\ ListA # ListB
  BY OperatorsAssumption
<1>6. \A i, j \in 0 .. Len(A) : RingA[i] = RingA[j] => i = j
  <2> SUFFICES ASSUME NEW i \in 0 .. Len(A), NEW j \in 0 .. Len(A), RingA[i] = RingA[j] PROVE i = j
    OBVIOUS
  <2>1. (i = 0 \/ i \in 1 .. Len(A)) /\ (j = 0 \/ j \in 1 .. Len(A))
    BY <1>3
  <2>2. QED
    BY <1>2, <1>3, <1>5, <2>1
<1>7. \A i, j \in 0 .. Len(BB) : RingB[i] = RingB[j] => i = j
  <2> SUFFICES ASSUME NEW i \in 0 .. Len(BB), NEW j \in 0 .. Len(BB), RingB[i] = RingB[j] PROVE i = j
    OBVIOUS
  <2>1. (i = 0 \/ i \in 1 .. Len(BB)) /\ (j = 0 \/ j \in 1 .. Len(BB))
    BY <1>4
  <2>2. QED
    BY <1>2, <1>4, <1>5, <2>1
<1>8. \A i \in 0 .. Len(A), j \in 0 .. Len(BB) : RingA[i] # RingB[j]
  <2> SUFFICES ASSUME NEW i \in 0 .. Len(A), NEW j \in 0 .. Len(BB), RingA[i] = RingB[j] PROVE FALSE
    OBVIOUS
  <2>1. (i = 0 \/ i \in 1 .. Len(A)) /\ (j = 0 \/ j \in 1 .. Len(BB))
    BY <1>3, <1>4
  <2>2. QED
    BY <1>2, <1>3, <1>4, <1>5, <2>1
<1>9. /\ WithHead(ListA, A) \in Seq(ListNodes) /\ Len(WithHead(ListA, A)) = Len(A) + 1
      /\ \A k \in 0 .. Len(A) : WithHead(ListA, A)[k + 1] = RingA[k]
  BY <1>3, WithHeadIs, ListFacts DEF RingA
<1>10. /\ WithHead(ListB, BB) \in Seq(ListNodes) /\ Len(WithHead(ListB, BB)) = Len(BB) + 1
       /\ \A k \in 0 .. Len(BB) : WithHead(ListB, BB)[k + 1] = RingB[k]
  BY <1>4, WithHeadIs, ListFacts DEF RingB
<1>11. \A x : x \in ToSet(WithHead(ListA, A)) <=> \E i \in 0 .. Len(A) : x = RingA[i]
  <2>1. DOMAIN WithHead(ListA, A) = 1 .. Len(A) + 1
    BY <1>9
  <2>2. \A i \in 0 .. Len(A) : i + 1 \in 1 .. Len(A) + 1
    BY <1>3
  <2>3. \A k \in 1 .. Len(A) + 1 : k - 1 \in 0 .. Len(A) /\ (k - 1) + 1 = k
    BY <1>3
  <2> DEFINE q == WithHead(ListA, A)
  <2>4. ToSet(q) = {q[k] : k \in 1 .. Len(A) + 1}
    BY <2>1 DEF ToSet
  <2>5. \A k \in 0 .. Len(A) : q[k + 1] = RingA[k]
    BY <1>9
  <2> HIDE DEF q
  <2>6. ASSUME NEW x \in ToSet(q)
        PROVE  \E i \in 0 .. Len(A) : x = RingA[i]
    <3>1. PICK k \in 1 .. Len(A) + 1 : x = q[k]
      BY <2>4
    <3>2. x = RingA[k - 1]
      BY <2>3, <2>5, <3>1
    <3>3. QED
      BY <2>3, <3>2
  <2>7. ASSUME NEW i \in 0 .. Len(A)
        PROVE  RingA[i] \in ToSet(q)
    BY <2>2, <2>4, <2>5
  <2>8. QED
    BY <2>6, <2>7 DEF q
<1>12. \A x : x \in ToSet(WithHead(ListB, BB)) <=> \E i \in 0 .. Len(BB) : x = RingB[i]
  <2>1. DOMAIN WithHead(ListB, BB) = 1 .. Len(BB) + 1
    BY <1>10
  <2>2. \A i \in 0 .. Len(BB) : i + 1 \in 1 .. Len(BB) + 1
    BY <1>4
  <2>3. \A k \in 1 .. Len(BB) + 1 : k - 1 \in 0 .. Len(BB) /\ (k - 1) + 1 = k
    BY <1>4
  <2> DEFINE q == WithHead(ListB, BB)
  <2>4. ToSet(q) = {q[k] : k \in 1 .. Len(BB) + 1}
    BY <2>1 DEF ToSet
  <2>5. \A k \in 0 .. Len(BB) : q[k + 1] = RingB[k]
    BY <1>10
  <2> HIDE DEF q
  <2>6. ASSUME NEW x \in ToSet(q)
        PROVE  \E i \in 0 .. Len(BB) : x = RingB[i]
    <3>1. PICK k \in 1 .. Len(BB) + 1 : x = q[k]
      BY <2>4
    <3>2. x = RingB[k - 1]
      BY <2>3, <2>5, <3>1
    <3>3. QED
      BY <2>3, <3>2
  <2>7. ASSUME NEW i \in 0 .. Len(BB)
        PROVE  RingB[i] \in ToSet(q)
    BY <2>2, <2>4, <2>5
  <2>8. QED
    BY <2>6, <2>7 DEF q
<1>13. \A x : RingOf(x) = IF x \in ToSet(WithHead(ListA, A)) THEN WithHead(ListA, A)
                          ELSE IF x \in ToSet(WithHead(ListB, BB)) THEN WithHead(ListB, BB) ELSE <<x>>
  BY <1>1 DEF RingOf
<1>14. Ring(PairPointers, ListA, Len(A), RingA)
  <2>1. \A i \in 0 .. Len(A) : RingOf(RingA[i]) = WithHead(ListA, A)
    BY <1>11, <1>13
  <2>2. QED
    BY <1>3, <1>6, <2>1, RingOfOne, ListFacts DEF RingA
<1>15. Ring(PairPointers, ListB, Len(BB), RingB)
  <2>1. \A i \in 0 .. Len(BB) : RingOf(RingB[i]) = WithHead(ListB, BB)
    BY <1>8, <1>11, <1>12, <1>13
  <2>2. QED
    BY <1>4, <1>7, <2>1, RingOfOne, ListFacts DEF RingB
<1>16. Pointers(PairPointers, ListNodes)
  <2>1. ASSUME NEW x \in ListNodes
        PROVE  RingOf(x) \in Seq(ListNodes) /\ x \in ToSet(RingOf(x))
    <3>1. <<x>> \in Seq(ListNodes) /\ x \in ToSet(<<x>>)
      <4>1. <<x>> \in Seq(ListNodes) /\ 1 \in DOMAIN <<x>> /\ <<x>>[1] = x
        OBVIOUS
      <4>2. QED
        BY <4>1 DEF ToSet
    <3>2. QED
      BY <1>9, <1>10, <1>13, <3>1
  <2>2. ASSUME NEW x \in ListNodes
        PROVE  After(RingOf(x), x) \in ListNodes /\ After(Reverse(RingOf(x)), x) \in ListNodes
    <3> DEFINE q == RingOf(x)
    <3>1. q \in Seq(ListNodes) /\ x \in ToSet(q)
      BY <2>1
    <3> HIDE DEF q
    <3>2. After(q, x) \in ListNodes /\ x \in ToSet(Reverse(q)) /\ Reverse(q) \in Seq(ListNodes)
      BY <3>1, AfterIn, ReverseIs
    <3> DEFINE v == Reverse(q)
    <3>3. v \in Seq(ListNodes) /\ x \in ToSet(v)
      BY <3>2
    <3> HIDE DEF v
    <3>4. After(v, x) \in ListNodes
      BY <3>3, AfterIn
    <3>5. QED
      BY <3>2, <3>4 DEF q, v
  <2>3. QED
    BY <2>2 DEF Pointers, PairPointers
<1>17. ASSUME NEW e \in Unlisted
       PROVE  /\ e \in ListNodes
              /\ \A i \in 0 .. Len(A) : RingA[i] # e
              /\ \A j \in 0 .. Len(BB) : RingB[j] # e
  <2>1. e \in ListItems /\ e \notin ToSet(A) /\ e \notin ToSet(BB)
    BY <1>1 DEF Unlisted
  <2>2. e \in ListNodes /\ e # ListA /\ e # ListB
    BY <1>5, <2>1, ListFacts
  <2>3. \A k \in 1 .. Len(A) : A[k] # e
    BY <1>3, <2>1 DEF ToSet
  <2>4. \A k \in 1 .. Len(BB) : BB[k] # e
    BY <1>4, <2>1 DEF ToSet
  <2>5. \A i \in 0 .. Len(A) : i = 0 \/ i \in 1 .. Len(A)
    BY <1>3
  <2>6. \A i \in 0 .. Len(BB) : i = 0 \/ i \in 1 .. Len(BB)
    BY <1>4
  <2>7. QED
    BY <1>3, <1>4, <2>2, <2>3, <2>4, <2>5, <2>6
<1>18. QED
  BY <1>1, <1>3, <1>4, <1>8, <1>14, <1>15, <1>16, <1>17 DEF PairRings

\* The entries of a ring and its closing head are different nodes, too.
LEMMA LaterApart ==
  ASSUME NEW g, NEW head, NEW n \in Nat, NEW r, Ring(g, head, n, r)
  PROVE  \A i, j \in 1 .. n + 1 : r[i] = r[j] => i = j
<1>1. r[n + 1] = r[0] /\ \A i, j \in 0 .. n : r[i] = r[j] => i = j
  BY DEF Ring
<1> SUFFICES ASSUME NEW i \in 1 .. n + 1, NEW j \in 1 .. n + 1, r[i] = r[j] PROVE i = j
  OBVIOUS
<1>2. i = n + 1 \/ i \in 0 .. n
  OBVIOUS
<1>3. j = n + 1 \/ j \in 0 .. n
  OBVIOUS
<1>4. 0 \in 0 .. n /\ i # 0 /\ j # 0
  OBVIOUS
<1>5. QED
  BY <1>1, <1>2, <1>3, <1>4

\* The ring with e after its entry k
Inserted(r, k, e) == [i \in Nat |-> IF i <= k THEN r[i] ELSE IF i = k + 1 THEN e ELSE r[i - 1]]

\* __insert_between adds a node at any place of a list.
LEMMA InsertedBetween ==
  ASSUME NEW g, Pointers(g, ListNodes), NEW head, NEW n \in Nat, NEW r \in [Nat -> ListNodes],
         Ring(g, head, n, r), NEW k \in 0 .. n, NEW e \in ListNodes, \A i \in 0 .. n : r[i] # e
  PROVE  /\ Inserted(r, k, e) \in [Nat -> ListNodes]
         /\ Pointers(InsertBetween(g, e, r[k], r[k + 1]), ListNodes)
         /\ Ring(InsertBetween(g, e, r[k], r[k + 1]), head, n + 1, Inserted(r, k, e))
<1> DEFINE f == InsertBetween(g, e, r[k], r[k + 1])
           s == Inserted(r, k, e)
           nx == [[g.next EXCEPT ![e] = r[k + 1]] EXCEPT ![r[k]] = e]
           pv == [[g.prev EXCEPT ![e] = r[k]] EXCEPT ![r[k + 1]] = e]
<1>1. /\ r[0] = head /\ r[n + 1] = head
      /\ \A i \in 0 .. n : g.next[r[i]] = r[i + 1] /\ g.prev[r[i + 1]] = r[i]
      /\ \A i, j \in 0 .. n : r[i] = r[j] => i = j
  BY DEF Ring
<1>2. \A i, j \in 1 .. n + 1 : r[i] = r[j] => i = j
  BY LaterApart
<1>3. f.next = nx /\ f.prev = pv
  BY DEF InsertBetween
<1>4. s \in [Nat -> ListNodes]
  BY DEF Inserted
<1>5. /\ \A i \in 0 .. k : s[i] = r[i]
      /\ s[k + 1] = e
      /\ \A i \in k + 2 .. n + 2 : s[i] = r[i - 1]
  BY DEF Inserted
<1>6. /\ g.next \in [ListNodes -> ListNodes] /\ g.prev \in [ListNodes -> ListNodes]
      /\ \A i \in Nat : r[i] \in ListNodes
  BY DEF Pointers
<1>7. r[k + 1] # e /\ r[k] # e /\ r[k] \in ListNodes /\ r[k + 1] \in ListNodes
  <2>1. k + 1 \in 0 .. n \/ r[k + 1] = r[0]
    BY <1>1
  <2>2. QED
    BY <1>6, <2>1
<1>8. /\ nx[e] = r[k + 1] /\ nx[r[k]] = e
      /\ \A x \in ListNodes : x # e /\ x # r[k] => nx[x] = g.next[x]
      /\ pv[e] = r[k] /\ pv[r[k + 1]] = e
      /\ \A x \in ListNodes : x # e /\ x # r[k + 1] => pv[x] = g.prev[x]
  BY <1>6, <1>7
<1>9. nx \in [ListNodes -> ListNodes] /\ pv \in [ListNodes -> ListNodes]
  BY <1>6, <1>7
<1> HIDE DEF f, s, nx, pv
<1>10. ASSUME NEW i \in 0 .. n + 1
       PROVE  nx[s[i]] = s[i + 1] /\ pv[s[i + 1]] = s[i]
  <2>1. CASE i < k
    <3>1. i \in 0 .. n /\ i + 1 \in 0 .. k /\ i \in 0 .. k /\ i + 1 \in 1 .. n + 1 /\ i + 1 \in 0 .. n
          /\ k + 1 \in 1 .. n + 1 /\ i # k /\ i + 1 # k + 1
      BY <2>1
    <3>2. s[i] = r[i] /\ s[i + 1] = r[i + 1] /\ r[i] # e /\ r[i + 1] # e
      BY <1>5, <3>1
    <3>3. r[i] # r[k] /\ r[i + 1] # r[k + 1]
      BY <1>1, <1>2, <3>1
    <3>4. QED
      BY <1>1, <1>6, <1>8, <3>1, <3>2, <3>3
  <2>2. CASE i = k
    <3>1. k \in 0 .. k
      OBVIOUS
    <3>2. QED
      BY <1>5, <1>8, <2>2, <3>1
  <2>3. CASE i = k + 1
    <3>1. i + 1 \in k + 2 .. n + 2 /\ (i + 1) - 1 = k + 1
      BY <2>3
    <3>2. QED
      BY <1>5, <1>8, <2>3, <3>1
  <2>4. CASE i > k + 1
    <3>1. i \in k + 2 .. n + 2 /\ i + 1 \in k + 2 .. n + 2 /\ (i + 1) - 1 = i
          /\ i - 1 \in 0 .. n /\ (i - 1) + 1 = i /\ i - 1 # k /\ i # k + 1
          /\ i \in 1 .. n + 1 /\ k + 1 \in 1 .. n + 1
      BY <2>4
    <3>2. s[i] = r[i - 1] /\ s[i + 1] = r[i]
      BY <1>5, <3>1
    <3>3. r[i - 1] # r[k] /\ r[i] # r[k + 1] /\ r[i - 1] # e
      BY <1>1, <1>2, <3>1
    <3>4. r[i] # e
      <4>1. i \in 0 .. n \/ r[i] = r[0]
        BY <1>1, <3>1
      <4>2. QED
        BY <4>1
    <3>5. g.next[r[i - 1]] = r[i] /\ g.prev[r[i]] = r[i - 1]
      BY <1>1, <3>1
    <3>6. r[i - 1] \in ListNodes /\ r[i] \in ListNodes
      BY <1>6, <3>1
    <3>7. QED
      BY <1>8, <3>2, <3>3, <3>4, <3>5, <3>6
  <2>5. QED
    BY <2>1, <2>2, <2>3, <2>4
<1>11. ASSUME NEW i \in 0 .. n + 1, NEW j \in 0 .. n + 1, s[i] = s[j]
       PROVE  i = j
  <2> DEFINE b(x) == IF x <= k THEN x ELSE x - 1
  <2>1. ASSUME NEW x \in 0 .. n + 1
        PROVE  x = k + 1 \/ (b(x) \in 0 .. n /\ s[x] = r[b(x)])
    <3>1. x \in 0 .. k \/ x = k + 1 \/ x \in k + 2 .. n + 2
      OBVIOUS
    <3>2. QED
      BY <1>5, <3>1
  <2>2. CASE i = k + 1 \/ j = k + 1
    BY <1>5, <1>11, <2>1, <2>2
  <2>3. CASE i # k + 1 /\ j # k + 1
    <3>1. b(i) = b(j)
      <4>1. b(i) \in 0 .. n /\ s[i] = r[b(i)] /\ b(j) \in 0 .. n /\ s[j] = r[b(j)]
        BY <2>1, <2>3
      <4> HIDE DEF b
      <4>2. QED
        BY <1>1, <1>11, <4>1
    <3>2. QED
      BY <2>3, <3>1
  <2>4. QED
    BY <2>2, <2>3
<1>12. s[0] = head /\ s[(n + 1) + 1] = head
  <2>1. 0 \in 0 .. k /\ n + 2 \in k + 2 .. n + 2 /\ (n + 2) - 1 = n + 1 /\ (n + 1) + 1 = n + 2
    OBVIOUS
  <2>2. QED
    BY <1>1, <1>5, <2>1
<1>13. Ring(f, head, n + 1, s)
  BY <1>3, <1>10, <1>11, <1>12 DEF Ring
<1>14. Pointers(f, ListNodes)
  BY <1>3, <1>9 DEF Pointers
<1>15. QED
  BY <1>4, <1>13, <1>14 DEF f, s

\* A list is the list it should be with one node more.
LEMMA IsInserted ==
  ASSUME OperatorsInv, h.kind = "pairs", NEW k \in 0 .. Len(A), NEW e \in Unlisted,
         NEW t, t = [i \in 1 .. Len(A) + 1 |-> IF i <= k THEN A[i] ELSE IF i = k + 1 THEN e ELSE A[i - 1]]
  PROVE  Is(InsertBetween(PairPointers, e, RingA[k], RingA[k + 1]), ListA, t)
<1> DEFINE f == InsertBetween(PairPointers, e, RingA[k], RingA[k + 1])
           n == Len(A)
<1>1. PairRings
  BY PairsAre
<1>2. /\ A \in Seq(ListItems) /\ RingA \in [Nat -> ListNodes] /\ Pointers(PairPointers, ListNodes)
      /\ Ring(PairPointers, ListA, n, RingA) /\ e \in ListNodes
      /\ \A i \in 0 .. n : RingA[i] # e
  BY <1>1 DEF PairRings
<1>3. n \in Nat /\ \A i \in 1 .. n : RingA[i] = A[i]
  BY <1>2, RingValues, ListFacts DEF RingA
<1>4. /\ Inserted(RingA, k, e) \in [Nat -> ListNodes] /\ Pointers(f, ListNodes)
      /\ Ring(f, ListA, n + 1, Inserted(RingA, k, e))
  <2> HIDE DEF n
  <2>1. k \in 0 .. n
    BY DEF n
  <2>2. QED
    BY <1>2, <1>3, <2>1, InsertedBetween
<1>5. t = [i \in 1 .. n + 1 |-> Inserted(RingA, k, e)[i]]
  <2>1. ASSUME NEW i \in 1 .. n + 1
        PROVE  Inserted(RingA, k, e)[i] = IF i <= k THEN A[i] ELSE IF i = k + 1 THEN e ELSE A[i - 1]
    <3>1. i \in Nat /\ (i <= k => i \in 1 .. n) /\ (i > k + 1 => i - 1 \in 1 .. n)
      BY <1>3
    <3>2. Inserted(RingA, k, e)[i] = IF i <= k THEN RingA[i] ELSE IF i = k + 1 THEN e ELSE RingA[i - 1]
      BY <3>1 DEF Inserted
    <3>3. QED
      BY <1>3, <3>1, <3>2
  <2>2. QED
    BY <2>1
<1> HIDE DEF f
<1>6. Is(f, ListA, t)
  <2>1. n + 1 \in Nat
    BY <1>3
  <2> HIDE DEF n
  <2> DEFINE m == n + 1
  <2>2. /\ m \in Nat /\ Ring(f, ListA, m, Inserted(RingA, k, e))
        /\ t = [i \in 1 .. m |-> Inserted(RingA, k, e)[i]]
    BY <1>4, <1>5, <2>1
  <2> HIDE DEF m
  <2>3. QED
    BY <1>4, <2>2, IsRing
<1>7. QED
  BY <1>6 DEF f

\* What insertion makes of a sequence
Spliced(s, k, e) ==
  [i \in 1 .. Len(s) + 1 |-> IF i <= k THEN s[i] ELSE IF i = k + 1 THEN e ELSE s[i - 1]]

LEMMA SplicedIs ==
  ASSUME NEW s \in Seq(ListNodes), NEW e \in ListNodes
  PROVE  /\ <<e>> \o s = Spliced(s, 0, e)
         /\ Append(s, e) = Spliced(s, Len(s), e)
         /\ \A k \in 1 .. Len(s) : InsertAt(s, k + 1, e) = Spliced(s, k, e)
<1>1. /\ Len(s) \in Nat /\ <<e>> \in Seq(ListNodes) /\ Len(<<e>>) = 1 /\ <<e>>[1] = e
      /\ \A i \in 1 .. Len(s) : s[i] \in ListNodes
  OBVIOUS
<1>2. ASSUME NEW k \in 0 .. Len(s)
      PROVE  /\ Spliced(s, k, e) \in Seq(ListNodes) /\ Len(Spliced(s, k, e)) = Len(s) + 1
             /\ \A i \in 1 .. Len(s) + 1 :
                  Spliced(s, k, e)[i] = IF i <= k THEN s[i] ELSE IF i = k + 1 THEN e ELSE s[i - 1]
  <2> DEFINE m == Len(s) + 1
             f == Spliced(s, k, e)
  <2>1. m \in Nat /\ f \in [1 .. m -> ListNodes]
    BY <1>1 DEF Spliced
  <2>2. \A i \in 1 .. m : f[i] = IF i <= k THEN s[i] ELSE IF i = k + 1 THEN e ELSE s[i - 1]
    BY DEF Spliced
  <2> HIDE DEF m, f
  <2>3. f \in Seq(ListNodes) /\ Len(f) = m
    BY <2>1, ListIsSeq
  <2>4. QED
    BY <2>2, <2>3 DEF m, f
<1>3. <<e>> \o s = Spliced(s, 0, e)
  <2> DEFINE q == <<e>> \o s
  <2>1. /\ q \in Seq(ListNodes) /\ Len(q) = 1 + Len(s)
        /\ \A i \in 1 .. 1 + Len(s) : q[i] = IF i <= 1 THEN <<e>>[i] ELSE s[i - 1]
    BY <1>1, ConcatProperties
  <2> HIDE DEF q
  <2> DEFINE f == Spliced(s, 0, e)
  <2>2. /\ f \in Seq(ListNodes) /\ Len(f) = Len(s) + 1
        /\ \A i \in 1 .. Len(s) + 1 : f[i] = IF i <= 0 THEN s[i] ELSE IF i = 0 + 1 THEN e ELSE s[i - 1]
    BY <1>1, <1>2
  <2> HIDE DEF f
  <2>3. \A i \in 1 .. Len(q) : q[i] = f[i]
    BY <1>1, <2>1, <2>2
  <2>4. Len(q) = Len(f)
    BY <1>1, <2>1, <2>2
  <2>5. q = f
    BY <2>1, <2>2, <2>3, <2>4, SeqEqual
  <2>6. QED
    BY <2>5 DEF q, f
<1>4. Append(s, e) = Spliced(s, Len(s), e)
  <2> DEFINE q == Append(s, e)
             n == Len(s)
             f == Spliced(s, n, e)
  <2>1. /\ q \in Seq(ListNodes) /\ Len(q) = n + 1
        /\ \A i \in 1 .. n : q[i] = s[i]
        /\ q[n + 1] = e
    BY <1>1, AppendProperties
  <2>2. /\ f \in Seq(ListNodes) /\ Len(f) = n + 1
        /\ \A i \in 1 .. n + 1 : f[i] = IF i <= n THEN s[i] ELSE IF i = n + 1 THEN e ELSE s[i - 1]
    BY <1>1, <1>2
  <2>3. n \in Nat
    BY <1>1
  <2> HIDE DEF q, f, n
  <2>4. \A i \in 1 .. Len(q) : q[i] = f[i]
    BY <2>1, <2>2, <2>3
  <2>5. q = f
    BY <2>1, <2>2, <2>3, <2>4, SeqEqual
  <2>6. QED
    BY <2>5 DEF q, f, n
<1>5. ASSUME NEW k \in 1 .. Len(s)
      PROVE  InsertAt(s, k + 1, e) = Spliced(s, k, e)
  <2> DEFINE a == SubSeq(s, 1, k)
             b == SubSeq(s, k + 1, Len(s))
             q == (a \o <<e>>) \o b
             f == Spliced(s, k, e)
             n == Len(s)
  <2>1. InsertAt(s, k + 1, e) = q
    <3>1. (k + 1) - 1 = k
      OBVIOUS
    <3>2. QED
      BY <3>1 DEF InsertAt
  <2>2. a \in Seq(ListNodes) /\ Len(a) = k /\ \A i \in 1 .. k : a[i] = s[i]
    BY SubSeqProperties
  <2>3. b \in Seq(ListNodes) /\ Len(b) = n - k /\ \A i \in 1 .. n - k : b[i] = s[k + i]
    BY SubSeqProperties
  <2>4. /\ f \in Seq(ListNodes) /\ Len(f) = n + 1
        /\ \A i \in 1 .. n + 1 : f[i] = IF i <= k THEN s[i] ELSE IF i = k + 1 THEN e ELSE s[i - 1]
    BY <1>2
  <2>5. n \in Nat /\ k \in 1 .. n
    BY <1>1
  <2> DEFINE c == a \o <<e>>
  <2> HIDE DEF a, b, f, n
  <2>6. /\ c \in Seq(ListNodes) /\ Len(c) = k + 1
        /\ \A i \in 1 .. k + 1 : c[i] = IF i <= k THEN a[i] ELSE <<e>>[i - k]
    BY <1>1, <2>2, <2>5, ConcatProperties
  <2> HIDE DEF c
  <2>7. /\ c \o b \in Seq(ListNodes) /\ Len(c \o b) = n + 1
        /\ \A i \in 1 .. n + 1 : (c \o b)[i] = IF i <= k + 1 THEN c[i] ELSE b[i - (k + 1)]
    <3>1. Len(c) + Len(b) = n + 1
      BY <2>3, <2>5, <2>6
    <3>2. /\ c \o b \in Seq(ListNodes) /\ Len(c \o b) = Len(c) + Len(b)
          /\ \A i \in 1 .. Len(c) + Len(b) : (c \o b)[i] = IF i <= Len(c) THEN c[i] ELSE b[i - Len(c)]
      BY <2>3, <2>6, ConcatProperties
    <3>3. QED
      BY <2>6, <3>1, <3>2
  <2>8. ASSUME NEW i \in 1 .. n + 1
        PROVE  (c \o b)[i] = f[i]
    <3>1. CASE i <= k
      <4>1. i \in 1 .. k /\ i \in 1 .. k + 1 /\ i <= k + 1
        BY <2>5, <3>1
      <4>2. QED
        BY <2>2, <2>4, <2>6, <2>7, <3>1, <4>1
    <3>2. CASE i = k + 1
      <4>1. i \in 1 .. k + 1 /\ i <= k + 1 /\ ~ (i <= k) /\ i - k = 1
        BY <2>5, <3>2
      <4>2. (c \o b)[i] = c[i]
        BY <2>7, <4>1
      <4>3. c[i] = e
        BY <1>1, <2>6, <4>1
      <4>4. f[i] = e
        BY <2>4, <3>2, <4>1
      <4>5. QED
        BY <4>2, <4>3, <4>4
    <3>3. CASE i > k + 1
      <4>1. i - (k + 1) \in 1 .. n - k /\ k + (i - (k + 1)) = i - 1 /\ ~ (i <= k + 1) /\ ~ (i <= k) /\ i # k + 1
        BY <2>5, <3>3
      <4>2. (c \o b)[i] = b[i - (k + 1)]
        BY <2>7, <4>1
      <4>3. b[i - (k + 1)] = s[i - 1]
        BY <2>3, <4>1
      <4>4. f[i] = s[i - 1]
        BY <2>4, <4>1
      <4>5. QED
        BY <4>2, <4>3, <4>4
    <3>4. i <= k \/ i = k + 1 \/ i > k + 1
      BY <2>5
    <3>5. QED
      BY <3>1, <3>2, <3>3, <3>4
  <2>9. c \o b = f
    <3> DEFINE q2 == c \o b
    <3>1. q2 \in Seq(ListNodes) /\ Len(q2) = n + 1 /\ \A i \in 1 .. n + 1 : q2[i] = f[i]
      BY <2>7, <2>8
    <3> HIDE DEF q2
    <3>2. QED
      BY <2>4, <3>1, SeqEqual DEF q2
  <2>10. QED
    BY <2>1, <2>9 DEF c, f
<1>6. QED
  BY <1>3, <1>4, <1>5

\* listInsertHead, listInsertTail and listInsertNode put a node where it should
\* be (list.h:84).
LEMMA InsertsAgree ==
  ASSUME OperatorsInv, h.kind = "pairs", NEW e \in Unlisted
  PROVE  /\ Is(ListInsertHead(PairPointers, e, ListA), ListA, <<e>> \o A)
         /\ Is(ListInsertTail(PairPointers, e, ListA), ListA, Append(A, e))
         /\ \A i \in DOMAIN A : Is(ListInsertNode(PairPointers, e, A[i]), ListA, InsertAt(A, i + 1, e))
<1> DEFINE n == Len(A)
<1>1. PairRings
  BY PairsAre
<1>2. /\ A \in Seq(ListItems) /\ Ring(PairPointers, ListA, Len(A), RingA) /\ e \in ListNodes
  BY <1>1 DEF PairRings
<1>3. /\ RingA[0] = ListA /\ RingA[n + 1] = ListA /\ A \in Seq(ListNodes)
      /\ \A k \in 1 .. n : RingA[k] = A[k]
      /\ DOMAIN A = 1 .. n /\ n \in Nat
  BY <1>2, RingValues, ListFacts DEF RingA
<1>4. /\ \A i \in 0 .. n : PairPointers.next[RingA[i]] = RingA[i + 1] /\ PairPointers.prev[RingA[i + 1]] = RingA[i]
  BY <1>2 DEF Ring
<1>5. ASSUME NEW k \in 0 .. n
      PROVE  Is(InsertBetween(PairPointers, e, RingA[k], RingA[k + 1]), ListA, Spliced(A, k, e))
  BY <1>5, IsInserted DEF Spliced
<1>6. /\ <<e>> \o A = Spliced(A, 0, e)
      /\ Append(A, e) = Spliced(A, n, e)
      /\ \A k \in 1 .. n : InsertAt(A, k + 1, e) = Spliced(A, k, e)
  BY <1>2, <1>3, SplicedIs
<1> HIDE DEF n
<1>7. Is(ListInsertHead(PairPointers, e, ListA), ListA, <<e>> \o A)
  <2>1. 0 \in 0 .. n
    BY <1>3
  <2>2. PairPointers.next[ListA] = RingA[0 + 1]
    BY <1>3, <1>4, <2>1
  <2>3. ListInsertHead(PairPointers, e, ListA) = InsertBetween(PairPointers, e, RingA[0], RingA[0 + 1])
    BY <1>3, <2>2 DEF ListInsertHead
  <2>4. QED
    BY <1>5, <1>6, <2>1, <2>3
<1>8. Is(ListInsertTail(PairPointers, e, ListA), ListA, Append(A, e))
  <2>1. n \in 0 .. n
    BY <1>3
  <2>2. PairPointers.prev[ListA] = RingA[n]
    BY <1>3, <1>4, <2>1
  <2>3. ListInsertTail(PairPointers, e, ListA) = InsertBetween(PairPointers, e, RingA[n], RingA[n + 1])
    BY <1>3, <2>2 DEF ListInsertTail
  <2>4. QED
    BY <1>5, <1>6, <2>1, <2>3
<1>9. ASSUME NEW i \in DOMAIN A
      PROVE  Is(ListInsertNode(PairPointers, e, A[i]), ListA, InsertAt(A, i + 1, e))
  <2>1. i \in 1 .. n /\ i \in 0 .. n
    BY <1>3
  <2>2. PairPointers.next[A[i]] = RingA[i + 1] /\ A[i] = RingA[i]
    BY <1>3, <1>4, <2>1
  <2>3. ListInsertNode(PairPointers, e, A[i]) = InsertBetween(PairPointers, e, RingA[i], RingA[i + 1])
    BY <2>2 DEF ListInsertNode
  <2>4. Is(InsertBetween(PairPointers, e, RingA[i], RingA[i + 1]), ListA, Spliced(A, i, e))
    BY <1>5, <2>1
  <2>5. QED
    BY <1>6, <2>1, <2>3, <2>4
<1>10. QED
  BY <1>7, <1>8, <1>9

\* What removal makes of a sequence
Shortened(s, k) == [i \in 1 .. Len(s) - 1 |-> IF i < k THEN s[i] ELSE s[i + 1]]

LEMMA ShortenedIs ==
  ASSUME NEW s \in Seq(ListNodes), NEW k \in 1 .. Len(s)
  PROVE  /\ RemoveAt(s, k) = Shortened(s, k)
         /\ k = 1 => Tail(s) = Shortened(s, k)
<1> DEFINE n == Len(s)
           a == SubSeq(s, 1, k - 1)
           b == SubSeq(s, k + 1, n)
           c == a \o b
           f == Shortened(s, k)
<1>1. n \in Nat /\ k \in 1 .. n /\ n - 1 \in Nat /\ k - 1 \in 0 .. n /\ \A i \in 1 .. n : s[i] \in ListNodes
  OBVIOUS
<1>2. RemoveAt(s, k) = c
  BY DEF RemoveAt
<1>3. a \in Seq(ListNodes) /\ Len(a) = k - 1 /\ \A i \in 1 .. k - 1 : a[i] = s[i]
  <2>1. \A i \in 1 .. k - 1 : (1 + i) - 1 = i
    OBVIOUS
  <2>2. 1 \in 1 .. n + 1 /\ k - 1 \in 1 - 1 .. n
    BY <1>1
  <2>3. a \in Seq(ListNodes) /\ Len(a) = k - 1 /\ \A i \in 1 .. k - 1 : a[i] = s[(1 + i) - 1]
    BY <2>2, SubSeqProperties
  <2>4. QED
    BY <2>1, <2>3
<1>4. b \in Seq(ListNodes) /\ Len(b) = n - k /\ \A i \in 1 .. n - k : b[i] = s[k + i]
  <2>1. k + 1 \in 1 .. n + 1 /\ n \in (k + 1) - 1 .. n /\ (n - (k + 1)) + 1 = n - k
    BY <1>1
  <2>2. \A i \in 1 .. n - k : ((k + 1) + i) - 1 = k + i
    OBVIOUS
  <2> DEFINE l == k + 1
  <2>3. l \in 1 .. n + 1 /\ n \in l - 1 .. n
    BY <2>1
  <2> HIDE DEF l
  <2>4. SubSeq(s, l, n) \in Seq(ListNodes) /\ Len(SubSeq(s, l, n)) = (n - l) + 1
        /\ \A i \in 1 .. (n - l) + 1 : SubSeq(s, l, n)[i] = s[(l + i) - 1]
    BY <2>3, SubSeqProperties
  <2>5. QED
    BY <2>1, <2>2, <2>4 DEF l
<1>5. f \in Seq(ListNodes) /\ Len(f) = n - 1 /\ \A i \in 1 .. n - 1 : f[i] = IF i < k THEN s[i] ELSE s[i + 1]
  <2> DEFINE m == n - 1
  <2>1. m \in Nat /\ f \in [1 .. m -> ListNodes] /\ \A i \in 1 .. m : f[i] = IF i < k THEN s[i] ELSE s[i + 1]
    BY <1>1 DEF Shortened
  <2> HIDE DEF m, f
  <2>2. f \in Seq(ListNodes) /\ Len(f) = m
    BY <2>1, ListIsSeq
  <2>3. QED
    BY <2>1, <2>2 DEF m
<1> HIDE DEF a, b, f, n
<1>6. /\ c \in Seq(ListNodes) /\ Len(c) = n - 1
      /\ \A i \in 1 .. n - 1 : c[i] = IF i <= k - 1 THEN a[i] ELSE b[i - (k - 1)]
  <2>1. Len(a) + Len(b) = n - 1
    BY <1>1, <1>3, <1>4
  <2>2. /\ c \in Seq(ListNodes) /\ Len(c) = Len(a) + Len(b)
        /\ \A i \in 1 .. Len(a) + Len(b) : c[i] = IF i <= Len(a) THEN a[i] ELSE b[i - Len(a)]
    BY <1>3, <1>4, ConcatProperties
  <2>3. QED
    BY <1>3, <2>1, <2>2
<1> HIDE DEF c
<1>7. ASSUME NEW i \in 1 .. n - 1
      PROVE  c[i] = f[i]
  <2>1. CASE i < k
    <3>1. i \in 1 .. k - 1 /\ i <= k - 1
      BY <1>1, <2>1
    <3>2. QED
      BY <1>3, <1>5, <1>6, <2>1, <3>1
  <2>2. CASE ~ (i < k)
    <3>1. i - (k - 1) \in 1 .. n - k /\ k + (i - (k - 1)) = i + 1 /\ ~ (i <= k - 1)
      BY <1>1, <2>2
    <3>2. c[i] = b[i - (k - 1)] /\ b[i - (k - 1)] = s[i + 1]
      BY <1>4, <1>6, <3>1
    <3>3. QED
      BY <1>5, <2>2, <3>2
  <2>3. QED
    BY <2>1, <2>2
<1>8. c = f
  BY <1>5, <1>6, <1>7, SeqEqual
<1>9. ASSUME k = 1
      PROVE  Tail(s) = f
  <2> DEFINE t == Tail(s)
  <2>1. s # <<>>
    BY <1>1 DEF n
  <2>2. t \in Seq(ListNodes) /\ Len(t) = n - 1 /\ \A i \in 1 .. n - 1 : t[i] = s[i + 1]
    <3>1. /\ t \in Seq(ListNodes) /\ Len(t) = Len(s) - 1
          /\ \A i \in 1 .. Len(t) : t[i] = s[i + 1]
      BY <2>1, HeadTailProperties
    <3>2. QED
      BY <3>1 DEF n
  <2> HIDE DEF t
  <2>3. \A i \in 1 .. n - 1 : t[i] = f[i]
    BY <1>1, <1>5, <1>9, <2>2
  <2>4. t = f
    BY <1>5, <2>2, <2>3, SeqEqual
  <2>5. QED
    BY <2>4 DEF t
<1>10. QED
  BY <1>2, <1>8, <1>9 DEF f

\* listRemoveNode takes a node off its list, leaves the other list alone and
\* the node initialised (list.h:152).
LEMMA RemovesAgree ==
  ASSUME OperatorsInv, h.kind = "pairs", NEW k \in 1 .. Len(A)
  PROVE  LET g == ListRemoveNode(PairPointers, A[k]) IN
         Is(g, ListA, Shortened(A, k)) /\ Is(g, ListB, BB) /\ IsListEmpty(g, A[k])
<1> DEFINE n == Len(A)
           m == Len(BB)
           p == PairPointers
           x == RingA[k]
           g1 == Link(p, p.prev[x], p.next[x])
           g == NodeInit(g1, x)
           s == Without(RingA, k)
<1>1. PairRings
  BY PairsAre
<1>2. /\ A \in Seq(ListItems) /\ BB \in Seq(ListItems)
      /\ RingA \in [Nat -> ListNodes] /\ RingB \in [Nat -> ListNodes]
      /\ Pointers(p, ListNodes)
      /\ Ring(p, ListA, n, RingA) /\ Ring(p, ListB, m, RingB)
      /\ \A i \in 0 .. n, j \in 0 .. m : RingA[i] # RingB[j]
  BY <1>1 DEF PairRings
<1>3. /\ RingA[0] = ListA /\ RingA[n + 1] = ListA
      /\ \A i \in 1 .. n : RingA[i] = A[i]
      /\ n \in Nat
  BY <1>2, RingValues, ListFacts DEF RingA
<1>4. /\ \A i \in 1 .. m : RingB[i] = BB[i]
      /\ m \in Nat /\ BB \in Seq(ListNodes) /\ DOMAIN BB = 1 .. m
  BY <1>2, RingValues, ListFacts DEF RingB
<1>5. A[k] = x /\ k \in 1 .. n
  BY <1>3
<1>6. ListRemoveNode(p, A[k]) = g
  BY <1>5 DEF ListRemoveNode
<1>7. /\ \A i \in 0 .. n : p.next[RingA[i]] = RingA[i + 1] /\ p.prev[RingA[i + 1]] = RingA[i]
      /\ \A i, j \in 0 .. n : RingA[i] = RingA[j] => i = j
  BY <1>2 DEF Ring
<1> HIDE DEF n, m, p
<1>8. p.prev[x] = RingA[k - 1] /\ p.next[x] = RingA[k + 1]
  <2>1. k - 1 \in 0 .. n /\ k \in 0 .. n /\ (k - 1) + 1 = k
    BY <1>3, <1>5
  <2>2. QED
    BY <1>7, <2>1
<1>9. /\ g1.next = [p.next EXCEPT ![RingA[k - 1]] = RingA[k + 1]]
      /\ g1.prev = [p.prev EXCEPT ![RingA[k + 1]] = RingA[k - 1]]
  BY <1>8 DEF Link
<1>10. /\ p.next \in [ListNodes -> ListNodes] /\ p.prev \in [ListNodes -> ListNodes]
       /\ RingA[k - 1] \in ListNodes /\ RingA[k + 1] \in ListNodes /\ x \in ListNodes
  <2>1. k \in Nat /\ k - 1 \in Nat /\ k + 1 \in Nat
    BY <1>5
  <2>2. QED
    BY <1>2, <2>1 DEF Pointers
<1>11. g1.next \in [ListNodes -> ListNodes] /\ g1.prev \in [ListNodes -> ListNodes]
  BY <1>9, <1>10
<1>12. Ring(g1, ListA, n - 1, s)
  BY <1>2, <1>3, <1>5, EntryUnlinked
<1>13. /\ g.next = [g1.next EXCEPT ![x] = x] /\ g.prev = [g1.prev EXCEPT ![x] = x]
  BY DEF NodeInit, Link
<1>14. \A i \in Nat : s[i] = IF i < k THEN RingA[i] ELSE RingA[i + 1]
  BY DEF Without
<1> HIDE DEF g1, g, x, s
<1>15. \A y \in ListNodes : y # x => g.next[y] = g1.next[y] /\ g.prev[y] = g1.prev[y]
  BY <1>10, <1>11, <1>13
<1>16. Pointers(g, ListNodes)
  BY <1>10, <1>11, <1>13 DEF Pointers
<1>17. ASSUME NEW i \in 0 .. n - 1
       PROVE  s[i] \in ListNodes /\ s[i] # x
  <2> DEFINE j == IF i < k THEN i ELSE i + 1
  <2>1. j \in 0 .. n /\ j # k /\ j \in Nat /\ i \in Nat /\ k \in 0 .. n
    BY <1>3, <1>5
  <2>2. s[i] = RingA[j]
    BY <1>14, <2>1
  <2> HIDE DEF j
  <2>3. QED
    BY <1>2, <1>7, <2>1, <2>2 DEF x
<1>18. s \in [Nat -> ListNodes]
  BY <1>2 DEF s, Without
<1>19. Is(g, ListA, Shortened(A, k))
  <2> DEFINE l == n - 1
  <2>1. l \in Nat /\ Ring(g1, ListA, l, s) /\ \A i \in 0 .. l : s[i] \in ListNodes /\ s[i] # x
    BY <1>3, <1>5, <1>12, <1>17
  <2>2. Shortened(A, k) = [i \in 1 .. l |-> s[i]]
    <3>1. ASSUME NEW i \in 1 .. l
          PROVE  s[i] = IF i < k THEN A[i] ELSE A[i + 1]
      <4>1. i \in 1 .. n /\ i + 1 \in 1 .. n /\ i \in Nat
        BY <1>3
      <4>2. QED
        BY <1>3, <1>14, <4>1
    <3>2. QED
      BY <3>1 DEF Shortened, n
  <2> HIDE DEF l
  <2>3. Ring(g, ListA, l, s)
    BY <1>15, <2>1, RingKept
  <2> DEFINE t == Shortened(A, k)
  <2>4. t = [i \in 1 .. l |-> s[i]]
    BY <2>2
  <2> HIDE DEF t
  <2>5. Is(g, ListA, t)
    BY <1>16, <1>18, <2>1, <2>3, <2>4, IsRing
  <2>6. QED
    BY <2>5 DEF t
<1>20. ASSUME NEW j \in 0 .. m
       PROVE  g.next[RingB[j]] = p.next[RingB[j]] /\ g.prev[RingB[j]] = p.prev[RingB[j]]
  <2>1. RingB[j] \in ListNodes
    BY <1>2
  <2>2. k \in 0 .. n /\ k - 1 \in 0 .. n /\ 0 \in 0 .. n /\ (k + 1 \in 0 .. n \/ k + 1 = n + 1)
    BY <1>3, <1>5
  <2>3. RingB[j] # RingA[k] /\ RingB[j] # RingA[k - 1] /\ RingB[j] # RingA[k + 1]
    BY <1>2, <1>3, <2>2
  <2>4. g1.next[RingB[j]] = p.next[RingB[j]] /\ g1.prev[RingB[j]] = p.prev[RingB[j]]
    BY <1>9, <1>10, <2>1, <2>3
  <2>5. QED
    BY <1>15, <2>1, <2>3, <2>4 DEF x
<1>21. Is(g, ListB, BB)
  <2>1. Ring(g, ListB, m, RingB)
    BY <1>2, <1>4, <1>20, RingKept
  <2>2. BB = [i \in 1 .. m |-> RingB[i]]
    BY <1>4
  <2>3. QED
    BY <1>2, <1>4, <1>16, <2>1, <2>2, IsRing
<1>22. IsListEmpty(g, x)
  BY <1>10, <1>11, <1>13 DEF IsListEmpty
<1>23. QED
  BY <1>5, <1>6, <1>19, <1>21, <1>22 DEF p

\* What PairRings says of the two lists, entry by entry
LEMMA PairFacts ==
  ASSUME OperatorsInv, h.kind = "pairs"
  PROVE  /\ A \in Seq(ListItems) /\ BB \in Seq(ListItems)
         /\ Pointers(PairPointers, ListNodes)
         /\ Ring(PairPointers, ListA, Len(A), RingA) /\ Ring(PairPointers, ListB, Len(BB), RingB)
         /\ RingA \in [Nat -> ListNodes] /\ RingB \in [Nat -> ListNodes]
         /\ \A i \in 0 .. Len(A), j \in 0 .. Len(BB) : RingA[i] # RingB[j]
         /\ RingA[0] = ListA /\ RingA[Len(A) + 1] = ListA
         /\ RingB[0] = ListB /\ RingB[Len(BB) + 1] = ListB
         /\ \A i \in 1 .. Len(A) : RingA[i] = A[i]
         /\ \A i \in 1 .. Len(BB) : RingB[i] = BB[i]
         /\ Len(A) \in Nat /\ Len(BB) \in Nat /\ DOMAIN A = 1 .. Len(A) /\ DOMAIN BB = 1 .. Len(BB)
         /\ A \in Seq(ListNodes) /\ BB \in Seq(ListNodes)
<1>1. PairRings
  BY PairsAre
<1>2. A \in Seq(ListItems) /\ BB \in Seq(ListItems)
  BY <1>1 DEF PairRings
<1>3. /\ RingA[0] = ListA /\ RingA[Len(A) + 1] = ListA /\ \A i \in 1 .. Len(A) : RingA[i] = A[i]
      /\ Len(A) \in Nat /\ DOMAIN A = 1 .. Len(A) /\ A \in Seq(ListNodes)
  BY <1>2, RingValues, ListFacts DEF RingA
<1>4. /\ RingB[0] = ListB /\ RingB[Len(BB) + 1] = ListB /\ \A i \in 1 .. Len(BB) : RingB[i] = BB[i]
      /\ Len(BB) \in Nat /\ DOMAIN BB = 1 .. Len(BB) /\ BB \in Seq(ListNodes)
  BY <1>2, RingValues, ListFacts DEF RingB
<1>5. QED
  BY <1>1, <1>3, <1>4 DEF PairRings

\* The pointers of the pair are those of its lists.
LEMMA PairAgrees ==
  ASSUME OperatorsInv, h.kind = "pairs"
  PROVE  Is(PairPointers, ListA, A) /\ Is(PairPointers, ListB, BB)
<1>1. A = [i \in 1 .. Len(A) |-> RingA[i]]
  BY PairFacts
<1>2. BB = [i \in 1 .. Len(BB) |-> RingB[i]]
  BY PairFacts
<1>3. Is(PairPointers, ListA, A)
  BY <1>1, PairFacts, IsRing
<1>4. Is(PairPointers, ListB, BB)
  BY <1>2, PairFacts, IsRing
<1>5. QED
  BY <1>3, <1>4

\* listRetrieveItem takes the first node off, if there is one (list.h:165).
LEMMA RetrieveAgrees ==
  ASSUME OperatorsInv, h.kind = "pairs"
  PROVE  Is(ListRetrieveItem(PairPointers, ListA), ListA, IF A = <<>> THEN A ELSE Tail(A))
<1>1. /\ PairPointers.next[ListA] = RingA[1]
      /\ \A i, j \in 0 .. Len(A) : RingA[i] = RingA[j] => i = j
  <2>1. 0 \in 0 .. Len(A) /\ 0 + 1 = 1
    BY PairFacts
  <2>2. /\ \A i \in 0 .. Len(A) : PairPointers.next[RingA[i]] = RingA[i + 1]
        /\ \A i, j \in 0 .. Len(A) : RingA[i] = RingA[j] => i = j
    BY PairFacts DEF Ring
  <2>3. QED
    BY <2>1, <2>2, PairFacts
<1>2. CASE A = <<>>
  <2>1. Len(A) = 0
    BY <1>2
  <2>2. PairPointers.next[ListA] = ListA
    BY <1>1, <2>1, PairFacts
  <2>3. ListRetrieveItem(PairPointers, ListA) = PairPointers
    BY <2>2 DEF ListRetrieveItem, IsListEmpty
  <2>4. QED
    BY <1>2, <2>3, PairAgrees
<1>3. CASE A # <<>>
  <2>1. 1 \in 1 .. Len(A) /\ 1 \in 0 .. Len(A) /\ 0 \in 0 .. Len(A)
    <3>1. Len(A) # 0
      BY <1>3, PairFacts, EmptySeq
    <3>2. QED
      BY <3>1, PairFacts
  <2>2. PairPointers.next[ListA] = A[1] /\ A[1] # ListA
    BY <1>1, <2>1, PairFacts
  <2>3. ListRetrieveItem(PairPointers, ListA) = ListRemoveNode(PairPointers, A[1])
    BY <2>2 DEF ListRetrieveItem, IsListEmpty
  <2>4. Is(ListRemoveNode(PairPointers, A[1]), ListA, Shortened(A, 1))
    BY <2>1, RemovesAgree
  <2>5. Tail(A) = Shortened(A, 1)
    BY <2>1, ShortenedIs, PairFacts
  <2>6. QED
    BY <1>3, <2>3, <2>4, <2>5
<1>4. QED
  BY <1>2, <1>3

\* A ring that a sequence of nodes spells out is the list of that sequence.
LEMMA IsSpelled ==
  ASSUME NEW g, Pointers(g, ListNodes), NEW head \in ListNodes, NEW s \in Seq(ListItems),
         Ring(g, head, Len(s), RingFrom(head, s))
  PROVE  Is(g, head, s)
<1>1. /\ RingFrom(head, s) \in [Nat -> ListNodes] /\ Len(s) \in Nat /\ DOMAIN s = 1 .. Len(s)
      /\ \A k \in 1 .. Len(s) : RingFrom(head, s)[k] = s[k]
  BY RingValues
<1>2. s = [i \in 1 .. Len(s) |-> RingFrom(head, s)[i]]
  BY <1>1
<1>3. QED
  BY <1>1, <1>2, IsRing

\* listInsertListTail puts the entries of a list, without its head, behind those
\* of another (list.h:127).
LEMMA SpliceAgrees ==
  ASSUME OperatorsInv, h.kind = "pairs", BB # <<>>
  PROVE  Is(ListInsertListTail(PairPointers, ListB, ListA), ListA, A \o BB)
<1> DEFINE n == Len(A)
           m == Len(BB)
           p == PairPointers
           g1 == Link(p, p.prev[ListA], p.next[ListB])
           g == ListInsertListTail(p, ListB, ListA)
           t == A \o BB
           s == RingFrom(ListA, t)
<1>1. /\ n \in Nat /\ m \in Nat \ {0}
      /\ RingA[0] = ListA /\ RingA[n + 1] = ListA /\ RingB[0] = ListB /\ RingB[m + 1] = ListB
      /\ RingA \in [Nat -> ListNodes] /\ RingB \in [Nat -> ListNodes]
      /\ \A i \in 0 .. n, j \in 0 .. m : RingA[i] # RingB[j]
      /\ \A i \in 1 .. n : RingA[i] = A[i]
      /\ \A i \in 1 .. m : RingB[i] = BB[i]
  <2>1. BB \in Seq(ListItems)
    BY PairFacts
  <2>2. m \in Nat \ {0}
    BY <2>1, EmptySeq
  <2>3. QED
    BY <2>2, PairFacts
<1>2. /\ \A i \in 0 .. n : p.next[RingA[i]] = RingA[i + 1] /\ p.prev[RingA[i + 1]] = RingA[i]
      /\ \A i, j \in 0 .. n : RingA[i] = RingA[j] => i = j
      /\ \A i \in 0 .. m : p.next[RingB[i]] = RingB[i + 1] /\ p.prev[RingB[i + 1]] = RingB[i]
      /\ \A i, j \in 0 .. m : RingB[i] = RingB[j] => i = j
      /\ p.next \in [ListNodes -> ListNodes] /\ p.prev \in [ListNodes -> ListNodes]
  BY PairFacts DEF Ring, Pointers
<1>3. /\ t \in Seq(ListItems) /\ Len(t) = n + m
      /\ \A i \in 1 .. n + m : t[i] = IF i <= n THEN A[i] ELSE BB[i - n]
  BY PairFacts, ConcatProperties
<1>4. /\ s \in [Nat -> ListNodes] /\ s[0] = ListA /\ s[(n + m) + 1] = ListA
      /\ \A i \in 1 .. n + m : s[i] = t[i]
  <2> DEFINE t1 == t
  <2>1. t1 \in Seq(ListItems) /\ Len(t1) = n + m
    BY <1>3
  <2> HIDE DEF t1, n, m
  <2>2. /\ RingFrom(ListA, t1) \in [Nat -> ListNodes]
        /\ RingFrom(ListA, t1)[0] = ListA /\ RingFrom(ListA, t1)[Len(t1) + 1] = ListA
        /\ \A i \in 1 .. Len(t1) : RingFrom(ListA, t1)[i] = t1[i]
    BY <2>1, RingValues, ListFacts
  <2>3. QED
    BY <2>1, <2>2 DEF t1
<1>5. g = Link(g1, g1.prev[ListB], ListA)
  BY DEF ListInsertListTail
<1> HIDE DEF n, m, p, s, t, g1
<1>6. /\ \A i \in 0 .. n : s[i] = RingA[i]
      /\ \A i \in 1 .. m : s[n + i] = RingB[i]
      /\ s[(n + m) + 1] = ListA
  <2>1. ASSUME NEW i \in 0 .. n
        PROVE  s[i] = RingA[i]
    <3>1. CASE i = 0
      BY <1>1, <1>4, <3>1
    <3>2. CASE i # 0
      <4>1. i \in 1 .. n /\ i \in 1 .. n + m /\ i <= n
        BY <1>1, <3>2
      <4>2. QED
        BY <1>1, <1>3, <1>4, <4>1
    <3>3. QED
      BY <3>1, <3>2
  <2>2. ASSUME NEW i \in 1 .. m
        PROVE  s[n + i] = RingB[i]
    <3>1. n + i \in 1 .. n + m /\ ~ (n + i <= n) /\ (n + i) - n = i
      BY <1>1
    <3>2. QED
      BY <1>1, <1>3, <1>4, <3>1
  <2>3. QED
    BY <1>4, <2>1, <2>2
<1>7. /\ p.prev[ListA] = RingA[n] /\ p.next[ListB] = RingB[1] /\ p.prev[ListB] = RingB[m]
  <2>1. n \in 0 .. n /\ 0 \in 0 .. m /\ m \in 0 .. m /\ 0 + 1 = 1
    BY <1>1
  <2>2. QED
    BY <1>1, <1>2, <2>1
<1>8. /\ RingB[1] # ListB /\ RingB[1] # ListA /\ RingA[n] # RingB[m]
      /\ RingA[n] \in ListNodes /\ RingB[1] \in ListNodes /\ RingB[m] \in ListNodes
      /\ ListA \in ListNodes /\ ListB \in ListNodes
  <2>1. 0 \in 0 .. m /\ 1 \in 0 .. m /\ m \in 0 .. m /\ 0 \in 0 .. n /\ n \in 0 .. n /\ 1 \in Nat
    BY <1>1
  <2>2. QED
    BY <1>1, <1>2, <2>1, ListFacts
<1>9. /\ g1.next = [p.next EXCEPT ![RingA[n]] = RingB[1]]
      /\ g1.prev = [p.prev EXCEPT ![RingB[1]] = RingA[n]]
  BY <1>7 DEF Link, g1
<1>10. g1.prev[ListB] = RingB[m]
  BY <1>2, <1>7, <1>8, <1>9
<1>11. /\ g.next = [g1.next EXCEPT ![RingB[m]] = ListA]
       /\ g.prev = [g1.prev EXCEPT ![ListA] = RingB[m]]
  BY <1>5, <1>10 DEF Link
<1> HIDE DEF g
<1>12. /\ g.next \in [ListNodes -> ListNodes] /\ g.prev \in [ListNodes -> ListNodes]
       /\ g.next[RingA[n]] = RingB[1] /\ g.next[RingB[m]] = ListA
       /\ \A x \in ListNodes : x # RingA[n] /\ x # RingB[m] => g.next[x] = p.next[x]
       /\ g.prev[RingB[1]] = RingA[n] /\ g.prev[ListA] = RingB[m]
       /\ \A x \in ListNodes : x # RingB[1] /\ x # ListA => g.prev[x] = p.prev[x]
  BY <1>2, <1>8, <1>9, <1>11
<1>13. ASSUME NEW i \in 0 .. n + m
       PROVE  g.next[s[i]] = s[i + 1] /\ g.prev[s[i + 1]] = s[i]
  <2>1. CASE i < n
    <3>1. i \in 0 .. n /\ i + 1 \in 0 .. n /\ n \in 0 .. n /\ 0 \in 0 .. n /\ m \in 0 .. m /\ 1 \in 0 .. m
          /\ i # n /\ i + 1 # 0 /\ i \in Nat /\ i + 1 \in Nat
      BY <1>1, <2>1
    <3>2. s[i] = RingA[i] /\ s[i + 1] = RingA[i + 1]
      BY <1>6, <3>1
    <3>3. RingA[i] # RingA[n] /\ RingA[i] # RingB[m] /\ RingA[i + 1] # RingB[1] /\ RingA[i + 1] # ListA
      BY <1>1, <1>2, <3>1
    <3>4. p.next[RingA[i]] = RingA[i + 1] /\ p.prev[RingA[i + 1]] = RingA[i]
      BY <1>2, <3>1
    <3>5. RingA[i] \in ListNodes /\ RingA[i + 1] \in ListNodes
      BY <1>1, <3>1
    <3>6. QED
      BY <1>12, <3>2, <3>3, <3>4, <3>5
  <2>2. CASE i = n
    <3>1. n \in 0 .. n /\ 1 \in 1 .. m
      BY <1>1
    <3>2. QED
      BY <1>6, <1>12, <2>2, <3>1
  <2>3. CASE i > n /\ i < n + m
    <3> DEFINE j == i - n
    <3>1. j \in 1 .. m /\ j + 1 \in 1 .. m /\ i = n + j /\ i + 1 = n + (j + 1) /\ j \in 0 .. m
          /\ j + 1 \in 0 .. m /\ 1 \in 0 .. m /\ m \in 0 .. m /\ j # m /\ j + 1 # 1
          /\ n \in 0 .. n /\ 0 \in 0 .. n /\ j \in Nat /\ j + 1 \in Nat
      BY <1>1, <2>3
    <3> HIDE DEF j
    <3>2. s[i] = RingB[j] /\ s[i + 1] = RingB[j + 1]
      BY <1>6, <3>1
    <3>3. RingB[j] # RingA[n] /\ RingB[j] # RingB[m] /\ RingB[j + 1] # RingB[1] /\ RingB[j + 1] # ListA
      BY <1>1, <1>2, <3>1
    <3>4. p.next[RingB[j]] = RingB[j + 1] /\ p.prev[RingB[j + 1]] = RingB[j]
      BY <1>2, <3>1
    <3>5. RingB[j] \in ListNodes /\ RingB[j + 1] \in ListNodes
      BY <1>1, <3>1
    <3>6. QED
      BY <1>12, <3>2, <3>3, <3>4, <3>5
  <2>4. CASE i = n + m
    <3>1. m \in 1 .. m
      BY <1>1
    <3>2. QED
      BY <1>6, <1>12, <2>4, <3>1
  <2>5. i < n \/ i = n \/ (i > n /\ i < n + m) \/ i = n + m
    BY <1>1
  <2>6. QED
    BY <2>1, <2>2, <2>3, <2>4, <2>5
<1>14. ASSUME NEW i \in 0 .. n + m, NEW j \in 0 .. n + m, s[i] = s[j]
       PROVE  i = j
  <2>1. ASSUME NEW x \in 0 .. n + m
        PROVE  \/ x \in 0 .. n /\ s[x] = RingA[x]
               \/ x - n \in 1 .. m /\ s[x] = RingB[x - n]
    <3>1. x \in 0 .. n \/ (x - n \in 1 .. m /\ n + (x - n) = x)
      BY <1>1
    <3>2. QED
      BY <1>6, <3>1
  <2>2. \A x \in 1 .. m : x \in 0 .. m
    OBVIOUS
  <2>3. CASE i \in 0 .. n /\ s[i] = RingA[i] /\ j \in 0 .. n /\ s[j] = RingA[j]
    BY <1>2, <1>14, <2>3
  <2>4. CASE i \in 0 .. n /\ s[i] = RingA[i] /\ j - n \in 1 .. m /\ s[j] = RingB[j - n]
    BY <1>1, <1>14, <2>2, <2>4
  <2>5. CASE j \in 0 .. n /\ s[j] = RingA[j] /\ i - n \in 1 .. m /\ s[i] = RingB[i - n]
    BY <1>1, <1>14, <2>2, <2>5
  <2>6. CASE i - n \in 1 .. m /\ s[i] = RingB[i - n] /\ j - n \in 1 .. m /\ s[j] = RingB[j - n]
    <3>1. i - n = j - n
      <4>1. i - n \in 0 .. m /\ j - n \in 0 .. m
        BY <2>2, <2>6
      <4>2. RingB[i - n] = RingB[j - n]
        BY <1>14, <2>6
      <4>3. QED
        BY <1>2, <4>1, <4>2
    <3>2. QED
      BY <1>1, <3>1
  <2>7. QED
    BY <2>1, <2>3, <2>4, <2>5, <2>6
<1>15. Ring(g, ListA, n + m, s)
  BY <1>4, <1>13, <1>14 DEF Ring
<1>16. Pointers(g, ListNodes)
  BY <1>12 DEF Pointers
<1>17. Is(g, ListA, t)
  BY <1>3, <1>15, <1>16, IsSpelled, ListFacts DEF s
<1>18. QED
  BY <1>17 DEF g, p, t

\* listRetrieveAllItems gives a list to an empty one and leaves an empty one
\* (list.h:178).
LEMMA RetrieveAllAgrees ==
  ASSUME OperatorsInv, h.kind = "pairs", BB # <<>>, A = <<>>
  PROVE  LET g == ListRetrieveAllItems(PairPointers, ListA, ListB) IN
         Is(g, ListA, BB) /\ Is(g, ListB, <<>>)
<1> DEFINE m == Len(BB)
           p == PairPointers
           nx == [p.next EXCEPT ![p.prev[ListB]] = ListA, ![ListA] = p.next[ListB]]
           pv == [p.prev EXCEPT ![p.next[ListB]] = ListA, ![ListA] = p.prev[ListB]]
           g1 == [next |-> nx, prev |-> pv]
           g == NodeInit(g1, ListB)
           s == RingFrom(ListA, BB)
<1>1. /\ m \in Nat \ {0} /\ BB \in Seq(ListItems)
      /\ RingB[0] = ListB /\ RingB[m + 1] = ListB /\ RingB \in [Nat -> ListNodes]
      /\ \A i \in 1 .. m : RingB[i] = BB[i]
      /\ \A j \in 0 .. m : RingB[j] # ListA
  <2>1. BB \in Seq(ListItems)
    BY PairFacts
  <2>2. m \in Nat \ {0}
    BY <2>1, EmptySeq
  <2>3. 0 \in 0 .. Len(A)
    BY PairFacts
  <2>4. QED
    BY <2>1, <2>2, <2>3, PairFacts
<1>2. /\ \A i \in 0 .. m : p.next[RingB[i]] = RingB[i + 1] /\ p.prev[RingB[i + 1]] = RingB[i]
      /\ \A i, j \in 0 .. m : RingB[i] = RingB[j] => i = j
      /\ p.next \in [ListNodes -> ListNodes] /\ p.prev \in [ListNodes -> ListNodes]
  BY PairFacts DEF Ring, Pointers
<1>3. ListRetrieveAllItems(p, ListA, ListB) = g
  BY DEF ListRetrieveAllItems
<1>4. /\ s \in [Nat -> ListNodes] /\ s[0] = ListA /\ s[m + 1] = ListA
      /\ \A i \in 1 .. m : s[i] = RingB[i]
  BY <1>1, RingValues, ListFacts
<1>5. /\ g.next = [nx EXCEPT ![ListB] = ListB] /\ g.prev = [pv EXCEPT ![ListB] = ListB]
  BY DEF NodeInit, Link
<1> HIDE DEF m, p, s, g
<1>6. p.next[ListB] = RingB[1] /\ p.prev[ListB] = RingB[m]
  <2>1. 0 \in 0 .. m /\ m \in 0 .. m /\ 0 + 1 = 1
    BY <1>1
  <2>2. QED
    BY <1>1, <1>2, <2>1
<1>7. /\ RingB[1] # ListB /\ RingB[m] # ListB /\ RingB[1] # ListA /\ RingB[m] # ListA
      /\ RingB[1] \in ListNodes /\ RingB[m] \in ListNodes
      /\ ListA \in ListNodes /\ ListB \in ListNodes /\ ListA # ListB
  <2>1. 0 \in 0 .. m /\ 1 \in 0 .. m /\ m \in 0 .. m /\ 1 \in Nat /\ 1 # 0 /\ m # 0
    BY <1>1
  <2>2. QED
    BY <1>1, <1>2, <2>1, ListFacts
<1>8. /\ nx = [p.next EXCEPT ![RingB[m]] = ListA, ![ListA] = RingB[1]]
      /\ pv = [p.prev EXCEPT ![RingB[1]] = ListA, ![ListA] = RingB[m]]
  BY <1>6
<1> HIDE DEF nx, pv
<1>9. /\ g.next \in [ListNodes -> ListNodes] /\ g.prev \in [ListNodes -> ListNodes]
      /\ g.next[RingB[m]] = ListA /\ g.next[ListA] = RingB[1] /\ g.next[ListB] = ListB
      /\ \A x \in ListNodes : x # RingB[m] /\ x # ListA /\ x # ListB => g.next[x] = p.next[x]
      /\ g.prev[RingB[1]] = ListA /\ g.prev[ListA] = RingB[m] /\ g.prev[ListB] = ListB
      /\ \A x \in ListNodes : x # RingB[1] /\ x # ListA /\ x # ListB => g.prev[x] = p.prev[x]
  BY <1>2, <1>5, <1>7, <1>8
<1>10. ASSUME NEW i \in 0 .. m
       PROVE  g.next[s[i]] = s[i + 1] /\ g.prev[s[i + 1]] = s[i]
  <2>1. CASE i = 0
    <3>1. 1 \in 1 .. m /\ i + 1 = 1
      BY <1>1, <2>1
    <3>2. QED
      BY <1>4, <1>9, <2>1, <3>1
  <2>2. CASE i = m /\ i # 0
    <3>1. m \in 1 .. m
      BY <1>1
    <3>2. QED
      BY <1>4, <1>9, <2>2, <3>1
  <2>3. CASE i # 0 /\ i # m
    <3>1. i \in 1 .. m /\ i + 1 \in 1 .. m /\ i \in 0 .. m /\ i + 1 \in 0 .. m /\ m \in 0 .. m /\ 1 \in 0 .. m
          /\ 0 \in 0 .. m /\ i + 1 # 1 /\ i + 1 # 0 /\ i \in Nat /\ i + 1 \in Nat
      BY <1>1, <2>3
    <3>2. s[i] = RingB[i] /\ s[i + 1] = RingB[i + 1]
      BY <1>4, <3>1
    <3>3. /\ RingB[i] # RingB[m] /\ RingB[i] # ListA /\ RingB[i] # ListB
          /\ RingB[i + 1] # RingB[1] /\ RingB[i + 1] # ListA /\ RingB[i + 1] # ListB
      BY <1>1, <1>2, <2>3, <3>1
    <3>4. p.next[RingB[i]] = RingB[i + 1] /\ p.prev[RingB[i + 1]] = RingB[i]
      BY <1>2, <3>1
    <3>5. RingB[i] \in ListNodes /\ RingB[i + 1] \in ListNodes
      BY <1>1, <3>1
    <3>6. QED
      BY <1>9, <3>2, <3>3, <3>4, <3>5
  <2>4. QED
    BY <2>1, <2>2, <2>3
<1>11. ASSUME NEW i \in 0 .. m, NEW j \in 0 .. m, s[i] = s[j]
       PROVE  i = j
  <2>1. ASSUME NEW x \in 1 .. m
        PROVE  x \in 0 .. m /\ s[x] = RingB[x] /\ s[x] # ListA
    BY <1>1, <1>4
  <2>2. (i = 0 \/ i \in 1 .. m) /\ (j = 0 \/ j \in 1 .. m)
    BY <1>1
  <2>3. QED
    BY <1>2, <1>4, <1>11, <2>1, <2>2
<1>12. Ring(g, ListA, m, s)
  BY <1>4, <1>10, <1>11 DEF Ring
<1>13. Pointers(g, ListNodes)
  BY <1>9 DEF Pointers
<1>14. Is(g, ListA, BB)
  BY <1>1, <1>12, <1>13, IsSpelled, ListFacts DEF s, m
<1>15. Is(g, ListB, <<>>)
  <2> DEFINE e == [i \in Nat |-> ListB]
  <2>1. e \in [Nat -> ListNodes] /\ e[0] = ListB /\ e[0 + 1] = ListB /\ 0 + 1 = 1
    BY <1>7
  <2> HIDE DEF e
  <2>2. \A i \in 0 .. 0 : i = 0
    OBVIOUS
  <2>3. Ring(g, ListB, 0, e)
    BY <1>9, <2>1, <2>2 DEF Ring
  <2>4. <<>> = [i \in 1 .. 0 |-> e[i]]
    OBVIOUS
  <2>5. QED
    BY <1>13, <2>1, <2>3, <2>4, IsRing
<1>16. QED
  BY <1>3, <1>14, <1>15 DEF p

\* The operations on a pair of lists, together
LEMMA AllAgree ==
  ASSUME OperatorsInv
  PROVE  ListsAgree
<1> SUFFICES ASSUME h.kind = "pairs" PROVE ListsAgree
  BY DEF ListsAgree
<1>1. Is(PairPointers, ListA, A) /\ Is(PairPointers, ListB, BB)
  BY PairAgrees
<1>2. ASSUME NEW n \in Unlisted
      PROVE  /\ Is(ListInsertHead(PairPointers, n, ListA), ListA, <<n>> \o A)
             /\ Is(ListInsertTail(PairPointers, n, ListA), ListA, Append(A, n))
             /\ \A i \in DOMAIN A : Is(ListInsertNode(PairPointers, n, A[i]), ListA, InsertAt(A, i + 1, n))
  BY InsertsAgree
<1>3. ASSUME NEW i \in DOMAIN A
      PROVE  LET g == ListRemoveNode(PairPointers, A[i]) IN
             Is(g, ListA, RemoveAt(A, i)) /\ Is(g, ListB, BB) /\ IsListEmpty(g, A[i])
  <2>1. i \in 1 .. Len(A) /\ A \in Seq(ListNodes)
    BY PairFacts
  <2>2. RemoveAt(A, i) = Shortened(A, i)
    BY <2>1, ShortenedIs
  <2>3. QED
    BY <2>1, <2>2, RemovesAgree
<1>4. Is(ListRetrieveItem(PairPointers, ListA), ListA, IF A = <<>> THEN A ELSE Tail(A))
  BY RetrieveAgrees
<1>5. BB # <<>> =>
        /\ Is(ListInsertListTail(PairPointers, ListB, ListA), ListA, A \o BB)
        /\ A = <<>> => LET g == ListRetrieveAllItems(PairPointers, ListA, ListB) IN
                         Is(g, ListA, BB) /\ Is(g, ListB, <<>>)
  BY SpliceAgrees, RetrieveAllAgrees
<1>6. QED
  BY <1>1, <1>2, <1>3, <1>4, <1>5 DEF ListsAgree

-----------------------------------------------------------------------------
(* Every input *)

LEMMA OperatorsStart ==
  ASSUME OperatorsInit
  PROVE  OperatorsInv
<1>1. CASE SizesInit
  BY <1>1 DEF SizesInit, OperatorsInv, OperatorsType
<1>2. CASE PairsInit
  <2>1. /\ h.kind = "pairs" /\ h = [kind |-> "pairs", lists |-> <<<<>>, <<>>>>]
        /\ h.lists = <<<<>>, <<>>>>
    BY <1>2 DEF PairsInit
  <2>2. \A i \in 1 .. 2 : h.lists[i] = <<>>
    BY <2>1
  <2>3. h.lists \in [1 .. 2 -> Seq(ListItems)]
    <3>1. <<>> \in Seq(ListItems)
      OBVIOUS
    <3>2. DOMAIN h.lists = 1 .. 2 /\ h.lists = [i \in 1 .. 2 |-> h.lists[i]]
      BY <2>1
    <3>3. QED
      BY <2>2, <3>1, <3>2
  <2>4. OperatorsType
    BY <2>1, <2>3 DEF OperatorsType
  <2>5. \A i \in 1 .. 2 : Len(h.lists[i]) = 0
    BY <2>2
  <2>6. QED
    BY <2>4, <2>5 DEF OperatorsInv
<1>3. QED
  BY <1>1, <1>2 DEF OperatorsInit

LEMMA OperatorsStep ==
  ASSUME OperatorsInv, [OperatorsNext]_h
  PROVE  OperatorsInv'
<1>1. CASE UNCHANGED h
  BY <1>1 DEF OperatorsInv, OperatorsType
<1>2. CASE OperatorsNext
  <2>1. h.kind = "pairs"
    BY <1>2 DEF OperatorsNext
  <2>2. PICK i \in 1 .. 2, n \in ListItems \ (ToSet(h.lists[1]) \cup ToSet(h.lists[2])) :
          h' = [h EXCEPT !.lists[i] = Append(@, n)]
    BY <1>2 DEF OperatorsNext, PairsNext
  <2> DEFINE l == h.lists
             w == [l EXCEPT ![i] = Append(l[i], n)]
  <2>3. h \in [kind : {"pairs"}, lists : [1 .. 2 -> Seq(ListItems)]] /\ l \in [1 .. 2 -> Seq(ListItems)]
    BY <2>1 DEF OperatorsInv, OperatorsType
  <2>4. h' = [h EXCEPT !.lists = w]
    BY <2>2
  <2>5. h'.kind = "pairs" /\ h'.lists = w /\ h' = [kind |-> "pairs", lists |-> w]
    BY <2>3, <2>4
  <2> HIDE DEF w
  <2>6. /\ \A j \in 1 .. 2 : w[j] = IF j = i THEN Append(l[i], n) ELSE l[j]
        /\ DOMAIN w = 1 .. 2 /\ w = [j \in 1 .. 2 |-> w[j]]
    BY <2>3 DEF w
  <2>7. /\ Append(l[i], n) \in Seq(ListItems) /\ Len(Append(l[i], n)) = Len(l[i]) + 1
        /\ \A k \in 1 .. Len(l[i]) : Append(l[i], n)[k] = l[i][k]
        /\ Append(l[i], n)[Len(l[i]) + 1] = n
    BY <2>3, AppendProperties
  <2>8. w \in [1 .. 2 -> Seq(ListItems)]
    BY <2>3, <2>6, <2>7
  <2>9. OperatorsType'
    BY <2>5, <2>8 DEF OperatorsType
  <2>10. ASSUME NEW j \in 1 .. 2
         PROVE  /\ Len(l[j]) \in Nat /\ DOMAIN l[j] = 1 .. Len(l[j])
                /\ \A k \in 1 .. Len(l[j]) : l[j][k] # n
    <3>1. l[j] \in Seq(ListItems)
      BY <2>3
    <3>2. n \notin ToSet(l[j])
      BY <2>2
    <3>3. QED
      BY <3>1, <3>2 DEF ToSet
  <2>11. ASSUME NEW j \in 1 .. 2, NEW k \in 1 .. Len(w[j])
         PROVE  \/ k \in 1 .. Len(l[j]) /\ w[j][k] = l[j][k]
                \/ j = i /\ k = Len(l[i]) + 1 /\ w[j][k] = n
    <3>1. CASE j = i
      <4>1. w[j] = Append(l[i], n) /\ Len(l[i]) \in Nat
        BY <2>6, <2>10, <3>1
      <4>2. k \in 1 .. Len(l[i]) + 1
        BY <2>7, <4>1
      <4>3. k \in 1 .. Len(l[i]) \/ k = Len(l[i]) + 1
        BY <4>1, <4>2
      <4>4. QED
        BY <2>7, <3>1, <4>1, <4>3
    <3>2. CASE j # i
      BY <2>6, <3>2
    <3>3. QED
      BY <3>1, <3>2
  <2>12. ASSUME NEW a \in 1 .. 2, NEW b \in 1 .. 2, NEW k \in 1 .. Len(w[a]), NEW m \in 1 .. Len(w[b]),
                w[a][k] = w[b][m]
         PROVE  a = b /\ k = m
    <3>1. \A c, d \in 1 .. 2 : \A x \in 1 .. Len(l[c]), y \in 1 .. Len(l[d]) :
            l[c][x] = l[d][y] => c = d /\ x = y
      BY <2>1 DEF OperatorsInv
    <3> HIDE DEF l
    <3>2. CASE k \in 1 .. Len(l[a]) /\ w[a][k] = l[a][k] /\ m \in 1 .. Len(l[b]) /\ w[b][m] = l[b][m]
      <4>1. l[a][k] = l[b][m]
        BY <2>12, <3>2
      <4>2. QED
        BY <3>1, <3>2, <4>1
    <3>3. CASE k \in 1 .. Len(l[a]) /\ w[a][k] = l[a][k] /\ w[b][m] = n
      BY <2>10, <2>12, <3>3
    <3>4. CASE w[a][k] = n /\ m \in 1 .. Len(l[b]) /\ w[b][m] = l[b][m]
      BY <2>10, <2>12, <3>4
    <3>5. CASE a = i /\ b = i /\ k = Len(l[i]) + 1 /\ m = Len(l[i]) + 1
      BY <3>5
    <3>6. QED
      BY <2>11, <3>2, <3>3, <3>4, <3>5
  <2>13. QED
    BY <2>5, <2>9, <2>12 DEF OperatorsInv
<1>3. QED
  BY <1>1, <1>2

\* Each input is a size up to the largest or a pair of lists in which no node
\* is in two places: what the pointers of list.h can be.
THEOREM OperatorsTyped == OperatorsSpec => []OperatorsInv
<1>1. OperatorsInit => OperatorsInv
  BY OperatorsStart
<1>2. OperatorsInv /\ [OperatorsNext]_h => OperatorsInv'
  BY OperatorsStep
<1>3. QED
  BY <1>1, <1>2, PTL DEF OperatorsSpec

LEMMA SizeBound ==
  ASSUME OperatorsInv
  PROVE  h.kind = "sizes" => h.size \in 0 .. MaxSize
<1>1. h.kind = "sizes" => h \in [kind : {"sizes"}, size : 0 .. MaxSize]
  BY DEF OperatorsInv, OperatorsType
<1>2. QED
  BY <1>1

\* Kingsley's class of a request is the smallest whose blocks hold it, whatever
\* the number of classes and the largest request (kingsleyheap.h:80).
THEOREM ClassesFit == OperatorsSpec => []TightFit
<1>1. OperatorsInv => TightFit
  BY SizeBound, TightFits
<1>2. QED
  BY <1>1, OperatorsTyped, PTL

\* StrictSegHeap keeps a freed block where only requests that it is long enough
\* for look (segheap.h:313).
THEOREM BlocksRecycled == OperatorsSpec => []RecycledFits
<1>1. OperatorsInv => RecycledFits
  BY SizeBound, RecycledFit
<1>2. QED
  BY <1>1, OperatorsTyped, PTL

\* What the library hands out, clears or copies for a request of any size lies
\* in memory taken for it, in the range in which no sum wraps
\* (libmythread.cpp:47, xpheap.h:51, libmythread.cpp:87).
THEOREM RequestsStayInside == OperatorsSpec => []RequestsInside
<1>1. OperatorsInv => RequestsInside
  BY SizeBound, TempIsInside, PagesDoCover, WritesAreInside DEF RequestsInside
<1>2. QED
  BY <1>1, OperatorsTyped, PTL

\* The operations of list.h do to two lists of any length what they should do
\* to the sequences of their nodes (list.h:76).
THEOREM ListOperations == OperatorsSpec => []ListsAgree
<1>1. OperatorsInv => ListsAgree
  BY AllAgree
<1>2. QED
  BY <1>1, OperatorsTyped, PTL

=============================================================================

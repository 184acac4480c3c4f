--------------------------- MODULE KyberArithProofs ---------------------------
(***************************************************************************)
(* What the two reductions of reduce_ref.c return, for every argument      *)
(* their callers may pass; then, for every N and every polynomial within   *)
(* the bounds a lemma names, what each pass and each packing makes of it,  *)
(* and what each pass computes modulo q.  Intervals are written as         *)
(* inequalities, and leaves cite SMT: the numbers are large.               *)
(***************************************************************************)
EXTENDS KyberArith, TLAPS, WellFoundedInduction

\* Division that rounds down, as the shifts do.
LEMMA DivFacts ==
    ASSUME NEW a \in Int, NEW b \in Int, b > 0
    PROVE  /\ a \div b \in Int /\ a % b \in Int
           /\ a = b * (a \div b) + (a % b)
           /\ 0 <= a % b /\ a % b < b
BY SMT

\* Adding a number of turns changes no remainder.
LEMMA DivUnique ==
    ASSUME NEW a \in Int, NEW b \in Int, b > 0,
           NEW k \in Int, NEW m \in Int, 0 <= m, m < b, a = b * k + m
    PROVE  a \div b = k /\ a % b = m
BY SMT

\* The multiple of R a conversion to int16_t takes off.
Turns(x) == (x + 32768) \div 65536

LEMMA Int16Facts ==
    ASSUME NEW x \in Int
    PROVE  /\ Int16(x) \in Int /\ -32768 <= Int16(x) /\ Int16(x) <= 32767
           /\ Turns(x) \in Int /\ x = Int16(x) + Turns(x) * 65536
<1> DEFINE m == (x + 32768) % 65536
           k == (x + 32768) \div 65536
<1>1. /\ m \in Int /\ 0 <= m /\ m < 65536 /\ k \in Int
      /\ x + 32768 = 65536 * k + m
  BY SMT, DivFacts
<1>2. Int16(x) = m - 32768 /\ Turns(x) = k
  BY SMT DEF Int16, Turns
<1> HIDE DEF m, k
<1> QED
  BY SMT, <1>1, <1>2

LEMMA Int16Keeps ==
    ASSUME NEW x \in Int, -32768 <= x, x <= 32767
    PROVE  Int16(x) = x
<1>1. (x + 32768) % 65536 = x + 32768
  BY SMT, DivUnique
<1> QED
  BY SMT, <1>1 DEF Int16

(***************************************************************************)
(* barrett_reduce returns the centred representative, "in                  *)
(* {-(q-1)/2,...,(q-1)/2}", of every int16_t.                              *)
(***************************************************************************)
THEOREM BarrettIsCentred ==
    ASSUME NEW a \in Int, -32768 <= a, a <= 32767
    PROVE  /\ BarrettReduce(a) \in Int
           /\ -1664 <= BarrettReduce(a) /\ BarrettReduce(a) <= 1664
           /\ \E k \in Int : a = BarrettReduce(a) + k * Q
<1> DEFINE d == 20159 * a + 33554432
           t == d \div 67108864
           m == d % 67108864
<1>1. BarrettReduce(a) = Int16(a - Int16(t * 3329))
  BY SMT DEF BarrettReduce, Q
<1>2. /\ t \in Int /\ m \in Int /\ 0 <= m /\ m < 67108864
      /\ d = 67108864 * t + m
  BY SMT, DivFacts
<1> HIDE DEF t, m
<1>3. -10 <= t /\ t <= 10
  BY SMT, <1>2
<1>4. t * 3329 \in Int /\ -1664 <= a - t * 3329 /\ a - t * 3329 <= 1664
  BY SMT, <1>2, <1>3
<1>5. PICK w \in Int : w = Int16(t * 3329)
  BY SMT, <1>4, Int16Facts
<1>6. PICK k \in Int : t * 3329 = w + k * 65536
  BY SMT, <1>4, <1>5, Int16Facts
<1>7. Int16(a - w) = a - t * 3329
  <2>1. /\ Turns(a - w) \in Int
        /\ a - w = Int16(a - w) + Turns(a - w) * 65536
    BY SMT, Int16Facts
  <2>2. /\ Int16(a - w) \in Int
        /\ -32768 <= Int16(a - w) /\ Int16(a - w) <= 32767
    BY SMT, Int16Facts
  <2> QED
    BY SMT, <1>4, <1>6, <2>1, <2>2
<1> QED
  BY SMT, <1>1, <1>2, <1>4, <1>5, <1>7 DEF Q

(***************************************************************************)
(* montgomery_reduce, for every argument its comment allows: a value       *)
(* "in {-q+1,...,q-1} congruent to a * R^-1 modulo q".                     *)
(***************************************************************************)
THEOREM MontgomeryIsReduced ==
    ASSUME NEW a \in Int, -109084672 <= a, a <= 109084671
    PROVE  /\ MontgomeryReduce(a) \in Int
           /\ -3328 <= MontgomeryReduce(a) /\ MontgomeryReduce(a) <= 3328
           /\ \E k \in Int : a = MontgomeryReduce(a) * R + k * Q
<1> DEFINE h == Int16(a)
           t == Int16(h * (-3327))
<1>1. MontgomeryReduce(a) = Int16((a - t * 3329) \div 65536)
  BY SMT DEF MontgomeryReduce, Q, QINV, R
<1>2. h \in Int /\ \E k \in Int : a = h + k * 65536
  BY SMT, Int16Facts
<1> HIDE DEF h
<1>3. h * (-3327) \in Int
  BY SMT, <1>2
<1>4. /\ t \in Int /\ -32768 <= t /\ t <= 32767
      /\ \E k \in Int : h * (-3327) = t + k * 65536
  BY SMT, <1>3, Int16Facts
<1> HIDE DEF t
<1>5. PICK k1 \in Int : a = h + k1 * 65536
  BY SMT, <1>2
<1>6. PICK k2 \in Int : h * (-3327) = t + k2 * 65536
  BY SMT, <1>4
\* 169 * R = 1 + 3327 * q: the low half of a - t * q cancels.
<1> DEFINE e == k1 + 169 * h + 3329 * k2
<1>7. e \in Int /\ a - t * 3329 = 65536 * e
  BY SMT, <1>2, <1>4, <1>5, <1>6
<1> HIDE DEF e
<1>8. (a - t * 3329) \div 65536 = e
  BY SMT, <1>7
<1>9. -3328 <= e /\ e <= 3328
  BY SMT, <1>4, <1>7
<1>10. MontgomeryReduce(a) = e
  BY SMT, <1>1, <1>7, <1>8, <1>9, Int16Keeps
<1> QED
  BY SMT, <1>4, <1>7, <1>9, <1>10 DEF R, Q

------------------------------------------------------------------------------
(* Arrays within bounds, and blocks within arrays *)

Lens == {2, 4, 8, 16, 32, 64, 128, 256}

Within(r, lo, hi) ==
    /\ r \in [Index -> Int]
    /\ \A i \in Index : lo <= r[i] /\ r[i] <= hi

LEMMA ZetaFacts ==
    \A j \in 1..128 : zetas[j] \in Int /\ -1659 <= zetas[j] /\ zetas[j] <= 1659
BY SMT DEF zetas

LEMMA SizeFacts == N \in Lens /\ N \in Int /\ 8 <= N /\ N <= 256
<1>1. N \in {8, 16, 32, 64, 128, 256}
  BY SizeAssumption
<1> QED
  BY SMT, <1>1 DEF Lens

Sizes == {8, 16, 32, 64, 128, 256}

LEMMA BlocksFill ==
    \A n \in Sizes, l \in Lens :
        l < n => \E p \in Int : 1 <= p /\ p <= 64 /\ n = 2 * l * p
BY DEF Sizes, Lens

\* Half a block, and the pairs of halves that make the array.
LEMMA Halving ==
    ASSUME NEW l \in Lens, l < N
    PROVE  /\ 2 * l \in Lens /\ 2 * l <= N /\ 2 <= l
           /\ \E p \in Int : 1 <= p /\ p <= 64 /\ N = (2 * l) * p
<1>1. N \in {8, 16, 32, 64, 128, 256}
  BY SizeAssumption
<1>2. \E p \in Int : 1 <= p /\ p <= 64 /\ N = 2 * l * p
  <2>1. N \in Sizes
    BY <1>1 DEF Sizes
  <2> QED
    BY <2>1, BlocksFill
<1>3. 2 * l \in Lens /\ 2 * l <= N /\ 2 <= l
  BY <1>1 DEF Lens
<1> QED
  BY <1>2, <1>3

\* Where a butterfly reads and which zeta it takes.
LEMMA ButterflyFacts ==
    ASSUME NEW l \in Lens, l < N, NEW i \in Index
    PROVE  /\ i \in Int /\ IF LowHalf(i, l) THEN i + l \in Index ELSE i - l \in Index
           /\ ForwardZeta(i, l) \in Int
           /\ -1659 <= ForwardZeta(i, l) /\ ForwardZeta(i, l) <= 1659
           /\ InverseZeta(i, l) \in Int
           /\ -1659 <= InverseZeta(i, l) /\ InverseZeta(i, l) <= 1659
<1>1. PICK p \in Int : 1 <= p /\ p <= 64 /\ N = (2 * l) * p
  BY Halving
<1>2. l \in Int /\ 2 <= l /\ i \in Int /\ 0 <= i /\ i < N /\ N \in Int
  BY SMT, SizeFacts DEF Lens, Index
<1>3. PICK w \in Int : w = 2 * l /\ 4 <= w
  BY SMT, <1>2
<1> DEFINE b == i \div w
           m == i % w
<1>4. b \in Int /\ m \in Int /\ i = w * b + m /\ 0 <= m /\ m < w
  <2>1. i \in Int /\ w \in Int /\ w > 0
    BY SMT, <1>2, <1>3
  <2> QED
    BY <2>1, DivFacts
<1>5. BlockOf(i, l) = b /\ (LowHalf(i, l) <=> m < l)
  BY <1>3 DEF BlockOf, LowHalf
<1> HIDE DEF b, m
<1>6. 0 <= b /\ b <= p - 1
  <2>1. N = w * p
    BY <1>1, <1>3
  <2>2. b < 0 => w * b <= -w
    BY SMT, <1>3, <1>4
  <2>3. b >= p => w * b >= w * p
    BY SMT, <1>1, <1>3, <1>4
  <2> QED
    BY SMT, <1>1, <1>2, <1>3, <1>4, <2>1, <2>2, <2>3
<1>7. w * b + w <= N /\ 0 <= w * b
  <2>1. N = w * p
    BY <1>1, <1>3
  <2>2. w * b <= w * (p - 1) /\ w * (p - 1) = w * p - w /\ 0 <= w * b
    BY SMT, <1>1, <1>3, <1>4, <1>6
  <2> QED
    BY SMT, <1>2, <1>3, <1>4, <2>1, <2>2
<1>8. IF LowHalf(i, l) THEN i + l \in Index ELSE i - l \in Index
  BY SMT, <1>2, <1>3, <1>4, <1>5, <1>7 DEF Index
<1>9. N \div w = p /\ N \div l = 2 * p
  <2>1. N = w * p + 0 /\ N = l * (2 * p) + 0
    BY SMT, <1>1, <1>2, <1>3
  <2>2. 2 * p \in Int /\ 0 \in Int /\ 0 < w /\ 0 < l
    BY SMT, <1>1, <1>2, <1>3
  <2>3. N \div w = p
    BY <1>2, <1>3, <2>1, <2>2, DivUnique
  <2>4. N \div l = 2 * p
    BY <1>2, <2>1, <2>2, DivUnique
  <2> QED
    BY <2>3, <2>4
<1>10. /\ ForwardZeta(i, l) = zetas[p + b + 1]
       /\ InverseZeta(i, l) = zetas[2 * p - 1 - b + 1]
  BY <1>3, <1>5, <1>9 DEF ForwardZeta, InverseZeta, Zeta
<1>11. p + b + 1 \in 1..128 /\ 2 * p - 1 - b + 1 \in 1..128
  BY SMT, <1>1, <1>4, <1>6
<1> QED
  BY <1>2, <1>8, <1>10, <1>11, ZetaFacts

\* What an int16_t holds, and what is less than q in size.
Short(x) == x \in Int /\ -32768 <= x /\ x <= 32767

Small(x) == x \in Int /\ -3328 <= x /\ x <= 3328

LEMMA FqMulBound ==
    ASSUME NEW x, NEW y, Short(x), Small(y)
    PROVE  Small(FqMul(x, y)) /\ Small(FqMul(y, x))
<1>1. /\ x * y \in Int /\ y * x = x * y
      /\ -109084672 <= x * y /\ x * y <= 109084671
  BY SMT DEF Short, Small
<1>2. PICK z \in Int : z = x * y
  BY <1>1
<1>3. FqMul(x, y) = MontgomeryReduce(z) /\ FqMul(y, x) = MontgomeryReduce(z)
  BY <1>1, <1>2 DEF FqMul
<1> QED
  BY SMT, <1>1, <1>2, <1>3, MontgomeryIsReduced DEF Small

------------------------------------------------------------------------------
(* What a pass makes of an array within bounds *)

LEMMA NttLayerBound ==
    ASSUME NEW l \in Lens, l < N, NEW r, NEW lo \in Int, NEW hi \in Int,
           Within(r, lo, hi), -29440 <= lo, hi <= 29439,
           NEW low \in Int, low = lo - 3328, NEW high \in Int, high = hi + 3328
    PROVE  Within(NttLayer(r, l), low, high)
<1> DEFINE e(i) == IF LowHalf(i, l)
                   THEN Int16(r[i] + FqMul(ForwardZeta(i, l), r[i + l]))
                   ELSE Int16(r[i - l] - FqMul(ForwardZeta(i, l), r[i]))
<1>1. ASSUME NEW i \in Index
      PROVE  e(i) \in Int /\ low <= e(i) /\ e(i) <= high
  <2>1. /\ IF LowHalf(i, l) THEN i + l \in Index ELSE i - l \in Index
        /\ Small(ForwardZeta(i, l))
    BY SMT, ButterflyFacts DEF Small
  <2>2. \A j \in Index : Short(r[j]) /\ lo <= r[j] /\ r[j] <= hi
    BY SMT DEF Within, Short
  <2>3. CASE LowHalf(i, l)
    <3>1. PICK z : z = FqMul(ForwardZeta(i, l), r[i + l]) /\ Small(z)
      BY <2>1, <2>2, <2>3, FqMulBound
    <3>2. r[i] + z \in Int /\ -32768 <= r[i] + z /\ r[i] + z <= 32767
      BY SMT, <2>2, <3>1 DEF Short, Small
    <3>3. e(i) = r[i] + z
      BY SMT, <2>3, <3>1, <3>2, Int16Keeps
    <3> HIDE DEF e
    <3> QED
      BY SMT, <2>2, <3>1, <3>3 DEF Short, Small
  <2>4. CASE ~ LowHalf(i, l)
    <3>1. PICK z : z = FqMul(ForwardZeta(i, l), r[i]) /\ Small(z)
      BY <2>1, <2>2, <2>4, FqMulBound
    <3>2. r[i - l] - z \in Int /\ -32768 <= r[i - l] - z /\ r[i - l] - z <= 32767
      BY SMT, <2>1, <2>2, <2>4, <3>1 DEF Short, Small
    <3>3. e(i) = r[i - l] - z
      BY SMT, <2>4, <3>1, <3>2, Int16Keeps
    <3> HIDE DEF e
    <3> QED
      BY SMT, <2>1, <2>2, <2>4, <3>1, <3>3 DEF Short, Small
  <2> QED
    BY <2>3, <2>4
<1>2. NttLayer(r, l) = [i \in Index |-> e(i)]
  BY DEF NttLayer
<1> HIDE DEF e
<1> QED
  BY <1>1, <1>2 DEF Within

LEMMA BarrettBound ==
    ASSUME NEW x, Short(x)
    PROVE  /\ BarrettReduce(x) \in Int
           /\ -1664 <= BarrettReduce(x) /\ BarrettReduce(x) <= 1664
BY SMT, BarrettIsCentred DEF Short

LEMMA PolyReduceBound ==
    ASSUME NEW r, NEW lo \in Int, NEW hi \in Int, Within(r, lo, hi),
           -32768 <= lo, hi <= 32767
    PROVE  Within(PolyReduce(r), -1664, 1664)
<1>1. \A i \in Index : Short(r[i])
  BY SMT DEF Within, Short
<1>2. \A i \in Index : /\ BarrettReduce(r[i]) \in Int
                       /\ -1664 <= BarrettReduce(r[i])
                       /\ BarrettReduce(r[i]) <= 1664
  BY <1>1, BarrettBound
<1> QED
  BY SMT, <1>2 DEF Within, PolyReduce

LEMMA InvNttLayerBound ==
    ASSUME NEW l \in Lens, l < N, NEW r, Within(r, -3328, 3328)
    PROVE  Within(InvNttLayer(r, l), -3328, 3328)
<1> DEFINE e(i) == IF LowHalf(i, l) THEN BarrettReduce(Int16(r[i] + r[i + l]))
                   ELSE FqMul(InverseZeta(i, l), Int16(r[i] - r[i - l]))
<1>1. ASSUME NEW i \in Index
      PROVE  Small(e(i))
  <2>1. /\ IF LowHalf(i, l) THEN i + l \in Index ELSE i - l \in Index
        /\ Small(InverseZeta(i, l))
    BY SMT, ButterflyFacts DEF Small
  <2>2. \A j \in Index : Small(r[j])
    BY SMT DEF Within, Small
  <2>3. CASE LowHalf(i, l)
    <3>1. Short(r[i] + r[i + l])
      BY SMT, <2>1, <2>2, <2>3 DEF Short, Small
    <3>2. Int16(r[i] + r[i + l]) = r[i] + r[i + l]
      BY SMT, <3>1, Int16Keeps DEF Short
    <3>3. PICK z : z = r[i] + r[i + l] /\ Short(z)
      BY <3>1
    <3>4. e(i) = BarrettReduce(z)
      BY <2>3, <3>2, <3>3
    <3> HIDE DEF e
    <3> QED
      BY SMT, <3>3, <3>4, BarrettBound DEF Small
  <2>4. CASE ~ LowHalf(i, l)
    <3>1. Short(r[i] - r[i - l])
      BY SMT, <2>1, <2>2, <2>4 DEF Short, Small
    <3>2. Int16(r[i] - r[i - l]) = r[i] - r[i - l]
      BY SMT, <3>1, Int16Keeps DEF Short
    <3>3. PICK z : z = r[i] - r[i - l] /\ Short(z)
      BY <3>1
    <3>4. e(i) = FqMul(InverseZeta(i, l), z)
      BY <2>4, <3>2, <3>3
    <3> HIDE DEF e
    <3> QED
      BY <2>1, <3>3, <3>4, FqMulBound
  <2> QED
    BY <2>3, <2>4
<1>2. InvNttLayer(r, l) = [i \in Index |-> e(i)]
  BY DEF InvNttLayer
<1> HIDE DEF e
<1> QED
  BY SMT, <1>1, <1>2 DEF Within, Small

LEMMA ScaleBound ==
    ASSUME NEW r, Within(r, -3328, 3328)
    PROVE  Within(Scale(r), -3328, 3328)
<1>1. \A i \in Index : Small(r[i])
  BY SMT DEF Within, Small
<1>2. Short(InvF)
  BY FactorAssumption DEF Short
<1>3. \A i \in Index : Small(FqMul(r[i], InvF))
  BY <1>1, <1>2, FqMulBound
<1> QED
  BY SMT, <1>3 DEF Within, Scale, Small

\* The zeta of a pair of coefficients, and the other one of the pair.
LEMMA PairFacts ==
    ASSUME NEW i \in Index
    PROVE  /\ Small(PairZeta(i))
           /\ IF i % 2 = 0 THEN i + 1 \in Index ELSE i - 1 \in Index
<1>1. N \in {8, 16, 32, 64, 128, 256}
  BY SizeAssumption
<1>2. N \in Int /\ N <= 256 /\ i \in Int /\ 0 <= i /\ i < N /\ N % 2 = 0
      /\ 0 <= N \div 4 /\ N \div 4 <= 64 /\ N \div 4 \in Int
  BY <1>1 DEF Index
<1>3. N \div 4 + i \div 4 + 1 \in 1..128
  BY SMT, <1>2
<1>4. PICK z \in Int : z = Zeta(N \div 4 + i \div 4) /\ -1659 <= z /\ z <= 1659
  BY SMT, <1>3, ZetaFacts DEF Zeta
<1>5. Small(PairZeta(i))
  BY SMT, <1>4 DEF PairZeta, Small
<1>6. IF i % 2 = 0 THEN i + 1 \in Index ELSE i - 1 \in Index
  BY SMT, <1>2 DEF Index
<1> QED
  BY <1>5, <1>6

LEMMA Widen ==
    ASSUME NEW r, NEW lo \in Int, NEW hi \in Int, Within(r, lo, hi),
           NEW low \in Int, NEW high \in Int, low <= lo, hi <= high
    PROVE  Within(r, low, high)
BY SMT DEF Within

LEMMA BaseMulBound ==
    ASSUME NEW a, NEW b, Within(a, -32768, 32767), Within(b, -1664, 1664)
    PROVE  Within(BaseMul(a, b), -6656, 6656)
<1> DEFINE e(i) == IF i % 2 = 0
                   THEN Int16(FqMul(FqMul(a[i + 1], b[i + 1]), PairZeta(i))
                                  + FqMul(a[i], b[i]))
                   ELSE Int16(FqMul(a[i - 1], b[i]) + FqMul(a[i], b[i - 1]))
<1>1. /\ \A x, y : Short(x) /\ Small(y) => Small(FqMul(x, y))
      /\ \A x : Small(x) => Short(x)
  BY SMT, FqMulBound DEF Small, Short
<1>2. \A x, y : Small(x) /\ Small(y) =>
          /\ Int16(x + y) \in Int /\ -6656 <= Int16(x + y) /\ Int16(x + y) <= 6656
  <2> SUFFICES ASSUME NEW x, NEW y, Small(x), Small(y)
               PROVE  /\ Int16(x + y) \in Int
                      /\ -6656 <= Int16(x + y) /\ Int16(x + y) <= 6656
    OBVIOUS
  <2>1. PICK z \in Int : z = x + y /\ -6656 <= z /\ z <= 6656
    BY SMT DEF Small
  <2>2. Int16(z) = z
    BY SMT, <2>1, Int16Keeps
  <2> QED
    BY SMT, <2>1, <2>2
<1>3. ASSUME NEW i \in Index
      PROVE  e(i) \in Int /\ -6656 <= e(i) /\ e(i) <= 6656
  <2>1. \A j \in Index : Short(a[j]) /\ Small(b[j])
    BY SMT DEF Within, Small, Short
  <2>2. /\ Small(PairZeta(i))
        /\ IF i % 2 = 0 THEN i + 1 \in Index ELSE i - 1 \in Index
    BY PairFacts
  <2>3. CASE i % 2 = 0
    <3>1. /\ Small(FqMul(FqMul(a[i + 1], b[i + 1]), PairZeta(i)))
          /\ Small(FqMul(a[i], b[i]))
      BY <1>1, <2>1, <2>2, <2>3
    <3> QED
      BY <1>2, <2>3, <3>1
  <2>4. CASE i % 2 # 0
    <3>1. Small(FqMul(a[i - 1], b[i])) /\ Small(FqMul(a[i], b[i - 1]))
      BY <1>1, <2>1, <2>2, <2>4
    <3> QED
      BY <1>2, <2>4, <3>1
  <2> QED
    BY <2>3, <2>4
<1>4. BaseMul(a, b) = [i \in Index |-> e(i)]
  BY DEF BaseMul
<1> HIDE DEF e
<1> QED
  BY SMT, <1>3, <1>4 DEF Within


------------------------------------------------------------------------------
(* Compression *)

LEMMA DivByConst ==
    \A x \in Int :
        /\ x \div 256 \in Int /\ x % 256 \in Int
        /\ x = 256 * (x \div 256) + (x % 256) /\ 0 <= x % 256 /\ x % 256 <= 255
        /\ (x \div 256) \div 256 = x \div 65536
BY SMT

\* The multiplication by bytes is the multiplication.
LEMMA MulShift24Is ==
    ASSUME NEW x \in Int, NEW m \in Int
    PROVE  MulShift24(x, m) = (x * m) \div 16777216
<1> DEFINE x0 == x % 256
           x1 == (x \div 256) % 256
           x2 == x \div 65536
<1>1. x0 \in Int /\ x1 \in Int /\ x2 \in Int /\ x = x0 + 256 * x1 + 65536 * x2
  BY SMT, DivByConst
<1> HIDE DEF x0, x1, x2
<1>2. PICK y0, y1, y2 \in Int : y0 = x0 * m /\ y1 = x1 * m /\ y2 = x2 * m
  BY SMT, <1>1
<1>3. x * m = y0 + 256 * y1 + 65536 * y2
  <2>1. (x0 + 256 * x1 + 65536 * x2) * m = x0 * m + 256 * (x1 * m) + 65536 * (x2 * m)
    BY SMT, <1>1
  <2> QED
    BY SMT, <1>1, <1>2, <2>1
<1>4. MulShift24(x, m) = ((y0 \div 256 + y1) \div 256 + y2) \div 256
  BY SMT, <1>2 DEF MulShift24, x0, x1, x2
<1>5. PICK z0 \in Int : z0 = y0 \div 256 /\ 256 * z0 <= y0 /\ y0 <= 256 * z0 + 255
  BY SMT, <1>2
<1>6. PICK z1 \in Int : z1 = (z0 + y1) \div 256
                        /\ 256 * z1 <= z0 + y1 /\ z0 + y1 <= 256 * z1 + 255
  BY SMT, <1>2, <1>5
<1>7. PICK z2 \in Int : z2 = (z1 + y2) \div 256
                        /\ 256 * z2 <= z1 + y2 /\ z1 + y2 <= 256 * z2 + 255
  BY SMT, <1>2, <1>6
<1>8. PICK p \in Int : p = y0 + 256 * y1 + 65536 * y2
  BY SMT, <1>2
<1>9. 16777216 * z2 <= p /\ p <= 16777216 * z2 + 16777215
  BY SMT, <1>5, <1>6, <1>7, <1>8
<1>10. p \div 16777216 = z2
  BY SMT, <1>9
<1> QED
  BY SMT, <1>3, <1>4, <1>5, <1>6, <1>7, <1>8, <1>10

\* The nonnegative representative of a centred coefficient.
LEMMA PositiveFacts ==
    ASSUME NEW u \in Int, -1664 <= u, u <= 1664
    PROVE  /\ Positive(u) \in Int /\ 0 <= Positive(u) /\ Positive(u) <= 3328
           /\ Positive(u) = u \/ Positive(u) = u + 3329
           /\ Positive(u) = Mod(u)
BY SMT DEF Positive, Mod, Q, R

\* Four bits: 80635 / 2 ^ 28 stands for 1 / q.
LEMMA Compress4Facts ==
    ASSUME NEW u \in Int, -1664 <= u, u <= 1664
    PROVE  \E k \in Int : /\ 0 <= k /\ k <= 16 /\ Compress4(u) = k % 16
                          /\ 3329 * k <= 16 * Positive(u) + 1665
                          /\ 16 * Positive(u) + 1665 <= 3329 * (k + 1)
<1>1. PICK p \in Int : p = Positive(u) /\ 0 <= p /\ p <= 3328
  BY SMT, PositiveFacts
<1>2. PICK v \in Int : v = p * 16 + 1665
  OBVIOUS
<1>3. PICK w \in Int : w = v * 80635
  BY SMT
<1>4. MulShift24(v, 80635) = w \div 16777216
  BY SMT, <1>3, MulShift24Is
<1>5. PICK k \in Int : k = (w \div 16777216) \div 16
  BY SMT
<1>6. 268435456 * k <= w /\ w <= 268435456 * k + 268435455
  BY SMT, <1>5
<1>7. 0 <= k /\ k <= 16 /\ 3329 * k <= v /\ v <= 3329 * (k + 1)
  BY SMT, <1>1, <1>2, <1>3, <1>6
<1>8. Compress4(u) = k % 16
  BY SMT, <1>1, <1>2, <1>4, <1>5 DEF Compress4
<1> QED
  BY SMT, <1>1, <1>2, <1>7, <1>8

\* Ten bits: 1290167 / 2 ^ 32 does.
QuotientOf10(k, u) ==
    /\ 0 <= k /\ k <= 1024 /\ Compress10(u) = k % 1024
    /\ 3329 * k <= 1024 * Positive(u) + 1665
    /\ 1024 * Positive(u) + 1665 <= 3329 * (k + 1) + 1

LEMMA Compress10Facts ==
    ASSUME NEW u \in Int, -1664 <= u, u <= 1664
    PROVE  \E k \in Int : QuotientOf10(k, u)
<1>1. PICK p \in Int : p = Positive(u) /\ 0 <= p /\ p <= 3328
  BY SMT, PositiveFacts
<1>2. PICK v \in Int : v = p * 1024 + 1665
  OBVIOUS
<1>3. PICK w \in Int : w = v * 1290167
  BY SMT
<1>4. MulShift24(v, 1290167) = w \div 16777216
  BY SMT, <1>3, MulShift24Is
<1>5. PICK k \in Int : k = (w \div 16777216) \div 256
  BY SMT
<1>6. 4294967296 * k <= w /\ w <= 4294967296 * k + 4294967295
  BY SMT, <1>5
<1>7. 0 <= k /\ k <= 1024 /\ 3329 * k <= v /\ v <= 3329 * (k + 1) + 1
  BY SMT, <1>1, <1>2, <1>3, <1>6
<1>8. Compress10(u) = k % 1024
  <2>1. Compress10(u) = (MulShift24(v, 1290167) \div 256) % 1024
    BY SMT, <1>1, <1>2 DEF Compress10
  <2> QED
    BY SMT, <1>4, <1>5, <2>1
<1> QED
  BY SMT, <1>1, <1>2, <1>7, <1>8 DEF QuotientOf10

\* Close to the nonnegative representative is close modulo q.
LEMMA DistanceFacts ==
    ASSUME NEW u \in Int, -1664 <= u, u <= 1664, NEW y \in Int,
           NEW b \in Int, 0 <= b, b <= 104,
           \/ - b <= y - Positive(u) /\ y - Positive(u) <= b
           \/ - b <= y + 3329 - Positive(u) /\ y + 3329 - Positive(u) <= b
    PROVE  Distance(y, u) <= b
<1>1. PICK p \in Int : p = Positive(u) /\ (p = u \/ p = u + 3329)
  BY SMT, PositiveFacts
<1>2. PICK d \in Int : d = (y - u) % 3329
  BY SMT
<1>3. 0 <= d /\ d <= 3328 /\ (d <= b \/ d >= 3329 - b)
  BY SMT, <1>1, <1>2
<1>4. Distance(y, u) = IF d > 1664 THEN 3329 - d ELSE d
  BY SMT, <1>2 DEF Distance, Mod, Q
<1> QED
  BY SMT, <1>3, <1>4

LEMMA FourBits ==
    ASSUME NEW u \in Int, -1664 <= u, u <= 1664
    PROVE  Distance(Decompress4(Compress4(u)), u) <= 104
<1>1. PICK k \in Int : /\ 0 <= k /\ k <= 16 /\ Compress4(u) = k % 16
                       /\ 3329 * k <= 16 * Positive(u) + 1665
                       /\ 16 * Positive(u) + 1665 <= 3329 * (k + 1)
  BY SMT, Compress4Facts
<1>2. PICK p \in Int : p = Positive(u) /\ 0 <= p /\ p <= 3328
  BY SMT, PositiveFacts
<1>3. PICK y \in Int : y = ((k % 16) * 3329 + 8) \div 16
  BY SMT
<1>4. Decompress4(Compress4(u)) = y
  BY SMT, <1>1, <1>3 DEF Decompress4, Q
<1>5. \/ -104 <= y - p /\ y - p <= 104
      \/ -104 <= y + 3329 - p /\ y + 3329 - p <= 104
  <2>1. CASE k = 16
    BY SMT, <1>1, <1>2, <1>3, <2>1
  <2>2. CASE k < 16
    <3>1. k % 16 = k
      BY SMT, <1>1, <2>2
    <3> QED
      BY SMT, <1>1, <1>2, <1>3, <2>2, <3>1
  <2> QED
    BY SMT, <1>1, <2>1, <2>2
<1> QED
  BY SMT, <1>2, <1>4, <1>5, DistanceFacts

LEMMA TenBits ==
    ASSUME NEW u \in Int, -1664 <= u, u <= 1664
    PROVE  Distance(Decompress10(Compress10(u)), u) <= 2
<1>1. PICK k \in Int : QuotientOf10(k, u)
  BY Compress10Facts
<1>2. PICK p \in Int : p = Positive(u) /\ 0 <= p /\ p <= 3328
  BY SMT, PositiveFacts
<1>3. PICK y \in Int : y = ((k % 1024) * 3329 + 512) \div 1024
  BY SMT
<1>4. Decompress10(Compress10(u)) = y
  BY SMT, <1>1, <1>3 DEF Decompress10, Q, QuotientOf10
<1>5. \/ -2 <= y - p /\ y - p <= 2
      \/ -2 <= y + 3329 - p /\ y + 3329 - p <= 2
  <2>1. CASE k = 1024
    BY SMT, <1>1, <1>2, <1>3, <2>1 DEF QuotientOf10
  <2>2. CASE k < 1024
    <3>1. k % 1024 = k
      BY SMT, <1>1, <2>2 DEF QuotientOf10
    <3> QED
      BY SMT, <1>1, <1>2, <1>3, <2>2, <3>1 DEF QuotientOf10
  <2> QED
    BY SMT, <1>1, <2>1, <2>2 DEF QuotientOf10
<1> QED
  BY SMT, <1>2, <1>4, <1>5, DistanceFacts

------------------------------------------------------------------------------
(* Packing *)

\* Byte m of the three that hold two values of twelve bits.
ByteOf(t0, t1, m) ==
    IF m = 0 THEN t0 % 256
    ELSE IF m = 1 THEN (t0 \div 256 + t1 * 16) % 256
    ELSE (t1 \div 16) % 256

LEMMA ByteOfType ==
    \A t0, t1 \in Int : /\ ByteOf(t0, t1, 0) \in Int /\ ByteOf(t0, t1, 1) \in Int
                        /\ ByteOf(t0, t1, 2) \in Int
BY SMT DEF ByteOf

\* The three bytes of t0 and t1.
Holds12(t0, t1, b0, b1, b2) ==
    /\ 0 <= t0 /\ t0 <= 4095 /\ 0 <= t1 /\ t1 <= 4095
    /\ b0 = t0 % 256 /\ b1 = (t0 \div 256 + t1 * 16) % 256
    /\ b2 = (t1 \div 16) % 256

LEMMA HoldsByteOf ==
    ASSUME NEW t0 \in Int, NEW t1 \in Int,
           0 <= t0, t0 <= 4095, 0 <= t1, t1 <= 4095
    PROVE  Holds12(t0, t1, ByteOf(t0, t1, 0), ByteOf(t0, t1, 1), ByteOf(t0, t1, 2))
BY SMT DEF ByteOf, Holds12

LEMMA TwelveBits ==
    ASSUME NEW t0 \in Int, NEW t1 \in Int,
           NEW b0 \in Int, NEW b1 \in Int, NEW b2 \in Int,
           Holds12(t0, t1, b0, b1, b2)
    PROVE  /\ (b0 + b1 * 256) % 4096 = t0
           /\ (b1 \div 16 + b2 * 16) % 4096 = t1
<1>0. /\ 0 <= t0 /\ t0 <= 4095 /\ 0 <= t1 /\ t1 <= 4095
      /\ b0 = t0 % 256 /\ b1 = (t0 \div 256 + t1 * 16) % 256
      /\ b2 = (t1 \div 16) % 256
  BY SMT DEF Holds12
<1>1. PICK h0 \in Int : h0 = t0 \div 256 /\ t0 = 256 * h0 + b0 /\ 0 <= h0 /\ h0 <= 15
                        /\ 0 <= b0 /\ b0 <= 255
  BY SMT, <1>0
<1>2. PICK h1 \in Int : h1 = t1 \div 16 /\ 0 <= h1 /\ h1 <= 255 /\ b2 = h1
  BY SMT, <1>0
<1>3. PICK l1 \in Int : l1 = t1 % 16 /\ t1 = 16 * h1 + l1 /\ 0 <= l1 /\ l1 <= 15
  BY SMT, <1>0, <1>2
<1>4. b1 = h0 + 16 * l1
  BY SMT, <1>0, <1>1, <1>2, <1>3
<1>5. (b0 + b1 * 256) % 4096 = t0
  <2>1. b0 + b1 * 256 = 4096 * l1 + t0
    BY SMT, <1>0, <1>1, <1>3, <1>4
  <2> QED
    BY SMT, <1>0, <1>3, <2>1
<1>6. b1 \div 16 = l1
  BY SMT, <1>0, <1>1, <1>3, <1>4
<1> QED
  BY SMT, <1>0, <1>2, <1>3, <1>5, <1>6

\* Two values of four bits in a byte.
LEMMA Nibbles ==
    ASSUME NEW t0 \in Int, NEW t1 \in Int, 0 <= t0, t0 <= 15, 0 <= t1, t1 <= 15,
           NEW b \in Int, b = (t0 + t1 * 16) % 256
    PROVE  b % 16 = t0 /\ b \div 16 = t1
BY SMT

\* Byte m of the five that hold four values of ten bits.
TenByteOf(t0, t1, t2, t3, m) ==
    IF m = 0 THEN t0 % 256
    ELSE IF m = 1 THEN (t0 \div 256 + t1 * 4) % 256
    ELSE IF m = 2 THEN (t1 \div 64 + t2 * 16) % 256
    ELSE IF m = 3 THEN (t2 \div 16 + t3 * 64) % 256
    ELSE (t3 \div 4) % 256

LEMMA TenByteOfType ==
    \A t0, t1, t2, t3 \in Int : \A m : TenByteOf(t0, t1, t2, t3, m) \in Int
BY SMT DEF TenByteOf

\* The five bytes of four values.
Holds10(t0, t1, t2, t3, b0, b1, b2, b3, b4) ==
    /\ 0 <= t0 /\ t0 <= 1023 /\ 0 <= t1 /\ t1 <= 1023
    /\ 0 <= t2 /\ t2 <= 1023 /\ 0 <= t3 /\ t3 <= 1023
    /\ b0 = t0 % 256 /\ b1 = (t0 \div 256 + t1 * 4) % 256
    /\ b2 = (t1 \div 64 + t2 * 16) % 256 /\ b3 = (t2 \div 16 + t3 * 64) % 256
    /\ b4 = (t3 \div 4) % 256

LEMMA HoldsTenByteOf ==
    ASSUME NEW t0 \in Int, NEW t1 \in Int, NEW t2 \in Int, NEW t3 \in Int,
           0 <= t0, t0 <= 1023, 0 <= t1, t1 <= 1023,
           0 <= t2, t2 <= 1023, 0 <= t3, t3 <= 1023
    PROVE  Holds10(t0, t1, t2, t3,
                   TenByteOf(t0, t1, t2, t3, 0), TenByteOf(t0, t1, t2, t3, 1),
                   TenByteOf(t0, t1, t2, t3, 2), TenByteOf(t0, t1, t2, t3, 3),
                   TenByteOf(t0, t1, t2, t3, 4))
BY SMT DEF TenByteOf, Holds10

\* What is read of them.
Gives10(t0, t1, t2, t3, b0, b1, b2, b3, b4) ==
    /\ (b0 + b1 * 256) % 1024 = t0
    /\ (b1 \div 4 + b2 * 64) % 1024 = t1
    /\ (b2 \div 16 + b3 * 16) % 1024 = t2
    /\ (b3 \div 64 + b4 * 4) % 1024 = t3

LEMMA FourInFive ==
    ASSUME NEW t0 \in Int, NEW t1 \in Int, NEW t2 \in Int, NEW t3 \in Int,
           NEW b0 \in Int, NEW b1 \in Int, NEW b2 \in Int, NEW b3 \in Int,
           NEW b4 \in Int,
           Holds10(t0, t1, t2, t3, b0, b1, b2, b3, b4)
    PROVE  Gives10(t0, t1, t2, t3, b0, b1, b2, b3, b4)
<1>0. /\ 0 <= t0 /\ t0 <= 1023 /\ 0 <= t1 /\ t1 <= 1023
      /\ 0 <= t2 /\ t2 <= 1023 /\ 0 <= t3 /\ t3 <= 1023
      /\ b0 = t0 % 256 /\ b1 = (t0 \div 256 + t1 * 4) % 256
      /\ b2 = (t1 \div 64 + t2 * 16) % 256 /\ b3 = (t2 \div 16 + t3 * 64) % 256
      /\ b4 = (t3 \div 4) % 256
  BY SMT DEF Holds10
<1>1. PICK h0 \in Int : h0 = t0 \div 256 /\ t0 = 256 * h0 + b0 /\ 0 <= h0 /\ h0 <= 3
                        /\ 0 <= b0 /\ b0 <= 255
  BY SMT, <1>0
<1>2. PICK h1, l1 \in Int : /\ h1 = t1 \div 64 /\ t1 = 64 * h1 + l1
                            /\ 0 <= h1 /\ h1 <= 15 /\ 0 <= l1 /\ l1 <= 63
  BY SMT, <1>0
<1>3. PICK h2, l2 \in Int : /\ h2 = t2 \div 16 /\ t2 = 16 * h2 + l2
                            /\ 0 <= h2 /\ h2 <= 63 /\ 0 <= l2 /\ l2 <= 15
  BY SMT, <1>0
<1>4. PICK h3, l3 \in Int : /\ h3 = t3 \div 4 /\ t3 = 4 * h3 + l3
                            /\ 0 <= h3 /\ h3 <= 255 /\ 0 <= l3 /\ l3 <= 3
  BY SMT, <1>0
<1>5. b1 = h0 + 4 * l1
  BY SMT, <1>0, <1>1, <1>2
<1>6. b2 = h1 + 16 * l2
  BY SMT, <1>0, <1>2, <1>3
<1>7. b3 = h2 + 64 * l3
  BY SMT, <1>0, <1>3, <1>4
<1>8. b4 = h3
  BY SMT, <1>0, <1>4
<1>9. (b0 + b1 * 256) % 1024 = t0
  <2>1. b0 + b1 * 256 = 1024 * l1 + t0
    BY SMT, <1>0, <1>1, <1>2, <1>5
  <2> QED
    BY SMT, <1>0, <1>2, <2>1
<1>10. (b1 \div 4 + b2 * 64) % 1024 = t1
  <2>1. b1 \div 4 = l1
    BY SMT, <1>0, <1>1, <1>2, <1>5
  <2>2. l1 + b2 * 64 = 1024 * l2 + t1
    BY SMT, <1>0, <1>2, <1>3, <1>6
  <2> QED
    BY SMT, <1>0, <1>3, <2>1, <2>2
<1>11. (b2 \div 16 + b3 * 16) % 1024 = t2
  <2>1. b2 \div 16 = l2
    BY SMT, <1>0, <1>2, <1>3, <1>6
  <2>2. l2 + b3 * 16 = 1024 * l3 + t2
    BY SMT, <1>0, <1>3, <1>4, <1>7
  <2> QED
    BY SMT, <1>0, <1>4, <2>1, <2>2
<1>12. (b3 \div 64 + b4 * 4) % 1024 = t3
  <2>1. b3 \div 64 = l3
    BY SMT, <1>0, <1>3, <1>4, <1>7
  <2> QED
    BY SMT, <1>0, <1>4, <1>8, <2>1
<1> QED
  BY <1>9, <1>10, <1>11, <1>12 DEF Gives10

LEMMA Quarter == \E n \in Int : 2 <= n /\ N = 4 * n
<1>1. N \in {8, 16, 32, 64, 128, 256}
  BY SizeAssumption
<1>2. N = 4 * (N \div 4) /\ N \div 4 \in Int /\ 2 <= N \div 4
  BY <1>1
<1> QED
  BY <1>2

\* Coefficient i is one of i0 and i1, which are written to k0, k1 and k2.
Pair(i, i0, i1, k0, k1, k2) ==
    /\ i0 = 2 * (i \div 2) /\ i1 = i0 + 1
    /\ k0 = 3 * (i \div 2) /\ k1 = k0 + 1 /\ k2 = k0 + 2
    /\ i = IF i % 2 = 0 THEN i0 ELSE i1

TwoOf(i0, i1) == i0 \in Index /\ i1 \in Index

ThreeOf(k0, k1, k2) == {k0, k1, k2} \subseteq 0..((3 * N) \div 2) - 1

LEMMA Pairs ==
    ASSUME NEW i \in Index
    PROVE  \E i0, i1, k0, k1, k2 \in Int :
               /\ Pair(i, i0, i1, k0, k1, k2) /\ TwoOf(i0, i1) /\ ThreeOf(k0, k1, k2)
               /\ i \div 2 \in 0..N \div 2 - 1
<1>1. PICK n \in Int : 2 <= n /\ N = 4 * n
  BY Quarter
<1>2. i \in Int /\ 0 <= i /\ i < 4 * n
  BY SMT, <1>1 DEF Index
<1>3. PICK h \in Int : /\ h = i \div 2 /\ 0 <= h /\ h < 2 * n
                       /\ (i % 2 = 0 => i = 2 * h) /\ (i % 2 # 0 => i = 2 * h + 1)
  BY SMT, <1>2
<1>4. N \div 2 = 2 * n /\ (3 * N) \div 2 = 6 * n
  BY SMT, <1>1
<1>5. 2 * h \in Index /\ 2 * h + 1 \in Index
  BY SMT, <1>1, <1>3 DEF Index
<1>6. /\ 3 * h \in 0..6 * n - 1 /\ 3 * h + 1 \in 0..6 * n - 1
      /\ 3 * h + 2 \in 0..6 * n - 1 /\ h \in 0..2 * n - 1
  BY SMT, <1>1, <1>3
<1>7. Pair(i, 2 * h, 2 * h + 1, 3 * h, 3 * h + 1, 3 * h + 2)
  BY <1>3 DEF Pair
<1>8. PICK i0, i1, k0, k1, k2 \in Int :
          /\ i0 = 2 * h /\ i1 = 2 * h + 1
          /\ k0 = 3 * h /\ k1 = 3 * h + 1 /\ k2 = 3 * h + 2
  BY SMT
<1>9. TwoOf(i0, i1) /\ ThreeOf(k0, k1, k2) /\ Pair(i, i0, i1, k0, k1, k2)
  BY <1>4, <1>5, <1>6, <1>7, <1>8 DEF TwoOf, ThreeOf
<1> QED
  BY <1>3, <1>4, <1>6, <1>9

\* What ToBytes makes of the index of a byte.
At(k, i0, i1, m) == 2 * (k \div 3) = i0 /\ 2 * (k \div 3) + 1 = i1 /\ k % 3 = m

\* Byte k of what poly_tobytes makes of a.
WholeByte(a, k) ==
    ByteOf(Positive(a[2 * (k \div 3)]), Positive(a[2 * (k \div 3) + 1]), k % 3)

LEMMA WholeByteAt ==
    ASSUME NEW a, NEW k \in Int, NEW i0, NEW i1, NEW m, At(k, i0, i1, m)
    PROVE  WholeByte(a, k) = ByteOf(Positive(a[i0]), Positive(a[i1]), m)
BY DEF At, WholeByte

LEMMA PairBytes ==
    ASSUME NEW i \in Index, NEW i0 \in Int, NEW i1 \in Int,
           NEW k0 \in Int, NEW k1 \in Int, NEW k2 \in Int,
           Pair(i, i0, i1, k0, k1, k2)
    PROVE  At(k0, i0, i1, 0) /\ At(k1, i0, i1, 1) /\ At(k2, i0, i1, 2)
<1>1. PICK h \in Int : /\ h = i \div 2 /\ i0 = 2 * h /\ i1 = 2 * h + 1
                       /\ k0 = 3 * h /\ k1 = 3 * h + 1 /\ k2 = 3 * h + 2
  BY SMT DEF Pair, Index
<1>2. /\ (3 * h) \div 3 = h /\ (3 * h + 1) \div 3 = h /\ (3 * h + 2) \div 3 = h
      /\ (3 * h) % 3 = 0 /\ (3 * h + 1) % 3 = 1 /\ (3 * h + 2) % 3 = 2
  BY SMT
<1> QED
  BY <1>1, <1>2 DEF At

\* Byte k of what polyvec_compress makes of t, and byte j of its group g.
TenByte(t, k) ==
    TenByteOf(t[4 * (k \div 5) + 0], t[4 * (k \div 5) + 1],
              t[4 * (k \div 5) + 2], t[4 * (k \div 5) + 3], k % 5)

TenByteIn(t, g, j) ==
    TenByteOf(t[4 * g + 0], t[4 * g + 1], t[4 * g + 2], t[4 * g + 3], j)

LEMMA TenByteAt ==
    ASSUME NEW t, NEW k \in Int, NEW g, NEW j, k \div 5 = g, k % 5 = j
    PROVE  TenByte(t, k) = TenByteIn(t, g, j)
BY DEF TenByte, TenByteIn

\* Coefficient i is one of the four of group g.
LEMMA GroupsOfFour ==
    ASSUME NEW i \in Index, NEW t
    PROVE  /\ i = 4 * (i \div 4) + (i % 4) /\ i % 4 \in {0, 1, 2, 3}
           /\ \A j \in {0, 1, 2, 3} : 4 * (i \div 4) + j \in Index
           /\ \A j \in 0..4 : 5 * (i \div 4) + j \in 0..((5 * N) \div 4) - 1
           /\ \A j \in 0..4 :
                 TenByte(t, 5 * (i \div 4) + j) = TenByteIn(t, i \div 4, j)
<1>1. PICK n \in Int : 2 <= n /\ N = 4 * n
  BY Quarter
<1>2. i \in Int /\ 0 <= i /\ i < 4 * n
  BY SMT, <1>1 DEF Index
<1> DEFINE g == i \div 4
<1>3. /\ g \in Int /\ 0 <= g /\ g < n /\ i = 4 * g + (i % 4)
      /\ i % 4 \in {0, 1, 2, 3}
  BY SMT, <1>2
<1>4. (5 * N) \div 4 = 5 * n
  BY SMT, <1>1
<1> HIDE DEF g
<1>5. \A j \in {0, 1, 2, 3} : 4 * g + j \in Index
  BY SMT, <1>1, <1>3 DEF Index
<1>6. \A j \in 0..4 : /\ 5 * g + j \in 0..5 * n - 1 /\ 5 * g + j \in Int
                      /\ (5 * g + j) \div 5 = g /\ (5 * g + j) % 5 = j
  BY SMT, <1>1, <1>3
<1>7. ASSUME NEW j \in 0..4
      PROVE  TenByte(t, 5 * g + j) = TenByteIn(t, g, j)
  <2>1. PICK k \in Int : k = 5 * g + j /\ k \div 5 = g /\ k % 5 = j
    BY <1>6
  <2>2. TenByte(t, k) = TenByteIn(t, g, j)
    BY <2>1, TenByteAt
  <2> QED
    BY <2>1, <2>2
<1> QED
  BY <1>3, <1>4, <1>5, <1>6, <1>7 DEF g

LEMMA ModPositive ==
    ASSUME NEW a, Within(a, -1664, 1664), NEW i \in Index
    PROVE  /\ Positive(a[i]) \in Int /\ 0 <= Positive(a[i]) /\ Positive(a[i]) <= 4095
           /\ Positive(a[i]) = Mod(a[i])
<1>1. PICK u \in Int : u = a[i] /\ -1664 <= u /\ u <= 1664
  BY SMT DEF Within
<1>2. /\ Positive(u) \in Int /\ 0 <= Positive(u) /\ Positive(u) <= 3328
      /\ Positive(u) = Mod(u)
  BY <1>1, PositiveFacts
<1> QED
  BY SMT, <1>1, <1>2

(***************************************************************************)
(* poly_frombytes after poly_tobytes gives the nonnegative representative. *)
(***************************************************************************)
LEMMA WholeReadBack ==
    ASSUME NEW a, Within(a, -1664, 1664)
    PROVE  \A i \in Index : FromBytes(ToBytes(a))[i] = Mod(a[i])
<1> SUFFICES ASSUME NEW i \in Index
             PROVE  FromBytes(ToBytes(a))[i] = Mod(a[i])
  OBVIOUS
<1> DEFINE c == ToBytes(a)
<1>1. PICK i0, i1, k0, k1, k2 \in Int :
          /\ Pair(i, i0, i1, k0, k1, k2) /\ TwoOf(i0, i1) /\ ThreeOf(k0, k1, k2)
          /\ i \div 2 \in 0..N \div 2 - 1
  BY Pairs
<1> DEFINE t0 == Positive(a[i0])
           t1 == Positive(a[i1])
<1>2. /\ t0 \in Int /\ 0 <= t0 /\ t0 <= 4095
      /\ t1 \in Int /\ 0 <= t1 /\ t1 <= 4095
  BY <1>1, ModPositive DEF TwoOf
<1>3. t0 = Mod(a[i0]) /\ t1 = Mod(a[i1])
  BY <1>1, ModPositive DEF TwoOf
<1>4. \A k \in 0..((3 * N) \div 2) - 1 : c[k] = WholeByte(a, k)
  BY DEF ToBytes, ByteOf, WholeByte
<1>5. /\ WholeByte(a, k0) = ByteOf(t0, t1, 0)
      /\ WholeByte(a, k1) = ByteOf(t0, t1, 1)
      /\ WholeByte(a, k2) = ByteOf(t0, t1, 2)
  BY <1>1, PairBytes, WholeByteAt
<1> HIDE DEF c, t0, t1
<1>6. /\ c[k0] = ByteOf(t0, t1, 0)
      /\ c[k1] = ByteOf(t0, t1, 1)
      /\ c[k2] = ByteOf(t0, t1, 2)
  BY <1>1, <1>4, <1>5 DEF ThreeOf
<1> DEFINE b0 == c[k0]
           b1 == c[k1]
           b2 == c[k2]
<1>7. FromBytes(c)[i] = IF i % 2 = 0 THEN (b0 + b1 * 256) % 4096
                        ELSE (b1 \div 16 + b2 * 16) % 4096
  <2>1. k0 = 3 * (i \div 2) /\ k1 = k0 + 1 /\ k2 = k0 + 2
    BY <1>1 DEF Pair
  <2> QED
    BY <2>1 DEF FromBytes
<1> HIDE DEF b0, b1, b2
<1>8. /\ Holds12(t0, t1, b0, b1, b2)
      /\ b0 \in Int /\ b1 \in Int /\ b2 \in Int
  <2>1. b0 = ByteOf(t0, t1, 0) /\ b1 = ByteOf(t0, t1, 1) /\ b2 = ByteOf(t0, t1, 2)
    BY <1>6 DEF b0, b1, b2
  <2> QED
    BY <1>2, <2>1, HoldsByteOf, ByteOfType
<1>9. (b0 + b1 * 256) % 4096 = t0 /\ (b1 \div 16 + b2 * 16) % 4096 = t1
  BY <1>2, <1>8, TwelveBits
<1>10. i = IF i % 2 = 0 THEN i0 ELSE i1
  BY <1>1 DEF Pair
<1>11. FromBytes(c)[i] = IF i % 2 = 0 THEN t0 ELSE t1
  BY <1>7, <1>9
<1>12. CASE i % 2 = 0
  BY <1>3, <1>10, <1>11, <1>12 DEF c
<1>13. CASE i % 2 # 0
  BY <1>3, <1>10, <1>11, <1>13 DEF c
<1> QED
  BY <1>12, <1>13

(***************************************************************************)
(* The four-bit values poly_decompress finds are those poly_compress wrote.*)
(***************************************************************************)
LEMMA FourReadBack ==
    ASSUME NEW t, Within(t, 0, 15)
    PROVE  \A i \in Index : Unpack4(Pack4(t))[i] = t[i]
<1> SUFFICES ASSUME NEW i \in Index
             PROVE  Unpack4(Pack4(t))[i] = t[i]
  OBVIOUS
<1> DEFINE c == Pack4(t)
<1>1. PICK i0, i1, k0, k1, k2 \in Int :
          /\ Pair(i, i0, i1, k0, k1, k2) /\ TwoOf(i0, i1) /\ ThreeOf(k0, k1, k2)
          /\ i \div 2 \in 0..N \div 2 - 1
  BY Pairs
<1>2. /\ i0 = 2 * (i \div 2) /\ i1 = 2 * (i \div 2) + 1
      /\ i = IF i % 2 = 0 THEN i0 ELSE i1
  BY <1>1 DEF Pair
<1>3. PICK t0 \in Int : t0 = t[i0] /\ 0 <= t0 /\ t0 <= 15
  BY <1>1 DEF Within, TwoOf
<1>4. PICK t1 \in Int : t1 = t[i1] /\ 0 <= t1 /\ t1 <= 15
  BY <1>1 DEF Within, TwoOf
<1>5. PICK b \in Int : b = c[i \div 2] /\ b = (t0 + t1 * 16) % 256
  <2>1. c[i \div 2] = (t0 + t1 * 16) % 256
    BY <1>1, <1>2, <1>3, <1>4 DEF Pack4
  <2>2. (t0 + t1 * 16) % 256 \in Int
    BY SMT
  <2> QED
    BY <2>1, <2>2
<1>6. b % 16 = t0 /\ b \div 16 = t1
  BY SMT, <1>3, <1>4, <1>5, Nibbles
<1> HIDE DEF c
<1>7. Unpack4(c)[i] = IF i % 2 = 0 THEN b % 16 ELSE b \div 16
  BY <1>5 DEF Unpack4
<1> QED
  BY <1>2, <1>3, <1>4, <1>6, <1>7 DEF c

(***************************************************************************)
(* The ten-bit values of polyvec_decompress are those of polyvec_compress. *)
(***************************************************************************)
LEMMA TenReadBack ==
    ASSUME NEW t, Within(t, 0, 1023)
    PROVE  \A i \in Index : Unpack10(Pack10(t))[i] = t[i]
<1> SUFFICES ASSUME NEW i \in Index
             PROVE  Unpack10(Pack10(t))[i] = t[i]
  OBVIOUS
<1> DEFINE c == Pack10(t)
           g == i \div 4
<1>1. /\ i = 4 * g + (i % 4) /\ i % 4 \in {0, 1, 2, 3}
      /\ \A j \in {0, 1, 2, 3} : 4 * g + j \in Index
      /\ \A j \in 0..4 : 5 * g + j \in 0..((5 * N) \div 4) - 1
      /\ \A j \in 0..4 : TenByte(t, 5 * g + j) = TenByteIn(t, g, j)
  BY GroupsOfFour
<1> DEFINE t0 == t[4 * g + 0]
           t1 == t[4 * g + 1]
           t2 == t[4 * g + 2]
           t3 == t[4 * g + 3]
<1>2. /\ t0 \in Int /\ 0 <= t0 /\ t0 <= 1023 /\ t1 \in Int /\ 0 <= t1 /\ t1 <= 1023
      /\ t2 \in Int /\ 0 <= t2 /\ t2 <= 1023 /\ t3 \in Int /\ 0 <= t3 /\ t3 <= 1023
  <2>1. /\ 4 * g + 0 \in Index /\ 4 * g + 1 \in Index
        /\ 4 * g + 2 \in Index /\ 4 * g + 3 \in Index
    BY <1>1
  <2> QED
    BY <2>1 DEF Within
<1>3. \A k \in 0..((5 * N) \div 4) - 1 : c[k] = TenByte(t, k)
  BY DEF Pack10, TenByteOf, TenByte
<1>4. \A j \in 0..4 : TenByteIn(t, g, j) = TenByteOf(t0, t1, t2, t3, j)
  BY DEF TenByteIn
<1> HIDE DEF c
<1>5. Unpack10(c)[i] =
          IF i % 4 = 0 THEN (c[5 * g + 0] + c[5 * g + 1] * 256) % 1024
          ELSE IF i % 4 = 1 THEN (c[5 * g + 1] \div 4 + c[5 * g + 2] * 64) % 1024
          ELSE IF i % 4 = 2 THEN (c[5 * g + 2] \div 16 + c[5 * g + 3] * 16) % 1024
          ELSE (c[5 * g + 3] \div 64 + c[5 * g + 4] * 4) % 1024
  BY DEF Unpack10
<1> HIDE DEF g, t0, t1, t2, t3
<1>6. \A j \in 0..4 : c[5 * g + j] = TenByteOf(t0, t1, t2, t3, j)
  BY <1>1, <1>3, <1>4
<1> DEFINE b0 == c[5 * g + 0]
           b1 == c[5 * g + 1]
           b2 == c[5 * g + 2]
           b3 == c[5 * g + 3]
           b4 == c[5 * g + 4]
<1>7. /\ b0 = TenByteOf(t0, t1, t2, t3, 0) /\ b1 = TenByteOf(t0, t1, t2, t3, 1)
      /\ b2 = TenByteOf(t0, t1, t2, t3, 2) /\ b3 = TenByteOf(t0, t1, t2, t3, 3)
      /\ b4 = TenByteOf(t0, t1, t2, t3, 4)
  <2>1. 0 \in 0..4 /\ 1 \in 0..4 /\ 2 \in 0..4 /\ 3 \in 0..4 /\ 4 \in 0..4
    OBVIOUS
  <2> QED
    BY <1>6, <2>1
<1> HIDE DEF b0, b1, b2, b3, b4
<1>8. /\ Holds10(t0, t1, t2, t3, b0, b1, b2, b3, b4)
      /\ b0 \in Int /\ b1 \in Int /\ b2 \in Int /\ b3 \in Int /\ b4 \in Int
  BY <1>2, <1>7, HoldsTenByteOf, TenByteOfType
<1>9. /\ (b0 + b1 * 256) % 1024 = t0
      /\ (b1 \div 4 + b2 * 64) % 1024 = t1
      /\ (b2 \div 16 + b3 * 16) % 1024 = t2
      /\ (b3 \div 64 + b4 * 4) % 1024 = t3
  <2>1. t0 \in Int /\ t1 \in Int /\ t2 \in Int /\ t3 \in Int
    BY <1>2
  <2>2. Gives10(t0, t1, t2, t3, b0, b1, b2, b3, b4)
    BY Zenon, <1>8, <2>1, FourInFive
  <2> QED
    BY <2>2 DEF Gives10
<1>10. Unpack10(c)[i] = IF i % 4 = 0 THEN t0 ELSE IF i % 4 = 1 THEN t1
                        ELSE IF i % 4 = 2 THEN t2 ELSE t3
  BY <1>5, <1>9 DEF b0, b1, b2, b3, b4
<1>11. CASE i % 4 = 0
  <2>1. i = 4 * g + 0 /\ Unpack10(c)[i] = t0
    BY <1>1, <1>10, <1>11
  <2> QED
    BY <2>1 DEF c, t0
<1>12. CASE i % 4 = 1
  <2>1. i = 4 * g + 1 /\ Unpack10(c)[i] = t1
    BY <1>1, <1>10, <1>12
  <2> QED
    BY <2>1 DEF c, t1
<1>13. CASE i % 4 = 2
  <2>1. i = 4 * g + 2 /\ Unpack10(c)[i] = t2
    BY <1>1, <1>10, <1>13
  <2> QED
    BY <2>1 DEF c, t2
<1>14. CASE i % 4 = 3
  <2>1. i = 4 * g + 3 /\ Unpack10(c)[i] = t3
    BY <1>1, <1>10, <1>14
  <2> QED
    BY <2>1 DEF c, t3
<1> QED
  BY <1>1, <1>11, <1>12, <1>13, <1>14

------------------------------------------------------------------------------
(* What is written is bytes, and what is read from bytes fits *)

Bytes(c, n) == \A k \in 0..n - 1 : c[k] \in Int /\ 0 <= c[k] /\ c[k] <= 255

LEMMA RemaindersFit ==
    \A x \in Int : /\ x % 256 \in Int /\ 0 <= x % 256 /\ x % 256 <= 255
                   /\ x % 1024 \in Int /\ 0 <= x % 1024 /\ x % 1024 <= 1023
                   /\ x % 4096 \in Int /\ 0 <= x % 4096 /\ x % 4096 <= 4095
                   /\ x % 16 \in Int /\ 0 <= x % 16 /\ x % 16 <= 15
BY SMT

LEMMA PositiveType == \A u \in Int : Positive(u) \in Int
BY SMT DEF Positive, Q, R

\* The coefficients that byte k of a packing is made of.
LEMMA Sources ==
    /\ \A k \in 0..((3 * N) \div 2) - 1 :
           2 * (k \div 3) \in Index /\ 2 * (k \div 3) + 1 \in Index
    /\ \A k \in 0..N \div 2 - 1 : 2 * k \in Index /\ 2 * k + 1 \in Index
    /\ \A k \in 0..((5 * N) \div 4) - 1 :
           /\ 4 * (k \div 5) + 0 \in Index /\ 4 * (k \div 5) + 1 \in Index
           /\ 4 * (k \div 5) + 2 \in Index /\ 4 * (k \div 5) + 3 \in Index
<1>1. PICK n \in Int : 2 <= n /\ N = 4 * n
  BY Quarter
<1>2. (3 * N) \div 2 = 6 * n /\ N \div 2 = 2 * n /\ (5 * N) \div 4 = 5 * n
  BY SMT, <1>1
<1>3. \A k \in 0..6 * n - 1 : 2 * (k \div 3) \in Index /\ 2 * (k \div 3) + 1 \in Index
  BY SMT, <1>1 DEF Index
<1>4. \A k \in 0..2 * n - 1 : 2 * k \in Index /\ 2 * k + 1 \in Index
  BY SMT, <1>1 DEF Index
<1>5. \A k \in 0..5 * n - 1 :
          /\ 4 * (k \div 5) + 0 \in Index /\ 4 * (k \div 5) + 1 \in Index
          /\ 4 * (k \div 5) + 2 \in Index /\ 4 * (k \div 5) + 3 \in Index
  BY SMT, <1>1 DEF Index
<1> QED
  BY <1>2, <1>3, <1>4, <1>5

LEMMA ToBytesAreBytes ==
    ASSUME NEW a, \A i \in Index : a[i] \in Int
    PROVE  Bytes(ToBytes(a), (3 * N) \div 2)
<1>1. ASSUME NEW k \in 0..((3 * N) \div 2) - 1
      PROVE  ToBytes(a)[k] \in Int /\ 0 <= ToBytes(a)[k] /\ ToBytes(a)[k] <= 255
  <2>1. PICK t0 \in Int : t0 = Positive(a[2 * (k \div 3)])
    BY Sources, PositiveType
  <2>2. PICK t1 \in Int : t1 = Positive(a[2 * (k \div 3) + 1])
    BY Sources, PositiveType
  <2>3. ToBytes(a)[k] = IF k % 3 = 0 THEN t0 % 256
                        ELSE IF k % 3 = 1 THEN (t0 \div 256 + t1 * 16) % 256
                        ELSE (t1 \div 16) % 256
    BY <2>1, <2>2 DEF ToBytes
  <2>4. t0 \div 256 + t1 * 16 \in Int /\ t1 \div 16 \in Int
    BY SMT
  <2> QED
    BY <2>3, <2>4, RemaindersFit
<1> QED
  BY <1>1 DEF Bytes

LEMMA Pack4AreBytes ==
    ASSUME NEW t, \A i \in Index : t[i] \in Int
    PROVE  Bytes(Pack4(t), N \div 2)
<1>1. ASSUME NEW k \in 0..N \div 2 - 1
      PROVE  Pack4(t)[k] \in Int /\ 0 <= Pack4(t)[k] /\ Pack4(t)[k] <= 255
  <2>1. PICK t0 \in Int : t0 = t[2 * k]
    BY Sources
  <2>2. PICK t1 \in Int : t1 = t[2 * k + 1]
    BY Sources
  <2>3. Pack4(t)[k] = (t0 + t1 * 16) % 256 /\ t0 + t1 * 16 \in Int
    BY <2>1, <2>2 DEF Pack4
  <2> QED
    BY <2>3, RemaindersFit
<1> QED
  BY <1>1 DEF Bytes

LEMMA TenByteFits ==
    \A t0, t1, t2, t3 \in Int : \A m :
        /\ TenByteOf(t0, t1, t2, t3, m) \in Int
        /\ 0 <= TenByteOf(t0, t1, t2, t3, m) /\ TenByteOf(t0, t1, t2, t3, m) <= 255
BY SMT DEF TenByteOf

LEMMA Pack10AreBytes ==
    ASSUME NEW t, \A i \in Index : t[i] \in Int
    PROVE  Bytes(Pack10(t), (5 * N) \div 4)
<1>1. ASSUME NEW k \in 0..((5 * N) \div 4) - 1
      PROVE  Pack10(t)[k] \in Int /\ 0 <= Pack10(t)[k] /\ Pack10(t)[k] <= 255
  <2>1. Pack10(t)[k] = TenByte(t, k)
    BY DEF Pack10, TenByteOf, TenByte
  <2>2. /\ t[4 * (k \div 5) + 0] \in Int /\ t[4 * (k \div 5) + 1] \in Int
        /\ t[4 * (k \div 5) + 2] \in Int /\ t[4 * (k \div 5) + 3] \in Int
    BY Sources
  <2> QED
    BY <2>1, <2>2, TenByteFits DEF TenByte
<1> QED
  BY <1>1 DEF Bytes

LEMMA FromBytesFits ==
    ASSUME NEW c, Bytes(c, (3 * N) \div 2)
    PROVE  Within(FromBytes(c), 0, 4095)
<1>1. ASSUME NEW i \in Index
      PROVE  /\ FromBytes(c)[i] \in Int
             /\ 0 <= FromBytes(c)[i] /\ FromBytes(c)[i] <= 4095
  <2>1. PICK i0, i1, k0, k1, k2 \in Int :
            Pair(i, i0, i1, k0, k1, k2) /\ ThreeOf(k0, k1, k2)
    BY Pairs
  <2>2. c[k0] \in Int /\ c[k1] \in Int /\ c[k2] \in Int
    BY <2>1 DEF ThreeOf, Bytes
  <2>3. FromBytes(c)[i] = IF i % 2 = 0 THEN (c[k0] + c[k1] * 256) % 4096
                          ELSE (c[k1] \div 16 + c[k2] * 16) % 4096
    BY <2>1 DEF FromBytes, Pair
  <2>4. c[k0] + c[k1] * 256 \in Int /\ c[k1] \div 16 + c[k2] * 16 \in Int
    BY <2>2
  <2> QED
    BY <2>3, <2>4, RemaindersFit
<1>2. FromBytes(c) = [i \in Index |-> FromBytes(c)[i]]
  BY DEF FromBytes
<1> QED
  BY <1>1, <1>2 DEF Within

LEMMA Unpack4Fits ==
    ASSUME NEW c, Bytes(c, N \div 2)
    PROVE  Within(Unpack4(c), 0, 15)
<1>1. ASSUME NEW i \in Index
      PROVE  Unpack4(c)[i] \in Int /\ 0 <= Unpack4(c)[i] /\ Unpack4(c)[i] <= 15
  <2>1. i \div 2 \in 0..N \div 2 - 1
    BY Pairs
  <2>2. PICK b \in Int : b = c[i \div 2] /\ 0 <= b /\ b <= 255
    BY <2>1 DEF Bytes
  <2>3. Unpack4(c)[i] = IF i % 2 = 0 THEN b % 16 ELSE b \div 16
    BY <2>2 DEF Unpack4
  <2>4. b \div 16 \in Int /\ 0 <= b \div 16 /\ b \div 16 <= 15
    BY SMT, <2>2
  <2> QED
    BY <2>3, <2>4, RemaindersFit
<1>2. Unpack4(c) = [i \in Index |-> Unpack4(c)[i]]
  BY DEF Unpack4
<1> QED
  BY <1>1, <1>2 DEF Within

LEMMA Unpack10Fits ==
    ASSUME NEW c, Bytes(c, (5 * N) \div 4)
    PROVE  Within(Unpack10(c), 0, 1023)
<1>1. ASSUME NEW i \in Index
      PROVE  Unpack10(c)[i] \in Int /\ 0 <= Unpack10(c)[i] /\ Unpack10(c)[i] <= 1023
  <2> DEFINE g == i \div 4
  <2>1. \A j \in 0..4 : c[5 * g + j] \in Int
    BY GroupsOfFour DEF Bytes
  <2>2. PICK b0 \in Int : b0 = c[5 * g + 0]
    BY <2>1
  <2>3. PICK b1 \in Int : b1 = c[5 * g + 1]
    BY <2>1
  <2>4. PICK b2 \in Int : b2 = c[5 * g + 2]
    BY <2>1
  <2>5. PICK b3 \in Int : b3 = c[5 * g + 3]
    BY <2>1
  <2>6. PICK b4 \in Int : b4 = c[5 * g + 4]
    BY <2>1
  <2>7. Unpack10(c)[i] =
            IF i % 4 = 0 THEN (b0 + b1 * 256) % 1024
            ELSE IF i % 4 = 1 THEN (b1 \div 4 + b2 * 64) % 1024
            ELSE IF i % 4 = 2 THEN (b2 \div 16 + b3 * 16) % 1024
            ELSE (b3 \div 64 + b4 * 4) % 1024
    BY <2>2, <2>3, <2>4, <2>5, <2>6 DEF Unpack10
  <2>8. /\ b0 + b1 * 256 \in Int /\ b1 \div 4 + b2 * 64 \in Int
        /\ b2 \div 16 + b3 * 16 \in Int /\ b3 \div 64 + b4 * 4 \in Int
    OBVIOUS
  <2> QED
    BY <2>7, <2>8, RemaindersFit
<1>2. Unpack10(c) = [i \in Index |-> Unpack10(c)[i]]
  BY DEF Unpack10
<1> QED
  BY <1>1, <1>2 DEF Within

------------------------------------------------------------------------------
(* A message with noise *)

\* What poly_tomsg divides, and the bit of the quotient.
QuotientOfBit(a, k) ==
    /\ 268435456 * k <= (2 * a + 1665) * 80635
    /\ (2 * a + 1665) * 80635 <= 268435456 * k + 268435455

LEMMA BitOf ==
    ASSUME NEW a \in Int, NEW k \in Int, QuotientOfBit(a, k)
    PROVE  ToMsgBit(a) = k % 2
<1>1. PICK v \in Int : v = 2 * a + 1665
  BY SMT
<1>2. PICK w \in Int : w = v * 80635
  BY SMT
<1>3. MulShift24(v, 80635) = w \div 16777216
  BY SMT, <1>2, MulShift24Is
<1>4. PICK q \in Int : q = w \div 16777216 /\ 16777216 * q <= w
                       /\ w <= 16777216 * q + 16777215
  BY SMT, <1>2
<1>5. q \div 16 = k
  <2>1. 268435456 * k <= w /\ w <= 268435456 * k + 268435455
    BY SMT, <1>1, <1>2 DEF QuotientOfBit
  <2>2. 16 * k <= q /\ q <= 16 * k + 15
    BY SMT, <1>4, <2>1
  <2> QED
    BY SMT, <2>2
<1>6. ToMsgBit(a) = (MulShift24(v, 80635) \div 16) % 2
  BY SMT, <1>1 DEF ToMsgBit
<1> QED
  BY SMT, <1>3, <1>4, <1>5, <1>6

\* The centred representative of a noisy bit decides it.
NoisyOf(m, e, x, b) ==
    /\ -831 <= e /\ e <= 831 /\ x = 1665 * m + e
    /\ -1664 <= b /\ b <= 1664 /\ \E k \in Int : x = b + k * 3329

LEMMA NoisyBit ==
    ASSUME NEW m \in {0, 1}, NEW e \in Int, NEW x \in Int, NEW b \in Int,
           NoisyOf(m, e, x, b)
    PROVE  ToMsgBit(b) = m
<1>1. CASE m = 0
  <2>1. b = e /\ -831 <= e /\ e <= 831
    BY SMT, <1>1 DEF NoisyOf
  <2>2. QuotientOfBit(b, 0)
    BY SMT, <2>1 DEF QuotientOfBit
  <2>3. ToMsgBit(b) = 0 % 2
    BY <2>2, BitOf
  <2> QED
    BY SMT, <1>1, <2>3
<1>2. CASE m = 1
  <2>1. (b = x \/ b = x - 3329) /\ 834 <= x /\ x <= 2496 /\ b <= 1664
    BY SMT, <1>2 DEF NoisyOf
  <2>2. CASE b = x
    <3>1. QuotientOfBit(b, 1)
      BY SMT, <2>1, <2>2 DEF QuotientOfBit
    <3>2. ToMsgBit(b) = 1 % 2
      BY <3>1, BitOf
    <3> QED
      BY SMT, <1>2, <3>2
  <2>3. CASE b = x - 3329
    <3>1. PICK k \in Int : k + 1 = 0 /\ k % 2 = 1
      <4>1. \A k \in Int : k + 1 = 0 => k % 2 = 1
        BY SMT
      <4>2. -1 \in Int /\ -1 + 1 = 0
        BY SMT
      <4> QED
        BY <4>1, <4>2
    <3>2. -1664 <= b /\ b <= -833
      BY SMT, <2>1, <2>3 DEF NoisyOf
    <3>3. QuotientOfBit(b, k)
      BY SMT, <3>1, <3>2 DEF QuotientOfBit
    <3>4. ToMsgBit(b) = k % 2
      BY <3>3, BitOf
    <3> QED
      BY SMT, <1>2, <3>1, <3>4
  <2> QED
    BY <2>1, <2>2, <2>3
<1> QED
  BY <1>1, <1>2

\* A message with its errors, as decryption reduces it.
Noisy(m, e) == PolyReduce(PolyAdd(FromMsg(m), e))

LEMMA NoisyCoefficient ==
    ASSUME NEW m \in [Index -> {0, 1}], NEW e, Within(e, -831, 831), NEW i \in Index
    PROVE  /\ Noisy(m, e)[i] \in Int
           /\ -1664 <= Noisy(m, e)[i] /\ Noisy(m, e)[i] <= 1664
           /\ ToMsgBit(Noisy(m, e)[i]) = m[i]
<1> DEFINE d == m[i]
           f == e[i]
<1>1. d \in {0, 1} /\ f \in Int /\ -831 <= f /\ f <= 831
  BY DEF Within
<1>2. FromMsg(m)[i] = IF d = 1 THEN (Q + 1) \div 2 ELSE 0
  BY DEF FromMsg
<1>3. Noisy(m, e)[i] = BarrettReduce(Int16(FromMsg(m)[i] + f))
  BY DEF Noisy, PolyReduce, PolyAdd
<1> HIDE DEF d, f
<1>4. PICK x \in Int : x = 1665 * d + f /\ x = FromMsg(m)[i] + f
                       /\ -831 <= x /\ x <= 2496
  BY SMT, <1>1, <1>2 DEF Q
<1>5. Int16(x) = x
  BY SMT, <1>4, Int16Keeps
<1>6. Noisy(m, e)[i] = BarrettReduce(x)
  BY <1>3, <1>4, <1>5
<1>7. PICK b \in Int : b = BarrettReduce(x) /\ -1664 <= b /\ b <= 1664
                       /\ \E k \in Int : x = b + k * 3329
  BY SMT, <1>4, BarrettIsCentred DEF Q
<1>8. ToMsgBit(b) = d
  <2>1. NoisyOf(d, f, x, b)
    BY <1>1, <1>4, <1>7 DEF NoisyOf
  <2> QED
    BY <1>1, <2>1, NoisyBit
<1> QED
  BY <1>6, <1>7, <1>8 DEF d

(***************************************************************************)
(* poly_tomsg reads the message that was encoded, for every message and    *)
(* every error of at most 831 in each coefficient.                         *)
(***************************************************************************)
LEMMA MessageReadBack ==
    ASSUME NEW m \in [Index -> {0, 1}], NEW e, Within(e, -831, 831)
    PROVE  ToMsg(Noisy(m, e)) = m /\ Within(Noisy(m, e), -1664, 1664)
<1>1. ToMsg(Noisy(m, e)) = [i \in Index |-> m[i]]
  BY NoisyCoefficient DEF ToMsg
<1>2. Noisy(m, e) = [i \in Index |-> Noisy(m, e)[i]]
  BY DEF Noisy, PolyReduce
<1>3. Within(Noisy(m, e), -1664, 1664)
  <2>1. \A i \in Index : /\ Noisy(m, e)[i] \in Int
                         /\ -1664 <= Noisy(m, e)[i] /\ Noisy(m, e)[i] <= 1664
    BY NoisyCoefficient
  <2> QED
    BY <1>2, <2>1 DEF Within
<1> QED
  BY <1>1, <1>3

\* What is written, compressed.
Four(a) == [i \in Index |-> Compress4(a[i])]

Ten(a) == [i \in Index |-> Compress10(a[i])]

LEMMA CompressedBounds ==
    ASSUME NEW a, Within(a, -1664, 1664)
    PROVE  Within(Four(a), 0, 15) /\ Within(Ten(a), 0, 1023)
<1>1. \A x \in Int : /\ x % 16 \in Int /\ 0 <= x % 16 /\ x % 16 <= 15
                     /\ x % 1024 \in Int /\ 0 <= x % 1024 /\ x % 1024 <= 1023
  BY SMT
<1>2. \A i \in Index : \E k \in Int : Compress4(a[i]) = k % 16
  <2> SUFFICES ASSUME NEW i \in Index PROVE \E k \in Int : Compress4(a[i]) = k % 16
    OBVIOUS
  <2>1. PICK u \in Int : u = a[i] /\ -1664 <= u /\ u <= 1664
    BY DEF Within
  <2> QED
    BY <2>1, Compress4Facts
<1>3. \A i \in Index : \E k \in Int : Compress10(a[i]) = k % 1024
  <2> SUFFICES ASSUME NEW i \in Index PROVE \E k \in Int : Compress10(a[i]) = k % 1024
    OBVIOUS
  <2>1. PICK u \in Int : u = a[i] /\ -1664 <= u /\ u <= 1664
    BY DEF Within
  <2>2. PICK k \in Int : QuotientOf10(k, u)
    BY <2>1, Compress10Facts
  <2> QED
    BY <2>1, <2>2 DEF QuotientOf10
<1>4. \A i \in Index : /\ Compress4(a[i]) \in Int
                       /\ 0 <= Compress4(a[i]) /\ Compress4(a[i]) <= 15
  BY <1>1, <1>2
<1>5. \A i \in Index : /\ Compress10(a[i]) \in Int
                       /\ 0 <= Compress10(a[i]) /\ Compress10(a[i]) <= 1023
  BY <1>1, <1>3
<1>6. Within(Four(a), 0, 15)
  BY <1>4 DEF Within, Four
<1>7. Within(Ten(a), 0, 1023)
  BY <1>5 DEF Within, Ten
<1> QED
  BY <1>6, <1>7

\* What is read of the compressed bytes.
Read4(c) == [i \in Index |-> Decompress4(Unpack4(c)[i])]

Read10(c) == [i \in Index |-> Decompress10(Unpack10(c)[i])]

LEMMA CompressedReadBack ==
    ASSUME NEW a, Within(a, -1664, 1664), NEW i \in Index
    PROVE  /\ Distance(Read4(Pack4(Four(a)))[i], a[i]) <= 104
           /\ Distance(Read10(Pack10(Ten(a)))[i], a[i]) <= 2
<1>1. PICK u \in Int : u = a[i] /\ -1664 <= u /\ u <= 1664
  BY DEF Within
<1>2. /\ Distance(Decompress4(Compress4(u)), u) <= 104
      /\ Distance(Decompress10(Compress10(u)), u) <= 2
  BY <1>1, FourBits, TenBits
<1>3. Read4(Pack4(Four(a)))[i] = Decompress4(Compress4(u))
  <2>1. Unpack4(Pack4(Four(a)))[i] = Four(a)[i]
    BY CompressedBounds, FourReadBack
  <2>2. Four(a)[i] = Compress4(a[i])
    BY DEF Four
  <2>3. Read4(Pack4(Four(a)))[i] = Decompress4(Unpack4(Pack4(Four(a)))[i])
    BY DEF Read4
  <2> QED
    BY <1>1, <2>1, <2>2, <2>3
<1>4. Read10(Pack10(Ten(a)))[i] = Decompress10(Compress10(u))
  <2>1. Unpack10(Pack10(Ten(a)))[i] = Ten(a)[i]
    BY CompressedBounds, TenReadBack
  <2>2. Ten(a)[i] = Compress10(a[i])
    BY DEF Ten
  <2>3. Read10(Pack10(Ten(a)))[i] = Decompress10(Unpack10(Pack10(Ten(a)))[i])
    BY DEF Read10
  <2> QED
    BY <1>1, <2>1, <2>2, <2>3
<1> QED
  BY <1>1, <1>2, <1>3, <1>4

------------------------------------------------------------------------------
(* Residues modulo q *)

Cong(x, y) == x \in Int /\ y \in Int /\ \E k \in Int : x = y + k * Q

LEMMA CongRefl == \A x \in Int : Cong(x, x)
<1> TAKE x \in Int
<1>1. 0 \in Int /\ x = x + 0 * Q
  BY SMT DEF Q
<1> QED
  BY Zenon, <1>1 DEF Cong

LEMMA CongIntro ==
    ASSUME NEW x \in Int, NEW y \in Int, NEW k \in Int, x = y + k * Q
    PROVE  Cong(x, y)
BY Zenon DEF Cong

LEMMA CongSym ==
    ASSUME NEW x, NEW y, Cong(x, y)
    PROVE  Cong(y, x)
<1>1. PICK k \in Int : x = y + k * Q
  BY Zenon DEF Cong
<1>2. x \in Int /\ y \in Int
  BY Zenon DEF Cong
<1>3. - k \in Int /\ y = x + (- k) * Q
  BY SMT, <1>1, <1>2 DEF Q
<1> QED
  BY Zenon, <1>2, <1>3 DEF Cong

LEMMA CongTrans ==
    ASSUME NEW x, NEW y, NEW z, Cong(x, y), Cong(y, z)
    PROVE  Cong(x, z)
<1>1. x \in Int /\ y \in Int /\ z \in Int
  BY Zenon DEF Cong
<1>2. PICK k \in Int : x = y + k * Q
  BY Zenon DEF Cong
<1>3. PICK l \in Int : y = z + l * Q
  BY Zenon DEF Cong
<1>4. k + l \in Int /\ x = z + (k + l) * Q
  BY SMT, <1>1, <1>2, <1>3 DEF Q
<1> QED
  BY Zenon, <1>1, <1>4 DEF Cong

\* Sums, differences and products of congruent numbers.
LEMMA CongOps ==
    ASSUME NEW x, NEW y, NEW u, NEW v, Cong(x, y), Cong(u, v)
    PROVE  Cong(x + u, y + v) /\ Cong(x - u, y - v) /\ Cong(x * u, y * v)
<1>1. x \in Int /\ y \in Int /\ u \in Int /\ v \in Int
  BY Zenon DEF Cong
<1>2. PICK k \in Int : x = y + k * Q
  BY Zenon DEF Cong
<1>3. PICK l \in Int : u = v + l * Q
  BY Zenon DEF Cong
<1>4. /\ x + u \in Int /\ y + v \in Int
      /\ k + l \in Int /\ x + u = (y + v) + (k + l) * Q
  BY SMT, <1>1, <1>2, <1>3 DEF Q
<1>5. /\ x - u \in Int /\ y - v \in Int
      /\ k - l \in Int /\ x - u = (y - v) + (k - l) * Q
  BY SMT, <1>1, <1>2, <1>3 DEF Q
<1>6. /\ x * u \in Int /\ y * v \in Int
      /\ k * v + l * y + k * l * Q \in Int
      /\ x * u = y * v + (k * v + l * y + k * l * Q) * Q
  BY SMT, <1>1, <1>2, <1>3 DEF Q
<1> QED
  BY Zenon, <1>4, <1>5, <1>6 DEF Cong

LEMMA CongMod ==
    ASSUME NEW x \in Int, NEW y \in Int
    PROVE  Cong(x, y) <=> x % Q = y % Q
<1>1. PICK k, m \in Int : x = Q * k + m /\ 0 <= m /\ m < Q /\ m = x % Q
  BY SMT, DivFacts DEF Q
<1>2. PICK l, n \in Int : y = Q * l + n /\ 0 <= n /\ n < Q /\ n = y % Q
  BY SMT, DivFacts DEF Q
<1>3. ASSUME Cong(x, y) PROVE m = n
  <2>1. PICK j \in Int : x = y + j * Q
    BY Zenon, <1>3 DEF Cong
  <2> QED
    BY SMT, <1>1, <1>2, <2>1 DEF Q
<1>4. ASSUME m = n PROVE Cong(x, y)
  <2>1. k - l \in Int /\ x = y + (k - l) * Q
    BY SMT, <1>1, <1>2, <1>4 DEF Q
  <2> QED
    BY Zenon, <2>1 DEF Cong
<1> QED
  BY <1>1, <1>2, <1>3, <1>4

LEMMA CongDiff ==
    ASSUME NEW x \in Int, NEW y \in Int, (x - y) % 3329 = 0
    PROVE  Cong(x, y)
<1>1. PICK k \in Int : x - y = 3329 * k
  BY SMT, DivFacts
<1>2. x = y + k * Q
  BY SMT, <1>1 DEF Q
<1> QED
  BY <1>2, CongIntro

\* A multiple of q is congruent to zero.
LEMMA CongZero ==
    ASSUME NEW x \in Int, x % Q = 0
    PROVE  Cong(x, 0)
BY SMT, CongMod DEF Q

\* Half of something is unique: 2 * 1665 = 1 modulo q.
LEMMA CongHalf ==
    ASSUME NEW x \in Int, NEW y \in Int, Cong(2 * x, 2 * y)
    PROVE  Cong(x, y)
<1>1. PICK k \in Int : 2 * x = 2 * y + k * Q
  BY Zenon DEF Cong
<1>2. 1665 * k - (x - y) \in Int /\ x = y + (1665 * k - (x - y)) * Q
  BY SMT, <1>1 DEF Q
<1> QED
  BY SMT, <1>2, CongIntro

(***************************************************************************)
(* What the arithmetic of reduce_ref.c and ntt_ref.c does to residues.     *)
(***************************************************************************)
LEMMA BarrettCong ==
    ASSUME NEW x, Short(x)
    PROVE  Cong(BarrettReduce(x), x)
<1>1. PICK k \in Int : x = BarrettReduce(x) + k * Q
  BY SMT, BarrettIsCentred DEF Short
<1>2. BarrettReduce(x) \in Int /\ x \in Int
  BY SMT, BarrettBound DEF Short
<1> QED
  BY <1>1, <1>2, CongIntro, CongSym

\* 169 is 1 / R.
LEMMA MontgomeryCong ==
    ASSUME NEW a \in Int, -109084672 <= a, a <= 109084671
    PROVE  Cong(MontgomeryReduce(a), 169 * a)
<1>1. MontgomeryReduce(a) \in Int
  BY SMT, MontgomeryIsReduced
<1>2. PICK k \in Int : a = MontgomeryReduce(a) * 65536 + k * Q
  BY SMT, MontgomeryIsReduced DEF R
<1>3. /\ 169 * a \in Int
      /\ - 3327 * MontgomeryReduce(a) - 169 * k \in Int
      /\ MontgomeryReduce(a) = 169 * a + (- 3327 * MontgomeryReduce(a) - 169 * k) * Q
  BY SMT, <1>1, <1>2 DEF Q
<1> QED
  BY SMT, <1>1, <1>3, CongIntro

LEMMA FqMulCong ==
    ASSUME NEW x, NEW y, Short(x), Small(y)
    PROVE  Cong(FqMul(x, y), 169 * (x * y)) /\ Cong(FqMul(y, x), 169 * (x * y))
<1>1. /\ x * y \in Int /\ y * x = x * y
      /\ -109084672 <= x * y /\ x * y <= 109084671
  BY SMT DEF Short, Small
<1>2. PICK z \in Int : z = x * y
  BY <1>1
<1>3. FqMul(x, y) = MontgomeryReduce(z) /\ FqMul(y, x) = MontgomeryReduce(z)
  BY <1>1, <1>2 DEF FqMul
<1>4. Cong(MontgomeryReduce(z), 169 * z)
  BY SMT, <1>1, <1>2, MontgomeryCong
<1> QED
  BY <1>2, <1>3, <1>4

------------------------------------------------------------------------------
(* Roots: the array is remainders modulo X^l - Root, block by block *)

Plain(k) == 169 * Zeta(k)

Root(i, l) ==
    IF l = N THEN -1
    ELSE IF LowHalf(i, l) THEN Plain(N \div (2 * l) + BlockOf(i, l))
    ELSE - Plain(N \div (2 * l) + BlockOf(i, l))

\* Squares of roots are the roots above them, and ntt's zetas and invntt's
\* cancel.
LEMMA ZetasSquare ==
    /\ (Plain(1) * Plain(1) + 1) % 3329 = 0
    /\ \A k \in 1..63 :
           /\ (Plain(2 * k) * Plain(2 * k) - Plain(k)) % 3329 = 0
           /\ (Plain(2 * k + 1) * Plain(2 * k + 1) + Plain(k)) % 3329 = 0
BY SMTT(60) DEF Plain, Zeta, zetas

LEMMA ZetasCancel ==
    \A h \in {1, 2, 4, 8, 16, 32, 64} : \A b \in 0..h - 1 :
        (Plain(h + b) * Plain(2 * h - 1 - b) + 1) % 3329 = 0
BY SMTT(60) DEF Plain, Zeta, zetas

LEMMA PlainType == \A k \in 0..127 : Plain(k) \in Int
<1> TAKE k \in 0..127
<1>1. k + 1 \in 1..128
  BY SMT
<1> QED
  BY SMT, <1>1, ZetaFacts DEF Plain, Zeta

\* Where a zeta of a layer is in the table.
LEMMA ZetaPlaces ==
    ASSUME NEW l \in Lens, l < N, NEW i \in Index
    PROVE  /\ N \div (2 * l) + BlockOf(i, l) \in 1..127
           /\ 2 * l = N => N \div (2 * l) + BlockOf(i, l) = 1
           /\ 2 * l # N =>
                  /\ N \div (4 * l) + BlockOf(i, 2 * l) \in 1..63
                  /\ N \div (2 * l) + BlockOf(i, l) =
                         2 * (N \div (4 * l) + BlockOf(i, 2 * l))
                             + (IF LowHalf(i, 2 * l) THEN 0 ELSE 1)
<1>1. N \in {8, 16, 32, 64, 128, 256}
  BY SizeAssumption
<1> QED
  BY SMTT(60), <1>1 DEF Lens, Index, BlockOf, LowHalf

\* The place of a coefficient in its block, and the blocks around it.
LEMMA BlockPlaces ==
    ASSUME NEW l \in Lens, l < N, NEW i \in Index
    PROVE  /\ i \in Int /\ l \in Int /\ 2 * l \in Lens /\ 2 * l <= N
           /\ LowHalf(i, l) =>
                  /\ i + l \in Index /\ ~ LowHalf(i + l, l)
                  /\ BlockOf(i + l, l) = BlockOf(i, l)
                  /\ (i + l) % (2 * l) # 0 /\ i % (2 * l) = i % l
                  /\ (i + l) % l = i % l
           /\ ~ LowHalf(i, l) =>
                  /\ i - l \in Index /\ LowHalf(i - l, l)
                  /\ BlockOf(i - l, l) = BlockOf(i, l)
                  /\ i % (2 * l) # 0 /\ (i - l) % (2 * l) = i % l
                  /\ (i - l) % l = i % l
<1>1. N \in {8, 16, 32, 64, 128, 256}
  BY SizeAssumption
<1> QED
  BY SMTT(60), <1>1 DEF Lens, Index, BlockOf, LowHalf

LEMMA NeighbourPlaces ==
    ASSUME NEW l \in Lens, l < N, NEW i \in Index
    PROVE  /\ i % l # 0 => /\ i - 1 \in Index
                           /\ (LowHalf(i - 1, l) <=> LowHalf(i, l))
                           /\ BlockOf(i - 1, l) = BlockOf(i, l)
           /\ i % l = 0 => /\ i + l - 1 \in Index
                           /\ (LowHalf(i + l - 1, l) <=> LowHalf(i, l))
                           /\ BlockOf(i + l - 1, l) = BlockOf(i, l)
           /\ i % (2 * l) # 0 => i - 1 \in Index
           /\ i % (2 * l) = 0 => i + 2 * l - 1 \in Index
<1>1. N \in {8, 16, 32, 64, 128, 256}
  BY SizeAssumption
<1> QED
  BY SMTT(60), <1>1 DEF Lens, Index, BlockOf, LowHalf

LEMMA RootType ==
    ASSUME NEW l \in Lens, l <= N, NEW i \in Index
    PROVE  Root(i, l) \in Int
<1>1. CASE l = N
  BY <1>1 DEF Root
<1>2. CASE l # N
  <2>1. l < N
    BY SMT, <1>2, SizeFacts DEF Lens
  <2>2. N \div (2 * l) + BlockOf(i, l) \in 1..127
    BY <2>1, ZetaPlaces
  <2>3. PICK k \in 0..127 : k = N \div (2 * l) + BlockOf(i, l)
    BY SMT, <2>2
  <2>4. Plain(k) \in Int /\ - Plain(k) \in Int
    BY SMT, PlainType
  <2> QED
    BY <1>2, <2>3, <2>4 DEF Root
<1> QED
  BY <1>1, <1>2

\* The two halves of a block have opposite roots of its own root.
LEMMA RootSquare ==
    ASSUME NEW l \in Lens, l < N, NEW i \in Index
    PROVE  Cong(Root(i, l) * Root(i, l), Root(i, 2 * l))
<1>1. PICK k \in 0..127 : k = N \div (2 * l) + BlockOf(i, l)
  BY SMT, ZetaPlaces
<1>2. PICK p \in Int : p = Plain(k)
  BY PlainType
<1>3. Root(i, l) = p \/ Root(i, l) = - p
  <2>1. l # N
    BY SMT, SizeFacts DEF Lens
  <2> QED
    BY <1>1, <1>2, <2>1 DEF Root
<1>4. Root(i, l) * Root(i, l) = p * p /\ p * p \in Int
  BY SMT, <1>3
<1>5. PICK r : r = Root(i, 2 * l)
  OBVIOUS
<1>6. r \in Int /\ (p * p - r) % 3329 = 0
  <2>1. CASE 2 * l = N
    <3>1. k = 1 /\ r = -1
      BY <1>1, <1>5, <2>1, ZetaPlaces DEF Root
    <3> QED
      BY SMT, <1>2, <3>1, ZetasSquare
  <2>2. CASE 2 * l # N
    <3>1. PICK h \in 1..63 : /\ h = N \div (4 * l) + BlockOf(i, 2 * l)
                             /\ k = 2 * h + (IF LowHalf(i, 2 * l) THEN 0 ELSE 1)
      BY <1>1, <2>2, ZetaPlaces
    <3>2. PICK z \in Int : z = Plain(h)
      BY SMT, PlainType
    <3>3. 2 * (2 * l) = 4 * l
      BY SMT DEF Lens
    <3>4. r = IF LowHalf(i, 2 * l) THEN z ELSE - z
      BY <1>5, <2>2, <3>1, <3>2, <3>3 DEF Root
    <3>5. CASE LowHalf(i, 2 * l)
      <4>1. k = 2 * h /\ r = z
        BY SMT, <3>1, <3>4, <3>5
      <4> QED
        BY SMT, <1>2, <3>2, <4>1, ZetasSquare
    <3>6. CASE ~ LowHalf(i, 2 * l)
      <4>1. k = 2 * h + 1 /\ r = - z
        BY SMT, <3>1, <3>4, <3>6
      <4>2. p * p - r = p * p + z
        BY SMT, <4>1
      <4> QED
        BY SMT, <1>2, <3>2, <4>1, <4>2, ZetasSquare
    <3> QED
      BY <3>5, <3>6
  <2> QED
    BY <2>1, <2>2
<1> QED
  BY SMT, <1>4, <1>5, <1>6, CongDiff

\* The halves of a block are in the same block above.
LEMMA SameParent ==
    ASSUME NEW l \in Lens, l < N, NEW i \in Index, ~ LowHalf(i, l)
    PROVE  Root(i - l, 2 * l) = Root(i, 2 * l)
<1>1. N \in {8, 16, 32, 64, 128, 256}
  BY SizeAssumption
<1>2. 2 * l # N => /\ BlockOf(i - l, 2 * l) = BlockOf(i, 2 * l)
                   /\ (LowHalf(i - l, 2 * l) <=> LowHalf(i, 2 * l))
  BY SMTT(60), <1>1 DEF Lens, Index, BlockOf, LowHalf
<1> QED
  BY <1>2 DEF Root

\* Within a block all have the same root; the halves' are opposite.
LEMMA RootPlaces ==
    ASSUME NEW l \in Lens, l < N, NEW i \in Index
    PROVE  /\ i % l # 0 => Root(i - 1, l) = Root(i, l)
           /\ i % l = 0 => Root(i + l - 1, l) = Root(i, l)
           /\ LowHalf(i, l) => Root(i + l, l) = - Root(i, l)
           /\ ~ LowHalf(i, l) => Root(i, l) = - Root(i - l, l)
<1>1. l # N
  BY SMT, SizeFacts DEF Lens
<1>2. /\ i % l # 0 => Root(i - 1, l) = Root(i, l)
      /\ i % l = 0 => Root(i + l - 1, l) = Root(i, l)
  BY NeighbourPlaces DEF Root
<1>3. /\ LowHalf(i, l) => Root(i + l, l) = - Root(i, l)
      /\ ~ LowHalf(i, l) => Root(i, l) = - Root(i - l, l)
  BY <1>1, BlockPlaces DEF Root
<1> QED
  BY <1>2, <1>3

\* The roots of the pairs are the zetas of basemul.
LEMMA PairRoot ==
    ASSUME NEW i \in Index
    PROVE  Root(i, 2) = 169 * PairZeta(i)
<1>1. N \in {8, 16, 32, 64, 128, 256}
  BY SizeAssumption
<1>2. /\ N # 2 /\ N \div (2 * 2) + BlockOf(i, 2) = N \div 4 + i \div 4
      /\ (LowHalf(i, 2) <=> i % 4 < 2) /\ N \div 4 + i \div 4 \in 0..127
  BY SMT, <1>1 DEF Index, BlockOf, LowHalf
<1>3. PICK k \in 0..127 : k = N \div 4 + i \div 4
  BY <1>2
<1>4. Plain(k) = 169 * Zeta(k) /\ - (169 * Zeta(k)) = 169 * (- Zeta(k))
  <2>1. k + 1 \in 1..128
    BY SMT
  <2>2. PICK z \in Int : z = Zeta(k)
    BY SMT, <2>1, ZetaFacts DEF Zeta
  <2>3. - (169 * z) = 169 * (- z)
    BY SMT
  <2> QED
    BY <2>2, <2>3 DEF Plain
<1> QED
  BY <1>2, <1>3, <1>4 DEF Root, PairZeta

------------------------------------------------------------------------------
(* Polynomials, and a layer of the transform *)

Polynomials == [Index -> Int]

Same(x, y) ==
    /\ x \in Polynomials /\ y \in Polynomials
    /\ \A i \in Index : Cong(x[i], y[i])

\* A layer of ntt without its reductions.
Layer(x, l) ==
    [i \in Index |-> IF LowHalf(i, l) THEN x[i] + Root(i, l) * x[i + l]
                     ELSE x[i - l] + Root(i, l) * x[i]]

LEMMA LayerType ==
    ASSUME NEW l \in Lens, l < N, NEW x \in Polynomials
    PROVE  Layer(x, l) \in Polynomials
<1>1. ASSUME NEW i \in Index
      PROVE  (IF LowHalf(i, l) THEN x[i] + Root(i, l) * x[i + l]
                     ELSE x[i - l] + Root(i, l) * x[i]) \in Int
  <2>1. PICK p \in Int : p = Root(i, l)
    BY SMT, RootType, SizeFacts DEF Lens
  <2>2. IF LowHalf(i, l) THEN i + l \in Index ELSE i - l \in Index
    BY BlockPlaces
  <2> QED
    BY SMT, <2>1, <2>2 DEF Polynomials
<1> QED
  BY <1>1 DEF Layer, Polynomials

\* What fqmul makes of a coefficient and the zeta of its block.
LEMMA ForwardCong ==
    ASSUME NEW l \in Lens, l < N, NEW i \in Index, NEW x, Short(x)
    PROVE  /\ Small(FqMul(ForwardZeta(i, l), x))
           /\ LowHalf(i, l) => Cong(FqMul(ForwardZeta(i, l), x), Root(i, l) * x)
           /\ ~ LowHalf(i, l) => Cong(- FqMul(ForwardZeta(i, l), x), Root(i, l) * x)
<1>1. PICK z : z = ForwardZeta(i, l) /\ Small(z) /\ z \in Int
  BY SMT, ButterflyFacts DEF Small
<1>2. Small(FqMul(z, x)) /\ Cong(FqMul(z, x), 169 * (x * z))
  BY <1>1, FqMulBound, FqMulCong
<1>3. l # N
  BY SMT, SizeFacts DEF Lens
<1>4. Root(i, l) = IF LowHalf(i, l) THEN 169 * z ELSE - (169 * z)
  BY <1>1, <1>3 DEF Root, Plain, ForwardZeta
<1>5. PICK y \in Int : y = x
  BY DEF Short
<1>6. (169 * z) * y = 169 * (y * z) /\ (- (169 * z)) * y = 0 - 169 * (y * z)
  BY SMT, <1>1
<1>7. PICK f \in Int : f = FqMul(z, x)
  BY <1>2 DEF Small
<1>8. Cong(0 - f, 0 - 169 * (y * z))
  BY <1>2, <1>5, <1>7, CongRefl, CongOps
<1>9. - f = 0 - f
  BY SMT
<1> QED
  BY <1>1, <1>2, <1>4, <1>5, <1>6, <1>7, <1>8, <1>9

LEMMA NttLayerSame ==
    ASSUME NEW l \in Lens, l < N, NEW r, Within(r, -29440, 29439)
    PROVE  Same(NttLayer(r, l), Layer(r, l))
<1>1. r \in Polynomials /\ \A j \in Index : Short(r[j])
  BY SMT DEF Within, Short, Polynomials
<1>2. ASSUME NEW i \in Index
      PROVE  Cong(NttLayer(r, l)[i], Layer(r, l)[i])
  <2>1. CASE LowHalf(i, l)
    <3>1. i + l \in Index
      BY <2>1, BlockPlaces
    <3>2. PICK f : /\ f = FqMul(ForwardZeta(i, l), r[i + l]) /\ Small(f)
                   /\ Cong(f, Root(i, l) * r[i + l])
      BY <1>1, <2>1, <3>1, ForwardCong
    <3>3. NttLayer(r, l)[i] = Int16(r[i] + f)
      BY <2>1, <3>2 DEF NttLayer
    <3>4. Int16(r[i] + f) = r[i] + f
      <4>1. r[i] + f \in Int /\ -32768 <= r[i] + f /\ r[i] + f <= 32767
        BY SMT, <3>2 DEF Within, Small
      <4> QED
        BY SMT, <4>1, Int16Keeps
    <3>5. Cong(r[i] + f, r[i] + Root(i, l) * r[i + l])
      BY <1>1, <3>2, CongRefl, CongOps DEF Polynomials
    <3>6. Layer(r, l)[i] = r[i] + Root(i, l) * r[i + l]
      BY <2>1 DEF Layer
    <3> QED
      BY <3>3, <3>4, <3>5, <3>6
  <2>2. CASE ~ LowHalf(i, l)
    <3>1. i - l \in Index
      BY <2>2, BlockPlaces
    <3>2. PICK f : /\ f = FqMul(ForwardZeta(i, l), r[i]) /\ Small(f)
                   /\ Cong(- f, Root(i, l) * r[i])
      BY <1>1, <2>2, ForwardCong
    <3>3. NttLayer(r, l)[i] = Int16(r[i - l] - f)
      BY <2>2, <3>2 DEF NttLayer
    <3>4. Int16(r[i - l] - f) = r[i - l] - f /\ r[i - l] - f = r[i - l] + (- f)
      <4>1. /\ r[i - l] - f \in Int /\ -32768 <= r[i - l] - f /\ r[i - l] - f <= 32767
            /\ r[i - l] - f = r[i - l] + (- f)
        BY SMT, <3>1, <3>2 DEF Within, Small
      <4> QED
        BY SMT, <4>1, Int16Keeps
    <3>5. Cong(r[i - l] + (- f), r[i - l] + Root(i, l) * r[i])
      BY <1>1, <3>1, <3>2, CongRefl, CongOps DEF Polynomials
    <3>6. Layer(r, l)[i] = r[i - l] + Root(i, l) * r[i]
      BY <2>2 DEF Layer
    <3> QED
      BY <3>3, <3>4, <3>5, <3>6
  <2> QED
    BY <2>1, <2>2
<1>3. NttLayer(r, l) \in Polynomials
  <2>1. Within(NttLayer(r, l), -29440 - 3328, 29439 + 3328)
    BY SMT, NttLayerBound
  <2> QED
    BY <2>1 DEF Within, Polynomials
<1>4. Layer(r, l) \in Polynomials
  BY <1>1, LayerType
<1> QED
  BY <1>2, <1>3, <1>4 DEF Same

\* The zeta invntt takes undoes the one ntt took.
LEMMA InverseRoot ==
    ASSUME NEW l \in Lens, l < N, NEW i \in Index, ~ LowHalf(i, l)
    PROVE  /\ InverseZeta(i, l) \in Int
           /\ Cong(Root(i, l) * (169 * InverseZeta(i, l)), 1)
<1>1. PICK h \in {1, 2, 4, 8, 16, 32, 64} : h = N \div (2 * l) /\ N \div l = 2 * h
  <2>1. N \in {8, 16, 32, 64, 128, 256}
    BY SizeAssumption
  <2> QED
    BY SMT, <2>1 DEF Lens
<1>2. PICK b \in 0..h - 1 : b = BlockOf(i, l)
  <2>1. N \in {8, 16, 32, 64, 128, 256}
    BY SizeAssumption
  <2> QED
    BY SMT, <1>1, <2>1 DEF Lens, Index, BlockOf
<1>3. InverseZeta(i, l) = Zeta(2 * h - 1 - b) /\ InverseZeta(i, l) \in Int
  BY <1>1, <1>2, ButterflyFacts DEF InverseZeta
<1>4. l # N
  BY SMT, SizeFacts DEF Lens
<1>5. Root(i, l) = - Plain(h + b)
  BY <1>1, <1>2, <1>4 DEF Root
<1>6. PICK u \in Int : u = Plain(h + b)
  BY SMT, PlainType
<1>7. PICK v \in Int : v = Plain(2 * h - 1 - b)
  BY SMT, PlainType
<1>8. (u * v + 1) % 3329 = 0
  BY <1>6, <1>7, ZetasCancel
<1>9. 169 * InverseZeta(i, l) = v
  BY <1>3, <1>7 DEF Plain
<1>10. Cong((- u) * v, 1)
  <2>1. PICK x \in Int : x = (- u) * v /\ x = - (u * v)
    BY SMT
  <2>2. (1 - x) % 3329 = 0
    BY SMT, <1>8, <2>1
  <2>3. Cong(1, x)
    BY SMT, <2>2, CongDiff
  <2> QED
    BY <2>1, <2>3, CongSym
<1> QED
  BY <1>3, <1>5, <1>6, <1>9, <1>10

\* x + c * y
Plus(x, c, y) == [i \in Index |-> x[i] + c * y[i]]

\* x times X, modulo X^l - Root in each block.
Shift(x, l) ==
    [i \in Index |-> IF i % l = 0 THEN Root(i, l) * x[i + l - 1] ELSE x[i - 1]]

\* 1, in each block.
One(l) == [i \in Index |-> IF i % l = 0 THEN 1 ELSE 0]

LEMMA SameRefl == \A x \in Polynomials : Same(x, x)
BY CongRefl DEF Same, Polynomials

LEMMA SameTrans ==
    ASSUME NEW x, NEW y, NEW z, Same(x, y), Same(y, z)
    PROVE  Same(x, z)
BY CongTrans DEF Same

LEMMA SameSym ==
    ASSUME NEW x, NEW y, Same(x, y)
    PROVE  Same(y, x)
BY CongSym DEF Same

LEMMA PlusType ==
    ASSUME NEW x \in Polynomials, NEW y \in Polynomials, NEW c \in Int
    PROVE  Plus(x, c, y) \in Polynomials
<1>1. \A i \in Index : x[i] + c * y[i] \in Int
  BY SMT DEF Polynomials
<1> QED
  BY <1>1 DEF Plus, Polynomials

LEMMA PlusSame ==
    ASSUME NEW x, NEW y, NEW c \in Int, NEW v, NEW w, Same(x, v), Same(y, w)
    PROVE  Same(Plus(x, c, y), Plus(v, c, w))
<1>1. /\ x \in Polynomials /\ y \in Polynomials
      /\ v \in Polynomials /\ w \in Polynomials
  BY DEF Same
<1>2. Plus(x, c, y) \in Polynomials /\ Plus(v, c, w) \in Polynomials
  BY <1>1, PlusType
<1>3. ASSUME NEW i \in Index
      PROVE  Cong(Plus(x, c, y)[i], Plus(v, c, w)[i])
  <2>1. Cong(x[i], v[i]) /\ Cong(y[i], w[i]) /\ Cong(c, c)
    BY CongRefl DEF Same
  <2>2. Cong(x[i] + c * y[i], v[i] + c * w[i])
    BY <2>1, CongOps
  <2> QED
    BY <2>2 DEF Plus
<1> QED
  BY <1>2, <1>3 DEF Same

LEMMA ShiftType ==
    ASSUME NEW l \in Lens, l <= N, NEW x \in Polynomials
    PROVE  Shift(x, l) \in Polynomials
<1>1. ASSUME NEW i \in Index
      PROVE  (IF i % l = 0 THEN Root(i, l) * x[i + l - 1] ELSE x[i - 1]) \in Int
  <2>1. PICK p \in Int : p = Root(i, l)
    BY RootType
  <2>2. IF i % l = 0 THEN i + l - 1 \in Index ELSE i - 1 \in Index
    <3>1. N \in {8, 16, 32, 64, 128, 256}
      BY SizeAssumption
    <3> QED
      BY SMTT(60), <3>1 DEF Lens, Index
  <2> QED
    BY SMT, <2>1, <2>2 DEF Polynomials
<1> QED
  BY <1>1 DEF Shift, Polynomials

LEMMA ShiftSame ==
    ASSUME NEW l \in Lens, l <= N, NEW x, NEW y, Same(x, y)
    PROVE  Same(Shift(x, l), Shift(y, l))
<1>1. x \in Polynomials /\ y \in Polynomials
  BY DEF Same
<1>2. ASSUME NEW i \in Index
      PROVE  Cong(Shift(x, l)[i], Shift(y, l)[i])
  <2>1. Root(i, l) \in Int
    BY RootType
  <2>2. IF i % l = 0 THEN i + l - 1 \in Index ELSE i - 1 \in Index
    <3>1. N \in {8, 16, 32, 64, 128, 256}
      BY SizeAssumption
    <3> QED
      BY SMTT(60), <3>1 DEF Lens, Index
  <2> QED
    BY <2>1, <2>2, CongRefl, CongOps DEF Same, Shift
<1> QED
  BY <1>1, <1>2, ShiftType DEF Same

LEMMA LayerSame ==
    ASSUME NEW l \in Lens, l < N, NEW x, NEW y, Same(x, y)
    PROVE  Same(Layer(x, l), Layer(y, l))
<1>1. x \in Polynomials /\ y \in Polynomials
  BY DEF Same
<1>2. ASSUME NEW i \in Index
      PROVE  Cong(Layer(x, l)[i], Layer(y, l)[i])
  <2>1. Root(i, l) \in Int
    BY SMT, RootType, SizeFacts DEF Lens
  <2>2. IF LowHalf(i, l) THEN i + l \in Index ELSE i - l \in Index
    BY BlockPlaces
  <2> QED
    BY <2>1, <2>2, CongRefl, CongOps DEF Same, Layer
<1> QED
  BY <1>1, <1>2, LayerType DEF Same

\* A layer is linear,
LEMMA LayerPlus ==
    ASSUME NEW l \in Lens, l < N, NEW c \in Int,
           NEW x \in Polynomials, NEW y \in Polynomials
    PROVE  Layer(Plus(x, c, y), l) = Plus(Layer(x, l), c, Layer(y, l))
<1>1. ASSUME NEW i \in Index
      PROVE  Layer(Plus(x, c, y), l)[i] = Plus(Layer(x, l), c, Layer(y, l))[i]
  <2>1. PICK p \in Int : p = Root(i, l)
    BY SMT, RootType, SizeFacts DEF Lens
  <2>2. CASE LowHalf(i, l)
    <3>1. i + l \in Index
      BY <2>2, BlockPlaces
    <3>2. (x[i] + c * y[i]) + p * (x[i + l] + c * y[i + l])
              = (x[i] + p * x[i + l]) + c * (y[i] + p * y[i + l])
      BY SMT, <3>1 DEF Polynomials
    <3> QED
      BY <2>1, <2>2, <3>1, <3>2 DEF Layer, Plus
  <2>3. CASE ~ LowHalf(i, l)
    <3>1. i - l \in Index
      BY <2>3, BlockPlaces
    <3>2. (x[i - l] + c * y[i - l]) + p * (x[i] + c * y[i])
              = (x[i - l] + p * x[i]) + c * (y[i - l] + p * y[i])
      BY SMT, <3>1 DEF Polynomials
    <3> QED
      BY <2>1, <2>3, <3>1, <3>2 DEF Layer, Plus
  <2> QED
    BY <2>2, <2>3
<1> QED
  BY <1>1 DEF Layer, Plus

\* it keeps 1,
LEMMA LayerOne ==
    ASSUME NEW l \in Lens, l < N
    PROVE  Layer(One(2 * l), l) = One(l)
<1>1. ASSUME NEW i \in Index
      PROVE  Layer(One(2 * l), l)[i] = One(l)[i]
  <2>1. PICK p \in Int : p = Root(i, l)
    BY SMT, RootType, SizeFacts DEF Lens
  <2>2. CASE LowHalf(i, l)
    <3>1. i + l \in Index /\ One(2 * l)[i] = One(l)[i] /\ One(2 * l)[i + l] = 0
      BY <2>2, BlockPlaces DEF One
    <3>2. One(l)[i] \in Int
      BY DEF One
    <3>3. One(l)[i] + p * 0 = One(l)[i]
      BY SMT, <3>2
    <3> QED
      BY <2>1, <2>2, <3>1, <3>3 DEF Layer
  <2>3. CASE ~ LowHalf(i, l)
    <3>1. i - l \in Index /\ One(2 * l)[i - l] = One(l)[i] /\ One(2 * l)[i] = 0
      BY <2>3, BlockPlaces DEF One
    <3>2. One(l)[i] \in Int
      BY DEF One
    <3>3. One(l)[i] + p * 0 = One(l)[i]
      BY SMT, <3>2
    <3> QED
      BY <2>1, <2>3, <3>1, <3>3 DEF Layer
  <2> QED
    BY <2>2, <2>3
<1> QED
  BY <1>1 DEF Layer, One

\* and multiplication by X goes through it.
LEMMA LayerShift ==
    ASSUME NEW l \in Lens, l < N, NEW x \in Polynomials
    PROVE  Same(Layer(Shift(x, 2 * l), l), Shift(Layer(x, l), l))
<1>1. /\ 2 * l \in Lens /\ 2 * l <= N /\ l <= N
      /\ l \in Int /\ 2 <= l
  <2>1. 2 * l \in Lens /\ 2 * l <= N
    BY Halving
  <2> QED
    BY SMT, <2>1, SizeFacts DEF Lens
<1>2. /\ Layer(Shift(x, 2 * l), l) \in Polynomials
      /\ Shift(Layer(x, l), l) \in Polynomials
  BY <1>1, LayerType, ShiftType
<1>3. ASSUME NEW i \in Index
      PROVE  Cong(Layer(Shift(x, 2 * l), l)[i], Shift(Layer(x, l), l)[i])
  <2>1. PICK p \in Int : p = Root(i, l)
    BY <1>1, RootType
  <2>2. PICK s \in Int : s = Root(i, 2 * l) /\ Cong(p * p, s)
    BY <1>1, <2>1, RootType, RootSquare
  <2>3. CASE i % l # 0
    <3>1. /\ i - 1 \in Index /\ (LowHalf(i - 1, l) <=> LowHalf(i, l))
          /\ Root(i - 1, l) = p
      BY <2>1, <2>3, NeighbourPlaces, RootPlaces
    <3>2. Shift(Layer(x, l), l)[i] = Layer(x, l)[i - 1]
      BY <2>3 DEF Shift
    <3>3. CASE LowHalf(i, l)
      <4>1. /\ i + l \in Index /\ i % (2 * l) # 0 /\ (i + l) % (2 * l) # 0
            /\ i - 1 + l = i + l - 1 /\ (i + l) - 1 = i + l - 1
        BY SMT, <2>3, <3>3, BlockPlaces
      <4>2. Layer(Shift(x, 2 * l), l)[i] = x[i - 1] + p * x[i + l - 1]
        <5>1. /\ Shift(x, 2 * l)[i] = x[i - 1]
              /\ Shift(x, 2 * l)[i + l] = x[i + l - 1]
          BY <4>1 DEF Shift
        <5> QED
          BY <2>1, <3>3, <5>1 DEF Layer
      <4>3. Layer(x, l)[i - 1] = x[i - 1] + p * x[i + l - 1]
        BY <3>1, <3>3, <4>1 DEF Layer
      <4> QED
        BY <1>2, <3>2, <4>2, <4>3, CongRefl DEF Polynomials
    <3>4. CASE ~ LowHalf(i, l)
      <4>1. /\ i - l \in Index /\ i % (2 * l) # 0 /\ (i - l) % (2 * l) # 0
            /\ i - l - 1 = i - 1 - l
        BY SMT, <2>3, <3>4, BlockPlaces
      <4>2. Layer(Shift(x, 2 * l), l)[i] = x[i - 1 - l] + p * x[i - 1]
        BY <2>1, <3>4, <4>1 DEF Layer, Shift
      <4>3. Layer(x, l)[i - 1] = x[i - 1 - l] + p * x[i - 1]
        BY <3>1, <3>4, <4>1 DEF Layer
      <4> QED
        BY <1>2, <3>2, <4>2, <4>3, CongRefl DEF Polynomials
    <3> QED
      BY <3>3, <3>4
  <2>4. CASE i % l = 0
    <3>1. /\ i + l - 1 \in Index /\ (LowHalf(i + l - 1, l) <=> LowHalf(i, l))
          /\ Root(i + l - 1, l) = p
      BY <2>1, <2>4, NeighbourPlaces, RootPlaces
    <3>2. Shift(Layer(x, l), l)[i] = p * Layer(x, l)[i + l - 1]
      BY <2>1, <2>4 DEF Shift
    <3>3. CASE LowHalf(i, l)
      <4>1. /\ i + l \in Index /\ i % (2 * l) = 0 /\ (i + l) % (2 * l) # 0
            /\ i + 2 * l - 1 \in Index /\ i + l - 1 + l = i + 2 * l - 1
            /\ (i + l) - 1 = i + l - 1
        BY SMT, <2>4, <3>3, BlockPlaces, NeighbourPlaces
      <4>2. PICK u, v \in Int : u = x[i + 2 * l - 1] /\ v = x[i + l - 1]
        BY <3>1, <4>1 DEF Polynomials
      <4>3. Layer(Shift(x, 2 * l), l)[i] = s * u + p * v
        <5>1. /\ Shift(x, 2 * l)[i] = s * u
              /\ Shift(x, 2 * l)[i + l] = v
          BY <2>2, <4>1, <4>2 DEF Shift
        <5> QED
          BY <2>1, <3>3, <5>1 DEF Layer
      <4>4. Layer(x, l)[i + l - 1] = v + p * u
        BY <3>1, <3>3, <4>1, <4>2 DEF Layer
      <4>5. p * (v + p * u) = (p * p) * u + p * v /\ p * v \in Int
        BY SMT
      <4>6. Cong(s * u + p * v, (p * p) * u + p * v)
        BY <2>2, <4>5, CongRefl, CongSym, CongOps
      <4> QED
        BY <3>2, <4>3, <4>4, <4>5, <4>6
    <3>4. CASE ~ LowHalf(i, l)
      <4>1. /\ i - l \in Index /\ (i - l) % (2 * l) = 0 /\ i % (2 * l) # 0
            /\ i - l + 2 * l - 1 = i + l - 1 /\ (i + l - 1) - l = i - 1
            /\ i - 1 \in Index
        BY SMT, <2>4, <3>4, BlockPlaces, NeighbourPlaces
      <4>2. PICK u, v \in Int : u = x[i + l - 1] /\ v = x[i - 1]
        BY <3>1, <4>1 DEF Polynomials
      <4>3. PICK t \in Int : t = Root(i - l, 2 * l) /\ Cong(p * p, t)
        <5>1. Root(i - l, 2 * l) = s
          BY <1>1, <2>2, <3>4, <4>1, SameParent
        <5> QED
          BY <2>2, <5>1
      <4>4. Layer(Shift(x, 2 * l), l)[i] = t * u + p * v
        BY <2>1, <3>4, <4>1, <4>2, <4>3 DEF Layer, Shift
      <4>5. Layer(x, l)[i + l - 1] = v + p * u
        <5>1. PICK j \in Index : /\ j = i + l - 1 /\ ~ LowHalf(j, l)
                                 /\ Root(j, l) = p /\ x[j] = u /\ x[j - l] = v
          BY <3>1, <3>4, <4>1, <4>2
        <5>2. Layer(x, l)[j] = x[j - l] + Root(j, l) * x[j]
          BY <5>1 DEF Layer
        <5> QED
          BY <5>1, <5>2
      <4>6. p * (v + p * u) = (p * p) * u + p * v /\ p * v \in Int
        BY SMT
      <4>7. Cong(t * u + p * v, (p * p) * u + p * v)
        BY <4>3, <4>6, CongRefl, CongSym, CongOps
      <4> QED
        BY <3>2, <4>4, <4>5, <4>6, <4>7
    <3> QED
      BY <3>3, <3>4
  <2> QED
    BY <2>3, <2>4
<1> QED
  BY <1>2, <1>3 DEF Same

Scaled(c, x) == [i \in Index |-> c * x[i]]

LEMMA ScaledType ==
    ASSUME NEW c \in Int, NEW x \in Polynomials
    PROVE  Scaled(c, x) \in Polynomials
<1>1. \A i \in Index : c * x[i] \in Int
  BY SMT DEF Polynomials
<1> QED
  BY <1>1 DEF Scaled, Polynomials

\* What a layer makes can be undone,
LEMMA LayerInjective ==
    ASSUME NEW l \in Lens, l < N, NEW x \in Polynomials, NEW y \in Polynomials,
           Same(Layer(x, l), Layer(y, l))
    PROVE  Same(x, y)
<1>1. ASSUME NEW z \in Polynomials, NEW i \in Index, LowHalf(i, l)
      PROVE  2 * z[i] = Layer(z, l)[i] + Layer(z, l)[i + l] /\ i + l \in Index
  <2>1. PICK p \in Int : p = Root(i, l)
    BY SMT, RootType, SizeFacts DEF Lens
  <2>2. /\ i + l \in Index /\ ~ LowHalf(i + l, l) /\ (i + l) - l = i
        /\ Root(i + l, l) = - p
    BY <1>1, <2>1, BlockPlaces, RootPlaces
  <2>3. PICK u, v \in Int : u = z[i] /\ v = z[i + l]
    BY <2>2 DEF Polynomials
  <2>4. Layer(z, l)[i] = u + p * v
    BY <1>1, <2>1, <2>3 DEF Layer
  <2>5. Layer(z, l)[i + l] = u + (- p) * v
    BY <2>2, <2>3 DEF Layer
  <2> QED
    BY SMT, <2>2, <2>3, <2>4, <2>5
<1>2. ASSUME NEW i \in Index, ~ LowHalf(i, l)
      PROVE  \E u \in Int : \A z \in Polynomials :
                 Cong(u * (Layer(z, l)[i] - Layer(z, l)[i - l]), 2 * z[i])
  <2>1. PICK p \in Int : p = Root(i, l)
    BY SMT, RootType, SizeFacts DEF Lens
  <2>2. PICK u \in Int : Cong(p * u, 1)
    <3>1. InverseZeta(i, l) \in Int /\ Cong(p * (169 * InverseZeta(i, l)), 1)
      BY <1>2, <2>1, InverseRoot
    <3>2. PICK u \in Int : u = 169 * InverseZeta(i, l)
      BY SMT, <3>1
    <3> QED
      BY <3>1, <3>2
  <2>3. ASSUME NEW z \in Polynomials
        PROVE  Cong(u * (Layer(z, l)[i] - Layer(z, l)[i - l]), 2 * z[i])
    <3>1. /\ i - l \in Index /\ LowHalf(i - l, l) /\ (i - l) + l = i
          /\ p = - Root(i - l, l)
      BY <1>2, <2>1, BlockPlaces, RootPlaces
    <3>2. PICK s \in Int : s = Root(i - l, l) /\ p = - s
      BY SMT, <3>1, RootType, SizeFacts DEF Lens
    <3>3. PICK v, w \in Int : v = z[i - l] /\ w = z[i]
      BY <3>1 DEF Polynomials
    <3>4. Layer(z, l)[i] = v + p * w
      BY <1>2, <2>1, <3>3 DEF Layer
    <3>5. Layer(z, l)[i - l] = v + s * w
      BY <3>1, <3>2, <3>3 DEF Layer
    <3>6. u * ((v + p * w) - (v + s * w)) = (p * u) * (2 * w) /\ 2 * w \in Int
          /\ 1 * (2 * w) = 2 * w
      BY SMT, <3>2
    <3>7. Cong((p * u) * (2 * w), 1 * (2 * w))
      BY <2>2, <3>6, CongRefl, CongOps
    <3> QED
      BY <3>3, <3>4, <3>5, <3>6, <3>7
  <2> QED
    BY <2>3
<1>3. ASSUME NEW i \in Index
      PROVE  Cong(x[i], y[i])
  <2>1. x[i] \in Int /\ y[i] \in Int
    BY DEF Polynomials
  <2>2. CASE LowHalf(i, l)
    <3>1. Cong(2 * x[i], 2 * y[i])
      <4>1. /\ i + l \in Index
            /\ 2 * x[i] = Layer(x, l)[i] + Layer(x, l)[i + l]
            /\ 2 * y[i] = Layer(y, l)[i] + Layer(y, l)[i + l]
        BY <1>1, <2>2
      <4> QED
        BY <4>1, CongOps DEF Same
    <3> QED
      BY <2>1, <3>1, CongHalf
  <2>3. CASE ~ LowHalf(i, l)
    <3>1. i - l \in Index
      BY <2>3, BlockPlaces
    <3>2. PICK u \in Int : \A z \in Polynomials :
              Cong(u * (Layer(z, l)[i] - Layer(z, l)[i - l]), 2 * z[i])
      BY <1>2, <2>3
    <3>3. Cong(u * (Layer(x, l)[i] - Layer(x, l)[i - l]),
               u * (Layer(y, l)[i] - Layer(y, l)[i - l]))
      BY <3>1, CongRefl, CongOps DEF Same
    <3>4. Cong(2 * x[i], 2 * y[i])
      BY <3>2, <3>3, CongSym, CongTrans
    <3> QED
      BY <2>1, <3>4, CongHalf
  <2> QED
    BY <2>2, <2>3
<1> QED
  BY <1>3 DEF Same

\* and invntt's layer undoes it, up to a factor of two.
LEMMA InvNttLayerSame ==
    ASSUME NEW l \in Lens, l < N, NEW r, Within(r, -3328, 3328)
    PROVE  Same(Layer(InvNttLayer(r, l), l), Scaled(2, r))
<1> DEFINE e == InvNttLayer(r, l)
<1>1. r \in Polynomials /\ \A j \in Index : Small(r[j]) /\ r[j] \in Int
  BY SMT DEF Within, Small, Polynomials
<1>2. e \in Polynomials
  BY InvNttLayerBound DEF Within, Polynomials
<1>3. ASSUME NEW i \in Index, LowHalf(i, l)
      PROVE  i + l \in Index /\ Cong(e[i], r[i] + r[i + l])
  <2>1. i + l \in Index
    BY <1>3, BlockPlaces
  <2>2. Short(r[i] + r[i + l]) /\ Int16(r[i] + r[i + l]) = r[i] + r[i + l]
    <3>1. /\ r[i] + r[i + l] \in Int /\ -32768 <= r[i] + r[i + l]
          /\ r[i] + r[i + l] <= 32767
      BY SMT, <1>1, <2>1 DEF Small
    <3> QED
      BY SMT, <3>1, Int16Keeps DEF Short
  <2>3. e[i] = BarrettReduce(r[i] + r[i + l])
    BY <1>3, <2>2 DEF InvNttLayer
  <2> QED
    BY <2>1, <2>2, <2>3, BarrettCong
<1>4. ASSUME NEW i \in Index, ~ LowHalf(i, l)
      PROVE  i - l \in Index /\ Cong(Root(i, l) * e[i], r[i] - r[i - l])
  <2>1. i - l \in Index
    BY <1>4, BlockPlaces
  <2>2. PICK d : d = r[i] - r[i - l] /\ Short(d) /\ Int16(d) = d /\ d \in Int
    <3>1. /\ r[i] - r[i - l] \in Int /\ -32768 <= r[i] - r[i - l]
          /\ r[i] - r[i - l] <= 32767
      BY SMT, <1>1, <2>1 DEF Small
    <3> QED
      BY SMT, <3>1, Int16Keeps DEF Short
  <2>3. PICK z \in Int : /\ z = InverseZeta(i, l) /\ Small(z)
                         /\ Cong(Root(i, l) * (169 * z), 1)
    BY SMT, <1>4, InverseRoot, ButterflyFacts DEF Small
  <2>4. e[i] = FqMul(z, d)
    BY <1>4, <2>2, <2>3 DEF InvNttLayer
  <2>5. Cong(e[i], 169 * (d * z))
    BY <2>2, <2>3, <2>4, FqMulCong
  <2>6. PICK p \in Int : p = Root(i, l)
    BY SMT, RootType, SizeFacts DEF Lens
  <2>7. p * (169 * (d * z)) = (p * (169 * z)) * d /\ 1 * d = d
    BY SMT, <2>2
  <2>8. Cong(p * e[i], p * (169 * (d * z)))
    BY <2>5, CongRefl, CongOps
  <2>9. Cong((p * (169 * z)) * d, 1 * d)
    BY <2>2, <2>3, <2>6, CongRefl, CongOps
  <2> QED
    BY <2>1, <2>2, <2>6, <2>7, <2>8, <2>9, CongTrans
<1> HIDE DEF e
<1>5. ASSUME NEW i \in Index
      PROVE  Cong(Layer(e, l)[i], 2 * r[i])
  <2>1. CASE LowHalf(i, l)
    <3>1. /\ i + l \in Index /\ ~ LowHalf(i + l, l) /\ (i + l) - l = i
          /\ Root(i + l, l) = - Root(i, l)
      BY <2>1, BlockPlaces, RootPlaces
    <3>2. PICK p \in Int : p = Root(i, l)
      BY SMT, RootType, SizeFacts DEF Lens
    <3>3. Cong((- p) * e[i + l], r[i + l] - r[i])
      BY <1>4, <3>1, <3>2
    <3>4. Cong(e[i] - (- p) * e[i + l], (r[i] + r[i + l]) - (r[i + l] - r[i]))
      BY <1>3, <2>1, <3>3, CongOps
    <3>5. /\ e[i] - (- p) * e[i + l] = e[i] + p * e[i + l]
          /\ (r[i] + r[i + l]) - (r[i + l] - r[i]) = 2 * r[i]
      BY SMT, <1>1, <1>2, <3>1 DEF Polynomials
    <3> QED
      BY <2>1, <3>2, <3>4, <3>5 DEF Layer
  <2>2. CASE ~ LowHalf(i, l)
    <3>1. i - l \in Index /\ LowHalf(i - l, l) /\ (i - l) + l = i
      BY <2>2, BlockPlaces
    <3>2. Cong(e[i - l], r[i - l] + r[i]) /\ Cong(Root(i, l) * e[i], r[i] - r[i - l])
      BY <1>3, <1>4, <2>2, <3>1
    <3>3. Cong(e[i - l] + Root(i, l) * e[i], (r[i - l] + r[i]) + (r[i] - r[i - l]))
      BY <3>2, CongOps
    <3>4. (r[i - l] + r[i]) + (r[i] - r[i - l]) = 2 * r[i]
      BY SMT, <1>1, <3>1
    <3> QED
      BY <2>2, <3>3, <3>4 DEF Layer
  <2> QED
    BY <2>1, <2>2
<1>6. Layer(e, l) \in Polynomials /\ Scaled(2, r) \in Polynomials
  BY <1>1, <1>2, LayerType, ScaledType
<1>7. \A i \in Index : Scaled(2, r)[i] = 2 * r[i]
  BY DEF Scaled
<1> QED
  BY <1>5, <1>6, <1>7 DEF Same, e

------------------------------------------------------------------------------
(* Products, pair by pair *)

\* The product of two arrays of pairs, modulo X^2 - Root in each.
Prod(x, y) ==
    [i \in Index |-> IF i % 2 = 0 THEN x[i] * y[i] + Root(i, 2) * (x[i + 1] * y[i + 1])
                     ELSE x[i - 1] * y[i] + x[i] * y[i - 1]]

LEMMA PairPlaces ==
    ASSUME NEW i \in Index
    PROVE  /\ i % 2 = 0 => i + 1 \in Index /\ (i + 1) % 2 # 0 /\ (i + 1) - 1 = i
           /\ i % 2 # 0 => i - 1 \in Index /\ (i - 1) % 2 = 0 /\ (i - 1) + 1 = i
           /\ 2 \in Lens /\ 2 < N /\ 2 <= N /\ i + 2 - 1 = i + 1
           /\ Root(i, 2) \in Int
<1>1. N \in {8, 16, 32, 64, 128, 256}
  BY SizeAssumption
<1>2. 2 \in Lens /\ 2 < N /\ 2 <= N
  BY SMT, <1>1 DEF Lens
<1>3. /\ i % 2 = 0 => i + 1 \in Index /\ (i + 1) % 2 # 0 /\ (i + 1) - 1 = i
      /\ i % 2 # 0 => i - 1 \in Index /\ (i - 1) % 2 = 0 /\ (i - 1) + 1 = i
      /\ i + 2 - 1 = i + 1
  BY SMT, <1>1 DEF Index
<1> QED
  BY <1>2, <1>3, RootType

LEMMA ProdType ==
    ASSUME NEW x \in Polynomials, NEW y \in Polynomials
    PROVE  Prod(x, y) \in Polynomials
<1>1. ASSUME NEW i \in Index
      PROVE  Prod(x, y)[i] \in Int
  <2>1. PICK p \in Int : p = Root(i, 2)
    BY PairPlaces
  <2>2. CASE i % 2 = 0
    <3>1. PICK a, b, c, d \in Int : a = x[i] /\ b = y[i] /\ c = x[i + 1] /\ d = y[i + 1]
      BY <2>2, PairPlaces DEF Polynomials
    <3>2. a * b + p * (c * d) \in Int
      BY SMT
    <3> QED
      BY <2>1, <2>2, <3>1, <3>2 DEF Prod
  <2>3. CASE i % 2 # 0
    <3>1. PICK a, b, c, d \in Int : a = x[i - 1] /\ b = y[i] /\ c = x[i] /\ d = y[i - 1]
      BY <2>3, PairPlaces DEF Polynomials
    <3>2. a * b + c * d \in Int
      BY SMT
    <3> QED
      BY <2>3, <3>1, <3>2 DEF Prod
  <2> QED
    BY <2>2, <2>3
<1> QED
  BY <1>1 DEF Prod, Polynomials

LEMMA ProdSame ==
    ASSUME NEW x, NEW y, NEW v, NEW w, Same(x, v), Same(y, w)
    PROVE  Same(Prod(x, y), Prod(v, w))
<1>1. /\ x \in Polynomials /\ y \in Polynomials
      /\ v \in Polynomials /\ w \in Polynomials
  BY DEF Same
<1>2. Prod(x, y) \in Polynomials /\ Prod(v, w) \in Polynomials
  BY <1>1, ProdType
<1>3. ASSUME NEW i \in Index
      PROVE  Cong(Prod(x, y)[i], Prod(v, w)[i])
  <2>1. \A j, k \in Index : Cong(x[j] * y[k], v[j] * w[k])
    BY CongOps DEF Same
  <2>2. CASE i % 2 = 0
    <3>1. Cong(Root(i, 2) * (x[i + 1] * y[i + 1]), Root(i, 2) * (v[i + 1] * w[i + 1]))
      BY <2>1, <2>2, PairPlaces, CongRefl, CongOps
    <3>2. Cong(x[i] * y[i] + Root(i, 2) * (x[i + 1] * y[i + 1]),
               v[i] * w[i] + Root(i, 2) * (v[i + 1] * w[i + 1]))
      BY <2>1, <3>1, CongOps
    <3> QED
      BY <2>2, <3>2 DEF Prod
  <2>3. CASE i % 2 # 0
    <3>1. Cong(x[i - 1] * y[i] + x[i] * y[i - 1], v[i - 1] * w[i] + v[i] * w[i - 1])
      BY <2>1, <2>3, PairPlaces, CongOps
    <3> QED
      BY <2>3, <3>1 DEF Prod
  <2> QED
    BY <2>2, <2>3
<1> QED
  BY <1>2, <1>3 DEF Same

\* Pairs form a commutative ring, block by block.
LEMMA ProdSwap ==
    ASSUME NEW x \in Polynomials, NEW y \in Polynomials
    PROVE  Prod(x, y) = Prod(y, x)
<1>1. ASSUME NEW i \in Index
      PROVE  Prod(x, y)[i] = Prod(y, x)[i]
  <2>1. \A j, k \in Index : x[j] * y[k] = y[k] * x[j] /\ x[j] * y[k] \in Int
    BY SMT DEF Polynomials
  <2>2. CASE i % 2 = 0
    BY <2>1, <2>2, PairPlaces DEF Prod
  <2>3. CASE i % 2 # 0
    <3>1. PICK a, b \in Int : /\ a = x[i - 1] * y[i] /\ b = x[i] * y[i - 1]
                              /\ a = y[i] * x[i - 1] /\ b = y[i - 1] * x[i]
      BY <2>1, <2>3, PairPlaces
    <3>2. a + b = b + a
      BY SMT
    <3> QED
      BY <2>3, <3>1, <3>2 DEF Prod
  <2> QED
    BY <2>2, <2>3
<1> QED
  BY <1>1 DEF Prod

LEMMA ProdAssoc ==
    ASSUME NEW x \in Polynomials, NEW y \in Polynomials, NEW z \in Polynomials
    PROVE  Prod(Prod(x, y), z) = Prod(x, Prod(y, z))
<1>1. ASSUME NEW i \in Index
      PROVE  Prod(Prod(x, y), z)[i] = Prod(x, Prod(y, z))[i]
  <2>1. CASE i % 2 = 0
    <3>1. i + 1 \in Index /\ (i + 1) % 2 # 0 /\ (i + 1) - 1 = i
      BY <2>1, PairPlaces
    <3>2. PICK p, x0, x1, y0, y1, z0, z1 \in Int :
              /\ p = Root(i, 2) /\ x0 = x[i] /\ x1 = x[i + 1]
              /\ y0 = y[i] /\ y1 = y[i + 1] /\ z0 = z[i] /\ z1 = z[i + 1]
      BY <3>1, PairPlaces DEF Polynomials
    <3>3. /\ Prod(x, y)[i] = x0 * y0 + p * (x1 * y1)
          /\ Prod(y, z)[i] = y0 * z0 + p * (y1 * z1)
      BY <2>1, <3>2 DEF Prod
    <3>4. /\ Prod(x, y)[i + 1] = x0 * y1 + x1 * y0
          /\ Prod(y, z)[i + 1] = y0 * z1 + y1 * z0
      BY <3>1, <3>2 DEF Prod
    <3>5. /\ Prod(Prod(x, y), z)[i] = (x0 * y0 + p * (x1 * y1)) * z0
                                          + p * ((x0 * y1 + x1 * y0) * z1)
          /\ Prod(x, Prod(y, z))[i] = x0 * (y0 * z0 + p * (y1 * z1))
                                          + p * (x1 * (y0 * z1 + y1 * z0))
      BY <2>1, <3>2, <3>3, <3>4 DEF Prod
    <3>6. (x0 * y0 + p * (x1 * y1)) * z0 + p * ((x0 * y1 + x1 * y0) * z1)
              = x0 * (y0 * z0 + p * (y1 * z1)) + p * (x1 * (y0 * z1 + y1 * z0))
      BY SMT
    <3> QED
      BY <3>5, <3>6
  <2>2. CASE i % 2 # 0
    <3>1. i - 1 \in Index /\ (i - 1) % 2 = 0 /\ (i - 1) + 1 = i
      BY <2>2, PairPlaces
    <3>2. PICK p, x0, x1, y0, y1, z0, z1 \in Int :
              /\ p = Root(i - 1, 2) /\ x0 = x[i - 1] /\ x1 = x[i]
              /\ y0 = y[i - 1] /\ y1 = y[i] /\ z0 = z[i - 1] /\ z1 = z[i]
      BY <3>1, PairPlaces DEF Polynomials
    <3>3. /\ Prod(x, y)[i - 1] = x0 * y0 + p * (x1 * y1)
          /\ Prod(y, z)[i - 1] = y0 * z0 + p * (y1 * z1)
      BY <3>1, <3>2 DEF Prod
    <3>4. /\ Prod(x, y)[i] = x0 * y1 + x1 * y0
          /\ Prod(y, z)[i] = y0 * z1 + y1 * z0
      BY <2>2, <3>2 DEF Prod
    <3>5. /\ Prod(Prod(x, y), z)[i] = (x0 * y0 + p * (x1 * y1)) * z1
                                          + (x0 * y1 + x1 * y0) * z0
          /\ Prod(x, Prod(y, z))[i] = x0 * (y0 * z1 + y1 * z0)
                                          + x1 * (y0 * z0 + p * (y1 * z1))
      BY <2>2, <3>2, <3>3, <3>4 DEF Prod
    <3>6. (x0 * y0 + p * (x1 * y1)) * z1 + (x0 * y1 + x1 * y0) * z0
              = x0 * (y0 * z1 + y1 * z0) + x1 * (y0 * z0 + p * (y1 * z1))
      BY SMT
    <3> QED
      BY <3>5, <3>6
  <2> QED
    BY <2>1, <2>2
<1> QED
  BY <1>1 DEF Prod

LEMMA ProdPlus ==
    ASSUME NEW x \in Polynomials, NEW y \in Polynomials, NEW z \in Polynomials,
           NEW c \in Int
    PROVE  Prod(Plus(x, c, y), z) = Plus(Prod(x, z), c, Prod(y, z))
<1>1. ASSUME NEW i \in Index
      PROVE  Prod(Plus(x, c, y), z)[i] = Plus(Prod(x, z), c, Prod(y, z))[i]
  <2>1. CASE i % 2 = 0
    <3>1. PICK p, x0, x1, y0, y1, z0, z1 \in Int :
              /\ p = Root(i, 2) /\ x0 = x[i] /\ x1 = x[i + 1]
              /\ y0 = y[i] /\ y1 = y[i + 1] /\ z0 = z[i] /\ z1 = z[i + 1]
      BY <2>1, PairPlaces DEF Polynomials
    <3>2. /\ Prod(Plus(x, c, y), z)[i]
                 = (x0 + c * y0) * z0 + p * ((x1 + c * y1) * z1)
          /\ Prod(x, z)[i] = x0 * z0 + p * (x1 * z1)
          /\ Prod(y, z)[i] = y0 * z0 + p * (y1 * z1)
      BY <2>1, <3>1, PairPlaces DEF Prod, Plus
    <3>3. (x0 + c * y0) * z0 + p * ((x1 + c * y1) * z1)
              = (x0 * z0 + p * (x1 * z1)) + c * (y0 * z0 + p * (y1 * z1))
      BY SMT
    <3> QED
      BY <3>2, <3>3 DEF Plus
  <2>2. CASE i % 2 # 0
    <3>1. PICK x0, x1, y0, y1, z0, z1 \in Int :
              /\ x0 = x[i - 1] /\ x1 = x[i]
              /\ y0 = y[i - 1] /\ y1 = y[i] /\ z0 = z[i - 1] /\ z1 = z[i]
      BY <2>2, PairPlaces DEF Polynomials
    <3>2. /\ Prod(Plus(x, c, y), z)[i] = (x0 + c * y0) * z1 + (x1 + c * y1) * z0
          /\ Prod(x, z)[i] = x0 * z1 + x1 * z0
          /\ Prod(y, z)[i] = y0 * z1 + y1 * z0
      BY <2>2, <3>1, PairPlaces DEF Prod, Plus
    <3>3. (x0 + c * y0) * z1 + (x1 + c * y1) * z0
              = (x0 * z1 + x1 * z0) + c * (y0 * z1 + y1 * z0)
      BY SMT
    <3> QED
      BY <3>2, <3>3 DEF Plus
  <2> QED
    BY <2>1, <2>2
<1> QED
  BY <1>1 DEF Prod, Plus

LEMMA ProdOne ==
    ASSUME NEW x \in Polynomials
    PROVE  Prod(One(2), x) = x
<1>1. ASSUME NEW i \in Index
      PROVE  Prod(One(2), x)[i] = x[i]
  <2>1. CASE i % 2 = 0
    <3>1. PICK p, x0, x1 \in Int : p = Root(i, 2) /\ x0 = x[i] /\ x1 = x[i + 1]
      BY <2>1, PairPlaces DEF Polynomials
    <3>2. Prod(One(2), x)[i] = 1 * x0 + p * (0 * x1)
      BY <2>1, <3>1, PairPlaces DEF Prod, One
    <3> QED
      BY SMT, <3>1, <3>2
  <2>2. CASE i % 2 # 0
    <3>1. PICK x0, x1 \in Int : x0 = x[i - 1] /\ x1 = x[i]
      BY <2>2, PairPlaces DEF Polynomials
    <3>2. Prod(One(2), x)[i] = 1 * x1 + 0 * x0
      BY <2>2, <3>1, PairPlaces DEF Prod, One
    <3> QED
      BY SMT, <3>1, <3>2
  <2> QED
    BY <2>1, <2>2
<1> QED
  BY <1>1 DEF Prod, Polynomials

LEMMA ProdShift ==
    ASSUME NEW x \in Polynomials, NEW y \in Polynomials
    PROVE  Prod(Shift(x, 2), y) = Shift(Prod(x, y), 2)
<1>1. ASSUME NEW i \in Index
      PROVE  Prod(Shift(x, 2), y)[i] = Shift(Prod(x, y), 2)[i]
  <2>1. CASE i % 2 = 0
    <3>1. PICK p, x0, x1, y0, y1 \in Int :
              /\ p = Root(i, 2) /\ x0 = x[i] /\ x1 = x[i + 1]
              /\ y0 = y[i] /\ y1 = y[i + 1]
      BY <2>1, PairPlaces DEF Polynomials
    <3>2. Shift(x, 2)[i] = p * x1 /\ Shift(x, 2)[i + 1] = x0
      BY <2>1, <3>1, PairPlaces DEF Shift
    <3>3. Prod(Shift(x, 2), y)[i] = (p * x1) * y0 + p * (x0 * y1)
      BY <2>1, <3>1, <3>2 DEF Prod
    <3>4. Prod(x, y)[i + 1] = x0 * y1 + x1 * y0
      BY <2>1, <3>1, PairPlaces DEF Prod
    <3>5. Shift(Prod(x, y), 2)[i] = p * (x0 * y1 + x1 * y0)
      BY <2>1, <3>1, <3>4, PairPlaces DEF Shift
    <3> QED
      BY SMT, <3>3, <3>5
  <2>2. CASE i % 2 # 0
    <3>1. PICK p, x0, x1, y0, y1 \in Int :
              /\ p = Root(i - 1, 2) /\ x0 = x[i - 1] /\ x1 = x[i]
              /\ y0 = y[i - 1] /\ y1 = y[i]
      BY <2>2, PairPlaces DEF Polynomials
    <3>2. Shift(x, 2)[i] = x0 /\ Shift(x, 2)[i - 1] = p * x1
      <4>1. i - 1 \in Index /\ (i - 1) % 2 = 0 /\ (i - 1) + 2 - 1 = i
        BY SMT, <2>2, PairPlaces DEF Index
      <4> QED
        BY <2>2, <3>1, <4>1 DEF Shift
    <3>3. Prod(Shift(x, 2), y)[i] = (p * x1) * y1 + x0 * y0
      BY <2>2, <3>1, <3>2 DEF Prod
    <3>4. Prod(x, y)[i - 1] = x0 * y0 + p * (x1 * y1)
      BY <2>2, <3>1, PairPlaces DEF Prod
    <3>5. Shift(Prod(x, y), 2)[i] = x0 * y0 + p * (x1 * y1)
      BY <2>2, <3>4 DEF Shift
    <3> QED
      BY SMT, <3>3, <3>5
  <2> QED
    BY <2>1, <2>2
<1> QED
  BY <1>1 DEF Prod, Shift

------------------------------------------------------------------------------
(* What the other passes make of residues *)

LEMMA ScaledSame ==
    ASSUME NEW c \in Int, NEW d \in Int, Cong(c, d), NEW x, NEW y, Same(x, y)
    PROVE  Same(Scaled(c, x), Scaled(d, y))
BY CongOps, ScaledType DEF Same, Scaled

LEMMA PolyReduceSame ==
    ASSUME NEW r, Within(r, -32768, 32767)
    PROVE  Same(PolyReduce(r), r)
<1>1. r \in Polynomials /\ \A i \in Index : Short(r[i])
  BY SMT DEF Within, Polynomials, Short
<1>2. PolyReduce(r) \in Polynomials
  BY <1>1, BarrettBound DEF PolyReduce, Polynomials
<1>3. \A i \in Index : Cong(PolyReduce(r)[i], r[i])
  BY <1>1, BarrettCong DEF PolyReduce
<1> QED
  BY <1>1, <1>2, <1>3 DEF Same

LEMMA PolyToMontSame ==
    ASSUME NEW r, Within(r, -3328, 3328)
    PROVE  Same(PolyToMont(r), Scaled(R, r))
<1>1. r \in Polynomials /\ R \in Int
  BY SMT DEF Within, Polynomials, R
<1>2. ASSUME NEW i \in Index
      PROVE  /\ PolyToMont(r)[i] \in Int
             /\ Cong(PolyToMont(r)[i], Scaled(R, r)[i])
  <2>1. PICK x \in Int : x = r[i] /\ -3328 <= x /\ x <= 3328
    BY SMT DEF Within
  <2>2. PICK a \in Int : a = x * 1353 /\ -109084672 <= a /\ a <= 109084671
    BY SMT, <2>1
  <2>3. PolyToMont(r)[i] = MontgomeryReduce(a)
    BY <2>1, <2>2 DEF PolyToMont
  <2>4. Cong(MontgomeryReduce(a), 169 * a)
    BY SMT, <2>2, MontgomeryCong
  <2>5. PICK z \in Int : z = 169 * a
    BY SMT
  <2>6. Scaled(R, r)[i] = R * x
    BY <2>1 DEF Scaled
  <2>7. Cong(z, R * x)
    <3>1. R * x \in Int /\ z = R * x + (49 * x) * Q /\ 49 * x \in Int
      BY SMT, <2>1, <2>2, <2>5 DEF R, Q
    <3> QED
      BY <3>1, CongIntro
  <2>8. MontgomeryReduce(a) \in Int
    BY SMT, <2>2, MontgomeryIsReduced
  <2>9. Cong(MontgomeryReduce(a), R * x)
    BY <2>4, <2>5, <2>7, CongTrans
  <2> QED
    BY <2>3, <2>6, <2>8, <2>9
<1>3. PolyToMont(r) \in Polynomials
  BY <1>2 DEF PolyToMont, Polynomials
<1> QED
  BY <1>1, <1>2, <1>3, ScaledType DEF Same

LEMMA ScaleSame ==
    ASSUME NEW r, Within(r, -3328, 3328)
    PROVE  169 * InvF \in Int /\ Same(Scale(r), Scaled(169 * InvF, r))
<1>1. r \in Polynomials /\ \A i \in Index : Small(r[i]) /\ r[i] \in Int
  BY SMT DEF Within, Polynomials, Small
<1>2. Short(InvF) /\ InvF \in Int
  BY SMT, FactorAssumption DEF Short
<1>3. PICK c \in Int : c = 169 * InvF
  BY SMT, <1>2
<1>4. ASSUME NEW i \in Index
      PROVE  /\ Scale(r)[i] \in Int
             /\ Cong(Scale(r)[i], Scaled(c, r)[i])
  <2>1. /\ Small(FqMul(r[i], InvF))
        /\ Cong(FqMul(r[i], InvF), 169 * (InvF * r[i]))
    BY <1>1, <1>2, FqMulBound, FqMulCong
  <2>2. c * r[i] = 169 * (InvF * r[i])
    BY SMT, <1>1, <1>2, <1>3
  <2> QED
    BY <2>1, <2>2 DEF Scale, Scaled, Small
<1>5. Scale(r) \in Polynomials
  BY <1>4 DEF Scale, Polynomials
<1> QED
  BY <1>1, <1>3, <1>4, <1>5, ScaledType DEF Same

LEMMA SumKeeps == \A x, y : Small(x) /\ Small(y) => Int16(x + y) = x + y
<1> SUFFICES ASSUME NEW x, NEW y, Small(x), Small(y)
             PROVE  Int16(x + y) = x + y
  OBVIOUS
<1>1. PICK z \in Int : z = x + y /\ -6656 <= z /\ z <= 6656
  BY SMT DEF Small
<1> QED
  BY SMT, <1>1, Int16Keeps

LEMMA SmallIsShort == \A x : Small(x) => Short(x)
BY SMT DEF Small, Short

\* basemul: the product in each pair, over R.
LEMMA BaseMulCong ==
    ASSUME NEW a \in Polynomials, NEW b \in Polynomials,
           \A j \in Index : Short(a[j]) /\ Small(b[j]), NEW i \in Index
    PROVE  Cong(BaseMul(a, b)[i], 169 * Prod(a, b)[i])
<1>1. CASE i % 2 = 0
  <2>1. i + 1 \in Index /\ Small(PairZeta(i))
    BY <1>1, PairFacts
  <2>2. PICK p, z, x0, x1, y0, y1 \in Int :
            /\ p = Root(i, 2) /\ z = PairZeta(i) /\ p = 169 * z
            /\ x0 = a[i] /\ x1 = a[i + 1] /\ y0 = b[i] /\ y1 = b[i + 1]
    <3>1. PICK z \in Int : z = PairZeta(i)
      BY <2>1 DEF Small
    <3>2. Root(i, 2) = 169 * z
      BY <3>1, PairRoot
    <3> QED
      BY <2>1, <3>1, <3>2, PairPlaces DEF Polynomials
  <2>3. /\ Small(FqMul(x1, y1)) /\ Cong(FqMul(x1, y1), 169 * (x1 * y1))
        /\ Small(FqMul(x0, y0)) /\ Cong(FqMul(x0, y0), 169 * (x0 * y0))
    BY <2>1, <2>2, FqMulBound, FqMulCong
  <2>4. PICK m \in Int : m = FqMul(x1, y1)
    BY <2>3 DEF Small
  <2>5. Small(FqMul(m, z)) /\ Cong(FqMul(m, z), 169 * (m * z))
    BY SmallIsShort, <2>1, <2>2, <2>3, <2>4, FqMulBound, FqMulCong
  <2>6. BaseMul(a, b)[i] = FqMul(m, z) + FqMul(x0, y0)
    BY SumKeeps, <1>1, <2>2, <2>3, <2>4, <2>5 DEF BaseMul
  <2>7. /\ 169 * (m * z) = p * m
        /\ p * (169 * (x1 * y1)) + 169 * (x0 * y0) = 169 * (x0 * y0 + p * (x1 * y1))
    BY SMT, <2>2
  <2>8. Cong(FqMul(m, z), p * (169 * (x1 * y1)))
    BY <2>2, <2>3, <2>4, <2>5, <2>7, CongRefl, CongOps, CongTrans
  <2>9. Cong(FqMul(m, z) + FqMul(x0, y0), p * (169 * (x1 * y1)) + 169 * (x0 * y0))
    BY <2>3, <2>8, CongOps
  <2>10. Prod(a, b)[i] = x0 * y0 + p * (x1 * y1)
    BY <1>1, <2>2 DEF Prod
  <2> QED
    BY <2>6, <2>7, <2>9, <2>10
<1>2. CASE i % 2 # 0
  <2>1. PICK x0, x1, y0, y1 \in Int :
            x0 = a[i - 1] /\ x1 = a[i] /\ y0 = b[i - 1] /\ y1 = b[i]
    BY <1>2, PairFacts DEF Polynomials
  <2>2. /\ Small(FqMul(x0, y1)) /\ Cong(FqMul(x0, y1), 169 * (x0 * y1))
        /\ Small(FqMul(x1, y0)) /\ Cong(FqMul(x1, y0), 169 * (x1 * y0))
    BY <1>2, <2>1, PairFacts, FqMulBound, FqMulCong
  <2>3. BaseMul(a, b)[i] = FqMul(x0, y1) + FqMul(x1, y0)
    BY SumKeeps, <1>2, <2>1, <2>2 DEF BaseMul
  <2>4. Cong(FqMul(x0, y1) + FqMul(x1, y0), 169 * (x0 * y1) + 169 * (x1 * y0))
    BY <2>2, CongOps
  <2>5. 169 * (x0 * y1) + 169 * (x1 * y0) = 169 * (x0 * y1 + x1 * y0)
    BY SMT
  <2>6. Prod(a, b)[i] = x0 * y1 + x1 * y0
    BY <1>2, <2>1 DEF Prod
  <2> QED
    BY <2>3, <2>4, <2>5, <2>6
<1> QED
  BY <1>1, <1>2

LEMMA BaseMulSame ==
    ASSUME NEW a, NEW b, Within(a, -32768, 32767), Within(b, -1664, 1664)
    PROVE  Same(BaseMul(a, b), Scaled(169, Prod(a, b)))
<1>1. /\ a \in Polynomials /\ b \in Polynomials
      /\ \A j \in Index : Short(a[j]) /\ Small(b[j])
  BY SMT DEF Within, Polynomials, Small, Short
<1>2. \A i \in Index : Cong(BaseMul(a, b)[i], 169 * Prod(a, b)[i])
  BY <1>1, BaseMulCong
<1>3. BaseMul(a, b) \in Polynomials
  BY BaseMulBound DEF Within, Polynomials
<1>4. Scaled(169, Prod(a, b)) \in Polynomials
  <2>1. 169 \in Int
    BY SMT
  <2> QED
    BY <1>1, <2>1, ProdType, ScaledType
<1>5. \A i \in Index : Scaled(169, Prod(a, b))[i] = 169 * Prod(a, b)[i]
  BY DEF Scaled
<1> QED
  BY <1>2, <1>3, <1>4, <1>5 DEF Same

------------------------------------------------------------------------------
(* Induction *)

(***************************************************************************)
(* Induction, as a fact about sets of numbers.                             *)
(***************************************************************************)
LEMMA LeastElement ==
    ASSUME NEW T \in SUBSET Nat, T # {}
    PROVE  \E x \in T : \A y \in T : x <= y
<1> DEFINE Less == {ss \in Nat \X Nat : ss[1] < ss[2]}
<1>1. Less = OpToRel(<, Nat)
  BY Zenon DEF OpToRel
<1>2. IsWellFoundedOn(Less, Nat)
  BY <1>1, NatLessThanWellFounded, Zenon
<1>3. PICK x \in T : \A y \in T : ~ (<<y, x>> \in Less)
  <2> HIDE DEF Less
  <2> QED
    BY <1>2, WFMin
<1>4. \A y \in T : ~ (y < x)
  BY <1>3
<1> QED
  BY <1>4

LEMMA SetInduction ==
    ASSUME NEW S, 0 \in S, \A n \in Nat : n \in S => n + 1 \in S
    PROVE  Nat \subseteq S
<1> SUFFICES ASSUME Nat \ S # {} PROVE FALSE
  OBVIOUS
<1>1. PICK x \in Nat \ S : \A y \in Nat \ S : x <= y
  BY LeastElement
<1>2. x - 1 \in Nat /\ x - 1 \in S
  BY <1>1
<1> QED
  BY <1>2

------------------------------------------------------------------------------
(* The lengths of blocks *)

LEMMA LensFacts ==
    /\ LayerLens = {l \in Lens : l <= N} /\ N \in LayerLens /\ 2 \in LayerLens
    /\ \A l \in LayerLens : l # N => 2 * l \in LayerLens /\ l < N
    /\ \A l \in LayerLens : l # 2 => l \div 2 \in LayerLens /\ l \div 2 < N
<1>1. LayerLens = {l \in Lens : l <= N}
  BY DEF LayerLens, Lens
<1>2. N \in {8, 16, 32, 64, 128, 256}
  BY SizeAssumption
<1>3. N \in LayerLens /\ 2 \in LayerLens
  BY SMT, <1>1, <1>2 DEF Lens
<1>4. \A l \in LayerLens : l # N => 2 * l \in LayerLens /\ l < N
  BY SMT, <1>1, <1>2 DEF Lens
<1>5. \A l \in LayerLens : l # 2 => l \div 2 \in LayerLens /\ l \div 2 < N
  BY SMT, <1>1, <1>2 DEF Lens
<1> QED
  BY <1>1, <1>3, <1>4, <1>5

\* Lengths that follow each other: none lies between.
LEMMA LensDouble ==
    \A m, l \in Lens : /\ (2 * m \in Lens /\ l >= m) => l = m \/ l >= 2 * m
                       /\ (2 * m \in Lens /\ l <= 2 * m) => l = 2 * m \/ l <= m
                       /\ 2 <= l /\ l <= 256
BY SMT DEF Lens

LEMMA LensHalf ==
    \A m, l \in Lens : /\ m # 256 => 2 * m \in Lens /\ (2 * m) \div 2 = m /\ 2 * m # 2
                       /\ (l <= 2 * m /\ l # 2 * m) => l <= m
                       /\ (l <= m /\ l # 2) => l \div 2 # 2 * m
                       /\ l <= 2 => l = 2
                       /\ m # 2 * m
BY SMT DEF Lens

\* Induction over the lengths, either way.
LEMMA Downwards ==
    ASSUME NEW S, 256 \in S, \A m \in Lens : 2 * m \in S => m \in S
    PROVE  Lens \subseteq S
<1>1. 128 \in S
  BY 2 * 128 = 256 DEF Lens
<1>2. 64 \in S
  BY <1>1, 2 * 64 = 128 DEF Lens
<1>3. 32 \in S
  BY <1>2, 2 * 32 = 64 DEF Lens
<1>4. 16 \in S
  BY <1>3, 2 * 16 = 32 DEF Lens
<1>5. 8 \in S
  BY <1>4, 2 * 8 = 16 DEF Lens
<1>6. 4 \in S
  BY <1>5, 2 * 4 = 8 DEF Lens
<1>7. 2 \in S
  BY <1>6, 2 * 2 = 4 DEF Lens
<1> QED
  BY <1>1, <1>2, <1>3, <1>4, <1>5, <1>6, <1>7 DEF Lens

LEMMA Upwards ==
    ASSUME NEW S, 2 \in S, \A m \in Lens : m \in S /\ m # 256 => 2 * m \in S
    PROVE  Lens \subseteq S
<1>1. 4 \in S
  BY 2 * 2 = 4 DEF Lens
<1>2. 8 \in S
  BY <1>1, 2 * 4 = 8 DEF Lens
<1>3. 16 \in S
  BY <1>2, 2 * 8 = 16 DEF Lens
<1>4. 32 \in S
  BY <1>3, 2 * 16 = 32 DEF Lens
<1>5. 64 \in S
  BY <1>4, 2 * 32 = 64 DEF Lens
<1>6. 128 \in S
  BY <1>5, 2 * 64 = 128 DEF Lens
<1>7. 256 \in S
  BY <1>6, 2 * 128 = 256 DEF Lens
<1> QED
  BY <1>1, <1>2, <1>3, <1>4, <1>5, <1>6, <1>7 DEF Lens

LEMMA LensIn ==
    /\ N \in LayerLens /\ 2 \in LayerLens
    /\ \A l \in LayerLens : l \in Lens /\ l <= N
    /\ \A l \in LayerLens : l # N => l < N /\ 2 * l \in LayerLens /\ 2 * l <= N
BY LensFacts

------------------------------------------------------------------------------
(* The transform as a relation, modulo q *)

(***************************************************************************)
(* y is what the layers of the transform make of x, up to multiples of q.  *)
(***************************************************************************)
Path(a) ==
    /\ \A l \in LayerLens : a[l] \in Polynomials
    /\ \A l \in LayerLens : l # N => Same(a[l], Layer(a[2 * l], l))

Transforms(x, y) == \E a : Path(a) /\ Same(a[N], x) /\ Same(a[2], y)

LEMMA TransformsType ==
    ASSUME NEW x, NEW y, Transforms(x, y)
    PROVE  x \in Polynomials /\ y \in Polynomials
BY DEF Transforms, Same

LEMMA TransformsSame ==
    ASSUME NEW x, NEW y, NEW v, NEW w, Transforms(x, y), Same(x, v), Same(y, w)
    PROVE  Transforms(v, w)
<1>1. PICK a : Path(a) /\ Same(a[N], x) /\ Same(a[2], y)
  BY DEF Transforms
<1>2. Same(a[N], v) /\ Same(a[2], w)
  BY <1>1, SameTrans
<1> QED
  BY <1>1, <1>2 DEF Transforms

LEMMA TransformsPlus ==
    ASSUME NEW x, NEW y, NEW v, NEW w, NEW c \in Int,
           Transforms(x, y), Transforms(v, w)
    PROVE  Transforms(Plus(x, c, v), Plus(y, c, w))
<1>1. PICK a : Path(a) /\ Same(a[N], x) /\ Same(a[2], y)
  BY DEF Transforms
<1>2. PICK b : Path(b) /\ Same(b[N], v) /\ Same(b[2], w)
  BY DEF Transforms
<1> DEFINE d == [l \in LayerLens |-> Plus(a[l], c, b[l])]
<1>3. \A l \in LayerLens : d[l] = Plus(a[l], c, b[l]) /\ d[l] \in Polynomials
  BY <1>1, <1>2, PlusType DEF Path
<1> HIDE DEF d
<1>4. ASSUME NEW l \in LayerLens, l # N
      PROVE  Same(d[l], Layer(d[2 * l], l))
  <2>1. l \in Lens /\ l < N /\ 2 * l \in LayerLens
    BY <1>4, LensIn
  <2>2. a[2 * l] \in Polynomials /\ b[2 * l] \in Polynomials
    BY <1>1, <1>2, <2>1 DEF Path
  <2>3. Layer(d[2 * l], l) = Plus(Layer(a[2 * l], l), c, Layer(b[2 * l], l))
    BY <1>3, <2>1, <2>2, LayerPlus
  <2>4. Same(a[l], Layer(a[2 * l], l)) /\ Same(b[l], Layer(b[2 * l], l))
    BY <1>1, <1>2, <1>4 DEF Path
  <2> QED
    BY <1>3, <2>3, <2>4, PlusSame
<1>5. Same(d[N], Plus(x, c, v)) /\ Same(d[2], Plus(y, c, w))
  BY <1>1, <1>2, <1>3, LensIn, PlusSame
<1> QED
  BY <1>3, <1>4, <1>5 DEF Transforms, Path

LEMMA TransformsShift ==
    ASSUME NEW x, NEW y, Transforms(x, y)
    PROVE  Transforms(Shift(x, N), Shift(y, 2))
<1>1. PICK a : Path(a) /\ Same(a[N], x) /\ Same(a[2], y)
  BY DEF Transforms
<1> DEFINE d == [l \in LayerLens |-> Shift(a[l], l)]
<1>2. \A l \in LayerLens : d[l] = Shift(a[l], l) /\ d[l] \in Polynomials
  BY <1>1, ShiftType, LensIn DEF Path
<1> HIDE DEF d
<1>3. ASSUME NEW l \in LayerLens, l # N
      PROVE  Same(d[l], Layer(d[2 * l], l))
  <2>1. l \in Lens /\ l < N /\ l <= N /\ 2 * l \in LayerLens
    BY <1>3, LensIn
  <2>2. Same(Layer(d[2 * l], l), Shift(Layer(a[2 * l], l), l))
    BY <1>1, <1>2, <2>1, LayerShift DEF Path
  <2>3. Same(d[l], Shift(Layer(a[2 * l], l), l))
    BY <1>1, <1>2, <1>3, <2>1, ShiftSame DEF Path
  <2> QED
    BY <2>2, <2>3, SameSym, SameTrans
<1>4. Same(d[N], Shift(x, N)) /\ Same(d[2], Shift(y, 2))
  BY <1>1, <1>2, LensIn, ShiftSame
<1> QED
  BY <1>2, <1>3, <1>4 DEF Transforms, Path

LEMMA OneType == \A l : One(l) \in Polynomials
BY DEF One, Polynomials

LEMMA TransformsOne == Transforms(One(N), One(2))
<1> DEFINE d == [l \in LayerLens |-> One(l)]
<1>1. \A l \in LayerLens : d[l] = One(l) /\ d[l] \in Polynomials
  BY OneType
<1> HIDE DEF d
<1>2. \A l \in LayerLens : l # N => d[l] = Layer(d[2 * l], l)
  BY <1>1, LensIn, LayerOne
<1> QED
  BY <1>1, <1>2, LensIn, SameRefl DEF Transforms, Path

\* Nothing but the transform of a polynomial is transformed to it, ...
LEMMA TransformsOnto ==
    ASSUME NEW x, NEW y, NEW w, Transforms(x, y), Transforms(x, w)
    PROVE  Same(y, w)
<1>1. PICK a : Path(a) /\ Same(a[N], x) /\ Same(a[2], y)
  BY DEF Transforms
<1>2. PICK b : Path(b) /\ Same(b[N], x) /\ Same(b[2], w)
  BY DEF Transforms
<1> DEFINE S == {l \in Lens : l \in LayerLens => Same(a[l], b[l])}
<1>3. Same(a[N], b[N])
  BY <1>1, <1>2, SameSym, SameTrans
<1>4. 256 \in S
  <2>1. 256 \in LayerLens => 256 = N
    BY LensFacts, SizeAssumption
  <2> QED
    BY <1>3, <2>1 DEF Lens
<1>5. ASSUME NEW l \in Lens, 2 * l \in S
      PROVE  l \in S
  <2> SUFFICES ASSUME l \in LayerLens, l # N PROVE Same(a[l], b[l])
    BY <1>3
  <2>1. l < N /\ 2 * l \in LayerLens
    BY LensIn
  <2>2. Same(Layer(a[2 * l], l), Layer(b[2 * l], l))
    BY <1>5, <2>1, LayerSame
  <2>3. Same(a[l], Layer(a[2 * l], l)) /\ Same(b[l], Layer(b[2 * l], l))
    BY <1>1, <1>2 DEF Path
  <2> QED
    BY <2>2, <2>3, SameSym, SameTrans
<1> HIDE DEF S
<1>6. 2 \in S
  BY <1>4, <1>5, Downwards DEF Lens
<1>7. Same(a[2], b[2])
  BY <1>6, LensIn DEF S
<1> QED
  BY <1>1, <1>2, <1>7, SameSym, SameTrans

\* ... and it is the transform of nothing else.
LEMMA TransformsOneToOne ==
    ASSUME NEW x, NEW v, NEW y, Transforms(x, y), Transforms(v, y)
    PROVE  Same(x, v)
<1>1. PICK a : Path(a) /\ Same(a[N], x) /\ Same(a[2], y)
  BY DEF Transforms
<1>2. PICK b : Path(b) /\ Same(b[N], v) /\ Same(b[2], y)
  BY DEF Transforms
<1> DEFINE S == {l \in Lens : l \in LayerLens => Same(a[l], b[l])}
<1>3. 2 \in S
  BY <1>1, <1>2, SameSym, SameTrans DEF Lens
<1>4. ASSUME NEW m \in Lens, m \in S, m # 256
      PROVE  2 * m \in S
  <2>1. 2 * m \in Lens /\ (2 * m) \div 2 = m /\ 2 * m # 2
    BY <1>4, LensHalf
  <2> SUFFICES ASSUME 2 * m \in LayerLens PROVE Same(a[2 * m], b[2 * m])
    BY <2>1
  <2>2. m \in LayerLens /\ m < N /\ m # N
    BY <2>1, LensFacts, SizeFacts
  <2>3. Same(a[m], Layer(a[2 * m], m)) /\ Same(b[m], Layer(b[2 * m], m))
    BY <1>1, <1>2, <2>2 DEF Path
  <2>4. Same(Layer(a[2 * m], m), Layer(b[2 * m], m))
    BY <1>4, <2>2, <2>3, SameSym, SameTrans
  <2>5. a[2 * m] \in Polynomials /\ b[2 * m] \in Polynomials
    BY <1>1, <1>2 DEF Path
  <2> QED
    BY <2>2, <2>4, <2>5, LayerInjective
<1> HIDE DEF S
<1>5. N \in S
  BY <1>3, <1>4, Upwards, SizeFacts
<1>6. Same(a[N], b[N])
  BY <1>5, LensIn DEF S
<1> QED
  BY <1>1, <1>2, <1>6, SameSym, SameTrans

Zero == [i \in Index |-> 0]

LEMMA Cancel ==
    ASSUME NEW x \in Polynomials
    PROVE  Plus(x, -1, x) = Zero /\ Zero \in Polynomials
<1>1. \A i \in Index : x[i] + (-1) * x[i] = 0
  BY SMT DEF Polynomials
<1> QED
  BY <1>1 DEF Plus, Zero, Polynomials

\* The zero polynomial is transformed to zero.
LEMMA TransformsZero == Transforms(Zero, Zero)
<1>1. Transforms(Plus(One(N), -1, One(N)), Plus(One(2), -1, One(2)))
  BY TransformsOne, TransformsPlus
<1> QED
  BY <1>1, OneType, Cancel

LEMMA ProdZero ==
    ASSUME NEW y \in Polynomials
    PROVE  Prod(Zero, y) = Zero
<1>1. Zero = Plus(y, -1, y) /\ Prod(y, y) \in Polynomials
  BY Cancel, ProdType
<1>2. Prod(Zero, y) = Plus(Prod(y, y), -1, Prod(y, y))
  BY <1>1, ProdPlus
<1> QED
  BY <1>1, <1>2, Cancel

------------------------------------------------------------------------------
(* Factors *)

LEMMA ScaledTwice ==
    ASSUME NEW c \in Int, NEW d \in Int, NEW x \in Polynomials
    PROVE  Scaled(c, Scaled(d, x)) = Scaled(c * d, x)
<1>1. \A i \in Index : c * (d * x[i]) = (c * d) * x[i]
  BY SMT DEF Polynomials
<1> QED
  BY <1>1 DEF Scaled

LEMMA ScaledOne == \A x \in Polynomials : Scaled(1, x) = x
<1> SUFFICES ASSUME NEW x \in Polynomials PROVE Scaled(1, x) = x
  OBVIOUS
<1>1. \A i \in Index : 1 * x[i] = x[i]
  BY SMT DEF Polynomials
<1> QED
  BY <1>1 DEF Scaled, Polynomials

LEMMA ScaledLayer ==
    ASSUME NEW l \in Lens, l < N, NEW c \in Int, NEW x \in Polynomials
    PROVE  Layer(Scaled(c, x), l) = Scaled(c, Layer(x, l))
<1>1. ASSUME NEW i \in Index
      PROVE  Layer(Scaled(c, x), l)[i] = Scaled(c, Layer(x, l))[i]
  <2>1. Root(i, l) \in Int
    BY RootType, SizeFacts DEF Lens
  <2>2. CASE LowHalf(i, l)
    <3>1. i + l \in Index
      BY <2>2, BlockPlaces
    <3>2. PICK p, u, v \in Int : p = Root(i, l) /\ u = x[i] /\ v = x[i + l]
      BY <2>1, <3>1 DEF Polynomials
    <3>3. c * u + p * (c * v) = c * (u + p * v)
      BY SMT, <3>2
    <3> QED
      BY <2>2, <3>1, <3>2, <3>3 DEF Layer, Scaled
  <2>3. CASE ~ LowHalf(i, l)
    <3>1. i - l \in Index
      BY <2>3, BlockPlaces
    <3>2. PICK p, u, v \in Int : p = Root(i, l) /\ u = x[i - l] /\ v = x[i]
      BY <2>1, <3>1 DEF Polynomials
    <3>3. c * u + p * (c * v) = c * (u + p * v)
      BY SMT, <3>2
    <3> QED
      BY <2>3, <3>1, <3>2, <3>3 DEF Layer, Scaled
  <2> QED
    BY <2>2, <2>3
<1> QED
  BY <1>1 DEF Layer, Scaled

LEMMA OneOverR == 169 \in Int /\ R \in Int /\ Cong(R * 169, 1)
<1>1. R * 169 \in Int /\ 3327 \in Int /\ R * 169 = 1 + 3327 * Q /\ 169 \in Int /\ R \in Int
  BY SMT DEF R, Q
<1> QED
  BY <1>1, CongIntro

\* What the layers that are still to be undone have made of a coefficient.
Gain(l) == (N \div l) * (169 * InvF)

LEMMA GainFacts ==
    /\ \A l \in LayerLens : /\ Gain(l) \in Int
                            /\ l # N => Gain(l) = Gain(2 * l) * 2
    /\ Gain(N) = 169 * InvF /\ Cong(Gain(2), R)
<1>1. InvF \in Int /\ 169 * InvF \in Int
  BY SMT, FactorAssumption
<1>2. \A l \in LayerLens : N \div l \in Int /\ (l # N => N \div l = 2 * (N \div (2 * l)))
                           /\ N \div (2 * l) \in Int
  BY SMTT(60), SizeAssumption DEF LayerLens
<1>3. N \div N = 1 /\ N \div 2 \in Int
  BY SMT, SizeAssumption
<1>4. ASSUME NEW l \in LayerLens
      PROVE  Gain(l) \in Int /\ (l # N => Gain(l) = Gain(2 * l) * 2)
  <2>1. PICK c \in Int : c = 169 * InvF
    BY <1>1
  <2>2. PICK u, v \in Int : u = N \div l /\ v = N \div (2 * l) /\ (l # N => u = 2 * v)
    BY <1>2
  <2>3. Gain(l) = u * c /\ Gain(2 * l) = v * c
    BY <2>1, <2>2 DEF Gain
  <2> QED
    BY SMT, <2>2, <2>3
<1>5. Gain(N) = 169 * InvF
  BY SMT, <1>1, <1>3 DEF Gain
<1>6. Cong(Gain(2), R)
  <2>1. PICK h, k \in Int : h = N \div 2 /\ InvF * h - 1353 = k * 3329
    <3>1. PICK h \in Int : h = N \div 2
      BY <1>3
    <3>2. PICK z \in Int : z = InvF * h - 1353
      BY SMT, <1>1, <3>1
    <3>3. z % 3329 = 0
      BY <3>1, <3>2, ScaleAssumption DEF Q
    <3>4. z = (z \div 3329) * 3329 /\ z \div 3329 \in Int
      BY SMT, <3>3
    <3> QED
      BY <3>1, <3>2, <3>4
  <2>2. PICK j \in Int : j = 169 * k + 49
    BY SMT, <2>1
  <2>3. Gain(2) = R + j * Q /\ Gain(2) \in Int /\ R \in Int
    <3>1. Gain(2) = h * (169 * InvF)
      BY <2>1 DEF Gain
    <3>2. InvF * h = 1353 + k * 3329
      BY SMT, <1>1, <2>1
    <3>3. h * (169 * InvF) = 169 * (InvF * h)
      BY SMT, <1>1, <2>1
    <3>4. PICK g \in Int : g = InvF * h
      BY SMT, <1>1, <2>1
    <3>5. 169 * g = 65536 + j * 3329
      BY SMT, <2>1, <2>2, <3>2, <3>4
    <3> QED
      BY SMT, <3>1, <3>3, <3>4, <3>5 DEF R, Q
  <2> QED
    BY <2>2, <2>3, CongIntro
<1> QED
  BY <1>4, <1>5, <1>6
==============================================================================

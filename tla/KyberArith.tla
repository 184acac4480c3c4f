------------------------------ MODULE KyberArith ------------------------------
(***************************************************************************)
(* firmware/components/mlkem768/src/ref: the arithmetic of ML-KEM-768 on   *)
(* int16_t arrays, with the code's own constants.  A polynomial is a       *)
(* function from 0..N - 1.  \div and % round down, as the code's shifts of *)
(* signed integers do; every store into an int16_t wraps.                  *)
(***************************************************************************)
EXTENDS Integers

CONSTANTS
    N,       \* KYBER_N (256): a power of two
    InvF     \* invntt's f: mont^2 / (N / 2) (1441)

Q == 3329
QINV == -3327
R == 65536

ASSUME SizeAssumption == N \in {8, 16, 32, 64, 128, 256}

\* const int16_t f
ASSUME FactorAssumption == InvF \in Int /\ -32768 <= InvF /\ InvF <= 32767

\* It undoes what the butterflies multiply by.
ASSUME ScaleAssumption == (InvF * (N \div 2) - 1353) % Q = 0

Index == 0..N - 1

zetas == <<
  -1044,  -758,  -359, -1517,  1493,  1422,   287,   202,
   -171,   622,  1577,   182,   962, -1202, -1474,  1468,
    573, -1325,   264,   383,  -829,  1458, -1602,  -130,
   -681,  1017,   732,   608, -1542,   411,  -205, -1571,
   1223,   652,  -552,  1015, -1293,  1491,  -282, -1544,
    516,    -8,  -320,  -666, -1618, -1162,   126,  1469,
   -853,   -90,  -271,   830,   107, -1421,  -247,  -951,
   -398,   961, -1508,  -725,   448, -1065,   677, -1275,
  -1103,   430,   555,   843, -1251,   871,  1550,   105,
    422,   587,   177,  -235,  -291,  -460,  1574,  1653,
   -246,   778,  1159,  -147,  -777,  1483,  -602,  1119,
  -1590,   644,  -872,   349,   418,   329,  -156,   -75,
    817,  1097,   603,   610,  1322, -1285, -1465,   384,
  -1215,  -136,  1218, -1335,  -874,   220, -1187, -1659,
  -1185, -1530, -1278,   794, -1510,  -854,  -870,   478,
   -108,  -308,   996,   991,   958, -1460,  1522,  1628 >>

Zeta(k) == zetas[k + 1]

------------------------------------------------------------------------------
(* reduce_ref.c *)

\* A conversion to int16_t.
Int16(x) == ((x + 32768) % 65536) - 32768

MontgomeryReduce(a) ==
    LET t == Int16(Int16(a) * QINV)
    IN  Int16((a - t * Q) \div R)

BarrettReduce(a) ==
    LET t == (20159 * a + 33554432) \div 67108864
    IN  Int16(a - Int16(t * Q))

------------------------------------------------------------------------------
(* ntt_ref.c *)

FqMul(a, b) == MontgomeryReduce(a * b)

\* The values len takes, and N.
LayerLens == {l \in {2, 4, 8, 16, 32, 64, 128, 256} : l <= N}

\* The block of 2 * len coefficients that i lies in, and its zeta.
BlockOf(i, len) == i \div (2 * len)

ForwardZeta(i, len) == Zeta(N \div (2 * len) + BlockOf(i, len))

\* k counts down from the end of the table.
\* A bug: it counts up within a layer.
InverseZetaUpwards(i, len) == Zeta(N \div (2 * len) + BlockOf(i, len))

InverseZeta(i, len) == Zeta(N \div len - 1 - BlockOf(i, len))

LowHalf(i, len) == i % (2 * len) < len

\* One round of ntt's outer loop.
NttLayer(r, len) ==
    [i \in Index |->
        IF LowHalf(i, len)
        THEN Int16(r[i] + FqMul(ForwardZeta(i, len), r[i + len]))
        ELSE Int16(r[i - len] - FqMul(ForwardZeta(i, len), r[i]))]

\* One round of invntt's outer loop.
\* A bug: the sum is stored without a reduction.
InvNttLayerLazy(r, len) ==
    [i \in Index |->
        IF LowHalf(i, len) THEN Int16(r[i] + r[i + len])
        ELSE FqMul(InverseZeta(i, len), Int16(r[i] - r[i - len]))]

InvNttLayer(r, len) ==
    [i \in Index |->
        IF LowHalf(i, len) THEN BarrettReduce(Int16(r[i] + r[i + len]))
        ELSE FqMul(InverseZeta(i, len), Int16(r[i] - r[i - len]))]

\* invntt's last loop.
Scale(r) == [i \in Index |-> FqMul(r[i], InvF)]

\* basemul and poly_basemul_montgomery: pairs of coefficients modulo
\* X^2 - zeta, X^2 + zeta in turn.
PairZeta(i) ==
    IF i % 4 < 2 THEN Zeta(N \div 4 + i \div 4) ELSE - Zeta(N \div 4 + i \div 4)

BaseMul(a, b) ==
    [i \in Index |->
        IF i % 2 = 0
        THEN Int16(FqMul(FqMul(a[i + 1], b[i + 1]), PairZeta(i))
                       + FqMul(a[i], b[i]))
        ELSE Int16(FqMul(a[i - 1], b[i]) + FqMul(a[i], b[i - 1]))]

------------------------------------------------------------------------------
(* poly_ref.c *)

PolyReduce(r) == [i \in Index |-> BarrettReduce(r[i])]

PolyToMont(r) == [i \in Index |-> MontgomeryReduce(r[i] * 1353)]

PolyAdd(a, b) == [i \in Index |-> Int16(a[i] + b[i])]

PolySub(a, b) == [i \in Index |-> Int16(a[i] - b[i])]

\* u += (u >> 15) & KYBER_Q
Positive(u) == (IF u < 0 THEN u + Q ELSE u) % R

\* (x * m) >> 24, by bytes of x: the product would not fit 32 bits.
MulShift24(x, m) ==
    ((((x % 256) * m) \div 256 + ((x \div 256) % 256) * m) \div 256
         + (x \div 65536) * m) \div 256

\* poly_compress for four bits, polyvec_compress for ten.
\* A bug: half of q is not added before the division.
Compress4Truncates(u) == (MulShift24(Positive(u) * 16, 80635) \div 16) % 16

Compress4(u) == (MulShift24(Positive(u) * 16 + 1665, 80635) \div 16) % 16

Compress10(u) ==
    (MulShift24(Positive(u) * 1024 + 1665, 1290167) \div 256) % 1024

Decompress4(t) == (t * Q + 8) \div 16

Decompress10(t) == (t * Q + 512) \div 1024

\* poly_frommsg and poly_tomsg; what poly_tomsg is given may be negative.
FromMsg(m) == [i \in Index |-> IF m[i] = 1 THEN (Q + 1) \div 2 ELSE 0]

\* A bug: half of q is not added before the division.
ToMsgBitTruncates(a) == (MulShift24(2 * a, 80635) \div 16) % 2

ToMsgBit(a) == (MulShift24(2 * a + 1665, 80635) \div 16) % 2

ToMsg(a) == [i \in Index |-> ToMsgBit(a[i])]

\* poly_tobytes and poly_frombytes: two coefficients in three bytes.
ToBytes(a) ==
    [k \in 0..((3 * N) \div 2) - 1 |->
        LET t0 == Positive(a[2 * (k \div 3)])
            t1 == Positive(a[2 * (k \div 3) + 1])
        IN  IF k % 3 = 0 THEN t0 % 256
            ELSE IF k % 3 = 1 THEN (t0 \div 256 + t1 * 16) % 256
            ELSE (t1 \div 16) % 256]

FromBytes(c) ==
    [i \in Index |->
        LET k == 3 * (i \div 2)
        IN  IF i % 2 = 0 THEN (c[k] + c[k + 1] * 256) % 4096
            ELSE (c[k + 1] \div 16 + c[k + 2] * 16) % 4096]

\* The bytes poly_compress and polyvec_compress write, and their readers.
Pack4(t) ==
    [k \in 0..N \div 2 - 1 |-> (t[2 * k] + t[2 * k + 1] * 16) % 256]

Unpack4(c) ==
    [i \in Index |-> IF i % 2 = 0 THEN c[i \div 2] % 16 ELSE c[i \div 2] \div 16]

Pack10(t) ==
    [k \in 0..((5 * N) \div 4) - 1 |->
        LET u(j) == t[4 * (k \div 5) + j]
        IN  IF k % 5 = 0 THEN u(0) % 256
            ELSE IF k % 5 = 1 THEN (u(0) \div 256 + u(1) * 4) % 256
            ELSE IF k % 5 = 2 THEN (u(1) \div 64 + u(2) * 16) % 256
            ELSE IF k % 5 = 3 THEN (u(2) \div 16 + u(3) * 64) % 256
            ELSE (u(3) \div 4) % 256]

Unpack10(c) ==
    [i \in Index |->
        LET b(j) == c[5 * (i \div 4) + j]
        IN  IF i % 4 = 0 THEN (b(0) + b(1) * 256) % 1024
            ELSE IF i % 4 = 1 THEN (b(1) \div 4 + b(2) * 64) % 1024
            ELSE IF i % 4 = 2 THEN (b(2) \div 16 + b(3) * 16) % 1024
            ELSE (b(3) \div 64 + b(4) * 4) % 1024]

------------------------------------------------------------------------------
(* cbd_ref.c: cbd2 on the four random bits of one coefficient *)

Cbd2(x) ==
    LET bit(j) == (x \div 2 ^ j) % 2 IN  bit(0) + bit(1) - bit(2) - bit(3)

------------------------------------------------------------------------------
(* Residues, in which properties are stated *)

Mod(x) == x % Q

\* The distance of two residues.
Distance(x, y) == LET d == Mod(x - y) IN IF d > Q \div 2 THEN Q - d ELSE d
==============================================================================

------------------------------ MODULE KyberRing -------------------------------
(***************************************************************************)
(* The passes ML-KEM-768 makes over a polynomial, one action each: the     *)
(* layers of the transform and of its inverse with a product in between,   *)
(* and the ways a polynomial is written to bytes and read again.  The      *)
(* reference is the algebra: remainders modulo X^len - root, the product   *)
(* modulo X^N + 1, rounding to the nearest multiple.                       *)
(***************************************************************************)
EXTENDS KyberArith

CONSTANT
    Cases        \* which inputs, 0..13: together they hold every residue

ASSUME CasesAssumption == Cases \subseteq 0..13

VARIABLES
    stage,       \* the pass that was made last
    len,         \* length of the blocks the transform has reached
    input,       \* history: the two polynomials or the message begun with
    left, right, \* the int16_t arrays
    bytes,       \* a serialised polynomial
    product      \* history: input.a * input.b modulo X^N + 1

vars == <<stage, len, input, left, right, bytes, product>>

transform == <<len, right, product>>

None == [i \in {} |-> 0]

\* What is multiplied: what decompression or sampling gives (0..q - 1) and
\* reduced or centred values, the extremes among them.
Sampled(c) == [i \in Index |-> Mod(256 * c + i)]
Centred(c) == [i \in Index |-> Mod(97 * i * i + 31 * c) - 1664]
Noise(c) == [i \in Index |-> ((i * i + c) % 5) - 2]
Extreme(c) == [i \in Index |-> IF (i \div (c + 1)) % 2 = 0 THEN 3328 ELSE 0]

\* Message bits and the errors they are read with: just under a quarter of q.
Error(c) == [i \in Index |-> ((256 * c + i) % 1663) - 831]
Message(c) == [i \in Index |-> IF 256 * c + i < 1663 THEN 0 ELSE 1]

Init ==
    \E c \in Cases :
        /\ \/ /\ stage = "ntt"
              /\ \/ input = [a |-> Sampled(c), b |-> Noise(c)]
                 \/ input = [a |-> Extreme(c), b |-> Centred(c)]
              /\ left = input.a
              /\ right = input.b
           \/ /\ stage \in {"polynomial", "message"}
              /\ input = IF stage = "message"
                         THEN [a |-> Message(c), b |-> Error(c)]
                         ELSE [a |-> PolyReduce(Sampled(c)), b |-> None]
              /\ left = input.a
              /\ right = None
        /\ len = N
        /\ bytes = None
        /\ product = None

------------------------------------------------------------------------------
(* Transform and product *)

\* ntt, one layer.
Ntt ==
    /\ stage = "ntt"
    /\ len > 2
    /\ len' = len \div 2
    /\ left' = NttLayer(left, len')
    /\ right' = NttLayer(right, len')
    /\ UNCHANGED <<stage, input, bytes, product>>

\* poly_ntt's reduction.
ReduceBoth ==
    /\ stage = "ntt"
    /\ len = 2
    /\ stage' = "reduced"
    /\ left' = PolyReduce(left)
    /\ right' = PolyReduce(right)
    /\ UNCHANGED <<len, input, bytes, product>>

\* f(0) + ... + f(n - 1)
SumBelow(n, f(_)) ==
    LET sum[m \in 0..n] == IF m = 0 THEN 0 ELSE sum[m - 1] + f(m - 1)
    IN  sum[n]

\* The reference product modulo X^N + 1, coefficient by coefficient.
NegacyclicProduct(a, b) ==
    [i \in Index |->
        Mod(SumBelow(N, LAMBDA j : IF j <= i THEN Mod(a[j] * b[i - j])
                                   ELSE - Mod(a[j] * b[N + i - j])))]

\* polyvec_basemul_acc_montgomery for one pair.
Multiply ==
    /\ stage = "reduced"
    /\ stage' = "invntt"
    /\ left' = PolyReduce(BaseMul(left, right))
    /\ product' = NegacyclicProduct(input.a, input.b)
    /\ right' = None
    /\ UNCHANGED <<len, input, bytes>>

\* invntt, one layer.
InvNtt ==
    /\ stage = "invntt"
    /\ len < N
    /\ left' = InvNttLayer(left, len)
    /\ len' = 2 * len
    /\ UNCHANGED <<stage, input, right, bytes, product>>

ScaleBack ==
    /\ stage = "invntt"
    /\ len = N
    /\ stage' = "product"
    /\ left' = Scale(left)
    /\ UNCHANGED <<len, input, right, bytes, product>>

------------------------------------------------------------------------------
(* Bytes *)

\* poly_tobytes, poly_compress, polyvec_compress.
Write ==
    /\ stage = "polynomial"
    /\ \/ /\ stage' = "whole"
          /\ bytes' = ToBytes(left)
       \/ /\ stage' = "four bits"
          /\ bytes' = Pack4([i \in Index |-> Compress4(left[i])])
       \/ /\ stage' = "ten bits"
          /\ bytes' = Pack10([i \in Index |-> Compress10(left[i])])
    /\ left' = None
    /\ UNCHANGED <<input, transform>>

\* poly_frombytes, poly_decompress, polyvec_decompress.
Read ==
    /\ left = None
    /\ \/ /\ stage = "whole"
          /\ stage' = "read whole"
          /\ left' = FromBytes(bytes)
       \/ /\ stage = "four bits"
          /\ stage' = "read four bits"
          /\ left' = [i \in Index |-> Decompress4(Unpack4(bytes)[i])]
       \/ /\ stage = "ten bits"
          /\ stage' = "read ten bits"
          /\ left' = [i \in Index |-> Decompress10(Unpack10(bytes)[i])]
    /\ UNCHANGED <<input, bytes, transform>>

\* poly_frommsg, then what encryption and decryption add to it.
Encode ==
    /\ stage = "message"
    /\ stage' = "noisy"
    /\ left' = PolyReduce(PolyAdd(FromMsg(left), input.b))
    /\ UNCHANGED <<input, bytes, transform>>

\* poly_tomsg
Decode ==
    /\ stage = "noisy"
    /\ stage' = "decoded"
    /\ left' = ToMsg(left)
    /\ UNCHANGED <<input, bytes, transform>>

------------------------------------------------------------------------------
Next ==
    \/ Ntt \/ ReduceBoth \/ Multiply \/ InvNtt \/ ScaleBack
    \/ Write \/ Read \/ Encode \/ Decode

Spec == Init /\ [][Next]_vars

------------------------------------------------------------------------------
(* The reference *)

\* 17 ^ e modulo q; 17 ^ 128 is -1.
PowerOf17 ==
    LET p[e \in 0..255] ==
            IF e = 0 THEN 1
            ELSE LET half == p[e \div 2]
                 IN  Mod(Mod(half * half) * (IF e % 2 = 1 THEN 17 ELSE 1))
    IN  p

\* The tree of factors of X^N - 17^128: node k, X^2l - 17^e, is the product of
\* node 2k, X^l - 17^(e/2), and node 2k + 1, X^l - 17^(e/2 + 128).
RootExponent ==
    LET e[k \in 1..N - 1] ==
            IF k = 1 THEN 128 ELSE e[k \div 2] \div 2 + 128 * (k % 2)
    IN  e

RootOf(b, l) == PowerOf17[RootExponent[N \div l + b]]

\* Coefficient j of the remainder of p modulo X^l - w, where X^l is w.
Remainder(p, l, w, j) ==
    LET r[m \in 0..N \div l] ==
            IF m = 0 THEN 0 ELSE Mod(p[N - m * l + j] + w * r[m - 1])
    IN  r[N \div l]

\* r is p, block by block, times a factor.
IsTransform(r, p, factor) ==
    \A b \in 0..(N \div len) - 1, j \in 0..len - 1 :
        Mod(r[b * len + j]) = Mod(factor * Remainder(p, len, RootOf(b, len), j))

InvR == 169   \* 2^-16 modulo q

\* What montgomery_reduce takes.
Reducible(x) == - Q * 32768 <= x /\ x < Q * 32768

Between(r, lo, hi) == \A i \in DOMAIN r : lo <= r[i] /\ r[i] <= hi

------------------------------------------------------------------------------
(***************************************************************************)
(* After every layer the arrays hold the remainders of the polynomials     *)
(* they began with (ntt), of their product times len / 2 / R (invntt), and *)
(* in the end the product itself: the table of zetas, the order in which k *)
(* runs through it, the signs in basemul, f and every reduction fit        *)
(* together.  It would fail if an int16_t wrapped on the way.              *)
(***************************************************************************)
LayersAreRemainders ==
    /\ stage \in {"ntt", "reduced"} =>
           IsTransform(left, input.a, 1) /\ IsTransform(right, input.b, 1)
    /\ stage = "invntt" => IsTransform(left, product, (len \div 2) * InvR)
    /\ stage = "product" =>
           \A i \in Index : Mod(left[i]) = product[i]

(***************************************************************************)
(* Each pass leaves what the next one needs: seven additions without a     *)
(* reduction still fit an int16_t, poly_reduce centres, the products of    *)
(* basemul are "in {-q2^15,...,q2^15-1}" as montgomery_reduce asks, and    *)
(* invntt never grows beyond q.                                            *)
(***************************************************************************)
BoundsOfPasses ==
    /\ stage = "ntt" =>
           \E k \in 0..7 : /\ 2 ^ k * len = N
                           /\ Between(left, - k * Q, (k + 1) * (Q - 1))
    /\ stage \in {"reduced", "noisy"} => Between(left, -1664, 1664)
    /\ stage = "reduced" =>
           \A i, j \in Index : i \div 2 = j \div 2 => Reducible(left[i] * right[j])
    /\ stage \in {"invntt", "product"} => Between(left, 1 - Q, Q - 1)

(***************************************************************************)
(* What is read is what was written: exactly in 384 bytes, and within half *)
(* a step of the compression, rounded once, in 128 and 320 (the shifts and *)
(* masks of the packing, the divisions by multiplication, and the sign fix *)
(* before them).                                                           *)
(***************************************************************************)
ReadBack ==
    /\ stage = "read whole" =>
           \A i \in Index : left[i] = Mod(input.a[i])
    /\ stage = "read four bits" =>
           \A i \in Index : Distance(left[i], input.a[i]) <= 104
    /\ stage = "read ten bits" =>
           \A i \in Index : Distance(left[i], input.a[i]) <= 2

(***************************************************************************)
(* A message survives poly_tomsg whatever error of at most 831, which is   *)
(* just under q / 4, each coefficient carries (832 already flips a one).   *)
(***************************************************************************)
MessageSurvives == stage = "decoded" => left = input.a
==============================================================================

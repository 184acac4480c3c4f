---------------------------- MODULE KyberRingProofs ----------------------------
(***************************************************************************)
(* For every N and every polynomial of a run: the passes of the transform  *)
(* stay within what the next one takes, and what is written is read back.  *)
(* Then what the passes compute: the remainders by the factors of X^N + 1, *)
(* which the zetas are the roots of, and the product modulo X^N + 1.       *)
(***************************************************************************)
EXTENDS KyberRing, KyberArithProofs

------------------------------------------------------------------------------
(* The transform *)

\* The bounds after k layers of ntt.
Low(k) == - k * Q

High(k) == (k + 1) * (Q - 1)

Layers(k) ==
    /\ 2 ^ k * len = N
    /\ Within(left, Low(k), High(k))
    /\ Within(right, Low(k) - 1664, High(k))

TransformInv ==
    /\ stage = "ntt" => len \in Lens /\ len <= N /\ \E k \in 0..7 : Layers(k)
    /\ stage = "reduced" =>
           len = 2 /\ Within(left, -1664, 1664) /\ Within(right, -1664, 1664)
    /\ stage = "invntt" => len \in Lens /\ len <= N /\ Within(left, -3328, 3328)
    /\ stage = "product" => Within(left, -3328, 3328)

\* The residues and bounds of what a transform begins with.
LEMMA InputBounds ==
    ASSUME NEW c \in 0..13
    PROVE  /\ Within(Sampled(c), 0, 3328) /\ Within(Noise(c), -1664, 1664)
           /\ Within(Extreme(c), 0, 3328) /\ Within(Centred(c), -1664, 1664)
<1>1. \A x \in Int : x % 3329 \in Int /\ 0 <= x % 3329 /\ x % 3329 <= 3328
  BY SMT
<1>2. \A x \in Int : x % 5 \in Int /\ 0 <= x % 5 /\ x % 5 <= 4
  BY SMT
<1>3. \A i \in Index : i \in Int /\ i * i \in Int
  BY SMT, SizeFacts DEF Index
<1>4. Within(Sampled(c), 0, 3328)
  BY SMT, <1>1, <1>3 DEF Within, Sampled, Mod, Q
<1>5. Within(Noise(c), -1664, 1664)
  BY SMT, <1>2, <1>3 DEF Within, Noise
<1>6. Within(Extreme(c), 0, 3328)
  BY SMT DEF Within, Extreme
<1>7. Within(Centred(c), -1664, 1664)
  <2>1. \A i \in Index : 97 * i * i + 31 * c \in Int
    BY SMT, <1>3
  <2> DEFINE e(i) == Mod(97 * i * i + 31 * c) - 1664
  <2>2. \A i \in Index : e(i) \in Int /\ -1664 <= e(i) /\ e(i) <= 1664
    <3> SUFFICES ASSUME NEW i \in Index
                 PROVE  e(i) \in Int /\ -1664 <= e(i) /\ e(i) <= 1664
      OBVIOUS
    <3>1. PICK x \in Int : x = 97 * i * i + 31 * c
      BY <2>1
    <3>2. e(i) = (x % 3329) - 1664
      BY <3>1 DEF Mod, Q
    <3> HIDE DEF e
    <3> QED
      BY SMT, <1>1, <3>2
  <2>3. Centred(c) = [i \in Index |-> e(i)]
    BY DEF Centred
  <2> HIDE DEF e
  <2> QED
    BY SMT, <2>2, <2>3 DEF Within
<1> QED
  BY <1>4, <1>5, <1>6, <1>7

LEMMA WithinWider ==
    ASSUME NEW r, NEW lo \in Int, NEW hi \in Int, NEW low \in Int, NEW high \in Int,
           Within(r, lo, hi), low <= lo, hi <= high
    PROVE  Within(r, low, high)
BY SMT DEF Within

\* The bounds of each number of layers.
LEMMA LayerFacts ==
    \A k \in 0..7 : /\ Low(k) \in Int /\ High(k) \in Int
                    /\ -24967 <= Low(k) - 1664 /\ High(k) <= 26624
                    /\ k = 0 => Low(k) = 0 /\ High(k) = 3328
                    /\ k < 7 => /\ Low(k + 1) <= Low(k) - 3328
                                /\ High(k) + 3328 = High(k + 1)
BY SMT DEF Q, Low, High

LEMMA PowersOf2 ==
    \A k \in 0..7, l \in Lens :
        2 ^ k * l = N /\ l > 2 => /\ k < 7 /\ l \div 2 \in Lens /\ l \div 2 < N
                                  /\ l \div 2 <= N
                                  /\ 2 ^ (k + 1) * (l \div 2) = N
<1> SUFFICES ASSUME NEW k \in 0..7, NEW l \in Lens, 2 ^ k * l = N, l > 2
             PROVE  /\ k < 7 /\ l \div 2 \in Lens /\ l \div 2 < N /\ l \div 2 <= N
                    /\ 2 ^ (k + 1) * (l \div 2) = N
  OBVIOUS
<1>1. /\ 2 ^ 0 = 1 /\ 2 ^ 1 = 2 /\ 2 ^ 2 = 4 /\ 2 ^ 3 = 8
      /\ 2 ^ 4 = 16 /\ 2 ^ 5 = 32 /\ 2 ^ 6 = 64 /\ 2 ^ 7 = 128
  OBVIOUS
<1>2. l \div 2 \in Lens /\ l = 2 * (l \div 2) /\ l \in 4..256 /\ l \div 2 \in Int
  BY DEF Lens
<1>3. N \in 8..256
  BY SizeFacts
<1>4. CASE k = 0
  BY SMT, <1>1, <1>2, <1>3, <1>4
<1>5. CASE k = 1
  BY SMT, <1>1, <1>2, <1>3, <1>5
<1>6. CASE k = 2
  BY SMT, <1>1, <1>2, <1>3, <1>6
<1>7. CASE k = 3
  BY SMT, <1>1, <1>2, <1>3, <1>7
<1>8. CASE k = 4
  BY SMT, <1>1, <1>2, <1>3, <1>8
<1>9. CASE k = 5
  BY SMT, <1>1, <1>2, <1>3, <1>9
<1>10. CASE k = 6
  BY SMT, <1>1, <1>2, <1>3, <1>10
<1>11. CASE k = 7
  BY SMT, <1>1, <1>2, <1>3, <1>11
<1> QED
  BY <1>4, <1>5, <1>6, <1>7, <1>8, <1>9, <1>10, <1>11

LEMMA TransformInit == Init => TransformInv
<1> SUFFICES ASSUME Init PROVE TransformInv
  OBVIOUS
<1>1. PICK c \in Cases :
        /\ \/ /\ stage = "ntt"
              /\ \/ input = [a |-> Sampled(c), b |-> Noise(c)]
                 \/ input = [a |-> Extreme(c), b |-> Centred(c)]
              /\ left = input.a /\ right = input.b
           \/ stage \in {"polynomial", "message"}
        /\ len = N
  BY DEF Init
<1>2. c \in 0..13
  BY CasesAssumption
<1>3. CASE stage # "ntt"
  BY <1>1, <1>3 DEF TransformInv
<1>4. CASE stage = "ntt"
  <2>1. Within(left, 0, 3328) /\ Within(right, -1664, 1664)
    <3>1. CASE input = [a |-> Sampled(c), b |-> Noise(c)]
      BY <1>1, <1>2, <1>4, <3>1, InputBounds
    <3>2. CASE input = [a |-> Extreme(c), b |-> Centred(c)]
      BY <1>1, <1>2, <1>4, <3>2, InputBounds
    <3> QED
      BY <1>1, <1>4, <3>1, <3>2
  <2>2. Low(0) = 0 /\ High(0) = 3328 /\ Low(0) - 1664 = -1664
    BY LayerFacts
  <2>3. Within(right, -1664, 3328)
    <3>1. -1664 \in Int /\ 1664 \in Int /\ 3328 \in Int /\ -1664 <= -1664 /\ 1664 <= 3328
      OBVIOUS
    <3> QED
      BY <2>1, <3>1, WithinWider
  <2>4. 2 ^ 0 * len = N
    <3>1. 2 ^ 0 = 1
      OBVIOUS
    <3> QED
      BY <1>1, <3>1, SizeFacts
  <2>5. Layers(0)
    BY <2>1, <2>2, <2>3, <2>4 DEF Layers
  <2>6. len \in Lens /\ len <= N /\ 0 \in 0..7
    BY <1>1, SizeFacts
  <2> QED
    BY <1>4, <2>5, <2>6 DEF TransformInv
<1> QED
  BY <1>3, <1>4

LEMMA NttStep ==
    ASSUME TransformInv, Ntt
    PROVE  TransformInv'
<1>1. /\ stage = "ntt" /\ stage' = "ntt" /\ len > 2 /\ len' = len \div 2
      /\ left' = NttLayer(left, len') /\ right' = NttLayer(right, len')
  BY DEF Ntt
<1>2. PICK k \in 0..7 : Layers(k)
  BY <1>1 DEF TransformInv
<1>3. len \in Lens
  BY <1>1 DEF TransformInv
<1>4. /\ k < 7 /\ len' \in Lens /\ len' < N /\ len' <= N
      /\ 2 ^ (k + 1) * len' = N
  <2>1. 2 ^ k * len = N
    BY <1>2 DEF Layers
  <2>2. /\ k < 7 /\ len \div 2 \in Lens /\ len \div 2 < N /\ len \div 2 <= N
        /\ 2 ^ (k + 1) * (len \div 2) = N
    BY <1>1, <1>3, <2>1, PowersOf2, Zenon
  <2> QED
    BY <1>1, <2>2
<1>5. PICK lo \in Int : lo = Low(k)
  BY LayerFacts
<1>6. PICK hi \in Int : hi = High(k)
  BY LayerFacts
<1>7. PICK low \in Int : low = Low(k + 1)
  BY <1>4, LayerFacts
<1>8. /\ -24967 <= lo - 1664 /\ hi <= 26624 /\ lo - 3328 >= low
      /\ hi + 3328 = High(k + 1) /\ k + 1 \in 0..7
  BY <1>4, <1>5, <1>6, <1>7, LayerFacts
<1>9. Within(left', low, hi + 3328)
  <2>1. Within(left, lo, hi)
    BY <1>2, <1>5, <1>6 DEF Layers
  <2>2. Within(left', lo - 3328, hi + 3328)
    BY SMT, <1>1, <1>4, <1>8, <2>1, NttLayerBound
  <2> QED
    BY SMT, <1>7, <1>8, <2>2, WithinWider
<1>10. Within(right', low - 1664, hi + 3328)
  <2>1. PICK mid \in Int : mid = lo - 1664
    OBVIOUS
  <2>2. Within(right, mid, hi)
    BY <1>2, <1>5, <1>6, <2>1 DEF Layers
  <2>3. Within(right', mid - 3328, hi + 3328)
    BY SMT, <1>1, <1>4, <1>8, <2>1, <2>2, NttLayerBound
  <2> QED
    BY SMT, <1>7, <1>8, <2>1, <2>3, WithinWider
<1>11. Layers(k + 1)'
  BY <1>4, <1>7, <1>8, <1>9, <1>10 DEF Layers
<1>12. k + 1 \in 0..7
  BY <1>8
<1> QED
  BY <1>1, <1>4, <1>11, <1>12 DEF TransformInv

LEMMA ReduceBothStep ==
    ASSUME TransformInv, ReduceBoth
    PROVE  TransformInv'
<1>1. /\ stage = "ntt" /\ stage' = "reduced" /\ len' = len /\ len = 2
      /\ left' = PolyReduce(left) /\ right' = PolyReduce(right)
  BY DEF ReduceBoth
<1>2. PICK k \in 0..7 : Layers(k)
  BY <1>1 DEF TransformInv
<1>3. PICK lo \in Int : lo = Low(k) /\ -24967 <= lo - 1664
  BY LayerFacts
<1>4. PICK hi \in Int : hi = High(k) /\ hi <= 26624
  BY LayerFacts
<1>5. Within(left', -1664, 1664)
  <2>1. Within(left, lo, hi)
    BY <1>2, <1>3, <1>4 DEF Layers
  <2> QED
    BY SMT, <1>1, <1>3, <1>4, <2>1, PolyReduceBound
<1>6. Within(right', -1664, 1664)
  <2>1. PICK mid \in Int : mid = lo - 1664
    OBVIOUS
  <2>2. Within(right, mid, hi)
    BY <1>2, <1>3, <1>4, <2>1 DEF Layers
  <2> QED
    BY SMT, <1>1, <1>3, <1>4, <2>1, <2>2, PolyReduceBound
<1> QED
  BY <1>1, <1>5, <1>6 DEF TransformInv

LEMMA MultiplyStep ==
    ASSUME TransformInv, Multiply
    PROVE  TransformInv'
<1>1. /\ stage = "reduced" /\ stage' = "invntt" /\ len' = len
      /\ left' = PolyReduce(BaseMul(left, right))
  BY DEF Multiply
<1>2. len = 2 /\ Within(left, -1664, 1664) /\ Within(right, -1664, 1664)
  BY <1>1 DEF TransformInv
<1>3. Within(BaseMul(left, right), -6656, 6656)
  <2>1. Within(left, -32768, 32767)
    BY SMT, <1>2, Widen
  <2> QED
    BY <1>2, <2>1, BaseMulBound
<1>4. Within(left', -1664, 1664)
  BY SMT, <1>1, <1>3, PolyReduceBound
<1>5. Within(left', -3328, 3328)
  BY SMT, <1>4, WithinWider
<1>6. len' \in Lens /\ len' <= N
  BY <1>1, <1>2, SizeFacts DEF Lens
<1> QED
  BY <1>1, <1>5, <1>6 DEF TransformInv

LEMMA InvNttStep ==
    ASSUME TransformInv, InvNtt
    PROVE  TransformInv'
<1>1. /\ stage = "invntt" /\ stage' = "invntt" /\ len < N /\ len' = 2 * len
      /\ left' = InvNttLayer(left, len)
  BY DEF InvNtt
<1>2. len \in Lens /\ Within(left, -3328, 3328)
  BY <1>1 DEF TransformInv
<1>3. Within(left', -3328, 3328)
  BY <1>1, <1>2, InvNttLayerBound
<1>4. len' \in Lens /\ len' <= N
  BY <1>1, <1>2, Halving
<1> QED
  BY <1>1, <1>3, <1>4 DEF TransformInv

LEMMA ScaleBackStep ==
    ASSUME TransformInv, ScaleBack
    PROVE  TransformInv'
<1>1. stage = "invntt" /\ stage' = "product" /\ left' = Scale(left)
  BY DEF ScaleBack
<1>2. Within(left', -3328, 3328)
  BY <1>1, ScaleBound DEF TransformInv
<1> QED
  BY <1>1, <1>2 DEF TransformInv

------------------------------------------------------------------------------
(* The bytes of a polynomial *)

\* A polynomial to be written, a message to be encoded.
Polynomial == Within(input.a, -1664, 1664)

Encodable == input.a \in [Index -> {0, 1}] /\ Within(input.b, -831, 831)

BytesInv ==
    /\ stage = "polynomial" => Polynomial /\ left = input.a
    /\ stage = "whole" => Polynomial /\ bytes = ToBytes(input.a)
    /\ stage = "four bits" => Polynomial /\ bytes = Pack4(Four(input.a))
    /\ stage = "ten bits" => Polynomial /\ bytes = Pack10(Ten(input.a))
    /\ ReadBack
    /\ stage = "message" => Encodable /\ left = input.a
    /\ stage = "noisy" => Encodable /\ left = Noisy(input.a, input.b)
    /\ MessageSurvives

\* What a run of the second kind begins with.
LEMMA BytesInputs ==
    ASSUME NEW c \in 0..13
    PROVE  /\ Within(PolyReduce(Sampled(c)), -1664, 1664)
           /\ Message(c) \in [Index -> {0, 1}] /\ Within(Error(c), -831, 831)
<1>1. Within(PolyReduce(Sampled(c)), -1664, 1664)
  <2>1. Within(Sampled(c), 0, 3328)
    BY InputBounds
  <2> QED
    BY SMT, <2>1, PolyReduceBound
<1>2. Message(c) \in [Index -> {0, 1}]
  BY DEF Message
<1>3. Within(Error(c), -831, 831)
  <2>1. \A x \in Int : x % 1663 \in Int /\ 0 <= x % 1663 /\ x % 1663 <= 1662
    BY SMT
  <2>2. \A i \in Index : 256 * c + i \in Int
    BY SMT, SizeFacts DEF Index
  <2> QED
    BY SMT, <2>1, <2>2 DEF Within, Error
<1> QED
  BY <1>1, <1>2, <1>3

LEMMA BytesInit == Init => BytesInv
<1> SUFFICES ASSUME Init PROVE BytesInv
  OBVIOUS
<1>1. PICK c \in Cases :
        \/ stage = "ntt"
        \/ /\ stage \in {"polynomial", "message"}
           /\ input = IF stage = "message"
                      THEN [a |-> Message(c), b |-> Error(c)]
                      ELSE [a |-> PolyReduce(Sampled(c)), b |-> None]
           /\ left = input.a
  BY DEF Init
<1>2. c \in 0..13
  BY CasesAssumption
<1>3. CASE stage = "ntt"
  BY <1>3 DEF BytesInv, ReadBack, MessageSurvives
<1>4. CASE stage = "polynomial"
  <2>1. input.a = PolyReduce(Sampled(c)) /\ left = input.a
    BY <1>1, <1>4
  <2>2. Polynomial
    BY <1>2, <2>1, BytesInputs DEF Polynomial
  <2> QED
    BY <1>4, <2>1, <2>2 DEF BytesInv, ReadBack, MessageSurvives
<1>5. CASE stage = "message"
  <2>1. input.a = Message(c) /\ input.b = Error(c) /\ left = input.a
    BY <1>1, <1>5
  <2>2. Encodable
    BY <1>2, <2>1, BytesInputs DEF Encodable
  <2> QED
    BY <1>5, <2>1, <2>2 DEF BytesInv, ReadBack, MessageSurvives
<1> QED
  BY <1>1, <1>3, <1>4, <1>5

LEMMA WriteStep ==
    ASSUME BytesInv, Write
    PROVE  BytesInv' /\ stage' \in {"whole", "four bits", "ten bits"}
<1>1. /\ stage = "polynomial" /\ input' = input
      /\ \/ stage' = "whole" /\ bytes' = ToBytes(left)
         \/ stage' = "four bits" /\ bytes' = Pack4(Four(left))
         \/ stage' = "ten bits" /\ bytes' = Pack10(Ten(left))
  BY DEF Write, Four, Ten
<1>2. Polynomial /\ left = input.a
  BY <1>1 DEF BytesInv
<1>3. Polynomial'
  <2>1. input' = input
    BY <1>1
  <2> QED
    BY <1>2, <2>1 DEF Polynomial
<1>4. CASE stage' = "whole" /\ bytes' = ToBytes(left)
  BY <1>1, <1>2, <1>3, <1>4 DEF BytesInv, ReadBack, MessageSurvives
<1>5. CASE stage' = "four bits" /\ bytes' = Pack4(Four(left))
  BY <1>1, <1>2, <1>3, <1>5 DEF BytesInv, ReadBack, MessageSurvives
<1>6. CASE stage' = "ten bits" /\ bytes' = Pack10(Ten(left))
  BY <1>1, <1>2, <1>3, <1>6 DEF BytesInv, ReadBack, MessageSurvives
<1> QED
  BY <1>1, <1>4, <1>5, <1>6

LEMMA ReadStep ==
    ASSUME BytesInv, Read
    PROVE  BytesInv' /\ stage' \in {"read whole", "read four bits", "read ten bits"}
<1>1. /\ input' = input
      /\ \/ /\ stage = "whole" /\ stage' = "read whole"
            /\ left' = FromBytes(bytes)
         \/ /\ stage = "four bits" /\ stage' = "read four bits"
            /\ left' = Read4(bytes)
         \/ /\ stage = "ten bits" /\ stage' = "read ten bits"
            /\ left' = Read10(bytes)
  BY DEF Read, Read4, Read10
<1>2. CASE /\ stage = "whole" /\ stage' = "read whole"
           /\ left' = FromBytes(bytes)
  <2>1. Polynomial /\ bytes = ToBytes(input.a)
    BY <1>2 DEF BytesInv
  <2>2. \A i \in Index : FromBytes(ToBytes(input.a))[i] = Mod(input.a[i])
    BY <2>1, WholeReadBack DEF Polynomial
  <2>3. left' = FromBytes(ToBytes(input.a)) /\ input' = input
    BY <1>1, <1>2, <2>1
  <2>4. \A i \in Index : left'[i] = Mod(input'.a[i])
    BY <2>2, <2>3
  <2> QED
    BY <1>2, <2>4 DEF BytesInv, ReadBack, MessageSurvives
<1>3. CASE /\ stage = "four bits" /\ stage' = "read four bits"
           /\ left' = Read4(bytes)
  <2>1. Polynomial /\ bytes = Pack4(Four(input.a))
    BY <1>3 DEF BytesInv
  <2>2. \A i \in Index :
           Distance(Read4(Pack4(Four(input.a)))[i], input.a[i]) <= 104
    BY <2>1, CompressedReadBack DEF Polynomial
  <2>3. left' = Read4(Pack4(Four(input.a))) /\ input' = input
    BY <1>1, <1>3, <2>1
  <2>4. \A i \in Index : Distance(left'[i], input'.a[i]) <= 104
    BY <2>2, <2>3
  <2> QED
    BY <1>3, <2>4 DEF BytesInv, ReadBack, MessageSurvives
<1>4. CASE /\ stage = "ten bits" /\ stage' = "read ten bits"
           /\ left' = Read10(bytes)
  <2>1. Polynomial /\ bytes = Pack10(Ten(input.a))
    BY <1>4 DEF BytesInv
  <2>2. \A i \in Index :
           Distance(Read10(Pack10(Ten(input.a)))[i], input.a[i]) <= 2
    BY <2>1, CompressedReadBack DEF Polynomial
  <2>3. left' = Read10(Pack10(Ten(input.a))) /\ input' = input
    BY <1>1, <1>4, <2>1
  <2>4. \A i \in Index : Distance(left'[i], input'.a[i]) <= 2
    BY <2>2, <2>3
  <2> QED
    BY <1>4, <2>4 DEF BytesInv, ReadBack, MessageSurvives
<1> QED
  BY <1>1, <1>2, <1>3, <1>4

LEMMA EncodeStep ==
    ASSUME BytesInv, Encode
    PROVE  BytesInv' /\ stage' = "noisy"
<1>1. /\ stage = "message" /\ stage' = "noisy" /\ input' = input
      /\ left' = Noisy(left, input.b)
  BY DEF Encode, Noisy
<1>2. Encodable /\ left = input.a
  BY <1>1 DEF BytesInv
<1>3. Encodable'
  BY <1>1, <1>2 DEF Encodable
<1> QED
  BY <1>1, <1>2, <1>3 DEF BytesInv, ReadBack, MessageSurvives

LEMMA DecodeStep ==
    ASSUME BytesInv, Decode
    PROVE  BytesInv' /\ stage' = "decoded"
<1>1. /\ stage = "noisy" /\ stage' = "decoded" /\ input' = input
      /\ left' = ToMsg(left)
  BY DEF Decode
<1>2. Encodable /\ left = Noisy(input.a, input.b)
  BY <1>1 DEF BytesInv
<1>3. left' = input'.a
  BY <1>1, <1>2, MessageReadBack DEF Encodable
<1> QED
  BY <1>1, <1>3 DEF BytesInv, ReadBack, MessageSurvives

------------------------------------------------------------------------------
(* The runs *)

RingInv == TransformInv /\ BytesInv

TransformStages == {"ntt", "reduced", "invntt", "product"}

\* Each invariant says nothing of the other's stages.
LEMMA OutsideTransform ==
    ASSUME stage' \notin TransformStages
    PROVE  TransformInv'
<1>1. /\ stage' # "ntt" /\ stage' # "reduced"
      /\ stage' # "invntt" /\ stage' # "product"
  BY DEF TransformStages
<1> QED
  BY <1>1 DEF TransformInv

LEMMA InsideTransform ==
    ASSUME stage' \in TransformStages
    PROVE  BytesInv'
<1>1. /\ stage' # "polynomial" /\ stage' # "whole" /\ stage' # "four bits"
      /\ stage' # "ten bits" /\ stage' # "read whole" /\ stage' # "read four bits"
      /\ stage' # "read ten bits" /\ stage' # "message" /\ stage' # "noisy"
      /\ stage' # "decoded"
  BY DEF TransformStages
<1> QED
  BY <1>1 DEF BytesInv, ReadBack, MessageSurvives

LEMMA UnchangedKeeps ==
    ASSUME RingInv, UNCHANGED vars
    PROVE  RingInv'
<1>1. /\ stage' = stage /\ len' = len /\ input' = input /\ left' = left
      /\ right' = right /\ bytes' = bytes /\ product' = product
  BY DEF vars
<1>2. TransformInv'
  BY <1>1 DEF RingInv, TransformInv, Layers
<1>3. BytesInv'
  <2>1. ReadBack' /\ MessageSurvives'
    BY <1>1 DEF RingInv, BytesInv, ReadBack, MessageSurvives
  <2>2. (Polynomial <=> Polynomial') /\ (Encodable <=> Encodable')
    BY <1>1 DEF Polynomial, Encodable
  <2> QED
    BY <1>1, <2>1, <2>2 DEF RingInv, BytesInv
<1> QED
  BY <1>2, <1>3 DEF RingInv

LEMMA NextKeepsRingInv == RingInv /\ [Next]_vars => RingInv'
<1> SUFFICES ASSUME RingInv, [Next]_vars PROVE RingInv'
  OBVIOUS
<1> USE DEF RingInv
<1>0. /\ stage' \notin TransformStages => TransformInv'
      /\ stage' \in TransformStages => BytesInv'
  BY OutsideTransform, InsideTransform
<1>1. CASE Ntt
  BY <1>0, <1>1, NttStep DEF Ntt, TransformStages
<1>2. CASE ReduceBoth
  BY <1>0, <1>2, ReduceBothStep DEF ReduceBoth, TransformStages
<1>3. CASE Multiply
  BY <1>0, <1>3, MultiplyStep DEF Multiply, TransformStages
<1>4. CASE InvNtt
  BY <1>0, <1>4, InvNttStep DEF InvNtt, TransformStages
<1>5. CASE ScaleBack
  BY <1>0, <1>5, ScaleBackStep DEF ScaleBack, TransformStages
<1>6. CASE Write
  BY <1>0, <1>6, WriteStep DEF TransformStages
<1>7. CASE Read
  BY <1>0, <1>7, ReadStep DEF TransformStages
<1>8. CASE Encode
  BY <1>0, <1>8, EncodeStep DEF TransformStages
<1>9. CASE Decode
  BY <1>0, <1>9, DecodeStep DEF TransformStages
<1>10. CASE UNCHANGED vars
  BY <1>10, UnchangedKeeps
<1> QED
  BY <1>1, <1>2, <1>3, <1>4, <1>5, <1>6, <1>7, <1>8, <1>9, <1>10 DEF Next

(***************************************************************************)
(* In every run, whatever N and the inputs: the bounds of the transform's  *)
(* passes, and what the bytes and the noisy message hold.                  *)
(***************************************************************************)
THEOREM RingInvariant == Spec => []RingInv
<1>1. Init => RingInv
  BY TransformInit, BytesInit DEF RingInv
<1> QED
  BY <1>1, NextKeepsRingInv, PTL DEF Spec

\* The products of basemul are "in {-q2^15,...,q2^15-1}".
LEMMA ProductBound ==
    ASSUME NEW x \in Int, -1664 <= x, x <= 1664, NEW y \in Int, -1664 <= y, y <= 1664
    PROVE  Reducible(x * y)
<1>1. /\ x * y \in Int /\ -2768896 <= x * y /\ x * y <= 2768896
  BY SMT
<1> QED
  BY SMT, <1>1 DEF Q, Reducible

(***************************************************************************)
(* Each pass leaves what the next one needs: no int16_t wraps in ntt's     *)
(* seven additions without a reduction, the products of basemul are what   *)
(* montgomery_reduce takes, invntt never grows beyond q.                   *)
(***************************************************************************)
THEOREM PassesStayBounded == Spec => []BoundsOfPasses
<1>1. RingInv => BoundsOfPasses
  <2> SUFFICES ASSUME RingInv PROVE BoundsOfPasses
    OBVIOUS
  <2>1. \A r, lo, hi : Within(r, lo, hi) => Between(r, lo, hi)
    BY DEF Within, Between
  <2>2. ASSUME stage = "ntt"
        PROVE  \E k \in 0..7 : /\ 2 ^ k * len = N
                               /\ Between(left, - k * Q, (k + 1) * (Q - 1))
    <3>1. PICK k \in 0..7 : Layers(k)
      BY <2>2 DEF RingInv, TransformInv
    <3>2. 2 ^ k * len = N /\ Between(left, Low(k), High(k))
      BY <2>1, <3>1 DEF Layers
    <3> QED
      BY <3>2 DEF Low, High
  <2>3. ASSUME stage = "noisy" PROVE Between(left, -1664, 1664)
    <3>1. Encodable /\ left = Noisy(input.a, input.b)
      BY <2>3 DEF RingInv, BytesInv
    <3> QED
      BY <2>1, <3>1, MessageReadBack DEF Encodable
  <2>4. ASSUME stage = "reduced"
        PROVE  /\ Between(left, -1664, 1664)
               /\ \A i, j \in Index : i \div 2 = j \div 2 =>
                     Reducible(left[i] * right[j])
    <3>1. Within(left, -1664, 1664) /\ Within(right, -1664, 1664)
      BY <2>4 DEF RingInv, TransformInv
    <3>2. ASSUME NEW i \in Index, NEW j \in Index
          PROVE  Reducible(left[i] * right[j])
      <4>1. PICK x \in Int : x = left[i] /\ -1664 <= x /\ x <= 1664
        BY <3>1 DEF Within
      <4>2. PICK y \in Int : y = right[j] /\ -1664 <= y /\ y <= 1664
        BY <3>1 DEF Within
      <4> QED
        BY <4>1, <4>2, ProductBound
    <3> QED
      BY <2>1, <3>1, <3>2
  <2>5. ASSUME stage \in {"invntt", "product"} PROVE Between(left, 1 - Q, Q - 1)
    <3>1. Between(left, -3328, 3328)
      BY <2>1, <2>5 DEF RingInv, TransformInv
    <3>2. 1 - Q = -3328 /\ Q - 1 = 3328
      BY DEF Q
    <3> QED
      BY <3>1, <3>2
  <2> QED
    BY <2>2, <2>3, <2>4, <2>5 DEF BoundsOfPasses
<1> QED
  BY <1>1, RingInvariant, PTL

(***************************************************************************)
(* What is read of the bytes is what was written, exactly or within half a *)
(* step of the compression.                                                *)
(***************************************************************************)
THEOREM WhatIsReadWasWritten == Spec => []ReadBack
<1>1. RingInv => ReadBack
  BY DEF RingInv, BytesInv
<1> QED
  BY <1>1, RingInvariant, PTL

(***************************************************************************)
(* A message survives the errors decryption allows for.                    *)
(***************************************************************************)
THEOREM MessagesSurvive == Spec => []MessageSurvives
<1>1. RingInv => MessageSurvives
  BY DEF RingInv, BytesInv
<1> QED
  BY <1>1, RingInvariant, PTL

------------------------------------------------------------------------------
(* Functions given by recursion *)

\* d[m] precedes m, and g[m] makes a number of a number.
Rule(n, d, g) ==
    /\ \A m \in 1..n : d[m] \in 0..m - 1
    /\ \A m \in 1..n, v \in Int : g[m][v] \in Int

Follows(r, k, c, d, g) ==
    \A m \in 0..k : r[m] = IF m = 0 THEN c ELSE g[m][r[d[m]]]

LEMMA FollowsStep ==
    ASSUME NEW n \in Nat, NEW c \in Int, NEW d, NEW g, Rule(n, d, g),
           NEW k \in Nat, k + 1 <= n, NEW r \in [0..n -> Int], Follows(r, k, c, d, g)
    PROVE  \E s \in [0..n -> Int] : Follows(s, k + 1, c, d, g)
<1>1. k + 1 \in 1..n /\ k + 1 # 0 /\ k \in 0..n
  OBVIOUS
<1>2. d[k + 1] \in 0..(k + 1) - 1
  BY <1>1 DEF Rule
<1>3. d[k + 1] \in 0..n
  BY <1>1, <1>2
<1>4. PICK v \in Int : v = g[k + 1][r[d[k + 1]]]
  BY <1>1, <1>3 DEF Rule
<1> DEFINE s == [m \in 0..n |-> IF m = k + 1 THEN v ELSE r[m]]
<1>5. \A m \in 0..n : s[m] = IF m = k + 1 THEN v ELSE r[m]
  OBVIOUS
<1>6. s \in [0..n -> Int]
  OBVIOUS
<1> HIDE DEF s
<1>7. ASSUME NEW m \in 0..k + 1
      PROVE  s[m] = IF m = 0 THEN c ELSE g[m][s[d[m]]]
  <2>1. m \in 0..n /\ m \in Int
    BY <1>1
  <2>2. CASE m = 0
    <3>1. m # k + 1 /\ m \in 0..k
      BY <2>2
    <3>2. s[m] = r[m]
      BY <1>5, <2>1, <3>1
    <3>3. r[m] = c
      BY <2>2, <3>1 DEF Follows
    <3> QED
      BY <2>2, <3>2, <3>3
  <2>3. CASE m # 0
    <3>1. m \in 1..n
      BY <2>1, <2>3
    <3>2. d[m] \in 0..m - 1
      BY <3>1 DEF Rule
    <3>3. d[m] \in 0..n /\ d[m] # k + 1
      BY <2>1, <3>2
    <3>4. s[d[m]] = r[d[m]]
      BY <1>5, <3>3
    <3>5. CASE m = k + 1
      BY <1>4, <1>5, <2>1, <2>3, <3>4, <3>5
    <3>6. CASE m # k + 1
      <4>1. m \in 0..k
        BY <2>1, <3>6
      <4>2. r[m] = g[m][r[d[m]]]
        BY <2>3, <4>1 DEF Follows
      <4> QED
        BY <1>5, <2>1, <2>3, <3>4, <3>6, <4>2
    <3> QED
      BY <3>5, <3>6
  <2> QED
    BY <2>2, <2>3
<1> QED
  BY <1>6, <1>7 DEF Follows

\* A function can be defined by what precedes in it.
LEMMA Recursion ==
    ASSUME NEW n \in Nat, NEW c \in Int, NEW d, NEW g, Rule(n, d, g)
    PROVE  \E r \in [0..n -> Int] : Follows(r, n, c, d, g)
<1> DEFINE S == {k \in Nat : k <= n => \E r \in [0..n -> Int] : Follows(r, k, c, d, g)}
<1>1. 0 \in S
  <2> DEFINE r == [m \in 0..n |-> c]
  <2>1. r \in [0..n -> Int] /\ \A m \in 0..0 : m = 0 /\ r[m] = c
    OBVIOUS
  <2>2. Follows(r, 0, c, d, g)
    BY <2>1 DEF Follows
  <2> QED
    BY <2>1, <2>2
<1>2. ASSUME NEW k \in Nat, k \in S PROVE k + 1 \in S
  <2>1. ASSUME k + 1 <= n PROVE \E r \in [0..n -> Int] : Follows(r, k + 1, c, d, g)
    <3>1. PICK r \in [0..n -> Int] : Follows(r, k, c, d, g)
      BY <1>2, <2>1
    <3> QED
      BY <2>1, <3>1, FollowsStep
  <2>2. k + 1 \in Nat
    OBVIOUS
  <2> QED
    BY <2>1, <2>2
<1>3. n \in S
  <2> HIDE DEF S
  <2> QED
    BY <1>1, <1>2, SetInduction
<1> QED
  BY <1>3

------------------------------------------------------------------------------
(* The powers of 17 *)

\* What PowerOf17 makes of the power it is computed from.
Square(e, v) == Mod(Mod(v * v) * (IF e % 2 = 1 THEN 17 ELSE 1))

LEMMA ModIs == \A x \in Int : Mod(x) \in Int /\ 0 <= Mod(x) /\ Mod(x) <= 3328 /\ Cong(Mod(x), x)
<1> TAKE x \in Int
<1>1. x % 3329 \in Int /\ 0 <= x % 3329 /\ x % 3329 <= 3328 /\ (x % 3329) % 3329 = x % 3329
  BY SMT
<1>2. Mod(x) = x % 3329
  BY DEF Mod, Q
<1>3. Cong(x % 3329, x)
  BY <1>1, CongMod DEF Q
<1> QED
  BY <1>1, <1>2, <1>3

LEMMA SquareIs ==
    ASSUME NEW e \in Int, NEW v \in Int
    PROVE  /\ Square(e, v) \in Int
           /\ Cong(Square(e, v), (v * v) * (IF e % 2 = 1 THEN 17 ELSE 1))
<1>1. PICK w \in Int : w = v * v
  BY SMT
<1>2. PICK f \in Int : f = IF e % 2 = 1 THEN 17 ELSE 1
  OBVIOUS
<1>3. Mod(w) \in Int /\ Cong(Mod(w), w) /\ Cong(f, f)
  BY <1>1, ModIs, CongRefl
<1>4. Mod(w) * f \in Int /\ w * f \in Int
  BY SMT, <1>1, <1>2, <1>3
<1>5. Cong(Mod(w) * f, w * f)
  BY <1>3, CongOps
<1>6. Mod(Mod(w) * f) \in Int /\ Cong(Mod(Mod(w) * f), Mod(w) * f)
  BY <1>4, ModIs
<1>7. Cong(Mod(Mod(w) * f), w * f)
  BY <1>5, <1>6, CongTrans
<1> QED
  BY <1>1, <1>2, <1>6, <1>7 DEF Square

LEMMA PowerIs ==
    /\ PowerOf17 \in [0..255 -> Int] /\ PowerOf17[0] = 1
    /\ \A e \in 1..255 : PowerOf17[e] = Square(e, PowerOf17[e \div 2])
<1> DEFINE Defines(p) ==
               p = [e \in 0..255 |-> IF e = 0 THEN 1 ELSE Square(e, p[e \div 2])]
<1>1. PowerOf17 = CHOOSE p : Defines(p)
  BY DEF PowerOf17, Square
<1>2. \E p : Defines(p)
  <2>1. PICK d : \A m \in 1..255 : d[m] = m \div 2
    <3> DEFINE d == [m \in 1..255 |-> m \div 2]
    <3>1. \A m \in 1..255 : d[m] = m \div 2
      OBVIOUS
    <3> QED
      BY <3>1
  <2>2. PICK g : \A m \in 1..255, v \in Int : g[m][v] = Square(m, v)
    <3> DEFINE g == [m \in 1..255 |-> [v \in Int |-> Square(m, v)]]
    <3>1. \A m \in 1..255, v \in Int : g[m][v] = Square(m, v)
      OBVIOUS
    <3> QED
      BY <3>1
  <2>3. \A m \in 1..255 : m \in Int /\ m \div 2 \in 0..m - 1
    BY SMT
  <2>4. Rule(255, d, g)
    <3>1. \A m \in 1..255 : d[m] \in 0..m - 1
      BY <2>1, <2>3
    <3>2. \A m \in 1..255, v \in Int : g[m][v] \in Int
      BY <2>2, <2>3, SquareIs
    <3> QED
      BY <3>1, <3>2 DEF Rule
  <2>5. PICK p \in [0..255 -> Int] : Follows(p, 255, 1, d, g)
    <3>1. 255 \in Nat /\ 1 \in Int
      OBVIOUS
    <3> QED
      BY <2>4, <3>1, Recursion
  <2>6. ASSUME NEW m \in 0..255
        PROVE  p[m] = IF m = 0 THEN 1 ELSE Square(m, p[m \div 2])
    <3>1. CASE m = 0
      BY <2>5, <3>1 DEF Follows
    <3>2. CASE m # 0
      <4>1. m \in 1..255 /\ m \div 2 \in 0..255
        BY SMT, <3>2
      <4>2. p[m] = g[m][p[d[m]]]
        BY <2>5, <3>2 DEF Follows
      <4>3. p[m \div 2] \in Int
        BY <4>1
      <4> QED
        BY <2>1, <2>2, <3>2, <4>1, <4>2, <4>3
    <3> QED
      BY <3>1, <3>2
  <2> QED
    BY <2>6
<1>3. Defines(PowerOf17)
  BY <1>1, <1>2
<1> DEFINE p == PowerOf17
<1>4. p[0] = 1 /\ \A e \in 1..255 : p[e] = Square(e, p[e \div 2])
  BY <1>3
<1>5. \A e \in 0..255 : p[e] \in Int
  <2> DEFINE T == {e \in 0..255 : p[e] \notin Int}
  <2> SUFFICES ASSUME T # {} PROVE FALSE
    OBVIOUS
  <2>0. T \in SUBSET Nat
    OBVIOUS
  <2>1. PICK e \in T : \A y \in T : e <= y
    <3> HIDE DEF T
    <3> QED
      BY <2>0, LeastElement
  <2>2. e # 0 /\ e \in 1..255
    BY <1>4
  <2>3. e \div 2 \in 0..255 /\ e \div 2 < e /\ e \in Int
    BY SMT, <2>2
  <2>4. p[e \div 2] \in Int
    BY <2>1, <2>3
  <2>5. p[e] \in Int
    BY <1>4, <2>2, <2>3, <2>4, SquareIs
  <2> QED
    BY <2>5
<1>6. p = [e \in 0..255 |-> p[e]]
  BY <1>3
<1> QED
  BY <1>4, <1>5, <1>6

------------------------------------------------------------------------------
(* The table of zetas: powers of 17 in the order of reversed bits *)

\* k with its seven bits in reverse order.
Rev7(k) ==
    64 * (k % 2) + 32 * ((k \div 2) % 2) + 16 * ((k \div 4) % 2)
        + 8 * ((k \div 8) % 2) + 4 * ((k \div 16) % 2)
        + 2 * ((k \div 32) % 2) + ((k \div 64) % 2)

LEMMA Bits7 ==
    ASSUME NEW k \in 0..127
    PROVE  \E a, b, c, d, e, f, g \in {0, 1} :
               /\ k = 64 * a + 32 * b + 16 * c + 8 * d + 4 * e + 2 * f + g
               /\ Rev7(k) = 64 * g + 32 * f + 16 * e + 8 * d + 4 * c + 2 * b + a
<1>1. PICK k1 \in 0..63, g \in {0, 1} : k = 2 * k1 + g /\ k1 = k \div 2 /\ g = k % 2
  BY SMT
<1>2. PICK k2 \in 0..31, f \in {0, 1} : k1 = 2 * k2 + f /\ k2 = k \div 4 /\ f = k1 % 2
  BY SMTT(60), <1>1
<1>3. PICK k3 \in 0..15, e \in {0, 1} : k2 = 2 * k3 + e /\ k3 = k \div 8 /\ e = k2 % 2
  BY SMT, <1>2
<1>4. PICK k4 \in 0..7, d \in {0, 1} : k3 = 2 * k4 + d /\ k4 = k \div 16 /\ d = k3 % 2
  BY SMT, <1>3
<1>5. PICK k5 \in 0..3, c \in {0, 1} : k4 = 2 * k5 + c /\ k5 = k \div 32 /\ c = k4 % 2
  BY SMT, <1>4
<1>6. PICK a, b \in {0, 1} : k5 = 2 * a + b /\ a = k \div 64 /\ b = k5 % 2
  BY SMT, <1>5
<1>7. a % 2 = a
  BY SMT
<1>8. Rev7(k) = 64 * g + 32 * f + 16 * e + 8 * d + 4 * c + 2 * b + a
  BY <1>1, <1>2, <1>3, <1>4, <1>5, <1>6, <1>7 DEF Rev7
<1>9. k = 64 * a + 32 * b + 16 * c + 8 * d + 4 * e + 2 * f + g
  BY SMT, <1>1, <1>2, <1>3, <1>4, <1>5, <1>6
<1> QED
  BY <1>8, <1>9

LEMMA Reversal ==
    ASSUME NEW k \in 0..127
    PROVE  Rev7(k) \in 0..127 /\ Rev7(Rev7(k)) = k
<1>1. PICK a, b, c, d, e, f, g \in {0, 1} :
          /\ k = 64 * a + 32 * b + 16 * c + 8 * d + 4 * e + 2 * f + g
          /\ Rev7(k) = 64 * g + 32 * f + 16 * e + 8 * d + 4 * c + 2 * b + a
  BY Bits7
<1>2. PICK r \in 0..127 : r = Rev7(k)
  BY SMT, <1>1
<1>3. PICK a1, b1, c1, d1, e1, f1, g1 \in {0, 1} :
          /\ r = 64 * a1 + 32 * b1 + 16 * c1 + 8 * d1 + 4 * e1 + 2 * f1 + g1
          /\ Rev7(r) = 64 * g1 + 32 * f1 + 16 * e1 + 8 * d1 + 4 * c1 + 2 * b1 + a1
  BY Bits7
<1>4. a1 = g /\ b1 = f /\ c1 = e /\ d1 = d /\ e1 = c /\ f1 = b /\ g1 = a
  BY SMT, <1>1, <1>2, <1>3
<1> QED
  BY SMT, <1>1, <1>2, <1>3, <1>4

LEMMA ReversalHalves ==
    ASSUME NEW k \in 2..127
    PROVE  k \div 2 \in 1..63 /\ (Rev7(k \div 2) + 128 * (k % 2)) \div 2 = Rev7(k)
<1>1. PICK h \in 1..63, g \in {0, 1} : k = 2 * h + g /\ h = k \div 2 /\ g = k % 2
  BY SMT
<1>2. PICK a, b, c, d, e, f, g1 \in {0, 1} :
          /\ k = 64 * a + 32 * b + 16 * c + 8 * d + 4 * e + 2 * f + g1
          /\ Rev7(k) = 64 * g1 + 32 * f + 16 * e + 8 * d + 4 * c + 2 * b + a
  BY SMT, Bits7
<1>3. PICK a1, b1, c1, d1, e1, f1, g2 \in {0, 1} :
          /\ h = 64 * a1 + 32 * b1 + 16 * c1 + 8 * d1 + 4 * e1 + 2 * f1 + g2
          /\ Rev7(h) = 64 * g2 + 32 * f1 + 16 * e1 + 8 * d1 + 4 * c1 + 2 * b1 + a1
  BY SMT, Bits7
<1>4. g1 = g /\ a1 = 0 /\ b1 = a /\ c1 = b /\ d1 = c /\ e1 = d /\ f1 = e /\ g2 = f
  BY SMT, <1>1, <1>2, <1>3
<1>5. Rev7(h) + 128 * g = 2 * Rev7(k) /\ Rev7(k) \in Int
  BY SMT, <1>2, <1>3, <1>4
<1>6. PICK x \in Int : x = Rev7(k)
  BY <1>5
<1>7. (2 * x) \div 2 = x
  BY SMT
<1> QED
  BY <1>1, <1>5, <1>6, <1>7

LEMMA ReversalEnds == Rev7(0) = 0 /\ Rev7(1) = 64 /\ Rev7(64) = 1 /\ Rev7(127) = 127
BY SMT DEF Rev7

\* The table of zetas, in the order of Rev7, are the powers of 17.
LEMMA ZetasArePowers ==
    /\ (Plain(0) - 1) % 3329 = 0
    /\ \A x \in 0..126 : (Plain(Rev7(x + 1)) - 17 * Plain(Rev7(x))) % 3329 = 0
    /\ (17 * Plain(127) + 1) % 3329 = 0
<1>1. (Plain(0) - 1) % 3329 = 0 /\ (17 * Plain(127) + 1) % 3329 = 0
  BY SMTT(60) DEF Plain, Zeta, zetas
<1>2. \A x \in 0..126 : (Plain(Rev7(x + 1)) - 17 * Plain(Rev7(x))) % 3329 = 0
  BY SMTT(120) DEF Plain, Zeta, zetas, Rev7
<1> QED
  BY <1>1, <1>2

\* The next power is 17 times as much, ...
LEMMA NextPower ==
    \A e \in 0..254 : Cong(PowerOf17[e + 1], 17 * PowerOf17[e])
<1> DEFINE p == PowerOf17
           T == {e \in 0..254 : ~ Cong(p[e + 1], 17 * p[e])}
<1> SUFFICES ASSUME T # {} PROVE FALSE
  OBVIOUS
<1>0. T \in SUBSET Nat
  OBVIOUS
<1>1. PICK e \in T : \A y \in T : e <= y
  <2> HIDE DEF T
  <2> QED
    BY <1>0, LeastElement
<1>2. e \in 0..254 /\ ~ Cong(p[e + 1], 17 * p[e])
  OBVIOUS
<1>3. /\ \A x \in 0..255 : p[x] \in Int
      /\ p[0] = 1 /\ \A x \in 1..255 : p[x] = Square(x, p[x \div 2])
  BY PowerIs
<1>4. ASSUME NEW y \in 0..254, y < e PROVE Cong(p[y + 1], 17 * p[y])
  BY <1>1, <1>4
<1> HIDE DEF p, T
<1>5. \A x \in 1..255 :
          /\ x \div 2 \in 0..255 /\ p[x \div 2] \in Int
          /\ Cong(p[x], (p[x \div 2] * p[x \div 2]) * (IF x % 2 = 1 THEN 17 ELSE 1))
  <2> TAKE x \in 1..255
  <2>1. x \div 2 \in 0..255 /\ x \in Int
    BY SMT
  <2> QED
    BY <1>3, <2>1, SquareIs
<1>6. PICK h \in 0..127 : h = e \div 2 /\ (e = 2 * h \/ e = 2 * h + 1)
  BY SMT, <1>2
<1>7. PICK v \in Int : v = p[h]
  BY <1>3
<1>8. CASE e = 2 * h
  <2>1. e + 1 \in 1..255 /\ (e + 1) \div 2 = h /\ (e + 1) % 2 = 1
    BY SMT, <1>2, <1>8
  <2>2. Cong(p[e + 1], (v * v) * 17)
    BY <1>5, <1>7, <2>1
  <2>3. Cong(p[e], v * v)
    <3>1. CASE e = 0
      <4>1. h = 0 /\ v = 1 /\ p[e] = 1 /\ v * v = 1 /\ 1 \in Int
        BY SMT, <1>3, <1>6, <1>7, <3>1
      <4> QED
        BY <4>1, CongRefl
    <3>2. CASE e # 0
      <4>1. e \in 1..255 /\ e \div 2 = h /\ e % 2 # 1
        BY SMT, <1>2, <1>8, <3>2
      <4>2. Cong(p[e], (v * v) * 1)
        BY <1>5, <1>7, <4>1
      <4>3. (v * v) * 1 = v * v
        BY SMT
      <4> QED
        BY <4>2, <4>3
    <3> QED
      BY <3>1, <3>2
  <2>4. Cong(17 * p[e], 17 * (v * v)) /\ 17 * (v * v) = (v * v) * 17
    <3>1. 17 \in Int /\ 17 * (v * v) = (v * v) * 17
      BY SMT
    <3> QED
      BY <2>3, <3>1, CongOps, CongRefl
  <2> QED
    BY <1>2, <2>2, <2>4, CongSym, CongTrans
<1>9. CASE e = 2 * h + 1
  <2>1. /\ e + 1 \in 1..255 /\ (e + 1) \div 2 = h + 1 /\ (e + 1) % 2 # 1
        /\ e \in 1..255 /\ e \div 2 = h /\ e % 2 = 1
        /\ h \in 0..254 /\ h < e /\ h + 1 \in 0..255
    BY SMT, <1>2, <1>6, <1>9
  <2>2. Cong(p[e], (v * v) * 17)
    BY <1>5, <1>7, <2>1
  <2>3. PICK w \in Int : w = p[h + 1]
    BY <1>3, <2>1
  <2>4. Cong(p[e + 1], (w * w) * 1)
    BY <1>5, <2>1, <2>3
  <2>5. Cong(w, 17 * v)
    BY <1>4, <1>7, <2>1, <2>3
  <2>6. Cong(w * w, (17 * v) * (17 * v))
    BY <2>5, CongOps
  <2>7. (w * w) * 1 = w * w /\ (17 * v) * (17 * v) = 17 * ((v * v) * 17) /\ 17 \in Int
    BY SMT
  <2>8. Cong(17 * p[e], 17 * ((v * v) * 17))
    BY <2>2, <2>7, CongRefl, CongOps
  <2>9. Cong(p[e + 1], 17 * ((v * v) * 17))
    BY <2>4, <2>6, <2>7, CongTrans
  <2> QED
    BY <1>2, <2>8, <2>9, CongSym, CongTrans
<1> QED
  BY <1>6, <1>8, <1>9

\* ... so zeta k is 17 to its reversal, ...
LEMMA ZetaIsPower ==
    \A k \in 0..127 : Cong(PowerOf17[Rev7(k)], Plain(k))
<1> DEFINE p == PowerOf17
           S == {x \in Nat : x <= 127 => Cong(p[x], Plain(Rev7(x)))}
<1>1. 0 \in S
  <2>1. Plain(0) \in Int /\ 1 \in Int /\ (Plain(0) - 1) % 3329 = 0
    BY ZetasArePowers, PlainType
  <2>2. Cong(Plain(0), 1)
    BY <2>1, CongDiff
  <2> QED
    BY <2>2, PowerIs, ReversalEnds, CongSym
<1>2. ASSUME NEW x \in Nat, x \in S PROVE x + 1 \in S
  <2>1. ASSUME x + 1 <= 127 PROVE Cong(p[x + 1], Plain(Rev7(x + 1)))
    <3>1. x \in 0..126 /\ x \in 0..254 /\ x \in 0..127 /\ x + 1 \in 0..127 /\ x <= 127
      BY <2>1
    <3>2. PICK u \in Int : u = Plain(Rev7(x))
      BY <3>1, Reversal, PlainType
    <3>3. PICK v \in Int : v = Plain(Rev7(x + 1))
      BY <3>1, Reversal, PlainType
    <3>4. Cong(p[x], u)
      BY <1>2, <3>1, <3>2
    <3>5. Cong(p[x + 1], 17 * p[x])
      BY <3>1, NextPower
    <3>6. 17 \in Int /\ 17 * u \in Int
      BY SMT
    <3>7. (v - 17 * u) % 3329 = 0
      BY <3>1, <3>2, <3>3, ZetasArePowers
    <3>8. Cong(v, 17 * u)
      BY <3>6, <3>7, CongDiff
    <3>9. Cong(17 * p[x], 17 * u)
      BY <3>4, <3>6, CongRefl, CongOps
    <3> QED
      BY <3>3, <3>5, <3>8, <3>9, CongSym, CongTrans
  <2>2. x + 1 \in Nat
    OBVIOUS
  <2> QED
    BY <2>1, <2>2
<1>3. \A x \in Nat : x \in S
  <2> HIDE DEF S
  <2> QED
    BY <1>1, <1>2, SetInduction
<1>4. ASSUME NEW k \in 0..127 PROVE Cong(p[Rev7(k)], Plain(k))
  <2>1. PICK x \in 0..127 : x = Rev7(k) /\ Rev7(x) = k
    BY Reversal
  <2>2. x \in S /\ x <= 127
    BY <1>3
  <2> QED
    BY <2>1, <2>2
<1> QED
  BY <1>4

\* ... and 17 ^ 128 is -1.
LEMMA OppositePower ==
    \A x \in 0..127 : Cong(PowerOf17[x + 128], - PowerOf17[x])
<1> DEFINE p == PowerOf17
           S == {x \in Nat : x <= 127 => Cong(p[x + 128], - p[x])}
<1>0. \A x \in 0..255 : p[x] \in Int
  BY PowerIs
<1>1. 0 \in S
  <2>1. 127 \in 0..127 /\ 127 \in 0..254 /\ 127 + 1 = 128 /\ 17 \in Int /\ -1 \in Int
    OBVIOUS
  <2>2. Cong(p[127], Plain(127))
    BY <2>1, ZetaIsPower, ReversalEnds
  <2>3. Cong(p[128], 17 * p[127])
    BY <2>1, NextPower
  <2>4. Cong(17 * p[127], 17 * Plain(127))
    BY <2>1, <2>2, CongRefl, CongOps
  <2>5. PICK u \in Int : u = Plain(127)
    BY <2>1, PlainType
  <2>6. 17 * u \in Int /\ (17 * u - (-1)) % 3329 = 0
    <3>1. 17 * u - (-1) = 17 * u + 1 /\ 17 * u \in Int
      BY SMT
    <3> QED
      BY <2>5, <3>1, ZetasArePowers
  <2>7. Cong(17 * u, -1)
    BY <2>1, <2>6, CongDiff
  <2>8. Cong(p[128], -1)
    BY <2>3, <2>4, <2>5, <2>7, CongTrans
  <2>9. p[0] = 1 /\ 0 + 128 = 128
    BY PowerIs
  <2> QED
    BY <2>8, <2>9
<1>2. ASSUME NEW x \in Nat, x \in S PROVE x + 1 \in S
  <2>1. ASSUME x + 1 <= 127 PROVE Cong(p[(x + 1) + 128], - p[x + 1])
    <3>1. /\ x \in 0..254 /\ x + 128 \in 0..254 /\ x + 1 \in 0..255 /\ x \in 0..255
          /\ (x + 128) + 1 = (x + 1) + 128 /\ x <= 127 /\ 17 \in Int /\ 0 \in Int
      BY <2>1
    <3>2. PICK u, v \in Int : u = p[x] /\ v = p[x + 1]
      BY <1>0, <3>1
    <3>3. Cong(p[x + 128], - u)
      BY <1>2, <3>1, <3>2
    <3>4. Cong(p[(x + 1) + 128], 17 * p[x + 128])
      BY <3>1, NextPower
    <3>5. Cong(17 * p[x + 128], 17 * (- u))
      BY <3>1, <3>3, CongRefl, CongOps
    <3>6. Cong(v, 17 * u)
      BY <3>1, <3>2, NextPower
    <3>7. Cong(0 - v, 0 - 17 * u)
      BY <3>1, <3>6, CongRefl, CongOps
    <3>8. 0 - v = - v /\ 0 - 17 * u = 17 * (- u)
      BY SMT
    <3> QED
      BY <3>2, <3>4, <3>5, <3>7, <3>8, CongSym, CongTrans
  <2>2. x + 1 \in Nat
    OBVIOUS
  <2> QED
    BY <2>1, <2>2
<1>3. \A x \in Nat : x \in S
  <2> HIDE DEF S
  <2> QED
    BY <1>1, <1>2, SetInduction
<1> QED
  BY <1>3

------------------------------------------------------------------------------
(* The tree of factors *)

\* The exponent of node k, and that of the root its factors have.
Exponent(k) == IF k = 1 THEN 128 ELSE Rev7(k \div 2) + 128 * (k % 2)

LEMMA ExponentHalves == \A k \in 1..127 : Exponent(k) \div 2 = Rev7(k)
<1> TAKE k \in 1..127
<1>1. CASE k = 1
  <2>1. 128 \div 2 = 64
    BY SMT
  <2> QED
    BY <1>1, <2>1, ReversalEnds DEF Exponent
<1>2. CASE k # 1
  <2>1. k \in 2..127
    BY <1>2
  <2> QED
    BY <1>2, <2>1, ReversalHalves DEF Exponent
<1> QED
  BY <1>1, <1>2

LEMMA ExponentIs == \A k \in 1..N - 1 : RootExponent[k] = Exponent(k)
<1> DEFINE Defines(e) ==
               e = [k \in 1..N - 1 |->
                       IF k = 1 THEN 128 ELSE e[k \div 2] \div 2 + 128 * (k % 2)]
<1>1. RootExponent = CHOOSE e : Defines(e)
  BY DEF RootExponent
<1>2. N \in Int /\ 8 <= N /\ N <= 256
  BY SizeFacts
<1>3. \A k \in 1..N - 1 : k # 1 =>
          /\ k \div 2 \in 1..N - 1 /\ k \div 2 \in 1..127 /\ k \div 2 < k
  BY SMT, <1>2
<1>4. \E e : Defines(e)
  <2> DEFINE f == [k \in 1..N - 1 |-> Exponent(k)]
  <2>1. ASSUME NEW k \in 1..N - 1
        PROVE  f[k] = IF k = 1 THEN 128 ELSE f[k \div 2] \div 2 + 128 * (k % 2)
    <3>1. CASE k = 1
      BY <3>1 DEF Exponent
    <3>2. CASE k # 1
      <4>1. f[k \div 2] = Exponent(k \div 2)
        BY <1>3, <3>2
      <4>2. f[k \div 2] \div 2 = Rev7(k \div 2)
        BY <1>3, <3>2, <4>1, ExponentHalves
      <4> QED
        BY <3>2, <4>2 DEF Exponent
    <3> QED
      BY <3>1, <3>2
  <2>2. Defines(f)
    BY <2>1
  <2> HIDE DEF f, Defines
  <2> QED
    BY <2>2
<1>5. Defines(RootExponent)
  BY <1>1, <1>4
<1> DEFINE r == RootExponent
<1>6. \A k \in 1..N - 1 :
          r[k] = IF k = 1 THEN 128 ELSE r[k \div 2] \div 2 + 128 * (k % 2)
  BY <1>5
<1> HIDE DEF r
<1> DEFINE T == {k \in 1..N - 1 : r[k] # Exponent(k)}
<1>7. T = {}
  <2> SUFFICES ASSUME T # {} PROVE FALSE
    OBVIOUS
  <2>1. T \in SUBSET Nat
    BY <1>2
  <2>2. PICK k \in T : \A y \in T : k <= y
    <3> HIDE DEF T
    <3> QED
      BY <2>1, LeastElement
  <2>3. k \in 1..N - 1 /\ r[k] # Exponent(k)
    OBVIOUS
  <2>4. CASE k = 1
    BY <1>6, <2>3, <2>4 DEF Exponent
  <2>5. CASE k # 1
    <3>1. k \div 2 \in 1..N - 1 /\ k \div 2 \in 1..127 /\ k \div 2 < k
      BY <1>3, <2>3, <2>5
    <3>2. k \in Int /\ k \div 2 \in Int
      BY <2>3, <3>1
    <3>3. ~ (k \div 2 \in T)
      BY <2>2, <3>1, <3>2
    <3>4. r[k \div 2] = Exponent(k \div 2)
      BY <3>1, <3>3
    <3>5. r[k \div 2] \div 2 = Rev7(k \div 2)
      BY <3>1, <3>4, ExponentHalves
    <3> QED
      BY <1>6, <2>3, <2>5, <3>5 DEF Exponent
  <2> QED
    BY <2>4, <2>5
<1> QED
  BY <1>7 DEF r

\* Which node a block is.
LEMMA NodePlaces ==
    ASSUME NEW l \in Lens, l <= N, NEW i \in Index
    PROVE  /\ N \div l + i \div l \in 1..N - 1
           /\ l = N => N \div l + i \div l = 1
           /\ l # N => LET h == N \div (2 * l) + BlockOf(i, l)
                           k == N \div l + i \div l
                       IN  /\ h \in 1..127 /\ k \div 2 = h /\ k # 1
                           /\ k % 2 = IF LowHalf(i, l) THEN 0 ELSE 1
<1>1. N \in {8, 16, 32, 64, 128, 256}
  BY SizeAssumption
<1> QED
  BY SMTT(60), <1>1 DEF Lens, Index, BlockOf, LowHalf

\* The reference's roots are those of the code's table.
LEMMA RootIsPower ==
    ASSUME NEW l \in Lens, l <= N, NEW i \in Index
    PROVE  Cong(RootOf(i \div l, l), Root(i, l))
<1> DEFINE k == N \div l + i \div l
<1>1. RootOf(i \div l, l) = PowerOf17[Exponent(k)]
  BY NodePlaces, ExponentIs DEF RootOf
<1>2. CASE l = N
  <2>1. RootOf(i \div l, l) = PowerOf17[0 + 128] /\ Root(i, l) = -1
    BY <1>1, <1>2, NodePlaces DEF Exponent, Root
  <2>2. Cong(PowerOf17[0 + 128], - PowerOf17[0]) /\ PowerOf17[0] = 1
    <3>1. 0 \in 0..127
      OBVIOUS
    <3> QED
      BY <3>1, OppositePower, PowerIs
  <2> QED
    BY <2>1, <2>2
<1>3. CASE l # N
  <2>1. PICK h \in 1..127 : /\ h = N \div (2 * l) + BlockOf(i, l)
                            /\ k \div 2 = h /\ k # 1
                            /\ k % 2 = IF LowHalf(i, l) THEN 0 ELSE 1
    BY <1>3, NodePlaces
  <2>2. PICK x \in 0..127 : x = Rev7(h)
    <3>1. h \in 0..127
      OBVIOUS
    <3> QED
      BY <3>1, Reversal
  <2>3. PICK u, v \in Int : u = Plain(h) /\ v = PowerOf17[x]
    <3>1. x \in 0..255
      OBVIOUS
    <3> QED
      BY <3>1, PlainType, PowerIs
  <2>4. Cong(v, u)
    BY <2>2, <2>3, ZetaIsPower
  <2>5. Exponent(k) = x + 128 * (k % 2)
    BY <2>1, <2>2 DEF Exponent
  <2>6. CASE LowHalf(i, l)
    <3>1. Exponent(k) = x
      BY <2>1, <2>5, <2>6
    <3> QED
      BY <1>1, <1>3, <2>1, <2>3, <2>4, <2>6, <3>1 DEF Root
  <2>7. CASE ~ LowHalf(i, l)
    <3>1. Exponent(k) = x + 128
      BY <2>1, <2>5, <2>7
    <3>2. Cong(PowerOf17[x + 128], - v)
      BY <2>3, OppositePower
    <3>3. Cong(0 - v, 0 - u)
      <4>1. Cong(0, 0)
        BY CongRefl
      <4> QED
        BY <2>4, <4>1, CongOps
    <3>4. 0 - v = - v /\ 0 - u = - u
      BY SMT
    <3>5. Cong(PowerOf17[x + 128], - u)
      BY <3>2, <3>3, <3>4, CongTrans
    <3> QED
      BY <1>1, <1>3, <2>1, <2>3, <2>7, <3>1, <3>5 DEF Root
  <2> QED
    BY <2>6, <2>7
<1> QED
  BY <1>2, <1>3

------------------------------------------------------------------------------
(* Division: the terms of a remainder *)

LEMMA IntegersFollow ==
    ASSUME NEW n \in Nat, NEW r, r[0] \in Int,
           \A m \in 1..n : r[m - 1] \in Int => r[m] \in Int
    PROVE  \A m \in 0..n : r[m] \in Int
<1> DEFINE S == {k \in Nat : k <= n => r[k] \in Int}
<1>1. 0 \in S
  OBVIOUS
<1>2. ASSUME NEW k \in Nat, k \in S PROVE k + 1 \in S
  <2>1. ASSUME k + 1 <= n PROVE r[k + 1] \in Int
    <3>1. k + 1 \in 1..n /\ (k + 1) - 1 = k /\ k <= n
      BY <2>1
    <3>2. r[k] \in Int
      BY <1>2, <3>1
    <3> QED
      BY <3>1, <3>2
  <2>2. k + 1 \in Nat
    OBVIOUS
  <2> QED
    BY <2>1, <2>2
<1>3. \A k \in Nat : k \in S
  <2> HIDE DEF S
  <2> QED
    BY <1>1, <1>2, SetInduction
<1> QED
  BY <1>3

\* d of a recursion that goes down by one.
LEMMA Predecessor ==
    ASSUME NEW n \in Nat
    PROVE  \E d : \A m \in 1..n : d[m] = m - 1
<1> DEFINE d == [m \in 1..n |-> m - 1]
<1>1. \A m \in 1..n : d[m] = m - 1
  OBVIOUS
<1> QED
  BY <1>1

\* Where the coefficients of a block's sum are.
LEMMA SumPlaces ==
    ASSUME NEW l \in Lens, l <= N, NEW j \in 0..l - 1
    PROVE  /\ N \div l \in Nat /\ 1 <= N \div l /\ l \in Int /\ N \in Int /\ j \in Int
           /\ \A m \in 1..N \div l : N - m * l + j \in Index
<1>1. N \in {8, 16, 32, 64, 128, 256}
  BY SizeAssumption
<1>2. N = l * (N \div l) /\ N \div l \in Nat /\ 1 <= N \div l /\ l \in Int /\ N \in Int
  BY SMTT(60), <1>1 DEF Lens
<1>3. ASSUME NEW n \in Nat, N = l * n, NEW m \in 1..n
      PROVE  N - m * l + j \in Index
  <2>1. m * l = l * m /\ l * m <= l * n /\ l <= l * m /\ l * m \in Int
    BY SMT, <1>2, <1>3
  <2> QED
    BY SMT, <1>2, <1>3, <2>1 DEF Index
<1>4. j \in Int
  BY <1>2
<1>5. \A m \in 1..N \div l : N - m * l + j \in Index
  BY <1>2, <1>3
<1> QED
  BY <1>2, <1>4, <1>5

Division(r, p, l, w, j) ==
    r = [m \in 0..N \div l |->
            IF m = 0 THEN 0 ELSE Mod(p[N - m * l + j] + w * r[m - 1])]

\* r holds what Remainder comes to, from the top.
Horner(r, n, p, l, w, j) ==
    /\ r[0] = 0 /\ \A m \in 0..n : r[m] \in Int
    /\ \A m \in 1..n : Cong(r[m], p[N - m * l + j] + w * r[m - 1])

LEMMA RemainderIs ==
    ASSUME NEW p \in Polynomials, NEW l \in Lens, l <= N, NEW w \in Int, NEW j \in 0..l - 1
    PROVE  \E r : /\ Remainder(p, l, w, j) = r[N \div l]
                  /\ Horner(r, N \div l, p, l, w, j)
<1> DEFINE r == CHOOSE r : Division(r, p, l, w, j)
<1>1. Remainder(p, l, w, j) = r[N \div l]
  BY DEF Remainder, Division
<1>2. PICK n \in Nat : n = N \div l /\ \A m \in 1..n : p[N - m * l + j] \in Int
  BY SumPlaces DEF Polynomials
<1>3. ASSUME NEW m \in 1..n, NEW v \in Int
      PROVE  /\ p[N - m * l + j] + w * v \in Int
             /\ Mod(p[N - m * l + j] + w * v) \in Int
             /\ Cong(Mod(p[N - m * l + j] + w * v), p[N - m * l + j] + w * v)
  <2>1. PICK u \in Int : u = p[N - m * l + j]
    BY <1>2
  <2>2. u + w * v \in Int
    BY SMT
  <2> QED
    BY <2>1, <2>2, ModIs
<1>4. \E f : Division(f, p, l, w, j)
  <2>1. PICK d : \A m \in 1..n : d[m] = m - 1
    BY Predecessor
  <2>2. PICK g : \A m \in 1..n, v \in Int : g[m][v] = Mod(p[N - m * l + j] + w * v)
    <3> DEFINE g == [m \in 1..n |-> [v \in Int |-> Mod(p[N - m * l + j] + w * v)]]
    <3>1. \A m \in 1..n, v \in Int : g[m][v] = Mod(p[N - m * l + j] + w * v)
      OBVIOUS
    <3> QED
      BY <3>1
  <2>3. Rule(n, d, g)
    <3>1. \A m \in 1..n : d[m] \in 0..m - 1
      BY <2>1
    <3>2. \A m \in 1..n, v \in Int : g[m][v] \in Int
      BY <1>3, <2>2
    <3> QED
      BY <3>1, <3>2 DEF Rule
  <2>4. PICK f \in [0..n -> Int] : Follows(f, n, 0, d, g)
    <3>1. 0 \in Int
      OBVIOUS
    <3> QED
      BY <2>3, <3>1, Recursion
  <2>5. ASSUME NEW m \in 0..n
        PROVE  f[m] = IF m = 0 THEN 0 ELSE Mod(p[N - m * l + j] + w * f[m - 1])
    <3>1. CASE m = 0
      BY <2>4, <3>1 DEF Follows
    <3>2. CASE m # 0
      <4>1. m \in 1..n /\ m - 1 \in 0..n
        BY <3>2
      <4>2. f[m] = g[m][f[d[m]]]
        BY <2>4, <3>2 DEF Follows
      <4>3. f[m - 1] \in Int
        BY <4>1
      <4> QED
        BY <2>1, <2>2, <3>2, <4>1, <4>2, <4>3
    <3> QED
      BY <3>1, <3>2
  <2>6. f = [m \in 0..n |->
                IF m = 0 THEN 0 ELSE Mod(p[N - m * l + j] + w * f[m - 1])]
    BY <2>5
  <2> QED
    BY <1>2, <2>6 DEF Division
<1>5. Division(r, p, l, w, j)
  BY <1>4
<1> HIDE DEF r
<1>6. \A m \in 0..n :
          r[m] = IF m = 0 THEN 0 ELSE Mod(p[N - m * l + j] + w * r[m - 1])
  BY <1>2, <1>5 DEF Division
<1>7. r[0] = 0
  BY <1>6
<1>8. ASSUME NEW m \in 1..n
      PROVE  r[m] = Mod(p[N - m * l + j] + w * r[m - 1]) /\ m - 1 \in 0..n
  BY <1>6
<1>9. \A m \in 0..n : r[m] \in Int
  <2>1. ASSUME NEW m \in 1..n, r[m - 1] \in Int PROVE r[m] \in Int
    BY <1>3, <1>8, <2>1
  <2>2. r[0] \in Int
    BY <1>7
  <2> QED
    BY <2>1, <2>2, IntegersFollow
<1>10. \A m \in 1..n : Cong(r[m], p[N - m * l + j] + w * r[m - 1])
  BY <1>3, <1>8, <1>9
<1>11. Horner(r, n, p, l, w, j)
  BY <1>7, <1>9, <1>10 DEF Horner
<1> QED
  BY <1>1, <1>2, <1>11

------------------------------------------------------------------------------
(* Splitting a remainder in two *)

\* One more step of a, and of the b and c it splits into.
Steps(x, y, w, v, a0, a1, a2, b0, b1, c0, c1) ==
    /\ x \in Int /\ y \in Int /\ w \in Int /\ v \in Int
    /\ a0 \in Int /\ b0 \in Int /\ c0 \in Int
    /\ Cong(w * w, v) /\ Cong(a0, b0 + w * c0)
    /\ Cong(a1, y + w * a0) /\ Cong(a2, x + w * a1)
    /\ Cong(b1, x + v * b0) /\ Cong(c1, y + v * c0)

LEMMA SplitStep ==
    ASSUME NEW x, NEW y, NEW w, NEW v, NEW a0, NEW a1, NEW a2,
           NEW b0, NEW b1, NEW c0, NEW c1,
           Steps(x, y, w, v, a0, a1, a2, b0, b1, c0, c1)
    PROVE  Cong(a2, b1 + w * c1)
<1>0. /\ x \in Int /\ y \in Int /\ w \in Int /\ v \in Int
      /\ a0 \in Int /\ b0 \in Int /\ c0 \in Int
      /\ Cong(w * w, v) /\ Cong(a0, b0 + w * c0)
      /\ Cong(a1, y + w * a0) /\ Cong(a2, x + w * a1)
      /\ Cong(b1, x + v * b0) /\ Cong(c1, y + v * c0)
  BY Zenon DEF Steps
<1>1. Cong(x, x) /\ Cong(y, y) /\ Cong(w, w)
  BY <1>0, CongRefl
<1>2. Cong(x + w * a1, x + w * (y + w * a0))
  BY <1>0, <1>1, CongOps
<1>3. PICK d \in Int : d = b0 + w * c0
  BY SMT, <1>0
<1>4. Cong((w * w) * a0, v * d)
  BY <1>0, <1>3, CongOps
<1>5. x + w * (y + w * a0) = (x + w * y) + (w * w) * a0 /\ x + w * y \in Int
  BY SMT, <1>0
<1>6. Cong((x + w * y) + (w * w) * a0, (x + w * y) + v * d)
  BY <1>0, <1>4, <1>5, CongRefl, CongOps
<1>7. (x + w * y) + v * d = (x + v * b0) + w * (y + v * c0)
  BY SMT, <1>0, <1>3
<1>8. Cong(b1 + w * c1, (x + v * b0) + w * (y + v * c0))
  BY <1>0, <1>1, CongOps
<1>9. Cong(a2, x + w * (y + w * a0))
  BY <1>0, <1>2, CongTrans
<1>10. Cong(a2, (x + v * b0) + w * (y + v * c0))
  BY <1>5, <1>6, <1>7, <1>9, CongTrans
<1> QED
  BY <1>8, <1>10, CongSym, CongTrans

\* Where the terms of a remainder are in the remainders of twice the length.
LEMMA SplitPlaces ==
    ASSUME NEW l \in Lens, l < N, NEW j \in 0..l - 1
    PROVE  \E n \in Nat :
             /\ n = N \div (2 * l) /\ 2 * n = N \div l
             /\ \A m \in 0..n - 1 :
                  /\ 2 * m + 1 \in 1..2 * n /\ 2 * m + 2 \in 1..2 * n /\ m + 1 \in 1..n
                  /\ m \in 0..n /\ 2 * m \in 0..2 * n /\ 2 * m + 1 \in 0..2 * n
                  /\ (2 * m + 1) - 1 = 2 * m /\ (2 * m + 2) - 1 = 2 * m + 1
                  /\ N - (2 * m + 2) * l + j = N - (m + 1) * (2 * l) + j
                  /\ N - (2 * m + 1) * l + j = N - (m + 1) * (2 * l) + (j + l)
                  /\ 2 * (m + 1) = 2 * m + 2 /\ (m + 1) - 1 = m
<1>1. N \in {8, 16, 32, 64, 128, 256}
  BY SizeAssumption
<1>2. /\ N \div (2 * l) \in Nat /\ 2 * (N \div (2 * l)) = N \div l
      /\ l \in Int /\ N \in Int /\ j \in Int
  BY SMTT(60), <1>1 DEF Lens
<1>3. PICK n \in Nat : n = N \div (2 * l)
  BY <1>2
<1>4. ASSUME NEW m \in 0..n - 1
      PROVE  /\ 2 * m + 1 \in 1..2 * n /\ 2 * m + 2 \in 1..2 * n /\ m + 1 \in 1..n
             /\ m \in 0..n /\ 2 * m \in 0..2 * n /\ 2 * m + 1 \in 0..2 * n
             /\ (2 * m + 1) - 1 = 2 * m /\ (2 * m + 2) - 1 = 2 * m + 1
             /\ 2 * (m + 1) = 2 * m + 2 /\ (m + 1) - 1 = m
  BY SMT
<1>5. ASSUME NEW m \in 0..n - 1
      PROVE  /\ N - (2 * m + 2) * l + j = N - (m + 1) * (2 * l) + j
             /\ N - (2 * m + 1) * l + j = N - (m + 1) * (2 * l) + (j + l)
  BY SMT, <1>2
<1>6. 2 * n = N \div l
  BY <1>2, <1>3
<1> QED
  BY <1>3, <1>4, <1>5, <1>6

\* X^2l - w^2 divides by X^l - w: the remainder of a remainder.
LEMMA RemainderSplits ==
    ASSUME NEW p \in Polynomials, NEW l \in Lens, l < N, NEW j \in 0..l - 1,
           NEW w \in Int, NEW v \in Int, Cong(w * w, v)
    PROVE  Cong(Remainder(p, l, w, j),
                Remainder(p, 2 * l, v, j) + w * Remainder(p, 2 * l, v, j + l))
<1>1. /\ 2 * l \in Lens /\ 2 * l <= N /\ l <= N /\ l \in Int /\ N \in Int
      /\ j \in 0..2 * l - 1 /\ j + l \in 0..2 * l - 1 /\ j \in Int
  <2>1. 2 * l \in Lens /\ 2 * l <= N
    BY Halving
  <2>2. l \in Int /\ N \in Int /\ 2 <= l
    BY SMT, SizeFacts DEF Lens
  <2> QED
    BY SMT, <2>1, <2>2
<1>2. PICK n \in Nat :
          /\ n = N \div (2 * l) /\ 2 * n = N \div l
          /\ \A m \in 0..n - 1 :
               /\ 2 * m + 1 \in 1..2 * n /\ 2 * m + 2 \in 1..2 * n /\ m + 1 \in 1..n
               /\ m \in 0..n /\ 2 * m \in 0..2 * n /\ 2 * m + 1 \in 0..2 * n
               /\ (2 * m + 1) - 1 = 2 * m /\ (2 * m + 2) - 1 = 2 * m + 1
               /\ N - (2 * m + 2) * l + j = N - (m + 1) * (2 * l) + j
               /\ N - (2 * m + 1) * l + j = N - (m + 1) * (2 * l) + (j + l)
               /\ 2 * (m + 1) = 2 * m + 2 /\ (m + 1) - 1 = m
  BY SplitPlaces
<1>3. PICK a : Remainder(p, l, w, j) = a[2 * n] /\ Horner(a, 2 * n, p, l, w, j)
  <2>1. \E a : /\ Remainder(p, l, w, j) = a[N \div l]
               /\ Horner(a, N \div l, p, l, w, j)
    BY <1>1, RemainderIs
  <2> QED
    BY <1>2, <2>1
<1>4. PICK b : Remainder(p, 2 * l, v, j) = b[n] /\ Horner(b, n, p, 2 * l, v, j)
  <2>1. \E b : /\ Remainder(p, 2 * l, v, j) = b[N \div (2 * l)]
               /\ Horner(b, N \div (2 * l), p, 2 * l, v, j)
    BY <1>1, RemainderIs
  <2> QED
    BY <1>2, <2>1
<1>5. PICK c : /\ Remainder(p, 2 * l, v, j + l) = c[n]
               /\ Horner(c, n, p, 2 * l, v, j + l)
  <2>1. \E c : /\ Remainder(p, 2 * l, v, j + l) = c[N \div (2 * l)]
               /\ Horner(c, N \div (2 * l), p, 2 * l, v, j + l)
    BY <1>1, RemainderIs
  <2> QED
    BY <1>2, <2>1
<1> DEFINE S == {m \in Nat : m <= n => Cong(a[2 * m], b[m] + w * c[m])}
<1>6. 0 \in S
  <2>1. 2 * 0 = 0 /\ 0 + w * 0 = 0 /\ 0 \in Int
    BY SMT
  <2>2. Cong(a[2 * 0], b[0] + w * c[0])
    BY <1>3, <1>4, <1>5, <2>1, CongRefl DEF Horner
  <2> QED
    BY <2>2
<1>7. ASSUME NEW m \in Nat, m \in S PROVE m + 1 \in S
  <2>1. ASSUME m + 1 <= n PROVE Cong(a[2 * (m + 1)], b[m + 1] + w * c[m + 1])
    <3>1. m \in 0..n - 1 /\ m <= n
      BY <2>1
    <3>2. PICK x, y \in Int : /\ x = p[N - (m + 1) * (2 * l) + j]
                              /\ y = p[N - (m + 1) * (2 * l) + (j + l)]
      <4>1. /\ N - (m + 1) * (2 * l) + j \in Index
            /\ N - (m + 1) * (2 * l) + (j + l) \in Index
        BY <1>1, <1>2, <3>1, SumPlaces
      <4> QED
        BY <4>1 DEF Polynomials
    <3>3. Cong(a[2 * m], b[m] + w * c[m])
      BY <1>7, <3>1
    <3>4. Cong(a[2 * m + 1], y + w * a[2 * m])
      BY <1>2, <1>3, <3>1, <3>2 DEF Horner
    <3>5. Cong(a[2 * m + 2], x + w * a[2 * m + 1])
      BY <1>2, <1>3, <3>1, <3>2 DEF Horner
    <3>6. Cong(b[m + 1], x + v * b[m]) /\ Cong(c[m + 1], y + v * c[m])
      BY <1>2, <1>4, <1>5, <3>1, <3>2 DEF Horner
    <3>7. PICK a0, b0, c0 \in Int : a0 = a[2 * m] /\ b0 = b[m] /\ c0 = c[m]
      BY <1>2, <1>3, <1>4, <1>5, <3>1 DEF Horner
    <3>8. Cong(a[2 * m + 2], b[m + 1] + w * c[m + 1])
      <4>1. Steps(x, y, w, v, a0, a[2 * m + 1], a[2 * m + 2],
                  b0, b[m + 1], c0, c[m + 1])
        BY <3>3, <3>4, <3>5, <3>6, <3>7 DEF Steps
      <4> QED
        BY <4>1, SplitStep
    <3> QED
      BY <1>2, <3>1, <3>8
  <2>2. m + 1 \in Nat
    OBVIOUS
  <2> QED
    BY <2>1, <2>2
<1>8. n \in S
  <2> HIDE DEF S
  <2> QED
    BY <1>6, <1>7, SetInduction
<1>9. Cong(a[2 * n], b[n] + w * c[n])
  BY <1>8
<1> QED
  BY <1>3, <1>4, <1>5, <1>9

------------------------------------------------------------------------------
(* The remainders of a polynomial are the layers of its transform *)

\* The remainders of p modulo the polynomials of length l.
Rem(p, l) == [i \in Index |-> Remainder(p, l, RootOf(i \div l, l), i % l)]

LEMMA InBlock ==
    ASSUME NEW l \in Lens, l <= N, NEW i \in Index
    PROVE  i % l \in 0..l - 1 /\ RootOf(i \div l, l) \in Int
<1>1. N \in {8, 16, 32, 64, 128, 256}
  BY SizeAssumption
<1>2. i % l \in 0..l - 1
  BY SMTT(60), <1>1 DEF Lens, Index
<1> QED
  BY <1>2, RootIsPower DEF Cong

LEMMA RemType ==
    ASSUME NEW p \in Polynomials, NEW l \in Lens, l <= N
    PROVE  Rem(p, l) \in Polynomials
<1>1. ASSUME NEW i \in Index
      PROVE  Remainder(p, l, RootOf(i \div l, l), i % l) \in Int
  <2>1. PICK w \in Int : w = RootOf(i \div l, l)
    BY InBlock
  <2>2. PICK j \in 0..l - 1 : j = i % l
    BY InBlock
  <2>3. PICK r : /\ Remainder(p, l, w, j) = r[N \div l]
                 /\ \A m \in 0..N \div l : r[m] \in Int
    BY RemainderIs DEF Horner
  <2>4. N \div l \in 0..N \div l
    <3>1. N \div l \in Nat
      BY SumPlaces
    <3> QED
      BY <3>1
  <2> QED
    BY <2>1, <2>2, <2>3, <2>4
<1> QED
  BY <1>1 DEF Rem, Polynomials

\* Modulo X^N + 1 a polynomial is its own remainder, ...
LEMMA RemWhole ==
    ASSUME NEW p \in Polynomials
    PROVE  Same(Rem(p, N), p)
<1>1. N \in Lens /\ N <= N /\ N \in Int /\ N \div N = 1
  BY SMT, SizeFacts, SizeAssumption
<1>2. ASSUME NEW i \in Index
      PROVE  Cong(Rem(p, N)[i], p[i])
  <2>1. PICK w \in Int : w = RootOf(i \div N, N)
    BY <1>1, InBlock
  <2>2. i % N = i /\ i \in 0..N - 1 /\ N - 1 * N + i = i /\ 1 \in 1..1 /\ 1 - 1 = 0
    BY SMT, <1>1 DEF Index
  <2>3. PICK r : /\ Remainder(p, N, w, i) = r[1] /\ r[0] = 0
                 /\ \A m \in 1..1 : Cong(r[m], p[N - m * N + i] + w * r[m - 1])
    <3>1. \E r : Remainder(p, N, w, i) = r[N \div N] /\ Horner(r, N \div N, p, N, w, i)
      BY <1>1, <2>2, RemainderIs
    <3> QED
      BY <1>1, <3>1 DEF Horner
  <2>4. Cong(r[1], p[i] + w * 0)
    BY <2>2, <2>3
  <2>5. p[i] + w * 0 = p[i]
    <3>1. p[i] \in Int
      BY DEF Polynomials
    <3> QED
      BY SMT, <3>1
  <2>6. Rem(p, N)[i] = r[1]
    BY <2>1, <2>2, <2>3 DEF Rem
  <2> QED
    BY <2>4, <2>5, <2>6
<1> QED
  BY <1>1, <1>2, RemType DEF Same

\* The halves of a block in the block above.
LEMMA HalvesPlaces ==
    ASSUME NEW l \in Lens, l < N, NEW i \in Index
    PROVE  /\ LowHalf(i, l) => /\ i + l \in Index /\ (i + l) % (2 * l) = (i % l) + l
                               /\ (i + l) \div (2 * l) = i \div (2 * l)
                               /\ i % (2 * l) = i % l
           /\ ~ LowHalf(i, l) => /\ i - l \in Index /\ (i - l) % (2 * l) = i % l
                                 /\ (i - l) \div (2 * l) = i \div (2 * l)
                                 /\ i % (2 * l) = (i % l) + l
<1>1. N \in {8, 16, 32, 64, 128, 256}
  BY SizeAssumption
<1> QED
  BY SMTT(60), <1>1 DEF Lens, Index, LowHalf

\* ... and a layer makes the remainders of half the length.
LEMMA RemLayer ==
    ASSUME NEW p \in Polynomials, NEW l \in Lens, l < N
    PROVE  Same(Rem(p, l), Layer(Rem(p, 2 * l), l))
<1>1. 2 * l \in Lens /\ 2 * l <= N /\ l <= N
  <2>1. 2 * l \in Lens /\ 2 * l <= N
    BY Halving
  <2>2. l <= N
    BY SMT, SizeFacts DEF Lens
  <2> QED
    BY <2>1, <2>2
<1>2. Rem(p, l) \in Polynomials /\ Layer(Rem(p, 2 * l), l) \in Polynomials
  BY <1>1, RemType, LayerType
<1>3. ASSUME NEW i \in Index
      PROVE  Cong(Rem(p, l)[i], Layer(Rem(p, 2 * l), l)[i])
  <2>1. PICK w \in Int : w = RootOf(i \div l, l)
    BY <1>1, InBlock
  <2>2. PICK v \in Int : v = RootOf(i \div (2 * l), 2 * l)
    BY <1>1, InBlock
  <2>3. PICK s \in Int : s = Root(i, l)
    BY <1>1, RootType
  <2>4. PICK j \in 0..l - 1 : j = i % l
    BY <1>1, InBlock
  <2>5. Cong(w, s)
    BY <1>1, <2>1, <2>3, RootIsPower
  <2>6. Cong(s * s, Root(i, 2 * l)) /\ Cong(v, Root(i, 2 * l))
    BY <1>1, <2>2, <2>3, RootSquare, RootIsPower
  <2>7. Cong(w * w, v)
    <3>1. Cong(w * w, s * s)
      BY <2>5, CongOps
    <3> QED
      BY <2>6, <3>1, CongSym, CongTrans
  <2>8. Cong(Remainder(p, l, w, j),
             Remainder(p, 2 * l, v, j) + w * Remainder(p, 2 * l, v, j + l))
    BY <2>7, RemainderSplits
  <2>9. Rem(p, l)[i] = Remainder(p, l, w, j)
    BY <2>1, <2>4 DEF Rem
  <2>10. Layer(Rem(p, 2 * l), l)[i]
             = Remainder(p, 2 * l, v, j) + s * Remainder(p, 2 * l, v, j + l)
    <3>1. CASE LowHalf(i, l)
      <4>1. i + l \in Index
        BY <3>1, HalvesPlaces
      <4>2. /\ Rem(p, 2 * l)[i] = Remainder(p, 2 * l, v, j)
            /\ Rem(p, 2 * l)[i + l] = Remainder(p, 2 * l, v, j + l)
        BY <2>2, <2>4, <3>1, HalvesPlaces DEF Rem
      <4> QED
        BY <2>3, <3>1, <4>2 DEF Layer
    <3>2. CASE ~ LowHalf(i, l)
      <4>1. i - l \in Index
        BY <3>2, HalvesPlaces
      <4>2. /\ Rem(p, 2 * l)[i - l] = Remainder(p, 2 * l, v, j)
            /\ Rem(p, 2 * l)[i] = Remainder(p, 2 * l, v, j + l)
        BY <2>2, <2>4, <3>2, HalvesPlaces DEF Rem
      <4> QED
        BY <2>3, <3>2, <4>2 DEF Layer
    <3> QED
      BY <3>1, <3>2
  <2>11. PICK x, y \in Int : x = Remainder(p, 2 * l, v, j) /\ y = Remainder(p, 2 * l, v, j + l)
    <3>1. Rem(p, 2 * l) \in Polynomials
      BY <1>1, RemType
    <3>2. CASE LowHalf(i, l)
      <4>1. /\ Rem(p, 2 * l)[i] = Remainder(p, 2 * l, v, j)
            /\ Rem(p, 2 * l)[i + l] = Remainder(p, 2 * l, v, j + l)
            /\ i + l \in Index
        BY <2>2, <2>4, <3>2, HalvesPlaces DEF Rem
      <4> QED
        BY <3>1, <4>1 DEF Polynomials
    <3>3. CASE ~ LowHalf(i, l)
      <4>1. /\ Rem(p, 2 * l)[i - l] = Remainder(p, 2 * l, v, j)
            /\ Rem(p, 2 * l)[i] = Remainder(p, 2 * l, v, j + l)
            /\ i - l \in Index
        BY <2>2, <2>4, <3>3, HalvesPlaces DEF Rem
      <4> QED
        BY <3>1, <4>1 DEF Polynomials
    <3> QED
      BY <3>2, <3>3
  <2>12. Cong(x + w * y, x + s * y)
    BY <2>5, <2>11, CongRefl, CongOps
  <2> QED
    BY <2>8, <2>9, <2>10, <2>11, <2>12, CongTrans
<1> QED
  BY <1>2, <1>3 DEF Same

LEMMA RemTransforms ==
    ASSUME NEW p \in Polynomials
    PROVE  Transforms(p, Rem(p, 2))
<1> DEFINE a == [l \in LayerLens |-> Rem(p, l)]
<1>1. \A l \in LayerLens : a[l] = Rem(p, l) /\ a[l] \in Polynomials
  BY LensIn, RemType
<1> HIDE DEF a
<1>2. \A l \in LayerLens : l # N => Same(a[l], Layer(a[2 * l], l))
  BY <1>1, LensIn, RemLayer
<1>3. Same(a[N], p) /\ Same(a[2], Rem(p, 2))
  BY <1>1, LensIn, RemWhole, SameRefl
<1> QED
  BY <1>1, <1>2, <1>3 DEF Transforms, Path

------------------------------------------------------------------------------
(* The product modulo X^N + 1 *)

\* b times X^n
Turned(b, n) == [i \in Index |-> IF n <= i THEN b[i - n] ELSE - b[N + i - n]]

Term(a, b, i, j) == IF j <= i THEN Mod(a[j] * b[i - j]) ELSE - Mod(a[j] * b[N + i - j])

\* What NegacyclicProduct sums up for coefficient i.
Summed(s, a, b, i) ==
    s = [m \in 0..N |-> IF m = 0 THEN 0 ELSE s[m - 1] + Term(a, b, i, m - 1)]

Sums(a, b, i) == CHOOSE s : Summed(s, a, b, i)

Partial(a, b, n) == [i \in Index |-> Sums(a, b, i)[n]]

LEMMA TurnedPlaces ==
    \A i \in Index, n \in 0..N - 1 :
        /\ n \in Index /\ N \in Int
        /\ n <= i => i - n \in Index
        /\ ~ (n <= i) => N + i - n \in Index
BY SMT, SizeFacts DEF Index

LEMMA TurnedType ==
    ASSUME NEW b \in Polynomials, NEW n \in 0..N - 1
    PROVE  Turned(b, n) \in Polynomials
<1>1. ASSUME NEW i \in Index
      PROVE  (IF n <= i THEN b[i - n] ELSE - b[N + i - n]) \in Int
  <2>1. CASE n <= i
    BY <2>1, TurnedPlaces DEF Polynomials
  <2>2. CASE ~ (n <= i)
    <3>1. PICK u \in Int : u = b[N + i - n]
      BY <2>2, TurnedPlaces DEF Polynomials
    <3> QED
      BY SMT, <2>2, <3>1
  <2> QED
    BY <2>1, <2>2
<1> QED
  BY <1>1 DEF Turned, Polynomials

LEMMA TermIs ==
    ASSUME NEW a \in Polynomials, NEW b \in Polynomials,
           NEW i \in Index, NEW n \in 0..N - 1
    PROVE  /\ Term(a, b, i, n) \in Int
           /\ Cong(Term(a, b, i, n), a[n] * Turned(b, n)[i])
<1>1. PICK u \in Int : u = a[n]
  BY TurnedPlaces DEF Polynomials
<1>2. CASE n <= i
  <2>1. PICK v \in Int : v = b[i - n]
    BY <1>2, TurnedPlaces DEF Polynomials
  <2>2. PICK z \in Int : z = u * v
    BY SMT
  <2>3. Term(a, b, i, n) = Mod(z) /\ Turned(b, n)[i] = v
    BY <1>1, <1>2, <2>1, <2>2 DEF Term, Turned
  <2> QED
    BY <1>1, <2>2, <2>3, ModIs
<1>3. CASE ~ (n <= i)
  <2>1. PICK v \in Int : v = b[N + i - n]
    BY <1>3, TurnedPlaces DEF Polynomials
  <2>2. PICK z \in Int : z = u * v
    BY SMT
  <2>3. PICK y \in Int : y = Mod(z) /\ Cong(y, z)
    BY ModIs
  <2>4. Term(a, b, i, n) = - y /\ Turned(b, n)[i] = - v
    BY <1>1, <1>3, <2>1, <2>2, <2>3 DEF Term, Turned
  <2>5. Cong(0 - y, 0 - z)
    <3>1. Cong(0, 0)
      BY CongRefl
    <3> QED
      BY <2>3, <3>1, CongOps
  <2>6. 0 - y = - y /\ 0 - z = u * (- v) /\ - y \in Int
    BY SMT, <2>2
  <2> QED
    BY <1>1, <2>4, <2>5, <2>6
<1> QED
  BY <1>2, <1>3

LEMMA SumsAre ==
    ASSUME NEW a \in Polynomials, NEW b \in Polynomials, NEW i \in Index
    PROVE  /\ Sums(a, b, i)[0] = 0
           /\ \A m \in 0..N : Sums(a, b, i)[m] \in Int
           /\ \A m \in 0..N - 1 :
                  Sums(a, b, i)[m + 1] = Sums(a, b, i)[m] + Term(a, b, i, m)
<1>1. N \in Nat
  BY SizeFacts
<1>2. \E s : Summed(s, a, b, i)
  <2>1. PICK d : \A m \in 1..N : d[m] = m - 1
    BY <1>1, Predecessor
  <2>2. PICK g : \A m \in 1..N, v \in Int : g[m][v] = v + Term(a, b, i, m - 1)
    <3> DEFINE g == [m \in 1..N |-> [v \in Int |-> v + Term(a, b, i, m - 1)]]
    <3>1. \A m \in 1..N, v \in Int : g[m][v] = v + Term(a, b, i, m - 1)
      OBVIOUS
    <3> QED
      BY <3>1
  <2>3. Rule(N, d, g)
    <3>1. \A m \in 1..N : d[m] \in 0..m - 1 /\ m - 1 \in 0..N - 1
      BY <1>1, <2>1
    <3>2. \A m \in 1..N, v \in Int : g[m][v] \in Int
      BY <2>2, <3>1, TermIs
    <3> QED
      BY <3>1, <3>2 DEF Rule
  <2>4. PICK s \in [0..N -> Int] : Follows(s, N, 0, d, g)
    <3>1. 0 \in Int
      OBVIOUS
    <3> QED
      BY <1>1, <2>3, <3>1, Recursion
  <2>5. ASSUME NEW m \in 0..N
        PROVE  s[m] = IF m = 0 THEN 0 ELSE s[m - 1] + Term(a, b, i, m - 1)
    <3>1. CASE m = 0
      BY <2>4, <3>1 DEF Follows
    <3>2. CASE m # 0
      <4>1. m \in 1..N /\ m - 1 \in 0..N
        BY <1>1, <3>2
      <4>2. s[m] = g[m][s[d[m]]]
        BY <2>4, <3>2 DEF Follows
      <4>3. s[m - 1] \in Int
        BY <4>1
      <4> QED
        BY <2>1, <2>2, <3>2, <4>1, <4>2, <4>3
    <3> QED
      BY <3>1, <3>2
  <2>6. s = [m \in 0..N |-> IF m = 0 THEN 0 ELSE s[m - 1] + Term(a, b, i, m - 1)]
    BY <2>5
  <2> QED
    BY <2>6 DEF Summed
<1>3. Summed(Sums(a, b, i), a, b, i)
  BY <1>2 DEF Sums
<1>4. PICK s : s = Sums(a, b, i)
  OBVIOUS
<1>5. \A m \in 0..N : s[m] = IF m = 0 THEN 0 ELSE s[m - 1] + Term(a, b, i, m - 1)
  BY <1>3, <1>4 DEF Summed
<1>6. s[0] = 0
  BY <1>1, <1>5
<1>7. \A m \in 0..N : s[m] \in Int
  <2>1. ASSUME NEW m \in 1..N, s[m - 1] \in Int PROVE s[m] \in Int
    <3>1. m \in 0..N /\ m # 0 /\ m - 1 \in 0..N - 1
      BY <1>1
    <3>2. Term(a, b, i, m - 1) \in Int
      BY <3>1, TermIs
    <3> QED
      BY <1>5, <2>1, <3>1, <3>2
  <2>2. s[0] \in Int
    BY <1>6
  <2> QED
    BY <1>1, <2>1, <2>2, IntegersFollow
<1>8. ASSUME NEW m \in 0..N - 1
      PROVE  s[m + 1] = s[m] + Term(a, b, i, m)
  <2>1. m + 1 \in 0..N /\ m + 1 # 0 /\ (m + 1) - 1 = m
    BY <1>1
  <2> QED
    BY <1>5, <2>1
<1> QED
  BY <1>4, <1>6, <1>7, <1>8

\* The sums grow by a[n] * X^n * b, and end as the product.
LEMMA PartialIs ==
    ASSUME NEW a \in Polynomials, NEW b \in Polynomials
    PROVE  /\ Partial(a, b, 0) = Zero
           /\ \A n \in 0..N : Partial(a, b, n) \in Polynomials
           /\ \A n \in 0..N - 1 :
                  Same(Partial(a, b, n + 1), Plus(Partial(a, b, n), a[n], Turned(b, n)))
           /\ Same(NegacyclicProduct(a, b), Partial(a, b, N))
<1>1. N \in Nat
  BY SizeFacts
<1>2. Partial(a, b, 0) = Zero
  BY SumsAre DEF Partial, Zero
<1>3. \A n \in 0..N : Partial(a, b, n) \in Polynomials
  BY SumsAre DEF Partial, Polynomials
<1>4. ASSUME NEW n \in 0..N - 1
      PROVE  Same(Partial(a, b, n + 1), Plus(Partial(a, b, n), a[n], Turned(b, n)))
  <2>1. n \in 0..N /\ n + 1 \in 0..N /\ n \in Index
    BY <1>1 DEF Index
  <2>2. a[n] \in Int
    BY <2>1 DEF Polynomials
  <2>3. /\ Partial(a, b, n + 1) \in Polynomials
        /\ Plus(Partial(a, b, n), a[n], Turned(b, n)) \in Polynomials
    BY <1>3, <2>1, <2>2, TurnedType, PlusType
  <2>4. ASSUME NEW i \in Index
        PROVE  Cong(Partial(a, b, n + 1)[i], Plus(Partial(a, b, n), a[n], Turned(b, n))[i])
    <3>1. PICK s, t \in Int : s = Sums(a, b, i)[n] /\ t = Term(a, b, i, n)
      BY <2>1, SumsAre, TermIs
    <3>2. Sums(a, b, i)[n + 1] = s + t
      BY <3>1, SumsAre
    <3>3. Cong(s + t, s + a[n] * Turned(b, n)[i])
      <4>1. Cong(t, a[n] * Turned(b, n)[i]) /\ Cong(s, s)
        BY <3>1, TermIs, CongRefl
      <4> QED
        BY <4>1, CongOps
    <3> QED
      BY <3>1, <3>2, <3>3 DEF Partial, Plus
  <2> QED
    BY <2>3, <2>4 DEF Same
<1>5. Same(NegacyclicProduct(a, b), Partial(a, b, N))
  <2>1. NegacyclicProduct(a, b) = [i \in Index |-> Mod(Sums(a, b, i)[N])]
    BY DEF NegacyclicProduct, SumBelow, Sums, Summed, Term
  <2>2. N \in 0..N
    BY <1>1
  <2>3. ASSUME NEW i \in Index
        PROVE  /\ NegacyclicProduct(a, b)[i] \in Int
               /\ Cong(NegacyclicProduct(a, b)[i], Partial(a, b, N)[i])
    <3>1. Sums(a, b, i)[N] \in Int
      BY <2>2, SumsAre
    <3> QED
      BY <2>1, <3>1, ModIs DEF Partial
  <2> QED
    BY <1>3, <2>1, <2>2, <2>3 DEF Same, Polynomials
<1> QED
  BY <1>2, <1>3, <1>4, <1>5

------------------------------------------------------------------------------
(* A product, power by power of X *)

\* X^n
Unit(n) == [i \in Index |-> IF i = n THEN 1 ELSE 0]

\* The first n terms of a.
First(a, n) == [i \in Index |-> IF i < n THEN a[i] ELSE 0]

LEMMA UnitShift ==
    ASSUME NEW n \in 0..N - 2, NEW b \in Polynomials
    PROVE  /\ Shift(Unit(n), N) = Unit(n + 1)
           /\ Shift(Turned(b, n), N) = Turned(b, n + 1)
<1>1. N \in Int /\ 8 <= N
  BY SizeFacts
<1>2. ASSUME NEW i \in Index
      PROVE  /\ Shift(Unit(n), N)[i] = Unit(n + 1)[i]
             /\ Shift(Turned(b, n), N)[i] = Turned(b, n + 1)[i]
  <2>1. i \in Int /\ 0 <= i /\ i <= N - 1 /\ n \in Int /\ 0 <= n /\ n <= N - 2
    BY SMT, <1>1 DEF Index
  <2>2. CASE i = 0
    <3>1. /\ i % N = 0 /\ i + N - 1 \in Index /\ i + N - 1 # n /\ i # n + 1
          /\ n <= i + N - 1 /\ ~ (n + 1 <= i) /\ (i + N - 1) - n = N + i - (n + 1)
          /\ N + i - (n + 1) \in Index
      BY SMT, <1>1, <2>1, <2>2 DEF Index
    <3>2. Root(i, N) = -1
      BY DEF Root
    <3>3. Shift(Unit(n), N)[i] = (-1) * 0 /\ Unit(n + 1)[i] = 0
      BY <3>1, <3>2 DEF Shift, Unit
    <3>4. PICK v \in Int : v = b[N + i - (n + 1)]
      BY <3>1 DEF Polynomials
    <3>5. Shift(Turned(b, n), N)[i] = (-1) * v /\ Turned(b, n + 1)[i] = - v
      BY <3>1, <3>2, <3>4 DEF Shift, Turned
    <3>6. (-1) * v = - v /\ (-1) * 0 = 0
      BY SMT
    <3> QED
      BY <3>3, <3>5, <3>6
  <2>3. CASE i # 0
    <3>1. /\ i % N # 0 /\ i - 1 \in Index /\ (i - 1 = n <=> i = n + 1)
          /\ (n <= i - 1 <=> n + 1 <= i) /\ (i - 1) - n = i - (n + 1)
          /\ N + (i - 1) - n = N + i - (n + 1)
      BY SMT, <1>1, <2>1, <2>3 DEF Index
    <3> QED
      BY <3>1 DEF Shift, Unit, Turned
  <2> QED
    BY <2>2, <2>3
<1> QED
  BY <1>2 DEF Shift, Unit, Turned

\* X^n, and b times X^n, transformed.
LEMMA UnitTransforms ==
    ASSUME NEW b, NEW B, Transforms(b, B)
    PROVE  \A n \in 0..N - 1 :
               \E U : Transforms(Unit(n), U) /\ Transforms(Turned(b, n), Prod(U, B))
<1> DEFINE Good(n) == \E U : /\ Transforms(Unit(n), U)
                             /\ Transforms(Turned(b, n), Prod(U, B))
           S == {n \in Nat : n <= N - 1 => Good(n)}
<1>0. b \in Polynomials /\ B \in Polynomials /\ N \in Nat /\ 8 <= N
  BY TransformsType, SizeFacts
<1>1. 0 \in S
  <2>1. Unit(0) = One(N)
    <3>1. \A i \in Index : i % N = 0 <=> i = 0
      BY SMT, <1>0 DEF Index
    <3> QED
      BY <3>1 DEF Unit, One
  <2>2. Turned(b, 0) = b
    <3>1. \A i \in Index : 0 <= i /\ i - 0 = i
      BY SMT, <1>0 DEF Index
    <3> QED
      BY <1>0, <3>1 DEF Turned, Polynomials
  <2>3. Prod(One(2), B) = B
    BY <1>0, ProdOne
  <2>4. Good(0)
    BY <2>1, <2>2, <2>3, TransformsOne
  <2> QED
    BY <2>4
<1>2. ASSUME NEW n \in Nat, n \in S PROVE n + 1 \in S
  <2>1. ASSUME n + 1 <= N - 1 PROVE Good(n + 1)
    <3>1. n \in 0..N - 2 /\ n <= N - 1
      BY <1>0, <2>1
    <3>2. PICK U : Transforms(Unit(n), U) /\ Transforms(Turned(b, n), Prod(U, B))
      BY <1>2, <3>1
    <3>3. U \in Polynomials
      BY <3>2, TransformsType
    <3>4. Transforms(Unit(n + 1), Shift(U, 2))
      BY <1>0, <3>1, <3>2, UnitShift, TransformsShift
    <3>5. Transforms(Turned(b, n + 1), Shift(Prod(U, B), 2))
      BY <1>0, <3>1, <3>2, UnitShift, TransformsShift
    <3>6. Prod(Shift(U, 2), B) = Shift(Prod(U, B), 2)
      BY <1>0, <3>3, ProdShift
    <3> QED
      BY <3>4, <3>5, <3>6
  <2>2. n + 1 \in Nat
    OBVIOUS
  <2> QED
    BY <2>1, <2>2
<1>3. \A n \in Nat : n \in S
  <2> HIDE DEF S
  <2> QED
    BY <1>1, <1>2, SetInduction
<1>4. ASSUME NEW n \in 0..N - 1 PROVE Good(n)
  <2>1. n \in Nat /\ n <= N - 1
    BY <1>0
  <2> QED
    BY <1>3, <2>1
<1> QED
  BY <1>4

LEMMA FirstStep ==
    ASSUME NEW a \in Polynomials, NEW n \in 0..N - 1
    PROVE  a[n] \in Int /\ First(a, n + 1) = Plus(First(a, n), a[n], Unit(n))
<1>1. n \in Index /\ N \in Int
  BY TurnedPlaces, SizeFacts DEF Index
<1>2. ASSUME NEW i \in Index
      PROVE  First(a, n + 1)[i] = Plus(First(a, n), a[n], Unit(n))[i]
  <2>1. PICK u, v \in Int : u = a[i] /\ v = a[n]
    BY <1>1 DEF Polynomials
  <2>2. i \in Int /\ n \in Int
    BY <1>1 DEF Index
  <2>3. u + v * 0 = u /\ 0 + v * 0 = 0 /\ 0 + v * 1 = v
    BY SMT
  <2>4. CASE i < n
    <3>1. i < n + 1 /\ i # n
      BY <2>2, <2>4
    <3> QED
      BY <2>1, <2>3, <2>4, <3>1 DEF First, Plus, Unit
  <2>5. CASE i = n
    <3>1. i < n + 1 /\ ~ (i < n)
      BY <2>2, <2>5
    <3> QED
      BY <2>1, <2>3, <2>5, <3>1 DEF First, Plus, Unit
  <2>6. CASE i > n
    <3>1. ~ (i < n + 1) /\ ~ (i < n) /\ i # n
      BY <2>2, <2>6
    <3> QED
      BY <2>1, <2>3, <3>1 DEF First, Plus, Unit
  <2> QED
    BY <2>2, <2>4, <2>5, <2>6
<1> QED
  BY <1>1, <1>2 DEF First, Plus, Polynomials

(***************************************************************************)
(* The reference product is the product of transforms, transformed back.   *)
(***************************************************************************)
LEMMA ProductTransforms ==
    ASSUME NEW a \in Polynomials, NEW b \in Polynomials
    PROVE  Transforms(NegacyclicProduct(a, b), Prod(Rem(a, 2), Rem(b, 2)))
<1> DEFINE B == Rem(b, 2)
           Good(n) == \E A : /\ Transforms(First(a, n), A)
                             /\ Transforms(Partial(a, b, n), Prod(A, B))
           S == {n \in Nat : n <= N => Good(n)}
<1>0. N \in Nat /\ 8 <= N
  BY SizeFacts
<1>1. Transforms(b, B) /\ B \in Polynomials
  BY RemTransforms, TransformsType
<1> HIDE DEF B
<1>2. 0 \in S
  <2>1. First(a, 0) = Zero
    <3>1. \A i \in Index : ~ (i < 0)
      BY SMT, <1>0 DEF Index
    <3> QED
      BY <3>1 DEF First, Zero
  <2>2. Partial(a, b, 0) = Zero /\ Prod(Zero, B) = Zero
    BY <1>1, PartialIs, ProdZero
  <2>3. Good(0)
    BY <2>1, <2>2, TransformsZero
  <2> QED
    BY <2>3
<1>3. ASSUME NEW n \in Nat, n \in S PROVE n + 1 \in S
  <2>1. ASSUME n + 1 <= N PROVE Good(n + 1)
    <3>1. n \in 0..N - 1 /\ n <= N
      BY <1>0, <2>1
    <3>2. PICK A : /\ Transforms(First(a, n), A)
                   /\ Transforms(Partial(a, b, n), Prod(A, B))
      BY <1>3, <3>1
    <3>3. PICK U : Transforms(Unit(n), U) /\ Transforms(Turned(b, n), Prod(U, B))
      BY <1>1, <3>1, UnitTransforms
    <3>4. PICK c \in Int : c = a[n] /\ First(a, n + 1) = Plus(First(a, n), c, Unit(n))
      BY <3>1, FirstStep
    <3>5. A \in Polynomials /\ U \in Polynomials
      BY <3>2, <3>3, TransformsType
    <3>6. Transforms(First(a, n + 1), Plus(A, c, U))
      BY <3>2, <3>3, <3>4, TransformsPlus
    <3>7. Transforms(Plus(Partial(a, b, n), c, Turned(b, n)),
                     Plus(Prod(A, B), c, Prod(U, B)))
      BY <3>2, <3>3, TransformsPlus
    <3>8. Prod(Plus(A, c, U), B) = Plus(Prod(A, B), c, Prod(U, B))
      BY <1>1, <3>5, ProdPlus
    <3>9. Same(Plus(Partial(a, b, n), c, Turned(b, n)), Partial(a, b, n + 1))
      BY <3>1, <3>4, PartialIs, SameSym
    <3>10. Transforms(Partial(a, b, n + 1), Prod(Plus(A, c, U), B))
      <4>1. Same(Plus(Prod(A, B), c, Prod(U, B)), Plus(Prod(A, B), c, Prod(U, B)))
        BY <3>7, TransformsType, SameRefl
      <4> QED
        BY <3>7, <3>8, <3>9, <4>1, TransformsSame
    <3> QED
      BY <3>6, <3>10
  <2>2. n + 1 \in Nat
    OBVIOUS
  <2> QED
    BY <2>1, <2>2
<1>4. N \in S
  <2> HIDE DEF S
  <2> QED
    BY <1>0, <1>2, <1>3, SetInduction
<1>5. PICK A : Transforms(First(a, N), A) /\ Transforms(Partial(a, b, N), Prod(A, B))
  BY <1>0, <1>4
<1>6. First(a, N) = a
  <2>1. \A i \in Index : i < N
    BY SMT, <1>0 DEF Index
  <2> QED
    BY <2>1 DEF First, Polynomials
<1>7. Same(A, Rem(a, 2))
  BY <1>5, <1>6, RemTransforms, TransformsOnto
<1>8. Same(Prod(A, B), Prod(Rem(a, 2), B))
  BY <1>1, <1>7, SameRefl, ProdSame
<1>9. Same(Partial(a, b, N), NegacyclicProduct(a, b))
  BY PartialIs, SameSym
<1> QED
  BY <1>5, <1>8, <1>9, TransformsSame DEF B

------------------------------------------------------------------------------
(* What the passes hold *)

\* Each coefficient is its own residue.
Residues(p) == p \in Polynomials /\ \A i \in Index : p[i] % Q = p[i]

(***************************************************************************)
(* The inductive invariant: a pass may add multiples of q to the           *)
(* remainders, never change them.                                          *)
(***************************************************************************)
RemaindersInv ==
    /\ stage \in {"ntt", "reduced"} =>
           /\ input.a \in Polynomials /\ input.b \in Polynomials
           /\ Same(left, Rem(input.a, len)) /\ Same(right, Rem(input.b, len))
    /\ stage = "invntt" =>
           /\ Residues(product)
           /\ Same(left, Scaled((len \div 2) * 169, Rem(product, len)))
    /\ stage = "product" => Residues(product) /\ Same(left, product)

LEMMA ProductResidues ==
    ASSUME NEW a \in Polynomials, NEW b \in Polynomials
    PROVE  Residues(NegacyclicProduct(a, b))
<1>1. NegacyclicProduct(a, b) = [i \in Index |-> Mod(Sums(a, b, i)[N])]
  BY DEF NegacyclicProduct, SumBelow, Sums, Summed, Term
<1>2. N \in 0..N
  BY SizeFacts
<1>3. ASSUME NEW i \in Index
      PROVE  /\ NegacyclicProduct(a, b)[i] \in Int
             /\ NegacyclicProduct(a, b)[i] % Q = NegacyclicProduct(a, b)[i]
  <2>1. PICK s \in Int : s = Sums(a, b, i)[N]
    BY <1>2, SumsAre
  <2>2. s % 3329 \in Int /\ (s % 3329) % 3329 = s % 3329
    BY SMT
  <2>3. NegacyclicProduct(a, b)[i] = s % 3329
    BY <1>1, <2>1 DEF Mod, Q
  <2> QED
    BY <2>2, <2>3 DEF Q
<1>4. NegacyclicProduct(a, b) \in Polynomials
  <2>1. ASSUME NEW i \in Index PROVE Mod(Sums(a, b, i)[N]) \in Int
    BY <1>1, <1>3
  <2> QED
    BY <1>1, <2>1 DEF Polynomials
<1> QED
  BY <1>3, <1>4 DEF Residues

LEMMA RemaindersInit == Init => RemaindersInv
<1> SUFFICES ASSUME Init PROVE RemaindersInv
  OBVIOUS
<1>1. PICK c \in Cases :
        /\ \/ /\ stage = "ntt"
              /\ \/ input = [a |-> Sampled(c), b |-> Noise(c)]
                 \/ input = [a |-> Extreme(c), b |-> Centred(c)]
              /\ left = input.a /\ right = input.b
           \/ stage \in {"polynomial", "message"}
        /\ len = N
  BY DEF Init
<1>2. c \in 0..13
  BY CasesAssumption
<1>3. CASE stage # "ntt"
  BY <1>1, <1>3 DEF RemaindersInv
<1>4. CASE stage = "ntt"
  <2>1. /\ Sampled(c) \in Polynomials /\ Noise(c) \in Polynomials
        /\ Extreme(c) \in Polynomials /\ Centred(c) \in Polynomials
    BY <1>2, InputBounds DEF Within, Polynomials
  <2>2. input.a \in Polynomials /\ input.b \in Polynomials
    <3>1. CASE input = [a |-> Sampled(c), b |-> Noise(c)]
      BY <2>1, <3>1
    <3>2. CASE input = [a |-> Extreme(c), b |-> Centred(c)]
      BY <2>1, <3>2
    <3> QED
      BY <1>1, <1>4, <3>1, <3>2
  <2>3. Same(left, Rem(input.a, len)) /\ Same(right, Rem(input.b, len))
    BY <1>1, <1>4, <2>2, RemWhole, SameSym
  <2> QED
    BY <1>4, <2>2, <2>3 DEF RemaindersInv
<1> QED
  BY <1>3, <1>4

\* A layer of ntt makes of the remainders those of half the length.
LEMMA LayerHolds ==
    ASSUME NEW p \in Polynomials, NEW l \in Lens, l < N, NEW r,
           Within(r, -29440, 29439), Same(r, Rem(p, 2 * l))
    PROVE  Same(NttLayer(r, l), Rem(p, l))
<1>1. Same(NttLayer(r, l), Layer(r, l))
  BY NttLayerSame
<1>2. Same(Layer(r, l), Layer(Rem(p, 2 * l), l))
  BY LayerSame
<1>3. Same(Layer(Rem(p, 2 * l), l), Rem(p, l))
  BY RemLayer, SameSym
<1> QED
  BY <1>1, <1>2, <1>3, SameTrans

\* Before a layer of ntt or the reduction no element is near the ends of an
\* int16_t.
LEMMA LayersShort ==
    ASSUME TransformInv, stage = "ntt"
    PROVE  Within(left, -29440, 29439) /\ Within(right, -29440, 29439)
<1>1. PICK k \in 0..7 : Layers(k)
  BY DEF TransformInv
<1>2. PICK lo \in Int : lo = Low(k) /\ -24967 <= lo - 1664
  BY LayerFacts
<1>3. PICK hi \in Int : hi = High(k) /\ hi <= 26624
  BY LayerFacts
<1>4. Within(left, lo, hi) /\ Within(right, lo - 1664, hi)
  BY <1>1, <1>2, <1>3 DEF Layers
<1>5. /\ -29440 \in Int /\ 29439 \in Int /\ lo - 1664 \in Int
      /\ -29440 <= lo /\ -29440 <= lo - 1664 /\ hi <= 29439
  BY SMT, <1>2, <1>3
<1> QED
  BY <1>4, <1>5, WithinWider

LEMMA NttHolds ==
    ASSUME TransformInv, RemaindersInv, Ntt
    PROVE  RemaindersInv'
<1>1. /\ stage = "ntt" /\ stage' = "ntt" /\ len > 2 /\ len' = len \div 2
      /\ left' = NttLayer(left, len') /\ right' = NttLayer(right, len')
      /\ input' = input
  BY DEF Ntt
<1>2. /\ input.a \in Polynomials /\ input.b \in Polynomials
      /\ Same(left, Rem(input.a, len)) /\ Same(right, Rem(input.b, len))
  BY <1>1 DEF RemaindersInv
<1>3. len \in Lens /\ len <= N
  BY <1>1 DEF TransformInv
<1>4. PICK l \in Lens : l = len' /\ 2 * l = len /\ l < N
  <2>1. \A m \in Lens : m > 2 /\ m <= N => /\ m \div 2 \in Lens /\ 2 * (m \div 2) = m
                                           /\ m \div 2 < N
    BY SMT, SizeFacts DEF Lens
  <2> QED
    BY <1>1, <1>3, <2>1
<1>5. Within(left, -29440, 29439) /\ Within(right, -29440, 29439)
  BY <1>1, LayersShort
<1>6. Same(left', Rem(input.a, l)) /\ Same(right', Rem(input.b, l))
  BY <1>1, <1>2, <1>4, <1>5, LayerHolds
<1> QED
  BY <1>1, <1>2, <1>4, <1>6 DEF RemaindersInv
LEMMA ReduceBothHolds ==
    ASSUME TransformInv, RemaindersInv, ReduceBoth
    PROVE  RemaindersInv'
<1>1. /\ stage = "ntt" /\ stage' = "reduced" /\ len' = len /\ input' = input
      /\ left' = PolyReduce(left) /\ right' = PolyReduce(right)
  BY DEF ReduceBoth
<1>2. /\ input.a \in Polynomials /\ input.b \in Polynomials
      /\ Same(left, Rem(input.a, len)) /\ Same(right, Rem(input.b, len))
  BY <1>1 DEF RemaindersInv
<1>3. Within(left, -32768, 32767) /\ Within(right, -32768, 32767)
  <2>1. Within(left, -29440, 29439) /\ Within(right, -29440, 29439)
    BY <1>1, LayersShort
  <2> QED
    BY SMT, <2>1, WithinWider
<1>4. Same(left', left) /\ Same(right', right)
  BY <1>1, <1>3, PolyReduceSame
<1>5. Same(left', Rem(input.a, len)) /\ Same(right', Rem(input.b, len))
  BY <1>2, <1>4, SameTrans
<1> QED
  BY <1>1, <1>2, <1>5 DEF RemaindersInv

\* basemul multiplies the remainders of the pairs, and divides by R.
LEMMA MultiplyHolds ==
    ASSUME TransformInv, RemaindersInv, Multiply
    PROVE  RemaindersInv'
<1> DEFINE a == input.a
           b == input.b
           p == NegacyclicProduct(a, b)
<1>1. /\ stage = "reduced" /\ stage' = "invntt" /\ len' = len
      /\ left' = PolyReduce(BaseMul(left, right)) /\ product' = p
  BY DEF Multiply
<1>2. /\ len = 2 /\ Within(left, -1664, 1664) /\ Within(right, -1664, 1664)
  BY <1>1 DEF TransformInv
<1>3. /\ a \in Polynomials /\ b \in Polynomials
      /\ Same(left, Rem(a, 2)) /\ Same(right, Rem(b, 2))
  BY <1>1, <1>2 DEF RemaindersInv
<1>4. Residues(p) /\ p \in Polynomials
  BY <1>3, ProductResidues DEF Residues
<1>5. Same(Prod(Rem(a, 2), Rem(b, 2)), Rem(p, 2))
  BY <1>3, <1>4, ProductTransforms, RemTransforms, TransformsOnto
<1> HIDE DEF a, b, p
<1>6. Same(left', BaseMul(left, right))
  <2>1. Within(left, -32768, 32767)
    BY SMT, <1>2, Widen
  <2>2. Within(BaseMul(left, right), -6656, 6656)
    BY <1>2, <2>1, BaseMulBound
  <2>3. Within(BaseMul(left, right), -32768, 32767)
    BY SMT, <2>2, WithinWider
  <2> QED
    BY <1>1, <2>3, PolyReduceSame
<1>7. Same(BaseMul(left, right), Scaled(169, Prod(left, right)))
  <2>1. Within(left, -32768, 32767)
    BY SMT, <1>2, Widen
  <2> QED
    BY <1>2, <2>1, BaseMulSame
<1>8. Same(Prod(left, right), Rem(p, 2))
  BY <1>3, <1>5, ProdSame, SameTrans
<1>9. Same(Scaled(169, Prod(left, right)), Scaled(169, Rem(p, 2)))
  BY <1>8, OneOverR, CongRefl, ScaledSame
<1>10. (2 \div 2) * 169 = 169
  BY SMT
<1>11. Same(left', Scaled((len' \div 2) * 169, Rem(product', len')))
  BY <1>1, <1>2, <1>6, <1>7, <1>9, <1>10, SameTrans
<1> QED
  BY <1>1, <1>4, <1>11 DEF RemaindersInv

\* A layer of invntt undoes one of ntt, and doubles.
LEMMA InvNttHolds ==
    ASSUME TransformInv, RemaindersInv, InvNtt
    PROVE  RemaindersInv'
<1> DEFINE p == product
<1>1. /\ stage = "invntt" /\ stage' = "invntt" /\ len < N /\ len' = 2 * len
      /\ left' = InvNttLayer(left, len) /\ product' = p
  BY DEF InvNtt
<1>2. len \in Lens /\ Within(left, -3328, 3328)
  BY <1>1 DEF TransformInv
<1>3. Residues(p) /\ Same(left, Scaled((len \div 2) * 169, Rem(p, len)))
  BY <1>1 DEF RemaindersInv
<1> HIDE DEF p
<1>4. PICK c, d \in Int : /\ c = (len \div 2) * 169 /\ d = (len' \div 2) * 169
                          /\ d = 2 * c
  <2>1. \A l \in Lens : /\ (l \div 2) * 169 \in Int /\ ((2 * l) \div 2) * 169 \in Int
                        /\ ((2 * l) \div 2) * 169 = 2 * ((l \div 2) * 169)
    BY SMT DEF Lens
  <2> QED
    BY <1>1, <1>2, <2>1
<1>5. /\ p \in Polynomials /\ Rem(p, len) \in Polynomials
      /\ len' \in Lens /\ len' <= N /\ Rem(p, len') \in Polynomials
  <2>1. len <= N /\ len' \in Lens /\ len' <= N
    BY <1>1, <1>2, Halving DEF TransformInv
  <2>2. p \in Polynomials
    BY <1>3 DEF Residues
  <2> QED
    BY <1>2, <2>1, <2>2, RemType
<1>6. Same(Layer(left', len), Scaled(2, left))
  BY <1>1, <1>2, InvNttLayerSame
<1>7. Same(Scaled(2, left), Scaled(d, Rem(p, len)))
  <2>1. Same(Scaled(2, left), Scaled(2, Scaled(c, Rem(p, len))))
    <3>1. 2 \in Int /\ Cong(2, 2)
      BY CongRefl
    <3> QED
      BY <1>3, <1>4, <3>1, ScaledSame
  <2>2. Scaled(2, Scaled(c, Rem(p, len))) = Scaled(d, Rem(p, len))
    BY <1>4, <1>5, ScaledTwice
  <2> QED
    BY <2>1, <2>2
<1>8. Same(Scaled(d, Rem(p, len)), Layer(Scaled(d, Rem(p, len')), len))
  <2>1. Same(Rem(p, len), Layer(Rem(p, len'), len))
    BY <1>1, <1>2, <1>5, RemLayer
  <2>2. Same(Scaled(d, Rem(p, len)), Scaled(d, Layer(Rem(p, len'), len)))
    BY <1>4, <2>1, CongRefl, ScaledSame
  <2>3. Scaled(d, Layer(Rem(p, len'), len)) = Layer(Scaled(d, Rem(p, len')), len)
    BY <1>1, <1>2, <1>4, <1>5, ScaledLayer
  <2> QED
    BY <2>2, <2>3
<1>9. Same(Layer(left', len), Layer(Scaled(d, Rem(p, len')), len))
  BY <1>6, <1>7, <1>8, SameTrans
<1>10. Same(left', Scaled(d, Rem(p, len')))
  <2>1. left' \in Polynomials /\ Scaled(d, Rem(p, len')) \in Polynomials
    BY <1>1, <1>2, <1>4, <1>5, InvNttLayerBound, ScaledType DEF Within, Polynomials
  <2> QED
    BY <1>1, <1>2, <1>9, <2>1, LayerInjective
<1> QED
  BY <1>1, <1>3, <1>4, <1>10 DEF RemaindersInv

\* f is what the doubling and the division by R leave to be undone.
LEMMA ScaleBackHolds ==
    ASSUME TransformInv, RemaindersInv, ScaleBack
    PROVE  RemaindersInv'
<1> DEFINE p == product
<1>1. /\ stage = "invntt" /\ stage' = "product" /\ len = N
      /\ left' = Scale(left) /\ product' = p
  BY DEF ScaleBack
<1>2. Within(left, -3328, 3328)
  BY <1>1 DEF TransformInv
<1>3. Residues(p) /\ Same(left, Scaled((N \div 2) * 169, Rem(p, N)))
  BY <1>1 DEF RemaindersInv
<1> HIDE DEF p
<1>4. PICK f \in Int : f = 169 * InvF
  BY <1>2, ScaleSame
<1>5. PICK m \in Int : m = N \div 2
  BY SMT, SizeFacts
<1>6. p \in Polynomials /\ Same(Rem(p, N), p)
  BY <1>3, RemWhole DEF Residues
<1>7. PICK c \in Int : c = m * 169 /\ m * 169 = (N \div 2) * 169
  BY SMT, <1>5
<1>8. Cong(f * c, 1)
  <2>1. Gain(2) = m * f /\ Cong(Gain(2), R)
    BY <1>4, <1>5, GainFacts DEF Gain
  <2>2. Cong((m * f) * 169, R * 169)
    BY <2>1, OneOverR, CongRefl, CongOps
  <2>3. f * c = (m * f) * 169
    BY SMT, <1>4, <1>7
  <2> QED
    BY <2>2, <2>3, OneOverR, CongTrans
<1>9. Same(left, Scaled(c, p))
  <2>1. Same(Scaled(c, Rem(p, N)), Scaled(c, p))
    BY <1>6, CongRefl, ScaledSame
  <2> QED
    BY <1>3, <1>7, <2>1, SameTrans
<1>10. Same(left', Scaled(f, left))
  BY <1>1, <1>2, <1>4, ScaleSame
<1>11. Same(Scaled(f, left), Scaled(f * c, p))
  <2>1. Same(Scaled(f, left), Scaled(f, Scaled(c, p)))
    BY <1>9, CongRefl, ScaledSame
  <2> QED
    BY <1>6, <2>1, ScaledTwice
<1>12. Same(Scaled(f * c, p), p)
  <2>1. f * c \in Int /\ 1 \in Int
    BY SMT
  <2>2. Same(Scaled(f * c, p), Scaled(1, p))
    BY <1>6, <1>8, <2>1, SameRefl, ScaledSame
  <2> QED
    BY <1>6, <2>2, ScaledOne
<1>13. Same(left', p)
  BY <1>10, <1>11, <1>12, SameTrans
<1> QED
  BY <1>1, <1>3, <1>13 DEF RemaindersInv

LEMMA NextKeepsRemainders == RingInv /\ RemaindersInv /\ [Next]_vars => RemaindersInv'
<1> SUFFICES ASSUME RingInv, RemaindersInv, [Next]_vars PROVE RemaindersInv'
  OBVIOUS
<1>0. TransformInv
  BY DEF RingInv
<1>1. CASE Ntt
  BY <1>0, <1>1, NttHolds
<1>2. CASE ReduceBoth
  BY <1>0, <1>2, ReduceBothHolds
<1>3. CASE Multiply
  BY <1>0, <1>3, MultiplyHolds
<1>4. CASE InvNtt
  BY <1>0, <1>4, InvNttHolds
<1>5. CASE ScaleBack
  BY <1>0, <1>5, ScaleBackHolds
<1>6. ASSUME stage' \notin TransformStages PROVE RemaindersInv'
  BY <1>6 DEF RemaindersInv, TransformStages
<1>7. CASE Write \/ Read \/ Encode \/ Decode
  BY <1>6, <1>7 DEF Write, Read, Encode, Decode, TransformStages
<1>8. CASE UNCHANGED vars
  BY <1>8 DEF vars, RemaindersInv
<1> QED
  BY <1>1, <1>2, <1>3, <1>4, <1>5, <1>7, <1>8 DEF Next

\* An element of an array is one of a block.
LEMMA BlockElement ==
    ASSUME NEW l \in Lens, l <= N, NEW b \in 0..(N \div l) - 1, NEW j \in 0..l - 1
    PROVE  b * l + j \in Index /\ (b * l + j) \div l = b /\ (b * l + j) % l = j
<1>1. N \in {8, 16, 32, 64, 128, 256}
  BY SizeAssumption
<1> QED
  BY SMTT(60), <1>1 DEF Lens, Index

LEMMA SameIsTransform ==
    ASSUME NEW p \in Polynomials, len \in Lens, len <= N, NEW c \in Int, NEW r,
           Same(r, Scaled(c, Rem(p, len)))
    PROVE  IsTransform(r, p, c)
<1> SUFFICES ASSUME NEW b \in 0..(N \div len) - 1, NEW j \in 0..len - 1
             PROVE  Mod(r[b * len + j]) = Mod(c * Remainder(p, len, RootOf(b, len), j))
  BY DEF IsTransform
<1>1. PICK i \in Index : i = b * len + j /\ i \div len = b /\ i % len = j
  BY BlockElement
<1>2. Rem(p, len)[i] = Remainder(p, len, RootOf(b, len), j)
  BY <1>1 DEF Rem
<1>3. Cong(r[i], c * Rem(p, len)[i])
  BY DEF Same, Scaled
<1>4. r[i] % Q = (c * Rem(p, len)[i]) % Q
  <2>1. r[i] \in Int /\ c * Rem(p, len)[i] \in Int
    BY <1>3 DEF Cong
  <2> QED
    BY <1>3, <2>1, CongMod
<1> QED
  BY <1>1, <1>2, <1>4 DEF Mod

(***************************************************************************)
(* After every layer of every run, whatever the size: what ntt and invntt  *)
(* hold are the remainders by the factors of X^N + 1, and what they end    *)
(* with is the product.  The zetas come in the order k runs through them,  *)
(* basemul's signs are those of the factors, and f divides by N / 2.       *)
(***************************************************************************)
THEOREM LayersHoldRemainders == Spec => []LayersAreRemainders
<1>1. Init => RemaindersInv
  BY RemaindersInit
<1>2. RingInv /\ RemaindersInv => LayersAreRemainders
  <2> SUFFICES ASSUME RingInv, RemaindersInv PROVE LayersAreRemainders
    OBVIOUS
  <2>1. ASSUME stage \in {"ntt", "reduced"}
        PROVE  IsTransform(left, input.a, 1) /\ IsTransform(right, input.b, 1)
    <3>1. /\ input.a \in Polynomials /\ input.b \in Polynomials
          /\ Same(left, Rem(input.a, len)) /\ Same(right, Rem(input.b, len))
      BY <2>1 DEF RemaindersInv
    <3>2. len \in Lens /\ len <= N
      BY <2>1, SizeFacts DEF RingInv, TransformInv, Lens
    <3>3. /\ Rem(input.a, len) = Scaled(1, Rem(input.a, len))
          /\ Rem(input.b, len) = Scaled(1, Rem(input.b, len))
      BY <3>1, <3>2, RemType, ScaledOne
    <3> QED
      BY <3>1, <3>2, <3>3, SameIsTransform
  <2>2. ASSUME stage = "invntt"
        PROVE  IsTransform(left, product, (len \div 2) * InvR)
    <3>1. /\ product \in Polynomials
          /\ Same(left, Scaled((len \div 2) * 169, Rem(product, len)))
      BY <2>2 DEF RemaindersInv, Residues
    <3>2. len \in Lens /\ len <= N
      BY <2>2 DEF RingInv, TransformInv
    <3>3. PICK c \in Int : c = (len \div 2) * 169
      BY SMT, <3>2 DEF Lens
    <3> QED
      BY <3>1, <3>2, <3>3, SameIsTransform DEF InvR
  <2>3. ASSUME stage = "product", NEW i \in Index PROVE Mod(left[i]) = product[i]
    <3>1. Cong(left[i], product[i]) /\ product[i] % Q = product[i]
      BY <2>3 DEF RemaindersInv, Residues, Same
    <3>2. left[i] \in Int /\ product[i] \in Int
      BY <3>1 DEF Cong
    <3> QED
      BY <3>1, <3>2, CongMod DEF Mod
  <2> QED
    BY <2>1, <2>2, <2>3 DEF LayersAreRemainders
<1> QED
  BY <1>1, <1>2, RingInvariant, NextKeepsRemainders, PTL DEF Spec
==============================================================================

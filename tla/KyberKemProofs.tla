---------------------------- MODULE KyberKemProofs ----------------------------
(***************************************************************************)
(* Proofs about KyberKem, for every N, any set of coins and messages, any  *)
(* changes on the way and any bounds: that what is stored keeps its type,  *)
(* that decryption leaves the message and an error of bounded size, and    *)
(* that crypto_kem_enc and _dec are an ideal key encapsulation whenever    *)
(* decryption undoes encryption.                                           *)
(***************************************************************************)
EXTENDS KyberKem, KyberArithProofs, WellFoundedInduction

LEMMA StoredIs == \A f : Stored(f) = f
BY DEF Stored

------------------------------------------------------------------------------
(* What the functions of kem_ref.c make *)

\* The key pair of some coins.
PairOf(c) ==
    LET p == IndcpaKeypair(c)
    IN  [pk |-> p.pk, sk |-> p.sk, h |-> HashH(p.pk), z |-> c]

\* A message encrypted for the owner of a key pair, and the secret with it.
CtOf(p, m) == IndcpaEnc(m, p.pk, HashG(m, p.h).coins)

CallOf(k, p, m) == [key |-> k, ct |-> CtOf(p, m), secret |-> <<"key", m, p.h>>]

\* What the owner makes of a ciphertext.
MessageOf(p, ct) == Stored(ToMsg(Decrypt(ct, p.sk)))

SecretOf(p, ct) ==
    IF Verify(ct, CtOf(p, MessageOf(p, ct))) THEN <<"key", MessageOf(p, ct), p.h>>
    ELSE Rkprf(p.z, ct)

Plaintexts == [Index -> {0, 1}]

Ciphertext(ct) == ct = [x \in 0..CtBytes - 1 |-> ct[x]]

LEMMA EncryptionIsCiphertext ==
    ASSUME NEW p, NEW m
    PROVE  Ciphertext(CtOf(p, m))
<1>1. \A b, v : Ciphertext(PackCiphertext(b, v))
  BY StoredIs DEF PackCiphertext, Ciphertext
<1> QED
  BY <1>1 DEF CtOf, IndcpaEnc

LEMMA VerifyIsEquality ==
    ASSUME NEW a, NEW b, Ciphertext(a), Ciphertext(b)
    PROVE  Verify(a, b) <=> a = b
<1>1. ASSUME Verify(a, b) PROVE a = b
  <2>1. [x \in 0..CtBytes - 1 |-> a[x]] = [x \in 0..CtBytes - 1 |-> b[x]]
    BY <1>1 DEF Verify
  <2> QED
    BY <2>1 DEF Ciphertext
<1>2. ASSUME a = b PROVE Verify(a, b)
  BY <1>2 DEF Verify
<1> QED
  BY <1>1, <1>2

(***************************************************************************)
(* Every key pair is that of its coins, every call that was issued is the  *)
(* encryption of some message under such a pair, and every secret given    *)
(* out is what its owner makes of the ciphertext.                          *)
(***************************************************************************)
CallsInv ==
    /\ DOMAIN keys \subseteq Coins
    /\ \A k \in DOMAIN keys : keys[k] = PairOf(k)
    /\ \A r \in issued :
           /\ r.key \in DOMAIN keys
           /\ \E m \in Plaintexts : r = CallOf(r.key, keys[r.key], m)
    /\ \A r \in given :
           /\ r.key \in DOMAIN keys /\ Ciphertext(r.ct)
           /\ r = [key |-> r.key, ct |-> r.ct, secret |-> SecretOf(keys[r.key], r.ct)]

LEMMA CallsInit == Init => CallsInv
BY DEF Init, CallsInv, None

LEMMA KeypairStep ==
    ASSUME CallsInv, NEW c \in Coins, Keypair(c)
    PROVE  CallsInv'
<1>1. /\ keys' = [k \in DOMAIN keys \cup {c} |-> IF k = c THEN PairOf(c) ELSE keys[k]]
      /\ issued' = issued /\ given' = given /\ c \notin DOMAIN keys
  BY DEF Keypair, PairOf
<1>2. DOMAIN keys' = DOMAIN keys \cup {c}
  BY <1>1
<1>3. \A k \in DOMAIN keys : keys'[k] = keys[k] /\ k \in DOMAIN keys'
  BY <1>1
<1>4. keys'[c] = PairOf(c)
  BY <1>1
<1> QED
  BY <1>1, <1>2, <1>3, <1>4 DEF CallsInv

LEMMA EncapsulateStep ==
    ASSUME CallsInv, NEW k, NEW msg, Encapsulate(k, msg)
    PROVE  /\ CallsInv'
           /\ keys' = keys /\ given' = given
           /\ \E r : issued' = issued \cup {r}
<1>1. k \in DOMAIN keys /\ keys' = keys /\ given' = given
  BY DEF Encapsulate
<1>2. keys[k].h = HashH(keys[k].pk)
  BY <1>1 DEF CallsInv, PairOf
<1>3. issued' = issued \cup {CallOf(k, keys[k], Bits(msg))}
  BY <1>1, <1>2 DEF Encapsulate, CallOf, CtOf, HashG
<1>4. CallOf(k, keys[k], Bits(msg)).key = k /\ Bits(msg) \in Plaintexts
  BY DEF CallOf, Bits, Plaintexts
<1> QED
  BY <1>1, <1>3, <1>4 DEF CallsInv

LEMMA ArriveStep ==
    ASSUME CallsInv, NEW k, NEW q \in issued, NEW x, NEW n, Arrive(k, q, x, n)
    PROVE  /\ CallsInv'
           /\ keys' = keys /\ issued' = issued
           /\ \E r : given' = given \cup {r}
<1> DEFINE ct == [q.ct EXCEPT ![x] = (@ + n) % 256]
           r == [key |-> k, ct |-> ct, secret |-> SecretOf(keys[k], ct)]
<1>1. k \in DOMAIN keys /\ keys' = keys /\ issued' = issued /\ Decapsulate(k, ct)
  BY DEF Arrive
<1>2. Ciphertext(ct)
  <2>1. Ciphertext(q.ct)
    BY EncryptionIsCiphertext DEF CallsInv, CallOf
  <2>2. DOMAIN q.ct = 0..CtBytes - 1
    BY <2>1 DEF Ciphertext
  <2>3. ct = [y \in 0..CtBytes - 1 |-> IF y = x THEN (q.ct[x] + n) % 256 ELSE q.ct[y]]
    BY <2>2
  <2> HIDE DEF ct
  <2> QED
    BY <2>3 DEF Ciphertext
<1> HIDE DEF ct
<1>3. given' = given \cup {r}
  BY <1>1 DEF Decapsulate, SecretOf, MessageOf, CtOf, HashG
<1>4. r.key = k /\ r.ct = ct /\ r.secret = SecretOf(keys[k], ct)
  OBVIOUS
<1> HIDE DEF r
<1> QED
  BY <1>1, <1>2, <1>3, <1>4 DEF CallsInv, r

THEOREM CallsInvariant == Spec => []CallsInv
<1>1. CallsInv /\ [Next]_vars => CallsInv'
  <2> SUFFICES ASSUME CallsInv, [Next]_vars PROVE CallsInv'
    OBVIOUS
  <2>1. CASE UNCHANGED vars
    BY <2>1 DEF vars, CallsInv
  <2>2. CASE Next
    BY <2>2, KeypairStep, EncapsulateStep, ArriveStep DEF Next
  <2> QED
    BY <2>1, <2>2
<1> QED
  BY <1>1, CallsInit, PTL DEF Spec

------------------------------------------------------------------------------
(* What the stand-ins for the hashes give *)

LEMMA MixIs == \A x \in Int : Mix(x) \in Int
BY SMT DEF Mix

LEMMA DrawIs == \A seed, tag, i \in Int : Draw(seed, tag, i) \in Int
BY MixIs DEF Draw

DigestLoop(f, d, n) ==
    d = [i \in 0..n |-> IF i = 0 THEN 1 ELSE Mix(d[i - 1] + f[i - 1])]

LEMMA DigestExists ==
    ASSUME NEW f, NEW n \in Nat
    PROVE  \E d : DigestLoop(f, d, n)
<1> DEFINE S == {k \in Nat : \E d : DigestLoop(f, d, k)}
<1>1. 0 \in S
  <2> DEFINE d == [i \in 0..0 |-> 1]
  <2>1. DigestLoop(f, d, 0)
    BY DEF DigestLoop
  <2> QED
    BY <2>1
<1>2. ASSUME NEW k \in Nat, k \in S PROVE k + 1 \in S
  <2>1. PICK d : DigestLoop(f, d, k)
    BY <1>2
  <2> DEFINE Body(g, i) == IF i = 0 THEN 1 ELSE Mix(g[i - 1] + f[i - 1])
             v == Mix(d[k] + f[k])
             g == [i \in 0..k + 1 |-> IF i = k + 1 THEN v ELSE d[i]]
  <2>2. ASSUME NEW i \in 0..k + 1 PROVE g[i] = Body(g, i)
    <3>1. CASE i = 0
      BY <2>1, <3>1 DEF DigestLoop
    <3>2. CASE i \in 1..k
      <4>1. g[i] = d[i] /\ g[i - 1] = d[i - 1]
        BY <3>2
      <4> HIDE DEF g
      <4> QED
        BY <2>1, <3>2, <4>1 DEF DigestLoop
    <3>3. CASE i = k + 1
      <4>1. i - 1 = k /\ g[i] = v /\ g[i - 1] = d[k] /\ i # 0
        BY <3>3
      <4> HIDE DEF g
      <4> QED
        BY <3>3, <4>1
    <3> QED
      BY <3>1, <3>2, <3>3
  <2>3. g = [i \in 0..k + 1 |-> g[i]]
    OBVIOUS
  <2> HIDE DEF g
  <2>4. g = [i \in 0..k + 1 |-> Body(g, i)]
    BY <2>2, <2>3
  <2>5. DigestLoop(f, g, k + 1)
    BY <2>4 DEF DigestLoop
  <2> QED
    BY <2>5
<1> HIDE DEF S
<1>3. n \in S
  BY <1>1, <1>2, SetInduction
<1> QED
  BY <1>3 DEF S

LEMMA DigestIs ==
    ASSUME NEW f, NEW n \in Nat, \A i \in 0..n - 1 : f[i] \in Int
    PROVE  Digest(f, n) \in Int
<1> DEFINE d == CHOOSE d : DigestLoop(f, d, n)
<1>1. Digest(f, n) = d[n]
  BY DEF Digest, DigestLoop
<1>2. DigestLoop(f, d, n)
  BY DigestExists
<1> HIDE DEF d
<1> DEFINE S == {k \in Nat : k <= n => d[k] \in Int}
<1>3. 0 \in S
  BY <1>2 DEF DigestLoop
<1>4. ASSUME NEW k \in Nat, k \in S PROVE k + 1 \in S
  <2> SUFFICES ASSUME k + 1 <= n PROVE d[k + 1] \in Int
    OBVIOUS
  <2>1. d[k + 1] = Mix(d[k] + f[k])
    BY <1>2 DEF DigestLoop
  <2>2. d[k] \in Int /\ f[k] \in Int
    BY <1>4
  <2> QED
    BY <2>1, <2>2, MixIs
<1> HIDE DEF S
<1>5. n \in S
  BY <1>3, <1>4, SetInduction
<1> QED
  BY <1>1, <1>5 DEF S

\* cbd2
LEMMA Cbd2Bound == \A x \in Int : Cbd2(x) \in Int /\ -2 <= Cbd2(x) /\ Cbd2(x) <= 2
<1>1. 2 ^ 0 = 1 /\ 2 ^ 1 = 2 /\ 2 ^ 2 = 4 /\ 2 ^ 3 = 8
  BY SMT
<1> QED
  BY SMT, <1>1 DEF Cbd2

LEMMA GetNoiseBound ==
    ASSUME NEW seed \in Int, NEW nonce \in Int
    PROVE  Within(GetNoise(seed, nonce), -2, 2)
<1>1. ASSUME NEW i \in Index PROVE Draw(seed, nonce, i) % 16 \in Int
  <2>1. Draw(seed, nonce, i) \in Int
    BY DrawIs DEF Index
  <2> QED
    BY <2>1, RemaindersFit
<1>2. GetNoise(seed, nonce) = [i \in Index |-> Cbd2(Draw(seed, nonce, i) % 16)]
  BY StoredIs DEF GetNoise
<1> QED
  BY <1>1, <1>2, Cbd2Bound DEF Within

LEMMA UniformBound ==
    ASSUME NEW seed \in Int, NEW x \in Int, NEW y \in Int
    PROVE  Within(Uniform(seed, x, y), 0, 3328)
<1>1. \A i \in Index : Draw(seed, 256 * x + y, i) \in Int
  BY DrawIs DEF Index
<1>2. \A z \in Int : z % 3329 \in Int /\ 0 <= z % 3329 /\ z % 3329 <= 3328
  BY SMT
<1>3. Uniform(seed, x, y) = [i \in Index |-> Draw(seed, 256 * x + y, i) % 3329]
  BY StoredIs DEF Uniform, Q
<1> QED
  BY <1>1, <1>2, <1>3 DEF Within

\* What Vector's polynomials hold.
Polys(v, lo, hi) == \A i \in Vector : Within(v[i], lo, hi)

Shorts(v) == Polys(v, -32768, 32767)

LEMMA GenMatrixBound ==
    ASSUME NEW seed \in Int, NEW transposed, NEW i \in Vector
    PROVE  Polys(GenMatrix(seed, transposed)[i], 0, 3328)
BY UniformBound DEF GenMatrix, Polys, Vector, K

------------------------------------------------------------------------------
(* What the passes make of whole polynomials and vectors *)

\* How much a polynomial has grown when the next layer's length is l.
Room(l) ==
    IF l = 256 THEN 0 ELSE IF l = 128 THEN 3328 ELSE IF l = 64 THEN 6656
    ELSE IF l = 32 THEN 9984 ELSE IF l = 16 THEN 13312 ELSE IF l = 8 THEN 16640
    ELSE IF l = 4 THEN 19968 ELSE 23296

LEMMA RoomFacts ==
    /\ \A l \in Lens : Room(l) \in Int /\ 0 <= Room(l) /\ Room(l) <= 23296
    /\ \A l \in Lens : 2 * l \in Lens =>
           Room(l) = Room(2 * l) + 3328 /\ Room(2 * l) <= 19968
BY SMT DEF Room, Lens

\* ntt's loop down to length m.
Down(a, r, m) ==
    /\ a = [l \in LayerLens |-> a[l]]
    /\ \A l \in LayerLens : l >= m =>
           a[l] = IF l = N THEN r ELSE NttLayer(a[2 * l], l)

LEMMA DownStep ==
    ASSUME NEW r, NEW a, NEW m \in Lens, 2 * m \in Lens, Down(a, r, 2 * m)
    PROVE  \E b : Down(b, r, m)
<1> DEFINE v == IF m = N THEN r ELSE NttLayer(a[2 * m], m)
           b == [l \in LayerLens |-> IF l = m THEN v ELSE a[l]]
<1>1. \A l \in LayerLens : b[l] = IF l = m THEN v ELSE a[l]
  OBVIOUS
<1>2. b = [l \in LayerLens |-> b[l]]
  OBVIOUS
<1>3. ASSUME NEW l \in LayerLens, l >= m
      PROVE  b[l] = IF l = N THEN r ELSE NttLayer(b[2 * l], l)
  <2> HIDE DEF b
  <2>1. l \in Lens /\ (l # N => 2 * l \in LayerLens)
    BY LensFacts
  <2>2. l \in Int /\ m \in Int /\ 2 <= l /\ 2 <= m
    BY <2>1 DEF Lens
  <2>3. l # N => b[2 * l] = a[2 * l]
    <3>1. 2 * l # m
      BY <1>3, <2>2
    <3> QED
      BY <1>1, <2>1, <3>1
  <2>4. CASE l = m
    BY <1>1, <2>3, <2>4
  <2>5. CASE l # m
    <3>1. l >= 2 * m
      BY <1>3, <2>1, <2>5, LensDouble
    <3>2. b[l] = a[l]
      BY <1>1, <2>5
    <3> QED
      BY <2>3, <3>1, <3>2 DEF Down
  <2> QED
    BY <2>4, <2>5
<1> HIDE DEF b
<1> QED
  BY <1>2, <1>3 DEF Down

NttLoop(a, r) ==
    a = [l \in LayerLens |-> IF l = N THEN r ELSE Stored(NttLayer(a[2 * l], l))]

LEMMA DownExists ==
    ASSUME NEW r
    PROVE  \E a : NttLoop(a, r)
<1>1. \E a : Down(a, r, 256)
  <2> DEFINE a == [l \in LayerLens |-> r]
  <2>1. \A l \in LayerLens : l >= 256 => l = N /\ l \in Int
    BY LensFacts, SizeAssumption DEF Lens
  <2>2. Down(a, r, 256)
    BY <2>1 DEF Down
  <2> QED
    BY <2>2
<1> DEFINE S == {m \in Lens : \E a : Down(a, r, m)}
<1>2. 256 \in S
  BY <1>1 DEF Lens
<1>3. \A m \in Lens : 2 * m \in S => m \in S
  BY DownStep
<1> HIDE DEF S
<1>4. 2 \in S
  BY <1>2, <1>3, Downwards DEF Lens
<1>5. PICK a : Down(a, r, 2)
  BY <1>4 DEF S
<1>6. \A l \in LayerLens : l >= 2
  BY LensFacts, LensDouble
<1>7. \A l \in LayerLens :
          a[l] = IF l = N THEN r ELSE Stored(NttLayer(a[2 * l], l))
  BY <1>5, <1>6, StoredIs DEF Down
<1>8. a = [l \in LayerLens |-> a[l]]
  BY <1>5 DEF Down
<1> QED
  BY <1>7, <1>8 DEF NttLoop

\* ntt's loop: every layer's input is within what the next one takes.
Fits(x, l) == \E low, high \in Int :
    low = -3328 - Room(l) /\ high = 3328 + Room(l) /\ Within(x, low, high)

LEMMA NttPassesFit ==
    ASSUME NEW r, Within(r, -3328, 3328), NEW a,
           \A l \in LayerLens : a[l] = IF l = N THEN r ELSE NttLayer(a[2 * l], l)
    PROVE  \A l \in LayerLens : Fits(a[l], l)
<1> DEFINE S == {l \in Lens : l \in LayerLens => Fits(a[l], l)}
<1>4. \A l \in Lens : l = N => Fits(a[l], l)
  <2> SUFFICES ASSUME NEW l \in Lens, l = N PROVE Fits(a[l], l)
    OBVIOUS
  <2>1. a[l] = r /\ Room(l) \in Int /\ 0 <= Room(l)
    BY LensFacts, RoomFacts
  <2>2. PICK low, high \in Int : low = -3328 - Room(l) /\ high = 3328 + Room(l)
    BY SMT, <2>1
  <2>3. low <= -3328 /\ 3328 <= high
    BY SMT, <2>1, <2>2
  <2>4. Within(a[l], low, high)
    BY <2>1, <2>3, Widen
  <2> QED
    BY <2>2, <2>4 DEF Fits
<1>5. 256 \in S
  <2>1. 256 \in LayerLens => 256 = N
    BY LensFacts, SizeAssumption
  <2> QED
    BY <1>4, <2>1 DEF Lens
<1>6. ASSUME NEW l \in Lens, 2 * l \in S
      PROVE  l \in S
  <2> SUFFICES ASSUME l \in LayerLens PROVE Fits(a[l], l)
    OBVIOUS
  <2>1. CASE l = N
    BY <1>4, <2>1
  <2>2. CASE l # N
    <3>1. 2 * l \in LayerLens /\ 2 * l \in Lens /\ l < N
      BY <2>2, LensFacts
    <3>2. PICK lo, hi \in Int : /\ lo = -3328 - Room(2 * l) /\ hi = 3328 + Room(2 * l)
                                /\ Within(a[2 * l], lo, hi)
      BY <1>6, <3>1 DEF Fits
    <3>3. /\ Room(2 * l) \in Int /\ Room(l) = Room(2 * l) + 3328
          /\ 0 <= Room(2 * l) /\ Room(2 * l) <= 19968
      BY <3>1, RoomFacts
    <3>4. PICK low, high \in Int : low = lo - 3328 /\ high = hi + 3328
      BY SMT
    <3>5. /\ -29440 <= lo /\ hi <= 29439
          /\ low = -3328 - Room(l) /\ high = 3328 + Room(l)
      BY SMT, <3>2, <3>3, <3>4
    <3>6. Within(NttLayer(a[2 * l], l), low, high)
      BY <3>1, <3>2, <3>4, <3>5, NttLayerBound
    <3>7. a[l] = NttLayer(a[2 * l], l)
      BY <2>2
    <3> QED
      BY <3>5, <3>6, <3>7 DEF Fits
  <2> QED
    BY <2>1, <2>2
<1> HIDE DEF S
<1>7. Lens \subseteq S
  BY <1>5, <1>6, Downwards
<1> QED
  BY <1>7, LensIn DEF S

LEMMA FitsShort ==
    ASSUME NEW x, NEW l \in Lens, Fits(x, l)
    PROVE  /\ Within(x, -32768, 32767)
           /\ l # 2 => Within(x, -29440, 29439)
<1>1. PICK low, high \in Int : /\ low = -3328 - Room(l) /\ high = 3328 + Room(l)
                               /\ Within(x, low, high)
  BY DEF Fits
<1>2. /\ -32768 <= low /\ high <= 32767
      /\ l # 2 => -29440 <= low /\ high <= 29439
  BY SMT, <1>1 DEF Room, Lens
<1> QED
  BY SMT, <1>1, <1>2 DEF Within

LEMMA PolyNttBound ==
    ASSUME NEW r, Within(r, -3328, 3328)
    PROVE  Within(PolyNtt(r), -1664, 1664)
<1> DEFINE a == CHOOSE a : NttLoop(a, r)
<1>1. PolyNtt(r) = PolyReduce(a[2])
  BY StoredIs DEF PolyNtt, NttLoop
<1>2. NttLoop(a, r)
  BY DownExists
<1> HIDE DEF a
<1>3. \A l \in LayerLens : a[l] = IF l = N THEN r ELSE NttLayer(a[2 * l], l)
  BY <1>2, StoredIs DEF NttLoop
<1>4. Fits(a[2], 2)
  BY <1>3, NttPassesFit, LensIn
<1>5. Within(a[2], -32768, 32767)
  BY <1>4, FitsShort, LensIn
<1> QED
  BY SMT, <1>1, <1>5, PolyReduceBound

\* invntt's loop up to length m.
Up(a, r, m) ==
    /\ a = [l \in LayerLens |-> a[l]]
    /\ \A l \in LayerLens : l <= m =>
           a[l] = IF l = 2 THEN r ELSE InvNttLayer(a[l \div 2], l \div 2)

LEMMA UpStep ==
    ASSUME NEW r, NEW a, NEW m \in Lens, m # 256, Up(a, r, m)
    PROVE  \E b : Up(b, r, 2 * m)
<1> DEFINE v == InvNttLayer(a[m], m)
           b == [l \in LayerLens |-> IF l = 2 * m THEN v ELSE a[l]]
<1>1. \A l \in LayerLens : b[l] = IF l = 2 * m THEN v ELSE a[l]
  OBVIOUS
<1>2. b = [l \in LayerLens |-> b[l]]
  OBVIOUS
<1>3. ASSUME NEW l \in LayerLens, l <= 2 * m
      PROVE  b[l] = IF l = 2 THEN r ELSE InvNttLayer(b[l \div 2], l \div 2)
  <2> HIDE DEF b
  <2>1. l \in Lens /\ (l # 2 => l \div 2 \in LayerLens)
    BY LensFacts
  <2>2. CASE l = 2 * m
    <3>1. l # 2 /\ l \div 2 = m /\ m \in LayerLens /\ m # 2 * m
      BY <2>1, <2>2, LensHalf
    <3> QED
      BY <1>1, <2>2, <3>1
  <2>3. CASE l # 2 * m
    <3>1. l <= m /\ b[l] = a[l]
      BY <1>1, <1>3, <2>1, <2>3, LensHalf
    <3>2. l # 2 => b[l \div 2] = a[l \div 2]
      BY <1>1, <2>1, <3>1, LensHalf
    <3> QED
      BY <3>1, <3>2 DEF Up
  <2> QED
    BY <2>2, <2>3
<1> HIDE DEF b
<1> QED
  BY <1>2, <1>3 DEF Up

InvNttLoop(a, r) ==
    a = [l \in LayerLens |->
            IF l = 2 THEN r ELSE Stored(InvNttLayer(a[l \div 2], l \div 2))]

LEMMA UpExists ==
    ASSUME NEW r
    PROVE  \E a : InvNttLoop(a, r)
<1> DEFINE S == {m \in Lens : \E a : Up(a, r, m)}
<1>1. 2 \in S
  <2> DEFINE a == [l \in LayerLens |-> r]
  <2>1. \A l \in LayerLens : l <= 2 => l = 2
    BY LensFacts, LensHalf
  <2>2. Up(a, r, 2)
    BY <2>1 DEF Up
  <2> QED
    BY <2>2 DEF Lens
<1>2. \A m \in Lens : m \in S /\ m # 256 => 2 * m \in S
  BY UpStep, LensHalf
<1> HIDE DEF S
<1>3. 256 \in S
  BY <1>1, <1>2, Upwards DEF Lens
<1>4. PICK a : Up(a, r, 256)
  BY <1>3 DEF S
<1>5. \A l \in LayerLens : l <= 256
  BY LensFacts, LensDouble
<1>6. \A l \in LayerLens :
          a[l] = IF l = 2 THEN r ELSE Stored(InvNttLayer(a[l \div 2], l \div 2))
  BY <1>4, <1>5, StoredIs DEF Up
<1>7. a = [l \in LayerLens |-> a[l]]
  BY <1>4 DEF Up
<1> QED
  BY <1>6, <1>7 DEF InvNttLoop

LEMMA InvNttPassesFit ==
    ASSUME NEW r, Within(r, -1664, 1664), NEW a,
           \A l \in LayerLens :
               a[l] = IF l = 2 THEN r ELSE InvNttLayer(a[l \div 2], l \div 2)
    PROVE  \A l \in LayerLens : Within(a[l], -3328, 3328)
<1> DEFINE S == {l \in Lens : l \in LayerLens => Within(a[l], -3328, 3328)}
<1>4. 2 \in S
  <2>1. Within(r, -3328, 3328)
    BY SMT, Widen
  <2> QED
    BY <2>1 DEF Lens
<1>5. ASSUME NEW m \in Lens, m \in S, m # 256
      PROVE  2 * m \in S
  <2>1. 2 * m \in Lens /\ (2 * m) \div 2 = m /\ 2 * m # 2
    BY <1>5, LensHalf
  <2> SUFFICES ASSUME 2 * m \in LayerLens PROVE Within(a[2 * m], -3328, 3328)
    BY <2>1
  <2>2. m \in LayerLens /\ m < N
    BY <2>1, LensFacts
  <2>3. Within(InvNttLayer(a[m], m), -3328, 3328)
    BY <1>5, <2>2, InvNttLayerBound
  <2> QED
    BY <2>1, <2>3
<1> HIDE DEF S
<1>6. Lens \subseteq S
  BY <1>4, <1>5, Upwards
<1> QED
  BY <1>6, LensIn DEF S

LEMMA PolyInvNttBound ==
    ASSUME NEW r, Within(r, -1664, 1664)
    PROVE  Within(PolyInvNtt(r), -3328, 3328)
<1> DEFINE a == CHOOSE a : InvNttLoop(a, r)
<1>1. PolyInvNtt(r) = Scale(a[N])
  BY StoredIs DEF PolyInvNtt, InvNttLoop
<1>2. InvNttLoop(a, r)
  BY UpExists
<1> HIDE DEF a
<1>3. \A l \in LayerLens :
          a[l] = IF l = 2 THEN r ELSE InvNttLayer(a[l \div 2], l \div 2)
  BY <1>2, StoredIs DEF InvNttLoop
<1>4. Within(a[N], -3328, 3328)
  BY <1>3, InvNttPassesFit, LensIn
<1> QED
  BY <1>1, <1>4, ScaleBound

AccLoop(sum, a, b) ==
    sum = [i \in Vector |->
              IF i = 0 THEN Stored(BaseMul(a[i], b[i]))
              ELSE Stored(PolyAdd(sum[i - 1], Stored(BaseMul(a[i], b[i]))))]

LEMMA AccExists ==
    ASSUME NEW a, NEW b
    PROVE  \E sum : AccLoop(sum, a, b)
<1> DEFINE t(i) == Stored(BaseMul(a[i], b[i]))
           s0 == t(0)
           s1 == Stored(PolyAdd(s0, t(1)))
           s2 == Stored(PolyAdd(s1, t(2)))
           sum == [i \in Vector |-> IF i = 0 THEN s0 ELSE IF i = 1 THEN s1 ELSE s2]
<1> HIDE DEF t, s1, s2
<1>1. sum[0] = t(0) /\ sum[1] = s1 /\ sum[2] = s2
  BY DEF Vector, K
<1>2. sum = [i \in Vector |-> sum[i]]
  OBVIOUS
<1> HIDE DEF sum
<1>3. ASSUME NEW i \in Vector
      PROVE  sum[i] = IF i = 0 THEN t(i) ELSE Stored(PolyAdd(sum[i - 1], t(i)))
  <2>1. CASE i = 0
    BY <1>1, <2>1
  <2>2. CASE i = 1
    <3>1. i - 1 = 0 /\ i # 0
      BY <2>2
    <3> QED
      BY <1>1, <2>2, <3>1 DEF s1
  <2>3. CASE i = 2
    <3>1. i - 1 = 1 /\ i # 0
      BY <2>3
    <3> QED
      BY <1>1, <2>3, <3>1 DEF s2
  <2> QED
    BY <2>1, <2>2, <2>3 DEF Vector, K
<1> QED
  BY <1>2, <1>3 DEF AccLoop, t

LEMMA Int16Fits == \A x \in Int : Short(Int16(x))
BY Int16Facts DEF Short

LEMMA PolyAddBound ==
    ASSUME NEW a, NEW b, NEW lo \in Int, NEW hi \in Int, NEW low \in Int, NEW high \in Int,
           Within(a, lo, hi), Within(b, low, high), -32768 <= lo + low, hi + high <= 32767
    PROVE  Within(PolyAdd(a, b), lo + low, hi + high)
<1>1. ASSUME NEW i \in Index
      PROVE  /\ Int16(a[i] + b[i]) \in Int
             /\ lo + low <= Int16(a[i] + b[i]) /\ Int16(a[i] + b[i]) <= hi + high
  <2>1. PICK z \in Int : /\ z = a[i] + b[i] /\ -32768 <= z /\ z <= 32767
                         /\ lo + low <= z /\ z <= hi + high
    BY SMT DEF Within
  <2> QED
    BY SMT, <2>1, Int16Keeps
<1>2. PolyAdd(a, b) = [i \in Index |-> Int16(a[i] + b[i])]
  BY DEF PolyAdd
<1> QED
  BY <1>1, <1>2 DEF Within

\* The sum of three products fits an int16_t.
LEMMA BaseMulAccBound ==
    ASSUME NEW a, NEW b, Shorts(a), Polys(b, -1664, 1664)
    PROVE  Within(BaseMulAcc(a, b), -1664, 1664)
<1> DEFINE sum == CHOOSE sum : AccLoop(sum, a, b)
<1>1. BaseMulAcc(a, b) = PolyReduce(sum[2])
  <2>1. BaseMulAcc(a, b) = PolyReduce(sum[K - 1])
    BY StoredIs DEF BaseMulAcc, AccLoop
  <2>2. K - 1 = 2
    BY DEF K
  <2> QED
    BY <2>1, <2>2
<1>2. AccLoop(sum, a, b)
  BY AccExists
<1> HIDE DEF sum
<1>3. \A i \in Vector : Within(BaseMul(a[i], b[i]), -6656, 6656)
  BY BaseMulBound DEF Polys, Shorts
<1>4. 0 \in Vector /\ 1 \in Vector /\ 2 \in Vector /\ 1 - 1 = 0 /\ 2 - 1 = 1
  BY DEF Vector, K
<1>5. /\ sum[0] = BaseMul(a[0], b[0])
      /\ sum[1] = PolyAdd(sum[0], BaseMul(a[1], b[1]))
      /\ sum[2] = PolyAdd(sum[1], BaseMul(a[2], b[2]))
  BY <1>2, <1>4, StoredIs DEF AccLoop
<1>6. PICK l1, h1, l2, h2 \in Int : /\ l1 = -6656 + (-6656) /\ h1 = 6656 + 6656
                                    /\ l2 = l1 + (-6656) /\ h2 = h1 + 6656
  BY SMT
<1>7. /\ -32768 <= l1 /\ h1 <= 32767 /\ -32768 <= l2 /\ h2 <= 32767
      /\ -6656 \in Int /\ 6656 \in Int
  BY SMT, <1>6
<1>8. Within(sum[1], l1, h1)
  BY <1>3, <1>4, <1>5, <1>6, <1>7, PolyAddBound
<1>9. Within(sum[2], l2, h2)
  BY <1>3, <1>4, <1>5, <1>6, <1>7, <1>8, PolyAddBound
<1> QED
  BY <1>1, <1>7, <1>9, PolyReduceBound

LEMMA PolyVecAddReduceBound ==
    ASSUME NEW a, NEW b, Polys(a, -3328, 3328), Polys(b, -1664, 1664)
    PROVE  Polys(PolyVecAddReduce(a, b), -1664, 1664)
<1> SUFFICES ASSUME NEW i \in Vector
             PROVE  Within(PolyVecAddReduce(a, b)[i], -1664, 1664)
  BY DEF Polys
<1>1. PolyVecAddReduce(a, b)[i] = PolyReduce(PolyAdd(a[i], b[i]))
  BY StoredIs DEF PolyVecAddReduce
<1>2. Within(a[i], -3328, 3328) /\ Within(b[i], -1664, 1664)
  BY DEF Polys
<1>3. PICK lo, hi \in Int : lo = -3328 + (-1664) /\ hi = 3328 + 1664
  BY SMT
<1>4. -32768 <= lo /\ hi <= 32767 /\ -3328 \in Int /\ -1664 \in Int
  BY SMT, <1>3
<1>5. Within(PolyAdd(a[i], b[i]), lo, hi)
  BY <1>2, <1>3, <1>4, PolyAddBound
<1> QED
  BY <1>1, <1>4, <1>5, PolyReduceBound

LEMMA PolyToMontBound ==
    ASSUME NEW r, Within(r, -1664, 1664)
    PROVE  Within(PolyToMont(r), -3328, 3328)
<1>1. ASSUME NEW i \in Index
      PROVE  Small(MontgomeryReduce(r[i] * 1353))
  <2>1. PICK z \in Int : /\ z = r[i] * 1353
                         /\ -109084672 <= z /\ z <= 109084671
    BY SMT DEF Within
  <2> QED
    BY <2>1, MontgomeryIsReduced DEF Small
<1>2. PolyToMont(r) = [i \in Index |-> MontgomeryReduce(r[i] * 1353)]
  BY DEF PolyToMont
<1> QED
  BY <1>1, <1>2 DEF Within, Small

\* Noise under the transform, and what the secret key and sp are.
LEMMA NoiseTransformed ==
    ASSUME NEW seed \in Int, NEW nonce \in Int
    PROVE  Within(PolyNtt(GetNoise(seed, nonce)), -1664, 1664)
<1>1. Within(GetNoise(seed, nonce), -3328, 3328)
  BY SMT, GetNoiseBound, Widen
<1> QED
  BY <1>1, PolyNttBound

LEMMA MatrixFits ==
    ASSUME NEW seed \in Int, NEW transposed, NEW i \in Vector
    PROVE  Shorts(GenMatrix(seed, transposed)[i])
<1>1. \A j \in Vector : Within(GenMatrix(seed, transposed)[i][j], 0, 3328)
  BY GenMatrixBound DEF Polys
<1>2. \A j \in Vector : Within(GenMatrix(seed, transposed)[i][j], -32768, 32767)
  BY SMT, <1>1, Widen
<1> QED
  BY <1>2 DEF Polys, Shorts

------------------------------------------------------------------------------
(* The types of keys, ciphertexts and what is decrypted *)

PublicKeyTyped(pk) ==
    /\ pk.seed \in Int
    /\ \A i \in Vector : Bytes(pk.t[i], (3 * N) \div 2)

SecretKeyTyped(sk) == \A i \in Vector : Bytes(sk[i], (3 * N) \div 2)

LEMMA ToBytesOfPolys ==
    ASSUME NEW v, Polys(v, -1664, 1664)
    PROVE  \A i \in Vector : Bytes(Each(ToBytes, v)[i], (3 * N) \div 2)
<1> SUFFICES ASSUME NEW i \in Vector
             PROVE  Bytes(Each(ToBytes, v)[i], (3 * N) \div 2)
  OBVIOUS
<1>1. Each(ToBytes, v)[i] = ToBytes(v[i])
  BY StoredIs DEF Each
<1>2. \A j \in Index : v[i][j] \in Int
  BY DEF Polys, Within
<1> QED
  BY <1>1, <1>2, ToBytesAreBytes

LEMMA FromBytesOfKey ==
    ASSUME NEW v, SecretKeyTyped(v)
    PROVE  Shorts(Each(FromBytes, v))
<1> SUFFICES ASSUME NEW i \in Vector
             PROVE  Within(Each(FromBytes, v)[i], -32768, 32767)
  BY DEF Polys, Shorts
<1>1. Each(FromBytes, v)[i] = FromBytes(v[i])
  BY StoredIs DEF Each
<1>2. Within(FromBytes(v[i]), 0, 4095)
  BY FromBytesFits DEF SecretKeyTyped
<1> QED
  BY SMT, <1>1, <1>2, Widen

LEMMA IndcpaKeypairTyped ==
    ASSUME NEW c \in Int
    PROVE  /\ PublicKeyTyped(IndcpaKeypair(c).pk)
           /\ SecretKeyTyped(IndcpaKeypair(c).sk)
<1> DEFINE ps == Mix(c)
           ns == Mix(c + 1)
           a == GenMatrix(ps, FALSE)
           skpv == [i \in Vector |-> PolyNtt(GetNoise(ns, i))]
           e == [i \in Vector |-> PolyNtt(GetNoise(ns, K + i))]
           t == [i \in Vector |-> Stored(PolyToMont(BaseMulAcc(a[i], skpv)))]
<1>1. ps \in Int /\ ns \in Int /\ \A i \in Vector : i \in Int /\ K + i \in Int
  BY MixIs DEF Vector, K
<1>2. /\ IndcpaKeypair(c).pk.t = Each(ToBytes, PolyVecAddReduce(t, e))
      /\ IndcpaKeypair(c).pk.seed = ps
      /\ IndcpaKeypair(c).sk = Each(ToBytes, skpv)
  BY DEF IndcpaKeypair
<1> HIDE DEF ps, ns
<1>3. Polys(skpv, -1664, 1664) /\ Polys(e, -1664, 1664)
  BY <1>1, NoiseTransformed DEF Polys
<1>4. \A i \in Vector : Shorts(a[i])
  BY Zenon, <1>1, MatrixFits
<1>5. \A i \in Vector : t[i] = PolyToMont(BaseMulAcc(a[i], skpv))
  BY StoredIs
<1> HIDE DEF a, skpv, e, t
<1>6. Polys(t, -3328, 3328)
  BY <1>3, <1>4, <1>5, BaseMulAccBound, PolyToMontBound DEF Polys
<1>7. Polys(PolyVecAddReduce(t, e), -1664, 1664)
  BY <1>3, <1>6, PolyVecAddReduceBound
<1> QED
  BY <1>1, <1>2, <1>3, <1>7, ToBytesOfPolys DEF PublicKeyTyped, SecretKeyTyped

LEMMA HashHIs ==
    ASSUME NEW pk, PublicKeyTyped(pk)
    PROVE  HashH(pk) \in Int
<1> DEFINE all == [x \in 0..K - 1 |-> Digest(pk.t[x], (3 * N) \div 2)]
<1>1. (3 * N) \div 2 \in Nat
  BY SizeAssumption
<1>2. \A x \in 0..K - 1 : Digest(pk.t[x], (3 * N) \div 2) \in Int
  BY <1>1, DigestIs DEF PublicKeyTyped, Vector, Bytes
<1>3. \A x \in 0..K - 1 : all[x] \in Int
  BY <1>2
<1>4. K \in Nat
  BY DEF K
<1> HIDE DEF all
<1>5. Digest(all, K) \in Int
  BY <1>3, <1>4, DigestIs
<1> QED
  BY <1>5 DEF HashH, PublicKeyTyped, all

\* A message: what is encrypted, and what poly_tomsg gives.
MessageTyped(m) == \A i \in Index : m[i] \in Int

LEMMA BitsAreMessage == \A msg : MessageTyped(Bits(msg))
BY DEF Bits, MessageTyped

LEMMA ToMsgIsMessage ==
    ASSUME NEW p, Within(p, -1664, 1664)
    PROVE  MessageTyped(ToMsg(p))
<1>1. \A x \in Int : ToMsgBit(x) \in Int
  BY SMT DEF ToMsgBit, MulShift24
<1> QED
  BY <1>1 DEF ToMsg, MessageTyped, Within

LEMMA CoinsAreInteger ==
    ASSUME NEW m, MessageTyped(m), NEW h \in Int
    PROVE  HashG(m, h).coins \in Int
<1>1. N \in Nat /\ \A i \in 0..N - 1 : m[i] \in Int
  BY SizeFacts DEF MessageTyped, Index
<1>2. Digest(m, N) \in Int
  BY <1>1, DigestIs
<1>3. Mix(Digest(m, N) + h) \in Int
  BY <1>2, MixIs
<1> QED
  BY <1>3 DEF HashG

LEMMA CiphertextSizes ==
    /\ UBytes \in Int /\ 0 < UBytes /\ CtBytes = 3 * UBytes + (N \div 2)
    /\ UBytes = (5 * N) \div 4 /\ N \div 2 \in Int /\ 0 < N \div 2
    /\ \A x \in 0..CtBytes - 1 : x < 3 * UBytes =>
           x \div UBytes \in Vector /\ x % UBytes \in 0..UBytes - 1
    /\ \A x \in 0..CtBytes - 1 : ~ (x < 3 * UBytes) =>
           x - 3 * UBytes \in 0..(N \div 2) - 1
    /\ \A i \in Vector : \A x \in 0..UBytes - 1 : i * UBytes + x \in 0..CtBytes - 1
    /\ \A x \in 0..(N \div 2) - 1 : 3 * UBytes + x \in 0..CtBytes - 1
<1>1. PICK u, w \in Int : /\ u = UBytes /\ w = N \div 2 /\ 0 < u /\ 0 < w
                          /\ u = (5 * N) \div 4
  BY SMT, SizeAssumption DEF UBytes
<1>2. CtBytes = 3 * u + w
  BY <1>1 DEF CtBytes, K
<1>3. \A x \in Int : 0 <= x /\ x < 3 * u =>
          x \div u \in {0, 1, 2} /\ x % u \in 0..u - 1
  <2> SUFFICES ASSUME NEW x \in Int, 0 <= x, x < 3 * u
               PROVE  x \div u \in {0, 1, 2} /\ x % u \in 0..u - 1
    OBVIOUS
  <2>1. CASE x < u
    <3>1. x = u * 0 + x
      BY SMT, <1>1
    <3>2. x \div u = 0 /\ x % u = x
      BY <1>1, <2>1, <3>1, DivUnique
    <3> QED
      BY <1>1, <2>1, <3>2
  <2>2. CASE u <= x /\ x < 2 * u
    <3>1. PICK m \in Int : m = x - u /\ 0 <= m /\ m < u /\ x = u * 1 + m
      BY SMT, <1>1, <2>2
    <3>2. x \div u = 1 /\ x % u = m
      BY <1>1, <3>1, DivUnique
    <3> QED
      BY <1>1, <3>1, <3>2
  <2>3. CASE 2 * u <= x
    <3>1. PICK m, k \in Int : /\ m = x - 2 * u /\ k = 2
                              /\ 0 <= m /\ m < u /\ x = u * k + m
      BY SMT, <1>1, <2>3
    <3>2. x \div u = k /\ x % u = m
      <4>1. u > 0
        BY <1>1
      <4> QED
        BY <3>1, <4>1, DivUnique
    <3> QED
      BY <1>1, <3>1, <3>2
  <2> QED
    BY SMT, <1>1, <2>1, <2>2, <2>3
<1>4. Vector = {0, 1, 2}
  BY DEF Vector, K
<1>5. \A i \in {0, 1, 2} : \A x \in 0..u - 1 : i * u + x \in 0..(3 * u + w) - 1
  BY SMT, <1>1
<1>6. \A x \in 0..w - 1 : 3 * u + x \in 0..(3 * u + w) - 1
  BY SMT, <1>1
<1>7. \A x \in 0..(3 * u + w) - 1 : /\ x \in Int /\ 0 <= x
                                    /\ ~ (x < 3 * u) => x - 3 * u \in 0..w - 1
  BY SMT, <1>1
<1> QED
  BY <1>1, <1>2, <1>3, <1>4, <1>5, <1>6, <1>7

LEMMA CompressTyped ==
    \A u \in Int : Compress4(u) \in Int /\ Compress10(u) \in Int
<1>1. \A x, m \in Int : MulShift24(x, m) \in Int
  BY SMT DEF MulShift24
<1>2. \A x \in Int : (x \div 16) % 16 \in Int /\ (x \div 256) % 1024 \in Int
  BY SMT
<1> SUFFICES ASSUME NEW u \in Int PROVE Compress4(u) \in Int /\ Compress10(u) \in Int
  OBVIOUS
<1>3. PICK p \in Int : p = Positive(u)
  BY PositiveType
<1>4. /\ MulShift24(p * 16 + 1665, 80635) \in Int
      /\ MulShift24(p * 1024 + 1665, 1290167) \in Int
  BY SMT, <1>1
<1> QED
  BY <1>2, <1>3, <1>4 DEF Compress4, Compress10

LEMMA PackCiphertextTyped ==
    ASSUME NEW b, NEW v, Polys(b, -1664, 1664), Within(v, -1664, 1664)
    PROVE  Bytes(PackCiphertext(b, v), CtBytes)
<1> DEFINE u == [i \in Vector |->
                    Pack10(Stored([j \in Index |-> Compress10(b[i][j])]))]
           w == Pack4(Stored([j \in Index |-> Compress4(v[j])]))
           ct == PackCiphertext(b, v)
<1>1. \A x \in 0..CtBytes - 1 :
          ct[x] = IF x < K * UBytes THEN u[x \div UBytes][x % UBytes]
                  ELSE w[x - K * UBytes]
  <2> DEFINE g == [x \in 0..CtBytes - 1 |->
                      IF x < K * UBytes THEN u[x \div UBytes][x % UBytes]
                      ELSE w[x - K * UBytes]]
  <2>1. ct = Stored(g)
    BY DEF PackCiphertext
  <2> HIDE DEF u, w, ct, g
  <2>2. ct = g
    BY <2>1, StoredIs
  <2> QED
    BY <2>2 DEF g
<1>2. ASSUME NEW i \in Vector PROVE Bytes(u[i], UBytes)
  <2> DEFINE t == [j \in Index |-> Compress10(b[i][j])]
  <2>1. \A j \in Index : t[j] \in Int
    BY CompressTyped DEF Polys, Within
  <2>2. u[i] = Pack10(t)
    BY StoredIs
  <2> HIDE DEF t
  <2> QED
    BY <2>1, <2>2, Pack10AreBytes DEF UBytes
<1>3. Bytes(w, N \div 2)
  <2> DEFINE t == [j \in Index |-> Compress4(v[j])]
  <2>1. \A j \in Index : t[j] \in Int
    BY CompressTyped DEF Within
  <2>2. w = Pack4(t)
    BY StoredIs
  <2> HIDE DEF t
  <2> QED
    BY <2>1, <2>2, Pack4AreBytes
<1> HIDE DEF u, w, ct
<1>4. K = 3
  BY DEF K
<1>5. ASSUME NEW x \in 0..CtBytes - 1
      PROVE  ct[x] \in Int /\ 0 <= ct[x] /\ ct[x] <= 255
  <2>1. CASE x < 3 * UBytes
    <3>1. x \div UBytes \in Vector /\ x % UBytes \in 0..UBytes - 1
      BY <2>1, CiphertextSizes
    <3>2. ct[x] = u[x \div UBytes][x % UBytes]
      BY <1>1, <1>4, <2>1
    <3> QED
      BY <1>2, <3>1, <3>2 DEF Bytes
  <2>2. CASE ~ (x < 3 * UBytes)
    <3>1. x - 3 * UBytes \in 0..(N \div 2) - 1
      BY <2>2, CiphertextSizes
    <3>2. ct[x] = w[x - 3 * UBytes]
      BY <1>1, <1>4, <2>2
    <3> QED
      BY <1>3, <3>1, <3>2 DEF Bytes
  <2> QED
    BY <2>1, <2>2
<1> QED
  BY <1>5 DEF Bytes, ct

LEMMA UnpackBTyped ==
    ASSUME NEW c, Bytes(c, CtBytes)
    PROVE  Polys(UnpackB(c), -3328, 3328)
<1> SUFFICES ASSUME NEW i \in Vector PROVE Within(UnpackB(c)[i], -3328, 3328)
  BY DEF Polys
<1> DEFINE d == [x \in 0..UBytes - 1 |-> c[i * UBytes + x]]
           t == Unpack10(d)
<1>1. Bytes(d, (5 * N) \div 4)
  BY CiphertextSizes DEF Bytes
<1>2. UnpackB(c)[i] = [j \in Index |-> Decompress10(t[j])]
  BY StoredIs DEF UnpackB
<1> HIDE DEF d
<1>3. Within(t, 0, 1023)
  BY <1>1, Unpack10Fits
<1>4. \A x \in Int : 0 <= x /\ x <= 1023 =>
          /\ Decompress10(x) \in Int
          /\ -3328 <= Decompress10(x) /\ Decompress10(x) <= 3328
  BY SMT DEF Decompress10, Q
<1> HIDE DEF t
<1> QED
  BY <1>2, <1>3, <1>4 DEF Within

LEMMA UnpackVTyped ==
    ASSUME NEW c, Bytes(c, CtBytes)
    PROVE  Within(UnpackV(c), 0, 3328)
<1> DEFINE d == [x \in 0..(N \div 2) - 1 |-> c[K * UBytes + x]]
           t == Unpack4(d)
<1>1. Bytes(d, N \div 2)
  <2>1. K = 3
    BY DEF K
  <2> QED
    BY <2>1, CiphertextSizes DEF Bytes
<1>2. UnpackV(c) = [j \in Index |-> Decompress4(t[j])]
  BY StoredIs DEF UnpackV
<1> HIDE DEF d
<1>3. Within(t, 0, 15)
  BY <1>1, Unpack4Fits
<1>4. \A x \in Int : 0 <= x /\ x <= 15 =>
          Decompress4(x) \in Int /\ 0 <= Decompress4(x) /\ Decompress4(x) <= 3328
  BY SMT DEF Decompress4, Q
<1> HIDE DEF t
<1> QED
  BY <1>2, <1>3, <1>4 DEF Within

LEMMA FromMsgBound == \A m : Within(FromMsg(m), 0, 1665)
BY SMT DEF FromMsg, Within, Q

LEMMA IndcpaEncTyped ==
    ASSUME NEW m, NEW pk, NEW coins \in Int, PublicKeyTyped(pk)
    PROVE  Bytes(IndcpaEnc(m, pk, coins), CtBytes)
<1> DEFINE pkpv == Each(FromBytes, pk.t)
           at == GenMatrix(pk.seed, TRUE)
           sp == [i \in Vector |-> PolyNtt(GetNoise(coins, i))]
           ep == [i \in Vector |-> GetNoise(coins, K + i)]
           epp == GetNoise(coins, 2 * K)
           b == [i \in Vector |-> PolyInvNtt(BaseMulAcc(at[i], sp))]
           v == PolyInvNtt(BaseMulAcc(pkpv, sp))
           w == PolyReduce(PolyAdd(PolyAdd(v, epp), FromMsg(m)))
<1>1. IndcpaEnc(m, pk, coins) = PackCiphertext(PolyVecAddReduce(b, ep), w)
  BY StoredIs DEF IndcpaEnc
<1>2. /\ 2 * K \in Int /\ pk.seed \in Int
      /\ \A i \in Vector : i \in Int /\ K + i \in Int
  BY DEF Vector, K, PublicKeyTyped
<1>3. Polys(sp, -1664, 1664)
  BY <1>2, NoiseTransformed DEF Polys
<1>4. Polys(ep, -1664, 1664)
  <2>1. \A i \in Vector : Within(GetNoise(coins, K + i), -2, 2)
    BY <1>2, GetNoiseBound
  <2>2. \A i \in Vector : Within(GetNoise(coins, K + i), -1664, 1664)
    BY SMT, <2>1, Widen
  <2> QED
    BY <2>2 DEF Polys
<1>5. Within(epp, -2, 2)
  BY <1>2, GetNoiseBound
<1>6. \A i \in Vector : Shorts(at[i])
  BY Zenon, <1>2, MatrixFits
<1>7. Shorts(pkpv)
  <2>1. SecretKeyTyped(pk.t)
    BY DEF PublicKeyTyped, SecretKeyTyped
  <2> QED
    BY <2>1, FromBytesOfKey
<1> HIDE DEF pkpv, at, sp, ep, epp
<1>8. Polys(b, -3328, 3328) /\ Within(v, -3328, 3328)
  BY <1>3, <1>6, <1>7, BaseMulAccBound, PolyInvNttBound DEF Polys
<1> HIDE DEF b, v
<1>9. Within(w, -1664, 1664)
  <2>1. PICK l1, h1, l2, h2 \in Int : /\ l1 = -3328 + (-2) /\ h1 = 3328 + 2
                                      /\ l2 = l1 + 0 /\ h2 = h1 + 1665
    BY SMT
  <2>2. /\ -32768 <= l1 /\ h1 <= 32767 /\ -32768 <= l2 /\ h2 <= 32767
        /\ -3328 \in Int /\ -2 \in Int
    BY SMT, <2>1
  <2>3. Within(PolyAdd(v, epp), l1, h1)
    BY <1>5, <1>8, <2>1, <2>2, PolyAddBound
  <2>4. Within(PolyAdd(PolyAdd(v, epp), FromMsg(m)), l2, h2)
    BY <2>1, <2>2, <2>3, FromMsgBound, PolyAddBound
  <2> QED
    BY <2>2, <2>4, PolyReduceBound
<1> HIDE DEF w
<1>10. Polys(PolyVecAddReduce(b, ep), -1664, 1664)
  BY <1>4, <1>8, PolyVecAddReduceBound
<1> QED
  BY <1>1, <1>9, <1>10, PackCiphertextTyped

LEMMA DecryptTyped ==
    ASSUME NEW c, NEW sk, Bytes(c, CtBytes), SecretKeyTyped(sk)
    PROVE  Within(Decrypt(c, sk), -1664, 1664)
<1> DEFINE bp == Each(PolyNtt, UnpackB(c))
           skpv == Each(FromBytes, sk)
           p == PolyInvNtt(BaseMulAcc(skpv, bp))
           d == PolySub(UnpackV(c), p)
<1>1. Decrypt(c, sk) = PolyReduce(d)
  BY StoredIs DEF Decrypt
<1>2. Polys(bp, -1664, 1664)
  <2>1. \A i \in Vector : bp[i] = PolyNtt(UnpackB(c)[i])
    BY StoredIs DEF Each
  <2>2. \A i \in Vector : Within(UnpackB(c)[i], -3328, 3328)
    BY UnpackBTyped DEF Polys
  <2> HIDE DEF bp
  <2>3. \A i \in Vector : Within(bp[i], -1664, 1664)
    BY <2>1, <2>2, PolyNttBound
  <2> QED
    BY <2>3 DEF Polys
<1>3. Shorts(skpv)
  BY FromBytesOfKey
<1> HIDE DEF bp, skpv
<1>4. Within(p, -3328, 3328)
  BY <1>2, <1>3, BaseMulAccBound, PolyInvNttBound
<1> HIDE DEF p
<1>5. Within(UnpackV(c), 0, 3328)
  BY UnpackVTyped
<1>6. ASSUME NEW i \in Index
      PROVE  /\ Int16(UnpackV(c)[i] - p[i]) \in Int
             /\ -3328 <= Int16(UnpackV(c)[i] - p[i])
             /\ Int16(UnpackV(c)[i] - p[i]) <= 6656
  <2>1. PICK z \in Int : z = UnpackV(c)[i] - p[i] /\ -3328 <= z /\ z <= 6656
    BY SMT, <1>4, <1>5 DEF Within
  <2> QED
    BY SMT, <2>1, Int16Keeps
<1>7. d = [i \in Index |-> Int16(UnpackV(c)[i] - p[i])]
  BY DEF PolySub
<1>8. Within(d, -3328, 6656)
  BY <1>6, <1>7 DEF Within
<1> HIDE DEF d
<1> QED
  BY SMT, <1>1, <1>8, PolyReduceBound

(***************************************************************************)
(* What CallsInv says, typed: inductive with it.                           *)
(***************************************************************************)
TypeInv ==
    /\ \A r \in issued \cup given : Bytes(r.ct, CtBytes)
    /\ Between(mp, -1664, 1664)

LEMMA PairTyped ==
    ASSUME NEW c \in Coins
    PROVE  /\ PublicKeyTyped(PairOf(c).pk) /\ SecretKeyTyped(PairOf(c).sk)
           /\ PairOf(c).h \in Int
<1>1. c \in Int
  BY KemAssumption
<1>2. /\ PublicKeyTyped(IndcpaKeypair(c).pk) /\ SecretKeyTyped(IndcpaKeypair(c).sk)
  BY <1>1, IndcpaKeypairTyped
<1>3. HashH(IndcpaKeypair(c).pk) \in Int
  BY <1>2, HashHIs
<1> QED
  BY <1>2, <1>3 DEF PairOf

LEMMA CtTyped ==
    ASSUME NEW c \in Coins, NEW m, MessageTyped(m)
    PROVE  Bytes(CtOf(PairOf(c), m), CtBytes)
BY PairTyped, CoinsAreInteger, IndcpaEncTyped DEF CtOf

LEMMA ChangesAreBytes == \A c \in Changes : c[2] \in 0..255
<1>1. \A A, B, C : C \subseteq A \X B => \A c \in C : c[2] \in B
  BY SMT
<1> QED
  BY Zenon, <1>1, ChangesAssumption

LEMMA TypeInit == Init => TypeInv
BY DEF Init, TypeInv, Between, None

LEMMA EncapsulateTyped ==
    ASSUME CallsInv, TypeInv, NEW k, NEW msg, Encapsulate(k, msg)
    PROVE  TypeInv'
<1>1. /\ k \in DOMAIN keys /\ mp' = mp /\ given' = given
      /\ keys[k] = PairOf(k) /\ k \in Coins
  BY DEF Encapsulate, CallsInv
<1>2. keys[k].h = HashH(keys[k].pk)
  BY <1>1 DEF PairOf
<1>3. issued' = issued \cup {CallOf(k, keys[k], Bits(msg))}
  BY <1>1, <1>2 DEF Encapsulate, CallOf, CtOf, HashG
<1>4. Bytes(CtOf(keys[k], Bits(msg)), CtBytes)
  BY <1>1, BitsAreMessage, CtTyped
<1>5. CallOf(k, keys[k], Bits(msg)).ct = CtOf(keys[k], Bits(msg))
  BY DEF CallOf
<1> QED
  BY <1>1, <1>3, <1>4, <1>5 DEF TypeInv

LEMMA ArriveTyped ==
    ASSUME CallsInv, TypeInv, NEW k, NEW q \in issued,
           NEW x, NEW n \in 0..255, Arrive(k, q, x, n)
    PROVE  TypeInv'
<1> DEFINE ct == [q.ct EXCEPT ![x] = (@ + n) % 256]
<1>1. /\ k \in DOMAIN keys /\ issued' = issued /\ Decapsulate(k, ct)
      /\ keys[k] = PairOf(k) /\ k \in Coins
  BY DEF Arrive, CallsInv
<1>2. Bytes(ct, CtBytes)
  <2>1. Ciphertext(q.ct) /\ Bytes(q.ct, CtBytes)
    BY EncryptionIsCiphertext DEF CallsInv, CallOf, TypeInv
  <2>2. DOMAIN q.ct = 0..CtBytes - 1
    BY <2>1 DEF Ciphertext
  <2>3. ASSUME NEW y \in 0..CtBytes - 1
        PROVE  ct[y] \in Int /\ 0 <= ct[y] /\ ct[y] <= 255
    <3>1. PICK b \in Int : b = q.ct[y] /\ 0 <= b /\ b <= 255
      BY <2>1 DEF Bytes
    <3>2. ct[y] = IF y = x THEN (b + n) % 256 ELSE b
      BY <2>2, <3>1
    <3>3. b + n \in Int
      OBVIOUS
    <3> HIDE DEF ct
    <3> QED
      BY <3>1, <3>2, <3>3, RemaindersFit
  <2> HIDE DEF ct
  <2> QED
    BY <2>3 DEF Bytes
<1> HIDE DEF ct
<1>3. /\ mp' = Decrypt(ct, keys[k].sk)
      /\ \E ss : given' = given \cup {[key |-> k, ct |-> ct, secret |-> ss]}
  BY <1>1 DEF Decapsulate
<1>4. PICK ss : given' = given \cup {[key |-> k, ct |-> ct, secret |-> ss]}
  BY <1>3
<1>5. Within(mp', -1664, 1664)
  BY <1>1, <1>2, <1>3, PairTyped, DecryptTyped
<1>6. Between(mp', -1664, 1664)
  BY <1>5 DEF Within, Between
<1> QED
  BY <1>1, <1>2, <1>4, <1>6 DEF TypeInv, Between

\* The types, from the invariant.
LEMMA TypesFollow == CallsInv /\ TypeInv => TypeOK
<1> SUFFICES ASSUME CallsInv, TypeInv PROVE TypeOK
  OBVIOUS
<1>1. \A c, n : Bytes(c, n) /\ DOMAIN c = 0..n - 1 => Between(c, 0, 255)
  BY DEF Bytes, Between
<1>2. \A a : DOMAIN ToBytes(a) = 0..((3 * N) \div 2) - 1
  BY DEF ToBytes
<1>3. ASSUME NEW k \in DOMAIN keys, NEW i \in Vector
      PROVE  Between(keys[k].pk.t[i], 0, 255) /\ Between(keys[k].sk[i], 0, 255)
  <2>1. keys[k] = PairOf(k) /\ k \in Coins
    BY DEF CallsInv
  <2>2. Bytes(PairOf(k).pk.t[i], (3 * N) \div 2) /\ Bytes(PairOf(k).sk[i], (3 * N) \div 2)
    BY <2>1, PairTyped DEF PublicKeyTyped, SecretKeyTyped
  <2>3. \A v : Each(ToBytes, v)[i] = ToBytes(v[i])
    BY StoredIs DEF Each
  <2>4. (\E a : PairOf(k).pk.t[i] = ToBytes(a)) /\ (\E a : PairOf(k).sk[i] = ToBytes(a))
    BY <2>3 DEF PairOf, IndcpaKeypair
  <2> QED
    BY <1>1, <1>2, <2>1, <2>2, <2>4
<1>4. ASSUME NEW r \in issued \cup given
      PROVE  r.key \in DOMAIN keys /\ Between(r.ct, 0, 255)
  <2>1. r.key \in DOMAIN keys /\ Ciphertext(r.ct)
    BY EncryptionIsCiphertext DEF CallsInv, CallOf
  <2>2. DOMAIN r.ct = 0..CtBytes - 1
    BY <2>1 DEF Ciphertext
  <2> QED
    BY <1>1, <2>1, <2>2 DEF TypeInv
<1> QED
  BY <1>3, <1>4 DEF TypeOK, CallsInv, TypeInv

LEMMA KemTypesInvariant == Spec => []TypeInv
<1>1. CallsInv /\ TypeInv /\ [Next]_vars => TypeInv'
  <2> SUFFICES ASSUME CallsInv, TypeInv, [Next]_vars PROVE TypeInv'
    OBVIOUS
  <2>1. CASE UNCHANGED vars
    BY <2>1 DEF vars, TypeInv, Between
  <2>2. ASSUME NEW c \in Coins, Keypair(c) PROVE TypeInv'
    BY <2>2 DEF Keypair, TypeInv, Between
  <2> QED
    BY <2>1, <2>2, ChangesAreBytes, EncapsulateTyped, ArriveTyped DEF Next
<1> QED
  BY <1>1, TypeInit, CallsInvariant, PTL DEF Spec

(***************************************************************************)
(* Keys and ciphertexts are bytes and the polynomial poly_tomsg gets is    *)
(* centred, whatever arrives.  It rests on the lemmas above, by which      *)
(* every pass of indcpa_keypair_derand, _enc and _dec is given values it   *)
(* takes and no int16_t sum of polynomials wraps.                          *)
(***************************************************************************)
THEOREM KemTypeCorrect == Spec => []TypeOK
BY TypesFollow, CallsInvariant, KemTypesInvariant, PTL

------------------------------------------------------------------------------
(* The transform and its inverse *)

\* ntt is the transform.
LEMMA PolyNttTransforms ==
    ASSUME NEW r, Within(r, -3328, 3328)
    PROVE  Transforms(r, PolyNtt(r))
<1> DEFINE a == CHOOSE a : NttLoop(a, r)
<1>1. PolyNtt(r) = PolyReduce(a[2])
  BY StoredIs DEF PolyNtt, NttLoop
<1>2. NttLoop(a, r)
  BY DownExists
<1> HIDE DEF a
<1>3. \A l \in LayerLens : a[l] = IF l = N THEN r ELSE NttLayer(a[2 * l], l)
  BY <1>2, StoredIs DEF NttLoop
<1>4. \A l \in LayerLens : Fits(a[l], l)
  BY <1>3, NttPassesFit
<1>5. \A l \in LayerLens : a[l] \in Polynomials
  BY <1>4, LensIn, FitsShort DEF Within, Polynomials
<1>6. ASSUME NEW l \in LayerLens, l # N
      PROVE  Same(a[l], Layer(a[2 * l], l))
  <2>1. l \in Lens /\ l < N /\ 2 * l \in LayerLens /\ 2 * l \in Lens /\ 2 * l # 2
    <3>1. \A m \in Lens : 2 * m # 2
      BY SMT DEF Lens
    <3> QED
      BY <1>6, <3>1, LensIn
  <2>2. Within(a[2 * l], -29440, 29439)
    BY <1>4, <2>1, FitsShort
  <2> QED
    BY <1>3, <1>6, <2>1, <2>2, NttLayerSame
<1>7. a[N] = r /\ Within(a[2], -32768, 32767)
  BY <1>3, <1>4, LensIn, FitsShort
<1>8. Same(a[2], PolyReduce(a[2]))
  BY <1>7, PolyReduceSame, SameSym
<1> QED
  BY <1>1, <1>5, <1>6, <1>7, <1>8, LensIn, SameRefl DEF Transforms, Path

------------------------------------------------------------------------------
(* Inner products of transforms *)

\* invntt undoes the transform, and multiplies by R.
LEMMA PolyInvNttTransforms ==
    ASSUME NEW r, Within(r, -1664, 1664)
    PROVE  Transforms(PolyInvNtt(r), Scaled(R, r))
<1> DEFINE b == CHOOSE b : InvNttLoop(b, r)
<1>1. PolyInvNtt(r) = Scale(b[N])
  BY StoredIs DEF PolyInvNtt, InvNttLoop
<1>2. InvNttLoop(b, r)
  BY UpExists
<1> HIDE DEF b
<1>3. \A l \in LayerLens :
          b[l] = IF l = 2 THEN r ELSE InvNttLayer(b[l \div 2], l \div 2)
  BY <1>2, StoredIs DEF InvNttLoop
<1>4. \A l \in LayerLens : Within(b[l], -3328, 3328) /\ b[l] \in Polynomials
  BY <1>3, InvNttPassesFit DEF Within, Polynomials
<1> DEFINE a == [l \in LayerLens |-> Scaled(Gain(l), b[l])]
<1>5. \A l \in LayerLens : a[l] = Scaled(Gain(l), b[l]) /\ a[l] \in Polynomials
  BY <1>4, GainFacts, ScaledType
<1> HIDE DEF a
<1>6. ASSUME NEW l \in LayerLens, l # N
      PROVE  Same(a[l], Layer(a[2 * l], l))
  <2>1. l \in Lens /\ l < N /\ 2 * l \in LayerLens /\ 2 * l # 2 /\ (2 * l) \div 2 = l
    <3>1. \A m \in Lens : 2 * m # 2 /\ (2 * m) \div 2 = m
      BY SMT DEF Lens
    <3> QED
      BY <1>6, <3>1, LensIn
  <2>2. b[2 * l] = InvNttLayer(b[l], l)
    BY <1>3, <2>1
  <2>3. Same(Layer(b[2 * l], l), Scaled(2, b[l]))
    BY <1>4, <2>1, <2>2, InvNttLayerSame
  <2>4. Gain(2 * l) \in Int /\ 2 \in Int /\ Gain(l) = Gain(2 * l) * 2
    BY <1>6, <2>1, GainFacts
  <2>5. Layer(a[2 * l], l) = Scaled(Gain(2 * l), Layer(b[2 * l], l))
    BY <1>4, <1>5, <2>1, <2>4, ScaledLayer
  <2>6. Same(Scaled(Gain(2 * l), Layer(b[2 * l], l)),
             Scaled(Gain(2 * l), Scaled(2, b[l])))
    BY <2>3, <2>4, CongRefl, ScaledSame
  <2>7. Scaled(Gain(2 * l), Scaled(2, b[l])) = a[l]
    BY <1>4, <1>5, <2>4, ScaledTwice
  <2> QED
    BY <2>5, <2>6, <2>7, SameSym
<1>7. Same(a[N], PolyInvNtt(r))
  BY <1>1, <1>4, <1>5, GainFacts, LensIn, ScaleSame, SameSym
<1>8. Same(a[2], Scaled(R, r))
  <2>1. b[2] = r /\ r \in Polynomials /\ a[2] = Scaled(Gain(2), r)
    BY <1>3, <1>4, <1>5, LensIn
  <2>2. Same(r, r) /\ Gain(2) \in Int /\ R \in Int /\ Cong(Gain(2), R)
    BY <2>1, GainFacts, LensIn, SameRefl DEF Cong
  <2> QED
    BY <2>1, <2>2, ScaledSame
<1> QED
  BY <1>5, <1>6, <1>7, <1>8 DEF Transforms, Path

Three(x, y, z) == Plus(Plus(x, 1, y), 1, z)

LEMMA ThreeType ==
    ASSUME NEW x \in Polynomials, NEW y \in Polynomials, NEW z \in Polynomials
    PROVE  Three(x, y, z) \in Polynomials
BY PlusType DEF Three

LEMMA ThreeSame ==
    ASSUME NEW x, NEW y, NEW z, NEW u, NEW v, NEW w, Same(x, u), Same(y, v), Same(z, w)
    PROVE  Same(Three(x, y, z), Three(u, v, w))
BY PlusSame DEF Three

\* The inner product of two vectors, on the transforms.
Dot(a, b) == Three(Prod(a[0], b[0]), Prod(a[1], b[1]), Prod(a[2], b[2]))

VectorOf(a) == \A i \in 0..2 : a[i] \in Polynomials

LEMMA DotType ==
    ASSUME NEW a, NEW b, VectorOf(a), VectorOf(b)
    PROVE  Dot(a, b) \in Polynomials
BY ProdType, ThreeType DEF Dot, VectorOf

LEMMA DotSame ==
    ASSUME NEW a, NEW b, NEW v, NEW w,
           \A i \in 0..2 : Same(a[i], v[i]) /\ Same(b[i], w[i])
    PROVE  Same(Dot(a, b), Dot(v, w))
BY ProdSame, ThreeSame DEF Dot

LEMMA PolyAddSame ==
    ASSUME NEW a, NEW b, NEW lo \in Int, NEW hi \in Int, NEW low \in Int, NEW high \in Int,
           Within(a, lo, hi), Within(b, low, high), -32768 <= lo + low, hi + high <= 32767
    PROVE  PolyAdd(a, b) = Plus(a, 1, b)
<1>1. ASSUME NEW i \in Index
      PROVE  Int16(a[i] + b[i]) = a[i] + 1 * b[i]
  <2>1. PICK z \in Int : z = a[i] + b[i] /\ -32768 <= z /\ z <= 32767 /\ z = a[i] + 1 * b[i]
    BY SMT DEF Within
  <2> QED
    BY <2>1, Int16Keeps
<1> QED
  BY <1>1 DEF PolyAdd, Plus

LEMMA PolySubSame ==
    ASSUME NEW a, NEW b, NEW lo \in Int, NEW hi \in Int, NEW low \in Int, NEW high \in Int,
           Within(a, lo, hi), Within(b, low, high), -32768 <= lo - high, hi - low <= 32767
    PROVE  PolySub(a, b) = Plus(a, -1, b)
<1>1. ASSUME NEW i \in Index
      PROVE  Int16(a[i] - b[i]) = a[i] + (-1) * b[i]
  <2>1. PICK z \in Int : z = a[i] - b[i] /\ -32768 <= z /\ z <= 32767 /\ z = a[i] + (-1) * b[i]
    BY SMT DEF Within
  <2> QED
    BY <2>1, Int16Keeps
<1> QED
  BY <1>1 DEF PolySub, Plus

LEMMA ScaledThree ==
    ASSUME NEW c \in Int, NEW x \in Polynomials, NEW y \in Polynomials, NEW z \in Polynomials
    PROVE  Three(Scaled(c, x), Scaled(c, y), Scaled(c, z)) = Scaled(c, Three(x, y, z))
<1>1. \A i \in Index : c * x[i] + 1 * (c * y[i]) + 1 * (c * z[i])
                           = c * (x[i] + 1 * y[i] + 1 * z[i])
  BY SMT DEF Polynomials
<1> QED
  BY <1>1 DEF Three, Plus, Scaled

\* polyvec_basemul_acc_montgomery: the inner product over R.
LEMMA BaseMulAccSame ==
    ASSUME NEW a, NEW b, Shorts(a), Polys(b, -1664, 1664)
    PROVE  /\ Same(BaseMulAcc(a, b), Scaled(169, Dot(a, b)))
           /\ VectorOf(a) /\ VectorOf(b)
<1> DEFINE sum == CHOOSE sum : AccLoop(sum, a, b)
<1>1. BaseMulAcc(a, b) = PolyReduce(sum[2])
  <2>1. BaseMulAcc(a, b) = PolyReduce(sum[K - 1])
    BY StoredIs DEF BaseMulAcc, AccLoop
  <2>2. K - 1 = 2
    BY DEF K
  <2> QED
    BY <2>1, <2>2
<1>2. AccLoop(sum, a, b)
  BY AccExists
<1> HIDE DEF sum
<1>3. \A i \in Vector : Within(BaseMul(a[i], b[i]), -6656, 6656)
  BY BaseMulBound DEF Polys, Shorts
<1>4. 0 \in Vector /\ 1 \in Vector /\ 2 \in Vector /\ 1 - 1 = 0 /\ 2 - 1 = 1 /\ Vector = 0..2
  BY DEF Vector, K
<1>5. /\ sum[0] = BaseMul(a[0], b[0])
      /\ sum[1] = PolyAdd(sum[0], BaseMul(a[1], b[1]))
      /\ sum[2] = PolyAdd(sum[1], BaseMul(a[2], b[2]))
  BY <1>2, <1>4, StoredIs DEF AccLoop
<1>6. PICK l1, h1, l2, h2 \in Int : /\ l1 = -6656 + (-6656) /\ h1 = 6656 + 6656
                                    /\ l2 = l1 + (-6656) /\ h2 = h1 + 6656
  BY SMT
<1>7. /\ -32768 <= l1 /\ h1 <= 32767 /\ -32768 <= l2 /\ h2 <= 32767
      /\ -6656 \in Int /\ 6656 \in Int
  BY SMT, <1>6
<1>8. Within(sum[1], l1, h1) /\ sum[1] = Plus(sum[0], 1, BaseMul(a[1], b[1]))
  BY <1>3, <1>4, <1>5, <1>6, <1>7, PolyAddBound, PolyAddSame
<1>9. Within(sum[2], l2, h2) /\ sum[2] = Plus(sum[1], 1, BaseMul(a[2], b[2]))
  BY <1>3, <1>4, <1>5, <1>6, <1>7, <1>8, PolyAddBound, PolyAddSame
<1>10. sum[2] = Three(BaseMul(a[0], b[0]), BaseMul(a[1], b[1]), BaseMul(a[2], b[2]))
  BY <1>5, <1>8, <1>9 DEF Three
<1>11. \A i \in 0..2 : Same(BaseMul(a[i], b[i]), Scaled(169, Prod(a[i], b[i])))
  BY <1>4, BaseMulSame DEF Polys, Shorts
<1>12. VectorOf(a) /\ VectorOf(b)
  BY <1>4 DEF Polys, Shorts, Within, VectorOf, Polynomials
<1>13. Three(Scaled(169, Prod(a[0], b[0])), Scaled(169, Prod(a[1], b[1])),
             Scaled(169, Prod(a[2], b[2]))) = Scaled(169, Dot(a, b))
  <2>1. 169 \in Int
    BY SMT
  <2>2. \A i \in 0..2 : Prod(a[i], b[i]) \in Polynomials
    BY <1>12, ProdType DEF VectorOf
  <2> QED
    BY <2>1, <2>2, ScaledThree DEF Dot
<1>14. Same(sum[2], Scaled(169, Dot(a, b)))
  BY <1>10, <1>11, <1>13, ThreeSame
<1>15. Within(sum[2], -32768, 32767)
  BY SMT, <1>6, <1>9 DEF Within
<1>16. Same(PolyReduce(sum[2]), sum[2])
  BY <1>15, PolyReduceSame
<1> QED
  BY <1>1, <1>12, <1>14, <1>16, SameTrans

LEMMA RScaled ==
    ASSUME NEW x \in Polynomials
    PROVE  Same(Scaled(R, Scaled(169, x)), x)
<1>1. Scaled(R, Scaled(169, x)) = Scaled(R * 169, x)
  BY OneOverR, ScaledTwice
<1>2. Same(Scaled(R * 169, x), Scaled(1, x))
  BY OneOverR, SameRefl, ScaledSame
<1> QED
  BY <1>1, <1>2, ScaledOne

\* An inner product of transforms, transformed back.
LEMMA DotBack ==
    ASSUME NEW a, NEW b, Shorts(a), Polys(b, -1664, 1664)
    PROVE  Transforms(PolyInvNtt(BaseMulAcc(a, b)), Dot(a, b))
<1>1. Transforms(PolyInvNtt(BaseMulAcc(a, b)), Scaled(R, BaseMulAcc(a, b)))
  BY BaseMulAccBound, PolyInvNttTransforms
<1>2. Dot(a, b) \in Polynomials
  BY BaseMulAccSame, DotType
<1>3. Same(Scaled(R, BaseMulAcc(a, b)), Scaled(R, Scaled(169, Dot(a, b))))
  BY OneOverR, CongRefl, BaseMulAccSame, ScaledSame
<1>4. Same(Scaled(R, BaseMulAcc(a, b)), Dot(a, b))
  BY <1>2, <1>3, RScaled, SameTrans
<1> QED
  BY <1>1, <1>4, SameRefl, TransformsType, TransformsSame

------------------------------------------------------------------------------
(* Products in the ring: how large their coefficients are *)

\* The coefficients of x from the m-th on, moved down.
Rest(x, m) == [i \in Index |-> IF m + i < N THEN x[m + i] ELSE 0]

LEMMA RestType ==
    ASSUME NEW x \in Polynomials, NEW m \in 0..N
    PROVE  Rest(x, m) \in Polynomials
<1>1. \A i \in Index : m + i < N => m + i \in Index
  BY SMT, SizeFacts DEF Index
<1> QED
  BY <1>1 DEF Rest, Polynomials

LEMMA RestStep ==
    ASSUME NEW x \in Polynomials, NEW m \in 0..N - 1
    PROVE  Rest(x, m) = Plus(Shift(Rest(x, m + 1), N), x[m], One(N))
<1>1. N \in Int /\ 8 <= N /\ m \in Int /\ 0 <= m /\ m <= N - 1 /\ m \in Index
  BY SMT, SizeFacts DEF Index
<1>2. ASSUME NEW i \in Index
      PROVE  Rest(x, m)[i] = Shift(Rest(x, m + 1), N)[i] + x[m] * One(N)[i]
  <2>1. i \in Int /\ 0 <= i /\ i <= N - 1
    BY SMT, <1>1 DEF Index
  <2>2. CASE i = 0
    <3>1. i % N = 0 /\ i + N - 1 \in Index /\ ~ (m + 1 + (i + N - 1) < N)
          /\ m + i < N /\ m + i = m
      BY SMT, <1>1, <2>1, <2>2 DEF Index
    <3>2. Rest(x, m + 1)[i + N - 1] = 0
      BY <3>1 DEF Rest
    <3>3. Root(i, N) = -1
      BY DEF Root
    <3>4. Shift(Rest(x, m + 1), N)[i] = 0
      BY <3>1, <3>2, <3>3 DEF Shift
    <3>5. One(N)[i] = 1 /\ Rest(x, m)[i] = x[m] /\ x[m] \in Int
      BY <1>1, <3>1 DEF One, Rest, Polynomials
    <3> QED
      BY SMT, <3>4, <3>5
  <2>3. CASE i # 0
    <3>1. i % N # 0 /\ i - 1 \in Index /\ m + 1 + (i - 1) = m + i
          /\ (m + i < N => m + i \in Index)
      BY SMT, <1>1, <2>1, <2>3 DEF Index
    <3>2. Shift(Rest(x, m + 1), N)[i] = Rest(x, m)[i] /\ One(N)[i] = 0
      BY <3>1 DEF Shift, Rest, One
    <3>3. Rest(x, m)[i] \in Int /\ x[m] \in Int
      BY <1>1, <3>1 DEF Rest, Polynomials
    <3> QED
      BY SMT, <3>2, <3>3
  <2> QED
    BY <2>2, <2>3
<1> QED
  BY <1>2 DEF Plus, Rest

LEMMA ShiftWithin ==
    ASSUME NEW h, NEW c \in Int, Within(h, -c, c)
    PROVE  Within(Shift(h, N), -c, c)
<1>1. N \in Int /\ 8 <= N
  BY SizeFacts
<1>2. ASSUME NEW i \in Index
      PROVE  /\ Shift(h, N)[i] \in Int
             /\ -c <= Shift(h, N)[i] /\ Shift(h, N)[i] <= c
  <2>1. i \in Int /\ 0 <= i /\ i <= N - 1
    BY SMT, <1>1 DEF Index
  <2>2. CASE i = 0
    <3>1. i % N = 0 /\ i + N - 1 \in Index
      BY SMT, <1>1, <2>1, <2>2 DEF Index
    <3>2. PICK u \in Int : u = h[i + N - 1] /\ -c <= u /\ u <= c
      BY <3>1 DEF Within
    <3>3. Shift(h, N)[i] = (-1) * u
      BY <3>1, <3>2 DEF Shift, Root
    <3> QED
      BY SMT, <3>2, <3>3
  <2>3. CASE i # 0
    <3>1. i % N # 0 /\ i - 1 \in Index
      BY SMT, <1>1, <2>1, <2>3 DEF Index
    <3> QED
      BY <3>1 DEF Shift, Within
  <2> QED
    BY <2>2, <2>3
<1>3. Shift(h, N) = [i \in Index |-> Shift(h, N)[i]]
  BY DEF Shift
<1> QED
  BY <1>2, <1>3 DEF Within

LEMMA AbsProduct ==
    ASSUME NEW A \in Nat, NEW B \in Nat, NEW x \in Int, NEW y \in Int,
           -A <= x, x <= A, -B <= y, y <= B
    PROVE  -(A * B) <= x * y /\ x * y <= A * B
<1>1. 0 <= (A - x) * (B + y) /\ 0 <= (A + x) * (B - y)
      /\ 0 <= (A - x) * (B - y) /\ 0 <= (A + x) * (B + y)
  BY SMT
<1> QED
  BY SMT, <1>1

(***************************************************************************)
(* A product in the ring: h is the polynomial whose transform is the       *)
(* product of those of x and y.  Its coefficients are no larger than N     *)
(* products of theirs.                                                     *)
(***************************************************************************)
LEMMA ProductWithin ==
    ASSUME NEW x, NEW y, NEW X, NEW Y, NEW A \in Nat, NEW B \in Nat,
           Transforms(x, X), Transforms(y, Y), Within(x, -A, A), Within(y, -B, B)
    PROVE  \E h : Transforms(h, Prod(X, Y)) /\ Within(h, -(N * (A * B)), N * (A * B))
<1> DEFINE Has(n) == \E T, h :
               /\ Transforms(Rest(x, N - n), T) /\ Transforms(h, Prod(T, Y))
               /\ Within(h, -(n * (A * B)), n * (A * B))
           S == {n \in Nat : n <= N => Has(n)}
<1>1. x \in Polynomials /\ y \in Polynomials /\ Y \in Polynomials
  BY TransformsType
<1>2. N \in Nat /\ A * B \in Nat
  BY SMT, SizeFacts
<1>3. 0 \in S
  <2>1. Rest(x, N - 0) = Zero
    <3>1. \A i \in Index : ~ ((N - 0) + i < N)
      BY SMT, <1>2 DEF Index
    <3> QED
      BY <3>1 DEF Rest, Zero
  <2>2. Transforms(Zero, Prod(Zero, Y))
    BY <1>1, TransformsZero, ProdZero
  <2>3. Within(Zero, -(0 * (A * B)), 0 * (A * B))
    <3>1. PICK c \in Int : c = A * B
      BY <1>2
    <3>2. 0 * c = 0 /\ -(0 * c) = 0 /\ 0 \in Int
      BY SMT, <3>1
    <3> QED
      BY SMT, <3>1, <3>2 DEF Within, Zero
  <2> QED
    BY <2>1, <2>2, <2>3, TransformsZero
<1>4. ASSUME NEW n \in Nat, n \in S
      PROVE  n + 1 \in S
  <2> SUFFICES ASSUME n + 1 <= N PROVE Has(n + 1)
    OBVIOUS
  <2>1. PICK m \in 0..N - 1 : m = N - (n + 1) /\ m + 1 = N - n
    BY SMT, <1>2
  <2>2. PICK T, h : /\ Transforms(Rest(x, m + 1), T) /\ Transforms(h, Prod(T, Y))
                    /\ Within(h, -(n * (A * B)), n * (A * B))
    <3>1. n <= N
      BY SMT, <1>2
    <3> QED
      BY <1>4, <2>1, <3>1
  <2>3. x[m] \in Int /\ -A <= x[m] /\ x[m] <= A
    BY <2>1, <1>2 DEF Within, Index
  <2> DEFINE U == Plus(Shift(T, 2), x[m], One(2))
             g == Plus(Shift(h, N), x[m], y)
  <2>4. Transforms(Rest(x, m), U)
    BY <1>1, <2>1, <2>2, <2>3, RestStep, TransformsShift, TransformsOne, TransformsPlus
  <2>5. T \in Polynomials /\ h \in Polynomials
    BY <2>2, TransformsType
  <2>6. Prod(U, Y) = Plus(Shift(Prod(T, Y), 2), x[m], Y)
    <3>1. Shift(T, 2) \in Polynomials
      BY <2>5, ShiftType, LensIn
    <3>2. Prod(U, Y) = Plus(Prod(Shift(T, 2), Y), x[m], Prod(One(2), Y))
      BY <1>1, <2>3, <3>1, OneType, ProdPlus
    <3> QED
      BY <1>1, <2>5, <3>2, ProdOne, ProdShift
  <2>7. Transforms(g, Prod(U, Y))
    BY <2>2, <2>3, <2>6, TransformsShift, TransformsPlus
  <2>8. Within(g, -((n + 1) * (A * B)), (n + 1) * (A * B))
    <3>1. PICK c, d \in Int : /\ c = n * (A * B) /\ d = (n + 1) * (A * B)
                              /\ d = c + A * B
      BY SMT, <1>2
    <3>2. Within(Shift(h, N), -c, c)
      BY <2>2, <3>1, ShiftWithin
    <3>3. ASSUME NEW i \in Index
          PROVE  g[i] \in Int /\ -d <= g[i] /\ g[i] <= d
      <4>1. PICK u, v, w \in Int : /\ u = Shift(h, N)[i] /\ v = x[m] /\ w = y[i]
                                   /\ -c <= u /\ u <= c /\ -B <= w /\ w <= B
        BY <2>3, <3>2 DEF Within
      <4>2. -(A * B) <= v * w /\ v * w <= A * B
        BY <2>3, <4>1, AbsProduct
      <4>3. g[i] = u + v * w
        BY <4>1 DEF Plus
      <4>4. PICK z, e \in Int : z = v * w /\ e = A * B
        BY SMT, <1>2
      <4> QED
        BY SMT, <3>1, <4>1, <4>2, <4>3, <4>4
    <3>4. g = [i \in Index |-> g[i]]
      BY DEF Plus
    <3> QED
      BY <3>1, <3>3, <3>4 DEF Within
  <2> QED
    BY <2>1, <2>4, <2>7, <2>8
<1> HIDE DEF S
<1>5. Nat \subseteq S
  BY <1>3, <1>4, SetInduction
<1>6. Has(N)
  BY <1>2, <1>5 DEF S
<1>7. PICK T, h : /\ Transforms(Rest(x, N - N), T) /\ Transforms(h, Prod(T, Y))
                  /\ Within(h, -(N * (A * B)), N * (A * B))
  BY <1>6
<1>8. Rest(x, N - N) = x
  <2>1. \A i \in Index : (N - N) + i = i /\ i < N
    BY SMT, <1>2 DEF Index
  <2> QED
    BY <1>1, <2>1 DEF Rest, Polynomials
<1>9. Same(T, X) /\ Same(Y, Y)
  BY <1>1, <1>7, <1>8, TransformsOnto, SameRefl
<1>10. Same(Prod(T, Y), Prod(X, Y))
  BY <1>9, ProdSame
<1>11. Transforms(h, Prod(X, Y))
  BY <1>7, <1>10, SameRefl, TransformsType, TransformsSame
<1> QED
  BY <1>7, <1>11

------------------------------------------------------------------------------
(* The matrix and its transpose *)

LEMMA ProdThree ==
    ASSUME NEW x \in Polynomials, NEW y \in Polynomials, NEW z \in Polynomials,
           NEW w \in Polynomials
    PROVE  Prod(Three(x, y, z), w) = Three(Prod(x, w), Prod(y, w), Prod(z, w))
<1>1. Plus(x, 1, y) \in Polynomials
  BY PlusType
<1> QED
  BY <1>1, ProdPlus DEF Three

LEMMA ProdReorder ==
    ASSUME NEW x \in Polynomials, NEW y \in Polynomials, NEW z \in Polynomials
    PROVE  Prod(Prod(x, y), z) = Prod(Prod(x, z), y)
BY ProdAssoc, ProdSwap

\* A row of a matrix times s, plus e, times r.
LEMMA RowTimes ==
    ASSUME NEW a, NEW s, VectorOf(a), VectorOf(s),
           NEW e \in Polynomials, NEW r \in Polynomials
    PROVE  Prod(Plus(Dot(a, s), 1, e), r) =
               Plus(Three(Prod(Prod(a[0], s[0]), r), Prod(Prod(a[1], s[1]), r),
                          Prod(Prod(a[2], s[2]), r)), 1, Prod(e, r))
<1>1. \A i \in 0..2 : Prod(a[i], s[i]) \in Polynomials
  BY ProdType DEF VectorOf
<1>2. Dot(a, s) \in Polynomials
  BY DotType
<1>3. Prod(Plus(Dot(a, s), 1, e), r) = Plus(Prod(Dot(a, s), r), 1, Prod(e, r))
  BY <1>2, ProdPlus
<1>4. Prod(Dot(a, s), r) = Three(Prod(Prod(a[0], s[0]), r), Prod(Prod(a[1], s[1]), r),
                                 Prod(Prod(a[2], s[2]), r))
  BY <1>1, ProdThree DEF Dot
<1> QED
  BY <1>3, <1>4

\* At one coefficient: w is the sum the two products share.
LEMMA SharedSum ==
    ASSUME NEW w00 \in Int, NEW w01 \in Int, NEW w02 \in Int,
           NEW w10 \in Int, NEW w11 \in Int, NEW w12 \in Int,
           NEW w20 \in Int, NEW w21 \in Int, NEW w22 \in Int,
           NEW e0 \in Int, NEW e1 \in Int, NEW e2 \in Int,
           NEW g0 \in Int, NEW g1 \in Int, NEW g2 \in Int
    PROVE  (((w00 + 1 * w01 + 1 * w02) + 1 * e0)
             + 1 * ((w10 + 1 * w11 + 1 * w12) + 1 * e1)
             + 1 * ((w20 + 1 * w21 + 1 * w22) + 1 * e2))
           + (-1) * (((w00 + 1 * w10 + 1 * w20) + 1 * g0)
             + 1 * ((w01 + 1 * w11 + 1 * w21) + 1 * g1)
             + 1 * ((w02 + 1 * w12 + 1 * w22) + 1 * g2))
           = (e0 + 1 * e1 + 1 * e2) + (-1) * (g0 + 1 * g1 + 1 * g2)
BY SMT

(***************************************************************************)
(* (A s + e) . r - s . (A^T r + g) = e . r - s . g                         *)
(***************************************************************************)
LEMMA Rearranged ==
    ASSUME NEW a, NEW at, NEW s, NEW e, NEW r, NEW g, NEW t, NEW u,
           VectorOf(s), VectorOf(e), VectorOf(r), VectorOf(g),
           \A i \in 0..2 : VectorOf(a[i]) /\ VectorOf(at[i]),
           \A i \in 0..2 : \A j \in 0..2 : at[i][j] = a[j][i],
           \A j \in 0..2 : t[j] = Plus(Dot(a[j], s), 1, e[j]),
           \A i \in 0..2 : u[i] = Plus(Dot(at[i], r), 1, g[i])
    PROVE  Plus(Dot(t, r), -1, Dot(s, u)) = Plus(Dot(e, r), -1, Dot(s, g))
<1> DEFINE W(j, i) == Prod(Prod(a[j][i], s[i]), r[j])
           E(j) == Prod(e[j], r[j])
           G(i) == Prod(s[i], g[i])
<1>1. \A j, i \in 0..2 : W(j, i) \in Polynomials
  BY ProdType DEF VectorOf
<1>2. \A j \in 0..2 : E(j) \in Polynomials /\ G(j) \in Polynomials
  BY ProdType DEF VectorOf
<1>3. ASSUME NEW j \in 0..2
      PROVE  Prod(t[j], r[j]) = Plus(Three(W(j, 0), W(j, 1), W(j, 2)), 1, E(j))
  <2>1. e[j] \in Polynomials /\ r[j] \in Polynomials
    BY DEF VectorOf
  <2> QED
    BY <2>1, RowTimes
<1>4. ASSUME NEW i \in 0..2
      PROVE  Prod(s[i], u[i]) = Plus(Three(W(0, i), W(1, i), W(2, i)), 1, G(i))
  <2>1. s[i] \in Polynomials /\ g[i] \in Polynomials
    BY DEF VectorOf
  <2>2. u[i] = Plus(Dot(at[i], r), 1, g[i]) /\ Dot(at[i], r) \in Polynomials
    BY DotType
  <2>3. Prod(s[i], u[i]) = Prod(u[i], s[i]) /\ Prod(g[i], s[i]) = G(i)
    <3>1. 1 \in Int
      OBVIOUS
    <3>2. u[i] \in Polynomials
      BY <2>1, <2>2, <3>1, PlusType
    <3> QED
      BY <2>1, <3>2, ProdSwap
  <2>4. \A j \in 0..2 : Prod(Prod(at[i][j], r[j]), s[i]) = W(j, i)
    BY <2>1, ProdReorder DEF VectorOf
  <2>5. Prod(u[i], s[i]) =
            Plus(Three(Prod(Prod(at[i][0], r[0]), s[i]), Prod(Prod(at[i][1], r[1]), s[i]),
                       Prod(Prod(at[i][2], r[2]), s[i])), 1, Prod(g[i], s[i]))
    BY <2>1, <2>2, RowTimes
  <2> HIDE DEF W, G
  <2> QED
    BY <2>3, <2>4, <2>5
<1> HIDE DEF W, E, G
<1>5. Dot(e, r) = Three(E(0), E(1), E(2)) /\ Dot(s, g) = Three(G(0), G(1), G(2))
  BY DEF Dot, E, G
<1>6. /\ Dot(t, r) = Three(Plus(Three(W(0, 0), W(0, 1), W(0, 2)), 1, E(0)),
                           Plus(Three(W(1, 0), W(1, 1), W(1, 2)), 1, E(1)),
                           Plus(Three(W(2, 0), W(2, 1), W(2, 2)), 1, E(2)))
      /\ Dot(s, u) = Three(Plus(Three(W(0, 0), W(1, 0), W(2, 0)), 1, G(0)),
                           Plus(Three(W(0, 1), W(1, 1), W(2, 1)), 1, G(1)),
                           Plus(Three(W(0, 2), W(1, 2), W(2, 2)), 1, G(2)))
  BY <1>3, <1>4 DEF Dot
<1>7. ASSUME NEW k \in Index
      PROVE  Dot(t, r)[k] + (-1) * Dot(s, u)[k] = Dot(e, r)[k] + (-1) * Dot(s, g)[k]
  <2>1. \A j, i \in 0..2 : W(j, i)[k] \in Int
    BY <1>1 DEF Polynomials
  <2>2. \A j \in 0..2 : E(j)[k] \in Int /\ G(j)[k] \in Int
    BY <1>2 DEF Polynomials
  <2>3. \A x, y, z : Three(x, y, z)[k] = x[k] + 1 * y[k] + 1 * z[k]
    BY DEF Three, Plus
  <2>4. \A x, y : Plus(x, 1, y)[k] = x[k] + 1 * y[k]
    BY DEF Plus
  <2>5. /\ Dot(t, r)[k] =
             ((W(0, 0)[k] + 1 * W(0, 1)[k] + 1 * W(0, 2)[k]) + 1 * E(0)[k])
             + 1 * ((W(1, 0)[k] + 1 * W(1, 1)[k] + 1 * W(1, 2)[k]) + 1 * E(1)[k])
             + 1 * ((W(2, 0)[k] + 1 * W(2, 1)[k] + 1 * W(2, 2)[k]) + 1 * E(2)[k])
        /\ Dot(s, u)[k] =
             ((W(0, 0)[k] + 1 * W(1, 0)[k] + 1 * W(2, 0)[k]) + 1 * G(0)[k])
             + 1 * ((W(0, 1)[k] + 1 * W(1, 1)[k] + 1 * W(2, 1)[k]) + 1 * G(1)[k])
             + 1 * ((W(0, 2)[k] + 1 * W(1, 2)[k] + 1 * W(2, 2)[k]) + 1 * G(2)[k])
    BY <1>6, <2>3, <2>4
  <2>6. /\ Dot(e, r)[k] = E(0)[k] + 1 * E(1)[k] + 1 * E(2)[k]
        /\ Dot(s, g)[k] = G(0)[k] + 1 * G(1)[k] + 1 * G(2)[k]
    BY <1>5, <2>3
  <2>7. 0 \in 0..2 /\ 1 \in 0..2 /\ 2 \in 0..2
    OBVIOUS
  <2>8. PICK w00, w01, w02, w10, w11, w12, w20, w21, w22 \in Int :
            /\ w00 = W(0, 0)[k] /\ w01 = W(0, 1)[k] /\ w02 = W(0, 2)[k]
            /\ w10 = W(1, 0)[k] /\ w11 = W(1, 1)[k] /\ w12 = W(1, 2)[k]
            /\ w20 = W(2, 0)[k] /\ w21 = W(2, 1)[k] /\ w22 = W(2, 2)[k]
    BY <2>1, <2>7
  <2>9. PICK e0, e1, e2, g0, g1, g2 \in Int :
            /\ e0 = E(0)[k] /\ e1 = E(1)[k] /\ e2 = E(2)[k]
            /\ g0 = G(0)[k] /\ g1 = G(1)[k] /\ g2 = G(2)[k]
    BY <2>2, <2>7
  <2>10. /\ Dot(t, r)[k] = ((w00 + 1 * w01 + 1 * w02) + 1 * e0)
                + 1 * ((w10 + 1 * w11 + 1 * w12) + 1 * e1)
                + 1 * ((w20 + 1 * w21 + 1 * w22) + 1 * e2)
         /\ Dot(s, u)[k] = ((w00 + 1 * w10 + 1 * w20) + 1 * g0)
                + 1 * ((w01 + 1 * w11 + 1 * w21) + 1 * g1)
                + 1 * ((w02 + 1 * w12 + 1 * w22) + 1 * g2)
    BY <2>5, <2>8, <2>9
  <2>11. /\ Dot(e, r)[k] = e0 + 1 * e1 + 1 * e2
         /\ Dot(s, g)[k] = g0 + 1 * g1 + 1 * g2
    BY <2>6, <2>9
  <2> QED
    BY <2>10, <2>11, SharedSum
<1> QED
  BY <1>7 DEF Plus

------------------------------------------------------------------------------
(* Residues and small errors *)

LEMMA DistanceCong ==
    ASSUME NEW x \in Int, NEW y \in Int, NEW c \in Nat, Distance(x, y) <= c
    PROVE  \E d \in Int : -c <= d /\ d <= c /\ Cong(x, y + 1 * d)
<1>1. PICK z \in Int : z = x - y
  OBVIOUS
<1>2. PICK r, k \in Int : r = z % 3329 /\ z = k * 3329 + r /\ 0 <= r /\ r <= 3328
  BY SMT
<1>3. Distance(x, y) = IF r > 1664 THEN 3329 - r ELSE r
  <2>1. Mod(x - y) = r /\ Q \div 2 = 1664 /\ Q = 3329
    BY SMT, <1>1, <1>2 DEF Mod, Q
  <2> QED
    BY <2>1 DEF Distance
<1>4. CASE r > 1664
  <2>1. PICK d, j \in Int : d = r - 3329 /\ j = k + 1
    BY SMT
  <2>2. -c <= d /\ d <= c
    BY SMT, <1>2, <1>3, <1>4, <2>1
  <2>3. y + 1 * d \in Int /\ x = y + 1 * d + j * Q
    BY SMT, <1>1, <1>2, <2>1 DEF Q
  <2>4. Cong(x, y + 1 * d)
    BY <2>1, <2>3, CongIntro
  <2> QED
    BY <2>2, <2>4
<1>5. CASE ~ (r > 1664)
  <2>1. -c <= r /\ r <= c
    BY SMT, <1>2, <1>3, <1>5
  <2>2. y + 1 * r \in Int /\ x = y + 1 * r + k * Q
    BY SMT, <1>1, <1>2 DEF Q
  <2>3. Cong(x, y + 1 * r)
    BY <2>2, CongIntro
  <2> QED
    BY <2>1, <2>3
<1> QED
  BY <1>4, <1>5

\* A polynomial that is near another is the other and a small error.
LEMMA NearSame ==
    ASSUME NEW x \in Polynomials, NEW y \in Polynomials, NEW c \in Nat,
           \A i \in Index : Distance(x[i], y[i]) <= c
    PROVE  \E d : Within(d, -c, c) /\ Same(x, Plus(y, 1, d))
<1> DEFINE P(i, e) == e \in Int /\ -c <= e /\ e <= c /\ Cong(x[i], y[i] + 1 * e)
           d == [i \in Index |-> CHOOSE e : P(i, e)]
<1>1. \A i \in Index : \E e : P(i, e)
  BY DistanceCong DEF Polynomials
<1>2. \A i \in Index : P(i, d[i])
  BY <1>1
<1>3. d = [i \in Index |-> d[i]]
  OBVIOUS
<1> HIDE DEF d
<1>4. Within(d, -c, c) /\ d \in Polynomials
  BY <1>2, <1>3 DEF Within, Polynomials
<1>5. Plus(y, 1, d) \in Polynomials
  BY <1>4, PlusType
<1>6. \A i \in Index : Cong(x[i], Plus(y, 1, d)[i])
  BY <1>2 DEF Plus
<1> QED
  BY <1>4, <1>5, <1>6 DEF Same

LEMMA ReadBackSame ==
    ASSUME NEW a, Within(a, -1664, 1664)
    PROVE  Same(FromBytes(ToBytes(a)), a)
<1>1. a \in Polynomials
  BY DEF Within, Polynomials
<1>2. ASSUME NEW i \in Index
      PROVE  /\ FromBytes(ToBytes(a))[i] \in Int
             /\ Cong(FromBytes(ToBytes(a))[i], a[i])
  <2>1. PICK x \in Int : x = a[i]
    BY <1>1 DEF Polynomials
  <2>2. FromBytes(ToBytes(a))[i] = x % Q
    BY <2>1, WholeReadBack DEF Mod
  <2>3. x % Q \in Int /\ (x % Q) % Q = x % Q
    BY SMT, <2>1 DEF Q
  <2> QED
    BY <2>1, <2>2, <2>3, CongMod
<1>3. FromBytes(ToBytes(a)) \in Polynomials
  BY <1>2 DEF FromBytes, Polynomials
<1> QED
  BY <1>1, <1>2, <1>3 DEF Same

LEMMA WithinPolynomial ==
    ASSUME NEW r, NEW lo, NEW hi, Within(r, lo, hi)
    PROVE  r \in Polynomials
BY DEF Within, Polynomials

LEMMA AddReduceSame ==
    ASSUME NEW a, NEW b, Polys(a, -3328, 3328), Polys(b, -1664, 1664)
    PROVE  \A i \in Vector : Same(PolyVecAddReduce(a, b)[i], Plus(a[i], 1, b[i]))
<1> SUFFICES ASSUME NEW i \in Vector
             PROVE  Same(PolyVecAddReduce(a, b)[i], Plus(a[i], 1, b[i]))
  OBVIOUS
<1>1. PolyVecAddReduce(a, b)[i] = PolyReduce(PolyAdd(a[i], b[i]))
  BY StoredIs DEF PolyVecAddReduce
<1>2. Within(a[i], -3328, 3328) /\ Within(b[i], -1664, 1664)
  BY DEF Polys
<1>3. PICK lo, hi \in Int : lo = -3328 + (-1664) /\ hi = 3328 + 1664
  BY SMT
<1>4. -32768 <= lo /\ hi <= 32767 /\ {-3328, 3328, -1664, 1664} \subseteq Int
  BY SMT, <1>3
<1>5. Within(PolyAdd(a[i], b[i]), lo, hi) /\ PolyAdd(a[i], b[i]) = Plus(a[i], 1, b[i])
  BY <1>2, <1>3, <1>4, PolyAddBound, PolyAddSame
<1>6. Within(PolyAdd(a[i], b[i]), -32768, 32767)
  BY SMT, <1>4, <1>5, Widen
<1> QED
  BY <1>1, <1>5, <1>6, PolyReduceSame

\* poly_tomont takes the factor 1 / R back out of an inner product.
LEMMA DotInMontgomery ==
    ASSUME NEW a, NEW b, Shorts(a), Polys(b, -1664, 1664)
    PROVE  Same(PolyToMont(BaseMulAcc(a, b)), Dot(a, b))
<1>1. Within(BaseMulAcc(a, b), -1664, 1664)
  BY BaseMulAccBound
<1>2. Within(BaseMulAcc(a, b), -3328, 3328)
  BY SMT, <1>1, Widen
<1>3. Same(PolyToMont(BaseMulAcc(a, b)), Scaled(R, BaseMulAcc(a, b)))
  BY <1>2, PolyToMontSame
<1>4. Dot(a, b) \in Polynomials
  BY BaseMulAccSame, DotType
<1>5. Same(Scaled(R, BaseMulAcc(a, b)), Scaled(R, Scaled(169, Dot(a, b))))
  BY OneOverR, CongRefl, BaseMulAccSame, ScaledSame
<1> QED
  BY <1>3, <1>4, <1>5, RScaled, SameTrans

------------------------------------------------------------------------------
(* The transforms of what a key pair and an encryption are made of *)

SecretHat(c) == [i \in Vector |-> PolyNtt(GetNoise(Mix(c + 1), i))]
ErrorHat(c) == [i \in Vector |-> PolyNtt(GetNoise(Mix(c + 1), K + i))]
CoinsHat(e) == [i \in Vector |-> PolyNtt(GetNoise(e, i))]

LEMMA VectorIs == Vector = 0..2 /\ K = 3 /\ \A i \in Vector : i \in Int /\ K + i \in Int
BY DEF Vector, K

\* The noise, and its transform.
LEMMA NoiseFacts ==
    ASSUME NEW seed \in Int, NEW nonce \in Int
    PROVE  /\ Within(GetNoise(seed, nonce), -2, 2)
           /\ Within(PolyNtt(GetNoise(seed, nonce)), -1664, 1664)
           /\ Transforms(GetNoise(seed, nonce), PolyNtt(GetNoise(seed, nonce)))
<1>1. Within(GetNoise(seed, nonce), -2, 2)
  BY GetNoiseBound
<1>2. Within(GetNoise(seed, nonce), -3328, 3328)
  BY SMT, <1>1, Widen
<1> QED
  BY <1>1, <1>2, NoiseTransformed, PolyNttTransforms

LEMMA HatFacts ==
    ASSUME NEW c \in Int
    PROVE  /\ Polys(SecretHat(c), -1664, 1664) /\ Polys(ErrorHat(c), -1664, 1664)
           /\ Polys(CoinsHat(c), -1664, 1664)
           /\ VectorOf(SecretHat(c)) /\ VectorOf(ErrorHat(c)) /\ VectorOf(CoinsHat(c))
<1>1. Mix(c + 1) \in Int
  <2>1. c + 1 \in Int
    OBVIOUS
  <2> QED
    BY <2>1, MixIs
<1>2. \A i \in Vector : i \in Int /\ K + i \in Int
  BY VectorIs
<1>3. /\ Polys(SecretHat(c), -1664, 1664) /\ Polys(ErrorHat(c), -1664, 1664)
      /\ Polys(CoinsHat(c), -1664, 1664)
  BY <1>1, <1>2, NoiseFacts DEF Polys, SecretHat, ErrorHat, CoinsHat
<1> QED
  BY <1>3, VectorIs DEF Polys, Within, VectorOf, Polynomials

\* What is read from a key pair: s, and A s + e, transformed.
LEMMA KeyRead ==
    ASSUME NEW c \in Int
    PROVE  LET p == IndcpaKeypair(c)
               t == Each(FromBytes, p.pk.t)
               s == Each(FromBytes, p.sk)
               a == GenMatrix(Mix(c), FALSE)
           IN  /\ p.pk.seed = Mix(c)
               /\ \A j \in Vector : Same(s[j], SecretHat(c)[j])
               /\ \A j \in Vector :
                      Same(t[j], Plus(Dot(a[j], SecretHat(c)), 1, ErrorHat(c)[j]))
               /\ Shorts(s) /\ Shorts(t)
<1> DEFINE p == IndcpaKeypair(c)
           a == GenMatrix(Mix(c), FALSE)
           S == SecretHat(c)
           E == ErrorHat(c)
           b == [j \in Vector |-> Stored(PolyToMont(BaseMulAcc(a[j], S)))]
           w == PolyVecAddReduce(b, E)
<1>1. /\ p.pk.seed = Mix(c) /\ p.sk = Each(ToBytes, S) /\ p.pk.t = Each(ToBytes, w)
  BY DEF IndcpaKeypair, SecretHat, ErrorHat
<1>2. Polys(S, -1664, 1664) /\ Polys(E, -1664, 1664) /\ VectorOf(S) /\ VectorOf(E)
  BY HatFacts
<1> HIDE DEF S, E
<1>3. \A j \in Vector : Shorts(a[j])
  BY MixIs, MatrixFits
<1> HIDE DEF a
<1>4. \A j \in Vector : /\ b[j] = PolyToMont(BaseMulAcc(a[j], S))
                        /\ Within(b[j], -3328, 3328) /\ Same(b[j], Dot(a[j], S))
  BY <1>2, <1>3, StoredIs, BaseMulAccBound, PolyToMontBound, DotInMontgomery
<1> HIDE DEF b
<1>5. Polys(b, -3328, 3328)
  BY <1>4 DEF Polys
<1>6. Polys(w, -1664, 1664) /\ \A j \in Vector : Same(w[j], Plus(b[j], 1, E[j]))
  BY <1>2, <1>5, PolyVecAddReduceBound, AddReduceSame
<1> HIDE DEF w
<1>7. \A v : \A j \in Vector : /\ Each(ToBytes, v)[j] = ToBytes(v[j])
                               /\ Each(FromBytes, v)[j] = FromBytes(v[j])
  BY StoredIs DEF Each
<1>8. ASSUME NEW j \in Vector
      PROVE  Same(Each(FromBytes, p.sk)[j], S[j])
  <2>1. Each(FromBytes, p.sk)[j] = FromBytes(ToBytes(S[j]))
    BY <1>1, <1>7
  <2>2. Within(S[j], -1664, 1664)
    BY <1>2 DEF Polys
  <2> QED
    BY <2>1, <2>2, ReadBackSame
<1>9. ASSUME NEW j \in Vector
      PROVE  Same(Each(FromBytes, p.pk.t)[j], Plus(Dot(a[j], S), 1, E[j]))
  <2>1. Same(Each(FromBytes, p.pk.t)[j], w[j])
    <3>1. Each(FromBytes, p.pk.t)[j] = FromBytes(ToBytes(w[j]))
      BY <1>1, <1>7
    <3>2. Within(w[j], -1664, 1664)
      BY <1>6 DEF Polys
    <3> QED
      BY <3>1, <3>2, ReadBackSame
  <2>2. Same(E[j], E[j])
    BY <1>2, VectorIs, SameRefl DEF VectorOf
  <2>3. Same(Plus(b[j], 1, E[j]), Plus(Dot(a[j], S), 1, E[j]))
    BY <1>4, <2>2, PlusSame
  <2> QED
    BY <1>6, <2>1, <2>3, SameTrans
<1>10. Shorts(Each(FromBytes, p.sk)) /\ Shorts(Each(FromBytes, p.pk.t))
  BY IndcpaKeypairTyped, FromBytesOfKey DEF PublicKeyTyped, SecretKeyTyped
<1> QED
  BY <1>1, <1>8, <1>9, <1>10 DEF S, E, a

LEMMA PackShapes ==
    /\ \A t : Pack10(t) = [x \in 0..UBytes - 1 |-> Pack10(t)[x]]
    /\ \A t : Pack4(t) = [x \in 0..(N \div 2) - 1 |-> Pack4(t)[x]]
<1>1. \A t : Pack10(t) = [x \in DOMAIN Pack10(t) |-> Pack10(t)[x]]
  <2>1. \A t : Pack10(t) = [k \in 0..((5 * N) \div 4) - 1 |-> TenByte(t, k)]
    BY DEF Pack10, TenByte, TenByteOf
  <2> QED
    BY <2>1
<1>2. \A t : Pack4(t) = [x \in DOMAIN Pack4(t) |-> Pack4(t)[x]]
  BY DEF Pack4
<1>3. \A t : DOMAIN Pack10(t) = 0..UBytes - 1 /\ DOMAIN Pack4(t) = 0..(N \div 2) - 1
  BY DEF Pack10, Pack4, UBytes
<1> QED
  BY <1>1, <1>2, <1>3

LEMMA BlockDiv ==
    /\ \A i \in Vector : \A x \in 0..UBytes - 1 :
           /\ i * UBytes + x < K * UBytes
           /\ (i * UBytes + x) \div UBytes = i /\ (i * UBytes + x) % UBytes = x
           /\ i * UBytes + x \in 0..CtBytes - 1
    /\ \A x \in 0..(N \div 2) - 1 :
           /\ ~ (K * UBytes + x < K * UBytes) /\ (K * UBytes + x) - K * UBytes = x
           /\ K * UBytes + x \in 0..CtBytes - 1
<1>1. PICK u, w \in Int : u = UBytes /\ w = N \div 2 /\ 0 < u /\ 0 < w
  BY CiphertextSizes
<1>2. Vector = {0, 1, 2} /\ K = 3
  BY DEF Vector, K
<1>3. \A i \in {0, 1, 2} : \A x \in 0..u - 1 :
          i * u + x < 3 * u /\ i * u + x \in Int /\ i \in Int
          /\ i * u + x = u * i + x /\ x \in Int /\ 0 <= x /\ x < u
  BY SMT, <1>1
<1>4. \A i \in {0, 1, 2} : \A x \in 0..u - 1 :
          (i * u + x) \div u = i /\ (i * u + x) % u = x
  <2> SUFFICES ASSUME NEW i \in {0, 1, 2}, NEW x \in 0..u - 1
               PROVE  (i * u + x) \div u = i /\ (i * u + x) % u = x
    OBVIOUS
  <2>1. PICK y \in Int : y = i * u + x
    BY <1>3
  <2> QED
    BY <1>1, <1>3, <2>1, DivUnique
<1>5. \A x \in 0..w - 1 : ~ (3 * u + x < 3 * u) /\ (3 * u + x) - 3 * u = x
  BY SMT, <1>1
<1> QED
  BY <1>1, <1>2, <1>3, <1>4, <1>5, CiphertextSizes

LEMMA ReadsTen ==
    ASSUME NEW c, NEW i \in Vector, NEW t,
           \A x \in 0..UBytes - 1 : c[i * UBytes + x] = Pack10(t)[x]
    PROVE  UnpackB(c)[i] = Read10(Pack10(t))
<1> DEFINE d == [x \in 0..UBytes - 1 |-> c[i * UBytes + x]]
           f == [x \in 0..UBytes - 1 |-> Pack10(t)[x]]
<1>1. Pack10(t) = f
  BY Zenon, PackShapes
<1>2. d = f
  OBVIOUS
<1>3. UnpackB(c)[i] = Stored([j \in Index |-> Decompress10(Unpack10(d)[j])])
  BY DEF UnpackB
<1> HIDE DEF d, f
<1> QED
  BY <1>1, <1>2, <1>3, StoredIs DEF Read10

LEMMA ReadsFour ==
    ASSUME NEW c, NEW t,
           \A x \in 0..(N \div 2) - 1 : c[K * UBytes + x] = Pack4(t)[x]
    PROVE  UnpackV(c) = Read4(Pack4(t))
<1> DEFINE d == [x \in 0..(N \div 2) - 1 |-> c[K * UBytes + x]]
           f == [x \in 0..(N \div 2) - 1 |-> Pack4(t)[x]]
<1>1. Pack4(t) = f
  BY Zenon, PackShapes
<1>2. d = f
  OBVIOUS
<1>3. UnpackV(c) = Stored([j \in Index |-> Decompress4(Unpack4(d)[j])])
  BY DEF UnpackV
<1> HIDE DEF d, f
<1> QED
  BY <1>1, <1>2, <1>3, StoredIs DEF Read4

\* What the receiver reads of a ciphertext: what was packed, rounded.
LEMMA CiphertextRead ==
    ASSUME NEW b, NEW v, Polys(b, -1664, 1664), Within(v, -1664, 1664)
    PROVE  LET c == PackCiphertext(b, v)
           IN  /\ \A i \in Vector : UnpackB(c)[i] = Read10(Pack10(Ten(b[i])))
               /\ UnpackV(c) = Read4(Pack4(Four(v)))
<1> DEFINE u == [i \in Vector |->
                    Pack10(Stored([j \in Index |-> Compress10(b[i][j])]))]
           w == Pack4(Stored([j \in Index |-> Compress4(v[j])]))
           ct == PackCiphertext(b, v)
<1>1. \A x \in 0..CtBytes - 1 :
          ct[x] = IF x < K * UBytes THEN u[x \div UBytes][x % UBytes]
                  ELSE w[x - K * UBytes]
  <2> DEFINE g == [x \in 0..CtBytes - 1 |->
                      IF x < K * UBytes THEN u[x \div UBytes][x % UBytes]
                      ELSE w[x - K * UBytes]]
  <2>1. ct = Stored(g)
    BY DEF PackCiphertext
  <2> HIDE DEF u, w, ct, g
  <2>2. ct = g
    BY <2>1, StoredIs
  <2> QED
    BY <2>2 DEF g
<1>2. (\A i \in Vector : u[i] = Pack10(Ten(b[i]))) /\ w = Pack4(Four(v))
  BY StoredIs DEF Ten, Four
<1> HIDE DEF u, w, ct
<1>3. ASSUME NEW i \in Vector
      PROVE  UnpackB(ct)[i] = Read10(Pack10(Ten(b[i])))
  <2>1. \A x \in 0..UBytes - 1 : ct[i * UBytes + x] = Pack10(Ten(b[i]))[x]
    BY <1>1, <1>2, BlockDiv
  <2> QED
    BY <2>1, ReadsTen
<1>4. UnpackV(ct) = Read4(Pack4(Four(v)))
  <2>1. \A x \in 0..(N \div 2) - 1 : ct[K * UBytes + x] = Pack4(Four(v))[x]
    BY <1>1, <1>2, BlockDiv
  <2> QED
    BY <2>1, ReadsFour
<1> QED
  BY <1>3, <1>4 DEF ct

LEMMA SumWithin ==
    ASSUME NEW x, NEW y, NEW a \in Int, NEW b \in Int, Within(x, -a, a), Within(y, -b, b),
           NEW c \in {1, -1}
    PROVE  Within(Plus(x, c, y), -(a + b), a + b)
<1>1. ASSUME NEW i \in Index
      PROVE  /\ Plus(x, c, y)[i] \in Int
             /\ -(a + b) <= Plus(x, c, y)[i] /\ Plus(x, c, y)[i] <= a + b
  <2>1. PICK u, w \in Int : /\ u = x[i] /\ w = y[i] /\ -a <= u /\ u <= a
                            /\ -b <= w /\ w <= b
    BY DEF Within
  <2>2. Plus(x, c, y)[i] = u + c * w
    BY <2>1 DEF Plus
  <2> QED
    BY SMT, <2>1, <2>2
<1>2. Plus(x, c, y) = [i \in Index |-> Plus(x, c, y)[i]]
  BY DEF Plus
<1> QED
  BY <1>1, <1>2 DEF Within

LEMMA PlusAssoc ==
    ASSUME NEW x \in Polynomials, NEW y \in Polynomials, NEW z \in Polynomials
    PROVE  /\ Plus(Plus(x, 1, y), 1, z) = Plus(x, 1, Plus(y, 1, z))
           /\ Plus(y, 1, Plus(x, -1, y)) = x
           /\ Plus(Plus(x, 1, y), -1, x) = y
<1>1. \A i \in Index : /\ x[i] + 1 * y[i] + 1 * z[i] = x[i] + 1 * (y[i] + 1 * z[i])
                       /\ y[i] + 1 * (x[i] + (-1) * y[i]) = x[i]
                       /\ x[i] + 1 * y[i] + (-1) * x[i] = y[i]
  BY SMT DEF Polynomials
<1> QED
  BY <1>1 DEF Plus, Polynomials

\* PackCiphertext's rounding, as errors.
LEMMA RoundingErrors ==
    ASSUME NEW b, NEW v, Polys(b, -1664, 1664), Within(v, -1664, 1664)
    PROVE  LET c == PackCiphertext(b, v)
           IN  /\ \A i \in Vector : \E d : Within(d, -2, 2)
                                          /\ Same(UnpackB(c)[i], Plus(b[i], 1, d))
               /\ \E d : Within(d, -104, 104) /\ Same(UnpackV(c), Plus(v, 1, d))
<1> DEFINE c == PackCiphertext(b, v)
<1>1. /\ \A i \in Vector : UnpackB(c)[i] = Read10(Pack10(Ten(b[i])))
      /\ UnpackV(c) = Read4(Pack4(Four(v)))
  BY CiphertextRead
<1>2. Bytes(c, CtBytes)
  BY PackCiphertextTyped
<1>3. Polys(UnpackB(c), -3328, 3328) /\ Within(UnpackV(c), 0, 3328)
  BY <1>2, UnpackBTyped, UnpackVTyped
<1>4. 2 \in Nat /\ 104 \in Nat
  BY SMT
<1> HIDE DEF c
<1>5. ASSUME NEW i \in Vector
      PROVE  \E d : Within(d, -2, 2) /\ Same(UnpackB(c)[i], Plus(b[i], 1, d))
  <2>1. Within(b[i], -1664, 1664) /\ b[i] \in Polynomials /\ UnpackB(c)[i] \in Polynomials
    BY <1>3, WithinPolynomial DEF Polys
  <2>2. \A j \in Index : Distance(UnpackB(c)[i][j], b[i][j]) <= 2
    BY <1>1, <2>1, CompressedReadBack
  <2> QED
    BY <1>4, <2>1, <2>2, NearSame
<1>6. \E d : Within(d, -104, 104) /\ Same(UnpackV(c), Plus(v, 1, d))
  <2>1. v \in Polynomials /\ UnpackV(c) \in Polynomials
    BY <1>3, WithinPolynomial
  <2>2. \A j \in Index : Distance(UnpackV(c)[j], v[j]) <= 104
    BY <1>1, CompressedReadBack
  <2> QED
    BY <1>4, <2>1, <2>2, NearSame
<1> QED
  BY <1>5, <1>6 DEF c

------------------------------------------------------------------------------
(* indcpa_enc and indcpa_dec: the error *)

\* indcpa_enc: u is A^T r and a small error, v is t . r, the message and
\* a small error.
LEMMA EncryptionErrors ==
    ASSUME NEW c \in Int, NEW e \in Int, NEW m
    PROVE  LET pk == IndcpaKeypair(c).pk
               at == GenMatrix(Mix(c), TRUE)
               t == Each(FromBytes, pk.t)
               ct == IndcpaEnc(m, pk, e)
           IN  \E x, w :
                   /\ \A i \in Vector : Transforms(x[i], Dot(at[i], CoinsHat(e)))
                   /\ Transforms(w, Dot(t, CoinsHat(e)))
                   /\ \A i \in Vector : \E g : /\ Within(g, -4, 4)
                                               /\ Same(UnpackB(ct)[i], Plus(x[i], 1, g))
                   /\ \E d : /\ Within(d, -106, 106)
                             /\ Same(UnpackV(ct), Plus(FromMsg(m), 1, Plus(w, 1, d)))
<1> DEFINE pk == IndcpaKeypair(c).pk
           pkpv == Each(FromBytes, pk.t)
           at == GenMatrix(Mix(c), TRUE)
           sp == CoinsHat(e)
           ep == [i \in Vector |-> GetNoise(e, K + i)]
           epp == GetNoise(e, 2 * K)
           b == [i \in Vector |-> PolyInvNtt(BaseMulAcc(at[i], sp))]
           v == PolyInvNtt(BaseMulAcc(pkpv, sp))
           sum == PolyAdd(PolyAdd(v, epp), FromMsg(m))
           ub == PolyVecAddReduce(b, ep)
           ct == IndcpaEnc(m, pk, e)
<1>1. ct = PackCiphertext(ub, PolyReduce(sum))
  <2>1. pk.seed = Mix(c)
    BY KeyRead
  <2> QED
    BY <2>1, StoredIs DEF IndcpaEnc, CoinsHat
<1>2. /\ 2 * K \in Int /\ Mix(c) \in Int
      /\ \A i \in Vector : i \in Int /\ K + i \in Int
  BY MixIs, VectorIs
<1>3. Polys(sp, -1664, 1664)
  BY HatFacts
<1>4. /\ \A i \in Vector : Within(ep[i], -2, 2) /\ Within(ep[i], -1664, 1664)
      /\ Polys(ep, -1664, 1664)
  <2>1. \A i \in Vector : Within(GetNoise(e, K + i), -2, 2)
    BY <1>2, GetNoiseBound
  <2>2. \A i \in Vector : Within(GetNoise(e, K + i), -1664, 1664)
    BY SMT, <2>1, Widen
  <2> QED
    BY <2>1, <2>2 DEF Polys
<1>5. Within(epp, -2, 2)
  BY <1>2, GetNoiseBound
<1>6. \A i \in Vector : Shorts(at[i])
  BY Zenon, <1>2, MatrixFits
<1>7. Shorts(pkpv)
  BY KeyRead
<1> HIDE DEF pkpv, at, sp, ep, epp, pk
<1>8. /\ Polys(b, -3328, 3328) /\ Within(v, -3328, 3328)
      /\ \A i \in Vector : Transforms(b[i], Dot(at[i], sp))
      /\ Transforms(v, Dot(pkpv, sp))
  BY <1>3, <1>6, <1>7, BaseMulAccBound, PolyInvNttBound, DotBack DEF Polys
<1> HIDE DEF b, v
<1>9. /\ Within(PolyReduce(sum), -1664, 1664)
      /\ Same(PolyReduce(sum), Plus(Plus(v, 1, epp), 1, FromMsg(m)))
  <2>1. PICK l1, h1, l2, h2 \in Int : /\ l1 = -3328 + (-2) /\ h1 = 3328 + 2
                                      /\ l2 = l1 + 0 /\ h2 = h1 + 1665
    BY SMT
  <2>2. /\ -32768 <= l1 /\ h1 <= 32767 /\ -32768 <= l2 /\ h2 <= 32767
        /\ {-3328, 3328, -2, 2, 0, 1665} \subseteq Int
    BY SMT, <2>1
  <2>3. Within(PolyAdd(v, epp), l1, h1) /\ PolyAdd(v, epp) = Plus(v, 1, epp)
    <3>1. Within(PolyAdd(v, epp), l1, h1)
      <4>1. Within(v, -3328, 3328) /\ Within(epp, -2, 2)
        BY <1>5, <1>8
      <4>2. -3328 \in Int /\ 3328 \in Int /\ -2 \in Int /\ 2 \in Int
        BY <2>2
      <4> QED
        BY <2>1, <2>2, <4>1, <4>2, PolyAddBound
    <3>2. PolyAdd(v, epp) = Plus(v, 1, epp)
      BY <1>5, <1>8, <2>1, <2>2, PolyAddSame
    <3> QED
      BY <3>1, <3>2
  <2>4. Within(sum, l2, h2) /\ sum = Plus(PolyAdd(v, epp), 1, FromMsg(m))
    <3>1. Within(sum, l2, h2)
      BY <2>1, <2>2, <2>3, FromMsgBound, PolyAddBound
    <3>2. sum = Plus(PolyAdd(v, epp), 1, FromMsg(m))
      BY <2>1, <2>2, <2>3, FromMsgBound, PolyAddSame
    <3> QED
      BY <3>1, <3>2
  <2>5. Within(sum, -32768, 32767)
    BY SMT, <2>2, <2>4, Widen
  <2> QED
    BY <2>2, <2>3, <2>4, <2>5, PolyReduceBound, PolyReduceSame
<1>10. /\ Polys(ub, -1664, 1664)
       /\ \A i \in Vector : Same(ub[i], Plus(b[i], 1, ep[i]))
  BY <1>4, <1>8, PolyVecAddReduceBound, AddReduceSame
<1> HIDE DEF ub, sum, ct
<1>11. ASSUME NEW i \in Vector
       PROVE  \E g : Within(g, -4, 4) /\ Same(UnpackB(ct)[i], Plus(b[i], 1, g))
  <2>1. PICK d : Within(d, -2, 2) /\ Same(UnpackB(ct)[i], Plus(ub[i], 1, d))
    BY <1>1, <1>9, <1>10, RoundingErrors
  <2>2. b[i] \in Polynomials /\ ep[i] \in Polynomials /\ d \in Polynomials
    BY <1>4, <1>8, <2>1, WithinPolynomial DEF Polys
  <2>3. Within(Plus(ep[i], 1, d), -4, 4)
    <3>1. 2 + 2 = 4 /\ 2 \in Int /\ 1 \in {1, -1}
      BY SMT
    <3> QED
      BY <1>4, <2>1, <3>1, SumWithin
  <2>4. Same(Plus(ub[i], 1, d), Plus(Plus(b[i], 1, ep[i]), 1, d))
    BY <1>10, <2>2, SameRefl, PlusSame
  <2>5. Same(UnpackB(ct)[i], Plus(b[i], 1, Plus(ep[i], 1, d)))
    BY <2>1, <2>2, <2>4, PlusAssoc, SameTrans
  <2> QED
    BY <2>3, <2>5
<1>12. \E d : /\ Within(d, -106, 106)
              /\ Same(UnpackV(ct), Plus(FromMsg(m), 1, Plus(v, 1, d)))
  <2>1. PICK d : Within(d, -104, 104) /\ Same(UnpackV(ct), Plus(PolyReduce(sum), 1, d))
    BY <1>1, <1>9, <1>10, RoundingErrors
  <2>2. /\ v \in Polynomials /\ epp \in Polynomials /\ d \in Polynomials
        /\ FromMsg(m) \in Polynomials
    BY <1>5, <1>8, <2>1, FromMsgBound, WithinPolynomial
  <2>3. Within(Plus(epp, 1, d), -106, 106)
    <3>1. 2 + 104 = 106 /\ 2 \in Int /\ 104 \in Int /\ 1 \in {1, -1}
      BY SMT
    <3> QED
      BY <1>5, <2>1, <3>1, SumWithin
  <2>4. Same(Plus(PolyReduce(sum), 1, d), Plus(Plus(Plus(v, 1, epp), 1, FromMsg(m)), 1, d))
    BY <1>9, <2>2, SameRefl, PlusSame
  <2>5. Plus(Plus(Plus(v, 1, epp), 1, FromMsg(m)), 1, d)
            = Plus(FromMsg(m), 1, Plus(v, 1, Plus(epp, 1, d)))
    <3>1. \A i \in Index : v[i] + 1 * epp[i] + 1 * FromMsg(m)[i] + 1 * d[i]
                = FromMsg(m)[i] + 1 * (v[i] + 1 * (epp[i] + 1 * d[i]))
      BY <2>2 DEF Polynomials
    <3> QED
      BY <3>1 DEF Plus
  <2>6. Same(UnpackV(ct), Plus(FromMsg(m), 1, Plus(v, 1, Plus(epp, 1, d))))
    BY <2>1, <2>4, <2>5, SameTrans
  <2> QED
    BY <2>3, <2>6
<1> DEFINE Parts(x, w) ==
               /\ \A i \in Vector : Transforms(x[i], Dot(at[i], sp))
               /\ Transforms(w, Dot(pkpv, sp))
               /\ \A i \in Vector : \E g : /\ Within(g, -4, 4)
                                           /\ Same(UnpackB(ct)[i], Plus(x[i], 1, g))
               /\ \E d : /\ Within(d, -106, 106)
                         /\ Same(UnpackV(ct), Plus(FromMsg(m), 1, Plus(w, 1, d)))
<1>13. Parts(b, v)
  BY <1>8, <1>11, <1>12
<1> HIDE DEF Parts
<1>14. \E x, w : Parts(x, w)
  BY <1>13
<1> QED
  BY <1>14 DEF Parts, ct, pk, pkpv, at, sp

\* indcpa_dec: v - s . u, with u transformed.
LEMMA DecryptionParts ==
    ASSUME NEW ct, NEW sk, Bytes(ct, CtBytes), SecretKeyTyped(sk)
    PROVE  LET u == UnpackB(ct)
               U == Each(PolyNtt, u)
           IN  /\ \A i \in Vector : Transforms(u[i], U[i])
               /\ \E y : /\ Transforms(y, Dot(Each(FromBytes, sk), U))
                         /\ Same(Decrypt(ct, sk), Plus(UnpackV(ct), -1, y))
<1> DEFINE u == UnpackB(ct)
           U == Each(PolyNtt, u)
           sv == Each(FromBytes, sk)
           y == PolyInvNtt(BaseMulAcc(sv, U))
           d == PolySub(UnpackV(ct), y)
<1>1. Decrypt(ct, sk) = PolyReduce(d)
  BY StoredIs DEF Decrypt
<1>2. Polys(u, -3328, 3328) /\ Within(UnpackV(ct), 0, 3328) /\ Shorts(sv)
  BY UnpackBTyped, UnpackVTyped, FromBytesOfKey
<1>3. \A i \in Vector : U[i] = PolyNtt(u[i])
  BY StoredIs DEF Each
<1> HIDE DEF u, U, sv
<1>4. /\ Polys(U, -1664, 1664)
      /\ \A i \in Vector : Transforms(u[i], U[i])
  BY <1>2, <1>3, PolyNttBound, PolyNttTransforms DEF Polys
<1>5. Within(y, -3328, 3328) /\ Transforms(y, Dot(sv, U))
  BY <1>2, <1>4, BaseMulAccBound, PolyInvNttBound, DotBack
<1> HIDE DEF y
<1>6. d = Plus(UnpackV(ct), -1, y)
  <2>1. /\ {0, 3328, -3328} \subseteq Int
        /\ -32768 <= 0 - 3328 /\ 3328 - (-3328) <= 32767
    BY SMT
  <2> QED
    BY <1>2, <1>5, <2>1, PolySubSame
<1>7. Within(d, -32768, 32767)
  <2>1. \A z \in Int : /\ Int16(z) \in Int /\ -32768 <= Int16(z) /\ Int16(z) <= 32767
    BY Int16Facts
  <2>2. \A i \in Index : UnpackV(ct)[i] - y[i] \in Int
    BY <1>2, <1>5 DEF Within
  <2>3. d = [i \in Index |-> Int16(UnpackV(ct)[i] - y[i])]
    BY DEF PolySub
  <2> HIDE DEF d
  <2> QED
    BY <2>1, <2>2, <2>3 DEF Within
<1>8. Same(Decrypt(ct, sk), Plus(UnpackV(ct), -1, y))
  BY <1>1, <1>6, <1>7, PolyReduceSame
<1> QED
  BY <1>4, <1>5, <1>8 DEF u, U, sv

(***************************************************************************)
(* h is the product of x and y in Z_q[X] / (X^N + 1).                      *)
(***************************************************************************)
Product(x, y, h) ==
    \E X, Y : Transforms(x, X) /\ Transforms(y, Y) /\ Transforms(h, Prod(X, Y))

\* Three products, and their sum's transform.
LEMMA ProductsWithin ==
    ASSUME NEW x, NEW y, NEW X, NEW Y, NEW b \in Nat,
           \A i \in Vector : /\ Transforms(x[i], X[i]) /\ Transforms(y[i], Y[i])
                             /\ Within(x[i], -2, 2) /\ Within(y[i], -b, b)
    PROVE  \E h : /\ \A i \in Vector : /\ Product(x[i], y[i], h[i])
                                       /\ Within(h[i], -(N * (2 * b)), N * (2 * b))
                  /\ Transforms(Three(h[0], h[1], h[2]), Dot(X, Y))
<1> DEFINE P(i, f) == /\ Transforms(f, Prod(X[i], Y[i]))
                      /\ Within(f, -(N * (2 * b)), N * (2 * b))
           h == [i \in Vector |-> CHOOSE f : P(i, f)]
<1>1. \A i \in Vector : \E f : P(i, f)
  <2>1. 2 \in Nat
    OBVIOUS
  <2> QED
    BY <2>1, ProductWithin
<1>2. \A i \in Vector : P(i, h[i])
  BY <1>1
<1> HIDE DEF h
<1>3. \A i \in Vector : Product(x[i], y[i], h[i])
  BY <1>2 DEF Product
<1>4. Transforms(Three(h[0], h[1], h[2]), Dot(X, Y))
  <2>1. 0 \in Vector /\ 1 \in Vector /\ 2 \in Vector /\ 1 \in Int
    BY VectorIs
  <2>2. /\ Transforms(h[0], Prod(X[0], Y[0])) /\ Transforms(h[1], Prod(X[1], Y[1]))
        /\ Transforms(h[2], Prod(X[2], Y[2]))
    BY <1>2, <2>1
  <2> QED
    BY <2>1, <2>2, TransformsPlus DEF Three, Dot
<1> QED
  BY <1>2, <1>3, <1>4

LEMMA MatrixTransposed ==
    ASSUME NEW c \in Int
    PROVE  LET a == GenMatrix(Mix(c), FALSE)
               at == GenMatrix(Mix(c), TRUE)
           IN  /\ \A i \in 0..2 : VectorOf(a[i]) /\ VectorOf(at[i])
               /\ \A i, j \in 0..2 : at[i][j] = a[j][i]
<1>1. \A i \in 0..2 : /\ Shorts(GenMatrix(Mix(c), FALSE)[i])
                      /\ Shorts(GenMatrix(Mix(c), TRUE)[i])
  BY MixIs, MatrixFits, VectorIs
<1>2. \A v : Shorts(v) => VectorOf(v)
  BY VectorIs DEF Shorts, Polys, VectorOf, Within, Polynomials
<1>3. \A i, j \in 0..2 : GenMatrix(Mix(c), TRUE)[i][j] = GenMatrix(Mix(c), FALSE)[j][i]
  BY VectorIs DEF GenMatrix
<1> QED
  BY <1>1, <1>2, <1>3

\* The noise of a key pair and of an encryption.
SecretOfKey(c, i) == GetNoise(Mix(c + 1), i)
ErrorOfKey(c, i) == GetNoise(Mix(c + 1), K + i)

(***************************************************************************)
(* What is left of the message: the products of the key's error with the   *)
(* encryption's noise, less those of the secret with what encryption added *)
(* to u, and what it added to v.                                           *)
(***************************************************************************)
ErrorParts(c, e, g, d, h, k) ==
    /\ Within(d, -106, 106)
    /\ \A i \in Vector :
           /\ Within(g[i], -4, 4)
           /\ Product(ErrorOfKey(c, i), GetNoise(e, i), h[i])
           /\ Product(SecretOfKey(c, i), g[i], k[i])
           /\ Within(h[i], -(N * (2 * 2)), N * (2 * 2))
           /\ Within(k[i], -(N * (2 * 4)), N * (2 * 4))

ErrorSum(d, h, k) ==
    Plus(d, 1, Plus(Three(h[0], h[1], h[2]), -1, Three(k[0], k[1], k[2])))

\* x and w are A^T r and t . r, u is x with the error g, y is s . u.
Masks(c, e, x, w, u, U, y, g) ==
    /\ \A i \in Vector :
           /\ Transforms(x[i], Dot(GenMatrix(Mix(c), TRUE)[i], CoinsHat(e)))
           /\ Within(g[i], -4, 4) /\ Same(u[i], Plus(x[i], 1, g[i]))
           /\ Transforms(u[i], U[i])
    /\ Transforms(w, Dot(Each(FromBytes, IndcpaKeypair(c).pk.t), CoinsHat(e)))
    /\ Transforms(y, Dot(Each(FromBytes, IndcpaKeypair(c).sk), U))

\* So w - y has no matrix in it.
LEMMA MatrixCancels ==
    ASSUME NEW c \in Int, NEW e \in Int, NEW x, NEW w, NEW u, NEW U, NEW y, NEW g,
           Masks(c, e, x, w, u, U, y, g)
    PROVE  \E G : /\ \A i \in Vector : Transforms(g[i], G[i])
                  /\ Transforms(Plus(w, -1, y), Plus(Dot(ErrorHat(c), CoinsHat(e)), -1,
                                                     Dot(SecretHat(c), G)))
<1> DEFINE A == GenMatrix(Mix(c), FALSE)
           at == GenMatrix(Mix(c), TRUE)
           t == Each(FromBytes, IndcpaKeypair(c).pk.t)
           s == Each(FromBytes, IndcpaKeypair(c).sk)
           S == SecretHat(c)
           E == ErrorHat(c)
           r == CoinsHat(e)
           X == [i \in Vector |-> Dot(at[i], r)]
           G == [i \in Vector |-> Plus(U[i], -1, X[i])]
           T == [j \in Vector |-> Plus(Dot(A[j], S), 1, E[j])]
<1>1. /\ VectorOf(S) /\ VectorOf(E) /\ VectorOf(r) /\ Vector = 0..2
      /\ 1 \in Int /\ -1 \in Int
  BY HatFacts, VectorIs
<1>2. /\ \A i \in 0..2 : VectorOf(A[i]) /\ VectorOf(at[i])
      /\ \A i, j \in 0..2 : at[i][j] = A[j][i]
  BY MatrixTransposed
<1>3. /\ \A j \in Vector : Same(s[j], S[j])
      /\ \A j \in Vector : Same(t[j], Plus(Dot(A[j], S), 1, E[j]))
  BY KeyRead
<1>4. /\ \A i \in Vector : /\ Transforms(x[i], X[i]) /\ X[i] = Dot(at[i], r)
                           /\ X[i] \in Polynomials /\ G[i] = Plus(U[i], -1, X[i])
                           /\ T[i] = Plus(Dot(A[i], S), 1, E[i])
  BY TransformsType DEF Masks
<1>5. /\ Transforms(w, Dot(t, r)) /\ Transforms(y, Dot(s, U))
      /\ \A i \in Vector : /\ Transforms(x[i], Dot(at[i], r))
                           /\ Within(g[i], -4, 4) /\ Same(u[i], Plus(x[i], 1, g[i]))
                           /\ Transforms(u[i], U[i])
  BY DEF Masks
<1> HIDE DEF A, at, t, s, S, E, r, X, G, T
<1>6. ASSUME NEW i \in Vector
      PROVE  /\ Transforms(g[i], G[i]) /\ U[i] \in Polynomials
             /\ U[i] = Plus(X[i], 1, G[i])
  <2>1. /\ x[i] \in Polynomials /\ u[i] \in Polynomials /\ U[i] \in Polynomials
        /\ g[i] \in Polynomials /\ X[i] \in Polynomials
    BY <1>4, <1>5, TransformsType, WithinPolynomial
  <2>2. Transforms(Plus(u[i], -1, x[i]), G[i])
    BY <1>1, <1>4, <1>5, TransformsPlus
  <2>3. Same(Plus(u[i], -1, x[i]), Plus(Plus(x[i], 1, g[i]), -1, x[i]))
    BY <1>1, <1>5, <2>1, SameRefl, PlusSame
  <2>4. Plus(Plus(x[i], 1, g[i]), -1, x[i]) = g[i]
    BY <2>1, PlusAssoc
  <2>5. G[i] \in Polynomials
    BY <2>2, TransformsType
  <2>6. Transforms(g[i], G[i])
    BY <2>2, <2>3, <2>4, <2>5, SameRefl, TransformsSame
  <2>7. U[i] = Plus(X[i], 1, G[i])
    BY <1>4, <2>1, PlusAssoc
  <2> QED
    BY <2>1, <2>6, <2>7
<1>7. VectorOf(G) /\ VectorOf(U)
  BY <1>1, <1>6, TransformsType DEF VectorOf
<1>8. Plus(Dot(T, r), -1, Dot(S, U)) = Plus(Dot(E, r), -1, Dot(S, G))
  <2>1. \A i \in 0..2 : U[i] = Plus(Dot(at[i], r), 1, G[i])
    BY <1>1, <1>4, <1>6
  <2>2. \A j \in 0..2 : T[j] = Plus(Dot(A[j], S), 1, E[j])
    BY <1>1, <1>4
  <2>3. \A i \in 0..2 : \A j \in 0..2 : at[i][j] = A[j][i]
    BY <1>2
  <2> QED
    BY <1>1, <1>2, <1>7, <2>1, <2>2, <2>3, Rearranged
<1>9. Same(Dot(t, r), Dot(T, r))
  <2>1. \A i \in 0..2 : Same(t[i], T[i]) /\ Same(r[i], r[i])
    BY <1>1, <1>3, <1>4, SameRefl DEF VectorOf
  <2> QED
    BY <2>1, DotSame
<1>10. Same(Dot(s, U), Dot(S, U))
  <2>1. \A i \in 0..2 : Same(s[i], S[i]) /\ Same(U[i], U[i])
    BY <1>1, <1>3, <1>7, SameRefl DEF VectorOf
  <2> QED
    BY <2>1, DotSame
<1>11. Transforms(w, Dot(T, r)) /\ Transforms(y, Dot(S, U))
  BY <1>5, <1>9, <1>10, SameRefl, TransformsType, TransformsSame
<1>12. Transforms(Plus(w, -1, y), Plus(Dot(E, r), -1, Dot(S, G)))
  BY <1>1, <1>8, <1>11, TransformsPlus
<1> QED
  BY <1>6, <1>12 DEF E, r, S

LEMMA Regrouped ==
    ASSUME NEW m \in Polynomials, NEW w \in Polynomials, NEW d \in Polynomials,
           NEW y \in Polynomials
    PROVE  Plus(Plus(m, 1, Plus(w, 1, d)), -1, y) = Plus(m, 1, Plus(d, 1, Plus(w, -1, y)))
<1>1. \A i \in Index : m[i] + 1 * (w[i] + 1 * d[i]) + (-1) * y[i]
                           = m[i] + 1 * (d[i] + 1 * (w[i] + (-1) * y[i]))
  BY SMT DEF Polynomials
<1> QED
  BY <1>1 DEF Plus

\* poly_tomsg reads a centred polynomial that is a message and an error of
\* at most 831, modulo q.
LEMMA ErrorsAreUndone ==
    ASSUME NEW m \in [Index -> {0, 1}], NEW p, NEW f,
           Within(p, -1664, 1664), Within(f, -831, 831),
           Same(p, Plus(FromMsg(m), 1, f))
    PROVE  ToMsg(p) = m
<1>1. ASSUME NEW i \in Index
      PROVE  ToMsgBit(p[i]) = m[i]
  <2>1. PICK d \in {0, 1} : d = m[i]
    OBVIOUS
  <2>2. PICK e \in Int : e = f[i] /\ -831 <= e /\ e <= 831
    BY DEF Within
  <2>3. PICK b \in Int : b = p[i] /\ -1664 <= b /\ b <= 1664
    BY DEF Within
  <2>4. FromMsg(m)[i] = 1665 * d
    BY SMT, <2>1 DEF FromMsg, Q
  <2>5. PICK x \in Int : x = 1665 * d + e /\ Plus(FromMsg(m), 1, f)[i] = x
    BY SMT, <2>2, <2>4 DEF Plus
  <2>6. PICK k \in Int : b = x + k * Q
    BY <2>3, <2>5 DEF Same, Cong
  <2>7. PICK l \in Int : l = -k /\ x = b + l * 3329
    BY SMT, <2>6 DEF Q
  <2>8. NoisyOf(d, e, x, b)
    <3>1. \E j \in Int : x = b + j * 3329
      BY <2>7
    <3> QED
      BY SMT, <2>2, <2>3, <2>5, <3>1 DEF NoisyOf
  <2> QED
    BY <2>1, <2>2, <2>3, <2>5, <2>8, NoisyBit
<1>2. \A i \in Index : ToMsg(p)[i] = m[i]
  BY <1>1 DEF ToMsg
<1>3. ToMsg(p) = [i \in Index |-> ToMsg(p)[i]] /\ m = [i \in Index |-> m[i]]
  BY DEF ToMsg
<1> QED
  BY <1>2, <1>3

(***************************************************************************)
(* indcpa_dec undoes indcpa_enc up to the error, for every N, any coins    *)
(* and any message, on the code's own arithmetic; and poly_tomsg reads the *)
(* message wherever no coefficient of the error exceeds 831, just under    *)
(* q / 4.                                                                  *)
(***************************************************************************)
THEOREM DecryptionLeavesTheError ==
    ASSUME NEW c \in Int, NEW e \in Int, NEW m
    PROVE  \E g, d, h, k :
               /\ ErrorParts(c, e, g, d, h, k)
               /\ Same(Decrypt(IndcpaEnc(m, IndcpaKeypair(c).pk, e), IndcpaKeypair(c).sk),
                       Plus(FromMsg(m), 1, ErrorSum(d, h, k)))
               /\ m \in Plaintexts /\ Within(ErrorSum(d, h, k), -831, 831) =>
                      ToMsg(Decrypt(IndcpaEnc(m, IndcpaKeypair(c).pk, e),
                                    IndcpaKeypair(c).sk)) = m
<1> DEFINE p == IndcpaKeypair(c)
           ct == IndcpaEnc(m, p.pk, e)
           u == UnpackB(ct)
           U == Each(PolyNtt, u)
           at == GenMatrix(Mix(c), TRUE)
           t == Each(FromBytes, p.pk.t)
           s == Each(FromBytes, p.sk)
<1>1. PublicKeyTyped(p.pk) /\ SecretKeyTyped(p.sk)
  BY IndcpaKeypairTyped
<1>2. Bytes(ct, CtBytes)
  BY <1>1, IndcpaEncTyped
<1>3. PICK x, w :
          /\ \A i \in Vector : Transforms(x[i], Dot(at[i], CoinsHat(e)))
          /\ Transforms(w, Dot(t, CoinsHat(e)))
          /\ \A i \in Vector : \E g : Within(g, -4, 4) /\ Same(u[i], Plus(x[i], 1, g))
          /\ \E d : /\ Within(d, -106, 106)
                    /\ Same(UnpackV(ct), Plus(FromMsg(m), 1, Plus(w, 1, d)))
  BY EncryptionErrors
<1> HIDE DEF ct
<1>4. /\ \A i \in Vector : Transforms(u[i], U[i])
      /\ \E y : /\ Transforms(y, Dot(s, U))
                /\ Same(Decrypt(ct, p.sk), Plus(UnpackV(ct), -1, y))
  BY <1>1, <1>2, DecryptionParts
<1> HIDE DEF u, U
<1>5. PICK y : /\ Transforms(y, Dot(s, U))
               /\ Same(Decrypt(ct, p.sk), Plus(UnpackV(ct), -1, y))
  BY <1>4
<1>6. PICK d : /\ Within(d, -106, 106)
               /\ Same(UnpackV(ct), Plus(FromMsg(m), 1, Plus(w, 1, d)))
  BY <1>3
<1> DEFINE P(i, f) == Within(f, -4, 4) /\ Same(u[i], Plus(x[i], 1, f))
           g == [i \in Vector |-> CHOOSE f : P(i, f)]
<1>7. \A i \in Vector : Within(g[i], -4, 4) /\ Same(u[i], Plus(x[i], 1, g[i]))
  <2>1. \A i \in Vector : \E f : P(i, f)
    BY <1>3
  <2> QED
    BY <2>1
<1> HIDE DEF P, g
<1>8. PICK G : /\ \A i \in Vector : Transforms(g[i], G[i])
               /\ Transforms(Plus(w, -1, y), Plus(Dot(ErrorHat(c), CoinsHat(e)), -1,
                                                  Dot(SecretHat(c), G)))
  <2>1. Masks(c, e, x, w, u, U, y, g)
    BY <1>3, <1>4, <1>5, <1>7 DEF Masks
  <2> QED
    BY <2>1, MatrixCancels
<1> DEFINE f == [i \in Vector |-> ErrorOfKey(c, i)]
           r == [i \in Vector |-> GetNoise(e, i)]
           n == [i \in Vector |-> SecretOfKey(c, i)]
<1>9. \A i \in Vector :
          /\ f[i] = ErrorOfKey(c, i) /\ r[i] = GetNoise(e, i) /\ n[i] = SecretOfKey(c, i)
          /\ Transforms(f[i], ErrorHat(c)[i]) /\ Within(f[i], -2, 2)
          /\ Transforms(r[i], CoinsHat(e)[i]) /\ Within(r[i], -2, 2)
          /\ Transforms(n[i], SecretHat(c)[i]) /\ Within(n[i], -2, 2)
  <2>1. Mix(c + 1) \in Int
    <3>1. c + 1 \in Int
      OBVIOUS
    <3> QED
      BY <3>1, MixIs
  <2> QED
    BY <2>1, VectorIs, NoiseFacts
        DEF ErrorOfKey, SecretOfKey, ErrorHat, SecretHat, CoinsHat
<1> HIDE DEF f, r, n
<1>10. 2 \in Nat /\ 4 \in Nat /\ -1 \in Int
  OBVIOUS
<1>11. PICK h : /\ \A i \in Vector : /\ Product(f[i], r[i], h[i])
                                     /\ Within(h[i], -(N * (2 * 2)), N * (2 * 2))
                /\ Transforms(Three(h[0], h[1], h[2]), Dot(ErrorHat(c), CoinsHat(e)))
  <2>1. \A i \in Vector : /\ Transforms(f[i], ErrorHat(c)[i])
                           /\ Transforms(r[i], CoinsHat(e)[i])
                           /\ Within(f[i], -2, 2) /\ Within(r[i], -2, 2)
    BY <1>9
  <2> QED
    BY <2>1, <1>10, ProductsWithin
<1>12. PICK k : /\ \A i \in Vector : /\ Product(n[i], g[i], k[i])
                                     /\ Within(k[i], -(N * (2 * 4)), N * (2 * 4))
                /\ Transforms(Three(k[0], k[1], k[2]), Dot(SecretHat(c), G))
  <2>1. \A i \in Vector : /\ Transforms(n[i], SecretHat(c)[i]) /\ Transforms(g[i], G[i])
                           /\ Within(n[i], -2, 2) /\ Within(g[i], -4, 4)
    BY <1>7, <1>8, <1>9
  <2> QED
    BY <2>1, <1>10, ProductsWithin
<1> DEFINE z == Plus(Three(h[0], h[1], h[2]), -1, Three(k[0], k[1], k[2]))
<1>13. Same(Plus(w, -1, y), z)
  BY <1>8, <1>10, <1>11, <1>12, TransformsPlus, TransformsOneToOne
<1>14. ErrorParts(c, e, g, d, h, k)
  BY <1>6, <1>7, <1>9, <1>11, <1>12 DEF ErrorParts
<1>15. Same(Decrypt(ct, p.sk), Plus(FromMsg(m), 1, ErrorSum(d, h, k)))
  <2>1. /\ FromMsg(m) \in Polynomials /\ w \in Polynomials /\ d \in Polynomials
        /\ y \in Polynomials /\ 1 \in Int
    BY <1>3, <1>5, <1>6, FromMsgBound, WithinPolynomial, TransformsType
  <2>2. Same(Plus(UnpackV(ct), -1, y), Plus(Plus(FromMsg(m), 1, Plus(w, 1, d)), -1, y))
    BY <1>6, <1>10, <2>1, SameRefl, PlusSame
  <2>3. Plus(Plus(FromMsg(m), 1, Plus(w, 1, d)), -1, y)
            = Plus(FromMsg(m), 1, Plus(d, 1, Plus(w, -1, y)))
    BY <2>1, Regrouped
  <2>4. Same(Plus(d, 1, Plus(w, -1, y)), ErrorSum(d, h, k))
    BY <1>13, <2>1, SameRefl, PlusSame DEF ErrorSum
  <2>5. Same(Plus(FromMsg(m), 1, Plus(d, 1, Plus(w, -1, y))),
             Plus(FromMsg(m), 1, ErrorSum(d, h, k)))
    BY <2>1, <2>4, SameRefl, PlusSame
  <2> QED
    BY <1>5, <2>2, <2>3, <2>5, SameTrans
<1>16. m \in Plaintexts /\ Within(ErrorSum(d, h, k), -831, 831) =>
           ToMsg(Decrypt(ct, p.sk)) = m
  <2>1. Within(Decrypt(ct, p.sk), -1664, 1664)
    BY <1>1, <1>2, DecryptTyped
  <2> QED
    BY <1>15, <2>1, ErrorsAreUndone DEF Plaintexts
<1> QED
  BY <1>14, <1>15, <1>16 DEF ct, p

\* How far the error can reach.
ErrorBound == 36 * N + 106

LEMMA SumsWithin ==
    ASSUME NEW x, NEW y, NEW b \in Int, NEW d \in Int, NEW s \in {1, -1},
           Within(x, -b, b), Within(y, -d, d)
    PROVE  Within(Plus(x, s, y), -(b + d), b + d)
<1>1. ASSUME NEW i \in Index
      PROVE  /\ x[i] + s * y[i] \in Int
             /\ -(b + d) <= x[i] + s * y[i] /\ x[i] + s * y[i] <= b + d
  <2>1. PICK v \in Int, w \in Int : v = x[i] /\ w = y[i] /\ -b <= v /\ v <= b /\ -d <= w /\ w <= d
    BY DEF Within
  <2>2. CASE s = 1
    BY SMT, <2>1, <2>2
  <2>3. CASE s = -1
    BY SMT, <2>1, <2>3
  <2> QED
    BY <2>2, <2>3
<1> QED
  BY <1>1 DEF Plus, Within

LEMMA ErrorWithin ==
    ASSUME NEW c, NEW e, NEW g, NEW d, NEW h, NEW k, ErrorParts(c, e, g, d, h, k)
    PROVE  Within(ErrorSum(d, h, k), -ErrorBound, ErrorBound)
<1> DEFINE H == Three(h[0], h[1], h[2])
           L == Three(k[0], k[1], k[2])
<1>1. /\ 0 \in Vector /\ 1 \in Vector /\ 2 \in Vector /\ 1 \in {1, -1} /\ -1 \in {1, -1}
      /\ N \in Int
  BY VectorIs, SizeFacts
<1>2. PICK a, b \in Int : a = N * (2 * 2) /\ b = N * (2 * 4)
  BY <1>1
<1>3. /\ Within(d, -106, 106)
      /\ \A i \in Vector : Within(h[i], -a, a) /\ Within(k[i], -b, b)
  BY <1>2 DEF ErrorParts
<1>4. PICK a2, a3, b2, b3, s, f \in Int :
          /\ a2 = a + a /\ a3 = a2 + a /\ b2 = b + b /\ b3 = b2 + b /\ s = a3 + b3
          /\ f = 106 + s
  BY <1>2
<1>5. Within(H, -a3, a3)
  <2>1. Within(Plus(h[0], 1, h[1]), -a2, a2)
    BY <1>1, <1>3, <1>4, SumsWithin
  <2> QED
    BY <1>1, <1>3, <1>4, <2>1, SumsWithin DEF Three
<1>6. Within(L, -b3, b3)
  <2>1. Within(Plus(k[0], 1, k[1]), -b2, b2)
    BY <1>1, <1>3, <1>4, SumsWithin
  <2> QED
    BY <1>1, <1>3, <1>4, <2>1, SumsWithin DEF Three
<1> HIDE DEF H, L
<1>7. Within(Plus(H, -1, L), -s, s)
  BY <1>1, <1>4, <1>5, <1>6, SumsWithin
<1>8. Within(Plus(d, 1, Plus(H, -1, L)), -f, f)
  <2>1. 106 \in Int
    OBVIOUS
  <2> QED
    BY <1>1, <1>3, <1>4, <1>7, <2>1, SumsWithin
<1>9. f = ErrorBound
  BY SMT, <1>1, <1>2, <1>4 DEF ErrorBound
<1> QED
  BY <1>8, <1>9 DEF ErrorSum, H, L

\* Decryption of what was encrypted, with the size of the error.
LEMMA DecryptionWithin ==
    ASSUME NEW c \in Int, NEW e \in Int, NEW m
    PROVE  \E f : /\ Within(f, -ErrorBound, ErrorBound)
                  /\ Same(Decrypt(IndcpaEnc(m, IndcpaKeypair(c).pk, e), IndcpaKeypair(c).sk),
                          Plus(FromMsg(m), 1, f))
<1>1. PICK g, d, h, k :
          /\ ErrorParts(c, e, g, d, h, k)
          /\ Same(Decrypt(IndcpaEnc(m, IndcpaKeypair(c).pk, e), IndcpaKeypair(c).sk),
                  Plus(FromMsg(m), 1, ErrorSum(d, h, k)))
  BY DecryptionLeavesTheError
<1>2. Within(ErrorSum(d, h, k), -ErrorBound, ErrorBound)
  BY <1>1, ErrorWithin
<1> QED
  BY <1>1, <1>2

LEMMA ErrorShort == N <= 16 => \A f : Within(f, -ErrorBound, ErrorBound) => Within(f, -831, 831)
<1> SUFFICES ASSUME N <= 16, NEW f, Within(f, -ErrorBound, ErrorBound)
             PROVE  Within(f, -831, 831)
  OBVIOUS
<1>1. PICK b \in Int : b = ErrorBound /\ b <= 831
  BY SMT, SizeFacts DEF ErrorBound
<1>2. ASSUME NEW x \in Int, -b <= x, x <= b
      PROVE  -831 <= x /\ x <= 831
  BY SMT, <1>1, <1>2
<1> QED
  BY <1>1, <1>2 DEF Within

\* The residue an error leaves: Distance, without its division.
LEMMA ErrorResidue ==
    ASSUME NEW m \in [Index -> {0, 1}], NEW p, NEW f, NEW i \in Index,
           Within(f, -ErrorBound, ErrorBound), Same(p, Plus(FromMsg(m), 1, f))
    PROVE  LET d == (p[i] - m[i] * 1665) % Q
           IN  d <= 12 * K * N + 107 \/ Q - d <= 12 * K * N + 107
<1>1. PICK d \in {0, 1} : d = m[i]
  OBVIOUS
<1>2. PICK b \in Int : b = ErrorBound /\ b + 1 = 12 * K * N + 107
  BY SMT, SizeFacts DEF ErrorBound, K
<1>3. PICK e \in Int : e = f[i] /\ -b <= e /\ e <= b
  BY <1>2 DEF Within
<1>4. FromMsg(m)[i] = 1665 * d
  BY SMT, <1>1 DEF FromMsg, Q
<1>5. Plus(FromMsg(m), 1, f)[i] = 1665 * d + e
  BY SMT, <1>3, <1>4 DEF Plus
<1>6. PICK k \in Int : p[i] \in Int /\ p[i] = 1665 * d + e + k * Q
  BY <1>5 DEF Same, Cong
<1>7. PICK z \in Int : z = p[i] - m[i] * 1665 /\ z = e + k * Q
  BY SMT, <1>1, <1>6 DEF Q
<1>8. PICK r, j \in Int : r = z % Q /\ z = r + j * Q /\ 0 <= r /\ r < Q
  <2>1. /\ z % 3329 \in Int /\ z \div 3329 \in Int /\ z = (z % 3329) + (z \div 3329) * 3329
        /\ 0 <= z % 3329 /\ z % 3329 < 3329
    BY SMT
  <2> QED
    BY SMT, <2>1 DEF Q
<1>9. r <= b + 1 \/ Q - r <= b + 1
  <2>1. PICK n \in Int : n = k - j /\ r = e + n * Q
    BY SMT, <1>7, <1>8 DEF Q
  <2>2. CASE n <= 0
    BY SMT, <1>3, <1>8, <2>1, <2>2 DEF Q
  <2>3. CASE n >= 1
    BY SMT, <1>3, <1>8, <2>1, <2>3 DEF Q
  <2> QED
    BY <2>1, <2>2, <2>3
<1> QED
  BY <1>2, <1>7, <1>8, <1>9

------------------------------------------------------------------------------
(* What is decrypted *)

(***************************************************************************)
(* The last ciphertext decrypted, where the model remembers its message,   *)
(* is that message's encryption under the pair that decrypted it.          *)
(***************************************************************************)
SentInv ==
    sent # None =>
        \E c \in Coins, m \in Plaintexts :
            sent = m /\ mp = Decrypt(CtOf(PairOf(c), m), PairOf(c).sk)

LEMMA SentInit == Init => SentInv
BY DEF Init, SentInv

LEMMA ArriveSent ==
    ASSUME CallsInv, TypeInv, NEW k, NEW q \in issued, NEW x, NEW n, Arrive(k, q, x, n)
    PROVE  SentInv'
<1> SUFFICES ASSUME sent' # None
             PROVE  \E c \in Coins, m \in Plaintexts :
                        sent' = m /\ mp' = Decrypt(CtOf(PairOf(c), m), PairOf(c).sk)
  BY DEF SentInv
<1>1. /\ k = q.key /\ n = 0 /\ sent' = q.secret[2]
      /\ mp' = Decrypt([q.ct EXCEPT ![x] = (@ + n) % 256], keys[k].sk)
  BY DEF Arrive, Decapsulate
<1>2. PICK m \in Plaintexts : /\ k \in Coins /\ keys[k] = PairOf(k)
                              /\ q = CallOf(k, PairOf(k), m)
  BY <1>1 DEF CallsInv
<1>3. q.ct = CtOf(PairOf(k), m) /\ q.secret[2] = m
  BY <1>2 DEF CallOf
<1>4. [q.ct EXCEPT ![x] = (@ + n) % 256] = q.ct
  <2>1. Ciphertext(q.ct) /\ Bytes(q.ct, CtBytes)
    BY <1>3, EncryptionIsCiphertext DEF TypeInv
  <2>2. DOMAIN q.ct = 0..CtBytes - 1
    BY <2>1 DEF Ciphertext
  <2>3. ASSUME NEW y \in 0..CtBytes - 1
        PROVE  (q.ct[y] + n) % 256 = q.ct[y]
    <3>1. PICK b \in Int : b = q.ct[y] /\ 0 <= b /\ b <= 255
      BY <2>1 DEF Bytes
    <3>2. (b + 0) % 256 = b
      BY SMT, <3>1
    <3> QED
      BY <1>1, <3>1, <3>2
  <2> QED
    BY <2>1, <2>2, <2>3 DEF Ciphertext
<1>5. mp' = Decrypt(CtOf(PairOf(k), m), PairOf(k).sk)
  BY <1>1, <1>2, <1>3, <1>4
<1> QED
  BY <1>1, <1>2, <1>3, <1>5

LEMMA StepSent ==
    ASSUME CallsInv, TypeInv, SentInv, [Next]_vars
    PROVE  SentInv'
<1>1. CASE sent' = sent /\ mp' = mp
  BY <1>1 DEF SentInv
<1>2. CASE UNCHANGED vars
  BY <1>1, <1>2 DEF vars
<1>3. ASSUME NEW k, NEW msg, Keypair(k) \/ Encapsulate(k, msg)
      PROVE  SentInv'
  BY <1>1, <1>3 DEF Keypair, Encapsulate
<1> QED
  BY <1>2, <1>3, ArriveSent DEF Next

\* A ciphertext and its pair: decryption leaves the message and an error.
LEMMA CallDecrypts ==
    ASSUME NEW c \in Coins, NEW m \in Plaintexts
    PROVE  LET p == Decrypt(CtOf(PairOf(c), m), PairOf(c).sk)
           IN  /\ Within(p, -1664, 1664)
               /\ \E f : /\ Within(f, -ErrorBound, ErrorBound)
                         /\ Same(p, Plus(FromMsg(m), 1, f))
<1>1. c \in Int
  BY KemAssumption
<1>2. MessageTyped(m)
  BY SMT DEF Plaintexts, MessageTyped
<1>3. HashG(m, PairOf(c).h).coins \in Int
  BY <1>2, PairTyped, CoinsAreInteger
<1>4. /\ PairOf(c).pk = IndcpaKeypair(c).pk /\ PairOf(c).sk = IndcpaKeypair(c).sk
  BY DEF PairOf
<1>5. Within(Decrypt(CtOf(PairOf(c), m), PairOf(c).sk), -1664, 1664)
  BY <1>2, PairTyped, CtTyped, DecryptTyped
<1>6. \E f : /\ Within(f, -ErrorBound, ErrorBound)
             /\ Same(Decrypt(CtOf(PairOf(c), m), PairOf(c).sk), Plus(FromMsg(m), 1, f))
  BY <1>1, <1>3, <1>4, DecryptionWithin DEF CtOf
<1> QED
  BY <1>5, <1>6

LEMMA ErrorsFollow == SentInv => ErrorIsNoise
<1> SUFFICES ASSUME SentInv, sent # None, NEW i \in Index
             PROVE  LET d == (mp[i] - sent[i] * 1665) % Q
                    IN  d <= 12 * K * N + 107 \/ Q - d <= 12 * K * N + 107
  BY DEF ErrorIsNoise
<1>1. PICK c \in Coins, m \in Plaintexts :
          sent = m /\ mp = Decrypt(CtOf(PairOf(c), m), PairOf(c).sk)
  BY DEF SentInv
<1>2. PICK f : /\ Within(f, -ErrorBound, ErrorBound)
               /\ Same(mp, Plus(FromMsg(m), 1, f))
  BY <1>1, CallDecrypts
<1>3. m \in [Index -> {0, 1}]
  BY DEF Plaintexts
<1> QED
  BY <1>1, <1>2, <1>3, ErrorResidue

(***************************************************************************)
(* crypto_kem_dec of a ciphertext crypto_kem_enc made for its key: what    *)
(* indcpa_dec gives poly_tomsg is, modulo q, the message and an error no   *)
(* larger than the noise of the key and of the encryption and the two      *)
(* roundings can make it, for every N.                                     *)
(***************************************************************************)
THEOREM ErrorsAreNoise == Spec => []ErrorIsNoise
<1>1. CallsInv /\ TypeInv /\ SentInv /\ [Next]_vars => SentInv'
  BY StepSent
<1> QED
  BY <1>1, SentInit, ErrorsFollow, CallsInvariant, KemTypesInvariant, PTL DEF Spec

LEMMA CallsDecrypt == N <= 16 => (CallsInv => DecryptsIssued)
<1> SUFFICES ASSUME N <= 16, CallsInv, NEW r \in issued
             PROVE  Stored(ToMsg(Decrypt(r.ct, keys[r.key].sk))) = r.secret[2]
  BY DEF DecryptsIssued
<1>1. PICK m \in Plaintexts : /\ r.key \in Coins /\ keys[r.key] = PairOf(r.key)
                              /\ r = CallOf(r.key, PairOf(r.key), m)
  BY DEF CallsInv
<1> DEFINE p == Decrypt(CtOf(PairOf(r.key), m), PairOf(r.key).sk)
<1>2. r.ct = CtOf(PairOf(r.key), m) /\ r.secret[2] = m
  BY <1>1 DEF CallOf
<1>3. PICK f : /\ Within(p, -1664, 1664) /\ Within(f, -ErrorBound, ErrorBound)
               /\ Same(p, Plus(FromMsg(m), 1, f))
  BY <1>1, CallDecrypts
<1>4. m \in [Index -> {0, 1}]
  BY DEF Plaintexts
<1> HIDE DEF p
<1>5. ToMsg(p) = m
  BY <1>3, <1>4, ErrorShort, ErrorsAreUndone
<1> QED
  BY <1>1, <1>2, <1>5, StoredIs DEF p

(***************************************************************************)
(* Every ciphertext crypto_kem_enc issued decrypts to its message, for the *)
(* N at which the largest error there can be is within a quarter of q (for *)
(* N = 256 it is not, and only improbable coins could make it that large). *)
(***************************************************************************)
THEOREM IssuedDecrypts == N <= 16 => (Spec => []DecryptsIssued)
<1> SUFFICES ASSUME N <= 16 PROVE Spec => []DecryptsIssued
  OBVIOUS
<1>1. CallsInv => DecryptsIssued
  BY CallsDecrypt
<1> QED
  BY <1>1, CallsInvariant, PTL

------------------------------------------------------------------------------
(* The refinement *)

\* What a call that was issued says, where decryption undoes encryption.
LEMMA IssuedFacts ==
    ASSUME CallsInv, DecryptsIssued, NEW q \in issued
    PROVE  LET p == keys[q.key]
               m == MessageOf(p, q.ct)
           IN  /\ q.key \in DOMAIN keys
               /\ q.ct = CtOf(p, m) /\ Ciphertext(q.ct)
               /\ q.secret = <<"key", m, p.h>>
<1>1. PICK m \in Plaintexts : q.key \in DOMAIN keys /\ q = CallOf(q.key, keys[q.key], m)
  BY DEF CallsInv
<1>2. q.ct = CtOf(keys[q.key], m) /\ q.secret = <<"key", m, keys[q.key].h>>
  BY <1>1 DEF CallOf
<1>3. q.secret[2] = m
  BY <1>2
<1>4. MessageOf(keys[q.key], q.ct) = m
  BY <1>3 DEF DecryptsIssued, MessageOf
<1> QED
  BY <1>1, <1>2, <1>4, EncryptionIsCiphertext

\* Equal hashes are of one key pair.
LEMMA HashFacts ==
    ASSUME CallsInv, NEW k \in DOMAIN keys, NEW l \in DOMAIN keys,
           keys[k].h = keys[l].h
    PROVE  k = l
<1>1. /\ k \in Coins /\ l \in Coins
      /\ keys[k] = PairOf(k) /\ keys[l] = PairOf(l)
  BY DEF CallsInv
<1>2. /\ PairOf(k).h = HashH(IndcpaKeypair(k).pk)
      /\ PairOf(l).h = HashH(IndcpaKeypair(l).pk)
  BY DEF PairOf
<1> QED
  BY <1>1, <1>2, HashAssumption

\* A ciphertext was issued for a key with the secret its owner makes of it,
\* or it was not issued and nobody else has that secret.
LEMMA GivenIsIdeal ==
    ASSUME CallsInv, DecryptsIssued, NEW r \in given
    PROVE  \/ \E q \in issued : Ideal!SameCall(r, q) /\ r.secret = q.secret
           \/ \A q \in issued : ~ Ideal!SameCall(r, q) /\ r.secret # q.secret
<1> DEFINE p == keys[r.key]
           m == MessageOf(p, r.ct)
<1>1. r.key \in DOMAIN keys /\ Ciphertext(r.ct) /\ r.secret = SecretOf(p, r.ct)
  BY DEF CallsInv
<1>2. Verify(r.ct, CtOf(p, m)) <=> r.ct = CtOf(p, m)
  BY <1>1, EncryptionIsCiphertext, VerifyIsEquality
<1>3. ASSUME NEW q \in issued, Ideal!SameCall(r, q)
      PROVE  r.secret = q.secret
  <2>1. r.key = q.key /\ r.ct = q.ct
    BY <1>3 DEF Ideal!SameCall
  <2>2. r.ct = CtOf(p, m) /\ q.secret = <<"key", m, p.h>>
    BY <2>1, IssuedFacts
  <2> QED
    BY <1>1, <1>2, <2>2 DEF SecretOf
<1>4. ASSUME NEW q \in issued, r.secret = q.secret
      PROVE  Ideal!SameCall(r, q)
  <2> DEFINE pq == keys[q.key]
             mq == MessageOf(pq, q.ct)
  <2>1. /\ q.key \in DOMAIN keys /\ q.ct = CtOf(pq, mq)
        /\ q.secret = <<"key", mq, pq.h>>
    BY IssuedFacts
  <2> HIDE DEF pq, mq, p, m
  <2>2. Verify(r.ct, CtOf(p, m)) /\ r.secret = <<"key", m, p.h>>
    <3>1. SecretOf(p, r.ct) = IF Verify(r.ct, CtOf(p, m)) THEN <<"key", m, p.h>>
                              ELSE <<"rejected", p.z, r.ct>>
      BY DEF SecretOf, Rkprf, m
    <3>2. <<"key", mq, pq.h>> # <<"rejected", p.z, r.ct>>
      BY SMT
    <3> QED
      BY <1>1, <1>4, <2>1, <3>1, <3>2
  <2>3. m = mq /\ p.h = pq.h
    <3>1. <<"key", m, p.h>> = <<"key", mq, pq.h>>
      BY <1>4, <2>1, <2>2
    <3> QED
      BY <3>1, SMT
  <2>4. r.key = q.key
    BY <1>1, <2>1, <2>3, HashFacts DEF p, pq
  <2>5. p = pq
    BY <2>4 DEF p, pq
  <2> QED
    BY <1>2, <2>1, <2>2, <2>3, <2>4, <2>5 DEF Ideal!SameCall
<1> QED
  BY <1>3, <1>4

LEMMA CallsAreConsistent ==
    ASSUME CallsInv
    PROVE  /\ Ideal!Consistent(given)
           /\ DecryptsIssued => Ideal!Consistent(issued)
<1>1. Ideal!Consistent(given)
  <2>1. \A r \in given : r.secret = SecretOf(keys[r.key], r.ct)
    BY DEF CallsInv
  <2> QED
    BY <2>1 DEF Ideal!Consistent, Ideal!SameCall
<1>2. ASSUME DecryptsIssued PROVE Ideal!Consistent(issued)
  <2>1. \A q \in issued :
            q.secret = <<"key", MessageOf(keys[q.key], q.ct), keys[q.key].h>>
    BY <1>2, IssuedFacts
  <2> QED
    BY <2>1 DEF Ideal!Consistent, Ideal!SameCall
<1> QED
  BY <1>1, <1>2

\* What IdealKem asks of the calls made so far.
IdealCalls ==
    /\ Ideal!Consistent(given) /\ Ideal!Consistent(issued)
    /\ \A r \in given :
           \/ \E q \in issued : Ideal!SameCall(r, q) /\ r.secret = q.secret
           \/ \A q \in issued : ~ Ideal!SameCall(r, q) /\ r.secret # q.secret

LEMMA CallsAreIdeal == CallsInv /\ DecryptsIssued => IdealCalls
BY CallsAreConsistent, GivenIsIdeal DEF IdealCalls

LEMMA StepIsIdeal ==
    ASSUME CallsInv, IdealCalls', [Next]_vars
    PROVE  [Ideal!Next]_(Ideal!vars)
<1>1. CASE UNCHANGED vars
  BY <1>1 DEF vars, Ideal!vars
<1>2. ASSUME NEW c \in Coins, Keypair(c)
      PROVE  UNCHANGED Ideal!vars
  BY <1>2 DEF Keypair, Ideal!vars
<1>3. ASSUME NEW k, NEW msg, Encapsulate(k, msg)
      PROVE  Ideal!Encapsulate
  <2>1. given' = given /\ \E r : issued' = issued \cup {r}
    BY <1>3, EncapsulateStep
  <2>2. \E r \in issued' : issued' = issued \cup {r}
    BY <2>1
  <2>3. Ideal!Consistent(issued')
    BY DEF IdealCalls, Ideal!Consistent
  <2> QED
    BY <2>1, <2>2, <2>3 DEF Ideal!Encapsulate
<1>4. ASSUME NEW k, NEW q \in issued, NEW x, NEW n, Arrive(k, q, x, n)
      PROVE  Ideal!Decapsulate
  <2>1. issued' = issued /\ \E r : given' = given \cup {r}
    BY <1>4, ArriveStep
  <2>2. PICK r \in given' : given' = given \cup {r}
    BY <2>1
  <2>3. \/ \E s \in issued : Ideal!SameCall(r, s) /\ r.secret = s.secret
        \/ \A s \in issued : ~ Ideal!SameCall(r, s) /\ r.secret # s.secret
    BY <2>1 DEF IdealCalls
  <2>4. Ideal!Consistent(given')
    BY DEF IdealCalls, Ideal!Consistent
  <2> QED
    BY <2>1, <2>2, <2>3, <2>4 DEF Ideal!Decapsulate
<1> QED
  BY <1>1, <1>2, <1>3, <1>4 DEF Next, Ideal!Next

(***************************************************************************)
(* crypto_kem_enc and _dec: whenever the ciphertexts issued decrypt to     *)
(* what was encrypted, the owner of a key gets the secret issued with a    *)
(* ciphertext; a ciphertext issued for another key or changed gives it a   *)
(* secret nobody was issued, the same each time.                           *)
(***************************************************************************)
THEOREM EncapsulationIsIdeal == Spec /\ []DecryptsIssued => IdealSpec
<1>1. CallsInv /\ IdealCalls' /\ [Next]_vars => [Ideal!Next]_(Ideal!vars)
  BY StepIsIdeal
<1>2. Init => Ideal!Init
  BY DEF Init, Ideal!Init
<1> QED
  BY <1>1, <1>2, CallsAreIdeal, CallsInvariant, PTL DEF Spec, IdealSpec, Ideal!Spec

(***************************************************************************)
(* At those N crypto_kem_enc and crypto_kem_dec are an ideal key           *)
(* encapsulation on the code's own arithmetic, with nothing assumed of     *)
(* decryption.                                                             *)
(***************************************************************************)
THEOREM ShortRingsAreIdeal == N <= 16 => (Spec => IdealSpec)
<1> SUFFICES ASSUME N <= 16 PROVE Spec => IdealSpec
  OBVIOUS
<1>1. Spec => []DecryptsIssued
  BY IssuedDecrypts
<1> QED
  BY <1>1, EncapsulationIsIdeal, PTL
==============================================================================

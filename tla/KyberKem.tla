------------------------------- MODULE KyberKem -------------------------------
(***************************************************************************)
(* firmware/components/mlkem768/src/ref: crypto_kem_keypair, _enc, _dec    *)
(* and the indcpa and polyvec functions below them, on the code's own      *)
(* arithmetic (KyberArith).  Hashes, random numbers and the matrix are     *)
(* stand-ins: fixed functions of their arguments.                          *)
(***************************************************************************)
EXTENDS KyberArith, FiniteSets

\* KYBER_K; eta and the packings below are those that go with it.
K == 3

CONSTANTS
    Coins,       \* coins of the key pairs that get made
    Messages,    \* random messages encapsulated, as the sets of their bits
    Changes,     \* <<byte, n>>: n is added to a byte on the way, 0 for none
    MaxIssued,   \* bound: encapsulations
    MaxGiven     \* bound: decapsulations

ASSUME KemAssumption ==
    /\ Coins \subseteq 0..30000 /\ Messages \subseteq SUBSET Index
    /\ MaxIssued \in Nat /\ MaxGiven \in Nat

VARIABLES
    keys,        \* coins -> [pk, sk] of the key pairs made
    sent,        \* history: of the last ciphertext used, the message it is of
    mp,          \* history: what indcpa_dec made of it, before poly_tomsg
    issued,      \* history: what crypto_kem_enc returned
    given        \* history: what crypto_kem_dec returned

vars == <<keys, sent, mp, issued, given>>

Vector == 0..K - 1

None == [i \in {} |-> 0]

\* f: to compare it TLC works its values out, once for all uses.
Stored(f) == CHOOSE g \in {f} : g = f

Each(F(_), v) == Stored([i \in Vector |-> F(v[i])])

------------------------------------------------------------------------------
(* Stand-ins for the hashes: KyberSponge has what the code adds to them.   *)

Mix(x) == ((x % 32749) * (x % 32749) + 11 * x + 7) % 65521

\* A number for a string of bytes.
Digest(f, n) ==
    LET d[i \in 0..n] == IF i = 0 THEN 1 ELSE Mix(d[i - 1] + f[i - 1])
    IN  d[n]

Draw(seed, tag, i) == Mix(Mix(Mix(seed) + tag) + i)

\* poly_getnoise_eta1 and _eta2: cbd2 of the PRF's bits.
GetNoise(seed, nonce) == Stored([i \in Index |-> Cbd2(Draw(seed, nonce, i) % 16)])

\* One entry of the matrix: SHAKE128 of the seed and two bytes.
Uniform(seed, x, y) == Stored([i \in Index |-> Draw(seed, 256 * x + y, i) % Q])

\* A bug: encryption takes the matrix as it is.
GenMatrixPlain(seed, transposed) ==
    [i \in Vector |-> [j \in Vector |-> Uniform(seed, j, i)]]

GenMatrix(seed, transposed) ==
    [i \in Vector |-> [j \in Vector |->
        IF transposed THEN Uniform(seed, i, j) ELSE Uniform(seed, j, i)]]

------------------------------------------------------------------------------
(* poly_ref.c, ntt_ref.c, polyvec_ref.c on whole polynomials and vectors *)

PolyNtt(r) ==
    LET a[l \in LayerLens] ==
            IF l = N THEN r ELSE Stored(NttLayer(a[2 * l], l))
    IN  Stored(PolyReduce(a[2]))

PolyInvNtt(r) ==
    LET a[l \in LayerLens] ==
            IF l = 2 THEN r ELSE Stored(InvNttLayer(a[l \div 2], l \div 2))
    IN  Stored(Scale(a[N]))

\* polyvec_basemul_acc_montgomery
BaseMulAcc(a, b) ==
    LET sum[i \in Vector] ==
            LET t == Stored(BaseMul(a[i], b[i]))
            IN  IF i = 0 THEN t ELSE Stored(PolyAdd(sum[i - 1], t))
    IN  Stored(PolyReduce(sum[K - 1]))

PolyVecAddReduce(a, b) ==
    Stored([i \in Vector |-> Stored(PolyReduce(PolyAdd(a[i], b[i])))])

------------------------------------------------------------------------------
(* indcpa_ref.c *)

UBytes == (5 * N) \div 4

CtBytes == K * UBytes + (N \div 2)

ASSUME ChangesAssumption == Changes \subseteq (0..CtBytes - 1) \X (0..255)

PackCiphertext(b, v) ==
    LET u == [i \in Vector |->
                 Pack10(Stored([j \in Index |-> Compress10(b[i][j])]))]
        w == Pack4(Stored([j \in Index |-> Compress4(v[j])]))
    IN  Stored([x \in 0..CtBytes - 1 |->
            IF x < K * UBytes THEN u[x \div UBytes][x % UBytes]
            ELSE w[x - K * UBytes]])

UnpackB(c) ==
    [i \in Vector |->
        LET t == Unpack10([x \in 0..UBytes - 1 |-> c[i * UBytes + x]])
        IN  Stored([j \in Index |-> Decompress10(t[j])])]

UnpackV(c) ==
    LET t == Unpack4([x \in 0..(N \div 2) - 1 |-> c[K * UBytes + x]])
    IN  Stored([j \in Index |-> Decompress4(t[j])])

\* indcpa_keypair_derand: hash_g gives the public seed and the noise seed.
IndcpaKeypair(coins) ==
    LET publicseed == Mix(coins)
        noiseseed == Mix(coins + 1)
        a == GenMatrix(publicseed, FALSE)
        skpv == [i \in Vector |-> PolyNtt(GetNoise(noiseseed, i))]
        e == [i \in Vector |-> PolyNtt(GetNoise(noiseseed, K + i))]
        t == [i \in Vector |-> Stored(PolyToMont(BaseMulAcc(a[i], skpv)))]
    IN  [pk |-> [t |-> Each(ToBytes, PolyVecAddReduce(t, e)),
                 seed |-> publicseed],
         sk |-> Each(ToBytes, skpv)]

Bits(m) == [i \in Index |-> IF i \in m THEN 1 ELSE 0]

IndcpaEnc(m, pk, coins) ==
    LET pkpv == Each(FromBytes, pk.t)
        at == GenMatrix(pk.seed, TRUE)
        sp == [i \in Vector |-> PolyNtt(GetNoise(coins, i))]
        ep == [i \in Vector |-> GetNoise(coins, K + i)]
        epp == GetNoise(coins, 2 * K)
        b == [i \in Vector |-> PolyInvNtt(BaseMulAcc(at[i], sp))]
        v == PolyInvNtt(BaseMulAcc(pkpv, sp))
    IN  PackCiphertext(PolyVecAddReduce(b, ep),
                       Stored(PolyReduce(PolyAdd(PolyAdd(v, epp), FromMsg(m)))))

\* indcpa_dec up to poly_tomsg.
\* A bug: the difference is not reduced.
DecryptUnreduced(c, sk) ==
    Stored(PolySub(UnpackV(c),
        PolyInvNtt(BaseMulAcc(Each(FromBytes, sk), Each(PolyNtt, UnpackB(c))))))

Decrypt(c, sk) ==
    Stored(PolyReduce(PolySub(UnpackV(c),
        PolyInvNtt(BaseMulAcc(Each(FromBytes, sk), Each(PolyNtt, UnpackB(c)))))))

------------------------------------------------------------------------------
(* kem_ref.c *)

\* hash_h: of the public key's bytes and seed.
HashH(pk) ==
    LET all == [x \in 0..K - 1 |-> Digest(pk.t[x], (3 * N) \div 2)]
    IN  Digest(all, K) + pk.seed

\* No two key pairs' public keys have the same hash.
ASSUME HashAssumption ==
    \A c, d \in Coins :
        HashH(IndcpaKeypair(c).pk) = HashH(IndcpaKeypair(d).pk) => c = d

\* hash_g of a message and a public key's hash: the secret and the coins.
HashG(m, h) == [secret |-> <<"key", m, h>>, coins |-> Mix(Digest(m, N) + h)]

\* rkprf
Rkprf(z, c) == <<"rejected", z, c>>

\* verify: every byte is compared.
\* A bug: the last byte is left out.
VerifyShort(a, b) == \A x \in 0..CtBytes - 2 : a[x] = b[x]

Verify(a, b) == \A x \in 0..CtBytes - 1 : a[x] = b[x]

Init ==
    /\ keys = None /\ sent = None /\ mp = None
    /\ issued = {} /\ given = {}

\* crypto_kem_keypair; the second half of its coins is z.
Keypair(coins) ==
    /\ coins \notin DOMAIN keys
    /\ LET p == IndcpaKeypair(coins)
           made == [pk |-> p.pk, sk |-> p.sk, h |-> HashH(p.pk), z |-> coins]
       IN  keys' = [k \in DOMAIN keys \cup {coins} |->
                       IF k = coins THEN made ELSE keys[k]]
    /\ UNCHANGED <<sent, mp, issued, given>>

\* crypto_kem_enc
Encapsulate(k, msg) ==
    /\ k \in DOMAIN keys
    /\ Cardinality(issued) < MaxIssued
    /\ LET m == Bits(msg)
           kr == HashG(m, HashH(keys[k].pk))
           ct == IndcpaEnc(m, keys[k].pk, kr.coins)
       IN  issued' = issued \cup {[key |-> k, ct |-> ct, secret |-> kr.secret]}
    /\ UNCHANGED <<keys, sent, mp, given>>

\* crypto_kem_dec: what was decrypted is encrypted again and compared.
Decapsulate(k, ct) ==
    LET p == Decrypt(ct, keys[k].sk)
        m == Stored(ToMsg(p))
        kr == HashG(m, keys[k].h)
        cmp == IndcpaEnc(m, keys[k].pk, kr.coins)
        ss == IF Verify(ct, cmp) THEN kr.secret ELSE Rkprf(keys[k].z, ct)
    IN  /\ mp' = p
        /\ given' = given \cup {[key |-> k, ct |-> ct, secret |-> ss]}

\* What arrives at the owner of key k: one of the ciphertexts issued for any
\* key, whole or with a byte changed.
Arrive(k, r, x, n) ==
    /\ k \in DOMAIN keys
    /\ Cardinality(given) < MaxGiven
    /\ Decapsulate(k, [r.ct EXCEPT ![x] = (@ + n) % 256])
    /\ sent' = IF k = r.key /\ n = 0 THEN r.secret[2] ELSE None
    /\ UNCHANGED <<keys, issued>>

Next ==
    \E k \in Coins :
        \/ Keypair(k)
        \/ \E m \in Messages : Encapsulate(k, m)
        \/ \E r \in issued, c \in Changes : Arrive(k, r, c[1], c[2])

Spec == Init /\ [][Next]_vars

Ideal == INSTANCE IdealKem

(***************************************************************************)
(* crypto_kem_enc and _dec are a key encapsulation as IdealKem has it: the *)
(* owner of the key gets the secret issued with a ciphertext (A in one     *)
(* function, its transpose in the other, factors R that cancel, packings   *)
(* read as they were written), and for a ciphertext made for another key   *)
(* or changed in one byte, even where it decrypts to the same message, a   *)
(* secret of its own.                                                      *)
(***************************************************************************)
IdealSpec == Ideal!Spec

------------------------------------------------------------------------------
Between(r, lo, hi) == \A i \in DOMAIN r : lo <= r[i] /\ r[i] <= hi

TypeOK ==
    /\ DOMAIN keys \subseteq Coins
    /\ \A k \in DOMAIN keys : \A i \in Vector :
           /\ Between(keys[k].pk.t[i], 0, 255)
           /\ Between(keys[k].sk[i], 0, 255)
    /\ \A r \in issued \cup given :
           r.key \in DOMAIN keys /\ Between(r.ct, 0, 255)
    /\ Between(mp, -1664, 1664)

(***************************************************************************)
(* Every ciphertext that was issued decrypts, whole, to the message that   *)
(* was encrypted (indcpa_enc and indcpa_dec undo each other).              *)
(***************************************************************************)
DecryptsIssued ==
    \A r \in issued : Stored(ToMsg(Decrypt(r.ct, keys[r.key].sk))) = r.secret[2]

(***************************************************************************)
(* What is left after decryption is the message and an error no larger     *)
(* than noise (2) and rounding (2 and 104) can make it: that of no pass    *)
(* that wrapped or lost a factor.  (For N = 256 this bound exceeds q / 4;  *)
(* that it is never nearly reached there is a matter of probability.)      *)
(***************************************************************************)
ErrorIsNoise ==
    sent # None =>
        \A i \in Index :
            LET d == (mp[i] - sent[i] * 1665) % Q
            IN  d <= 12 * K * N + 107 \/ Q - d <= 12 * K * N + 107
==============================================================================

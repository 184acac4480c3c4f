----------------------------- MODULE KyberSponge ------------------------------
(***************************************************************************)
(* firmware/components/mlkem768/src/ref/fips202_ref.c: how the Keccak      *)
(* state is filled, padded and read, and indcpa_ref.c: how gen_matrix      *)
(* samples coefficients from what is read.  KeccakF1600_StatePermute is    *)
(* symbolic: what it returns is named by everything XORed into the state   *)
(* before it.  A caller may absorb and squeeze in pieces of any size, call *)
(* the one-shot functions, or sample.                                      *)
(***************************************************************************)
EXTENDS Integers, Sequences

CONSTANTS
    Rate,       \* bytes of a block (168, 136, 72)
    FirstBlocks,\* GEN_MATRIX_NBLOCKS (3)
    Length,     \* coefficients of a polynomial (KYBER_N)
    SeedLen,    \* bytes of a seed and two indices (34)
    MaxIn,      \* bound: bytes absorbed
    MaxOut,     \* bound: bytes squeezed
    MaxBlocks   \* bound: blocks sampled for one polynomial

ASSUME SpongeAssumption ==
    /\ Rate \in Nat \ {0}
    /\ {FirstBlocks, Length, MaxIn, MaxOut, MaxBlocks} \subseteq Nat
    /\ SeedLen \in 0..MaxIn

VARIABLES
    caller,     \* "none", "pieces", "oneshot" or "sampler"
    s,          \* the state: permuted blocks, and what was XORed in since
    pos,        \* keccak_state.pos
    absorbing,  \* finalize has not been called yet
    taken,      \* bytes absorbed: the input is the bytes 0, 1, ...
    out,        \* bytes squeezed
    coeffs,     \* coefficients written so far
    below       \* history: the candidates seen that are less than q

vars == <<caller, s, pos, absorbing, taken, out, coeffs, below>>

Positions == 0..Rate - 1

Xor(a, b) == (a \ b) \cup (b \ a)

\* The input byte k, the domain byte, and the bit 1ULL << 63.
Input(k) == {<<"in", k>>}
Domain == {<<"domain", 0>>}
LastBit == {<<"last", 0>>}

Zero == [p \in Positions |-> {}]

\* keccak_init
Fresh == [permuted |-> <<>>, block |-> Zero]

Permute(st) == [permuted |-> Append(st.permuted, st.block), block |-> Zero]

XorAt(st, p, b) == [st EXCEPT !.block[p] = Xor(@, b)]

\* A byte of the state.
ByteAt(st, p) == [permuted |-> st.permuted, at |-> p, plus |-> st.block[p]]

------------------------------------------------------------------------------
(* fips202_ref.c.  A sponge is the pair of the state and pos. *)

\* keccak_absorb for one byte: a full block is permuted at once.
\* A bug: it is permuted when the next byte comes.
AbsorbByteLazily(sp, k) ==
    IF sp.pos = Rate
    THEN [st |-> XorAt(Permute(sp.st), 0, Input(k)), pos |-> 1]
    ELSE [st |-> XorAt(sp.st, sp.pos, Input(k)), pos |-> sp.pos + 1]

AbsorbByte(sp, k) ==
    LET st == XorAt(sp.st, sp.pos, Input(k))
    IN  IF sp.pos + 1 = Rate THEN [st |-> Permute(st), pos |-> 0]
        ELSE [st |-> st, pos |-> sp.pos + 1]

KeccakAbsorb(sp, from, n) ==
    LET a[j \in 0..n] ==
            IF j = 0 THEN sp ELSE AbsorbByte(a[j - 1], from + j - 1)
    IN  a[n]

KeccakFinalize(st, p) == XorAt(XorAt(st, p, Domain), Rate - 1, LastBit)

\* keccak_squeeze for one byte.
SqueezeByte(sp) ==
    LET st == IF sp.pos = Rate THEN Permute(sp.st) ELSE sp.st
        p == IF sp.pos = Rate THEN 0 ELSE sp.pos
    IN  [st |-> st, pos |-> p + 1, bytes |-> Append(sp.bytes, ByteAt(st, p))]

KeccakSqueeze(sp, n) ==
    LET a[j \in 0..n] ==
            IF j = 0 THEN [st |-> sp.st, pos |-> sp.pos, bytes |-> <<>>]
            ELSE SqueezeByte(a[j - 1])
    IN  a[n]

\* keccak_absorb_once: whole blocks first, then the rest from position 0.
KeccakAbsorbOnce(n) ==
    LET full == n \div Rate
        blocks == [b \in 1..full |->
                      [p \in Positions |-> Input((b - 1) * Rate + p)]]
        rest == [p \in Positions |->
                    IF full * Rate + p < n THEN Input(full * Rate + p) ELSE {}]
    IN  XorAt(XorAt([permuted |-> blocks, block |-> rest],
                    n - full * Rate, Domain), Rate - 1, LastBit)

\* keccak_squeezeblocks does not look at pos and leaves it alone.
SqueezeBlock(sp) ==
    LET t == Permute(sp.st)
    IN  [st |-> t, bytes |-> sp.bytes \o [p \in 1..Rate |-> ByteAt(t, p - 1)]]

KeccakSqueezeBlocks(st, nblocks) ==
    LET a[b \in 0..nblocks] ==
            IF b = 0 THEN [st |-> st, bytes |-> <<>>] ELSE SqueezeBlock(a[b - 1])
    IN  a[nblocks]

\* shake128, shake256: whole blocks, then the rest of the output; pos is
\* still the rate, so the rest starts with a permutation.
\* A bug: pos is 0 after absorb_once, as if a block were there to be read.
ShakePosZero(n, outlen) ==
    LET whole == KeccakSqueezeBlocks(KeccakAbsorbOnce(n), outlen \div Rate)
        rest == KeccakSqueeze([st |-> whole.st, pos |-> 0], outlen % Rate)
    IN  whole.bytes \o rest.bytes

Shake(n, outlen) ==
    LET whole == KeccakSqueezeBlocks(KeccakAbsorbOnce(n), outlen \div Rate)
        rest == KeccakSqueeze([st |-> whole.st, pos |-> Rate], outlen % Rate)
    IN  whole.bytes \o rest.bytes

\* sha3_256 and sha3_512: one permutation, and less than a block of it.
Sha3(n, outlen) ==
    LET st == Permute(KeccakAbsorbOnce(n))
    IN  [p \in 1..outlen |-> ByteAt(st, p - 1)]

------------------------------------------------------------------------------
(* indcpa_ref.c *)

\* rej_uniform on one group of three bytes: two candidates of twelve bits,
\* each kept if it is less than q and there is room.
Keep(r, len, v, small) ==
    IF Len(r) < len /\ v \in small THEN Append(r, v) ELSE r

KeepPair(r, len, pair, small) ==
    Keep(Keep(r, len, pair[1], small), len, pair[2], small)

Pair(buf, g) ==
    LET three == SubSeq(buf, 3 * g - 2, 3 * g)
    IN  <<[half |-> 0, of |-> three], [half |-> 1, of |-> three]>>

\* The groups for which pos + 3 <= buflen.
\* A bug: the comparison is strict.
GroupsStrict(buflen) == (buflen - 1) \div 3

Groups(buflen) == buflen \div 3

RejUniform(len, buf, small) ==
    LET r[g \in 0..Groups(Len(buf))] ==
            IF g = 0 THEN <<>> ELSE KeepPair(r[g - 1], len, Pair(buf, g), small)
    IN  r[Groups(Len(buf))]

Candidates(buf) ==
    UNION {{Pair(buf, g)[1], Pair(buf, g)[2]} : g \in 1..Len(buf) \div 3}

------------------------------------------------------------------------------
(* Callers *)

Init ==
    /\ caller = "none"
    /\ s = Fresh
    /\ pos = 0
    /\ absorbing = TRUE
    /\ taken = 0
    /\ out = <<>>
    /\ coeffs = <<>>
    /\ below = {}

sampling == <<coeffs, below>>

\* shake128_absorb, shake256_absorb
Absorb(n) ==
    /\ caller \in {"none", "pieces"}
    /\ absorbing
    /\ taken + n <= MaxIn
    /\ caller' = "pieces"
    /\ LET sp == KeccakAbsorb([st |-> s, pos |-> pos], taken, n)
       IN s' = sp.st /\ pos' = sp.pos
    /\ taken' = taken + n
    /\ UNCHANGED <<absorbing, out, sampling>>

\* shake128_finalize, shake256_finalize
Finalize ==
    /\ caller = "pieces"
    /\ absorbing
    /\ s' = KeccakFinalize(s, pos)
    /\ pos' = Rate
    /\ absorbing' = FALSE
    /\ UNCHANGED <<caller, taken, out, sampling>>

\* shake128_squeeze, shake256_squeeze
Squeeze(n) ==
    /\ caller = "pieces"
    /\ ~ absorbing
    /\ Len(out) + n <= MaxOut
    /\ LET sp == KeccakSqueeze([st |-> s, pos |-> pos], n)
       IN s' = sp.st /\ pos' = sp.pos /\ out' = out \o sp.bytes
    /\ UNCHANGED <<caller, absorbing, taken, sampling>>

\* shake128_squeezeblocks, shake256_squeezeblocks: their comment asks for
\* state->pos = RATE.
SqueezeBlocks(k) ==
    /\ caller = "pieces"
    /\ ~ absorbing
    /\ pos = Rate
    /\ Len(out) + k * Rate <= MaxOut
    /\ LET sp == KeccakSqueezeBlocks(s, k)
       IN s' = sp.st /\ out' = out \o sp.bytes
    /\ UNCHANGED <<caller, pos, absorbing, taken, sampling>>

OneShot(n, outlen) ==
    /\ caller = "none"
    /\ caller' = "oneshot"
    /\ taken' = n
    /\ \/ out' = Shake(n, outlen)
       \/ outlen < Rate /\ out' = Sha3(n, outlen)
    /\ UNCHANGED <<s, pos, absorbing, sampling>>

\* gen_matrix for one polynomial: kyber_shake128_absorb.  Only a sponge with
\* blocks of whole groups is sampled: #if (XOF_BLOCKBYTES % 3) #error.
StartSampling ==
    /\ caller = "none"
    /\ Rate % 3 = 0
    /\ caller' = "sampler"
    /\ s' = KeccakAbsorbOnce(SeedLen)
    /\ pos' = Rate
    /\ absorbing' = FALSE
    /\ taken' = SeedLen
    /\ UNCHANGED <<out, sampling>>

\* xof_squeezeblocks into buf, rej_uniform appends what there is room for.
Room == Length - Len(coeffs)

Sample(nblocks) ==
    /\ caller = "sampler"
    /\ Len(out) + nblocks * Rate <= MaxBlocks * Rate
    /\ LET sp == KeccakSqueezeBlocks(s, nblocks)
       IN /\ s' = sp.st
          /\ out' = out \o sp.bytes
          /\ \E small \in SUBSET Candidates(sp.bytes) :
                /\ coeffs' = coeffs \o RejUniform(Room, sp.bytes, small)
                /\ below' = below \cup small
    /\ UNCHANGED <<caller, pos, absorbing, taken>>

\* The first FirstBlocks blocks, then one at a time while ctr < KYBER_N.
SampleFirst == out = <<>> /\ Sample(FirstBlocks)

SampleMore == out # <<>> /\ Len(coeffs) < Length /\ Sample(1)

------------------------------------------------------------------------------
Next ==
    \/ \E n \in 0..MaxIn : Absorb(n)
    \/ StartSampling
    \/ Finalize
    \/ \E n \in 0..MaxOut : Squeeze(n) \/ SqueezeBlocks(n)
    \/ \E n \in 0..MaxIn, m \in 0..MaxOut : OneShot(n, m)
    \/ SampleFirst
    \/ SampleMore

Spec == Init /\ [][Next]_vars

------------------------------------------------------------------------------
(* The reference: FIPS 202's padded message, and the stream it gives *)

LastBlock(n) == n \div Rate

PaddedByte(n, j) ==
    (IF j < n THEN Input(j) ELSE {})
        \cup (IF j = n THEN Domain ELSE {})
        \cup (IF j = LastBlock(n) * Rate + Rate - 1 THEN LastBit ELSE {})

PaddedBlocks(n) ==
    [b \in 1..LastBlock(n) + 1 |->
        [p \in Positions |-> PaddedByte(n, (b - 1) * Rate + p)]]

StreamByte(n, k) ==
    [permuted |-> PaddedBlocks(n) \o [b \in 1..k \div Rate |-> Zero],
     at |-> k % Rate, plus |-> {}]

Stream(n, len) == [k \in 1..len |-> StreamByte(n, k - 1)]

------------------------------------------------------------------------------
TypeOK ==
    /\ caller \in {"none", "pieces", "oneshot", "sampler"}
    /\ DOMAIN s.block = Positions
    /\ pos \in 0..Rate
    /\ absorbing => pos < Rate
    /\ taken \in 0..MaxIn
    /\ Len(coeffs) <= Length

(***************************************************************************)
(* However the input was cut for absorb and the output for squeeze and     *)
(* squeezeblocks, and from the one-shot functions as well, what comes out  *)
(* is the stream FIPS 202 defines for the input: no byte is lost, repeated *)
(* or read before the state was permuted (keccak_absorb, keccak_finalize,  *)
(* keccak_squeeze, keccak_squeezeblocks, the pos that the callers keep).   *)
(***************************************************************************)
OutputIsStream == out = Stream(taken, Len(out))

\* The c-th candidate of the stream, and those less than q of the first n.
Candidate(c) == Pair(Stream(taken, Len(out)), (c + 1) \div 2)[2 - (c % 2)]

CandidatesBelow(n) ==
    LET kept[c \in 0..n] ==
            IF c = 0 THEN <<>>
            ELSE IF Candidate(c) \in below THEN Append(kept[c - 1], Candidate(c))
            ELSE kept[c - 1]
    IN  kept[n]

Prefix(seq, n) == SubSeq(seq, 1, IF Len(seq) < n THEN Len(seq) ELSE n)

(***************************************************************************)
(* A polynomial of the matrix is the first candidates below q of the       *)
(* stream, in order, however many blocks it took: the refill drops no      *)
(* bytes between blocks, writes none twice and none past KYBER_N, so the   *)
(* matrix does not depend on GEN_MATRIX_NBLOCKS.                           *)
(***************************************************************************)
SampledInOrder ==
    caller = "sampler" =>
        coeffs = Prefix(CandidatesBelow(2 * (Len(out) \div 3)), Length)
==============================================================================

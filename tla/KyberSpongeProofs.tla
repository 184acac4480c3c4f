-------------------------- MODULE KyberSpongeProofs ---------------------------
(***************************************************************************)
(* Proofs about KyberSponge, for every rate, every length of seed, input,  *)
(* output and polynomial.  Absorbing, padding and reading are given in     *)
(* closed form, as functions of how many bytes went in and came out; the   *)
(* loops of the code are then compared with them byte by byte.             *)
(***************************************************************************)
EXTENDS KyberSponge, WellFoundedInduction, TLAPS

(***************************************************************************)
(* Induction, as a fact about sets of numbers.                             *)
(***************************************************************************)
LEMMA LeastElement ==
    ASSUME NEW T \in SUBSET Nat, T # {}
    PROVE  \E x \in T : \A y \in T : x <= y
<1> DEFINE R == {ss \in Nat \X Nat : ss[1] < ss[2]}
<1>1. R = OpToRel(<, Nat)
  BY Zenon DEF OpToRel
<1>2. IsWellFoundedOn(R, Nat)
  BY <1>1, NatLessThanWellFounded, Zenon
<1>3. PICK x \in T : \A y \in T : ~ (<<y, x>> \in R)
  <2> HIDE DEF R
  <2> QED
    BY <1>2, WFMin
<1>4. \A y \in T : ~ (y < x)
  BY <1>3
<1> QED
  BY <1>4

LEMMA SetInduction ==
    ASSUME NEW S, 0 \in S, \A n \in Nat : n \in S => n + 1 \in S
    PROVE  Nat \subseteq S
<1> SUFFICES ASSUME Nat \ S # {} PROVE FALSE
  OBVIOUS
<1>1. PICK x \in Nat \ S : \A y \in Nat \ S : x <= y
  BY LeastElement
<1>2. x - 1 \in Nat /\ x - 1 \in S
  BY <1>1
<1> QED
  BY <1>2

\* Two loops that start alike and whose steps agree are alike.
LEMMA LoopsAgree ==
    ASSUME NEW f, NEW g, NEW n \in Nat, f[0] = g[0],
           \A j \in 1..n : f[j - 1] = g[j - 1] => f[j] = g[j]
    PROVE  f[n] = g[n]
<1> DEFINE S == {j \in Nat : j <= n => f[j] = g[j]}
<1>1. 0 \in S
  OBVIOUS
<1>2. ASSUME NEW j \in Nat, j \in S PROVE j + 1 \in S
  <2> SUFFICES ASSUME j + 1 <= n PROVE f[j + 1] = g[j + 1]
    OBVIOUS
  <2>1. f[j] = g[j] /\ j + 1 \in 1..n /\ (j + 1) - 1 = j
    BY <1>2
  <2> QED
    BY <2>1
<1> HIDE DEF S
<1>3. Nat \subseteq S
  BY <1>1, <1>2, SetInduction
<1>4. n \in S /\ n <= n
  BY <1>3
<1> QED
  BY <1>4 DEF S

------------------------------------------------------------------------------
(* Division by the rate *)

LEMMA DivFacts ==
    ASSUME NEW a \in Nat, NEW b \in Nat \ {0}
    PROVE  /\ a \div b \in Nat /\ a % b \in 0..b - 1
           /\ a = (a \div b) * b + (a % b)
BY SMT

LEMMA DivUnique ==
    ASSUME NEW a \in Nat, NEW b \in Nat \ {0}, NEW k \in Nat, NEW m \in Nat,
           m < b, a = k * b + m
    PROVE  a \div b = k /\ a % b = m
BY SMT

\* The next number has the next remainder, or the next quotient.
LEMMA DivNext ==
    ASSUME NEW a \in Nat, NEW b \in Nat \ {0}
    PROVE  IF (a % b) + 1 = b
           THEN (a + 1) \div b = (a \div b) + 1 /\ (a + 1) % b = 0
           ELSE (a + 1) \div b = a \div b /\ (a + 1) % b = (a % b) + 1
<1> DEFINE q == a \div b
           r == a % b
<1>1. q \in Nat /\ r \in 0..b - 1 /\ a = q * b + r
  BY DivFacts
<1> HIDE DEF q, r
<1>2. CASE r + 1 = b
  <2>1. a + 1 = (q + 1) * b + 0 /\ q + 1 \in Nat /\ 0 < b
    BY <1>1, <1>2, SMT
  <2>2. (a + 1) \div b = q + 1 /\ (a + 1) % b = 0
    BY <2>1, DivUnique, SMT
  <2> QED
    BY <1>2, <2>2 DEF q, r
<1>3. CASE r + 1 # b
  <2>1. PICK m \in Nat : m = r + 1 /\ m < b /\ a + 1 = q * b + m
    BY <1>1, <1>3, SMT
  <2>2. (a + 1) \div b = q /\ (a + 1) % b = r + 1
    <3>1. PICK c \in Nat : c = a + 1 /\ c = q * b + m
      BY <2>1, SMT
    <3>2. c \div b = q /\ c % b = m
      BY <1>1, <2>1, <3>1, DivUnique, SMT
    <3> QED
      BY <2>1, <3>1, <3>2
  <2> QED
    BY <1>3, <2>2 DEF q, r
<1> QED
  BY <1>2, <1>3

LEMMA RateFacts == Rate \in Nat \ {0} /\ Rate \in Nat /\ Rate > 0
BY SpongeAssumption

------------------------------------------------------------------------------
(* States, and what the operations do to their two parts *)

Bits == {"in", "domain", "last"} \X Nat

Blocks == [Positions -> SUBSET Bits]

State(w, b) == [permuted |-> w, block |-> b]

LEMMA StateParts ==
    ASSUME NEW w, NEW b
    PROVE  /\ State(w, b).permuted = w /\ State(w, b).block = b
           /\ \A z : [State(w, b) EXCEPT !.block = z] = State(w, z)
BY DEF State

LEMMA XorAtState ==
    ASSUME NEW w, NEW b, NEW p, NEW x
    PROVE  XorAt(State(w, b), p, x) = State(w, [b EXCEPT ![p] = Xor(b[p], x)])
<1>1. XorAt(State(w, b), p, x)
          = [State(w, b) EXCEPT !.block = [b EXCEPT ![p] = Xor(b[p], x)]]
  BY StateParts, Zenon DEF XorAt
<1> QED
  BY <1>1, StateParts

LEMMA PermuteState ==
    ASSUME NEW w, NEW b
    PROVE  Permute(State(w, b)) = State(Append(w, b), Zero)
BY StateParts, Zenon DEF Permute, State

LEMMA ByteAtState ==
    ASSUME NEW w, NEW b, NEW p
    PROVE  ByteAt(State(w, b), p) = [permuted |-> w, at |-> p, plus |-> b[p]]
BY StateParts, Zenon DEF ByteAt

------------------------------------------------------------------------------
(* Absorbing *)

\* Whole blocks of input, and r bytes of the block after them.
InputBlock(b) == [p \in Positions |-> Input((b - 1) * Rate + p)]

FullBlocks(q) == [b \in 1..q |-> InputBlock(b)]

Part(q, r) == [p \in Positions |-> IF p < r THEN Input(q * Rate + p) ELSE {}]

AbsorbedAt(q, r) == [st |-> State(FullBlocks(q), Part(q, r)), pos |-> r]

\* The sponge after k bytes.
Absorbed(k) == AbsorbedAt(k \div Rate, k % Rate)

LEMMA InputFacts ==
    ASSUME NEW k \in Nat
    PROVE  /\ Input(k) \subseteq Bits /\ Domain \subseteq Bits
           /\ LastBit \subseteq Bits
           /\ Input(k) # {} /\ Domain \cap LastBit = {}
           /\ \A j \in Nat : Input(j) = Input(k) => j = k
BY DEF Input, Domain, LastBit, Bits

LEMMA XorFacts ==
    ASSUME NEW a, NEW b
    PROVE  /\ Xor({}, a) = a
           /\ a \cap b = {} => Xor(a, b) = a \cup b
BY DEF Xor

LEMMA PartEnds ==
    ASSUME NEW q, NEW r \in Positions
    PROVE  Part(q, r)[r] = {}
BY DEF Part, Positions

LEMMA FullBlocksFacts ==
    ASSUME NEW q \in Nat
    PROVE  /\ FullBlocks(q) \in Seq(Blocks) /\ Len(FullBlocks(q)) = q
           /\ Zero \in Blocks
           /\ \A r \in Nat : Part(q, r) \in Blocks
           /\ Part(q, 0) = Zero
           /\ Append(FullBlocks(q), Part(q, Rate)) = FullBlocks(q + 1)
<1>1. ASSUME NEW b \in Nat \ {0}, NEW p \in Positions
      PROVE  Input((b - 1) * Rate + p) \in SUBSET Bits
  <2>1. (b - 1) * Rate + p \in Nat
    BY RateFacts, SMT DEF Positions
  <2> QED
    BY <2>1, InputFacts
<1>2. ASSUME NEW b \in Nat \ {0}
      PROVE  InputBlock(b) \in Blocks
  BY <1>1 DEF InputBlock, Blocks
<1>3. FullBlocks(q) \in Seq(Blocks) /\ Len(FullBlocks(q)) = q
  <2>1. FullBlocks(q) \in [1..q -> Blocks]
    BY <1>2 DEF FullBlocks
  <2> QED
    BY <2>1
<1>4. ASSUME NEW r \in Nat PROVE Part(q, r) \in Blocks
  <2>1. ASSUME NEW p \in Positions PROVE Input(q * Rate + p) \in SUBSET Bits
    <3>1. (q + 1) - 1 = q /\ q + 1 \in Nat \ {0}
      OBVIOUS
    <3> QED
      BY <1>1, <3>1
  <2> QED
    BY <2>1 DEF Part, Blocks
<1>5. Zero \in Blocks
  BY DEF Zero, Blocks
<1>6. Part(q, 0) = Zero
  BY DEF Part, Zero, Positions
<1>7. Append(FullBlocks(q), Part(q, Rate)) = FullBlocks(q + 1)
  <2>1. Part(q, Rate) = InputBlock(q + 1)
    <3>1. (q + 1) - 1 = q
      OBVIOUS
    <3> QED
      BY <3>1, RateFacts DEF Part, InputBlock, Positions
  <2>2. FullBlocks(q + 1)[q + 1] = InputBlock(q + 1)
    BY DEF FullBlocks
  <2>3. \A b \in 1..q : FullBlocks(q + 1)[b] = FullBlocks(q)[b]
    BY DEF FullBlocks
  <2>4. FullBlocks(q + 1) \in [1..q + 1 -> Blocks]
    BY <1>2 DEF FullBlocks
  <2> QED
    BY <1>3, <1>4, <2>1, <2>2, <2>3, <2>4, RateFacts
<1> QED
  BY <1>3, <1>4, <1>5, <1>6, <1>7

\* One byte more.
LEMMA AbsorbByteStep ==
    ASSUME NEW k \in Nat
    PROVE  AbsorbByte(Absorbed(k), k) = Absorbed(k + 1)
<1> DEFINE q == k \div Rate
           r == k % Rate
<1>1. q \in Nat /\ r \in Nat /\ r < Rate /\ k = q * Rate + r
  BY DivFacts, RateFacts
<1>2. IF r + 1 = Rate
      THEN (k + 1) \div Rate = q + 1 /\ (k + 1) % Rate = 0
      ELSE (k + 1) \div Rate = q /\ (k + 1) % Rate = r + 1
  BY DivNext, RateFacts
<1>3. Absorbed(k) = AbsorbedAt(q, r)
      /\ Absorbed(k + 1) = AbsorbedAt((k + 1) \div Rate, (k + 1) % Rate)
  BY DEF Absorbed
<1> HIDE DEF q, r
<1>4. r \in Positions /\ Part(q, r) \in Blocks
  BY <1>1, RateFacts, FullBlocksFacts DEF Positions
<1>5. [Part(q, r) EXCEPT ![r] = Xor(Part(q, r)[r], Input(k))]
          = Part(q, r + 1)
  <2>1. Xor(Part(q, r)[r], Input(k)) = Input(q * Rate + r)
    <3>1. Part(q, r)[r] = {}
      BY <1>4, PartEnds
    <3> QED
      BY <1>1, <3>1, XorFacts
  <2>2. Part(q, r + 1)[r] = Input(q * Rate + r)
    BY <1>1, <1>4 DEF Part
  <2>3. \A p \in Positions : p # r => Part(q, r + 1)[p] = Part(q, r)[p]
    BY <1>1, RateFacts DEF Part, Positions
  <2> QED
    BY <1>4, <2>1, <2>2, <2>3 DEF Part
<1>6. XorAt(AbsorbedAt(q, r).st, r, Input(k))
          = State(FullBlocks(q), Part(q, r + 1))
  <2>1. AbsorbedAt(q, r).st = State(FullBlocks(q), Part(q, r))
    BY DEF AbsorbedAt
  <2> QED
    BY <1>5, <2>1, XorAtState
<1>7. CASE r + 1 = Rate
  <2>1. Append(FullBlocks(q), Part(q, r + 1)) = FullBlocks(q + 1)
    BY <1>1, <1>7, FullBlocksFacts
  <2>2. Part(q + 1, 0) = Zero
    BY <1>1, FullBlocksFacts
  <2>3. Permute(State(FullBlocks(q), Part(q, r + 1)))
            = State(FullBlocks(q + 1), Part(q + 1, 0))
    BY <2>1, <2>2, PermuteState
  <2> QED
    BY <1>2, <1>3, <1>6, <1>7, <2>3 DEF AbsorbByte, AbsorbedAt
<1>8. CASE r + 1 # Rate
  BY <1>2, <1>3, <1>6, <1>8 DEF AbsorbByte, AbsorbedAt
<1> QED
  BY <1>7, <1>8

\* keccak_absorb, called with what it was called with before it.
LEMMA AbsorbLoop ==
    ASSUME NEW m \in Nat, NEW n \in Nat
    PROVE  KeccakAbsorb(Absorbed(m), m, n) = Absorbed(m + n)
<1> DEFINE g == [j \in 0..n |-> Absorbed(m + j)]
           f == CHOOSE f : f = [j \in 0..n |->
                    IF j = 0 THEN Absorbed(m)
                    ELSE AbsorbByte(f[j - 1], m + j - 1)]
<1>1. ASSUME NEW j \in 1..n
      PROVE  AbsorbByte(Absorbed(m + (j - 1)), m + j - 1) = Absorbed(m + j)
  <2>1. m + (j - 1) \in Nat /\ m + (j - 1) = m + j - 1
        /\ (m + (j - 1)) + 1 = m + j
    OBVIOUS
  <2> HIDE DEF f, g
  <2> QED
    BY <2>1, AbsorbByteStep
<1>2. g = [j \in 0..n |-> IF j = 0 THEN Absorbed(m)
                          ELSE AbsorbByte(g[j - 1], m + j - 1)]
  <2> SUFFICES ASSUME NEW j \in 0..n
               PROVE  Absorbed(m + j) = IF j = 0 THEN Absorbed(m)
                          ELSE AbsorbByte(g[j - 1], m + j - 1)
    OBVIOUS
  <2>1. CASE j = 0
    BY <2>1
  <2>2. CASE j \in 1..n
    <3>1. g[j - 1] = Absorbed(m + (j - 1))
      BY <2>2
    <3> QED
      BY <1>1, <2>2, <3>1
  <2> QED
    BY <2>1, <2>2
<1>3. f = [j \in 0..n |-> IF j = 0 THEN Absorbed(m)
                          ELSE AbsorbByte(f[j - 1], m + j - 1)]
  <2> HIDE DEF g
  <2> QED
    BY <1>2
<1>4. KeccakAbsorb(Absorbed(m), m, n) = f[n]
  BY DEF KeccakAbsorb
<1> HIDE DEF f
<1>5. f[0] = g[0]
  BY <1>3
<1>6. \A j \in 1..n : f[j - 1] = g[j - 1] => f[j] = g[j]
  BY <1>1, <1>3
<1> HIDE DEF g
<1>7. f[n] = g[n]
  BY <1>5, <1>6, LoopsAgree
<1> QED
  BY <1>4, <1>7 DEF g

------------------------------------------------------------------------------
(* Padding *)

LastPart(n) == [p \in Positions |-> PaddedByte(n, LastBlock(n) * Rate + p)]

Finalized(n) == State(FullBlocks(LastBlock(n)), LastPart(n))

\* What the two XORs of the padding make of the last block.
LEMMA PaddingOfPart ==
    ASSUME NEW n \in Nat, NEW q, NEW r, q = n \div Rate, r = n % Rate
    PROVE  XorAt(XorAt(State(FullBlocks(q), Part(q, r)), r, Domain),
                 Rate - 1, LastBit) = Finalized(n)
<1>1. q \in Nat /\ r \in Nat /\ r < Rate /\ n = q * Rate + r /\ q = LastBlock(n)
  BY DivFacts, RateFacts DEF LastBlock
<1>2. r \in Positions /\ Rate - 1 \in Positions
  BY <1>1, RateFacts DEF Positions
<1>3. Part(q, r)[r] = {} /\ Xor(Part(q, r)[r], Domain) = Domain
  <2>1. Part(q, r)[r] = {}
    BY <1>2, PartEnds
  <2> QED
    BY <2>1, XorFacts
<1> DEFINE b == [Part(q, r) EXCEPT ![r] = Xor(Part(q, r)[r], Domain)]
           c == [b EXCEPT ![Rate - 1] = Xor(b[Rate - 1], LastBit)]
<1>4. b = [p \in Positions |-> IF p = r THEN Domain ELSE Part(q, r)[p]]
  <2> HIDE DEF c
  <2> QED
    BY <1>3, <1>2 DEF Part
<1>5. ASSUME NEW p \in Positions PROVE c[p] = LastPart(n)[p]
  <2> DEFINE j == q * Rate + p
  <2>1. /\ j \in Nat /\ (j < n <=> p < r) /\ (j = n <=> p = r)
        /\ (j = q * Rate + Rate - 1 <=> p = Rate - 1)
    BY <1>1, RateFacts, SMT DEF Positions
  <2>2. Part(q, r)[p] = IF p < r THEN Input(j) ELSE {}
    BY DEF Part
  <2>3. LastPart(n)[p] = PaddedByte(n, j)
    BY <1>1 DEF LastPart
  <2> HIDE DEF j
  <2>4. PaddedByte(n, j) = (IF p < r THEN Input(j) ELSE {})
            \cup (IF p = r THEN Domain ELSE {})
            \cup (IF p = Rate - 1 THEN LastBit ELSE {})
    BY <1>1, <2>1 DEF PaddedByte
  <2>5. b[p] = IF p = r THEN Domain ELSE Part(q, r)[p]
    BY <1>4
  <2> HIDE DEF b
  <2>6. c[p] = IF p = Rate - 1 THEN Xor(b[p], LastBit) ELSE b[p]
    <3>1. b \in [Positions -> {b[x] : x \in Positions}]
      BY <1>4 DEF b
    <3> QED
      BY <1>2, <3>1
  <2> HIDE DEF c
  <2>7. ~ (p = r /\ p < r) /\ ~ (p = Rate - 1 /\ p < r)
    BY <1>1, RateFacts DEF Positions
  <2>8. Xor(Domain, LastBit) = Domain \cup LastBit /\ Xor({}, LastBit) = LastBit
    <3>1. Domain \cap LastBit = {}
      BY <1>1, InputFacts
    <3> QED
      BY <3>1, XorFacts
  <2> QED
    BY <2>2, <2>3, <2>4, <2>5, <2>6, <2>7, <2>8
<1>6. c = LastPart(n)
  <2>1. c = [p \in Positions |-> c[p]]
    <3> DEFINE d == [p \in Positions |-> IF p = r THEN Domain ELSE Part(q, r)[p]]
    <3>1. c = [d EXCEPT ![Rate - 1] = Xor(d[Rate - 1], LastBit)]
      BY <1>4
    <3> HIDE DEF c
    <3> QED
      BY <3>1
  <2> HIDE DEF c
  <2> QED
    BY <1>5, <2>1 DEF LastPart
<1>7. XorAt(XorAt(State(FullBlocks(q), Part(q, r)), r, Domain),
            Rate - 1, LastBit) = State(FullBlocks(q), c)
  <2>1. XorAt(State(FullBlocks(q), Part(q, r)), r, Domain) = State(FullBlocks(q), b)
    BY XorAtState
  <2> HIDE DEF b
  <2> QED
    BY <2>1, XorAtState
<1> HIDE DEF c
<1> QED
  BY <1>1, <1>6, <1>7 DEF Finalized

\* keccak_finalize, and keccak_absorb_once, give the padded message.
LEMMA FinalizePads ==
    ASSUME NEW n \in Nat
    PROVE  KeccakFinalize(Absorbed(n).st, Absorbed(n).pos) = Finalized(n)
<1>1. Absorbed(n).pos = n % Rate
      /\ Absorbed(n).st = State(FullBlocks(n \div Rate), Part(n \div Rate, n % Rate))
  BY DEF Absorbed, AbsorbedAt
<1> QED
  BY <1>1, PaddingOfPart DEF KeccakFinalize

LEMMA AbsorbOncePads ==
    ASSUME NEW n \in Nat
    PROVE  KeccakAbsorbOnce(n) = Finalized(n)
<1> DEFINE q == n \div Rate
           r == n % Rate
           blocks == [b \in 1..q |->
                         [p \in Positions |-> Input((b - 1) * Rate + p)]]
           rest == [p \in Positions |->
                       IF q * Rate + p < n THEN Input(q * Rate + p) ELSE {}]
<1>1. q \in Nat /\ r \in Nat /\ r < Rate /\ n = q * Rate + r
  BY DivFacts, RateFacts
<1>2. blocks = FullBlocks(q)
  BY DEF FullBlocks, InputBlock
<1>3. rest = Part(q, r)
  <2>1. ASSUME NEW p \in Positions PROVE q * Rate + p < n <=> p < r
    BY <1>1, RateFacts, SMT DEF Positions
  <2> QED
    BY <2>1 DEF Part
<1>4. n - q * Rate = r
  BY <1>1, RateFacts, SMT
<1>5. KeccakAbsorbOnce(n) = XorAt(XorAt(State(blocks, rest), n - q * Rate, Domain),
                                  Rate - 1, LastBit)
  BY DEF KeccakAbsorbOnce, State
<1> HIDE DEF blocks, rest
<1> QED
  BY <1>2, <1>3, <1>4, <1>5, PaddingOfPart

LEMMA PaddedFacts ==
    ASSUME NEW n \in Nat
    PROVE  /\ PaddedBlocks(n) \in Seq(Blocks)
           /\ LastPart(n) \in Blocks
           /\ PaddedBlocks(n) = Append(FullBlocks(LastBlock(n)), LastPart(n))
<1> DEFINE q == LastBlock(n)
           Row(b) == [p \in Positions |-> PaddedByte(n, (b - 1) * Rate + p)]
<1>1. q \in Nat /\ q * Rate <= n
  BY DivFacts, RateFacts, SMT DEF LastBlock
<1>2. ASSUME NEW b \in 1..q + 1, NEW p \in Positions
      PROVE  PaddedByte(n, (b - 1) * Rate + p) \in SUBSET Bits
  <2>1. (b - 1) * Rate + p \in Nat
    BY <1>1, RateFacts, SMT DEF Positions
  <2> HIDE DEF q
  <2> QED
    BY <2>1, InputFacts DEF PaddedByte
<1>3. ASSUME NEW b \in 1..q + 1 PROVE Row(b) \in Blocks
  BY <1>2 DEF Blocks
<1>4. ASSUME NEW b \in 1..q PROVE Row(b) = InputBlock(b)
  <2> SUFFICES ASSUME NEW p \in Positions
               PROVE  PaddedByte(n, (b - 1) * Rate + p) = Input((b - 1) * Rate + p)
    BY DEF InputBlock
  <2>1. PICK j \in Nat : j = (b - 1) * Rate + p
    BY <1>1, RateFacts, SMT DEF Positions
  <2>2. j < q * Rate
    <3> HIDE DEF q
    <3>1. b - 1 \in Nat /\ b <= q /\ p < Rate /\ p \in Nat
      BY <1>1, RateFacts DEF Positions
    <3>2. b * Rate <= q * Rate
      BY <1>1, <3>1, RateFacts, SMT
    <3> QED
      BY <1>1, <2>1, <3>1, <3>2, RateFacts, SMT
  <2>3. j < n /\ j # n /\ j # q * Rate + Rate - 1
    BY <1>1, <2>2, RateFacts, SMT
  <2>4. PaddedByte(n, j) = Input(j)
    BY <2>3 DEF PaddedByte
  <2> QED
    BY <2>1, <2>4
<1>5. Row(q + 1) = LastPart(n)
  <2>1. (q + 1) - 1 = q
    BY <1>1
  <2> QED
    BY <2>1 DEF LastPart
<1>6. PaddedBlocks(n) = [b \in 1..q + 1 |-> Row(b)]
  BY DEF PaddedBlocks
<1> HIDE DEF Row, q
<1>7. PaddedBlocks(n) \in [1..q + 1 -> Blocks]
  BY <1>3, <1>6
<1>8. PaddedBlocks(n) \in Seq(Blocks) /\ Len(PaddedBlocks(n)) = q + 1
  BY <1>1, <1>7
<1>9. LastPart(n) \in Blocks
  BY <1>1, <1>3, <1>5
<1>10. /\ Append(FullBlocks(q), LastPart(n)) \in Seq(Blocks)
       /\ Len(Append(FullBlocks(q), LastPart(n))) = q + 1
       /\ Append(FullBlocks(q), LastPart(n))[q + 1] = LastPart(n)
       /\ \A b \in 1..q : Append(FullBlocks(q), LastPart(n))[b] = InputBlock(b)
  <2>1. FullBlocks(q) \in Seq(Blocks) /\ Len(FullBlocks(q)) = q
    BY <1>1, FullBlocksFacts
  <2>2. \A b \in 1..q : FullBlocks(q)[b] = InputBlock(b)
    BY DEF FullBlocks
  <2> QED
    BY <1>9, <2>1, <2>2
<1>11. PaddedBlocks(n) = Append(FullBlocks(q), LastPart(n))
  <2>1. \A b \in 1..q + 1 :
            PaddedBlocks(n)[b] = Append(FullBlocks(q), LastPart(n))[b]
    BY <1>1, <1>4, <1>5, <1>6, <1>10
  <2> QED
    BY <1>8, <1>10, <2>1
<1> QED
  BY <1>8, <1>9, <1>11 DEF q

------------------------------------------------------------------------------
(* Reading *)

Zeros(k) == [b \in 1..k |-> Zero]

Permuted(n, k) == PaddedBlocks(n) \o Zeros(k)

\* The state for an input of n bytes after c permutations.
ReadState(n, c) ==
    IF c = 0 THEN Finalized(n) ELSE State(Permuted(n, c - 1), Zero)

\* The blocks begun after len bytes of output, and pos in the last of them.
BlocksRead(len) == (len + Rate - 1) \div Rate

PosAfter(len) == len + Rate - BlocksRead(len) * Rate

LEMMA PermutedFacts ==
    ASSUME NEW n \in Nat, NEW k \in Nat
    PROVE  /\ Permuted(n, 0) = PaddedBlocks(n)
           /\ Append(Permuted(n, k), Zero) = Permuted(n, k + 1)
<1>1. PaddedBlocks(n) \in Seq(Blocks) /\ Zero \in Blocks
  BY PaddedFacts, FullBlocksFacts
<1>2. \A m \in Nat : Zeros(m) \in Seq(Blocks) /\ Len(Zeros(m)) = m
                     /\ \A b \in 1..m : Zeros(m)[b] = Zero
  BY <1>1 DEF Zeros
<1>3. Permuted(n, 0) = PaddedBlocks(n)
  <2>1. Zeros(0) = <<>>
    BY <1>2
  <2> QED
    BY <1>1, <2>1 DEF Permuted
<1>4. Append(Zeros(k), Zero) = Zeros(k + 1)
  BY <1>1, <1>2
<1>5. Append(PaddedBlocks(n) \o Zeros(k), Zero)
          = PaddedBlocks(n) \o Append(Zeros(k), Zero)
  <2>1. Zeros(k) \in Seq(Blocks)
    BY <1>2
  <2> QED
    BY <1>1, <2>1
<1> QED
  BY <1>3, <1>4, <1>5 DEF Permuted

LEMMA PermuteRead ==
    ASSUME NEW n \in Nat, NEW c \in Nat
    PROVE  Permute(ReadState(n, c)) = ReadState(n, c + 1)
<1>1. ReadState(n, c + 1) = State(Permuted(n, c), Zero)
  BY DEF ReadState
<1>2. CASE c = 0
  <2>1. Permute(Finalized(n))
            = State(Append(FullBlocks(LastBlock(n)), LastPart(n)), Zero)
    BY PermuteState DEF Finalized
  <2> QED
    BY <1>1, <1>2, <2>1, PaddedFacts, PermutedFacts DEF ReadState
<1>3. CASE c # 0
  <2>1. c - 1 \in Nat /\ (c - 1) + 1 = c
    BY <1>3
  <2>2. Append(Permuted(n, c - 1), Zero) = Permuted(n, c)
    BY <2>1, PermutedFacts
  <2>3. ReadState(n, c) = State(Permuted(n, c - 1), Zero)
    BY <1>3 DEF ReadState
  <2> QED
    BY <1>1, <2>2, <2>3, PermuteState
<1> QED
  BY <1>2, <1>3

LEMMA ByteOfRead ==
    ASSUME NEW n \in Nat, NEW c \in Nat, NEW p \in Positions
    PROVE  ByteAt(ReadState(n, c + 1), p) = StreamByte(n, c * Rate + p)
<1>1. ReadState(n, c + 1) = State(Permuted(n, c), Zero)
  BY DEF ReadState
<1>2. Zero[p] = {}
  BY DEF Zero
<1>3. PICK k \in Nat : k = c * Rate + p
  BY RateFacts, SMT DEF Positions
<1>4. k \div Rate = c /\ k % Rate = p
  BY <1>3, DivUnique, RateFacts, SMT DEF Positions
<1>5. ByteAt(State(Permuted(n, c), Zero), p)
          = [permuted |-> Permuted(n, c), at |-> p, plus |-> Zero[p]]
  BY ByteAtState
<1> QED
  BY <1>1, <1>2, <1>3, <1>4, <1>5 DEF StreamByte, Permuted, Zeros

LEMMA PlaceFacts ==
    ASSUME NEW len \in Nat
    PROVE  /\ BlocksRead(len) \in Nat /\ PosAfter(len) \in 1..Rate
           /\ len + Rate = BlocksRead(len) * Rate + PosAfter(len)
           /\ BlocksRead(len) = 0 => len = 0
           /\ IF PosAfter(len) = Rate
              THEN /\ BlocksRead(len + 1) = BlocksRead(len) + 1
                   /\ PosAfter(len + 1) = 1
              ELSE /\ BlocksRead(len + 1) = BlocksRead(len)
                   /\ PosAfter(len + 1) = PosAfter(len) + 1
<1>1. PICK a \in Nat : a = len + Rate - 1
  BY RateFacts
<1> DEFINE c == a \div Rate
           m == a % Rate
<1>2. c \in Nat /\ m \in 0..Rate - 1 /\ a = c * Rate + m
  BY DivFacts, RateFacts
<1>3. IF m + 1 = Rate
      THEN (a + 1) \div Rate = c + 1 ELSE (a + 1) \div Rate = c
  BY DivNext, RateFacts
<1>4. a + 1 = len + 1 + Rate - 1
  BY <1>1, RateFacts
<1>5. BlocksRead(len) = c /\ BlocksRead(len + 1) = (a + 1) \div Rate
  BY <1>1, <1>4 DEF BlocksRead
<1> HIDE DEF c, m
<1>6. PosAfter(len) = m + 1
  BY <1>1, <1>2, <1>5, RateFacts, SMT DEF PosAfter
<1>7. BlocksRead(len) = 0 => len = 0
  BY <1>1, <1>2, <1>5, RateFacts, SMT
<1>8. CASE m + 1 = Rate
  <2>1. BlocksRead(len + 1) = c + 1
    BY <1>3, <1>5, <1>8
  <2>2. PosAfter(len + 1) = 1
    BY <1>1, <1>2, <1>8, <2>1, RateFacts, SMT DEF PosAfter
  <2> QED
    BY <1>1, <1>2, <1>5, <1>6, <1>7, <1>8, <2>1, <2>2, RateFacts
<1>9. CASE m + 1 # Rate
  <2>1. BlocksRead(len + 1) = c
    BY <1>3, <1>5, <1>9
  <2>2. PosAfter(len + 1) = m + 2
    BY <1>1, <1>2, <2>1, RateFacts, SMT DEF PosAfter
  <2> QED
    BY <1>1, <1>2, <1>5, <1>6, <1>7, <1>9, <2>1, <2>2, RateFacts
<1> QED
  BY <1>8, <1>9

------------------------------------------------------------------------------
(* Squeezing *)

\* The m bytes of the stream from the byte len on.
Piece(n, len, m) == [k \in 1..m |-> StreamByte(n, len + k - 1)]

StreamBytes(n) == {StreamByte(n, k) : k \in Nat}

LEMMA PieceFacts ==
    ASSUME NEW n \in Nat, NEW len \in Nat, NEW m \in Nat
    PROVE  /\ Piece(n, len, m) \in Seq(StreamBytes(n))
           /\ Len(Piece(n, len, m)) = m
           /\ \A k \in 1..m : Piece(n, len, m)[k] = StreamByte(n, len + k - 1)
<1>1. \A k \in 1..m : StreamByte(n, len + k - 1) \in StreamBytes(n)
  <2> SUFFICES ASSUME NEW k \in 1..m
               PROVE  StreamByte(n, len + k - 1) \in StreamBytes(n)
    OBVIOUS
  <2>1. len + k - 1 \in Nat
    OBVIOUS
  <2> QED
    BY <2>1 DEF StreamBytes
<1>2. Piece(n, len, m) \in [1..m -> StreamBytes(n)]
  BY <1>1 DEF Piece
<1>3. Piece(n, len, m) \in Seq(StreamBytes(n)) /\ Len(Piece(n, len, m)) = m
  BY <1>2
<1>4. \A k \in 1..m : Piece(n, len, m)[k] = StreamByte(n, len + k - 1)
  BY DEF Piece
<1> QED
  BY <1>3, <1>4

LEMMA PieceEntry ==
    ASSUME NEW n \in Nat, NEW len \in Nat, NEW m \in Nat, NEW k \in 1..m,
           NEW j \in Nat, len + k = j + 1
    PROVE  Piece(n, len, m)[k] = StreamByte(n, j)
<1>1. len + k - 1 = j
  OBVIOUS
<1>2. Piece(n, len, m)[k] = StreamByte(n, len + k - 1)
  BY DEF Piece
<1> QED
  BY <1>1, <1>2

LEMMA StreamIsPiece ==
    ASSUME NEW n, NEW len \in Nat
    PROVE  Stream(n, len) = Piece(n, 0, len)
<1>1. \A k \in 1..len : k - 1 = 0 + k - 1
  OBVIOUS
<1> QED
  BY <1>1 DEF Stream, Piece

LEMMA EmptyPiece ==
    ASSUME NEW n \in Nat, NEW len \in Nat
    PROVE  Piece(n, len, 0) = <<>>
BY PieceFacts

\* When a sequence is one followed by another, and followed by an element.
LEMMA IsConcat ==
    ASSUME NEW S, NEW a \in Seq(S), NEW b \in Seq(S), NEW c \in Seq(S),
           Len(c) = Len(a) + Len(b),
           \A k \in 1..Len(a) : c[k] = a[k],
           \A k \in 1..Len(b) : c[Len(a) + k] = b[k]
    PROVE  a \o b = c
<1>1. Len(a) \in Nat /\ Len(b) \in Nat
  OBVIOUS
<1>2. ASSUME NEW k \in 1..Len(c) PROVE (a \o b)[k] = c[k]
  <2>1. CASE k <= Len(a)
    BY <1>1, <2>1
  <2>2. CASE k > Len(a)
    <3>1. k - Len(a) \in 1..Len(b) /\ Len(a) + (k - Len(a)) = k
      BY <1>1, <2>2
    <3>2. c[k] = b[k - Len(a)]
      BY <3>1
    <3> QED
      BY <1>1, <2>2, <3>2
  <2> QED
    BY <1>1, <2>1, <2>2
<1>3. a \o b \in Seq(S) /\ Len(a \o b) = Len(c)
  OBVIOUS
<1> QED
  BY <1>2, <1>3

LEMMA IsAppend ==
    ASSUME NEW S, NEW a \in Seq(S), NEW e \in S, NEW c \in Seq(S),
           Len(c) = Len(a) + 1, c[Len(a) + 1] = e,
           \A k \in 1..Len(a) : c[k] = a[k]
    PROVE  Append(a, e) = c
OBVIOUS

\* One sequence after another, as an operator the provers leave whole.
Then(a, b) == a \o b

\* Pieces that follow one another are one piece.
LEMMA PiecesJoin ==
    \A n, len, m1, m2 \in Nat :
        Then(Piece(n, len, m1), Piece(n, len + m1, m2)) = Piece(n, len, m1 + m2)
<1> TAKE n, len, m1, m2 \in Nat
<1> DEFINE S == StreamBytes(n)
           a == Piece(n, len, m1)
           b == Piece(n, len + m1, m2)
           c == Piece(n, len, m1 + m2)
<1>1. a \in Seq(S) /\ Len(a) = m1
  BY PieceFacts
<1>2. b \in Seq(S) /\ Len(b) = m2
  <2>1. len + m1 \in Nat
    OBVIOUS
  <2> QED
    BY <2>1, PieceFacts, Zenon
<1>3. c \in Seq(S) /\ Len(c) = m1 + m2
  <2>1. m1 + m2 \in Nat
    OBVIOUS
  <2> QED
    BY <2>1, PieceFacts, Zenon
<1>4. \A k \in 1..m1 : c[k] = a[k]
  BY DEF Piece
<1>5. ASSUME NEW k \in 1..m2 PROVE c[m1 + k] = b[k]
  <2>1. m1 + k \in 1..m1 + m2 /\ len + (m1 + k) - 1 = (len + m1) + k - 1
    OBVIOUS
  <2>2. c[m1 + k] = StreamByte(n, len + (m1 + k) - 1)
    BY <2>1 DEF Piece
  <2>3. b[k] = StreamByte(n, (len + m1) + k - 1)
    BY DEF Piece
  <2> QED
    BY <2>1, <2>2, <2>3
<1> HIDE DEF a, b, c, S
<1>6. /\ \A k \in 1..Len(a) : c[k] = a[k]
      /\ \A k \in 1..Len(b) : c[Len(a) + k] = b[k]
      /\ Len(c) = Len(a) + Len(b)
  BY <1>1, <1>2, <1>3, <1>4, <1>5
<1>7. a \o b = c
  BY <1>1, <1>2, <1>3, <1>6, IsConcat
<1> QED
  BY <1>7 DEF a, b, c, Then

LEMMA PiecesJoinAt ==
    \A n, len, m1, m2, l, m \in Nat :
        l = len + m1 /\ m = m1 + m2
            => Then(Piece(n, len, m1), Piece(n, l, m2)) = Piece(n, len, m)
BY PiecesJoin

LEMMA PieceGrows ==
    ASSUME NEW n \in Nat, NEW len \in Nat, NEW m \in Nat
    PROVE  Append(Piece(n, len, m), StreamByte(n, len + m)) = Piece(n, len, m + 1)
<1> DEFINE S == StreamBytes(n)
           a == Piece(n, len, m)
           c == Piece(n, len, m + 1)
           e == StreamByte(n, len + m)
<1>1. a \in Seq(S) /\ Len(a) = m
  BY PieceFacts
<1>2. c \in Seq(S) /\ Len(c) = m + 1
  <2>1. m + 1 \in Nat
    OBVIOUS
  <2> QED
    BY <2>1, PieceFacts, Zenon
<1>3. \A k \in 1..m : c[k] = a[k]
  BY DEF Piece
<1>4. c[m + 1] = e
  <2>1. m + 1 \in 1..m + 1 /\ len + (m + 1) - 1 = len + m
    OBVIOUS
  <2> QED
    BY <2>1 DEF Piece
<1>5. e \in S
  BY DEF StreamBytes
<1> HIDE DEF a, c, S, e
<1>6. Append(a, e) = c
  BY <1>1, <1>2, <1>3, <1>4, <1>5, IsAppend
<1> QED
  BY <1>6 DEF a, c, e

\* The sponge after m more bytes than the first len were squeezed.
Squeezed(n, len, m) ==
    [st |-> ReadState(n, BlocksRead(len + m)), pos |-> PosAfter(len + m),
     bytes |-> Piece(n, len, m)]

LEMMA SqueezeByteStep ==
    ASSUME NEW n \in Nat, NEW len \in Nat, NEW m \in Nat
    PROVE  SqueezeByte(Squeezed(n, len, m)) = Squeezed(n, len, m + 1)
<1>1. PICK k \in Nat : k = len + m
  OBVIOUS
<1>2. len + (m + 1) = k + 1
  BY <1>1
<1> DEFINE c == BlocksRead(k)
           r == PosAfter(k)
           sp == Squeezed(n, len, m)
<1>3. /\ c \in Nat /\ r \in 1..Rate /\ k + Rate = c * Rate + r
      /\ c = 0 => k = 0
      /\ IF r = Rate
         THEN BlocksRead(k + 1) = c + 1 /\ PosAfter(k + 1) = 1
         ELSE BlocksRead(k + 1) = c /\ PosAfter(k + 1) = r + 1
  BY PlaceFacts
<1>4. /\ sp.st = ReadState(n, c) /\ sp.pos = r /\ sp.bytes = Piece(n, len, m)
      /\ Squeezed(n, len, m + 1) =
             [st |-> ReadState(n, BlocksRead(k + 1)), pos |-> PosAfter(k + 1),
              bytes |-> Piece(n, len, m + 1)]
  BY <1>1, <1>2 DEF Squeezed
<1> HIDE DEF c, r, sp
<1>5. Append(sp.bytes, StreamByte(n, k)) = Piece(n, len, m + 1)
  <2>1. Append(Piece(n, len, m), StreamByte(n, len + m)) = Piece(n, len, m + 1)
    BY PieceGrows
  <2>2. Append(Piece(n, len, m), StreamByte(n, k)) = Piece(n, len, m + 1)
    BY <1>1, <2>1
  <2> QED
    BY <1>4, <2>2
<1>6. CASE r = Rate
  <2>1. Permute(sp.st) = ReadState(n, c + 1)
    BY <1>3, <1>4, PermuteRead
  <2>2. k = c * Rate + 0 /\ 0 \in Positions
    BY <1>1, <1>3, <1>6, RateFacts, SMT DEF Positions
  <2>3. ByteAt(ReadState(n, c + 1), 0) = StreamByte(n, k)
    <3>1. ByteAt(ReadState(n, c + 1), 0) = StreamByte(n, c * Rate + 0)
      BY <1>3, <2>2, ByteOfRead
    <3> QED
      BY <2>2, <3>1
  <2>4. SqueezeByte(sp) = [st |-> ReadState(n, c + 1), pos |-> 1,
                           bytes |-> Append(sp.bytes, StreamByte(n, k))]
    BY <1>4, <1>6, <2>1, <2>3 DEF SqueezeByte
  <2> QED
    BY <1>3, <1>4, <1>5, <1>6, <2>4 DEF sp
<1>7. CASE r # Rate
  <2>1. PICK d \in Nat : c = d + 1 /\ k = d * Rate + r
    <3>1. c # 0
      BY <1>3, <1>7, RateFacts, SMT
    <3>2. c - 1 \in Nat /\ k = (c - 1) * Rate + r
      BY <1>1, <1>3, <3>1, RateFacts, SMT
    <3> QED
      BY <1>3, <3>2
  <2>2. r \in Positions
    BY <1>3, <1>7, RateFacts DEF Positions
  <2>3. ByteAt(ReadState(n, c), r) = StreamByte(n, k)
    BY <2>1, <2>2, ByteOfRead
  <2>4. SqueezeByte(sp) = [st |-> ReadState(n, c), pos |-> r + 1,
                           bytes |-> Append(sp.bytes, StreamByte(n, k))]
    BY <1>4, <1>7, <2>3 DEF SqueezeByte
  <2> QED
    BY <1>3, <1>4, <1>5, <1>7, <2>4 DEF sp
<1> QED
  BY <1>6, <1>7

\* keccak_squeeze, called on what earlier calls left.
LEMMA SqueezeLoop ==
    ASSUME NEW n \in Nat, NEW len \in Nat, NEW m \in Nat, NEW sp,
           sp.st = ReadState(n, BlocksRead(len)), sp.pos = PosAfter(len)
    PROVE  KeccakSqueeze(sp, m) = Squeezed(n, len, m)
<1> DEFINE first == [st |-> sp.st, pos |-> sp.pos, bytes |-> <<>>]
           g == [j \in 0..m |-> Squeezed(n, len, j)]
           f == CHOOSE f : f = [j \in 0..m |->
                    IF j = 0 THEN first ELSE SqueezeByte(f[j - 1])]
<1>1. first = Squeezed(n, len, 0)
  BY EmptyPiece DEF Squeezed
<1>2. ASSUME NEW j \in 1..m
      PROVE  SqueezeByte(Squeezed(n, len, j - 1)) = Squeezed(n, len, j)
  <2>1. j - 1 \in Nat /\ (j - 1) + 1 = j
    OBVIOUS
  <2> HIDE DEF f, g
  <2> QED
    BY <2>1, SqueezeByteStep
<1>3. g = [j \in 0..m |-> IF j = 0 THEN first ELSE SqueezeByte(g[j - 1])]
  <2> HIDE DEF first
  <2> SUFFICES ASSUME NEW j \in 0..m
               PROVE  Squeezed(n, len, j) = IF j = 0 THEN first
                                            ELSE SqueezeByte(g[j - 1])
    OBVIOUS
  <2>1. CASE j = 0
    BY <1>1, <2>1
  <2>2. CASE j \in 1..m
    <3>1. g[j - 1] = Squeezed(n, len, j - 1)
      BY <2>2
    <3> QED
      BY <1>2, <2>2, <3>1
  <2> QED
    BY <2>1, <2>2
<1>4. f = [j \in 0..m |-> IF j = 0 THEN first ELSE SqueezeByte(f[j - 1])]
  <2> HIDE DEF g, first
  <2> QED
    BY <1>3
<1>5. KeccakSqueeze(sp, m) = f[m]
  BY DEF KeccakSqueeze
<1> HIDE DEF f, first
<1>6. f[0] = g[0]
  BY <1>1, <1>4
<1>7. \A j \in 1..m : f[j - 1] = g[j - 1] => f[j] = g[j]
  BY <1>2, <1>4
<1> HIDE DEF g
<1>8. f[m] = g[m]
  BY <1>6, <1>7, LoopsAgree
<1> QED
  BY <1>5, <1>8 DEF g

------------------------------------------------------------------------------
(* Squeezing whole blocks, and the one-shot functions *)

LEMMA WholeBlocks ==
    ASSUME NEW c \in Nat, NEW len \in Nat, len = c * Rate
    PROVE  BlocksRead(len) = c /\ PosAfter(len) = Rate
<1>1. PICK a \in Nat : a = len + Rate - 1
  BY RateFacts
<1>2. PICK m \in Nat : m = Rate - 1
  BY RateFacts
<1>3. a \div Rate = c
  BY <1>1, <1>2, DivUnique, RateFacts, SMT
<1>4. BlocksRead(len) = c
  BY <1>1, <1>3 DEF BlocksRead
<1>5. PosAfter(len) = len + Rate - c * Rate
  BY <1>4 DEF PosAfter
<1>6. PICK k \in Nat : k = c * Rate
  OBVIOUS
<1> QED
  BY <1>4, <1>5, <1>6, RateFacts

\* And a place where pos is the rate is the end of a block.
LEMMA EndOfBlock ==
    ASSUME NEW len \in Nat, PosAfter(len) = Rate
    PROVE  len = BlocksRead(len) * Rate
<1>1. BlocksRead(len) \in Nat /\ len + Rate = BlocksRead(len) * Rate + Rate
  BY PlaceFacts
<1>2. PICK k \in Nat : k = BlocksRead(len) * Rate
  BY <1>1, RateFacts
<1> QED
  BY <1>1, <1>2, RateFacts

\* The first bytes of a block read at once.
LEMMA BlockIsPiece ==
    ASSUME NEW n \in Nat, NEW c \in Nat, NEW len \in Nat, len = c * Rate,
           NEW m \in 0..Rate
    PROVE  [p \in 1..m |-> ByteAt(ReadState(n, c + 1), p - 1)] = Piece(n, len, m)
<1>1. ASSUME NEW p \in 1..m
      PROVE  ByteAt(ReadState(n, c + 1), p - 1) = StreamByte(n, len + p - 1)
  <2>1. p - 1 \in Positions
    BY RateFacts DEF Positions
  <2>2. c * Rate + (p - 1) = len + p - 1
    <3>1. PICK k \in Nat : k = c * Rate
      BY RateFacts
    <3> QED
      BY <3>1
  <2>3. ByteAt(ReadState(n, c + 1), p - 1) = StreamByte(n, c * Rate + (p - 1))
    BY <2>1, ByteOfRead
  <2> QED
    BY <2>2, <2>3
<1> QED
  BY <1>1 DEF Piece

\* b more blocks after the first c of them.
BlocksAfter(n, c, b) ==
    [st |-> ReadState(n, c + b), bytes |-> Piece(n, c * Rate, b * Rate)]

LEMMA SqueezeBlockStep ==
    ASSUME NEW n \in Nat, NEW c \in Nat, NEW b \in Nat
    PROVE  SqueezeBlock(BlocksAfter(n, c, b)) = BlocksAfter(n, c, b + 1)
<1>1. PICK from \in Nat : from = c * Rate
  BY RateFacts
<1>2. PICK m \in Nat : m = b * Rate
  BY RateFacts
<1>3. PICK d \in Nat : d = c + b
  OBVIOUS
<1>4. PICK l \in Nat : l = from + m
  OBVIOUS
<1>5. PICK m1 \in Nat : m1 = m + Rate
  BY RateFacts
<1>6. l = d * Rate /\ m1 = (b + 1) * Rate
  BY <1>1, <1>2, <1>3, <1>4, <1>5, RateFacts, SMT
<1>7. Permute(ReadState(n, d)) = ReadState(n, d + 1)
  BY PermuteRead
<1>8. [p \in 1..Rate |-> ByteAt(ReadState(n, d + 1), p - 1)] = Piece(n, l, Rate)
  BY <1>6, BlockIsPiece, RateFacts
<1>9. Then(Piece(n, from, m), Piece(n, l, Rate)) = Piece(n, from, m1)
  <2>1. from \in Nat /\ m \in Nat /\ l \in Nat /\ m1 \in Nat
    BY <1>1, <1>2, <1>4, <1>5
  <2> QED
    BY <1>4, <1>5, <2>1, PiecesJoinAt, RateFacts
<1>10. BlocksAfter(n, c, b) = [st |-> ReadState(n, d), bytes |-> Piece(n, from, m)]
  BY <1>1, <1>2, <1>3 DEF BlocksAfter
<1>11. BlocksAfter(n, c, b + 1)
           = [st |-> ReadState(n, d + 1), bytes |-> Piece(n, from, m1)]
  <2>1. c + (b + 1) = d + 1
    BY <1>3
  <2> QED
    BY <1>1, <1>6, <2>1 DEF BlocksAfter
<1> DEFINE sp == BlocksAfter(n, c, b)
<1>12. sp.st = ReadState(n, d) /\ sp.bytes = Piece(n, from, m)
  BY <1>10
<1> HIDE DEF sp
<1>13. SqueezeBlock(sp) =
           [st |-> ReadState(n, d + 1),
            bytes |-> Piece(n, from, m) \o
                [p \in 1..Rate |-> ByteAt(ReadState(n, d + 1), p - 1)]]
  BY <1>7, <1>12, Zenon DEF SqueezeBlock
<1> QED
  BY <1>8, <1>9, <1>11, <1>13 DEF sp, Then

LEMMA SqueezeBlocksLoop ==
    ASSUME NEW n \in Nat, NEW c \in Nat, NEW nb \in Nat
    PROVE  KeccakSqueezeBlocks(ReadState(n, c), nb) = BlocksAfter(n, c, nb)
<1> DEFINE st == ReadState(n, c)
           first == [st |-> st, bytes |-> <<>>]
           g == [b \in 0..nb |-> BlocksAfter(n, c, b)]
           f == CHOOSE f : f = [b \in 0..nb |->
                    IF b = 0 THEN first ELSE SqueezeBlock(f[b - 1])]
<1>1. first = BlocksAfter(n, c, 0)
  <2>1. c + 0 = c /\ 0 * Rate = 0 /\ c * Rate \in Nat
    BY RateFacts
  <2>2. Piece(n, c * Rate, 0) = <<>>
    BY <2>1, EmptyPiece
  <2> QED
    BY <2>1, <2>2 DEF BlocksAfter
<1>2. ASSUME NEW b \in 1..nb
      PROVE  SqueezeBlock(BlocksAfter(n, c, b - 1)) = BlocksAfter(n, c, b)
  <2>1. b - 1 \in Nat /\ (b - 1) + 1 = b
    OBVIOUS
  <2> HIDE DEF f, g
  <2> QED
    BY <2>1, SqueezeBlockStep
<1>3. g = [b \in 0..nb |-> IF b = 0 THEN first ELSE SqueezeBlock(g[b - 1])]
  <2> HIDE DEF first
  <2> SUFFICES ASSUME NEW b \in 0..nb
               PROVE  BlocksAfter(n, c, b) = IF b = 0 THEN first
                                             ELSE SqueezeBlock(g[b - 1])
    OBVIOUS
  <2>1. CASE b = 0
    BY <1>1, <2>1
  <2>2. CASE b \in 1..nb
    <3>1. g[b - 1] = BlocksAfter(n, c, b - 1)
      BY <2>2
    <3> QED
      BY <1>2, <2>2, <3>1
  <2> QED
    BY <2>1, <2>2
<1>4. f = [b \in 0..nb |-> IF b = 0 THEN first ELSE SqueezeBlock(f[b - 1])]
  <2> HIDE DEF g, first
  <2> QED
    BY <1>3
<1>5. KeccakSqueezeBlocks(st, nb) = f[nb]
  BY DEF KeccakSqueezeBlocks
<1> HIDE DEF f, first
<1>6. f[0] = g[0]
  BY <1>1, <1>4
<1>7. \A b \in 1..nb : f[b - 1] = g[b - 1] => f[b] = g[b]
  BY <1>2, <1>4
<1> HIDE DEF g
<1>8. f[nb] = g[nb]
  BY <1>6, <1>7, LoopsAgree
<1> QED
  BY <1>5, <1>8 DEF g

\* shake128, shake256
LEMMA ShakeIsStream ==
    ASSUME NEW n \in Nat, NEW outlen \in Nat
    PROVE  Shake(n, outlen) = Stream(n, outlen)
<1> DEFINE k == outlen \div Rate
           r == outlen % Rate
           whole == KeccakSqueezeBlocks(KeccakAbsorbOnce(n), k)
           rest == KeccakSqueeze([st |-> whole.st, pos |-> Rate], r)
<1>1. k \in Nat /\ r \in Nat /\ outlen = k * Rate + r
  BY DivFacts, RateFacts
<1>2. KeccakAbsorbOnce(n) = ReadState(n, 0)
  BY AbsorbOncePads DEF ReadState
<1> HIDE DEF k, r
<1>3. PICK l \in Nat : l = k * Rate
  BY <1>1, RateFacts
<1>4. whole = [st |-> ReadState(n, k), bytes |-> Piece(n, 0, l)]
  <2>1. whole = BlocksAfter(n, 0, k)
    BY <1>1, <1>2, SqueezeBlocksLoop
  <2>2. 0 + k = k /\ 0 * Rate = 0
    BY <1>1, RateFacts
  <2> QED
    BY <1>3, <2>1, <2>2 DEF BlocksAfter
<1>5. BlocksRead(l) = k /\ PosAfter(l) = Rate
  BY <1>1, <1>3, WholeBlocks
<1>6. rest = Squeezed(n, l, r)
  <2> DEFINE sp == [st |-> whole.st, pos |-> Rate]
  <2>1. sp.st = ReadState(n, BlocksRead(l)) /\ sp.pos = PosAfter(l)
    BY <1>4, <1>5
  <2> HIDE DEF sp
  <2>2. KeccakSqueeze(sp, r) = Squeezed(n, l, r)
    BY <1>1, <2>1, SqueezeLoop
  <2> QED
    BY <2>2 DEF sp
<1>7. Shake(n, outlen) = whole.bytes \o rest.bytes
  BY DEF Shake, k, r
<1>8. whole.bytes = Piece(n, 0, l) /\ rest.bytes = Piece(n, l, r)
  BY <1>4, <1>6 DEF Squeezed
<1>9. Then(Piece(n, 0, l), Piece(n, l, r)) = Piece(n, 0, outlen)
  <2>1. 0 + l = l /\ outlen = l + r /\ 0 \in Nat /\ r \in Nat /\ l \in Nat
    BY <1>1, <1>3
  <2> QED
    BY <2>1, PiecesJoinAt
<1> QED
  BY <1>7, <1>8, <1>9, StreamIsPiece DEF Then

\* sha3_256, sha3_512
LEMMA Sha3IsStream ==
    ASSUME NEW n \in Nat, NEW outlen \in 0..Rate
    PROVE  Sha3(n, outlen) = Stream(n, outlen)
<1>1. Permute(KeccakAbsorbOnce(n)) = ReadState(n, 0 + 1)
  <2>1. KeccakAbsorbOnce(n) = ReadState(n, 0)
    BY AbsorbOncePads DEF ReadState
  <2> QED
    BY <2>1, PermuteRead
<1>2. Sha3(n, outlen) = [p \in 1..outlen |-> ByteAt(ReadState(n, 0 + 1), p - 1)]
  BY <1>1 DEF Sha3
<1>3. 0 \in Nat /\ 0 = 0 * Rate
  BY RateFacts
<1>4. Sha3(n, outlen) = Piece(n, 0, outlen)
  BY <1>2, <1>3, BlockIsPiece
<1>5. outlen \in Nat
  BY RateFacts
<1> QED
  BY <1>4, <1>5, StreamIsPiece

------------------------------------------------------------------------------
(* Candidates *)

\* The two candidates of the g-th three bytes, and the c-th candidate.
PairAt(n, g) ==
    <<[half |-> 0, of |-> Piece(n, 3 * (g - 1), 3)],
      [half |-> 1, of |-> Piece(n, 3 * (g - 1), 3)]>>

CandAt(n, c) == PairAt(n, (c + 1) \div 2)[2 - (c % 2)]

\* Every byte of the stream has a name of its own.
LEMMA StreamByteFacts ==
    ASSUME NEW n \in Nat, NEW k \in Nat, NEW j \in Nat,
           StreamByte(n, k) = StreamByte(n, j)
    PROVE  k = j
<1>1. k % Rate = j % Rate
  BY DEF StreamByte
<1>2. k \div Rate = j \div Rate
  <2> DEFINE P == PaddedBlocks(n)
             qk == k \div Rate
             qj == j \div Rate
             zk == Zeros(qk)
             zj == Zeros(qj)
  <2>1. P \o zk = P \o zj
    BY DEF StreamByte, Zeros
  <2>2. qk \in Nat /\ qj \in Nat
    BY DivFacts, RateFacts
  <2>3. P \in Seq(Blocks) /\ Zero \in Blocks
    BY PaddedFacts, FullBlocksFacts
  <2> HIDE DEF P, qk, qj
  <2>4. /\ zk \in Seq(Blocks) /\ Len(zk) = qk
        /\ zj \in Seq(Blocks) /\ Len(zj) = qj
    BY <2>2, <2>3 DEF Zeros
  <2> HIDE DEF zk, zj
  <2>5. Len(P \o zk) = Len(P) + qk /\ Len(P \o zj) = Len(P) + qj
    BY <2>3, <2>4
  <2>6. qk = qj
    BY <2>1, <2>2, <2>3, <2>5
  <2> QED
    BY <2>6 DEF qk, qj
<1>3. k = (k \div Rate) * Rate + (k % Rate) /\ j = (j \div Rate) * Rate + (j % Rate)
  BY DivFacts, RateFacts
<1> QED
  BY <1>1, <1>2, <1>3

LEMMA CandAtFacts ==
    ASSUME NEW n, NEW g \in Nat \ {0}
    PROVE  /\ CandAt(n, 2 * g - 1) = PairAt(n, g)[1]
           /\ CandAt(n, 2 * g) = PairAt(n, g)[2]
<1>1. ((2 * g - 1) + 1) \div 2 = g /\ 2 - ((2 * g - 1) % 2) = 1
  OBVIOUS
<1>2. (2 * g + 1) \div 2 = g /\ 2 - ((2 * g) % 2) = 2
  OBVIOUS
<1> QED
  BY <1>1, <1>2 DEF CandAt

\* Every number above zero is that of the one or the other candidate.
LEMMA Halves ==
    ASSUME NEW c \in Nat \ {0}
    PROVE  \E g \in Nat \ {0} : c = 2 * g - 1 \/ c = 2 * g
<1> DEFINE g == (c + 1) \div 2
<1>1. g \in Nat \ {0} /\ (c = 2 * g - 1 \/ c = 2 * g)
  OBVIOUS
<1> QED
  BY <1>1

\* Different candidates of a stream are told apart by name.
LEMMA CandAtInjective ==
    ASSUME NEW n \in Nat, NEW c \in Nat \ {0}, NEW d \in Nat \ {0},
           CandAt(n, c) = CandAt(n, d)
    PROVE  c = d
<1>1. PICK g \in Nat \ {0} : c = 2 * g - 1 \/ c = 2 * g
  BY Halves
<1>2. PICK h \in Nat \ {0} : d = 2 * h - 1 \/ d = 2 * h
  BY Halves
<1> DEFINE pg == Piece(n, 3 * (g - 1), 3)
           ph == Piece(n, 3 * (h - 1), 3)
<1>3. CandAt(n, c) = [half |-> IF c = 2 * g - 1 THEN 0 ELSE 1, of |-> pg]
  BY <1>1, CandAtFacts DEF PairAt
<1>4. CandAt(n, d) = [half |-> IF d = 2 * h - 1 THEN 0 ELSE 1, of |-> ph]
  BY <1>2, CandAtFacts DEF PairAt
<1>5. pg[1] = StreamByte(n, 3 * (g - 1)) /\ ph[1] = StreamByte(n, 3 * (h - 1))
  <2>1. 3 * (g - 1) + 1 - 1 = 3 * (g - 1) /\ 3 * (h - 1) + 1 - 1 = 3 * (h - 1)
        /\ 1 \in 1..3
    OBVIOUS
  <2> QED
    BY <2>1 DEF Piece
<1> HIDE DEF pg, ph
<1>6. pg = ph /\ (c = 2 * g - 1 <=> d = 2 * h - 1)
  <2>1. CandAt(n, c).of = pg /\ (c = 2 * g - 1 <=> CandAt(n, c).half = 0)
    BY <1>3
  <2>2. CandAt(n, d).of = ph /\ (d = 2 * h - 1 <=> CandAt(n, d).half = 0)
    BY <1>4
  <2> QED
    BY <2>1, <2>2
<1>7. 3 * (g - 1) \in Nat /\ 3 * (h - 1) \in Nat
  OBVIOUS
<1>8. 3 * (g - 1) = 3 * (h - 1)
  BY <1>5, <1>6, <1>7, StreamByteFacts
<1> QED
  BY <1>1, <1>2, <1>6, <1>8

------------------------------------------------------------------------------
(* The candidates that are kept *)

Cands(n) == {CandAt(n, c) : c \in Nat \ {0}}

\* A candidate is appended if it is in b.
KeptOne(q, b, v) == IF v \in b THEN Append(q, v) ELSE q

\* The first m candidates of the stream that are in b.
Kept(n, b, m) ==
    LET kept[c \in 0..m] ==
            IF c = 0 THEN <<>> ELSE KeptOne(kept[c - 1], b, CandAt(n, c))
    IN  kept[m]

LEMMA KeptExists ==
    ASSUME NEW n, NEW b, NEW m \in Nat
    PROVE  \E f : f = [c \in 0..m |->
               IF c = 0 THEN <<>> ELSE KeptOne(f[c - 1], b, CandAt(n, c))]
<1> DEFINE Body(f, c) == IF c = 0 THEN <<>> ELSE KeptOne(f[c - 1], b, CandAt(n, c))
           S == {k \in Nat : \E f : f = [c \in 0..k |-> Body(f, c)]}
<1>1. 0 \in S
  <2> DEFINE f == [c \in 0..0 |-> <<>>]
  <2>1. f = [c \in 0..0 |-> Body(f, c)]
    OBVIOUS
  <2> QED
    BY <2>1
<1>2. ASSUME NEW k \in Nat, k \in S PROVE k + 1 \in S
  <2>1. PICK f : f = [c \in 0..k |-> Body(f, c)]
    BY <1>2
  <2> DEFINE v == KeptOne(f[k], b, CandAt(n, k + 1))
             g == [c \in 0..k + 1 |-> IF c = k + 1 THEN v ELSE f[c]]
  <2>2. ASSUME NEW c \in 0..k + 1 PROVE g[c] = Body(g, c)
    <3>1. CASE c = 0
      BY <2>1, <3>1
    <3>2. CASE c \in 1..k
      <4>1. g[c] = f[c] /\ g[c - 1] = f[c - 1]
        BY <3>2
      <4> HIDE DEF g
      <4> QED
        BY <2>1, <3>2, <4>1
    <3>3. CASE c = k + 1
      <4>1. c - 1 = k /\ g[c] = v /\ g[c - 1] = f[k] /\ c # 0
        BY <3>3
      <4> HIDE DEF g
      <4> QED
        BY <3>3, <4>1
    <3> QED
      BY <3>1, <3>2, <3>3
  <2>3. g = [c \in 0..k + 1 |-> g[c]]
    OBVIOUS
  <2> HIDE DEF g
  <2>4. g = [c \in 0..k + 1 |-> Body(g, c)]
    BY <2>2, <2>3
  <2> HIDE DEF Body
  <2> QED
    BY <2>4
<1> HIDE DEF S
<1>3. m \in S
  BY <1>1, <1>2, SetInduction
<1> QED
  BY <1>3 DEF S

LEMMA KeptOneIsSeq ==
    ASSUME NEW T, NEW q \in Seq(T), NEW b, NEW v \in T
    PROVE  KeptOne(q, b, v) \in Seq(T)
BY DEF KeptOne

LEMMA KeptNone ==
    ASSUME NEW n, NEW b
    PROVE  Kept(n, b, 0) = <<>>
<1> DEFINE f == CHOOSE f : f = [c \in 0..0 |->
                IF c = 0 THEN <<>> ELSE KeptOne(f[c - 1], b, CandAt(n, c))]
<1>1. f = [c \in 0..0 |->
                IF c = 0 THEN <<>> ELSE KeptOne(f[c - 1], b, CandAt(n, c))]
  <2>1. 0 \in Nat
    OBVIOUS
  <2> QED
    BY <2>1, KeptExists
<1>2. Kept(n, b, 0) = f[0]
  BY DEF Kept
<1> HIDE DEF f
<1> QED
  BY <1>1, <1>2

\* The function that what is kept is read from.
KeptSoFar(n, b, m) ==
    CHOOSE f : f = [c \in 0..m |->
        IF c = 0 THEN <<>> ELSE KeptOne(f[c - 1], b, CandAt(n, c))]

LEMMA KeptSoFarFacts ==
    ASSUME NEW n, NEW b, NEW m \in Nat
    PROVE  /\ Kept(n, b, m) = KeptSoFar(n, b, m)[m]
           /\ KeptSoFar(n, b, m)
                  = [c \in 0..m |-> IF c = 0 THEN <<>>
                        ELSE KeptOne(KeptSoFar(n, b, m)[c - 1], b, CandAt(n, c))]
<1>1. Kept(n, b, m) = KeptSoFar(n, b, m)[m]
  BY DEF Kept, KeptSoFar
<1>2. KeptSoFar(n, b, m)
          = [c \in 0..m |-> IF c = 0 THEN <<>>
                ELSE KeptOne(KeptSoFar(n, b, m)[c - 1], b, CandAt(n, c))]
  BY KeptExists DEF KeptSoFar
<1> QED
  BY <1>1, <1>2

\* What one more candidate does.
LEMMA KeptNext ==
    ASSUME NEW n, NEW b, NEW m \in Nat
    PROVE  Kept(n, b, m + 1) = KeptOne(Kept(n, b, m), b, CandAt(n, m + 1))
<1> DEFINE F(k) == KeptSoFar(n, b, k)
<1>1. ASSUME NEW k \in Nat
      PROVE  /\ Kept(n, b, k) = F(k)[k]
             /\ F(k) = [c \in 0..k |-> IF c = 0 THEN <<>>
                           ELSE KeptOne(F(k)[c - 1], b, CandAt(n, c))]
  BY KeptSoFarFacts
<1> HIDE DEF F
<1> DEFINE f == F(m)
           g == F(m + 1)
<1>3. f[0] = g[0]
  BY <1>1
<1>4. ASSUME NEW c \in 1..m, f[c - 1] = g[c - 1] PROVE f[c] = g[c]
  <2>1. f[c] = KeptOne(f[c - 1], b, CandAt(n, c))
    BY <1>1
  <2>2. g[c] = KeptOne(g[c - 1], b, CandAt(n, c))
    <3>1. m + 1 \in Nat /\ c \in 0..m + 1 /\ c # 0
      OBVIOUS
    <3> QED
      BY <1>1, <3>1
  <2> QED
    BY <1>4, <2>1, <2>2
<1>5. f[m] = g[m]
  <2> HIDE DEF f, g
  <2> QED
    BY <1>3, <1>4, LoopsAgree
<1>6. g[m + 1] = KeptOne(g[m], b, CandAt(n, m + 1))
  <2>1. m + 1 \in Nat /\ m + 1 \in 0..m + 1 /\ m + 1 # 0 /\ (m + 1) - 1 = m
    OBVIOUS
  <2> QED
    BY <1>1, <2>1
<1>7. Kept(n, b, m) = f[m] /\ Kept(n, b, m + 1) = g[m + 1]
  BY <1>1
<1> QED
  BY <1>5, <1>6, <1>7

LEMMA KeptIsSeq ==
    ASSUME NEW n, NEW b, NEW m \in Nat
    PROVE  Kept(n, b, m) \in Seq(Cands(n))
<1> DEFINE S == {k \in Nat : Kept(n, b, k) \in Seq(Cands(n))}
<1>1. 0 \in S
  <2>1. <<>> \in Seq(Cands(n))
    OBVIOUS
  <2> QED
    BY <2>1, KeptNone
<1>2. ASSUME NEW k \in Nat, k \in S PROVE k + 1 \in S
  <2>1. CandAt(n, k + 1) \in Cands(n)
    BY DEF Cands
  <2>2. Kept(n, b, k) \in Seq(Cands(n))
    BY <1>2
  <2>3. Kept(n, b, k + 1) = KeptOne(Kept(n, b, k), b, CandAt(n, k + 1))
    BY KeptNext
  <2>4. Kept(n, b, k + 1) \in Seq(Cands(n))
    BY <2>1, <2>2, <2>3, KeptOneIsSeq
  <2> QED
    BY <2>4
<1> HIDE DEF S
<1>3. m \in S
  BY <1>1, <1>2, SetInduction
<1> QED
  BY <1>3 DEF S

\* Only which of the first m candidates are in the set matters.
LEMMA KeptLocal ==
    ASSUME NEW n, NEW b1, NEW b2, NEW m \in Nat,
           \A c \in 1..m : CandAt(n, c) \in b1 <=> CandAt(n, c) \in b2
    PROVE  Kept(n, b1, m) = Kept(n, b2, m)
<1> DEFINE f == [k \in 0..m |-> Kept(n, b1, k)]
           g == [k \in 0..m |-> Kept(n, b2, k)]
<1>1. f[0] = g[0]
  BY KeptNone
<1>2. ASSUME NEW k \in 1..m, f[k - 1] = g[k - 1] PROVE f[k] = g[k]
  <2>1. k - 1 \in Nat /\ (k - 1) + 1 = k
    OBVIOUS
  <2>2. /\ Kept(n, b1, k) = KeptOne(Kept(n, b1, k - 1), b1, CandAt(n, k))
        /\ Kept(n, b2, k) = KeptOne(Kept(n, b2, k - 1), b2, CandAt(n, k))
    BY <2>1, KeptNext
  <2>3. Kept(n, b1, k - 1) = Kept(n, b2, k - 1)
    BY <1>2
  <2>4. Kept(n, b1, k) = Kept(n, b2, k)
    BY <2>2, <2>3 DEF KeptOne
  <2> QED
    BY <2>4
<1>3. f[m] = g[m]
  <2> HIDE DEF f, g
  <2> QED
    BY <1>1, <1>2, LoopsAgree
<1> QED
  BY <1>3

------------------------------------------------------------------------------
(* Sampling *)

LEMMA PrefixFacts ==
    ASSUME NEW T, NEW q \in Seq(T), NEW n \in Nat
    PROVE  /\ Prefix(q, n) \in Seq(T)
           /\ Len(Prefix(q, n)) = IF Len(q) < n THEN Len(q) ELSE n
           /\ \A k \in 1..Len(Prefix(q, n)) : Prefix(q, n)[k] = q[k]
BY DEF Prefix

LEMMA KeepIsSeq ==
    ASSUME NEW T, NEW r \in Seq(T), NEW room, NEW v \in T, NEW small
    PROVE  Keep(r, room, v, small) \in Seq(T)
BY DEF Keep

\* To keep what there is room for after a is to keep it up to the length.
LEMMA KeepThen ==
    ASSUME NEW T, NEW a \in Seq(T), NEW r \in Seq(T), NEW v \in T, NEW small,
           NEW room \in Int, room = Length - Len(a)
    PROVE  Then(a, Keep(r, room, v, small)) = Keep(Then(a, r), Length, v, small)
<1>1. Len(r) < room <=> Len(a \o r) < Length
  BY SpongeAssumption
<1>2. a \o Append(r, v) = Append(a \o r, v)
  OBVIOUS
<1> QED
  BY <1>1, <1>2 DEF Keep, Then

LEMMA KeepOfPrefix ==
    ASSUME NEW T, NEW q \in Seq(T), NEW v \in T, NEW small
    PROVE  Keep(Prefix(q, Length), Length, v, small)
               = Prefix(KeptOne(q, small, v), Length)
<1>1. CASE v \notin small
  BY <1>1 DEF Keep, KeptOne
<1>2. CASE v \in small
  <2> DEFINE p == Prefix(q, Length)
             w == Append(q, v)
             u == Prefix(w, Length)
  <2>1. Length \in Nat
    BY SpongeAssumption
  <2>2. /\ w \in Seq(T) /\ Len(w) = Len(q) + 1 /\ w[Len(q) + 1] = v
        /\ \A k \in 1..Len(q) : w[k] = q[k]
    OBVIOUS
  <2>3. /\ p \in Seq(T) /\ Len(p) = IF Len(q) < Length THEN Len(q) ELSE Length
        /\ \A k \in 1..Len(p) : p[k] = q[k]
    BY <2>1, PrefixFacts
  <2>4. /\ u \in Seq(T) /\ Len(u) = IF Len(w) < Length THEN Len(w) ELSE Length
        /\ \A k \in 1..Len(u) : u[k] = w[k]
    <3> HIDE DEF w
    <3> QED
      BY <2>1, <2>2, PrefixFacts
  <2>5. KeptOne(q, small, v) = w
    BY <1>2 DEF KeptOne
  <2>6. Keep(p, Length, v, small) = IF Len(p) < Length THEN Append(p, v) ELSE p
    BY <1>2 DEF Keep
  <2>7. Len(q) \in Nat
    OBVIOUS
  <2> HIDE DEF p, w, u
  <2>8. CASE Len(q) < Length
    <3>1. Len(p) = Len(q) /\ Len(u) = Len(p) + 1
      BY <2>1, <2>2, <2>3, <2>4, <2>7, <2>8
    <3>2. u[Len(p) + 1] = v /\ \A k \in 1..Len(p) : u[k] = p[k]
      BY <2>2, <2>3, <2>4, <2>7, <3>1
    <3>3. Append(p, v) = u
      BY <2>3, <2>4, <3>1, <3>2, IsAppend
    <3> QED
      BY <2>5, <2>6, <2>8, <3>1, <3>3 DEF p, u
  <2>9. CASE ~ (Len(q) < Length)
    <3>1. Len(p) = Length /\ Len(u) = Length
      BY <2>1, <2>2, <2>3, <2>4, <2>7, <2>9
    <3>2. \A k \in 1..Length : u[k] = p[k]
      BY <2>1, <2>2, <2>3, <2>4, <2>7, <2>9, <3>1
    <3>3. p = u
      BY <2>3, <2>4, <3>1, <3>2
    <3> QED
      BY <2>1, <2>5, <2>6, <3>1, <3>3 DEF p, u
  <2> QED
    BY <2>8, <2>9
<1> QED
  BY <1>1, <1>2

\* The groups of a piece that starts with a group are groups of the stream.
LEMMA PairOfPiece ==
    \A n, h, m \in Nat : \A g \in 1..m \div 3 :
        Pair(Piece(n, 3 * h, m), g) = PairAt(n, h + g)
<1> TAKE n, h, m \in Nat
<1> TAKE g \in 1..m \div 3
<1> DEFINE q == Piece(n, 3 * h, m)
           three == SubSeq(q, 3 * g - 2, 3 * g)
           w == Piece(n, 3 * ((h + g) - 1), 3)
           T == StreamBytes(n)
<1>1. q \in Seq(T) /\ Len(q) = m
  <2>1. 3 * h \in Nat
    OBVIOUS
  <2> QED
    BY <2>1, PieceFacts
<1>2. w \in Seq(T) /\ Len(w) = 3
  <2>1. PICK l \in Nat : l = 3 * ((h + g) - 1)
    OBVIOUS
  <2>2. Piece(n, l, 3) \in Seq(T) /\ Len(Piece(n, l, 3)) = 3
    BY PieceFacts
  <2> QED
    BY <2>1, <2>2
<1>3. 3 * g <= m /\ 1 <= 3 * g - 2
  OBVIOUS
<1>4. three \in Seq(T) /\ Len(three) = 3 /\
      \A p \in 1..3 : three[p] = q[3 * g - 2 + p - 1]
  <2> HIDE DEF q
  <2> QED
    BY <1>1, <1>3
<1>5. ASSUME NEW p \in 1..3 PROVE q[3 * g - 2 + p - 1] = w[p]
  <2>1. 3 * g - 2 + p - 1 \in 1..m
    BY <1>3
  <2>2. 3 * h + (3 * g - 2 + p - 1) - 1 = 3 * ((h + g) - 1) + p - 1
    OBVIOUS
  <2>3. q[3 * g - 2 + p - 1] = StreamByte(n, 3 * h + (3 * g - 2 + p - 1) - 1)
    BY <2>1 DEF Piece
  <2>4. w[p] = StreamByte(n, 3 * ((h + g) - 1) + p - 1)
    BY DEF Piece
  <2> QED
    BY <2>2, <2>3, <2>4
<1>6. three = w
  <2> HIDE DEF three, w, q, T
  <2> QED
    BY <1>2, <1>4, <1>5
<1> QED
  BY <1>6 DEF Pair, PairAt

LEMMA RejExists ==
    ASSUME NEW room, NEW buf, NEW small, NEW m \in Nat
    PROVE  \E f : f = [g \in 0..m |->
               IF g = 0 THEN <<>> ELSE KeepPair(f[g - 1], room, Pair(buf, g), small)]
<1> DEFINE Body(f, g) == IF g = 0 THEN <<>>
                         ELSE KeepPair(f[g - 1], room, Pair(buf, g), small)
           S == {k \in Nat : \E f : f = [c \in 0..k |-> Body(f, c)]}
<1>1. 0 \in S
  <2> DEFINE f == [c \in 0..0 |-> <<>>]
  <2>1. f = [c \in 0..0 |-> Body(f, c)]
    OBVIOUS
  <2> QED
    BY <2>1
<1>2. ASSUME NEW k \in Nat, k \in S PROVE k + 1 \in S
  <2>1. PICK f : f = [c \in 0..k |-> Body(f, c)]
    BY <1>2
  <2> DEFINE v == KeepPair(f[k], room, Pair(buf, k + 1), small)
             g == [c \in 0..k + 1 |-> IF c = k + 1 THEN v ELSE f[c]]
  <2>2. ASSUME NEW c \in 0..k + 1 PROVE g[c] = Body(g, c)
    <3>1. CASE c = 0
      BY <2>1, <3>1
    <3>2. CASE c \in 1..k
      <4>1. g[c] = f[c] /\ g[c - 1] = f[c - 1]
        BY <3>2
      <4> HIDE DEF g
      <4> QED
        BY <2>1, <3>2, <4>1
    <3>3. CASE c = k + 1
      <4>1. c - 1 = k /\ g[c] = v /\ g[c - 1] = f[k] /\ c # 0
        BY <3>3
      <4> HIDE DEF g
      <4> QED
        BY <3>3, <4>1
    <3> QED
      BY <3>1, <3>2, <3>3
  <2>3. g = [c \in 0..k + 1 |-> g[c]]
    OBVIOUS
  <2> HIDE DEF g
  <2>4. g = [c \in 0..k + 1 |-> Body(g, c)]
    BY <2>2, <2>3
  <2> HIDE DEF Body
  <2> QED
    BY <2>4
<1> HIDE DEF S
<1>3. m \in S
  BY <1>1, <1>2, SetInduction
<1> QED
  BY <1>3 DEF S

\* The function rej_uniform's loop defines.
Rej(room, buf, small, m) ==
    CHOOSE f : f = [g \in 0..m |->
        IF g = 0 THEN <<>> ELSE KeepPair(f[g - 1], room, Pair(buf, g), small)]

LEMMA RejFacts ==
    ASSUME NEW room, NEW buf, NEW small, NEW m \in Nat
    PROVE  /\ Rej(room, buf, small, m)[0] = <<>>
           /\ \A g \in 1..m : Rej(room, buf, small, m)[g]
                  = KeepPair(Rej(room, buf, small, m)[g - 1], room, Pair(buf, g), small)
<1> DEFINE r == Rej(room, buf, small, m)
<1>1. r = [g \in 0..m |-> IF g = 0 THEN <<>>
                           ELSE KeepPair(r[g - 1], room, Pair(buf, g), small)]
  BY RejExists DEF Rej
<1> HIDE DEF r
<1>2. r[0] = <<>>
  BY <1>1
<1>3. \A g \in 1..m : r[g] = KeepPair(r[g - 1], room, Pair(buf, g), small)
  BY <1>1
<1> QED
  BY <1>2, <1>3 DEF r

\* A group adds to a polynomial what its two candidates add to what is kept.
LEMMA KeepPairStep ==
    ASSUME NEW T, NEW q \in Seq(T), NEW a \in Seq(T), NEW r \in Seq(T),
           NEW pair, pair[1] \in T, pair[2] \in T, NEW small,
           NEW room \in Int, room = Length - Len(a),
           Then(a, r) = Prefix(q, Length)
    PROVE  /\ KeepPair(r, room, pair, small) \in Seq(T)
           /\ Then(a, KeepPair(r, room, pair, small))
                  = Prefix(KeptOne(KeptOne(q, small, pair[1]), small, pair[2]),
                           Length)
<1> DEFINE v == pair[1]
           w == pair[2]
           r1 == Keep(r, room, v, small)
           r2 == Keep(r1, room, w, small)
           q1 == KeptOne(q, small, v)
<1>1. KeepPair(r, room, pair, small) = r2
  BY DEF KeepPair
<1>2. v \in T /\ w \in T
  OBVIOUS
<1> HIDE DEF v, w
<1>3. r1 \in Seq(T) /\ q1 \in Seq(T)
  BY <1>2, KeepIsSeq, KeptOneIsSeq
<1>4. Then(a, r1) = Prefix(q1, Length)
  BY <1>2, KeepThen, KeepOfPrefix
<1> HIDE DEF r1, q1
<1>5. r2 \in Seq(T)
  BY <1>2, <1>3, KeepIsSeq
<1>6. Then(a, r2) = Prefix(KeptOne(q1, small, w), Length)
  BY <1>2, <1>3, <1>4, KeepThen, KeepOfPrefix
<1> QED
  BY <1>1, <1>5, <1>6 DEF v, w, q1

\* The candidates of one group, among those that are kept.
LEMMA KeptPair ==
    ASSUME NEW n, NEW b, NEW g \in Nat \ {0}
    PROVE  /\ PairAt(n, g)[1] \in Cands(n) /\ PairAt(n, g)[2] \in Cands(n)
           /\ Kept(n, b, 2 * g)
                  = KeptOne(KeptOne(Kept(n, b, 2 * (g - 1)), b, PairAt(n, g)[1]),
                            b, PairAt(n, g)[2])
<1>1. PICK m \in Nat : m = 2 * (g - 1)
  OBVIOUS
<1>2. m + 1 = 2 * g - 1 /\ (m + 1) + 1 = 2 * g
      /\ m + 1 \in Nat \ {0} /\ (m + 1) + 1 \in Nat \ {0}
  BY <1>1
<1>3. PairAt(n, g)[1] = CandAt(n, m + 1) /\ PairAt(n, g)[2] = CandAt(n, (m + 1) + 1)
  BY <1>2, CandAtFacts
<1>4. Kept(n, b, m + 1) = KeptOne(Kept(n, b, m), b, CandAt(n, m + 1))
  BY KeptNext
<1>5. Kept(n, b, (m + 1) + 1)
          = KeptOne(Kept(n, b, m + 1), b, CandAt(n, (m + 1) + 1))
  BY <1>2, KeptNext
<1>6. CandAt(n, m + 1) \in Cands(n) /\ CandAt(n, (m + 1) + 1) \in Cands(n)
  BY <1>2 DEF Cands
<1> QED
  BY <1>1, <1>2, <1>3, <1>4, <1>5, <1>6

\* rej_uniform on the bytes after the first h groups of a stream.
LEMMA RejLoop ==
    ASSUME NEW n \in Nat, NEW b, NEW small, NEW h \in Nat, NEW m \in Nat,
           NEW d \in Nat, d = m \div 3,
           \A g \in h + 1..h + d :
               /\ PairAt(n, g)[1] \in b <=> PairAt(n, g)[1] \in small
               /\ PairAt(n, g)[2] \in b <=> PairAt(n, g)[2] \in small,
           NEW a \in Seq(Cands(n)), a = Prefix(Kept(n, b, 2 * h), Length)
    PROVE  /\ RejUniform(Length - Len(a), Piece(n, 3 * h, m), small)
                  \in Seq(Cands(n))
           /\ Then(a, RejUniform(Length - Len(a), Piece(n, 3 * h, m), small))
                  = Prefix(Kept(n, b, 2 * (h + d)), Length)
<1> DEFINE T == Cands(n)
           room == Length - Len(a)
           buf == Piece(n, 3 * h, m)
<1> DEFINE r == Rej(room, buf, small, d)
<1>1. r[0] = <<>> /\ \A g \in 1..d :
          r[g] = KeepPair(r[g - 1], room, Pair(buf, g), small)
  <2> HIDE DEF room, buf
  <2> QED
    BY RejFacts
<1>2. RejUniform(room, buf, small) = r[d]
  <2>1. Len(buf) = m
    <3>1. 3 * h \in Nat
      OBVIOUS
    <3> QED
      BY <3>1, PieceFacts
  <2>2. Groups(Len(buf)) = d
    BY <2>1 DEF Groups
  <2> HIDE DEF buf, room
  <2> QED
    BY <2>2 DEF RejUniform, Rej
<1>6. \A g \in 1..d : Pair(buf, g) = PairAt(n, h + g)
  BY PairOfPiece
<1> HIDE DEF r, room, buf
<1> DEFINE S == {g \in Nat : g <= d =>
                    /\ r[g] \in Seq(T)
                    /\ Then(a, r[g]) = Prefix(Kept(n, b, 2 * (h + g)), Length)}
<1>3. 0 \in S
  <2>1. r[0] = <<>>
    BY <1>1
  <2>2. Then(a, <<>>) = a /\ <<>> \in Seq(T) /\ h + 0 = h
    BY DEF Then
  <2> QED
    BY <2>1, <2>2
<1>4. ASSUME NEW k \in Nat, k \in S PROVE k + 1 \in S
  <2> SUFFICES ASSUME k + 1 <= d
               PROVE  /\ r[k + 1] \in Seq(T)
                      /\ Then(a, r[k + 1])
                             = Prefix(Kept(n, b, 2 * (h + (k + 1))), Length)
    OBVIOUS
  <2>1. PICK g \in Nat \ {0} : g = h + (k + 1)
    OBVIOUS
  <2>2. g - 1 = h + k /\ g \in h + 1..h + d /\ k + 1 \in 1..d /\ (k + 1) - 1 = k
    BY <2>1
  <2>3. r[k] \in Seq(T) /\ Then(a, r[k]) = Prefix(Kept(n, b, 2 * (g - 1)), Length)
    BY <1>4, <2>2
  <2>4. Pair(buf, k + 1) = PairAt(n, g)
    <3> HIDE DEF S
    <3>1. Pair(buf, k + 1) = PairAt(n, h + (k + 1))
      BY <1>6, <2>2
    <3> QED
      BY <2>1, <3>1
  <2>5. r[k + 1] = KeepPair(r[k], room, PairAt(n, g), small)
    BY <1>1, <2>2, <2>4
  <2>6. room \in Int /\ room = Length - Len(a)
    BY SpongeAssumption DEF room
  <2> DEFINE pair == PairAt(n, g)
             q == Kept(n, b, 2 * (g - 1))
  <2>7. /\ pair[1] \in T /\ pair[2] \in T
        /\ Kept(n, b, 2 * g) = KeptOne(KeptOne(q, b, pair[1]), b, pair[2])
    BY KeptPair
  <2>8. KeptOne(KeptOne(q, b, pair[1]), b, pair[2])
            = KeptOne(KeptOne(q, small, pair[1]), small, pair[2])
    BY <2>2 DEF KeptOne
  <2>9. q \in Seq(T)
    <3>1. 2 * (g - 1) \in Nat
      OBVIOUS
    <3> QED
      BY <3>1, KeptIsSeq
  <2> HIDE DEF pair, q, T
  <2>10. /\ KeepPair(r[k], room, pair, small) \in Seq(T)
         /\ Then(a, KeepPair(r[k], room, pair, small))
                = Prefix(KeptOne(KeptOne(q, small, pair[1]), small, pair[2]), Length)
    <3> HIDE DEF S
    <3>1. a \in Seq(T) /\ r[k] \in Seq(T) /\ Then(a, r[k]) = Prefix(q, Length)
      BY <2>3 DEF T, q
    <3> QED
      BY <2>6, <2>7, <2>9, <3>1, KeepPairStep
  <2> QED
    BY <2>1, <2>5, <2>7, <2>8, <2>10 DEF pair, T
<1> HIDE DEF S
<1>5. d \in S /\ d <= d
  BY <1>3, <1>4, SetInduction
<1>7. r[d] \in Seq(T) /\ Then(a, r[d]) = Prefix(Kept(n, b, 2 * (h + d)), Length)
  BY <1>5 DEF S
<1> QED
  BY <1>2, <1>7 DEF room, buf

\* The candidates of a piece come after those of the groups before it.
LEMMA CandidatesOfPiece ==
    ASSUME NEW n \in Nat, NEW h \in Nat, NEW m \in Nat, NEW d \in Nat, d = m \div 3,
           NEW v \in Candidates(Piece(n, 3 * h, m))
    PROVE  \E x \in 2 * h + 1..2 * (h + d) : v = CandAt(n, x)
<1> DEFINE q == Piece(n, 3 * h, m)
<1>1. Len(q) = m
  <2>1. 3 * h \in Nat
    OBVIOUS
  <2> QED
    BY <2>1, PieceFacts
<1>2. \A g \in 1..m \div 3 : Pair(q, g) = PairAt(n, h + g)
  BY PairOfPiece
<1> HIDE DEF q
<1>3. PICK g \in 1..d : v = Pair(q, g)[1] \/ v = Pair(q, g)[2]
  <2>1. v \in UNION {{Pair(q, g)[1], Pair(q, g)[2]} : g \in 1..d}
    BY <1>1 DEF Candidates, q
  <2> QED
    BY <2>1
<1>4. PICK k \in Nat \ {0} : k = h + g
  OBVIOUS
<1>5. Pair(q, g) = PairAt(n, k)
  <2>1. Pair(q, g) = PairAt(n, h + g)
    BY <1>2
  <2> QED
    BY <1>4, <2>1
<1>6. v = CandAt(n, 2 * k - 1) \/ v = CandAt(n, 2 * k)
  BY <1>3, <1>5, CandAtFacts
<1>7. 2 * k - 1 \in 2 * h + 1..2 * (h + d) /\ 2 * k \in 2 * h + 1..2 * (h + d)
  BY <1>4
<1> QED
  BY <1>6, <1>7

\* The polynomial after the first g groups of a stream, those of its
\* candidates that are in b, and its bytes from there on.
Sampled(n, b, g) == Prefix(Kept(n, b, 2 * g), Length)

SeenIn(n, b, g) == \A v \in b : \E x \in 1..2 * g : v = CandAt(n, x)

From(n, g, m) == Piece(n, 3 * g, m)

After(g, m) == g + (m \div 3)

SampledSoFar(a, n, b, g) == a = Sampled(n, b, g) /\ SeenIn(n, b, g)

Extended(a, n, g, m, small) ==
    Then(a, RejUniform(Length - Len(a), From(n, g, m), small))

FoundIn(small, n, g, m) == small \subseteq Candidates(From(n, g, m))

\* What rej_uniform adds when the bytes of the next blocks are sampled.
LEMMA SampledPiece ==
    ASSUME NEW n \in Nat, NEW h \in Nat, NEW m \in Nat, NEW b, NEW small, NEW a,
           SampledSoFar(a, n, b, h), FoundIn(small, n, h, m)
    PROVE  SampledSoFar(Extended(a, n, h, m, small), n, b \cup small, After(h, m))
<1> DEFINE e == After(h, m)
<1>0. /\ a = Sampled(n, b, h) /\ SeenIn(n, b, h)
      /\ small \subseteq Candidates(From(n, h, m))
  BY DEF SampledSoFar, FoundIn
<1>1. PICK d \in Nat : d = m \div 3
  OBVIOUS
<1>2. e = h + d
  BY <1>1 DEF After
<1>3. \A v \in b : \E x \in 1..2 * h : v = CandAt(n, x)
  BY <1>0 DEF SeenIn
<1>4. \A v \in small : \E x \in 2 * h + 1..2 * (h + d) : v = CandAt(n, x)
  <2> SUFFICES ASSUME NEW v \in small
               PROVE  \E x \in 2 * h + 1..2 * (h + d) : v = CandAt(n, x)
    OBVIOUS
  <2>1. v \in Candidates(Piece(n, 3 * h, m))
    BY <1>0 DEF From
  <2> QED
    BY <1>1, <2>1, CandidatesOfPiece
<1>5. ASSUME NEW x \in 1..2 * h PROVE CandAt(n, x) \notin small
  <2> SUFFICES ASSUME CandAt(n, x) \in small PROVE FALSE
    OBVIOUS
  <2>1. PICK y \in 2 * h + 1..2 * (h + d) : CandAt(n, x) = CandAt(n, y)
    BY <1>4
  <2>2. x \in Nat \ {0} /\ y \in Nat \ {0} /\ x # y
    BY <2>1
  <2> QED
    BY <2>1, <2>2, CandAtInjective
<1>6. ASSUME NEW x \in Nat \ {0}, x > 2 * h PROVE CandAt(n, x) \notin b
  <2> SUFFICES ASSUME CandAt(n, x) \in b PROVE FALSE
    OBVIOUS
  <2>1. PICK y \in 1..2 * h : CandAt(n, x) = CandAt(n, y)
    BY <1>3
  <2>2. y \in Nat \ {0} /\ x # y
    BY <1>6
  <2> QED
    BY <2>1, <2>2, CandAtInjective
<1> DEFINE all == b \cup small
<1>7. Kept(n, all, 2 * h) = Kept(n, b, 2 * h)
  <2>1. \A x \in 1..2 * h : CandAt(n, x) \in all <=> CandAt(n, x) \in b
    BY <1>5
  <2>2. PICK k \in Nat : k = 2 * h
    OBVIOUS
  <2> HIDE DEF all
  <2>3. Kept(n, all, k) = Kept(n, b, k)
    BY <2>1, <2>2, KeptLocal
  <2> QED
    BY <2>2, <2>3
<1>8. ASSUME NEW g \in h + 1..h + d
      PROVE  /\ PairAt(n, g)[1] \in all <=> PairAt(n, g)[1] \in small
             /\ PairAt(n, g)[2] \in all <=> PairAt(n, g)[2] \in small
  <2>1. g \in Nat \ {0} /\ 2 * g - 1 \in Nat \ {0} /\ 2 * g \in Nat \ {0}
        /\ 2 * g - 1 > 2 * h /\ 2 * g > 2 * h
    OBVIOUS
  <2>2. PairAt(n, g)[1] \notin b /\ PairAt(n, g)[2] \notin b
    BY <1>6, <2>1, CandAtFacts
  <2> QED
    BY <2>2
<1>9. a \in Seq(Cands(n))
  <2>1. PICK k \in Nat : k = 2 * h
    OBVIOUS
  <2>2. Kept(n, b, k) \in Seq(Cands(n))
    BY KeptIsSeq
  <2> QED
    BY <1>0, <2>1, <2>2, PrefixFacts, SpongeAssumption DEF Sampled
<1> HIDE DEF all
<1>10. a = Prefix(Kept(n, all, 2 * h), Length)
  BY <1>0, <1>7 DEF Sampled
<1>11. Then(a, RejUniform(Length - Len(a), Piece(n, 3 * h, m), small))
          = Prefix(Kept(n, all, 2 * (h + d)), Length)
  BY <1>8, <1>9, <1>10, <1>1, RejLoop, SMTT(60)
<1>12. \A v \in all : \E x \in 1..2 * (h + d) : v = CandAt(n, x)
  <2>1. 1..2 * h \subseteq 1..2 * (h + d) /\ 2 * h + 1..2 * (h + d) \subseteq 1..2 * (h + d)
    OBVIOUS
  <2> QED
    BY <1>4, <1>3, <2>1 DEF all
<1>13. After(h, m) = h + d
  BY <1>2 DEF e
<1>14. Extended(a, n, h, m, small) = Sampled(n, all, After(h, m))
  BY <1>11, <1>13 DEF Extended, Sampled, From
<1>15. SeenIn(n, all, After(h, m))
  BY <1>12, <1>13 DEF SeenIn
<1> QED
  BY <1>14, <1>15 DEF SampledSoFar, all

------------------------------------------------------------------------------
(* The invariant *)

\* What has been read is the stream, and the candidates in it are pairs.
Read == Len(out) \div 3

SpongeTypes ==
    /\ caller \in {"none", "pieces", "oneshot", "sampler"}
    /\ absorbing \in BOOLEAN
    /\ taken \in 0..MaxIn
    /\ Len(out) \in Nat
    /\ OutputIsStream

(***************************************************************************)
(* The state and pos are given by how much was absorbed and squeezed.      *)
(***************************************************************************)
StateInv ==
    /\ caller = "none" => absorbing /\ taken = 0
    /\ caller = "oneshot" => absorbing /\ s = Fresh /\ pos = 0
    /\ absorbing /\ caller # "oneshot" =>
           s = Absorbed(taken).st /\ pos = Absorbed(taken).pos /\ Len(out) = 0
    /\ ~ absorbing =>
           s = ReadState(taken, BlocksRead(Len(out))) /\ pos = PosAfter(Len(out))

(***************************************************************************)
(* A polynomial is what is kept of the candidates seen, up to its length.  *)
(***************************************************************************)
SampleInv ==
    /\ caller = "sampler" =>
           /\ ~ absorbing /\ Rate % 3 = 0
           /\ \E k \in Nat : Len(out) = k * Rate
           /\ coeffs = Sampled(taken, below, Read)
           /\ SeenIn(taken, below, Read)
    /\ caller # "sampler" => coeffs = <<>> /\ below = {}

SpongeInv == SpongeTypes /\ StateInv /\ SampleInv

LEMMA BoundFacts ==
    /\ MaxIn \in Nat /\ MaxOut \in Nat /\ MaxBlocks \in Nat
    /\ FirstBlocks \in Nat /\ Length \in Nat /\ SeedLen \in 0..MaxIn
BY SpongeAssumption

\* Nothing was read from a stream, or some more bytes were.
LEMMA StreamFacts ==
    ASSUME NEW n \in Nat, NEW l \in Nat
    PROVE  Len(Stream(n, l)) = l /\ Stream(n, 0) = <<>>
<1>1. Stream(n, l) = Piece(n, 0, l)
  BY StreamIsPiece
<1>2. Len(Piece(n, 0, l)) = l
  <2>1. 0 \in Nat
    OBVIOUS
  <2> QED
    BY <2>1, PieceFacts
<1>3. Stream(n, 0) = <<>>
  BY StreamIsPiece, EmptyPiece
<1> QED
  BY <1>1, <1>2, <1>3

LEMMA StreamGrows ==
    ASSUME NEW n \in Nat, NEW l \in Nat, NEW m \in Nat, NEW k \in Nat, k = l + m
    PROVE  Then(Stream(n, l), Piece(n, l, m)) = Stream(n, k)
<1>1. Stream(n, l) = Piece(n, 0, l) /\ Stream(n, k) = Piece(n, 0, k)
  BY StreamIsPiece
<1>2. 0 \in Nat /\ l = 0 + l
  OBVIOUS
<1> QED
  BY <1>1, <1>2, PiecesJoinAt

LEMMA AtStart ==
    /\ BlocksRead(0) = 0 /\ PosAfter(0) = Rate
    /\ \A n \in Nat : ReadState(n, 0) = Finalized(n)
<1>1. 0 = 0 * Rate /\ 0 \in Nat
  BY RateFacts
<1> QED
  BY <1>1, WholeBlocks DEF ReadState

LEMMA EmptyAbsorbed == Absorbed(0).st = Fresh /\ Absorbed(0).pos = 0
<1>1. 0 \div Rate = 0 /\ 0 % Rate = 0
  <2>1. 0 \in Nat /\ 0 \in Positions /\ 0 = 0 * Rate + 0
    BY RateFacts DEF Positions
  <2> QED
    BY <2>1, DivUnique, RateFacts
<1>2. Absorbed(0) = AbsorbedAt(0, 0)
  BY <1>1 DEF Absorbed
<1>3. FullBlocks(0) = <<>> /\ Part(0, 0) = Zero
  BY FullBlocksFacts
<1>4. AbsorbedAt(0, 0) = [st |-> State(<<>>, Zero), pos |-> 0]
  BY <1>3 DEF AbsorbedAt
<1> QED
  BY <1>2, <1>4 DEF State, Fresh

LEMMA SpongeInit == Init => SpongeInv
<1> SUFFICES ASSUME Init PROVE SpongeInv
  OBVIOUS
<1>1. /\ caller = "none" /\ absorbing = TRUE /\ taken = 0 /\ out = <<>>
      /\ s = Fresh /\ pos = 0 /\ coeffs = <<>> /\ below = {}
  BY DEF Init
<1>2. Len(out) = 0
  BY <1>1
<1>3. Stream(0, 0) = <<>>
  BY StreamFacts
<1>4. Absorbed(0).st = Fresh /\ Absorbed(0).pos = 0
  BY EmptyAbsorbed
<1>5. SpongeTypes
  BY <1>1, <1>2, <1>3, BoundFacts DEF SpongeTypes, OutputIsStream
<1>6. StateInv
  BY <1>1, <1>2, <1>4 DEF StateInv
<1>7. SampleInv
  BY <1>1 DEF SampleInv
<1> QED
  BY <1>5, <1>6, <1>7 DEF SpongeInv

LEMMA AbsorbStep ==
    ASSUME SpongeInv, NEW n \in 0..MaxIn, Absorb(n)
    PROVE  SpongeInv'
<1>1. /\ caller \in {"none", "pieces"} /\ absorbing /\ taken \in Nat
      /\ s = Absorbed(taken).st /\ pos = Absorbed(taken).pos /\ Len(out) = 0
      /\ OutputIsStream /\ coeffs = <<>> /\ below = {} /\ n \in Nat
  BY BoundFacts DEF SpongeInv, SpongeTypes, StateInv, SampleInv, Absorb
<1>2. /\ caller' = "pieces" /\ absorbing' = absorbing /\ out' = out
      /\ coeffs' = coeffs /\ below' = below
      /\ taken' = taken + n /\ taken + n <= MaxIn
      /\ s' = KeccakAbsorb([st |-> s, pos |-> pos], taken, n).st
      /\ pos' = KeccakAbsorb([st |-> s, pos |-> pos], taken, n).pos
  BY DEF Absorb, sampling
<1>3. [st |-> s, pos |-> pos] = Absorbed(taken)
  BY <1>1 DEF Absorbed, AbsorbedAt
<1>4. KeccakAbsorb([st |-> s, pos |-> pos], taken, n) = Absorbed(taken')
  BY <1>1, <1>2, <1>3, AbsorbLoop
<1>5. taken' \in 0..MaxIn /\ taken' \in Nat
  BY <1>1, <1>2, BoundFacts
<1>6. out' = Stream(taken', Len(out'))
  <2>1. out = <<>>
    BY <1>1, StreamFacts DEF OutputIsStream
  <2>2. Stream(taken', 0) = <<>>
    BY <1>5, StreamFacts
  <2> QED
    BY <1>1, <1>2, <2>1, <2>2
<1>7. SpongeTypes'
  BY <1>1, <1>2, <1>5, <1>6 DEF SpongeTypes, OutputIsStream
<1>8. StateInv'
  BY <1>1, <1>2, <1>4 DEF StateInv
<1>9. SampleInv'
  BY <1>1, <1>2 DEF SampleInv
<1> QED
  BY <1>7, <1>8, <1>9 DEF SpongeInv

LEMMA FinalizeStep ==
    ASSUME SpongeInv, Finalize
    PROVE  SpongeInv'
<1>1. /\ caller = "pieces" /\ absorbing /\ taken \in Nat /\ taken \in 0..MaxIn
      /\ s = Absorbed(taken).st /\ pos = Absorbed(taken).pos /\ Len(out) = 0
      /\ OutputIsStream /\ coeffs = <<>> /\ below = {}
  BY BoundFacts DEF SpongeInv, SpongeTypes, StateInv, SampleInv, Finalize
<1>2. /\ caller' = "pieces" /\ absorbing' = FALSE /\ out' = out /\ taken' = taken
      /\ coeffs' = coeffs /\ below' = below
      /\ s' = KeccakFinalize(s, pos) /\ pos' = Rate
  BY <1>1 DEF Finalize, sampling
<1>3. s' = ReadState(taken, 0)
  BY <1>1, <1>2, FinalizePads, AtStart
<1>4. SpongeTypes'
  <2>1. out = Stream(taken, Len(out))
    BY <1>1 DEF OutputIsStream
  <2>2. OutputIsStream'
    BY <1>2, <2>1 DEF OutputIsStream
  <2>3. absorbing' \in BOOLEAN
    BY <1>2
  <2>4. Len(out') \in Nat
    BY <1>1, <1>2
  <2> QED
    BY <1>1, <1>2, <2>2, <2>3, <2>4 DEF SpongeTypes
<1>5. StateInv'
  BY <1>1, <1>2, <1>3, AtStart DEF StateInv
<1>6. SampleInv'
  BY <1>1, <1>2 DEF SampleInv
<1> QED
  BY <1>4, <1>5, <1>6 DEF SpongeInv

LEMMA SqueezeStep ==
    ASSUME SpongeInv, NEW m \in Nat, Squeeze(m)
    PROVE  SpongeInv'
<1>1. /\ caller = "pieces" /\ ~ absorbing /\ absorbing \in BOOLEAN
      /\ taken \in Nat /\ taken \in 0..MaxIn
      /\ s = ReadState(taken, BlocksRead(Len(out))) /\ pos = PosAfter(Len(out))
      /\ out = Stream(taken, Len(out)) /\ coeffs = <<>> /\ below = {}
  BY BoundFacts
     DEF SpongeInv, SpongeTypes, StateInv, SampleInv, Squeeze, OutputIsStream
<1> DEFINE sp == [st |-> s, pos |-> pos]
<1>2. /\ caller' = "pieces" /\ absorbing' = absorbing /\ taken' = taken
      /\ coeffs' = coeffs /\ below' = below
      /\ s' = KeccakSqueeze(sp, m).st /\ pos' = KeccakSqueeze(sp, m).pos
      /\ out' = out \o KeccakSqueeze(sp, m).bytes
  BY <1>1 DEF Squeeze, sampling
<1>3. PICK l \in Nat : l = Len(out)
  BY DEF SpongeInv, SpongeTypes
<1>4. KeccakSqueeze(sp, m) = Squeezed(taken, l, m)
  <2>1. sp.st = ReadState(taken, BlocksRead(l)) /\ sp.pos = PosAfter(l)
    BY <1>1, <1>3
  <2> HIDE DEF sp
  <2> QED
    BY <1>1, <2>1, SqueezeLoop
<1> HIDE DEF sp
<1>5. PICK k \in Nat : k = l + m
  OBVIOUS
<1>6. /\ s' = ReadState(taken, BlocksRead(k)) /\ pos' = PosAfter(k)
      /\ out' = Then(Stream(taken, l), Piece(taken, l, m))
  BY <1>1, <1>2, <1>3, <1>4, <1>5 DEF Squeezed, Then
<1>7. out' = Stream(taken, k) /\ Len(out') = k
  BY <1>1, <1>5, <1>6, StreamGrows, StreamFacts
<1>8. SpongeTypes'
  <2>1. OutputIsStream'
    BY <1>2, <1>7 DEF OutputIsStream
  <2> QED
    BY <1>1, <1>2, <1>7, <2>1 DEF SpongeTypes
<1>9. StateInv'
  BY <1>1, <1>2, <1>6, <1>7 DEF StateInv
<1>10. SampleInv'
  BY <1>1, <1>2 DEF SampleInv
<1> QED
  BY <1>8, <1>9, <1>10 DEF SpongeInv

\* Whole blocks, read from where a block ends.
Bytes(blocks) == blocks * Rate

LEMMA BytesFacts ==
    ASSUME NEW c \in Nat, NEW b \in Nat, NEW d \in Nat, d = c + b
    PROVE  /\ Bytes(c) \in Nat /\ Bytes(d) = Bytes(c) + Bytes(b)
           /\ BlocksRead(Bytes(d)) = d /\ PosAfter(Bytes(d)) = Rate
<1>1. Bytes(c) \in Nat /\ Bytes(d) \in Nat /\ Bytes(d) = Bytes(c) + Bytes(b)
  BY RateFacts, SMT DEF Bytes
<1>2. Bytes(d) = d * Rate
  BY DEF Bytes
<1> QED
  BY <1>1, <1>2, WholeBlocks

LEMMA BlocksRun ==
    ASSUME NEW n \in Nat, NEW c \in Nat, NEW b \in Nat, NEW d \in Nat, d = c + b
    PROVE  /\ KeccakSqueezeBlocks(ReadState(n, c), b).st = ReadState(n, c + b)
           /\ KeccakSqueezeBlocks(ReadState(n, c), b).bytes
                  = Piece(n, Bytes(c), Bytes(b))
           /\ Then(Stream(n, Bytes(c)), Piece(n, Bytes(c), Bytes(b)))
                  = Stream(n, Bytes(d))
<1>1. KeccakSqueezeBlocks(ReadState(n, c), b) = BlocksAfter(n, c, b)
  BY SqueezeBlocksLoop
<1>2. BlocksAfter(n, c, b)
          = [st |-> ReadState(n, d), bytes |-> Piece(n, Bytes(c), Bytes(b))]
  BY DEF BlocksAfter, Bytes
<1>3. PICK l \in Nat : l = Bytes(c)
  BY BytesFacts
<1>4. PICK m \in Nat : m = Bytes(b)
  BY RateFacts DEF Bytes
<1>5. PICK k \in Nat : k = Bytes(d) /\ k = l + m
  BY <1>3, <1>4, BytesFacts
<1>6. Then(Stream(n, l), Piece(n, l, m)) = Stream(n, k)
  BY <1>3, <1>4, <1>5, StreamGrows
<1> QED
  BY <1>1, <1>2, <1>3, <1>4, <1>5, <1>6

LEMMA SqueezeBlocksStep ==
    ASSUME SpongeInv, NEW b \in Nat, SqueezeBlocks(b)
    PROVE  SpongeInv'
<1>1. /\ caller = "pieces" /\ ~ absorbing /\ absorbing \in BOOLEAN
      /\ taken \in Nat /\ taken \in 0..MaxIn
      /\ s = ReadState(taken, BlocksRead(Len(out))) /\ pos = PosAfter(Len(out))
      /\ out = Stream(taken, Len(out)) /\ coeffs = <<>> /\ below = {} /\ pos = Rate
  BY BoundFacts
     DEF SpongeInv, SpongeTypes, StateInv, SampleInv, SqueezeBlocks, OutputIsStream
<1>2. /\ caller' = "pieces" /\ absorbing' = absorbing /\ taken' = taken
      /\ coeffs' = coeffs /\ below' = below /\ pos' = pos
      /\ s' = KeccakSqueezeBlocks(s, b).st
      /\ out' = out \o KeccakSqueezeBlocks(s, b).bytes
  BY <1>1 DEF SqueezeBlocks, sampling
<1>3. PICK l \in Nat : l = Len(out)
  BY DEF SpongeInv, SpongeTypes
<1>4. PICK c \in Nat : c = BlocksRead(l) /\ l = Bytes(c)
  BY <1>1, <1>3, EndOfBlock, PlaceFacts DEF Bytes
<1>5. PICK d \in Nat : d = c + b
  BY <1>4
<1>6. PICK k \in Nat : k = Bytes(d)
  BY <1>4, <1>5, RateFacts DEF Bytes
<1>7. s = ReadState(taken, c)
  BY <1>1, <1>3, <1>4
<1>8. /\ s' = ReadState(taken, BlocksRead(k)) /\ PosAfter(k) = Rate
      /\ out' = Stream(taken, k)
  <2>1. BlocksRead(k) = d /\ PosAfter(k) = Rate
    BY <1>4, <1>5, <1>6, BytesFacts
  <2>2. /\ KeccakSqueezeBlocks(s, b).st = ReadState(taken, d)
        /\ Then(Stream(taken, l), KeccakSqueezeBlocks(s, b).bytes)
               = Stream(taken, k)
    <3>1. taken \in Nat /\ c \in Nat /\ b \in Nat /\ d \in Nat /\ d = c + b
      BY <1>1, <1>4, <1>5
    <3>2. KeccakSqueezeBlocks(ReadState(taken, c), b).st = ReadState(taken, d)
      <4>1. KeccakSqueezeBlocks(ReadState(taken, c), b).st = ReadState(taken, c + b)
        BY <3>1, BlocksRun
      <4> QED
        BY <3>1, <4>1
    <3>3. KeccakSqueezeBlocks(ReadState(taken, c), b).bytes
              = Piece(taken, Bytes(c), Bytes(b))
      BY <3>1, BlocksRun
    <3>4. Then(Stream(taken, Bytes(c)), Piece(taken, Bytes(c), Bytes(b)))
              = Stream(taken, Bytes(d))
      BY <3>1, BlocksRun
    <3> QED
      BY <1>4, <1>6, <1>7, <3>2, <3>3, <3>4
  <2> QED
    BY <1>1, <1>2, <1>3, <2>1, <2>2 DEF Then
<1>9. out' = Stream(taken, k) /\ Len(out') = k
  BY <1>1, <1>6, <1>8, StreamFacts
<1>10. SpongeTypes'
  <2>1. OutputIsStream'
    BY <1>2, <1>9 DEF OutputIsStream
  <2> QED
    BY <1>1, <1>2, <1>9, <2>1 DEF SpongeTypes
<1>11. StateInv'
  BY <1>1, <1>2, <1>8, <1>9 DEF StateInv
<1>12. SampleInv'
  BY <1>1, <1>2 DEF SampleInv
<1> QED
  BY <1>10, <1>11, <1>12 DEF SpongeInv

LEMMA OneShotStep ==
    ASSUME SpongeInv, NEW n \in 0..MaxIn, NEW m \in Nat, OneShot(n, m)
    PROVE  SpongeInv'
<1>1. n \in Nat
  BY BoundFacts
<1>2. /\ caller = "none" /\ caller' = "oneshot" /\ taken' = n
      /\ s' = s /\ pos' = pos /\ absorbing' = absorbing
      /\ coeffs' = coeffs /\ below' = below
      /\ out' = Shake(n, m) \/ (m < Rate /\ out' = Sha3(n, m))
  BY DEF OneShot, sampling
<1>3. out' = Stream(n, m) /\ Len(out') = m
  <2>1. Shake(n, m) = Stream(n, m)
    BY <1>1, ShakeIsStream
  <2>2. m < Rate => Sha3(n, m) = Stream(n, m)
    <3>1. m < Rate => m \in 0..Rate
      BY RateFacts
    <3> QED
      BY <1>1, <3>1, Sha3IsStream
  <2>3. out' = Stream(n, m)
    BY <1>2, <2>1, <2>2
  <2> QED
    BY <1>1, <2>3, StreamFacts
<1>4. SpongeTypes'
  BY <1>2, <1>3 DEF SpongeInv, SpongeTypes, OutputIsStream
<1>5. /\ absorbing /\ coeffs = <<>> /\ below = {}
      /\ s = Absorbed(0).st /\ pos = Absorbed(0).pos
  BY <1>2 DEF SpongeInv, StateInv, SampleInv
<1>6. s = Fresh /\ pos = 0
  BY <1>5, EmptyAbsorbed
<1>7. StateInv'
  BY <1>2, <1>5, <1>6 DEF StateInv
<1>8. SampleInv'
  BY <1>2, <1>5 DEF SampleInv
<1> QED
  BY <1>4, <1>7, <1>8 DEF SpongeInv

LEMMA StartSamplingStep ==
    ASSUME SpongeInv, StartSampling
    PROVE  SpongeInv'
<1>1. /\ caller = "none" /\ absorbing /\ taken = 0 /\ coeffs = <<>> /\ below = {}
      /\ Len(out) = 0 /\ out = Stream(taken, Len(out))
  BY DEF SpongeInv, SpongeTypes, StateInv, SampleInv, StartSampling, OutputIsStream
<1>2. /\ caller' = "sampler" /\ absorbing' = FALSE /\ taken' = SeedLen /\ out' = out
      /\ coeffs' = <<>> /\ below' = {}
      /\ s' = KeccakAbsorbOnce(SeedLen) /\ pos' = Rate /\ Rate % 3 = 0
  BY <1>1 DEF StartSampling, sampling
<1>3. SeedLen \in Nat /\ SeedLen \in 0..MaxIn
  BY BoundFacts
<1>4. s' = ReadState(SeedLen, 0)
  BY <1>2, <1>3, AbsorbOncePads, AtStart
<1>5. out' = <<>> /\ Len(out') = 0
  <2>1. 0 \in Nat
    OBVIOUS
  <2> QED
    BY <1>1, <1>2, <2>1, StreamFacts
<1>6. SpongeTypes'
  <2>1. out' = Stream(taken', Len(out'))
    BY <1>2, <1>3, <1>5, StreamFacts
  <2>2. OutputIsStream'
    BY <2>1 DEF OutputIsStream
  <2>3. absorbing' \in BOOLEAN
    BY <1>2
  <2> QED
    BY <1>2, <1>3, <1>5, <2>2, <2>3 DEF SpongeTypes
<1>7. StateInv'
  BY <1>2, <1>4, <1>5, AtStart DEF StateInv
<1>8. SampleInv'
  <2>1. 2 * (0 \div 3) = 0 /\ 0 = 0 * Rate /\ 0 \in Nat
    BY RateFacts
  <2>2. Kept(SeedLen, {}, 0) = <<>>
    BY KeptNone
  <2>3. Prefix(<<>>, Length) = <<>>
    BY BoundFacts DEF Prefix
  <2> QED
    BY <1>2, <1>5, <2>1, <2>2, <2>3 DEF SampleInv, Read, Sampled, SeenIn
<1> QED
  BY <1>6, <1>7, <1>8 DEF SpongeInv

\* A block is a whole number of groups (#if (XOF_BLOCKBYTES % 3) #error).
LEMMA GroupsOfBlocks ==
    ASSUME Rate % 3 = 0, NEW c \in Nat, NEW b \in Nat, NEW e \in Nat, e = c + b
    PROVE  \E h, d \in Nat :
              /\ Bytes(c) = 3 * h /\ Bytes(c) \div 3 = h
              /\ Bytes(b) \div 3 = d /\ Bytes(e) \div 3 = h + d
<1>1. PICK t \in Nat : Rate = 3 * t
  <2>1. Rate \in Nat /\ Rate % 3 = 0
    BY RateFacts
  <2>2. Rate = 3 * (Rate \div 3) /\ Rate \div 3 \in Nat
    BY <2>1, SMT
  <2> QED
    BY <2>2
<1>2. PICK h \in Nat : h = c * t
  BY <1>1, SMT
<1>3. PICK d \in Nat : d = b * t
  BY <1>1, SMT
<1>4. Bytes(c) = 3 * h /\ Bytes(b) = 3 * d
  <2>1. c * (3 * t) = 3 * (c * t) /\ b * (3 * t) = 3 * (b * t)
    BY <1>1, SMT
  <2> QED
    BY <1>1, <1>2, <1>3, <2>1 DEF Bytes
<1>5. Bytes(e) = 3 * (h + d)
  BY <1>4, BytesFacts
<1>6. (3 * h) \div 3 = h /\ (3 * d) \div 3 = d /\ (3 * (h + d)) \div 3 = h + d
  BY <1>2, <1>3
<1> QED
  BY <1>2, <1>3, <1>4, <1>5, <1>6

LEMMA SampleStep ==
    ASSUME SpongeInv, NEW nb \in Nat, Sample(nb)
    PROVE  SpongeInv'
<1>1. /\ caller = "sampler" /\ ~ absorbing /\ absorbing \in BOOLEAN
      /\ taken \in Nat /\ taken \in 0..MaxIn /\ Len(out) \in Nat
      /\ s = ReadState(taken, BlocksRead(Len(out))) /\ pos = PosAfter(Len(out))
      /\ out = Stream(taken, Len(out))
  BY BoundFacts DEF SpongeInv, SpongeTypes, StateInv, SampleInv, Sample, OutputIsStream
<1>2. /\ \E k \in Nat : Len(out) = k * Rate
      /\ coeffs = Sampled(taken, below, Read) /\ SeenIn(taken, below, Read)
  BY <1>1 DEF SpongeInv, SampleInv
<1>0. Rate % 3 = 0
  BY <1>1 DEF SpongeInv, SampleInv
<1> DEFINE bytes == KeccakSqueezeBlocks(s, nb).bytes
<1>3. /\ caller' = "sampler" /\ absorbing' = absorbing /\ taken' = taken /\ pos' = pos
      /\ s' = KeccakSqueezeBlocks(s, nb).st
      /\ out' = out \o bytes
      /\ \E small \in SUBSET Candidates(bytes) :
            /\ coeffs' = coeffs \o RejUniform(Room, bytes, small)
            /\ below' = below \cup small
  BY <1>1 DEF Sample
<1> HIDE DEF bytes
<1>4. PICK small : /\ small \subseteq Candidates(bytes)
                   /\ coeffs' = coeffs \o RejUniform(Room, bytes, small)
                   /\ below' = below \cup small
  BY <1>3
<1>5. PICK c \in Nat : Len(out) = Bytes(c)
  BY <1>2 DEF Bytes
<1>6. PICK e \in Nat : e = c + nb
  BY <1>5
<1>7. PICK h, d \in Nat : /\ Bytes(c) = 3 * h /\ Bytes(c) \div 3 = h
                          /\ Bytes(nb) \div 3 = d /\ Bytes(e) \div 3 = h + d
  BY <1>0, <1>5, <1>6, GroupsOfBlocks
<1>8. /\ BlocksRead(Bytes(c)) = c /\ PosAfter(Bytes(c)) = Rate
      /\ BlocksRead(Bytes(e)) = e /\ PosAfter(Bytes(e)) = Rate
      /\ Bytes(nb) \in Nat /\ Bytes(e) \in Nat
  <2>1. Bytes(c) = c * Rate /\ Bytes(e) = e * Rate /\ Bytes(nb) \in Nat /\ Bytes(e) \in Nat
    BY <1>5, <1>6, RateFacts, SMT DEF Bytes
  <2> QED
    BY <1>5, <1>6, <2>1, WholeBlocks
<1>9. /\ s' = ReadState(taken, e) /\ bytes = Piece(taken, Bytes(c), Bytes(nb))
      /\ out' = Stream(taken, Bytes(e))
  <2>1. s = ReadState(taken, c)
    BY <1>1, <1>5, <1>8
  <2>2. taken \in Nat /\ c \in Nat /\ nb \in Nat /\ e \in Nat /\ e = c + nb
    BY <1>1, <1>5, <1>6
  <2>3. KeccakSqueezeBlocks(ReadState(taken, c), nb).st = ReadState(taken, c + nb)
    BY <2>2, BlocksRun
  <2>4. KeccakSqueezeBlocks(ReadState(taken, c), nb).bytes
            = Piece(taken, Bytes(c), Bytes(nb))
    BY <2>2, BlocksRun
  <2>5. Then(Stream(taken, Bytes(c)), Piece(taken, Bytes(c), Bytes(nb)))
            = Stream(taken, Bytes(e))
    BY <2>2, BlocksRun
  <2>6. s' = ReadState(taken, e)
    BY <1>3, <2>1, <2>2, <2>3
  <2>7. bytes = Piece(taken, Bytes(c), Bytes(nb))
    BY <2>1, <2>4 DEF bytes
  <2>8. out' = Then(Stream(taken, Bytes(c)), Piece(taken, Bytes(c), Bytes(nb)))
    BY <1>1, <1>3, <1>5, <2>7 DEF Then
  <2> QED
    BY <2>5, <2>6, <2>7, <2>8
<1>10. Len(out') = Bytes(e)
  BY <1>1, <1>8, <1>9, StreamFacts
<1>11. Read = h /\ Read' = h + d
  BY <1>5, <1>7, <1>10 DEF Read
<1>12. /\ Then(coeffs, RejUniform(Room, bytes, small))
              = Sampled(taken, below \cup small, h + d)
       /\ SeenIn(taken, below \cup small, h + d)
  <2>1. PICK m \in Nat : m = Bytes(nb)
    BY <1>8
  <2>2. bytes = From(taken, h, m)
    BY <1>7, <1>9, <2>1 DEF From
  <2>3. After(h, m) = h + d
    BY <1>7, <2>1 DEF After
  <2>4. FoundIn(small, taken, h, m)
    BY <1>4, <2>2 DEF FoundIn
  <2>5. SampledSoFar(coeffs, taken, below, h)
    BY <1>2, <1>11 DEF SampledSoFar
  <2>6. taken \in Nat /\ h \in Nat /\ m \in Nat
    BY <1>1, <1>7, <2>1
  <2>7. SampledSoFar(Extended(coeffs, taken, h, m, small),
                     taken, below \cup small, After(h, m))
    BY <2>4, <2>5, <2>6, SampledPiece
  <2>8. Extended(coeffs, taken, h, m, small)
            = Then(coeffs, RejUniform(Room, bytes, small))
    BY <2>2 DEF Extended, Room
  <2> QED
    BY <2>3, <2>7, <2>8 DEF SampledSoFar
<1>13. SpongeTypes'
  <2>1. OutputIsStream'
    BY <1>3, <1>9, <1>10 DEF OutputIsStream
  <2> QED
    BY <1>1, <1>3, <1>8, <1>10, <2>1 DEF SpongeTypes
<1>14. StateInv'
  BY <1>1, <1>3, <1>5, <1>8, <1>9, <1>10 DEF StateInv
<1>15. SampleInv'
  <2>1. coeffs' = Sampled(taken', below', Read')
    BY <1>3, <1>4, <1>11, <1>12 DEF Then
  <2>2. SeenIn(taken', below', Read')
    BY <1>3, <1>4, <1>11, <1>12
  <2>3. \E k \in Nat : Len(out') = k * Rate
    BY <1>6, <1>10 DEF Bytes
  <2> QED
    BY <1>0, <1>1, <1>3, <2>1, <2>2, <2>3 DEF SampleInv
<1> QED
  BY <1>13, <1>14, <1>15 DEF SpongeInv

LEMMA SpongeStutter ==
    ASSUME SpongeInv, UNCHANGED vars
    PROVE  SpongeInv'
<1>1. /\ caller' = caller /\ s' = s /\ pos' = pos /\ absorbing' = absorbing
      /\ taken' = taken /\ out' = out /\ coeffs' = coeffs /\ below' = below
  BY DEF vars
<1>2. SpongeTypes'
  BY <1>1 DEF SpongeInv, SpongeTypes, OutputIsStream
<1>3. StateInv'
  BY <1>1 DEF SpongeInv, StateInv
<1>4. SampleInv'
  BY <1>1 DEF SpongeInv, SampleInv, Read
<1> QED
  BY <1>2, <1>3, <1>4 DEF SpongeInv

(***************************************************************************)
(* In every reachable state of a sponge its two parts, pos and what was    *)
(* squeezed or sampled are given by how much went in and how much came out.*)
(***************************************************************************)
THEOREM SpongeInvariant == Spec => []SpongeInv
<1>1. Init => SpongeInv
  BY SpongeInit
<1>2. SpongeInv /\ [Next]_vars => SpongeInv'
  <2> SUFFICES ASSUME SpongeInv, [Next]_vars PROVE SpongeInv'
    OBVIOUS
  <2>1. ASSUME NEW n \in 0..MaxIn, Absorb(n) PROVE SpongeInv'
    BY <2>1, AbsorbStep
  <2>2. CASE StartSampling
    BY <2>2, StartSamplingStep
  <2>3. CASE Finalize
    BY <2>3, FinalizeStep
  <2>4. ASSUME NEW m \in 0..MaxOut, Squeeze(m) \/ SqueezeBlocks(m) PROVE SpongeInv'
    <3>1. m \in Nat
      BY BoundFacts
    <3> QED
      BY <2>4, <3>1, SqueezeStep, SqueezeBlocksStep
  <2>5. ASSUME NEW n \in 0..MaxIn, NEW m \in 0..MaxOut, OneShot(n, m) PROVE SpongeInv'
    <3>1. m \in Nat
      BY BoundFacts
    <3> QED
      BY <2>5, <3>1, OneShotStep
  <2>6. CASE SampleFirst
    <3>1. FirstBlocks \in Nat /\ Sample(FirstBlocks)
      BY <2>6, BoundFacts DEF SampleFirst
    <3> QED
      BY <3>1, SampleStep
  <2>7. CASE SampleMore
    <3>1. 1 \in Nat /\ Sample(1)
      BY <2>7 DEF SampleMore
    <3> QED
      BY <3>1, SampleStep
  <2>8. CASE UNCHANGED vars
    BY <2>8, SpongeStutter
  <2> QED
    BY <2>1, <2>2, <2>3, <2>4, <2>5, <2>6, <2>7, <2>8 DEF Next
<1> QED
  BY <1>1, <1>2, PTL DEF Spec

(***************************************************************************)
(* keccak_absorb, keccak_finalize, keccak_squeeze, keccak_squeezeblocks    *)
(* and the one-shot functions: for every rate, every input and every way   *)
(* to cut it and what is read, the output is the stream of FIPS 202.       *)
(***************************************************************************)
THEOREM OutputIsTheStream == Spec => []OutputIsStream
<1>1. SpongeInv => OutputIsStream
  BY DEF SpongeInv, SpongeTypes
<1> QED
  BY <1>1, SpongeInvariant, PTL

\* The groups of a stream read from its start.
LEMMA PairOfStream ==
    ASSUME NEW n \in Nat, NEW m \in Nat, NEW g \in Nat, g \in 1..m \div 3
    PROVE  Pair(Stream(n, m), g) = PairAt(n, g)
<1>1. PICK z \in Nat : z = 0
  OBVIOUS
<1>2. \A k \in 1..m \div 3 : Pair(Piece(n, 3 * z, m), k) = PairAt(n, z + k)
  BY PairOfPiece
<1>3. 3 * z = 0 /\ z + g = g
  BY <1>1
<1>4. Stream(n, m) = Piece(n, 3 * z, m)
  BY <1>3, StreamIsPiece
<1> QED
  BY <1>2, <1>3, <1>4

LEMMA CandidateIs ==
    ASSUME taken \in Nat, Len(out) \in Nat, NEW c \in 1..2 * Read
    PROVE  Candidate(c) = CandAt(taken, c)
<1>1. PICK n \in Nat : n = taken
  OBVIOUS
<1>2. PICK m \in Nat : m = Len(out)
  OBVIOUS
<1>3. PICK g \in Nat : g = (c + 1) \div 2 /\ g \in 1..m \div 3
  BY <1>2 DEF Read
<1>4. Pair(Stream(n, m), g) = PairAt(n, g)
  BY <1>3, PairOfStream
<1> QED
  BY <1>1, <1>2, <1>3, <1>4 DEF Candidate, CandAt

LEMMA ReferenceIsKept ==
    ASSUME NEW m \in Nat, \A c \in 1..m : Candidate(c) = CandAt(taken, c)
    PROVE  CandidatesBelow(m) = Kept(taken, below, m)
<1> DEFINE Body(f, c) == IF c = 0 THEN <<>>
                         ELSE KeptOne(f[c - 1], below, Candidate(c))
           g == [c \in 0..m |-> Kept(taken, below, c)]
           f == CHOOSE f : f = [c \in 0..m |-> Body(f, c)]
<1>1. ASSUME NEW c \in 1..m
      PROVE  Kept(taken, below, c)
                 = KeptOne(Kept(taken, below, c - 1), below, Candidate(c))
  <2>1. PICK k \in Nat : k = c - 1 /\ k + 1 = c
    OBVIOUS
  <2>2. Kept(taken, below, k + 1)
            = KeptOne(Kept(taken, below, k), below, CandAt(taken, k + 1))
    BY KeptNext
  <2>3. Candidate(c) = CandAt(taken, c)
    OBVIOUS
  <2> HIDE DEF f, g
  <2> QED
    BY <2>1, <2>2, <2>3
<1>2. g = [c \in 0..m |-> Body(g, c)]
  <2> SUFFICES ASSUME NEW c \in 0..m PROVE Kept(taken, below, c) = Body(g, c)
    OBVIOUS
  <2>1. CASE c = 0
    BY <2>1, KeptNone
  <2>2. CASE c \in 1..m
    <3>1. g[c - 1] = Kept(taken, below, c - 1)
      BY <2>2
    <3>2. Body(g, c) = KeptOne(g[c - 1], below, Candidate(c))
      BY <2>2
    <3> QED
      BY <1>1, <2>2, <3>1, <3>2
  <2> HIDE DEF g, Body
  <2> QED
    BY <2>1, <2>2
<1>3. f = [c \in 0..m |-> Body(f, c)]
  <2> HIDE DEF g, Body
  <2> QED
    BY <1>2
<1>4. CandidatesBelow(m) = f[m]
  BY DEF CandidatesBelow, KeptOne
<1> HIDE DEF f
<1>5. f[0] = g[0]
  BY <1>3, KeptNone
<1>6. ASSUME NEW c \in 1..m, f[c - 1] = g[c - 1] PROVE f[c] = g[c]
  <2>1. g[c - 1] = Kept(taken, below, c - 1) /\ g[c] = Kept(taken, below, c)
    OBVIOUS
  <2>2. f[c] = KeptOne(f[c - 1], below, Candidate(c))
    <3>1. c \in 0..m /\ c # 0
      OBVIOUS
    <3>2. f[c] = Body(f, c)
      <4> HIDE DEF Body, g
      <4> QED
        BY <1>3, <3>1
    <3> QED
      BY <3>1, <3>2
  <2> HIDE DEF g
  <2> QED
    BY <1>1, <1>6, <2>1, <2>2
<1> HIDE DEF g
<1>7. f[m] = g[m]
  BY <1>5, <1>6, LoopsAgree
<1> QED
  BY <1>4, <1>7 DEF g

(***************************************************************************)
(* gen_matrix and rej_uniform: for every polynomial length, number of      *)
(* first blocks and choice of which candidates are below q, the polynomial *)
(* is the first of them in the order of the stream.                        *)
(***************************************************************************)
THEOREM PolynomialIsSampledInOrder == Spec => []SampledInOrder
<1>1. SpongeInv => SampledInOrder
  <2> SUFFICES ASSUME SpongeInv, caller = "sampler"
               PROVE  coeffs = Prefix(CandidatesBelow(2 * (Len(out) \div 3)), Length)
    BY DEF SampledInOrder
  <2>1. taken \in Nat /\ Len(out) \in Nat
    BY BoundFacts DEF SpongeInv, SpongeTypes
  <2>2. coeffs = Prefix(Kept(taken, below, 2 * Read), Length)
    BY DEF SpongeInv, SampleInv, Sampled
  <2>3. PICK m \in Nat : m = 2 * Read
    BY <2>1 DEF Read
  <2>4. \A c \in 1..m : Candidate(c) = CandAt(taken, c)
    BY <2>1, <2>3, CandidateIs
  <2>5. CandidatesBelow(m) = Kept(taken, below, m)
    BY <2>4, ReferenceIsKept
  <2> QED
    BY <2>2, <2>3, <2>5 DEF Read
<1> QED
  BY <1>1, SpongeInvariant, PTL

(***************************************************************************)
(* The state keeps its size, pos stays in the block it is an index of, and *)
(* no coefficient is written past KYBER_N.                                 *)
(***************************************************************************)
THEOREM SpongeTypeCorrect == Spec => []TypeOK
<1>1. SpongeInv => TypeOK
  <2> SUFFICES ASSUME SpongeInv PROVE TypeOK
    OBVIOUS
  <2>1. /\ caller \in {"none", "pieces", "oneshot", "sampler"}
        /\ taken \in 0..MaxIn /\ taken \in Nat /\ Len(out) \in Nat
    BY BoundFacts DEF SpongeInv, SpongeTypes
  <2>2. DOMAIN Zero = Positions /\ Fresh.block = Zero
    BY DEF Zero, Fresh
  <2>3. ASSUME absorbing, caller # "oneshot"
      PROVE  DOMAIN s.block = Positions /\ pos \in 0..Rate /\ (absorbing => pos < Rate)
    <3>1. s = Absorbed(taken).st /\ pos = Absorbed(taken).pos
      BY <2>3 DEF SpongeInv, StateInv
    <3>2. s = State(FullBlocks(taken \div Rate), Part(taken \div Rate, taken % Rate))
          /\ pos = taken % Rate
      BY <3>1 DEF Absorbed, AbsorbedAt
    <3>3. taken % Rate \in 0..Rate - 1
      BY <2>1, DivFacts, RateFacts
    <3>4. s.block = Part(taken \div Rate, taken % Rate)
      BY <3>2, StateParts
    <3>5. DOMAIN s.block = Positions
      BY <3>4 DEF Part
    <3> QED
      BY <3>2, <3>3, <3>5, RateFacts
  <2>4. ASSUME caller = "oneshot"
      PROVE  DOMAIN s.block = Positions /\ pos \in 0..Rate /\ (absorbing => pos < Rate)
    BY <2>2, <2>4, RateFacts DEF SpongeInv, StateInv
  <2>5. ASSUME ~ absorbing
      PROVE  DOMAIN s.block = Positions /\ pos \in 0..Rate /\ (absorbing => pos < Rate)
    <3>1. s = ReadState(taken, BlocksRead(Len(out))) /\ pos = PosAfter(Len(out))
      BY <2>5 DEF SpongeInv, StateInv
    <3>2. s.block = LastPart(taken) \/ s.block = Zero
      BY <3>1, StateParts DEF ReadState, Finalized
    <3>3. DOMAIN LastPart(taken) = Positions
      BY DEF LastPart
    <3>4. pos \in 0..Rate
      BY <2>1, <3>1, PlaceFacts, RateFacts
    <3> QED
      BY <2>2, <2>5, <3>2, <3>3, <3>4
  <2>6. Len(coeffs) <= Length
    <3>1. CASE caller = "sampler"
      <4>1. coeffs = Prefix(Kept(taken, below, 2 * Read), Length)
        BY <3>1 DEF SpongeInv, SampleInv, Sampled
      <4>2. Kept(taken, below, 2 * Read) \in Seq(Cands(taken))
        <5>1. PICK m \in Nat : m = 2 * Read
          BY <2>1 DEF Read
        <5> QED
          BY <2>1, <5>1, KeptIsSeq
      <4> QED
        BY <4>1, <4>2, PrefixFacts, BoundFacts
    <3>2. CASE caller # "sampler"
      BY <3>2, BoundFacts DEF SpongeInv, SampleInv
    <3> QED
      BY <3>1, <3>2
  <2>7. absorbing \in BOOLEAN
    BY DEF SpongeInv, SpongeTypes
  <2> QED
    BY <2>1, <2>3, <2>4, <2>5, <2>6, <2>7 DEF TypeOK
<1> QED
  BY <1>1, SpongeInvariant, PTL
==============================================================================

---------------------------- MODULE CampaignProofs ----------------------------
(***************************************************************************)
(* Proofs about BenchmarkCampaign, for every number of iterations, every   *)
(* set of times and every size of request and response.                    *)
(***************************************************************************)
EXTENDS BenchmarkCampaign, WellFoundedInduction, TLAPS

Figures == [keygen_ms : Nat, handshake_ms : Nat, payload : Nat]

\* The types of what the properties speak of.
CampaignTypes ==
    /\ i \in 0..Iterations
    /\ result \in Figures
    /\ outcome \in Outcomes
    /\ log \in Seq(Figures)
    /\ outcomes \in Seq(Outcomes)
    /\ latencies \in [1..Iterations -> Nat]
    /\ served \in Nat

(***************************************************************************)
(* A run is only ever in progress for an index of the array, and has done  *)
(* what its place says; a row is written together with its outcome.        *)
(***************************************************************************)
RunInProgress ==
    /\ at \in {"keygen", "network", "record"} => i < Iterations
    /\ at = "network" => result.payload = RequestLen
    /\ at = "record" =>
           (result.payload = RequestLen + ResponseLen <=> ReadInFull(outcome))
    /\ Len(outcomes) = Len(log)

CampaignInv ==
    /\ CampaignTypes
    /\ RunInProgress
    /\ PayloadTellsAnswer
    /\ OneSessionPerRow
    /\ ArrayMatchesLog

\* What printing a row does to the rows.
LEMMA RowFacts ==
    ASSUME NEW S, NEW q \in Seq(S), NEW e \in S
    PROVE  /\ Append(q, e) \in Seq(S)
           /\ Len(Append(q, e)) = Len(q) + 1
           /\ Append(q, e)[Len(q) + 1] = e
           /\ \A k \in 1..Len(q) : Append(q, e)[k] = q[k]
OBVIOUS

\* Nothing is recorded yet and the array is zero.
LEMMA CampaignInit == Init => CampaignInv
<1> SUFFICES ASSUME Init PROVE CampaignInv
  OBVIOUS
<1>1. log = <<>> /\ outcomes = <<>> /\ Len(log) = 0 /\ Len(outcomes) = 0
      /\ log \in Seq(Figures) /\ outcomes \in Seq(Outcomes)
  BY DEF Init
<1>2. CampaignTypes
  BY <1>1, CampaignAssumption
     DEF Init, CampaignTypes, Figures, Blank, Outcomes
<1>3. RunInProgress /\ OneSessionPerRow
  BY <1>1 DEF Init, RunInProgress, OneSessionPerRow
<1>4. PayloadTellsAnswer
  BY <1>1 DEF PayloadTellsAnswer
<1>5. ArrayMatchesLog
  BY <1>1 DEF Init, ArrayMatchesLog
<1> QED
  BY <1>2, <1>3, <1>4, <1>5 DEF CampaignInv

(***************************************************************************)
(* What the size of a response tells: the buffer is larger than a full     *)
(* one, a broken or refused one is shorter.                                *)
(***************************************************************************)
LEMMA ReadLenFacts ==
    ASSUME NEW o \in Outcomes, NEW n \in Lengths(o)
    PROVE  /\ ReadLen(o, n) \in Nat
           /\ ReadLen(o, n) = ResponseLen <=> ReadInFull(o)
<1> USE DEF ReadInFull
<1>1. CASE o \in {"rejected", "accepted"}
  <2>1. n = ResponseLen
    BY <1>1 DEF Lengths
  <2> QED
    BY <1>1, <2>1, CampaignAssumption DEF ReadLen, Connected
<1>2. CASE o = "truncated"
  <2>1. n = ResponseLen - 1
    BY <1>2 DEF Lengths
  <2> QED
    BY <1>2, <2>1, CampaignAssumption DEF ReadLen, Connected
<1>3. CASE o \in {"unreached", "unanswered"}
  BY <1>3, CampaignAssumption DEF ReadLen, Connected
<1>4. CASE o = "refused"
  <2>1. n = 0
    BY <1>4 DEF Lengths
  <2> QED
    BY <1>4, <2>1, CampaignAssumption DEF ReadLen, Connected
<1> QED
  BY <1>1, <1>2, <1>3, <1>4 DEF Outcomes

\* The network handshake sets the payload of the row that follows.
LEMMA NetworkStep == CampaignInv /\ NetworkHandshake => CampaignInv'
<1> SUFFICES ASSUME CampaignInv, NetworkHandshake PROVE CampaignInv'
  OBVIOUS
<1> USE DEF campaign
<1>1. PICK o \in Outcomes :
          /\ outcome' = o
          /\ served' = IF o \in {"unreached", "refused"} THEN served
                       ELSE served + 1
          /\ \E n \in Lengths(o), t \in Times :
                result' = [result EXCEPT
                    !.handshake_ms = IF Connected(o) THEN t ELSE 0,
                    !.payload = @ + ReadLen(o, n)]
  BY DEF NetworkHandshake
<1>2. PICK n \in Lengths(o), t \in Times :
          result' = [result EXCEPT
              !.handshake_ms = IF Connected(o) THEN t ELSE 0,
              !.payload = @ + ReadLen(o, n)]
  BY <1>1
<1>3. ReadLen(o, n) \in Nat /\ (ReadLen(o, n) = ResponseLen <=> ReadInFull(o))
  BY ReadLenFacts
<1>4. result' \in Figures /\ result'.payload = RequestLen + ReadLen(o, n)
  <2>1. /\ result \in Figures /\ result.payload = RequestLen
        /\ RequestLen \in Nat /\ t \in Nat
    BY CampaignAssumption
       DEF CampaignInv, CampaignTypes, RunInProgress, NetworkHandshake
  <2> DEFINE h == IF Connected(o) THEN t ELSE 0
             l == ReadLen(o, n)
  <2>2. h \in Nat /\ l \in Nat
    BY <1>3, <2>1
  <2> DEFINE r == [result EXCEPT !.handshake_ms = h]
  <2>3. result' = [r EXCEPT !.payload = result.payload + l]
    BY <1>2
  <2> HIDE DEF h, l
  <2>4. result.payload + l = RequestLen + l /\ RequestLen + l \in Nat
    BY <2>1, <2>2
  <2>5. r \in Figures
    BY <2>1, <2>2 DEF Figures
  <2> HIDE DEF r
  <2>6. result' = [r EXCEPT !.payload = RequestLen + l]
    BY <2>3, <2>4
  <2>7. result' \in Figures /\ result'.payload = RequestLen + l
    BY <2>4, <2>5, <2>6 DEF Figures
  <2> QED
    BY <2>7 DEF l
<1>5. CampaignTypes'
  BY <1>1, <1>4 DEF CampaignInv, CampaignTypes, NetworkHandshake
<1>6. RunInProgress'
  BY <1>1, <1>3, <1>4, CampaignAssumption
     DEF CampaignInv, RunInProgress, NetworkHandshake
<1>7. PayloadTellsAnswer' /\ ArrayMatchesLog'
  BY DEF CampaignInv, NetworkHandshake, PayloadTellsAnswer, ArrayMatchesLog
<1>8. OneSessionPerRow'
  BY <1>1, RowFacts
     DEF CampaignInv, CampaignTypes, OneSessionPerRow, NetworkHandshake
<1> QED
  BY <1>5, <1>6, <1>7, <1>8 DEF CampaignInv

\* A row, its element of the array and its count are written together.
LEMMA RecordStep == CampaignInv /\ Record => CampaignInv'
<1> SUFFICES ASSUME CampaignInv, Record PROVE CampaignInv'
  OBVIOUS
<1> DEFINE t == TotalMs(result)
<1>1. /\ at = "record" /\ at' = "loop"
      /\ latencies' = [latencies EXCEPT ![i + 1] = t \div Unit]
      /\ successful_runs' = successful_runs + 1
      /\ log' = Append(log, result)
      /\ outcomes' = Append(outcomes, outcome)
      /\ i' = i + 1
      /\ UNCHANGED <<result, outcome, served>>
  BY DEF Record
<1>2. /\ log \in Seq(Figures) /\ outcomes \in Seq(Outcomes)
      /\ result \in Figures /\ outcome \in Outcomes
      /\ i \in 0..Iterations /\ i < Iterations /\ Iterations \in Nat
      /\ latencies \in [1..Iterations -> Nat]
  BY <1>1, CampaignAssumption DEF CampaignInv, CampaignTypes, RunInProgress
<1>3. /\ log' \in Seq(Figures)
      /\ Len(log') = Len(log) + 1
      /\ log'[Len(log) + 1] = result
      /\ \A k \in 1..Len(log) : log'[k] = log[k]
  BY <1>1, <1>2, RowFacts
<1>4. /\ outcomes' \in Seq(Outcomes)
      /\ Len(outcomes') = Len(outcomes) + 1
      /\ outcomes'[Len(outcomes) + 1] = outcome
      /\ \A k \in 1..Len(outcomes) : outcomes'[k] = outcomes[k]
  BY <1>1, <1>2, RowFacts
<1>5. t \in Nat /\ t \div Unit \in Nat
  <2>1. t \in Nat /\ Unit \in Nat /\ Unit > 0
    BY <1>2, CampaignAssumption DEF TotalMs, Figures
  <2> HIDE DEF t
  <2> QED
    BY <2>1
<1>6. CampaignTypes'
  BY <1>1, <1>2, <1>3, <1>4, <1>5 DEF CampaignInv, CampaignTypes
<1>7. RunInProgress'
  BY <1>1, <1>3, <1>4 DEF CampaignInv, RunInProgress
<1>8. PayloadTellsAnswer'
  <2> SUFFICES ASSUME NEW k \in 1..Len(log')
               PROVE  log'[k].payload = RequestLen + ResponseLen
                          <=> ReadInFull(outcomes'[k])
    BY DEF PayloadTellsAnswer
  <2>1. Len(outcomes) = Len(log) /\ Len(log) \in Nat
    BY <1>2 DEF CampaignInv, RunInProgress
  <2>2. CASE k = Len(log) + 1
    BY <1>1, <1>3, <1>4, <2>1, <2>2 DEF CampaignInv, RunInProgress
  <2>3. CASE k \in 1..Len(log)
    BY <1>3, <1>4, <2>1, <2>3 DEF CampaignInv, PayloadTellsAnswer
  <2> QED
    BY <1>3, <2>1, <2>2, <2>3
<1>9. OneSessionPerRow'
  BY <1>1, <1>2, <1>3 DEF CampaignInv, CampaignTypes, OneSessionPerRow
<1>10. ArrayMatchesLog'
  <2>1. Len(log) = i /\ successful_runs = i
    BY DEF CampaignInv, ArrayMatchesLog
  <2>2. Len(log') = i' /\ successful_runs' = i'
    BY <1>1, <1>3, <2>1
  <2>3. ASSUME NEW k \in 1..i'
        PROVE  latencies'[k] = TotalMs(log'[k]) \div Unit
    <3>1. CASE k = i + 1
      BY <1>1, <1>2, <1>3, <2>1, <3>1
    <3>2. CASE k \in 1..i
      <4>1. latencies'[k] = latencies[k] /\ log'[k] = log[k]
        BY <1>1, <1>2, <1>3, <2>1, <3>2
      <4> QED
        BY <3>2, <4>1 DEF CampaignInv, ArrayMatchesLog
    <3>3. i \in Nat /\ k \in 1..i + 1
      BY <1>1, <1>2, <2>3
    <3> QED
      BY <3>1, <3>2, <3>3
  <2>4. ASSUME NEW k \in i' + 1..Iterations
        PROVE  latencies'[k] = 0
    BY <1>1, <1>2 DEF CampaignInv, ArrayMatchesLog
  <2> QED
    BY <2>2, <2>3, <2>4 DEF ArrayMatchesLog
<1> QED
  BY <1>6, <1>7, <1>8, <1>9, <1>10 DEF CampaignInv

\* The other steps leave the rows alone.
LEMMA OtherSteps ==
    ASSUME CampaignInv,
           OutOfMemory \/ StartRun \/ RepeatRun \/ KeygenSucceeds \/ Finish
    PROVE  CampaignInv'
<1> USE CampaignAssumption
    DEF CampaignInv, CampaignTypes, RunInProgress, OneSessionPerRow,
        PayloadTellsAnswer, ArrayMatchesLog, campaign
<1>1. CASE OutOfMemory
  BY <1>1 DEF OutOfMemory
<1>2. CASE StartRun
  BY <1>2 DEF StartRun, Blank, Figures
<1>3. CASE RepeatRun
  BY <1>3 DEF RepeatRun, Retry, RunFails
<1>4. CASE KeygenSucceeds
  <2>1. PICK d \in Times : result' = [result EXCEPT !.keygen_ms = d,
                                                    !.payload = RequestLen]
    BY <1>4 DEF KeygenSucceeds
  <2>2. result' \in Figures /\ result'.payload = RequestLen
    BY <2>1 DEF Figures
  <2> QED
    BY <1>4, <2>2 DEF KeygenSucceeds
<1>5. CASE Finish
  BY <1>5 DEF Finish
<1> QED
  BY <1>1, <1>2, <1>3, <1>4, <1>5

\* The invariant is inductive.
THEOREM CampaignInvariant == Spec => []CampaignInv
<1>1. CampaignInv /\ [Next]_vars => CampaignInv'
  <2> SUFFICES ASSUME CampaignInv, [Next]_vars PROVE CampaignInv'
    OBVIOUS
  <2>1. CASE UNCHANGED vars
    BY <2>1 DEF CampaignInv, CampaignTypes, RunInProgress,
         OneSessionPerRow, PayloadTellsAnswer, ArrayMatchesLog, vars
  <2> QED
    BY <2>1, NetworkStep, RecordStep, OtherSteps DEF Next, Step
<1> QED
  BY <1>1, CampaignInit, PTL DEF Spec

\* A row's payload tells whether the server's answer was read in full.
THEOREM PayloadTells == Spec => []PayloadTellsAnswer
BY CampaignInvariant, PTL DEF CampaignInv

\* The server opens one session per row at most.
THEOREM SessionsAreCounted == Spec => []OneSessionPerRow
BY CampaignInvariant, PTL DEF CampaignInv

\* The array the deviation is computed from is that of the printed rows.
THEOREM ArrayIsOfTheRows == Spec => []ArrayMatchesLog
BY CampaignInvariant, PTL DEF CampaignInv

------------------------------------------------------------------------------
(***************************************************************************)
(* Induction, as a fact about sets of numbers.                             *)
(***************************************************************************)
LEMMA LeastElement ==
    ASSUME NEW T \in SUBSET Nat, T # {}
    PROVE  \E x \in T : \A y \in T : x <= y
<1> DEFINE R == {ss \in Nat \X Nat : ss[1] < ss[2]}
<1>1. R = OpToRel(<, Nat)
  BY Zenon DEF OpToRel
<1>2. IsWellFoundedOn(R, Nat)
  BY <1>1, NatLessThanWellFounded, Zenon
<1>3. PICK x \in T : \A y \in T : ~ (<<y, x>> \in R)
  <2> HIDE DEF R
  <2> QED
    BY <1>2, WFMin
<1>4. \A y \in T : ~ (y < x)
  BY <1>3
<1> QED
  BY <1>4

LEMMA SetInduction ==
    ASSUME NEW S, 0 \in S, \A n \in Nat : n \in S => n + 1 \in S
    PROVE  Nat \subseteq S
<1> SUFFICES ASSUME Nat \ S # {} PROVE FALSE
  OBVIOUS
<1>1. PICK x \in Nat \ S : \A y \in Nat \ S : x <= y
  BY LeastElement
<1>2. x - 1 \in Nat /\ x - 1 \in S
  BY <1>1
<1> QED
  BY <1>2

\* f[k] is the sum of the figures of the first k rows of q.
SumsOf(f, q) ==
    /\ f[0] = 0
    /\ \A k \in 1..Len(q) : f[k] = f[k - 1] + TotalMs(q[k])

\* Rows have one sum only.
LEMMA SumsAreUnique ==
    ASSUME NEW f, NEW g, NEW q \in Seq(Figures), SumsOf(f, q), SumsOf(g, q)
    PROVE  f[Len(q)] = g[Len(q)]
<1> DEFINE S == {k \in Nat : k <= Len(q) => f[k] = g[k]}
<1>1. 0 \in S
  BY DEF SumsOf
<1>2. ASSUME NEW k \in Nat, k \in S PROVE k + 1 \in S
  <2> SUFFICES ASSUME k + 1 <= Len(q) PROVE f[k + 1] = g[k + 1]
    OBVIOUS
  <2>1. f[k] = g[k] /\ k + 1 \in 1..Len(q) /\ (k + 1) - 1 = k
    BY <1>2
  <2> QED
    BY <2>1 DEF SumsOf
<1> HIDE DEF S
<1>3. Nat \subseteq S
  BY <1>1, <1>2, SetInduction
<1>4. Len(q) \in S /\ Len(q) <= Len(q)
  BY <1>3
<1> QED
  BY <1>4 DEF S

\* One more row adds to the sums what it shows.
LEMMA SumsGrow ==
    ASSUME NEW q \in Seq(Figures), NEW r \in Figures,
           NEW f \in [0..Len(q) -> Int], SumsOf(f, q)
    PROVE  \E g \in [0..Len(q) + 1 -> Int] :
               SumsOf(g, Append(q, r)) /\ g[Len(q) + 1] = f[Len(q)] + TotalMs(r)
<1> DEFINE n == Len(q)
           g == [k \in 0..n + 1 |-> IF k = n + 1 THEN f[n] + TotalMs(r) ELSE f[k]]
<1>1. n \in Nat /\ TotalMs(r) \in Int /\ Len(Append(q, r)) = n + 1
  BY DEF TotalMs, Figures
<1>2. /\ Append(q, r)[n + 1] = r
      /\ \A k \in 1..n : Append(q, r)[k] = q[k]
  BY RowFacts
<1> HIDE DEF n
<1>3. n = Len(q)
  BY DEF n
<1>4. g \in [0..n + 1 -> Int]
  BY <1>1, <1>3
<1>5. g[0] = 0
  BY <1>1 DEF SumsOf
<1>6. ASSUME NEW k \in 1..n + 1
      PROVE  g[k] = g[k - 1] + TotalMs(Append(q, r)[k])
  <2>1. CASE k = n + 1
    BY <1>1, <1>2, <2>1
  <2>2. CASE k \in 1..n
    <3>1. f[k] = f[k - 1] + TotalMs(q[k])
      BY <1>3, <2>2 DEF SumsOf
    <3> QED
      BY <1>1, <1>2, <2>2, <3>1
  <2> QED
    BY <1>1, <2>1, <2>2
<1>7. SumsOf(g, Append(q, r)) /\ g[n + 1] = f[n] + TotalMs(r)
  BY <1>1, <1>5, <1>6 DEF SumsOf
<1> HIDE DEF g
<1> QED
  BY <1>3, <1>4, <1>7

------------------------------------------------------------------------------
(* The running totals *)

\* Every figure is a measured one, within the bounds of TypeOK.
MeasuredInv ==
    /\ at \in {"begin", "loop", "keygen", "network", "record", "telemetry"}
    /\ result.keygen_ms \in Times \cup {0}
    /\ at \in {"network", "record"} => result.keygen_ms \in Times
    /\ result.handshake_ms \in Times \cup {0}
    /\ result.payload \in 0..RequestLen + BufferLen
    /\ latencies \in [1..Iterations -> 0..MaxTotal \div Unit]

(***************************************************************************)
(* The totals are those of the rows printed so far; before the first row   *)
(* min is Never, which no row exceeds.                                     *)
(***************************************************************************)
TotalsInv ==
    /\ totals \in [sum : Nat, min : Nat, max : Nat]
    /\ totals.sum <= Len(log) * MaxTotal
    /\ totals.min \in 1..MaxTotal \cup {Never}
    /\ totals.max \in 0..MaxTotal
    /\ \E f \in [0..Len(log) -> Int] :
           SumsOf(f, log) /\ totals.sum = f[Len(log)]
    /\ Len(log) = 0 => totals.min = Never /\ totals.max = 0
    /\ Len(log) > 0 => totals.min \in Shown /\ totals.max \in Shown
    /\ \A t \in Shown : totals.min <= t /\ t <= totals.max

\* What one run's figures add up to.
LEMMA TotalFacts ==
    /\ MaxTotal \in Nat
    /\ \A t \in Times, u \in Times \cup {0} :
           t + u \in 1..MaxTotal /\ t + u <= Never
    /\ \A t \in 0..MaxTotal : t \div Unit \in 0..MaxTotal \div Unit
<1>1. PICK m \in Times : \A t \in Times : t <= m
  BY TimesAssumption
<1>2. Times \subseteq Nat \ {0} /\ Unit \in Nat \ {0} /\ Never \in Nat
  BY CampaignAssumption
<1>3. \A x \in Times : (\A y \in Times : x >= y) => x = m
  BY <1>1, <1>2
<1>4. \A y \in Times : m >= y
  BY <1>1, <1>2
<1>5. Max(Times) = m
  BY <1>3, <1>4 DEF Max
<1>6. MaxTotal = 2 * m /\ m \in Nat
  BY <1>2, <1>5 DEF MaxTotal
<1>7. ASSUME NEW t \in Times, NEW u \in Times \cup {0}
      PROVE  t + u \in 1..MaxTotal /\ t + u <= Never
  BY <1>1, <1>2, <1>6, <1>7, TimesAssumption
<1>8. ASSUME NEW t \in 0..MaxTotal
      PROVE  t \div Unit \in 0..MaxTotal \div Unit
  BY <1>2, <1>6, <1>8
<1> QED
  BY <1>6, <1>7, <1>8

LEMMA TotalsInit == Init => MeasuredInv /\ TotalsInv
<1> SUFFICES ASSUME Init PROVE MeasuredInv /\ TotalsInv
  OBVIOUS
<1>1. /\ log = <<>> /\ Len(log) = 0 /\ totals = [sum |-> 0, min |-> Never, max |-> 0]
      /\ result = [keygen_ms |-> 0, handshake_ms |-> 0, payload |-> 0]
  BY DEF Init, Blank, FirstTotals
<1>2. MaxTotal \in Nat /\ 0 \in 0..MaxTotal \div Unit
  <2>1. 0 \div Unit = 0
    BY CampaignAssumption
  <2> QED
    BY <2>1, TotalFacts
<1>3. MeasuredInv
  BY <1>1, <1>2, CampaignAssumption DEF Init, MeasuredInv
<1>4. \E f \in [0..Len(log) -> Int] : SumsOf(f, log) /\ totals.sum = f[Len(log)]
  <2> DEFINE f == [k \in 0..0 |-> 0]
  <2>1. f \in [0..Len(log) -> Int] /\ SumsOf(f, log) /\ totals.sum = f[Len(log)]
    BY <1>1 DEF SumsOf
  <2> HIDE DEF f
  <2> QED
    BY <2>1
<1>5. Shown = {}
  BY <1>1 DEF Shown
<1>6. TotalsInv
  BY <1>1, <1>2, <1>4, <1>5, CampaignAssumption DEF TotalsInv
<1> QED
  BY <1>3, <1>6

\* The rows shown after one more.
LEMMA ShownGrows ==
    ASSUME CampaignInv, Record
    PROVE  /\ Shown' = Shown \cup {TotalMs(result)}
           /\ Len(log') = Len(log) + 1
<1>1. /\ log \in Seq(Figures) /\ result \in Figures
      /\ log' = Append(log, result)
  BY DEF CampaignInv, CampaignTypes, Record
<1>2. /\ Len(log') = Len(log) + 1
      /\ log'[Len(log) + 1] = result
      /\ \A k \in 1..Len(log) : log'[k] = log[k]
  BY <1>1, RowFacts
<1>3. 1..Len(log') = 1..Len(log) \cup {Len(log) + 1} /\ Len(log) \in Nat
  BY <1>1, <1>2
<1>4. Shown' = {TotalMs(log'[k]) : k \in 1..Len(log')}
  BY DEF Shown, TotalMs
<1> QED
  BY <1>2, <1>3, <1>4 DEF Shown

LEMMA TotalsRecord ==
    ASSUME CampaignInv, MeasuredInv, TotalsInv, Record
    PROVE  MeasuredInv' /\ TotalsInv'
<1> DEFINE t == TotalMs(result)
<1>1. /\ at = "record" /\ at' = "loop"
      /\ latencies' = [latencies EXCEPT ![i + 1] = t \div Unit]
      /\ totals' = [sum |-> totals.sum + t,
                    min |-> SmallerOf(totals.min, t),
                    max |-> LargerOf(totals.max, t)]
      /\ log' = Append(log, result)
      /\ UNCHANGED result
  BY DEF Record
<1>2. t \in 1..MaxTotal /\ t <= Never /\ MaxTotal \in Nat
  BY <1>1, TotalFacts DEF MeasuredInv, TotalMs
<1>3. /\ log \in Seq(Figures) /\ result \in Figures /\ Len(log) \in Nat
      /\ Never \in Nat
  BY CampaignAssumption DEF CampaignInv, CampaignTypes
<1>4. Shown' = Shown \cup {t} /\ Len(log') = Len(log) + 1
  BY ShownGrows
<1>5. t \div Unit \in 0..MaxTotal \div Unit
  BY <1>2, TotalFacts
<1> HIDE DEF t
<1>6. MeasuredInv'
  BY <1>1, <1>5 DEF MeasuredInv
<1>7. /\ totals.sum \in Nat /\ totals.min \in Nat /\ totals.max \in Nat
      /\ totals'.sum = totals.sum + t
      /\ totals'.min = SmallerOf(totals.min, t)
      /\ totals'.max = LargerOf(totals.max, t)
  BY <1>1 DEF TotalsInv
<1>8. totals' \in [sum : Nat, min : Nat, max : Nat]
  BY <1>1, <1>2, <1>7 DEF SmallerOf, LargerOf
<1>9. totals'.sum <= Len(log') * MaxTotal
  <2>1. totals.sum <= Len(log) * MaxTotal
    BY DEF TotalsInv
  <2>2. (Len(log) + 1) * MaxTotal = Len(log) * MaxTotal + MaxTotal
    BY <1>2, <1>3
  <2>3. Len(log) * MaxTotal \in Nat
    BY <1>2, <1>3
  <2> QED
    BY <1>2, <1>4, <1>7, <2>1, <2>2, <2>3
<1>10. totals'.min \in 1..MaxTotal \cup {Never} /\ totals'.max \in 0..MaxTotal
  BY <1>2, <1>7 DEF TotalsInv, SmallerOf, LargerOf
<1>11. \E f \in [0..Len(log') -> Int] :
           SumsOf(f, log') /\ totals'.sum = f[Len(log')]
  <2>1. PICK f \in [0..Len(log) -> Int] :
            SumsOf(f, log) /\ totals.sum = f[Len(log)]
    BY DEF TotalsInv
  <2>2. PICK g \in [0..Len(log) + 1 -> Int] :
            /\ SumsOf(g, Append(log, result))
            /\ g[Len(log) + 1] = f[Len(log)] + TotalMs(result)
    BY <1>3, <2>1, SumsGrow
  <2>3. SumsOf(g, log') /\ totals'.sum = g[Len(log')]
    BY <1>1, <1>4, <1>7, <2>1, <2>2 DEF t
  <2> QED
    BY <1>4, <2>2, <2>3
<1>12. totals'.min \in Shown' /\ totals'.max \in Shown'
  <2>1. CASE Len(log) = 0
    BY <1>2, <1>3, <1>4, <1>7, <2>1 DEF TotalsInv, SmallerOf, LargerOf
  <2>2. CASE Len(log) > 0
    BY <1>4, <1>7, <2>2 DEF TotalsInv, SmallerOf, LargerOf
  <2> QED
    BY <1>3, <2>1, <2>2
<1>13. ASSUME NEW u \in Shown' PROVE totals'.min <= u /\ u <= totals'.max
  <2>1. CASE u = t
    BY <1>2, <1>7, <2>1 DEF SmallerOf, LargerOf
  <2>2. CASE u \in Shown
    <3>1. PICK k \in 1..Len(log) : u = TotalMs(log[k])
      BY <2>2 DEF Shown
    <3>2. log[k] \in Figures
      BY <1>3
    <3>3. u \in Nat
      BY <3>1, <3>2 DEF TotalMs, Figures
    <3>4. totals.min <= u /\ u <= totals.max
      BY <2>2 DEF TotalsInv
    <3> QED
      BY <1>2, <1>7, <3>3, <3>4 DEF SmallerOf, LargerOf
  <2> QED
    BY <1>4, <2>1, <2>2
<1>14. Len(log') > 0
  BY <1>3, <1>4
<1> QED
  BY <1>6, <1>8, <1>9, <1>10, <1>11, <1>12, <1>13, <1>14 DEF TotalsInv

\* The network handshake's figures.
LEMMA TotalsNetwork ==
    ASSUME CampaignInv, MeasuredInv, TotalsInv, NetworkHandshake
    PROVE  MeasuredInv' /\ TotalsInv'
<1>0. PICK o \in Outcomes : \E n \in Lengths(o), t \in Times :
          result' = [result EXCEPT
              !.handshake_ms = IF Connected(o) THEN t ELSE 0,
              !.payload = @ + ReadLen(o, n)]
  BY DEF NetworkHandshake
<1>1. PICK n \in Lengths(o), t \in Times :
          result' = [result EXCEPT
              !.handshake_ms = IF Connected(o) THEN t ELSE 0,
              !.payload = @ + ReadLen(o, n)]
  BY <1>0
<1> DEFINE h == IF Connected(o) THEN t ELSE 0
           p == result.payload + ReadLen(o, n)
<1>2. result \in Figures /\ result.payload = RequestLen
  BY DEF CampaignInv, CampaignTypes, RunInProgress, NetworkHandshake
<1>3. /\ RequestLen \in Nat /\ BufferLen \in Nat /\ ResponseLen \in Nat
      /\ ResponseLen < BufferLen /\ 0 < ResponseLen
  BY CampaignAssumption
<1>4. ReadLen(o, n) \in 0..BufferLen
  BY <1>3 DEF ReadLen, Lengths
<1>5. h \in Times \cup {0} /\ p \in 0..RequestLen + BufferLen
  <2>1. h \in Times \cup {0}
    OBVIOUS
  <2>2. p = RequestLen + ReadLen(o, n)
    BY <1>2
  <2> QED
    BY <1>3, <1>4, <2>1, <2>2
<1>6. /\ result'.keygen_ms = result.keygen_ms
      /\ result'.handshake_ms = h /\ result'.payload = p
  BY <1>1, <1>2 DEF Figures
<1> HIDE DEF h, p
<1>7. /\ at = "network" /\ at' = "record"
      /\ UNCHANGED <<latencies, totals, log>>
  BY DEF NetworkHandshake, campaign
<1>8. MeasuredInv'
  BY <1>1, <1>5, <1>6, <1>7 DEF MeasuredInv, MaxTotal
<1>9. TotalsInv'
  BY <1>7 DEF TotalsInv, Shown, SumsOf, TotalMs, MaxTotal
<1> QED
  BY <1>8, <1>9

\* The other steps leave the totals alone.
LEMMA TotalsOthers ==
    ASSUME CampaignInv, MeasuredInv, TotalsInv,
           \/ OutOfMemory \/ StartRun \/ RepeatRun \/ KeygenSucceeds
           \/ Finish \/ UNCHANGED vars
    PROVE  MeasuredInv' /\ TotalsInv'
<1>1. UNCHANGED <<latencies, totals, log>>
  BY DEF OutOfMemory, StartRun, RepeatRun, KeygenSucceeds, Finish, vars, campaign
<1>2. TotalsInv'
  BY <1>1 DEF TotalsInv, Shown, SumsOf, TotalMs, MaxTotal
<1>3. MeasuredInv'
  <2> USE CampaignAssumption DEF MeasuredInv, MaxTotal, campaign
  <2>1. CASE OutOfMemory \/ Finish
    BY <2>1 DEF OutOfMemory, Finish
  <2>2. CASE StartRun
    BY <2>2 DEF StartRun, Blank
  <2>3. CASE RepeatRun
    BY <2>3 DEF RepeatRun, Retry, RunFails
  <2>4. CASE KeygenSucceeds
    <3>1. PICK t \in Times : result' = [result EXCEPT !.keygen_ms = t,
                                                      !.payload = RequestLen]
      BY <2>4 DEF KeygenSucceeds
    <3>2. /\ result'.keygen_ms = t
          /\ result'.handshake_ms = result.handshake_ms
          /\ result'.payload = RequestLen
      BY <3>1 DEF CampaignInv, CampaignTypes, Figures
    <3>3. RequestLen \in 0..RequestLen + BufferLen
      BY CampaignAssumption
    <3>4. /\ at' = "network" /\ latencies' = latencies
      BY <2>4 DEF KeygenSucceeds
    <3> QED
      BY <3>2, <3>3, <3>4
  <2>5. CASE UNCHANGED vars
    BY <2>5 DEF vars
  <2> QED
    BY <2>1, <2>2, <2>3, <2>4, <2>5
<1> QED
  BY <1>2, <1>3

THEOREM TotalsInvariant == Spec => [](CampaignInv /\ MeasuredInv /\ TotalsInv)
<1> DEFINE Inv == MeasuredInv /\ TotalsInv
<1>1. CampaignInv /\ Inv /\ [Next]_vars => Inv'
  <2> SUFFICES ASSUME CampaignInv, Inv, [Next]_vars PROVE Inv'
    OBVIOUS
  <2> QED
    BY TotalsRecord, TotalsNetwork, TotalsOthers DEF Next, Step
<1>2. Init => Inv
  BY TotalsInit
<1> HIDE DEF Inv
<1>3. Spec => []Inv
  BY <1>1, <1>2, CampaignInvariant, PTL DEF Spec
<1> QED
  BY <1>3, CampaignInvariant, PTL DEF Inv

\* The sums of the rows are a function that has its defining equation.
LEMMA SumsOfRowsFacts ==
    ASSUME log \in Seq(Figures),
           NEW f \in [0..Len(log) -> Int], SumsOf(f, log)
    PROVE  SumsOf(SumsOfRows, log)
<1> DEFINE n == Len(log)
<1>1. n \in Nat
  OBVIOUS
<1> HIDE DEF n
<1>2. f = [k \in 0..n |-> IF k = 0 THEN 0 ELSE f[k - 1] + TotalMs(log[k])]
  <2>1. ASSUME NEW k \in 0..n
        PROVE  f[k] = IF k = 0 THEN 0 ELSE f[k - 1] + TotalMs(log[k])
    BY <1>1 DEF SumsOf, n
  <2>2. f = [k \in 0..n |-> f[k]]
    BY DEF n
  <2> QED
    BY <2>1, <2>2
<1>3. SumsOfRows = [k \in 0..n |-> IF k = 0 THEN 0
                                   ELSE SumsOfRows[k - 1] + TotalMs(log[k])]
  BY <1>2 DEF SumsOfRows, n
<1>4. SumsOfRows[0] = 0
  BY <1>1, <1>3
<1>5. ASSUME NEW k \in 1..n
      PROVE  SumsOfRows[k] = SumsOfRows[k - 1] + TotalMs(log[k])
  <2>1. k \in 0..n /\ k # 0
    BY <1>1
  <2> QED
    BY <1>3, <2>1
<1> QED
  BY <1>4, <1>5 DEF SumsOf, n

\* The summary's minimum, maximum and sum are those of the printed rows.
LEMMA SummaryFromTotals == CampaignInv /\ TotalsInv => SummaryOfLog
<1> SUFFICES ASSUME CampaignInv, TotalsInv, log # <<>>
             PROVE  /\ totals.min = Min(Shown)
                    /\ totals.max = Max(Shown)
                    /\ totals.sum = SumsOfRows[Len(log)]
  BY DEF SummaryOfLog
<1>1. log \in Seq(Figures) /\ Len(log) > 0
  BY DEF CampaignInv, CampaignTypes
<1>2. /\ totals.min \in Shown /\ totals.max \in Shown
      /\ \A u \in Shown : totals.min <= u /\ u <= totals.max
      /\ totals.min \in Nat /\ totals.max \in Nat
  BY <1>1 DEF TotalsInv
<1>3. ASSUME NEW u \in Shown PROVE u \in Nat
  <2>1. PICK k \in 1..Len(log) : u = TotalMs(log[k])
    BY DEF Shown
  <2>2. log[k] \in Figures
    BY <1>1
  <2> QED
    BY <2>1, <2>2 DEF TotalMs, Figures
<1> HIDE DEF Shown
<1>4. totals.min = Min(Shown)
  <2>1. ASSUME NEW u \in Shown, \A y \in Shown : u <= y
        PROVE  u = totals.min
    BY <1>2, <1>3, <2>1
  <2> QED
    BY <1>2, <2>1 DEF Min
<1>5. totals.max = Max(Shown)
  <2>1. ASSUME NEW u \in Shown, \A y \in Shown : u >= y
        PROVE  u = totals.max
    BY <1>2, <1>3, <2>1
  <2>2. \A y \in Shown : totals.max >= y
    BY <1>2, <1>3
  <2> QED
    BY <1>2, <2>1, <2>2 DEF Max
<1>6. PICK f \in [0..Len(log) -> Int] :
          SumsOf(f, log) /\ totals.sum = f[Len(log)]
  BY DEF TotalsInv
<1>7. totals.sum = SumsOfRows[Len(log)]
  BY <1>1, <1>6, SumsOfRowsFacts, SumsAreUnique
<1> QED
  BY <1>4, <1>5, <1>7

(***************************************************************************)
(* The rows, the array and the summary are of the same runs.               *)
(***************************************************************************)
THEOREM FiguresAreOfTheRows == Spec => []FiguresMatchLog
<1>1. CampaignInv /\ TotalsInv => FiguresMatchLog
  BY SummaryFromTotals DEF FiguresMatchLog, CampaignInv
<1> QED
  BY <1>1, TotalsInvariant, PTL

\* Every variable of the campaign keeps its type, the totals their bounds.
THEOREM CampaignTypeCorrect == Spec => []TypeOK
<1>1. CampaignInv /\ MeasuredInv /\ TotalsInv => TypeOK
  <2> SUFFICES ASSUME CampaignInv, MeasuredInv, TotalsInv PROVE TypeOK
    OBVIOUS
  <2>1. i \in 0..Iterations /\ Len(log) = i /\ successful_runs = i
    BY DEF CampaignInv, CampaignTypes, ArrayMatchesLog
  <2>2. totals.sum \in 0..Iterations * MaxTotal
    <3>1. totals.sum \in Nat /\ totals.sum <= i * MaxTotal
      BY <2>1 DEF TotalsInv
    <3>2. i \in Nat /\ MaxTotal \in Nat /\ Iterations \in Nat /\ i <= Iterations
      BY <2>1, TotalFacts, CampaignAssumption
    <3>3. i * MaxTotal <= Iterations * MaxTotal
      BY <3>2
    <3>4. i * MaxTotal \in Nat /\ Iterations * MaxTotal \in Nat
      BY <3>2
    <3> QED
      BY <3>1, <3>3, <3>4
  <2> QED
    BY <2>1, <2>2
       DEF TypeOK, CampaignInv, CampaignTypes, MeasuredInv, TotalsInv
<1> QED
  BY <1>1, TotalsInvariant, PTL
==============================================================================

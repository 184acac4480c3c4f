-------------------------- MODULE BenchmarkCampaign ---------------------------
(***************************************************************************)
(* firmware/main/benchmark.c: benchmark_run_campaign, the hundred          *)
(* handshakes pqc_task performs before its telemetry loop, with the runs   *)
(* benchmark_run_single makes and the server and network they meet.  Each  *)
(* run has key pairs of its own; its figures go to the CSV log, to the     *)
(* latencies array and to the running totals.                              *)
(***************************************************************************)
EXTENDS Integers, Sequences, FiniteSetsExt

CONSTANTS
    Iterations,    \* iterations (100)
    Times,         \* what a measured step may take, in 1/Unit ms
    Unit,          \* resolution of the measured times
    RequestLen,    \* bytes hybrid_pack_pubkeys writes (1249)
    ResponseLen,   \* bytes of a full hybrid response (1168)
    BufferLen,     \* sizeof(response_buf) (1200)
    Never          \* the initial min_ms (999999.0f)

ASSUME CampaignAssumption ==
    /\ Iterations \in Nat \ {0}
    /\ Times \subseteq Nat \ {0}
    /\ Unit \in Nat \ {0}
    /\ {RequestLen, ResponseLen, BufferLen} \subseteq Nat
    /\ 0 < ResponseLen /\ ResponseLen < BufferLen
    /\ Never \in Nat

\* Every wait of a run ends by a timeout (timeout_ms = 5000), so a run's
\* figures are bounded, by far less than min_ms starts with.
ASSUME TimesAssumption ==
    /\ \E m \in Times : \A t \in Times : t <= m
    /\ \A t, u \in Times : t + u <= Never

VARIABLES
    at,              \* where pqc_task is
    i,               \* the loop's i
    result,          \* benchmark_result_t
    outcome,         \* how the network handshake of this run went
    latencies,       \* the calloc'ed array
    totals,          \* total_ms_sum, min_ms, max_ms
    successful_runs,
    log,             \* the CSV_DATA rows printed
    outcomes,        \* history: the outcome of each row
    served           \* sessions the server opened for the campaign

vars == <<at, i, result, outcome, latencies, totals, successful_runs, log,
          outcomes, served>>

campaign == <<latencies, totals, successful_runs, log, outcomes>>

(***************************************************************************)
(* unreached: no connection.  unanswered: the server opened a session but  *)
(* its answer is not read.  truncated: the body breaks off.  refused: the  *)
(* server's 200 with an empty body.  rejected: a full response that        *)
(* hybrid_process_server_response returns -1 for (it was damaged, or the   *)
(* key agreement or the key derivation failed).  accepted: a session key.  *)
(***************************************************************************)
Outcomes ==
    {"unreached", "unanswered", "truncated", "refused", "rejected", "accepted"}

Blank == [keygen_ms |-> 0, handshake_ms |-> 0, payload |-> 0]

TotalMs(r) == r.keygen_ms + r.handshake_ms

\* A bug: the minimum starts like the maximum.
FirstTotalsZero == [sum |-> 0, min |-> 0, max |-> 0]

FirstTotals == [sum |-> 0, min |-> Never, max |-> 0]

Init ==
    /\ at = "begin"
    /\ i = 0
    /\ result = Blank
    /\ outcome = "unreached"
    /\ latencies = [k \in 1..Iterations |-> 0]
    /\ totals = FirstTotals
    /\ successful_runs = 0
    /\ log = <<>>
    /\ outcomes = <<>>
    /\ served = 0

------------------------------------------------------------------------------
(* benchmark_run_campaign *)

\* calloc may fail; pqc_task does not look at the result.
OutOfMemory ==
    /\ at = "begin"
    /\ at' = "telemetry"
    /\ UNCHANGED <<i, result, outcome, campaign, served>>

\* The head of the loop, and benchmark_run_single up to the key generation.
StartRun ==
    /\ at \in {"begin", "loop"}
    /\ i < Iterations
    /\ at' = "keygen"
    /\ result' = Blank
    /\ UNCHANGED <<i, outcome, campaign, served>>

\* i-- and continue: the index is drawn again.
\* A bug: as in benchmark_run_suite, the run is skipped.
RetrySkips == i' = i + 1

Retry == UNCHANGED i

\* do_network_handshake returns 0: connected, and status 200 was read.
Connected(o) == o \in {"truncated", "refused", "rejected", "accepted"}

\* Only a failed key generation makes benchmark_run_single return -1.
\* A bug: it returns what the network handshake returned.
RunFailsOffline ==
    \/ at = "keygen"
    \/ at = "record" /\ ~ Connected(outcome)

RunFails == at = "keygen"

RepeatRun ==
    /\ RunFails
    /\ Retry
    /\ at' = "loop"
    /\ UNCHANGED <<result, outcome, campaign, served>>

KeygenSucceeds ==
    /\ at = "keygen"
    /\ \E t \in Times : result' = [result EXCEPT !.keygen_ms = t,
                                                 !.payload = RequestLen]
    /\ at' = "network"
    /\ UNCHANGED <<i, outcome, campaign, served>>

\* *response_len after do_network_handshake: what was read, or the size of
\* the buffer when it returned early.
\* A bug: the buffer is no larger than a response.
ReadLenExact(o, n) == IF Connected(o) THEN n ELSE ResponseLen

ReadLen(o, n) == IF Connected(o) THEN n ELSE BufferLen

Lengths(o) ==
    CASE o \in {"rejected", "accepted"} -> {ResponseLen}
      [] o = "truncated" -> {ResponseLen - 1}
      [] OTHER -> {0}

\* do_network_handshake and what benchmark_run_single makes of it: without an
\* answer it measures an encapsulation of its own, and no handshake time; what
\* hybrid_process_server_response returns for an answer, it does not use.
NetworkHandshake ==
    /\ at = "network"
    /\ \E o \in Outcomes :
          /\ outcome' = o
          /\ served' = IF o \in {"unreached", "refused"} THEN served
                       ELSE served + 1
          /\ \E n \in Lengths(o), t \in Times :
                result' = [result EXCEPT
                    !.handshake_ms = IF Connected(o) THEN t ELSE 0,
                    !.payload = @ + ReadLen(o, n)]
    /\ at' = "record"
    /\ UNCHANGED <<i, campaign>>

SmallerOf(a, b) == IF a < b THEN a ELSE b

LargerOf(a, b) == IF a > b THEN a ELSE b

\* The end of benchmark_run_single and the body of the loop.
Record ==
    /\ at = "record"
    /\ LET t == TotalMs(result)
       IN /\ latencies' = [latencies EXCEPT ![i + 1] = t \div Unit]
          /\ totals' = [sum |-> totals.sum + t,
                        min |-> SmallerOf(totals.min, t),
                        max |-> LargerOf(totals.max, t)]
    /\ successful_runs' = successful_runs + 1
    /\ log' = Append(log, result)
    /\ outcomes' = Append(outcomes, outcome)
    /\ i' = i + 1
    /\ at' = "loop"
    /\ UNCHANGED <<result, outcome, served>>

\* The summary is printed, and pqc_task goes on to its telemetry loop.
Finish ==
    /\ at = "loop"
    /\ i = Iterations
    /\ at' = "telemetry"
    /\ UNCHANGED <<i, result, outcome, campaign, served>>

------------------------------------------------------------------------------
Step ==
    \/ OutOfMemory
    \/ StartRun
    \/ RepeatRun
    \/ KeygenSucceeds
    \/ NetworkHandshake
    \/ Record
    \/ Finish

Next == Step

Spec == Init /\ [][Next]_vars

(***************************************************************************)
(* The task is scheduled, every call of the HTTP client has a timeout, and *)
(* a key generation that is tried again and again works some time.         *)
(***************************************************************************)
FairSpec == Spec /\ WF_vars(Step) /\ SF_vars(KeygenSucceeds)

------------------------------------------------------------------------------
MaxTotal == 2 * Max(Times)

TypeOK ==
    /\ at \in {"begin", "loop", "keygen", "network", "record", "telemetry"}
    /\ i \in 0..Iterations
    /\ result.keygen_ms \in Times \cup {0}
    /\ result.handshake_ms \in Times \cup {0}
    /\ result.payload \in 0..RequestLen + BufferLen
    /\ outcome \in Outcomes
    /\ latencies \in [1..Iterations -> 0..MaxTotal \div Unit]
    /\ totals.sum \in 0..Iterations * MaxTotal
    /\ totals.min \in 1..MaxTotal \cup {Never}
    /\ totals.max \in 0..MaxTotal
    /\ successful_runs \in 0..Iterations
    /\ outcomes \in Seq(Outcomes)
    /\ served \in Nat

\* Row k, element k of the array and count k belong together.
ArrayMatchesLog ==
    /\ Len(log) = i
    /\ successful_runs = i
    /\ \A k \in 1..i : latencies[k] = TotalMs(log[k]) \div Unit
    /\ \A k \in i + 1..Iterations : latencies[k] = 0

Shown == {TotalMs(log[k]) : k \in 1..Len(log)}

\* The sums of the first rows, one after the other.
SumsOfRows[k \in 0..Len(log)] ==
    IF k = 0 THEN 0 ELSE SumsOfRows[k - 1] + TotalMs(log[k])

SummaryOfLog ==
    at = "telemetry" /\ log # <<>> =>
        /\ totals.min = Min(Shown)
        /\ totals.max = Max(Shown)
        /\ totals.sum = SumsOfRows[Len(log)]

(***************************************************************************)
(* The array the deviation is computed from, the published rows and the    *)
(* summary's minimum, maximum and mean are of the same runs, none missing  *)
(* or twice, whatever was retried in between (latencies[i], i--, the CSV   *)
(* line and the running totals).                                           *)
(***************************************************************************)
FiguresMatchLog == ArrayMatchesLog /\ SummaryOfLog

\* The server's answer was read to its end, whatever became of it.
ReadInFull(o) == o \in {"rejected", "accepted"}

(***************************************************************************)
(* The most a row tells of the server: its payload is that of a full       *)
(* exchange if and only if a full response was read, although response_len *)
(* is added after a failed handshake as well, because response_buf is      *)
(* larger than a response.  It does not tell an accepted answer from one   *)
(* hybrid_process_server_response rejected: the row is the same.           *)
(***************************************************************************)
PayloadTellsAnswer ==
    \A k \in 1..Len(log) :
        log[k].payload = RequestLen + ResponseLen <=> ReadInFull(outcomes[k])

(***************************************************************************)
(* The campaign asks the server for one session per row at most: a run     *)
(* that got as far as the network is never repeated.                       *)
(***************************************************************************)
OneSessionPerRow == served <= Len(log) + (IF at = "record" THEN 1 ELSE 0)

(***************************************************************************)
(* The campaign ends and the telemetry loop starts, with a server that is  *)
(* down, refuses or breaks off as well (benchmark_run_single returns 0).   *)
(***************************************************************************)
TelemetryStarts == <>(at = "telemetry")

(***************************************************************************)
(* What the summary prints: "Failure Rate: 0%% (%d/%d successful)" says    *)
(* that the runs it counts were handshakes that succeeded.                 *)
(***************************************************************************)
CountedRunsSucceeded ==
    at = "telemetry" =>
        successful_runs =
            Len(SelectSeq(outcomes, LAMBDA o : o = "accepted"))
==============================================================================

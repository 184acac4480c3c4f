----------------------------- MODULE EdgeDevice ------------------------------
(***************************************************************************)
(* firmware/main: pqc_task of main.c and the hybrid_ctx_t operations of    *)
(* crypto_hybrid.c it calls.  One device is one sequential task; an action *)
(* is the code between two points where other tasks, the network or the    *)
(* server can act (a POST, a vTaskDelay), every call in between included.  *)
(***************************************************************************)
EXTENDS HybridNet

CONSTANTS
    MaxErrors,    \* consecutive telemetry errors that end a session (3)
    RotateAfter,  \* acknowledged packets that end a session (50)
    UintMod       \* uint32_t counters are taken modulo this (2^32)

ASSUME DeviceAssumption ==
    /\ MaxErrors \in Nat \ {0}
    /\ RotateAfter \in Nat \ {0}
    /\ UintMod \in Nat
    /\ RotateAfter * MaxErrors < UintMod

VARIABLES
    phase,             \* where in pqc_task the device is
    ctx,               \* its hybrid_ctx_t
    session_id,        \* the 16 bytes copied from the response; 0 if none
    telemetry_errors,  \* consecutive errors in this session
    packets_sent,      \* packets acknowledged in this session
    telemetry_seq,     \* readings generated since boot
    keygens,           \* randomness: ephemeral key pairs drawn so far
    confirmed          \* history: packets counted as acknowledged

deviceVars == <<phase, ctx, session_id, telemetry_errors, packets_sent,
                telemetry_seq, keygens, confirmed>>

Uint32 == 0..(UintMod - 1)

\* x + 1 in a uint32_t.  A bug: the width is forgotten.
IncUnbounded(x) == x + 1

Inc(x) == IF x + 1 = UintMod THEN 0 ELSE x + 1

\* x - 1 in a uint32_t
Dec(x) == IF x = 0 THEN UintMod - 1 ELSE x - 1

Phases == {"idle", "handshaking", "session", "posting", "backoff"}

\* A context that holds the e-th ephemeral key pairs and no session key.
Keyed(e) == [eph |-> e, key |-> NoKey, handshake_complete |-> FALSE,
             telemetry_counter |-> 0]

\* A context zeroized by hybrid_cleanup or hybrid_init.
Zeroed == Keyed(0)

Context == [eph : 0..MaxKeygens, key : Key \cup {NoKey},
            handshake_complete : BOOLEAN, telemetry_counter : Uint32]

DeviceInit ==
    /\ phase = [d \in Devices |-> "idle"]
    /\ ctx = [d \in Devices |-> Zeroed]
    /\ session_id = [d \in Devices |-> 0]
    /\ telemetry_errors = [d \in Devices |-> 0]
    /\ packets_sent = [d \in Devices |-> 0]
    /\ telemetry_seq = [d \in Devices |-> 0]
    /\ keygens = [d \in Devices |-> 0]
    /\ confirmed = {}

------------------------------------------------------------------------------
(* Handshake *)

\* hybrid_cleanup; the locals of the loop body go out of scope.
CleanUp(d) ==
    /\ ctx' = [ctx EXCEPT ![d] = Zeroed]
    /\ session_id' = [session_id EXCEPT ![d] = 0]
    /\ telemetry_errors' = [telemetry_errors EXCEPT ![d] = 0]
    /\ packets_sent' = [packets_sent EXCEPT ![d] = 0]

\* hybrid_cleanup, then the vTaskDelay before the next handshake.
GiveUp(d) ==
    /\ CleanUp(d)
    /\ phase' = [phase EXCEPT ![d] = "backoff"]
    /\ UNCHANGED <<telemetry_seq, keygens, confirmed, netVars>>

\* Top of the loop: hybrid_init, hybrid_keygen, hybrid_pack_pubkeys, POST.
StartHandshake(d) ==
    /\ phase[d] = "idle"
    /\ keygens[d] < MaxKeygens
    /\ keygens' = [keygens EXCEPT ![d] = @ + 1]
    /\ ctx' = [ctx EXCEPT ![d] = Keyed(keygens[d] + 1)]
    /\ hello' = hello \cup {[dev |-> d, eph |-> keygens[d] + 1]}
    /\ phase' = [phase EXCEPT ![d] = "handshaking"]
    /\ UNCHANGED <<session_id, telemetry_errors, packets_sent, telemetry_seq,
                   confirmed, welcome, telemetry, acks>>

\* hybrid_keygen or hybrid_pack_pubkeys fails.  Keygen fails in the ECDH
\* set-up, before it writes to ctx, so both paths leave a zero context.
SetupFails(d) ==
    /\ phase[d] = "idle"
    /\ GiveUp(d)

\* The POST fails or times out, the body is empty, short or truncated, or
\* hybrid_process_server_response returns an error.
HandshakeFails(d) ==
    /\ phase[d] = "handshaking"
    /\ GiveUp(d)

\* The response HMAC, recomputed over this context's own public keys.
\* A bug: the HMAC covers the server's part only.
TranscriptVerifiesServerPart(d, m) == m.sid \in SessionIds

TranscriptVerifies(d, m) == m.dev = d /\ m.eph = ctx[d].eph

\* The context hybrid_process_server_response leaves: the key is derived,
\* the ephemeral secrets are zeroized.
Established(d, m) ==
    [eph |-> 0, key |-> ClientKey(d, ctx[d].eph, m.sid),
     handshake_complete |-> TRUE,
     telemetry_counter |-> ctx[d].telemetry_counter]

\* hybrid_process_server_response succeeds; the telemetry loop is entered.
CompleteHandshake(d, m) ==
    /\ phase[d] = "handshaking"
    /\ TranscriptVerifies(d, m)
    /\ ctx' = [ctx EXCEPT ![d] = Established(d, m)]
    /\ session_id' = [session_id EXCEPT ![d] = m.sid]
    /\ telemetry_errors' = [telemetry_errors EXCEPT ![d] = 0]
    /\ packets_sent' = [packets_sent EXCEPT ![d] = 0]
    /\ phase' = [phase EXCEPT ![d] = "session"]
    /\ UNCHANGED <<telemetry_seq, keygens, confirmed, netVars>>

------------------------------------------------------------------------------
(* Telemetry *)

\* The loop's two exits: while (telemetry_errors < 3), packets_sent >= 50.
\* A bug: the rotation threshold is never tested.
SessionOverOnErrorsOnly(d) == telemetry_errors[d] >= MaxErrors

SessionOver(d) ==
    telemetry_errors[d] >= MaxErrors \/ packets_sent[d] >= RotateAfter

\* telemetry_errors++; continue.
\* A bug: a failed packet is not counted.
CountErrorForgotten(d) == UNCHANGED telemetry_errors

CountError(d) ==
    telemetry_errors' = [telemetry_errors EXCEPT ![d] = Inc(@)]

\* The nonce's counter is used once, whatever becomes of the packet.
\* A bug: the counter moves on only when an acknowledgement arrives.
TakeCounterNever(d) == UNCHANGED ctx

TakeCounter(d) ==
    ctx' = [ctx EXCEPT ![d].telemetry_counter = Inc(@)]

\* generate_telemetry, hybrid_encrypt_telemetry, POST.
SendTelemetry(d) ==
    /\ phase[d] = "session"
    /\ ~ SessionOver(d)
    /\ ctx[d].handshake_complete
    /\ telemetry_seq' = [telemetry_seq EXCEPT ![d] = Inc(@)]
    /\ telemetry' = telemetry \cup
          {[sid |-> session_id[d], count |-> ctx[d].telemetry_counter,
            key |-> ctx[d].key, seq |-> telemetry_seq[d]]}
    /\ TakeCounter(d)
    /\ phase' = [phase EXCEPT ![d] = "posting"]
    /\ UNCHANGED <<session_id, telemetry_errors, packets_sent, keygens,
                   confirmed, hello, welcome, acks>>

\* hybrid_encrypt_telemetry fails: in gcm_setkey before the counter moves,
\* or in gcm_crypt_and_tag after it.  The reading is dropped.
EncryptFails(d) ==
    /\ phase[d] = "session"
    /\ ~ SessionOver(d)
    /\ telemetry_seq' = [telemetry_seq EXCEPT ![d] = Inc(@)]
    /\ TakeCounter(d) \/ UNCHANGED ctx
    /\ CountError(d)
    /\ UNCHANGED <<phase, session_id, packets_sent, keygens, confirmed,
                   netVars>>

\* The POST fails, times out or is answered with a status other than 200,
\* or hybrid_decrypt_response refuses the body.
TelemetryFails(d) ==
    /\ phase[d] = "posting"
    /\ CountError(d)
    /\ phase' = [phase EXCEPT ![d] = "session"]
    /\ UNCHANGED <<ctx, session_id, packets_sent, telemetry_seq, keygens,
                   confirmed, netVars>>

\* hybrid_decrypt_response: the IV carries the counter of the last packet
\* sent and the tag verifies under this session's key.  No check tells who
\* sealed the body.
\* A bug: the counter is not compared.
AckVerifiesKeyOnly(d, m) == m.key = ctx[d].key

AckVerifies(d, m) ==
    /\ ctx[d].handshake_complete
    /\ m.count = Dec(ctx[d].telemetry_counter)
    /\ m.key = ctx[d].key

\* The packet whose POST the device is waiting on.
Posted(d) ==
    [sid |-> session_id[d], count |-> Dec(ctx[d].telemetry_counter),
     key |-> ctx[d].key, seq |-> Dec(telemetry_seq[d])]

\* The POST is answered with 200 and a body that verifies.
AcceptAck(d, m) ==
    /\ phase[d] = "posting"
    /\ AckVerifies(d, m)
    /\ telemetry_errors' = [telemetry_errors EXCEPT ![d] = 0]
    /\ packets_sent' = [packets_sent EXCEPT ![d] = Inc(@)]
    /\ confirmed' = confirmed \cup {Posted(d)}
    /\ phase' = [phase EXCEPT ![d] = "session"]
    /\ UNCHANGED <<ctx, session_id, telemetry_seq, keygens, netVars>>

EndSession(d) ==
    /\ phase[d] = "session"
    /\ SessionOver(d)
    /\ GiveUp(d)

------------------------------------------------------------------------------
(* Delays and resets *)

\* The 5 s or 15 s vTaskDelay ends.
BackoffEnds(d) ==
    /\ phase[d] = "backoff"
    /\ phase' = [phase EXCEPT ![d] = "idle"]
    /\ UNCHANGED <<ctx, session_id, telemetry_errors, packets_sent,
                   telemetry_seq, keygens, confirmed, netVars>>

\* Brown-out, panic or watchdog: app_main starts pqc_task again.  All state
\* is RAM; only the hardware random source does not repeat itself.
Reset(d) ==
    /\ CleanUp(d)
    /\ telemetry_seq' = [telemetry_seq EXCEPT ![d] = 0]
    /\ phase' = [phase EXCEPT ![d] = "idle"]
    /\ UNCHANGED <<keygens, confirmed, netVars>>

\* Every step the task takes by itself.
TaskStep(d) ==
    \/ StartHandshake(d)
    \/ SetupFails(d)
    \/ HandshakeFails(d)
    \/ \E m \in welcome : CompleteHandshake(d, m)
    \/ SendTelemetry(d)
    \/ EncryptFails(d)
    \/ TelemetryFails(d)
    \/ \E m \in Answers : AcceptAck(d, m)
    \/ EndSession(d)
    \/ BackoffEnds(d)
==============================================================================

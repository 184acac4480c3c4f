---------------------------- MODULE HybridSystem -----------------------------
(***************************************************************************)
(* The devices, the server and the network between them, and what the      *)
(* whole is meant to guarantee.                                            *)
(***************************************************************************)
EXTENDS EdgeDevice, PqcServer

vars == <<deviceVars, serverVars, netVars>>

Init == DeviceInit /\ ServerInit /\ NetInit

DeviceStep(d) == TaskStep(d) /\ UNCHANGED serverVars

DeviceReset(d) == Reset(d) /\ UNCHANGED serverVars

ServerStep ==
    \/ \E m \in hello : HandleHandshake(m) /\ UNCHANGED deviceVars
    \/ \E m \in telemetry : HandleTelemetry(m) /\ UNCHANGED deviceVars

ServerRestart == Restart /\ UNCHANGED deviceVars

Next ==
    \/ \E d \in Devices : DeviceStep(d) \/ DeviceReset(d)
    \/ ServerStep
    \/ ServerRestart

Spec == Init /\ [][Next]_vars

(***************************************************************************)
(* pqc_task is the only user task pinned to its core and each of its waits *)
(* has a timeout, so it always takes another step.  Nothing is assumed of  *)
(* the network, the server or the absence of resets.                       *)
(***************************************************************************)
FairSpec == Spec /\ \A d \in Devices : WF_vars(DeviceStep(d))

------------------------------------------------------------------------------
(* Types *)

TypeOK ==
    /\ hello \subseteq Hello
    /\ welcome \subseteq Welcome
    /\ telemetry \subseteq Packet(Uint32)
    /\ acks \subseteq Ack(Uint32)
    /\ phase \in [Devices -> Phases]
    /\ ctx \in [Devices -> Context]
    /\ session_id \in [Devices -> 0..MaxOpened]
    /\ telemetry_errors \in [Devices -> Uint32]
    /\ packets_sent \in [Devices -> Uint32]
    /\ telemetry_seq \in [Devices -> Uint32]
    /\ keygens \in [Devices -> 0..MaxKeygens]
    /\ confirmed \subseteq Packet(Uint32)
    /\ opened \in 0..MaxOpened
    /\ handshake_count \in 0..opened
    /\ DOMAIN sessions \subseteq 1..opened
    /\ \A s \in DOMAIN sessions : sessions[s] \in Key
    /\ \A s \in DOMAIN session_counters :
          session_counters[s] \in Uint32 \cup {-1}
    /\ telemetry_log \in Seq(Packet(Uint32))
    /\ accepted \in Seq(Packet(Uint32))

------------------------------------------------------------------------------
(* Safety *)

InSession(d) == phase[d] \in {"session", "posting"}

(***************************************************************************)
(* A device that completed the handshake and whose session the server      *)
(* still holds has the server's key, whatever stale or repeated responses  *)
(* the network produced (hybrid_process_server_response's transcript HMAC).*)
(***************************************************************************)
KeyAgreement ==
    NativeKEM =>
      \A d \in Devices : InSession(d) /\ session_id[d] \in DOMAIN sessions =>
          sessions[session_id[d]] = ctx[d].key

(***************************************************************************)
(* Neither side seals two messages with one counter under one key, across  *)
(* lost acknowledgements, failed encryptions, repeated requests and resets *)
(* that start the counter from zero again (hybrid_encrypt_telemetry,       *)
(* handle_request; paper, IV and Key Lifecycle).  A packet and its         *)
(* acknowledgement do share the counter and the key: only the 8 random     *)
(* bytes of the two IVs keep these apart.                                  *)
(***************************************************************************)
CounterOncePerSide ==
    /\ \A p, q \in telemetry : p.key = q.key /\ p.count = q.count => p = q
    /\ \A m, n \in acks : m.key = n.key /\ m.count = n.count => m = n

(***************************************************************************)
(* The packets of one session are logged in the order they were sealed and *)
(* none twice, although requests arrive late, repeated, after the session  *)
(* was evicted or after the server restarted (handle_telemetry).           *)
(***************************************************************************)
LoggedInOrder ==
    \A i, j \in DOMAIN accepted :
        i < j /\ accepted[i].sid = accepted[j].sid =>
            accepted[i].count < accepted[j].count

(***************************************************************************)
(* The packet a device waits on is in the server's log as soon as the      *)
(* server has sealed any acknowledgement the device would take for it: no  *)
(* late or repeated acknowledgement stands for a packet that was lost      *)
(* (hybrid_decrypt_response's counter check).                              *)
(***************************************************************************)
AckAnswersLogged ==
    \A d \in Devices : phase[d] = "posting" =>
        \A m \in acks : AckVerifies(d, m) =>
            \E i \in DOMAIN accepted : accepted[i] = Posted(d)

(***************************************************************************)
(* The server refuses its own acknowledgements: one that came back as the  *)
(* body of a telemetry request, with any session id in front, fails the    *)
(* counter check of the only session whose key it verifies under           *)
(* (handle_telemetry's counter <= last_counter).                           *)
(***************************************************************************)
OwnAckIsStale ==
    \A m \in acks : \A s \in DOMAIN sessions :
        sessions[s] = m.key => m.count <= session_counters[s]

(***************************************************************************)
(* The server's counter never reaches the one the device will use next: no *)
(* sequence of losses and retries locks a device out of its own session    *)
(* (telemetry_counter against session_counters).                           *)
(***************************************************************************)
DeviceIsAhead ==
    \A d \in Devices : InSession(d) /\ session_id[d] \in DOMAIN sessions =>
        session_counters[session_id[d]] < ctx[d].telemetry_counter

(***************************************************************************)
(* telemetry_counter never wraps: a key seals at most MaxErrors packets    *)
(* per acknowledged one, and a session ends after RotateAfter of those.    *)
(***************************************************************************)
CounterBounded ==
    \A d \in Devices :
        ctx[d].telemetry_counter <= packets_sent[d] * MaxErrors
                                    + telemetry_errors[d]
                                    + IF phase[d] = "posting" THEN 1 ELSE 0

\* Opened since the server started, and among the last MaxSessions + 1.
NewestSessions == {s \in 1..opened : /\ s > opened - handshake_count
                                     /\ s > opened - (MaxSessions + 1)}

(***************************************************************************)
(* Both tables hold exactly the last MaxSessions + 1 sessions opened since *)
(* the server started, however many handshakes are repeated or abandoned:  *)
(* they stay in step and bounded, and a session in use is lost to eviction *)
(* only after that many later handshakes, never to a younger one (the FIFO *)
(* order of handle_handshake's pruning, and its two deletions).            *)
(***************************************************************************)
TablesHoldNewest ==
    /\ DOMAIN sessions = NewestSessions
    /\ DOMAIN session_counters = NewestSessions

(***************************************************************************)
(* In simulation mode the server never logs or acknowledges telemetry: the *)
(* two sides derive different keys, and AES-GCM refuses what comes of it.  *)
(***************************************************************************)
SimulationLogsNothing == ~ NativeKEM => accepted = <<>> /\ acks = {}

(***************************************************************************)
(* What the application is promised: see TelemetryChannel.                 *)
(***************************************************************************)
Channel == INSTANCE TelemetryChannel
             WITH sent <- telemetry, log <- accepted, confirmed <- confirmed

ChannelSpec == Channel!Spec

------------------------------------------------------------------------------
(* Liveness *)

(***************************************************************************)
(* Every session key is retired: with the server gone, packets lost or     *)
(* answers late, the device still reaches the cleanup at the end of the    *)
(* loop (or is reset).                                                     *)
(***************************************************************************)
KeyIsRetired ==
    \A d \in Devices : InSession(d) ~> ctx[d] = Zeroed

------------------------------------------------------------------------------
(* What the documents say and the code does not do *)

(***************************************************************************)
(* research_paper.tex: session keys are strictly rotated every 50 packets. *)
(* The loop counts acknowledged packets, not the ones it sealed and sent.  *)
(***************************************************************************)
RotatedAfterLimit ==
    \A p \in telemetry :
        Cardinality({q \in telemetry : q.key = p.key}) <= RotateAfter

(***************************************************************************)
(* research_paper.tex: directional reflection or cross-direction replay is *)
(* mitigated by the monotonic sequence counter.  A packet's own sealed     *)
(* part carries the counter hybrid_decrypt_response looks for, and its tag *)
(* verifies: the device counts a packet the server never logged.           *)
(***************************************************************************)
ConfirmedIsLogged ==
    \A p \in confirmed : \E i \in DOMAIN accepted : accepted[i] = p
==============================================================================

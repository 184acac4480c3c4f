------------------------- MODULE HybridSystemProofs --------------------------
(***************************************************************************)
(* Proofs about HybridSystem, for any set of devices and any bounds: types;*)
(* the nonce counter, agreement on the key, the order of the log, the      *)
(* meaning of an acknowledgement; that the system implements               *)
(* TelemetryChannel; the session table and simulation mode.                *)
(***************************************************************************)
EXTENDS HybridSystem, FiniteSetTheorems, TLAPS

(***************************************************************************)
(* Facts about uint32_t arithmetic.                                        *)
(***************************************************************************)

\* Incrementing a uint32_t gives a uint32_t, and decrementing undoes it.
LEMMA UintFacts ==
    ASSUME NEW x \in Uint32
    PROVE  /\ Inc(x) \in Uint32
           /\ Dec(x) \in Uint32
           /\ Dec(Inc(x)) = x
           /\ x + 1 < UintMod => Inc(x) = x + 1
BY DeviceAssumption DEF Uint32, Inc, Dec

\* Zero is a uint32_t, and a zeroized context is a context.
LEMMA ZeroedFacts == 0 \in Uint32 /\ Zeroed \in Context
<1>1. UintMod \in Nat /\ UintMod > 0
  <2>1. RotateAfter * MaxErrors \in Nat
    BY DeviceAssumption
  <2> QED BY <2>1, DeviceAssumption
<1>2. 0 \in Uint32
  BY <1>1 DEF Uint32
<1> QED BY <1>2, NetAssumption DEF Keyed, Zeroed, Context

\* Multiplication, as the counter bound needs it: one more row.
LEMMA TimesSuccessor ==
    ASSUME NEW p \in Nat, NEW e \in Nat
    PROVE  (p + 1) * e = p * e + e
OBVIOUS

\* Multiplication by a natural number is monotonic.
LEMMA TimesMonotonic ==
    ASSUME NEW p \in Nat, NEW r \in Nat, NEW e \in Nat, p <= r
    PROVE  p * e <= r * e
<1>1. PICK k \in Nat : r = p + k
  <2>1. r - p \in Nat /\ r = p + (r - p)
    OBVIOUS
  <2> QED BY <2>1
<1>2. r * e = p * e + k * e
  BY <1>1
<1>3. k * e \in Nat
  OBVIOUS
<1> QED BY <1>2, <1>3

------------------------------------------------------------------------------
(***************************************************************************)
(* Type correctness.  A packet is well typed only because a device in a    *)
(* session holds a session id and a key, so TypeOK is proved together with *)
(* what each phase says of the context.                                    *)
(***************************************************************************)

ContextMatchesPhase(d) ==
    /\ phase[d] \in {"idle", "backoff"} => ctx[d] = Zeroed
    /\ phase[d] = "handshaking" =>
          /\ ctx[d] = Keyed(keygens[d])
          /\ keygens[d] \in Ephemerals
    /\ InSession(d) =>
          /\ ctx[d].handshake_complete
          /\ ctx[d].eph = 0
          /\ session_id[d] \in SessionIds
          /\ ctx[d].key \in Key
          /\ ctx[d].key = ClientKey(d, ctx[d].key.eph, session_id[d])
          /\ ctx[d].key.eph <= keygens[d]

TypeInv == TypeOK /\ \A d \in Devices : ContextMatchesPhase(d)

\* The initial state is well typed, and every context is zero.
LEMMA InitType == Init => TypeInv
<1> SUFFICES ASSUME Init PROVE TypeInv
  OBVIOUS
<1> USE DEF Init, DeviceInit, ServerInit, NetInit
<1>1. /\ phase \in [Devices -> Phases]
      /\ ctx \in [Devices -> Context]
      /\ session_id \in [Devices -> 0..MaxOpened]
      /\ telemetry_errors \in [Devices -> Uint32]
      /\ packets_sent \in [Devices -> Uint32]
      /\ telemetry_seq \in [Devices -> Uint32]
      /\ keygens \in [Devices -> 0..MaxKeygens]
      /\ opened \in 0..MaxOpened
      /\ handshake_count \in 0..opened
  BY ZeroedFacts, NetAssumption DEF Phases
<1>2. DOMAIN sessions = {} /\ DOMAIN session_counters = {}
  BY DEF Empty
<1>3. <<>> \in Seq(Packet(Uint32))
  OBVIOUS
<1>4. TypeOK
  BY <1>1, <1>2, <1>3 DEF TypeOK
<1>5. ASSUME NEW d \in Devices PROVE ContextMatchesPhase(d)
  BY DEF ContextMatchesPhase, InSession
<1> QED BY <1>4, <1>5 DEF TypeInv

(***************************************************************************)
(* A step of device d touches no other device's state: what holds of each  *)
(* device has to be shown again for d only.                                *)
(***************************************************************************)
SameDevice(e) ==
    /\ phase'[e] = phase[e]
    /\ ctx'[e] = ctx[e]
    /\ session_id'[e] = session_id[e]
    /\ telemetry_errors'[e] = telemetry_errors[e]
    /\ packets_sent'[e] = packets_sent[e]
    /\ telemetry_seq'[e] = telemetry_seq[e]
    /\ keygens'[e] = keygens[e]

\* A step of one device changes no entry of another.
LEMMA OtherDevices ==
    ASSUME TypeOK, NEW d \in Devices, TaskStep(d) \/ Reset(d),
           NEW e \in Devices, e # d
    PROVE  SameDevice(e)
<1> USE DEF TypeOK, SameDevice
<1>1. CASE StartHandshake(d)
  BY <1>1 DEF StartHandshake
<1>2. CASE SetupFails(d)
  BY <1>2 DEF SetupFails, GiveUp, CleanUp
<1>3. CASE HandshakeFails(d)
  BY <1>3 DEF HandshakeFails, GiveUp, CleanUp
<1>4. ASSUME NEW m \in welcome, CompleteHandshake(d, m) PROVE SameDevice(e)
  BY <1>4 DEF CompleteHandshake
<1>5. CASE SendTelemetry(d)
  BY <1>5 DEF SendTelemetry, TakeCounter
<1>6. CASE EncryptFails(d)
  BY <1>6 DEF EncryptFails, TakeCounter, CountError
<1>7. CASE TelemetryFails(d)
  BY <1>7 DEF TelemetryFails, CountError
<1>8. ASSUME NEW m \in Answers, AcceptAck(d, m) PROVE SameDevice(e)
  BY <1>8 DEF AcceptAck
<1>9. CASE EndSession(d)
  BY <1>9 DEF EndSession, GiveUp, CleanUp
<1>10. CASE BackoffEnds(d)
  BY <1>10 DEF BackoffEnds
<1>11. CASE Reset(d)
  BY <1>11 DEF Reset, CleanUp
<1> QED BY <1>1, <1>2, <1>3, <1>4, <1>5, <1>6, <1>7, <1>8, <1>9, <1>10, <1>11
        DEF TaskStep

\* So ContextMatchesPhase carries over to the other devices.
LEMMA OtherContexts ==
    ASSUME TypeInv, NEW d \in Devices, TaskStep(d) \/ Reset(d),
           ContextMatchesPhase(d)'
    PROVE  \A e \in Devices : ContextMatchesPhase(e)'
<1> SUFFICES ASSUME NEW e \in Devices, e # d PROVE ContextMatchesPhase(e)'
  OBVIOUS
<1>1. ContextMatchesPhase(e) /\ SameDevice(e)
  BY OtherDevices DEF TypeInv
<1> QED BY <1>1 DEF ContextMatchesPhase, SameDevice, InSession

\* What CleanUp leaves is well typed.
LEMMA CleanUpType ==
    ASSUME TypeOK, NEW d \in Devices, CleanUp(d)
    PROVE  /\ ctx' \in [Devices -> Context]
           /\ session_id' \in [Devices -> 0..MaxOpened]
           /\ telemetry_errors' \in [Devices -> Uint32]
           /\ packets_sent' \in [Devices -> Uint32]
           /\ ctx'[d] = Zeroed
BY ZeroedFacts, NetAssumption DEF TypeOK, CleanUp

\* Sealing a packet changes nothing of the context but its counter.
ContextUnlessCounter(d) ==
    /\ ctx'[d].eph = ctx[d].eph
    /\ ctx'[d].key = ctx[d].key
    /\ ctx'[d].handshake_complete <=> ctx[d].handshake_complete

\* TakeCounter increments the counter and leaves the rest of the context.
LEMMA CounterStep ==
    ASSUME TypeOK, NEW d \in Devices, TakeCounter(d)
    PROVE  /\ ctx' \in [Devices -> Context]
           /\ ContextUnlessCounter(d)
           /\ ctx'[d].telemetry_counter = Inc(ctx[d].telemetry_counter)
<1> DEFINE new == [ctx[d] EXCEPT !.telemetry_counter =
                     Inc(ctx[d].telemetry_counter)]
<1>1. ctx[d] \in Context
  BY DEF TypeOK
<1>2. Inc(ctx[d].telemetry_counter) \in Uint32
  BY <1>1, UintFacts DEF Context
<1>3. new \in Context
  BY <1>1, <1>2 DEF Context
<1>4. ctx' = [ctx EXCEPT ![d] = new]
  BY DEF TakeCounter
<1>5. ctx'[d] = new
  BY <1>4 DEF TypeOK
<1>6. /\ new.eph = ctx[d].eph
      /\ new.key = ctx[d].key
      /\ new.handshake_complete <=> ctx[d].handshake_complete
      /\ new.telemetry_counter = Inc(ctx[d].telemetry_counter)
  BY <1>1 DEF Context
<1> QED BY <1>3, <1>4, <1>5, <1>6 DEF TypeOK, ContextUnlessCounter

\* Every step of a device's task preserves the types.
LEMMA TaskStepType ==
    ASSUME TypeInv, NEW d \in Devices, TaskStep(d), UNCHANGED serverVars
    PROVE  TypeInv'
<1>0. /\ TypeOK
      /\ ContextMatchesPhase(d)
      /\ (\A e \in Devices : ContextMatchesPhase(e)') <=> ContextMatchesPhase(d)'
  BY OtherContexts DEF TypeInv
<1> SUFFICES TypeOK' /\ ContextMatchesPhase(d)'
  BY <1>0 DEF TypeInv
<1> USE DEF serverVars
<1>1. CASE StartHandshake(d)
  <2>1. keygens[d] + 1 \in Ephemerals /\ keygens[d] + 1 \in 0..MaxKeygens
    BY <1>0, <1>1, NetAssumption DEF StartHandshake, TypeOK, Ephemerals
  <2>2. ctx' \in [Devices -> Context]
    BY <1>0, <1>1, <2>1, ZeroedFacts DEF StartHandshake, TypeOK, Keyed, Context
  <2>3. hello' \subseteq Hello
    BY <1>0, <1>1, <2>1 DEF StartHandshake, TypeOK, Hello
  <2>4. TypeOK'
    BY <1>0, <1>1, <2>1, <2>2, <2>3 DEF StartHandshake, TypeOK, Phases
  <2>5. ContextMatchesPhase(d)'
    BY <1>0, <1>1, <2>1 DEF StartHandshake, TypeOK, ContextMatchesPhase,
                            InSession
  <2> QED BY <2>4, <2>5
<1>2. ASSUME GiveUp(d) PROVE TypeOK' /\ ContextMatchesPhase(d)'
  <2>1. TypeOK'
    BY <1>0, <1>2, CleanUpType DEF GiveUp, TypeOK, Phases, netVars
  <2>2. ContextMatchesPhase(d)'
    BY <1>0, <1>2, CleanUpType DEF GiveUp, TypeOK, ContextMatchesPhase, InSession
  <2> QED BY <2>1, <2>2
<1>3. CASE SetupFails(d)
  BY <1>3, <1>2 DEF SetupFails
<1>4. CASE HandshakeFails(d)
  BY <1>4, <1>2 DEF HandshakeFails
<1>5. ASSUME NEW m \in welcome, CompleteHandshake(d, m)
      PROVE  TypeOK' /\ ContextMatchesPhase(d)'
  <2> DEFINE key == ClientKey(d, ctx[d].eph, m.sid)
             new == Established(d, m)
  <2>1. m \in Welcome /\ ctx[d] \in Context
    BY <1>0 DEF TypeOK
  <2>2. key \in Key /\ ctx[d].eph = keygens[d]
    BY <1>0, <1>5, <2>1 DEF ClientKey, Key, Welcome, CompleteHandshake,
                            TranscriptVerifies, ContextMatchesPhase, Keyed
  <2>3. new \in Context
    <3>1. ctx[d].telemetry_counter \in Uint32 /\ 0 \in 0..MaxKeygens
      BY <2>1, NetAssumption DEF Context
    <3> QED BY <2>2, <3>1 DEF Context, Established
  <2>4. ctx' = [ctx EXCEPT ![d] = new]
    BY <1>5 DEF CompleteHandshake
  <2>5. m.sid \in 0..MaxOpened /\ m.sid \in SessionIds
    BY <2>1, NetAssumption DEF Welcome, SessionIds
  <2>6. TypeOK'
    BY <1>0, <1>5, <2>3, <2>4, <2>5, ZeroedFacts
    DEF CompleteHandshake, TypeOK, Phases, netVars
  <2>7. /\ phase'[d] = "session"
        /\ session_id'[d] = m.sid
        /\ ctx'[d] = new
        /\ keygens'[d] = keygens[d]
    BY <1>0, <1>5, <2>4 DEF CompleteHandshake, TypeOK
  <2>8. /\ new.handshake_complete /\ new.eph = 0 /\ new.key = key
        /\ key.eph = keygens[d] /\ key = ClientKey(d, key.eph, m.sid)
    BY <2>2 DEF Established, ClientKey
  <2>9. keygens[d] <= keygens[d]
    BY <1>0 DEF TypeOK
  <2> QED BY <2>2, <2>5, <2>6, <2>7, <2>8, <2>9
          DEF ContextMatchesPhase, InSession
<1>6. CASE SendTelemetry(d)
  <2> DEFINE p == [sid |-> session_id[d], count |-> ctx[d].telemetry_counter,
                   key |-> ctx[d].key, seq |-> telemetry_seq[d]]
  <2>1. ctx[d] \in Context /\ ctx[d].telemetry_counter \in Uint32
    BY <1>0 DEF TypeOK, Context
  <2>2. p \in Packet(Uint32)
    BY <1>0, <1>6, <2>1 DEF SendTelemetry, TypeOK, ContextMatchesPhase,
                            InSession, Packet
  <2>3. telemetry' \subseteq Packet(Uint32)
    BY <1>0, <1>6, <2>2 DEF SendTelemetry, TypeOK
  <2>4. ctx' \in [Devices -> Context] /\ ContextUnlessCounter(d)
    BY <1>0, <1>6, CounterStep DEF SendTelemetry
  <2>5. telemetry_seq' \in [Devices -> Uint32]
    BY <1>0, <1>6, UintFacts DEF SendTelemetry, TypeOK
  <2>6. TypeOK'
    BY <1>0, <1>6, <2>3, <2>4, <2>5 DEF SendTelemetry, TypeOK, Phases
  <2> QED BY <1>0, <1>6, <2>4, <2>6
          DEF SendTelemetry, TypeOK, ContextMatchesPhase, InSession,
              ContextUnlessCounter
<1>7. CASE EncryptFails(d)
  <2>1. ctx' \in [Devices -> Context] /\ ContextUnlessCounter(d)
    <3>1. CASE TakeCounter(d)
      BY <1>0, <3>1, CounterStep
    <3>2. CASE UNCHANGED ctx
      BY <1>0, <3>2 DEF TypeOK, ContextUnlessCounter
    <3> QED BY <1>7, <3>1, <3>2 DEF EncryptFails
  <2>2. /\ telemetry_seq' \in [Devices -> Uint32]
        /\ telemetry_errors' \in [Devices -> Uint32]
    BY <1>0, <1>7, UintFacts DEF EncryptFails, CountError, TypeOK
  <2>3. TypeOK'
    BY <1>0, <1>7, <2>1, <2>2 DEF EncryptFails, TypeOK, netVars
  <2> QED BY <1>0, <1>7, <2>1, <2>3
          DEF EncryptFails, TypeOK, ContextMatchesPhase, InSession,
              ContextUnlessCounter
<1>8. CASE TelemetryFails(d)
  <2>1. telemetry_errors' \in [Devices -> Uint32]
    BY <1>0, <1>8, UintFacts DEF TelemetryFails, CountError, TypeOK
  <2>2. TypeOK'
    BY <1>0, <1>8, <2>1 DEF TelemetryFails, TypeOK, netVars, Phases
  <2> QED BY <1>0, <1>8, <2>2
          DEF TelemetryFails, TypeOK, ContextMatchesPhase, InSession
<1>9. ASSUME NEW m \in Answers, AcceptAck(d, m)
      PROVE  TypeOK' /\ ContextMatchesPhase(d)'
  <2>1. Posted(d) \in Packet(Uint32)
    <3>1. Dec(ctx[d].telemetry_counter) \in Uint32 /\ Dec(telemetry_seq[d]) \in Uint32
      BY <1>0, UintFacts DEF TypeOK, Context
    <3> QED BY <1>0, <1>9, <3>1 DEF AcceptAck, ContextMatchesPhase, InSession,
                                    Posted, Packet
  <2>2. packets_sent' \in [Devices -> Uint32]
    BY <1>0, <1>9, UintFacts DEF AcceptAck, TypeOK
  <2>3. TypeOK'
    BY <1>0, <1>9, <2>1, <2>2, ZeroedFacts DEF AcceptAck, TypeOK, netVars, Phases
  <2> QED BY <1>0, <1>9, <2>3
          DEF AcceptAck, TypeOK, ContextMatchesPhase, InSession
<1>10. CASE EndSession(d)
  BY <1>10, <1>2 DEF EndSession
<1>11. CASE BackoffEnds(d)
  BY <1>0, <1>11 DEF BackoffEnds, TypeOK, ContextMatchesPhase, InSession,
                     netVars, Phases
<1> QED BY <1>1, <1>3, <1>4, <1>5, <1>6, <1>7, <1>8, <1>9, <1>10, <1>11
        DEF TaskStep

\* So does a reset.
LEMMA ResetType ==
    ASSUME TypeInv, NEW d \in Devices, Reset(d), UNCHANGED serverVars
    PROVE  TypeInv'
<1>1. TypeOK'
  BY CleanUpType, ZeroedFacts DEF TypeInv, Reset, TypeOK, Phases, netVars, serverVars
<1>2. ContextMatchesPhase(d)'
  BY CleanUpType DEF TypeInv, Reset, TypeOK, ContextMatchesPhase, InSession
<1> QED BY <1>1, <1>2, OtherContexts DEF TypeInv

\* Deleting keys from a dict.
LEMMA RestrictFacts ==
    ASSUME NEW f, NEW S
    PROVE  /\ DOMAIN Restrict(f, S) = S
           /\ \A x \in S : Restrict(f, S)[x] = f[x]
BY DEF Restrict

\* What handle_handshake does to the two tables.
LEMMA HandshakeTables ==
    ASSUME NEW m, HandleHandshake(m)
    PROVE  LET s == opened + 1 IN
           /\ DOMAIN sessions' = (DOMAIN sessions \ Evicted) \cup {s}
           /\ sessions'[s] = ServerKey(m.dev, m.eph, s)
           /\ \A t \in DOMAIN sessions \ Evicted :
                 t # s => sessions'[t] = sessions[t]
           /\ DOMAIN session_counters' =
                 (DOMAIN session_counters \ Evicted) \cup {s}
           /\ session_counters'[s] = -1
           /\ \A t \in DOMAIN session_counters \ Evicted :
                 t # s => session_counters'[t] = session_counters[t]
<1> DEFINE s == opened + 1
           f == Restrict(sessions, DOMAIN sessions \ Evicted)
           g == Restrict(session_counters, DOMAIN session_counters \ Evicted)
<1>1. /\ sessions' = Put(f, s, ServerKey(m.dev, m.eph, s))
      /\ session_counters' = Put(g, s, -1)
  BY DEF HandleHandshake
<1>2. /\ DOMAIN f = DOMAIN sessions \ Evicted
      /\ \A t \in DOMAIN sessions \ Evicted : f[t] = sessions[t]
      /\ DOMAIN g = DOMAIN session_counters \ Evicted
      /\ \A t \in DOMAIN session_counters \ Evicted : g[t] = session_counters[t]
  BY RestrictFacts
<1> DEFINE k == ServerKey(m.dev, m.eph, s)
<1> HIDE DEF f, g, k
<1>3. /\ DOMAIN Put(f, s, k) = DOMAIN f \cup {s}
      /\ Put(f, s, k)[s] = k
      /\ \A x \in DOMAIN f : x # s => Put(f, s, k)[x] = f[x]
  BY DEF Put
<1>4. /\ DOMAIN Put(g, s, -1) = DOMAIN g \cup {s}
      /\ Put(g, s, -1)[s] = -1
      /\ \A x \in DOMAIN g : x # s => Put(g, s, -1)[x] = g[x]
  BY DEF Put
<1>5. sessions' = Put(f, s, k) /\ k = ServerKey(m.dev, m.eph, s)
  BY <1>1 DEF k
<1> QED BY <1>1, <1>2, <1>3, <1>4, <1>5

\* A handshake the server answers preserves the types.
LEMMA HandshakeType ==
    ASSUME TypeInv, NEW m \in hello, HandleHandshake(m), UNCHANGED deviceVars
    PROVE  TypeInv'
<1> DEFINE s == opened + 1
<1>1. TypeOK /\ m \in Hello
  BY DEF TypeInv, TypeOK
<1>2. s \in SessionIds /\ s \in 0..MaxOpened /\ handshake_count + 1 \in 0..s
  BY <1>1, NetAssumption DEF HandleHandshake, TypeOK, SessionIds
<1>3. ServerKey(m.dev, m.eph, s) \in Key
  BY <1>1, <1>2 DEF Hello, Key, ServerKey
<1>4. DOMAIN sessions' \subseteq 1..s
  <2>1. opened \in Nat /\ DOMAIN sessions \subseteq 1..opened
    BY <1>1, NetAssumption DEF TypeOK
  <2>2. 1..opened \subseteq 1..s /\ s \in 1..s
    BY <2>1
  <2> QED BY <2>1, <2>2, HandshakeTables
<1>5. \A t \in DOMAIN sessions' : sessions'[t] \in Key
  BY <1>1, <1>3, HandshakeTables DEF TypeOK
<1>6. \A t \in DOMAIN session_counters' : session_counters'[t] \in Uint32 \cup {-1}
  BY <1>1, HandshakeTables DEF TypeOK
<1>7. welcome' \subseteq Welcome
  BY <1>1, <1>2 DEF HandleHandshake, TypeOK, Hello, Welcome
<1>8. opened' = s /\ handshake_count' = handshake_count + 1
  BY DEF HandleHandshake
<1>9. TypeOK'
  BY <1>1, <1>2, <1>4, <1>5, <1>6, <1>7, <1>8
  DEF HandleHandshake, TypeOK, deviceVars
<1> QED BY <1>9 DEF TypeInv, deviceVars, ContextMatchesPhase, InSession

\* A telemetry packet the server accepts preserves the types.
LEMMA TelemetryType ==
    ASSUME TypeInv, NEW m \in telemetry, HandleTelemetry(m), UNCHANGED deviceVars
    PROVE  TypeInv'
<1>1. TypeOK /\ m \in Packet(Uint32)
  BY DEF TypeInv, TypeOK
<1>2. \A t \in DOMAIN session_counters' : session_counters'[t] \in Uint32 \cup {-1}
  BY <1>1 DEF HandleTelemetry, RecordCounter, TypeOK, Packet, Put
<1>3. acks' \subseteq Ack(Uint32)
  <2>1. /\ sessions[m.sid] \in Key /\ m.count \in Uint32
        /\ Len(accepted) + 1 \in Nat
    BY <1>1 DEF HandleTelemetry, TypeOK, Packet
  <2>2. [key |-> sessions[m.sid], count |-> m.count,
         token |-> Len(accepted) + 1] \in Ack(Uint32)
    BY <2>1 DEF Ack
  <2> QED BY <1>1, <2>2 DEF HandleTelemetry, TypeOK
<1>4. telemetry_log' \in Seq(Packet(Uint32)) /\ accepted' \in Seq(Packet(Uint32))
  BY <1>1 DEF HandleTelemetry, TypeOK
<1>5. TypeOK'
  BY <1>1, <1>2, <1>3, <1>4 DEF HandleTelemetry, TypeOK, deviceVars
<1> QED BY <1>5 DEF TypeInv, deviceVars, ContextMatchesPhase, InSession

\* A restart of the server preserves the types.
LEMMA RestartType ==
    ASSUME TypeInv, ServerRestart
    PROVE  TypeInv'
<1>1. DOMAIN sessions' = {} /\ DOMAIN session_counters' = {}
  BY DEF ServerRestart, Restart, Empty
<1>2. <<>> \in Seq(Packet(Uint32)) /\ (opened \in 0..MaxOpened => 0 \in 0..opened)
  BY NetAssumption
<1>3. TypeOK'
  BY <1>1, <1>2 DEF TypeInv, TypeOK, ServerRestart, Restart, deviceVars, netVars
<1> QED BY <1>3 DEF TypeInv, ServerRestart, deviceVars, ContextMatchesPhase, InSession

\* The step cases every invariance proof below goes through.
LEMMA NextCases ==
    ASSUME Next
    PROVE  \/ \E d \in Devices : TaskStep(d) /\ UNCHANGED serverVars
           \/ \E d \in Devices : Reset(d) /\ UNCHANGED serverVars
           \/ \E m \in hello : HandleHandshake(m) /\ UNCHANGED deviceVars
           \/ \E m \in telemetry : HandleTelemetry(m) /\ UNCHANGED deviceVars
           \/ ServerRestart
BY DEF Next, DeviceStep, DeviceReset, ServerStep

\* The devices, the server and the network always hold values of their types,
\* and a device's context is the one its place in pqc_task calls for.
THEOREM TypeInvariant == Spec => []TypeInv
<1>1. Init => TypeInv
  BY InitType
<1>2. TypeInv /\ [Next]_vars => TypeInv'
  <2>1. TypeInv /\ Next => TypeInv'
    BY NextCases, TaskStepType, ResetType, HandshakeType, TelemetryType,
       RestartType
  <2>2. TypeInv /\ UNCHANGED vars => TypeInv'
    BY DEF vars, deviceVars, serverVars, netVars, TypeInv, TypeOK,
           ContextMatchesPhase, InSession
  <2> QED BY <2>1, <2>2
<1> QED BY <1>1, <1>2, PTL DEF Spec

\* The devices, the server and the network always hold values of their types.
THEOREM TypeCorrect == Spec => []TypeOK
<1>1. TypeInv => TypeOK
  BY DEF TypeInv
<1> QED BY <1>1, TypeInvariant, PTL

------------------------------------------------------------------------------
(***************************************************************************)
(* The nonce counter.  CounterBounded is inductive once the loop's own     *)
(* limits on errors and packets are added.                                 *)
(***************************************************************************)

Posting(d) == IF phase[d] = "posting" THEN 1 ELSE 0

CounterInv(d) ==
    /\ ctx[d].telemetry_counter <= packets_sent[d] * MaxErrors
                                   + telemetry_errors[d] + Posting(d)
    /\ telemetry_errors[d] <= MaxErrors
    /\ packets_sent[d] <= RotateAfter
    /\ phase[d] = "posting" =>
          /\ telemetry_errors[d] < MaxErrors
          /\ packets_sent[d] < RotateAfter
          /\ ctx[d].telemetry_counter > 0

\* Both limits of the loop fit a uint32_t.
LEMMA LimitsFit ==
    /\ RotateAfter \in Nat /\ RotateAfter < UintMod
    /\ MaxErrors \in Nat /\ MaxErrors < UintMod
<1>1. RotateAfter \in Nat /\ MaxErrors \in Nat /\ 1 <= RotateAfter /\ 1 <= MaxErrors
  BY DeviceAssumption
<1>2. 1 * MaxErrors <= RotateAfter * MaxErrors
  BY <1>1, TimesMonotonic
<1>3. 1 * RotateAfter <= MaxErrors * RotateAfter
  BY <1>1, TimesMonotonic
<1>4. /\ 1 * MaxErrors = MaxErrors /\ 1 * RotateAfter = RotateAfter
      /\ MaxErrors * RotateAfter = RotateAfter * MaxErrors
  BY <1>1
<1>5. RotateAfter * MaxErrors \in Nat
  BY <1>1
<1> QED BY <1>1, <1>2, <1>3, <1>4, <1>5, DeviceAssumption

\* Within the loop no uint32_t in use wraps.
LEMMA NoWrap ==
    ASSUME TypeOK, NEW d \in Devices, CounterInv(d), ~ SessionOver(d),
           phase[d] # "posting"
    PROVE  /\ ctx[d].telemetry_counter \in Nat
           /\ Inc(ctx[d].telemetry_counter) = ctx[d].telemetry_counter + 1
           /\ telemetry_errors[d] + 1 < UintMod
           /\ packets_sent[d] + 1 < UintMod
<1> DEFINE c == ctx[d].telemetry_counter
           e == telemetry_errors[d]
           p == packets_sent[d]
<1>1. c \in Uint32 /\ e \in Nat /\ p \in Nat
  BY DeviceAssumption DEF TypeOK, Context, Uint32
<1>2. e < MaxErrors /\ p < RotateAfter
  BY <1>1, DeviceAssumption DEF SessionOver
<1>3. p * MaxErrors + MaxErrors <= RotateAfter * MaxErrors
  <2>1. p + 1 \in Nat /\ p + 1 <= RotateAfter /\ RotateAfter \in Nat /\ MaxErrors \in Nat
    BY <1>1, <1>2, DeviceAssumption
  <2>2. (p + 1) * MaxErrors <= RotateAfter * MaxErrors
    BY <2>1, TimesMonotonic
  <2> QED BY <1>1, <2>1, <2>2, TimesSuccessor
<1>4. c <= p * MaxErrors + e
  <2>1. c <= p * MaxErrors + e + 0
    BY DEF CounterInv, Posting
  <2>2. p * MaxErrors + e \in Nat
    BY <1>1, DeviceAssumption
  <2> QED BY <2>1, <2>2
<1>5. p * MaxErrors \in Nat /\ RotateAfter * MaxErrors \in Nat /\ c \in Nat
  BY <1>1, DeviceAssumption DEF Uint32
<1>6. c + 1 < UintMod /\ e + 1 < UintMod
  BY <1>1, <1>2, <1>3, <1>4, <1>5, DeviceAssumption
<1>7. p + 1 < UintMod
  BY <1>1, <1>2, LimitsFit, DeviceAssumption
<1> QED BY <1>1, <1>5, <1>6, <1>7, UintFacts

\* Every step of pqc_task keeps the counter within what the loop allows.
LEMMA CounterStepInv ==
    ASSUME TypeInv, TypeInv', NEW d \in Devices, CounterInv(d), TaskStep(d)
    PROVE  CounterInv(d)'
<1> DEFINE c == ctx[d].telemetry_counter
           e == telemetry_errors[d]
           p == packets_sent[d]
<1>0. /\ TypeOK
      /\ ContextMatchesPhase(d)
      /\ c \in Nat /\ e \in Nat /\ p \in Nat /\ p * MaxErrors \in Nat
      /\ MaxErrors \in Nat \ {0} /\ RotateAfter \in Nat \ {0} /\ UintMod \in Nat
  <2>1. TypeOK /\ ContextMatchesPhase(d)
    BY DEF TypeInv
  <2>2. c \in Nat /\ e \in Nat /\ p \in Nat
    BY <2>1, DeviceAssumption DEF TypeOK, Context, Uint32
  <2>3. p * MaxErrors \in Nat
    BY <2>2, DeviceAssumption
  <2> QED BY <2>1, <2>2, <2>3, DeviceAssumption
\* Any step into a context whose counter is zero.
<1>1. ASSUME ctx'[d].telemetry_counter = 0, telemetry_errors'[d] = 0,
             packets_sent'[d] = 0, phase'[d] # "posting"
      PROVE  CounterInv(d)'
  BY <1>0, <1>1 DEF CounterInv, Posting
<1>2. ASSUME CleanUp(d), phase'[d] # "posting" PROVE CounterInv(d)'
  <2>1. /\ ctx'[d].telemetry_counter = 0 /\ telemetry_errors'[d] = 0
        /\ packets_sent'[d] = 0
    BY <1>0, <1>2 DEF CleanUp, TypeOK, Zeroed, Keyed
  <2> QED BY <1>1, <1>2, <2>1
<1>3. ASSUME GiveUp(d) PROVE CounterInv(d)'
  BY <1>0, <1>2, <1>3 DEF GiveUp, TypeOK
<1>4. CASE StartHandshake(d)
  <2>1. /\ ctx'[d].telemetry_counter = 0 /\ phase'[d] = "handshaking"
        /\ telemetry_errors'[d] = e /\ packets_sent'[d] = p
    BY <1>0, <1>4 DEF StartHandshake, TypeOK, Keyed
  <2> QED BY <1>0, <2>1 DEF CounterInv, Posting
<1>5. ASSUME NEW m \in welcome, CompleteHandshake(d, m) PROVE CounterInv(d)'
  <2>1. c = 0
    BY <1>0, <1>5 DEF CompleteHandshake, ContextMatchesPhase, Keyed
  <2>2. /\ ctx'[d].telemetry_counter = 0 /\ telemetry_errors'[d] = 0
        /\ packets_sent'[d] = 0 /\ phase'[d] = "session"
    BY <1>0, <1>5, <2>1 DEF CompleteHandshake, TypeOK, Established
  <2> QED BY <1>1, <2>2
<1>6. CASE SendTelemetry(d)
  <2>1. Inc(c) = c + 1 /\ phase[d] = "session" /\ ~ SessionOver(d)
    BY <1>0, <1>6, NoWrap DEF SendTelemetry
  <2>2. /\ ctx'[d].telemetry_counter = c + 1 /\ phase'[d] = "posting"
        /\ telemetry_errors'[d] = e /\ packets_sent'[d] = p
    BY <1>0, <1>6, <2>1, CounterStep DEF SendTelemetry, TypeOK
  <2> QED BY <1>0, <2>1, <2>2 DEF CounterInv, Posting, SessionOver
<1>7. CASE EncryptFails(d)
  <2>1. /\ Inc(c) = c + 1 /\ Inc(e) = e + 1
        /\ phase[d] = "session" /\ ~ SessionOver(d)
    <3>1. phase[d] = "session" /\ ~ SessionOver(d)
      BY <1>7 DEF EncryptFails
    <3> QED BY <1>0, <3>1, NoWrap, UintFacts DEF TypeOK
  <2>2. /\ ctx'[d].telemetry_counter \in {c, c + 1} /\ phase'[d] = "session"
        /\ telemetry_errors'[d] = e + 1 /\ packets_sent'[d] = p
    BY <1>0, <1>7, <2>1, CounterStep DEF EncryptFails, CountError, TypeOK
  <2> QED BY <1>0, <2>1, <2>2 DEF CounterInv, Posting, SessionOver
<1>8. CASE TelemetryFails(d)
  <2>1. phase[d] = "posting" /\ Inc(e) = e + 1
    <3>1. phase[d] = "posting" /\ e < MaxErrors
      BY <1>8 DEF TelemetryFails, CounterInv
    <3>2. e + 1 < UintMod
      BY <1>0, <3>1, LimitsFit, DeviceAssumption
    <3> QED BY <1>0, <3>1, <3>2, UintFacts DEF TypeOK
  <2>2. /\ ctx'[d].telemetry_counter = c /\ phase'[d] = "session"
        /\ telemetry_errors'[d] = e + 1 /\ packets_sent'[d] = p
    BY <1>0, <1>8, <2>1 DEF TelemetryFails, CountError, TypeOK
  <2> QED BY <1>0, <2>1, <2>2 DEF CounterInv, Posting
<1>9. ASSUME NEW m \in Answers, AcceptAck(d, m) PROVE CounterInv(d)'
  <2>1. phase[d] = "posting" /\ e < MaxErrors /\ p < RotateAfter
    BY <1>9 DEF AcceptAck, CounterInv
  <2>2. Inc(p) = p + 1
    <3>1. p + 1 < UintMod
      <4>1. p \in Nat /\ UintMod \in Nat
        BY <1>0
      <4> QED BY <2>1, <4>1, LimitsFit
    <3> QED BY <1>0, <3>1, UintFacts DEF TypeOK
  <2>3. /\ ctx'[d].telemetry_counter = c /\ phase'[d] = "session"
        /\ telemetry_errors'[d] = 0 /\ packets_sent'[d] = p + 1
    BY <1>0, <1>9, <2>2 DEF AcceptAck, TypeOK
  <2>4. (p + 1) * MaxErrors = p * MaxErrors + MaxErrors
    BY <1>0, TimesSuccessor
  <2> QED BY <1>0, <2>1, <2>3, <2>4 DEF CounterInv, Posting
<1>10. CASE BackoffEnds(d)
  BY <1>0, <1>10 DEF BackoffEnds, TypeOK, CounterInv, Posting
<1> QED BY <1>3, <1>4, <1>5, <1>6, <1>7, <1>8, <1>9, <1>10
        DEF TaskStep, SetupFails, HandshakeFails, EndSession

\* A reset puts the counter back to zero.
LEMMA ResetCounterInv ==
    ASSUME TypeInv, NEW d \in Devices, Reset(d)
    PROVE  CounterInv(d)'
<1>1. /\ ctx'[d].telemetry_counter = 0 /\ telemetry_errors'[d] = 0
      /\ packets_sent'[d] = 0 /\ phase'[d] = "idle"
  BY DEF TypeInv, TypeOK, Reset, CleanUp, Zeroed, Keyed
<1>2. MaxErrors \in Nat /\ RotateAfter \in Nat /\ 0 * MaxErrors = 0
  BY DeviceAssumption
<1> QED BY <1>1, <1>2 DEF CounterInv, Posting

CounterInvAll == \A d \in Devices : CounterInv(d)

\* Every device keeps its counter within what the loop allows.
LEMMA CounterInvariant == Spec => []CounterInvAll
<1>1. Init => CounterInvAll
  <2>1. 0 * MaxErrors = 0 /\ MaxErrors \in Nat /\ RotateAfter \in Nat
    BY DeviceAssumption
  <2> SUFFICES ASSUME Init, NEW d \in Devices PROVE CounterInv(d)
    BY DEF CounterInvAll
  <2>2. /\ ctx[d].telemetry_counter = 0 /\ telemetry_errors[d] = 0
        /\ packets_sent[d] = 0 /\ phase[d] = "idle"
    BY DEF Init, DeviceInit, Zeroed, Keyed
  <2> QED BY <2>1, <2>2 DEF CounterInv, Posting
<1>2. TypeInv /\ TypeInv' /\ CounterInvAll /\ [Next]_vars
      => CounterInvAll'
  <2> SUFFICES ASSUME TypeInv, TypeInv', CounterInvAll, [Next]_vars, NEW e \in Devices
               PROVE  CounterInv(e)'
    BY DEF CounterInvAll
  <2>1. ASSUME NEW d \in Devices, TaskStep(d) \/ Reset(d) PROVE CounterInv(e)'
    <3>1. CASE e = d
      BY <2>1, <3>1, CounterStepInv, ResetCounterInv DEF CounterInvAll
    <3>2. CASE e # d
      BY <2>1, <3>2, OtherDevices DEF TypeInv, SameDevice, CounterInvAll, CounterInv,
                                       Posting
    <3> QED BY <3>1, <3>2
  <2>2. CASE UNCHANGED deviceVars
    BY <2>2 DEF deviceVars, CounterInvAll, CounterInv, Posting
  <2> QED BY <2>1, <2>2, NextCases DEF vars, ServerRestart
<1> QED BY <1>1, <1>2, TypeInvariant, PTL DEF Spec

\* The counter never passes what the loop's limits allow, and never wraps.
THEOREM CounterIsBounded == Spec => []CounterBounded
<1>1. CounterInvAll => CounterBounded
  BY DEF CounterInvAll, CounterInv, Posting, CounterBounded
<1> QED BY <1>1, CounterInvariant, PTL

------------------------------------------------------------------------------
(***************************************************************************)
(* Sessions and keys.  Every session id was issued once, in one welcome;   *)
(* the server's entry and the device's key both come from it.              *)
(***************************************************************************)

SessionInv ==
    /\ \A m \in welcome : m.sid <= opened
    /\ \A m, n \in welcome : m.sid = n.sid => m = n
    /\ DOMAIN session_counters = DOMAIN sessions
    /\ \A s \in DOMAIN sessions : \E m \in welcome :
          m.sid = s /\ sessions[s] = ServerKey(m.dev, m.eph, s)

WelcomeOf(key, s) == [dev |-> key.dev, eph |-> key.eph, sid |-> s]

\* The device's key comes from a welcome to itself.
DeviceKeyInv(d) ==
    InSession(d) => WelcomeOf(ctx[d].key, session_id[d]) \in welcome

\* Every step keeps the session table backed by the welcomes on the wire.
LEMMA SessionStep ==
    ASSUME TypeInv, SessionInv, [Next]_vars
    PROVE  SessionInv'
<1>1. ASSUME NEW d \in Devices, TaskStep(d) \/ Reset(d), UNCHANGED serverVars
      PROVE  SessionInv'
  <2>1. UNCHANGED welcome
    BY <1>1 DEF TaskStep, StartHandshake, SetupFails, HandshakeFails, GiveUp,
                CompleteHandshake, SendTelemetry, EncryptFails, TelemetryFails,
                AcceptAck, EndSession, BackoffEnds, Reset, netVars
  <2> QED BY <1>1, <2>1 DEF SessionInv, serverVars
<1>2. ASSUME NEW m \in hello, HandleHandshake(m) PROVE SessionInv'
  <2> DEFINE s == opened + 1
             w == [dev |-> m.dev, eph |-> m.eph, sid |-> s]
  <2>1. opened \in Nat /\ welcome \subseteq Welcome /\ opened' = s
        /\ welcome' = welcome \cup {w} /\ DOMAIN sessions \subseteq 1..opened
    BY <1>2, NetAssumption DEF TypeInv, TypeOK, HandleHandshake
  <2>2. \A n \in welcome : n.sid \in Nat /\ n.sid <= opened
    BY <2>1, NetAssumption DEF SessionInv, Welcome, SessionIds
  <2>3. (\A n \in welcome' : n.sid <= opened')
        /\ (\A n, k \in welcome' : n.sid = k.sid => n = k)
    BY <2>1, <2>2 DEF SessionInv
  <2>4. DOMAIN session_counters' = DOMAIN sessions'
    BY <1>2, HandshakeTables DEF SessionInv
  <2>5. ASSUME NEW t \in DOMAIN sessions'
        PROVE  \E n \in welcome' : n.sid = t /\
                   sessions'[t] = ServerKey(n.dev, n.eph, t)
    <3>1. CASE t = s
      <4>1. w \in welcome' /\ w.sid = t /\ sessions'[t] = ServerKey(w.dev, w.eph, t)
        BY <1>2, <2>1, <3>1, HandshakeTables
      <4> QED BY <4>1
    <3>2. CASE t # s
      <4>1. t \in DOMAIN sessions /\ sessions'[t] = sessions[t]
        BY <1>2, <2>5, <3>2, HandshakeTables
      <4> QED BY <2>1, <4>1 DEF SessionInv
    <3> QED BY <3>1, <3>2
  <2> QED BY <2>3, <2>4, <2>5 DEF SessionInv
<1>3. ASSUME NEW m \in telemetry, HandleTelemetry(m) PROVE SessionInv'
  <2>1. DOMAIN session_counters' = DOMAIN sessions /\ UNCHANGED <<sessions, welcome, opened>>
    BY <1>3 DEF HandleTelemetry, RecordCounter, Put, SessionInv
  <2> QED BY <2>1 DEF SessionInv
<1>4. CASE ServerRestart
  BY <1>4 DEF ServerRestart, Restart, Empty, SessionInv, netVars
<1>5. CASE UNCHANGED vars
  BY <1>5 DEF vars, serverVars, netVars, SessionInv
<1> QED BY <1>1, <1>2, <1>3, <1>4, <1>5, NextCases

\* Every step keeps what the device's key stands on.
LEMMA DeviceKeyStep ==
    ASSUME TypeInv, NEW e \in Devices, DeviceKeyInv(e), [Next]_vars
    PROVE  DeviceKeyInv(e)'
<1>0. TypeOK /\ ContextMatchesPhase(e)
  BY DEF TypeInv
<1>1. ASSUME NEW d \in Devices, TaskStep(d) \/ Reset(d), UNCHANGED serverVars
      PROVE  DeviceKeyInv(e)'
  <2>0. UNCHANGED welcome
    BY <1>1 DEF TaskStep, StartHandshake, SetupFails, HandshakeFails, GiveUp,
                CompleteHandshake, SendTelemetry, EncryptFails, TelemetryFails,
                AcceptAck, EndSession, BackoffEnds, Reset, netVars
  <2>1. CASE e # d
    BY <1>0, <1>1, <2>0, <2>1, OtherDevices
    DEF SameDevice, DeviceKeyInv, InSession
  <2>2. CASE e = d
    <3>1. ASSUME NEW m \in welcome, CompleteHandshake(d, m)
          PROVE  DeviceKeyInv(e)'
      <4>1. ctx'[d] = Established(d, m) /\ session_id'[d] = m.sid
        BY <1>0, <3>1 DEF CompleteHandshake, TypeOK
      <4>2. m \in Welcome /\ m.dev = d /\ m.eph = ctx[d].eph
        BY <1>0, <3>1 DEF TypeOK, CompleteHandshake, TranscriptVerifies
      <4>3. WelcomeOf(ctx'[d].key, session_id'[d]) = m
        BY <4>1, <4>2 DEF WelcomeOf, Established, ClientKey, Welcome
      <4> QED BY <2>0, <2>2, <4>3 DEF DeviceKeyInv
    <3>2. ASSUME InSession(d)' => InSession(d) /\ ctx'[d].key = ctx[d].key
                                  /\ session_id'[d] = session_id[d]
          PROVE  DeviceKeyInv(e)'
      BY <2>0, <2>2, <3>2 DEF DeviceKeyInv
    <3>3. CASE StartHandshake(d) \/ SetupFails(d) \/ HandshakeFails(d)
               \/ EndSession(d) \/ BackoffEnds(d) \/ Reset(d)
      <4>1. ~ InSession(d)'
        BY <1>0, <3>3 DEF TypeOK, StartHandshake, SetupFails, HandshakeFails,
              EndSession, GiveUp, BackoffEnds, Reset, InSession
      <4> QED BY <3>2, <4>1
    <3>4. CASE SendTelemetry(d)
      BY <1>0, <3>2, <3>4, CounterStep
      DEF SendTelemetry, InSession, ContextUnlessCounter
    <3>5. CASE EncryptFails(d)
      BY <1>0, <3>2, <3>5, CounterStep
      DEF EncryptFails, InSession, ContextUnlessCounter
    <3>6. CASE TelemetryFails(d)
      BY <3>2, <3>6 DEF TelemetryFails, InSession
    <3>7. ASSUME NEW m \in Answers, AcceptAck(d, m) PROVE DeviceKeyInv(e)'
      BY <3>2, <3>7 DEF AcceptAck, InSession
    <3> QED BY <1>1, <3>1, <3>3, <3>4, <3>5, <3>6, <3>7 DEF TaskStep
  <2> QED BY <2>1, <2>2
<1>2. ASSUME UNCHANGED deviceVars, welcome \subseteq welcome'
      PROVE  DeviceKeyInv(e)'
  BY <1>2 DEF deviceVars, DeviceKeyInv, InSession
<1>3. ASSUME NEW m \in hello, HandleHandshake(m), UNCHANGED deviceVars
      PROVE  DeviceKeyInv(e)'
  BY <1>2, <1>3 DEF HandleHandshake
<1>4. ASSUME NEW m \in telemetry, HandleTelemetry(m), UNCHANGED deviceVars
      PROVE  DeviceKeyInv(e)'
  BY <1>2, <1>4 DEF HandleTelemetry
<1>5. CASE ServerRestart
  BY <1>2, <1>5 DEF ServerRestart, Restart, netVars
<1>6. CASE UNCHANGED vars
  BY <1>2, <1>6 DEF vars, netVars
<1> QED BY <1>1, <1>3, <1>4, <1>5, <1>6, NextCases

KeyInv == SessionInv /\ \A d \in Devices : DeviceKeyInv(d)

\* The server's and the device's key of a session come from one welcome.
LEMMA KeyInvariant == Spec => []KeyInv
<1>1. Init => KeyInv
  BY DEF Init, DeviceInit, ServerInit, NetInit, Empty, KeyInv, SessionInv,
         DeviceKeyInv, InSession
<1>2. TypeInv /\ KeyInv /\ [Next]_vars => KeyInv'
  BY SessionStep, DeviceKeyStep DEF KeyInv
<1> QED BY <1>1, <1>2, TypeInvariant, PTL DEF Spec

\* Device and server hold the same key for a session they both hold.
THEOREM KeysAgree == Spec => []KeyAgreement
<1>1. TypeInv /\ KeyInv => KeyAgreement
  <2> SUFFICES ASSUME TypeInv, KeyInv, NativeKEM, NEW d \in Devices,
                      InSession(d), session_id[d] \in DOMAIN sessions
               PROVE  sessions[session_id[d]] = ctx[d].key
    BY DEF KeyAgreement
  <2> DEFINE s == session_id[d]
             w == WelcomeOf(ctx[d].key, s)
  <2>1. /\ ctx[d].key \in Key
        /\ ctx[d].key = ClientKey(d, ctx[d].key.eph, s)
    BY DEF TypeInv, ContextMatchesPhase
  <2>2. w \in welcome
    BY DEF KeyInv, DeviceKeyInv
  <2>3. PICK m \in welcome : m.sid = s /\ sessions[s] = ServerKey(m.dev, m.eph, s)
    BY DEF KeyInv, SessionInv
  <2>4. m = w
    BY <2>2, <2>3 DEF KeyInv, SessionInv, WelcomeOf
  <2>5. ctx[d].key.dev = d
    BY <2>1 DEF ClientKey
  <2>6. m.dev = d /\ m.eph = ctx[d].key.eph
    BY <2>4, <2>5 DEF WelcomeOf
  <2> QED BY <2>1, <2>3, <2>6 DEF ClientKey, ServerKey
<1> QED BY <1>1, TypeInvariant, KeyInvariant, PTL

------------------------------------------------------------------------------
(***************************************************************************)
(* Packets.  A packet was sealed with a key the device got from a welcome; *)
(* the device's counter is past every packet sealed with its present key,  *)
(* and no packet exists under a key still to be agreed on.                 *)
(***************************************************************************)

PacketInv ==
    \A p \in telemetry :
        /\ WelcomeOf(p.key, p.sid) \in welcome
        /\ p.key = ClientKey(p.key.dev, p.key.eph, p.sid)
        /\ p.key.eph <= keygens[p.key.dev]

DevicePacketInv(d) ==
    /\ phase[d] = "handshaking" =>
          \A p \in telemetry : ~ (p.key.dev = d /\ p.key.eph = keygens[d])
    /\ InSession(d) =>
          \A p \in telemetry :
              p.key = ctx[d].key => p.count < ctx[d].telemetry_counter
    /\ phase[d] = "posting" => Posted(d) \in telemetry

PacketsOnce ==
    \A p, q \in telemetry : p.key = q.key /\ p.count = q.count => p = q

NonceInv ==
    /\ PacketInv
    /\ \A d \in Devices : DevicePacketInv(d)
    /\ PacketsOnce

\* Every step of pqc_task keeps its packets behind its counter.
LEMMA DevicePacketStep ==
    ASSUME TypeInv, TypeInv', KeyInv, NonceInv, NEW d \in Devices,
           CounterInv(d), TaskStep(d), UNCHANGED serverVars
    PROVE  NonceInv'
<1> DEFINE c == ctx[d].telemetry_counter
<1>0. /\ TypeOK /\ ContextMatchesPhase(d) /\ PacketInv /\ DevicePacketInv(d)
      /\ PacketsOnce /\ DeviceKeyInv(d)
      /\ c \in Nat
  <2>1. TypeOK
    BY DEF TypeInv
  <2>2. c \in Nat
    BY <2>1, DeviceAssumption DEF TypeOK, Context, Uint32
  <2> QED BY <2>1, <2>2 DEF TypeInv, NonceInv, KeyInv
\* A step that sends nothing keeps everything but what d's phase promises.
<1>1. ASSUME UNCHANGED <<telemetry, welcome>>, keygens'[d] \in Nat,
             keygens[d] <= keygens'[d], DevicePacketInv(d)'
      PROVE  NonceInv'
  <2>1. ASSUME NEW p \in telemetry
        PROVE  p.key.dev \in Devices /\ p.key.eph \in Nat
               /\ keygens[p.key.dev] \in Nat /\ keygens'[p.key.dev] \in Nat
               /\ keygens[p.key.dev] <= keygens'[p.key.dev]
    <3>1. p \in Packet(Uint32)
      BY <1>0 DEF TypeOK
    <3>2. p.key.dev \in Devices /\ p.key.eph \in Nat
      BY <3>1, NetAssumption DEF Packet, Key, Ephemerals
    <3>3. keygens[p.key.dev] \in Nat
      BY <1>0, <3>2, NetAssumption DEF TypeOK
    <3>4. CASE p.key.dev = d
      BY <1>1, <3>2, <3>3, <3>4
    <3>5. CASE p.key.dev # d
      BY <1>0, <3>2, <3>3, <3>5, OtherDevices DEF SameDevice
    <3> QED BY <3>2, <3>4, <3>5
  <2>2. PacketInv'
    BY <1>0, <1>1, <2>1 DEF PacketInv
  <2>3. ASSUME NEW e \in Devices PROVE DevicePacketInv(e)'
    <3>1. CASE e = d
      BY <1>1, <3>1
    <3>2. CASE e # d
      BY <1>0, <1>1, <3>2, OtherDevices
      DEF NonceInv, SameDevice, DevicePacketInv, InSession, Posted
    <3> QED BY <3>1, <3>2
  <2> QED BY <1>0, <1>1, <2>2, <2>3 DEF NonceInv, PacketsOnce
<1>2. keygens[d] \in Nat /\ keygens[d] <= keygens[d]
  BY <1>0, NetAssumption DEF TypeOK
<1>3. CASE StartHandshake(d)
  <2>1. /\ keygens'[d] = keygens[d] + 1 /\ phase'[d] = "handshaking"
        /\ UNCHANGED <<telemetry, welcome>>
    BY <1>0, <1>3 DEF StartHandshake, TypeOK
  <2>2. ASSUME NEW p \in telemetry, p.key.dev = d PROVE p.key.eph # keygens'[d]
    <3>1. p.key.eph \in Nat /\ p.key.eph <= keygens[d]
      BY <1>0, <2>2, NetAssumption DEF TypeOK, Packet, Key, Ephemerals, PacketInv
    <3> QED BY <1>2, <2>1, <3>1
  <2>3. DevicePacketInv(d)'
    BY <2>1, <2>2 DEF DevicePacketInv, InSession
  <2> QED BY <1>1, <1>2, <2>1, <2>3
\* A step out of the session.
<1>4. CASE SetupFails(d) \/ HandshakeFails(d) \/ EndSession(d) \/ BackoffEnds(d)
  <2>1. /\ UNCHANGED <<telemetry, welcome, keygens>>
        /\ phase'[d] \in {"idle", "backoff"}
    BY <1>0, <1>4 DEF SetupFails, HandshakeFails, EndSession, BackoffEnds,
                      GiveUp, netVars, TypeOK
  <2>2. DevicePacketInv(d)'
    BY <2>1 DEF DevicePacketInv, InSession
  <2> QED BY <1>1, <1>2, <2>1, <2>2
<1>5. ASSUME NEW m \in welcome, CompleteHandshake(d, m) PROVE NonceInv'
  <2>1. /\ UNCHANGED <<telemetry, welcome, keygens>>
        /\ phase[d] = "handshaking" /\ phase'[d] = "session"
        /\ ctx'[d] = Established(d, m)
    BY <1>0, <1>5 DEF CompleteHandshake, netVars, TypeOK
  <2>2. ctx'[d].key.dev = d /\ ctx'[d].key.eph = keygens[d]
    BY <1>0, <2>1 DEF Established, ClientKey, ContextMatchesPhase, Keyed
  <2>3. \A p \in telemetry : p.key # ctx'[d].key
    BY <1>0, <2>1, <2>2 DEF DevicePacketInv
  <2>4. DevicePacketInv(d)'
    BY <2>1, <2>3 DEF DevicePacketInv
  <2> QED BY <1>1, <1>2, <2>1, <2>4
<1>6. CASE SendTelemetry(d)
  <2> DEFINE q == [sid |-> session_id[d], count |-> c, key |-> ctx[d].key,
                   seq |-> telemetry_seq[d]]
  <2>1. /\ phase[d] = "session" /\ phase'[d] = "posting"
        /\ telemetry' = telemetry \cup {q}
        /\ UNCHANGED <<welcome, keygens, session_id>>
        /\ telemetry_seq'[d] = Inc(telemetry_seq[d])
        /\ TakeCounter(d) /\ ~ SessionOver(d)
    BY <1>0, <1>6 DEF SendTelemetry, TypeOK
  <2>2. /\ ctx'[d].telemetry_counter = c + 1
        /\ Inc(c) = c + 1
        /\ ctx'[d].key = ctx[d].key
    BY <1>0, <2>1, CounterStep, NoWrap DEF ContextUnlessCounter
  <2>3. \A p \in telemetry : p.key = ctx[d].key => p.count \in Nat /\ p.count < c
    <3>1. \A p \in telemetry : p.count \in Nat
      BY <1>0, DeviceAssumption DEF TypeOK, Packet, Uint32
    <3> QED BY <1>0, <2>1, <3>1 DEF DevicePacketInv, InSession
  <2>4. WelcomeOf(q.key, q.sid) \in welcome /\ q.key.dev = d
        /\ q.key = ClientKey(d, q.key.eph, q.sid) /\ q.key.eph <= keygens[d]
    BY <1>0, <2>1 DEF ContextMatchesPhase, DeviceKeyInv, InSession, ClientKey
  <2>5. PacketInv'
    BY <1>0, <2>1, <2>4 DEF PacketInv
  <2>6. PacketsOnce'
    BY <1>0, <2>1, <2>3 DEF PacketsOnce
  <2>7. Posted(d)' = q
    <3>1. ctx'[d].telemetry_counter = Inc(c) /\ c \in Uint32
      BY <1>0, <2>2 DEF TypeOK, Context
    <3>2. Dec(ctx'[d].telemetry_counter) = c
      BY <3>1, UintFacts
    <3>3. Dec(telemetry_seq'[d]) = telemetry_seq[d]
      BY <1>0, <2>1, UintFacts DEF TypeOK
    <3> QED BY <2>1, <2>2, <3>2, <3>3 DEF Posted
  <2>8. DevicePacketInv(d)'
    <3>1. \A p \in telemetry' : p.key = ctx'[d].key => p.count < c + 1
      BY <1>0, <2>1, <2>2, <2>3
    <3> QED BY <2>1, <2>2, <2>7, <3>1 DEF DevicePacketInv
  <2>9. ASSUME NEW e \in Devices, e # d PROVE DevicePacketInv(e)'
    <3>1. SameDevice(e) /\ DevicePacketInv(e) /\ ContextMatchesPhase(e)
      BY <1>0, <2>9, OtherDevices DEF NonceInv, TypeInv
    <3>2. InSession(e) => ctx[e].key # q.key
      <4>1. InSession(e) => ctx[e].key.dev = e
        BY <3>1 DEF ContextMatchesPhase, ClientKey
      <4> QED BY <2>4, <2>9, <4>1
    <3> QED BY <2>1, <2>4, <2>9, <3>1, <3>2
            DEF SameDevice, DevicePacketInv, InSession, Posted
  <2> QED BY <2>5, <2>6, <2>8, <2>9 DEF NonceInv
<1>7. CASE EncryptFails(d)
  <2>1. /\ UNCHANGED <<telemetry, welcome, keygens>>
        /\ phase[d] = "session" /\ phase'[d] = "session" /\ ~ SessionOver(d)
        /\ TakeCounter(d) \/ UNCHANGED ctx
    BY <1>7 DEF EncryptFails, netVars
  <2>2. /\ ctx'[d].telemetry_counter \in {c, c + 1}
        /\ ctx'[d].key = ctx[d].key
    BY <1>0, <2>1, CounterStep, NoWrap DEF ContextUnlessCounter
  <2>3. \A p \in telemetry : p.count \in Nat
    BY <1>0, DeviceAssumption DEF TypeOK, Packet, Uint32
  <2>4. DevicePacketInv(d)'
    BY <1>0, <2>1, <2>2, <2>3 DEF DevicePacketInv, InSession
  <2> QED BY <1>1, <1>2, <2>1, <2>4
<1>8. ASSUME TelemetryFails(d) \/ \E m \in Answers : AcceptAck(d, m)
      PROVE  NonceInv'
  <2>1. /\ UNCHANGED <<telemetry, welcome, keygens, ctx>>
        /\ phase[d] = "posting" /\ phase'[d] = "session"
    BY <1>0, <1>8 DEF TelemetryFails, AcceptAck, netVars, TypeOK
  <2>2. DevicePacketInv(d)'
    BY <1>0, <2>1 DEF DevicePacketInv, InSession
  <2> QED BY <1>1, <1>2, <2>1, <2>2
<1> QED BY <1>3, <1>4, <1>5, <1>6, <1>7, <1>8 DEF TaskStep

\* Every other step only adds welcomes, or stops a device.
LEMMA NonceFrame ==
    ASSUME NonceInv, UNCHANGED deviceVars, UNCHANGED telemetry,
           welcome \subseteq welcome'
    PROVE  NonceInv'
BY DEF deviceVars, NonceInv, PacketInv, DevicePacketInv, PacketsOnce,
       InSession, Posted

\* A reset forgets the key together with the counter.
LEMMA ResetNonce ==
    ASSUME TypeInv, NonceInv, NEW d \in Devices, Reset(d)
    PROVE  NonceInv'
<1>1. UNCHANGED <<telemetry, welcome, keygens>> /\ phase'[d] = "idle"
  BY DEF Reset, netVars, TypeInv, TypeOK
<1>2. PacketInv' /\ PacketsOnce'
  BY <1>1 DEF NonceInv, PacketInv, PacketsOnce
<1>3. ASSUME NEW e \in Devices PROVE DevicePacketInv(e)'
  <2>1. CASE e = d
    BY <1>1, <2>1 DEF DevicePacketInv, InSession
  <2>2. CASE e # d
    BY <1>1, <2>2, OtherDevices
    DEF TypeInv, NonceInv, SameDevice, DevicePacketInv, InSession, Posted
  <2> QED BY <2>1, <2>2
<1> QED BY <1>2, <1>3 DEF NonceInv

\* The packets under a device's key are behind its counter.
LEMMA NonceInvariant == Spec => []NonceInv
<1>1. Init => NonceInv
  BY DEF Init, DeviceInit, NetInit, NonceInv, PacketInv, DevicePacketInv,
         PacketsOnce, InSession
<1>2. TypeInv /\ TypeInv' /\ KeyInv /\ CounterInvAll /\ NonceInv /\ [Next]_vars
      => NonceInv'
  <2> SUFFICES ASSUME TypeInv, TypeInv', KeyInv, CounterInvAll, NonceInv,
                      [Next]_vars
               PROVE  NonceInv'
    OBVIOUS
  <2>1. ASSUME NEW d \in Devices, TaskStep(d), UNCHANGED serverVars
        PROVE  NonceInv'
    BY <2>1, DevicePacketStep DEF CounterInvAll
  <2>2. ASSUME NEW d \in Devices, Reset(d) PROVE NonceInv'
    BY <2>2, ResetNonce
  <2>3. ASSUME NEW m \in hello, HandleHandshake(m), UNCHANGED deviceVars
        PROVE  NonceInv'
    BY <2>3, NonceFrame DEF HandleHandshake
  <2>4. ASSUME NEW m \in telemetry, HandleTelemetry(m), UNCHANGED deviceVars
        PROVE  NonceInv'
    BY <2>4, NonceFrame DEF HandleTelemetry
  <2>5. CASE ServerRestart
    BY <2>5, NonceFrame DEF ServerRestart, Restart, netVars
  <2>6. CASE UNCHANGED vars
    BY <2>6, NonceFrame DEF vars, netVars
  <2> QED BY <2>1, <2>2, <2>3, <2>4, <2>5, <2>6, NextCases
<1> QED BY <1>1, <1>2, TypeInvariant, KeyInvariant, CounterInvariant, PTL DEF Spec

------------------------------------------------------------------------------
(***************************************************************************)
(* The log.  The server's counter of a session is the counter of the last  *)
(* packet it logged for it, so what it logs next comes after all of them.  *)
(***************************************************************************)

LogInv ==
    /\ \A i \in DOMAIN accepted : accepted[i] \in telemetry
    /\ \A i \in DOMAIN accepted :
          accepted[i].sid \in DOMAIN sessions =>
              accepted[i].count <= session_counters[accepted[i].sid]
    /\ LoggedInOrder

\* The server's counter is one it took from a packet, or -1.
CounterSource ==
    \A s \in DOMAIN sessions :
        \/ session_counters[s] = -1
        \/ \E p \in telemetry : p.sid = s /\ p.count = session_counters[s]

\* An acknowledgement on the wire is for a logged packet, and no other is.
AckInv ==
    /\ \A m \in acks : \E i \in DOMAIN accepted :
          accepted[i].key = m.key /\ accepted[i].count = m.count
    /\ \A m, n \in acks : m.key = n.key /\ m.count = n.count => m = n

\* What is counted as acknowledged was sealed; what is waited on is not yet.
ConfirmedInv ==
    /\ confirmed \subseteq telemetry
    /\ \A d \in Devices : phase[d] = "posting" => Posted(d) \notin confirmed

\* What Append adds to a sequence and leaves of it.
LEMMA AppendFacts ==
    ASSUME NEW S, NEW s \in Seq(S), NEW x \in S
    PROVE  /\ DOMAIN Append(s, x) = DOMAIN s \cup {Len(s) + 1}
           /\ Append(s, x)[Len(s) + 1] = x
           /\ \A i \in DOMAIN s : i \in Nat /\ i < Len(s) + 1
                                   /\ Append(s, x)[i] = s[i]
OBVIOUS

\* Every step keeps the log of a session behind the server's counter.
LEMMA LogStep ==
    ASSUME TypeInv, SessionInv, NonceInv, LogInv, [Next]_vars
    PROVE  LogInv'
<1>0. TypeOK
  BY DEF TypeInv
<1>1. ASSUME NEW m \in telemetry, HandleTelemetry(m) PROVE LogInv'
  <2> DEFINE n == Len(accepted) + 1
  <2>1. /\ m \in Packet(Uint32) /\ accepted \in Seq(Packet(Uint32))
        /\ \A p \in telemetry : p.count \in Nat
    BY <1>0, DeviceAssumption DEF TypeOK, Packet, Uint32
  <2>2. /\ accepted' = Append(accepted, m) /\ UNCHANGED <<telemetry, sessions>>
        /\ m.sid \in DOMAIN sessions
        /\ m.count > session_counters[m.sid]
        /\ session_counters' = Put(session_counters, m.sid, m.count)
    BY <1>1 DEF HandleTelemetry, CounterIsFresh, RecordCounter
  <2>3. /\ DOMAIN accepted' = DOMAIN accepted \cup {n} /\ accepted'[n] = m
        /\ \A i \in DOMAIN accepted : i \in Nat /\ i < n /\ accepted'[i] = accepted[i]
    BY <2>1, <2>2, AppendFacts
  <2>4. \A i \in DOMAIN accepted : accepted[i] \in telemetry /\ accepted[i].count \in Nat
    BY <2>1 DEF LogInv
  <2>5. \A s \in DOMAIN sessions : session_counters[s] \in Int
    BY <1>0, DeviceAssumption DEF TypeOK, SessionInv, Uint32
  <2>6. \A i \in DOMAIN accepted : accepted[i].sid = m.sid =>
            accepted[i].count < m.count
    BY <2>1, <2>2, <2>4, <2>5 DEF LogInv
  <2>7. /\ session_counters'[m.sid] = m.count
        /\ \A s \in DOMAIN sessions : s # m.sid => session_counters'[s] = session_counters[s]
    BY <2>2 DEF Put, SessionInv
  <2>8. \A i \in DOMAIN accepted' : accepted'[i] \in telemetry'
    BY <2>2, <2>3, <2>4
  <2>9. \A i \in DOMAIN accepted' : accepted'[i].sid \in DOMAIN sessions' =>
            accepted'[i].count <= session_counters'[accepted'[i].sid]
    BY <2>1, <2>2, <2>3, <2>4, <2>6, <2>7 DEF LogInv
  <2>10. LoggedInOrder'
    <3> SUFFICES ASSUME NEW i \in DOMAIN accepted', NEW j \in DOMAIN accepted',
                        i < j, accepted'[i].sid = accepted'[j].sid
                 PROVE  accepted'[i].count < accepted'[j].count
      BY DEF LoggedInOrder
    <3>1. CASE i \in DOMAIN accepted /\ j \in DOMAIN accepted
      BY <2>3, <3>1 DEF LogInv, LoggedInOrder
    <3>2. CASE i \in DOMAIN accepted /\ j = n
      BY <2>3, <2>6, <3>2
    <3>3. CASE i = n
      <4>1. n \in Nat
        BY <2>1
      <4> QED BY <2>3, <3>3, <4>1
    <3> QED BY <2>3, <3>1, <3>2, <3>3
  <2> QED BY <2>8, <2>9, <2>10 DEF LogInv
<1>2. ASSUME NEW m \in hello, HandleHandshake(m) PROVE LogInv'
  <2> DEFINE s == opened + 1
  <2>1. /\ UNCHANGED <<accepted, telemetry>>
        /\ DOMAIN sessions' \subseteq DOMAIN sessions \cup {s}
    BY <1>2, HandshakeTables DEF HandleHandshake
  <2>2. \A i \in DOMAIN accepted : accepted[i].sid # s
    <3> SUFFICES ASSUME NEW i \in DOMAIN accepted PROVE accepted[i].sid # s
      OBVIOUS
    <3>1. WelcomeOf(accepted[i].key, accepted[i].sid) \in welcome
      BY DEF LogInv, NonceInv, PacketInv
    <3>2. accepted[i].sid <= opened
      BY <3>1 DEF SessionInv, WelcomeOf
    <3>3. accepted[i].sid \in Nat /\ opened \in Nat
      BY <1>0, <3>1, NetAssumption DEF TypeOK, Welcome, WelcomeOf, SessionIds
    <3> QED BY <3>2, <3>3
  <2>3. \A t \in DOMAIN sessions' : t # s =>
            t \in DOMAIN sessions /\ session_counters'[t] = session_counters[t]
    BY <1>2, HandshakeTables DEF SessionInv
  <2> QED BY <2>1, <2>2, <2>3 DEF LogInv, LoggedInOrder
<1>3. ASSUME UNCHANGED <<accepted, sessions, session_counters>>,
             telemetry \subseteq telemetry'
      PROVE  LogInv'
  BY <1>3 DEF LogInv, LoggedInOrder
<1>4. ASSUME NEW d \in Devices, TaskStep(d) \/ Reset(d), UNCHANGED serverVars
      PROVE  LogInv'
  <2>1. telemetry \subseteq telemetry'
    BY <1>4 DEF TaskStep, StartHandshake, SetupFails, HandshakeFails, GiveUp,
                CompleteHandshake, SendTelemetry, EncryptFails, TelemetryFails,
                AcceptAck, EndSession, BackoffEnds, Reset, netVars
  <2> QED BY <1>3, <1>4, <2>1 DEF serverVars
<1>5. CASE ServerRestart
  BY <1>5 DEF ServerRestart, Restart, netVars, Empty, LogInv, LoggedInOrder
<1>6. CASE UNCHANGED vars
  BY <1>3, <1>6 DEF vars, serverVars, netVars
<1> QED BY <1>1, <1>2, <1>4, <1>5, <1>6, NextCases

\* The log of a session is behind the server's counter.
LEMMA LogInvariant == Spec => []LogInv
<1>1. Init => LogInv
  BY DEF Init, ServerInit, LogInv, LoggedInOrder
<1>2. TypeInv /\ KeyInv /\ NonceInv /\ LogInv /\ [Next]_vars => LogInv'
  BY LogStep DEF KeyInv
<1> QED BY <1>1, <1>2, TypeInvariant, KeyInvariant, NonceInvariant, PTL DEF Spec

\* The log takes the packets of a session in order and none twice.
THEOREM LogIsOrdered == Spec => []LoggedInOrder
<1>1. LogInv => LoggedInOrder
  BY DEF LogInv
<1> QED BY <1>1, LogInvariant, PTL

------------------------------------------------------------------------------
(***************************************************************************)
(* Acknowledgements.                                                       *)
(***************************************************************************)

\* A packet handle_telemetry takes comes after every logged one of its key.
LEMMA LoggedBefore ==
    ASSUME TypeInv, SessionInv, NonceInv, LogInv, NEW m \in telemetry,
           HandleTelemetry(m)
    PROVE  \A i \in DOMAIN accepted : accepted[i].key = m.key =>
               accepted[i].count < m.count
<1>1. m.sid \in DOMAIN sessions /\ m.count > session_counters[m.sid]
  BY DEF HandleTelemetry, CounterIsFresh
<1>2. ASSUME NEW i \in DOMAIN accepted, accepted[i].key = m.key
      PROVE  accepted[i].count < m.count
  <2>1. accepted[i] \in telemetry
    BY DEF LogInv
  <2>2. accepted[i].sid = m.sid
    <3>1. /\ m.key = ClientKey(m.key.dev, m.key.eph, m.sid)
          /\ m.key = ClientKey(m.key.dev, m.key.eph, accepted[i].sid)
      BY <1>2, <2>1 DEF NonceInv, PacketInv
    <3> QED BY <3>1 DEF ClientKey
  <2>3. accepted[i].count <= session_counters[m.sid]
    BY <1>1, <2>2 DEF LogInv
  <2>4. /\ accepted[i].count \in Nat /\ m.count \in Nat
        /\ session_counters[m.sid] \in Int
    BY <1>1, <2>1, DeviceAssumption
    DEF TypeInv, TypeOK, Packet, Uint32, SessionInv
  <2> QED BY <1>1, <2>3, <2>4
<1> QED BY <1>2

\* Every step keeps acknowledgements backed by the log, one for a packet.
LEMMA AckStep ==
    ASSUME TypeInv, SessionInv, NonceInv, LogInv, AckInv, [Next]_vars
    PROVE  AckInv'
<1>1. ASSUME NEW m \in telemetry, HandleTelemetry(m), UNCHANGED deviceVars
      PROVE  AckInv'
  <2> DEFINE n == Len(accepted) + 1
             a == [key |-> m.key, count |-> m.count, token |-> n]
  <2>1. m \in Packet(Uint32) /\ accepted \in Seq(Packet(Uint32))
    BY DEF TypeInv, TypeOK
  <2>2. accepted' = Append(accepted, m) /\ acks' = acks \cup {a}
    BY <1>1 DEF HandleTelemetry, TagVerifies
  <2>3. /\ DOMAIN accepted' = DOMAIN accepted \cup {n} /\ accepted'[n] = m
        /\ \A i \in DOMAIN accepted : accepted'[i] = accepted[i]
    BY <2>1, <2>2, AppendFacts
  <2>4. \A b \in acks' : \E i \in DOMAIN accepted' :
            accepted'[i].key = b.key /\ accepted'[i].count = b.count
    BY <2>2, <2>3 DEF AckInv
  <2>5. ASSUME NEW b \in acks, b.key = m.key PROVE b.count # m.count
    <3>1. PICK i \in DOMAIN accepted :
              accepted[i].key = b.key /\ accepted[i].count = b.count
      BY DEF AckInv
    <3>2. accepted[i].count < m.count
      BY <1>1, <2>5, <3>1, LoggedBefore
    <3>3. accepted[i].count \in Nat /\ m.count \in Nat
      BY <2>1, DeviceAssumption DEF TypeInv, TypeOK, LogInv, Packet, Uint32
    <3> QED BY <3>1, <3>2, <3>3
  <2>6. \A b, c \in acks' : b.key = c.key /\ b.count = c.count => b = c
    <3> SUFFICES ASSUME NEW b \in acks', NEW c \in acks',
                        b.key = c.key, b.count = c.count
                 PROVE  b = c
      OBVIOUS
    <3>1. a.key = m.key /\ a.count = m.count
      OBVIOUS
    <3> HIDE DEF a
    <3> QED BY <2>2, <2>5, <3>1 DEF AckInv
  <2> QED BY <2>4, <2>6 DEF AckInv
<1>2. ASSUME UNCHANGED <<acks, accepted>> PROVE AckInv'
  BY <1>2 DEF AckInv
<1>3. ASSUME NEW d \in Devices, TaskStep(d) \/ Reset(d), UNCHANGED serverVars
      PROVE  AckInv'
  <2>1. UNCHANGED acks
    BY <1>3 DEF TaskStep, StartHandshake, SetupFails, HandshakeFails, GiveUp,
                CompleteHandshake, SendTelemetry, EncryptFails, TelemetryFails,
                AcceptAck, EndSession, BackoffEnds, Reset, netVars
  <2> QED BY <1>2, <1>3, <2>1 DEF serverVars
<1>4. ASSUME NEW m \in hello, HandleHandshake(m), UNCHANGED deviceVars
      PROVE  AckInv'
  BY <1>2, <1>4 DEF HandleHandshake
<1>5. CASE ServerRestart
  BY <1>2, <1>5 DEF ServerRestart, Restart, netVars
<1>6. CASE UNCHANGED vars
  BY <1>2, <1>6 DEF vars, netVars, serverVars
<1> QED BY <1>1, <1>3, <1>4, <1>5, <1>6, NextCases

\* Every acknowledgement is for a packet in the log.
LEMMA AckInvariant == Spec => []AckInv
<1>1. Init => AckInv
  BY DEF Init, NetInit, AckInv
<1>2. TypeInv /\ KeyInv /\ NonceInv /\ LogInv /\ AckInv /\ [Next]_vars => AckInv'
  BY AckStep DEF KeyInv
<1> QED BY <1>1, <1>2, TypeInvariant, KeyInvariant, NonceInvariant,
           LogInvariant, PTL DEF Spec

\* No two packets, and no two acknowledgements, have one counter and one key.
THEOREM OncePerSide == Spec => []CounterOncePerSide
<1>1. NonceInv /\ AckInv => CounterOncePerSide
  BY DEF NonceInv, PacketsOnce, AckInv, CounterOncePerSide
<1> QED BY <1>1, NonceInvariant, AckInvariant, PTL

\* An acknowledgement of the server that a device takes is for a logged packet.
THEOREM AckMeansLogged == Spec => []AckAnswersLogged
<1>1. NonceInv /\ LogInv /\ AckInv => AckAnswersLogged
  <2> SUFFICES ASSUME NonceInv, LogInv, AckInv, NEW d \in Devices,
                      phase[d] = "posting", NEW m \in acks, AckVerifies(d, m)
               PROVE  \E i \in DOMAIN accepted : accepted[i] = Posted(d)
    BY DEF AckAnswersLogged
  <2>1. PICK i \in DOMAIN accepted :
            accepted[i].key = m.key /\ accepted[i].count = m.count
    BY DEF AckInv
  <2>2. accepted[i] \in telemetry /\ Posted(d) \in telemetry
    BY DEF LogInv, NonceInv, DevicePacketInv
  <2>3. Posted(d).key = m.key /\ Posted(d).count = m.count
    BY DEF Posted, AckVerifies
  <2> QED BY <2>1, <2>2, <2>3 DEF NonceInv, PacketsOnce
<1> QED BY <1>1, NonceInvariant, LogInvariant, AckInvariant, PTL

\* The server never logs an acknowledgement that comes back to it.
THEOREM OwnAcksRefused == Spec => []OwnAckIsStale
<1>1. SessionInv /\ NonceInv /\ LogInv /\ AckInv => OwnAckIsStale
  <2> SUFFICES ASSUME SessionInv, NonceInv, LogInv, AckInv, NEW m \in acks,
                      NEW s \in DOMAIN sessions, sessions[s] = m.key
               PROVE  m.count <= session_counters[s]
    BY DEF OwnAckIsStale
  <2>1. PICK i \in DOMAIN accepted :
            accepted[i].key = m.key /\ accepted[i].count = m.count
    BY DEF AckInv
  <2>2. accepted[i].key.sid = accepted[i].sid
    <3>1. accepted[i] \in telemetry
      BY DEF LogInv
    <3>2. accepted[i].key = ClientKey(accepted[i].key.dev, accepted[i].key.eph,
                                      accepted[i].sid)
      BY <3>1 DEF NonceInv, PacketInv
    <3>3. \A d, e, x : ClientKey(d, e, x).sid = x
      BY DEF ClientKey
    <3> QED BY <3>2, <3>3
  <2>3. sessions[s].sid = s
    BY DEF SessionInv, ServerKey
  <2>4. accepted[i].sid = s
    BY <2>1, <2>2, <2>3
  <2> QED BY <2>1, <2>4 DEF LogInv
<1>2. KeyInv => SessionInv
  BY DEF KeyInv
<1> QED BY <1>1, <1>2, KeyInvariant, NonceInvariant, LogInvariant,
           AckInvariant, PTL

(***************************************************************************)
(* What the device counts.  A packet is counted when its POST is answered, *)
(* by whatever verifies, and there is one answer to a POST.                *)
(***************************************************************************)

\* Every step counts only sealed packets, and none twice.
LEMMA ConfirmedStep ==
    ASSUME TypeInv, TypeInv', NonceInv, ConfirmedInv, [Next]_vars,
           CounterInvAll
    PROVE  ConfirmedInv'
<1>0. TypeOK
  BY DEF TypeInv
<1>1. ASSUME UNCHANGED <<telemetry, confirmed>>, NEW d \in Devices,
             TaskStep(d) \/ Reset(d), phase'[d] # "posting"
      PROVE  ConfirmedInv'
  <2>1. ASSUME NEW e \in Devices, phase'[e] = "posting"
        PROVE  phase[e] = "posting" /\ Posted(e)' = Posted(e)
    BY <1>0, <1>1, <2>1, OtherDevices DEF SameDevice, Posted
  <2> QED BY <1>1, <2>1 DEF ConfirmedInv
<1>2. ASSUME NEW d \in Devices, SendTelemetry(d) PROVE ConfirmedInv'
  <2> DEFINE c == ctx[d].telemetry_counter
             q == [sid |-> session_id[d], count |-> c, key |-> ctx[d].key,
                   seq |-> telemetry_seq[d]]
  <2>1. /\ phase[d] = "session" /\ telemetry' = telemetry \cup {q}
        /\ UNCHANGED <<session_id, confirmed>> /\ TakeCounter(d)
        /\ telemetry_seq'[d] = Inc(telemetry_seq[d])
        /\ ~ SessionOver(d)
    BY <1>0, <1>2 DEF SendTelemetry, TypeOK
  <2>2. /\ ctx'[d].telemetry_counter = Inc(c) /\ ctx'[d].key = ctx[d].key
        /\ c \in Uint32 /\ c \in Nat
    <3>1. c \in Uint32 /\ c \in Nat
      BY <1>0, DeviceAssumption DEF TypeOK, Context, Uint32
    <3>2. /\ Inc(c) = c + 1 /\ ctx'[d].telemetry_counter = c + 1
          /\ ctx'[d].key = ctx[d].key
      BY <1>0, <2>1, CounterStep, NoWrap
      DEF ContextUnlessCounter, CounterInvAll, TypeInv
    <3> QED BY <3>1, <3>2
  <2>3. Posted(d)' = q
    <3>1. Dec(ctx'[d].telemetry_counter) = c
      BY <2>2, UintFacts
    <3>2. Dec(telemetry_seq'[d]) = telemetry_seq[d]
      BY <1>0, <2>1, UintFacts DEF TypeOK
    <3> QED BY <2>1, <2>2, <3>1, <3>2 DEF Posted
  <2>4. q \notin telemetry
    <3> SUFFICES ASSUME q \in telemetry PROVE FALSE
      OBVIOUS
    <3>1. q.count < c
      BY <2>1 DEF NonceInv, DevicePacketInv, InSession
    <3> QED BY <2>2, <3>1
  <2>5. ASSUME NEW e \in Devices, e # d, phase'[e] = "posting"
        PROVE  phase[e] = "posting" /\ Posted(e)' = Posted(e)
    BY <1>0, <1>2, <2>5, OtherDevices DEF TaskStep, SameDevice, Posted
  <2> QED BY <2>1, <2>3, <2>4, <2>5 DEF ConfirmedInv
<1>3. ASSUME NEW d \in Devices, NEW m \in Answers, AcceptAck(d, m)
      PROVE  ConfirmedInv'
  <2>1. /\ phase[d] = "posting" /\ phase'[d] = "session"
        /\ confirmed' = confirmed \cup {Posted(d)} /\ UNCHANGED telemetry
        /\ TaskStep(d)
    BY <1>0, <1>3 DEF AcceptAck, netVars, TypeOK, TaskStep
  <2>2. Posted(d) \in telemetry
    BY <2>1 DEF NonceInv, DevicePacketInv
  <2>3. ASSUME NEW e \in Devices, phase'[e] = "posting"
        PROVE  Posted(e)' \notin confirmed'
    <3>1. e # d
      BY <2>1, <2>3
    <3>2. phase[e] = "posting" /\ Posted(e)' = Posted(e)
      BY <1>0, <2>1, <2>3, <3>1, OtherDevices DEF SameDevice, Posted
    <3>3. ctx[e].key.dev = e /\ ctx[d].key.dev = d
      <4>1. /\ ctx[e].key = ClientKey(e, ctx[e].key.eph, session_id[e])
            /\ ctx[d].key = ClientKey(d, ctx[d].key.eph, session_id[d])
        BY <2>1, <3>2 DEF TypeInv, ContextMatchesPhase, InSession
      <4>2. \A x, y, z : ClientKey(x, y, z).dev = x
        BY DEF ClientKey
      <4> QED BY <4>1, <4>2
    <3>4. Posted(e) # Posted(d)
      BY <3>1, <3>3 DEF Posted
    <3> QED BY <2>1, <3>2, <3>4 DEF ConfirmedInv
  <2> QED BY <2>1, <2>2, <2>3 DEF ConfirmedInv
<1>4. ASSUME NEW d \in Devices, TaskStep(d) \/ Reset(d) PROVE ConfirmedInv'
  <2>1. \/ UNCHANGED <<telemetry, confirmed>> /\ phase'[d] # "posting"
        \/ SendTelemetry(d)
        \/ \E m \in Answers : AcceptAck(d, m)
    BY <1>0, <1>4 DEF TypeOK, TaskStep, StartHandshake, SetupFails,
       HandshakeFails, GiveUp, CompleteHandshake, EncryptFails,
       TelemetryFails, EndSession, BackoffEnds, Reset, netVars
  <2> QED BY <1>1, <1>2, <1>3, <1>4, <2>1
<1>5. ASSUME UNCHANGED <<deviceVars, telemetry>> PROVE ConfirmedInv'
  BY <1>5 DEF deviceVars, ConfirmedInv, Posted
<1>6. ASSUME NEW m \in telemetry, HandleTelemetry(m), UNCHANGED deviceVars
      PROVE  ConfirmedInv'
  BY <1>5, <1>6 DEF HandleTelemetry
<1>7. ASSUME NEW m \in hello, HandleHandshake(m), UNCHANGED deviceVars
      PROVE  ConfirmedInv'
  BY <1>5, <1>7 DEF HandleHandshake
<1>8. CASE ServerRestart
  BY <1>5, <1>8 DEF ServerRestart, Restart, netVars
<1>9. CASE UNCHANGED vars
  BY <1>5, <1>9 DEF vars, netVars
<1> QED BY <1>4, <1>6, <1>7, <1>8, <1>9, NextCases

\* What is counted was sealed, and is counted once.
LEMMA ConfirmedInvariant == Spec => []ConfirmedInv
<1>1. Init => ConfirmedInv
  BY DEF Init, DeviceInit, NetInit, ConfirmedInv
<1>2. TypeInv /\ TypeInv' /\ CounterInvAll /\ NonceInv /\ ConfirmedInv
      /\ [Next]_vars => ConfirmedInv'
  BY ConfirmedStep
<1> QED BY <1>1, <1>2, TypeInvariant, CounterInvariant, NonceInvariant,
           PTL DEF Spec

------------------------------------------------------------------------------
(***************************************************************************)
(* The device stays ahead of the server.                                   *)
(***************************************************************************)

\* Every step keeps the server's counters among those of packets sent.
LEMMA CounterSourceStep ==
    ASSUME SessionInv, CounterSource, [Next]_vars
    PROVE  CounterSource'
<1>1. ASSUME NEW m \in telemetry, HandleTelemetry(m) PROVE CounterSource'
  BY <1>1 DEF HandleTelemetry, RecordCounter, Put, SessionInv, CounterSource
<1>2. ASSUME NEW m \in hello, HandleHandshake(m) PROVE CounterSource'
  <2> DEFINE s == opened + 1
  <2>1. UNCHANGED telemetry /\ session_counters'[s] = -1
    BY <1>2, HandshakeTables DEF HandleHandshake
  <2>2. \A t \in DOMAIN sessions' : t # s =>
            t \in DOMAIN sessions /\ session_counters'[t] = session_counters[t]
    BY <1>2, HandshakeTables DEF SessionInv
  <2> QED BY <2>1, <2>2 DEF CounterSource
<1>3. ASSUME UNCHANGED <<sessions, session_counters>>, telemetry \subseteq telemetry'
      PROVE  CounterSource'
  BY <1>3 DEF CounterSource
<1>4. ASSUME NEW d \in Devices, TaskStep(d) \/ Reset(d), UNCHANGED serverVars
      PROVE  CounterSource'
  <2>1. telemetry \subseteq telemetry'
    BY <1>4 DEF TaskStep, StartHandshake, SetupFails, HandshakeFails, GiveUp,
                CompleteHandshake, SendTelemetry, EncryptFails, TelemetryFails,
                AcceptAck, EndSession, BackoffEnds, Reset, netVars
  <2> QED BY <1>3, <1>4, <2>1 DEF serverVars
<1>5. CASE ServerRestart
  BY <1>5 DEF ServerRestart, Restart, Empty, CounterSource
<1>6. CASE UNCHANGED vars
  BY <1>3, <1>6 DEF vars, serverVars, netVars
<1> QED BY <1>1, <1>2, <1>4, <1>5, <1>6, NextCases

\* The server's counter was sent in a packet of the session.
LEMMA CounterSourceInvariant == Spec => []CounterSource
<1>1. Init => CounterSource
  BY DEF Init, ServerInit, Empty, CounterSource
<1>2. KeyInv /\ CounterSource /\ [Next]_vars => CounterSource'
  BY CounterSourceStep DEF KeyInv
<1> QED BY <1>1, <1>2, KeyInvariant, PTL DEF Spec

\* The next packet of a device always passes the server's counter check.
THEOREM DeviceStaysAhead == Spec => []DeviceIsAhead
<1>1. TypeInv /\ KeyInv /\ NonceInv /\ CounterSource => DeviceIsAhead
  <2> SUFFICES ASSUME TypeInv, KeyInv, NonceInv, CounterSource,
                      NEW d \in Devices, InSession(d),
                      session_id[d] \in DOMAIN sessions
               PROVE  session_counters[session_id[d]] < ctx[d].telemetry_counter
    BY DEF DeviceIsAhead
  <2> DEFINE s == session_id[d]
  <2>1. TypeOK /\ ContextMatchesPhase(d)
    BY DEF TypeInv
  <2>2. CASE session_counters[s] = -1
    <3>1. ctx[d].telemetry_counter \in Nat
      BY <2>1, DeviceAssumption DEF TypeOK, Context, Uint32
    <3> QED BY <2>2, <3>1
  <2>3. ASSUME NEW p \in telemetry, p.sid = s, p.count = session_counters[s]
        PROVE  session_counters[s] < ctx[d].telemetry_counter
    <3>1. WelcomeOf(p.key, s) \in welcome /\ WelcomeOf(ctx[d].key, s) \in welcome
      BY <2>3 DEF NonceInv, PacketInv, KeyInv, DeviceKeyInv
    <3>2. WelcomeOf(p.key, s) = WelcomeOf(ctx[d].key, s)
      BY <3>1 DEF KeyInv, SessionInv, WelcomeOf
    <3>3. p.key.dev = ctx[d].key.dev /\ p.key.eph = ctx[d].key.eph
      BY <3>2 DEF WelcomeOf
    <3>4. ctx[d].key = ClientKey(d, ctx[d].key.eph, s) /\ ctx[d].key.dev = d
      BY <2>1 DEF ContextMatchesPhase, ClientKey
    <3>5. p.key = ctx[d].key
      BY <2>3, <3>3, <3>4 DEF NonceInv, PacketInv
    <3> QED BY <2>3, <3>5 DEF NonceInv, DevicePacketInv
  <2> QED BY <2>2, <2>3 DEF CounterSource
<1> QED BY <1>1, TypeInvariant, KeyInvariant, NonceInvariant,
           CounterSourceInvariant, PTL

------------------------------------------------------------------------------
(***************************************************************************)
(* Refinement: the system implements TelemetryChannel.                     *)
(***************************************************************************)

\* The initial state is one of the channel.
LEMMA ChannelInit == Init => Channel!Init
BY DEF Init, DeviceInit, ServerInit, NetInit, Channel!Init

\* Only sealing a packet changes the set of packets on the wire.
LEMMA SealStep ==
    ASSUME NEW d \in Devices, SendTelemetry(d), UNCHANGED serverVars,
           PacketsOnce'
    PROVE  Channel!Seal
BY DEF SendTelemetry, serverVars, PacketsOnce, Channel!Seal,
       Channel!CounterUsedOnce

\* handle_telemetry logs a packet after every earlier one of its key.
LEMMA LogChannelStep ==
    ASSUME TypeInv, SessionInv, NonceInv, LogInv, NEW m \in telemetry,
           HandleTelemetry(m), UNCHANGED deviceVars
    PROVE  Channel!Log
<1>1. /\ accepted' = Append(accepted, m) /\ UNCHANGED <<telemetry, confirmed>>
      /\ m.sid \in DOMAIN sessions /\ m.count > session_counters[m.sid]
  BY DEF HandleTelemetry, CounterIsFresh, deviceVars
<1>2. \A i \in DOMAIN accepted : accepted[i].key = m.key =>
          accepted[i].count < m.count
  BY LoggedBefore
<1> QED BY <1>1, <1>2 DEF Channel!Log

\* Taking an acknowledgement confirms a sealed packet, for the first time.
LEMMA ConfirmStep ==
    ASSUME NEW d \in Devices, NEW m \in Answers, AcceptAck(d, m),
           UNCHANGED serverVars, NonceInv, ConfirmedInv
    PROVE  Channel!Confirm
<1>1. /\ confirmed' = confirmed \cup {Posted(d)} /\ UNCHANGED <<telemetry, accepted>>
      /\ phase[d] = "posting"
  BY DEF AcceptAck, netVars, serverVars
<1>2. Posted(d) \in telemetry \ confirmed
  BY <1>1 DEF ConfirmedInv, NonceInv, DevicePacketInv
<1> QED BY <1>1, <1>2 DEF Channel!Confirm

\* Every step is a step of the channel or none.
LEMMA ChannelStep ==
    ASSUME TypeInv, KeyInv, NonceInv, NonceInv', LogInv, ConfirmedInv, [Next]_vars
    PROVE  [Channel!Next]_(Channel!vars)
<1>1. ASSUME UNCHANGED <<telemetry, accepted, confirmed>>
      PROVE  UNCHANGED Channel!vars
  BY <1>1 DEF Channel!vars
<1>2. ASSUME NEW d \in Devices, TaskStep(d) \/ Reset(d), UNCHANGED serverVars
      PROVE  [Channel!Next]_(Channel!vars)
  <2>1. \/ UNCHANGED <<telemetry, accepted, confirmed>>
        \/ SendTelemetry(d)
        \/ \E m \in Answers : AcceptAck(d, m)
    BY <1>2 DEF serverVars, TaskStep, StartHandshake, SetupFails,
                HandshakeFails, GiveUp, CompleteHandshake, EncryptFails,
                TelemetryFails, EndSession, BackoffEnds, Reset, netVars
  <2>2. SendTelemetry(d) => Channel!Seal
    BY <1>2, SealStep DEF NonceInv
  <2>3. (\E m \in Answers : AcceptAck(d, m)) => Channel!Confirm
    BY <1>2, ConfirmStep
  <2> QED BY <1>1, <2>1, <2>2, <2>3 DEF Channel!Next
<1>3. ASSUME NEW m \in telemetry, HandleTelemetry(m), UNCHANGED deviceVars
      PROVE  Channel!Next
  BY <1>3, LogChannelStep DEF KeyInv, Channel!Next
<1>4. ASSUME NEW m \in hello, HandleHandshake(m), UNCHANGED deviceVars
      PROVE  UNCHANGED Channel!vars
  BY <1>1, <1>4 DEF HandleHandshake, deviceVars
<1>5. CASE ServerRestart
  BY <1>1, <1>5 DEF ServerRestart, Restart, netVars, deviceVars
<1>6. CASE UNCHANGED vars
  BY <1>1, <1>6 DEF vars, netVars, deviceVars, serverVars
<1> QED BY <1>2, <1>3, <1>4, <1>5, <1>6, NextCases

\* Devices, server and network together implement the telemetry channel.
THEOREM ChannelImplemented == Spec => ChannelSpec
<1>1. Init => Channel!Init
  BY ChannelInit
<1>2. TypeInv /\ KeyInv /\ NonceInv /\ NonceInv' /\ LogInv /\ ConfirmedInv
      /\ [Next]_vars => [Channel!Next]_(Channel!vars)
  BY ChannelStep
<1> QED BY <1>1, <1>2, TypeInvariant, KeyInvariant, NonceInvariant,
           LogInvariant, ConfirmedInvariant, PTL DEF Spec, ChannelSpec, Channel!Spec

------------------------------------------------------------------------------
(* The server's session table, and what simulation mode does to the session *)

(***************************************************************************)
(* The table is an interval of session ids that ends at the last one       *)
(* opened.  That is what makes the first key of the dict the smallest id,  *)
(* and eviction of one entry enough to keep the size.                      *)
(***************************************************************************)

SessionsAreNewest == DOMAIN sessions = NewestSessions

\* The table's first id and its size.
LEMMA TableShape ==
    ASSUME TypeOK, SessionsAreNewest
    PROVE  /\ handshake_count > MaxSessions =>
                /\ DOMAIN sessions = (opened - MaxSessions)..opened
                /\ Cardinality(DOMAIN sessions) = MaxSessions + 1
           /\ handshake_count <= MaxSessions =>
                /\ DOMAIN sessions = (opened - handshake_count + 1)..opened
                /\ Cardinality(DOMAIN sessions) = handshake_count
<1>1. /\ opened \in Nat /\ handshake_count \in Nat /\ MaxSessions \in Nat
      /\ handshake_count <= opened
  BY NetAssumption, ServerAssumption DEF TypeOK
<1>2. CASE handshake_count > MaxSessions
  <2>1. DOMAIN sessions = (opened - MaxSessions)..opened
    BY <1>1, <1>2 DEF SessionsAreNewest, NewestSessions
  <2>2. Cardinality((opened - MaxSessions)..opened) = MaxSessions + 1
    BY <1>1, FS_Interval
  <2> QED BY <1>1, <1>2, <2>1, <2>2
<1>3. CASE handshake_count <= MaxSessions
  <2>1. DOMAIN sessions = (opened - handshake_count + 1)..opened
    BY <1>1, <1>3 DEF SessionsAreNewest, NewestSessions
  <2>2. Cardinality((opened - handshake_count + 1)..opened) = handshake_count
    BY <1>1, FS_Interval
  <2> QED BY <1>1, <1>3, <2>1, <2>2
<1> QED BY <1>1, <1>2, <1>3

\* A full table evicts its first id, any other table none.
LEMMA EvictedFacts ==
    ASSUME TypeOK, SessionsAreNewest
    PROVE  /\ handshake_count > MaxSessions =>
                Evicted = {opened - MaxSessions}
           /\ handshake_count <= MaxSessions => Evicted = {}
<1>1. opened \in Nat /\ handshake_count \in Nat /\ MaxSessions \in Nat
  BY NetAssumption, ServerAssumption DEF TypeOK
<1>2. CASE handshake_count > MaxSessions
  <2> DEFINE first == opened - MaxSessions
  <2>1. /\ Cardinality(DOMAIN sessions) > MaxSessions
        /\ DOMAIN sessions = first..opened
    BY <1>1, <1>2, TableShape
  <2>2. first \in DOMAIN sessions /\ \A t \in DOMAIN sessions : first <= t
    BY <1>1, <1>2, <2>1
  <2>3. \A s \in DOMAIN sessions :
          (\A t \in DOMAIN sessions : s <= t) => s = first
    <3> SUFFICES ASSUME NEW s \in DOMAIN sessions,
                        \A t \in DOMAIN sessions : s <= t
                 PROVE  s = first
      OBVIOUS
    <3>1. s \in Int /\ first \in Int /\ s <= first /\ first <= s
      BY <1>1, <2>1, <2>2
    <3> QED BY <3>1
  <2>4. Oldest = first
    BY <2>2, <2>3 DEF Oldest
  <2> QED BY <1>1, <1>2, <2>1, <2>4 DEF Evicted
<1>3. CASE handshake_count <= MaxSessions
  BY <1>1, <1>3, TableShape DEF Evicted
<1> QED BY <1>1, <1>2, <1>3

TableInv == SessionsAreNewest /\ DOMAIN session_counters = DOMAIN sessions

\* A handshake moves the interval on by one.
LEMMA HandshakeTable ==
    ASSUME TypeOK, TableInv, NEW m \in hello, HandleHandshake(m)
    PROVE  TableInv'
<1> DEFINE s == opened + 1
<1>1. /\ opened \in Nat /\ handshake_count \in Nat /\ MaxSessions \in Nat
      /\ handshake_count <= opened
  BY NetAssumption, ServerAssumption DEF TypeOK
<1>2. /\ opened' = s
      /\ handshake_count' = handshake_count + 1
      /\ DOMAIN sessions' = (DOMAIN sessions \ Evicted) \cup {s}
      /\ DOMAIN session_counters' = (DOMAIN session_counters \ Evicted) \cup {s}
  BY HandshakeTables DEF HandleHandshake
<1>3. SessionsAreNewest'
  <2>1. CASE handshake_count > MaxSessions
    <3>1. DOMAIN sessions = (opened - MaxSessions)..opened
      BY <2>1, TableShape DEF TableInv
    <3>2. Evicted = {opened - MaxSessions}
      BY <2>1, EvictedFacts DEF TableInv
    <3>3. DOMAIN sessions' = (s - MaxSessions)..s
      BY <1>1, <1>2, <3>1, <3>2
    <3> QED BY <1>1, <1>2, <2>1, <3>3 DEF SessionsAreNewest, NewestSessions
  <2>2. CASE handshake_count <= MaxSessions
    <3>1. DOMAIN sessions = (opened - handshake_count + 1)..opened
      BY <2>2, TableShape DEF TableInv
    <3>2. Evicted = {}
      BY <2>2, EvictedFacts DEF TableInv
    <3>3. DOMAIN sessions' = (opened - handshake_count + 1)..s
      BY <1>1, <1>2, <3>1, <3>2
    <3> QED BY <1>1, <1>2, <2>2, <3>3 DEF SessionsAreNewest, NewestSessions
  <2> QED BY <1>1, <2>1, <2>2
<1> QED BY <1>2, <1>3 DEF TableInv

\* An accepted packet updates an entry that is there.
LEMMA TelemetryTable ==
    ASSUME TableInv, NEW m \in telemetry, HandleTelemetry(m)
    PROVE  TableInv'
<1>1. m.sid \in DOMAIN session_counters
  BY DEF TableInv, HandleTelemetry
<1>2. DOMAIN session_counters' = DOMAIN session_counters
  BY <1>1 DEF HandleTelemetry, RecordCounter, Put
<1> QED BY <1>2 DEF TableInv, SessionsAreNewest, NewestSessions, HandleTelemetry

\* A restarted server has neither sessions nor handshakes.
LEMMA RestartTable ==
    ASSUME TypeOK, ServerRestart
    PROVE  TableInv'
<1>1. opened \in Nat /\ MaxSessions \in Nat
  BY NetAssumption, ServerAssumption DEF TypeOK
<1>2. DOMAIN sessions' = {} /\ DOMAIN session_counters' = {}
  BY DEF ServerRestart, Restart, Empty
<1>3. {s \in 1..opened : s > opened - 0 /\ s > opened - (MaxSessions + 1)} = {}
  BY <1>1
<1> QED BY <1>2, <1>3
       DEF TableInv, SessionsAreNewest, NewestSessions, ServerRestart, Restart

\* The invariant of the two tables.
LEMMA TableInvariant == Spec => []TableInv
<1>1. Init => TableInv
  BY DEF Init, ServerInit, TableInv, SessionsAreNewest, NewestSessions, Empty
<1>2. TypeInv /\ TableInv /\ [Next]_vars => TableInv'
  <2> SUFFICES ASSUME TypeInv, TableInv, [Next]_vars PROVE TableInv'
    OBVIOUS
  <2>1. TypeOK
    BY DEF TypeInv
  <2>2. CASE UNCHANGED serverVars
    BY <2>2 DEF serverVars, TableInv, SessionsAreNewest, NewestSessions
  <2>3. CASE UNCHANGED vars
    BY <2>2, <2>3 DEF vars
  <2>4. CASE Next
    BY <2>1, <2>2, <2>4, NextCases, HandshakeTable, TelemetryTable, RestartTable
  <2> QED BY <2>3, <2>4
<1> QED BY <1>1, <1>2, TypeInvariant, PTL DEF Spec

\* Both tables are the newest MaxSessions + 1 sessions since the server started.
THEOREM NewestSessionsKept == Spec => []TablesHoldNewest
<1>1. TableInv => TablesHoldNewest
  BY DEF TableInv, SessionsAreNewest, TablesHoldNewest
<1> QED BY <1>1, TableInvariant, PTL

------------------------------------------------------------------------------
(***************************************************************************)
(* Simulation mode.  The server's keys are made of random bytes, a         *)
(* device's of what implicit rejection returns: no packet is accepted.     *)
(***************************************************************************)

LogEmpty == ~ NativeKEM => accepted = <<>>

\* No packet decrypts under a key of the table.
LEMMA NothingAccepted ==
    ASSUME SessionInv, NonceInv, ~ NativeKEM, NEW m \in telemetry
    PROVE  ~ HandleTelemetry(m)
<1> SUFFICES ASSUME HandleTelemetry(m) PROVE FALSE
  OBVIOUS
<1>1. m.key.kem = "rejected"
  <2>1. m.key = ClientKey(m.key.dev, m.key.eph, m.sid)
    BY DEF NonceInv, PacketInv
  <2>2. \A d, e, s : ClientKey(d, e, s).kem = "rejected"
    BY DEF ClientKey
  <2> QED BY <2>1, <2>2
<1>2. sessions[m.sid].kem = "random"
  BY DEF HandleTelemetry, SessionInv, ServerKey
<1>3. "rejected" # "random"
  OBVIOUS
<1> QED BY <1>3, <1>1, <1>2 DEF HandleTelemetry, TagVerifies

\* The log stays empty.
LEMMA LogStaysEmpty == Spec => []LogEmpty
<1>1. Init => LogEmpty
  BY DEF Init, ServerInit, LogEmpty
<1>2. SessionInv /\ NonceInv /\ LogEmpty /\ [Next]_vars => LogEmpty'
  <2> SUFFICES ASSUME SessionInv, NonceInv, LogEmpty, [Next]_vars, ~ NativeKEM
               PROVE  UNCHANGED accepted
    BY DEF LogEmpty
  <2>1. CASE UNCHANGED vars
    BY <2>1 DEF vars, serverVars
  <2>2. CASE Next
    BY <2>2, NextCases, NothingAccepted
       DEF serverVars, HandleHandshake, ServerRestart, Restart
  <2> QED BY <2>1, <2>2
<1>3. KeyInv => SessionInv
  BY DEF KeyInv
<1> QED BY <1>1, <1>2, <1>3, KeyInvariant, NonceInvariant, PTL DEF Spec

\* Without the native library the server logs and acknowledges nothing.
THEOREM SimulationIsInert == Spec => []SimulationLogsNothing
<1>1. LogEmpty /\ AckInv => SimulationLogsNothing
  <2> SUFFICES ASSUME LogEmpty, AckInv, ~ NativeKEM
               PROVE  accepted = <<>> /\ acks = {}
    BY DEF SimulationLogsNothing
  <2>1. accepted = <<>> /\ DOMAIN accepted = {}
    BY DEF LogEmpty
  <2> QED BY <2>1 DEF AckInv
<1> QED BY <1>1, LogStaysEmpty, AckInvariant, PTL
==============================================================================

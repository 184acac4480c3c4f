------------------------------ MODULE PqcServer ------------------------------
(***************************************************************************)
(* server/server.py: the handlers behind POST /handshake and POST          *)
(* /api/telemetry.  A handler runs without an await between reading        *)
(* the request body and writing the response, so one request is one        *)
(* atomic step of the asyncio event loop.                                  *)
(***************************************************************************)
EXTENDS HybridNet, Integers, FiniteSets, Sequences, Functions

CONSTANT
    MaxSessions   \* sessions kept before the oldest is evicted (100)

ASSUME ServerAssumption == MaxSessions \in Nat

VARIABLES
    sessions,         \* self.sessions: session id -> key
    session_counters, \* self.session_counters: session id -> last counter
    telemetry_log,    \* self.telemetry_log
    handshake_count,  \* self.handshake_count
    opened,           \* randomness: session ids drawn so far
    accepted          \* history: packets logged since the first start

serverVars == <<sessions, session_counters, telemetry_log, handshake_count,
                opened, accepted>>

Empty == [s \in {} |-> 0]

ServerInit ==
    /\ sessions = Empty
    /\ session_counters = Empty
    /\ telemetry_log = <<>>
    /\ handshake_count = 0
    /\ opened = 0
    /\ accepted = <<>>

\* dict[k] = v
Put(dict, k, v) ==
    [x \in DOMAIN dict \cup {k} |-> IF x = k THEN v ELSE dict[x]]

(***************************************************************************)
(* Session ids are random and never repeat.  They are numbered here in the *)
(* order they are drawn, which is the insertion order of the dict: the     *)
(* first key, next(iter(self.sessions)), is the smallest.                  *)
(* A bug: popitem(), which takes the newest.                               *)
(***************************************************************************)
Newest == CHOOSE s \in DOMAIN sessions : \A t \in DOMAIN sessions : t <= s

Oldest == CHOOSE s \in DOMAIN sessions : \A t \in DOMAIN sessions : s <= t

\* The eviction test, as the code has it: strictly more than MaxSessions.
Evicted ==
    IF Cardinality(DOMAIN sessions) > MaxSessions THEN {Oldest} ELSE {}

\* handle_handshake for a well-formed request whose HMAC verifies: the key,
\* a fresh id, eviction, both table entries, the signed response.
HandleHandshake(m) ==
    /\ opened < MaxOpened
    /\ LET s == opened + 1
           kept == DOMAIN sessions \ Evicted
       IN /\ opened' = s
          /\ sessions' = Put(Restrict(sessions, kept), s,
                             ServerKey(m.dev, m.eph, s))
          /\ session_counters' = Put(Restrict(session_counters,
                                              DOMAIN session_counters \ Evicted),
                                     s, -1)
          /\ welcome' = welcome \cup {[dev |-> m.dev, eph |-> m.eph, sid |-> s]}
    /\ handshake_count' = handshake_count + 1
    /\ UNCHANGED <<telemetry_log, accepted, hello, telemetry, acks>>

\* counter <= last_counter is refused, before decryption.
\* A bug: a repeated counter passes.
CounterIsFreshOrSame(m) == m.count >= session_counters[m.sid]

CounterIsFresh(m) == m.count > session_counters[m.sid]

\* AESGCM(session_key).decrypt does not raise InvalidTag.
\* A bug: the tag is not checked.
TagVerifiesAlways(m) == TRUE

TagVerifies(m) == m.key = sessions[m.sid]

\* self.session_counters[session_id] = counter.
\* A bug: the accepted counter is not recorded.
RecordCounterForgotten(m) == UNCHANGED session_counters

RecordCounter(m) ==
    session_counters' = Put(session_counters, m.sid, m.count)

\* handle_telemetry and the acknowledgement handle_request builds from it.
\* Every other request gets an error and changes nothing.
HandleTelemetry(m) ==
    /\ m.sid \in DOMAIN sessions
    /\ CounterIsFresh(m)
    /\ TagVerifies(m)
    /\ RecordCounter(m)
    /\ telemetry_log' = Append(telemetry_log, m)
    /\ accepted' = Append(accepted, m)
    /\ acks' = acks \cup {[key |-> sessions[m.sid], count |-> m.count,
                           token |-> Len(accepted) + 1]}
    /\ UNCHANGED <<sessions, handshake_count, opened, hello, welcome, telemetry>>

\* The process dies and is started again: __init__.
Restart ==
    /\ sessions' = Empty
    /\ session_counters' = Empty
    /\ telemetry_log' = <<>>
    /\ handshake_count' = 0
    /\ UNCHANGED <<opened, accepted, netVars>>
==============================================================================

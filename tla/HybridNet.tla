------------------------------ MODULE HybridNet ------------------------------
(***************************************************************************)
(* What the ESP32 devices and the server exchange: the two HTTP endpoints  *)
(* /handshake and /api/telemetry, and the symbolic cryptography behind     *)
(* them.                                                                   *)
(*                                                                         *)
(* The four variables only grow.  Keeping every message ever sent lets any *)
(* of them be delivered late, twice, out of order or never, which is what  *)
(* the Wi-Fi link and the 5 s client timeout do to the requests: a request *)
(* the client gave up on may still sit in the server's socket.             *)
(***************************************************************************)
EXTENDS Naturals

CONSTANTS
    Devices,      \* the ESP32 nodes
    NativeKEM,    \* TRUE: server.py found libmlkem; FALSE: simulation mode
    NoKey,        \* an all-zero session_key field
    MaxKeygens,   \* bound: handshakes one device starts
    MaxOpened     \* bound: sessions the server opens

ASSUME NetAssumption ==
    /\ NativeKEM \in BOOLEAN
    /\ MaxKeygens \in Nat
    /\ MaxOpened \in Nat

VARIABLES
    hello,        \* handshake requests put on the wire
    welcome,      \* handshake responses put on the wire
    telemetry,    \* telemetry requests put on the wire
    acks          \* telemetry responses put on the wire

netVars == <<hello, welcome, telemetry, acks>>

Ephemerals == 1..MaxKeygens
SessionIds == 1..MaxOpened

(***************************************************************************)
(* A session key is HKDF(X25519_ss || ML-KEM_ss): it is fixed by the       *)
(* client's ephemeral key pairs (dev, eph), the server's ephemeral X25519  *)
(* key and encapsulation, drawn together with the session id (sid), and    *)
(* the value the KEM gave.  kem = "agreed" when encapsulation and          *)
(* decapsulation belong together.  Without the native library the server   *)
(* sends random bytes as ciphertext and uses other random bytes as its     *)
(* secret; ML-KEM's implicit rejection gives the client a third value.     *)
(***************************************************************************)
Key == [dev : Devices, eph : Ephemerals, sid : SessionIds,
        kem : {"agreed", "random", "rejected"}]

ClientKey(d, e, s) ==
    [dev |-> d, eph |-> e, sid |-> s,
     kem |-> IF NativeKEM THEN "agreed" ELSE "rejected"]

ServerKey(d, e, s) ==
    [dev |-> d, eph |-> e, sid |-> s,
     kem |-> IF NativeKEM THEN "agreed" ELSE "random"]

(***************************************************************************)
(* Hello: mode, public keys and HMAC; (dev, eph) stands for the keys.      *)
(* Welcome: session id, server public key, ciphertext and an HMAC over the *)
(* client's hello and all of that; (dev, eph) is the hello it covers.      *)
(* Ack: [IV || GCM]: the key that sealed it and the IV, which is a counter *)
(* and 8 random bytes.  token stands for those: the server's draws are     *)
(* numbered in the order they are made, 0 is for the ones a device drew.   *)
(***************************************************************************)
Hello == [dev : Devices, eph : Ephemerals]
Welcome == [dev : Devices, eph : Ephemerals, sid : SessionIds]
Ack(Counters) == [key : Key, count : Counters, token : Nat]

(***************************************************************************)
(* Packet: session id, counter in the IV, the key that sealed it, and the  *)
(* reading inside, named by the device's telemetry sequence number.        *)
(***************************************************************************)
Packet(Counters) ==
    [sid : SessionIds, count : Counters, key : Key, seq : Counters]

\* [IV || GCM] of a packet, without its session id: neither the key nor the
\* IV nor associated data says which side sealed it.
Sealed(p) == [key |-> p.key, count |-> p.count, token |-> 0]

\* What the network can give a device as the body of a telemetry response:
\* any message one of the sides sealed, its own included.
Answers == acks \cup {Sealed(p) : p \in telemetry}

NetInit ==
    /\ hello = {}
    /\ welcome = {}
    /\ telemetry = {}
    /\ acks = {}
==============================================================================

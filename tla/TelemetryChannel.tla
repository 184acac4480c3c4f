-------------------------- MODULE TelemetryChannel ---------------------------
(***************************************************************************)
(* What the secure session promises the application, with no device, no    *)
(* server and no network: no two packets are sealed with one counter under *)
(* one key, the log takes the packets of a key in counter order and each   *)
(* at most once, and only a sealed packet is counted as acknowledged, once *)
(* at most.  It does not promise that a packet counted so is in the log.   *)
(***************************************************************************)
EXTENDS Naturals, Sequences

VARIABLES
    sent,       \* packets sealed
    log,        \* packets logged, in order
    confirmed   \* packets counted as acknowledged

vars == <<sent, log, confirmed>>

Init ==
    /\ sent = {}
    /\ log = <<>>
    /\ confirmed = {}

CounterUsedOnce(packets) ==
    \A p, q \in packets : p.key = q.key /\ p.count = q.count => p = q

Seal ==
    /\ sent \subseteq sent'
    /\ CounterUsedOnce(sent')
    /\ UNCHANGED <<log, confirmed>>

Log == 
    /\ \E p \in sent :
          /\ \A i \in DOMAIN log : log[i].key = p.key => log[i].count < p.count
          /\ log' = Append(log, p)
    /\ UNCHANGED <<sent, confirmed>>

Confirm ==
    /\ \E p \in sent \ confirmed : confirmed' = confirmed \cup {p}
    /\ UNCHANGED <<sent, log>>

Next == Seal \/ Log \/ Confirm

Spec == Init /\ [][Next]_vars
==============================================================================

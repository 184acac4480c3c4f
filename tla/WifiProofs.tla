----------------------------- MODULE WifiProofs ------------------------------
(***************************************************************************)
(* Proofs about WifiStation, for every retry limit and set of gateways.    *)
(***************************************************************************)
EXTENDS WifiStation, TLAPS

(***************************************************************************)
(* The queue is short and tells what the driver is doing: the driver posts *)
(* nothing while the station is down, and esp_wifi_connect is called only  *)
(* for the last event in the queue.                                        *)
(***************************************************************************)
QueueMatchesRadio ==
    /\ radio \in {"off", "connecting", "joined"} => Len(events) = 0
    /\ radio = "up" =>
          \/ Len(events) = 0
          \/ Len(events) = 1 /\ events[1].kind = "got_ip"
    /\ radio = "down" =>
          \/ Len(events) = 1 /\ events[1].kind \in {"start", "disconnected"}
          \/ /\ Len(events) = 2
             /\ events[1].kind = "got_ip"
             /\ events[2].kind = "disconnected"
          \/ Len(events) = 0 /\ "fail" \in bits
    /\ radio = "off" <=> app = "boot"

\* The bits against the driver, the retry counter and the address.
BitsMatch ==
    /\ "fail" \in bits => radio = "down" /\ Len(events) = 0
    /\ "fail" \notin bits => retries = disconnects
    /\ app = "running" => bits # {}
    /\ "connected" \in bits \/ handler = "got_ip" => server_ip # AnyHost

Inv == TypeOK /\ QueueMatchesRadio /\ BitsMatch

\* What posting an event to the queue does to it.
LEMMA PostFacts ==
    ASSUME NEW q \in Seq(Event), NEW e \in Event
    PROVE  /\ Append(q, e) \in Seq(Event)
           /\ Len(Append(q, e)) = Len(q) + 1
           /\ Append(q, e)[Len(q) + 1] = e
           /\ \A i \in 1..Len(q) : Append(q, e)[i] = q[i]
OBVIOUS

\* What taking the first event does to it.
LEMMA TakeFacts ==
    ASSUME NEW q \in Seq(Event), q # <<>>
    PROVE  /\ Head(q) \in Event
           /\ Head(q) = q[1]
           /\ Len(q) >= 1
           /\ Tail(q) \in Seq(Event)
           /\ Len(Tail(q)) = Len(q) - 1
           /\ \A i \in 1..(Len(q) - 1) : Tail(q)[i] = q[i + 1]
OBVIOUS

\* The driver posts events.
LEMMA EventFacts ==
    /\ [kind |-> "start"] \in Event
    /\ [kind |-> "disconnected"] \in Event
    /\ \A g \in Gateways : [kind |-> "got_ip", gateway |-> g] \in Event
    /\ \A e \in Event : e.kind = "got_ip" => e.gateway \in Gateways
    /\ \A e \in Event : e.kind \in {"start", "disconnected", "got_ip"}
BY DEF Event

\* The station is off, the queue and the event group are empty.
LEMMA InitInv == Init => Inv
BY StationAssumption
   DEF Init, Inv, TypeOK, Radio, QueueMatchesRadio, BitsMatch

\* The application and the driver keep the queue in step with the radio.
LEMMA PostStep ==
    ASSUME Inv, Application \/ Driver
    PROVE  Inv'
<1>0. events \in Seq(Event) /\ Len(events) \in Nat
  BY DEF Inv, TypeOK
<1>1. CASE StartStation
  <2>1. events' \in Seq(Event) /\ Len(events') = 1 /\ events'[1].kind = "start"
    BY <1>0, <1>1, EventFacts, PostFacts
       DEF Inv, QueueMatchesRadio, StartStation, Post
  <2> QED
    BY <1>1, <2>1
       DEF Inv, TypeOK, Radio, QueueMatchesRadio, BitsMatch, StartStation
<1>2. CASE LaunchTask
  BY <1>2 DEF Inv, TypeOK, Radio, QueueMatchesRadio, BitsMatch, LaunchTask
<1>3. CASE ConnectFails
  <2>1. events' \in Seq(Event) /\ Len(events') = 1
        /\ events'[1].kind = "disconnected"
    BY <1>0, <1>3, EventFacts, PostFacts
       DEF Inv, QueueMatchesRadio, ConnectFails, Post
  <2> QED
    BY <1>3, <2>1
       DEF Inv, TypeOK, Radio, QueueMatchesRadio, BitsMatch, ConnectFails
<1>4. ASSUME NEW g \in Gateways, Lease(g) PROVE Inv'
  <2>1. events' \in Seq(Event) /\ Len(events') = 1 /\ events'[1].kind = "got_ip"
    BY <1>0, <1>4, EventFacts, PostFacts
       DEF Inv, QueueMatchesRadio, Lease, Post
  <2> QED
    BY <1>4, <2>1
       DEF Inv, TypeOK, Radio, QueueMatchesRadio, BitsMatch, Lease
<1>5. CASE LinkLost
  <2>1. /\ events' \in Seq(Event)
        /\ \/ Len(events') = 1 /\ events'[1].kind = "disconnected"
           \/ /\ Len(events') = 2
              /\ events'[1].kind = "got_ip"
              /\ events'[2].kind = "disconnected"
    BY <1>0, <1>5, EventFacts, PostFacts
       DEF Inv, QueueMatchesRadio, LinkLost, Post
  <2> QED
    BY <1>5, <2>1
       DEF Inv, TypeOK, Radio, QueueMatchesRadio, BitsMatch, LinkLost
<1>6. CASE Associate
  BY <1>6 DEF Inv, TypeOK, Radio, QueueMatchesRadio, BitsMatch, Associate
<1> QED
  BY <1>1, <1>2, <1>3, <1>4, <1>5, <1>6 DEF Application, Driver

\* So do the event handlers.
LEMMA HandlerStep ==
    ASSUME Inv, EventTask
    PROVE  Inv'
<1>0. events \in Seq(Event) /\ Len(events) \in Nat
  BY DEF Inv, TypeOK
<1>1. CASE HandleStart
  <2>1. /\ events' \in Seq(Event)
        /\ Len(events') = 0
        /\ radio = "down"
        /\ "fail" \notin bits
    BY <1>0, <1>1, TakeFacts
       DEF Inv, TypeOK, Radio, QueueMatchesRadio, BitsMatch, HandleStart, Take
  <2> QED
    BY <1>1, <2>1
       DEF Inv, TypeOK, Radio, QueueMatchesRadio, BitsMatch, HandleStart, Connect
<1>2. CASE HandleDisconnected
  <2>1. /\ events' \in Seq(Event)
        /\ Len(events') = 0
        /\ radio = "down"
        /\ "fail" \notin bits
    BY <1>0, <1>2, TakeFacts
       DEF Inv, TypeOK, Radio, QueueMatchesRadio, BitsMatch, HandleDisconnected, Take
  <2>2. CASE MayRetry /\ Connect /\ retries' = retries + 1 /\ UNCHANGED bits
    BY <1>2, <2>1, <2>2, StationAssumption
       DEF Inv, TypeOK, Radio, QueueMatchesRadio, BitsMatch, HandleDisconnected,
           MayRetry, Connect
  <2>3. CASE ~ MayRetry /\ GiveUp /\ UNCHANGED <<radio, retries>>
    BY <1>2, <2>1, <2>3
       DEF Inv, TypeOK, Radio, QueueMatchesRadio, BitsMatch, HandleDisconnected,
           GiveUp
  <2> QED
    BY <1>2, <2>2, <2>3 DEF HandleDisconnected
<1>3. CASE HandleGotIp
  <2>1. /\ events' \in Seq(Event)
        /\ "fail" \notin bits
        /\ Head(events).gateway \in Gateways
        /\ \/ Len(events) = 1 /\ Len(events') = 0 /\ radio = "up"
           \/ /\ Len(events) = 2
              /\ Len(events') = 1
              /\ events'[1].kind = "disconnected"
              /\ radio = "down"
    BY <1>0, <1>3, TakeFacts, EventFacts
       DEF Inv, TypeOK, Radio, QueueMatchesRadio, BitsMatch, HandleGotIp, Take
  <2> QED
    BY <1>3, <2>1, StationAssumption
       DEF Inv, TypeOK, Radio, QueueMatchesRadio, BitsMatch, HandleGotIp, AutoDetect
<1>4. CASE FinishGotIp
  BY <1>4, StationAssumption
     DEF Inv, TypeOK, Radio, QueueMatchesRadio, BitsMatch, FinishGotIp, ClearRetries
<1> QED
  BY <1>1, <1>2, <1>3, <1>4 DEF EventTask

\* The inductive invariant holds of every reachable state.
THEOREM StationInvariant == Spec => []Inv
<1>1. Inv /\ UNCHANGED vars => Inv'
  BY DEF Inv, TypeOK, Radio, QueueMatchesRadio, BitsMatch, vars
<1>2. Inv /\ [Next]_vars => Inv'
  BY <1>1, PostStep, HandlerStep DEF Next
<1> QED
  BY <1>2, InitInv, PTL DEF Spec

\* wifi_event_handler keeps every variable in its range.
THEOREM StationTypes == Spec => []TypeOK
<1>1. Inv => TypeOK
  BY DEF Inv
<1> QED
  BY <1>1, StationInvariant, PTL

\* A station nobody will reconnect has set WIFI_FAIL_BIT.
THEOREM OfflineIsReported == Spec => []NeverSilentlyOffline
<1>1. Inv => NeverSilentlyOffline
  BY DEF Inv, TypeOK, Radio, QueueMatchesRadio, NeverSilentlyOffline
<1> QED
  BY <1>1, StationInvariant, PTL

\* pqc_task, started on WIFI_CONNECTED_BIT, never posts to 0.0.0.0.
THEOREM AddressIsKnown == Spec => []AddressKnown
<1>1. Inv => AddressKnown
  BY DEF Inv, BitsMatch, AddressKnown
<1> QED
  BY <1>1, StationInvariant, PTL

\* WIFI_FAIL_BIT takes MAX_WIFI_RETRIES + 1 disconnections in a row.
THEOREM FailureNeedsRetries == Spec => FailOnlyWhenExhausted
<1>1. Inv /\ [Next]_vars =>
        [bits' # bits /\ "fail" \in bits' \ bits
            => disconnects' = MaxRetries + 1]_vars
  <2> SUFFICES ASSUME Inv, Next, "fail" \in bits', "fail" \notin bits
               PROVE  disconnects' = MaxRetries + 1
    BY DEF vars
  <2>1. CASE UNCHANGED bits
    BY <2>1
  <2>2. CASE FinishGotIp
    BY <2>2 DEF FinishGotIp
  <2>3. CASE HandleDisconnected
    BY <2>3, StationAssumption
       DEF HandleDisconnected, Inv, TypeOK, BitsMatch, MayRetry
  <2>4. UNCHANGED bits \/ FinishGotIp \/ HandleDisconnected
    BY DEF Next, Application, Driver, EventTask, StartStation, LaunchTask,
           ConnectFails, Associate, Lease, LinkLost, HandleStart, HandleGotIp
  <2> QED
    BY <2>1, <2>2, <2>3, <2>4
<1> QED
  BY <1>1, StationInvariant, PTL DEF Spec, FailOnlyWhenExhausted

\* No step of the event task writes server_ip once pqc_task may read it.
THEOREM AddressIsSettled == Spec => AddressSettled
<1>1. Inv /\ [Next]_vars => [app = "running" => UNCHANGED server_ip]_vars
  <2> SUFFICES ASSUME Inv, Next, app = "running"
               PROVE  UNCHANGED server_ip
    BY DEF vars
  <2>1. CASE HandleGotIp
    <3>1. events # <<>> /\ Len(events) # 0
      BY <2>1, TakeFacts DEF HandleGotIp, Take, Inv, TypeOK
    <3>2. "connected" \in bits
      BY <3>1 DEF Inv, TypeOK, BitsMatch
    <3> QED
      BY <2>1, <3>2 DEF HandleGotIp, AutoDetect, Inv, BitsMatch
  <2> QED
    BY <2>1 DEF Next, Application, Driver, EventTask, StartStation, LaunchTask,
                ConnectFails, Associate, Lease, LinkLost, HandleStart,
                HandleDisconnected, FinishGotIp
<1> QED
  BY <1>1, StationInvariant, PTL DEF Spec, AddressSettled
==============================================================================

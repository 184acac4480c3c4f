----------------------------- MODULE WifiStation -----------------------------
(***************************************************************************)
(* firmware/main/main.c: wifi_event_handler and wifi_init_sta.  The Wi-Fi  *)
(* driver posts events to the default event loop; the loop's task (core 0) *)
(* calls the handler for one event at a time; app_main waits on the event  *)
(* group and then starts pqc_task (core 1), which reads server_ip whenever *)
(* it builds a URL.                                                        *)
(***************************************************************************)
EXTENDS Naturals, Sequences

CONSTANTS
    MaxRetries,   \* MAX_WIFI_RETRIES (10)
    Gateways,     \* addresses DHCP may name as gateway
    AnyHost,      \* "0.0.0.0": use the gateway
    ServerHost    \* SERVER_HOST of wifi_config.h

ASSUME StationAssumption ==
    /\ MaxRetries \in Nat
    /\ AnyHost \notin Gateways

VARIABLES
    radio,        \* the driver: one of Radio
    events,       \* the default event loop's queue
    handler,      \* the GOT_IP handler may be half way through
    retries,      \* wifi_retry_count
    bits,         \* wifi_event_group
    server_ip,
    app,          \* app_main: "boot", "waiting", or "running" pqc_task
    disconnects   \* history: DISCONNECTED events handled since the last GOT_IP

\* "joined": associated with the access point, without an address yet.
Radio == {"off", "down", "connecting", "joined", "up"}

vars == <<radio, events, handler, retries, bits, server_ip, app, disconnects>>

Event == [kind : {"start", "disconnected"}]
            \cup [kind : {"got_ip"}, gateway : Gateways]

Init ==
    /\ radio = "off"
    /\ events = <<>>
    /\ handler = "idle"
    /\ retries = 0
    /\ bits = {}
    /\ server_ip = ServerHost
    /\ app = "boot"
    /\ disconnects = 0

Post(e) == events' = Append(events, e)

------------------------------------------------------------------------------
(* app_main *)

\* wifi_init_sta up to the wait: esp_wifi_start posts STA_START.
StartStation ==
    /\ app = "boot"
    /\ app' = "waiting"
    /\ radio' = "down"
    /\ Post([kind |-> "start"])
    /\ UNCHANGED <<handler, retries, bits, server_ip, disconnects>>

\* xEventGroupWaitBits returns on either bit and clears none; either way
\* pqc_task is started.
LaunchTask ==
    /\ app = "waiting"
    /\ bits # {}
    /\ app' = "running"
    /\ UNCHANGED <<radio, events, handler, retries, bits, server_ip,
                   disconnects>>

------------------------------------------------------------------------------
(* The driver: not in this repository, modelled from the events it posts *)

\* The access point is missing or refuses.
ConnectFails ==
    /\ radio = "connecting"
    /\ radio' = "down"
    /\ Post([kind |-> "disconnected"])
    /\ UNCHANGED <<handler, retries, bits, server_ip, app, disconnects>>

\* The access point lets the station in.  The handler has no branch for
\* that event, and DHCP may never answer.
Associate ==
    /\ radio = "connecting"
    /\ radio' = "joined"
    /\ UNCHANGED <<events, handler, retries, bits, server_ip, app,
                   disconnects>>

\* DHCP answers.
Lease(g) ==
    /\ radio = "joined"
    /\ radio' = "up"
    /\ Post([kind |-> "got_ip", gateway |-> g])
    /\ UNCHANGED <<handler, retries, bits, server_ip, app, disconnects>>

LinkLost ==
    /\ radio \in {"joined", "up"}
    /\ radio' = "down"
    /\ Post([kind |-> "disconnected"])
    /\ UNCHANGED <<handler, retries, bits, server_ip, app, disconnects>>

------------------------------------------------------------------------------
(* wifi_event_handler *)

\* The event task takes the next event when the last call has returned.
Take(kind) ==
    /\ handler = "idle"
    /\ events # <<>>
    /\ Head(events).kind = kind
    /\ events' = Tail(events)

\* esp_wifi_connect()
Connect == radio' = "connecting"

HandleStart ==
    /\ Take("start")
    /\ Connect
    /\ UNCHANGED <<handler, retries, bits, server_ip, app, disconnects>>

\* A bug: one retry too many.
MayRetryOnceMore == retries <= MaxRetries

MayRetry == retries < MaxRetries

\* A bug: giving up is logged and nothing else.
GiveUpSilently == UNCHANGED bits

GiveUp == bits' = bits \cup {"fail"}

HandleDisconnected ==
    /\ Take("disconnected")
    /\ disconnects' = disconnects + 1
    /\ \/ /\ MayRetry
          /\ Connect
          /\ retries' = retries + 1
          /\ UNCHANGED bits
       \/ /\ ~ MayRetry
          /\ GiveUp
          /\ UNCHANGED <<radio, retries>>
    /\ UNCHANGED <<handler, server_ip, app>>

\* if (strcmp(server_ip, "0.0.0.0") == 0).
\* A bug: the gateway of every new lease is taken.
AutoDetectAlways == TRUE

\* A bug: strcmp's result is taken for "equal".
AutoDetectInverted == server_ip # AnyHost

AutoDetect == server_ip = AnyHost

\* The GOT_IP branch up to the snprintf into server_ip.
HandleGotIp ==
    /\ Take("got_ip")
    /\ server_ip' = IF AutoDetect THEN Head(events).gateway ELSE server_ip
    /\ handler' = "got_ip"
    /\ UNCHANGED <<radio, retries, bits, app, disconnects>>

\* wifi_retry_count = 0.
\* A bug: the count is kept over a successful connection.
ClearRetriesForgotten == UNCHANGED retries

ClearRetries == retries' = 0

\* The rest of the branch.
FinishGotIp ==
    /\ handler = "got_ip"
    /\ handler' = "idle"
    /\ ClearRetries
    /\ disconnects' = 0
    /\ bits' = bits \cup {"connected"}
    /\ UNCHANGED <<radio, events, server_ip, app>>

------------------------------------------------------------------------------
Application == StartStation \/ LaunchTask

Driver ==
    \/ ConnectFails
    \/ Associate
    \/ \E g \in Gateways : Lease(g)
    \/ LinkLost

EventTask ==
    HandleStart \/ HandleDisconnected \/ HandleGotIp \/ FinishGotIp

Next == Application \/ Driver \/ EventTask

Spec == Init /\ [][Next]_vars

(***************************************************************************)
(* The tasks are scheduled, and an attempt to join ends one way or the     *)
(* other: the driver's authentication and association time out.  Neither a *)
(* DHCP answer nor a lost link is promised.                                *)
(***************************************************************************)
FairSpec ==
    /\ Spec
    /\ WF_vars(Application)
    /\ WF_vars(EventTask)
    /\ WF_vars(ConnectFails \/ Associate)

------------------------------------------------------------------------------
TypeOK ==
    /\ radio \in Radio
    /\ events \in Seq(Event)
    /\ handler \in {"idle", "got_ip"}
    /\ retries \in 0..MaxRetries
    /\ bits \subseteq {"connected", "fail"}
    /\ server_ip \in Gateways \cup {ServerHost}
    /\ app \in {"boot", "waiting", "running"}
    /\ disconnects \in Nat

(***************************************************************************)
(* A station that is down for good says so: with no attempt under way and  *)
(* no event left to start one, WIFI_FAIL_BIT is set (both branches of the  *)
(* DISCONNECTED handler).                                                  *)
(***************************************************************************)
NeverSilentlyOffline ==
    radio = "down" /\ events = <<>> => "fail" \in bits

(***************************************************************************)
(* WIFI_FAIL_BIT is raised only after MAX_WIFI_RETRIES + 1 disconnections  *)
(* in a row, however often the link came and went before (the reset of     *)
(* wifi_retry_count in the GOT_IP branch).                                 *)
(***************************************************************************)
FailOnlyWhenExhausted ==
    [][bits' # bits /\ "fail" \in bits' \ bits
         => disconnects' = MaxRetries + 1]_vars

(***************************************************************************)
(* The event task never rewrites server_ip while pqc_task, on the other    *)
(* core and without a lock, may be reading it: the address is settled      *)
(* before the bit that starts the task (GOT_IP branch, order of snprintf   *)
(* and xEventGroupSetBits).                                                *)
(***************************************************************************)
AddressSettled == [][app = "running" => UNCHANGED server_ip]_vars

(***************************************************************************)
(* The task that saw WIFI_CONNECTED_BIT does not run with 0.0.0.0.         *)
(***************************************************************************)
AddressKnown ==
    app = "running" /\ "connected" \in bits => server_ip # AnyHost

(***************************************************************************)
(* app_main, which waits without a timeout (portMAX_DELAY), is released by *)
(* one of the two bits whatever access points do, with one exception: it   *)
(* waits for ever when the station stays associated and DHCP never         *)
(* answers, for then no event comes that the handler acts on.              *)
(***************************************************************************)
LaunchedUnlessNoLease == <>(app = "running") \/ <>[](radio = "joined")
==============================================================================

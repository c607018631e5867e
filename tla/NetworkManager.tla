--------------------------- MODULE NetworkManager ---------------------------
(***************************************************************************)
(* main/network/sx_network_manager.c and                                   *)
(* main/protocols/sx_protocol_manager.c.                                   *)
(*                                                                         *)
(* Every network event (WiFi, Ethernet, AP, periodic check) goes through   *)
(* one bounded queue to one task, network_task, the only writer of         *)
(* s_status and the only caller of the protocol manager.  A poster waits   *)
(* at most 100 ms for room and then drops the event.  Evaluating the       *)
(* network pings without holding the status mutex, so events keep          *)
(* arriving, and the uplink keeps changing, while an evaluation runs.      *)
(***************************************************************************)
EXTENDS Naturals, Sequences

CONSTANTS
  QueueLen,       \* NET_QUEUE_LEN
  Setups,         \* the uplinks NVS may select: "WIFI", "ETH" or "ETH_STATIC"
  TcpChoices,     \* the TCP services NVS may select: {}, {"tcp_server"}, {"tcp_client"}
  MaxChanges      \* bound on the changes of the uplink the environment makes

ASSUME NetworkAssumption ==
  /\ QueueLen \in Nat \ {0}
  /\ Setups \subseteq {"WIFI", "ETH", "ETH_STATIC"}
  /\ TcpChoices \subseteq {{}, {"tcp_server"}, {"tcp_client"}}
  /\ MaxChanges \in Nat

NetStates == {"DOWN", "LOCAL", "EXTERNAL"}

Events == {"BOOT", "WIFI_CONNECTED", "WIFI_DISCONNECTED", "WIFI_GOT_IP",
           "ETH_LINK_UP", "ETH_LINK_DOWN", "ETH_GOT_IP", "ETH_STATIC_IP_READY",
           "AP_STARTED", "AP_STOPPED", "PERIODIC_CHECK"}

VARIABLES
  queue,      \* s_net_queue
  status,     \* s_status
  legacy,     \* is_network_connected, is_intranet_mode, is_wifi_active
  pc,         \* where network_task is
  call,       \* arguments of the protocol manager call it is about to make
  snapshot,   \* copy of s_status the running evaluation works on
  flags,      \* the protocol manager's s_*_started flags
  services,   \* services ordered to run and not ordered to stop since
  setup,      \* "netconn" and the static address in NVS, read at boot
  link,       \* the real uplink: "none", "assoc" (no address) or "ip"
  reach,      \* what answers pings over the uplink: "nothing", "lan" or "wan"
  changes,    \* changes of the uplink so far
  lost,       \* events dropped because the queue was full
  ap,         \* sx_ap_manager: "off" (not yet started), "on" or "closed"
  static      \* the ETH_STATIC_IP_READY notification is still to be posted

taskVars   == <<status, legacy, pc, call, snapshot, flags, services>>
uplinkVars == <<setup, link, reach, changes, ap, static>>
nmVars     == <<queue, taskVars, uplinkVars, lost>>

-----------------------------------------------------------------------------
(* sx_network_manager_post_event: the 100 ms wait ends with room or a drop. *)

\* Bug: the bound of the queue forgotten.
PostUnbounded(e) == queue' = Append(queue, e) /\ UNCHANGED lost

Post(e) ==
  IF Len(queue) < QueueLen
  THEN queue' = Append(queue, e) /\ UNCHANGED lost
  ELSE lost' = lost \cup {e} /\ UNCHANGED queue

NoIp == "---"

Configured == IF setup = "WIFI" THEN "WIFI" ELSE "ETH"

InitStatus ==
  [active_if |-> "NONE", net_state |-> "DOWN", ip |-> NoIp,
   wifi_connected |-> FALSE, wifi_got_ip |-> FALSE,
   eth_got_ip |-> FALSE, eth_static_ip_valid |-> FALSE, ap_on |-> FALSE]

\* sync_legacy_flags: the globals other modules read, and the AP state.
LegacyOf(s) ==
  [connected |-> s.net_state # "DOWN", intranet |-> s.net_state = "LOCAL",
   wifi |-> s.active_if = "WIFI"]

Synced(s) == [s EXCEPT !.ap_on = (ap = "on")]

-----------------------------------------------------------------------------
(* handle_event: the switch under the status mutex.                         *)

WithIp(s) == [s EXCEPT !.ip = "addr"]

\* Bug: a WiFi loss leaves wifi_got_ip set.  Bug: an Ethernet loss clears nothing.
UpdatedKeepsIp(s, e) ==
  CASE e = "BOOT" -> [s EXCEPT !.active_if = Configured]
    [] e = "WIFI_CONNECTED" -> [s EXCEPT !.active_if = "WIFI", !.wifi_connected = TRUE]
    [] e = "WIFI_DISCONNECTED" -> [s EXCEPT !.wifi_connected = FALSE, !.ip = NoIp]
    [] e = "WIFI_GOT_IP" ->
         WithIp([s EXCEPT !.wifi_connected = TRUE, !.wifi_got_ip = TRUE])
    [] e = "ETH_GOT_IP" -> WithIp([s EXCEPT !.active_if = "ETH", !.eth_got_ip = TRUE])
    [] e = "ETH_STATIC_IP_READY" ->
         WithIp([s EXCEPT !.active_if = "ETH", !.eth_static_ip_valid = TRUE])
    [] OTHER -> s

\* The record after the assignments of the event's case; the net_state is
\* set separately because set_network_state reports whether it changed.
Updated(s, e) ==
  CASE e = "BOOT" -> [s EXCEPT !.active_if = Configured, !.ip = NoIp]
    [] e = "WIFI_CONNECTED" ->
         [s EXCEPT !.active_if = "WIFI", !.wifi_connected = TRUE]
    [] e = "WIFI_DISCONNECTED" ->
         [s EXCEPT !.active_if = "WIFI", !.wifi_connected = FALSE,
                   !.wifi_got_ip = FALSE, !.ip = NoIp]
    [] e = "WIFI_GOT_IP" ->
         WithIp([s EXCEPT !.active_if = "WIFI", !.wifi_connected = TRUE,
                          !.wifi_got_ip = TRUE])
    [] e = "ETH_LINK_UP" -> [s EXCEPT !.active_if = "ETH"]
    [] e = "ETH_LINK_DOWN" ->
         [s EXCEPT !.active_if = "ETH", !.eth_got_ip = FALSE,
                   !.ip = IF s.eth_static_ip_valid THEN @ ELSE NoIp]
    [] e = "ETH_GOT_IP" ->
         WithIp([s EXCEPT !.active_if = "ETH", !.eth_got_ip = TRUE])
    [] e = "ETH_STATIC_IP_READY" ->
         WithIp([s EXCEPT !.active_if = "ETH", !.eth_static_ip_valid = TRUE])
    [] OTHER -> s

TakesDown(s, e) ==
  \/ e \in {"BOOT", "WIFI_DISCONNECTED"}
  \/ e = "ETH_LINK_DOWN" /\ ~s.eth_static_ip_valid

\* Bug: the periodic check forgotten.
ShouldEvaluateNoPeriodic(s, e) ==
  \/ e \in {"WIFI_GOT_IP", "ETH_GOT_IP", "ETH_STATIC_IP_READY"}
  \/ e = "ETH_LINK_DOWN" /\ s.eth_static_ip_valid

ShouldEvaluate(s, e) ==
  \/ e \in {"WIFI_GOT_IP", "ETH_GOT_IP", "ETH_STATIC_IP_READY", "PERIODIC_CHECK"}
  \/ e = "ETH_LINK_DOWN" /\ s.eth_static_ip_valid

\* Cases that end without sync_legacy_flags leave the globals as they are.
SyncsLegacy(s, e) == ~ShouldEvaluate(s, e)

HandleEvent ==
  /\ pc = "idle"
  /\ queue # <<>>
  /\ LET e   == Head(queue)
         s   == Updated(status, e)
         new == IF TakesDown(status, e) THEN [s EXCEPT !.net_state = "DOWN"] ELSE s
     IN  /\ queue' = Tail(queue)
         /\ status' = IF SyncsLegacy(status, e) THEN Synced(new) ELSE new
         /\ legacy' = IF SyncsLegacy(status, e) THEN LegacyOf(new) ELSE legacy
         \* BOOT assigns net_state without asking whether it changed.
         /\ IF e # "BOOT" /\ new.net_state # status.net_state
            THEN /\ pc' = "schedule"
                 /\ call' = [old |-> status.net_state, new |-> "DOWN"]
            ELSE /\ pc' = IF ShouldEvaluate(status, e) THEN "evaluate" ELSE "idle"
                 /\ UNCHANGED call
  /\ UNCHANGED <<snapshot, flags, services, uplinkVars, lost>>

-----------------------------------------------------------------------------
(* evaluate_current_state: copy the status, ping unlocked, apply the result. *)

\* Bug: the copy is taken only for the first evaluation.
TakeSnapshotOnce ==
  /\ pc = "evaluate"
  /\ snapshot' = IF snapshot = InitStatus THEN status ELSE snapshot
  /\ pc' = "ping"
  /\ UNCHANGED <<queue, status, legacy, call, flags, services, uplinkVars, lost>>

TakeSnapshot ==
  /\ pc = "evaluate"
  /\ snapshot' = status
  /\ pc' = "ping"
  /\ UNCHANGED <<queue, status, legacy, call, flags, services, uplinkVars, lost>>

GatewayAnswers(s) == s.ip # NoIp /\ link = "ip" /\ reach # "nothing"

InternetState == IF link = "ip" /\ reach = "wan" THEN "EXTERNAL" ELSE "LOCAL"

\* Bug: an address counts as a network, without asking the gateway.
EvaluateWifiNoGateway(s) ==
  IF s.wifi_connected /\ s.wifi_got_ip THEN InternetState ELSE "DOWN"

EvaluateWifi(s) ==
  IF s.wifi_connected /\ s.wifi_got_ip /\ GatewayAnswers(s)
  THEN InternetState ELSE "DOWN"

\* No gateway ping here: an address alone makes the network LOCAL.
EvaluateEth(s) ==
  IF s.eth_got_ip \/ s.eth_static_ip_valid THEN InternetState ELSE "DOWN"

Evaluate(s) ==
  CASE s.active_if = "WIFI" -> EvaluateWifi(s)
    [] s.active_if = "ETH"  -> EvaluateEth(s)
    [] OTHER -> "DOWN"

\* The pings and the name lookup; the uplink may change before the result is used.
Ping ==
  /\ pc = "ping"
  /\ call' = [old |-> status.net_state, new |-> Evaluate(snapshot)]
  /\ pc' = "apply"
  /\ UNCHANGED <<queue, status, legacy, snapshot, flags, services, uplinkVars, lost>>

\* status_matches_snapshot_locked
Matches(s, snap) ==
  \A f \in {"active_if", "wifi_connected", "wifi_got_ip", "eth_got_ip",
            "eth_static_ip_valid", "ip"} : s[f] = snap[f]

ApplyResult ==
  /\ pc = "apply"
  /\ IF Matches(status, snapshot)
     THEN LET new == [status EXCEPT !.net_state = call.new]
          IN  /\ status' = Synced(new)
              /\ legacy' = LegacyOf(new)
              /\ call' = [call EXCEPT !.old = status.net_state]
              /\ pc' = IF call.new # status.net_state \/ call.new # "DOWN"
                       THEN "schedule" ELSE "idle"
     ELSE pc' = "idle" /\ UNCHANGED <<status, legacy, call>>
  /\ UNCHANGED <<queue, snapshot, flags, services, uplinkVars, lost>>

-----------------------------------------------------------------------------
(* sx_protocol_manager_on_network_state.  The pair pm carries the flags and *)
(* the services.  tcp is the TCP service NVS selects when it is read, none   *)
(* if NVS does not open; nvs and started are the outcomes of opening NVS for *)
(* MQTT and of enabling and starting it.                                    *)

InitFlags == [local |-> FALSE, external |-> FALSE, tcp_server |-> FALSE,
              tcp_client |-> FALSE, mqtt |-> FALSE]

\* Bug: started again, from the configuration as it reads now.
StartLocalAgain(pm, tcp) ==
  [flags    |-> [pm.flags EXCEPT !.local = TRUE],
   services |-> pm.services \cup {"udp"} \cup tcp]

StartLocal(pm, tcp) ==
  IF pm.flags.local THEN pm
  ELSE LET fresh == {m \in tcp : ~pm.flags[m]}
       IN  [flags    |-> [pm.flags EXCEPT !.local = TRUE,
                            !.tcp_server = @ \/ "tcp_server" \in fresh,
                            !.tcp_client = @ \/ "tcp_client" \in fresh],
            services |-> pm.services \cup {"udp"} \cup fresh]

StartExternal(pm, nvs, started) ==
  IF pm.flags.external \/ ~nvs THEN pm
  ELSE LET up == pm.flags.mqtt \/ started
       IN  [flags    |-> [pm.flags EXCEPT !.mqtt = up, !.external = up],
            services |-> IF up THEN pm.services \cup {"mqtt"} ELSE pm.services]

\* Bug: leaving EXTERNAL forgets MQTT.
StopExternalForgotten(pm) == pm

StopExternal(pm) ==
  IF ~pm.flags.external /\ ~pm.flags.mqtt THEN pm
  ELSE [flags    |-> [pm.flags EXCEPT !.external = FALSE, !.mqtt = FALSE],
        services |-> pm.services \ {"mqtt"}]

\* Bug: the TCP flags survive a stop.
StopLocalKeepsTcp(pm) ==
  [flags    |-> [pm.flags EXCEPT !.local = FALSE],
   services |-> pm.services \ {"udp", "tcp_server", "tcp_client"}]

StopLocal(pm) ==
  IF ~pm.flags.local /\ ~pm.flags.tcp_server /\ ~pm.flags.tcp_client THEN pm
  ELSE [flags    |-> [pm.flags EXCEPT !.local = FALSE, !.tcp_server = FALSE,
                                      !.tcp_client = FALSE],
        services |-> pm.services \ {"udp", "tcp_server", "tcp_client"}]

OnNetworkState(pm, old, new, tcp, nvs, started) ==
  CASE new = "DOWN" /\ old # "DOWN" -> StopLocal(StopExternal(pm))
    [] new = "LOCAL" /\ old # "EXTERNAL" -> StartLocal(pm, tcp)
    [] new = "LOCAL" /\ old = "EXTERNAL" -> StopExternal(pm)
    [] new = "EXTERNAL" /\ old = "LOCAL" -> StartExternal(pm, nvs, started)
    [] new = "EXTERNAL" /\ old # "LOCAL" ->
         StartExternal(StartLocal(pm, tcp), nvs, started)
    [] OTHER -> pm

Schedule ==
  /\ pc = "schedule"
  /\ \E tcp \in TcpChoices \cup {{}}, nvs, started \in BOOLEAN :
       LET pm == OnNetworkState([flags |-> flags, services |-> services],
                                call.old, call.new, tcp, nvs, started)
       IN  flags' = pm.flags /\ services' = pm.services
  /\ pc' = "idle"
  /\ UNCHANGED <<queue, status, legacy, call, snapshot, uplinkVars, lost>>

-----------------------------------------------------------------------------
(* The environment: the configured uplink, the timers and the AP manager.   *)

UplinkEvent(up) ==
  IF Configured = "WIFI"
  THEN [assoc |-> "WIFI_CONNECTED", ip |-> "WIFI_GOT_IP",
        none |-> "WIFI_DISCONNECTED"][up]
  ELSE [assoc |-> "ETH_LINK_UP", ip |-> "ETH_GOT_IP", none |-> "ETH_LINK_DOWN"][up]

\* The event loop posts what the driver reports, in order.
LinkChanges ==
  /\ changes < MaxChanges
  /\ changes' = changes + 1
  /\ \E up \in {"none", "assoc", "ip"} :
       /\ \/ link = "none" /\ up = "assoc"
          \/ link = "assoc" /\ up = "ip"
          \/ link # "none" /\ up = "none"
       /\ link' = up
       /\ Post(UplinkEvent(up))
  /\ UNCHANGED <<taskVars, setup, reach, ap, static>>

ReachChanges ==
  /\ changes < MaxChanges
  /\ changes' = changes + 1
  /\ reach' \in {"nothing", "lan", "wan"} \ {reach}
  /\ UNCHANGED <<queue, taskVars, setup, link, ap, static, lost>>

StaticReady ==
  /\ static
  /\ static' = FALSE
  /\ Post("ETH_STATIC_IP_READY")
  /\ UNCHANGED <<taskVars, setup, link, reach, changes, ap>>

\* periodic_timer_callback, request_network_recheck and the old entry points.
PeriodicTimer ==
  /\ Post("PERIODIC_CHECK")
  /\ UNCHANGED <<taskVars, uplinkVars>>

ApChanges ==
  /\ \/ ap = "off" /\ ap' = "on" /\ Post("AP_STARTED")
     \/ ap = "on" /\ ap' = "closed" /\ Post("AP_STOPPED")
  /\ UNCHANGED <<taskVars, setup, link, reach, changes, static>>

NetworkTask == HandleEvent \/ TakeSnapshot \/ Ping \/ ApplyResult \/ Schedule

Environment == LinkChanges \/ ReachChanges \/ StaticReady \/ PeriodicTimer \/ ApChanges

ManagerInit ==
  /\ queue = <<"BOOT">>
  /\ status = InitStatus
  /\ legacy = [connected |-> FALSE, intranet |-> FALSE, wifi |-> FALSE]
  /\ pc = "idle"
  /\ call = [old |-> "DOWN", new |-> "DOWN"]
  /\ snapshot = InitStatus
  /\ flags = InitFlags
  /\ services = {}
  /\ lost = {}

Init ==
  /\ ManagerInit
  /\ setup \in Setups
  /\ link = "none" /\ reach \in {"nothing", "lan", "wan"} /\ changes = 0
  /\ ap = "off" /\ static = (setup = "ETH_STATIC")

Next == NetworkTask \/ Environment

Spec == Init /\ [][Next]_nmVars

\* network_task blocks only on its queue and on finite waits, and the 30 s
\* timer never stops; nothing obliges the uplink to change.
Fairness == WF_nmVars(NetworkTask) /\ WF_nmVars(PeriodicTimer) /\ WF_nmVars(StaticReady)

FairSpec == Spec /\ Fairness

-----------------------------------------------------------------------------
(* Properties                                                               *)

StatusType ==
  [active_if : {"NONE", "WIFI", "ETH"}, net_state : NetStates, ip : {NoIp, "addr"},
   wifi_connected : BOOLEAN, wifi_got_ip : BOOLEAN, eth_got_ip : BOOLEAN,
   eth_static_ip_valid : BOOLEAN, ap_on : BOOLEAN]

\* Every variable has its type and the event queue never exceeds its length.
TypeOK ==
  /\ queue \in Seq(Events) /\ Len(queue) <= QueueLen
  /\ status \in StatusType /\ snapshot \in StatusType
  /\ legacy \in [connected : BOOLEAN, intranet : BOOLEAN, wifi : BOOLEAN]
  /\ pc \in {"idle", "evaluate", "ping", "apply", "schedule"}
  /\ call \in [old : NetStates, new : NetStates]
  /\ flags \in [local : BOOLEAN, external : BOOLEAN, tcp_server : BOOLEAN,
                tcp_client : BOOLEAN, mqtt : BOOLEAN]
  /\ services \in SUBSET {"udp", "tcp_server", "tcp_client", "mqtt"}
  /\ setup \in Setups
  /\ link \in {"none", "assoc", "ip"}
  /\ reach \in {"nothing", "lan", "wan"}
  /\ changes \in 0..MaxChanges
  /\ lost \in SUBSET Events
  /\ ap \in {"off", "on", "closed"}
  /\ static \in BOOLEAN

\* The network state the services were last scheduled for: while the manager
\* is about to call the protocol manager, still the state it is leaving.
scheduled == IF pc = "schedule" THEN call.old ELSE status.net_state

\* Nothing runs in DOWN, UDP runs in LOCAL and EXTERNAL, MQTT only in EXTERNAL,
\* whatever the order of events, drops and failed starts
\* (sx_protocol_manager_on_network_state, sx_protocol_manager.c:146).
ServicesFollowNetwork ==
  /\ scheduled = "DOWN" => services = {}
  /\ scheduled # "DOWN" => "udp" \in services
  /\ "mqtt" \in services => scheduled = "EXTERNAL"

\* The manager's started flags never disagree with what it ordered, so a
\* service is neither started twice nor left running by a skipped stop
\* (the early returns of start_* and stop_*, sx_protocol_manager.c:38, 82, 113, 128).
FlagsMatchServices ==
  /\ flags.local <=> "udp" \in services
  /\ flags.tcp_server <=> "tcp_server" \in services
  /\ flags.tcp_client <=> "tcp_client" \in services
  /\ flags.mqtt <=> "mqtt" \in services
  /\ flags.external <=> flags.mqtt

\* No evaluation is ever applied to a status other than the one it was made
\* from, so the discard branch of evaluate_current_state
\* (sx_network_manager.c:309) never runs and no result is ever thrown away.
EvaluationIsCurrent == pc \in {"ping", "apply"} => Matches(status, snapshot)

LinkEvents == Events \ {"BOOT", "PERIODIC_CHECK", "AP_STARTED", "AP_STOPPED"}

\* A flag of s_status differs from the uplink only while an event that will
\* set it right is still queued.
LagsOnlyByQueue(flag, sets, clears, truth) ==
  /\ (\A i \in DOMAIN queue : queue[i] \notin sets \cup clears) => (status[flag] <=> truth)
  /\ \A i \in DOMAIN queue :
       /\ queue[i] \in sets \cup clears
       /\ \A j \in DOMAIN queue : j > i => queue[j] \notin sets \cup clears
       => (queue[i] \in sets <=> truth)

\* As long as no uplink event has been dropped, the recorded WiFi and Ethernet
\* flags lag behind the uplink exactly by the queued events (handle_event).
StatusLagsOnlyByQueue ==
  lost \cap LinkEvents = {} =>
    IF Configured = "WIFI"
    THEN /\ LagsOnlyByQueue("wifi_connected", {"WIFI_CONNECTED", "WIFI_GOT_IP"},
                            {"WIFI_DISCONNECTED"}, link # "none")
         /\ LagsOnlyByQueue("wifi_got_ip", {"WIFI_GOT_IP"}, {"WIFI_DISCONNECTED"},
                            link = "ip")
    ELSE LagsOnlyByQueue("eth_got_ip", {"ETH_GOT_IP"}, {"ETH_LINK_DOWN"}, link = "ip")

\* The manager and the protocol manager implement the abstract scheduler.
Scheduler == INSTANCE ProtocolScheduler WITH
  LocalServices <- {"udp", "tcp_server", "tcp_client"}, AlwaysLocal <- "udp",
  net <- scheduled, running <- services

\* Every step of the manager is a step of the scheduler or leaves it alone:
\* services change exactly when, and only as, the announced network state does.
ImplementsScheduler == Scheduler!Spec

\* The network state the code should arrive at for the uplink as it is.
Truth ==
  IF Configured = "WIFI"
  THEN IF link = "ip" /\ reach # "nothing" THEN InternetState ELSE "DOWN"
  ELSE IF link = "ip" \/ setup = "ETH_STATIC" THEN InternetState ELSE "DOWN"

\* Once the uplink is stable the manager reaches and keeps the right state,
\* unless an uplink event was dropped: the periodic check re-evaluates only
\* what the recorded flags say (evaluate_current_state).
Converges == <>[](lost \cap LinkEvents = {} => status.net_state = Truth)

\* On WiFi a lost uplink is noticed even when its event was dropped, because
\* every periodic check pings the gateway (evaluate_wifi_state).
WifiLossNoticed ==
  Configured = "WIFI" => <>[](link # "ip" => status.net_state = "DOWN")
=============================================================================

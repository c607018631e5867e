------------------------ MODULE NetworkManager_proofs ------------------------
(* Proofs about NetworkManager, for every queue length, configuration and    *)
(* number of uplink changes.                                                 *)
EXTENDS NetworkManager, SequenceTheorems, TLAPS

-----------------------------------------------------------------------------
(* Lemmas about the operators the actions are built from.                   *)

\* sx_network_manager_post_event keeps the queue within its bound.
LEMMA PostType ==
  ASSUME TypeOK, NEW e \in Events, Post(e)
  PROVE  /\ queue' \in Seq(Events)
         /\ Len(queue') <= QueueLen
         /\ lost' \in SUBSET Events
  BY NetworkAssumption DEF TypeOK, Post

\* Every case of handle_event leaves a well-formed status.
LEMMA UpdatedType ==
  ASSUME NEW s \in StatusType, NEW e \in Events
  PROVE  /\ Updated(s, e) \in StatusType
         /\ Updated(s, e).net_state = s.net_state
  BY DEF StatusType, Updated, WithIp, NoIp, Events, Configured

\* Every evaluation ends in a network state, whatever it read.
LEMMA EvaluateType ==
  ASSUME NEW s
  PROVE  Evaluate(s) \in NetStates
  BY DEF Evaluate, EvaluateWifi, EvaluateEth, InternetState, NetStates

\* A manager record whose flags tell exactly which services are ordered to
\* run, and whose services are those that may run in the state net.
PmType ==
  [flags : [local : BOOLEAN, external : BOOLEAN, tcp_server : BOOLEAN,
            tcp_client : BOOLEAN, mqtt : BOOLEAN],
   services : SUBSET {"udp", "tcp_server", "tcp_client", "mqtt"}]

Honest(pm) ==
  /\ pm \in PmType
  /\ pm.flags.local <=> "udp" \in pm.services
  /\ pm.flags.tcp_server <=> "tcp_server" \in pm.services
  /\ pm.flags.tcp_client <=> "tcp_client" \in pm.services
  /\ pm.flags.mqtt <=> "mqtt" \in pm.services
  /\ pm.flags.external <=> pm.flags.mqtt

Allowed(sv, net) ==
  /\ net = "DOWN" => sv = {}
  /\ net # "DOWN" => "udp" \in sv
  /\ "mqtt" \in sv => net = "EXTERNAL"

\* start_local_protocols: UDP runs afterwards, MQTT is left alone, and nothing
\* changes when the local services were already started.
LEMMA StartLocalHonest ==
  ASSUME NEW pm, Honest(pm), NEW tcp \in TcpChoices \cup {{}}
  PROVE  /\ Honest(StartLocal(pm, tcp))
         /\ "udp" \in StartLocal(pm, tcp).services
         /\ "mqtt" \in StartLocal(pm, tcp).services <=> "mqtt" \in pm.services
         /\ "udp" \in pm.services => StartLocal(pm, tcp) = pm
         /\ pm.services = {} =>
              StartLocal(pm, tcp).services \in SUBSET {"udp", "tcp_server", "tcp_client"}
<1>1. tcp \in {{}, {"tcp_server"}, {"tcp_client"}}
  BY NetworkAssumption
<1> USE DEF Honest, PmType, StartLocal
<1>2. CASE pm.flags.local
  BY <1>2
<1>3. CASE ~pm.flags.local
  <2> DEFINE fresh == {m \in tcp : ~pm.flags[m]}
  <2>1. CASE tcp = {}
    BY <1>3, <2>1
  <2>2. CASE tcp = {"tcp_server"}
    <3>1. fresh = IF pm.flags.tcp_server THEN {} ELSE {"tcp_server"}
      BY <2>2
    <3> QED
      BY <1>3, <2>2, <3>1
  <2>3. CASE tcp = {"tcp_client"}
    <3>1. fresh = IF pm.flags.tcp_client THEN {} ELSE {"tcp_client"}
      BY <2>3
    <3> QED
      BY <1>3, <2>3, <3>1
  <2> QED
    BY <1>1, <2>1, <2>2, <2>3
<1> QED
  BY <1>2, <1>3

\* start_external_protocols adds MQTT or nothing.
LEMMA StartExternalHonest ==
  ASSUME NEW pm, Honest(pm), NEW nvs \in BOOLEAN, NEW ok \in BOOLEAN
  PROVE  /\ Honest(StartExternal(pm, nvs, ok))
         /\ StartExternal(pm, nvs, ok).services \in {pm.services, pm.services \cup {"mqtt"}}
  BY NetworkAssumption DEF Honest, PmType, StartExternal

\* stop_external_protocols removes MQTT and nothing else.
LEMMA StopExternalHonest ==
  ASSUME NEW pm, Honest(pm)
  PROVE  /\ Honest(StopExternal(pm))
         /\ StopExternal(pm).services = pm.services \ {"mqtt"}
  BY DEF Honest, PmType, StopExternal

\* stop_local_protocols leaves at most MQTT.
LEMMA StopLocalHonest ==
  ASSUME NEW pm, Honest(pm)
  PROVE  /\ Honest(StopLocal(pm))
         /\ "udp" \in pm.services => StopLocal(pm).services \in SUBSET {"mqtt"}
         /\ pm.services = {} => StopLocal(pm).services = {}
         /\ "mqtt" \notin pm.services => "mqtt" \notin StopLocal(pm).services
  BY DEF Honest, PmType, StopLocal

\* sx_protocol_manager_on_network_state turns services that fit the old state
\* into services that fit the new one, and every such change is a step of the
\* abstract scheduler or no change at all.
LEMMA OnNetworkStateHonest ==
  ASSUME NEW pm, Honest(pm), NEW old \in NetStates, NEW new \in NetStates,
         Allowed(pm.services, old),
         NEW tcp \in TcpChoices \cup {{}}, NEW nvs \in BOOLEAN, NEW ok \in BOOLEAN
  PROVE  LET pm2 == OnNetworkState(pm, old, new, tcp, nvs, ok)
         IN  Honest(pm2) /\ Allowed(pm2.services, new)
<1> DEFINE lo  == StartLocal(pm, tcp)
           ex  == StartExternal(pm, nvs, ok)
           loex == StartExternal(lo, nvs, ok)
           st  == StopExternal(pm)
           stst == StopLocal(st)
<1> USE DEF NetStates
<1>1. Honest(lo) /\ "udp" \in lo.services
      /\ ("mqtt" \in lo.services <=> "mqtt" \in pm.services)
  BY StartLocalHonest
<1>2. Honest(ex) /\ ex.services \in {pm.services, pm.services \cup {"mqtt"}}
  BY StartExternalHonest
<1>3. Honest(loex) /\ loex.services \in {lo.services, lo.services \cup {"mqtt"}}
  BY <1>1, StartExternalHonest
<1>4. Honest(st) /\ st.services = pm.services \ {"mqtt"}
  BY StopExternalHonest
<1>5. Honest(stst) /\ (old # "DOWN" => stst.services = {})
  BY <1>4, StopLocalHonest DEF Allowed
<1>6. CASE new = "DOWN" /\ old # "DOWN"
  BY <1>5, <1>6 DEF OnNetworkState, Allowed
<1>7. CASE new = "DOWN" /\ old = "DOWN"
  BY <1>7 DEF OnNetworkState, Allowed
<1>8. CASE new = "LOCAL" /\ old # "EXTERNAL"
  BY <1>1, <1>8 DEF OnNetworkState, Allowed
<1>9. CASE new = "LOCAL" /\ old = "EXTERNAL"
  BY <1>4, <1>9 DEF OnNetworkState, Allowed
<1>10. CASE new = "EXTERNAL" /\ old = "LOCAL"
  BY <1>2, <1>10 DEF OnNetworkState, Allowed
<1>11. CASE new = "EXTERNAL" /\ old # "LOCAL"
  BY <1>1, <1>3, <1>11 DEF OnNetworkState, Allowed
<1> QED
  BY <1>6, <1>7, <1>8, <1>9, <1>10, <1>11

-----------------------------------------------------------------------------
(* The inductive invariant.                                                 *)

\* BOOT is handled first, before anything has happened, so its unannounced
\* assignment of DOWN never skips a stop of the services.
BootFirst ==
  \A i \in DOMAIN queue :
    queue[i] = "BOOT" => i = 1 /\ pc = "idle" /\ status.net_state = "DOWN"

\* A pending call announces the state the status already shows.
CallCurrent == pc = "schedule" => call.new = status.net_state

\* Nobody writes the status while network_task pings.
SnapshotCurrent == pc \in {"ping", "apply"} => snapshot = status

Manager == [flags |-> flags, services |-> services]

IInv ==
  /\ TypeOK
  /\ BootFirst
  /\ CallCurrent
  /\ SnapshotCurrent
  /\ Honest(Manager)
  /\ Allowed(services, scheduled)

\* app_main starts the manager with an empty status and a queued BOOT event.
LEMMA InitIInv == Init => IInv
<1> SUFFICES ASSUME Init PROVE IInv
  OBVIOUS
<1> USE NetworkAssumption DEF Init, ManagerInit
<1>1. queue \in Seq(Events) /\ Len(queue) = 1 /\ queue[1] = "BOOT" /\ DOMAIN queue = {1}
  BY DEF Events
<1>2. TypeOK
  BY <1>1 DEF TypeOK, StatusType, InitStatus, InitFlags, NetStates, NoIp
<1>3. BootFirst
  BY <1>1 DEF BootFirst, InitStatus
<1>4. CallCurrent /\ SnapshotCurrent
  BY DEF CallCurrent, SnapshotCurrent
<1>5. Honest(Manager)
  BY DEF Honest, Manager, PmType, InitFlags
<1>6. Allowed(services, scheduled)
  BY DEF Allowed, scheduled, InitStatus
<1> QED
  BY <1>2, <1>3, <1>4, <1>5, <1>6 DEF IInv

\* A step that leaves the task alone and at most appends an event other than
\* BOOT preserves everything that is said about the task.
LEMMA PosterStep ==
  ASSUME IInv, NEW e \in Events \ {"BOOT"}, UNCHANGED taskVars, UNCHANGED setup,
         Post(e) \/ UNCHANGED <<queue, lost>>,
         link' \in {"none", "assoc", "ip"}, reach' \in {"nothing", "lan", "wan"},
         changes' \in 0..MaxChanges, ap' \in {"off", "on", "closed"}, static' \in BOOLEAN
  PROVE  IInv'
<1>1. TypeOK'
  <2>1. queue' \in Seq(Events) /\ Len(queue') <= QueueLen /\ lost' \in SUBSET Events
    BY PostType DEF IInv, TypeOK
  <2> QED
    BY <2>1 DEF IInv, TypeOK, taskVars
<1>2. BootFirst'
  <2>1. CASE UNCHANGED queue
    BY <2>1 DEF IInv, BootFirst, taskVars
  <2>2. CASE queue' = Append(queue, e)
    <3> SUFFICES ASSUME NEW i \in DOMAIN queue', queue'[i] = "BOOT"
                 PROVE  i = 1 /\ pc = "idle" /\ status.net_state = "DOWN"
      BY DEF BootFirst, taskVars
    <3>1. i \in DOMAIN queue /\ queue[i] = "BOOT"
      BY <2>2 DEF IInv, TypeOK
    <3> QED
      BY <3>1 DEF IInv, BootFirst
  <2> QED
    BY <2>1, <2>2 DEF Post
<1>3. CallCurrent' /\ SnapshotCurrent' /\ Honest(Manager)' /\ Allowed(services, scheduled)'
  BY DEF IInv, CallCurrent, SnapshotCurrent, Honest, Manager, PmType, Allowed,
         scheduled, taskVars
<1> QED
  BY <1>1, <1>2, <1>3 DEF IInv

\* The posters of events (the uplink, the timers, the AP) keep the invariant.
LEMMA EnvironmentStep == IInv /\ Environment => IInv'
<1> SUFFICES ASSUME IInv, Environment PROVE IInv'
  OBVIOUS
<1> USE NetworkAssumption
<1>1. CASE LinkChanges
  <2>1. PICK up \in {"none", "assoc", "ip"} : link' = up /\ Post(UplinkEvent(up))
    BY <1>1 DEF LinkChanges
  <2>2. UplinkEvent(up) \in Events \ {"BOOT"}
    BY DEF UplinkEvent, Events
  <2>3. changes' \in 0..MaxChanges
    BY <1>1 DEF LinkChanges, IInv, TypeOK
  <2> QED
    BY <1>1, <2>1, <2>2, <2>3, PosterStep DEF LinkChanges, IInv, TypeOK
<1>2. CASE ReachChanges
  <2>1. changes' \in 0..MaxChanges
    BY <1>2 DEF ReachChanges, IInv, TypeOK
  <2>2. "PERIODIC_CHECK" \in Events \ {"BOOT"}
    BY DEF Events
  <2> QED
    BY <1>2, <2>1, <2>2, PosterStep DEF ReachChanges, IInv, TypeOK
<1>3. CASE StaticReady
  BY <1>3, PosterStep DEF StaticReady, IInv, TypeOK, Events
<1>4. CASE PeriodicTimer
  BY <1>4, PosterStep DEF PeriodicTimer, IInv, TypeOK, Events, uplinkVars
<1>5. CASE ApChanges
  <2>1. PICK e \in {"AP_STARTED", "AP_STOPPED"} : Post(e)
    BY <1>5 DEF ApChanges
  <2>2. e \in Events \ {"BOOT"}
    BY DEF Events
  <2>3. ap' \in {"off", "on", "closed"}
    BY <1>5 DEF ApChanges
  <2> QED
    BY <1>5, <2>1, <2>2, <2>3, PosterStep DEF ApChanges, IInv, TypeOK
<1> QED
  BY <1>1, <1>2, <1>3, <1>4, <1>5 DEF Environment

\* The event taken from the queue, and what remains.
LEMMA HeadTail ==
  ASSUME TypeOK, BootFirst, queue # <<>>
  PROVE  /\ Head(queue) \in Events
         /\ Head(queue) = "BOOT" => status.net_state = "DOWN"
         /\ Tail(queue) \in Seq(Events)
         /\ Len(Tail(queue)) <= QueueLen
         /\ \A i \in DOMAIN Tail(queue) : Tail(queue)[i] # "BOOT"
<1>1. /\ Len(queue) >= 1
      /\ Tail(queue) \in Seq(Events) /\ Len(Tail(queue)) = Len(queue) - 1
      /\ \A i \in 1..Len(Tail(queue)) : Tail(queue)[i] = queue[i + 1]
      /\ Head(queue) = queue[1] /\ queue[1] \in Events
  BY HeadTailProperties DEF TypeOK
<1>2. ASSUME NEW i \in DOMAIN Tail(queue)
      PROVE  Tail(queue)[i] # "BOOT"
  <2>1. i \in 1..Len(Tail(queue))
    BY <1>1
  <2>2. i + 1 \in DOMAIN queue /\ i + 1 # 1
    BY <1>1, <2>1 DEF TypeOK
  <2> QED
    BY <1>1, <2>1, <2>2 DEF BootFirst
<1>3. Len(Tail(queue)) <= QueueLen
  BY <1>1, NetworkAssumption DEF TypeOK
<1>4. 1 \in DOMAIN queue
  BY <1>1 DEF TypeOK
<1> QED
  BY <1>1, <1>2, <1>3, <1>4 DEF BootFirst

\* handle_event keeps the invariant: it announces a state change or none.
LEMMA HandleEventStep == IInv /\ HandleEvent => IInv'
<1> SUFFICES ASSUME IInv, HandleEvent PROVE IInv'
  OBVIOUS
<1> USE NetworkAssumption
<1> DEFINE e   == Head(queue)
           s   == Updated(status, e)
           new == IF TakesDown(status, e) THEN [s EXCEPT !.net_state = "DOWN"] ELSE s
<1>1. e \in Events /\ (e = "BOOT" => status.net_state = "DOWN")
      /\ queue' = Tail(queue) /\ queue' \in Seq(Events) /\ Len(queue') <= QueueLen
      /\ \A i \in DOMAIN queue' : queue'[i] # "BOOT"
  BY HeadTail DEF IInv, HandleEvent
<1>2. s \in StatusType /\ s.net_state = status.net_state
  BY <1>1, UpdatedType DEF IInv, TypeOK
<1>3. new \in StatusType /\ Synced(new) \in StatusType
      /\ new.net_state = (IF TakesDown(status, e) THEN "DOWN" ELSE status.net_state)
      /\ Synced(new).net_state = new.net_state
  BY <1>2 DEF StatusType, NetStates, Synced
<1>4. status' \in StatusType /\ status'.net_state = new.net_state
  BY <1>3 DEF HandleEvent
<1>5. legacy' \in [connected : BOOLEAN, intranet : BOOLEAN, wifi : BOOLEAN]
  BY DEF HandleEvent, LegacyOf, IInv, TypeOK
<1>6. pc = "idle" /\ scheduled = status.net_state
  BY DEF HandleEvent, scheduled
<1>7. UNCHANGED <<snapshot, flags, services, uplinkVars, lost>>
  BY DEF HandleEvent
<1>8. CASE e # "BOOT" /\ new.net_state # status.net_state
  <2>1. pc' = "schedule" /\ call' = [old |-> status.net_state, new |-> "DOWN"]
    BY <1>8 DEF HandleEvent
  <2>2. new.net_state = "DOWN"
    BY <1>3, <1>8
  <2>3. TypeOK'
    BY <1>1, <1>4, <1>5, <1>7, <2>1 DEF IInv, TypeOK, uplinkVars, NetStates, StatusType
  <2>4. scheduled' = status.net_state
    BY <2>1 DEF scheduled
  <2> QED
    BY <1>1, <1>4, <1>6, <1>7, <2>1, <2>2, <2>3, <2>4
    DEF IInv, BootFirst, CallCurrent, SnapshotCurrent, Manager
<1>9. CASE ~(e # "BOOT" /\ new.net_state # status.net_state)
  <2>1. pc' \in {"evaluate", "idle"} /\ UNCHANGED call
    BY <1>9 DEF HandleEvent
  <2>2. new.net_state = status.net_state
    BY <1>1, <1>3, <1>9
  <2>3. TypeOK'
    BY <1>1, <1>4, <1>5, <1>7, <2>1 DEF IInv, TypeOK, uplinkVars
  <2>4. scheduled' = scheduled
    BY <1>4, <1>6, <2>1, <2>2 DEF scheduled
  <2> QED
    BY <1>1, <1>7, <2>1, <2>3, <2>4
    DEF IInv, BootFirst, CallCurrent, SnapshotCurrent, Manager
<1> QED
  BY <1>8, <1>9

\* Copying the status and pinging keep the invariant.
LEMMA EvaluationStep == IInv /\ (TakeSnapshot \/ Ping) => IInv'
<1> SUFFICES ASSUME IInv, TakeSnapshot \/ Ping PROVE IInv'
  OBVIOUS
<1>1. CASE TakeSnapshot
  <2>1. TypeOK' /\ scheduled' = scheduled
    BY <1>1 DEF IInv, TypeOK, TakeSnapshot, uplinkVars, scheduled
  <2> QED
    BY <1>1, <2>1 DEF IInv, BootFirst, CallCurrent, SnapshotCurrent, Manager, TakeSnapshot
<1>2. CASE Ping
  <2>1. call' \in [old : NetStates, new : NetStates]
    BY <1>2, EvaluateType DEF Ping, IInv, TypeOK, StatusType
  <2>2. TypeOK' /\ scheduled' = scheduled
    BY <1>2, <2>1 DEF IInv, TypeOK, Ping, uplinkVars, scheduled
  <2> QED
    BY <1>2, <2>2 DEF IInv, BootFirst, CallCurrent, SnapshotCurrent, Manager, Ping
<1> QED
  BY <1>1, <1>2

\* Applying an evaluation keeps the invariant; the discard branch is dead.
LEMMA ApplyResultStep == IInv /\ ApplyResult => IInv'
<1> SUFFICES ASSUME IInv, ApplyResult PROVE IInv'
  OBVIOUS
<1> DEFINE new == [status EXCEPT !.net_state = call.new]
<1>1. pc = "apply" /\ Matches(status, snapshot)
  BY DEF ApplyResult, IInv, SnapshotCurrent, Matches
<1>2. Synced(new) \in StatusType /\ Synced(new).net_state = call.new
  BY DEF IInv, TypeOK, StatusType, Synced
<1>3. /\ status' = Synced(new)
      /\ legacy' = LegacyOf(new)
      /\ call' = [call EXCEPT !.old = status.net_state]
      /\ pc' = IF call.new # status.net_state \/ call.new # "DOWN"
               THEN "schedule" ELSE "idle"
      /\ UNCHANGED <<queue, snapshot, flags, services, uplinkVars, lost>>
  BY <1>1 DEF ApplyResult
<1>4. call'.new = call.new /\ call'.old = status.net_state
      /\ call' \in [old : NetStates, new : NetStates]
  BY <1>3 DEF IInv, TypeOK, StatusType
<1>5. TypeOK'
  BY <1>2, <1>3, <1>4 DEF IInv, TypeOK, LegacyOf, uplinkVars
<1>6. scheduled = status.net_state /\ scheduled' = status.net_state
  BY <1>1, <1>2, <1>3, <1>4 DEF scheduled
<1>7. BootFirst'
  BY <1>1, <1>3 DEF IInv, BootFirst
<1> QED
  BY <1>2, <1>3, <1>4, <1>5, <1>6, <1>7
  DEF IInv, CallCurrent, SnapshotCurrent, Manager

\* A call of the protocol manager keeps the invariant.
LEMMA ScheduleStep == IInv /\ Schedule => IInv'
<1> SUFFICES ASSUME IInv, Schedule PROVE IInv'
  OBVIOUS
<1>1. PICK tcp \in TcpChoices \cup {{}}, nvs \in BOOLEAN, ok \in BOOLEAN :
        LET pm == OnNetworkState(Manager, call.old, call.new, tcp, nvs, ok)
        IN  flags' = pm.flags /\ services' = pm.services
  BY DEF Schedule, Manager
<1> DEFINE pm == OnNetworkState(Manager, call.old, call.new, tcp, nvs, ok)
<1>2. pc = "schedule" /\ scheduled = call.old /\ call.new = status.net_state
      /\ call.old \in NetStates /\ call.new \in NetStates
  BY DEF IInv, Schedule, CallCurrent, scheduled, TypeOK
<1>3. Honest(pm) /\ Allowed(pm.services, call.new)
  <2>1. Honest(Manager) /\ Allowed(Manager.services, call.old)
    BY <1>2 DEF IInv, Manager
  <2> QED
    BY <1>2, <2>1, OnNetworkStateHonest
<1>4. Manager' = [flags |-> pm.flags, services |-> pm.services]
  BY <1>1 DEF Manager
<1>5. pc' = "idle" /\ UNCHANGED <<queue, status, legacy, call, snapshot, uplinkVars, lost>>
  BY DEF Schedule
<1>6. Honest(Manager)'
  BY <1>3, <1>4 DEF Honest, PmType, Manager
<1>7. Allowed(services, scheduled)'
  BY <1>1, <1>2, <1>3, <1>5 DEF scheduled
<1>8. TypeOK'
  BY <1>5, <1>6 DEF IInv, TypeOK, Honest, PmType, Manager, uplinkVars
<1> QED
  BY <1>2, <1>5, <1>6, <1>7, <1>8 DEF IInv, BootFirst, CallCurrent, SnapshotCurrent

\* IInv is inductive.
THEOREM Inductive == Spec => []IInv
<1>1. IInv /\ [Next]_nmVars => IInv'
  <2>1. IInv /\ NetworkTask => IInv'
    BY HandleEventStep, EvaluationStep, ApplyResultStep, ScheduleStep DEF NetworkTask
  <2>2. IInv /\ UNCHANGED nmVars => IInv'
    BY DEF nmVars, taskVars, uplinkVars, IInv, TypeOK, BootFirst, CallCurrent,
           SnapshotCurrent, Manager, Honest, Allowed, scheduled, PmType
  <2> QED
    BY <2>1, <2>2, EnvironmentStep DEF Next
<1> QED
  BY InitIInv, <1>1, PTL DEF Spec

\* The state of the network manager is well formed and its queue bounded.
THEOREM TypeCorrect == Spec => []TypeOK
<1>1. IInv => TypeOK
  BY DEF IInv
<1> QED
  BY Inductive, <1>1, PTL

\* Services and network state agree, whatever is posted, dropped or delayed.
THEOREM ServicesCorrect == Spec => []ServicesFollowNetwork
<1>1. IInv => ServicesFollowNetwork
  BY DEF IInv, Allowed, ServicesFollowNetwork
<1> QED
  BY Inductive, <1>1, PTL

\* The started flags never disagree with the orders given.
THEOREM FlagsCorrect == Spec => []FlagsMatchServices
<1>1. IInv => FlagsMatchServices
  BY DEF IInv, Honest, Manager, FlagsMatchServices
<1> QED
  BY Inductive, <1>1, PTL

\* An evaluation is applied to exactly the status it was computed from.
THEOREM EvaluationCorrect == Spec => []EvaluationIsCurrent
<1>1. IInv => EvaluationIsCurrent
  BY DEF IInv, SnapshotCurrent, EvaluationIsCurrent, Matches
<1> QED
  BY Inductive, <1>1, PTL

-----------------------------------------------------------------------------
(* The recorded flags and the uplink.                                       *)

\* What LagsOnlyByQueue says, for a queue q and the flag's value.
Lags(q, value, sets, clears, truth) ==
  /\ (\A i \in DOMAIN q : q[i] \notin sets \cup clears) => (value <=> truth)
  /\ \A i \in DOMAIN q :
       /\ q[i] \in sets \cup clears
       /\ \A j \in DOMAIN q : j > i => q[j] \notin sets \cup clears
       => (q[i] \in sets <=> truth)

\* An event that is posted with what it reports keeps the flag behind by the queue.
LEMMA LagsAppend ==
  ASSUME NEW q \in Seq(Events), NEW e \in Events, NEW value \in BOOLEAN,
         NEW sets, NEW clears, NEW truth \in BOOLEAN, NEW now \in BOOLEAN,
         Lags(q, value, sets, clears, truth),
         IF e \in sets \cup clears THEN e \in sets <=> now ELSE now = truth
  PROVE  Lags(Append(q, e), value, sets, clears, now)
<1> DEFINE a == Append(q, e)
<1>1. /\ DOMAIN q = 1..Len(q) /\ DOMAIN a = 1..(Len(q) + 1) /\ Len(q) \in Nat
      /\ a[Len(q) + 1] = e /\ \A i \in 1..Len(q) : a[i] = q[i]
  BY AppendProperties
<1> HIDE DEF a
<1>2. CASE e \in sets \cup clears
  <2>1. ASSUME NEW i \in DOMAIN a, \A j \in DOMAIN a : j > i => a[j] \notin sets \cup clears
        PROVE  i = Len(q) + 1
    BY <1>1, <1>2, <2>1
  <2> QED
    BY <1>1, <1>2, <2>1 DEF Lags, a
<1>3. CASE e \notin sets \cup clears
  <2>1. ASSUME \A i \in DOMAIN a : a[i] \notin sets \cup clears PROVE value <=> now
    BY <1>1, <1>3, <2>1 DEF Lags
  <2>2. ASSUME NEW i \in DOMAIN a, a[i] \in sets \cup clears,
               \A j \in DOMAIN a : j > i => a[j] \notin sets \cup clears
        PROVE  a[i] \in sets <=> now
    <3>1. i \in DOMAIN q /\ a[i] = q[i]
      BY <1>1, <1>3, <2>2
    <3>2. \A j \in DOMAIN q : j > i => q[j] \notin sets \cup clears
      BY <1>1, <2>2
    <3> QED
      BY <1>3, <2>2, <3>1, <3>2 DEF Lags
  <2> QED
    BY <2>1, <2>2 DEF Lags, a
<1> QED
  BY <1>2, <1>3

\* An event that is handled leaves the flag behind by what remains in the queue.
LEMMA LagsTail ==
  ASSUME NEW q \in Seq(Events), q # <<>>, NEW value \in BOOLEAN, NEW after \in BOOLEAN,
         NEW sets, NEW clears, sets \cap clears = {}, NEW truth \in BOOLEAN,
         Lags(q, value, sets, clears, truth),
         after = IF Head(q) \in sets THEN TRUE
                 ELSE IF Head(q) \in clears THEN FALSE ELSE value
  PROVE  Lags(Tail(q), after, sets, clears, truth)
<1> DEFINE t == Tail(q)
<1>1. /\ DOMAIN q = 1..Len(q) /\ Len(q) \in Nat \ {0} /\ Head(q) = q[1]
      /\ DOMAIN t = 1..(Len(q) - 1) /\ \A i \in 1..(Len(q) - 1) : t[i] = q[i + 1]
  BY HeadTailProperties
<1> HIDE DEF t
<1>2. \A j \in DOMAIN q : j # 1 => j - 1 \in DOMAIN t /\ t[j - 1] = q[j]
  BY <1>1
<1>3. ASSUME \A i \in DOMAIN t : t[i] \notin sets \cup clears PROVE after <=> truth
  <2>1. \A j \in DOMAIN q : j # 1 => q[j] \notin sets \cup clears
    BY <1>2, <1>3
  <2>2. 1 \in DOMAIN q /\ \A j \in DOMAIN q : j > 1 => q[j] \notin sets \cup clears
    BY <1>1, <2>1
  <2>3. CASE q[1] \in sets \cup clears
    BY <1>1, <2>2, <2>3 DEF Lags
  <2>4. CASE q[1] \notin sets \cup clears
    BY <1>1, <2>1, <2>4 DEF Lags
  <2> QED
    BY <2>3, <2>4
<1>4. ASSUME NEW i \in DOMAIN t, t[i] \in sets \cup clears,
             \A j \in DOMAIN t : j > i => t[j] \notin sets \cup clears
      PROVE  t[i] \in sets <=> truth
  <2>1. i + 1 \in DOMAIN q /\ t[i] = q[i + 1]
    BY <1>1
  <2>2. ASSUME NEW j \in DOMAIN q, j > i + 1 PROVE q[j] \notin sets \cup clears
    <3>1. j - 1 \in DOMAIN t /\ j - 1 > i /\ t[j - 1] = q[j]
      BY <1>1, <1>2, <2>2
    <3> QED
      BY <1>4, <3>1
  <2> QED
    BY <1>4, <2>1, <2>2 DEF Lags
<1> QED
  BY <1>3, <1>4 DEF Lags, t

\* The property in terms of Lags.
LagsNow ==
  lost \cap LinkEvents = {} =>
    IF Configured = "WIFI"
    THEN /\ Lags(queue, status.wifi_connected, {"WIFI_CONNECTED", "WIFI_GOT_IP"},
                 {"WIFI_DISCONNECTED"}, link # "none")
         /\ Lags(queue, status.wifi_got_ip, {"WIFI_GOT_IP"}, {"WIFI_DISCONNECTED"},
                 link = "ip")
    ELSE Lags(queue, status.eth_got_ip, {"ETH_GOT_IP"}, {"ETH_LINK_DOWN"}, link = "ip")

\* handle_event moves each flag with the event taken from the queue.
LEMMA LagsHandleEvent == ASSUME IInv, LagsNow, HandleEvent PROVE LagsNow'
<1> DEFINE e == Head(queue)
<1>1. queue \in Seq(Events) /\ queue # <<>> /\ queue' = Tail(queue) /\ e \in Events
      /\ UNCHANGED <<uplinkVars, lost>>
  BY HeadTail DEF IInv, TypeOK, HandleEvent
<1>2. status \in StatusType /\ Updated(status, e) \in StatusType
  BY <1>1, UpdatedType DEF IInv, TypeOK
<1> DEFINE u == Updated(status, e)
<1>3. /\ status'.wifi_connected = u.wifi_connected
      /\ status'.wifi_got_ip = u.wifi_got_ip /\ status'.eth_got_ip = u.eth_got_ip
  BY <1>2 DEF HandleEvent, Synced, StatusType
<1>4. /\ u.wifi_connected = IF e \in {"WIFI_CONNECTED", "WIFI_GOT_IP"} THEN TRUE
                            ELSE IF e \in {"WIFI_DISCONNECTED"} THEN FALSE
                            ELSE status.wifi_connected
      /\ u.wifi_got_ip = IF e \in {"WIFI_GOT_IP"} THEN TRUE
                         ELSE IF e \in {"WIFI_DISCONNECTED"} THEN FALSE
                         ELSE status.wifi_got_ip
      /\ u.eth_got_ip = IF e \in {"ETH_GOT_IP"} THEN TRUE
                        ELSE IF e \in {"ETH_LINK_DOWN"} THEN FALSE
                        ELSE status.eth_got_ip
  <2> USE <1>1, <1>2 DEF Updated, WithIp, StatusType
  <2>1. CASE e = "BOOT"
    BY <2>1
  <2>2. CASE e = "WIFI_CONNECTED"
    BY <2>2
  <2>3. CASE e = "WIFI_DISCONNECTED"
    <3>1. u = [status EXCEPT !.active_if = "WIFI", !.wifi_connected = FALSE,
                             !.wifi_got_ip = FALSE, !.ip = NoIp]
      BY <2>3
    <3> HIDE DEF u
    <3> QED
      BY <2>3, <3>1
  <2>4. CASE e = "WIFI_GOT_IP"
    BY <2>4
  <2>5. CASE e = "ETH_LINK_UP"
    BY <2>5
  <2>6. CASE e = "ETH_LINK_DOWN"
    <3>1. PICK ip : u = [status EXCEPT !.active_if = "ETH", !.eth_got_ip = FALSE, !.ip = ip]
      BY <2>6
    <3> HIDE DEF u
    <3> QED
      BY <2>6, <3>1
  <2>7. CASE e = "ETH_GOT_IP"
    BY <2>7
  <2>8. CASE e \in {"ETH_STATIC_IP_READY", "AP_STARTED", "AP_STOPPED", "PERIODIC_CHECK"}
    BY <2>8
  <2> QED
    BY <2>1, <2>2, <2>3, <2>4, <2>5, <2>6, <2>7, <2>8 DEF Events
<1> HIDE DEF u
<1>5. /\ status.wifi_connected \in BOOLEAN /\ status.wifi_got_ip \in BOOLEAN
      /\ status.eth_got_ip \in BOOLEAN /\ status'.wifi_connected \in BOOLEAN
      /\ status'.wifi_got_ip \in BOOLEAN /\ status'.eth_got_ip \in BOOLEAN
  BY <1>2, <1>3 DEF StatusType, u
<1>6. ASSUME Lags(queue, status.wifi_connected, {"WIFI_CONNECTED", "WIFI_GOT_IP"},
                  {"WIFI_DISCONNECTED"}, link # "none")
      PROVE  Lags(queue', status'.wifi_connected, {"WIFI_CONNECTED", "WIFI_GOT_IP"},
                  {"WIFI_DISCONNECTED"}, link # "none")
  <2> DEFINE sets == {"WIFI_CONNECTED", "WIFI_GOT_IP"}
             clears == {"WIFI_DISCONNECTED"}
             truth == link # "none"
  <2>1. /\ sets \cap clears = {} /\ truth \in BOOLEAN
        /\ status'.wifi_connected = IF Head(queue) \in sets THEN TRUE
                            ELSE IF Head(queue) \in clears THEN FALSE
                            ELSE status.wifi_connected
    BY <1>3, <1>4
  <2>2. Lags(queue, status.wifi_connected, sets, clears, truth)
    BY <1>6
  <2> HIDE DEF sets, clears, truth
  <2>3. Lags(Tail(queue), status'.wifi_connected, sets, clears, truth)
    BY <1>1, <1>5, <2>1, <2>2, LagsTail
  <2> QED
    BY <1>1, <2>3 DEF sets, clears, truth
<1>7. ASSUME Lags(queue, status.wifi_got_ip, {"WIFI_GOT_IP"}, {"WIFI_DISCONNECTED"},
                  link = "ip")
      PROVE  Lags(queue', status'.wifi_got_ip, {"WIFI_GOT_IP"}, {"WIFI_DISCONNECTED"},
                  link = "ip")
  <2> DEFINE sets == {"WIFI_GOT_IP"}
             clears == {"WIFI_DISCONNECTED"}
             truth == link = "ip"
  <2>1. /\ sets \cap clears = {} /\ truth \in BOOLEAN
        /\ status'.wifi_got_ip = IF Head(queue) \in sets THEN TRUE
                            ELSE IF Head(queue) \in clears THEN FALSE
                            ELSE status.wifi_got_ip
    BY <1>3, <1>4
  <2>2. Lags(queue, status.wifi_got_ip, sets, clears, truth)
    BY <1>7
  <2> HIDE DEF sets, clears, truth
  <2>3. Lags(Tail(queue), status'.wifi_got_ip, sets, clears, truth)
    BY <1>1, <1>5, <2>1, <2>2, LagsTail
  <2> QED
    BY <1>1, <2>3 DEF sets, clears, truth
<1>8. ASSUME Lags(queue, status.eth_got_ip, {"ETH_GOT_IP"}, {"ETH_LINK_DOWN"}, link = "ip")
       PROVE  Lags(queue', status'.eth_got_ip, {"ETH_GOT_IP"}, {"ETH_LINK_DOWN"}, link = "ip")
  <2> DEFINE sets == {"ETH_GOT_IP"}
             clears == {"ETH_LINK_DOWN"}
             truth == link = "ip"
  <2>1. /\ sets \cap clears = {} /\ truth \in BOOLEAN
        /\ status'.eth_got_ip = IF Head(queue) \in sets THEN TRUE
                            ELSE IF Head(queue) \in clears THEN FALSE
                            ELSE status.eth_got_ip
    BY <1>3, <1>4
  <2>2. Lags(queue, status.eth_got_ip, sets, clears, truth)
    BY <1>8
  <2> HIDE DEF sets, clears, truth
  <2>3. Lags(Tail(queue), status'.eth_got_ip, sets, clears, truth)
    BY <1>1, <1>5, <2>1, <2>2, LagsTail
  <2> QED
    BY <1>1, <2>3 DEF sets, clears, truth
<1> QED
  BY <1>1, <1>6, <1>7, <1>8 DEF LagsNow, uplinkVars, Configured

\* A post that reports no change of the uplink.
LEMMA LagsPost ==
  ASSUME IInv, LagsNow, NEW e \in (Events \ LinkEvents) \cup {"ETH_STATIC_IP_READY"}, Post(e),
         UNCHANGED <<taskVars, setup, link>>
  PROVE  LagsNow'
<1>1. queue \in Seq(Events) /\ lost \subseteq lost'
  BY DEF IInv, TypeOK, Post
<1>2. /\ status.wifi_connected \in BOOLEAN /\ status.wifi_got_ip \in BOOLEAN
      /\ status.eth_got_ip \in BOOLEAN
  BY DEF IInv, TypeOK, StatusType
<1>3. e \in Events /\ e \notin {"WIFI_CONNECTED", "WIFI_GOT_IP", "WIFI_DISCONNECTED",
                                "ETH_GOT_IP", "ETH_LINK_DOWN"}
  BY DEF Events, LinkEvents
<1>4. CASE UNCHANGED queue
  BY <1>1, <1>4 DEF LagsNow, taskVars, Configured
<1>5. CASE queue' = Append(queue, e)
  <2>1. ASSUME Lags(queue, status.wifi_connected, {"WIFI_CONNECTED", "WIFI_GOT_IP"},
                    {"WIFI_DISCONNECTED"}, link # "none")
        PROVE  Lags(queue', status.wifi_connected, {"WIFI_CONNECTED", "WIFI_GOT_IP"},
                    {"WIFI_DISCONNECTED"}, link # "none")
    <3> DEFINE sets == {"WIFI_CONNECTED", "WIFI_GOT_IP"}
               clears == {"WIFI_DISCONNECTED"}
               truth == link # "none"
    <3>1. e \notin sets \cup clears /\ truth \in BOOLEAN
      BY <1>3
    <3>2. Lags(queue, status.wifi_connected, sets, clears, truth)
      BY <2>1
    <3> HIDE DEF sets, clears, truth
    <3>3. Lags(Append(queue, e), status.wifi_connected, sets, clears, truth)
      BY <1>1, <1>2, <1>3, <3>1, <3>2, LagsAppend
    <3> QED
      BY <1>5, <3>3 DEF sets, clears, truth
  <2>2. ASSUME Lags(queue, status.wifi_got_ip, {"WIFI_GOT_IP"}, {"WIFI_DISCONNECTED"},
                    link = "ip")
        PROVE  Lags(queue', status.wifi_got_ip, {"WIFI_GOT_IP"}, {"WIFI_DISCONNECTED"},
                    link = "ip")
    <3> DEFINE sets == {"WIFI_GOT_IP"}
               clears == {"WIFI_DISCONNECTED"}
               truth == link = "ip"
    <3>1. e \notin sets \cup clears /\ truth \in BOOLEAN
      BY <1>3
    <3>2. Lags(queue, status.wifi_got_ip, sets, clears, truth)
      BY <2>2
    <3> HIDE DEF sets, clears, truth
    <3>3. Lags(Append(queue, e), status.wifi_got_ip, sets, clears, truth)
      BY <1>1, <1>2, <1>3, <3>1, <3>2, LagsAppend
    <3> QED
      BY <1>5, <3>3 DEF sets, clears, truth
  <2>3. ASSUME Lags(queue, status.eth_got_ip, {"ETH_GOT_IP"}, {"ETH_LINK_DOWN"}, link = "ip")
        PROVE  Lags(queue', status.eth_got_ip, {"ETH_GOT_IP"}, {"ETH_LINK_DOWN"}, link = "ip")
    <3> DEFINE sets == {"ETH_GOT_IP"}
               clears == {"ETH_LINK_DOWN"}
               truth == link = "ip"
    <3>1. e \notin sets \cup clears /\ truth \in BOOLEAN
      BY <1>3
    <3>2. Lags(queue, status.eth_got_ip, sets, clears, truth)
      BY <2>3
    <3> HIDE DEF sets, clears, truth
    <3>3. Lags(Append(queue, e), status.eth_got_ip, sets, clears, truth)
      BY <1>1, <1>2, <1>3, <3>1, <3>2, LagsAppend
    <3> QED
      BY <1>5, <3>3 DEF sets, clears, truth
  <2> QED
    BY <1>1, <2>1, <2>2, <2>3 DEF LagsNow, taskVars, Configured
<1> QED
  BY <1>4, <1>5 DEF Post

\* The uplink changes and its event is posted, or is dropped and remembered.
LEMMA LagsLinkChanges == ASSUME IInv, LagsNow, LinkChanges PROVE LagsNow'
<1>1. PICK up \in {"none", "assoc", "ip"} :
        /\ \/ link = "none" /\ up = "assoc"
           \/ link = "assoc" /\ up = "ip"
           \/ link # "none" /\ up = "none"
        /\ link' = up /\ Post(UplinkEvent(up))
  BY DEF LinkChanges
<1> DEFINE e == UplinkEvent(up)
<1>2. UNCHANGED <<status, setup>> /\ queue \in Seq(Events) /\ link \in {"none", "assoc", "ip"}
  BY DEF LinkChanges, taskVars, IInv, TypeOK
<1>3. e \in Events /\ e \in LinkEvents
  BY DEF UplinkEvent, Events, LinkEvents
<1>4. /\ status.wifi_connected \in BOOLEAN /\ status.wifi_got_ip \in BOOLEAN
      /\ status.eth_got_ip \in BOOLEAN
  BY DEF IInv, TypeOK, StatusType
<1>5. CASE lost' = lost \cup {e}
  BY <1>3, <1>5 DEF LagsNow
<1>6. CASE queue' = Append(queue, e) /\ UNCHANGED lost
  <2>1. CASE Configured = "WIFI"
    <3>1. e = IF up = "assoc" THEN "WIFI_CONNECTED"
              ELSE IF up = "ip" THEN "WIFI_GOT_IP" ELSE "WIFI_DISCONNECTED"
      BY <2>1 DEF UplinkEvent
    <3>2. ASSUME Lags(queue, status.wifi_connected, {"WIFI_CONNECTED", "WIFI_GOT_IP"},
                      {"WIFI_DISCONNECTED"}, link # "none")
          PROVE  Lags(queue', status.wifi_connected, {"WIFI_CONNECTED", "WIFI_GOT_IP"},
                      {"WIFI_DISCONNECTED"}, link' # "none")
      BY <1>1, <1>2, <1>3, <1>4, <1>6, <3>1, <3>2, LagsAppend
    <3>3. ASSUME Lags(queue, status.wifi_got_ip, {"WIFI_GOT_IP"}, {"WIFI_DISCONNECTED"},
                      link = "ip")
          PROVE  Lags(queue', status.wifi_got_ip, {"WIFI_GOT_IP"}, {"WIFI_DISCONNECTED"},
                      link' = "ip")
      BY <1>1, <1>2, <1>3, <1>4, <1>6, <3>1, <3>3, LagsAppend
    <3> QED
      BY <1>2, <1>6, <2>1, <3>2, <3>3 DEF LagsNow, Configured
  <2>2. CASE Configured # "WIFI"
    <3>1. e = IF up = "assoc" THEN "ETH_LINK_UP"
              ELSE IF up = "ip" THEN "ETH_GOT_IP" ELSE "ETH_LINK_DOWN"
      BY <2>2 DEF UplinkEvent
    <3>2. ASSUME Lags(queue, status.eth_got_ip, {"ETH_GOT_IP"}, {"ETH_LINK_DOWN"},
                      link = "ip")
          PROVE  Lags(queue', status.eth_got_ip, {"ETH_GOT_IP"}, {"ETH_LINK_DOWN"},
                      link' = "ip")
      BY <1>1, <1>2, <1>3, <1>4, <1>6, <3>1, <3>2, LagsAppend
    <3> QED
      BY <1>2, <1>6, <2>2, <3>2 DEF LagsNow, Configured
  <2> QED
    BY <2>1, <2>2
<1> QED
  BY <1>1, <1>5, <1>6 DEF Post

\* No other step touches the flags, the queue or the link.
LEMMA LagsOthers ==
  ASSUME IInv, LagsNow,
         TakeSnapshot \/ Ping \/ ApplyResult \/ Schedule \/ ReachChanges \/ UNCHANGED nmVars
  PROVE  LagsNow'
<1>1. UNCHANGED <<queue, lost, link, setup>>
  BY DEF TakeSnapshot, Ping, ApplyResult, Schedule, ReachChanges, nmVars, uplinkVars
<1>2. /\ status'.wifi_connected = status.wifi_connected
      /\ status'.wifi_got_ip = status.wifi_got_ip /\ status'.eth_got_ip = status.eth_got_ip
  <2>1. CASE UNCHANGED status
    BY <2>1
  <2>2. CASE status' = Synced([status EXCEPT !.net_state = call.new])
    BY <2>2 DEF Synced, IInv, TypeOK, StatusType
  <2> QED
    BY <2>1, <2>2
    DEF TakeSnapshot, Ping, ApplyResult, Schedule, ReachChanges, nmVars, taskVars
<1> QED
  BY <1>1, <1>2 DEF LagsNow, Configured

\* Unless an uplink event was dropped, the flags of s_status differ from the
\* uplink exactly by the events still queued (handle_event), whatever the length
\* of the queue and however often the uplink changes.
THEOREM FlagsFollowUplink == Spec => []StatusLagsOnlyByQueue
<1>1. Init => LagsNow
  <2> SUFFICES ASSUME Init PROVE LagsNow
    OBVIOUS
  <2>1. queue = <<"BOOT">> /\ DOMAIN queue = {1} /\ queue[1] = "BOOT" /\ link = "none"
        /\ ~status.wifi_connected /\ ~status.wifi_got_ip /\ ~status.eth_got_ip
    BY DEF Init, ManagerInit, InitStatus
  <2> QED
    BY <2>1 DEF LagsNow, Lags
<1>2. IInv /\ LagsNow /\ [Next]_nmVars => LagsNow'
  <2> SUFFICES ASSUME IInv, LagsNow, [Next]_nmVars PROVE LagsNow'
    OBVIOUS
  <2>1. CASE StaticReady
    BY <2>1, LagsPost DEF StaticReady
  <2>2. CASE PeriodicTimer
    BY <2>2, LagsPost DEF PeriodicTimer, uplinkVars, Events, LinkEvents
  <2>3. CASE ApChanges
    <3>1. PICK e \in {"AP_STARTED", "AP_STOPPED"} : Post(e)
      BY <2>3 DEF ApChanges
    <3> QED
      BY <2>3, <3>1, LagsPost DEF ApChanges, Events, LinkEvents
  <2> QED
    BY <2>1, <2>2, <2>3, LagsHandleEvent, LagsLinkChanges, LagsOthers
    DEF Next, NetworkTask, Environment
<1>3. LagsNow => StatusLagsOnlyByQueue
  BY DEF LagsNow, Lags, StatusLagsOnlyByQueue, LagsOnlyByQueue
<1> QED
  BY Inductive, <1>1, <1>2, <1>3, PTL DEF Spec

-----------------------------------------------------------------------------
(* The manager implements the abstract scheduler.                           *)

\* Only the protocol manager call changes the scheduler's view.
LEMMA OthersStutter ==
  ASSUME IInv, HandleEvent \/ TakeSnapshot \/ Ping \/ ApplyResult \/ Environment
  PROVE  scheduled' = scheduled /\ services' = services
<1>1. CASE HandleEvent
  <2> DEFINE e   == Head(queue)
             s   == Updated(status, e)
             new == IF TakesDown(status, e) THEN [s EXCEPT !.net_state = "DOWN"] ELSE s
  <2>1. e \in Events /\ (e = "BOOT" => status.net_state = "DOWN")
    BY <1>1, HeadTail DEF IInv, HandleEvent
  <2>2. s \in StatusType /\ s.net_state = status.net_state
    BY <2>1, UpdatedType DEF IInv, TypeOK
  <2>3. status'.net_state = (IF TakesDown(status, e) THEN "DOWN" ELSE status.net_state)
    BY <1>1, <2>2 DEF HandleEvent, Synced, StatusType
  <2>4. new.net_state = status'.net_state
    BY <2>2, <2>3 DEF StatusType
  <2>5. pc = "idle" /\ scheduled = status.net_state /\ services' = services
    BY <1>1 DEF HandleEvent, scheduled
  <2>6. CASE e # "BOOT" /\ new.net_state # status.net_state
    BY <1>1, <2>5, <2>6 DEF HandleEvent, scheduled
  <2>7. CASE ~(e # "BOOT" /\ new.net_state # status.net_state)
    <3>1. pc' # "schedule"
      BY <1>1, <2>7 DEF HandleEvent
    <3>2. status'.net_state = status.net_state
      BY <2>1, <2>3, <2>4, <2>7
    <3> QED
      BY <2>5, <3>1, <3>2 DEF scheduled
  <2> QED
    BY <2>6, <2>7
<1>2. CASE TakeSnapshot \/ Ping
  BY <1>2 DEF TakeSnapshot, Ping, scheduled
<1>3. CASE ApplyResult
  <2> DEFINE new == [status EXCEPT !.net_state = call.new]
  <2>1. pc = "apply" /\ Matches(status, snapshot)
    BY <1>3 DEF ApplyResult, IInv, SnapshotCurrent, Matches
  <2>2. Synced(new).net_state = call.new
    BY DEF IInv, TypeOK, StatusType, Synced
  <2>3. /\ status' = Synced(new) /\ call'.old = status.net_state
        /\ services' = services
        /\ pc' = IF call.new # status.net_state \/ call.new # "DOWN"
                 THEN "schedule" ELSE "idle"
    BY <1>3, <2>1 DEF ApplyResult, IInv, TypeOK
  <2> QED
    BY <2>1, <2>2, <2>3 DEF scheduled
<1>4. CASE Environment
  BY <1>4 DEF Environment, LinkChanges, ReachChanges, StaticReady, PeriodicTimer,
              ApChanges, taskVars, scheduled
<1> QED
  BY <1>1, <1>2, <1>3, <1>4

\* A protocol manager call is one step of the scheduler, or changes nothing.
LEMMA ScheduleRefines ==
  ASSUME IInv, Schedule
  PROVE  Scheduler!Next \/ (scheduled' = scheduled /\ services' = services)
<1>1. PICK tcp \in TcpChoices \cup {{}}, nvs \in BOOLEAN, ok \in BOOLEAN :
        LET pm == OnNetworkState(Manager, call.old, call.new, tcp, nvs, ok)
        IN  flags' = pm.flags /\ services' = pm.services
  BY DEF Schedule, Manager
<1> DEFINE old == call.old
           new == call.new
           lo  == StartLocal(Manager, tcp)
           loex == StartExternal(lo, nvs, ok)
<1>2. scheduled = old /\ scheduled' = new /\ old \in NetStates /\ new \in NetStates
  BY DEF IInv, Schedule, CallCurrent, scheduled, TypeOK
<1>3. Honest(Manager) /\ Manager.services = services /\ Allowed(services, old)
  BY <1>2 DEF IInv, Manager
<1>5. /\ Honest(lo) /\ "udp" \in lo.services
      /\ "udp" \in services => lo = Manager
      /\ services = {} => lo.services \in SUBSET {"udp", "tcp_server", "tcp_client"}
  BY <1>3, StartLocalHonest
<1>6. loex.services \in {lo.services, lo.services \cup {"mqtt"}}
  BY <1>5, StartExternalHonest
<1>7. StartExternal(Manager, nvs, ok).services \in {services, services \cup {"mqtt"}}
  BY <1>3, StartExternalHonest
<1>8. StopExternal(Manager).services = services \ {"mqtt"} /\ Honest(StopExternal(Manager))
  BY <1>3, StopExternalHonest
<1> USE DEF NetStates, Allowed
<1>9. CASE new = "DOWN"
  <2>1. CASE old = "DOWN"
    BY <1>1, <1>2, <1>3, <1>9, <2>1 DEF OnNetworkState
  <2>2. CASE old # "DOWN"
    <3>1. StopLocal(StopExternal(Manager)).services = {}
      BY <1>3, <1>8, <2>2, StopLocalHonest
    <3>2. services' = {}
      BY <1>1, <1>9, <2>2, <3>1 DEF OnNetworkState
    <3> QED
      BY <1>2, <1>9, <2>2, <3>2 DEF Scheduler!Next, Scheduler!GoDown
  <2> QED
    BY <2>1, <2>2
<1>10. CASE new # "DOWN" /\ old = "DOWN"
  <2>1. services' = (IF new = "LOCAL" THEN lo.services ELSE loex.services)
    BY <1>1, <1>2, <1>10 DEF OnNetworkState
  <2>2. lo.services \in SUBSET {"udp", "tcp_server", "tcp_client"} /\ "udp" \in lo.services
    BY <1>3, <1>5, <1>10
  <2> QED
    BY <1>2, <1>6, <1>10, <2>1, <2>2
    DEF Scheduler!Next, Scheduler!ComeUp, Scheduler!Mqtt
<1>11. CASE new = "LOCAL" /\ old = "EXTERNAL"
  BY <1>1, <1>2, <1>8, <1>11
  DEF OnNetworkState, Scheduler!Next, Scheduler!LoseInternet, Scheduler!Mqtt
<1>12. CASE new = "LOCAL" /\ old = "LOCAL"
  BY <1>1, <1>2, <1>3, <1>5, <1>12 DEF OnNetworkState
<1>13. CASE new = "EXTERNAL" /\ old # "DOWN"
  <2>1. services' \in {services, services \cup {"mqtt"}}
    <3>1. lo = Manager
      BY <1>3, <1>5, <1>13
    <3> QED
      BY <1>1, <1>2, <1>3, <1>6, <1>7, <1>13, <3>1 DEF OnNetworkState
  <2> QED
    BY <1>2, <1>13, <2>1 DEF Scheduler!Next, Scheduler!ReachInternet, Scheduler!Mqtt
<1> QED
  BY <1>2, <1>9, <1>10, <1>11, <1>12, <1>13

\* Seen through the refinement mapping, the manager and the protocol manager
\* behave as the abstract scheduler: local services are chosen once per outage
\* and MQTT follows the EXTERNAL state.
THEOREM Refinement == Spec => ImplementsScheduler
<1>1. Init => Scheduler!Init
  BY DEF Init, ManagerInit, InitStatus, scheduled, Scheduler!Init
<1>2. IInv /\ [Next]_nmVars => [Scheduler!Next]_Scheduler!vars
  <2> SUFFICES ASSUME IInv, [Next]_nmVars
               PROVE  Scheduler!Next \/ (scheduled' = scheduled /\ services' = services)
    BY DEF Scheduler!vars
  <2>1. CASE Schedule
    BY <2>1, ScheduleRefines
  <2>2. CASE HandleEvent \/ TakeSnapshot \/ Ping \/ ApplyResult \/ Environment
    BY <2>2, OthersStutter
  <2>3. CASE UNCHANGED nmVars
    BY <2>3 DEF nmVars, taskVars, scheduled
  <2> QED
    BY <2>1, <2>2, <2>3 DEF Next, NetworkTask
<1> QED
  BY Inductive, <1>1, <1>2, PTL DEF Spec, Scheduler!Spec, ImplementsScheduler
=============================================================================

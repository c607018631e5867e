------------------------- MODULE WifiStation_proofs -------------------------
(* Proofs about WifiStation, for any number of radio changes and any bound on *)
(* the driver events that wait for event_handler.                             *)
EXTENDS WifiStation, SequenceTheorems, TLAPS

DriverEvents == {"START", "CONNECTED", "DISCONNECTED", "GOT_IP"}

-----------------------------------------------------------------------------
(* The inductive invariant.                                                   *)

\* What the driver does when e is the last event that it reported.
Tells(e) ==
  /\ e = "CONNECTED" => drv = "assoc"
  /\ e = "GOT_IP" => drv = "ip"
  /\ e \in {"START", "DISCONNECTED"} => drv \in {"idle", "trying"}
  /\ e = "START" => told = "none"

\* The pending events end with what the driver did last; the station is started
\* only once, before anything else happens.
Pending ==
  /\ events \in Seq(DriverEvents)
  /\ events # <<>> => Tells(events[Len(events)])
  /\ \A k \in 2..Len(events) : events[k] # "START"

\* Nothing runs before wifi_init_sta has started the station.
BeforeStart == boot = "start" => Quiet /\ retry = "none" /\ scan = "idle" /\ told = "none"

IInv == Pending /\ BeforeStart /\ KeepsTrying /\ PauseEndsWithScan /\ TellsTheTruth

\* The initial state satisfies the invariant.
LEMMA InitIInv == Init => IInv
  BY DEF Init, IInv, Pending, BeforeStart, Quiet, KeepsTrying, PauseEndsWithScan, TellsTheTruth

-----------------------------------------------------------------------------
(* The steps.                                                                 *)

\* Handling an event leaves the later ones, none of which is a start.
LEMMA Handled ==
  ASSUME Pending, NEW e, Handles(e)
  PROVE  /\ events' \in Seq(DriverEvents)
         /\ events' # <<>> => events'[Len(events')] = events[Len(events)]
                              /\ events[Len(events)] # "START"
         /\ events' = <<>> => events[Len(events)] = e
         /\ \A k \in 2..Len(events') : events'[k] # "START"
<1>1. events \in Seq(DriverEvents) /\ events # <<>> /\ events' = Tail(events) /\ e = events[1]
  BY DEF Pending, Handles
<1>2. /\ Tail(events) \in Seq(DriverEvents) /\ Len(Tail(events)) = Len(events) - 1
      /\ \A k \in 1..Len(Tail(events)) : Tail(events)[k] = events[k + 1]
      /\ Len(events) \in Nat /\ Len(events) > 0
  BY <1>1
<1>3. \A k \in 1..Len(events') : events'[k] # "START"
  BY <1>1, <1>2 DEF Pending
<1>4. CASE Len(events) = 1
  BY <1>1, <1>2, <1>4
<1>5. CASE Len(events) > 1
  <2>1. Len(events') \in 1..Len(events') /\ events'[Len(events')] = events[Len(events)]
    BY <1>1, <1>2, <1>5
  <2>2. events[Len(events)] # "START"
    BY <1>2, <1>5 DEF Pending
  <2>3. events' # <<>>
    BY <1>1, <1>2, <1>5
  <2>4. \A k \in 2..Len(events') : events'[k] # "START"
    BY <1>1, <1>2, <1>3
  <2> QED
    BY <1>1, <1>2, <2>1, <2>2, <2>3, <2>4
<1> QED
  BY <1>2, <1>4, <1>5

\* The driver's reports keep the invariant: the manager is owed one more event.
LEMMA ReportsStep ==
  ASSUME IInv, NEW e \in DriverEvents, NEW s, Reports(e, s), drv # "idle",
         <<e, s>> \in {<<"CONNECTED", "assoc">>, <<"GOT_IP", "ip">>, <<"DISCONNECTED", "idle">>}
  PROVE  IInv'
<1>1. events \in Seq(DriverEvents) /\ events' = Append(events, e) /\ drv' = s
      /\ UNCHANGED <<flags, bit, boot, retry, scan, told, wifiFlag, history>>
  BY DEF IInv, Pending, Reports
<1>2. /\ events' \in Seq(DriverEvents) /\ Len(events') = Len(events) + 1
      /\ events'[Len(events')] = e /\ events' # <<>>
      /\ \A k \in 1..Len(events) : events'[k] = events[k]
      /\ Len(events) \in Nat
  BY <1>1
<1>3. Pending'
  BY <1>1, <1>2 DEF IInv, Pending, Tells
<1>4. boot # "start"
  BY DEF IInv, BeforeStart, Quiet
<1> QED
  BY <1>1, <1>2, <1>3, <1>4
  DEF IInv, BeforeStart, KeepsTrying, PauseEndsWithScan, TellsTheTruth, Quiet, flags

\* Starting the station, and giving up the wait for it.
LEMMA WifiTaskStep == ASSUME IInv, WifiTask PROVE IInv'
<1>1. CASE StartStation
  <2>1. events = <<>> /\ drv = "idle" /\ told = "none" /\ scan = "idle"
    BY <1>1 DEF StartStation, IInv, BeforeStart, Quiet
  <2>2. events' = <<"START">> /\ drv' = "trying"
    BY <1>1, <2>1 DEF StartStation, Connect
  <2>3. Pending'
    BY <1>1, <2>1, <2>2 DEF StartStation, Pending, Tells, DriverEvents
  <2> QED
    BY <1>1, <2>1, <2>2, <2>3
    DEF StartStation, IInv, BeforeStart, KeepsTrying, PauseEndsWithScan, TellsTheTruth, Quiet
<1>2. CASE BootWaitEnds
  BY <1>2 DEF BootWaitEnds, IInv, Pending, Tells, BeforeStart, KeepsTrying, PauseEndsWithScan,
     TellsTheTruth, Quiet, flags, history
<1>3. CASE ReportTimeout
  BY <1>3 DEF ReportTimeout, IInv, Pending, Tells, BeforeStart, KeepsTrying, PauseEndsWithScan,
     TellsTheTruth, Quiet, flags
<1>4. CASE GiveUp
  BY <1>4 DEF GiveUp, IInv, Pending, Tells, BeforeStart, KeepsTrying, PauseEndsWithScan,
     TellsTheTruth, Quiet
<1> QED
  BY <1>1, <1>2, <1>3, <1>4 DEF WifiTask

\* The event handler keeps the invariant: the last event agrees with the driver.
LEMMA EventHandlerStep == ASSUME IInv, EventHandler PROVE IInv'
<1>1. Pending /\ (events # <<>> => boot # "start" /\ Tells(events[Len(events)]))
  BY DEF IInv, BeforeStart, Quiet, Pending
<1>2. CASE StaStart
  <2>1. Handles("START") /\ boot # "start"
    BY <1>1, <1>2 DEF StaStart, Handles
  <2>2. drv' = (IF drv = "idle" THEN "trying" ELSE drv) /\ connecting'
        /\ UNCHANGED <<paused, boot, retry, scan, told, history>>
    BY <1>2 DEF StaStart, Connect
  <2>3. Pending'
    BY <1>1, <2>1, <2>2, Handled DEF Pending, Tells, Handles
  <2>4. events' = <<>> => drv \in {"idle", "trying"} /\ told = "none"
    BY <1>1, <2>1, Handled DEF Tells, Handles
  <2> QED
    BY <2>1, <2>2, <2>3, <2>4
    DEF IInv, BeforeStart, KeepsTrying, PauseEndsWithScan, TellsTheTruth, Quiet
<1>3. CASE StaConnected
  <2>1. Handles("CONNECTED") /\ boot # "start"
    BY <1>1, <1>3 DEF StaConnected, Handles
  <2>2. told' = "assoc" /\ UNCHANGED <<drv, flags, boot, retry, scan, history>>
    BY <1>3 DEF StaConnected
  <2>3. Pending'
    BY <1>1, <2>1, <2>2, Handled DEF Pending, Tells, Handles
  <2>4. events' = <<>> => drv = "assoc"
    BY <1>1, <2>1, Handled DEF Tells, Handles
  <2> QED
    BY <2>1, <2>2, <2>3, <2>4
    DEF IInv, BeforeStart, KeepsTrying, PauseEndsWithScan, TellsTheTruth, Quiet, flags
<1>4. CASE StaDisconnected
  <2>1. Handles("DISCONNECTED") /\ boot # "start"
    BY <1>1, <1>4 DEF StaDisconnected, Handles
  <2>2. /\ told' = "none" /\ ~paused' /\ connecting'
        /\ drv' \in {drv, IF drv = "idle" THEN "trying" ELSE drv}
        /\ UNCHANGED <<boot, retry, scan, history>>
    BY <1>4 DEF StaDisconnected, Connect
  <2>3. Pending'
    BY <1>1, <2>1, <2>2, Handled DEF Pending, Tells, Handles
  <2>4. events' = <<>> => drv \in {"idle", "trying"}
    BY <1>1, <2>1, Handled DEF Tells, Handles
  <2> QED
    BY <2>1, <2>2, <2>3, <2>4
    DEF IInv, BeforeStart, KeepsTrying, PauseEndsWithScan, TellsTheTruth, Quiet
<1>5. CASE GotIp
  <2>1. Handles("GOT_IP") /\ boot # "start"
    BY <1>1, <1>5 DEF GotIp, Handles
  <2>2. told' = "ip" /\ UNCHANGED <<drv, paused, boot, retry, scan, history>>
    BY <1>5 DEF GotIp
  <2>3. Pending'
    BY <1>1, <2>1, <2>2, Handled DEF Pending, Tells, Handles
  <2>4. events' = <<>> => drv = "ip"
    BY <1>1, <2>1, Handled DEF Tells, Handles
  <2> QED
    BY <2>1, <2>2, <2>3, <2>4
    DEF IInv, BeforeStart, KeepsTrying, PauseEndsWithScan, TellsTheTruth, Quiet
<1>6. CASE GotIpRestarts
  BY <1>6 DEF GotIpRestarts, IInv, Pending, BeforeStart, KeepsTrying, PauseEndsWithScan,
     TellsTheTruth, Quiet
<1> QED
  BY <1>2, <1>3, <1>4, <1>5, <1>6 DEF EventHandler

\* The retry task keeps the invariant, as far as gaveUp does not name its race.
LEMMA RetryStep == ASSUME IInv, RetryTask \/ RetryRepairs PROVE IInv'
<1>1. CASE RetryLooks
  BY <1>1 DEF RetryLooks, IInv, Pending, Tells, BeforeStart, KeepsTrying, PauseEndsWithScan,
     TellsTheTruth, Quiet, flags, history
<1>2. CASE RetryFixes
  BY <1>2 DEF RetryFixes, IInv, Pending, Tells, BeforeStart, KeepsTrying, PauseEndsWithScan,
     TellsTheTruth, Quiet
<1>3. CASE RetryConnects
  BY <1>3 DEF RetryConnects, Connect, IInv, Pending, Tells, BeforeStart, KeepsTrying,
     PauseEndsWithScan, TellsTheTruth, Quiet, flags, history
<1>4. CASE RetryRepairs
  BY <1>4 DEF RetryRepairs, Associated, IInv, Pending, Tells, BeforeStart, KeepsTrying,
     PauseEndsWithScan, TellsTheTruth, Quiet, history
<1> QED
  BY <1>1, <1>2, <1>3, <1>4 DEF RetryTask

\* A scan keeps the invariant: it pauses the reconnect and resumes it.
LEMMA ScanStep == ASSUME IInv, ScanStarts \/ ScanEnds PROVE IInv'
<1>1. CASE ScanStarts
  BY <1>1 DEF ScanStarts, IInv, Pending, Tells, BeforeStart, KeepsTrying, PauseEndsWithScan,
     TellsTheTruth, Quiet, history
<1>2. CASE ScanEnds
  BY <1>2 DEF ScanEnds, Connect, IInv, Pending, Tells, BeforeStart, KeepsTrying,
     PauseEndsWithScan, TellsTheTruth, Quiet, history
<1> QED
  BY <1>1, <1>2

\* What the driver reports, and what happens to the radio, keeps the invariant.
LEMMA DriverStep == ASSUME IInv, Driver \/ Dropped \/ RangeChanges PROVE IInv'
<1>1. CASE Associates
  BY <1>1, ReportsStep DEF Associates, DriverEvents
<1>2. CASE GetsIp
  BY <1>2, ReportsStep DEF GetsIp, DriverEvents
<1>3. CASE OutOfRange \/ Dropped
  BY <1>3, ReportsStep DEF OutOfRange, Dropped, DriverEvents
<1>4. CASE RangeChanges
  BY <1>4 DEF RangeChanges, IInv, Pending, Tells, BeforeStart, KeepsTrying, PauseEndsWithScan,
     TellsTheTruth, Quiet, flags, history
<1> QED
  BY <1>1, <1>2, <1>3, <1>4 DEF Driver

\* Every step keeps the invariant.
LEMMA NextIInv == IInv /\ [Next]_vars => IInv'
<1> SUFFICES ASSUME IInv, [Next]_vars PROVE IInv'
  OBVIOUS
<1>1. CASE UNCHANGED vars
  BY <1>1 DEF vars, IInv, Pending, Tells, BeforeStart, KeepsTrying, PauseEndsWithScan,
     TellsTheTruth, Quiet, flags, history
<1>2. CASE Next
  BY <1>2, WifiTaskStep, EventHandlerStep, RetryStep, ScanStep, DriverStep DEF Next
<1> QED
  BY <1>1, <1>2

\* The invariant holds in every reachable state.
LEMMA Invariance == Spec => []IInv
  BY InitIInv, NextIInv, PTL DEF Spec

-----------------------------------------------------------------------------
(* The theorems.                                                              *)

\* A station with nothing under way is marked for reconnection, unless one of the
\* two unlocked writes has thrown the mark away.
THEOREM RetriesCorrect == Spec => []KeepsTrying
<1>1. IInv => KeepsTrying
  BY DEF IInv
<1> QED
  BY <1>1, Invariance, PTL

\* The reconnect is paused only while a scan runs.
THEOREM PauseCorrect == Spec => []PauseEndsWithScan
<1>1. IInv => PauseEndsWithScan
  BY DEF IInv
<1> QED
  BY <1>1, Invariance, PTL

\* Once event_handler has caught up, the network manager knows whether there is an
\* address, unless the boot timeout was reported after it.
THEOREM ReportsCorrect == Spec => []TellsTheTruth
<1>1. IInv => TellsTheTruth
  BY DEF IInv
<1> QED
  BY <1>1, Invariance, PTL
=============================================================================

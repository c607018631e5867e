----------------------------- MODULE WifiStation -----------------------------
(***************************************************************************)
(* The WiFi station of main/network/sx_init_wifi.c and the scan of         *)
(* main/network/sx_wifi_scan.c.                                            *)
(*                                                                         *)
(* Four tasks share s_wifi_connecting, s_wifi_reconnect_paused and         *)
(* s_first_disconnect_time without a lock: the event loop that runs        *)
(* event_handler, wifi_task (which gives up waiting 30 s after boot),      *)
(* wifi_retry_task and the web server's scan.  Time is abstract: a retry   *)
(* interval, the boot wait and a scan end at any moment.                   *)
(***************************************************************************)
EXTENDS Naturals, Sequences

CONSTANTS
  MaxChanges,   \* bound on changes of the radio conditions
  MaxEvents     \* bound on driver events not yet handled

ASSUME StationAssumption == MaxChanges \in Nat /\ MaxEvents \in Nat \ {0}

VARIABLES
  drv,         \* the driver: "idle", "trying", "assoc" (no address) or "ip"
  events,      \* driver events on their way to event_handler
  inRange,     \* the access point can be reached
  changes,     \* radio changes so far
  connecting,  \* s_wifi_connecting
  paused,      \* s_wifi_reconnect_paused
  first,       \* s_first_disconnect_time # 0
  bit,         \* WIFI_CONNECTED_BIT
  boot,        \* wifi_task in wifi_init_sta
  retry,       \* wifi_retry_task
  scan,        \* wifiSearchValue: "idle" or "scanning"
  told,        \* what the network manager was last told: "none", "assoc", "ip"
  wifiFlag,    \* "wifi_flag" in NVS is "1": restart after the first address
  gaveUp,      \* a step cleared connecting although nothing was under way
  late         \* wifi_task reported a loss after an address was reported

radio   == <<inRange, changes>>
flags   == <<connecting, paused, first>>
history == <<gaveUp, late>>
vars    == <<drv, events, radio, flags, bit, boot, retry, scan, told, wifiFlag, history>>

Associated == drv \in {"assoc", "ip"}

\* esp_wifi_connect: starts an attempt unless one runs or the station is associated.
Connect == drv' = IF drv = "idle" THEN "trying" ELSE drv

Quiet == drv = "idle" /\ events = <<>>

Init ==
  /\ drv = "idle" /\ events = <<>>
  /\ connecting = FALSE /\ paused = FALSE /\ first = FALSE /\ bit = FALSE
  /\ boot = "start" /\ retry = "none" /\ scan = "idle" /\ told = "none"
  /\ gaveUp = FALSE /\ late = FALSE
  /\ inRange \in BOOLEAN /\ changes = 0
  /\ wifiFlag \in BOOLEAN

-----------------------------------------------------------------------------
(* wifi_task: wifi_init_sta, and what it does when 30 s have passed.        *)

StartStation ==
  /\ boot = "start"
  /\ boot' = "wait"
  /\ retry' = "loop"
  /\ events' = Append(events, "START")
  /\ connecting' = TRUE /\ first' = TRUE
  /\ Connect
  /\ UNCHANGED <<radio, paused, bit, scan, told, wifiFlag, history>>

BootWaitEnds ==
  /\ boot = "wait"
  /\ boot' = IF bit THEN "done" ELSE "timed_out"
  /\ UNCHANGED <<drv, events, radio, flags, bit, retry, scan, told, wifiFlag, history>>

ReportTimeout ==
  /\ boot = "timed_out"
  /\ boot' = "clear"
  /\ told' = "none"
  /\ late' = (late \/ told = "ip")
  /\ UNCHANGED <<drv, events, radio, flags, bit, retry, scan, wifiFlag, gaveUp>>

GiveUp ==
  /\ boot = "clear"
  /\ boot' = "done"
  /\ connecting' = FALSE
  /\ gaveUp' = (gaveUp \/ Quiet)
  /\ UNCHANGED <<drv, events, radio, paused, first, bit, retry, scan, told, wifiFlag, late>>

WifiTask == StartStation \/ BootWaitEnds \/ ReportTimeout \/ GiveUp

-----------------------------------------------------------------------------
(* event_handler, run by the default event loop on the oldest driver event. *)

Handles(e) == events # <<>> /\ Head(events) = e /\ events' = Tail(events)

StaStart ==
  /\ Handles("START")
  /\ connecting' = TRUE
  /\ Connect
  /\ UNCHANGED <<radio, paused, first, bit, boot, retry, scan, told, wifiFlag, history>>

StaConnected ==
  /\ Handles("CONNECTED")
  /\ told' = "assoc"
  /\ UNCHANGED <<drv, radio, flags, bit, boot, retry, scan, wifiFlag, history>>

\* Bug: a repeated disconnect leaves the reconnect flag alone.
StaDisconnectedOnce ==
  /\ Handles("DISCONNECTED")
  /\ told' = "none"
  /\ paused' = FALSE
  /\ first' = TRUE
  /\ IF first THEN UNCHANGED <<drv, connecting>> ELSE connecting' = TRUE /\ Connect
  /\ UNCHANGED <<radio, bit, boot, retry, scan, wifiFlag, history>>

\* Bug: a disconnect during a scan is not reported to the manager.
StaDisconnectedSilent ==
  /\ Handles("DISCONNECTED")
  /\ told' = IF paused THEN told ELSE "none"
  /\ paused' = FALSE
  /\ first' = TRUE
  /\ connecting' = TRUE
  /\ IF first THEN UNCHANGED drv ELSE Connect
  /\ UNCHANGED <<radio, bit, boot, retry, scan, wifiFlag, history>>

\* The first disconnect reconnects at once, a repeated one leaves it to the task.
StaDisconnected ==
  /\ Handles("DISCONNECTED")
  /\ told' = "none"
  /\ paused' = FALSE
  /\ first' = TRUE
  /\ connecting' = TRUE
  /\ IF first THEN UNCHANGED drv ELSE Connect
  /\ UNCHANGED <<radio, bit, boot, retry, scan, wifiFlag, history>>

\* After provisioning (wifi_flag = "1") the first address restarts the device.
GotIp ==
  /\ Handles("GOT_IP")
  /\ ~wifiFlag
  /\ connecting' = FALSE /\ first' = FALSE
  /\ bit' = TRUE
  /\ told' = "ip"
  /\ UNCHANGED <<drv, radio, paused, boot, retry, scan, wifiFlag, history>>

GotIpRestarts ==
  /\ events # <<>> /\ Head(events) = "GOT_IP"
  /\ wifiFlag
  /\ wifiFlag' = FALSE
  /\ drv' = "idle" /\ events' = <<>>
  /\ connecting' = FALSE /\ paused' = FALSE /\ first' = FALSE /\ bit' = FALSE
  /\ boot' = "start" /\ retry' = "none" /\ scan' = "idle" /\ told' = "none"
  /\ gaveUp' = FALSE /\ late' = FALSE
  /\ UNCHANGED radio

EventHandler == StaStart \/ StaConnected \/ StaDisconnected \/ GotIp \/ GotIpRestarts

-----------------------------------------------------------------------------
(* wifi_retry_task: what it reads and what it writes are separate steps.    *)

RetryLooks ==
  /\ retry = "loop" /\ connecting /\ ~paused
  /\ retry' = IF Associated THEN "fix" ELSE "connect"
  /\ UNCHANGED <<drv, events, radio, flags, bit, boot, scan, told, wifiFlag, history>>

RetryFixes ==
  /\ retry = "fix"
  /\ retry' = "loop"
  /\ connecting' = FALSE /\ first' = FALSE
  /\ gaveUp' = (gaveUp \/ Quiet)
  /\ UNCHANGED <<drv, events, radio, paused, bit, boot, scan, told, wifiFlag, late>>

\* Bug: an attempt that found the reconnect paused is the last one.
RetryConnectsOnce ==
  /\ retry = "connect"
  /\ IF paused THEN UNCHANGED <<drv, retry>> ELSE Connect /\ retry' = "loop"
  /\ connecting' = (connecting /\ ~paused)
  /\ UNCHANGED <<events, radio, paused, first, bit, boot, scan, told, wifiFlag, history>>

\* 100 ms later: skipped if a scan paused the reconnect meanwhile.
RetryConnects ==
  /\ retry = "connect"
  /\ retry' = "loop"
  /\ IF paused THEN UNCHANGED drv ELSE Connect
  /\ UNCHANGED <<events, radio, flags, bit, boot, scan, told, wifiFlag, history>>

\* Every 300th idle round, if the manager (which lags) still says connected;
\* it can say so only once an address has been obtained.
RetryRepairs ==
  /\ retry = "loop" /\ ~paused /\ ~connecting
  /\ ~Associated /\ bit
  /\ told' = "none"
  /\ connecting' = TRUE /\ first' = TRUE
  /\ UNCHANGED <<drv, events, radio, paused, bit, boot, retry, scan, wifiFlag, history>>

RetryTask == RetryLooks \/ RetryFixes \/ RetryConnects

-----------------------------------------------------------------------------
(* wifiSearchValue between pause_wifi_reconnect and resume_wifi_reconnect:   *)
(* every path out of a scan, failed or not, resumes.  The 5 s rule of       *)
(* is_wifi_scan_allowed only delays a scan.                                 *)

ScanStarts ==
  /\ scan = "idle" /\ boot # "start"
  /\ scan' = "scanning"
  /\ paused' = TRUE
  /\ UNCHANGED <<drv, events, radio, connecting, first, bit, boot, retry, told, wifiFlag, history>>

\* Bug: a failed scan returns without resuming.
ScanEndsUnresumed ==
  /\ scan = "scanning"
  /\ scan' = "idle"
  /\ paused' \in {FALSE, paused}
  /\ UNCHANGED <<drv, events, radio, connecting, first, bit, boot, retry, told, wifiFlag, history>>

ScanEnds ==
  /\ scan = "scanning"
  /\ scan' = "idle"
  /\ paused' = FALSE
  /\ IF paused /\ connecting THEN Connect ELSE UNCHANGED drv
  /\ UNCHANGED <<events, radio, connecting, first, bit, boot, retry, told, wifiFlag, history>>

-----------------------------------------------------------------------------
(* The driver and the radio (external).                                     *)

Reports(e, state) ==
  /\ Len(events) < MaxEvents
  /\ events' = Append(events, e)
  /\ drv' = state
  /\ UNCHANGED <<flags, bit, boot, retry, scan, told, wifiFlag, history>>

Associates == drv = "trying" /\ inRange /\ Reports("CONNECTED", "assoc") /\ UNCHANGED radio

GetsIp == drv = "assoc" /\ inRange /\ Reports("GOT_IP", "ip") /\ UNCHANGED radio

OutOfRange ==
  drv # "idle" /\ ~inRange /\ Reports("DISCONNECTED", "idle") /\ UNCHANGED radio

\* A failed attempt, or a kick by the access point, although it is in range.
Dropped ==
  /\ drv # "idle" /\ inRange
  /\ changes < MaxChanges /\ changes' = changes + 1
  /\ Reports("DISCONNECTED", "idle")
  /\ UNCHANGED inRange

RangeChanges ==
  /\ changes < MaxChanges /\ changes' = changes + 1
  /\ inRange' = ~inRange
  /\ UNCHANGED <<drv, events, flags, bit, boot, retry, scan, told, wifiFlag, history>>

Driver == Associates \/ GetsIp \/ OutOfRange

Next == \/ WifiTask \/ EventHandler \/ RetryTask \/ RetryRepairs
        \/ ScanStarts \/ ScanEnds \/ Driver \/ Dropped \/ RangeChanges

Spec == Init /\ [][Next]_vars

\* Each task is scheduled, each attempt ends, a scan ends; nobody is obliged
\* to scan, and the 300-round repair is given no fairness because it depends
\* on the manager's lag.
Fairness == /\ WF_vars(WifiTask) /\ WF_vars(EventHandler) /\ WF_vars(RetryTask)
            /\ WF_vars(ScanEnds) /\ WF_vars(Driver)

FairSpec == Spec /\ Fairness

-----------------------------------------------------------------------------
(* Properties                                                               *)

\* Unless one of the two unlocked writes has thrown the request away, a
\* station with nothing under way is always marked for reconnection
\* (s_wifi_connecting, the only thing wifi_retry_task acts on).
KeepsTrying == Quiet /\ boot # "start" /\ ~gaveUp => connecting

\* No path leaves the reconnect paused once no scan runs (pause_wifi_reconnect
\* and resume_wifi_reconnect on every return of wifiSearchValue).
PauseEndsWithScan == paused => scan = "scanning"

\* With no driver event pending the network manager has been told of an
\* address exactly while there is one, unless the boot timeout was reported
\* after the address.
TellsTheTruth == events = <<>> /\ ~late => (told = "ip" <=> drv = "ip")

\* Once the access point stays in range the station gets and keeps an address,
\* whatever scans run meanwhile, unless the request was thrown away.
ReconnectsUnlessGivenUp == <>[]inRange => <>[](drv = "ip" \/ gaveUp)

\* "WiFi is connected or not requested, nothing to do" (sx_init_wifi.c:421):
\* a requested connection is retried until the station has an address.
Reconnects == <>[]inRange => <>[](drv = "ip")
=============================================================================

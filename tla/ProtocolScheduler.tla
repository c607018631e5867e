-------------------------- MODULE ProtocolScheduler --------------------------
(***************************************************************************)
(* What the network manager and the protocol manager promise together:     *)
(* which network services have been ordered to run, as a function of the   *)
(* network states the device has gone through.                             *)
(*                                                                         *)
(*   - nothing runs while the network is DOWN;                             *)
(*   - the local services (UDP, TCP) are chosen once, when the network     *)
(*     leaves DOWN, and are not disturbed by LOCAL <-> EXTERNAL changes;   *)
(*   - MQTT runs only while the network is EXTERNAL, and may join late     *)
(*     because its start is retried.                                       *)
(*                                                                         *)
(* NetworkManager is shown to implement this specification.                *)
(***************************************************************************)

CONSTANTS
  LocalServices,   \* services that need a local network only
  AlwaysLocal      \* the one of them that is started unconditionally

VARIABLES
  net,      \* the state the services were last scheduled for
  running   \* the services ordered to run and not ordered to stop since

vars == <<net, running>>

Mqtt == "mqtt"

Init == net = "DOWN" /\ running = {}

GoDown == net # "DOWN" /\ net' = "DOWN" /\ running' = {}

\* The local services, chosen by the configuration, come up together.
ComeUp ==
  /\ net = "DOWN"
  /\ \E chosen \in SUBSET LocalServices :
       /\ AlwaysLocal \in chosen
       /\ \/ net' = "LOCAL" /\ running' = chosen
          \/ net' = "EXTERNAL" /\ running' \in {chosen, chosen \cup {Mqtt}}

LoseInternet ==
  /\ net = "EXTERNAL"
  /\ net' = "LOCAL"
  /\ running' = running \ {Mqtt}

\* From LOCAL, or while EXTERNAL when an earlier start of MQTT failed.
ReachInternet ==
  /\ net \in {"LOCAL", "EXTERNAL"}
  /\ net' = "EXTERNAL"
  /\ running' \in {running, running \cup {Mqtt}}

Next == GoDown \/ ComeUp \/ LoseInternet \/ ReachInternet

Spec == Init /\ [][Next]_vars
=============================================================================

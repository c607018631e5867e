------------------------------ MODULE Settings ------------------------------
(***************************************************************************)
(* The settings of the device in NVS: app_main fills and reads them at     *)
(* boot; the web server, the UDP tool, MQTT and the key change or erase    *)
(* them while it runs; many of these end in a restart.                     *)
(*                                                                         *)
(* NVS itself is external.  nvs_set_str is seen by every later read, but   *)
(* only nvs_commit promises that it survives a restart: until then each    *)
(* key may come back with either value.  nvs_flash_erase empties           *)
(* everything, shuts NVS down and makes every open handle invalid.         *)
(*                                                                         *)
(* A key stands for its page or group (use_tcp for those of TCP, MQTT and  *)
(* HTTP, w_mode for w_mode and poll_time), a value for whoever wrote it.    *)
(***************************************************************************)
EXTENDS Naturals, Sequences, FiniteSets

CONSTANT
  MaxEvents   \* bound on the requests that change something, the presses of the key, the
              \* power losses, the failures of the flash and of allocations, all together

ASSUME SettingsAssumption == MaxEvents \in Nat

\* The keys without which app_main resets everything, and the others.
Checked == {"static_dns1", "use_tcp", "ap_name", "host_names", "lgname", "device_sn"}
Keys    == Checked \cup {"device_type", "w_mode", "baud_rate", "primary_dns"}
Missing == "missing"
Values  == {Missing, "default", "user", "old", "web", "udp", "mqtt"}
Tasks   == {"main", "httpd", "udp", "mqtt", "reset"}

VARIABLES
  flash,     \* the values that a restart cannot lose
  seen,      \* the values that nvs_get_str returns
  up,        \* NVS is initialised
  old,       \* the namespace "storage" of older firmware is there
  job,       \* what each task is doing: [op, at, todo, wrote, stale]
  key,       \* the key: "up", or how long it is down: "short", "mid", "long"
  timer,     \* the key timer runs
  promised,  \* the value last acknowledged for each key, Missing if none
  misled,    \* keys acknowledged by a reply that did not write them, or clobbered
  complete,  \* a boot has filled the settings since they were last erased
  sn,        \* the serial number the device has to keep, Missing if none
  events     \* requests, presses and faults so far

nvsVars   == <<flash, seen, up, old>>
ghostVars == <<promised, misled, complete, sn>>
keyVars   == <<key, timer>>
vars      == <<nvsVars, job, keyVars, ghostVars, events>>

Entry(k, v)       == [key |-> k, val |-> v]
Job(op, at, todo) == [op |-> op, at |-> at, todo |-> todo, wrote |-> {}, stale |-> FALSE]
Idle              == Job("none", "idle", <<>>)
Goes(t, at)       == job' = [job EXCEPT ![t].at = at]
Does(t, op, at, todo) == job' = [job EXCEPT ![t] = Job(op, at, todo)]
At(t, op, at)     == job[t].op = op /\ job[t].at = at

Event   == events < MaxEvents /\ events' = events + 1
NoEvent == events' = events

Blank  == [k \in Keys |-> Missing]
AllAre(v, S) == [k \in Keys |-> IF k \in S THEN v ELSE Missing]

\* A device with only the factory's entries, one in use, and one whose firmware
\* was just updated from a version without ap_name.
Init ==
  /\ \/ flash = AllAre("user", {"device_sn", "device_type"}) /\ old = FALSE /\ complete = FALSE
     \/ flash = AllAre("user", Keys \ {"primary_dns"}) /\ old = FALSE /\ complete = TRUE
     \/ flash = AllAre("user", Checked \ {"ap_name"}) /\ old = TRUE /\ complete = FALSE
  /\ seen = flash /\ up = FALSE
  /\ job = [t \in Tasks |-> IF t = "main" THEN Job("boot", "init", <<>>) ELSE Idle]
  /\ key = "up" /\ timer = FALSE
  /\ promised = Blank /\ misled = {}
  /\ sn = IF flash["device_sn"] = "user" THEN "user" ELSE Missing
  /\ events = 0

-----------------------------------------------------------------------------
(* Restarts and the NVS library                                             *)

Unsaved == {k \in Keys : flash[k] # seen[k]}

\* A reset has erased the serial number and not yet committed it again.
Window == \E t \in Tasks : job[t].op \in {"reset", "restore"} /\ job[t].at \in {"reinit", "write", "commit"}

\* esp_restart, an abort or a power loss.
Reboot ==
  /\ \E lost \in SUBSET Unsaved :
       flash' = [k \in Keys |-> IF k \in lost THEN flash[k] ELSE seen[k]]
  /\ seen' = flash' /\ up' = FALSE
  /\ job' = [t \in Tasks |-> IF t = "main" THEN Job("boot", "init", <<>>) ELSE Idle]
  /\ key' = (IF key = "up" THEN "up" ELSE "short") /\ timer' = FALSE
  /\ sn' = IF Window THEN Missing
           ELSE IF "device_sn" \in Unsaved /\ sn # Missing THEN flash'["device_sn"] ELSE sn
  /\ UNCHANGED <<old, promised, misled, complete>>

PowerLoss == Event /\ Reboot

\* nvs_flash_erase.
Erased ==
  /\ flash' = Blank /\ seen' = Blank /\ old' = FALSE
  /\ promised' = Blank /\ misled' = {} /\ complete' = FALSE

\* Every other task that has a handle open loses it.
Stale(t) == [u \in Tasks |-> IF u = t \/ job[u] = Idle THEN job[u] ELSE [job[u] EXCEPT !.stale = TRUE]]

\* Tasks whose failed calls abort (ESP_ERROR_CHECK), are skipped, or are answered
\* with an error.
Pages    == {"net_set", "module_set", "protocol", "ap_set", "serial_set"}
Aborts   == Pages \cup {"defaults", "uart", "info", "login"}
Skips    == {"migrate", "config", "operate", "reset", "restore"}
Refuses  == {"mode", "identity", "network"}
Requests == Pages \cup {"config"} \cup Refuses

Next1(t) == Head(job[t].todo)

\* One nvs_set_str.  A new request for the key ends earlier promises about it.
\* operate and uart_init write what they decided on earlier, and may so undo
\* what was asked for in between.
Set(t) ==
  /\ job[t].at = "write" /\ job[t].todo # <<>>
  /\ up /\ ~job[t].stale
  /\ LET e == Next1(t) IN
     /\ seen' = [seen EXCEPT ![e.key] = e.val]
     /\ job' = [job EXCEPT ![t].todo = Tail(@), ![t].wrote = @ \cup {e.key}]
     /\ promised' = IF job[t].op \in Requests THEN [promised EXCEPT ![e.key] = Missing] ELSE promised
     /\ misled' = IF job[t].op \in Requests THEN misled \ {e.key}
                  ELSE IF job[t].op \in {"operate", "uart"} /\ seen[e.key] # e.val THEN misled \cup {e.key}
                  ELSE misled
     /\ sn' = IF e.key = "device_sn"
                 /\ (job[t].op = "identity" \/ (job[t].op \in {"reset", "restore"} /\ sn # Missing))
              THEN IF \E u \in Tasks : job[u].op \in {"reset", "restore"} /\ job[u].at = "erase"
                   THEN Missing ELSE e.val
              ELSE sn
  /\ UNCHANGED <<flash, up, old, keyVars, complete, events>>

\* The set or the commit of t fails: for want of a valid handle, or in the flash.
Fails(t) ==
  /\ job[t].at = "commit" \/ (job[t].at = "write" /\ job[t].todo # <<>>)
  /\ IF up /\ ~job[t].stale THEN Event ELSE NoEvent

FailAborts(t) == job[t].op \in Aborts /\ Fails(t) /\ Reboot

FailSkips(t) ==
  /\ job[t].op \in Skips /\ Fails(t)
  /\ IF job[t].at = "write" THEN job' = [job EXCEPT ![t].todo = Tail(@)]
     ELSE IF job[t].op = "config" THEN job' = [job EXCEPT ![t] = Idle]
     ELSE Goes(t, "done")
  /\ sn' = IF job[t].op \in {"reset", "restore"} THEN Missing ELSE sn
  /\ UNCHANGED <<nvsVars, keyVars, promised, misled, complete>>

\* What was set before stays visible to every reader.
FailRefuses(t) ==
  /\ job[t].op \in Refuses /\ Fails(t)
  /\ job' = [job EXCEPT ![t] = Idle]
  /\ UNCHANGED <<nvsVars, keyVars, ghostVars>>

\* Mutant of Written: save_to_nvs without its commit.
WrittenUncommitted(t) ==
  /\ job[t].at = "write" /\ job[t].todo = <<>>
  /\ Goes(t, "done")
  /\ UNCHANGED <<nvsVars, keyVars, ghostVars, events>>

\* After the last set: a commit, in most places only if something was written.
Written(t) ==
  /\ job[t].at = "write" /\ job[t].todo = <<>>
  /\ Goes(t, CASE job[t].op = "info" -> "done"
               [] job[t].op = "mode" -> "validate"
               [] job[t].op \notin {"info", "mode"} ->
                    IF job[t].wrote = {} /\ job[t].op \notin {"defaults", "operate"}
                    THEN "done" ELSE "commit")
  /\ UNCHANGED <<nvsVars, keyVars, ghostVars, events>>

Commit(t) ==
  /\ job[t].at = "commit" /\ up /\ ~job[t].stale
  /\ flash' = [k \in Keys |-> IF k \in job[t].wrote THEN seen[k] ELSE flash[k]]
  /\ complete' = (complete \/ job[t].op = "defaults")
  /\ Goes(t, "done")
  /\ UNCHANGED <<seen, up, old, keyVars, promised, misled, sn, events>>

\* The reply says that the values asked for are stored.
Acknowledges(asked, wrote) ==
  IF ~complete THEN UNCHANGED <<promised, misled>>
  ELSE /\ promised' = [k \in Keys |->
            IF (\E i \in DOMAIN asked : asked[i].key = k /\ (k \in wrote => seen[k] = asked[i].val))
            THEN (CHOOSE e \in {asked[i] : i \in DOMAIN asked} : e.key = k).val ELSE promised[k]]
       /\ misled' = misled \cup ({asked[i].key : i \in DOMAIN asked} \ wrote)

-----------------------------------------------------------------------------
(* app_main                                                                 *)

NvsInit ==
  /\ At("main", "boot", "init")
  /\ up' = TRUE /\ Goes("main", "migrate")
  /\ UNCHANGED <<flash, seen, old, keyVars, ghostVars, events>>

\* The partition is full or of another version: nvs_safe_reset cannot open it
\* and erases it before it has read what it is to keep.
NvsUnusable ==
  /\ At("main", "boot", "init") /\ Event
  /\ Erased /\ up' = TRUE /\ sn' = Missing /\ Goes("main", "migrate")
  /\ UNCHANGED <<keyVars>>

\* migrate_storage_namespace: what the old namespace has and the new one lacks.
Migrate ==
  /\ At("main", "boot", "migrate")
  /\ Does("main", "migrate", "write",
       IF ~old THEN <<>>
       ELSE IF seen["w_mode"] = Missing THEN <<Entry("w_mode", "old")>> ELSE <<>>)
  /\ UNCHANGED <<nvsVars, keyVars, ghostVars, events>>

\* init_key_timer, which may fail and is then only logged.
StartTimers ==
  /\ At("main", "migrate", "done")
  /\ \/ timer' = TRUE /\ NoEvent
     \/ timer' = FALSE /\ Event
  /\ Does("main", "boot", "key", <<>>)
  /\ UNCHANGED <<nvsVars, key, ghostVars>>

\* A key that is down: the timer has set KeyState long before app_main looks at
\* it 300 ms later, so app_main does nothing and ends.  Without the timer it
\* waits for 2 s and erases everything.
KeyIsDown ==
  /\ At("main", "boot", "key") /\ key # "up"
  /\ Goes("main", IF timer THEN "ended" ELSE "hold")
  /\ UNCHANGED <<nvsVars, keyVars, ghostVars, events>>

LetGo ==
  /\ At("main", "boot", "hold") /\ key = "up"
  /\ Goes("main", "ended")
  /\ UNCHANGED <<nvsVars, keyVars, ghostVars, events>>

HeldForTwoSeconds ==
  /\ At("main", "boot", "hold") /\ key \in {"mid", "long"}
  /\ Erased /\ up' = FALSE /\ sn' = Missing /\ Goes("main", "erased")
  /\ UNCHANGED <<keyVars, events>>

\* Mutant of RestartErased: it waits for the key to be let go.
RestartErasedLetGo == At("main", "boot", "erased") /\ key = "up" /\ Reboot /\ NoEvent

RestartErased == At("main", "boot", "erased") /\ Reboot /\ NoEvent

Default(k) == Entry(k, "default")
\* Mutants of Kept: what is missing is written as it was read, or not kept at all.
KeptUnread(k) == Entry(k, IF seen[k] = Missing THEN "" ELSE seen[k])
KeptNot(k) == Entry(k, "default")
Kept(k) == Entry(k, IF seen[k] = Missing THEN "default" ELSE seen[k])

\* Mutant of CheckSettings: the defaults without those of the access point.
CheckSettingsNoAp ==
  /\ At("main", "boot", "key") /\ key = "up"
  /\ up' = TRUE
  /\ Does("main", "defaults", "write",
       IF \E k \in Checked : seen[k] = Missing
       THEN <<Default("static_dns1"), Default("use_tcp"), Default("host_names"),
              Default("lgname"), Kept("device_type"), Kept("device_sn"), Default("w_mode")>>
       ELSE <<>>)
  /\ UNCHANGED <<flash, seen, old, keyVars, ghostVars, events>>

\* One key missing: every one is reset, but the identity is kept.  Then w_mode.
CheckSettings ==
  /\ At("main", "boot", "key") /\ key = "up"
  /\ up' = TRUE
  /\ Does("main", "defaults", "write",
       (IF \E k \in Checked : seen[k] = Missing
        THEN <<Default("static_dns1"), Default("use_tcp"), Default("ap_name"), Default("host_names"),
               Default("lgname"), Kept("device_type"), Kept("device_sn")>>
        ELSE <<>>)
       \o (IF seen["w_mode"] = Missing THEN <<Default("w_mode")>> ELSE <<>>))
  /\ UNCHANGED <<flash, seen, old, keyVars, ghostVars, events>>

\* REFRESH_NVS_STR_SIZE, then the managers and the web server.
StartServices ==
  /\ At("main", "defaults", "done")
  /\ up /\ ~job["main"].stale /\ seen["static_dns1"] # Missing
  /\ Does("main", "boot", "net", <<>>)
  /\ UNCHANGED <<nvsVars, keyVars, ghostVars, events>>

\* A size that cannot be read aborts, a failed malloc restarts.
ServicesFail ==
  /\ At("main", "defaults", "done")
  /\ IF up /\ ~job["main"].stale /\ seen["static_dns1"] # Missing
     THEN Event ELSE NoEvent
  /\ Reboot

\* uart_init, which fills the serial settings one by one.
UartInit ==
  /\ At("main", "boot", "net")
  /\ up' = TRUE
  /\ Does("main", "uart", "write",
       IF seen["baud_rate"] = Missing THEN <<Default("baud_rate")>> ELSE <<>>)
  /\ UNCHANGED <<flash, seen, old, keyVars, ghostVars, events>>

Runs ==
  /\ At("main", "uart", "done")
  /\ Does("main", "run", "run", <<>>)
  /\ UNCHANGED <<nvsVars, keyVars, ghostVars, events>>

Serving == job["main"].op \in {"uart", "run"} \/ At("main", "boot", "net")

-----------------------------------------------------------------------------
(* The web server: one request at a time                                    *)

Accepts(t) == Serving /\ job[t] = Idle

\* What the forms of the pages carry, and what the other requests ask for.
Asked(op) ==
  CASE op = "net_set"    -> <<Entry("static_dns1", "web")>>
    [] op = "module_set" -> <<Entry("host_names", "web"), Entry("lgname", "web")>>
    [] op = "protocol"   -> <<Entry("use_tcp", "web")>>
    [] op = "ap_set"     -> <<Entry("ap_name", "web")>>
    [] op = "serial_set" -> <<Entry("baud_rate", "web")>>
    [] op = "mode"       -> <<Entry("w_mode", "web")>>
    [] op = "identity"   -> <<Entry("device_type", "udp"), Entry("device_sn", "udp")>>
    [] op = "network"    -> <<Entry("host_names", "udp"), Entry("static_dns1", "udp")>>
    [] op = "config"     -> <<Entry("w_mode", "mqtt"), Entry("use_tcp", "mqtt")>>

\* post_handler: nvs_init, then save_to_nvs of the body.
Post(page) ==
  /\ Accepts("httpd") /\ Event
  /\ up' = TRUE /\ Does("httpd", page, "write", Asked(page))
  /\ UNCHANGED <<flash, seen, old, keyVars, ghostVars>>

\* A body received in two pieces: the second overwrites the first in the buffer,
\* and what is left parses as no setting at all, or as a key nvs_set_str refuses.
PostInPieces(page) ==
  /\ Accepts("httpd") /\ Event
  /\ \/ /\ up' = TRUE /\ Does("httpd", page, "write", <<>>)
        /\ UNCHANGED <<flash, seen, old, keyVars, ghostVars>>
     \/ Reboot

\* get_serial_set_handler looks at the rate after saving: none is filled in, not
\* committed, and the port is left alone.
SerialFill ==
  /\ At("httpd", "serial_set", "done") /\ seen["baud_rate"] = Missing
  /\ up /\ ~job["httpd"].stale
  /\ seen' = [seen EXCEPT !["baud_rate"] = "default"]
  /\ UNCHANGED <<flash, up, old, job, keyVars, ghostVars, events>>

\* A page that shows settings fills its group in when one key is missing.
Info(probe, fill) ==
  /\ Accepts("httpd") /\ (seen[probe] = Missing \/ ~up) /\ Event
  /\ up' = TRUE
  /\ Does("httpd", "info", "write", IF seen[probe] = Missing THEN fill ELSE <<>>)
  /\ UNCHANGED <<flash, seen, old, keyVars, ghostVars>>

DevInfo       == Info("host_names", <<Default("host_names"), Default("static_dns1")>>)
SerialSetInfo == Info("baud_rate", <<Default("baud_rate")>>)
TcpInfo       == Info("use_tcp", <<Default("use_tcp")>>)
HttpInfo      == Info("use_tcp", <<Default("use_tcp")>>)
NetSetInfo    == Info("static_dns1", <<Default("static_dns1")>>)
ModuleSetInfo == Info("lgname", <<Default("host_names"), Default("lgname")>>)
ApSetInfo     == Info("ap_name", <<Default("ap_name")>>)
WebLogin      == Info("lgname", <<Default("host_names"), Default("lgname")>>)

WorkModeSet ==
  /\ Accepts("httpd") /\ Event /\ up
  /\ Does("httpd", "mode", "write", Asked("mode"))
  /\ UNCHANGED <<nvsVars, keyVars, ghostVars>>

\* sx_work_mode_save_config refuses a mode_config that is no object, after the
\* mode itself has been set.
WorkModeConfig ==
  /\ At("httpd", "mode", "validate")
  /\ Goes("httpd", "commit") \/ job' = [job EXCEPT !["httpd"] = Idle]
  /\ UNCHANGED <<nvsVars, keyVars, ghostVars, events>>

\* The mode that is set is written again, to be sure that it is committed.
Operate ==
  /\ Accepts("httpd") /\ Event
  /\ Does("httpd", "operate", IF up THEN "write" ELSE "done", <<Kept("w_mode")>>)
  /\ UNCHANGED <<nvsVars, keyVars, ghostVars>>

Restore ==
  /\ Accepts("httpd") /\ Event
  /\ Does("httpd", "restore", "read", <<>>)
  /\ UNCHANGED <<nvsVars, keyVars, ghostVars>>

-----------------------------------------------------------------------------
(* The UDP tool and MQTT                                                    *)

\* A login fills the credentials in when they are missing.
UdpLogin ==
  /\ Accepts("udp") /\ (seen["lgname"] = Missing \/ ~up) /\ Event
  /\ up' = TRUE
  /\ Does("udp", "login", "write",
       IF seen["lgname"] = Missing THEN <<Default("lgname")>> ELSE <<>>)
  /\ UNCHANGED <<flash, seen, old, keyVars, ghostVars>>

\* update_device_identity_from_parm, for set_device_type and set.
UdpIdentity ==
  /\ Accepts("udp") /\ Event /\ up
  /\ Does("udp", "identity", "write", Asked("identity"))
  /\ UNCHANGED <<nvsVars, keyVars, ghostVars>>

\* save_network_settings_to_nvs names the DNS servers as the request does.
UdpNetwork ==
  /\ Accepts("udp") /\ Event /\ up
  /\ Does("udp", "network", "write", <<Entry("host_names", "udp"), Entry("primary_dns", "udp")>>)
  /\ UNCHANGED <<nvsVars, keyVars, ghostVars>>

UdpReboot ==
  /\ Accepts("udp") /\ Event
  /\ Does("udp", "restart", "restart", <<>>)
  /\ UNCHANGED <<nvsVars, keyVars, ghostVars>>

\* mqtt_apply_config_payload.
MqttConfig ==
  /\ Accepts("mqtt") /\ Event /\ up
  /\ Does("mqtt", "config", "write", Asked("config"))
  /\ UNCHANGED <<nvsVars, keyVars, ghostVars>>

\* The answer to a request.  The AP page, the network settings and a
\* configuration by MQTT then restart the device.
Reply(t) ==
  /\ job[t].op \in Requests /\ job[t].at = "done"
  /\ ~(job[t].op = "serial_set" /\ seen["baud_rate"] = Missing)
  /\ IF job[t].op \in {"identity", "config"} /\ job[t].wrote = {}
     THEN UNCHANGED <<promised, misled>>
     ELSE Acknowledges(Asked(job[t].op), job[t].wrote)
  /\ IF job[t].op \in {"ap_set", "network"} \/ (job[t].op = "config" /\ job[t].wrote # {})
     THEN Goes(t, "restart") ELSE job' = [job EXCEPT ![t] = Idle]
  /\ UNCHANGED <<nvsVars, keyVars, complete, sn, events>>

\* The page is sent, or the login answered.
ReplyOnly(t) ==
  /\ job[t].op \in {"info", "login"} /\ job[t].at = "done"
  /\ job' = [job EXCEPT ![t] = Idle]
  /\ UNCHANGED <<nvsVars, keyVars, ghostVars, events>>

-----------------------------------------------------------------------------
(* The key and the resets                                                   *)

Press ==
  /\ key = "up" /\ Event
  /\ key' = "short"
  /\ UNCHANGED <<nvsVars, job, timer, ghostVars>>

\* Counted by the timer, or by app_main while it waits; app_main looks at the key
\* long before a second is over.  After five seconds the timer starts the reset.
Hold ==
  /\ timer \/ At("main", "boot", "hold")
  /\ ~At("main", "boot", "key")
  /\ \/ key = "short" /\ key' = "mid" /\ UNCHANGED job
     \/ /\ key = "mid" /\ key' = "long"
        /\ IF timer /\ job["reset"] = Idle THEN Does("reset", "reset", "read", <<>>) ELSE UNCHANGED job
  /\ UNCHANGED <<nvsVars, timer, ghostVars, events>>

\* Within the first second the timer orders a restart, unless the task for it
\* cannot be created; from then on a release does nothing.
Release ==
  /\ key # "up" /\ key' = "up"
  /\ IF timer /\ key = "short" /\ job["reset"] = Idle
     THEN \/ Does("reset", "restart", "restart", <<>>) /\ NoEvent
          \/ UNCHANGED job /\ Event
     ELSE UNCHANGED job /\ NoEvent
  /\ UNCHANGED <<nvsVars, timer, ghostVars>>

\* What a reset keeps: the key the identity, the page only the serial number.
Saved(k)   == IF seen[k] = Missing THEN <<>> ELSE <<Entry(k, seen[k])>>
KeptBy(op) == Saved("device_sn") \o (IF op = "reset" THEN Saved("device_type") ELSE <<>>)

ReadKept(t) ==
  /\ job[t].op \in {"reset", "restore"} /\ job[t].at = "read"
  /\ job' = [job EXCEPT ![t].at = "erase", ![t].todo = KeptBy(job[t].op)]
  /\ sn' = IF seen["device_sn"] = Missing THEN Missing ELSE sn
  /\ UNCHANGED <<nvsVars, keyVars, promised, misled, complete, events>>

EraseAll(t) ==
  /\ job[t].op \in {"reset", "restore"} /\ job[t].at = "erase"
  /\ Erased /\ up' = FALSE
  /\ job' = [Stale(t) EXCEPT ![t].at = "reinit"]
  /\ UNCHANGED <<keyVars, sn, events>>

Reinit(t) ==
  /\ job[t].op \in {"reset", "restore"} /\ job[t].at = "reinit"
  /\ up' = TRUE
  /\ job' = [job EXCEPT ![t].at = "write", ![t].stale = FALSE]
  /\ UNCHANGED <<flash, seen, old, keyVars, ghostVars, events>>

\* esp_restart at the end of a job.
Restarts(t) ==
  /\ \/ job[t].at = "restart"
     \/ job[t].op \in {"operate", "reset", "restore"} /\ job[t].at = "done"
  /\ Reboot /\ NoEvent

-----------------------------------------------------------------------------

Step(t) ==
  \/ Set(t) \/ Written(t) \/ Commit(t) \/ Reply(t) \/ ReplyOnly(t) \/ Restarts(t)
  \/ ReadKept(t) \/ EraseAll(t) \/ Reinit(t)

Failure(t) == FailAborts(t) \/ FailSkips(t) \/ FailRefuses(t)

MainStep ==
  \/ NvsInit \/ Migrate \/ StartTimers \/ KeyIsDown \/ LetGo \/ HeldForTwoSeconds \/ RestartErased
  \/ CheckSettings \/ StartServices \/ UartInit \/ Runs

Web ==
  \/ \E page \in Pages : Post(page) \/ PostInPieces(page)
  \/ SerialFill \/ DevInfo \/ SerialSetInfo \/ TcpInfo \/ HttpInfo \/ NetSetInfo \/ ModuleSetInfo
  \/ ApSetInfo \/ WebLogin \/ WorkModeSet \/ WorkModeConfig \/ Operate \/ Restore

Next ==
  \/ MainStep \/ NvsUnusable \/ ServicesFail \/ PowerLoss
  \/ Web \/ UdpLogin \/ UdpIdentity \/ UdpNetwork \/ UdpReboot \/ MqttConfig
  \/ Press \/ Hold \/ Release
  \/ \E t \in Tasks : Step(t) \/ Failure(t)

Spec == Init /\ [][Next]_vars

\* The tasks run, and time passes while the key is down; nobody has to let it go.
Fairness ==
  /\ WF_vars(MainStep) /\ WF_vars(ServicesFail /\ NoEvent) /\ WF_vars(SerialFill) /\ WF_vars(WorkModeConfig)
  /\ \A t \in Tasks : WF_vars(Step(t)) /\ WF_vars(Failure(t) /\ NoEvent)
  /\ WF_vars(Hold)

FairSpec == Spec /\ Fairness

-----------------------------------------------------------------------------
(* Properties                                                               *)

\* What a task can be at.
Jobs ==
  [op : {"none", "boot", "migrate", "defaults", "uart", "run", "info", "login", "restart",
         "operate", "reset", "restore"} \cup Requests,
   at : {"idle", "init", "migrate", "key", "hold", "ended", "erased", "net", "run", "write",
         "validate", "commit", "done", "restart", "read", "erase", "reinit"},
   todo : Seq([key : Keys, val : Values]), wrote : SUBSET Keys, stale : BOOLEAN]

\* Every key holds one of the values, every task is at a step of one job.
TypeOK ==
  /\ flash \in [Keys -> Values] /\ seen \in [Keys -> Values] /\ up \in BOOLEAN /\ old \in BOOLEAN
  /\ job \in [Tasks -> Jobs]
  /\ key \in {"up", "short", "mid", "long"} /\ timer \in BOOLEAN
  /\ promised \in [Keys -> Values] /\ misled \subseteq Keys /\ complete \in BOOLEAN /\ sn \in Values
  /\ events \in 0..MaxEvents

\* A setting that the web server, the UDP tool or MQTT acknowledged is in the
\* flash, through restarts, until another request for it or a reset: whatever
\* the pages fill in, the boot checks and the other tasks write.  Excepted are
\* the keys in misled: a form of two pieces, a key that the UDP tool writes under
\* another name, one that MQTT skipped, and what operate or uart_init write back.
AcknowledgedIsStored ==
  \A k \in Keys \ misled : promised[k] # Missing => flash[k] = promised[k]

\* Once app_main has filled the settings, no restart and no handler ever leaves
\* one of the keys missing for which the next boot would reset all of them; only
\* an erase does.
NeverResetAgain == complete => \A k \in Checked : flash[k] # Missing /\ seen[k] # Missing

\* The serial number survives every boot, reset and request.  Excepted are the
\* erases that keep nothing (key held at power-on without the timer, unusable
\* NVS), a restart between the erase of a reset and its restore, two resets at
\* once, and a number set while a reset is under way.
SerialNumberKept == sn # Missing /\ ~Window => seen["device_sn"] = sn

Running == job["main"].op = "run"
Ended   == At("main", "boot", "ended")

\* Every boot comes to the end of app_main with all services, through any
\* restart, reset or failure on the way, or to the early end of app_main that a
\* key down at power-on causes: no chain of missing settings, aborts and
\* restarts goes on forever.
ComesBack == ~Running ~> Running \/ Ended

\* DNS servers that the UDP tool acknowledged are those of static_dns1, which
\* the next boot reads.
DnsAsAcknowledged == promised["static_dns1"] # Missing => flash["static_dns1"] = promised["static_dns1"]
=============================================================================

----------------------------- MODULE WebSocket ------------------------------
(***************************************************************************)
(* The WebSocket clients of the web server: the table ws_clients, filled    *)
(* and emptied by the one task of the HTTP server, read and repaired by     *)
(* ws_send_task, which sends every message of ws_msg_queue to all of them.  *)
(*                                                                         *)
(* Both take ws_clients_mutex for 100 ms at most and go on without it.      *)
(* Inside, a slot that is taken or released is logged; when the log is      *)
(* switched on that posts to ws_msg_queue, and with a full queue the mutex  *)
(* is held for another 100 ms: only then can the other's wait run out.      *)
(*                                                                         *)
(* The HTTP server of ESP-IDF is external: a session is one socket number,  *)
(* given again to another connection once it was closed.                    *)
(***************************************************************************)
EXTENDS Naturals, Sequences, FiniteSets

CONSTANTS
  Browsers,   \* the pages that open a WebSocket; the client_tag of each is its own
  Fds,        \* socket numbers
  NumSlots,   \* MAX_WS_CLIENTS
  QueueLen,   \* WS_QUEUE_SIZE
  MaxOpens    \* bound on the connections opened

ASSUME WebSocketAssumption ==
  /\ NumSlots \in Nat \ {0} /\ QueueLen \in Nat \ {0} /\ MaxOpens \in Nat
  /\ Fds # {} /\ 0 \notin Fds /\ "page" \notin Browsers /\ "none" \notin Browsers

Slots   == 1..NumSlots
Workers == {"httpd", "sender"}

VARIABLES
  sess,     \* per number: [who, ws, peer, trig]: whose connection, past the handshake,
            \* the other end still there, its closing ordered
  slot,     \* ws_clients: [fd, tag], or Free
  lock,     \* the holder of ws_clients_mutex between two steps
  pc,       \* per worker: [at, after]: its step, and the one after a log under the mutex
  hd,       \* what httpd works on: [fd, tag, list, idx]: a session, the numbers to close, a slot
  fds,      \* client_fds, what the send task still has to send to
  queue,    \* the number of messages in ws_msg_queue
  logOn,    \* log_enabled
  stale,    \* slots whose release was given up with the mutex
  deaf,     \* numbers whose slot the send task released for an earlier session
  opens     \* connections so far

vars == <<sess, slot, lock, pc, hd, fds, queue, logOn, stale, deaf, opens>>
httpdVars == <<hd, fds>>

NoSess == [who |-> "none", ws |-> FALSE, peer |-> FALSE, trig |-> FALSE]
Free   == [fd |-> 0, tag |-> "none"]
NoJob  == [fd |-> 0, tag |-> "none", list |-> {}, idx |-> {}]
Used   == {i \in Slots : slot[i] # Free}
Of(fd) == {i \in Used : slot[i].fd = fd}
Least(S) == CHOOSE i \in S : \A j \in S : i <= j
Open(fd) == sess[fd].who # "none"

Init ==
  /\ sess = [f \in Fds |-> NoSess] /\ slot = [i \in Slots |-> Free]
  /\ lock = "none" /\ pc = [w \in Workers |-> [at |-> "idle", after |-> "idle"]]
  /\ hd = NoJob /\ fds = <<>>
  /\ queue = 0 /\ logOn \in BOOLEAN /\ stale = {} /\ deaf = {} /\ opens = 0

At(w, step)   == pc[w].at = step
Goes(w, step) == pc' = [pc EXCEPT ![w].at = step]

-----------------------------------------------------------------------------
(* The mutex, and the log lines written under it                            *)

\* A critical section of w that leaves the slots as they are now in slot', and
\* logs or not; then w goes to step.
Section(w, logs, step) ==
  /\ lock = "none"
  /\ IF ~(logs /\ logOn) THEN Goes(w, step) /\ UNCHANGED <<lock, queue>>
     ELSE IF queue < QueueLen THEN queue' = queue + 1 /\ Goes(w, step) /\ UNCHANGED lock
     ELSE lock' = w /\ pc' = [pc EXCEPT ![w] = [at |-> "log", after |-> step]] /\ UNCHANGED queue

\* The wait for the mutex runs out while the other waits for room in the queue.
GivesUp(w) == lock \in Workers \ {w}

\* send_log_to_websocket: room in time, or the line is dropped.
LogPosted(w) ==
  /\ At(w, "log") /\ queue < QueueLen
  /\ queue' = queue + 1 /\ lock' = "none" /\ pc' = [pc EXCEPT ![w] = [at |-> pc[w].after, after |-> "idle"]]
  /\ UNCHANGED <<sess, slot, httpdVars, logOn, stale, deaf, opens>>

\* Mutant of LogTimesOut: the line waits until there is room.
LogWaits(w) ==
  /\ At(w, "log") /\ queue < QueueLen
  /\ lock' = "none" /\ pc' = [pc EXCEPT ![w] = [at |-> pc[w].after, after |-> "idle"]]
  /\ UNCHANGED <<sess, slot, httpdVars, queue, logOn, stale, deaf, opens>>

LogTimesOut(w) ==
  /\ At(w, "log")
  /\ lock' = "none" /\ pc' = [pc EXCEPT ![w] = [at |-> pc[w].after, after |-> "idle"]]
  /\ UNCHANGED <<sess, slot, httpdVars, queue, logOn, stale, deaf, opens>>

\* send_uart_to_websocket, and the log lines of all other tasks: dropped when
\* the queue is full.
Post ==
  /\ queue < QueueLen /\ queue' = queue + 1
  /\ UNCHANGED <<sess, slot, lock, pc, httpdVars, logOn, stale, deaf, opens>>

\* set_log_switch_handler.
LogSwitch ==
  /\ At("httpd", "idle") /\ logOn' = ~logOn
  /\ UNCHANGED <<sess, slot, lock, pc, httpdVars, queue, stale, deaf, opens>>

-----------------------------------------------------------------------------
(* The other ends                                                           *)

Connect(who, fd) ==
  /\ ~Open(fd) /\ opens < MaxOpens
  /\ sess' = [sess EXCEPT ![fd] = [who |-> who, ws |-> FALSE, peer |-> TRUE, trig |-> FALSE]]
  /\ opens' = opens + 1 /\ deaf' = deaf \ {fd}
  /\ UNCHANGED <<slot, lock, pc, httpdVars, queue, logOn, stale>>

Vanish(fd) ==
  /\ Open(fd) /\ sess[fd].peer
  /\ sess' = [sess EXCEPT ![fd].peer = FALSE]
  /\ UNCHANGED <<slot, lock, pc, httpdVars, queue, logOn, stale, deaf, opens>>

-----------------------------------------------------------------------------
(* The task of the HTTP server                                              *)

\* ws_handler with HTTP_GET, after the server has answered the handshake.
Handshake(fd) ==
  /\ At("httpd", "idle") /\ Open(fd) /\ sess[fd].who \in Browsers /\ ~sess[fd].ws
  /\ sess' = [sess EXCEPT ![fd].ws = TRUE]
  /\ hd' = [fd |-> fd, tag |-> sess[fd].who, list |-> {}, idx |-> {}]
  /\ Goes("httpd", "replace")
  /\ UNCHANGED <<slot, lock, fds, queue, logOn, stale, deaf, opens>>

\* ws_disconnect_post_handler, from a page that holds no slot itself.
Disconnect(tag) ==
  /\ At("httpd", "idle")
  /\ \E fd \in Fds : sess[fd].who = "page" /\ sess[fd].peer
  /\ hd' = [fd |-> 0, tag |-> tag, list |-> {}, idx |-> {}]
  /\ Goes("httpd", "replace")
  /\ UNCHANGED <<sess, slot, lock, fds, queue, logOn, stale, deaf, opens>>

\* ws_remove_client_by_tag: the slots at once, the sessions afterwards.
Replace ==
  /\ At("httpd", "replace")
  /\ LET gone == {i \in Used : slot[i].tag = hd.tag} IN
     /\ slot' = [i \in Slots |-> IF i \in gone THEN Free ELSE slot[i]]
     /\ hd' = [hd EXCEPT !.list = {slot[i].fd : i \in gone}]
     /\ stale' = stale \ gone
     /\ Section("httpd", gone # {}, "trigger")
  /\ UNCHANGED <<sess, fds, logOn, deaf, opens>>

ReplaceGivesUp ==
  /\ At("httpd", "replace") /\ GivesUp("httpd")
  /\ Goes("httpd", "trigger")
  /\ UNCHANGED <<sess, slot, lock, httpdVars, queue, logOn, stale, deaf, opens>>

\* httpd_sess_trigger_close closes whatever session has the number.
Trigger ==
  /\ At("httpd", "trigger")
  /\ sess' = [f \in Fds |-> IF f \in hd.list /\ Open(f) THEN [sess[f] EXCEPT !.trig = TRUE] ELSE sess[f]]
  /\ IF hd.fd = 0 THEN Goes("httpd", "idle") /\ hd' = NoJob
     ELSE Goes("httpd", "slot") /\ hd' = [hd EXCEPT !.list = {}]
  /\ UNCHANGED <<slot, lock, fds, queue, logOn, stale, deaf, opens>>

TakeSlot ==
  /\ At("httpd", "slot") /\ Slots \ Used # {}
  /\ slot' = [slot EXCEPT ![Least(Slots \ Used)] = [fd |-> hd.fd, tag |-> hd.tag]]
  /\ Section("httpd", TRUE, "idle") /\ hd' = NoJob
  /\ UNCHANGED <<sess, fds, logOn, stale, deaf, opens>>

\* Mutant of Refuse: the handler succeeds without a slot.
RefuseQuietly ==
  /\ At("httpd", "slot")
  /\ (lock = "none" /\ Slots \ Used = {}) \/ GivesUp("httpd")
  /\ Goes("httpd", "idle") /\ hd' = NoJob
  /\ UNCHANGED <<sess, slot, lock, fds, queue, logOn, stale, deaf, opens>>

\* No slot, or no mutex: the handler fails and the server closes the session.
Refuse ==
  /\ At("httpd", "slot")
  /\ (lock = "none" /\ Slots \ Used = {}) \/ GivesUp("httpd")
  /\ Goes("httpd", "close")
  /\ UNCHANGED <<sess, slot, lock, httpdVars, queue, logOn, stale, deaf, opens>>

\* A close frame, or one that cannot be received: the slot is looked up and
\* released in two critical sections, then the server closes the session.
FindClosed(fd) ==
  /\ At("httpd", "idle") /\ Open(fd) /\ sess[fd].ws
  /\ hd' = [fd |-> fd, tag |-> "none", list |-> {},
             idx |-> IF lock = "none" /\ Of(fd) # {} THEN {Least(Of(fd))} ELSE {}]
  /\ lock = "none" \/ GivesUp("httpd")
  /\ Goes("httpd", "release")
  /\ UNCHANGED <<sess, slot, lock, fds, queue, logOn, stale, deaf, opens>>

\* A message that cannot be used: the handler fails and the server closes the
\* session.
Unusable(fd) ==
  /\ At("httpd", "idle") /\ Open(fd) /\ sess[fd].ws
  /\ hd' = [fd |-> fd, tag |-> "none", list |-> {}, idx |-> {}]
  /\ Goes("httpd", "close")
  /\ UNCHANGED <<sess, slot, lock, fds, queue, logOn, stale, deaf, opens>>

Release ==
  /\ At("httpd", "release")
  /\ \/ /\ slot' = [i \in Slots |-> IF i \in hd.idx THEN Free ELSE slot[i]]
        /\ stale' = stale \ hd.idx
        /\ Section("httpd", hd.idx \cap Used # {}, "close")
     \/ /\ GivesUp("httpd") /\ Goes("httpd", "close")
        /\ UNCHANGED <<slot, stale, lock, queue>>
  /\ hd' = [hd EXCEPT !.idx = {}]
  /\ UNCHANGED <<sess, fds, logOn, deaf, opens>>

\* The server looks at a session whose other end is gone or whose closing was
\* ordered.
Ends(fd) ==
  /\ At("httpd", "idle") /\ Open(fd) /\ (~sess[fd].peer \/ sess[fd].trig)
  /\ hd' = [fd |-> fd, tag |-> "none", list |-> {}, idx |-> {}]
  /\ Goes("httpd", "close")
  /\ UNCHANGED <<sess, slot, lock, fds, queue, logOn, stale, deaf, opens>>

\* Mutant of CloseSession: the socket is closed and the table forgotten.
CloseSocketOnly ==
  /\ At("httpd", "close") /\ Goes("httpd", "closed")
  /\ UNCHANGED <<slot, stale, lock, queue, sess, httpdVars, logOn, deaf, opens>>

\* webserver_session_close_fn.  Without the mutex the slot stays.  A number that
\* a stale slot already has is in two slots, and only the first is released.
CloseSession ==
  /\ At("httpd", "close")
  /\ LET mine == Of(hd.fd) IN
     \/ /\ slot' = [i \in Slots |-> IF mine # {} /\ i = Least(mine) THEN Free ELSE slot[i]]
        /\ stale' = IF mine \cap stale = {} THEN stale ELSE (stale \cup mine) \ {Least(mine)}
        /\ Section("httpd", mine # {}, "closed")
     \/ /\ GivesUp("httpd") /\ Goes("httpd", "closed")
        /\ stale' = stale \cup mine
        /\ UNCHANGED <<slot, lock, queue>>
  /\ UNCHANGED <<sess, httpdVars, logOn, deaf, opens>>

Closed ==
  /\ At("httpd", "closed")
  /\ sess' = [sess EXCEPT ![hd.fd] = NoSess] /\ deaf' = deaf \ {hd.fd}
  /\ Goes("httpd", "idle") /\ hd' = NoJob
  /\ UNCHANGED <<slot, lock, fds, queue, logOn, stale, opens>>

-----------------------------------------------------------------------------
(* ws_send_task                                                             *)

Receive ==
  /\ At("sender", "idle") /\ queue > 0
  /\ queue' = queue - 1 /\ Goes("sender", "snapshot")
  /\ UNCHANGED <<sess, slot, lock, httpdVars, logOn, stale, deaf, opens>>

\* ws_snapshot_client_fds; without the mutex nobody gets the message.
Snapshot ==
  /\ At("sender", "snapshot")
  /\ \/ /\ lock = "none"
        /\ \E order \in [1..Cardinality(Used) -> Used] :
             /\ \A k \in DOMAIN order : \A m \in 1..(k - 1) : order[m] < order[k]
             /\ fds' = [k \in DOMAIN order |-> slot[order[k]].fd]
     \/ GivesUp("sender") /\ fds' = <<>>
  /\ Goes("sender", "send")
  /\ UNCHANGED <<sess, slot, lock, hd, queue, logOn, stale, deaf, opens>>

\* httpd_ws_send_frame_async only needs a session of that number.
Sent ==
  /\ At("sender", "send") /\ fds # <<>> /\ Open(Head(fds))
  /\ fds' = Tail(fds)
  /\ UNCHANGED <<sess, slot, lock, pc, hd, queue, logOn, stale, deaf, opens>>

\* Mutant of SendFails: the line is queued although there is no room.
SendFailsUnbounded ==
  /\ At("sender", "send") /\ fds # <<>> /\ ~sess[Head(fds)].peer
  /\ queue' = IF logOn THEN queue + 1 ELSE queue
  /\ Goes("sender", "trigger")
  /\ UNCHANGED <<sess, slot, lock, httpdVars, logOn, stale, deaf, opens>>

\* The failure is logged, into the queue that this task alone empties.
SendFails ==
  /\ At("sender", "send") /\ fds # <<>> /\ ~sess[Head(fds)].peer
  /\ queue' = IF logOn /\ queue < QueueLen THEN queue + 1 ELSE queue
  /\ Goes("sender", "trigger")
  /\ UNCHANGED <<sess, slot, lock, httpdVars, logOn, stale, deaf, opens>>

\* Mutant of TriggerFailed: without a session the slot is left alone.
TriggerOrSkip ==
  /\ At("sender", "trigger")
  /\ IF Open(Head(fds))
     THEN sess' = [sess EXCEPT ![Head(fds)].trig = TRUE] /\ Goes("sender", "reset") /\ UNCHANGED fds
     ELSE fds' = Tail(fds) /\ Goes("sender", "send") /\ UNCHANGED sess
  /\ UNCHANGED <<slot, lock, hd, queue, logOn, stale, deaf, opens>>

TriggerFailed ==
  /\ At("sender", "trigger")
  /\ sess' = IF Open(Head(fds)) THEN [sess EXCEPT ![Head(fds)].trig = TRUE] ELSE sess
  /\ Goes("sender", "reset")
  /\ UNCHANGED <<slot, lock, httpdVars, queue, logOn, stale, deaf, opens>>

\* ws_reset_client_by_fd, by then perhaps of the next session of that number.
ResetFailed ==
  /\ At("sender", "reset")
  /\ LET f == Head(fds)  mine == Of(f) IN
     \/ /\ slot' = [i \in Slots |-> IF mine # {} /\ i = Least(mine) THEN Free ELSE slot[i]]
        /\ stale' = IF mine = {} THEN stale ELSE stale \ {Least(mine)}
        /\ deaf' = IF mine # {} /\ sess[f].peer /\ ~sess[f].trig THEN deaf \cup {f} ELSE deaf
        /\ Section("sender", mine # {}, "send")
     \/ /\ GivesUp("sender") /\ Goes("sender", "send")
        /\ UNCHANGED <<slot, stale, deaf, lock, queue>>
  /\ fds' = Tail(fds)
  /\ UNCHANGED <<sess, hd, logOn, opens>>

AllSent ==
  /\ At("sender", "send") /\ fds = <<>>
  /\ Goes("sender", "idle")
  /\ UNCHANGED <<sess, slot, lock, httpdVars, queue, logOn, stale, deaf, opens>>

-----------------------------------------------------------------------------

HttpdWorks ==
  \/ Replace \/ ReplaceGivesUp \/ Trigger \/ TakeSlot \/ Refuse \/ Release \/ CloseSession \/ Closed
  \/ LogPosted("httpd") \/ LogTimesOut("httpd")

SenderWorks ==
  \/ Receive \/ Snapshot \/ Sent \/ SendFails \/ TriggerFailed \/ ResetFailed \/ AllSent
  \/ LogPosted("sender") \/ LogTimesOut("sender")

Next ==
  \/ HttpdWorks \/ SenderWorks \/ Post \/ LogSwitch
  \/ \E fd \in Fds : Vanish(fd) \/ Handshake(fd) \/ FindClosed(fd) \/ Unusable(fd) \/ Ends(fd)
                     \/ \E who \in Browsers \cup {"page"} : Connect(who, fd)
  \/ \E tag \in Browsers : Disconnect(tag)

Spec == Init /\ [][Next]_vars

\* Both tasks run, and the server comes to every session that is to end.
FairSpec ==
  /\ Spec /\ WF_vars(HttpdWorks) /\ WF_vars(SenderWorks) /\ WF_vars(Post)
  /\ \A fd \in Fds : SF_vars(Ends(fd))

-----------------------------------------------------------------------------
(* Properties                                                               *)

Steps == {"idle", "log", "replace", "trigger", "slot", "close", "release", "closed", "snapshot", "send", "reset"}

\* The queue never holds more than its length, every slot and session is well
\* formed, and the mutex is held between two steps only by a task that waits to log.
TypeOK ==
  /\ sess \in [Fds -> [who : Browsers \cup {"page", "none"}, ws : BOOLEAN, peer : BOOLEAN, trig : BOOLEAN]]
  /\ \A i \in Used : slot[i].fd \in Fds /\ slot[i].tag \in Browsers
  /\ pc \in [Workers -> [at : Steps, after : Steps]]
  /\ lock \in Workers \cup {"none"} /\ \A w \in Workers : At(w, "log") <=> lock = w
  /\ hd.list \subseteq Fds /\ hd.idx \subseteq Slots /\ fds \in Seq(Fds)
  /\ queue \in 0..QueueLen /\ logOn \in BOOLEAN /\ stale \subseteq Used /\ deaf \subseteq Fds
  /\ opens \in 0..MaxOpens

\* Every slot in use is that of an open WebSocket session of its own browser, so
\* no message goes to a connection that never asked for it.  Excepted are the
\* slots whose release was given up because the mutex was held by a task that
\* waited for room in the queue.
SlotsAreOpen ==
  \A i \in Used \ stale : sess[slot[i].fd].who = slot[i].tag /\ sess[slot[i].fd].ws

\* Every browser whose session is up, and not about to be closed, has a slot and
\* so gets the messages.  Excepted is the session whose slot the send task
\* released because a message to the former session of that number had failed.
ListenersHaveSlots ==
  \A f \in Fds :
    sess[f].ws /\ sess[f].peer /\ ~sess[f].trig /\ f \notin deaf
    /\ f \notin {hd.fd} \cup hd.list
    => \E i \in Used : slot[i].fd = f /\ slot[i].tag = sess[f].who

\* The send task always comes back to its queue, although it logs into that queue
\* itself, also under the mutex.
Drains == queue = QueueLen ~> queue < QueueLen

\* While messages keep coming and once the log is off, a stale slot is found by a
\* message that fails, unless its number has a new owner by then.
StaleSlotsEnd ==
  <>[]~logOn => \A i \in Slots : i \in stale ~> (i \notin stale \/ Open(slot[i].fd))
=============================================================================

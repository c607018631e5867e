------------------------------ MODULE TcpServer ------------------------------
(***************************************************************************)
(* main/protocols/sx_tcp_server.c.                                         *)
(*                                                                         *)
(* The acceptor, one task per client, the heartbeat, the sender (whichever *)
(* task forwards serial data), the socket cleanup task and the caller of   *)
(* start_tcp_server and stop_tcp_server share the client table and the     *)
(* socket descriptors.  The table has a mutex; the descriptors, the stop   *)
(* flag and the task handles have none.  lwIP reuses the lowest free       *)
(* descriptor, for every task of the device.                               *)
(***************************************************************************)
EXTENDS Integers, Sequences, FiniteSets

CONSTANTS
  MaxClients,   \* MAX_CLIENTS
  CleanupLen,   \* CLEANUP_QUEUE_SIZE
  NumFds,       \* socket descriptors of the device
  NumConns,     \* bound on the connections clients make
  MaxStops      \* bound on the calls of stop_tcp_server

ASSUME ServerAssumption ==
  /\ MaxClients \in Nat \ {0} /\ CleanupLen \in Nat
  /\ NumFds \in Nat \ {0} /\ NumConns \in Nat /\ MaxStops \in Nat

Slots == 1..MaxClients
Fds   == 1..NumFds
Conns == 1..NumConns
None  == 0            \* the -1 of a socket variable

\* What a descriptor refers to when it is not a connection: nothing, the
\* server's listening socket, or a socket of another task.
Free      == 0
Listening == -1
Foreign   == -2

VARIABLES
  fd,        \* what each descriptor refers to: Free, Listening, Foreign or a connection
  dead,      \* connections shut down by either side
  slots,     \* clients[]: the socket of each slot in use, None otherwise
  count,     \* tcp_client_count
  mutex,     \* holder of clients_mutex: "none", "heartbeat" or "sender"
  queue,     \* socket_cleanup_queue
  cleaning,  \* the descriptor socket_cleanup_task has shut down and will close
  acceptor,  \* tcp_server_task: pc, its listen_sock, the client being admitted
  listen,    \* s_tcp_server_listen_sock
  handle,    \* xHandleTaskTCPServer # NULL
  stopReq,   \* s_tcp_server_stop_requested
  leaving,   \* a tcp_server_task past "handle = NULL", yet to reset stopReq
  task,      \* handle_client_task of each connection: pc, slot, sock
  walker,    \* the heartbeat and the sender walking the slots: pc, slot, sock
  ctl,       \* the caller of start_tcp_server and stop_tcp_server
  closing,   \* sockets_to_close: those of each slot that close_all_clients has yet to close
  stops,     \* calls of stop_tcp_server so far
  conns      \* connections made so far

sockVars  == <<fd, dead, queue, cleaning>>
tableVars == <<slots, count>>
runVars   == <<acceptor, listen, handle, stopReq, leaving>>
ctlVars   == <<ctl, closing, stops>>
vars      == <<sockVars, tableVars, mutex, runVars, task, walker, ctlVars, conns>>

Walkers == {"heartbeat", "sender"}

Used == {i \in Slots : slots[i] # None}

ConnOf(f) == IF f # None /\ fd[f] \in Conns THEN {fd[f]} ELSE {}

\* The descriptor the next socket or accept call returns.
Lowest(f) == fd[f] = Free /\ \A g \in Fds : g < f => fd[g] # Free

NoAcceptor == [pc |-> "none", listen |-> None, sock |-> None, conn |-> 0, slot |-> 0]
Nobody     == [i \in Slots |-> None]
AtRest     == [pc |-> "idle", slot |-> 0, sock |-> None]

Init ==
  /\ fd = [f \in Fds |-> Free] /\ dead = {}
  /\ slots = Nobody /\ count = 0
  /\ mutex = "none"
  /\ queue = <<>> /\ cleaning = None
  /\ acceptor = NoAcceptor
  /\ listen = None /\ handle = FALSE /\ stopReq = FALSE /\ leaving = FALSE
  /\ task = [c \in Conns |-> [pc |-> "none", slot |-> 0, sock |-> None]]
  /\ walker = [w \in Walkers |-> [pc |-> "none", slot |-> 0, sock |-> None]]
  /\ ctl = "stopped" /\ closing = Nobody /\ stops = 0 /\ conns = 0

-----------------------------------------------------------------------------
(* Closing sockets.                                                         *)

\* safe_close_socket: a descriptor that is not open is skipped, a full queue
\* closes at once.
SafeClose(f) ==
  /\ IF f = None \/ fd[f] = Free THEN UNCHANGED <<fd, dead, queue>>
     ELSE IF Len(queue) < CleanupLen
          THEN queue' = Append(queue, f) /\ UNCHANGED <<fd, dead>>
          ELSE /\ fd' = [fd EXCEPT ![f] = Free]
               /\ dead' = dead \cup ConnOf(f)
               /\ UNCHANGED queue
  /\ UNCHANGED cleaning

CleanupShuts ==
  /\ cleaning = None /\ queue # <<>>
  /\ cleaning' = Head(queue) /\ queue' = Tail(queue)
  /\ dead' = dead \cup ConnOf(Head(queue))
  /\ UNCHANGED <<fd, tableVars, mutex, runVars, task, walker, ctlVars, conns>>

CleanupCloses ==
  /\ cleaning # None
  /\ fd' = [fd EXCEPT ![cleaning] = Free]
  /\ cleaning' = None
  /\ UNCHANGED <<dead, queue, tableVars, mutex, runVars, task, walker, ctlVars, conns>>

\* Bug: the slot is marked free, but its connection is not counted out.
FreeSlotUncounted(i) == slots' = [slots EXCEPT ![i] = None] /\ UNCHANGED count

\* The three places that take a client out of the table, with the mutex held.
FreeSlot(i) == slots' = [slots EXCEPT ![i] = None] /\ count' = count - 1

-----------------------------------------------------------------------------
(* tcp_server_task                                                          *)

At(pc) == acceptor' = [acceptor EXCEPT !.pc = pc]

\* socket, bind and listen; a failed bind or listen goes to CLEAN_UP, and
\* without a descriptor the task ends at once.
OpenListen ==
  /\ acceptor.pc = "open"
  /\ \E f \in Fds, ok \in BOOLEAN :
       /\ Lowest(f)
       /\ fd' = [fd EXCEPT ![f] = Listening]
       /\ listen' = f
       /\ acceptor' = [acceptor EXCEPT !.pc = IF ok THEN "accept" ELSE "clean_up",
                                      !.listen = f]
  /\ UNCHANGED <<dead, queue, cleaning, tableVars, mutex, handle, stopReq, leaving,
                 task, walker, ctlVars, conns>>

NoListenSocket ==
  /\ acceptor.pc = "open" /\ \A f \in Fds : fd[f] # Free
  /\ acceptor' = NoAcceptor /\ handle' = FALSE
  /\ UNCHANGED <<sockVars, tableVars, mutex, listen, stopReq, leaving, task, walker,
                 ctlVars, conns>>

\* A client connects and accept returns its socket; tcp_server_can_accept_client
\* (heap and count, read without the mutex) may refuse it.
Accept ==
  /\ acceptor.pc = "accept" /\ fd[acceptor.listen] = Listening
  /\ conns < NumConns /\ conns' = conns + 1
  /\ \E f \in Fds, enough \in BOOLEAN :
       /\ Lowest(f)
       /\ fd' = [fd EXCEPT ![f] = conns']
       /\ acceptor' = [acceptor EXCEPT !.sock = f, !.conn = conns',
                           !.pc = IF enough /\ count < MaxClients THEN "add" ELSE "reject"]
  /\ UNCHANGED <<dead, queue, cleaning, tableVars, mutex, listen, handle, stopReq,
                 leaving, task, walker, ctlVars>>

\* while (!stop_requested): also how a failed accept ends the loop.
AcceptStops ==
  /\ acceptor.pc = "accept" /\ stopReq
  /\ At("clean_up")
  /\ UNCHANGED <<sockVars, tableVars, mutex, listen, handle, stopReq, leaving, task,
                 walker, ctlVars, conns>>

Reject ==
  /\ acceptor.pc = "reject"
  /\ SafeClose(acceptor.sock)
  /\ At("accept")
  /\ UNCHANGED <<tableVars, mutex, listen, handle, stopReq, leaving, task, walker,
                 ctlVars, conns>>

\* add_client: the first free slot, or none.
AddClient ==
  /\ acceptor.pc = "add" /\ mutex = "none"
  /\ \/ Used = Slots /\ At("reject") /\ UNCHANGED tableVars
     \/ \E i \in Slots \ Used :
          /\ \A j \in Slots \ Used : i <= j
          /\ slots' = [slots EXCEPT ![i] = acceptor.sock]
          /\ count' = count + 1
          /\ acceptor' = [acceptor EXCEPT !.pc = "spawn", !.slot = i]
  /\ UNCHANGED <<sockVars, mutex, listen, handle, stopReq, leaving, task, walker,
                 ctlVars, conns>>

Spawn ==
  /\ acceptor.pc = "spawn"
  /\ task' = [task EXCEPT ![acceptor.conn] =
                 [pc |-> "start", slot |-> acceptor.slot, sock |-> None]]
  /\ At("accept")
  /\ UNCHANGED <<sockVars, tableVars, mutex, listen, handle, stopReq, leaving, walker,
                 ctlVars, conns>>

\* Bug: the slot keeps its socket after the socket was handed to be closed.
RemoveKeepsSlot(i) ==
  /\ mutex = "none"
  /\ IF i \in Used THEN SafeClose(slots[i]) /\ count' = count - 1 /\ UNCHANGED slots
                   ELSE UNCHANGED <<sockVars, tableVars>>

\* remove_client(i): whoever is in the slot now.
Remove(i) ==
  /\ mutex = "none"
  /\ IF i \in Used THEN FreeSlot(i) /\ SafeClose(slots[i])
                   ELSE UNCHANGED <<sockVars, tableVars>>

SpawnFails ==
  /\ acceptor.pc = "spawn"
  /\ Remove(acceptor.slot)
  /\ At("accept")
  /\ UNCHANGED <<mutex, listen, handle, stopReq, leaving, task, walker, ctlVars, conns>>

CleanUp ==
  /\ acceptor.pc = "clean_up"
  /\ SafeClose(acceptor.listen)
  /\ acceptor' = NoAcceptor
  /\ listen' = None /\ handle' = FALSE /\ leaving' = TRUE
  /\ UNCHANGED <<tableVars, mutex, stopReq, task, walker, ctlVars, conns>>

\* The last assignment of tcp_server_task comes after the handle is cleared.
Leave ==
  /\ leaving
  /\ leaving' = FALSE /\ stopReq' = FALSE
  /\ UNCHANGED <<sockVars, tableVars, mutex, acceptor, listen, handle, task, walker,
                 ctlVars, conns>>

Acceptor == \/ OpenListen \/ NoListenSocket \/ AcceptStops \/ Reject \/ AddClient
            \/ Spawn \/ SpawnFails \/ CleanUp \/ Leave

-----------------------------------------------------------------------------
(* handle_client_task                                                       *)

ReadSocket(c) ==
  /\ task[c].pc = "start" /\ mutex = "none"
  /\ task' = [task EXCEPT ![c].sock = slots[task[c].slot],
                          ![c].pc = IF slots[task[c].slot] = None THEN "remove" ELSE "recv"]
  /\ UNCHANGED <<sockVars, tableVars, mutex, runVars, walker, ctlVars, conns>>

\* recv returns 0 or an error: the connection behind the descriptor is gone.
RecvEnds(c) ==
  /\ task[c].pc = "recv"
  /\ fd[task[c].sock] \notin Conns \/ fd[task[c].sock] \in dead
  /\ task' = [task EXCEPT ![c].pc = "remove"]
  /\ UNCHANGED <<sockVars, tableVars, mutex, runVars, walker, ctlVars, conns>>

ClientEnds(c) ==
  /\ task[c].pc = "remove"
  /\ Remove(task[c].slot)
  /\ task' = [task EXCEPT ![c].pc = "done"]
  /\ UNCHANGED <<mutex, runVars, walker, ctlVars, conns>>

ClientTask == \E c \in Conns : ReadSocket(c) \/ RecvEnds(c) \/ ClientEnds(c)

-----------------------------------------------------------------------------
(* tcp_server_heartbeat_task and tcpserver_message: both send to every slot *)
(* with the mutex held, and free the slot of a failed send.                 *)

Walk(w, pc, i) == walker' = [walker EXCEPT ![w] = [pc |-> pc, slot |-> i, sock |-> None]]

WalkStarts(w) ==
  /\ walker[w].pc = "idle" /\ mutex = "none"
  /\ mutex' = w
  /\ Walk(w, "send", 1)
  /\ UNCHANGED <<sockVars, tableVars, runVars, task, ctlVars, conns>>

WalkSends(w) ==
  /\ walker[w].pc = "send" /\ mutex = w /\ walker[w].slot \in Slots
  /\ LET i == walker[w].slot
         ok == i \notin Used \/ ConnOf(slots[i]) \cap dead = {}
     IN  IF ok THEN Walk(w, "send", i + 1) /\ UNCHANGED <<tableVars, mutex>>
         ELSE /\ FreeSlot(i)
              /\ walker' = [walker EXCEPT ![w].pc = "close", ![w].sock = slots[i]]
              /\ mutex' = "none"
  /\ UNCHANGED <<sockVars, runVars, task, ctlVars, conns>>

WalkCloses(w) ==
  /\ walker[w].pc = "close"
  /\ SafeClose(walker[w].sock)
  /\ Walk(w, "relock", walker[w].slot + 1)
  /\ UNCHANGED <<tableVars, mutex, runVars, task, ctlVars, conns>>

WalkResumes(w) ==
  /\ walker[w].pc = "relock" /\ mutex = "none"
  /\ mutex' = w
  /\ Walk(w, "send", walker[w].slot)
  /\ UNCHANGED <<sockVars, tableVars, runVars, task, ctlVars, conns>>

\* The sender waits 1 s only, then returns and gives a mutex it does not hold:
\* FreeRTOS asserts and the device restarts, so nothing more is said of it.
SenderTimesOut ==
  /\ walker["sender"].pc = "relock" /\ mutex # "none"
  /\ Walk("sender", "panic", 0)
  /\ UNCHANGED <<sockVars, tableVars, mutex, runVars, task, ctlVars, conns>>

WalkEnds(w) ==
  /\ walker[w].pc = "send" /\ mutex = w /\ walker[w].slot \notin Slots
  /\ mutex' = "none"
  /\ Walk(w, "idle", 0)
  /\ UNCHANGED <<sockVars, tableVars, runVars, task, ctlVars, conns>>

Walker == \E w \in Walkers : WalkSends(w) \/ WalkCloses(w) \/ WalkResumes(w) \/ WalkEnds(w)

-----------------------------------------------------------------------------
(* start_tcp_server and stop_tcp_server, called by the protocol manager.    *)

Start ==
  /\ ctl = "stopped"
  /\ ctl' = "running"
  /\ IF handle THEN UNCHANGED <<slots, walker, acceptor, handle, stopReq>>
     ELSE /\ stopReq' = FALSE /\ handle' = TRUE
          /\ slots' = Nobody
          /\ walker' = [w \in Walkers |->
                          IF walker[w].pc = "none" THEN AtRest ELSE walker[w]]
          /\ acceptor' = [NoAcceptor EXCEPT !.pc = "open"]
  /\ UNCHANGED <<sockVars, count, mutex, listen, leaving, task, closing, stops, conns>>

StopListening ==
  /\ ctl = "running" /\ stops < MaxStops
  /\ ctl' = "close_all" /\ stops' = stops + 1
  /\ stopReq' = TRUE
  /\ fd' = IF listen = None THEN fd ELSE [fd EXCEPT ![listen] = Free]
  /\ listen' = None
  /\ UNCHANGED <<dead, queue, cleaning, tableVars, mutex, acceptor, handle, leaving,
                 task, walker, closing, conns>>

\* close_all_clients collects the sockets under the mutex and closes them
\* after; if the mutex stays taken for 1 s it does neither.
CollectAll ==
  /\ ctl = "close_all"
  /\ ctl' = "close"
  /\ IF mutex = "none"
     THEN closing' = slots /\ slots' = Nobody /\ count' = 0
     ELSE UNCHANGED <<closing, tableVars>>
  /\ UNCHANGED <<sockVars, mutex, runVars, task, walker, stops, conns>>

CloseCollected ==
  /\ ctl = "close"
  /\ \E i \in Slots :
       /\ closing[i] # None /\ \A j \in Slots : j < i => closing[j] = None
       /\ SafeClose(closing[i])
       /\ closing' = [closing EXCEPT ![i] = None]
  /\ UNCHANGED <<tableVars, mutex, runVars, task, walker, ctl, stops, conns>>

\* vTaskDelete of the heartbeat, wherever it is, whatever it holds.
DeleteHeartbeat ==
  /\ ctl = "close" /\ closing = Nobody
  /\ ctl' = "stopped"
  /\ walker' = [walker EXCEPT !["heartbeat"] = [AtRest EXCEPT !.pc = "none"]]
  /\ UNCHANGED <<sockVars, tableVars, mutex, runVars, task, closing, stops, conns>>

Stopping == CollectAll \/ CloseCollected \/ DeleteHeartbeat

Control == Start \/ StopListening \/ Stopping

-----------------------------------------------------------------------------
(* The peers and the rest of the device (external).                         *)

PeerCloses ==
  /\ \E c \in Conns \ dead : (\E f \in Fds : fd[f] = c) /\ dead' = dead \cup {c}
  /\ UNCHANGED <<fd, queue, cleaning, tableVars, mutex, runVars, task, walker, ctlVars, conns>>

\* Another task of the device opens a socket and keeps it.
ForeignOpens ==
  /\ \A f \in Fds : fd[f] # Foreign
  /\ \E f \in Fds : Lowest(f) /\ fd' = [fd EXCEPT ![f] = Foreign]
  /\ UNCHANGED <<dead, queue, cleaning, tableVars, mutex, runVars, task, walker, ctlVars, conns>>

Next ==
  \/ Acceptor \/ Accept \/ ClientTask \/ Walker \/ SenderTimesOut \/ (\E w \in Walkers : WalkStarts(w))
  \/ CleanupShuts \/ CleanupCloses \/ Control \/ PeerCloses \/ ForeignOpens

Spec == Init /\ [][Next]_vars

-----------------------------------------------------------------------------
(* Properties                                                               *)

\* The count never falls below the clients in the table, and equals it until
\* the server is stopped for the first time: the table is never over-filled and
\* no capacity is lost (tcp_client_count is kept apart from clients[]).
CountHonest ==
  /\ count >= Cardinality(Used)
  /\ stops = 0 => count = Cardinality(Used)

\* How many owners will close the descriptor.
Owners(f) ==
  LET In(q) == Cardinality({i \in DOMAIN q : q[i] = f})
  IN  In(slots) + In(queue) + In(closing) + (IF cleaning = f THEN 1 ELSE 0)
      + Cardinality({w \in Walkers : walker[w].pc = "close" /\ walker[w].sock = f})
      + (IF acceptor.pc \in {"add", "reject"} /\ acceptor.sock = f THEN 1 ELSE 0)

\* A descriptor never has two owners who will close it, even across a stop and
\* a restart; the listening socket always has one, and until the first stop so
\* has every client's, so nothing is closed twice and nothing is leaked
\* (safe_close_socket, remove_client, close_all_clients).
OneOwner ==
  \A f \in Fds :
    /\ Owners(f) <= 1
    /\ fd[f] = Listening => (Owners(f) = 1) # (acceptor.listen = f)
    /\ fd[f] \in Conns /\ stops = 0 => Owners(f) = 1

\* "verify that the socket is still valid, to avoid a double close"
\* (sx_tcp_server.c:83): the server never closes a descriptor that by now
\* belongs to somebody else.
ForeignSocketsUntouched ==
  [][\A f \in Fds : fd[f] = Foreign => fd'[f] = Foreign]_vars
=============================================================================

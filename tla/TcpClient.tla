------------------------------ MODULE TcpClient ------------------------------
(***************************************************************************)
(* main/protocols/sx_tcp_client.c.                                         *)
(*                                                                         *)
(* tcp_client connects, receives and reconnects for ever; a heartbeat task *)
(* sends on the same socket; the protocol manager starts and stops them.   *)
(* The socket (global_client_sock), the stop flag and the task handles are *)
(* plain globals.  A stop closes the socket and leaves the task to notice; *)
(* a start is ignored while a handle is left.  lwIP reuses the lowest free *)
(* descriptor, for every task of the device.                               *)
(***************************************************************************)
EXTENDS Naturals, FiniteSets

CONSTANTS
  NumFds,       \* socket descriptors of the device
  MaxStops,     \* bound on the calls of stop_tcp_client
  MaxChanges    \* bound on the failures and returns of the remote server

ASSUME ClientAssumption ==
  NumFds \in Nat \ {0} /\ MaxStops \in Nat /\ MaxChanges \in Nat

Fds  == 1..NumFds
None == 0             \* the -1 of a socket variable

VARIABLES
  fd,        \* each descriptor: "free", "new", "open", "dead" (the client's) or "foreign"
  pc,        \* where tcp_client is
  sock,      \* its local sock
  global,    \* global_client_sock
  conn,      \* tcp_server_conn
  handle,    \* xHandleTaskTCPClient # NULL
  stopReq,   \* s_tcp_client_stop_requested
  leaving,   \* a tcp_client past "handle = NULL", yet to reset stopReq
  beat,      \* tcp_heartbeat_task: its pc and its sock
  beatHandle,\* xHandleTaskTCPHeartbeat: "null", "live" or "stale" (that task is gone)
  noBeat,    \* this connection got no heartbeat, nor was one at work on its socket
  mutex,     \* tcp_send_mutex: "free", "beat" or "orphan" (its holder was deleted)
  ctl,       \* the caller of start_tcp_client and stop_tcp_client
  stops,     \* calls of stop_tcp_client so far
  ignored,   \* the last start created no task
  overlap,   \* a start found the previous task about to reset stopReq
  up,        \* the remote server accepts connections
  changes    \* its failures and returns so far

taskVars == <<pc, sock, leaving>>
flagVars == <<global, conn, handle, stopReq>>
beatVars == <<beat, beatHandle, noBeat, mutex>>
ctlVars  == <<ctl, stops, ignored, overlap>>
envVars  == <<up, changes>>
vars     == <<fd, taskVars, flagVars, beatVars, ctlVars, envVars>>

Client == {"new", "open", "dead"}

\* The descriptor the next socket call returns.
Lowest(f) == fd[f] = "free" /\ \A g \in Fds : g < f => fd[g] # "free"

\* close(f), whoever the descriptor belongs to by now.
Closed(f) == IF f = None THEN fd ELSE [fd EXCEPT ![f] = "free"]

Init ==
  /\ fd = [f \in Fds |-> "free"]
  /\ pc = "none" /\ sock = None /\ leaving = FALSE
  /\ global = None /\ conn = FALSE /\ handle = FALSE /\ stopReq = FALSE
  /\ beat = [pc |-> "none", sock |-> None] /\ beatHandle = "null" /\ noBeat = FALSE
  /\ mutex = "free"
  /\ ctl = "stopped" /\ stops = 0 /\ ignored = FALSE /\ overlap = FALSE
  /\ up \in BOOLEAN /\ changes = 0

-----------------------------------------------------------------------------
(* tcp_client                                                               *)

Step(from, to) == pc = from /\ pc' = to

\* Bug: the stop request is looked at inside the inner loop only.
LoopForever ==
  /\ Step("loop", "socket")
  /\ UNCHANGED <<fd, sock, leaving, flagVars, beatVars, ctlVars, envVars>>

\* while (!stop_requested), at the top and after every delay.
Loop ==
  /\ Step("loop", IF stopReq THEN "exit" ELSE "socket")
  /\ UNCHANGED <<fd, sock, leaving, flagVars, beatVars, ctlVars, envVars>>

Socket ==
  /\ \E f \in Fds :
       /\ Lowest(f) /\ Step("socket", "connect")
       /\ fd' = [fd EXCEPT ![f] = "new"] /\ sock' = f /\ global' = f
  /\ UNCHANGED <<leaving, conn, handle, stopReq, beatVars, ctlVars, envVars>>

NoSocket ==
  /\ \A f \in Fds : fd[f] # "free"
  /\ Step("socket", "loop")
  /\ global' = None /\ sock' = None
  /\ UNCHANGED <<fd, leaving, conn, handle, stopReq, beatVars, ctlVars, envVars>>

Connects ==
  /\ Step("connect", "connected")
  /\ fd[sock] = "new" /\ up
  /\ fd' = [fd EXCEPT ![sock] = "open"]
  /\ UNCHANGED <<sock, leaving, flagVars, beatVars, ctlVars, envVars>>

ConnectFails ==
  /\ Step("connect", "gone")
  /\ fd[sock] # "new" \/ ~up
  /\ UNCHANGED <<fd, sock, leaving, flagVars, beatVars, ctlVars, envVars>>

\* The registration packet, then a heartbeat unless a handle is left; its
\* task may not be created.
Connected ==
  /\ Step("connected", "check")
  /\ conn' = TRUE
  /\ \/ /\ beatHandle = "null"
        /\ beat' = [pc |-> "start", sock |-> None] /\ beatHandle' = "live"
        /\ noBeat' = FALSE
     \/ /\ noBeat' = (beat.pc # "start" /\ ~(beat.pc \in {"take", "send", "sleep"} /\ beat.sock = sock))
        /\ UNCHANGED <<beat, beatHandle>>
  /\ UNCHANGED <<fd, sock, leaving, global, handle, stopReq, mutex, ctlVars, envVars>>

\* while (tcp_server_conn && !stop_requested)
CheckConn ==
  /\ Step("check", IF conn /\ ~stopReq THEN "call" ELSE "loop")
  /\ UNCHANGED <<fd, sock, leaving, flagVars, beatVars, ctlVars, envVars>>

\* recv waits on whatever the number refers to when it is called: after a
\* stop has closed it, perhaps another task's socket.
RecvCalls ==
  /\ Step("call", IF fd[sock] = "foreign" THEN "foreign" ELSE "recv")
  /\ UNCHANGED <<fd, sock, leaving, flagVars, beatVars, ctlVars, envVars>>

RecvForeign ==
  /\ Step("foreign", "check") \/ Step("foreign", "gone")
  /\ UNCHANGED <<fd, sock, leaving, flagVars, beatVars, ctlVars, envVars>>

RecvData ==
  /\ Step("recv", "check") /\ fd[sock] = "open"
  /\ UNCHANGED <<fd, sock, leaving, flagVars, beatVars, ctlVars, envVars>>

\* recv returns 0 or an error.
RecvEnds ==
  /\ Step("recv", "gone") /\ fd[sock] # "open"
  /\ UNCHANGED <<fd, sock, leaving, flagVars, beatVars, ctlVars, envVars>>

\* if (!stop_requested) close(sock): a stop closes it itself.
Gone ==
  /\ Step("gone", IF stopReq THEN "clear" ELSE "close")
  /\ UNCHANGED <<fd, sock, leaving, flagVars, beatVars, ctlVars, envVars>>

\* Bug: a failed connect is not closed.
CloseReceiverOnly ==
  /\ Step("close", "clear")
  /\ fd' = IF fd[sock] = "new" THEN fd ELSE Closed(sock)
  /\ UNCHANGED <<sock, leaving, flagVars, beatVars, ctlVars, envVars>>

Close ==
  /\ Step("close", "clear")
  /\ fd' = Closed(sock)
  /\ UNCHANGED <<sock, leaving, flagVars, beatVars, ctlVars, envVars>>

\* Bug: a lost connection ends the task.
ClearAndExit ==
  /\ Step("clear", "exit")
  /\ global' = None /\ conn' = FALSE
  /\ UNCHANGED <<fd, sock, leaving, handle, stopReq, beatVars, ctlVars, envVars>>

Clear ==
  /\ Step("clear", "loop")
  /\ global' = None /\ conn' = FALSE
  /\ UNCHANGED <<fd, sock, leaving, handle, stopReq, beatVars, ctlVars, envVars>>

Exit ==
  /\ Step("exit", IF global # None THEN "exit_close" ELSE "leave")
  /\ UNCHANGED <<fd, sock, leaving, flagVars, beatVars, ctlVars, envVars>>

ExitCloses ==
  /\ Step("exit_close", "leave")
  /\ fd' = Closed(global) /\ global' = None
  /\ UNCHANGED <<sock, leaving, conn, handle, stopReq, beatVars, ctlVars, envVars>>

\* Bug: the connection is still reported when the task is gone.
LeaveConnected ==
  /\ Step("leave", "none")
  /\ sock' = None /\ handle' = FALSE /\ leaving' = TRUE
  /\ UNCHANGED <<fd, global, conn, stopReq, beatVars, ctlVars, envVars>>

Leave ==
  /\ Step("leave", "none")
  /\ sock' = None /\ conn' = FALSE /\ handle' = FALSE /\ leaving' = TRUE
  /\ UNCHANGED <<fd, global, stopReq, beatVars, ctlVars, envVars>>

\* The last assignment comes after the handle is cleared.
Reset ==
  /\ leaving
  /\ leaving' = FALSE /\ stopReq' = FALSE
  /\ UNCHANGED <<fd, pc, sock, global, conn, handle, beatVars, ctlVars, envVars>>

Task == \/ Loop \/ Socket \/ NoSocket \/ Connects \/ ConnectFails \/ Connected \/ CheckConn
        \/ RecvCalls \/ RecvEnds \/ Gone \/ Close \/ Clear \/ Exit \/ ExitCloses \/ Leave \/ Reset

-----------------------------------------------------------------------------
(* tcp_heartbeat_task, with a packet configured.                            *)

\* It ends leaving its handle set: NVS does not open, or the socket is gone.
BeatDies == beat' = [pc |-> "none", sock |-> None] /\ beatHandle' = "stale"

\* The socket is read when the task first runs, not when it is created.
BeatStarts ==
  /\ beat.pc = "start"
  /\ \/ beat' = [pc |-> "take", sock |-> global] /\ UNCHANGED beatHandle
     \/ BeatDies
  /\ UNCHANGED <<fd, taskVars, flagVars, noBeat, mutex, ctlVars, envVars>>

BeatTakes ==
  /\ beat.pc = "take" /\ mutex = "free"
  /\ mutex' = "beat"
  /\ beat' = [beat EXCEPT !.pc = "send"]
  /\ UNCHANGED <<fd, taskVars, flagVars, beatHandle, noBeat, ctlVars, envVars>>

\* Only an open connection takes the packet; ENOTCONN, EBADF, EPIPE and
\* ECONNRESET end the task.
BeatSends ==
  /\ beat.pc = "send"
  /\ mutex' = "free"
  /\ \/ /\ beat.sock # None /\ fd[beat.sock] \in {"open", "foreign"}
        /\ beat' = [beat EXCEPT !.pc = "sleep"] /\ UNCHANGED beatHandle
     \/ beat.sock = None /\ BeatDies
     \/ beat.sock # None /\ fd[beat.sock] # "open" /\ BeatDies
  /\ UNCHANGED <<fd, taskVars, flagVars, noBeat, ctlVars, envVars>>

\* Bug: the comparison of the sockets is inverted.
BeatWakesInverted ==
  /\ beat.pc = "sleep"
  /\ beat' = [beat EXCEPT !.pc = IF conn /\ beat.sock # global THEN "take" ELSE "ending"]
  /\ UNCHANGED <<fd, taskVars, flagVars, beatHandle, noBeat, mutex, ctlVars, envVars>>

BeatWakes ==
  /\ beat.pc = "sleep"
  /\ beat' = [beat EXCEPT !.pc = IF conn /\ beat.sock = global THEN "take" ELSE "ending"]
  /\ UNCHANGED <<fd, taskVars, flagVars, beatHandle, noBeat, mutex, ctlVars, envVars>>

BeatEnds ==
  /\ beat.pc = "ending"
  /\ beat' = [pc |-> "none", sock |-> None] /\ beatHandle' = "null"
  /\ UNCHANGED <<fd, taskVars, flagVars, noBeat, mutex, ctlVars, envVars>>

Heartbeat == BeatStarts \/ BeatTakes \/ BeatSends \/ BeatWakes \/ BeatEnds

-----------------------------------------------------------------------------
(* start_tcp_client and stop_tcp_client, called by the protocol manager.    *)

\* A start creates no task if a handle is left or no memory is.
Start ==
  /\ ctl = "stopped" /\ ctl' = "started"
  /\ IF handle
     THEN ignored' = TRUE /\ UNCHANGED <<pc, handle, stopReq, overlap>>
     ELSE /\ stopReq' = FALSE
          /\ \/ ignored' = FALSE /\ pc' = "loop" /\ handle' = TRUE
                /\ overlap' = (overlap \/ leaving)
             \/ ignored' = TRUE /\ UNCHANGED <<pc, handle, overlap>>
  /\ UNCHANGED <<fd, sock, leaving, global, conn, beatVars, stops, envVars>>

Stop ==
  /\ ctl = "started" /\ stops < MaxStops
  /\ ctl' = "look" /\ stops' = stops + 1
  /\ stopReq' = TRUE /\ conn' = FALSE
  /\ UNCHANGED <<fd, taskVars, global, handle, beatVars, ignored, overlap, envVars>>

StopLooks ==
  /\ ctl = "look"
  /\ ctl' = IF global # None THEN "close" ELSE "delete"
  /\ UNCHANGED <<fd, taskVars, flagVars, beatVars, stops, ignored, overlap, envVars>>

StopCloses ==
  /\ ctl = "close" /\ ctl' = "clear"
  /\ fd' = Closed(global)
  /\ UNCHANGED <<taskVars, flagVars, beatVars, stops, ignored, overlap, envVars>>

StopClears ==
  /\ ctl = "clear" /\ ctl' = "delete"
  /\ global' = None
  /\ UNCHANGED <<fd, taskVars, conn, handle, stopReq, beatVars, stops, ignored, overlap, envVars>>

\* vTaskDelete of the heartbeat wherever it is, whatever it holds.
DeleteHeartbeat ==
  /\ ctl = "delete" /\ ctl' = "stopped"
  /\ IF beatHandle = "null" THEN UNCHANGED beatVars
     ELSE /\ beat' = [pc |-> "none", sock |-> None] /\ beatHandle' = "null"
          /\ mutex' = IF mutex = "beat" THEN "orphan" ELSE mutex
          /\ UNCHANGED noBeat
  /\ UNCHANGED <<fd, taskVars, flagVars, stops, ignored, overlap, envVars>>

Stopping == StopLooks \/ StopCloses \/ StopClears \/ DeleteHeartbeat

-----------------------------------------------------------------------------
(* The remote server and the rest of the device (external).                 *)

ServerChanges ==
  /\ changes < MaxChanges /\ changes' = changes + 1
  /\ up' = ~up
  /\ fd' = [f \in Fds |-> IF up /\ fd[f] = "open" THEN "dead" ELSE fd[f]]
  /\ UNCHANGED <<taskVars, flagVars, beatVars, ctlVars>>

ForeignOpens ==
  /\ \A f \in Fds : fd[f] # "foreign"
  /\ \E f \in Fds : Lowest(f) /\ fd' = [fd EXCEPT ![f] = "foreign"]
  /\ UNCHANGED <<taskVars, flagVars, beatVars, ctlVars, envVars>>

Next == Task \/ RecvData \/ RecvForeign \/ Heartbeat \/ Start \/ Stop \/ Stopping \/ ServerChanges \/ ForeignOpens

Spec == Init /\ [][Next]_vars

\* Every task is scheduled and a stop runs to its end.  Nothing obliges the
\* manager to start or stop, nor the server to come back.
Fairness == WF_vars(Task) /\ WF_vars(Reset) /\ WF_vars(Heartbeat) /\ WF_vars(Stopping)

FairSpec == Spec /\ Fairness

-----------------------------------------------------------------------------
(* Properties                                                               *)

\* Once the task is gone no connection is reported and no socket is left in
\* global_client_sock, whatever a stop did meanwhile (sx_tcp_client.c:613-620).
NoTaskNoConnection == pc = "none" => ~conn /\ global = None

\* The descriptor the task still answers for.
Answered == (IF pc \in {"connect", "connected", "check", "call", "recv", "gone", "close"}
             THEN {sock} ELSE {}) \cup {global}

\* Reconnecting leaks no socket, however often it fails; a stop requested
\* between the end of a connection or a failed connect and the look at the
\* stop flag (lines 552, 578, 587) leaks at most one.
LeaksOnlyByStop == Cardinality({f \in Fds : fd[f] \in Client} \ Answered) <= stops

\* A stop takes effect: the task ends, unless it was created while its
\* predecessor was about to withdraw the stop request (line 621), or came to
\* recv after the stop had given its socket's number away (lines 574-575).
StopsCompletely ==
  ctl = "stopped" ~> (pc \in {"none", "foreign"} \/ ctl # "stopped" \/ overlap)

\* While the client is ordered to run and the server stays up it ends up
\* connected and reported so, unless its start was ignored because the
\* previous task had not finished (line 626) or descriptors ran out.
Reconnects ==
  <>[](ctl = "started" /\ up) =>
    <>[]((pc \in {"check", "call", "recv"} /\ conn) \/ ignored \/ \A f \in Fds : fd[f] # "free")

\* A connection that lasts keeps getting heartbeats, unless an earlier
\* heartbeat ended without clearing its handle (lines 272, 400, 423), a stop
\* deleted one that held tcp_send_mutex (line 647), none was created because
\* the previous connection's was about to end (line 569), or a stop deleted it
\* and did not stop the task.
HeartbeatFollows ==
  <>[](pc \in {"check", "call", "recv"} /\ conn) =>
    \/ []<>(beat.pc = "sleep" /\ beat.sock = sock)
    \/ <>[](beatHandle = "stale" \/ mutex = "orphan" \/ noBeat \/ overlap)
=============================================================================

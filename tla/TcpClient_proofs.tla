-------------------------- MODULE TcpClient_proofs --------------------------
(* Proofs about TcpClient, for any number of descriptors, stops and changes   *)
(* of the remote server.                                                      *)
EXTENDS TcpClient, FiniteSetTheorems, TLAPS

FdStates == {"free", "new", "open", "dead", "foreign"}

-----------------------------------------------------------------------------
(* The inductive invariant.                                                   *)

\* A task exists as long as its handle is set.
Shape ==
  /\ fd \in [Fds -> FdStates]
  /\ sock \in Fds \cup {None} /\ global \in Fds \cup {None}
  /\ stops \in Nat
  /\ handle <=> pc # "none"

\* A task that leaves has closed its socket, and a task that is gone reports
\* no connection.
LeavesNothing ==
  /\ pc \in {"none", "leave"} => global = None
  /\ pc = "none" => ~conn

\* The sockets of the client that its task will not close itself.
Busy == {"connect", "connected", "check", "call", "recv", "gone", "close"}
Lost == {f \in Fds : fd[f] \in Client /\ ~(pc \in Busy /\ f = sock)}

\* The task is where a stop makes it forget the socket that it has.
MayLose ==
  \/ pc \in {"socket", "connect", "connected", "gone"} /\ stopReq
  \/ pc \in {"check", "call", "recv", "foreign"} /\ (stopReq \/ ~conn)

\* Every stop accounts for one socket that is lost or may be.
LossesCounted ==
  /\ Cardinality(Lost) <= stops
  /\ MayLose => Cardinality(Lost) + 1 <= stops

IInv == Shape /\ LeavesNothing /\ LossesCounted

\* There are finitely many descriptors.
LEMMA LostFinite == IsFiniteSet(Lost) /\ Cardinality(Lost) \in Nat
<1>1. IsFiniteSet(Fds)
  BY FS_Interval, ClientAssumption DEF Fds
<1> QED
  BY <1>1, FS_Subset, FS_CardinalityType DEF Lost

\* The same after a step.
LEMMA LostFiniteNext == IsFiniteSet(Lost') /\ Cardinality(Lost') \in Nat
<1>1. IsFiniteSet(Fds)
  BY FS_Interval, ClientAssumption DEF Fds
<1>2. Lost' \subseteq Fds
  BY DEF Lost
<1> QED
  BY <1>1, <1>2, FS_Subset, FS_CardinalityType

\* Nothing is lost in the initial state.
LEMMA InitIInv == Init => IInv
<1> SUFFICES ASSUME Init PROVE IInv
  OBVIOUS
<1>1. Shape /\ LeavesNothing /\ ~MayLose
  BY DEF Init, Shape, LeavesNothing, MayLose, FdStates
<1>2. Lost = {}
  BY DEF Init, Lost, Client
<1>3. Cardinality(Lost) = 0
  BY <1>2, FS_EmptySet
<1> QED
  BY <1>1, <1>3 DEF Init, IInv, LossesCounted

-----------------------------------------------------------------------------
(* The steps.                                                                 *)

\* A step that loses no socket and gives no new occasion to.
LEMMA LosesNothing ==
  ASSUME IInv, Lost' \subseteq Lost, stops' = stops, MayLose' => MayLose
  PROVE  LossesCounted'
<1>1. Cardinality(Lost') <= Cardinality(Lost)
  BY LostFinite, FS_Subset
<1> QED
  BY <1>1, LostFinite, LostFiniteNext DEF IInv, Shape, LossesCounted

\* A step by which the task forgets its socket because of a stop.
LEMMA LosesOne ==
  ASSUME IInv, MayLose, ~MayLose', Lost' \subseteq Lost \cup {sock}, stops' = stops
  PROVE  LossesCounted'
<1>1. IsFiniteSet(Lost \cup {sock}) /\ Cardinality(Lost \cup {sock}) <= Cardinality(Lost) + 1
  BY LostFinite, FS_AddElement
<1>2. Cardinality(Lost') <= Cardinality(Lost \cup {sock})
  BY <1>1, FS_Subset
<1>3. Cardinality(Lost \cup {sock}) \in Nat
  BY <1>1, FS_CardinalityType
<1> QED
  BY <1>1, <1>2, <1>3, LostFinite, LostFiniteNext DEF IInv, Shape, LossesCounted

\* The steps of tcp_client up to the connection.
LEMMA ConnectingStep ==
  ASSUME IInv, Loop \/ Socket \/ NoSocket \/ Connects \/ ConnectFails \/ Connected
  PROVE  IInv'
<1>1. Shape' /\ LeavesNothing'
  <2>1. CASE Loop
    BY <2>1 DEF Loop, Step, IInv, Shape, LeavesNothing, flagVars, ctlVars
  <2>2. CASE Socket
    BY <2>2 DEF Socket, Step, IInv, Shape, LeavesNothing, FdStates, ctlVars
  <2>3. CASE NoSocket
    BY <2>3 DEF NoSocket, Step, IInv, Shape, LeavesNothing, ctlVars
  <2>4. CASE Connects
    BY <2>4 DEF Connects, Step, IInv, Shape, LeavesNothing, FdStates, flagVars, ctlVars
  <2>5. CASE ConnectFails
    BY <2>5 DEF ConnectFails, Step, IInv, Shape, LeavesNothing, flagVars, ctlVars
  <2>6. CASE Connected
    BY <2>6 DEF Connected, Step, IInv, Shape, LeavesNothing, ctlVars
  <2> QED
    BY <2>1, <2>2, <2>3, <2>4, <2>5, <2>6
<1>2. Lost' \subseteq Lost /\ stops' = stops /\ (MayLose' => MayLose)
  <2>1. CASE Loop
    BY <2>1 DEF Loop, Step, Lost, Busy, MayLose, flagVars, ctlVars
  <2>2. CASE Socket
    BY <2>2 DEF Socket, Step, Lost, Busy, MayLose, IInv, Shape, ctlVars
  <2>3. CASE NoSocket
    BY <2>3 DEF NoSocket, Step, Lost, Busy, MayLose, ctlVars
  <2>4. CASE Connects
    BY <2>4 DEF Connects, Step, Lost, Busy, MayLose, IInv, Shape, Client, flagVars, ctlVars
  <2>5. CASE ConnectFails
    BY <2>5 DEF ConnectFails, Step, Lost, Busy, MayLose, flagVars, ctlVars
  <2>6. CASE Connected
    BY <2>6 DEF Connected, Step, Lost, Busy, MayLose, ctlVars
  <2> QED
    BY <2>1, <2>2, <2>3, <2>4, <2>5, <2>6
<1> QED
  BY <1>1, <1>2, LosesNothing DEF IInv

\* The receive loop, which a stop makes tcp_client leave without closing.
LEMMA ReceivingStep ==
  ASSUME IInv, CheckConn \/ RecvCalls \/ RecvForeign \/ RecvData \/ RecvEnds \/ Gone
  PROVE  IInv'
<1>1. UNCHANGED <<fd, sock, global, conn, handle, stopReq, stops>>
  BY DEF CheckConn, RecvCalls, RecvForeign, RecvData, RecvEnds, Gone, flagVars, ctlVars
<1>2. pc \in {"check", "call", "foreign", "recv", "gone"} /\ pc' \notin {"none", "leave"}
  BY DEF CheckConn, RecvCalls, RecvForeign, RecvData, RecvEnds, Gone, Step
<1>3. Shape' /\ LeavesNothing'
  BY <1>1, <1>2 DEF IInv, Shape, LeavesNothing
<1>4. CASE (CheckConn /\ pc' = "loop") \/ (Gone /\ pc' = "clear")
  <2>1. MayLose /\ ~MayLose'
    BY <1>1, <1>4 DEF CheckConn, Gone, Step, MayLose
  <2>2. Lost' \subseteq Lost \cup {sock}
    BY <1>1 DEF Lost
  <2> QED
    BY <1>1, <1>3, <2>1, <2>2, LosesOne DEF IInv
<1>5. CASE ~((CheckConn /\ pc' = "loop") \/ (Gone /\ pc' = "clear"))
  <2>1. \/ pc = "check" /\ pc' = "call"
        \/ pc = "call" /\ pc' = "recv"
        \/ pc = "call" /\ pc' = "foreign" /\ fd[sock] = "foreign"
        \/ pc = "foreign" /\ pc' \in {"check", "gone"}
        \/ pc = "recv" /\ pc' \in {"check", "gone"}
        \/ pc = "gone" /\ pc' = "close"
    BY <1>5 DEF CheckConn, RecvCalls, RecvForeign, RecvData, RecvEnds, Gone, Step
  <2>2. Lost' \subseteq Lost /\ (MayLose' => MayLose)
    BY <1>1, <2>1 DEF Lost, Busy, MayLose, Client
  <2> QED
    BY <1>1, <1>3, <2>2, LosesNothing DEF IInv
<1> QED
  BY <1>4, <1>5

\* Closing whatever a variable names loses nothing.
LEMMA ClosedKeeps ==
  ASSUME Shape, NEW s \in Fds \cup {None}
  PROVE  /\ Closed(s) \in [Fds -> FdStates]
         /\ \A f \in Fds : Closed(s)[f] \in Client => fd[f] \in Client /\ f # s
  BY ClientAssumption DEF Shape, Closed, FdStates, Client, Fds, None

\* The end of a connection and of the task.
LEMMA LeavingStep ==
  ASSUME IInv, Close \/ Clear \/ Exit \/ ExitCloses \/ Leave \/ Reset
  PROVE  IInv'
<1>1. Shape' /\ LeavesNothing'
  <2>1. CASE Close
    BY <2>1, ClosedKeeps DEF Close, Step, IInv, Shape, LeavesNothing, flagVars, ctlVars
  <2>2. CASE Clear
    BY <2>2 DEF Clear, Step, IInv, Shape, LeavesNothing, ctlVars
  <2>3. CASE Exit
    BY <2>3 DEF Exit, Step, IInv, Shape, LeavesNothing, flagVars, ctlVars
  <2>4. CASE ExitCloses
    BY <2>4, ClosedKeeps DEF ExitCloses, Step, IInv, Shape, LeavesNothing, ctlVars
  <2>5. CASE Leave
    BY <2>5 DEF Leave, Step, IInv, Shape, LeavesNothing, ctlVars
  <2>6. CASE Reset
    BY <2>6 DEF Reset, IInv, Shape, LeavesNothing, ctlVars
  <2> QED
    BY <2>1, <2>2, <2>3, <2>4, <2>5, <2>6
<1>2. Lost' \subseteq Lost /\ stops' = stops /\ (MayLose' => MayLose)
  <2>1. CASE Close
    BY <2>1, ClosedKeeps DEF Close, Step, IInv, Shape, Lost, Busy, MayLose, ctlVars
  <2>2. CASE Clear
    BY <2>2 DEF Clear, Step, Lost, Busy, MayLose, ctlVars
  <2>3. CASE Exit
    BY <2>3 DEF Exit, Step, Lost, Busy, MayLose, ctlVars
  <2>4. CASE ExitCloses
    BY <2>4, ClosedKeeps DEF ExitCloses, Step, IInv, Shape, Lost, Busy, MayLose, ctlVars
  <2>5. CASE Leave
    BY <2>5 DEF Leave, Step, Lost, Busy, MayLose, ctlVars
  <2>6. CASE Reset
    BY <2>6 DEF Reset, Lost, Busy, MayLose, ctlVars
  <2> QED
    BY <2>1, <2>2, <2>3, <2>4, <2>5, <2>6
<1> QED
  BY <1>1, <1>2, LosesNothing DEF IInv

\* A start finds no task; the heartbeat, the server and the other tasks leave the
\* client's sockets to it.
LEMMA OthersStep ==
  ASSUME IInv, Start \/ Heartbeat \/ StopLooks \/ StopClears \/ DeleteHeartbeat
                 \/ ServerChanges \/ ForeignOpens
  PROVE  IInv'
<1>1. Shape' /\ LeavesNothing'
  <2>1. CASE Start
    BY <2>1 DEF Start, IInv, Shape, LeavesNothing
  <2>2. CASE Heartbeat
    BY <2>2 DEF Heartbeat, BeatStarts, BeatTakes, BeatSends, BeatWakes, BeatEnds, IInv, Shape,
       LeavesNothing, taskVars, flagVars, ctlVars
  <2>3. CASE StopLooks \/ StopClears \/ DeleteHeartbeat
    BY <2>3 DEF StopLooks, StopClears, DeleteHeartbeat, IInv, Shape, LeavesNothing, taskVars, flagVars
  <2>4. CASE ServerChanges
    BY <2>4 DEF ServerChanges, IInv, Shape, LeavesNothing, FdStates, taskVars, flagVars, ctlVars
  <2>5. CASE ForeignOpens
    BY <2>5 DEF ForeignOpens, IInv, Shape, LeavesNothing, FdStates, taskVars, flagVars, ctlVars
  <2> QED
    BY <2>1, <2>2, <2>3, <2>4, <2>5
<1>2. Lost' \subseteq Lost /\ stops' = stops /\ (MayLose' => MayLose)
  <2>1. CASE Start
    BY <2>1 DEF Start, IInv, Shape, Lost, Busy, MayLose
  <2>2. CASE Heartbeat
    BY <2>2 DEF Heartbeat, BeatStarts, BeatTakes, BeatSends, BeatWakes, BeatEnds, Lost, Busy,
       MayLose, taskVars, flagVars, ctlVars
  <2>3. CASE StopLooks \/ StopClears \/ DeleteHeartbeat
    BY <2>3 DEF StopLooks, StopClears, DeleteHeartbeat, Lost, Busy, MayLose, taskVars, flagVars
  <2>4. CASE ServerChanges
    BY <2>4 DEF ServerChanges, IInv, Shape, Lost, Busy, MayLose, Client, taskVars, flagVars, ctlVars
  <2>5. CASE ForeignOpens
    BY <2>5 DEF ForeignOpens, IInv, Shape, Lost, Busy, MayLose, Client, taskVars, flagVars, ctlVars
  <2> QED
    BY <2>1, <2>2, <2>3, <2>4, <2>5
<1> QED
  BY <1>1, <1>2, LosesNothing DEF IInv

\* A stop may cost a socket, and closes one.
LEMMA StopStep == ASSUME IInv, Stop \/ StopCloses PROVE IInv'
<1>1. CASE Stop
  <2>1. Shape' /\ LeavesNothing'
    BY <1>1 DEF Stop, IInv, Shape, LeavesNothing, taskVars
  <2>2. Lost' = Lost /\ stops' = stops + 1
    BY <1>1 DEF Stop, Lost, taskVars
  <2>3. LossesCounted'
    BY <2>2, LostFinite DEF IInv, Shape, LossesCounted
  <2> QED
    BY <2>1, <2>3 DEF IInv
<1>2. CASE StopCloses
  <2>1. Shape' /\ LeavesNothing'
    BY <1>2, ClosedKeeps DEF StopCloses, IInv, Shape, LeavesNothing, taskVars, flagVars
  <2>2. Lost' \subseteq Lost /\ stops' = stops /\ (MayLose' => MayLose)
    BY <1>2, ClosedKeeps DEF StopCloses, IInv, Shape, Lost, Busy, MayLose, taskVars, flagVars
  <2> QED
    BY <2>1, <2>2, LosesNothing DEF IInv
<1> QED
  BY <1>1, <1>2

\* Every step keeps the invariant.
LEMMA NextIInv == IInv /\ [Next]_vars => IInv'
<1> SUFFICES ASSUME IInv, [Next]_vars PROVE IInv'
  OBVIOUS
<1>1. CASE UNCHANGED vars
  BY <1>1 DEF vars, IInv, Shape, LeavesNothing, LossesCounted, Lost, MayLose, taskVars, flagVars, ctlVars
<1>2. CASE Next
  BY <1>2, ConnectingStep, ReceivingStep, LeavingStep, OthersStep, StopStep DEF Next, Task, Stopping
<1> QED
  BY <1>1, <1>2

\* The invariant holds in every reachable state.
LEMMA Invariance == Spec => []IInv
  BY InitIInv, NextIInv, PTL DEF Spec

-----------------------------------------------------------------------------
(* The theorems.                                                              *)

\* When tcp_client is gone it reports no connection and has left no socket,
\* whatever a stop did meanwhile.
THEOREM LeavesCorrect == Spec => []NoTaskNoConnection
<1>1. IInv => NoTaskNoConnection
  BY DEF IInv, LeavesNothing, NoTaskNoConnection
<1> QED
  BY <1>1, Invariance, PTL

\* Connections that fail or end leak no socket; a stop leaks one at most.
THEOREM LeaksCorrect == Spec => []LeaksOnlyByStop
<1>1. IInv => LeaksOnlyByStop
  <2> SUFFICES ASSUME IInv PROVE LeaksOnlyByStop
    OBVIOUS
  <2> DEFINE leaked == {f \in Fds : fd[f] \in Client} \ Answered
  <2>1. leaked \subseteq Lost
    BY DEF Answered, Lost, Busy
  <2>2. Cardinality(leaked) <= Cardinality(Lost) /\ Cardinality(leaked) \in Nat
    BY <2>1, LostFinite, FS_Subset, FS_CardinalityType
  <2>3. Cardinality(leaked) <= stops
    BY <2>2, LostFinite DEF IInv, Shape, LossesCounted
  <2> QED
    BY <2>3 DEF LeaksOnlyByStop
<1> QED
  BY <1>1, Invariance, PTL
=============================================================================

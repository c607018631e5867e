-------------------------- MODULE TcpServer_proofs --------------------------
(* Proofs about TcpServer, for any number of slots, descriptors, connections  *)
(* and stops, and any length of the cleanup queue.                            *)
EXTENDS TcpServer, FiniteSetTheorems, SequenceTheorems, TLAPS

AcceptorPCs == {"none", "open", "accept", "add", "reject", "spawn", "clean_up"}
WalkerPCs   == {"none", "idle", "send", "close", "relock", "panic"}
Sockets     == Fds \cup {None}
Kinds       == {Free, Listening, Foreign} \cup Conns

-----------------------------------------------------------------------------
(* The inductive invariant.                                                   *)

Shape ==
  /\ fd \in [Fds -> Kinds]
  /\ slots \in [Slots -> Sockets] /\ closing \in [Slots -> Sockets]
  /\ queue \in Seq(Fds) /\ cleaning \in Sockets /\ listen \in Sockets
  /\ count \in Int /\ stops \in Nat /\ conns \in 0..NumConns
  /\ acceptor \in [pc : AcceptorPCs, listen : Sockets, sock : Sockets, conn : 0..NumConns,
                   slot : 0..MaxClients]
  /\ walker \in [Walkers -> [pc : WalkerPCs, slot : Nat, sock : Sockets]]

\* Who will close which descriptors.
InSlots      == {slots[i] : i \in Slots} \ {None}
InQueue      == {queue[i] : i \in DOMAIN queue}
InClosing    == {closing[i] : i \in Slots} \ {None}
InCleaning   == {cleaning} \ {None}
Walks(w)     == IF walker[w].pc = "close" THEN {walker[w].sock} ELSE {}
Admitting    == IF acceptor.pc \in {"add", "reject"} THEN {acceptor.sock} ELSE {}
Owned == InSlots \cup InQueue \cup InClosing \cup InCleaning \cup Walks("heartbeat")
         \cup Walks("sender") \cup Admitting

\* No two of them will close the same.
Apart ==
  /\ InSlots \cap (InQueue \cup InClosing \cup InCleaning \cup Walks("heartbeat")
                   \cup Walks("sender") \cup Admitting) = {}
  /\ InQueue \cap (InClosing \cup InCleaning \cup Walks("heartbeat") \cup Walks("sender")
                   \cup Admitting) = {}
  /\ InClosing \cap (InCleaning \cup Walks("heartbeat") \cup Walks("sender") \cup Admitting) = {}
  /\ InCleaning \cap (Walks("heartbeat") \cup Walks("sender") \cup Admitting) = {}
  /\ Walks("heartbeat") \cap (Walks("sender") \cup Admitting) = {}
  /\ Walks("sender") \cap Admitting = {}

\* Nor will one of them close it twice.
Once(f) == \A i, j \in DOMAIN f : f[i] = f[j] /\ i # j => f[i] = None

\* What somebody will close is open, and not the listening socket of the acceptor.
OwnedOpen ==
  /\ None \notin Owned
  /\ \A f \in Owned : fd[f] # Free /\ f # acceptor.listen

\* A listening socket has the acceptor or somebody else; a connection is never
\* taken for it; stop_tcp_server can close it as long as it is the acceptor's.
ListenerHeld ==
  /\ \A f \in Fds : fd[f] = Listening => f = acceptor.listen \/ f \in Owned
  /\ acceptor.listen # None => fd[acceptor.listen] \in {Free, Listening, Foreign}
  /\ listen # None => listen = acceptor.listen /\ fd[listen] = Listening
  /\ acceptor.pc \in {"none", "open"} => acceptor.listen = None
  /\ acceptor.pc = "none" => listen = None

\* Until the first stop every connection will be closed by somebody.
ConnectionsHeld == stops = 0 => \A f \in Fds : fd[f] \in Conns => f \in Owned

\* Before the first start there is nothing.
BeforeStart ==
  /\ ctl = "stopped" /\ stops = 0 => slots = Nobody /\ count = 0 /\ acceptor.pc = "none"
  /\ ctl \in {"close_all", "close"} => stops > 0
  /\ handle <=> acceptor.pc # "none"

Ownership == Apart /\ Once(slots) /\ Once(queue) /\ Once(closing) /\ OwnedOpen

IInv == Shape /\ Ownership /\ ListenerHeld /\ ConnectionsHeld /\ BeforeStart /\ CountHonest

\* The initial state satisfies the invariant.
LEMMA InitIInv == Init => IInv
<1> SUFFICES ASSUME Init PROVE IInv
  OBVIOUS
<1>1. Shape
  BY ServerAssumption DEF Init, Shape, Nobody, NoAcceptor, Kinds, Sockets, AcceptorPCs, WalkerPCs,
     Walkers, Free, None
<1>2. Owned = {} /\ InSlots = {} /\ InQueue = {} /\ InClosing = {} /\ InCleaning = {}
      /\ Walks("heartbeat") = {} /\ Walks("sender") = {} /\ Admitting = {}
  BY DEF Init, Owned, InSlots, InQueue, InClosing, InCleaning, Walks, Walkers, Admitting, Nobody,
     NoAcceptor
<1>3. Ownership
  BY <1>2 DEF Init, Ownership, Apart, Once, OwnedOpen, Nobody
<1>4. ListenerHeld /\ ConnectionsHeld /\ BeforeStart
  BY DEF Init, ListenerHeld, ConnectionsHeld, BeforeStart, NoAcceptor, Nobody, Free, Listening, Conns
<1>5. CountHonest
  <2>1. Used = {}
    BY DEF Init, Used, Nobody
  <2> QED
    BY <2>1, FS_EmptySet DEF Init, CountHonest
<1> QED
  BY <1>1, <1>3, <1>4, <1>5 DEF IInv

-----------------------------------------------------------------------------
(* Counting the clients.                                                      *)

\* The table is finite, and a client in it is counted once.
LEMMA UsedFinite ==
  IsFiniteSet(Used) /\ Cardinality(Used) \in Nat
  /\ IsFiniteSet(Used') /\ Cardinality(Used') \in Nat
<1>1. IsFiniteSet(Slots)
  BY FS_Interval, ServerAssumption DEF Slots
<1>2. Used \subseteq Slots /\ Used' \subseteq Slots
  BY DEF Used
<1> QED
  BY <1>1, <1>2, FS_Subset, FS_CardinalityType

\* Nothing changes the count or the table.
LEMMA CountKept ==
  ASSUME CountHonest, UNCHANGED <<slots, count>>, stops' \in {stops, stops + 1}, stops \in Nat
  PROVE  CountHonest'
  BY DEF CountHonest, Used

\* A client is taken out of the table.
LEMMA CountDown ==
  ASSUME Shape, CountHonest, NEW i \in Used, FreeSlot(i), stops' = stops
  PROVE  CountHonest' /\ count' \in Int /\ slots' \in [Slots -> Sockets]
<1>1. slots' = [slots EXCEPT ![i] = None] /\ count' = count - 1 /\ i \in Slots
      /\ slots \in [Slots -> Sockets] /\ count \in Int
  BY DEF FreeSlot, Used, Shape
<1>2. Used' = Used \ {i} /\ slots' \in [Slots -> Sockets]
  BY <1>1 DEF Used, Sockets
<1>3. Cardinality(Used') = Cardinality(Used) - 1
  BY <1>2, UsedFinite, FS_RemoveElement
<1> QED
  BY <1>1, <1>2, <1>3, UsedFinite DEF CountHonest

\* A client is added to the table.
LEMMA CountUp ==
  ASSUME Shape, CountHonest, NEW i \in Slots \ Used, NEW f \in Fds,
         slots' = [slots EXCEPT ![i] = f], count' = count + 1, stops' = stops
  PROVE  CountHonest'
<1>1. Used' = Used \cup {i} /\ count \in Int
  BY DEF Shape, Used, None, Fds
<1>2. Cardinality(Used') = Cardinality(Used) + 1
  BY <1>1, UsedFinite, FS_AddElement
<1> QED
  BY <1>1, <1>2, UsedFinite DEF CountHonest

-----------------------------------------------------------------------------
(* Closing.                                                                   *)

\* Appending a new element to a sequence without repetitions.
LEMMA Appended ==
  ASSUME Shape, NEW f \in Fds, f \notin InQueue, Once(queue), queue' = Append(queue, f)
  PROVE  queue' \in Seq(Fds) /\ InQueue' = InQueue \cup {f} /\ Once(queue')
<1>1. /\ queue \in Seq(Fds) /\ Len(queue) \in Nat /\ DOMAIN queue = 1..Len(queue)
      /\ queue' \in Seq(Fds) /\ DOMAIN queue' = 1..(Len(queue) + 1)
      /\ \A i \in DOMAIN queue : queue'[i] = queue[i]
      /\ queue'[Len(queue) + 1] = f
  BY DEF Shape
<1>2. InQueue' = InQueue \cup {f}
  BY <1>1 DEF InQueue
<1>3. Once(queue')
  BY <1>1 DEF Once, InQueue
<1> QED
  BY <1>1, <1>2, <1>3

\* safe_close_socket skips a closed descriptor, queues it or closes it.
LEMMA SafeCloses ==
  ASSUME Shape, Once(queue), NEW f \in Sockets, f \notin InQueue, SafeClose(f)
  PROVE  /\ fd' \in [Fds -> Kinds] /\ queue' \in Seq(Fds) /\ Once(queue') /\ cleaning' = cleaning
         /\ \/ (f = None \/ fd[f] = Free) /\ fd' = fd /\ InQueue' = InQueue
            \/ f # None /\ fd[f] # Free /\ fd' = fd /\ InQueue' = InQueue \cup {f}
            \/ f # None /\ fd[f] # Free /\ fd' = [fd EXCEPT ![f] = Free] /\ InQueue' = InQueue
<1>1. fd \in [Fds -> Kinds] /\ queue \in Seq(Fds) /\ cleaning' = cleaning
  BY DEF Shape, SafeClose
<1>2. CASE f = None \/ fd[f] = Free
  BY <1>1, <1>2 DEF SafeClose, InQueue
<1>3. CASE f # None /\ fd[f] # Free /\ queue' = Append(queue, f) /\ fd' = fd
  BY <1>1, <1>3, Appended DEF Sockets
<1>4. CASE f # None /\ fd[f] # Free /\ fd' = [fd EXCEPT ![f] = Free] /\ queue' = queue
  BY <1>1, <1>4 DEF InQueue, Kinds
<1> QED
  BY <1>2, <1>3, <1>4 DEF SafeClose

\* Who closes a descriptor gives it up, and nobody else had it.
LEMMA Closes ==
  ASSUME Shape, Apart, Once(queue), OwnedOpen, ListenerHeld, ConnectionsHeld,
         NEW f \in Sockets, f \in Owned \ InQueue, SafeClose(f),
         InSlots' = InSlots \ {f}, InClosing' = InClosing \ {f},
         Walks("heartbeat")' = Walks("heartbeat") \ {f}, Walks("sender")' = Walks("sender") \ {f},
         Admitting' = Admitting \ {f}, f \notin InCleaning,
         acceptor'.listen = acceptor.listen, listen' = listen, stops' = stops,
         acceptor'.pc \notin {"none", "open"}  \/ acceptor'.pc = acceptor.pc
  PROVE  /\ fd' \in [Fds -> Kinds] /\ queue' \in Seq(Fds) /\ cleaning' = cleaning
         /\ Apart' /\ Once(queue') /\ OwnedOpen' /\ ListenerHeld' /\ ConnectionsHeld'
<1>1. /\ fd' \in [Fds -> Kinds] /\ queue' \in Seq(Fds) /\ Once(queue') /\ cleaning' = cleaning
      /\ f # None /\ fd[f] # Free /\ f # acceptor.listen
      /\ \/ fd' = fd /\ InQueue' = InQueue \cup {f}
         \/ fd' = [fd EXCEPT ![f] = Free] /\ InQueue' = InQueue
  BY SafeCloses DEF OwnedOpen
<1>2. InCleaning' = InCleaning
  BY <1>1 DEF InCleaning
<1>3. Apart'
  BY <1>1, <1>2 DEF Apart
<1>4. \/ fd' = fd /\ Owned' = Owned
      \/ fd' = [fd EXCEPT ![f] = Free] /\ Owned' = Owned \ {f}
  BY <1>1, <1>2 DEF Owned
<1>5. f \in Fds /\ fd \in [Fds -> Kinds] /\ Owned \subseteq Sockets
  BY <1>1 DEF Shape, Sockets, Owned, InSlots, InQueue, InClosing, InCleaning, Walks, Walkers, Admitting
<1>6. OwnedOpen'
  BY <1>1, <1>4, <1>5 DEF OwnedOpen, Sockets
<1>7. ListenerHeld'
  <2>1. \A g \in Fds \ {f} : fd'[g] = fd[g]
    BY <1>4, <1>5
  <2>2. fd'[f] = fd[f] \/ fd'[f] = Free
    BY <1>4, <1>5
  <2>3. \A g \in Fds : fd'[g] = Listening => g = acceptor'.listen \/ g \in Owned'
    BY <1>4, <1>5, <2>1 DEF ListenerHeld, Free, Listening
  <2>4. acceptor.listen \in Sockets /\ (acceptor.listen # None => fd'[acceptor.listen] = fd[acceptor.listen])
    BY <1>1, <2>1 DEF Shape, Sockets
  <2> QED
    BY <2>3, <2>4 DEF ListenerHeld
<1>8. ConnectionsHeld'
  BY <1>1, <1>4, <1>5 DEF ConnectionsHeld, Free, Conns
<1> QED
  BY <1>1, <1>3, <1>6, <1>7, <1>8

\* A step that leaves every owner what he has.
LEMMA OwnersKept ==
  ASSUME IInv, UNCHANGED <<fd, slots, queue, closing, cleaning, listen>>,
         Walks("heartbeat")' = Walks("heartbeat"), Walks("sender")' = Walks("sender"),
         Admitting' = Admitting, acceptor'.listen = acceptor.listen,
         acceptor'.pc \notin {"none", "open"} \/ acceptor'.pc = acceptor.pc,
         stops' \in {stops, stops + 1}
  PROVE  Ownership' /\ ListenerHeld' /\ ConnectionsHeld'
<1>1. /\ InSlots' = InSlots /\ InQueue' = InQueue /\ InClosing' = InClosing
      /\ InCleaning' = InCleaning /\ Owned' = Owned
  BY DEF InSlots, InQueue, InClosing, InCleaning, Owned
<1>2. Ownership'
  BY <1>1 DEF IInv, Ownership, Apart, Once, OwnedOpen
<1>3. ListenerHeld' /\ ConnectionsHeld'
  BY <1>1 DEF IInv, Shape, ListenerHeld, ConnectionsHeld
<1> QED
  BY <1>2, <1>3

\* The client in a slot is removed, if there is one, by whoever calls remove_client.
LEMMA Removes ==
  ASSUME IInv, NEW i, Remove(i), UNCHANGED <<closing, listen, stops>>,
         Walks("heartbeat")' = Walks("heartbeat"), Walks("sender")' = Walks("sender"),
         Admitting' = Admitting, acceptor'.listen = acceptor.listen,
         acceptor'.pc \notin {"none", "open"} \/ acceptor'.pc = acceptor.pc
  PROVE  /\ fd' \in [Fds -> Kinds] /\ slots' \in [Slots -> Sockets] /\ queue' \in Seq(Fds)
         /\ cleaning' = cleaning /\ count' \in Int /\ CountHonest'
         /\ Ownership' /\ ListenerHeld' /\ ConnectionsHeld'
<1>1. CASE i \notin Used
  <2>1. UNCHANGED <<fd, slots, queue, cleaning, count>>
    BY <1>1 DEF Remove, sockVars, tableVars
  <2> QED
    BY <2>1, OwnersKept, CountKept DEF IInv, Shape
<1>2. CASE i \in Used
  <2> DEFINE f == slots[i]
  <2>1. FreeSlot(i) /\ SafeClose(f)
    BY <1>2 DEF Remove
  <2>2. CountHonest' /\ count' \in Int /\ slots' \in [Slots -> Sockets]
    BY <1>2, <2>1, CountDown DEF IInv
  <2>3. /\ i \in Slots /\ f \in InSlots /\ f \in Sockets /\ slots' = [slots EXCEPT ![i] = None]
        /\ slots \in [Slots -> Sockets] /\ \A j \in Slots \ {i} : slots[j] # f
    BY <1>2, <2>1 DEF Used, InSlots, FreeSlot, IInv, Shape, Ownership, Once
  <2>4. InSlots' = InSlots \ {f}
    <3>0. i \in Slots /\ slots \in [Slots -> Sockets] /\ slots' = [slots EXCEPT ![i] = None]
      BY <2>3
    <3>1. slots'[i] = None /\ \A j \in Slots \ {i} : slots'[j] = slots[j]
      BY <3>0
    <3> HIDE DEF f
    <3>2. \A j \in Slots : slots[j] = f <=> j = i
      BY <2>3 DEF f
    <3> QED
      BY <2>3, <3>1, <3>2 DEF InSlots
  <2>5. f \in Owned \ InQueue /\ f \notin InClosing /\ f \notin InCleaning /\ f \notin Admitting
        /\ f \notin Walks("heartbeat") /\ f \notin Walks("sender")
    BY <2>3 DEF IInv, Ownership, Apart, Owned
  <2>6. InClosing' = InClosing
    BY DEF InClosing
  <2>7. Once(slots') /\ Once(closing')
    BY <2>3 DEF Once, IInv, Ownership
  <2> HIDE DEF f
  <2>8. /\ fd' \in [Fds -> Kinds] /\ queue' \in Seq(Fds) /\ cleaning' = cleaning
        /\ Apart' /\ Once(queue') /\ OwnedOpen' /\ ListenerHeld' /\ ConnectionsHeld'
    <3>1. Shape /\ Apart /\ Once(queue) /\ OwnedOpen /\ ListenerHeld /\ ConnectionsHeld
      BY DEF IInv, Ownership
    <3> QED
      BY <2>1, <2>3, <2>4, <2>5, <2>6, <3>1, Closes
  <2> QED
    BY <2>2, <2>7, <2>8 DEF Ownership
<1> QED
  BY <1>1, <1>2

-----------------------------------------------------------------------------
(* tcp_server_task.                                                           *)

\* A new descriptor has no owner.
LEMMA LowestFree == ASSUME IInv, NEW f \in Fds, Lowest(f) PROVE f \notin Owned /\ fd[f] = Free
  BY DEF Lowest, IInv, Ownership, OwnedOpen

\* A listening socket is opened: it is the acceptor's.
LEMMA OpenListenStep == ASSUME IInv, OpenListen PROVE IInv'
<1>1. PICK f \in Fds, ok \in BOOLEAN :
        /\ Lowest(f)
        /\ fd' = [fd EXCEPT ![f] = Listening]
        /\ listen' = f
        /\ acceptor' = [acceptor EXCEPT !.pc = IF ok THEN "accept" ELSE "clean_up", !.listen = f]
  BY DEF OpenListen
<1>2. /\ acceptor.pc = "open" /\ acceptor.listen = None
      /\ UNCHANGED <<slots, queue, closing, cleaning, count, stops, conns, walker, ctl, handle>>
  BY DEF OpenListen, IInv, ListenerHeld, tableVars, ctlVars
<1>3. /\ f \notin Owned /\ fd[f] = Free
  BY <1>1, LowestFree
<1>4. /\ fd' \in [Fds -> Kinds] /\ \A g \in Fds \ {f} : fd'[g] = fd[g]
      /\ fd'[f] = Listening
  BY <1>1 DEF IInv, Shape, Kinds
<1>5. /\ acceptor'.pc \in {"accept", "clean_up"} /\ acceptor'.listen = f
      /\ acceptor' \in [pc : AcceptorPCs, listen : Sockets, sock : Sockets, conn : 0..NumConns,
                         slot : 0..MaxClients]
  BY <1>1 DEF IInv, Shape, AcceptorPCs, Sockets
<1>6. Shape'
  BY <1>1, <1>2, <1>4, <1>5 DEF IInv, Shape, Sockets
<1>7. /\ InSlots' = InSlots /\ InQueue' = InQueue /\ InClosing' = InClosing
      /\ InCleaning' = InCleaning /\ Walks("heartbeat")' = Walks("heartbeat")
      /\ Walks("sender")' = Walks("sender") /\ Admitting' = {} /\ Admitting = {}
  BY <1>2, <1>5 DEF InSlots, InQueue, InClosing, InCleaning, Walks, Admitting
<1>8. Owned' = Owned
  BY <1>7 DEF Owned
<1>9. Ownership'
  <2>1. Apart' /\ Once(slots)' /\ Once(queue)' /\ Once(closing)'
    BY <1>2, <1>7 DEF IInv, Ownership, Apart, Once
  <2>2. Owned \subseteq Fds
    BY DEF IInv, Shape, Ownership, OwnedOpen, Sockets, Owned, InSlots, InQueue, InClosing,
       InCleaning, Walks, Walkers, Admitting
  <2>3. OwnedOpen'
    BY <1>3, <1>4, <1>5, <1>8, <2>2 DEF IInv, Ownership, OwnedOpen
  <2> QED
    BY <2>1, <2>3 DEF Ownership
<1>10. ListenerHeld' /\ ConnectionsHeld'
  BY <1>1, <1>2, <1>4, <1>5, <1>8 DEF IInv, ListenerHeld, ConnectionsHeld, None, Fds, Listening, Conns
<1>11. BeforeStart' /\ CountHonest'
  BY <1>2, <1>5, CountKept DEF IInv, Shape, BeforeStart
<1> QED
  BY <1>6, <1>9, <1>10, <1>11 DEF IInv

\* A client's connection is the acceptor's until it is in the table.
LEMMA AcceptStep == ASSUME IInv, Accept PROVE IInv'
<1>1. PICK f \in Fds, enough \in BOOLEAN :
        /\ Lowest(f)
        /\ fd' = [fd EXCEPT ![f] = conns']
        /\ acceptor' = [acceptor EXCEPT !.sock = f, !.conn = conns',
                            !.pc = IF enough /\ count < MaxClients THEN "add" ELSE "reject"]
  BY DEF Accept
<1>2. /\ acceptor.pc = "accept" /\ fd[acceptor.listen] = Listening
      /\ conns' = conns + 1 /\ conns' \in Conns
      /\ UNCHANGED <<slots, queue, closing, cleaning, count, stops, listen, walker, ctl, handle>>
  BY ServerAssumption DEF Accept, IInv, Shape, Conns, tableVars, ctlVars
<1>3. /\ f \notin Owned /\ fd[f] = Free /\ f # acceptor.listen
  BY <1>1, <1>2, LowestFree DEF Free, Listening
<1>4. /\ fd' \in [Fds -> Kinds] /\ \A g \in Fds \ {f} : fd'[g] = fd[g]
      /\ fd'[f] = conns' /\ fd'[f] # Free /\ fd'[f] # Listening
  BY <1>1, <1>2 DEF IInv, Shape, Kinds, Conns, Free, Listening
<1>5. /\ acceptor'.pc \in {"add", "reject"} /\ acceptor'.listen = acceptor.listen
      /\ acceptor'.sock = f
      /\ acceptor' \in [pc : AcceptorPCs, listen : Sockets, sock : Sockets, conn : 0..NumConns,
                         slot : 0..MaxClients]
  <2> DEFINE pc == IF enough /\ count < MaxClients THEN "add" ELSE "reject"
  <2>1. pc \in {"add", "reject"}
    OBVIOUS
  <2>2. acceptor' = [acceptor EXCEPT !.sock = f, !.conn = conns', !.pc = pc]
    BY <1>1
  <2> HIDE DEF pc
  <2>3. pc \in AcceptorPCs /\ f \in Sockets /\ conns' \in 0..NumConns
    BY <1>2, <2>1 DEF AcceptorPCs, Sockets, Conns
  <2>4. acceptor \in [pc : AcceptorPCs, listen : Sockets, sock : Sockets, conn : 0..NumConns,
                      slot : 0..MaxClients]
    BY DEF IInv, Shape
  <2> QED
    BY <2>1, <2>2, <2>3, <2>4
<1>6. Shape'
  BY <1>1, <1>2, <1>4, <1>5 DEF IInv, Shape, Conns
<1>7. /\ InSlots' = InSlots /\ InQueue' = InQueue /\ InClosing' = InClosing
      /\ InCleaning' = InCleaning /\ Walks("heartbeat")' = Walks("heartbeat")
      /\ Walks("sender")' = Walks("sender") /\ Admitting' = {f} /\ Admitting = {}
  BY <1>2, <1>5 DEF InSlots, InQueue, InClosing, InCleaning, Walks, Admitting
<1>8. Owned' = Owned \cup {f} /\ f # None
  BY <1>7 DEF Owned, Fds, None
<1>9. Ownership'
  <2>1. Apart' /\ Once(slots)' /\ Once(queue)' /\ Once(closing)'
    BY <1>2, <1>3, <1>7 DEF IInv, Ownership, Apart, Once, Owned
  <2>2. Owned \subseteq Fds
    BY DEF IInv, Shape, Ownership, OwnedOpen, Sockets, Owned, InSlots, InQueue, InClosing,
       InCleaning, Walks, Walkers, Admitting
  <2>3. OwnedOpen'
    BY <1>3, <1>4, <1>5, <1>8, <2>2 DEF IInv, Ownership, OwnedOpen
  <2> QED
    BY <2>1, <2>3 DEF Ownership
<1>10. ListenerHeld' /\ ConnectionsHeld'
  <2>1. acceptor.listen # None => acceptor.listen \in Fds /\ fd'[acceptor.listen] = fd[acceptor.listen]
    BY <1>3, <1>4 DEF IInv, Shape, Sockets
  <2> QED
    BY <1>2, <1>3, <1>4, <1>5, <1>8, <2>1 DEF IInv, ListenerHeld, ConnectionsHeld
<1>11. BeforeStart' /\ CountHonest'
  BY <1>2, <1>5, CountKept DEF IInv, Shape, BeforeStart
<1> QED
  BY <1>6, <1>9, <1>10, <1>11 DEF IInv

\* The acceptor goes on without touching the table or a socket.
LEMMA AcceptorGoesOn ==
  ASSUME IInv, acceptor.pc # "none", acceptor'.listen = acceptor.listen,
         acceptor'.pc \in {"accept", "clean_up"},
         acceptor' \in [pc : AcceptorPCs, listen : Sockets, sock : Sockets, conn : 0..NumConns,
                        slot : 0..MaxClients],
         Admitting = {}, UNCHANGED <<fd, slots, queue, closing, cleaning, listen, count, stops, conns,
                                     walker, ctl, handle>>
  PROVE  IInv'
<1>1. /\ Admitting' = {} /\ Walks("heartbeat")' = Walks("heartbeat")
      /\ Walks("sender")' = Walks("sender")
  BY DEF Admitting, Walks
<1>2. Ownership' /\ ListenerHeld' /\ ConnectionsHeld'
  BY <1>1, OwnersKept
<1>3. Shape' /\ BeforeStart' /\ CountHonest'
  BY CountKept DEF IInv, Shape, BeforeStart
<1> QED
  BY <1>2, <1>3 DEF IInv

\* A refused client's socket is given to be closed.
LEMMA RejectStep == ASSUME IInv, Reject PROVE IInv'
<1> DEFINE f == acceptor.sock
<1>1. /\ acceptor.pc = "reject" /\ SafeClose(f) /\ acceptor' = [acceptor EXCEPT !.pc = "accept"]
      /\ UNCHANGED <<slots, closing, listen, count, stops, conns, walker, ctl, handle>>
  BY DEF Reject, At, tableVars, ctlVars
<1>2. /\ acceptor'.pc = "accept" /\ acceptor'.listen = acceptor.listen /\ f \in Sockets
      /\ acceptor' \in [pc : AcceptorPCs, listen : Sockets, sock : Sockets, conn : 0..NumConns,
                         slot : 0..MaxClients]
  BY <1>1 DEF IInv, Shape, AcceptorPCs
<1>3. Admitting = {f} /\ Admitting' = {}
  BY <1>1, <1>2 DEF Admitting
<1> HIDE DEF f
<1>4. /\ f \in Owned \ InQueue /\ f \notin InSlots /\ f \notin InClosing /\ f \notin InCleaning
      /\ f \notin Walks("heartbeat") /\ f \notin Walks("sender")
  BY <1>3 DEF IInv, Ownership, Apart, Owned
<1>5. /\ InSlots' = InSlots /\ InClosing' = InClosing /\ Walks("heartbeat")' = Walks("heartbeat")
      /\ Walks("sender")' = Walks("sender")
  BY <1>1 DEF InSlots, InClosing, Walks
<1>6. /\ fd' \in [Fds -> Kinds] /\ queue' \in Seq(Fds) /\ cleaning' = cleaning
      /\ Apart' /\ Once(queue') /\ OwnedOpen' /\ ListenerHeld' /\ ConnectionsHeld'
  <2>1. Shape /\ Apart /\ Once(queue) /\ OwnedOpen /\ ListenerHeld /\ ConnectionsHeld
    BY DEF IInv, Ownership
  <2> QED
    BY <1>1, <1>2, <1>3, <1>4, <1>5, <2>1, Closes
<1>7. Shape' /\ Once(slots') /\ Once(closing') /\ BeforeStart' /\ CountHonest'
  BY <1>1, <1>2, <1>6, CountKept DEF IInv, Shape, Ownership, Once, BeforeStart
<1> QED
  BY <1>6, <1>7 DEF IInv, Ownership

\* The socket passes from the acceptor to a free slot.
LEMMA AddClientStep == ASSUME IInv, AddClient PROVE IInv'
<1> DEFINE f == acceptor.sock
<1>1. /\ acceptor.pc = "add"
      /\ UNCHANGED <<fd, queue, cleaning, closing, listen, stops, conns, walker, ctl, handle>>
  BY DEF AddClient, sockVars, ctlVars
<1>2. Admitting = {f} /\ f \in Fds
  BY <1>1 DEF Admitting, IInv, Shape, Sockets, Ownership, OwnedOpen, Owned
<1>3. CASE At("reject") /\ UNCHANGED tableVars
  <2>1. /\ acceptor'.pc = "reject" /\ acceptor'.listen = acceptor.listen /\ acceptor'.sock = f
        /\ acceptor' \in [pc : AcceptorPCs, listen : Sockets, sock : Sockets, conn : 0..NumConns,
                           slot : 0..MaxClients]
        /\ UNCHANGED <<slots, count>>
    BY <1>3 DEF At, IInv, Shape, AcceptorPCs, tableVars
  <2>2. Admitting' = Admitting /\ Walks("heartbeat")' = Walks("heartbeat")
        /\ Walks("sender")' = Walks("sender")
    BY <1>1, <1>2, <2>1 DEF Admitting, Walks
  <2>3. Ownership' /\ ListenerHeld' /\ ConnectionsHeld'
    BY <1>1, <2>1, <2>2, OwnersKept
  <2>4. Shape' /\ BeforeStart' /\ CountHonest'
    BY <1>1, <2>1, CountKept DEF IInv, Shape, BeforeStart
  <2> QED
    BY <2>3, <2>4 DEF IInv
<1>4. ASSUME NEW i \in Slots \ Used, slots' = [slots EXCEPT ![i] = acceptor.sock], count' = count + 1,
             acceptor' = [acceptor EXCEPT !.pc = "spawn", !.slot = i]
      PROVE  IInv'
  <2>1. /\ acceptor'.pc = "spawn" /\ acceptor'.listen = acceptor.listen
        /\ acceptor' \in [pc : AcceptorPCs, listen : Sockets, sock : Sockets, conn : 0..NumConns,
                           slot : 0..MaxClients]
    <3>1. i \in 0..MaxClients /\ "spawn" \in AcceptorPCs
      BY ServerAssumption DEF Slots, AcceptorPCs
    <3>2. acceptor \in [pc : AcceptorPCs, listen : Sockets, sock : Sockets, conn : 0..NumConns,
                        slot : 0..MaxClients]
      BY DEF IInv, Shape
    <3> QED
      BY <1>4, <3>1, <3>2
  <2>2. /\ slots' \in [Slots -> Sockets] /\ count' \in Int /\ slots'[i] = f /\ slots[i] = None
        /\ \A j \in Slots \ {i} : slots'[j] = slots[j]
    BY <1>2, <1>4 DEF IInv, Shape, Sockets, Used
  <2>3. CountHonest'
    BY <1>1, <1>2, <1>4, CountUp DEF IInv
  <2> HIDE DEF f
  <2>4. /\ InSlots' = InSlots \cup {f} /\ InQueue' = InQueue /\ InClosing' = InClosing
        /\ InCleaning' = InCleaning /\ Walks("heartbeat")' = Walks("heartbeat")
        /\ Walks("sender")' = Walks("sender") /\ Admitting' = {}
    BY <1>1, <1>2, <2>1, <2>2 DEF InSlots, InQueue, InClosing, InCleaning, Walks, Admitting, Fds, None
  <2>5. Owned' = Owned
    BY <1>2, <2>4 DEF Owned
  <2>6. Apart'
    BY <1>2, <2>4 DEF IInv, Ownership, Apart
  <2>7. Once(slots') /\ Once(queue') /\ Once(closing')
    <3>1. f \notin InSlots /\ slots \in [Slots -> Sockets]
      BY <1>2 DEF IInv, Shape, Ownership, Apart
    <3> QED
      BY <1>1, <2>2, <3>1 DEF IInv, Ownership, Once, InSlots
  <2>8. OwnedOpen' /\ ListenerHeld' /\ ConnectionsHeld'
    BY <1>1, <2>1, <2>5 DEF IInv, Ownership, OwnedOpen, ListenerHeld, ConnectionsHeld
  <2>9. Shape' /\ BeforeStart'
    BY <1>1, <2>1, <2>2 DEF IInv, Shape, BeforeStart
  <2> QED
    BY <2>3, <2>6, <2>7, <2>8, <2>9 DEF IInv, Ownership
<1> QED
  BY <1>3, <1>4 DEF AddClient

\* A task is created for the client, or the client is removed again.
LEMMA SpawnStep == ASSUME IInv, Spawn \/ SpawnFails PROVE IInv'
<1>1. /\ acceptor.pc = "spawn" /\ acceptor' = [acceptor EXCEPT !.pc = "accept"]
      /\ UNCHANGED <<closing, listen, stops, conns, walker, ctl, handle>>
  BY DEF Spawn, SpawnFails, At, ctlVars
<1>2. /\ acceptor'.pc = "accept" /\ acceptor'.listen = acceptor.listen
      /\ acceptor' \in [pc : AcceptorPCs, listen : Sockets, sock : Sockets, conn : 0..NumConns,
                         slot : 0..MaxClients]
  BY <1>1 DEF IInv, Shape, AcceptorPCs
<1>3. Admitting' = {} /\ Admitting = {} /\ Walks("heartbeat")' = Walks("heartbeat")
      /\ Walks("sender")' = Walks("sender")
  BY <1>1, <1>2 DEF Admitting, Walks
<1>4. CASE Spawn
  <2>1. UNCHANGED <<fd, slots, queue, cleaning, count>>
    BY <1>4 DEF Spawn, sockVars, tableVars
  <2> QED
    BY <1>1, <1>2, <1>3, <2>1, AcceptorGoesOn
<1>5. CASE SpawnFails
  <2>1. Remove(acceptor.slot)
    BY <1>5 DEF SpawnFails
  <2>2. /\ fd' \in [Fds -> Kinds] /\ slots' \in [Slots -> Sockets] /\ queue' \in Seq(Fds)
        /\ cleaning' = cleaning /\ count' \in Int /\ CountHonest'
        /\ Ownership' /\ ListenerHeld' /\ ConnectionsHeld'
    BY <1>1, <1>2, <1>3, <2>1, Removes
  <2>3. Shape' /\ BeforeStart'
    BY <1>1, <1>2, <2>2 DEF IInv, Shape, BeforeStart
  <2> QED
    BY <2>2, <2>3 DEF IInv
<1> QED
  BY <1>4, <1>5

\* The acceptor ends without a listening socket.
LEMMA NoListenSocketStep == ASSUME IInv, NoListenSocket PROVE IInv'
<1>1. /\ acceptor.pc = "open" /\ acceptor' = NoAcceptor /\ ~handle'
      /\ UNCHANGED <<fd, slots, queue, closing, cleaning, listen, count, stops, conns, walker, ctl>>
  BY DEF NoListenSocket, sockVars, tableVars, ctlVars
<1>2. /\ InSlots' = InSlots /\ InQueue' = InQueue /\ InClosing' = InClosing
      /\ InCleaning' = InCleaning /\ Walks("heartbeat")' = Walks("heartbeat")
      /\ Walks("sender")' = Walks("sender") /\ Admitting' = {} /\ Admitting = {}
  BY <1>1 DEF InSlots, InQueue, InClosing, InCleaning, Walks, Admitting, NoAcceptor
<1>3. Owned' = Owned /\ Apart'
  BY <1>2 DEF Owned, IInv, Ownership, Apart
<1>4. Ownership' /\ ListenerHeld' /\ ConnectionsHeld'
  BY <1>1, <1>2, <1>3 DEF IInv, Ownership, Once, OwnedOpen, ListenerHeld, ConnectionsHeld, NoAcceptor
<1>5. Shape'
  BY <1>1, ServerAssumption DEF IInv, Shape, NoAcceptor, AcceptorPCs, Sockets
<1>6. BeforeStart' /\ CountHonest'
  BY <1>1, CountKept DEF IInv, Shape, BeforeStart, NoAcceptor
<1> QED
  BY <1>4, <1>5, <1>6 DEF IInv

\* The acceptor's own descriptor is closed, if it is open: it has no other owner.
LEMMA CleanUpStep == ASSUME IInv, CleanUp PROVE IInv'
<1> DEFINE f == acceptor.listen
<1>1. /\ acceptor.pc = "clean_up" /\ SafeClose(f) /\ acceptor' = NoAcceptor /\ listen' = None /\ ~handle'
      /\ UNCHANGED <<slots, closing, count, stops, conns, walker, ctl>>
  BY DEF CleanUp, tableVars, ctlVars
<1>2. f \in Sockets /\ f \notin Owned /\ f \notin InQueue /\ (f # None => fd[f] \notin Conns)
  BY DEF IInv, Shape, Ownership, OwnedOpen, Owned, ListenerHeld, Conns, Free, Listening, Foreign
<1> HIDE DEF f
<1>3. /\ fd' \in [Fds -> Kinds] /\ queue' \in Seq(Fds) /\ Once(queue') /\ cleaning' = cleaning
      /\ \/ (f = None \/ fd[f] = Free) /\ fd' = fd /\ InQueue' = InQueue
         \/ f # None /\ fd[f] # Free /\ fd' = fd /\ InQueue' = InQueue \cup {f}
         \/ f # None /\ fd[f] # Free /\ fd' = [fd EXCEPT ![f] = Free] /\ InQueue' = InQueue
  BY <1>1, <1>2, SafeCloses DEF IInv, Ownership
<1>4. /\ InSlots' = InSlots /\ InClosing' = InClosing
      /\ InCleaning' = InCleaning /\ Walks("heartbeat")' = Walks("heartbeat")
      /\ Walks("sender")' = Walks("sender") /\ Admitting' = {} /\ Admitting = {}
  BY <1>1, <1>3 DEF InSlots, InClosing, InCleaning, Walks, Admitting, NoAcceptor
<1>5. Apart'
  BY <1>2, <1>3, <1>4 DEF IInv, Ownership, Apart, Owned
<1>6. \/ fd' = fd /\ Owned' = Owned /\ (f = None \/ fd[f] = Free)
      \/ fd' = fd /\ Owned' = Owned \cup {f} /\ f # None /\ fd[f] # Free
      \/ fd' = [fd EXCEPT ![f] = Free] /\ Owned' = Owned /\ f # None
  BY <1>3, <1>4 DEF Owned
<1>7. Owned \subseteq Fds /\ fd \in [Fds -> Kinds]
  BY DEF IInv, Shape, Ownership, OwnedOpen, Sockets, Owned, InSlots, InQueue, InClosing,
     InCleaning, Walks, Walkers, Admitting
<1>8. OwnedOpen'
  <2>1. acceptor'.listen = None /\ None \notin Owned'
    BY <1>1, <1>6 DEF NoAcceptor, IInv, Ownership, OwnedOpen
  <2>2. \A g \in Owned' : fd'[g] # Free
    BY <1>2, <1>6, <1>7 DEF IInv, Ownership, OwnedOpen
  <2> QED
    BY <2>1, <2>2 DEF OwnedOpen
<1>9. ListenerHeld'
  <2>1. acceptor'.listen = None /\ listen' = None
    BY <1>1 DEF NoAcceptor
  <2>2. \A g \in Fds : fd[g] = Listening => g = f \/ g \in Owned
    BY DEF IInv, ListenerHeld, f
  <2>3. \A g \in Fds : fd'[g] = Listening => g \in Owned'
    <3> SUFFICES ASSUME NEW g \in Fds, fd'[g] = Listening PROVE g \in Owned'
      OBVIOUS
    <3>1. CASE fd' = fd /\ Owned' = Owned /\ (f = None \/ fd[f] = Free)
      BY <2>2, <3>1 DEF Fds, None, Free, Listening
    <3>2. CASE fd' = fd /\ Owned' = Owned \cup {f}
      BY <2>2, <3>2
    <3>3. CASE fd' = [fd EXCEPT ![f] = Free] /\ Owned' = Owned
      <4>1. g # f /\ fd[g] = Listening
        BY <1>7, <3>3 DEF Free, Listening
      <4> QED
        BY <2>2, <3>3, <4>1
    <3> QED
      BY <1>6, <3>1, <3>2, <3>3
  <2> QED
    BY <2>1, <2>3 DEF ListenerHeld
<1>10. ConnectionsHeld'
  BY <1>1, <1>2, <1>6, <1>7 DEF IInv, ConnectionsHeld, Conns, Free
<1>11. Shape' /\ BeforeStart' /\ CountHonest'
  <2>1. NoAcceptor \in [pc : AcceptorPCs, listen : Sockets, sock : Sockets, conn : 0..NumConns,
                        slot : 0..MaxClients]
    BY ServerAssumption DEF NoAcceptor, AcceptorPCs, Sockets
  <2> QED
    BY <1>1, <1>3, <2>1, CountKept DEF IInv, Shape, BeforeStart, NoAcceptor, Sockets
<1>12. Once(slots') /\ Once(closing')
  BY <1>1 DEF IInv, Ownership, Once
<1> QED
  BY <1>3, <1>5, <1>8, <1>9, <1>10, <1>11, <1>12 DEF IInv, Ownership

\* The steps of tcp_server_task.
LEMMA AcceptorStep == ASSUME IInv, Acceptor \/ Accept PROVE IInv'
<1>1. CASE AcceptStops
  <2>1. /\ acceptor.pc = "accept" /\ acceptor' = [acceptor EXCEPT !.pc = "clean_up"]
        /\ UNCHANGED <<fd, slots, queue, closing, cleaning, listen, count, stops, conns, walker, ctl, handle>>
    BY <1>1 DEF AcceptStops, At, sockVars, tableVars, ctlVars
  <2>2. /\ acceptor'.pc = "clean_up" /\ acceptor'.listen = acceptor.listen /\ Admitting = {}
        /\ acceptor' \in [pc : AcceptorPCs, listen : Sockets, sock : Sockets, conn : 0..NumConns,
                           slot : 0..MaxClients]
    BY <2>1 DEF IInv, Shape, AcceptorPCs, Admitting
  <2> QED
    BY <2>1, <2>2, AcceptorGoesOn
<1>2. CASE Leave
  <2>1. UNCHANGED <<fd, slots, queue, closing, cleaning, listen, count, stops, conns, walker, ctl, handle,
                    acceptor>>
    BY <1>2 DEF Leave, sockVars, tableVars, ctlVars
  <2>2. Admitting' = Admitting /\ Walks("heartbeat")' = Walks("heartbeat")
        /\ Walks("sender")' = Walks("sender")
    BY <2>1 DEF Admitting, Walks
  <2> QED
    BY <2>1, <2>2, OwnersKept, CountKept DEF IInv, Shape, BeforeStart
<1> QED
  BY <1>1, <1>2, OpenListenStep, NoListenSocketStep, AcceptStep, RejectStep, AddClientStep, SpawnStep,
     CleanUpStep DEF Acceptor

-----------------------------------------------------------------------------
(* handle_client_task, the heartbeat and the sender.                          *)

\* A client's task removes its client, or whoever has its slot by then.
LEMMA ClientStep == ASSUME IInv, ClientTask PROVE IInv'
<1>1. /\ UNCHANGED <<closing, listen, stops, conns, walker, ctl, handle, acceptor>>
      /\ UNCHANGED <<fd, slots, queue, cleaning, count>> \/ \E i : Remove(i)
  BY DEF ClientTask, ReadSocket, RecvEnds, ClientEnds, sockVars, tableVars, ctlVars, runVars
<1>2. Admitting' = Admitting /\ Walks("heartbeat")' = Walks("heartbeat")
      /\ Walks("sender")' = Walks("sender")
  BY <1>1 DEF Admitting, Walks
<1>3. CASE UNCHANGED <<fd, slots, queue, cleaning, count>>
  BY <1>1, <1>2, <1>3, OwnersKept, CountKept DEF IInv, Shape, BeforeStart
<1>4. ASSUME NEW i, Remove(i) PROVE IInv'
  <2>1. /\ fd' \in [Fds -> Kinds] /\ slots' \in [Slots -> Sockets] /\ queue' \in Seq(Fds)
        /\ cleaning' = cleaning /\ count' \in Int /\ CountHonest'
        /\ Ownership' /\ ListenerHeld' /\ ConnectionsHeld'
    <3>1. acceptor'.listen = acceptor.listen /\ acceptor'.pc = acceptor.pc
      BY <1>1
    <3> QED
      BY <1>1, <1>2, <1>4, <3>1, Removes
  <2>2. Shape'
    BY <1>1, <2>1 DEF IInv, Shape
  <2>3. BeforeStart'
    <3>1. slots = Nobody => slots' = slots /\ count' = count
      BY <1>4 DEF Remove, Used, Nobody, tableVars
    <3> QED
      BY <1>1, <3>1 DEF IInv, BeforeStart
  <2> QED
    BY <2>1, <2>2, <2>3 DEF IInv
<1> QED
  BY <1>1, <1>3, <1>4

\* A walker that owns no socket goes on.
LEMMA WalkerGoesOn ==
  ASSUME IInv, NEW w \in Walkers, walker[w].pc # "close", walker'[w].pc # "close",
         walker' \in [Walkers -> [pc : WalkerPCs, slot : Nat, sock : Sockets]],
         \A v \in Walkers \ {w} : walker'[v] = walker[v],
         UNCHANGED <<fd, slots, queue, cleaning, count, closing, listen, stops, conns, ctl, handle, acceptor>>
  PROVE  IInv'
<1>1. Admitting' = Admitting /\ Walks("heartbeat")' = Walks("heartbeat")
      /\ Walks("sender")' = Walks("sender")
  BY DEF Admitting, Walks, Walkers
<1> QED
  BY <1>1, OwnersKept, CountKept DEF IInv, Shape, BeforeStart

\* The slot of a failed send is freed; its socket is then the walker's.
LEMMA WalkSendsStep == ASSUME IInv, NEW w \in Walkers, WalkSends(w) PROVE IInv'
<1> DEFINE i == walker[w].slot
           f == slots[i]
<1>1. /\ walker[w].pc = "send" /\ i \in Slots
      /\ walker \in [Walkers -> [pc : WalkerPCs, slot : Nat, sock : Sockets]]
      /\ slots \in [Slots -> Sockets] /\ i + 1 \in Nat
      /\ UNCHANGED <<fd, queue, cleaning, closing, listen, stops, conns, ctl, handle, acceptor>>
  BY ServerAssumption DEF WalkSends, sockVars, ctlVars, runVars, IInv, Shape, Slots
<1>2. CASE Walk(w, "send", i + 1) /\ UNCHANGED tableVars
  <2>1. /\ walker' = [walker EXCEPT ![w] = [pc |-> "send", slot |-> i + 1, sock |-> None]]
        /\ UNCHANGED <<slots, count>>
    BY <1>2 DEF Walk, tableVars
  <2> HIDE DEF i
  <2>2. /\ walker' \in [Walkers -> [pc : WalkerPCs, slot : Nat, sock : Sockets]]
        /\ walker'[w].pc = "send" /\ \A v \in Walkers \ {w} : walker'[v] = walker[v]
    BY <1>1, <2>1 DEF WalkerPCs, Sockets
  <2> QED
    BY <1>1, <2>1, <2>2, WalkerGoesOn
<1>3. CASE /\ i \in Used /\ FreeSlot(i)
           /\ walker' = [walker EXCEPT ![w].pc = "close", ![w].sock = f]
  <2>1. CountHonest' /\ count' \in Int /\ slots' \in [Slots -> Sockets]
    BY <1>1, <1>3, CountDown DEF IInv
  <2>2. f \in Sockets /\ f # None /\ f \in InSlots /\ \A j \in Slots \ {i} : slots[j] # f
    BY <1>1, <1>3 DEF Used, InSlots, IInv, Ownership, Once
  <2>3. slots' = [slots EXCEPT ![i] = None]
    BY <1>3 DEF FreeSlot
  <2>4. slots[i] = f
    OBVIOUS
  <2> HIDE DEF f, i
  <2>5. slots'[i] = None /\ \A j \in Slots \ {i} : slots'[j] = slots[j]
    BY <1>1, <2>3
  <2>6. InSlots' = InSlots \ {f} /\ Once(slots')
    <3>1. \A j \in Slots : slots[j] = f <=> j = i
      BY <2>2, <2>4
    <3>2. InSlots' = InSlots \ {f}
      BY <1>1, <2>5, <3>1 DEF InSlots
    <3>3. Once(slots')
      BY <1>1, <2>1, <2>5 DEF IInv, Ownership, Once
    <3> QED
      BY <3>2, <3>3
  <2>7. /\ walker' \in [Walkers -> [pc : WalkerPCs, slot : Nat, sock : Sockets]]
        /\ walker'[w].pc = "close" /\ walker'[w].sock = f
        /\ \A v \in Walkers \ {w} : walker'[v] = walker[v]
    BY <1>1, <1>3, <2>2 DEF WalkerPCs
  <2>8. /\ InQueue' = InQueue /\ InClosing' = InClosing /\ InCleaning' = InCleaning
        /\ Admitting' = Admitting
        /\ Walks(w) = {} /\ Walks(w)' = {f} /\ \A v \in Walkers \ {w} : Walks(v)' = Walks(v)
    BY <1>1, <2>7 DEF InQueue, InClosing, InCleaning, Admitting, Walks
  <2>9. Apart' /\ Owned' = Owned
    <3>1. CASE w = "heartbeat"
      <4>1. Walks("heartbeat") = {} /\ Walks("heartbeat")' = {f} /\ Walks("sender")' = Walks("sender")
        BY <2>8, <3>1 DEF Walkers
      <4> QED
        BY <2>2, <2>6, <2>8, <4>1 DEF IInv, Ownership, Apart, Owned
    <3>2. CASE w = "sender"
      <4>1. Walks("sender") = {} /\ Walks("sender")' = {f} /\ Walks("heartbeat")' = Walks("heartbeat")
        BY <2>8, <3>2 DEF Walkers
      <4> QED
        BY <2>2, <2>6, <2>8, <4>1 DEF IInv, Ownership, Apart, Owned
    <3> QED
      BY <3>1, <3>2 DEF Walkers
  <2>10. OwnedOpen' /\ ListenerHeld' /\ ConnectionsHeld'
    BY <1>1, <2>9 DEF IInv, Ownership, OwnedOpen, ListenerHeld, ConnectionsHeld
  <2>11. Once(queue') /\ Once(closing')
    BY <1>1 DEF IInv, Ownership, Once
  <2>12. Shape'
    BY <1>1, <2>1, <2>7 DEF IInv, Shape
  <2>13. BeforeStart'
    <3>1. slots # Nobody
      BY <1>1, <2>2, <2>4 DEF Nobody
    <3> QED
      BY <1>1, <3>1 DEF IInv, BeforeStart
  <2> QED
    BY <2>1, <2>6, <2>9, <2>10, <2>11, <2>12, <2>13 DEF IInv, Ownership
<1> QED
  BY <1>1, <1>2, <1>3 DEF WalkSends

\* The walker closes the socket that it took out of the table.
LEMMA WalkClosesStep == ASSUME IInv, NEW w \in Walkers, WalkCloses(w) PROVE IInv'
<1> DEFINE f == walker[w].sock
<1>1. /\ walker[w].pc = "close" /\ SafeClose(f)
      /\ walker' = [walker EXCEPT ![w] = [pc |-> "relock", slot |-> walker[w].slot + 1, sock |-> None]]
      /\ UNCHANGED <<slots, closing, listen, count, stops, conns, ctl, handle, acceptor>>
  BY DEF WalkCloses, Walk, tableVars, ctlVars, runVars
<1>2. /\ walker \in [Walkers -> [pc : WalkerPCs, slot : Nat, sock : Sockets]]
      /\ f \in Sockets /\ walker[w].slot + 1 \in Nat
  BY DEF IInv, Shape
<1>3. /\ walker' \in [Walkers -> [pc : WalkerPCs, slot : Nat, sock : Sockets]]
      /\ walker'[w].pc = "relock" /\ \A v \in Walkers \ {w} : walker'[v] = walker[v]
  BY <1>1, <1>2 DEF WalkerPCs, Sockets
<1>4. Walks(w) = {f} /\ Walks(w)' = {} /\ \A v \in Walkers \ {w} : Walks(v)' = Walks(v)
  BY <1>1, <1>3 DEF Walks
<1> HIDE DEF f
<1>5. /\ InSlots' = InSlots /\ InClosing' = InClosing /\ Admitting' = Admitting
  BY <1>1 DEF InSlots, InClosing, Admitting
<1>6. /\ f \in Owned \ InQueue /\ f \notin InSlots /\ f \notin InClosing /\ f \notin InCleaning
      /\ f \notin Admitting
      /\ Walks("heartbeat")' = Walks("heartbeat") \ {f} /\ Walks("sender")' = Walks("sender") \ {f}
  <2>1. CASE w = "heartbeat"
    <3>1. Walks("heartbeat") = {f} /\ Walks("heartbeat")' = {} /\ Walks("sender")' = Walks("sender")
      BY <1>4, <2>1 DEF Walkers
    <3> QED
      BY <3>1 DEF IInv, Ownership, Apart, Owned
  <2>2. CASE w = "sender"
    <3>1. Walks("sender") = {f} /\ Walks("sender")' = {} /\ Walks("heartbeat")' = Walks("heartbeat")
      BY <1>4, <2>2 DEF Walkers
    <3> QED
      BY <3>1 DEF IInv, Ownership, Apart, Owned
  <2> QED
    BY <2>1, <2>2 DEF Walkers
<1>7. /\ fd' \in [Fds -> Kinds] /\ queue' \in Seq(Fds) /\ cleaning' = cleaning
      /\ Apart' /\ Once(queue') /\ OwnedOpen' /\ ListenerHeld' /\ ConnectionsHeld'
  <2>1. Shape /\ Apart /\ Once(queue) /\ OwnedOpen /\ ListenerHeld /\ ConnectionsHeld
    BY DEF IInv, Ownership
  <2>2. acceptor'.listen = acceptor.listen /\ acceptor'.pc = acceptor.pc
    BY <1>1
  <2>3. InSlots' = InSlots \ {f} /\ InClosing' = InClosing \ {f} /\ Admitting' = Admitting \ {f}
    BY <1>5, <1>6
  <2> QED
    BY <1>1, <1>2, <1>6, <2>1, <2>2, <2>3, Closes
<1>8. Shape' /\ Once(slots') /\ Once(closing') /\ BeforeStart' /\ CountHonest'
  BY <1>1, <1>3, <1>7, CountKept DEF IInv, Shape, Ownership, Once, BeforeStart
<1> QED
  BY <1>7, <1>8 DEF IInv, Ownership

\* The remaining steps of a walk: taking and giving the mutex.
LEMMA WalkGoesStep ==
  ASSUME IInv, NEW w \in Walkers,
         WalkStarts(w) \/ WalkResumes(w) \/ WalkEnds(w) \/ (w = "sender" /\ SenderTimesOut)
  PROVE  IInv'
<1>1. /\ UNCHANGED <<fd, slots, queue, cleaning, count, closing, listen, stops, conns, ctl, handle, acceptor>>
      /\ walker[w].pc # "close"
      /\ \E pc \in WalkerPCs \ {"close"}, i \in Nat :
           walker' = [walker EXCEPT ![w] = [pc |-> pc, slot |-> i, sock |-> None]]
  BY DEF WalkStarts, WalkResumes, WalkEnds, SenderTimesOut, Walk, sockVars, tableVars, runVars, ctlVars,
     IInv, Shape, WalkerPCs
<1>2. PICK pc \in WalkerPCs \ {"close"}, i \in Nat :
        walker' = [walker EXCEPT ![w] = [pc |-> pc, slot |-> i, sock |-> None]]
  BY <1>1
<1>3. /\ walker \in [Walkers -> [pc : WalkerPCs, slot : Nat, sock : Sockets]]
      /\ [pc |-> pc, slot |-> i, sock |-> None] \in [pc : WalkerPCs, slot : Nat, sock : Sockets]
  BY DEF IInv, Shape, Sockets
<1>4. /\ walker' \in [Walkers -> [pc : WalkerPCs, slot : Nat, sock : Sockets]]
      /\ walker'[w].pc # "close" /\ \A v \in Walkers \ {w} : walker'[v] = walker[v]
  BY <1>2, <1>3
<1> QED
  BY <1>1, <1>4, WalkerGoesOn

-----------------------------------------------------------------------------
(* socket_cleanup_task.                                                       *)

\* The head of a sequence without repetitions is not in its tail.
LEMMA Dequeued ==
  ASSUME Shape, Once(queue), queue # <<>>, queue' = Tail(queue)
  PROVE  /\ queue' \in Seq(Fds) /\ Once(queue') /\ Head(queue) \in Fds
         /\ Head(queue) \in InQueue /\ InQueue' = InQueue \ {Head(queue)}
<1>1. /\ queue \in Seq(Fds) /\ Len(queue) \in Nat \ {0} /\ DOMAIN queue = 1..Len(queue)
      /\ queue' \in Seq(Fds) /\ DOMAIN queue' = 1..(Len(queue) - 1)
      /\ \A i \in DOMAIN queue' : queue'[i] = queue[i + 1]
      /\ Head(queue) = queue[1]
  BY DEF Shape
<1>2. \A i \in DOMAIN queue : queue[i] \in Fds /\ queue[i] # None
  <2>1. \A i \in DOMAIN queue : queue[i] \in Fds
    BY <1>1
  <2>2. None \notin Fds
    BY ServerAssumption DEF Fds, None
  <2> QED
    BY <2>1, <2>2
<1>3. \A i, j \in DOMAIN queue : queue[i] = queue[j] => i = j
  BY <1>2 DEF Once
<1>4. Once(queue')
  BY <1>1, <1>3 DEF Once
<1>5. InQueue' = {queue[i] : i \in 2..Len(queue)}
  <2>1. InQueue' \subseteq {queue[i] : i \in 2..Len(queue)}
    BY <1>1 DEF InQueue
  <2>2. ASSUME NEW i \in 2..Len(queue) PROVE queue[i] \in InQueue'
    <3>1. i - 1 \in DOMAIN queue' /\ queue'[i - 1] = queue[i]
      BY <1>1
    <3> QED
      BY <3>1 DEF InQueue
  <2> QED
    BY <2>1, <2>2
<1>6. 1 \in DOMAIN queue /\ \A i \in DOMAIN queue : i = 1 \/ i \in 2..Len(queue)
  BY <1>1
<1>7. InQueue' = InQueue \ {Head(queue)}
  <2>1. \A i \in 2..Len(queue) : i \in DOMAIN queue /\ i # 1
    BY <1>1
  <2>2. \A i \in 2..Len(queue) : queue[i] # queue[1]
    BY <1>3, <1>6, <2>1
  <2>3. InQueue' \subseteq InQueue \ {queue[1]}
    BY <1>5, <2>1, <2>2 DEF InQueue
  <2>4. InQueue \ {queue[1]} \subseteq InQueue'
    BY <1>5, <1>6 DEF InQueue
  <2> QED
    BY <1>1, <2>3, <2>4
<1> QED
  BY <1>1, <1>2, <1>4, <1>6, <1>7 DEF InQueue

\* The queue's first socket is shut down; it is then the cleanup task's to close.
LEMMA CleanupShutsStep == ASSUME IInv, CleanupShuts PROVE IInv'
<1> DEFINE f == Head(queue)
<1>1. /\ cleaning = None /\ queue # <<>> /\ cleaning' = f /\ queue' = Tail(queue)
      /\ UNCHANGED <<fd, slots, count, closing, listen, stops, conns, ctl, handle, acceptor, walker>>
  BY DEF CleanupShuts, tableVars, runVars, ctlVars
<1>2. /\ queue' \in Seq(Fds) /\ Once(queue') /\ f \in Fds
      /\ f \in InQueue /\ InQueue' = InQueue \ {f}
  BY <1>1, Dequeued DEF IInv, Ownership
<1> HIDE DEF f
<1>3. /\ InCleaning = {} /\ InCleaning' = {f} /\ InSlots' = InSlots /\ InClosing' = InClosing
      /\ Admitting' = Admitting /\ Walks("heartbeat")' = Walks("heartbeat")
      /\ Walks("sender")' = Walks("sender")
  BY <1>1, <1>2 DEF InCleaning, InSlots, InClosing, Admitting, Walks, Fds, None
<1>4. Apart' /\ Owned' = Owned
  BY <1>2, <1>3 DEF IInv, Ownership, Apart, Owned
<1>5. OwnedOpen' /\ ListenerHeld' /\ ConnectionsHeld'
  BY <1>1, <1>4 DEF IInv, Ownership, OwnedOpen, ListenerHeld, ConnectionsHeld
<1>6. Shape' /\ Once(slots') /\ Once(closing') /\ BeforeStart' /\ CountHonest'
  BY <1>1, <1>2, CountKept DEF IInv, Shape, Ownership, Once, BeforeStart, Sockets
<1> QED
  BY <1>2, <1>4, <1>5, <1>6 DEF IInv, Ownership

\* The socket is closed: nobody has it any more.
LEMMA CleanupClosesStep == ASSUME IInv, CleanupCloses PROVE IInv'
<1> DEFINE f == cleaning
<1>1. /\ f # None /\ fd' = [fd EXCEPT ![f] = Free] /\ cleaning' = None
      /\ UNCHANGED <<queue, slots, count, closing, listen, stops, conns, ctl, handle, acceptor, walker>>
  BY DEF CleanupCloses, tableVars, runVars, ctlVars
<1>2. /\ InCleaning = {f} /\ InCleaning' = {} /\ InSlots' = InSlots /\ InClosing' = InClosing
      /\ InQueue' = InQueue
      /\ Admitting' = Admitting /\ Walks("heartbeat")' = Walks("heartbeat")
      /\ Walks("sender")' = Walks("sender")
  BY <1>1 DEF InCleaning, InSlots, InQueue, InClosing, Admitting, Walks
<1>3. f \in Fds /\ fd \in [Fds -> Kinds]
  BY <1>1 DEF IInv, Shape, Sockets
<1> HIDE DEF f
<1>4. Apart' /\ Owned' = Owned \ {f} /\ f \in Owned
  BY <1>2 DEF IInv, Ownership, Apart, Owned
<1>5. fd'[f] = Free /\ (\A g \in Fds \ {f} : fd'[g] = fd[g]) /\ fd' \in [Fds -> Kinds]
  BY <1>1, <1>3 DEF Kinds
<1>6. Owned \subseteq Fds /\ f # acceptor.listen /\ acceptor.listen \in Sockets
  BY <1>4 DEF IInv, Shape, Ownership, OwnedOpen, Sockets, Owned, InSlots, InQueue, InClosing,
     InCleaning, Walks, Walkers, Admitting
<1>7. OwnedOpen'
  BY <1>1, <1>4, <1>5, <1>6 DEF IInv, Ownership, OwnedOpen
<1>8. ListenerHeld'
  <2>1. \A g \in Fds : fd'[g] = Listening => g = acceptor'.listen \/ g \in Owned'
    BY <1>1, <1>4, <1>5 DEF IInv, ListenerHeld, Free, Listening
  <2>2. acceptor.listen # None => fd'[acceptor.listen] = fd[acceptor.listen]
    BY <1>5, <1>6 DEF Sockets
  <2> QED
    BY <1>1, <2>1, <2>2 DEF IInv, ListenerHeld
<1>9. ConnectionsHeld'
  BY <1>1, <1>4, <1>5 DEF IInv, ConnectionsHeld, Free, Conns
<1>10. Shape' /\ Once(slots') /\ Once(queue') /\ Once(closing') /\ BeforeStart' /\ CountHonest'
  BY <1>1, <1>5, CountKept DEF IInv, Shape, Ownership, Once, BeforeStart, Sockets
<1> QED
  BY <1>4, <1>7, <1>8, <1>9, <1>10 DEF IInv, Ownership

-----------------------------------------------------------------------------
(* start_tcp_server, stop_tcp_server, the peers and the rest of the device.   *)

\* What the stop and the restart forget is never a listening socket, and they
\* forget no socket that was collected to be closed.
Forgettable ==
  /\ \A f \in InSlots \cup Walks("heartbeat") \cup Walks("sender") \cup Admitting : fd[f] \in Conns
  /\ ctl # "close" => closing = Nobody

\* A listening socket is not a connection.
LEMMA NotListening ==
  ASSUME Forgettable, NEW f \in InSlots \cup Walks("heartbeat") \cup Walks("sender") \cup Admitting
  PROVE  fd[f] # Listening
  BY ServerAssumption DEF Forgettable, Conns, Listening

\* start_tcp_server empties the table, which before the first stop was empty.
LEMMA StartStep == ASSUME IInv, Forgettable, Start PROVE IInv'
<1>1. /\ ctl = "stopped" /\ ctl' = "running"
      /\ UNCHANGED <<fd, queue, cleaning, count, closing, listen, stops, conns>>
  BY DEF Start, sockVars
<1>2. CASE handle
  <2>1. UNCHANGED <<slots, walker, acceptor, handle>>
    BY <1>2 DEF Start
  <2>2. Admitting' = Admitting /\ Walks("heartbeat")' = Walks("heartbeat")
        /\ Walks("sender")' = Walks("sender")
    BY <2>1 DEF Admitting, Walks
  <2> QED
    BY <1>1, <2>1, <2>2, OwnersKept, CountKept DEF IInv, Shape, BeforeStart
<1>3. CASE ~handle
  <2>1. /\ slots' = Nobody /\ handle' /\ acceptor.pc = "none" /\ acceptor.listen = None /\ listen = None
        /\ walker' = [w \in Walkers |-> IF walker[w].pc = "none" THEN AtRest ELSE walker[w]]
        /\ acceptor' = [NoAcceptor EXCEPT !.pc = "open"]
    BY <1>3 DEF Start, IInv, BeforeStart, ListenerHeld
  <2>2. acceptor' = [pc |-> "open", listen |-> None, sock |-> None, conn |-> 0, slot |-> 0]
    BY <2>1 DEF NoAcceptor
  <2>3. \A w \in Walkers : Walks(w)' = Walks(w)
    BY <2>1 DEF Walks, AtRest
  <2>4. /\ InSlots' = {} /\ InQueue' = InQueue /\ InClosing' = InClosing /\ InCleaning' = InCleaning
        /\ Walks("heartbeat")' = Walks("heartbeat") /\ Walks("sender")' = Walks("sender")
        /\ Admitting = {} /\ Admitting' = {}
    BY <1>1, <2>1, <2>2, <2>3 DEF InSlots, InQueue, InClosing, InCleaning, Admitting, Nobody, Walkers
  <2>5. Apart' /\ Owned' = Owned \ InSlots
    BY <2>4 DEF IInv, Ownership, Apart, Owned
  <2>6. OwnedOpen'
    BY <1>1, <2>2, <2>5, ServerAssumption DEF IInv, Ownership, OwnedOpen
  <2>7. ListenerHeld'
    <3>1. \A f \in Fds : fd[f] = Listening => f \in Owned /\ f \notin InSlots
      <4>1. \A f \in Fds : f # None
        BY ServerAssumption DEF Fds, None
      <4> QED
        BY <2>1, <4>1, NotListening DEF IInv, ListenerHeld
    <3> QED
      BY <1>1, <2>1, <2>2, <2>5, <3>1 DEF ListenerHeld
  <2>8. ConnectionsHeld'
    <3>1. stops = 0 => InSlots = {}
      BY <1>1 DEF IInv, BeforeStart, InSlots, Nobody
    <3> QED
      BY <1>1, <2>5, <3>1 DEF IInv, ConnectionsHeld
  <2>9. CountHonest'
    <3>1. Used' = {}
      BY <2>1 DEF Used, Nobody
    <3>2. stops = 0 => count = 0
      BY <1>1 DEF IInv, BeforeStart
    <3> QED
      BY <1>1, <3>1, <3>2, UsedFinite, FS_EmptySet DEF IInv, Shape, CountHonest
  <2>10. Shape'
    <3>1. walker' \in [Walkers -> [pc : WalkerPCs, slot : Nat, sock : Sockets]]
      BY <2>1 DEF IInv, Shape, AtRest, WalkerPCs, Sockets
    <3>2. acceptor' \in [pc : AcceptorPCs, listen : Sockets, sock : Sockets, conn : 0..NumConns,
                         slot : 0..MaxClients]
      BY <2>2, ServerAssumption DEF AcceptorPCs, Sockets
    <3>3. slots' \in [Slots -> Sockets]
      BY <2>1 DEF Nobody, Sockets
    <3> QED
      BY <1>1, <3>1, <3>2, <3>3 DEF IInv, Shape
  <2>11. Once(slots') /\ Once(queue') /\ Once(closing') /\ BeforeStart'
    BY <1>1, <2>1, <2>2 DEF IInv, Ownership, Once, Nobody, BeforeStart
  <2> QED
    BY <2>5, <2>6, <2>7, <2>8, <2>9, <2>10, <2>11 DEF IInv, Ownership
<1> QED
  BY <1>2, <1>3

\* stop_tcp_server closes the acceptor's listening socket under it.
LEMMA StopListeningStep == ASSUME IInv, StopListening PROVE IInv'
<1>1. /\ ctl' = "close_all" /\ stops' = stops + 1 /\ listen' = None
      /\ fd' = IF listen = None THEN fd ELSE [fd EXCEPT ![listen] = Free]
      /\ UNCHANGED <<slots, queue, cleaning, count, closing, conns, walker, acceptor, handle>>
  BY DEF StopListening, tableVars
<1>2. /\ InSlots' = InSlots /\ InQueue' = InQueue /\ InClosing' = InClosing /\ InCleaning' = InCleaning
      /\ Walks("heartbeat")' = Walks("heartbeat") /\ Walks("sender")' = Walks("sender")
      /\ Admitting' = Admitting
  BY <1>1 DEF InSlots, InQueue, InClosing, InCleaning, Admitting, Walks
<1>3. Apart' /\ Owned' = Owned
  BY <1>2 DEF IInv, Ownership, Apart, Owned
<1>4. fd \in [Fds -> Kinds] /\ Owned \subseteq Fds /\ (listen # None => listen = acceptor.listen /\ listen \in Fds)
  BY DEF IInv, Shape, ListenerHeld, Ownership, OwnedOpen, Sockets, Owned, InSlots, InQueue, InClosing,
     InCleaning, Walks, Walkers, Admitting
<1>5. fd' \in [Fds -> Kinds] /\ \A f \in Fds : fd'[f] = fd[f] \/ (fd'[f] = Free /\ f = acceptor.listen)
  BY <1>1, <1>4 DEF Kinds
<1>6. OwnedOpen'
  BY <1>1, <1>3, <1>4, <1>5 DEF IInv, Ownership, OwnedOpen
<1>7. ListenerHeld'
  <2>1. \A f \in Fds : fd'[f] = Listening => fd[f] = Listening
    BY <1>5 DEF Free, Listening
  <2>2. acceptor.listen # None => fd'[acceptor.listen] \in {Free, Listening, Foreign}
    BY <1>5 DEF IInv, ListenerHeld, Shape, Sockets
  <2> QED
    BY <1>1, <1>3, <2>1, <2>2 DEF IInv, ListenerHeld
<1>8. ConnectionsHeld' /\ BeforeStart' /\ Shape'
  BY <1>1, <1>5 DEF IInv, Shape, ConnectionsHeld, BeforeStart, Sockets
<1>9. Once(slots') /\ Once(queue') /\ Once(closing') /\ CountHonest'
  BY <1>1, CountKept DEF IInv, Shape, Ownership, Once
<1> QED
  BY <1>3, <1>6, <1>7, <1>8, <1>9 DEF IInv, Ownership

\* close_all_clients takes over the sockets of the table, or leaves it alone.
LEMMA CollectAllStep == ASSUME IInv, Forgettable, CollectAll PROVE IInv'
<1>1. /\ ctl = "close_all" /\ ctl' = "close"
      /\ UNCHANGED <<fd, queue, cleaning, listen, stops, conns, walker, acceptor, handle>>
  BY DEF CollectAll, sockVars, runVars
<1>2. /\ InQueue' = InQueue /\ InCleaning' = InCleaning
      /\ Walks("heartbeat")' = Walks("heartbeat") /\ Walks("sender")' = Walks("sender")
      /\ Admitting' = Admitting
  BY <1>1 DEF InQueue, InCleaning, Admitting, Walks
<1>3. CASE UNCHANGED <<closing, slots, count>>
  BY <1>1, <1>2, <1>3, OwnersKept, CountKept DEF IInv, Shape, BeforeStart
<1>4. CASE closing' = slots /\ slots' = Nobody /\ count' = 0
  <2>1. InSlots' = {} /\ InClosing' = InSlots /\ InClosing = {}
    BY <1>1, <1>4 DEF InSlots, InClosing, Nobody, Forgettable
  <2>2. Apart' /\ Owned' = Owned
    BY <1>2, <2>1 DEF IInv, Ownership, Apart, Owned
  <2>3. OwnedOpen' /\ ListenerHeld' /\ ConnectionsHeld'
    BY <1>1, <2>2 DEF IInv, Ownership, OwnedOpen, ListenerHeld, ConnectionsHeld
  <2>4. CountHonest'
    <3>1. Used' = {}
      BY <1>4 DEF Used, Nobody
    <3> QED
      BY <1>4, <3>1, FS_EmptySet DEF CountHonest
  <2>5. Shape' /\ BeforeStart'
    BY <1>1, <1>4 DEF IInv, Shape, BeforeStart, Nobody, Sockets
  <2>6. Once(slots') /\ Once(queue') /\ Once(closing')
    BY <1>1, <1>4 DEF IInv, Ownership, Once, Nobody
  <2> QED
    BY <2>2, <2>3, <2>4, <2>5, <2>6 DEF IInv, Ownership
<1> QED
  BY <1>3, <1>4 DEF CollectAll, tableVars

\* One of the collected sockets is closed.
LEMMA CloseCollectedStep == ASSUME IInv, CloseCollected PROVE IInv'
<1>1. PICK i \in Slots : /\ closing[i] # None /\ SafeClose(closing[i])
                         /\ closing' = [closing EXCEPT ![i] = None]
  BY DEF CloseCollected
<1> DEFINE f == closing[i]
<1>2. /\ SafeClose(f)
      /\ UNCHANGED <<slots, count, listen, stops, conns, walker, acceptor, handle, ctl>>
  BY <1>1 DEF CloseCollected, tableVars, runVars
<1>3. /\ closing \in [Slots -> Sockets] /\ f \in Sockets /\ f # None /\ f \in InClosing
      /\ \A j \in Slots : closing[j] = f <=> j = i
  BY <1>1 DEF IInv, Shape, Ownership, Once, InClosing
<1> HIDE DEF f
<1>4. closing'[i] = None /\ (\A j \in Slots \ {i} : closing'[j] = closing[j])
      /\ closing' \in [Slots -> Sockets]
  BY <1>1, <1>3 DEF Sockets
<1>5. InClosing' = InClosing \ {f} /\ Once(closing')
  <2>1. InClosing' = InClosing \ {f}
    BY <1>3, <1>4 DEF InClosing
  <2>2. Once(closing')
    BY <1>3, <1>4 DEF IInv, Ownership, Once
  <2> QED
    BY <2>1, <2>2
<1>6. /\ InSlots' = InSlots /\ Admitting' = Admitting
      /\ Walks("heartbeat")' = Walks("heartbeat") /\ Walks("sender")' = Walks("sender")
  BY <1>2 DEF InSlots, Admitting, Walks
<1>7. /\ f \in Owned \ InQueue /\ f \notin InSlots /\ f \notin InCleaning
      /\ f \notin Admitting /\ f \notin Walks("heartbeat") /\ f \notin Walks("sender")
  BY <1>3 DEF IInv, Ownership, Apart, Owned
<1>8. /\ fd' \in [Fds -> Kinds] /\ queue' \in Seq(Fds) /\ cleaning' = cleaning
      /\ Apart' /\ Once(queue') /\ OwnedOpen' /\ ListenerHeld' /\ ConnectionsHeld'
  <2>1. Shape /\ Apart /\ Once(queue) /\ OwnedOpen /\ ListenerHeld /\ ConnectionsHeld
    BY DEF IInv, Ownership
  <2>2. acceptor'.listen = acceptor.listen /\ acceptor'.pc = acceptor.pc
    BY <1>2
  <2>3. /\ InSlots' = InSlots \ {f} /\ Admitting' = Admitting \ {f}
        /\ Walks("heartbeat")' = Walks("heartbeat") \ {f} /\ Walks("sender")' = Walks("sender") \ {f}
    BY <1>6, <1>7
  <2> QED
    BY <1>2, <1>3, <1>5, <1>7, <2>1, <2>2, <2>3, Closes
<1>9. Shape' /\ Once(slots') /\ BeforeStart' /\ CountHonest'
  BY <1>2, <1>4, <1>8, CountKept DEF IInv, Shape, Ownership, Once, BeforeStart
<1> QED
  BY <1>5, <1>8, <1>9 DEF IInv, Ownership

\* The heartbeat is deleted: the socket it was about to close is nobody's now.
LEMMA DeleteHeartbeatStep == ASSUME IInv, Forgettable, DeleteHeartbeat PROVE IInv'
<1>1. /\ ctl = "close" /\ ctl' = "stopped"
      /\ walker' = [walker EXCEPT !["heartbeat"] = [AtRest EXCEPT !.pc = "none"]]
      /\ UNCHANGED <<fd, slots, queue, cleaning, closing, count, listen, stops, conns, acceptor, handle>>
  BY DEF DeleteHeartbeat, sockVars, tableVars, runVars
<1>2. /\ walker' \in [Walkers -> [pc : WalkerPCs, slot : Nat, sock : Sockets]]
      /\ walker'["heartbeat"].pc = "none" /\ walker'["sender"] = walker["sender"]
  BY <1>1 DEF IInv, Shape, Walkers, AtRest, WalkerPCs, Sockets
<1>3. /\ InSlots' = InSlots /\ InQueue' = InQueue /\ InClosing' = InClosing /\ InCleaning' = InCleaning
      /\ Walks("heartbeat")' = {} /\ Walks("sender")' = Walks("sender") /\ Admitting' = Admitting
  BY <1>1, <1>2 DEF InSlots, InQueue, InClosing, InCleaning, Admitting, Walks
<1>4. Apart' /\ Owned' = Owned \ Walks("heartbeat")
  BY <1>3 DEF IInv, Ownership, Apart, Owned
<1>5. OwnedOpen'
  BY <1>1, <1>4 DEF IInv, Ownership, OwnedOpen
<1>6. ListenerHeld'
  <2>1. \A f \in Fds : fd[f] = Listening => f \notin Walks("heartbeat")
    BY NotListening
  <2> QED
    BY <1>1, <1>4, <2>1 DEF IInv, ListenerHeld
<1>7. ConnectionsHeld' /\ BeforeStart' /\ Shape'
  BY <1>1, <1>2 DEF IInv, Shape, ConnectionsHeld, BeforeStart
<1>8. Once(slots') /\ Once(queue') /\ Once(closing') /\ CountHonest'
  BY <1>1, CountKept DEF IInv, Shape, Ownership, Once
<1> QED
  BY <1>4, <1>5, <1>6, <1>7, <1>8 DEF IInv, Ownership

\* Another task opens a socket, perhaps under the descriptor of the listening
\* socket that the stop has closed.
LEMMA ForeignOpensStep == ASSUME IInv, ForeignOpens PROVE IInv'
<1>1. PICK f \in Fds : Lowest(f) /\ fd' = [fd EXCEPT ![f] = Foreign]
  BY DEF ForeignOpens
<1>2. UNCHANGED <<slots, queue, cleaning, closing, count, listen, stops, conns, acceptor, handle, walker, ctl>>
  BY DEF ForeignOpens, tableVars, runVars, ctlVars
<1>3. f \notin Owned /\ fd[f] = Free
  BY <1>1, LowestFree
<1>4. /\ InSlots' = InSlots /\ InQueue' = InQueue /\ InClosing' = InClosing /\ InCleaning' = InCleaning
      /\ Walks("heartbeat")' = Walks("heartbeat") /\ Walks("sender")' = Walks("sender")
      /\ Admitting' = Admitting
  BY <1>2 DEF InSlots, InQueue, InClosing, InCleaning, Admitting, Walks
<1>5. Apart' /\ Owned' = Owned
  BY <1>4 DEF IInv, Ownership, Apart, Owned
<1>6. fd' \in [Fds -> Kinds] /\ fd'[f] = Foreign /\ \A g \in Fds \ {f} : fd'[g] = fd[g]
  BY <1>1 DEF IInv, Shape, Kinds
<1>7. Owned \subseteq Fds
  BY DEF IInv, Shape, Ownership, OwnedOpen, Sockets, Owned, InSlots, InQueue, InClosing,
     InCleaning, Walks, Walkers, Admitting
<1>8. OwnedOpen'
  BY <1>2, <1>3, <1>5, <1>6, <1>7 DEF IInv, Ownership, OwnedOpen
<1>9. ListenerHeld'
  <2>1. \A g \in Fds : fd'[g] = Listening => fd[g] = Listening
    BY <1>6 DEF Foreign, Listening
  <2>2. acceptor.listen # None => fd'[acceptor.listen] \in {Free, Listening, Foreign}
    BY <1>6 DEF IInv, ListenerHeld, Shape, Sockets
  <2>3. listen # None => listen # f /\ fd'[listen] = Listening
    BY <1>3, <1>6 DEF IInv, ListenerHeld, Shape, Sockets, Free, Listening
  <2> QED
    BY <1>2, <1>5, <2>1, <2>2, <2>3 DEF IInv, ListenerHeld
<1>10. ConnectionsHeld'
  BY <1>2, <1>3, <1>5, <1>6, ServerAssumption DEF IInv, ConnectionsHeld, Conns, Foreign
<1>11. Shape' /\ BeforeStart' /\ Once(slots') /\ Once(queue') /\ Once(closing') /\ CountHonest'
  BY <1>2, <1>6, CountKept DEF IInv, Shape, BeforeStart, Ownership, Once
<1> QED
  BY <1>5, <1>8, <1>9, <1>10, <1>11 DEF IInv, Ownership

\* A peer that closes changes no descriptor.
LEMMA PeerClosesStep == ASSUME IInv, PeerCloses PROVE IInv'
<1>1. UNCHANGED <<fd, slots, queue, cleaning, closing, count, listen, stops, conns, acceptor, handle, walker, ctl>>
  BY DEF PeerCloses, tableVars, runVars, ctlVars
<1>2. /\ Walks("heartbeat")' = Walks("heartbeat") /\ Walks("sender")' = Walks("sender")
      /\ Admitting' = Admitting
  BY <1>1 DEF Admitting, Walks
<1> QED
  BY <1>1, <1>2, OwnersKept, CountKept DEF IInv, Shape, BeforeStart

-----------------------------------------------------------------------------
(* The invariant and what follows from it.                                    *)

\* Every step keeps the invariant.
LEMMA NextIInv == ASSUME IInv, Forgettable, [Next]_vars PROVE IInv'
<1>1. CASE UNCHANGED vars
  <2>1. UNCHANGED <<fd, slots, queue, cleaning, closing, count, listen, stops, conns, acceptor, handle,
                    walker, ctl>>
    BY <1>1 DEF vars, sockVars, tableVars, runVars, ctlVars
  <2>2. /\ Walks("heartbeat")' = Walks("heartbeat") /\ Walks("sender")' = Walks("sender")
        /\ Admitting' = Admitting
    BY <2>1 DEF Admitting, Walks
  <2> QED
    BY <2>1, <2>2, OwnersKept, CountKept DEF IInv, Shape, BeforeStart
<1>2. CASE Acceptor \/ Accept
  BY <1>2, AcceptorStep
<1>3. CASE ClientTask
  BY <1>3, ClientStep
<1>4. CASE Walker \/ \E w \in Walkers : WalkStarts(w)
  BY <1>4, WalkSendsStep, WalkClosesStep, WalkGoesStep DEF Walker
<1>5. CASE SenderTimesOut
  BY <1>5, WalkGoesStep DEF Walkers
<1>6. CASE CleanupShuts \/ CleanupCloses
  BY <1>6, CleanupShutsStep, CleanupClosesStep
<1>7. CASE Control
  BY <1>7, StartStep, StopListeningStep, CollectAllStep, CloseCollectedStep, DeleteHeartbeatStep
  DEF Control, Stopping
<1>8. CASE PeerCloses \/ ForeignOpens
  BY <1>8, PeerClosesStep, ForeignOpensStep
<1> QED
  BY <1>1, <1>2, <1>3, <1>4, <1>5, <1>6, <1>7, <1>8 DEF Next

\* A descriptor in use refers to the same until it is closed.
LEMMA SameUntilClosed ==
  ASSUME IInv, [Next]_vars, NEW f \in Fds, fd[f] # Free, fd'[f] # Free
  PROVE  fd'[f] = fd[f]
<1>1. fd \in [Fds -> Kinds]
  BY DEF IInv, Shape
<1> DEFINE Changes == \/ fd' = fd
                      \/ \E g : fd' = [fd EXCEPT ![g] = Free]
                      \/ \E g \in Fds : \E v : fd[g] = Free /\ fd' = [fd EXCEPT ![g] = v]
<1>2. Changes
  <2>1. ASSUME Acceptor \/ Accept PROVE Changes
    BY <2>1 DEF Acceptor, Accept, OpenListen, NoListenSocket, AcceptStops, Reject, AddClient, Spawn,
       SpawnFails, CleanUp, Leave, Remove, SafeClose, Lowest, sockVars
  <2>2. ASSUME ClientTask \/ Walker \/ SenderTimesOut \/ \E w \in Walkers : WalkStarts(w) PROVE Changes
    BY <2>2 DEF ClientTask, ReadSocket, RecvEnds, ClientEnds, Remove, SafeClose, Walker, WalkSends,
       WalkCloses, WalkResumes, WalkEnds, SenderTimesOut, WalkStarts, sockVars
  <2>3. ASSUME CleanupShuts \/ CleanupCloses \/ Control PROVE Changes
    BY <2>3 DEF CleanupShuts, CleanupCloses, Control, Stopping, Start, StopListening, CollectAll,
       CloseCollected, DeleteHeartbeat, SafeClose, sockVars
  <2>4. ASSUME PeerCloses \/ ForeignOpens \/ UNCHANGED vars PROVE Changes
    BY <2>4 DEF PeerCloses, ForeignOpens, Lowest, vars, sockVars
  <2> QED
    BY <2>1, <2>2, <2>3, <2>4 DEF Next
<1> QED
  BY <1>1, <1>2

\* Only an admitted connection becomes a client, and clients move only to a walker.
LEMMA ClientsKept ==
  ASSUME IInv, [Next]_vars,
         NEW f \in (InSlots \cup Walks("heartbeat") \cup Walks("sender") \cup Admitting)'
  PROVE  \/ f \in InSlots \cup Walks("heartbeat") \cup Walks("sender") \cup Admitting
         \/ fd'[f] \in Conns
<1> DEFINE Clients == InSlots \cup Walks("heartbeat") \cup Walks("sender") \cup Admitting
<1>0. /\ slots \in [Slots -> Sockets]
      /\ acceptor \in [pc : AcceptorPCs, listen : Sockets, sock : Sockets, conn : 0..NumConns,
                         slot : 0..MaxClients]
      /\ walker \in [Walkers -> [pc : WalkerPCs, slot : Nat, sock : Sockets]]
  BY DEF IInv, Shape
<1>1. ASSUME UNCHANGED <<slots, walker, acceptor>> PROVE f \in Clients
  BY <1>1 DEF InSlots, Walks, Admitting
<1>2. ASSUME NEW i, slots' = slots \/ slots' = [slots EXCEPT ![i] = None], walker' = walker,
             acceptor' = acceptor \/ acceptor'.pc \notin {"add", "reject"}
      PROVE  f \in Clients
  BY <1>0, <1>2 DEF InSlots, Walks, Admitting
<1>3. ASSUME slots' = Nobody \/ slots' = slots, acceptor' = acceptor \/ acceptor'.pc \notin {"add", "reject"},
             \A w \in Walkers : walker'[w] = walker[w] \/ walker'[w].pc # "close"
      PROVE  f \in Clients
  BY <1>0, <1>3 DEF InSlots, Walks, Admitting, Nobody, Walkers
<1>4. ASSUME Accept PROVE f \in Clients \/ fd'[f] \in Conns
  <2>1. PICK g \in Fds, enough \in BOOLEAN :
          /\ fd' = [fd EXCEPT ![g] = conns']
          /\ acceptor' = [acceptor EXCEPT !.sock = g, !.conn = conns',
                              !.pc = IF enough /\ count < MaxClients THEN "add" ELSE "reject"]
    BY <1>4 DEF Accept
  <2>2. conns' \in Conns /\ UNCHANGED <<slots, walker>> /\ fd'[g] = conns'
    <3>1. conns < NumConns /\ conns' = conns + 1 /\ UNCHANGED <<slots, walker>>
      BY <1>4 DEF Accept, tableVars
    <3>2. conns' \in Conns
      BY <3>1, ServerAssumption DEF IInv, Shape, Conns
    <3>3. fd'[g] = conns'
      BY <2>1 DEF IInv, Shape
    <3> QED
      BY <3>1, <3>2, <3>3
  <2>3. Admitting' = {g}
    BY <1>0, <2>1 DEF Admitting
  <2> QED
    BY <2>2, <2>3 DEF InSlots, Walks
<1>5. ASSUME Acceptor PROVE f \in Clients
  <2>1. CASE AddClient
    <3>1. CASE At("reject") /\ UNCHANGED slots
      <4>1. Admitting' = Admitting /\ walker' = walker
        BY <1>0, <2>1, <3>1 DEF AddClient, At, Admitting
      <4> QED
        BY <3>1, <4>1 DEF InSlots, Walks
    <3>2. CASE \E i \in Slots : /\ slots' = [slots EXCEPT ![i] = acceptor.sock]
                               /\ acceptor' = [acceptor EXCEPT !.pc = "spawn", !.slot = i]
      <4>1. Admitting = {acceptor.sock} /\ Admitting' = {} /\ walker' = walker
        BY <1>0, <2>1, <3>2 DEF AddClient, Admitting
      <4> QED
        BY <1>0, <3>2, <4>1 DEF InSlots, Walks
    <3> QED
      BY <2>1, <3>1, <3>2 DEF AddClient, tableVars
  <2>2. CASE OpenListen \/ NoListenSocket \/ AcceptStops \/ Reject \/ Spawn \/ CleanUp
    <3>1. slots' = slots /\ walker' = walker /\ acceptor'.pc \notin {"add", "reject"}
      <4>1. CASE OpenListen
        BY <1>0, <4>1 DEF OpenListen, tableVars
      <4>2. CASE NoListenSocket \/ CleanUp
        BY <4>2 DEF NoListenSocket, CleanUp, NoAcceptor, tableVars
      <4>3. CASE AcceptStops \/ Reject \/ Spawn
        BY <1>0, <4>3 DEF AcceptStops, Reject, Spawn, At, tableVars
      <4> QED
        BY <2>2, <4>1, <4>2, <4>3
    <3> QED
      BY <1>2, <3>1
  <2>3. CASE SpawnFails
    <3>1. walker' = walker /\ acceptor'.pc \notin {"add", "reject"} /\ Remove(acceptor.slot)
      BY <1>0, <2>3 DEF SpawnFails, At
    <3> QED
      BY <1>2, <3>1 DEF Remove, FreeSlot, tableVars
  <2>4. CASE Leave
    BY <1>1, <2>4 DEF Leave, tableVars
  <2> QED
    BY <1>5, <2>1, <2>2, <2>3, <2>4 DEF Acceptor
<1>6. ASSUME ClientTask PROVE f \in Clients
  <2>1. walker' = walker /\ acceptor' = acceptor /\ (UNCHANGED slots \/ \E i : Remove(i))
    BY <1>6 DEF ClientTask, ReadSocket, RecvEnds, ClientEnds, tableVars, runVars
  <2> QED
    BY <1>2, <2>1 DEF Remove, FreeSlot, tableVars
<1>7. ASSUME NEW w \in Walkers, WalkSends(w), FreeSlot(walker[w].slot), walker[w].slot \in Used,
             walker' = [walker EXCEPT ![w].pc = "close", ![w].sock = slots[walker[w].slot]]
      PROVE  f \in Clients
  <2> DEFINE i == walker[w].slot
  <2>1. slots' = [slots EXCEPT ![i] = None] /\ acceptor' = acceptor
    BY <1>7 DEF FreeSlot, WalkSends, runVars
  <2>2. InSlots' \subseteq InSlots
    BY <1>0, <2>1 DEF InSlots
  <2>3. Admitting' = Admitting
    BY <2>1 DEF Admitting
  <2>4. \A v \in Walkers : v # w => Walks(v)' = Walks(v)
    BY <1>0, <1>7 DEF Walks
  <2>5. Walks(w)' = {slots[i]}
    BY <1>0, <1>7 DEF Walks
  <2>6. f \in InSlots \/ f \in Admitting \/ f = slots[i] \/ f \in Walks("heartbeat") \/ f \in Walks("sender")
    BY <2>2, <2>3, <2>4, <2>5 DEF Walkers
  <2>7. slots[i] \in InSlots
    BY <1>7 DEF InSlots, Used
  <2> QED
    BY <2>6, <2>7
<1>8. ASSUME NEW w \in Walkers, WalkSends(w) \/ WalkCloses(w) \/ WalkResumes(w) \/ WalkEnds(w)
                                \/ WalkStarts(w) \/ (w = "sender" /\ SenderTimesOut)
      PROVE  f \in Clients
  <2>1. acceptor' = acceptor
    BY <1>8 DEF WalkSends, WalkCloses, WalkResumes, WalkEnds, WalkStarts, SenderTimesOut, runVars
  <2>2. ASSUME slots' = slots, NEW pc, pc # "close", NEW i, Walk(w, pc, i) PROVE f \in Clients
    <3>1. \A v \in Walkers : walker'[v] = walker[v] \/ walker'[v].pc # "close"
      BY <1>0, <2>2 DEF Walk
    <3> QED
      BY <1>3, <2>1, <2>2, <3>1
  <2>3. CASE WalkSends(w)
    <3>1. \/ Walk(w, "send", walker[w].slot + 1) /\ slots' = slots
          \/ /\ FreeSlot(walker[w].slot) /\ walker[w].slot \in Used
             /\ walker' = [walker EXCEPT ![w].pc = "close", ![w].sock = slots[walker[w].slot]]
      BY <2>3 DEF WalkSends, tableVars
    <3> QED
      BY <1>7, <2>2, <2>3, <3>1
  <2>4. CASE WalkCloses(w) \/ WalkResumes(w) \/ WalkEnds(w) \/ WalkStarts(w)
    BY <2>2, <2>4 DEF WalkCloses, WalkResumes, WalkEnds, WalkStarts, tableVars
  <2>5. CASE w = "sender" /\ SenderTimesOut
    BY <2>2, <2>5 DEF SenderTimesOut, tableVars
  <2> QED
    BY <1>8, <2>3, <2>4, <2>5
<1>9. ASSUME CleanupShuts \/ CleanupCloses \/ PeerCloses \/ ForeignOpens \/ StopListening \/ CloseCollected
             \/ UNCHANGED vars
      PROVE  f \in Clients
  BY <1>1, <1>9 DEF CleanupShuts, CleanupCloses, PeerCloses, ForeignOpens, StopListening, CloseCollected,
     vars, tableVars, runVars
<1>10. ASSUME Start \/ CollectAll \/ DeleteHeartbeat PROVE f \in Clients
  <2>1. slots' = Nobody \/ slots' = slots
    BY <1>10 DEF Start, CollectAll, DeleteHeartbeat, tableVars
  <2>2. acceptor' = acceptor \/ acceptor'.pc \notin {"add", "reject"}
    BY <1>10 DEF Start, CollectAll, DeleteHeartbeat, runVars, NoAcceptor
  <2>3. \A w \in Walkers : walker'[w] = walker[w] \/ walker'[w].pc # "close"
    BY <1>0, <1>10 DEF Start, CollectAll, DeleteHeartbeat, AtRest
  <2> QED
    BY <1>3, <2>1, <2>2, <2>3
<1> HIDE DEF Clients
<1> QED
  BY <1>4, <1>5, <1>6, <1>8, <1>9, <1>10 DEF Next, Walker, Walkers, Control, Stopping, Clients

\* What may be forgotten stays so.
LEMMA NextForgettable == ASSUME IInv, IInv', Forgettable, [Next]_vars PROVE Forgettable'
<1>1. ASSUME NEW f \in (InSlots \cup Walks("heartbeat") \cup Walks("sender") \cup Admitting)'
      PROVE  fd'[f] \in Conns
  <2>1. f \in Owned' /\ fd'[f] # Free
    BY <1>1 DEF IInv, Ownership, OwnedOpen, Owned
  <2>2. CASE f \in InSlots \cup Walks("heartbeat") \cup Walks("sender") \cup Admitting
    <3>1. f \in Owned /\ fd[f] \in Conns
      BY <2>2 DEF Forgettable, Owned
    <3>2. f \in Fds
      BY <3>1 DEF IInv, Shape, Ownership, OwnedOpen, Sockets, Owned, InSlots, InQueue, InClosing,
         InCleaning, Walks, Walkers, Admitting
    <3>3. fd[f] # Free
      BY <3>1 DEF IInv, Ownership, OwnedOpen
    <3> QED
      BY <2>1, <3>1, <3>2, <3>3, SameUntilClosed
  <2> QED
    BY <1>1, <2>2, ClientsKept
<1>2. ctl' # "close" => closing' = Nobody
  <2>1. ASSUME Control PROVE ctl' # "close" => closing' = Nobody
    BY <2>1 DEF Control, Stopping, Start, StopListening, CollectAll, CloseCollected, DeleteHeartbeat, Forgettable
  <2>2. ASSUME ~Control PROVE UNCHANGED <<ctl, closing>>
    BY <2>2 DEF Next, vars, ctlVars, Acceptor, Accept, OpenListen, NoListenSocket, AcceptStops, Reject,
       AddClient, Spawn, SpawnFails, CleanUp, Leave, ClientTask, ReadSocket, RecvEnds, ClientEnds, Walker,
       WalkSends, WalkCloses, WalkResumes, WalkEnds, SenderTimesOut, WalkStarts, CleanupShuts,
       CleanupCloses, PeerCloses, ForeignOpens
  <2> QED
    BY <2>1, <2>2 DEF Forgettable
<1> QED
  BY <1>1, <1>2 DEF Forgettable

\* The invariant holds in every reachable state.
LEMMA Invariance == Spec => [](IInv /\ Forgettable)
<1>1. Init => IInv /\ Forgettable
  <2>1. Init => Forgettable
    BY DEF Init, Forgettable, InSlots, Walks, Walkers, Admitting, Nobody, NoAcceptor
  <2> QED
    BY <2>1, InitIInv
<1>2. IInv /\ Forgettable /\ [Next]_vars => (IInv /\ Forgettable)'
  BY NextIInv, NextForgettable
<1> QED
  BY <1>1, <1>2, PTL DEF Spec

\* How many owners of one kind a descriptor has.
LEMMA OnceCounted ==
  ASSUME NEW f, f # None, NEW q, Once(q)
  PROVE  Cardinality({i \in DOMAIN q : q[i] = f}) = IF \E i \in DOMAIN q : q[i] = f THEN 1 ELSE 0
<1>1. CASE \E i \in DOMAIN q : q[i] = f
  <2>1. PICK i \in DOMAIN q : q[i] = f
    BY <1>1
  <2>2. {j \in DOMAIN q : q[j] = f} = {i}
    BY <2>1 DEF Once
  <2> QED
    BY <1>1, <2>2, FS_Singleton
<1>2. CASE ~\E i \in DOMAIN q : q[i] = f
  <2>1. {j \in DOMAIN q : q[j] = f} = {}
    BY <1>2
  <2> QED
    BY <1>2, <2>1, FS_EmptySet
<1> QED
  BY <1>1, <1>2

\* A descriptor has one owner, or none.
LEMMA OwnersCounted ==
  ASSUME IInv, NEW f \in Fds
  PROVE  Owners(f) = IF f \in Owned THEN 1 ELSE 0
<1> DEFINE In(q) == Cardinality({i \in DOMAIN q : q[i] = f})
           W     == {w \in Walkers : walker[w].pc = "close" /\ walker[w].sock = f}
           has(S) == IF f \in S THEN 1 ELSE 0
<1>1. f # None /\ Apart /\ Once(slots) /\ Once(queue) /\ Once(closing)
      /\ DOMAIN slots = Slots /\ DOMAIN closing = Slots
  BY ServerAssumption DEF Fds, None, IInv, Shape, Ownership
<1>2. In(slots) = has(InSlots)
  BY <1>1, OnceCounted DEF InSlots
<1>3. In(queue) = has(InQueue)
  BY <1>1, OnceCounted DEF InQueue
<1>4. In(closing) = has(InClosing)
  BY <1>1, OnceCounted DEF InClosing
<1>5. (IF cleaning = f THEN 1 ELSE 0) = has(InCleaning)
  BY <1>1 DEF InCleaning
<1>6. Cardinality(W) = has(Walks("heartbeat") \cup Walks("sender"))
  <2>1. \A w \in Walkers : w \in W <=> f \in Walks(w)
    BY DEF Walks
  <2>2. ~(f \in Walks("heartbeat") /\ f \in Walks("sender"))
    BY <1>1 DEF Apart
  <2>3. CASE f \in Walks("heartbeat")
    <3>1. W = {"heartbeat"}
      BY <2>1, <2>2, <2>3 DEF Walkers
    <3> QED
      BY <2>3, <3>1, FS_Singleton
  <2>4. CASE f \in Walks("sender")
    <3>1. W = {"sender"}
      BY <2>1, <2>2, <2>4 DEF Walkers
    <3> QED
      BY <2>4, <3>1, FS_Singleton
  <2>5. CASE f \notin Walks("heartbeat") \cup Walks("sender")
    <3>1. W = {}
      BY <2>1, <2>5 DEF Walkers
    <3> QED
      BY <2>5, <3>1, FS_EmptySet
  <2> QED
    BY <2>3, <2>4, <2>5
<1>7. (IF acceptor.pc \in {"add", "reject"} /\ acceptor.sock = f THEN 1 ELSE 0) = has(Admitting)
  BY DEF Admitting
<1>8. Owners(f) = has(InSlots) + has(InQueue) + has(InClosing) + has(InCleaning)
                  + has(Walks("heartbeat") \cup Walks("sender")) + has(Admitting)
  BY <1>2, <1>3, <1>4, <1>5, <1>6, <1>7 DEF Owners
<1> QED
  BY <1>1, <1>8 DEF Apart, Owned

\* tcp_client_count is at least the number of clients in clients[], and exactly
\* that until the first stop (add_client, remove_client, the two walks).
THEOREM CountCorrect == Spec => []CountHonest
<1>1. IInv => CountHonest
  BY DEF IInv
<1> QED
  BY <1>1, Invariance, PTL

\* No descriptor is closed twice, even across a stop and a restart; the listening
\* socket always has an owner, and until the first stop so has every connection
\* (safe_close_socket, remove_client, close_all_clients).
THEOREM OwnersCorrect == Spec => []OneOwner
<1>1. IInv => OneOwner
  <2> SUFFICES ASSUME IInv, NEW f \in Fds
               PROVE  /\ Owners(f) <= 1
                      /\ fd[f] = Listening => (Owners(f) = 1) # (acceptor.listen = f)
                      /\ fd[f] \in Conns /\ stops = 0 => Owners(f) = 1
    BY DEF OneOwner
  <2>1. Owners(f) = IF f \in Owned THEN 1 ELSE 0
    BY OwnersCounted
  <2>2. fd[f] = Listening => (f \in Owned) # (acceptor.listen = f)
    BY DEF IInv, Ownership, OwnedOpen, ListenerHeld
  <2>3. fd[f] \in Conns /\ stops = 0 => f \in Owned
    BY DEF IInv, ConnectionsHeld
  <2> QED
    BY <2>1, <2>2, <2>3
<1> QED
  BY <1>1, Invariance, PTL

-----------------------------------------------------------------------------
(* The descriptors of other tasks.  That the server never closes one is false  *)
(* (ForeignSocketsUntouched); until its first stop it is true.                *)

\* Until the first stop the listening socket of the acceptor is the one that
\* stop_tcp_server would close, and the cleanup task has sockets of the server.
OwnSockets ==
  stops = 0 => /\ acceptor.listen = listen
               /\ \A f \in InQueue \cup InCleaning : fd[f] # Foreign

\* The server's own: none at all, a client's or the listening socket.
Own(f) == f = None \/ fd[f] \in Conns \cup {Listening}

\* What a step of the running server does to the descriptors.
LEMMA OwnSteps ==
  ASSUME IInv, Forgettable, OwnSockets, stops = 0, [Next]_vars
  PROVE  \/ \E f \in Sockets : Own(f) /\ SafeClose(f)
         \/ UNCHANGED <<fd, queue, cleaning>>
         \/ CleanupShuts \/ CleanupCloses
         \/ UNCHANGED <<queue, cleaning>> /\ \E g, v : fd[g] = Free /\ fd' = [fd EXCEPT ![g] = v]
         \/ StopListening
<1>0. /\ slots \in [Slots -> Sockets] /\ acceptor.sock \in Sockets /\ acceptor.listen \in Sockets
      /\ walker \in [Walkers -> [pc : WalkerPCs, slot : Nat, sock : Sockets]]
  BY DEF IInv, Shape
<1>1. acceptor.listen \in Sockets /\ Own(acceptor.listen)
  BY <1>0 DEF IInv, ListenerHeld, OwnSockets, Own
<1>2. \A i \in Slots : slots[i] \in Sockets /\ Own(slots[i])
  BY <1>0 DEF Forgettable, InSlots, Own
<1>3. ASSUME Reject PROVE acceptor.sock \in Sockets /\ Own(acceptor.sock) /\ SafeClose(acceptor.sock)
  BY <1>0, <1>3 DEF Reject, Forgettable, Admitting, Own
<1>4. ASSUME NEW w \in Walkers, WalkCloses(w)
      PROVE  walker[w].sock \in Sockets /\ Own(walker[w].sock) /\ SafeClose(walker[w].sock)
  BY <1>0, <1>4 DEF WalkCloses, Forgettable, Walks, Walkers, Own
<1>5. ASSUME NEW i, Remove(i) PROVE \/ \E f \in Sockets : Own(f) /\ SafeClose(f)
                                   \/ UNCHANGED <<fd, queue, cleaning>>
  BY <1>2, <1>5 DEF Remove, Used, sockVars
<1>6. ~CloseCollected /\ ~CollectAll /\ ~DeleteHeartbeat
  BY DEF CloseCollected, CollectAll, DeleteHeartbeat, IInv, BeforeStart
<1>7. CASE Acceptor \/ Accept
  <2>1. CASE Reject \/ SpawnFails \/ CleanUp
    BY <1>1, <1>3, <1>5, <2>1 DEF SpawnFails, CleanUp
  <2>2. CASE OpenListen \/ Accept
    BY <2>2 DEF OpenListen, Accept, Lowest
  <2>3. CASE NoListenSocket \/ AcceptStops \/ AddClient \/ Spawn \/ Leave
    BY <2>3 DEF NoListenSocket, AcceptStops, AddClient, Spawn, Leave, sockVars
  <2> QED
    BY <1>7, <2>1, <2>2, <2>3 DEF Acceptor
<1>8. CASE ClientTask \/ Walker \/ SenderTimesOut \/ \E w \in Walkers : WalkStarts(w)
  <2>1. CASE ClientTask
    BY <1>5, <2>1 DEF ClientTask, ReadSocket, RecvEnds, ClientEnds, sockVars
  <2>2. CASE Walker
    BY <1>4, <2>2 DEF Walker, WalkSends, WalkResumes, WalkEnds, sockVars
  <2>3. CASE SenderTimesOut \/ \E w \in Walkers : WalkStarts(w)
    BY <2>3 DEF SenderTimesOut, WalkStarts, sockVars
  <2> QED
    BY <1>8, <2>1, <2>2, <2>3
<1>9. CASE Control
  BY <1>6, <1>9 DEF Control, Stopping, Start, sockVars
<1>10. CASE PeerCloses \/ ForeignOpens \/ UNCHANGED vars
  BY <1>10 DEF PeerCloses, ForeignOpens, Lowest, vars, sockVars
<1> QED
  BY <1>7, <1>8, <1>9, <1>10 DEF Next

\* A step that leaves the server running closes no descriptor of another task.
LEMMA ForeignKept ==
  ASSUME IInv, Forgettable, OwnSockets, stops = 0, [Next]_vars,
         NEW f \in Fds, fd[f] = Foreign
  PROVE  fd'[f] = Foreign
<1>1. fd \in [Fds -> Kinds] /\ Foreign # Free /\ Foreign \notin Conns \cup {Listening} /\ f # None
  BY ServerAssumption DEF IInv, Shape, Foreign, Free, Listening, Conns, Fds, None
<1>2. ASSUME NEW g \in Sockets, Own(g), SafeClose(g) PROVE fd'[f] = Foreign
  BY <1>1, <1>2 DEF SafeClose, Own
<1>3. CASE CleanupCloses
  BY <1>1, <1>3 DEF CleanupCloses, OwnSockets, InCleaning
<1>4. CASE StopListening
  BY <1>1, <1>4 DEF StopListening, IInv, ListenerHeld
<1>5. CASE CleanupShuts
  BY <1>5 DEF CleanupShuts
<1> QED
  BY <1>1, <1>2, <1>3, <1>4, <1>5, OwnSteps

\* The acceptor and stop_tcp_server agree on the listening socket.
LEMMA SameListener ==
  ASSUME IInv, acceptor.listen = listen, stops' = 0, [Next]_vars
  PROVE  acceptor'.listen = listen'
<1>0. /\ acceptor \in [pc : AcceptorPCs, listen : Sockets, sock : Sockets, conn : 0..NumConns,
                       slot : 0..MaxClients]
      /\ stops \in Nat
  BY DEF IInv, Shape
<1>1. CASE OpenListen \/ Accept \/ AddClient
  BY <1>0, <1>1 DEF OpenListen, Accept, AddClient, At
<1>2. CASE AcceptStops \/ Reject \/ Spawn \/ SpawnFails
  BY <1>0, <1>2 DEF AcceptStops, Reject, Spawn, SpawnFails, At
<1>3. CASE NoListenSocket \/ CleanUp \/ Leave
  BY <1>3 DEF NoListenSocket, CleanUp, Leave, NoAcceptor, IInv, ListenerHeld
<1>4. CASE Start
  BY <1>4 DEF Start, NoAcceptor, IInv, ListenerHeld, BeforeStart
<1>5. CASE StopListening
  BY <1>0, <1>5 DEF StopListening
<1>6. CASE ClientTask \/ Walker \/ SenderTimesOut \/ \E w \in Walkers : WalkStarts(w)
  BY <1>6 DEF ClientTask, ReadSocket, RecvEnds, ClientEnds, Walker, WalkSends, WalkCloses, WalkResumes,
     WalkEnds, SenderTimesOut, WalkStarts, runVars
<1>7. CASE Stopping \/ CleanupShuts \/ CleanupCloses \/ PeerCloses \/ ForeignOpens \/ UNCHANGED vars
  BY <1>7 DEF Stopping, CollectAll, CloseCollected, DeleteHeartbeat, CleanupShuts, CleanupCloses,
     PeerCloses, ForeignOpens, vars, runVars
<1> QED
  BY <1>1, <1>2, <1>3, <1>4, <1>5, <1>6, <1>7 DEF Next, Acceptor, Control

\* A server that was never stopped after a step was never stopped before it.
LEMMA NotStopped == ASSUME IInv, [Next]_vars, stops' = 0 PROVE stops = 0 /\ ~StopListening
<1>1. CASE Control
  BY <1>1 DEF Control, Stopping, Start, StopListening, CollectAll, CloseCollected, DeleteHeartbeat,
     IInv, Shape
<1>2. CASE ~Control
  BY <1>2 DEF Control, Next, vars, ctlVars, Acceptor, Accept, OpenListen, NoListenSocket, AcceptStops, Reject,
     AddClient, Spawn, SpawnFails, CleanUp, Leave, ClientTask, ReadSocket, RecvEnds, ClientEnds, Walker,
     WalkSends, WalkCloses, WalkResumes, WalkEnds, SenderTimesOut, WalkStarts, CleanupShuts,
     CleanupCloses, PeerCloses, ForeignOpens
<1> QED
  BY <1>1, <1>2

\* Only the server's own sockets are queued to be closed.
LEMMA NextOwnSockets ==
  ASSUME IInv, IInv', Forgettable, OwnSockets, [Next]_vars
  PROVE  OwnSockets'
<1> SUFFICES ASSUME stops' = 0
             PROVE  /\ acceptor'.listen = listen'
                    /\ \A f \in InQueue' \cup InCleaning' : fd'[f] # Foreign
  BY DEF OwnSockets
<1>1. stops = 0 /\ ~StopListening
  BY NotStopped
<1>2. acceptor'.listen = listen'
  BY <1>1, SameListener DEF OwnSockets
<1>3. /\ fd \in [Fds -> Kinds] /\ Foreign # Free /\ Foreign \notin Conns \cup {Listening}
      /\ \A f \in InQueue \cup InCleaning : f \in Fds /\ fd[f] # Free /\ fd[f] # Foreign
      /\ \A f \in InQueue' \cup InCleaning' : fd'[f] # Free
  <2>1. InQueue \cup InCleaning \subseteq Fds
    BY DEF IInv, Shape, InQueue, InCleaning, Sockets
  <2> QED
    BY <1>1, <2>1, ServerAssumption
    DEF IInv, Shape, Ownership, OwnedOpen, Owned, OwnSockets, Foreign, Free, Listening, Conns
<1>4. ASSUME NEW f \in InQueue' \cup InCleaning',
             f \in InQueue \cup InCleaning \/ (f \in Fds /\ fd[f] \in Conns \cup {Listening})
      PROVE  fd'[f] # Foreign
  <2>1. f \in Fds /\ fd[f] # Free /\ fd[f] # Foreign /\ fd'[f] # Free
    BY <1>3, <1>4, ServerAssumption DEF Free, Listening, Conns
  <2> QED
    BY <2>1, SameUntilClosed
<1>5. ASSUME NEW f \in InQueue' \cup InCleaning'
      PROVE  f \in InQueue \cup InCleaning \/ (f \in Fds /\ fd[f] \in Conns \cup {Listening})
  <2>1. ASSUME NEW g \in Sockets, Own(g), SafeClose(g)
        PROVE  f \in InQueue \cup InCleaning \/ (f \in Fds /\ fd[f] \in Conns \cup {Listening})
    <3>1. cleaning' = cleaning /\ (queue' = queue \/ (g # None /\ queue' = Append(queue, g)))
      BY <2>1 DEF SafeClose
    <3>2. CASE queue' = queue
      BY <3>1, <3>2 DEF InQueue, InCleaning
    <3>3. CASE g # None /\ queue' = Append(queue, g)
      <4>1. g \in Fds /\ fd[g] \in Conns \cup {Listening}
        BY <2>1, <3>3 DEF Sockets, Own
      <4>2. InQueue' \subseteq InQueue \cup {g}
        BY <3>3, <4>1 DEF IInv, Shape, InQueue
      <4> QED
        BY <3>1, <4>1, <4>2 DEF InCleaning
    <3> QED
      BY <3>1, <3>2, <3>3
  <2>2. CASE CleanupShuts
    <3>1. InQueue' \subseteq InQueue /\ Head(queue) \in InQueue
      BY <2>2, Dequeued DEF CleanupShuts, IInv, Ownership
    <3> QED
      BY <2>2, <3>1 DEF CleanupShuts, InCleaning
  <2>3. CASE CleanupCloses \/ UNCHANGED <<queue, cleaning>>
    BY <2>3 DEF CleanupCloses, InQueue, InCleaning
  <2> QED
    BY <1>1, <2>1, <2>2, <2>3, OwnSteps
<1> QED
  BY <1>2, <1>4, <1>5

\* As long as stop_tcp_server has not been called, the server closes no
\* descriptor that belongs to another task, whatever its clients, its acceptor,
\* its walkers and the cleanup queue do: what the comment at sx_tcp_server.c:83
\* says holds up to the first stop, and only the stop can break it
\* (safe_close_socket, socket_cleanup_task).
ForeignSafeUntilStop ==
  [][\A f \in Fds : fd[f] = Foreign /\ stops = 0 => fd'[f] = Foreign]_vars

\* No step before the first stop closes a descriptor of another task.
THEOREM ForeignCorrect == Spec => ForeignSafeUntilStop
<1>1. Init => OwnSockets
  BY DEF Init, OwnSockets, NoAcceptor, InQueue, InCleaning
<1>2. IInv /\ IInv' /\ Forgettable /\ OwnSockets /\ [Next]_vars => OwnSockets'
  BY NextOwnSockets
<1>3. IInv /\ Forgettable /\ OwnSockets /\ [Next]_vars =>
        [\A f \in Fds : fd[f] = Foreign /\ stops = 0 => fd'[f] = Foreign]_vars
  BY ForeignKept
<1> QED
  BY <1>1, <1>2, <1>3, Invariance, PTL DEF Spec, ForeignSafeUntilStop
=============================================================================

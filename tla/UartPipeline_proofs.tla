------------------------ MODULE UartPipeline_proofs ------------------------
(* Proofs about UartPipeline, for queues of any length, any thresholds of the *)
(* trim and the memory monitor, and any number of frames and reinits.         *)
EXTENDS UartPipeline, SequenceTheorems, TLAPS

PCs == {"none", "loop", "receive", "handle", "check", "gone"}

-----------------------------------------------------------------------------
(* The inductive invariant.                                                   *)

\* The tasks created so far are those up to this number.
Created == IF ctl \in {"create_rx", "idle"} THEN reinits + 1 ELSE reinits

Shape ==
  /\ received \in 0..NumFrames
  /\ reinits \in 0..MaxReinits
  /\ queue \in Seq(0..received)
  /\ proc \in [Tasks -> [pc : PCs, frame : 0..received, stop : BOOLEAN]]
  /\ handle \in Tasks \cup {Null}

\* A consumer holds a frame exactly in its handler.
HoldsInHandler == \A t \in Tasks : proc[t].frame # Null <=> proc[t].pc = "handle"

\* The frames in the queue, and those in the hands of a consumer.
Queued  == {queue[i] : i \in DOMAIN queue} \ {Null}
Carried == {proc[t].frame : t \in Tasks} \ {Null}

\* Frames are queued in the order they came.
QueueOrdered ==
  \A i, j \in DOMAIN queue : i < j => queue[i] < queue[j] \/ Null \in {queue[i], queue[j]}

\* A frame is once in the queue, or with one consumer, or lost by the monitor.
Distinct ==
  /\ QueueOrdered
  /\ \A t, u \in Tasks : proc[t].frame = proc[u].frame /\ t # u => proc[t].frame = Null
  /\ Queued \cap Carried = {}
  /\ overrun \cap (Queued \cup Carried) = {}

Allocated == heap = Queued \cup Carried \cup overrun /\ heap \subseteq 1..received

\* What stop_rx_task has read is still the consumer, or it has ended meanwhile;
\* from then on the consumer is told to stop.
Replaced ==
  /\ \A t \in Tasks : t > Created => proc[t] = NotCreated
  /\ handle # Null => proc[handle].pc \notin {"none", "gone"} /\ handle <= Created
  /\ ctl = "notify" => /\ handle \in {target, Null}
                     /\ target \in Tasks \cup {Null} /\ target <= Created
  /\ ctl \in {"wait", "create_proc"} /\ handle # Null => proc[handle].stop

IInv == Shape /\ HoldsInHandler /\ Distinct /\ Allocated /\ Replaced /\ StrayConsumersStop

\* The initial state satisfies the invariant.
LEMMA InitIInv == Init => IInv
<1> SUFFICES ASSUME Init PROVE IInv
  OBVIOUS
<1>1. Queued = {} /\ Carried = {}
  BY DEF Init, Queued, Carried, NotCreated
<1>2. Shape
  BY PipelineAssumption DEF Init, Shape, Tasks, NotCreated, PCs, Null
<1>3. Replaced
  BY <1>2 DEF Init, Replaced, Created, Null
<1>4. HoldsInHandler /\ Distinct /\ Allocated /\ StrayConsumersStop
  BY <1>1 DEF Init, HoldsInHandler, Distinct, QueueOrdered, Allocated, StrayConsumersStop, Alive,
     NotCreated
<1> QED
  BY <1>2, <1>3, <1>4 DEF IInv

-----------------------------------------------------------------------------
(* The queue and the buffers.                                                 *)

\* What is left of a sequence without its first n elements.
LEMMA Suffix ==
  ASSUME NEW S, NEW s \in Seq(S), NEW n \in 0..Len(s)
  PROVE  /\ SubSeq(s, n + 1, Len(s)) \in Seq(S)
         /\ Len(SubSeq(s, n + 1, Len(s))) = Len(s) - n
         /\ \A i \in 1..(Len(s) - n) : SubSeq(s, n + 1, Len(s))[i] = s[i + n]
<1> DEFINE m == n + 1
           r == SubSeq(s, n + 1, Len(s))
<1>1. Len(s) \in Nat /\ Len(s) \in Int /\ m \in Int /\ n \in Nat /\ n <= Len(s)
  OBVIOUS
<1>2. \A i \in m..Len(s) : s[i] \in S
  BY <1>1, ElementOfSeq
<1>3. /\ SubSeq(s, m, Len(s)) \in Seq(S)
      /\ Len(SubSeq(s, m, Len(s))) = IF m <= Len(s) THEN Len(s) - m + 1 ELSE 0
      /\ \A i \in 1..(Len(s) - m + 1) : SubSeq(s, m, Len(s))[i] = s[m + i - 1]
  <2> HIDE DEF m
  <2> QED
    BY <1>1, <1>2, SubSeqProperties
<1>4. SubSeq(s, m, Len(s)) = r
  OBVIOUS
<1> HIDE DEF m, r
<1>5. r \in Seq(S) /\ Len(r) = Len(s) - n
  <2>1. r \in Seq(S) /\ Len(r) = IF m <= Len(s) THEN Len(s) - m + 1 ELSE 0
    BY <1>3, <1>4, Zenon
  <2> QED
    BY <1>1, <2>1 DEF m
<1>6. \A i \in 1..(Len(s) - n) : r[i] = s[i + n]
  <2> TAKE i \in 1..(Len(s) - n)
  <2>1. i \in 1..(Len(s) - m + 1) /\ m + i - 1 = i + n
    BY <1>1 DEF m
  <2> QED
    BY <1>3, <1>4, <2>1
<1> QED
  BY <1>5, <1>6 DEF r

\* The n oldest messages are removed.
Drops(n) == queue' = SubSeq(queue, n + 1, Len(queue))

\* Removing the n oldest messages leaves the others, in their order.
LEMMA QueueDrops ==
  ASSUME Shape, Distinct, NEW n \in 0..Len(queue), received' = received, Drops(n)
  PROVE  /\ queue' \in Seq(0..received')
         /\ Queued' = Queued \ {queue[i] : i \in 1..n}
         /\ QueueOrdered'
<1>1. /\ queue \in Seq(0..received) /\ Len(queue) \in Nat /\ DOMAIN queue = 1..Len(queue)
      /\ received \in Nat
  BY DEF Shape
<1>2. /\ queue' \in Seq(0..received)
      /\ DOMAIN queue' = 1..(Len(queue) - n)
      /\ \A i \in 1..(Len(queue) - n) : queue'[i] = queue[i + n]
  <2>1. queue' = SubSeq(queue, n + 1, Len(queue))
    BY DEF Drops
  <2> HIDE DEF Shape
  <2>2. n \in 0..Len(queue) /\ queue \in Seq(0..received)
    BY <1>1
  <2>3. /\ SubSeq(queue, n + 1, Len(queue)) \in Seq(0..received)
        /\ Len(SubSeq(queue, n + 1, Len(queue))) = Len(queue) - n
        /\ \A i \in 1..(Len(queue) - n) : SubSeq(queue, n + 1, Len(queue))[i] = queue[i + n]
    BY <2>2, Suffix
  <2>4. /\ queue' \in Seq(0..received) /\ Len(queue') = Len(queue) - n
        /\ \A i \in 1..(Len(queue) - n) : queue'[i] = queue[i + n]
    BY <2>1, <2>3
  <2> QED
    BY <2>4, LenProperties
<1>3. n \in Nat /\ n <= Len(queue)
  BY <1>1
<1>4. QueueOrdered'
  <2> SUFFICES ASSUME NEW i \in DOMAIN queue', NEW j \in DOMAIN queue', i < j
               PROVE  queue'[i] < queue'[j] \/ Null \in {queue'[i], queue'[j]}
    BY DEF QueueOrdered
  <2>1. /\ queue'[i] = queue[i + n] /\ queue'[j] = queue[j + n]
        /\ i + n \in DOMAIN queue /\ j + n \in DOMAIN queue
        /\ i + n < j + n
    <3>1. i \in 1..(Len(queue) - n) /\ j \in 1..(Len(queue) - n)
      BY <1>2
    <3>2. i + n \in 1..Len(queue) /\ j + n \in 1..Len(queue) /\ i + n < j + n
      BY <1>1, <1>3, <3>1
    <3> QED
      BY <1>1, <1>2, <3>1, <3>2
  <2> QED
    BY <2>1 DEF Distinct, QueueOrdered
<1>5. ASSUME NEW f \in Queued' PROVE f \in Queued \ {queue[i] : i \in 1..n}
  <2>1. PICK i \in DOMAIN queue' : queue'[i] = f /\ f # Null
    BY <1>5 DEF Queued
  <2>2. i + n \in DOMAIN queue /\ queue[i + n] = f /\ i + n \notin 1..n
    BY <1>1, <1>2, <1>3, <2>1
  <2>3. \A j \in 1..n : queue[j] # f
    <3> SUFFICES ASSUME NEW j \in 1..n, queue[j] = f PROVE FALSE
      OBVIOUS
    <3>1. j \in DOMAIN queue /\ j < i + n
      BY <1>1, <1>2, <1>3, <2>1
    <3>2. queue[j] < queue[i + n] \/ Null \in {queue[j], queue[i + n]}
      BY <2>2, <3>1 DEF Distinct, QueueOrdered
    <3>3. f \in Nat /\ f # Null
      BY <1>1, <2>1, <2>2
    <3> QED
      BY <2>2, <3>2, <3>3
  <2> QED
    BY <2>1, <2>2, <2>3 DEF Queued
<1>6. ASSUME NEW f \in Queued \ {queue[i] : i \in 1..n} PROVE f \in Queued'
  <2>1. PICK i \in DOMAIN queue : queue[i] = f /\ f # Null
    BY <1>6 DEF Queued
  <2>2. i - n \in 1..(Len(queue) - n) /\ (i - n) + n = i
    BY <1>1, <1>3, <1>6, <2>1
  <2>3. queue'[i - n] = f
    BY <1>1, <1>2, <2>1, <2>2
  <2> QED
    BY <1>2, <2>1, <2>2, <2>3 DEF Queued
<1> QED
  BY <1>2, <1>4, <1>5, <1>6

\* Adding a message, a new frame or a dummy.
LEMMA QueueGrows ==
  ASSUME Shape, Distinct, NEW m \in 0..received', received' \in {received, received + 1},
         m = Null \/ m = received + 1, queue' = Append(queue, m)
  PROVE  /\ queue' \in Seq(0..received')
         /\ Queued' = Queued \cup ({m} \ {Null})
         /\ QueueOrdered'
<1>1. /\ queue \in Seq(0..received) /\ Len(queue) \in Nat /\ DOMAIN queue = 1..Len(queue)
      /\ received \in Nat
  BY DEF Shape
<1>2. queue \in Seq(0..received')
  <2>1. 0..received \subseteq 0..received'
    BY <1>1
  <2> QED
    BY <1>1, <2>1, SeqMonotonic
<1>3. /\ queue' \in Seq(0..received') /\ Len(queue') = Len(queue) + 1
      /\ \A i \in 1..Len(queue) : queue'[i] = queue[i] /\ queue[i] \in 0..received
      /\ queue'[Len(queue) + 1] = m
      /\ DOMAIN queue' = 1..(Len(queue) + 1)
  BY <1>1, <1>2
<1>4. QueueOrdered'
  <2> SUFFICES ASSUME NEW i \in DOMAIN queue', NEW j \in DOMAIN queue', i < j
               PROVE  queue'[i] < queue'[j] \/ Null \in {queue'[i], queue'[j]}
    BY DEF QueueOrdered
  <2>1. i \in DOMAIN queue /\ queue'[i] = queue[i] /\ queue[i] \in 0..received
    BY <1>1, <1>3
  <2>2. CASE j = Len(queue) + 1
    BY <1>1, <1>3, <2>1, <2>2
  <2>3. CASE j # Len(queue) + 1
    <3>1. j \in DOMAIN queue /\ queue'[j] = queue[j]
      BY <1>1, <1>3, <2>3
    <3> QED
      BY <2>1, <3>1 DEF Distinct, QueueOrdered
  <2> QED
    BY <2>2, <2>3
<1>5. Queued' = Queued \cup ({m} \ {Null})
  BY <1>1, <1>3 DEF Queued
<1> QED
  BY <1>3, <1>4, <1>5

\* The frames in hand are those that the consumers hold.
LEMMA CarriedSame ==
  ASSUME \A t \in Tasks : proc'[t].frame = proc[t].frame
  PROVE  Carried' = Carried
  BY DEF Carried

\* A step after which every consumer holds what it held before, and the queue too.
LEMMA BuffersKept ==
  ASSUME IInv, \A t \in Tasks : proc'[t].frame = proc[t].frame,
         UNCHANGED <<queue, received, heap, overrun>>
  PROVE  Distinct' /\ Allocated'
<1>1. Carried' = Carried /\ Queued' = Queued
  BY CarriedSame DEF Queued
<1> QED
  BY <1>1 DEF IInv, Distinct, QueueOrdered, Allocated

\* A step that removes the n oldest messages and frees their buffers.
LEMMA BuffersFreed ==
  ASSUME IInv, \A t \in Tasks : proc'[t].frame = proc[t].frame,
         UNCHANGED <<received, overrun>>, NEW n \in 0..Len(queue), Discard(n)
  PROVE  queue' \in Seq(0..received') /\ Distinct' /\ Allocated'
<1>1. Carried' = Carried
  BY CarriedSame
<1>2. /\ queue' \in Seq(0..received')
      /\ Queued' = Queued \ {queue[i] : i \in 1..n}
      /\ QueueOrdered'
  <2>1. Shape /\ Distinct /\ Drops(n) /\ received' = received
    BY DEF IInv, Discard, Drops
  <2> QED
    BY <2>1, QueueDrops
<1>3. \A i \in 1..n : queue[i] \in Queued \cup {Null}
  BY DEF IInv, Shape, Queued
<1>4. heap' = heap \ {queue[i] : i \in 1..n}
  BY DEF Discard
<1>5. Null \notin heap
  BY DEF IInv, Allocated, Null
<1>6. Distinct'
  BY <1>1, <1>2 DEF IInv, Distinct
<1>7. Allocated'
  <2> DEFINE X == {queue[i] : i \in 1..n}
  <2>1. X \subseteq Queued \cup {Null} /\ heap' = heap \ X /\ Queued' = Queued \ X
    BY <1>2, <1>3, <1>4
  <2> HIDE DEF X
  <2> QED
    BY <1>1, <1>5, <2>1 DEF IInv, Distinct, Allocated
<1> QED
  BY <1>2, <1>6, <1>7

-----------------------------------------------------------------------------
(* rx_task.                                                                   *)

\* A round of rx_task, or the forwarding task, touches no buffer of the pipeline.
LEMMA OtherStep == ASSUME IInv, RxRound \/ Forward PROVE IInv'
<1>1. UNCHANGED <<queue, received, heap, overrun, procVars, ctlVars>>
  BY DEF RxRound, Forward
<1>2. Queued' = Queued /\ Carried' = Carried /\ Created' = Created /\ Alive' = Alive
  BY <1>1 DEF Queued, Carried, Created, Alive, procVars, ctlVars
<1>3. Shape' /\ HoldsInHandler' /\ Distinct' /\ Allocated'
  BY <1>1, <1>2 DEF IInv, Shape, HoldsInHandler, Distinct, QueueOrdered, Allocated,
     procVars, ctlVars
<1>4. Replaced' /\ StrayConsumersStop'
  BY <1>1, <1>2 DEF IInv, Replaced, StrayConsumersStop, procVars, ctlVars
<1> QED
  BY <1>3, <1>4 DEF IInv

\* A frame gets a number, and a buffer if it finds room in the queue.
LEMMA RxFrameStep == ASSUME IInv, RxFrame PROVE IInv'
<1>1. UNCHANGED <<overrun, proc, handle, ctl, target, again, reinits>>
  BY DEF RxFrame, procVars, ctlVars
<1>2. received' \in {received, received + 1} /\ received' \in 0..NumFrames /\ received \in Nat
  BY PipelineAssumption DEF RxFrame, IInv, Shape
<1>3. proc \in [Tasks -> [pc : PCs, frame : 0..received', stop : BOOLEAN]]
  <2>1. 0..received \subseteq 0..received'
    BY <1>2
  <2>2. proc \in [Tasks -> [pc : PCs, frame : 0..received, stop : BOOLEAN]]
    BY DEF IInv, Shape
  <2> QED
    BY <2>1, <2>2
<1>4. HoldsInHandler' /\ Replaced' /\ StrayConsumersStop' /\ Carried' = Carried
  BY <1>1 DEF IInv, HoldsInHandler, Replaced, StrayConsumersStop, Carried, Alive, Created
<1>5. Carried \subseteq 1..received /\ overrun \subseteq 1..received /\ Queued \subseteq 1..received
  BY DEF IInv, Allocated
<1>6. CASE queue' = queue /\ heap' = heap
  <2>1. queue' \in Seq(0..received')
    <3>1. 0..received \subseteq 0..received' /\ queue \in Seq(0..received)
      BY <1>2 DEF IInv, Shape
    <3> QED
      BY <1>6, <3>1, SeqMonotonic
  <2>2. Queued' = Queued
    BY <1>6 DEF Queued
  <2>3. Distinct' /\ Allocated'
    BY <1>1, <1>2, <1>4, <1>6, <2>2 DEF IInv, Distinct, QueueOrdered, Allocated
  <2> QED
    BY <1>1, <1>2, <1>3, <1>4, <2>1, <2>3 DEF IInv, Shape
<1>7. CASE /\ received' = received + 1 /\ queue' = Append(queue, received')
           /\ heap' = heap \cup {received'}
  <2>1. /\ queue' \in Seq(0..received')
        /\ Queued' = Queued \cup ({received'} \ {Null})
        /\ QueueOrdered'
    <3>1. received' \in 0..received' /\ Shape /\ Distinct
      BY <1>2 DEF IInv
    <3> QED
      BY <1>2, <1>7, <3>1, QueueGrows
  <2>2. Queued' = Queued \cup {received'} /\ received' \notin 1..received
    BY <1>2, <1>7, <2>1 DEF Null
  <2>3. Distinct'
    BY <1>1, <1>4, <1>5, <2>1, <2>2 DEF IInv, Distinct
  <2>4. Allocated'
    BY <1>1, <1>2, <1>4, <1>5, <1>7, <2>2 DEF IInv, Allocated
  <2> QED
    BY <1>1, <1>2, <1>3, <1>4, <2>1, <2>3, <2>4 DEF IInv, Shape
<1> QED
  BY <1>6, <1>7 DEF RxFrame

-----------------------------------------------------------------------------
(* uart_processing_task.                                                      *)

Running == {"loop", "receive", "handle", "check"}

\* A consumer goes on to its next statement.
LEMMA Continues ==
  ASSUME IInv, NEW t \in Tasks, NEW pc \in Running, NEW f \in 0..received, Goes(t, pc, f),
         proc[t].pc \in Running, f # Null <=> pc = "handle", received' = received,
         UNCHANGED <<handle, ctl, target, reinits>>
  PROVE  /\ proc' \in [Tasks -> [pc : PCs, frame : 0..received, stop : BOOLEAN]]
         /\ proc'[t].frame = f
         /\ \A u \in Tasks \ {t} : proc'[u] = proc[u]
         /\ HoldsInHandler' /\ Replaced' /\ StrayConsumersStop'
<1>1. proc \in [Tasks -> [pc : PCs, frame : 0..received, stop : BOOLEAN]]
  BY DEF IInv, Shape
<1>2. /\ proc' \in [Tasks -> [pc : PCs, frame : 0..received, stop : BOOLEAN]]
      /\ proc'[t].frame = f /\ proc'[t].pc = pc /\ proc'[t].stop = proc[t].stop
      /\ \A u \in Tasks \ {t} : proc'[u] = proc[u]
  BY <1>1 DEF Goes, Running, PCs
<1>3. HoldsInHandler'
  BY <1>1, <1>2 DEF IInv, HoldsInHandler
<1>4. StrayConsumersStop'
  BY <1>1, <1>2 DEF IInv, StrayConsumersStop, Alive, Running
<1>5. Replaced'
  <2>1. ~(t > Created)
    BY DEF IInv, Replaced, NotCreated, Running
  <2>2. Created' = Created
    BY DEF Created
  <2>3. \A u \in Tasks : u > Created' => proc'[u] = NotCreated
    BY <1>2, <2>1, <2>2 DEF IInv, Replaced
  <2>4. handle # Null => handle \in Tasks /\ proc'[handle].pc \notin {"none", "gone"}
                         /\ proc'[handle].stop = proc[handle].stop
    BY <1>2 DEF IInv, Shape, Replaced, Running
  <2> QED
    BY <2>2, <2>3, <2>4 DEF IInv, Replaced
<1> QED
  BY <1>2, <1>3, <1>4, <1>5

\* The trim frees what it removes.
LEMMA TrimStep == ASSUME IInv, NEW t \in Tasks, Trim(t) \/ NoTrim(t) PROVE IInv'
<1>1. /\ Goes(t, "receive", Null) /\ proc[t].pc = "loop" /\ proc[t].frame = Null
      /\ UNCHANGED <<received, overrun, handle, ctl, target, reinits>>
  BY DEF Trim, NoTrim, IInv, HoldsInHandler, ctlVars
<1>2. /\ proc' \in [Tasks -> [pc : PCs, frame : 0..received, stop : BOOLEAN]]
      /\ \A u \in Tasks : proc'[u].frame = proc[u].frame
      /\ HoldsInHandler' /\ Replaced' /\ StrayConsumersStop'
  BY <1>1, Continues DEF Running, IInv, Shape, Null
<1>3. queue' \in Seq(0..received') /\ Distinct' /\ Allocated'
  <2>1. CASE Trim(t)
    <3>1. Len(queue) - Keep \in 0..Len(queue) /\ Discard(Len(queue) - Keep)
      BY <2>1, PipelineAssumption DEF Trim, IInv, Shape
    <3> QED
      BY <1>1, <1>2, <3>1, BuffersFreed
  <2>2. CASE NoTrim(t)
    BY <1>1, <1>2, <2>2, BuffersKept DEF NoTrim, IInv, Shape
  <2> QED
    BY <2>1, <2>2
<1> QED
  BY <1>1, <1>2, <1>3 DEF IInv, Shape

\* A frame passes from the queue into the hands of its consumer.
LEMMA ReceiveStep ==
  ASSUME IInv, NEW t \in Tasks, Receive(t) \/ ReceiveTimesOut(t) PROVE IInv'
<1>1. /\ proc[t].pc = "receive" /\ proc[t].frame = Null
      /\ UNCHANGED <<received, heap, overrun, handle, ctl, target, reinits>>
  BY DEF Receive, ReceiveTimesOut, IInv, HoldsInHandler, ctlVars
<1>2. CASE ReceiveTimesOut(t)
  <2>1. /\ proc' \in [Tasks -> [pc : PCs, frame : 0..received, stop : BOOLEAN]]
        /\ \A u \in Tasks : proc'[u].frame = proc[u].frame
        /\ HoldsInHandler' /\ Replaced' /\ StrayConsumersStop'
    BY <1>1, <1>2, Continues DEF ReceiveTimesOut, Running, IInv, Shape, Null
  <2> QED
    BY <1>1, <1>2, <2>1, BuffersKept DEF ReceiveTimesOut, IInv, Shape
<1>3. CASE Receive(t)
  <2> DEFINE f == Head(queue)
  <2>1. /\ queue \in Seq(0..received) /\ queue # <<>> /\ f = queue[1] /\ f \in 0..received
        /\ 1 \in DOMAIN queue /\ queue' = Tail(queue)
    BY <1>3 DEF Receive, IInv, Shape
  <2>2. /\ queue' \in Seq(0..received')
        /\ Queued' = Queued \ {f}
        /\ QueueOrdered'
    <3>1. Shape /\ Distinct /\ received' = received /\ 1 \in 0..Len(queue)
      BY <1>1, <2>1 DEF IInv
    <3>2. Drops(1)
      BY <2>1, TailIsSubSeq DEF Drops
    <3>3. {queue[i] : i \in 1..1} = {f}
      BY <2>1
    <3> QED
      BY <3>1, <3>2, <3>3, QueueDrops
  <2>3. Goes(t, IF f = Null THEN "loop" ELSE "handle", f)
    BY <1>3 DEF Receive
  <2> HIDE DEF f
  <2>4. /\ proc' \in [Tasks -> [pc : PCs, frame : 0..received, stop : BOOLEAN]]
        /\ proc'[t].frame = f
        /\ \A u \in Tasks \ {t} : proc'[u] = proc[u]
        /\ HoldsInHandler' /\ Replaced' /\ StrayConsumersStop'
    BY <1>1, <2>1, <2>3, Continues DEF Running
  <2>5. Carried' = Carried \cup ({f} \ {Null})
    BY <1>1, <2>4 DEF Carried
  <2>6. f # Null => f \in Queued /\ f \notin Carried
    BY <2>1 DEF IInv, Distinct, Queued
  <2>7. \A u, v \in Tasks : proc'[u].frame = proc'[v].frame /\ u # v => proc'[u].frame = Null
    BY <2>4, <2>6 DEF IInv, Distinct, Carried
  <2>8. Distinct'
    BY <1>1, <2>2, <2>5, <2>6, <2>7 DEF IInv, Distinct
  <2>9. Allocated'
    <3>1. Null \notin Queued /\ Queued' \cup Carried' = Queued \cup Carried
      BY <2>2, <2>5, <2>6 DEF Queued
    <3> QED
      BY <1>1, <3>1 DEF IInv, Allocated
  <2> QED
    BY <1>1, <2>2, <2>4, <2>8, <2>9 DEF IInv, Shape
<1> QED
  BY <1>2, <1>3

\* The handler's frame is freed whatever the handler does.
LEMMA HandleStep == ASSUME IInv, NEW t \in Tasks, Handle(t) PROVE IInv'
<1> DEFINE f == proc[t].frame
<1>1. /\ proc[t].pc = "handle" /\ heap' = heap \ {f}
      /\ Goes(t, "check", Null) \/ Goes(t, "loop", Null)
      /\ UNCHANGED <<queue, received, overrun, handle, ctl, target, reinits>>
  BY DEF Handle, ctlVars
<1>2. /\ proc' \in [Tasks -> [pc : PCs, frame : 0..received, stop : BOOLEAN]]
      /\ proc'[t].frame = Null
      /\ \A u \in Tasks \ {t} : proc'[u] = proc[u]
      /\ HoldsInHandler' /\ Replaced' /\ StrayConsumersStop'
  BY <1>1, Continues DEF Running, IInv, Shape, Null
<1>3. Carried' = Carried \ {f}
  BY <1>2 DEF IInv, Distinct, Carried
<1>4. Queued' = Queued
  BY <1>1 DEF Queued
<1>5. f # Null => f \in Carried
  BY DEF Carried
<1>6. \A u, v \in Tasks : proc'[u].frame = proc'[v].frame /\ u # v => proc'[u].frame = Null
  BY <1>2 DEF IInv, Distinct
<1> HIDE DEF f
<1>7. Distinct'
  BY <1>1, <1>3, <1>4, <1>6 DEF IInv, Distinct, QueueOrdered
<1>8. Allocated'
  <2>1. f \notin Queued /\ f \notin overrun
    BY <1>5 DEF IInv, Distinct, Allocated, Queued, Null
  <2> QED
    BY <1>1, <1>3, <1>4, <2>1 DEF IInv, Allocated
<1> QED
  BY <1>1, <1>2, <1>7, <1>8 DEF IInv, Shape

\* A consumer that is told to stop holds nothing when it ends.
LEMMA CheckStep == ASSUME IInv, NEW t \in Tasks, Check(t) PROVE IInv'
<1>1. /\ proc[t].pc = "check" /\ proc[t].frame = Null
      /\ UNCHANGED <<queue, received, heap, overrun, ctl, target, reinits>>
  BY DEF Check, IInv, HoldsInHandler, ctlVars
<1>2. CASE ~proc[t].stop
  <2>1. /\ Goes(t, "loop", Null) /\ handle' = handle
        /\ {"loop", proc[t].pc} \subseteq Running /\ Null \in 0..received
    BY <1>1, <1>2 DEF Check, Running, IInv, Shape, Null
  <2>2. /\ proc' \in [Tasks -> [pc : PCs, frame : 0..received, stop : BOOLEAN]]
        /\ \A u \in Tasks : proc'[u].frame = proc[u].frame
        /\ HoldsInHandler' /\ Replaced' /\ StrayConsumersStop'
    BY <1>1, <2>1, Continues
  <2> QED
    BY <1>1, <2>1, <2>2, BuffersKept DEF IInv, Shape
<1>3. CASE proc[t].stop
  <2>1. /\ proc' = [proc EXCEPT ![t] = [pc |-> "gone", frame |-> Null, stop |-> FALSE]]
        /\ handle' = IF handle = t THEN Null ELSE handle
    BY <1>3 DEF Check, NotCreated
  <2>2. /\ proc' \in [Tasks -> [pc : PCs, frame : 0..received, stop : BOOLEAN]]
        /\ proc'[t] = [pc |-> "gone", frame |-> Null, stop |-> FALSE]
        /\ \A u \in Tasks \ {t} : proc'[u] = proc[u]
        /\ handle' \in (Tasks \cup {Null}) \ {t}
    BY <2>1 DEF IInv, Shape, PCs, Null, Tasks
  <2>3. HoldsInHandler' /\ StrayConsumersStop'
    BY <2>1, <2>2 DEF IInv, HoldsInHandler, StrayConsumersStop, Alive
  <2>4. Replaced'
    <3>1. ~(t > Created) /\ Created' = Created
      BY <1>1 DEF IInv, Replaced, NotCreated, Created
    <3>2. \A u \in Tasks : u > Created' => proc'[u] = NotCreated
      BY <2>2, <3>1 DEF IInv, Replaced
    <3>3. handle' # Null => handle' = handle /\ proc'[handle] = proc[handle]
      BY <2>1, <2>2
    <3> QED
      BY <1>1, <2>1, <3>1, <3>2, <3>3 DEF IInv, Replaced
  <2>5. Distinct' /\ Allocated'
    BY <1>1, <2>2, BuffersKept
  <2> QED
    BY <1>1, <2>2, <2>3, <2>4, <2>5 DEF IInv, Shape
<1> QED
  BY <1>2, <1>3

-----------------------------------------------------------------------------
(* uart_reinit and the memory monitor.                                        *)

\* A reinit is called, reads the consumer it will stop, or replaces the driver.
LEMMA CallerStep == ASSUME IInv, Reinit \/ StopReads \/ Configure \/ CreateRx PROVE IInv'
<1>1. UNCHANGED <<queue, received, heap, overrun, proc, handle>>
  BY DEF Reinit, StopReads, Configure, CreateRx, procVars
<1>2. reinits' \in 0..MaxReinits
  BY PipelineAssumption DEF Reinit, StopReads, Configure, CreateRx, IInv, Shape, ctlVars
<1>3. Shape' /\ HoldsInHandler' /\ StrayConsumersStop'
  BY <1>1, <1>2 DEF IInv, Shape, HoldsInHandler, StrayConsumersStop, Alive
<1>4. Distinct' /\ Allocated'
  BY <1>1, BuffersKept
<1>5. Replaced'
  <2>1. Created' = Created
    BY DEF Reinit, StopReads, Configure, CreateRx, IInv, Shape, Created, ctlVars
  <2>2. ctl' # "wait" /\ ctl' # "create_proc" /\ (ctl' = "notify" => target' = handle)
    BY DEF Reinit, StopReads, Configure, CreateRx
  <2>3. handle \in Tasks \cup {Null} /\ handle <= Created
    BY PipelineAssumption DEF IInv, Shape, Replaced, Created, Null
  <2> QED
    BY <1>1, <2>1, <2>2, <2>3 DEF IInv, Replaced
<1> QED
  BY <1>3, <1>4, <1>5 DEF IInv

\* The consumer that was read is told to stop, unless it has ended.
LEMMA StopNotifiesStep == ASSUME IInv, StopNotifies PROVE IInv'
<1>1. /\ ctl = "notify" /\ ctl' = "wait"
      /\ UNCHANGED <<received, heap, overrun, handle, reinits>>
      /\ target \in Tasks \cup {Null} /\ handle \in {target, Null}
      /\ received \in Nat /\ Shape /\ Distinct
  BY DEF StopNotifies, IInv, Shape, Replaced
<1>2. queue' = queue \/ queue' = Append(queue, Null)
  BY DEF StopNotifies
<1>3. queue' \in Seq(0..received') /\ Queued' = Queued
      /\ QueueOrdered'
  <2>1. CASE queue' = queue
    BY <1>1, <2>1 DEF Shape, Distinct, QueueOrdered, Queued
  <2>2. CASE queue' = Append(queue, Null)
    <3>1. Null \in 0..received' /\ received' \in {received, received + 1}
      BY <1>1 DEF Null
    <3>2. /\ queue' \in Seq(0..received')
          /\ Queued' = Queued \cup ({Null} \ {Null})
          /\ QueueOrdered'
      BY <1>1, <2>2, <3>1, QueueGrows
    <3> QED
      BY <3>2
  <2> QED
    BY <1>2, <2>1, <2>2
<1>4. \/ proc' = proc /\ (target = Null \/ proc[target].pc = "gone")
      \/ target \in Tasks /\ proc[target].pc # "gone"
         /\ proc' = [proc EXCEPT ![target].stop = TRUE]
  BY <1>1 DEF StopNotifies
<1>5. /\ proc' \in [Tasks -> [pc : PCs, frame : 0..received', stop : BOOLEAN]]
      /\ \A t \in Tasks : /\ proc'[t].frame = proc[t].frame /\ proc'[t].pc = proc[t].pc
                          /\ t # target => proc'[t] = proc[t]
                          /\ proc[t].stop => proc'[t].stop
      /\ handle # Null => proc'[handle].stop
  <2>1. handle # Null => handle = target /\ proc[target].pc # "gone"
    BY <1>1 DEF IInv, Replaced
  <2>2. CASE proc' = proc /\ (target = Null \/ proc[target].pc = "gone")
    BY <1>1, <2>1, <2>2 DEF Shape
  <2>3. CASE target \in Tasks /\ proc' = [proc EXCEPT ![target].stop = TRUE]
    <3>1. proc \in [Tasks -> [pc : PCs, frame : 0..received, stop : BOOLEAN]]
      BY DEF IInv, Shape
    <3>2. /\ proc' \in [Tasks -> [pc : PCs, frame : 0..received, stop : BOOLEAN]]
          /\ proc'[target].pc = proc[target].pc /\ proc'[target].stop
          /\ proc'[target].frame = proc[target].frame
          /\ \A t \in Tasks \ {target} : proc'[t] = proc[t]
      BY <2>3, <3>1
    <3> QED
      BY <1>1, <2>1, <3>2
  <2> QED
    BY <1>4, <2>2, <2>3
<1>6. Carried' = Carried
  BY <1>5, CarriedSame
<1>7. HoldsInHandler' /\ Distinct' /\ Allocated' /\ StrayConsumersStop'
  <2>1. HoldsInHandler' /\ StrayConsumersStop'
    BY <1>1, <1>5 DEF IInv, HoldsInHandler, StrayConsumersStop, Alive
  <2>2. \A t, u \in Tasks : proc'[t].frame = proc'[u].frame /\ t # u => proc'[t].frame = Null
    BY <1>5 DEF IInv, Distinct
  <2>3. Distinct' /\ Allocated'
    BY <1>1, <1>3, <1>6, <2>2 DEF IInv, Distinct, Allocated
  <2> QED
    BY <2>1, <2>3
<1>8. Replaced'
  <2>1. Created' = Created
    BY <1>1 DEF Created
  <2>2. \A t \in Tasks : t > Created => proc'[t] = NotCreated
    <3> SUFFICES ASSUME NEW t \in Tasks, t > Created PROVE proc'[t] = NotCreated
      OBVIOUS
    <3>1. proc[t] = NotCreated
      BY DEF IInv, Replaced
    <3>2. CASE t # target
      BY <1>5, <3>1, <3>2
    <3>3. CASE t = target
      BY <1>1, <3>3 DEF IInv, Replaced, Created, Shape, Tasks, Null
    <3> QED
      BY <3>2, <3>3
  <2> QED
    BY <1>1, <1>5, <2>1, <2>2 DEF IInv, Replaced, Shape
<1> QED
  BY <1>1, <1>3, <1>5, <1>7, <1>8 DEF IInv, Shape

\* The rest of the queue is freed when stop_rx_task gives up waiting or need not wait.
LEMMA StopEndsStep == ASSUME IInv, StopEnds PROVE IInv'
<1>1. /\ ctl = "wait" /\ ctl' \in {"create_proc", "configure"} /\ Discard(Len(queue))
      /\ UNCHANGED <<received, overrun, proc, handle, target, reinits>>
  BY DEF StopEnds, procVars
<1>2. queue' \in Seq(0..received') /\ Distinct' /\ Allocated'
  <2>1. Len(queue) \in 0..Len(queue)
    BY DEF IInv, Shape
  <2> QED
    BY <1>1, <2>1, BuffersFreed
<1>3. HoldsInHandler' /\ StrayConsumersStop'
  BY <1>1 DEF IInv, HoldsInHandler, StrayConsumersStop, Alive
<1>4. Replaced'
  BY <1>1 DEF IInv, Replaced, Created
<1> QED
  BY <1>1, <1>2, <1>3, <1>4 DEF IInv, Shape

\* Only a consumer that is told to stop is replaced by a new one.
LEMMA CreateProcStep == ASSUME IInv, CreateProc PROVE IInv'
<1>1. /\ ctl = "create_proc" /\ ctl' = "create_rx"
      /\ UNCHANGED <<queue, received, heap, overrun, target, reinits>>
  BY DEF CreateProc
<1>2. Created = reinits /\ Created' = reinits + 1 /\ reinits \in Nat /\ reinits + 1 \in Tasks
  BY <1>1, PipelineAssumption DEF Created, IInv, Shape, Tasks
<1>3. CASE UNCHANGED <<proc, handle>>
  <2>1. Shape' /\ HoldsInHandler' /\ StrayConsumersStop'
    BY <1>1, <1>3 DEF IInv, Shape, HoldsInHandler, StrayConsumersStop, Alive
  <2>2. Distinct' /\ Allocated'
    BY <1>1, <1>3, BuffersKept
  <2>3. Replaced'
    <3>1. handle \in Nat
      BY <1>2 DEF IInv, Shape, Tasks, Null
    <3> QED
      BY <1>1, <1>2, <1>3, <3>1 DEF IInv, Replaced, Tasks
  <2> QED
    BY <2>1, <2>2, <2>3 DEF IInv
<1>4. CASE handle' = reinits + 1 /\ proc' = [proc EXCEPT ![handle'].pc = "loop"]
  <2> DEFINE n == reinits + 1
  <2>1. proc[n] = NotCreated /\ n \in Tasks /\ n # Null
    BY <1>2 DEF IInv, Replaced, Null
  <2>2. /\ proc' \in [Tasks -> [pc : PCs, frame : 0..received, stop : BOOLEAN]]
        /\ proc'[n].pc = "loop" /\ proc'[n].frame = Null
        /\ \A t \in Tasks \ {n} : proc'[t] = proc[t]
    <3>1. proc \in [Tasks -> [pc : PCs, frame : 0..received, stop : BOOLEAN]]
      BY DEF IInv, Shape
    <3>2. proc' = [proc EXCEPT ![n].pc = "loop"]
      BY <1>4
    <3>3. "loop" \in PCs
      BY DEF PCs
    <3> HIDE DEF n
    <3>4. proc' \in [Tasks -> [pc : PCs, frame : 0..received, stop : BOOLEAN]]
      BY <3>1, <3>2, <3>3
    <3>5. proc'[n].pc = "loop" /\ proc'[n].frame = proc[n].frame
      BY <2>1, <3>1, <3>2
    <3>6. proc[n].frame = Null
      BY <2>1 DEF NotCreated
    <3>7. \A t \in Tasks \ {n} : proc'[t] = proc[t]
      BY <3>1, <3>2
    <3> QED
      BY <3>4, <3>5, <3>6, <3>7
  <2>3. Shape'
    BY <1>1, <1>2, <1>4, <2>2 DEF IInv, Shape
  <2>4. HoldsInHandler'
    BY <2>2 DEF IInv, HoldsInHandler
  <2>5. StrayConsumersStop'
    <3> SUFFICES ASSUME NEW t \in Alive', t # handle' PROVE proc'[t].stop
      BY DEF StrayConsumersStop
    <3>1. t \in Alive /\ proc'[t] = proc[t]
      BY <1>4, <2>2 DEF Alive
    <3>2. t # handle => proc[t].stop
      BY <3>1 DEF IInv, StrayConsumersStop
    <3>3. t = handle => proc[t].stop
      BY <1>1, <3>1 DEF IInv, Replaced, Alive, Tasks, Null
    <3> QED
      BY <3>1, <3>2, <3>3
  <2>6. Distinct' /\ Allocated'
    <3>1. \A t \in Tasks : proc'[t].frame = proc[t].frame
      BY <2>1, <2>2 DEF NotCreated
    <3> QED
      BY <1>1, <3>1, BuffersKept
  <2>7. Replaced'
    <3>1. \A t \in Tasks : t > Created' => proc'[t] = NotCreated
      BY <1>2, <2>2 DEF IInv, Replaced, Tasks
    <3> QED
      BY <1>1, <1>2, <1>4, <2>2, <3>1 DEF Replaced
  <2> QED
    BY <2>3, <2>4, <2>5, <2>6, <2>7 DEF IInv
<1> QED
  BY <1>3, <1>4 DEF CreateProc, procVars

\* The monitor counts no more messages than there are.
LEMMA Taking == ASSUME IInv, MemoryMonitor PROVE \E freed \in 0..Len(queue) : Takes(freed)
<1>0. Len(queue) \in Nat /\ queue \in Seq(0..received)
  BY DEF IInv, Shape
<1>1. CASE CriticalMemory
  <2> DEFINE m == IF Len(queue) = 1 THEN 1 ELSE Len(queue) - 2
  <2>1. queue # <<>> => Len(queue) # 0
    BY <1>0
  <2>2. Takes(m)
    BY <1>1 DEF CriticalMemory
  <2>3. queue # <<>>
    BY <1>1 DEF CriticalMemory
  <2>4. m \in 0..Len(queue)
    <3>1. Len(queue) \in Nat /\ Len(queue) # 0
      BY <1>0, <2>1, <2>3
    <3> QED
      BY <3>1
  <2> HIDE DEF m
  <2> QED
    BY <2>2, <2>4
<1>2. CASE LowMemory
  BY <1>0, <1>2, PipelineAssumption DEF LowMemory
<1> QED
  BY <1>1, <1>2 DEF MemoryMonitor

\* The monitor frees all the messages it counts, and loses the one more it takes.
LEMMA MonitorStep == ASSUME IInv, MemoryMonitor PROVE IInv'
<1>1. UNCHANGED <<received, proc, handle, ctl, target, reinits>>
  BY DEF MemoryMonitor, procVars, ctlVars
<1>2. Len(queue) \in Nat /\ queue \in Seq(0..received) /\ received \in Nat
  BY DEF IInv, Shape
<1>3. PICK freed \in 0..Len(queue) : Takes(freed)
  BY Taking
<1> DEFINE n == IF freed < Len(queue) THEN freed + 1 ELSE freed
           Freed == {queue[i] : i \in 1..freed}
           Lost == {queue[i] : i \in (freed + 1)..n}
           Taken == {queue[i] : i \in 1..n}
<1>4. /\ Drops(n) /\ heap' = heap \ Freed /\ overrun' = overrun \cup (Lost \ {Null})
      /\ n \in 0..Len(queue) /\ Taken = Freed \cup Lost
  BY <1>2, <1>3 DEF Takes, Drops
<1>5. Taken \subseteq Queued \cup {Null}
  BY <1>2 DEF Queued
<1>6. Freed \cap Lost \subseteq {Null}
  <2> SUFFICES ASSUME NEW i \in 1..freed, NEW j \in (freed + 1)..n, queue[i] = queue[j]
               PROVE  queue[i] = Null
    OBVIOUS
  <2>1. i \in DOMAIN queue /\ j \in DOMAIN queue /\ i < j
    BY <1>2
  <2>2. queue[i] \in Nat
    BY <1>2, <2>1
  <2>3. queue[i] < queue[j] \/ Null \in {queue[i], queue[j]}
    BY <2>1 DEF IInv, Distinct, QueueOrdered
  <2> QED
    BY <2>2, <2>3
<1> HIDE DEF n, Freed, Lost, Taken
<1>7. /\ queue' \in Seq(0..received')
      /\ Queued' = Queued \ Taken
      /\ QueueOrdered'
  <2>1. Shape /\ Distinct
    BY DEF IInv
  <2> QED
    BY <1>1, <1>4, <2>1, QueueDrops DEF Taken
<1>8. Carried' = Carried
  BY <1>1, CarriedSame
<1>9. Null \notin heap /\ Null \notin Queued
  BY DEF IInv, Allocated, Null, Queued
<1>10. Distinct'
  <2>1. \A t, u \in Tasks : proc'[t].frame = proc'[u].frame /\ t # u => proc'[t].frame = Null
    BY <1>1 DEF IInv, Distinct
  <2>2. Queued' \cap Carried' = {} /\ overrun' \cap (Queued' \cup Carried') = {}
    BY <1>4, <1>5, <1>7, <1>8 DEF IInv, Distinct
  <2> QED
    BY <1>7, <2>1, <2>2 DEF Distinct
<1>11. Allocated'
  <2>1. heap' = Queued' \cup Carried' \cup overrun'
    BY <1>4, <1>5, <1>6, <1>7, <1>8, <1>9 DEF IInv, Distinct, Allocated
  <2> QED
    BY <1>1, <1>4, <2>1 DEF IInv, Allocated
<1>12. HoldsInHandler' /\ Replaced' /\ StrayConsumersStop'
  BY <1>1 DEF IInv, HoldsInHandler, Replaced, StrayConsumersStop, Alive, Created
<1> QED
  BY <1>1, <1>7, <1>10, <1>11, <1>12 DEF IInv, Shape

\* Every step keeps the invariant.
LEMMA NextIInv == IInv /\ [Next]_vars => IInv'
<1> SUFFICES ASSUME IInv, [Next]_vars PROVE IInv'
  OBVIOUS
<1>1. ASSUME NEW t \in Tasks, ProcessingTask(t) PROVE IInv'
  BY <1>1, TrimStep, ReceiveStep, HandleStep, CheckStep DEF ProcessingTask
<1>2. CASE Controller
  BY <1>2, CallerStep, StopNotifiesStep, StopEndsStep, CreateProcStep DEF Controller
<1>3. CASE UNCHANGED vars
  <2>1. UNCHANGED <<queue, received, heap, overrun, proc, handle, ctl, target, reinits>>
    BY <1>3 DEF vars, procVars, ctlVars
  <2>2. Distinct' /\ Allocated'
    BY <2>1, BuffersKept
  <2> QED
    BY <2>1, <2>2 DEF IInv, Shape, HoldsInHandler, Replaced, StrayConsumersStop, Created, Alive
<1> QED
  BY <1>1, <1>2, <1>3, OtherStep, RxFrameStep, CallerStep, MonitorStep DEF Next

\* The invariant holds in every behaviour.
LEMMA Invariance == Spec => []IInv
  BY InitIInv, NextIInv, PTL DEF Spec

-----------------------------------------------------------------------------
(* One consumer, and the order of the frames, while no handler is slow.       *)

\* The 1 s wait of stop_rx_task is then long enough: there is one consumer at
\* most, and none while the driver is replaced; nor is there an rx_task.
Quiet ==
  /\ slow \/ Alive \subseteq {handle}
  /\ ~slow /\ ctl \in {"configure", "create_proc"} => handle = Null
  /\ rx \in {"none", "dead", "top", "body"}
  /\ rx \in {"top", "body"} => rxHandle
  /\ ctl = "configure" => rx \in {"none", "dead"}

\* Frames sent came before those of the mode's queue, those before the frame in
\* hand, and that before the frames of the driver's queue.
Ordered ==
  \/ slow
  \/ /\ \A c \in Carried, q \in Queued : c < q
     /\ \A i \in DOMAIN modeQueue, f \in Queued \cup Carried : modeQueue[i] < f
     /\ \A i, j \in DOMAIN modeQueue : i < j => modeQueue[i] < modeQueue[j]
     /\ \A i \in DOMAIN out, f \in Queued \cup Carried : out[i] < f
     /\ \A i \in DOMAIN out, j \in DOMAIN modeQueue : out[i] < modeQueue[j]
     /\ \A i, j \in DOMAIN out : i < j => out[i] < out[j]

\* Only frames that were received are handed on.
Handed == modeQueue \in Seq(1..received) /\ out \in Seq(1..received)

OInv == IInv /\ Quiet /\ Ordered /\ Handed

\* The initial state satisfies the second invariant.
LEMMA InitOInv == Init => OInv
<1> SUFFICES ASSUME Init PROVE OInv
  OBVIOUS
<1>1. Alive = {} /\ Queued = {} /\ Carried = {}
  BY DEF Init, Alive, NotCreated, Queued, Carried
<1>2. Quiet /\ Handed
  BY <1>1 DEF Init, Quiet, Handed
<1>3. Ordered
  BY <1>1 DEF Init, Ordered
<1> QED
  BY <1>2, <1>3, InitIInv DEF OInv

\* A step of one consumer.
LEMMA QuietProcessing ==
  ASSUME OInv, NEW t \in Tasks, ProcessingTask(t) PROVE Quiet'
<1>1. /\ UNCHANGED <<rx, rxHandle, ctl, slow>> /\ t \in Alive
      /\ \/ handle' = handle /\ Alive' = Alive
         \/ handle' \in {handle, Null} \ {t} /\ Alive' = Alive \ {t}
  <2>1. proc \in [Tasks -> [pc : PCs, frame : 0..received, stop : BOOLEAN]] /\ Null \notin Tasks
    BY DEF OInv, IInv, Shape, Tasks, Null
  <2>2. UNCHANGED <<rx, rxHandle, ctl, slow>> /\ t \in Alive
    BY DEF ProcessingTask, Trim, NoTrim, Receive, ReceiveTimesOut, Handle, Check, rxVars, ctlVars, Alive
  <2>3. ASSUME NEW pc \in Running, NEW f, Goes(t, pc, f) PROVE Alive' = Alive
    BY <2>1, <2>2, <2>3 DEF Goes, Alive, Running
  <2>4. CASE Trim(t) \/ NoTrim(t) \/ Receive(t) \/ ReceiveTimesOut(t) \/ Handle(t)
    BY <2>2, <2>3, <2>4 DEF Trim, NoTrim, Receive, ReceiveTimesOut, Handle, Running
  <2>5. CASE Check(t)
    <3>1. CASE ~proc[t].stop
      BY <2>2, <2>3, <2>5, <3>1 DEF Check, Running
    <3>2. CASE proc[t].stop
      <4>1. /\ proc' = [proc EXCEPT ![t] = [NotCreated EXCEPT !.pc = "gone"]]
            /\ handle' = IF handle = t THEN Null ELSE handle
        BY <2>5, <3>2 DEF Check
      <4>2. Alive' = Alive \ {t}
        BY <2>1, <4>1 DEF Alive, NotCreated
      <4> QED
        BY <2>1, <2>2, <4>1, <4>2
    <3> QED
      BY <3>1, <3>2
  <2> QED
    BY <2>4, <2>5 DEF ProcessingTask
<1> QED
  BY <1>1 DEF OInv, Quiet

\* Every step keeps the tasks quiet.
LEMMA QuietNext == OInv /\ [Next]_vars => Quiet'
<1> SUFFICES ASSUME OInv, [Next]_vars PROVE Quiet'
  OBVIOUS
<1>1. CASE RxRound \/ RxFrame
  BY <1>1 DEF RxRound, RxFrame, OInv, Quiet, Alive, procVars, ctlVars
<1>2. CASE Forward \/ Reinit \/ MemoryMonitor \/ StopReads \/ Configure \/ UNCHANGED vars
  BY <1>2 DEF Forward, Reinit, MemoryMonitor, StopReads, Configure, OInv, Quiet, Alive, vars, rxVars,
     procVars, ctlVars
<1>3. CASE StopNotifies
  <2>1. Alive' = Alive /\ ctl' = "wait" /\ UNCHANGED <<rx, rxHandle, handle, slow>>
    <3>1. /\ ctl' = "wait" /\ UNCHANGED <<rx, rxHandle, handle, slow>>
          /\ proc' = proc \/ proc' = [proc EXCEPT ![target].stop = TRUE]
      BY <1>3 DEF StopNotifies, rxVars
    <3>2. \A t \in Tasks : proc'[t].pc = proc[t].pc
      BY <3>1 DEF OInv, IInv, Shape
    <3> QED
      BY <3>1, <3>2 DEF Alive
  <2> QED
    BY <2>1 DEF OInv, Quiet
<1>4. CASE StopEnds
  <2>1. /\ ctl' \in {"create_proc", "configure"} /\ (BothGone \/ OutOfTime)
        /\ UNCHANGED <<rx, rxHandle, proc, handle, slow>>
    BY <1>4 DEF StopEnds, rxVars, procVars
  <2> QED
    BY <2>1 DEF OInv, Quiet, Alive, BothGone, OutOfTime
<1>5. CASE CreateProc
  <2>1. /\ ctl = "create_proc" /\ ctl' = "create_rx" /\ UNCHANGED <<rx, rxHandle, slow>>
        /\ \/ UNCHANGED <<proc, handle>>
           \/ handle' = reinits + 1 /\ proc' = [proc EXCEPT ![handle'].pc = "loop"]
    BY <1>5 DEF CreateProc, rxVars, procVars
  <2>2. Alive' \subseteq Alive \cup {handle'}
    BY <2>1 DEF OInv, IInv, Shape, Alive
  <2>3. slow \/ Alive = {}
    BY <2>1 DEF OInv, Quiet, Alive, Tasks, Null
  <2> QED
    BY <2>1, <2>2, <2>3 DEF OInv, Quiet
<1>6. CASE CreateRx
  BY <1>6 DEF CreateRx, OInv, Quiet, Alive, rxVars, procVars
<1> QED
  BY <1>1, <1>2, <1>3, <1>4, <1>5, <1>6, QuietProcessing DEF Next, Controller

\* A step by which frames only go, or come after all the others.
LEMMA OrderKept ==
  ASSUME OInv, received' \in {received, received + 1}, UNCHANGED <<slow, modeQueue, out>>,
         Carried' \subseteq Carried, Queued' \subseteq Queued \cup {received + 1}
  PROVE  Ordered' /\ Handed'
<1>1. /\ received \in Nat /\ Queued \subseteq 1..received /\ Carried \subseteq 1..received
      /\ modeQueue \in Seq(1..received) /\ out \in Seq(1..received)
  BY DEF OInv, IInv, Shape, Allocated, Handed
<1>2. Handed'
  <2>1. 1..received \subseteq 1..received'
    BY <1>1
  <2> QED
    BY <1>1, <2>1, SeqMonotonic DEF Handed
<1>3. /\ \A i \in DOMAIN modeQueue : modeQueue[i] \in Nat /\ modeQueue[i] < received + 1
      /\ \A i \in DOMAIN out : out[i] \in Nat /\ out[i] < received + 1
      /\ \A c \in Carried : c < received + 1
  BY <1>1
<1>4. Ordered'
  BY <1>3 DEF OInv, Ordered
<1> QED
  BY <1>2, <1>4

\* The next frame in the queue came before all the others there.
LEMMA ReceiveOrder ==
  ASSUME OInv, NEW t \in Tasks, Receive(t) PROVE Ordered' /\ Handed'
<1> DEFINE f == Head(queue)
<1>1. /\ queue \in Seq(0..received) /\ queue # <<>> /\ f = queue[1] /\ received \in Nat
      /\ Len(queue) \in Nat /\ 1 \in DOMAIN queue /\ queue' = Tail(queue)
      /\ UNCHANGED <<received, modeQueue, out, slow>>
  BY DEF Receive, OInv, IInv, Shape, modeVars
<1>2. Queued' = Queued \ {f}
  <2>1. Shape /\ Distinct /\ 1 \in 0..Len(queue)
    BY <1>1 DEF OInv, IInv
  <2>2. Drops(1)
    BY <1>1, TailIsSubSeq DEF Drops
  <2>3. {queue[i] : i \in 1..1} = {f}
    BY <1>1
  <2> QED
    BY <1>1, <2>1, <2>2, <2>3, QueueDrops
<1>3. f # Null => f \in Queued /\ \A q \in Queued' : f < q
  <2> SUFFICES ASSUME f # Null, NEW q \in Queued' PROVE f \in Queued /\ f < q
    BY <1>1 DEF Queued
  <2>1. PICK i \in DOMAIN queue : queue[i] = q
    BY <1>2 DEF Queued
  <2>2. i # 1 /\ q # f /\ q # Null
    BY <1>1, <1>2, <2>1 DEF Queued
  <2>3. 1 < i
    BY <1>1, <2>1, <2>2
  <2>4. queue[1] < queue[i] \/ Null \in {queue[1], queue[i]}
    BY <1>1, <2>1, <2>3 DEF OInv, IInv, Distinct, QueueOrdered
  <2> QED
    BY <1>1, <2>1, <2>2, <2>4 DEF Queued
<1>4. Carried' \subseteq Carried \cup ({f} \ {Null}) /\ (slow \/ Carried = {})
  <2>1. proc[t].pc = "receive" /\ proc[t].frame = Null
        /\ proc' = [proc EXCEPT ![t].pc = IF f = Null THEN "loop" ELSE "handle", ![t].frame = f]
    BY <1>1 DEF Receive, OInv, IInv, HoldsInHandler, Goes
  <2>2. proc \in [Tasks -> [pc : PCs, frame : 0..received, stop : BOOLEAN]]
    BY DEF OInv, IInv, Shape
  <2>3. proc'[t].frame = f /\ \A u \in Tasks \ {t} : proc'[u] = proc[u]
    BY <2>1, <2>2
  <2>4. slow \/ \A u \in Tasks \ {t} : u \notin Alive
    BY <2>1 DEF OInv, Quiet, Alive
  <2>5. slow \/ \A u \in Tasks : proc[u].frame = Null
    BY <2>1, <2>4 DEF OInv, IInv, HoldsInHandler, Alive
  <2> QED
    BY <2>3, <2>5 DEF Carried
<1>5. \/ Carried' = {} \/ slow
      \/ Carried' = {f} /\ f # Null
  BY <1>4
<1> HIDE DEF f
<1>6. Ordered'
  BY <1>1, <1>2, <1>3, <1>5 DEF OInv, Ordered
<1> QED
  BY <1>1, <1>6 DEF OInv, Handed

\* The one frame in hand is put behind those of the mode's queue.
LEMMA HandleOrder ==
  ASSUME OInv, NEW t \in Tasks, Handle(t) PROVE Ordered' /\ Handed'
<1> DEFINE f == proc[t].frame
<1>1. /\ received \in Nat /\ Queued \subseteq 1..received /\ Carried \subseteq 1..received
      /\ modeQueue \in Seq(1..received) /\ out \in Seq(1..received)
      /\ UNCHANGED <<received, queue, out, slow>> /\ Queued' = Queued
  BY DEF OInv, IInv, Shape, Allocated, Handed, Handle, Queued
<1>2. f \in Carried /\ Carried' = Carried \ {f} /\ (slow \/ Carried' = {})
  <2>1. /\ proc[t].pc = "handle" /\ f # Null
        /\ Goes(t, "check", Null) \/ Goes(t, "loop", Null)
    BY DEF Handle, OInv, IInv, HoldsInHandler
  <2>2. proc \in [Tasks -> [pc : PCs, frame : 0..received, stop : BOOLEAN]]
    BY DEF OInv, IInv, Shape
  <2>3. proc'[t].frame = Null /\ \A u \in Tasks \ {t} : proc'[u] = proc[u]
    BY <2>1, <2>2 DEF Goes
  <2>4. slow \/ \A u \in Tasks \ {t} : u \notin Alive
    BY <2>1 DEF OInv, Quiet, Alive
  <2>5. slow \/ \A u \in Tasks \ {t} : proc[u].frame = Null
    BY <2>4 DEF OInv, IInv, HoldsInHandler, Alive
  <2>6. \A u \in Tasks \ {t} : proc[u].frame # f
    BY <2>1 DEF OInv, IInv, Distinct
  <2> QED
    BY <2>1, <2>3, <2>5, <2>6 DEF Carried
<1> HIDE DEF f
<1>3. CASE modeQueue' = modeQueue
  BY <1>1, <1>2, <1>3, OrderKept
<1>4. CASE modeQueue' = Append(modeQueue, f)
  <2>1. /\ modeQueue' \in Seq(1..received) /\ DOMAIN modeQueue' = 1..(Len(modeQueue) + 1)
        /\ DOMAIN modeQueue = 1..Len(modeQueue) /\ Len(modeQueue) \in Nat
        /\ \A i \in DOMAIN modeQueue : modeQueue'[i] = modeQueue[i]
        /\ modeQueue'[Len(modeQueue) + 1] = f
    BY <1>1, <1>2, <1>4
  <2>2. CASE ~slow
    <3>1. Carried' = {} /\ \A q \in Queued : f < q
      BY <1>2, <2>2 DEF OInv, Ordered
    <3>2. \A i \in DOMAIN modeQueue' : i \in DOMAIN modeQueue \/ modeQueue'[i] = f
      BY <2>1
    <3>3. \A i \in DOMAIN modeQueue', q \in Queued' \cup Carried' : modeQueue'[i] < q
      BY <1>1, <2>1, <2>2, <3>1, <3>2 DEF OInv, Ordered
    <3>4. \A i, j \in DOMAIN modeQueue' : i < j => modeQueue'[i] < modeQueue'[j]
      <4> SUFFICES ASSUME NEW i \in DOMAIN modeQueue', NEW j \in DOMAIN modeQueue', i < j
                   PROVE  modeQueue'[i] < modeQueue'[j]
        OBVIOUS
      <4>1. i \in DOMAIN modeQueue /\ modeQueue'[i] = modeQueue[i]
        BY <2>1
      <4>2. CASE j \in DOMAIN modeQueue
        BY <2>1, <2>2, <4>1, <4>2 DEF OInv, Ordered
      <4>3. CASE j \notin DOMAIN modeQueue
        BY <1>2, <2>2, <3>2, <4>1, <4>3 DEF OInv, Ordered
      <4> QED
        BY <4>2, <4>3
    <3>5. \A i \in DOMAIN out, j \in DOMAIN modeQueue' : out[i] < modeQueue'[j]
      BY <1>2, <2>1, <2>2, <3>2 DEF OInv, Ordered
    <3> QED
      BY <1>1, <2>1, <2>2, <3>1, <3>3, <3>4, <3>5 DEF OInv, Ordered, Handed
  <2>3. CASE slow
    BY <1>1, <2>1, <2>3 DEF Ordered, Handed
  <2> QED
    BY <2>2, <2>3
<1> QED
  BY <1>3, <1>4 DEF Handle, f

\* The forwarding task sends the oldest frame of the mode's queue.
LEMMA ForwardOrder == ASSUME OInv, Forward PROVE Ordered' /\ Handed'
<1>1. /\ received \in Nat /\ modeQueue \in Seq(1..received) /\ out \in Seq(1..received)
      /\ modeQueue # <<>> /\ modeQueue' = Tail(modeQueue) /\ out' = Append(out, Head(modeQueue))
      /\ UNCHANGED <<received, queue, proc, slow>>
  BY DEF OInv, IInv, Shape, Handed, Forward, procVars
<1>2. Queued' = Queued /\ Carried' = Carried
  BY <1>1 DEF Queued, Carried
<1>3. /\ Head(modeQueue) = modeQueue[1] /\ 1 \in DOMAIN modeQueue
      /\ modeQueue' \in Seq(1..received) /\ DOMAIN modeQueue' = 1..(Len(modeQueue) - 1)
      /\ \A i \in DOMAIN modeQueue' : modeQueue'[i] = modeQueue[i + 1]
                                     /\ i + 1 \in DOMAIN modeQueue /\ 1 < i + 1
      /\ Len(modeQueue) \in Nat
  BY <1>1
<1>4. /\ out' \in Seq(1..received) /\ DOMAIN out' = 1..(Len(out) + 1) /\ DOMAIN out = 1..Len(out)
      /\ \A i \in DOMAIN out : out'[i] = out[i]
      /\ out'[Len(out) + 1] = modeQueue[1] /\ Len(out) \in Nat
  BY <1>1, <1>3
<1>5. \A i \in DOMAIN out' : i \in DOMAIN out \/ (out'[i] = modeQueue[1] /\ i = Len(out) + 1)
  BY <1>4
<1>6. CASE ~slow
  <2> USE <1>6 DEF OInv, Ordered
  <2>1. \A i \in DOMAIN modeQueue', f \in Queued' \cup Carried' : modeQueue'[i] < f
    BY <1>2, <1>3
  <2>2. \A i, j \in DOMAIN modeQueue' : i < j => modeQueue'[i] < modeQueue'[j]
    BY <1>3
  <2>3. \A i \in DOMAIN out', f \in Queued' \cup Carried' : out'[i] < f
    BY <1>2, <1>3, <1>4, <1>5
  <2>4. \A i \in DOMAIN out', j \in DOMAIN modeQueue' : out'[i] < modeQueue'[j]
    BY <1>3, <1>4, <1>5
  <2>5. \A i, j \in DOMAIN out' : i < j => out'[i] < out'[j]
    <3> SUFFICES ASSUME NEW i \in DOMAIN out', NEW j \in DOMAIN out', i < j
                 PROVE  out'[i] < out'[j]
      OBVIOUS
    <3>1. i \in DOMAIN out /\ out'[i] = out[i]
      BY <1>4
    <3> QED
      BY <1>3, <1>4, <1>5, <3>1
  <2>6. \A c \in Carried', q \in Queued' : c < q
    BY <1>2
  <2> QED
    BY <1>1, <1>3, <1>4, <2>1, <2>2, <2>3, <2>4, <2>5, <2>6 DEF Handed
<1>7. CASE slow
  BY <1>1, <1>3, <1>4, <1>7 DEF Ordered, Handed
<1> QED
  BY <1>6, <1>7

\* Every step keeps the order.
LEMMA NextOInv == OInv /\ [Next]_vars => OInv'
<1> SUFFICES ASSUME OInv, [Next]_vars PROVE OInv'
  OBVIOUS
<1>1. IInv' /\ Quiet'
  BY NextIInv, QuietNext DEF OInv
<1> SUFFICES Ordered' /\ Handed'
  BY <1>1 DEF OInv
<1>2. Shape /\ Distinct /\ HoldsInHandler /\ Len(queue) \in Nat
  BY DEF OInv, IInv, Shape
<1>3. ASSUME \A t \in Tasks : proc'[t].frame = proc[t].frame, UNCHANGED <<received, slow, modeQueue, out>>,
             queue' = queue \/ \E n \in 0..Len(queue) : Drops(n)
      PROVE  Ordered' /\ Handed'
  <2>1. Carried' = Carried
    BY <1>3, CarriedSame
  <2>2. Queued' \subseteq Queued
    <3>1. CASE queue' = queue
      BY <3>1 DEF Queued
    <3>2. ASSUME NEW n \in 0..Len(queue), Drops(n) PROVE Queued' \subseteq Queued
      BY <1>2, <1>3, <3>2, QueueDrops
    <3> QED
      BY <1>3, <3>1, <3>2
  <2> QED
    BY <1>3, <2>1, <2>2, OrderKept
<1>4. CASE RxRound \/ Reinit \/ StopReads \/ Configure \/ CreateRx \/ UNCHANGED vars
  BY <1>3, <1>4 DEF RxRound, Reinit, StopReads, Configure, CreateRx, vars, procVars, modeVars
<1>5. CASE RxFrame
  <2>1. received' \in {received, received + 1} /\ UNCHANGED <<proc, slow, modeQueue, out>>
    BY <1>5 DEF RxFrame, procVars, modeVars, OInv, IInv, Shape
  <2>2. Carried' = Carried
    BY <2>1 DEF Carried
  <2>3. Queued' \subseteq Queued \cup {received + 1}
    <3>1. CASE queue' = queue
      BY <3>1 DEF Queued
    <3>2. CASE received' = received + 1 /\ queue' = Append(queue, received')
      <4>1. received' \in 0..received'
        BY <3>2 DEF OInv, IInv, Shape
      <4>2. Queued' = Queued \cup ({received'} \ {Null})
        BY <1>2, <2>1, <3>2, <4>1, QueueGrows
      <4> QED
        BY <3>2, <4>2
    <3> QED
      BY <1>5, <3>1, <3>2 DEF RxFrame
  <2> QED
    BY <2>1, <2>2, <2>3, OrderKept
<1>6. ASSUME NEW t \in Tasks, ProcessingTask(t) PROVE Ordered' /\ Handed'
  <2>1. CASE Trim(t) \/ NoTrim(t) \/ ReceiveTimesOut(t) \/ Check(t)
    <3>1. /\ proc[t].frame = Null /\ UNCHANGED <<received, slow, modeQueue, out>>
          /\ \/ \E pc \in Running : Goes(t, pc, Null)
             \/ proc' = [proc EXCEPT ![t] = [NotCreated EXCEPT !.pc = "gone"]]
      BY <1>2, <2>1 DEF Trim, NoTrim, ReceiveTimesOut, Check, modeVars, HoldsInHandler,
         Running
    <3>2. \A u \in Tasks : proc'[u].frame = proc[u].frame
      <4>1. proc \in [Tasks -> [pc : PCs, frame : 0..received, stop : BOOLEAN]]
        BY <1>2 DEF Shape
      <4>2. ASSUME NEW pc \in Running, Goes(t, pc, Null)
            PROVE  \A u \in Tasks : proc'[u].frame = proc[u].frame
        <5>1. proc'[t].frame = Null /\ \A u \in Tasks \ {t} : proc'[u] = proc[u]
          BY <4>1, <4>2 DEF Goes
        <5> QED
          BY <3>1, <5>1
      <4>3. CASE proc' = [proc EXCEPT ![t] = [NotCreated EXCEPT !.pc = "gone"]]
        <5>1. [NotCreated EXCEPT !.pc = "gone"].frame = Null
          BY DEF NotCreated
        <5>2. proc'[t].frame = Null /\ \A u \in Tasks \ {t} : proc'[u] = proc[u]
          BY <4>1, <4>3, <5>1
        <5> QED
          BY <3>1, <5>2
      <4> QED
        BY <3>1, <4>2, <4>3
    <3>3. queue' = queue \/ \E n \in 0..Len(queue) : Drops(n)
      <4>1. CASE Trim(t)
        <5>1. Len(queue) - Keep \in 0..Len(queue) /\ Drops(Len(queue) - Keep)
          BY <1>2, <4>1, PipelineAssumption DEF Trim, Discard, Drops
        <5> QED
          BY <5>1
      <4> QED
        BY <2>1, <4>1 DEF NoTrim, ReceiveTimesOut, Check
    <3> QED
      BY <1>3, <3>1, <3>2, <3>3
  <2> QED
    BY <1>6, <2>1, ReceiveOrder, HandleOrder DEF ProcessingTask
<1>7. CASE StopNotifies
  <2>1. /\ UNCHANGED <<received, slow, modeQueue, out>> /\ queue' \in {queue, Append(queue, Null)}
        /\ proc' = proc \/ proc' = [proc EXCEPT ![target].stop = TRUE]
    BY <1>7 DEF StopNotifies, modeVars
  <2>2. \A t \in Tasks : proc'[t].frame = proc[t].frame
    BY <1>2, <2>1 DEF Shape
  <2>3. Carried' = Carried
    BY <2>2, CarriedSame
  <2>4. Queued' \subseteq Queued
    <3>1. CASE queue' = queue
      BY <3>1 DEF Queued
    <3>2. CASE queue' = Append(queue, Null)
      <4>1. Null \in 0..received' /\ received' \in {received, received + 1}
        BY <1>2, <2>1 DEF Shape, Null
      <4>2. Queued' = Queued \cup ({Null} \ {Null})
        BY <1>2, <3>2, <4>1, QueueGrows
      <4> QED
        BY <4>2
    <3> QED
      BY <2>1, <3>1, <3>2
  <2> QED
    BY <2>1, <2>3, <2>4, OrderKept
<1>8. CASE StopEnds
  <2>1. Len(queue) \in 0..Len(queue) /\ Drops(Len(queue))
        /\ UNCHANGED <<received, slow, modeQueue, out, proc>>
    BY <1>2, <1>8 DEF StopEnds, Discard, Drops, procVars, modeVars
  <2> QED
    BY <1>3, <2>1
<1>9. CASE CreateProc
  <2>1. UNCHANGED <<received, slow, modeQueue, out, queue>>
        /\ (proc' = proc \/ proc' = [proc EXCEPT ![handle'].pc = "loop"])
    BY <1>9 DEF CreateProc, modeVars, procVars
  <2>2. \A t \in Tasks : proc'[t].frame = proc[t].frame
    BY <1>2, <2>1 DEF Shape
  <2> QED
    BY <1>3, <2>1, <2>2
<1>10. CASE MemoryMonitor
  <2>1. \E n \in 0..Len(queue) : Drops(n)
    <3>1. ASSUME NEW freed \in 0..Len(queue), Takes(freed) PROVE \E n \in 0..Len(queue) : Drops(n)
      <4> DEFINE n == IF freed < Len(queue) THEN freed + 1 ELSE freed
      <4>1. Drops(n)
        BY <3>1 DEF Takes, Drops
      <4>2. n \in 0..Len(queue)
        BY <1>2
      <4> HIDE DEF n
      <4> QED
        BY <4>1, <4>2
    <3>2. \E freed \in 0..Len(queue) : Takes(freed)
      BY <1>10, Taking DEF OInv
    <3> QED
      BY <3>1, <3>2
  <2> QED
    BY <1>3, <1>10, <2>1 DEF MemoryMonitor, procVars, modeVars
<1> QED
  BY <1>4, <1>5, <1>6, <1>7, <1>8, <1>9, <1>10, ForwardOrder DEF Next, Controller

\* The second invariant holds in every behaviour.
LEMMA OrderInvariance == Spec => []OInv
  BY InitOInv, NextOInv, PTL DEF Spec

-----------------------------------------------------------------------------
(* The theorems.                                                              *)

\* Every buffer has exactly one holder and is freed when it leaves it; only the
\* memory monitor loses buffers.
THEOREM BuffersCorrect == Spec => []BuffersAreHeld
<1>1. IInv => BuffersAreHeld
  <2> SUFFICES ASSUME IInv PROVE BuffersAreHeld
    OBVIOUS
  <2>1. InQueue = Queued
    BY PipelineAssumption DEF InQueue, Contains, Queued, Frames, Null, IInv, Shape
  <2>2. {proc[t].frame : t \in Alive} \ {Null} = Carried
    BY DEF Alive, Carried, IInv, HoldsInHandler
  <2>3. Null \notin Queued
    BY DEF Queued
  <2>4. heap = Held \cup overrun
    BY <2>1, <2>2 DEF Held, IInv, Allocated
  <2>5. {proc[t].frame : t \in Alive} \cap InQueue = {}
    BY <2>1, <2>2, <2>3 DEF IInv, Distinct
  <2> QED
    BY <2>4, <2>5 DEF BuffersAreHeld, IInv, Distinct, Alive
<1> QED
  BY <1>1, Invariance, PTL

\* A consumer that a reinit left behind has been told to stop.
THEOREM StraysCorrect == Spec => []StrayConsumersStop
<1>1. IInv => StrayConsumersStop
  BY DEF IInv
<1> QED
  BY <1>1, Invariance, PTL

\* While the driver is replaced neither producer nor, unless its handler is slow,
\* consumer is left.
THEOREM QuietCorrect == Spec => []QuietWhileReplaced
<1>1. OInv => QuietWhileReplaced
  <2>1. Null \notin Tasks
    BY PipelineAssumption DEF Tasks, Null
  <2> QED
    BY <2>1 DEF OInv, Quiet, QuietWhileReplaced, Alive
<1> QED
  BY <1>1, OrderInvariance, PTL

\* Frames leave in the order they came, unless a handler was slow.
THEOREM OrderCorrect == Spec => []InOrder
<1>1. OInv => InOrder
  BY DEF OInv, Ordered, InOrder
<1> QED
  BY <1>1, OrderInvariance, PTL
=============================================================================

---------------------------- MODULE UartPipeline ----------------------------
(***************************************************************************)
(* The receiving path of main/drivers/sx_async_uart.c, the memory monitor  *)
(* of main/app/sx_main.c and the TCP transparent mode of                   *)
(* main/modes/mode_tcp_transparent.c.                                      *)
(*                                                                         *)
(* rx_task cuts the byte stream into frames and queues each in a buffer of *)
(* its own; uart_processing_task hands it to the work mode and frees it.   *)
(* uart_reinit, called by the web server, stops both tasks, replaces the   *)
(* driver and creates new ones; it waits for the old tasks only 1 s.  Once *)
(* a minute the memory monitor takes messages from the same queue.         *)
(***************************************************************************)
EXTENDS Naturals, Sequences, FiniteSets, SequencesExt

CONSTANTS
  QueueLen,      \* UART_QUEUE_LEN
  Backlog,       \* messages above which the consumer trims the queue
  Keep,          \* messages it keeps
  LowBacklog,    \* messages above which the monitor clears when memory is low
  LowClear,      \* messages it clears then
  ModeLen,       \* TCP_TRANSPARENT_QUEUE_SIZE
  NumFrames,     \* bound on the frames received
  MaxReinits     \* bound on the calls of uart_reinit

ASSUME PipelineAssumption ==
  /\ QueueLen \in Nat \ {0} /\ ModeLen \in Nat \ {0}
  /\ Keep \in Nat /\ Backlog \in Nat /\ Keep < Backlog
  /\ LowClear \in Nat /\ LowBacklog \in Nat /\ LowClear < LowBacklog
  /\ NumFrames \in Nat /\ MaxReinits \in Nat

Frames == 1..NumFrames
Tasks  == 1..(MaxReinits + 1)    \* each create starts another uart_processing_task
Null   == 0                      \* no task; as a message, the dummy without data

VARIABLES
  queue,       \* uartDataQueue: frames and dummies
  received,    \* frames rx_task has completed
  heap,        \* frames whose buffer is allocated
  overrun,     \* frames the memory monitor received and did not free
  rx,          \* rx_task: "none", "dead" (it found no memory), "top" or "body"
  rxHandle,    \* uartTaskHandle # NULL
  rxStop,      \* RX_TASK_STOP_BIT pending for rx_task
  proc,        \* each uart_processing_task: pc, the frame it holds, stop pending
  handle,      \* uartProcessTaskHandle
  ctl,         \* the caller of uart_reinit
  target,      \* proc_handle as stop_rx_task has read it
  again,       \* stop_rx_task runs the second time, called from rx_wait
  driver,      \* uart_driver_installed
  reinits,     \* calls of uart_reinit so far
  slow,        \* the work mode's handler may take longer than the 1 s wait
  failed,      \* a task could not be created, or ended for want of memory
  modeQueue,   \* s_queue of the transparent mode
  out          \* frames handed to the TCP channel

rxVars   == <<rx, rxHandle, rxStop>>
procVars == <<proc, handle>>
ctlVars  == <<ctl, target, again, driver, reinits>>
modeVars == <<modeQueue, out>>
vars     == <<queue, received, heap, overrun, rxVars, procVars, ctlVars, slow, failed, modeVars>>

NotCreated == [pc |-> "none", frame |-> Null, stop |-> FALSE]

\* uart_init has created the queue and installed the driver; rx_wait follows.
Init ==
  /\ queue = <<>> /\ received = 0 /\ heap = {} /\ overrun = {}
  /\ rx = "none" /\ rxHandle = FALSE /\ rxStop = FALSE
  /\ proc = [t \in Tasks |-> NotCreated] /\ handle = Null
  /\ ctl = "create_proc" /\ target = Null /\ again = TRUE /\ driver = TRUE
  /\ reinits = 0
  /\ slow \in BOOLEAN /\ failed = FALSE
  /\ modeQueue = <<>> /\ out = <<>>

InQueue == {f \in Frames : Contains(queue, f)}

-----------------------------------------------------------------------------
(* rx_task                                                                  *)

\* The stop bit is looked at once per round.
RxRound ==
  /\ rx = "top"
  /\ IF rxStop
     THEN rx' = "none" /\ rxHandle' = FALSE /\ rxStop' = FALSE
     ELSE rx' = "body" /\ UNCHANGED <<rxHandle, rxStop>>
  /\ UNCHANGED <<queue, received, heap, overrun, procVars, ctlVars, slow, failed, modeVars>>

\* A complete frame is copied and queued, or dropped if the queue is full or
\* no memory is left for the copy.
RxFrame ==
  /\ rx = "body"
  /\ rx' = "top"
  /\ \/ UNCHANGED <<received, queue, heap>>
     \/ /\ driver /\ received < NumFrames
        /\ received' = received + 1
        /\ \/ Len(queue) < QueueLen /\ queue' = Append(queue, received')
              /\ heap' = heap \cup {received'}
           \/ UNCHANGED <<queue, heap>>
  /\ UNCHANGED <<overrun, rxHandle, rxStop, procVars, ctlVars, slow, failed, modeVars>>

-----------------------------------------------------------------------------
(* uart_processing_task                                                     *)

Goes(t, pc, f) == proc' = [proc EXCEPT ![t].pc = pc, ![t].frame = f]

\* Bug: the messages are removed, their buffers are not freed.
DiscardUnfreed(n) == queue' = SubSeq(queue, n + 1, Len(queue)) /\ UNCHANGED heap

\* Removing the n oldest messages and freeing them.
Discard(n) ==
  /\ queue' = SubSeq(queue, n + 1, Len(queue))
  /\ heap' = heap \ {queue[i] : i \in 1..n}

\* Too long a backlog: only the newest messages are kept.
Trim(t) ==
  /\ proc[t].pc = "loop" /\ Len(queue) > Backlog
  /\ Discard(Len(queue) - Keep)
  /\ Goes(t, "receive", Null)
  /\ UNCHANGED <<received, overrun, rxVars, handle, ctlVars, slow, failed, modeVars>>

NoTrim(t) ==
  /\ proc[t].pc = "loop" /\ Len(queue) <= Backlog
  /\ Goes(t, "receive", Null)
  /\ UNCHANGED <<queue, received, heap, overrun, rxVars, handle, ctlVars, slow, failed, modeVars>>

\* A dummy goes straight back to the top, past the look at the stop bit.
Receive(t) ==
  /\ proc[t].pc = "receive" /\ queue # <<>>
  /\ queue' = Tail(queue)
  /\ IF Head(queue) = Null THEN Goes(t, "loop", Null) ELSE Goes(t, "handle", Head(queue))
  /\ UNCHANGED <<received, heap, overrun, rxVars, handle, ctlVars, slow, failed, modeVars>>

ReceiveTimesOut(t) ==
  /\ proc[t].pc = "receive" /\ queue = <<>>
  /\ Goes(t, "check", Null)
  /\ UNCHANGED <<queue, received, heap, overrun, rxVars, handle, ctlVars, slow, failed, modeVars>>

\* Bug: the buffer is freed on the normal path only.
HandleLeaks(t) ==
  /\ proc[t].pc = "handle"
  /\ \/ modeQueue' = Append(modeQueue, proc[t].frame) /\ Goes(t, "check", Null)
        /\ heap' = heap \ {proc[t].frame}
     \/ Goes(t, "loop", Null) /\ UNCHANGED <<modeQueue, heap>>
  /\ UNCHANGED <<queue, received, overrun, rxVars, handle, ctlVars, slow, failed, out>>

\* The mode copies the frame into its queue, or drops it; the buffer is freed.
\* Without memory for uart_response the frame is skipped, back to the top.
Handle(t) ==
  /\ proc[t].pc = "handle"
  /\ heap' = heap \ {proc[t].frame}
  /\ \/ /\ Len(modeQueue) < ModeLen
        /\ modeQueue' = Append(modeQueue, proc[t].frame)
        /\ Goes(t, "check", Null)
     \/ Goes(t, "check", Null) /\ UNCHANGED modeQueue
     \/ Goes(t, "loop", Null) /\ UNCHANGED modeQueue
  /\ UNCHANGED <<queue, received, overrun, rxVars, handle, ctlVars, slow, failed, out>>

\* Bug: whatever handle is set is cleared.
CheckForgetsOwner(t) ==
  /\ proc[t].pc = "check"
  /\ IF proc[t].stop
     THEN proc' = [proc EXCEPT ![t] = [NotCreated EXCEPT !.pc = "gone"]] /\ handle' = Null
     ELSE Goes(t, "loop", Null) /\ UNCHANGED handle
  /\ UNCHANGED <<queue, received, heap, overrun, rxVars, ctlVars, slow, failed, modeVars>>

Check(t) ==
  /\ proc[t].pc = "check"
  /\ IF proc[t].stop
     THEN /\ proc' = [proc EXCEPT ![t] = [NotCreated EXCEPT !.pc = "gone"]]
          /\ handle' = IF handle = t THEN Null ELSE handle
     ELSE Goes(t, "loop", Null) /\ UNCHANGED handle
  /\ UNCHANGED <<queue, received, heap, overrun, rxVars, ctlVars, slow, failed, modeVars>>

ProcessingTask(t) ==
  Trim(t) \/ NoTrim(t) \/ Receive(t) \/ ReceiveTimesOut(t) \/ Handle(t) \/ Check(t)

\* tcp_transparent_task
Forward ==
  /\ modeQueue # <<>>
  /\ modeQueue' = Tail(modeQueue)
  /\ out' = Append(out, Head(modeQueue))
  /\ UNCHANGED <<queue, received, heap, overrun, rxVars, procVars, ctlVars, slow, failed>>

-----------------------------------------------------------------------------
(* uart_reinit: stop_rx_task, the driver, rx_wait (with stop_rx_task again). *)

Reinit ==
  /\ ctl = "idle" /\ reinits < MaxReinits
  /\ reinits' = reinits + 1
  /\ ctl' = "stop" /\ again' = FALSE
  /\ UNCHANGED <<queue, received, heap, overrun, rxVars, procVars, target, driver, slow, failed, modeVars>>

\* Notifies rx_task and reads the other handle.  (A dead task is notified too:
\* a write to freed memory whose effect is outside this model.)
StopReads ==
  /\ ctl = "stop"
  /\ ctl' = "notify"
  /\ rxStop' = (rxHandle /\ rx # "dead")
  /\ target' = handle
  /\ UNCHANGED <<queue, received, heap, overrun, rx, rxHandle, procVars, again, driver, reinits,
                 slow, failed, modeVars>>

\* Bug: only the dummy message, which the task ignores.
StopNotifiesByMessage ==
  /\ ctl = "notify"
  /\ ctl' = "wait"
  /\ queue' = IF target # Null /\ Len(queue) < QueueLen THEN Append(queue, Null) ELSE queue
  /\ UNCHANGED <<received, heap, overrun, rxVars, procVars, target, again, driver, reinits,
                 slow, failed, modeVars>>

\* The dummy wakes a task that waits for a message; it is dropped if the queue is full.
StopNotifies ==
  /\ ctl = "notify"
  /\ ctl' = "wait"
  /\ IF target # Null
     THEN /\ proc' = IF proc[target].pc = "gone" THEN proc
                     ELSE [proc EXCEPT ![target].stop = TRUE]
          /\ \/ queue' = Append(queue, Null) /\ Len(queue) < QueueLen
             \/ queue' = queue /\ Len(queue) = QueueLen
     ELSE UNCHANGED <<proc, queue>>
  /\ UNCHANGED <<received, heap, overrun, rxVars, handle, target, again, driver, reinits,
                 slow, failed, modeVars>>

\* Bug: the wait ends when either task has stopped.
BothGoneEither == ~rxHandle \/ handle = Null

BothGone == ~rxHandle /\ handle = Null

\* 1 s is ample for rx_task, whose rounds take 10 ms, and for a task waiting
\* for a message; it is not for one in a slow handler or one already dead.
OutOfTime ==
  /\ ~BothGone
  /\ rxHandle => rx = "dead"
  /\ handle # Null => slow /\ proc[handle].pc = "handle"

StopEnds ==
  /\ ctl = "wait"
  /\ BothGone \/ OutOfTime
  /\ ctl' = IF again THEN "create_proc" ELSE "configure"
  /\ Discard(Len(queue))
  /\ driver' = (driver /\ again)
  /\ UNCHANGED <<received, overrun, rxVars, procVars, target, again, reinits, slow, failed, modeVars>>

\* uart_configure installs the driver, or fails twice; rx_wait follows anyway.
Configure ==
  /\ ctl = "configure"
  /\ ctl' = "stop" /\ again' = TRUE
  /\ driver' \in BOOLEAN
  /\ UNCHANGED <<queue, received, heap, overrun, rxVars, procVars, target, reinits, slow, failed,
                 modeVars>>

CreateProc ==
  /\ ctl = "create_proc"
  /\ ctl' = "create_rx"
  /\ \/ /\ handle' = reinits + 1
        /\ proc' = [proc EXCEPT ![handle'].pc = "loop"]
        /\ UNCHANGED failed
     \/ failed' = TRUE /\ UNCHANGED procVars
  /\ UNCHANGED <<queue, received, heap, overrun, rxVars, target, again, driver, reinits, slow, modeVars>>

\* Without memory for its frame the task ends at once and leaves its handle behind.
CreateRx ==
  /\ ctl = "create_rx"
  /\ ctl' = "idle"
  /\ \/ /\ rx' \in {"top", "dead"} /\ rxHandle' = TRUE /\ rxStop' = FALSE
        /\ failed' = (failed \/ rx' = "dead")
     \/ failed' = TRUE /\ UNCHANGED rxVars
  /\ UNCHANGED <<queue, received, heap, overrun, procVars, target, again, driver, reinits, slow, modeVars>>

Controller ==
  StopReads \/ StopNotifies \/ StopEnds \/ Configure \/ CreateProc \/ CreateRx

-----------------------------------------------------------------------------
(* memory_monitor_timer_callback: each loop receives a message more than it *)
(* counts, and forgets it.                                                  *)

Takes(freed) ==
  LET n == IF freed < Len(queue) THEN freed + 1 ELSE freed
  IN  /\ queue' = SubSeq(queue, n + 1, Len(queue))
      /\ heap' = heap \ {queue[i] : i \in 1..freed}
      /\ overrun' = overrun \cup ({queue[i] : i \in (freed + 1)..n} \ {Null})

\* queue_count is unsigned: one message minus two is a huge number.
CriticalMemory ==
  /\ queue # <<>>
  /\ Takes(IF Len(queue) = 1 THEN 1 ELSE Len(queue) - 2)

LowMemory == Len(queue) > LowBacklog /\ Takes(LowClear)

MemoryMonitor ==
  /\ CriticalMemory \/ LowMemory
  /\ UNCHANGED <<received, rxVars, procVars, ctlVars, slow, failed, modeVars>>

Next == \/ RxRound \/ RxFrame \/ (\E t \in Tasks : ProcessingTask(t))
        \/ Forward \/ Reinit \/ Controller \/ MemoryMonitor

Spec == Init /\ [][Next]_vars

\* Every task is scheduled and every handler returns in the end.
Fairness == /\ WF_vars(RxRound) /\ WF_vars(RxFrame) /\ WF_vars(Forward) /\ WF_vars(Controller)
            /\ \A t \in Tasks : WF_vars(ProcessingTask(t))

FairSpec == Spec /\ Fairness

-----------------------------------------------------------------------------
(* Properties                                                               *)

Alive == {t \in Tasks : proc[t].pc \notin {"none", "gone"}}

Held == InQueue \cup ({proc[t].frame : t \in Alive} \ {Null})

\* A frame's buffer has exactly one holder, the queue or one consumer, and is
\* freed when it leaves them, on every path of the consumer, the trim and a
\* reinit; only the memory monitor loses buffers.
BuffersAreHeld ==
  /\ heap = Held \cup overrun
  /\ \A t, u \in Alive : proc[t].frame = proc[u].frame /\ t # u => proc[t].frame = Null
  /\ {proc[t].frame : t \in Alive} \cap InQueue = {}

\* A consumer left behind by a reinit that timed out has been told to stop.
StrayConsumersStop == \A t \in Alive : t = handle \/ proc[t].stop

\* While the driver is replaced neither producer nor, unless its handler is
\* slow, consumer of the old one is left (stop_rx_task before uart_driver_delete).
QuietWhileReplaced ==
  ctl = "configure" => rx \in {"none", "dead"} /\ (Alive = {} \/ slow)

\* Frames leave by TCP in the order they came, unless a slow handler let a
\* reinit run two consumers side by side.
InOrder == slow \/ \A i, j \in DOMAIN out : i < j => out[i] < out[j]

\* Unless a task could not be created, the port is working again after every
\* reinit and the consumers left behind are gone.
Restarts ==
  []<>(failed \/ (ctl = "idle" /\ handle # Null /\ rx \in {"top", "body"} /\ Alive = {handle}))

\* No buffer stays allocated for good, unless the monitor lost it or its
\* consumer could not be created.
BuffersAreReleased ==
  \A f \in Frames : f \in heap ~> (f \notin heap \/ f \in overrun \/ failed)

\* "free the memory the RX task allocated" (sx_async_uart.c:709); the monitor
\* says of its own clearing that it "releases memory" (sx_main.c:217).
NothingIsLeaked == heap = Held
=============================================================================

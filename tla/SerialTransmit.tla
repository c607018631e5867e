--------------------------- MODULE SerialTransmit ---------------------------
(***************************************************************************)
(* The sending path of the serial port: requests of the web pages, whole or *)
(* in chunks, put together by the web server; data from the TCP tasks and   *)
(* from MQTT; and sendData of main/drivers/sx_async_uart.c, which sends them *)
(* one at a time under uart_mutex, for which it waits 100 ms only.          *)
(*                                                                         *)
(* All requests are handled by the one task of the HTTP server, so          *)
(* serial_chunk_mutex is never contended; the requests of several pages     *)
(* interleave, and may be repeated or come out of order.                    *)
(***************************************************************************)
EXTENDS Naturals, Sequences

CONSTANTS
  Ids,        \* transferIds
  MaxChunks,  \* bound on chunkTotal
  Net,        \* TCP tasks that send what they receive
  MaxMsgs     \* bound on the MQTT messages, each of which loses a buffer

ASSUME TransmitAssumption ==
  /\ MaxChunks \in Nat /\ MaxChunks > 1 /\ MaxMsgs \in Nat
  /\ "none" \notin Ids /\ {"none", "httpd", "mqtt"} \cap Net = {}

Senders == Net \cup {"httpd", "mqtt"}

\* What a task sends: a chunk with its transferId, chunkIndex and chunkTotal, or
\* data that is whole, among it a request without a transferId, with a single
\* chunk or without a chunkIndex.
Chunks   == {r \in [id : Ids, idx : 0..(MaxChunks - 1), total : 2..MaxChunks] : r.idx < r.total}
Whole(w) == [id |-> w, idx |-> 0, total |-> 1]
Requests == Chunks \cup {Whole("httpd")}
Chunked(r) == r.total > 1

\* The first m of the n chunks of transfer i.
Transfer(i, m, n) == [k \in 1..m |-> [id |-> i, idx |-> k - 1, total |-> n]]

VARIABLES
  ctx,      \* serial_chunk_ctx: [id, expected, pieces]
  told,     \* per transfer: the chunks acknowledged in a row and their total
  job,      \* per task: its call of tx_task(s): the step, the data, whether it is
            \* copied, and how it ended: sent, cut off, or given up
  lock,     \* the holder of uart_mutex
  de,       \* GPIO 4: the RS485 driver is switched to transmit
  starved,  \* it was left so by a send that found no memory
  driver,   \* uart_driver_installed
  slow,     \* the FIFO may take longer than the 40 ms that sendData waits
  heap,     \* the number of buffers allocated
  msgs      \* MQTT messages so far whose copy was allocated

vars == <<ctx, told, job, lock, de, starved, driver, slow, heap, msgs>>
lineVars == <<lock, de, starved, driver, slow>>

NoCtx == [id |-> "none", expected |-> 0, pieces |-> <<>>]
NoJob == [at |-> "idle", data |-> <<>>, copied |-> FALSE, how |-> "none"]
Job(step, data) == [NoJob EXCEPT !.at = step, !.data = data]
At(w, step) == job[w].at = step
Goes(w, step) == job' = [job EXCEPT ![w].at = step]
Ends(w, how) == job' = [job EXCEPT ![w].at = "return", ![w].how = how]

Init ==
  /\ ctx = NoCtx /\ told = [i \in Ids |-> [n |-> 0, total |-> 0]]
  /\ job = [w \in Senders |-> NoJob]
  /\ lock = "none" /\ de = FALSE /\ starved = FALSE /\ driver \in BOOLEAN /\ slow \in BOOLEAN
  /\ heap = 0 /\ msgs = 0

-----------------------------------------------------------------------------
(* process_uart_chunk and the answers of ws_handler and /serial_ctl         *)

\* The page counts what was acknowledged in a row and stops at a failure.
Counted(t, r, ok) ==
  CASE ~ok                                                      -> [n |-> 0, total |-> 0]
    [] ok /\ r.idx = 0                                          -> [n |-> 1, total |-> r.total]
    [] ok /\ r.idx # 0 /\ r.idx = t.n /\ r.total = t.total -> [n |-> r.idx + 1, total |-> r.total]
    [] OTHER                                                    -> t
Answer(r, ok) ==
  told' = IF Chunked(r) THEN [told EXCEPT ![r.id] = Counted(told[r.id], r, ok)] ELSE told

\* Mutant of StartsNew: the transfer under way is not compared.
StartsAtZero(r) == r.idx = 0

\* The first chunk, or one of another transfer, discards what was put together.
StartsNew(r) == r.idx = 0 \/ ctx.id # r.id

Begun(r) == IF StartsNew(r) THEN [id |-> r.id, expected |-> r.total, pieces |-> <<>>] ELSE ctx

InSequence(r) == r.total = Begun(r).expected /\ r.idx = Len(Begun(r).pieces)

\* Buffers that the assembly holds.
Buffered(c) == IF c.pieces = <<>> THEN 0 ELSE 1

\* A payload that does not decode, a chunked one without transferId, or no memory.
Rejected(r) ==
  /\ At("httpd", "idle")
  /\ Answer(r, FALSE)
  /\ UNCHANGED <<ctx, job, lineVars, heap, msgs>>

\* Sent at once; also with a chunkTotal, if the chunkIndex is missing.
Single(r) ==
  /\ At("httpd", "idle") /\ ~Chunked(r)
  /\ job' = [job EXCEPT !["httpd"] = Job("copy", <<r>>)]
  /\ heap' = heap + 1
  /\ UNCHANGED <<ctx, told, lineVars, msgs>>

\* Mutant of OutOfSequence: the chunk is dropped and acknowledged.
OutOfSequenceAnswered(r) ==
  /\ At("httpd", "idle") /\ Chunked(r) /\ ~InSequence(r)
  /\ ctx' = NoCtx /\ heap' = heap - Buffered(ctx)
  /\ Answer(r, TRUE)
  /\ UNCHANGED <<job, lineVars, msgs>>

\* A chunk that is not the next one, or no memory for it, ends the transfer.
OutOfSequence(r) ==
  /\ At("httpd", "idle") /\ Chunked(r)
  /\ ctx' = NoCtx /\ heap' = heap - Buffered(ctx)
  /\ Answer(r, FALSE)
  /\ UNCHANGED <<job, lineVars, msgs>>

Chunk(r) ==
  /\ At("httpd", "idle") /\ Chunked(r) /\ InSequence(r) /\ r.idx + 1 < r.total
  /\ ctx' = [Begun(r) EXCEPT !.pieces = Append(@, r)]
  /\ heap' = heap - Buffered(ctx) + 1
  /\ Answer(r, TRUE)
  /\ UNCHANGED <<job, lineVars, msgs>>

\* The last chunk: the assembly is emptied and its buffer sent.
LastChunk(r) ==
  /\ At("httpd", "idle") /\ Chunked(r) /\ InSequence(r) /\ r.idx + 1 = r.total
  /\ ctx' = NoCtx
  /\ job' = [job EXCEPT !["httpd"] = Job("copy", Append(ctx.pieces, r))]
  /\ UNCHANGED <<told, lineVars, heap, msgs>>

-----------------------------------------------------------------------------
(* The other senders                                                        *)

\* tx_task from a TCP task: its own buffer is sent without a copy.
TcpData(w) ==
  /\ At(w, "idle") /\ w \in Net
  /\ job' = [job EXCEPT ![w] = Job("take", <<Whole(w)>>)]
  /\ UNCHANGED <<ctx, told, lineVars, heap, msgs>>

\* MQTT_EVENT_DATA: u_data and a copy of it for tx_tasks.
MqttData ==
  /\ At("mqtt", "idle") /\ msgs < MaxMsgs
  /\ job' = [job EXCEPT !["mqtt"] = Job("copy", <<Whole("mqtt")>>)]
  /\ heap' = heap + 2 /\ msgs' = msgs + 1
  /\ UNCHANGED <<ctx, told, lineVars>>

-----------------------------------------------------------------------------
(* tx_tasks and sendData                                                    *)

\* Without memory for the copy of tx_tasks nothing is sent.
Copy(w) ==
  /\ At(w, "copy")
  /\ \/ /\ job' = [job EXCEPT ![w].at = "take", ![w].copied = TRUE]
        /\ heap' = heap + 1
     \/ Ends(w, "lost") /\ UNCHANGED heap
  /\ UNCHANGED <<ctx, told, lineVars, msgs>>

Take(w) ==
  /\ At(w, "take") /\ lock = "none"
  /\ lock' = w /\ Goes(w, "drive")
  /\ UNCHANGED <<ctx, told, de, starved, driver, slow, heap, msgs>>

\* Mutant of TakeTimesOut: after the wait sendData goes on without the mutex.
TakesAnyway(w) ==
  /\ At(w, "take") /\ lock # "none"
  /\ Goes(w, "drive")
  /\ UNCHANGED <<ctx, told, lineVars, heap, msgs>>

\* The line is busy for 100 ms: the data is given up, and nobody is told.
TakeTimesOut(w) ==
  /\ At(w, "take") /\ lock # "none"
  /\ Ends(w, "lost")
  /\ UNCHANGED <<ctx, told, lineVars, heap, msgs>>

\* The receiver is flushed, the driver switched on and uart_tx_data filled.
Drive(w) ==
  /\ At(w, "drive")
  /\ de' = TRUE /\ Goes(w, "write")
  /\ UNCHANGED <<ctx, told, lock, starved, driver, slow, heap, msgs>>

\* uart_tx_data cannot grow: back at once, with the driver still switched on.
NoMemory(w) ==
  /\ At(w, "drive")
  /\ de' = TRUE /\ lock' = "none" /\ starved' = TRUE /\ Ends(w, "lost")
  /\ UNCHANGED <<ctx, told, driver, slow, heap, msgs>>

\* Mutant of Finish: the driver stays switched on.
FinishDriving(w) ==
  /\ At(w, "write")
  /\ Ends(w, "sent")
  /\ starved' = FALSE /\ lock' = "none"
  /\ UNCHANGED <<ctx, told, de, driver, slow, heap, msgs>>

\* uart_write_bytes, which fails without a driver; the wait for the FIFO; and the
\* driver switched off, on a slow line before the last bytes are out.
Finish(w) ==
  /\ At(w, "write")
  /\ \/ ~driver /\ Ends(w, "lost")
     \/ driver /\ de /\ Ends(w, "sent")
     \/ driver /\ (slow \/ ~de) /\ Ends(w, "cut")
  /\ de' = FALSE /\ starved' = FALSE /\ lock' = "none"
  /\ UNCHANGED <<ctx, told, driver, slow, heap, msgs>>

\* Mutant of Return: the copy of tx_tasks is left to the caller.
ReturnUnfreed(w) ==
  /\ At(w, "return")
  /\ heap' = heap - (IF w \in Net THEN 0 ELSE 1)
  /\ IF w = "httpd" THEN Answer(job[w].data[Len(job[w].data)], TRUE) ELSE UNCHANGED told
  /\ job' = [job EXCEPT ![w] = NoJob]
  /\ UNCHANGED <<ctx, lineVars, msgs>>

\* tx_tasks frees its own copy, httpd its data, MQTT u_data only; what sendData
\* returned is ignored, and the page is told "ok".
Return(w) ==
  /\ At(w, "return")
  /\ heap' = heap - (IF job[w].copied THEN 1 ELSE 0) - (IF w \in Net THEN 0 ELSE 1)
  /\ IF w = "httpd" THEN Answer(job[w].data[Len(job[w].data)], TRUE) ELSE UNCHANGED told
  /\ job' = [job EXCEPT ![w] = NoJob]
  /\ UNCHANGED <<ctx, lineVars, msgs>>

-----------------------------------------------------------------------------
(* uart_reinit, called by /serial_set; its tasks are in UartPipeline        *)

Reinit ==
  /\ At("httpd", "idle") /\ lock = "none"
  /\ lock' = "httpd" /\ Goes("httpd", "reinit")
  /\ UNCHANGED <<ctx, told, de, starved, driver, slow, heap, msgs>>

Configured ==
  /\ At("httpd", "reinit")
  /\ driver' \in BOOLEAN /\ lock' = "none" /\ job' = [job EXCEPT !["httpd"] = NoJob]
  /\ UNCHANGED <<ctx, told, de, starved, slow, heap, msgs>>

-----------------------------------------------------------------------------

Sends(w) ==
  Copy(w) \/ Take(w) \/ TakeTimesOut(w) \/ Drive(w) \/ NoMemory(w) \/ Finish(w) \/ Return(w)

Next ==
  \/ \E r \in Requests : Rejected(r) \/ Single(r) \/ OutOfSequence(r) \/ Chunk(r) \/ LastChunk(r)
  \/ \E w \in Net : TcpData(w)
  \/ MqttData \/ Reinit \/ Configured
  \/ \E w \in Senders : Sends(w)

Spec == Init /\ [][Next]_vars

\* Every task runs on once it sends.
FairSpec == Spec /\ WF_vars(Configured) /\ \A w \in Senders : WF_vars(Sends(w))

-----------------------------------------------------------------------------
(* Properties                                                               *)

Steps == {"idle", "copy", "take", "drive", "write", "return", "reinit"}

\* The data of a call: none, whole data, or all the chunks of a transfer.
Data == {<<>>} \cup {<<Whole(w)>> : w \in Senders} \cup {Transfer(i, n, n) : i \in Ids, n \in 2..MaxChunks}

Calls == [at : Steps, data : Data, copied : BOOLEAN, how : {"none", "sent", "cut", "lost"}]

\* Every variable keeps its type, and only the holder of uart_mutex is between
\* taking and giving it.
TypeOK ==
  /\ ctx.id \in Ids \cup {"none"} /\ ctx.expected \in 0..MaxChunks /\ ctx.pieces \in Seq(Chunks)
  /\ told \in [Ids -> [n : 0..MaxChunks, total : 0..MaxChunks]]
  /\ \A i \in Ids : told[i].n <= told[i].total
  /\ job \in [Senders -> Calls]
  /\ lock \in Senders \cup {"none"}
  /\ \A w \in Senders : job[w].at \in {"drive", "write", "reinit"} <=> lock = w
  /\ de \in BOOLEAN /\ starved \in BOOLEAN /\ driver \in BOOLEAN /\ slow \in BOOLEAN
  /\ heap \in Nat /\ msgs \in 0..MaxMsgs

\* Only whole messages reach the line: one that came whole, or all the chunks of
\* one transfer in their order, however the requests of several pages mix; a
\* slow line cuts the end off, because the driver is switched off after 40 ms.
Complete(d) ==
  \/ Len(d) = 1 /\ ~Chunked(d[1])
  \/ Len(d) > 1 /\ d = Transfer(d[1].id, Len(d), Len(d))
WholeTransfers ==
  \A w \in Senders : CASE job[w].how = "sent" -> Complete(job[w].data)
                       [] job[w].how = "cut"  -> slow
                       [] OTHER               -> TRUE

\* When a page learns that all its chunks were accepted in a row, its transfer
\* has been sent whole just before, or sendData has given it up: for a busy or
\* slow line, for memory or for the driver.
AckedIsSent ==
  [][\A i \in Ids : LET t == told'[i] IN
       t # told[i] /\ t.n = t.total /\ t.n > 0 =>
         /\ job["httpd"].data = Transfer(i, t.n, t.n)
         /\ job["httpd"].how # "none"]_vars

\* Every buffer belongs to the transfer under way or to a call under way, except
\* one per MQTT message, the copy that its handler leaves to tx_tasks.
Held(j) == (IF j.at \in {"idle", "reinit"} THEN 0 ELSE 1) + (IF j.copied THEN 1 ELSE 0)
BuffersAreFreed ==
  /\ heap = Buffered(ctx) + msgs + Held(job["httpd"]) + Held(job["mqtt"])
  /\ \A w \in Net : ~job[w].copied

\* The line is given back and its driver switched off after every send, except
\* after one that found no memory, until the next one.
LineReturns == (lock # "none" \/ de) ~> (lock = "none" /\ (~de \/ starved))
=============================================================================

------------------------ MODULE SerialTransmit_proofs ------------------------
(* Proofs about SerialTransmit, for any transfers of any length, any number   *)
(* of TCP tasks and of MQTT messages.                                         *)
EXTENDS SerialTransmit, SequenceTheorems, TLAPS

-----------------------------------------------------------------------------
(* Lemmas about the chunks of a transfer.                                     *)

\* The first m of n chunks are a sequence of m chunks.
LEMMA TransferType ==
  ASSUME NEW i \in Ids, NEW n \in 2..MaxChunks, NEW m \in 0..n
  PROVE  /\ Transfer(i, m, n) \in Seq(Chunks)
         /\ Len(Transfer(i, m, n)) = m
         /\ \A k \in 1..m : Transfer(i, m, n)[k] = [id |-> i, idx |-> k - 1, total |-> n]
<1>1. \A k \in 1..m : [id |-> i, idx |-> k - 1, total |-> n] \in Chunks
  BY TransmitAssumption DEF Chunks
<1>2. Transfer(i, m, n) \in [1..m -> Chunks]
  BY <1>1 DEF Transfer
<1> QED
  BY <1>2 DEF Transfer

\* process_uart_chunk appends the chunk it waits for.
LEMMA TransferGrows ==
  ASSUME NEW i \in Ids, NEW n \in 2..MaxChunks, NEW m \in 0..(n - 1)
  PROVE  Append(Transfer(i, m, n), [id |-> i, idx |-> m, total |-> n]) = Transfer(i, m + 1, n)
<1> DEFINE c == [id |-> i, idx |-> m, total |-> n]
           t == Transfer(i, m, n)
           u == Transfer(i, m + 1, n)
<1>1. /\ m \in Nat /\ n \in Nat /\ m \in 0..n /\ m + 1 \in 0..n
      /\ c \in Chunks
  BY TransmitAssumption DEF Chunks
<1>2. /\ t \in Seq(Chunks) /\ Len(t) = m
      /\ \A k \in 1..m : t[k] = [id |-> i, idx |-> k - 1, total |-> n]
  BY <1>1, TransferType
<1>3. /\ u \in Seq(Chunks) /\ Len(u) = m + 1
      /\ \A k \in 1..(m + 1) : u[k] = [id |-> i, idx |-> k - 1, total |-> n]
  BY <1>1, TransferType
<1>4. u[m + 1] = c
  BY <1>1, <1>3
<1> HIDE DEF c, t, u
<1>5. /\ Append(t, c) \in Seq(Chunks) /\ Len(Append(t, c)) = m + 1
      /\ \A k \in 1..m : Append(t, c)[k] = t[k]
      /\ Append(t, c)[m + 1] = c
  BY <1>1, <1>2
<1>6. \A k \in 1..(m + 1) : Append(t, c)[k] = u[k]
  BY <1>1, <1>2, <1>3, <1>4, <1>5
<1>7. Append(t, c) = u
  BY <1>3, <1>5, <1>6, SeqEqual
<1> QED
  BY <1>7 DEF c, t, u

\* What is whole is complete, and so is a transfer with all its chunks.
LEMMA CompleteData ==
  /\ \A w : Complete(<<Whole(w)>>)
  /\ \A i \in Ids, n \in 2..MaxChunks : Complete(Transfer(i, n, n))
<1>1. ASSUME NEW i \in Ids, NEW n \in 2..MaxChunks
      PROVE  Complete(Transfer(i, n, n))
  <2> DEFINE t == Transfer(i, n, n)
  <2>1. n \in Nat /\ n > 1 /\ n \in 0..n
    BY TransmitAssumption
  <2>2. Len(t) = n /\ t[1] = [id |-> i, idx |-> 1 - 1, total |-> n]
    BY <2>1, TransferType
  <2>3. Len(t) > 1 /\ t[1].id = i
    BY <2>1, <2>2
  <2> QED
    BY <2>2, <2>3 DEF Complete
<1>2. ASSUME NEW w
      PROVE  Complete(<<Whole(w)>>)
  BY DEF Complete, Whole, Chunked
<1> QED
  BY <1>1, <1>2

-----------------------------------------------------------------------------
(* The inductive invariant.                                                   *)

\* What process_uart_chunk has put together is the beginning of one transfer.
Assembly ==
  \/ ctx = NoCtx
  \/ \E i \in Ids, n \in 2..MaxChunks : \E m \in 1..(n - 1) :
       ctx = [id |-> i, expected |-> n, pieces |-> Transfer(i, m, n)]

\* A call under way has data and no result yet; it writes with the driver on.
Call(w) ==
  /\ job[w].at \in {"idle", "reinit"} => ~job[w].copied /\ job[w].how = "none"
  /\ job[w].at = "reinit" => w = "httpd"
  /\ job[w].at \notin {"idle", "reinit"} => job[w].data # <<>>
  /\ job[w].at = "return" <=> job[w].how # "none"
  /\ job[w].how = "cut" => slow
  /\ job[w].at = "write" => de
  /\ job[w].at = "copy" => ~job[w].copied
  /\ w \in Net => job[w].at # "copy"

IInv == TypeOK /\ Assembly /\ BuffersAreFreed /\ \A w \in Senders : Call(w)


\* The initial state satisfies the invariant.
LEMMA InitIInv == Init => IInv
<1> SUFFICES ASSUME Init PROVE IInv
  OBVIOUS
<1>1. TypeOK
  <2>1. /\ ctx.id \in Ids \cup {"none"} /\ ctx.expected \in 0..MaxChunks
        /\ ctx.pieces \in Seq(Chunks)
    BY TransmitAssumption, EmptySeq DEF Init, NoCtx
  <2>2. /\ told \in [Ids -> [n : 0..MaxChunks, total : 0..MaxChunks]]
        /\ \A i \in Ids : told[i].n <= told[i].total
    BY TransmitAssumption DEF Init
  <2>3. NoJob \in Calls
    BY DEF NoJob, Steps, Calls, Data
  <2>4. job \in [Senders -> Calls]
    BY <2>3 DEF Init
  <2>5. \A w \in Senders : job[w].at \in {"drive", "write", "reinit"} <=> lock = w
    BY TransmitAssumption DEF Init, NoJob, Senders
  <2>6. lock \in Senders \cup {"none"} /\ heap \in Nat /\ msgs \in 0..MaxMsgs
    BY TransmitAssumption DEF Init
  <2>7. de \in BOOLEAN /\ starved \in BOOLEAN /\ driver \in BOOLEAN /\ slow \in BOOLEAN
    BY DEF Init
  <2> QED
    BY <2>1, <2>2, <2>4, <2>5, <2>6, <2>7 DEF TypeOK
<1>2. Assembly
  BY DEF Init, Assembly
<1>3. BuffersAreFreed
  BY DEF Init, BuffersAreFreed, Buffered, Held, NoCtx, NoJob, Senders
<1>4. \A w \in Senders : Call(w)
  BY TransmitAssumption DEF Init, Call, NoJob
<1> QED
  BY <1>1, <1>2, <1>3, <1>4 DEF IInv

\* The assembly holds a buffer or none, a call none, one or two.
LEMMA HeldValues ==
  /\ \A c : Buffered(c) \in {0, 1}
  /\ \A j : /\ Held(j) \in {0, 1, 2}
            /\ j.at \in {"idle", "reinit"} /\ ~j.copied => Held(j) = 0
            /\ j.at \notin {"idle", "reinit"} /\ ~j.copied => Held(j) = 1
            /\ j.at \notin {"idle", "reinit"} /\ j.copied => Held(j) = 2
<1>1. ASSUME NEW j
      PROVE  /\ (IF j.at \in {"idle", "reinit"} THEN 0 ELSE 1) \in {0, 1}
             /\ (IF j.copied THEN 1 ELSE 0) \in {0, 1}
  OBVIOUS
<1> QED
  BY <1>1 DEF Buffered, Held

\* What a step allocates and frees is what the assembly, the messages and the
\* call that it changes hold more or less.
LEMMA Accounts ==
  ASSUME IInv, NEW w \in Senders, NEW j, job' = [job EXCEPT ![w] = j],
         msgs' \in Nat, heap' \in Int,
         w \in Net => ~j.copied /\ heap' - heap = Buffered(ctx') - Buffered(ctx) + msgs' - msgs,
         w \notin Net => heap' - heap = Buffered(ctx') - Buffered(ctx) + msgs' - msgs
                                          + Held(j) - Held(job[w])
  PROVE  BuffersAreFreed'
<1>1. \A v \in Senders : job'[v] = IF v = w THEN j ELSE job[v]
  BY DEF IInv, TypeOK
<1>2. \A v \in Net : ~job'[v].copied
  BY <1>1 DEF IInv, BuffersAreFreed, Senders
<1> DEFINE h == Held(job["httpd"])
           m == Held(job["mqtt"])
           h2 == Held(job'["httpd"])
           m2 == Held(job'["mqtt"])
           b == Buffered(ctx)
           b2 == Buffered(ctx')
<1>3. h \in Nat /\ m \in Nat /\ h2 \in Nat /\ m2 \in Nat /\ b \in Nat /\ b2 \in Nat
  <2>1. \A x \in {0, 1, 2} : x \in Nat
    OBVIOUS
  <2> QED
    BY <2>1, HeldValues
<1>4. heap = b + msgs + h + m /\ heap \in Nat /\ msgs \in Nat
  BY DEF IInv, BuffersAreFreed, TypeOK
<1>5. \/ w \in Net /\ h2 = h /\ m2 = m
      \/ w = "httpd" /\ w \notin Net /\ m2 = m /\ h2 = Held(j) /\ h = Held(job[w])
      \/ w = "mqtt" /\ w \notin Net /\ h2 = h /\ m2 = Held(j) /\ m = Held(job[w])
  BY <1>1, TransmitAssumption DEF Senders
<1>6. heap' - heap = b2 - b + msgs' - msgs + (h2 - h) + (m2 - m)
  <2> DEFINE x == Held(j)
             y == Held(job[w])
  <2>1. x \in Nat /\ y \in Nat
    <3>1. \A z \in {0, 1, 2} : z \in Nat
      OBVIOUS
    <3> QED
      BY <3>1, HeldValues
  <2>2. /\ w \in Net => heap' - heap = b2 - b + msgs' - msgs
        /\ w \notin Net => heap' - heap = b2 - b + msgs' - msgs + x - y
    OBVIOUS
  <2>3. \/ w \in Net /\ h2 = h /\ m2 = m
        \/ w = "httpd" /\ w \notin Net /\ m2 = m /\ h2 = x /\ h = y
        \/ w = "mqtt" /\ w \notin Net /\ h2 = h /\ m2 = x /\ m = y
    BY <1>5
  <2> DEFINE d == heap' - heap
             k == msgs'
  <2>4. k \in Nat
    OBVIOUS
  <2>5. /\ w \in Net => d = b2 - b + k - msgs
        /\ w \notin Net => d = b2 - b + k - msgs + x - y
    BY <2>2
  <2> HIDE DEF h, m, h2, m2, b, b2, x, y, d, k
  <2>6. d = b2 - b + k - msgs + (h2 - h) + (m2 - m)
    BY <1>3, <1>4, <2>1, <2>3, <2>4, <2>5
  <2> QED
    BY <2>6 DEF d, k
<1>7. heap' = b2 + msgs' + h2 + m2
  <2> DEFINE p2 == heap'
             q2 == msgs'
  <2>1. p2 \in Int /\ q2 \in Int /\ heap \in Int /\ msgs \in Int
    BY <1>4
  <2>2. p2 - heap = b2 - b + q2 - msgs + (h2 - h) + (m2 - m)
    BY <1>6
  <2> HIDE DEF h, m, h2, m2, b, b2, p2, q2
  <2>3. p2 = b2 + q2 + h2 + m2
    BY <1>3, <1>4, <2>1, <2>2
  <2> QED
    BY <2>3 DEF p2, q2
<1> QED
  BY <1>2, <1>7 DEF BuffersAreFreed

\* The parts of TypeOK about the assembly and about the pages.
CtxType ==
  ctx.id \in Ids \cup {"none"} /\ ctx.expected \in 0..MaxChunks /\ ctx.pieces \in Seq(Chunks)
ToldType ==
  /\ told \in [Ids -> [n : 0..MaxChunks, total : 0..MaxChunks]]
  /\ \A i \in Ids : told[i].n <= told[i].total

\* What is put together has the type of serial_chunk_ctx.
LEMMA AssemblyType == ASSUME Assembly PROVE CtxType
<1>1. CASE ctx = NoCtx
  BY <1>1, EmptySeq, TransmitAssumption DEF NoCtx, CtxType
<1>2. CASE \E i \in Ids, n \in 2..MaxChunks : \E m \in 1..(n - 1) :
             ctx = [id |-> i, expected |-> n, pieces |-> Transfer(i, m, n)]
  <2>1. PICK i \in Ids, n \in 2..MaxChunks : \E m \in 1..(n - 1) :
             ctx = [id |-> i, expected |-> n, pieces |-> Transfer(i, m, n)]
    BY <1>2
  <2>2. PICK m \in 1..(n - 1) :
             ctx = [id |-> i, expected |-> n, pieces |-> Transfer(i, m, n)]
    BY <2>1
  <2>3. n \in 0..MaxChunks /\ m \in 0..n
    BY TransmitAssumption
  <2> QED
    BY <2>2, <2>3, TransferType DEF CtxType
<1> QED
  BY <1>1, <1>2 DEF Assembly

\* A task that moves to another step keeps the invariant, if it stays a proper
\* call, holds uart_mutex where it must, and the buffers are accounted for.
LEMMA Moves ==
  ASSUME IInv, NEW w \in Senders, NEW j \in Calls,
         job' = [job EXCEPT ![w] = j],
         driver' \in BOOLEAN, slow' = slow, Assembly', ToldType', msgs' \in 0..MaxMsgs,
         starved' \in BOOLEAN, de' \in BOOLEAN, de' = de \/ lock = w,
         lock' \in Senders \cup {"none"},
         j.at \in {"drive", "write", "reinit"} <=> lock' = w,
         \A v \in Senders \ {w} : lock' = v <=> lock = v,
         Call(w)',
         BuffersAreFreed'
  PROVE  IInv'
<1>1. job' \in [Senders -> Calls] /\ \A v \in Senders : job'[v] = IF v = w THEN j ELSE job[v]
  BY DEF IInv, TypeOK
<1>2. heap' \in Nat
  <2>1. msgs' \in Nat
    BY TransmitAssumption
  <2> QED
    BY HeldValues, <2>1 DEF BuffersAreFreed
<1>3. \A v \in Senders : job'[v].at \in {"drive", "write", "reinit"} <=> lock' = v
  BY <1>1 DEF IInv, TypeOK
<1>4. slow' \in BOOLEAN
  BY DEF IInv, TypeOK
<1>5. CtxType'
  BY AssemblyType, PTL
<1>6. TypeOK'
  BY <1>1, <1>2, <1>3, <1>4, <1>5 DEF TypeOK, CtxType, ToldType
<1>7. ASSUME NEW v \in Senders, v # w
      PROVE  Call(v)'
  <2>1. job'[v] = job[v] /\ Call(v) /\ slow' = slow
    BY <1>1, <1>7 DEF IInv
  <2>2. job[v].at = "write" => de'
    BY <1>7, <2>1 DEF IInv, TypeOK, Call
  <2> QED
    BY <2>1, <2>2 DEF Call
<1> QED
  BY <1>6, <1>7 DEF IInv

\* The steps of sendData after the copy: the data and its copy stay.
LEMMA MovesOn ==
  ASSUME IInv, NEW w \in Senders, NEW j \in Calls, job' = [job EXCEPT ![w] = j],
         job[w].at \in {"take", "drive", "write"},
         j.at \in {"drive", "write", "return"}, j.at = "return" <=> j.how # "none",
         j.data = job[w].data, j.copied = job[w].copied,
         j.how = "cut" => slow, j.at = "write" => de',
         UNCHANGED <<ctx, told, driver, slow, heap, msgs>>,
         starved' \in BOOLEAN, de' \in BOOLEAN, de' = de \/ lock = w,
         lock' \in Senders \cup {"none"},
         j.at \in {"drive", "write"} <=> lock' = w,
         \A v \in Senders \ {w} : lock' = v <=> lock = v
  PROVE  IInv'
<1>1. job'[w] = j /\ job[w].data # <<>> /\ (w \in Net => ~j.copied)
  BY DEF IInv, TypeOK, Call, BuffersAreFreed
<1>2. Call(w)'
  BY <1>1 DEF Call
<1>3. Held(j) = Held(job[w])
  BY DEF Held
<1>4. BuffersAreFreed'
  <2>1. heap \in Int /\ heap' \in Int /\ msgs \in Nat /\ msgs' \in Nat
    BY TransmitAssumption DEF IInv, TypeOK
  <2>2. Held(j) \in Int /\ Held(job[w]) \in Int /\ Buffered(ctx) \in Int
        /\ Buffered(ctx') = Buffered(ctx)
    BY HeldValues
  <2>3. /\ heap' - heap = Buffered(ctx') - Buffered(ctx) + msgs' - msgs
        /\ heap' - heap = Buffered(ctx') - Buffered(ctx) + msgs' - msgs + Held(j) - Held(job[w])
    BY <1>3, <2>1, <2>2
  <2> QED
    BY <1>1, <2>1, <2>3, Accounts
<1>5. Assembly' /\ ToldType' /\ msgs' \in 0..MaxMsgs /\ driver' \in BOOLEAN
  BY DEF IInv, TypeOK, Assembly, ToldType
<1> QED
  BY <1>2, <1>4, <1>5, Moves

\* tx_tasks copies the data, or gives it up.
LEMMA CopyStep == ASSUME IInv, NEW w \in Senders, Copy(w) PROVE IInv'
<1>1. /\ w \in {"httpd", "mqtt"} /\ job[w] \in Calls /\ ~job[w].copied /\ lock # w
      /\ job[w].how = "none" /\ job[w].data # <<>> /\ job[w].at = "copy"
  BY DEF IInv, TypeOK, Call, Copy, At, Senders
<1>2. PICK j : /\ job' = [job EXCEPT ![w] = j]
               /\ \/ j = [job[w] EXCEPT !.at = "take", !.copied = TRUE] /\ heap' = heap + 1
                  \/ j = [job[w] EXCEPT !.at = "return", !.how = "lost"] /\ heap' = heap
  BY DEF Copy, Ends
<1>3. j \in Calls /\ j.at \in {"take", "return"} /\ j.data = job[w].data
      /\ (j.at = "take" => j.how = "none" /\ j.copied) /\ (j.at = "return" => j.how = "lost" /\ ~j.copied)
  BY <1>1, <1>2 DEF Calls, Steps
<1>4. \A v \in Senders : job'[v] = IF v = w THEN j ELSE job[v]
  BY <1>2 DEF IInv, TypeOK
<1>5. UNCHANGED <<ctx, told, lineVars, msgs>>
  BY DEF Copy
<1>6. Call(w)'
  BY <1>1, <1>3, <1>4, <1>5 DEF Call
<1>7. BuffersAreFreed'
  <2>1. heap \in Nat /\ heap' \in Nat /\ msgs' \in Nat /\ w \notin Net
    BY <1>1, <1>2, <1>5, TransmitAssumption DEF IInv, TypeOK
  <2>2. Held(job[w]) = 1
    BY <1>1, HeldValues
  <2>3. \/ Held(j) = 2 /\ heap' = heap + 1
        \/ Held(j) = 1 /\ heap' = heap
    <3>1. CASE j = [job[w] EXCEPT !.at = "take", !.copied = TRUE] /\ heap' = heap + 1
      BY <1>1, <1>3, <3>1, HeldValues DEF Calls
    <3>2. CASE j = [job[w] EXCEPT !.at = "return", !.how = "lost"] /\ heap' = heap
      BY <1>1, <1>3, <3>2, HeldValues DEF Calls
    <3> QED
      BY <1>2, <3>1, <3>2
  <2>4. heap' - heap = Buffered(ctx') - Buffered(ctx) + msgs' - msgs + Held(j) - Held(job[w])
    <3>1. Buffered(ctx') = Buffered(ctx) /\ Buffered(ctx) \in {0, 1} /\ msgs' = msgs
      BY <1>5, HeldValues
    <3> QED
      BY <2>1, <2>2, <2>3, <3>1
  <2>5. heap' \in Int /\ (w \in Net => FALSE)
    BY <2>1
  <2> QED
    BY <1>2, <2>1, <2>4, <2>5, Accounts
<1>8. Assembly' /\ ToldType' /\ msgs' \in 0..MaxMsgs
  BY <1>5 DEF IInv, TypeOK, Assembly, ToldType
<1> QED
  BY <1>1, <1>2, <1>3, <1>4, <1>5, <1>6, <1>7, <1>8, Moves DEF IInv, TypeOK, lineVars

\* sendData takes uart_mutex.
LEMMA TakeStep == ASSUME IInv, NEW w \in Senders, Take(w) PROVE IInv'
<1>1. PICK j : j = [job[w] EXCEPT !.at = "drive"]
  OBVIOUS
<1>2. job[w] \in Calls /\ job[w].at = "take" /\ job[w].how = "none"
  BY DEF IInv, TypeOK, Call, Take, At
<1>3. /\ j \in Calls /\ j.at = "drive" /\ j.how = "none"
      /\ j.data = job[w].data /\ j.copied = job[w].copied
  BY <1>1, <1>2 DEF Calls, Steps
<1>4. job' = [job EXCEPT ![w] = j]
  BY <1>1 DEF Take, Goes
<1>5. /\ lock = "none" /\ lock' = w
      /\ UNCHANGED <<ctx, told, de, starved, driver, slow, heap, msgs>>
  BY DEF Take
<1>6. \A v \in Senders \ {w} : lock' = v <=> lock = v
  BY <1>5, TransmitAssumption DEF Senders
<1> QED
  BY <1>2, <1>3, <1>4, <1>5, <1>6, MovesOn DEF IInv, TypeOK

\* sendData gives up after its 100 ms.
LEMMA TakeTimesOutStep == ASSUME IInv, NEW w \in Senders, TakeTimesOut(w) PROVE IInv'
<1>1. PICK j : j = [job[w] EXCEPT !.at = "return", !.how = "lost"]
  OBVIOUS
<1>2. job[w] \in Calls /\ job[w].at = "take" /\ lock # w
  BY DEF IInv, TypeOK, TakeTimesOut, At
<1>3. /\ j \in Calls /\ j.at = "return" /\ j.how = "lost"
      /\ j.data = job[w].data /\ j.copied = job[w].copied
  BY <1>1, <1>2 DEF Calls, Steps
<1>4. job' = [job EXCEPT ![w] = j]
  BY <1>1 DEF TakeTimesOut, Ends
<1>5. UNCHANGED <<ctx, told, lock, de, starved, driver, slow, heap, msgs>>
  BY DEF TakeTimesOut, lineVars
<1> QED
  BY <1>2, <1>3, <1>4, <1>5, MovesOn DEF IInv, TypeOK

\* sendData switches the driver on.
LEMMA DriveStep == ASSUME IInv, NEW w \in Senders, Drive(w) PROVE IInv'
<1>1. PICK j : j = [job[w] EXCEPT !.at = "write"]
  OBVIOUS
<1>2. job[w] \in Calls /\ job[w].at = "drive" /\ job[w].how = "none" /\ lock = w
  BY DEF IInv, TypeOK, Call, Drive, At
<1>3. /\ j \in Calls /\ j.at = "write" /\ j.how = "none"
      /\ j.data = job[w].data /\ j.copied = job[w].copied
  BY <1>1, <1>2 DEF Calls, Steps
<1>4. job' = [job EXCEPT ![w] = j]
  BY <1>1 DEF Drive, Goes
<1>5. de' /\ de' \in BOOLEAN /\ UNCHANGED <<ctx, told, lock, starved, driver, slow, heap, msgs>>
  BY DEF Drive
<1> QED
  BY <1>2, <1>3, <1>4, <1>5, MovesOn DEF IInv, TypeOK

\* sendData returns when its buffer cannot grow.
LEMMA NoMemoryStep == ASSUME IInv, NEW w \in Senders, NoMemory(w) PROVE IInv'
<1>1. PICK j : j = [job[w] EXCEPT !.at = "return", !.how = "lost"]
  OBVIOUS
<1>2. job[w] \in Calls /\ job[w].at = "drive" /\ lock = w
  BY DEF IInv, TypeOK, NoMemory, At
<1>3. /\ j \in Calls /\ j.at = "return" /\ j.how = "lost"
      /\ j.data = job[w].data /\ j.copied = job[w].copied
  BY <1>1, <1>2 DEF Calls, Steps
<1>4. job' = [job EXCEPT ![w] = j]
  BY <1>1 DEF NoMemory, Ends
<1>5. /\ de' \in BOOLEAN /\ starved' \in BOOLEAN /\ lock' = "none"
      /\ UNCHANGED <<ctx, told, driver, slow, heap, msgs>>
  BY DEF NoMemory
<1>6. "none" \notin Senders
  BY TransmitAssumption DEF Senders
<1> QED
  BY <1>2, <1>3, <1>4, <1>5, <1>6, MovesOn

\* sendData writes, waits and switches the driver off.
LEMMA FinishStep == ASSUME IInv, NEW w \in Senders, Finish(w) PROVE IInv'
<1>1. job[w] \in Calls /\ job[w].at = "write" /\ lock = w /\ de
  BY DEF IInv, TypeOK, Call, Finish, At
<1>2. PICK h \in {"sent", "cut", "lost"} : Ends(w, h) /\ (h = "cut" => slow)
  BY <1>1 DEF Finish
<1>3. PICK j : j = [job[w] EXCEPT !.at = "return", !.how = h]
  OBVIOUS
<1>4. /\ j \in Calls /\ j.at = "return" /\ j.how = h
      /\ j.data = job[w].data /\ j.copied = job[w].copied
  BY <1>1, <1>2, <1>3 DEF Calls, Steps
<1>5. job' = [job EXCEPT ![w] = j]
  BY <1>2, <1>3 DEF Ends
<1>6. /\ de' \in BOOLEAN /\ starved' \in BOOLEAN /\ lock' = "none"
      /\ UNCHANGED <<ctx, told, driver, slow, heap, msgs>>
  BY DEF Finish
<1>7. "none" \notin Senders
  BY TransmitAssumption DEF Senders
<1> QED
  BY <1>1, <1>2, <1>4, <1>5, <1>6, <1>7, MovesOn

\* What a page is told of a chunk: a failure, or one chunk more.
LEMMA AnswerCases ==
  ASSUME IInv, NEW r \in Chunks, NEW ok \in BOOLEAN, Answer(r, ok)
  PROVE  \E t : /\ told' = [told EXCEPT ![r.id] = t]
                /\ \/ ~ok /\ t = [n |-> 0, total |-> 0]
                   \/ ok /\ r.idx = 0 /\ t = [n |-> 1, total |-> r.total]
                   \/ ok /\ r.idx # 0 /\ r.idx = told[r.id].n /\ r.total = told[r.id].total
                         /\ t = [n |-> r.idx + 1, total |-> r.total]
                   \/ ok /\ t = told[r.id]
<1>1. r.id \in Ids /\ r.idx \in 0..(MaxChunks - 1) /\ r.total \in 2..MaxChunks /\ Chunked(r)
  BY TransmitAssumption DEF Chunks, Chunked
<1> DEFINE t == Counted(told[r.id], r, ok)
<1>3. told' = [told EXCEPT ![r.id] = t]
  BY <1>1 DEF Answer
<1>4. \/ ~ok /\ t = [n |-> 0, total |-> 0]
      \/ ok /\ r.idx = 0 /\ t = [n |-> 1, total |-> r.total]
      \/ ok /\ r.idx # 0 /\ r.idx = told[r.id].n /\ r.total = told[r.id].total
            /\ t = [n |-> r.idx + 1, total |-> r.total]
      \/ ok /\ t = told[r.id]
  BY DEF Counted
<1> HIDE DEF t
<1> QED
  BY <1>3, <1>4

\* An answer to a chunk keeps what the page counts in its range.
LEMMA AnswerType ==
  ASSUME IInv, NEW r \in Chunks, NEW ok \in BOOLEAN, Answer(r, ok)
  PROVE  ToldType'
<1>1. PICK t : /\ told' = [told EXCEPT ![r.id] = t]
               /\ \/ ~ok /\ t = [n |-> 0, total |-> 0]
                  \/ ok /\ r.idx = 0 /\ t = [n |-> 1, total |-> r.total]
                  \/ ok /\ r.idx # 0 /\ r.idx = told[r.id].n /\ r.total = told[r.id].total
                        /\ t = [n |-> r.idx + 1, total |-> r.total]
                  \/ ok /\ t = told[r.id]
  BY AnswerCases
<1>2. /\ r.id \in Ids /\ r.idx \in Nat /\ r.total \in Nat
      /\ r.idx < r.total /\ 1 < r.total /\ r.total <= MaxChunks
  BY TransmitAssumption DEF Chunks
<1>3. t \in [n : 0..MaxChunks, total : 0..MaxChunks] /\ t.n <= t.total
  <2>1. CASE t = [n |-> 0, total |-> 0]
    BY <2>1, TransmitAssumption
  <2>2. CASE t = [n |-> 1, total |-> r.total]
    BY <1>2, <2>2, TransmitAssumption
  <2>3. CASE t = [n |-> r.idx + 1, total |-> r.total]
    BY <1>2, <2>3, TransmitAssumption
  <2>4. CASE t = told[r.id]
    BY <1>2, <2>4 DEF IInv, TypeOK
  <2> QED
    BY <1>1, <2>1, <2>2, <2>3, <2>4
<1> QED
  BY <1>1, <1>3 DEF IInv, TypeOK, ToldType

\* The request answered at the end of a call is the last chunk of its transfer,
\* or one that is no chunk.
LEMMA LastOfCall ==
  ASSUME NEW d \in Data, d # <<>>
  PROVE  \/ ~Chunked(d[Len(d)])
         \/ \E i \in Ids, n \in 2..MaxChunks :
              d = Transfer(i, n, n) /\ d[Len(d)] = [id |-> i, idx |-> n - 1, total |-> n]
<1>1. CASE \E w \in Senders : d = <<Whole(w)>>
  BY <1>1 DEF Whole, Chunked
<1>2. ASSUME NEW i \in Ids, NEW n \in 2..MaxChunks, d = Transfer(i, n, n)
      PROVE  d[Len(d)] = [id |-> i, idx |-> n - 1, total |-> n]
  <2>1. n \in 0..n /\ n \in 1..n
    BY TransmitAssumption
  <2> QED
    BY <1>2, <2>1, TransferType
<1>3. \/ \E w \in Senders : d = <<Whole(w)>>
      \/ \E i \in Ids, n \in 2..MaxChunks : d = Transfer(i, n, n)
  BY DEF Data
<1> QED
  BY <1>1, <1>2, <1>3

\* Such a request is a chunk if it is chunked.
LEMMA LastIsChunk ==
  ASSUME NEW d \in Data, d # <<>>, Chunked(d[Len(d)])
  PROVE  d[Len(d)] \in Chunks
<1>1. PICK i \in Ids, n \in 2..MaxChunks : d[Len(d)] = [id |-> i, idx |-> n - 1, total |-> n]
  BY LastOfCall
<1> QED
  BY <1>1, TransmitAssumption DEF Chunks

\* So does an answer to any request.
LEMMA Answered ==
  ASSUME IInv, NEW r, NEW ok \in BOOLEAN, Chunked(r) => r \in Chunks, Answer(r, ok)
  PROVE  ToldType'
<1>1. CASE Chunked(r)
  BY <1>1, AnswerType
<1>2. CASE ~Chunked(r)
  BY <1>2 DEF Answer, IInv, TypeOK, ToldType
<1> QED
  BY <1>1, <1>2

\* A chunked request is one of the chunks.
LEMMA RequestIsChunk == \A r \in Requests : Chunked(r) => r \in Chunks
  BY DEF Requests, Whole, Chunked

\* The end of a call: its buffers are freed, and the page is answered.
LEMMA ReturnStep == ASSUME IInv, NEW w \in Senders, Return(w) PROVE IInv'
<1> DEFINE d == job[w].data
<1>1. job[w] \in Calls /\ job[w].at = "return" /\ lock # w /\ d # <<>> /\ d \in Data
  BY DEF IInv, TypeOK, Call, Return, At, Calls
<1>2. PICK j : j = NoJob
  OBVIOUS
<1>3. /\ j \in Calls /\ j.at = "idle" /\ ~j.copied /\ j.how = "none"
      /\ job' = [job EXCEPT ![w] = j]
  BY <1>2 DEF NoJob, Calls, Steps, Data, Return
<1>4. UNCHANGED <<ctx, lock, de, starved, driver, slow, msgs>>
  BY DEF Return, lineVars
<1>5. job'[w] = j
  BY <1>3 DEF IInv, TypeOK
<1>6. Call(w)'
  BY <1>3, <1>5 DEF Call
<1>7. ToldType'
  <2>1. CASE w = "httpd"
    <3>1. PICK r : r = d[Len(d)]
      OBVIOUS
    <3>2. Chunked(r) => r \in Chunks
      BY <1>1, <3>1, LastIsChunk
    <3>3. Answer(r, TRUE)
      BY <2>1, <3>1 DEF Return
    <3> QED
      BY <3>2, <3>3, Answered
  <2>2. CASE w # "httpd"
    BY <2>2 DEF Return, IInv, TypeOK, ToldType
  <2> QED
    BY <2>1, <2>2
<1>8. BuffersAreFreed'
  <2>1. PICK c \in {0, 1} : c = IF job[w].copied THEN 1 ELSE 0
    OBVIOUS
  <2>2. heap' = heap - c - (IF w \in Net THEN 0 ELSE 1)
    BY <2>1 DEF Return
  <2>3. Held(j) = 0 /\ Held(job[w]) = 1 + c
    BY <1>1, <1>3, <2>1, HeldValues
  <2>4. w \in Net => c = 0
    BY <2>1 DEF IInv, BuffersAreFreed
  <2>5. heap \in Int /\ msgs \in Nat /\ msgs' = msgs /\ heap' \in Int
    BY <2>1, <2>2, <1>4, TransmitAssumption DEF IInv, TypeOK
  <2>6. Buffered(ctx) \in Int /\ Buffered(ctx') = Buffered(ctx)
    BY <1>4, HeldValues
  <2>7. w \in Net => ~j.copied /\ heap' - heap = Buffered(ctx') - Buffered(ctx) + msgs' - msgs
    BY <1>3, <2>2, <2>4, <2>5, <2>6
  <2>8. w \notin Net => heap' - heap = Buffered(ctx') - Buffered(ctx) + msgs' - msgs
                                         + Held(j) - Held(job[w])
    BY <2>1, <2>2, <2>3, <2>5, <2>6
  <2> QED
    BY <1>3, <2>5, <2>7, <2>8, Accounts
<1>9. Assembly' /\ msgs' \in 0..MaxMsgs
  BY <1>4 DEF IInv, TypeOK, Assembly
<1> QED
  BY <1>1, <1>3, <1>4, <1>6, <1>7, <1>8, <1>9, Moves DEF IInv, TypeOK

\* A request that starts no call leaves the line alone.
LEMMA Stays ==
  ASSUME IInv, UNCHANGED <<job, lineVars, msgs>>, Assembly', ToldType', heap' \in Int,
         heap' - heap = Buffered(ctx') - Buffered(ctx)
  PROVE  IInv'
<1>1. PICK j : j = job["httpd"]
  OBVIOUS
<1>2. j \in Calls /\ job' = [job EXCEPT !["httpd"] = j] /\ "httpd" \in Senders \ Net
  BY <1>1, TransmitAssumption DEF IInv, TypeOK, Senders
<1>3. Call("httpd")'
  BY <1>2 DEF IInv, Call, lineVars
<1>4. BuffersAreFreed'
  <2>1. heap \in Int /\ msgs \in Nat /\ msgs' = msgs
    BY TransmitAssumption DEF IInv, TypeOK
  <2>2. Buffered(ctx) \in Int /\ Buffered(ctx') \in Int /\ Held(j) \in Int
    BY HeldValues
  <2>3. heap' - heap = Buffered(ctx') - Buffered(ctx) + msgs' - msgs + Held(j) - Held(job["httpd"])
    BY <1>1, <2>1, <2>2
  <2> QED
    BY <1>2, <2>1, <2>3, Accounts
<1> QED
  BY <1>2, <1>3, <1>4, Moves, <1>1 DEF IInv, TypeOK, lineVars

\* A request that is refused.
LEMMA RejectedStep == ASSUME IInv, NEW r \in Requests, Rejected(r) PROVE IInv'
<1>1. ToldType'
  BY Answered, RequestIsChunk DEF Rejected
<1>2. heap' = heap /\ heap \in Int /\ ctx' = ctx /\ Assembly'
  BY DEF Rejected, IInv, TypeOK, Assembly
<1>3. heap' - heap = Buffered(ctx') - Buffered(ctx)
  BY <1>2, HeldValues
<1> QED
  BY <1>1, <1>2, <1>3, Stays DEF Rejected

\* A chunk that ends its transfer.
LEMMA OutOfSequenceStep == ASSUME IInv, NEW r \in Requests, OutOfSequence(r) PROVE IInv'
<1>1. ToldType'
  BY Answered, RequestIsChunk DEF OutOfSequence
<1>2. ctx' = NoCtx /\ Assembly'
  BY DEF OutOfSequence, Assembly
<1>3. heap' = heap - Buffered(ctx) /\ heap \in Int /\ Buffered(ctx) \in Int /\ Buffered(ctx') = 0
  BY <1>2, HeldValues DEF OutOfSequence, IInv, TypeOK, Buffered, NoCtx
<1>4. heap' \in Int /\ heap' - heap = Buffered(ctx') - Buffered(ctx)
  BY <1>3
<1> QED
  BY <1>1, <1>2, <1>4, Stays DEF OutOfSequence

\* A chunk that is accepted continues its own transfer, and only that one.
LEMMA Continues ==
  ASSUME IInv, NEW r \in Chunks, InSequence(r)
  PROVE  /\ Begun(r) = [id |-> r.id, expected |-> r.total, pieces |-> Transfer(r.id, r.idx, r.total)]
         /\ r.idx # 0 => Begun(r) = ctx
<1>1. r.id \in Ids /\ r.total \in 2..MaxChunks /\ r.total \in Nat /\ 0 \in 0..r.total
  BY TransmitAssumption DEF Chunks
<1>2. CASE StartsNew(r)
  <2>1. Begun(r) = [id |-> r.id, expected |-> r.total, pieces |-> <<>>] /\ r.idx = 0
    BY <1>2 DEF InSequence, Begun
  <2>2. Transfer(r.id, 0, r.total) = <<>>
    BY <1>1, TransferType
  <2> QED
    BY <2>1, <2>2
<1>3. CASE ~StartsNew(r)
  <2>1. ctx.id = r.id /\ r.idx # 0 /\ ctx # NoCtx /\ Begun(r) = ctx
    BY <1>1, <1>3, TransmitAssumption DEF StartsNew, NoCtx, Begun
  <2>2. PICK i \in Ids, n \in 2..MaxChunks : \E m \in 1..(n - 1) :
               ctx = [id |-> i, expected |-> n, pieces |-> Transfer(i, m, n)]
    BY <2>1 DEF IInv, Assembly
  <2>3. PICK m \in 1..(n - 1) : ctx = [id |-> i, expected |-> n, pieces |-> Transfer(i, m, n)]
    BY <2>2
  <2>4. Len(Transfer(i, m, n)) = m
    <3>1. m \in 0..n
      BY TransmitAssumption
    <3> QED
      BY <3>1, TransferType
  <2>5. r.total = n /\ r.idx = m /\ i = r.id
    BY <2>1, <2>3, <2>4 DEF InSequence
  <2> QED
    BY <2>1, <2>3, <2>5
<1> QED
  BY <1>2, <1>3

\* A chunk that is appended.
LEMMA ChunkStep == ASSUME IInv, NEW r \in Requests, Chunk(r) PROVE IInv'
<1>1. r \in Chunks /\ r.id \in Ids /\ r.total \in 2..MaxChunks /\ r.idx \in Nat /\ r.total \in Nat
      /\ r.idx + 1 < r.total /\ r = [id |-> r.id, idx |-> r.idx, total |-> r.total]
  BY RequestIsChunk, TransmitAssumption DEF Chunk, Chunks
<1> DEFINE t == Transfer(r.id, r.idx + 1, r.total)
<1>2. Append(Transfer(r.id, r.idx, r.total), r) = t
  <2>1. r.idx \in 0..(r.total - 1)
    BY <1>1
  <2> QED
    BY <1>1, <2>1, TransferGrows
<1>3. Begun(r) = [id |-> r.id, expected |-> r.total, pieces |-> Transfer(r.id, r.idx, r.total)]
  BY <1>1, Continues DEF Chunk
<1>4. ctx' = [id |-> r.id, expected |-> r.total, pieces |-> t]
  <2>1. PICK b : b = Begun(r)
    OBVIOUS
  <2>2. ctx' = [b EXCEPT !.pieces = Append(b.pieces, r)]
    BY <2>1 DEF Chunk
  <2>3. b = [id |-> r.id, expected |-> r.total, pieces |-> Transfer(r.id, r.idx, r.total)]
    BY <1>3, <2>1
  <2>4. Append(b.pieces, r) = t
    BY <1>2, <2>3
  <2> HIDE DEF t
  <2> QED
    BY <2>2, <2>3, <2>4
<1>5. Assembly'
  <2>1. r.idx + 1 \in 1..(r.total - 1)
    BY <1>1
  <2> QED
    BY <1>1, <1>4, <2>1 DEF Assembly
<1>6. Buffered(ctx') = 1
  <2>1. r.idx + 1 \in 0..r.total /\ r.idx + 1 # 0
    BY <1>1
  <2>2. t # <<>>
    BY <1>1, <2>1, TransferType
  <2> QED
    BY <1>4, <2>2 DEF Buffered
<1>7. ToldType'
  BY Answered, RequestIsChunk DEF Chunk
<1>8. heap' \in Int /\ heap' - heap = Buffered(ctx') - Buffered(ctx)
  BY <1>6, HeldValues DEF Chunk, IInv, TypeOK
<1> QED
  BY <1>5, <1>7, <1>8, Stays DEF Chunk

\* A task that begins a call keeps the invariant; a TCP task brings its buffer.
LEMMA Starts ==
  ASSUME IInv, NEW w \in Senders, NEW j \in Calls, job' = [job EXCEPT ![w] = j],
         job[w].at = "idle", j.at \in {"copy", "take"}, j.data # <<>>, ~j.copied,
         j.how = "none", w \in Net => j.at # "copy",
         UNCHANGED <<told, lineVars>>, Assembly', msgs' \in 0..MaxMsgs, heap' \in Int,
         heap' - heap = Buffered(ctx') - Buffered(ctx) + msgs' - msgs
                          + (IF w \in Net THEN 0 ELSE 1)
  PROVE  IInv'
<1>1. job'[w] = j /\ lock # w
  BY DEF IInv, TypeOK
<1>2. Call(w)'
  BY <1>1 DEF Call
<1>3. BuffersAreFreed'
  <2>1. Held(j) = 1 /\ Held(job[w]) = 0
    BY HeldValues DEF IInv, Call
  <2>2. heap \in Int /\ msgs \in Int /\ msgs' \in Nat /\ Buffered(ctx) \in Int
        /\ Buffered(ctx') \in Int
    BY HeldValues, TransmitAssumption DEF IInv, TypeOK
  <2>3. w \in Net => heap' - heap = Buffered(ctx') - Buffered(ctx) + msgs' - msgs
    BY <2>2
  <2>4. w \notin Net => heap' - heap = Buffered(ctx') - Buffered(ctx) + msgs' - msgs
                                         + Held(j) - Held(job[w])
    BY <2>1, <2>2
  <2> QED
    BY <2>2, <2>3, <2>4, Accounts
<1> QED
  BY <1>1, <1>2, <1>3, Moves DEF IInv, TypeOK, lineVars, ToldType

\* The call record at its beginning.
LEMMA NewCall ==
  ASSUME NEW step \in {"copy", "take"}, NEW d \in Data
  PROVE  /\ Job(step, d) \in Calls /\ Job(step, d).at = step /\ Job(step, d).data = d
         /\ ~Job(step, d).copied /\ Job(step, d).how = "none"
  BY DEF Job, NoJob, Calls, Steps

\* What a call is given is data.
LEMMA WholeData ==
  /\ \A w \in Senders : <<Whole(w)>> \in Data /\ <<Whole(w)>> # <<>>
  /\ \A i \in Ids, n \in 2..MaxChunks : Transfer(i, n, n) \in Data /\ Transfer(i, n, n) # <<>>
<1>1. ASSUME NEW i \in Ids, NEW n \in 2..MaxChunks
      PROVE  Transfer(i, n, n) # <<>>
  <2>1. n \in 0..n /\ n # 0
    BY TransmitAssumption
  <2> QED
    BY <2>1, TransferType
<1> QED
  BY <1>1 DEF Data

\* A request that is sent at once.
LEMMA SingleStep == ASSUME IInv, NEW r \in Requests, Single(r) PROVE IInv'
<1>1. r = Whole("httpd") /\ "httpd" \in Senders \ Net
  BY TransmitAssumption DEF Single, Requests, Chunks, Chunked, Senders
<1>2. PICK j : j = Job("copy", <<r>>)
  OBVIOUS
<1>3. j \in Calls /\ j.at = "copy" /\ j.data # <<>> /\ ~j.copied /\ j.how = "none"
  BY <1>1, <1>2, NewCall, WholeData
<1>4. /\ job["httpd"].at = "idle" /\ job' = [job EXCEPT !["httpd"] = j] /\ heap' = heap + 1
      /\ UNCHANGED <<ctx, told, lineVars, msgs>>
  BY <1>2 DEF Single, At
<1>5. Assembly' /\ msgs' \in 0..MaxMsgs
  BY <1>4 DEF IInv, TypeOK, Assembly
<1>6. heap' \in Int /\ heap' - heap = Buffered(ctx') - Buffered(ctx) + msgs' - msgs + 1
  BY <1>4, HeldValues, TransmitAssumption DEF IInv, TypeOK
<1> QED
  BY <1>1, <1>3, <1>4, <1>5, <1>6, Starts

\* The last chunk, which sends the transfer.
LEMMA LastChunkStep == ASSUME IInv, NEW r \in Requests, LastChunk(r) PROVE IInv'
<1>1. r \in Chunks /\ r.id \in Ids /\ r.total \in 2..MaxChunks /\ r.idx \in Nat /\ r.total \in Nat
      /\ r.idx + 1 = r.total /\ r.idx # 0 /\ r = [id |-> r.id, idx |-> r.idx, total |-> r.total]
  BY RequestIsChunk, TransmitAssumption DEF LastChunk, Chunks
<1>2. ctx = [id |-> r.id, expected |-> r.total, pieces |-> Transfer(r.id, r.idx, r.total)]
  BY <1>1, Continues DEF LastChunk
<1>3. Append(ctx.pieces, r) = Transfer(r.id, r.total, r.total)
  <2>1. r.idx \in 0..(r.total - 1)
    BY <1>1
  <2> QED
    BY <1>1, <1>2, <2>1, TransferGrows
<1>4. Buffered(ctx) = 1 /\ ctx' = NoCtx /\ Buffered(ctx') = 0
  <2>1. r.idx \in 0..r.total
    BY <1>1
  <2>2. Transfer(r.id, r.idx, r.total) # <<>>
    BY <1>1, <2>1, TransferType
  <2> QED
    BY <1>2, <2>2 DEF Buffered, LastChunk, NoCtx
<1>5. PICK j : j = Job("copy", Transfer(r.id, r.total, r.total))
  OBVIOUS
<1>6. j \in Calls /\ j.at = "copy" /\ j.data # <<>> /\ ~j.copied /\ j.how = "none"
  BY <1>1, <1>5, NewCall, WholeData
<1>7. /\ job["httpd"].at = "idle" /\ job' = [job EXCEPT !["httpd"] = j]
      /\ UNCHANGED <<told, lineVars, heap, msgs>>
  BY <1>3, <1>5 DEF LastChunk, At
<1>8. Assembly' /\ msgs' \in 0..MaxMsgs /\ "httpd" \in Senders \ Net
  BY <1>4, <1>7, TransmitAssumption DEF IInv, TypeOK, Assembly, Senders
<1>9. heap' \in Int /\ heap' - heap = Buffered(ctx') - Buffered(ctx) + msgs' - msgs + 1
  BY <1>4, <1>7, TransmitAssumption DEF IInv, TypeOK
<1> QED
  BY <1>6, <1>7, <1>8, <1>9, Starts

\* Data of a TCP task.
LEMMA TcpDataStep == ASSUME IInv, NEW w \in Net, TcpData(w) PROVE IInv'
<1>1. w \in Senders
  BY DEF Senders
<1>2. PICK j : j = Job("take", <<Whole(w)>>)
  OBVIOUS
<1>3. j \in Calls /\ j.at = "take" /\ j.data # <<>> /\ ~j.copied /\ j.how = "none"
  BY <1>1, <1>2, NewCall, WholeData
<1>4. /\ job[w].at = "idle" /\ job' = [job EXCEPT ![w] = j]
      /\ UNCHANGED <<ctx, told, lineVars, heap, msgs>>
  BY <1>2 DEF TcpData, At
<1>5. Assembly' /\ msgs' \in 0..MaxMsgs
  BY <1>4 DEF IInv, TypeOK, Assembly
<1>6. heap' \in Int /\ heap' - heap = Buffered(ctx') - Buffered(ctx) + msgs' - msgs + 0
  BY <1>4, HeldValues, TransmitAssumption DEF IInv, TypeOK
<1> QED
  BY <1>1, <1>3, <1>4, <1>5, <1>6, Starts

\* A message of MQTT, which loses a buffer.
LEMMA MqttDataStep == ASSUME IInv, MqttData PROVE IInv'
<1>1. "mqtt" \in Senders \ Net
  BY TransmitAssumption DEF Senders
<1>2. PICK j : j = Job("copy", <<Whole("mqtt")>>)
  OBVIOUS
<1>3. j \in Calls /\ j.at = "copy" /\ j.data # <<>> /\ ~j.copied /\ j.how = "none"
  BY <1>1, <1>2, NewCall, WholeData
<1>4. /\ job["mqtt"].at = "idle" /\ job' = [job EXCEPT !["mqtt"] = j]
      /\ heap' = heap + 2 /\ msgs' = msgs + 1
      /\ UNCHANGED <<ctx, told, lineVars>>
  BY <1>2 DEF MqttData, At
<1>5. Assembly' /\ msgs' \in 0..MaxMsgs
  BY <1>4, TransmitAssumption DEF IInv, TypeOK, Assembly, MqttData
<1>6. heap' \in Int /\ heap' - heap = Buffered(ctx') - Buffered(ctx) + msgs' - msgs + 1
  BY <1>4, HeldValues, TransmitAssumption DEF IInv, TypeOK
<1> QED
  BY <1>1, <1>3, <1>4, <1>5, <1>6, Starts

\* uart_reinit takes the line and gives it back.
LEMMA ReinitStep == ASSUME IInv, Reinit \/ Configured PROVE IInv'
<1>1. "httpd" \in Senders \ Net /\ job["httpd"] \in Calls /\ "none" \notin Senders
  BY TransmitAssumption DEF IInv, TypeOK, Senders
<1>2. UNCHANGED <<ctx, told, de, starved, slow, heap, msgs>>
  BY DEF Reinit, Configured
<1>3. PICK j : /\ j \in Calls /\ ~j.copied /\ j.how = "none" /\ j.at \in {"idle", "reinit"}
               /\ job' = [job EXCEPT !["httpd"] = j]
               /\ j.at = "reinit" <=> lock' = "httpd"
  <2>1. CASE Reinit
    <3>1. PICK j : j = [job["httpd"] EXCEPT !.at = "reinit"]
      OBVIOUS
    <3>2. job["httpd"].at = "idle" /\ ~job["httpd"].copied /\ job["httpd"].how = "none"
      BY <1>1, <2>1 DEF Reinit, At, IInv, Call
    <3>3. j \in Calls /\ ~j.copied /\ j.how = "none" /\ j.at = "reinit"
      BY <1>1, <3>1, <3>2 DEF Calls, Steps
    <3> QED
      BY <2>1, <3>1, <3>3 DEF Reinit, Goes
  <2>2. CASE Configured
    <3>1. NoJob \in Calls /\ ~NoJob.copied /\ NoJob.how = "none" /\ NoJob.at = "idle"
      BY DEF NoJob, Calls, Steps, Data
    <3> QED
      BY <1>1, <2>2, <3>1 DEF Configured
  <2> QED
    BY <2>1, <2>2
<1>4. \A v \in Senders : job'[v] = IF v = "httpd" THEN j ELSE job[v]
  BY <1>3 DEF IInv, TypeOK
<1>5. /\ lock \in {"none", "httpd"} /\ lock' \in {"none", "httpd"}
      /\ driver' \in BOOLEAN
  BY DEF Reinit, Configured, At, IInv, TypeOK, Senders
<1>6. Call("httpd")'
  BY <1>1, <1>3, <1>4 DEF Call
<1>7. Held(j) = 0 /\ Held(job["httpd"]) = 0
  BY <1>1, <1>3, HeldValues DEF IInv, Call, Reinit, Configured, At
<1>8. BuffersAreFreed'
  <2>1. /\ heap \in Int /\ heap' \in Int /\ msgs \in Nat /\ msgs' \in Nat
        /\ Buffered(ctx) \in Int /\ Buffered(ctx') = Buffered(ctx)
    BY <1>2, HeldValues, TransmitAssumption DEF IInv, TypeOK
  <2>2. heap' - heap = Buffered(ctx') - Buffered(ctx) + msgs' - msgs + Held(j) - Held(job["httpd"])
    BY <1>2, <1>7, <2>1
  <2> QED
    BY <1>1, <1>3, <2>1, <2>2, Accounts
<1>9. Assembly' /\ ToldType' /\ msgs' \in 0..MaxMsgs /\ de' \in BOOLEAN /\ starved' \in BOOLEAN
  BY <1>2 DEF IInv, TypeOK, Assembly, ToldType
<1>10. \A v \in Senders \ {"httpd"} : lock' = v <=> lock = v
  BY <1>1, <1>5
<1> QED
  BY <1>1, <1>2, <1>3, <1>5, <1>6, <1>8, <1>9, <1>10, Moves

-----------------------------------------------------------------------------
(* The theorems.                                                              *)

\* The invariant is about the variables alone.
LEMMA StutterIInv == IInv /\ UNCHANGED vars => IInv'
  BY DEF IInv, TypeOK, Assembly, BuffersAreFreed, Buffered, Held, Call, vars

\* Every step keeps the invariant.
LEMMA NextIInv == IInv /\ [Next]_vars => IInv'
<1> SUFFICES ASSUME IInv, [Next]_vars PROVE IInv'
  OBVIOUS
<1>1. CASE UNCHANGED vars
  BY <1>1, StutterIInv
<1>2. ASSUME NEW r \in Requests,
             Rejected(r) \/ Single(r) \/ OutOfSequence(r) \/ Chunk(r) \/ LastChunk(r)
      PROVE  IInv'
  BY <1>2, RejectedStep, SingleStep, OutOfSequenceStep, ChunkStep, LastChunkStep
<1>3. ASSUME NEW w \in Net, TcpData(w)
      PROVE  IInv'
  BY <1>3, TcpDataStep
<1>4. CASE MqttData \/ Reinit \/ Configured
  BY <1>4, MqttDataStep, ReinitStep
<1>5. ASSUME NEW w \in Senders, Sends(w)
      PROVE  IInv'
  BY <1>5, CopyStep, TakeStep, TakeTimesOutStep, DriveStep, NoMemoryStep, FinishStep, ReturnStep
  DEF Sends
<1> QED
  BY <1>1, <1>2, <1>3, <1>4, <1>5 DEF Next

\* The invariant holds in every reachable state.
LEMMA Invariance == Spec => []IInv
<1> QED
  BY InitIInv, NextIInv, PTL DEF Spec

\* Every variable keeps its type, and only the holder of uart_mutex is between
\* taking and giving it.
THEOREM TypeCorrect == Spec => []TypeOK
<1>1. IInv => TypeOK
  BY DEF IInv
<1> QED
  BY <1>1, Invariance, PTL

\* What sendData sent is whole data or all the chunks of one transfer in order,
\* and only a slow line cuts the end off.
THEOREM WholeTransfersSent == Spec => []WholeTransfers
<1>1. IInv => WholeTransfers
  <2> SUFFICES ASSUME IInv, NEW w \in Senders
               PROVE  /\ job[w].how = "sent" => Complete(job[w].data)
                      /\ job[w].how = "cut" => slow
    BY DEF WholeTransfers
  <2>1. job[w].data \in Data /\ (job[w].how = "sent" => job[w].data # <<>>)
    BY DEF IInv, TypeOK, Calls, Call
  <2>2. job[w].data # <<>> => Complete(job[w].data)
    BY <2>1, CompleteData DEF Data
  <2> QED
    BY <2>1, <2>2 DEF IInv, Call
<1> QED
  BY <1>1, Invariance, PTL

\* Every buffer of the sending path is freed by whoever must, but for the copy
\* that MQTT loses.
THEOREM BuffersCorrect == Spec => []BuffersAreFreed
<1>1. IInv => BuffersAreFreed
  BY DEF IInv
<1> QED
  BY <1>1, Invariance, PTL

\* A step that completes what a page was told is the end of the call that sent
\* all the chunks, or gave them up.
LEMMA AckStep ==
  ASSUME IInv, [Next]_vars, NEW i \in Ids,
         told'[i] # told[i], told'[i].n = told'[i].total, told'[i].n > 0
  PROVE  /\ job["httpd"].data = Transfer(i, told'[i].n, told'[i].n)
         /\ job["httpd"].how # "none"
<1>1. PICK r :
        /\ \/ Answer(r, FALSE)
           \/ Answer(r, TRUE) /\ Chunked(r) /\ r.idx + 1 < r.total
           \/ Answer(r, TRUE) /\ job["httpd"].at = "return"
                /\ r = job["httpd"].data[Len(job["httpd"].data)]
        /\ Chunked(r) => r \in Chunks
  <2>1. ASSUME NEW x \in Requests, Rejected(x) \/ OutOfSequence(x)
        PROVE  Answer(x, FALSE) /\ (Chunked(x) => x \in Chunks)
    BY <2>1, RequestIsChunk DEF Rejected, OutOfSequence
  <2>2. ASSUME NEW x \in Requests, Chunk(x)
        PROVE  Answer(x, TRUE) /\ Chunked(x) /\ x.idx + 1 < x.total /\ (Chunked(x) => x \in Chunks)
    BY <2>2, RequestIsChunk DEF Chunk
  <2>3. ASSUME Return("httpd"), NEW x, x = job["httpd"].data[Len(job["httpd"].data)]
        PROVE  Answer(x, TRUE) /\ job["httpd"].at = "return" /\ (Chunked(x) => x \in Chunks)
    <3>1. job["httpd"].data \in Data /\ job["httpd"].data # <<>> /\ job["httpd"].at = "return"
      BY <2>3 DEF IInv, TypeOK, Call, Calls, Return, At, Senders
    <3>2. Chunked(x) => x \in Chunks
      BY <2>3, <3>1, LastIsChunk
    <3> QED
      BY <2>3, <3>1, <3>2 DEF Return
  <2>4. \/ \E x \in Requests : Rejected(x) \/ OutOfSequence(x)
        \/ \E x \in Requests : Chunk(x)
        \/ Return("httpd")
    BY DEF Next, Sends, Single, LastChunk, TcpData, MqttData, Reinit,
       Configured, Copy, Take, TakeTimesOut, Drive, NoMemory, Finish, Return, vars
  <2> QED
    BY <2>1, <2>2, <2>3, <2>4
<1>2. Chunked(r) /\ r \in Chunks
  BY <1>1 DEF Answer
<1>3. told \in [Ids -> [n : 0..MaxChunks, total : 0..MaxChunks]] /\ r.id \in Ids
  BY <1>2 DEF IInv, TypeOK, Chunks
<1>4. ~Answer(r, FALSE)
  <2> SUFFICES ASSUME Answer(r, FALSE) PROVE FALSE
    OBVIOUS
  <2>1. told' = [told EXCEPT ![r.id] = [n |-> 0, total |-> 0]]
    BY <1>2 DEF Answer, Counted
  <2> QED
    BY <1>3, <2>1
<1>5. PICK t : /\ told' = [told EXCEPT ![r.id] = t]
               /\ \/ r.idx = 0 /\ t = [n |-> 1, total |-> r.total]
                  \/ r.idx # 0 /\ r.idx = told[r.id].n /\ r.total = told[r.id].total
                       /\ t = [n |-> r.idx + 1, total |-> r.total]
                  \/ t = told[r.id]
  BY <1>1, <1>2, <1>4, AnswerCases
<1>6. i = r.id /\ told'[i] = t /\ t # told[r.id]
  BY <1>3, <1>5
<1>7. r.idx \in Nat /\ r.total \in Nat /\ r.total > 1
  BY <1>2, TransmitAssumption DEF Chunks
<1>8. r.idx # 0 /\ t = [n |-> r.idx + 1, total |-> r.total] /\ r.idx + 1 = r.total
  BY <1>5, <1>6, <1>7
<1>9. job["httpd"].at = "return" /\ r = job["httpd"].data[Len(job["httpd"].data)]
  <2>1. ~(r.idx + 1 < r.total)
    BY <1>7, <1>8
  <2> QED
    BY <1>1, <1>4, <2>1, Zenon
<1>10. job["httpd"].data \in Data /\ job["httpd"].data # <<>> /\ job["httpd"].how # "none"
  BY <1>9 DEF IInv, TypeOK, Call, Calls, Senders
<1>11. PICK k \in Ids, n \in 2..MaxChunks :
         job["httpd"].data = Transfer(k, n, n) /\ r = [id |-> k, idx |-> n - 1, total |-> n]
  BY <1>2, <1>9, <1>10, LastOfCall
<1> QED
  BY <1>6, <1>8, <1>10, <1>11

\* A page learns that its transfer is complete only when all of it has been sent
\* or given up.
THEOREM AcksCorrect == Spec => AckedIsSent
<1>1. IInv /\ [Next]_vars =>
        [\A i \in Ids : LET t == told'[i] IN
           t # told[i] /\ t.n = t.total /\ t.n > 0 =>
             /\ job["httpd"].data = Transfer(i, t.n, t.n)
             /\ job["httpd"].how # "none"]_vars
  BY AckStep
<1> QED
  BY <1>1, Invariance, PTL DEF Spec, AckedIsSent
=============================================================================

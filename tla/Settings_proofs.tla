---------------------------- MODULE Settings_proofs ----------------------------
(* Proofs about Settings, for any number of requests, presses and faults.       *)
EXTENDS Settings, SequenceTheorems, TLAPS

-----------------------------------------------------------------------------
(* The inductive invariant.                                                    *)

MainOps == {"boot", "migrate", "defaults", "uart", "run"}
Served  == {"httpd", "udp", "mqtt"}

\* What is stored and what is written has its type, and no write removes a key.
Shape ==
  /\ flash \in [Keys -> Values] /\ seen \in [Keys -> Values]
  /\ job \in [Tasks -> Jobs]
  /\ \A t \in Tasks : \A i \in DOMAIN job[t].todo : job[t].todo[i].val # Missing

\* Only app_main does the work of app_main, and nobody is served before it has
\* started the services.
Roles ==
  /\ \A t \in Tasks : job[t].op \in MainOps <=> t = "main"
  /\ job["reset"].op \in {"none", "restart", "reset"}
  /\ job["reset"].op # "reset" => job["reset"].todo = <<>>
  /\ \A t \in Served : Serving \/ job[t] = Idle

\* A key in the flash is seen as well.
SeenFirst == \A k \in Checked : flash[k] # Missing => seen[k] # Missing

\* Before app_main checks the settings.
Booting ==
  \/ job["main"].op = "migrate"
  \/ job["main"].op = "boot" /\ job["main"].at \in {"init", "migrate", "key"}

\* Until then nothing is half written, and no reset has begun: the key timer
\* starts too late for that.
BootClean == Booting =>
  /\ \A k \in Checked : seen[k] = flash[k]
  /\ job["reset"].op # "reset"
  /\ ~timer \/ At("main", "boot", "key")
  /\ job["main"].op = "migrate" =>
       /\ job["main"].wrote \subseteq {"w_mode"}
       /\ \A i \in DOMAIN job["main"].todo : job["main"].todo[i].key = "w_mode"

\* While app_main writes the defaults with a handle that is still good, every
\* key is in the flash, or written and about to be committed, or still to come.
Stored(k, j) ==
  \/ flash[k] # Missing
  \/ k \in j.wrote /\ seen[k] # Missing
  \/ j.at = "write" /\ \E i \in DOMAIN j.todo : j.todo[i].key = k

Filling ==
  job["main"].op = "defaults" =>
    /\ job["main"].at \in {"write", "commit", "done"}
    /\ job["main"].at # "done" /\ ~job["main"].stale =>
         \A k \in Checked : Stored(k, job["main"])

IInv == Shape /\ Roles /\ SeenFirst /\ BootClean /\ Filling /\ NeverResetAgain

-----------------------------------------------------------------------------
(* Restarts, erases and steps of one task.                                     *)

\* A restart keeps one of the two values of each key and stops every task.
LEMMA RebootStep == ASSUME IInv, Reboot PROVE IInv'
<1>1. PICK lost \in SUBSET Unsaved :
        flash' = [k \in Keys |-> IF k \in lost THEN flash[k] ELSE seen[k]]
  BY DEF Reboot
<1>2. /\ seen' = flash' /\ timer' = FALSE /\ UNCHANGED complete
      /\ job' = [t \in Tasks |-> IF t = "main" THEN Job("boot", "init", <<>>) ELSE Idle]
  BY DEF Reboot
<1>3. Shape'
  <2>1. Job("boot", "init", <<>>) \in Jobs /\ Idle \in Jobs
    BY DEF Jobs, Job, Idle
  <2>2. \A t \in Tasks : job'[t].todo = <<>>
    BY <1>2 DEF Job, Idle
  <2> QED
    BY <1>1, <1>2, <2>1, <2>2 DEF IInv, Shape
<1>4. /\ job'["main"].op = "boot" /\ job'["main"].at = "init"
      /\ \A t \in Tasks \ {"main"} : job'[t] = Idle /\ job'[t].op = "none" /\ job'[t].todo = <<>>
  BY <1>2 DEF Job, Idle, Tasks
<1>5. Roles'
  BY <1>4 DEF Roles, MainOps, Served, Tasks
<1>6. SeenFirst'
  BY <1>2 DEF SeenFirst
<1>7. BootClean'
  BY <1>2, <1>4 DEF BootClean, Tasks
<1>8. Filling'
  BY <1>4 DEF Filling
<1>9. NeverResetAgain'
  BY <1>1, <1>2 DEF IInv, Shape, NeverResetAgain, Keys
<1> QED
  BY <1>3, <1>5, <1>6, <1>7, <1>8, <1>9 DEF IInv

\* An erase leaves nothing, and so nothing that is half written.
LEMMA ErasedNvs ==
  ASSUME IInv, Erased
  PROVE  /\ flash' \in [Keys -> Values] /\ seen' \in [Keys -> Values]
         /\ \A k \in Checked : seen'[k] = flash'[k]
         /\ SeenFirst' /\ NeverResetAgain'
  BY DEF Erased, Blank, SeenFirst, NeverResetAgain, Keys, Values

\* A task other than app_main goes on or begins, and the settings stay.
LEMMA JobStep ==
  ASSUME IInv, NEW t \in Tasks \ {"main"}, NEW j \in Jobs,
         job' = [job EXCEPT ![t] = j], UNCHANGED <<flash, seen, complete, timer>>,
         \A i \in DOMAIN j.todo : j.todo[i].val # Missing, j.op \notin MainOps,
         t = "reset" => j.op \in {"none", "restart", "reset"},
         t = "reset" => IF j.op = "reset" THEN ~Booting ELSE j.todo = <<>>,
         t \in Served => Serving \/ j = Idle
  PROVE  IInv'
<1>1. job'[t] = j /\ \A u \in Tasks \ {t} : job'[u] = job[u]
  BY DEF IInv, Shape
<1>2. "main" \in Tasks \ {t} /\ "reset" \in Tasks /\ job'["main"] = job["main"]
  BY <1>1 DEF Tasks
<1>3. Serving' = Serving /\ Booting' = Booting
  BY <1>2 DEF Serving, At, Booting
<1>4. Shape'
  BY <1>1 DEF IInv, Shape
<1>5. Roles'
  <2>1. \A u \in Tasks : job'[u].op \in MainOps <=> u = "main"
    BY <1>1 DEF IInv, Roles
  <2>2. /\ job'["reset"].op \in {"none", "restart", "reset"}
        /\ job'["reset"].op # "reset" => job'["reset"].todo = <<>>
    BY <1>1, <1>2 DEF IInv, Roles
  <2>3. \A u \in Served : Serving \/ job'[u] = Idle
    BY <1>1 DEF IInv, Roles, Served, Tasks
  <2> QED
    BY <1>3, <2>1, <2>2, <2>3 DEF Roles
<1>6. BootClean'
  BY <1>1, <1>2, <1>3 DEF IInv, BootClean, At
<1>7. Filling'
  BY <1>2 DEF IInv, Filling, Stored
<1>8. SeenFirst' /\ NeverResetAgain'
  BY DEF IInv, SeenFirst, NeverResetAgain
<1> QED
  BY <1>4, <1>5, <1>6, <1>7, <1>8 DEF IInv

\* app_main goes on, and the settings stay.
LEMMA MainStays ==
  ASSUME IInv, NEW j \in Jobs,
         job' = [job EXCEPT !["main"] = j], UNCHANGED <<flash, seen, complete>>,
         \A i \in DOMAIN j.todo : j.todo[i].val # Missing, j.op \in MainOps,
         Serving => Serving', BootClean', Filling'
  PROVE  IInv'
<1>1. job'["main"] = j /\ \A u \in Tasks \ {"main"} : job'[u] = job[u]
  BY DEF IInv, Shape, Tasks
<1>2. Shape'
  BY <1>1 DEF IInv, Shape
<1>3. Roles'
  BY <1>1 DEF IInv, Roles, Served, Tasks
<1>4. SeenFirst' /\ NeverResetAgain'
  BY DEF IInv, SeenFirst, NeverResetAgain
<1> QED
  BY <1>2, <1>3, <1>4 DEF IInv

\* Nothing that the invariant is about changes.
LEMMA Quiet ==
  ASSUME IInv, UNCHANGED <<flash, seen, complete, timer, job>> PROVE IInv'
  BY DEF IInv, Shape, Roles, Serving, At, SeenFirst, BootClean, Booting, Filling, Stored,
         NeverResetAgain

-----------------------------------------------------------------------------
(* The steps that every job is made of.                                        *)

\* The next write of a job, and what remains of it.
LEMMA NextWrite ==
  ASSUME Shape, NEW t \in Tasks, job[t].todo # <<>>
  PROVE  /\ Next1(t) \in [key : Keys, val : Values] /\ Next1(t).val # Missing
         /\ 1 \in DOMAIN job[t].todo /\ Next1(t) = job[t].todo[1]
         /\ Tail(job[t].todo) \in Seq([key : Keys, val : Values])
         /\ \A i \in DOMAIN Tail(job[t].todo) :
              i + 1 \in DOMAIN job[t].todo /\ Tail(job[t].todo)[i] = job[t].todo[i + 1]
         /\ \A i \in DOMAIN job[t].todo \ {1} :
              i - 1 \in DOMAIN Tail(job[t].todo) /\ Tail(job[t].todo)[i - 1] = job[t].todo[i]
<1> DEFINE q == job[t].todo
           S == [key : Keys, val : Values]
<1>1. q \in Seq(S) /\ \A i \in DOMAIN q : q[i].val # Missing
  BY DEF Shape, Jobs
<1> HIDE DEF q, S
<1>2. q # <<>>
  BY DEF q
<1>3. /\ Head(q) \in S /\ Head(q) = q[1] /\ DOMAIN q = 1..Len(q) /\ Len(q) \in Nat \ {0}
      /\ Tail(q) \in Seq(S) /\ DOMAIN Tail(q) = 1..(Len(q) - 1)
      /\ \A i \in 1..(Len(q) - 1) : Tail(q)[i] = q[i + 1]
  BY <1>1, <1>2, HeadTailProperties
<1>4. /\ \A i \in DOMAIN Tail(q) : i + 1 \in DOMAIN q /\ Tail(q)[i] = q[i + 1]
      /\ \A i \in DOMAIN q \ {1} : i - 1 \in DOMAIN Tail(q) /\ Tail(q)[i - 1] = q[i]
  BY <1>3
<1>5. 1 \in DOMAIN q
  BY <1>3
<1> QED
  BY <1>1, <1>3, <1>4, <1>5 DEF q, S, Next1

\* One nvs_set_str.
LEMMA SetStep == ASSUME IInv, NEW t \in Tasks, Set(t) PROVE IInv'
<1> DEFINE e == Next1(t)
           j == [job[t] EXCEPT !.todo = Tail(@), !.wrote = @ \cup {e.key}]
<1>1. /\ job[t].at = "write" /\ job[t].todo # <<>> /\ ~job[t].stale
      /\ seen' = [seen EXCEPT ![e.key] = e.val] /\ job' = [job EXCEPT ![t] = j]
      /\ UNCHANGED <<flash, timer, complete>>
  BY DEF Set, keyVars, IInv, Shape
<1>2. /\ e \in [key : Keys, val : Values] /\ e.val # Missing
      /\ 1 \in DOMAIN job[t].todo /\ e = job[t].todo[1]
      /\ Tail(job[t].todo) \in Seq([key : Keys, val : Values])
      /\ \A i \in DOMAIN Tail(job[t].todo) :
           i + 1 \in DOMAIN job[t].todo /\ Tail(job[t].todo)[i] = job[t].todo[i + 1]
      /\ \A i \in DOMAIN job[t].todo \ {1} :
           i - 1 \in DOMAIN Tail(job[t].todo) /\ Tail(job[t].todo)[i - 1] = job[t].todo[i]
  BY <1>1, NextWrite DEF IInv
<1> HIDE DEF e
<1>3. /\ j \in Jobs /\ j.op = job[t].op /\ j.at = "write" /\ j.stale = job[t].stale
      /\ j.todo = Tail(job[t].todo) /\ j.wrote = job[t].wrote \cup {e.key}
  BY <1>1, <1>2 DEF IInv, Shape, Jobs
<1> HIDE DEF j
<1>4. job'[t] = j /\ \A u \in Tasks \ {t} : job'[u] = job[u]
  BY <1>1 DEF IInv, Shape
<1>5. seen'[e.key] # Missing /\ \A k \in Keys \ {e.key} : seen'[k] = seen[k]
  BY <1>1, <1>2 DEF IInv, Shape
<1>6. Shape'
  <2>1. seen' \in [Keys -> Values] /\ flash' \in [Keys -> Values]
    BY <1>1, <1>2 DEF IInv, Shape
  <2>2. job' \in [Tasks -> Jobs]
    BY <1>1, <1>3 DEF IInv, Shape
  <2>3. \A i \in DOMAIN j.todo : j.todo[i].val # Missing
    BY <1>2, <1>3 DEF IInv, Shape
  <2> QED
    BY <1>4, <2>1, <2>2, <2>3 DEF IInv, Shape
<1>7. job'["main"].op = job["main"].op /\ job'["main"].at = job["main"].at
  BY <1>1, <1>3, <1>4 DEF Tasks
<1>8. Serving' = Serving /\ Booting' = Booting
  BY <1>7 DEF Serving, At, Booting
<1>9. job[t] # Idle /\ (t = "reset" => job[t].op = "reset")
  BY <1>1 DEF IInv, Roles, Idle, Job
<1>10. Roles'
  <2>1. \A u \in Tasks : job'[u].op = job[u].op
    BY <1>3, <1>4
  <2>2. \A u \in Served : Serving' \/ job'[u] = Idle
    BY <1>4, <1>8, <1>9 DEF IInv, Roles, Served, Tasks
  <2>3. job'["reset"].op # "reset" => job'["reset"].todo = <<>>
    BY <1>4, <1>9, <2>1 DEF IInv, Roles, Tasks
  <2> QED
    BY <2>1, <2>2, <2>3 DEF IInv, Roles, Tasks
<1>11. SeenFirst' /\ NeverResetAgain'
  BY <1>1, <1>5 DEF IInv, SeenFirst, NeverResetAgain, Keys
<1>12. BootClean'
  <2> SUFFICES ASSUME Booting PROVE BootClean'
    BY <1>8 DEF BootClean
  <2>1. t = "main"
    BY <1>9 DEF IInv, Roles, BootClean, Served, Tasks, Serving, At, Booting
  <2>2. job["main"].op = "migrate"
    BY <1>1, <2>1 DEF Booting
  <2>3. e.key = "w_mode"
    BY <1>2, <2>1, <2>2 DEF IInv, BootClean
  <2>4. \A k \in Checked : seen'[k] = flash'[k]
    BY <1>1, <1>5, <2>3 DEF IInv, BootClean, Checked, Keys
  <2>5. j.wrote \subseteq {"w_mode"} /\ \A i \in DOMAIN j.todo : j.todo[i].key = "w_mode"
    BY <1>2, <1>3, <2>1, <2>2, <2>3 DEF IInv, BootClean
  <2> QED
    BY <1>1, <1>4, <1>7, <2>1, <2>4, <2>5 DEF IInv, BootClean, At, Tasks
<1>13. Filling'
  <2> SUFFICES ASSUME job["main"].op = "defaults", job["main"].at # "done", ~job'["main"].stale,
                      NEW k \in Checked
               PROVE  Stored(k, job["main"])'
    BY <1>7 DEF IInv, Filling
  <2>1. ~job["main"].stale
    BY <1>3, <1>4 DEF Tasks
  <2>2. Stored(k, job["main"]) /\ k \in Keys
    BY <2>1 DEF IInv, Filling, Keys
  <2>3. seen[k] # Missing => seen'[k] # Missing
    BY <1>5, <2>2
  <2>4. CASE t # "main"
    <3>1. job'["main"] = job["main"]
      BY <1>4, <2>4 DEF Tasks
    <3> QED
      BY <1>1, <2>2, <2>3, <3>1 DEF Stored
  <2>5. CASE t = "main"
    <3>1. ASSUME NEW i \in DOMAIN job[t].todo, job[t].todo[i].key = k
          PROVE  (k \in j.wrote /\ seen'[k] # Missing) \/ \E m \in DOMAIN j.todo : j.todo[m].key = k
      <4>1. CASE i = 1
        BY <1>2, <1>3, <1>5, <3>1, <4>1
      <4>2. CASE i # 1
        <5>1. i - 1 \in DOMAIN j.todo /\ j.todo[i - 1].key = k
          BY <1>2, <1>3, <3>1, <4>2
        <5> QED
          BY <5>1
      <4> QED
        BY <4>1, <4>2
    <3>2. flash'[k] # Missing \/ (k \in j.wrote /\ seen'[k] # Missing)
          \/ \E m \in DOMAIN j.todo : j.todo[m].key = k
      BY <1>1, <1>3, <2>2, <2>3, <2>5, <3>1 DEF Stored
    <3> QED
      BY <1>3, <1>4, <2>5, <3>2 DEF Stored
  <2> QED
    BY <2>4, <2>5
<1> QED
  BY <1>6, <1>10, <1>11, <1>12, <1>13 DEF IInv

\* nvs_commit.
LEMMA CommitStep == ASSUME IInv, NEW t \in Tasks, Commit(t) PROVE IInv'
<1> DEFINE j == [job[t] EXCEPT !.at = "done"]
<1>1. /\ job[t].at = "commit" /\ ~job[t].stale
      /\ flash' = [k \in Keys |-> IF k \in job[t].wrote THEN seen[k] ELSE flash[k]]
      /\ complete' = (complete \/ job[t].op = "defaults")
      /\ job' = [job EXCEPT ![t] = j] /\ UNCHANGED <<seen, timer>>
  BY DEF Commit, Goes, keyVars, IInv, Shape
<1>2. /\ j \in Jobs /\ j.op = job[t].op /\ j.at = "done" /\ j.stale = job[t].stale
      /\ j.todo = job[t].todo /\ j.wrote = job[t].wrote
  BY DEF IInv, Shape, Jobs
<1> HIDE DEF j
<1>3. job'[t] = j /\ \A u \in Tasks \ {t} : job'[u] = job[u]
  BY <1>1 DEF IInv, Shape
<1>4. \A k \in Keys : flash'[k] \in {flash[k], seen[k]} /\ flash'[k] \in Values
  BY <1>1 DEF IInv, Shape
<1>5. Shape'
  <2>1. flash' \in [Keys -> Values] /\ job' \in [Tasks -> Jobs]
    BY <1>1, <1>2, <1>4 DEF IInv, Shape
  <2> QED
    BY <1>1, <1>2, <1>3, <2>1 DEF IInv, Shape
<1>6. job'["main"].op = job["main"].op
      /\ (t # "main" => job'["main"] = job["main"]) /\ job["main"].op \in MainOps
  BY <1>2, <1>3 DEF IInv, Roles, Tasks
<1>7. Serving' = Serving /\ Booting' = Booting
  <2>1. CASE t = "main"
    BY <1>1, <1>2, <1>3, <2>1 DEF Serving, At, Booting
  <2>2. CASE t # "main"
    BY <1>6, <2>2 DEF Serving, At, Booting
  <2> QED
    BY <2>1, <2>2
<1>8. job[t] # Idle
  BY <1>1 DEF Idle, Job
<1>9. Roles'
  <2>1. \A u \in Tasks : job'[u].op = job[u].op /\ job'[u].todo = job[u].todo
    BY <1>2, <1>3
  <2>2. \A u \in Served : Serving' \/ job'[u] = Idle
    BY <1>3, <1>7, <1>8 DEF IInv, Roles, Served, Tasks
  <2> QED
    BY <2>1, <2>2 DEF IInv, Roles, Tasks
<1>10. SeenFirst'
  BY <1>1, <1>4 DEF IInv, SeenFirst, Keys
<1>11. BootClean'
  <2> SUFFICES ASSUME Booting PROVE BootClean'
    BY <1>7 DEF BootClean
  <2>1. \A k \in Checked : seen'[k] = flash'[k]
    BY <1>1, <1>4 DEF IInv, BootClean, Keys
  <2>2. At("main", "boot", "key") => At("main", "boot", "key")'
    BY <1>1, <1>3 DEF At, Tasks
  <2>3. \A u \in Tasks : job'[u].op = job[u].op /\ job'[u].todo = job[u].todo
                         /\ job'[u].wrote = job[u].wrote
    BY <1>2, <1>3
  <2> QED
    BY <1>1, <2>1, <2>2, <2>3 DEF IInv, BootClean, Tasks
<1>12. Filling'
  <2>1. CASE t = "main"
    BY <1>2, <1>3, <2>1 DEF IInv, Filling
  <2>2. CASE t # "main"
    <3>1. \A k \in Checked : flash[k] # Missing => flash'[k] # Missing
      BY <1>4 DEF IInv, SeenFirst, Keys
    <3> QED
      BY <1>1, <1>6, <2>2, <3>1 DEF IInv, Filling, Stored
  <2> QED
    BY <2>1, <2>2
<1>13. NeverResetAgain'
  <2> SUFFICES ASSUME complete', NEW k \in Checked PROVE flash'[k] # Missing /\ seen'[k] # Missing
    BY DEF NeverResetAgain
  <2>1. k \in Keys
    BY DEF Keys
  <2>2. CASE complete
    BY <1>1, <1>4, <2>1, <2>2 DEF IInv, NeverResetAgain
  <2>3. CASE job[t].op = "defaults"
    <3>1. t = "main"
      BY <2>3 DEF IInv, Roles, MainOps
    <3>2. Stored(k, job[t])
      BY <1>1, <2>3, <3>1 DEF IInv, Filling
    <3> QED
      BY <1>1, <1>4, <2>1, <3>2 DEF IInv, SeenFirst, Stored
  <2> QED
    BY <1>1, <2>2, <2>3
<1> QED
  BY <1>5, <1>9, <1>10, <1>11, <1>12, <1>13 DEF IInv

-----------------------------------------------------------------------------
(* The other steps of a job.                                                   *)

\* What a job writes: no write removes a key.
Writes == [key : Keys, val : Values \ {Missing}]

\* A task other than app_main goes on with its job.
LEMMA OwnStep ==
  ASSUME IInv, NEW t \in Tasks \ {"main"}, NEW j \in Jobs,
         job' = [job EXCEPT ![t] = j], UNCHANGED <<flash, seen, complete, timer>>,
         \A i \in DOMAIN j.todo : j.todo[i].val # Missing,
         j.op = job[t].op, job[t] # Idle,
         t = "reset" /\ j.op # "reset" => j.todo = <<>>
  PROVE  IInv'
<1>1. j.op \notin MainOps /\ (t = "reset" => j.op \in {"none", "restart", "reset"})
  BY DEF IInv, Roles, Tasks
<1>2. t = "reset" => IF j.op = "reset" THEN ~Booting ELSE j.todo = <<>>
  BY DEF IInv, BootClean
<1>3. t \in Served => Serving \/ j = Idle
  BY DEF IInv, Roles
<1> QED
  BY <1>1, <1>2, <1>3, JobStep

\* It goes to another step of its job.
LEMMA GoesStep ==
  ASSUME IInv, NEW t \in Tasks \ {"main"}, NEW at, Goes(t, at), job[t].at # "idle",
         at \in {"write", "commit", "done", "validate", "restart"},
         UNCHANGED <<flash, seen, complete, timer>>
  PROVE  IInv'
<1> DEFINE j == [job[t] EXCEPT !.at = at]
<1>1. job' = [job EXCEPT ![t] = j]
  BY DEF Goes, IInv, Shape
<1>2. j \in Jobs /\ j.op = job[t].op /\ j.todo = job[t].todo
  BY DEF IInv, Shape, Jobs
<1> HIDE DEF j
<1>3. job[t] # Idle
  BY DEF Idle, Job
<1>4. \A i \in DOMAIN j.todo : j.todo[i].val # Missing
  BY <1>2 DEF IInv, Shape
<1>5. t = "reset" /\ j.op # "reset" => j.todo = <<>>
  BY <1>2 DEF IInv, Roles
<1> QED
  BY <1>1, <1>2, <1>3, <1>4, <1>5, OwnStep

\* It is done.
LEMMA EndStep ==
  ASSUME IInv, NEW t \in Tasks \ {"main"}, job' = [job EXCEPT ![t] = Idle],
         UNCHANGED <<flash, seen, complete, timer>>
  PROVE  IInv'
<1>1. Idle \in Jobs /\ Idle.todo = <<>> /\ Idle.op = "none"
  BY DEF Idle, Job, Jobs
<1>2. Idle.op \notin MainOps
  BY <1>1 DEF MainOps
<1>3. \A i \in DOMAIN Idle.todo : Idle.todo[i].val # Missing
  BY <1>1
<1> QED
  BY <1>1, <1>2, <1>3, JobStep

\* A failed call is skipped: the write is left out, or the commit.
LEMMA FailSkipsStep == ASSUME IInv, NEW t \in Tasks, FailSkips(t) PROVE IInv'
<1>1. /\ job[t].op \in Skips /\ UNCHANGED <<flash, seen, complete, timer>>
      /\ job[t].at = "commit" \/ (job[t].at = "write" /\ job[t].todo # <<>>)
  BY DEF FailSkips, Fails, nvsVars, keyVars
<1>2. CASE job[t].at = "write"
  <2> DEFINE j == [job[t] EXCEPT !.todo = Tail(@)]
  <2>1. /\ job[t].todo # <<>> /\ Tail(job[t].todo) \in Seq([key : Keys, val : Values])
        /\ \A i \in DOMAIN Tail(job[t].todo) :
             i + 1 \in DOMAIN job[t].todo /\ Tail(job[t].todo)[i] = job[t].todo[i + 1]
    BY <1>1, <1>2, NextWrite DEF IInv
  <2>2. job' = [job EXCEPT ![t] = j]
    BY <1>2 DEF FailSkips, IInv, Shape
  <2>3. /\ j \in Jobs /\ j.op = job[t].op /\ j.todo = Tail(job[t].todo)
        /\ j.at = "write" /\ j.wrote = job[t].wrote
    BY <1>2, <2>1 DEF IInv, Shape, Jobs
  <2> HIDE DEF j
  <2>4. \A i \in DOMAIN j.todo : j.todo[i].val # Missing
    BY <2>1, <2>3 DEF IInv, Shape
  <2>5. CASE t # "main"
    <3>1. job[t] # Idle /\ (t = "reset" => j.op = "reset")
      BY <1>2, <2>1, <2>3 DEF IInv, Roles, Idle, Job
    <3> QED
      BY <1>1, <2>2, <2>3, <2>4, <2>5, <3>1, OwnStep
  <2>6. CASE t = "main"
    <3>1. j.op = "migrate" /\ job["main"].op = "migrate" /\ j.op \in MainOps
      BY <1>1, <2>3, <2>6 DEF IInv, Roles, Skips, MainOps
    <3>2. job'["main"] = j /\ job'["reset"] = job["reset"]
      BY <2>2, <2>6 DEF IInv, Shape, Tasks
    <3>3. Booting /\ ~Serving /\ ~At("main", "boot", "key")
      BY <3>1 DEF Booting, Serving, At
    <3>4. BootClean'
      <4>1. /\ \A k \in Checked : seen'[k] = flash'[k]
            /\ job'["reset"].op # "reset" /\ ~timer'
        BY <1>1, <3>2, <3>3 DEF IInv, BootClean
      <4>2. \A i \in DOMAIN j.todo : j.todo[i].key = "w_mode"
        BY <2>1, <2>3, <2>6, <3>1, <3>3 DEF IInv, BootClean
      <4>3. j.wrote \subseteq {"w_mode"}
        BY <2>3, <2>6, <3>1, <3>3 DEF IInv, BootClean
      <4> QED
        BY <3>2, <4>1, <4>2, <4>3 DEF BootClean
    <3>5. Filling'
      BY <3>1, <3>2 DEF Filling
    <3> QED
      BY <1>1, <2>2, <2>3, <2>4, <2>6, <3>1, <3>3, <3>4, <3>5, MainStays
  <2> QED
    BY <2>5, <2>6
<1>3. CASE job[t].at = "commit" /\ job[t].op = "config"
  <2>1. t # "main"
    BY <1>3 DEF IInv, Roles, MainOps
  <2> QED
    BY <1>1, <1>3, <2>1, EndStep DEF FailSkips
<1>4. CASE job[t].at = "commit" /\ job[t].op # "config"
  <2>1. Goes(t, "done")
    BY <1>4 DEF FailSkips
  <2>2. CASE t # "main"
    BY <1>1, <1>4, <2>1, <2>2, GoesStep
  <2>3. CASE t = "main"
    <3> DEFINE j == [job[t] EXCEPT !.at = "done"]
    <3>1. job' = [job EXCEPT !["main"] = j]
      BY <2>1, <2>3 DEF Goes, IInv, Shape
    <3>2. j \in Jobs /\ j.op = job[t].op /\ j.todo = job[t].todo /\ j.wrote = job[t].wrote
      BY DEF IInv, Shape, Jobs
    <3> HIDE DEF j
    <3>3. j.op = "migrate" /\ job["main"].op = "migrate" /\ j.op \in MainOps
      BY <1>1, <2>3, <3>2 DEF IInv, Roles, Skips, MainOps
    <3>4. job'["main"] = j /\ job'["reset"] = job["reset"]
      BY <2>3, <3>1 DEF IInv, Shape, Tasks
    <3>5. Booting /\ ~Serving /\ ~At("main", "boot", "key")
      BY <3>3 DEF Booting, Serving, At
    <3>6. BootClean'
      BY <1>1, <2>3, <3>2, <3>3, <3>4, <3>5 DEF IInv, BootClean
    <3>7. Filling'
      BY <3>3, <3>4 DEF Filling
    <3>8. \A i \in DOMAIN j.todo : j.todo[i].val # Missing
      BY <3>2 DEF IInv, Shape
    <3> QED
      BY <1>1, <3>1, <3>2, <3>3, <3>5, <3>6, <3>7, <3>8, MainStays
  <2> QED
    BY <2>2, <2>3
<1> QED
  BY <1>1, <1>2, <1>3, <1>4

\* The three outcomes of a failed call.
LEMMA FailureStep == ASSUME IInv, NEW t \in Tasks, Failure(t) PROVE IInv'
<1>1. CASE FailAborts(t)
  BY <1>1, RebootStep DEF FailAborts
<1>2. CASE FailSkips(t)
  BY <1>2, FailSkipsStep
<1>3. CASE FailRefuses(t)
  <2>1. t # "main"
    BY <1>3 DEF FailRefuses, Refuses, IInv, Roles, MainOps
  <2> QED
    BY <1>3, <2>1, EndStep DEF FailRefuses, nvsVars, keyVars, ghostVars
<1> QED
  BY <1>1, <1>2, <1>3 DEF Failure

\* After the last write.
LEMMA WrittenStep == ASSUME IInv, NEW t \in Tasks, Written(t) PROVE IInv'
<1>1. /\ job[t].at = "write" /\ job[t].todo = <<>> /\ UNCHANGED <<flash, seen, complete, timer>>
      /\ Goes(t, job'[t].at) /\ job'[t].at \in {"done", "validate", "commit"}
      /\ job[t].op = "defaults" => job'[t].at = "commit"
  BY DEF Written, Goes, nvsVars, keyVars, ghostVars, IInv, Shape, Jobs
<1>2. CASE t # "main"
  BY <1>1, <1>2, GoesStep
<1>3. CASE t = "main"
  <2> DEFINE j == [job[t] EXCEPT !.at = job'[t].at]
  <2>1. job' = [job EXCEPT !["main"] = j]
    BY <1>1, <1>3 DEF Goes, IInv, Shape
  <2>2. /\ j \in Jobs /\ j.op = job[t].op /\ j.todo = job[t].todo /\ j.wrote = job[t].wrote
        /\ j.stale = job[t].stale /\ j.at = job'[t].at
    BY <1>1 DEF IInv, Shape, Jobs
  <2> HIDE DEF j
  <2>3. job'["main"] = j /\ job'["reset"] = job["reset"]
    BY <2>1 DEF IInv, Shape, Tasks
  <2>4. j.op \in MainOps /\ \A i \in DOMAIN j.todo : j.todo[i].val # Missing
    BY <1>3, <2>2 DEF IInv, Roles, Shape
  <2>5. Serving => Serving'
    BY <1>1, <1>3, <2>2, <2>3 DEF Serving, At
  <2>6. BootClean'
    <3> SUFFICES ASSUME Booting' PROVE BootClean'
      BY DEF BootClean
    <3>1. job["main"].op = "migrate" /\ Booting /\ ~At("main", "boot", "key")
      BY <1>1, <1>3, <2>2, <2>3 DEF Booting, At
    <3> QED
      BY <1>1, <1>3, <2>2, <2>3, <3>1 DEF IInv, BootClean
  <2>7. Filling'
    <3>1. DOMAIN job[t].todo = {}
      BY <1>1
    <3> QED
      BY <1>1, <1>3, <2>2, <2>3, <3>1 DEF IInv, Filling, Stored
  <2> QED
    BY <1>1, <2>1, <2>2, <2>4, <2>5, <2>6, <2>7, MainStays
<1> QED
  BY <1>2, <1>3

\* The answer to a request, or the page that is sent.
LEMMA ReplyStep == ASSUME IInv, NEW t \in Tasks, Reply(t) \/ ReplyOnly(t) PROVE IInv'
<1>1. /\ t # "main" /\ job[t].at = "done" /\ UNCHANGED <<flash, seen, complete, timer>>
      /\ Goes(t, "restart") \/ job' = [job EXCEPT ![t] = Idle]
  BY DEF Reply, ReplyOnly, Requests, Pages, Refuses, IInv, Roles, MainOps, nvsVars, keyVars,
         ghostVars
<1>2. CASE Goes(t, "restart")
  BY <1>1, <1>2, GoesStep
<1>3. CASE job' = [job EXCEPT ![t] = Idle]
  BY <1>1, <1>3, EndStep
<1> QED
  BY <1>1, <1>2, <1>3

\* One write that sets a key that is there is a sequence of writes.
LEMMA OneWrite ==
  ASSUME NEW k \in Keys, NEW v \in Values \ {Missing}
  PROVE  Entry(k, v) \in Writes /\ <<Entry(k, v)>> \in Seq(Writes)
<1>1. Entry(k, v) \in Writes
  BY DEF Entry, Writes
<1> QED
  BY <1>1

\* A sequence of writes is fit for a job.
LEMMA WritesFit ==
  ASSUME NEW q \in Seq(Writes)
  PROVE  q \in Seq([key : Keys, val : Values]) /\ \A i \in DOMAIN q : q[i].val # Missing
<1>1. q \in [1..Len(q) -> Writes] /\ Len(q) \in Nat
  OBVIOUS
<1>2. Writes \subseteq [key : Keys, val : Values] /\ \A w \in Writes : w.val # Missing
  BY DEF Writes
<1> HIDE DEF Writes
<1>3. q \in Seq([key : Keys, val : Values])
  BY <1>2, SeqMonotonic
<1> QED
  BY <1>1, <1>2, <1>3

\* What a reset keeps is there.
LEMMA KeptFits == ASSUME IInv, NEW op PROVE KeptBy(op) \in Seq(Writes)
<1>1. ASSUME NEW k \in Keys PROVE Saved(k) \in Seq(Writes)
  <2>1. seen[k] \in Values
    BY <1>1 DEF IInv, Shape
  <2>2. CASE seen[k] = Missing
    BY <2>2 DEF Saved
  <2>3. CASE seen[k] # Missing
    BY <2>1, <2>3, OneWrite DEF Saved
  <2> QED
    BY <2>2, <2>3
<1>2. Saved("device_sn") \in Seq(Writes) /\ Saved("device_type") \in Seq(Writes)
  BY <1>1 DEF Keys, Checked
<1>3. <<>> \in Seq(Writes)
  OBVIOUS
<1>4. (IF op = "reset" THEN Saved("device_type") ELSE <<>>) \in Seq(Writes)
  BY <1>2, <1>3
<1> QED
  BY <1>2, <1>4, ConcatProperties DEF KeptBy

\* A reset reads what it keeps, erases everything and starts NVS again.
LEMMA ResetStep ==
  ASSUME IInv, NEW t \in Tasks, ReadKept(t) \/ EraseAll(t) \/ Reinit(t) PROVE IInv'
<1>1. /\ job[t].op \in {"reset", "restore"} /\ t # "main" /\ job[t] # Idle
      /\ t = "reset" => job[t].op = "reset"
  BY DEF ReadKept, EraseAll, Reinit, IInv, Roles, MainOps, Idle, Job
<1>2. CASE ReadKept(t)
  <2> DEFINE j == [job[t] EXCEPT !.at = "erase", !.todo = KeptBy(job[t].op)]
  <2>1. /\ job' = [job EXCEPT ![t] = j] /\ UNCHANGED <<flash, seen, complete, timer>>
    BY <1>2 DEF ReadKept, IInv, Shape, nvsVars, keyVars
  <2>2. /\ KeptBy(job[t].op) \in Seq([key : Keys, val : Values])
        /\ \A i \in DOMAIN KeptBy(job[t].op) : KeptBy(job[t].op)[i].val # Missing
    BY KeptFits, WritesFit
  <2>3. j \in Jobs /\ j.op = job[t].op /\ j.todo = KeptBy(job[t].op)
    BY <2>2 DEF IInv, Shape, Jobs
  <2> HIDE DEF j
  <2> QED
    BY <1>1, <2>1, <2>2, <2>3, OwnStep
<1>3. CASE Reinit(t)
  <2> DEFINE j == [job[t] EXCEPT !.at = "write", !.stale = FALSE]
  <2>1. /\ job' = [job EXCEPT ![t] = j] /\ UNCHANGED <<flash, seen, complete, timer>>
    BY <1>3 DEF Reinit, IInv, Shape, keyVars, ghostVars
  <2>2. j \in Jobs /\ j.op = job[t].op /\ j.todo = job[t].todo
    BY DEF IInv, Shape, Jobs
  <2> HIDE DEF j
  <2>3. \A i \in DOMAIN j.todo : j.todo[i].val # Missing
    BY <2>2 DEF IInv, Shape
  <2> QED
    BY <1>1, <2>1, <2>2, <2>3, OwnStep
<1>4. CASE EraseAll(t)
  <2>1. Erased /\ UNCHANGED timer /\ job' = [Stale(t) EXCEPT ![t].at = "reinit"]
    BY <1>4 DEF EraseAll, keyVars
  <2>2. ~Booting /\ job["main"] # Idle /\ "main" \in Tasks /\ "reset" \in Tasks
    <3>1. t \in Served => Serving
      BY <1>1 DEF IInv, Roles
    <3> QED
      BY <1>1, <3>1 DEF IInv, BootClean, Roles, MainOps, Tasks, Served, Serving, At, Booting,
                        Idle, Job
  <2>3. ASSUME NEW u \in Tasks
        PROVE  /\ job'[u] \in Jobs /\ job'[u].op = job[u].op /\ job'[u].todo = job[u].todo
               /\ job[u] = Idle => u # t /\ job'[u] = Idle
               /\ u # t => job'[u].at = job[u].at
               /\ u # t /\ job[u] # Idle => job'[u].stale
    <3>1. job[u] \in Jobs /\ job[t] # Idle
      BY <1>1, <2>3 DEF IInv, Shape
    <3>2. CASE u = t
      <4>1. job'[u] = [job[u] EXCEPT !.at = "reinit"]
        BY <2>1, <3>2 DEF Stale
      <4> QED
        BY <3>1, <3>2, <4>1 DEF Jobs
    <3>3. CASE u # t
      <4>1. job'[u] = IF job[u] = Idle THEN job[u] ELSE [job[u] EXCEPT !.stale = TRUE]
        BY <2>1, <3>3 DEF Stale
      <4> QED
        BY <3>1, <3>3, <4>1 DEF Jobs
    <3> QED
      BY <3>2, <3>3
  <2>4. Shape'
    <3>1. job' \in [Tasks -> Jobs]
      BY <2>1, <2>3 DEF Stale
    <3> QED
      BY <2>1, <2>3, <3>1, ErasedNvs DEF IInv, Shape
  <2>5. Serving' = Serving /\ Booting' = Booting
    BY <1>1, <2>2, <2>3 DEF Serving, At, Booting
  <2>6. Roles'
    BY <2>3, <2>5 DEF IInv, Roles, Served, Tasks
  <2>7. BootClean'
    BY <2>2, <2>5 DEF BootClean
  <2>8. Filling'
    BY <1>1, <2>2, <2>3 DEF IInv, Filling
  <2> QED
    BY <2>1, <2>4, <2>6, <2>7, <2>8, ErasedNvs DEF IInv
<1> QED
  BY <1>2, <1>3, <1>4

-----------------------------------------------------------------------------
(* app_main                                                                    *)

\* app_main takes up the next part of its work.
LEMMA MainDoes ==
  ASSUME IInv, NEW op \in MainOps, NEW at, NEW q \in Seq(Writes),
         at \in {"init", "migrate", "key", "hold", "ended", "erased", "net", "run", "write"},
         Does("main", op, at, q), UNCHANGED <<flash, seen, complete>>,
         Serving => op \in {"uart", "run"} \/ (op = "boot" /\ at = "net"),
         op = "migrate" => Booting /\ ~timer' /\ \A i \in DOMAIN q : q[i].key = "w_mode",
         op = "boot" /\ at \in {"init", "migrate", "key"} => Booting,
         op = "boot" /\ at \in {"init", "migrate"} => ~timer',
         op = "defaults" => at = "write" /\ \A k \in Checked : Stored(k, Job(op, at, q))
  PROVE  IInv'
<1> DEFINE j == Job(op, at, q)
<1>1. /\ j.op = op /\ j.at = at /\ j.todo = q /\ j.wrote = {} /\ ~j.stale
      /\ job' = [job EXCEPT !["main"] = j]
  BY DEF Job, Does
<1>2. j \in Jobs /\ \A i \in DOMAIN q : q[i].val # Missing
  BY WritesFit DEF Job, Jobs, MainOps
<1>3. \A k \in Checked : op = "defaults" => Stored(k, j)
  OBVIOUS
<1> HIDE DEF j
<1>4. job'["main"] = j /\ job'["reset"] = job["reset"]
  BY <1>1 DEF IInv, Shape, Tasks
<1>5. Serving => Serving'
  BY <1>1, <1>4 DEF Serving, At
<1>6. BootClean'
  <2> SUFFICES ASSUME Booting' PROVE BootClean'
    BY DEF BootClean
  <2>1. op = "migrate" \/ (op = "boot" /\ at \in {"init", "migrate", "key"})
    BY <1>1, <1>4 DEF Booting
  <2>2. ~timer' \/ At("main", "boot", "key")'
    BY <1>1, <1>4, <2>1 DEF At
  <2>3. /\ \A k \in Checked : seen'[k] = flash'[k]
        /\ job'["reset"].op # "reset"
    BY <1>4, <2>1 DEF IInv, BootClean
  <2> QED
    BY <1>1, <1>4, <2>2, <2>3 DEF BootClean
<1>7. Filling'
  BY <1>1, <1>3, <1>4 DEF Filling, Stored
<1> QED
  BY <1>1, <1>2, <1>5, <1>6, <1>7, MainStays

\* It goes to another point of the boot, with no settings in hand.
LEMMA MainGoes ==
  ASSUME IInv, NEW at \in {"migrate", "ended", "hold"}, Goes("main", at),
         job["main"].op = "boot", ~Serving, UNCHANGED <<flash, seen, complete, timer>>,
         at = "migrate" => job["main"].at = "init"
  PROVE  IInv'
<1> DEFINE j == [job["main"] EXCEPT !.at = at]
<1>1. "main" \in Tasks /\ job["main"] \in Jobs
  BY DEF IInv, Shape, Tasks
<1>2. job' = [job EXCEPT !["main"] = j]
  BY <1>1 DEF Goes
<1>3. j \in Jobs /\ j.op = "boot" /\ j.at = at /\ j.todo = job["main"].todo
  BY <1>1 DEF Jobs
<1> HIDE DEF j
<1>4. job'["main"] = j /\ job'["reset"] = job["reset"]
  BY <1>2 DEF IInv, Shape, Tasks
<1>5. BootClean'
  <2> SUFFICES ASSUME Booting' PROVE BootClean'
    BY DEF BootClean
  <2>1. Booting /\ ~At("main", "boot", "key")
    BY <1>3, <1>4 DEF Booting, At
  <2> QED
    BY <1>3, <1>4, <2>1 DEF IInv, BootClean
<1>6. Filling'
  BY <1>3, <1>4 DEF Filling
<1>7. j.op \in MainOps /\ \A i \in DOMAIN j.todo : j.todo[i].val # Missing
  BY <1>1, <1>3 DEF IInv, Shape, MainOps
<1> QED
  BY <1>2, <1>3, <1>5, <1>6, <1>7, MainStays

\* A boot from its start to the running system.
LEMMA MainStepStep == ASSUME IInv, MainStep PROVE IInv'
<1> USE DEF nvsVars, keyVars, ghostVars
<1>1. <<>> \in Seq(Writes) /\ DOMAIN <<>> = {}
  OBVIOUS
<1>2. \A k \in Keys : Default(k) \in Writes /\ <<Default(k)>> \in Seq(Writes)
  BY OneWrite DEF Default, Values, Missing
<1>3. CASE NvsInit
  <2>1. job["main"].op = "boot" /\ job["main"].at = "init" /\ ~Serving
    BY <1>3 DEF NvsInit, At, Serving
  <2> QED
    BY <1>3, <2>1, MainGoes DEF NvsInit
<1>4. CASE Migrate
  <2>1. At("main", "boot", "migrate") /\ Booting /\ ~Serving /\ ~timer
    BY <1>4 DEF Migrate, At, Booting, Serving, IInv, BootClean
  <2>2. PICK q : q \in {<<>>, <<Entry("w_mode", "old")>>} /\ Does("main", "migrate", "write", q)
    BY <1>4 DEF Migrate
  <2>3. q \in Seq(Writes) /\ \A i \in DOMAIN q : q[i].key = "w_mode"
    <3>1. <<Entry("w_mode", "old")>> \in Seq(Writes)
      BY OneWrite DEF Keys, Values, Missing
    <3>2. \A i \in DOMAIN <<Entry("w_mode", "old")>> :
            <<Entry("w_mode", "old")>>[i].key = "w_mode"
      BY DEF Entry
    <3> QED
      BY <1>1, <2>2, <3>1, <3>2
  <2>4. UNCHANGED <<flash, seen, complete, timer>>
    BY <1>4 DEF Migrate
  <2> QED
    BY <2>1, <2>2, <2>3, <2>4, MainDoes DEF MainOps
<1>5. CASE StartTimers
  <2>1. Booting /\ ~Serving /\ Does("main", "boot", "key", <<>>) /\ UNCHANGED <<flash, seen, complete>>
    BY <1>5 DEF StartTimers, At, Booting, Serving
  <2> QED
    BY <1>1, <2>1, MainDoes DEF MainOps
<1>6. CASE KeyIsDown
  <2>1. /\ job["main"].op = "boot" /\ ~Serving /\ UNCHANGED <<flash, seen, complete, timer>>
        /\ Goes("main", "ended") \/ Goes("main", "hold")
    BY <1>6 DEF KeyIsDown, At, Serving
  <2> QED
    BY <2>1, MainGoes
<1>7. CASE LetGo
  <2>1. /\ job["main"].op = "boot" /\ ~Serving /\ UNCHANGED <<flash, seen, complete, timer>>
        /\ Goes("main", "ended")
    BY <1>7 DEF LetGo, At, Serving
  <2> QED
    BY <2>1, MainGoes
<1>8. CASE RestartErased
  BY <1>8, RebootStep DEF RestartErased
<1>9. CASE CheckSettings
  <2> DEFINE all == <<Default("static_dns1"), Default("use_tcp"), Default("ap_name"),
                      Default("host_names"), Default("lgname"), Kept("device_type"), Kept("device_sn")>>
             one == IF \E k \in Checked : seen[k] = Missing THEN all ELSE <<>>
             two == IF seen["w_mode"] = Missing THEN <<Default("w_mode")>> ELSE <<>>
  <2>1. /\ At("main", "boot", "key") /\ Booting /\ ~Serving /\ UNCHANGED <<flash, seen, complete>>
        /\ Does("main", "defaults", "write", one \o two)
    BY <1>9 DEF CheckSettings, At, Booting, Serving
  <2>2. Kept("device_type") \in Writes /\ Kept("device_sn") \in Writes
    <3>1. seen["device_type"] \in Values /\ seen["device_sn"] \in Values
      BY DEF IInv, Shape, Keys, Checked
    <3> QED
      BY <3>1, OneWrite DEF Kept, Keys, Checked, Values, Missing
  <2>3. all \in Seq(Writes)
    BY <1>2, <2>2 DEF Keys, Checked
  <2>4. one \in Seq(Writes)
    BY <1>1, <2>3
  <2>5. two \in Seq(Writes)
    BY <1>1, <1>2 DEF Keys
  <2>6. ASSUME NEW k \in Checked, seen[k] = Missing, NEW m \in Checked
        PROVE  \E i \in 1..Len(one) : one[i].key = m
    <3>1. one = all /\ Len(all) = 7
      BY <2>6
    <3>2. /\ all[1].key = "static_dns1" /\ all[2].key = "use_tcp" /\ all[3].key = "ap_name"
          /\ all[4].key = "host_names" /\ all[5].key = "lgname" /\ all[7].key = "device_sn"
      BY DEF Default, Kept, Entry
    <3> QED
      BY <3>1, <3>2 DEF Checked
  <2> HIDE DEF all, one, two
  <2>7. /\ one \o two \in Seq(Writes) /\ DOMAIN (one \o two) = 1..(Len(one) + Len(two))
        /\ Len(one) \in Nat /\ Len(two) \in Nat
        /\ \A i \in 1..Len(one) : i \in DOMAIN (one \o two) /\ (one \o two)[i] = one[i]
    BY <2>4, <2>5, ConcatProperties
  <2>8. ASSUME NEW m \in Checked PROVE Stored(m, Job("defaults", "write", one \o two))
    <3>1. CASE \E k \in Checked : seen[k] = Missing
      <4>1. \E i \in DOMAIN (one \o two) : (one \o two)[i].key = m
        BY <2>6, <2>7, <3>1
      <4> QED
        BY <4>1 DEF Stored, Job
    <3>2. CASE \A k \in Checked : seen[k] # Missing
      BY <2>1, <3>2 DEF IInv, BootClean, Stored
    <3> QED
      BY <3>1, <3>2
  <2> QED
    BY <2>1, <2>7, <2>8, MainDoes DEF MainOps
<1>10. CASE HeldForTwoSeconds
  <2> DEFINE j == [job["main"] EXCEPT !.at = "erased"]
  <2>1. /\ Erased /\ job["main"].op = "boot" /\ ~Serving /\ UNCHANGED timer
        /\ job' = [job EXCEPT !["main"] = j]
    BY <1>10 DEF HeldForTwoSeconds, At, Serving, Goes, IInv, Shape, Tasks
  <2>2. j \in Jobs /\ j.op = "boot" /\ j.at = "erased" /\ j.todo = job["main"].todo
    BY <2>1 DEF IInv, Shape, Jobs, Tasks
  <2> HIDE DEF j
  <2>3. job'["main"] = j /\ \A u \in Tasks \ {"main"} : job'[u] = job[u]
    BY <2>1 DEF IInv, Shape, Tasks
  <2>4. Shape'
    BY <2>1, <2>2, <2>3, ErasedNvs DEF IInv, Shape, Tasks
  <2>5. Roles'
    BY <2>1, <2>2, <2>3 DEF IInv, Roles, MainOps, Tasks, Served
  <2>6. BootClean' /\ Filling'
    BY <2>2, <2>3 DEF BootClean, Booting, Filling
  <2> QED
    BY <2>1, <2>4, <2>5, <2>6, ErasedNvs DEF IInv
<1>11. CASE StartServices
  <2>1. Does("main", "boot", "net", <<>>) /\ UNCHANGED <<flash, seen, complete>>
    BY <1>11 DEF StartServices
  <2> QED
    BY <1>1, <2>1, MainDoes DEF MainOps
<1>12. CASE UartInit
  <2>1. PICK q : q \in {<<>>, <<Default("baud_rate")>>} /\ Does("main", "uart", "write", q)
    BY <1>12 DEF UartInit
  <2>2. q \in Seq(Writes) /\ UNCHANGED <<flash, seen, complete>>
    BY <1>1, <1>2, <1>12, <2>1 DEF UartInit, Keys
  <2> QED
    BY <2>1, <2>2, MainDoes DEF MainOps
<1>13. CASE Runs
  <2>1. Does("main", "run", "run", <<>>) /\ UNCHANGED <<flash, seen, complete>>
    BY <1>13 DEF Runs
  <2> QED
    BY <1>1, <2>1, MainDoes DEF MainOps
<1> QED
  BY <1>3, <1>4, <1>5, <1>6, <1>7, <1>8, <1>9, <1>10, <1>11, <1>12, <1>13 DEF MainStep

\* NVS cannot be opened at all: nothing is left of it.
LEMMA UnusableStep == ASSUME IInv, NvsUnusable PROVE IInv'
<1> DEFINE j == [job["main"] EXCEPT !.at = "migrate"]
<1>1. /\ Erased /\ At("main", "boot", "init") /\ ~Serving /\ Booting /\ UNCHANGED timer
      /\ job' = [job EXCEPT !["main"] = j]
  BY DEF NvsUnusable, At, Serving, Booting, Goes, IInv, Shape, Tasks, keyVars
<1>2. j \in Jobs /\ j.op = "boot" /\ j.at = "migrate" /\ j.todo = job["main"].todo
  BY <1>1 DEF IInv, Shape, Jobs, Tasks, At
<1> HIDE DEF j
<1>3. job'["main"] = j /\ \A u \in Tasks \ {"main"} : job'[u] = job[u]
  BY <1>1 DEF IInv, Shape, Tasks
<1>4. Shape'
  BY <1>1, <1>2, <1>3, ErasedNvs DEF IInv, Shape, Tasks
<1>5. Roles'
  BY <1>1, <1>2, <1>3 DEF IInv, Roles, MainOps, Tasks, Served
<1>6. BootClean'
  BY <1>1, <1>2, <1>3, ErasedNvs DEF IInv, BootClean, At, Tasks
<1>7. Filling'
  BY <1>2, <1>3 DEF Filling
<1> QED
  BY <1>1, <1>4, <1>5, <1>6, <1>7, ErasedNvs DEF IInv

-----------------------------------------------------------------------------
(* Requests, the key, and the whole.                                           *)

\* A task that serves requests takes one up.
LEMMA RequestBegins ==
  ASSUME IInv, NEW t \in Served, Accepts(t), NEW op, NEW at, NEW q \in Seq(Writes),
         op \in Requests \cup {"info", "login", "operate", "restore", "restart"},
         at \in {"write", "done", "read", "restart"},
         Does(t, op, at, q), UNCHANGED <<flash, seen, complete, timer>>
  PROVE  IInv'
<1> DEFINE j == Job(op, at, q)
<1>1. job' = [job EXCEPT ![t] = j] /\ j.op = op /\ j.todo = q
  BY DEF Does, Job
<1>2. j \in Jobs /\ \A i \in DOMAIN q : q[i].val # Missing
  BY WritesFit DEF Job, Jobs
<1> HIDE DEF j
<1>3. t \in Tasks \ {"main"} /\ t # "reset" /\ Serving
  BY DEF Served, Tasks, Accepts
<1>4. op \notin MainOps
  BY DEF Requests, Pages, Refuses, MainOps
<1> QED
  BY <1>1, <1>2, <1>3, <1>4, JobStep

\* What requests carry are writes.
LEMMA AskedFits == ASSUME NEW op \in Requests PROVE Asked(op) \in Seq(Writes)
<1>1. \A k \in Keys, v \in {"web", "udp", "mqtt"} : Entry(k, v) \in Writes
  BY OneWrite DEF Values, Missing
<1>2. \A v, w \in Writes : <<v>> \in Seq(Writes) /\ <<v, w>> \in Seq(Writes)
  OBVIOUS
<1>3. \A k, m \in Keys, v \in {"web", "udp", "mqtt"} :
        <<Entry(k, v)>> \in Seq(Writes) /\ <<Entry(k, v), Entry(m, v)>> \in Seq(Writes)
  BY <1>1, <1>2
<1> HIDE DEF Writes, Entry
<1> QED
  BY <1>3 DEF Asked, Requests, Pages, Refuses, Keys, Checked

\* A page that fills its group in.
LEMMA InfoStep ==
  ASSUME IInv, NEW probe, NEW fill \in Seq(Writes), Info(probe, fill) PROVE IInv'
<1>1. PICK q : q \in {fill, <<>>} /\ Does("httpd", "info", "write", q)
  BY DEF Info
<1>2. <<>> \in Seq(Writes)
  OBVIOUS
<1>3. Accepts("httpd") /\ UNCHANGED <<flash, seen, complete, timer>>
  BY DEF Info, keyVars, ghostVars
<1> QED
  BY <1>1, <1>2, <1>3, RequestBegins DEF Served

\* The pages of the web server.
LEMMA WebStep == ASSUME IInv, Web PROVE IInv'
<1> USE DEF nvsVars, keyVars, ghostVars
<1>1. <<>> \in Seq(Writes)
  OBVIOUS
<1>2. ASSUME NEW page \in Pages, Post(page) \/ PostInPieces(page) PROVE IInv'
  <2>1. CASE Reboot
    BY <2>1, RebootStep
  <2>2. CASE ~Reboot
    <3>1. PICK q : q \in {Asked(page), <<>>} /\ Does("httpd", page, "write", q)
      BY <1>2, <2>2 DEF Post, PostInPieces
    <3>2. Accepts("httpd") /\ UNCHANGED <<flash, seen, complete, timer>>
      BY <1>2, <2>2 DEF Post, PostInPieces
    <3>3. page \in Requests /\ q \in Seq(Writes)
      BY <1>1, <3>1, AskedFits DEF Requests
    <3> QED
      BY <3>1, <3>2, <3>3, RequestBegins DEF Served
  <2> QED
    BY <2>1, <2>2
<1>3. CASE SerialFill
  <2>1. /\ At("httpd", "serial_set", "done") /\ UNCHANGED <<flash, job, timer, complete>>
        /\ seen' = [seen EXCEPT !["baud_rate"] = "default"]
    BY <1>3 DEF SerialFill
  <2>2. seen' \in [Keys -> Values] /\ \A k \in Keys : seen'[k] = seen[k] \/ seen'[k] # Missing
    BY <2>1 DEF IInv, Shape, Values, Missing
  <2>3. \A k \in Checked : seen'[k] = seen[k]
    BY <2>1 DEF IInv, Shape, Checked, Keys
  <2> QED
    BY <2>1, <2>2, <2>3
    DEF IInv, Shape, Roles, Serving, At, SeenFirst, BootClean, Booting, Filling, Stored,
        NeverResetAgain
<1>4. CASE DevInfo \/ SerialSetInfo \/ TcpInfo \/ HttpInfo \/ NetSetInfo \/ ModuleSetInfo
           \/ ApSetInfo \/ WebLogin
  <2>1. \A k \in Keys : Default(k) \in Writes
    BY OneWrite DEF Default, Values, Missing
  <2>2. \A v, w \in Writes : <<v>> \in Seq(Writes) /\ <<v, w>> \in Seq(Writes)
    OBVIOUS
  <2>3. \A k, m \in Keys : /\ <<Default(k)>> \in Seq(Writes)
                           /\ <<Default(k), Default(m)>> \in Seq(Writes)
    BY <2>1, <2>2
  <2>4. PICK probe \in Keys, fill \in Seq(Writes) : Info(probe, fill)
    BY <1>4, <2>3 DEF DevInfo, SerialSetInfo, TcpInfo, HttpInfo, NetSetInfo, ModuleSetInfo,
                      ApSetInfo, WebLogin, Keys, Checked
  <2> QED
    BY <2>4, InfoStep
<1>5. CASE WorkModeSet
  <2>1. Accepts("httpd") /\ Does("httpd", "mode", "write", Asked("mode"))
        /\ UNCHANGED <<flash, seen, complete, timer>>
    BY <1>5 DEF WorkModeSet
  <2>2. "mode" \in Requests /\ Asked("mode") \in Seq(Writes)
    BY AskedFits DEF Requests, Refuses
  <2> QED
    BY <2>1, <2>2, RequestBegins DEF Served
<1>6. CASE WorkModeConfig
  <2>1. /\ At("httpd", "mode", "validate") /\ UNCHANGED <<flash, seen, complete, timer>>
        /\ Goes("httpd", "commit") \/ job' = [job EXCEPT !["httpd"] = Idle]
    BY <1>6 DEF WorkModeConfig
  <2> QED
    BY <2>1, GoesStep, EndStep DEF At, Tasks
<1>7. CASE Operate
  <2>1. PICK at : at \in {"write", "done"} /\ Does("httpd", "operate", at, <<Kept("w_mode")>>)
    BY <1>7 DEF Operate
  <2>2. <<Kept("w_mode")>> \in Seq(Writes)
    <3>1. seen["w_mode"] \in Values
      BY DEF IInv, Shape, Keys
    <3> QED
      BY <3>1, OneWrite DEF Kept, Keys, Values, Missing
  <2>3. Accepts("httpd") /\ UNCHANGED <<flash, seen, complete, timer>>
    BY <1>7 DEF Operate
  <2> QED
    BY <2>1, <2>2, <2>3, RequestBegins DEF Served
<1>8. CASE Restore
  <2>1. Accepts("httpd") /\ Does("httpd", "restore", "read", <<>>)
        /\ UNCHANGED <<flash, seen, complete, timer>>
    BY <1>8 DEF Restore
  <2> QED
    BY <1>1, <2>1, RequestBegins DEF Served
<1> QED
  BY <1>2, <1>3, <1>4, <1>5, <1>6, <1>7, <1>8 DEF Web

\* The UDP tool and the configuration by MQTT.
LEMMA ToolStep ==
  ASSUME IInv, UdpLogin \/ UdpIdentity \/ UdpNetwork \/ UdpReboot \/ MqttConfig PROVE IInv'
<1> USE DEF nvsVars, keyVars, ghostVars
<1>1. <<>> \in Seq(Writes)
  OBVIOUS
<1>2. CASE UdpLogin
  <2>1. PICK q : q \in {<<>>, <<Default("lgname")>>} /\ Does("udp", "login", "write", q)
    BY <1>2 DEF UdpLogin
  <2>2. <<Default("lgname")>> \in Seq(Writes)
    BY OneWrite DEF Default, Keys, Checked, Values, Missing
  <2>3. Accepts("udp") /\ UNCHANGED <<flash, seen, complete, timer>>
    BY <1>2 DEF UdpLogin
  <2> QED
    BY <1>1, <2>1, <2>2, <2>3, RequestBegins DEF Served
<1>3. CASE UdpIdentity
  <2>1. Accepts("udp") /\ Does("udp", "identity", "write", Asked("identity"))
        /\ UNCHANGED <<flash, seen, complete, timer>>
    BY <1>3 DEF UdpIdentity
  <2>2. "identity" \in Requests /\ Asked("identity") \in Seq(Writes)
    BY AskedFits DEF Requests, Refuses
  <2> QED
    BY <2>1, <2>2, RequestBegins DEF Served
<1>4. CASE UdpNetwork
  <2> DEFINE q == <<Entry("host_names", "udp"), Entry("primary_dns", "udp")>>
  <2>1. Accepts("udp") /\ Does("udp", "network", "write", q)
        /\ UNCHANGED <<flash, seen, complete, timer>>
    BY <1>4 DEF UdpNetwork
  <2>2. Entry("host_names", "udp") \in Writes /\ Entry("primary_dns", "udp") \in Writes
    BY OneWrite DEF Keys, Checked, Values, Missing
  <2>3. q \in Seq(Writes) /\ "network" \in Requests
    BY <2>2 DEF Requests, Refuses
  <2> QED
    BY <2>1, <2>3, RequestBegins DEF Served
<1>5. CASE UdpReboot
  <2>1. Accepts("udp") /\ Does("udp", "restart", "restart", <<>>)
        /\ UNCHANGED <<flash, seen, complete, timer>>
    BY <1>5 DEF UdpReboot
  <2> QED
    BY <1>1, <2>1, RequestBegins DEF Served
<1>6. CASE MqttConfig
  <2>1. Accepts("mqtt") /\ Does("mqtt", "config", "write", Asked("config"))
        /\ UNCHANGED <<flash, seen, complete, timer>>
    BY <1>6 DEF MqttConfig
  <2>2. "config" \in Requests /\ Asked("config") \in Seq(Writes)
    BY AskedFits DEF Requests
  <2> QED
    BY <2>1, <2>2, RequestBegins DEF Served
<1> QED
  BY <1>2, <1>3, <1>4, <1>5, <1>6

\* The key orders a restart or a reset, the latter never before app_main has
\* checked the settings: by then nobody has held it for long enough.
LEMMA KeyStep == ASSUME IInv, Press \/ Hold \/ Release PROVE IInv'
<1> USE DEF nvsVars, ghostVars
<1>1. UNCHANGED <<flash, seen, complete, timer>>
  BY DEF Press, Hold, Release
<1>2. CASE UNCHANGED job
  BY <1>1, <1>2, Quiet
<1>3. CASE job' # job
  <2>1. \/ Does("reset", "restart", "restart", <<>>)
        \/ Does("reset", "reset", "read", <<>>) /\ timer /\ ~At("main", "boot", "key")
    BY <1>3 DEF Press, Hold, Release
  <2>2. PICK op : /\ op = "restart" \/ (op = "reset" /\ timer /\ ~At("main", "boot", "key"))
                  /\ Does("reset", op, IF op = "reset" THEN "read" ELSE "restart", <<>>)
    BY <2>1
  <2> DEFINE j == Job(op, IF op = "reset" THEN "read" ELSE "restart", <<>>)
  <2>3. job' = [job EXCEPT !["reset"] = j] /\ j \in Jobs /\ j.op = op /\ j.todo = <<>>
    BY <2>2 DEF Does, Job, Jobs
  <2> HIDE DEF j
  <2>4. op = "reset" => ~Booting
    BY <2>2 DEF IInv, BootClean
  <2>5. j.op \notin MainOps /\ j.op \in {"none", "restart", "reset"}
    BY <2>2, <2>3 DEF MainOps
  <2>6. \A i \in DOMAIN j.todo : j.todo[i].val # Missing
    BY <2>3
  <2>7. "reset" \in Tasks \ {"main"} /\ "reset" \notin Served
    BY DEF Tasks, Served
  <2> QED
    BY <1>1, <2>3, <2>4, <2>5, <2>6, <2>7, JobStep
<1> QED
  BY <1>2, <1>3

\* A device from the factory, one in use and one just updated fulfil the invariant.
LEMMA InitIInv == Init => IInv
<1> SUFFICES ASSUME Init PROVE IInv
  OBVIOUS
<1>1. /\ \E S \in SUBSET Keys : flash = AllAre("user", S) /\ (complete => Checked \subseteq S)
      /\ seen = flash /\ timer = FALSE
      /\ job = [t \in Tasks |-> IF t = "main" THEN Job("boot", "init", <<>>) ELSE Idle]
  <2>1. /\ {"device_sn", "device_type"} \subseteq Keys /\ Keys \ {"primary_dns"} \subseteq Keys
        /\ Checked \ {"ap_name"} \subseteq Keys /\ Checked \subseteq Keys \ {"primary_dns"}
    BY DEF Keys, Checked
  <2> QED
    BY <2>1 DEF Init
<1>2. PICK S \in SUBSET Keys : flash = AllAre("user", S) /\ (complete => Checked \subseteq S)
  BY <1>1
<1>3. flash \in [Keys -> Values] /\ \A k \in S : flash[k] # Missing
  BY <1>2 DEF AllAre, Values, Missing
<1>4. Job("boot", "init", <<>>) \in Jobs /\ Idle \in Jobs
  BY DEF Jobs, Job, Idle
<1>5. \A t \in Tasks : job[t].todo = <<>>
  BY <1>1 DEF Job, Idle
<1>6. Shape
  BY <1>1, <1>3, <1>4, <1>5 DEF Shape
<1>7. /\ job["main"].op = "boot" /\ job["main"].at = "init"
      /\ \A t \in Tasks \ {"main"} : job[t] = Idle /\ job[t].op = "none" /\ job[t].todo = <<>>
  BY <1>1 DEF Job, Idle, Tasks
<1>8. Roles
  BY <1>7 DEF Roles, MainOps, Served, Tasks
<1>9. SeenFirst /\ NeverResetAgain
  BY <1>1, <1>2, <1>3 DEF SeenFirst, NeverResetAgain
<1>10. BootClean /\ Filling
  BY <1>1, <1>7 DEF BootClean, Filling, Tasks
<1> QED
  BY <1>6, <1>8, <1>9, <1>10 DEF IInv

\* Every step keeps the invariant.
LEMMA NextIInv == IInv /\ [Next]_vars => IInv'
<1> SUFFICES ASSUME IInv, [Next]_vars PROVE IInv'
  OBVIOUS
<1>1. ASSUME NEW t \in Tasks, Step(t) PROVE IInv'
  <2>1. CASE Restarts(t)
    BY <2>1, RebootStep DEF Restarts
  <2> QED
    BY <1>1, <2>1, SetStep, WrittenStep, CommitStep, ReplyStep, ResetStep DEF Step
<1>2. CASE ServicesFail \/ PowerLoss
  BY <1>2, RebootStep DEF ServicesFail, PowerLoss
<1>3. CASE UNCHANGED vars
  BY <1>3, Quiet DEF vars, nvsVars, keyVars, ghostVars
<1> QED
  BY <1>1, <1>2, <1>3, FailureStep, MainStepStep, UnusableStep, WebStep, ToolStep, KeyStep DEF Next

\* The invariant holds in every reachable state.
LEMMA Invariance == Spec => []IInv
  BY InitIInv, NextIInv, PTL DEF Spec

\* Once app_main has filled the settings, no request, page, failed or skipped
\* write, power loss or restart leaves one of the keys missing for which
\* check_and_set_nvs_defaults would reset all of them.
THEOREM NoMoreResets == Spec => []NeverResetAgain
<1>1. IInv => NeverResetAgain
  BY DEF IInv
<1> QED
  BY Invariance, <1>1, PTL

-----------------------------------------------------------------------------
(* What each job holds.                                                        *)

Resets  == {"reset", "restore"}
Fillers == {"defaults", "migrate", "info", "login"}

\* The jobs of each task.
OpsOf(t) ==
  CASE t = "main"  -> MainOps
    [] t = "httpd" -> Pages \cup {"none", "mode", "info", "operate", "restore"}
    [] t = "udp"   -> {"none", "login", "identity", "network", "restart"}
    [] t = "mqtt"  -> {"none", "config"}
    [] t = "reset" -> {"none", "restart", "reset"}

\* The value that only the requests of t write.
Own(t) == CASE t = "httpd" -> "web" [] t = "udp" -> "udp" [] t = "mqtt" -> "mqtt" [] OTHER -> Missing

\* What a job of t may write.
EntryFits(t, op, e) ==
  /\ e.key = "device_sn" => op \in Resets \cup {"identity", "defaults"}
  /\ e.key = "w_mode" => t # "udp"
  /\ op \in Requests => e.val = Own(t)
  /\ op \in {"info", "login", "uart"} => e.val = "default"
  /\ op \in {"info", "login"} => e.key \in Checked \cup {"baud_rate"}
  /\ op = "operate" => e.key = "w_mode"
  /\ op = "login" => e.key # "baud_rate"
  /\ op \in Resets \cup {"uart"} => e.key # "w_mode"
  /\ op \in Requests \cup Fillers \cup Resets \cup {"uart", "operate"}

Fits(t, j) ==
  /\ j.op \in OpsOf(t)
  /\ \A i \in DOMAIN j.todo : EntryFits(t, j.op, j.todo[i])
  /\ t = "udp" => "w_mode" \notin j.wrote

Contents == \A t \in Tasks : Fits(t, job[t])

\* Which task has which job.
LEMMA Roster ==
  ASSUME NEW t \in Tasks, NEW op \in OpsOf(t)
  PROVE  /\ op \in Requests => t \in Served
         /\ op \in Resets => t = "reset" \/ t \in Served
         /\ op \in {"operate", "info", "serial_set", "mode"} => t = "httpd"
         /\ op \in {"identity", "network", "login"} => t = "udp"
         /\ op = "config" => t = "mqtt"
         /\ op \in Pages => t = "httpd"
         /\ op \in {"defaults", "migrate", "uart", "boot", "run"} => t = "main"
         /\ t = "reset" /\ op \in Resets => op = "reset"
  BY DEF OpsOf, Tasks, Served, Requests, Resets, Pages, Refuses, MainOps

-----------------------------------------------------------------------------
(* The kinds of steps.                                                         *)

Same == UNCHANGED <<flash, seen, promised, misled, complete, sn>>

\* What a job that is taken up decides to write, from the settings it has read.
StartFits(op, e) ==
  /\ op \in Fillers => (\E k \in Checked : seen[k] = Missing) \/ seen[e.key] = Missing
  /\ op = "defaults" /\ e.key = "device_sn" => e.val = seen["device_sn"] \/ seen["device_sn"] = Missing
  /\ op = "operate" => e.val = IF seen["w_mode"] = Missing THEN "default" ELSE seen["w_mode"]

\* A task takes up a job.
Starts(t, j) ==
  /\ job' = [job EXCEPT ![t] = j] /\ Same /\ job[t].op \notin Resets
  /\ Fits(t, j) /\ j.wrote = {} /\ ~j.stale
  /\ j.op \in Resets => j.at = "read"
  /\ j.op \in Requests => j.at # "done"
  /\ j.op = "defaults" => Booting
  /\ \A i \in DOMAIN j.todo : StartFits(j.op, j.todo[i])

\* A reset that has erased the number and is still to write it.
Pending(j) == j.op \in Resets /\ j.at \in {"reinit", "write"}
              /\ \E i \in DOMAIN j.todo : j.todo[i].key = "device_sn"

\* A task goes on, and writes nothing.
Proceeds(t, j) ==
  /\ job' = [job EXCEPT ![t] = j] /\ Same
  /\ j.op = job[t].op /\ j.todo = job[t].todo /\ j.wrote = job[t].wrote
  /\ j.stale = job[t].stale \/ j.op \in Resets
  /\ Pending(job[t]) => Pending(j)
  /\ j.op \in Resets => j.at # "erase" /\ job[t].at \in {"reinit", "write", "commit"}
  /\ j.op \in Requests => j.at # "done" \/ j.wrote = {}
  /\ j.op = "operate" => j.at # "write"

\* A task is through with its job.
Ends(t) == t # "main" /\ job' = [job EXCEPT ![t] = Idle] /\ Same /\ job[t].op \notin Resets

Kinds ==
  \/ Reboot \/ NvsUnusable \/ HeldForTwoSeconds \/ SerialFill \/ (Same /\ UNCHANGED job)
  \/ \E t \in Tasks :
       \/ Set(t) \/ Commit(t) \/ Reply(t) \/ ReadKept(t) \/ EraseAll(t) \/ FailSkips(t) \/ Ends(t)
       \/ \E j \in Jobs : Starts(t, j) \/ Proceeds(t, j)

\* A task that is idle, or app_main, takes up a job.
LEMMA StartsWith ==
  ASSUME IInv, Contents, NEW t \in Tasks, NEW op \in OpsOf(t), NEW at, NEW q, Does(t, op, at, q), Same,
         job[t] = Idle \/ t = "main",
         op \in Resets => at = "read", op \in Requests => at # "done", op = "defaults" => Booting,
         \A i \in DOMAIN q : EntryFits(t, op, q[i]) /\ StartFits(op, q[i])
  PROVE  Starts(t, job'[t])
<1> DEFINE j == Job(op, at, q)
<1>1. /\ job' = [job EXCEPT ![t] = j] /\ j.op = op /\ j.at = at /\ j.todo = q
      /\ j.wrote = {} /\ ~j.stale
  BY DEF Does, Job
<1> HIDE DEF j
<1>2. job'[t] = j
  BY <1>1 DEF IInv, Shape
<1>3. job[t].op \notin Resets
  <2>1. Idle.op = "none"
    BY DEF Idle, Job
  <2> QED
    BY <2>1, Roster DEF IInv, Roles, Resets, MainOps, Contents, Fits
<1> QED
  BY <1>1, <1>2, <1>3 DEF Starts, Fits

\* Jobs that write at most two settings.
LEMMA FewEntries ==
  ASSUME NEW e, NEW f, NEW q \in {<<>>, <<e>>, <<e, f>>}
  PROVE  \A i \in DOMAIN q : q[i] = e \/ q[i] = f
  OBVIOUS

\* What a request asks for is of its own task.
LEMMA AskedEntries ==
  ASSUME NEW t \in Tasks, NEW op \in Requests \cap OpsOf(t)
  PROVE  /\ \E k, m \in Keys :
              Asked(op) \in {<<>>, <<Entry(k, Own(t))>>, <<Entry(k, Own(t)), Entry(m, Own(t))>>}
         /\ \A i \in DOMAIN Asked(op) :
              /\ EntryFits(t, op, Asked(op)[i]) /\ Asked(op)[i].val = Own(t) /\ Asked(op)[i].key \in Keys
              /\ Asked(op)[i].key = "baud_rate" => t = "httpd"
<1>1. /\ op \in Pages \cup {"mode"} => t = "httpd" /\ Own(t) = "web"
      /\ op \in {"identity", "network"} => t = "udp" /\ Own(t) = "udp"
      /\ op = "config" => t = "mqtt" /\ Own(t) = "mqtt"
  BY Roster DEF Own
<1>2. PICK k \in Keys, m \in Keys :
        /\ Asked(op) \in {<<>>, <<Entry(k, Own(t))>>, <<Entry(k, Own(t)), Entry(m, Own(t))>>}
        /\ t = "udp" => k # "w_mode" /\ m # "w_mode"
        /\ t # "udp" => k # "device_sn" /\ m # "device_sn"
        /\ k = "baud_rate" \/ m = "baud_rate" => t = "httpd"
        /\ op # "identity" => k # "device_sn" /\ m # "device_sn"
  <2>1. CASE op = "net_set"
    BY <1>1, <2>1 DEF Asked, Keys, Checked, Pages
  <2>2. CASE op = "module_set"
    BY <1>1, <2>2 DEF Asked, Keys, Checked, Pages
  <2>3. CASE op = "protocol"
    BY <1>1, <2>3 DEF Asked, Keys, Checked, Pages
  <2>4. CASE op = "ap_set"
    BY <1>1, <2>4 DEF Asked, Keys, Checked, Pages
  <2>5. CASE op = "serial_set"
    BY <1>1, <2>5 DEF Asked, Keys, Checked, Pages
  <2>6. CASE op = "mode"
    BY <1>1, <2>6 DEF Asked, Keys, Checked, Pages
  <2>7. CASE op = "identity"
    BY <1>1, <2>7 DEF Asked, Keys, Checked, Pages
  <2>8. CASE op = "network"
    BY <1>1, <2>8 DEF Asked, Keys, Checked, Pages
  <2>9. CASE op = "config"
    BY <1>1, <2>9 DEF Asked, Keys, Checked, Pages
  <2> QED
    BY <2>1, <2>2, <2>3, <2>4, <2>5, <2>6, <2>7, <2>8, <2>9 DEF Requests, Pages, Refuses
<1>3. \A i \in DOMAIN Asked(op) : Asked(op)[i] = Entry(k, Own(t)) \/ Asked(op)[i] = Entry(m, Own(t))
  BY <1>2, FewEntries
<1>4. op \notin {"info", "login", "uart", "operate"} /\ op \notin Fillers /\ op \notin Resets
  BY DEF Requests, Pages, Refuses, Fillers, Resets
<1>5. /\ Entry(k, Own(t)).key = k /\ Entry(k, Own(t)).val = Own(t)
      /\ Entry(m, Own(t)).key = m /\ Entry(m, Own(t)).val = Own(t)
  BY DEF Entry
<1>6. ASSUME NEW e, e = Entry(k, Own(t)) \/ e = Entry(m, Own(t))
      PROVE  /\ EntryFits(t, op, e) /\ e.val = Own(t) /\ e.key \in Keys
             /\ e.key = "baud_rate" => t = "httpd"
  BY <1>1, <1>2, <1>4, <1>5, <1>6 DEF EntryFits
<1> QED
  BY <1>2, <1>3, <1>6

\* A request begins to write what it asks for.
LEMMA AskStarts ==
  ASSUME IInv, Contents, NEW t \in Tasks, NEW op \in Requests \cap OpsOf(t), Does(t, op, "write", Asked(op)),
         Same, job[t] = Idle
  PROVE  Starts(t, job'[t])
<1>1. op \notin Fillers /\ op \notin Resets /\ op # "operate"
  BY DEF Requests, Pages, Refuses, Fillers, Resets
<1>2. \A i \in DOMAIN Asked(op) : EntryFits(t, op, Asked(op)[i]) /\ StartFits(op, Asked(op)[i])
  BY <1>1, AskedEntries DEF StartFits, Fillers
<1> QED
  BY <1>1, <1>2, StartsWith DEF Fillers

\* A job with nothing to write begins.
LEMMA EmptyStarts ==
  ASSUME IInv, Contents, NEW t \in Tasks, NEW op \in OpsOf(t), NEW at, Does(t, op, at, <<>>), Same,
         job[t] = Idle \/ t = "main",
         op \in Resets => at = "read", op \in Requests => at # "done", op # "defaults"
  PROVE  Starts(t, job'[t])
  BY StartsWith

\* A page, or a login, that fills in what is missing begins.
LEMMA FillStarts ==
  ASSUME IInv, Contents, NEW t \in {"httpd", "udp"}, NEW op \in {"info", "login"} \cap OpsOf(t),
         NEW k \in Checked \cup {"baud_rate"}, NEW m \in Checked \cup {"baud_rate"},
         k # "device_sn", m # "device_sn", op = "login" => k # "baud_rate" /\ m # "baud_rate",
         NEW q \in {<<>>, <<Default(k)>>, <<Default(k), Default(m)>>}, Does(t, op, "write", q), Same,
         job[t] = Idle,
         q # <<>> => (\E c \in Checked : seen[c] = Missing) \/ (seen[k] = Missing /\ m = k)
  PROVE  Starts(t, job'[t])
<1>1. \A i \in DOMAIN q : q[i] = Default(k) \/ q[i] = Default(m)
  BY FewEntries
<1>2. /\ Default(k).key = k /\ Default(k).val = "default"
      /\ Default(m).key = m /\ Default(m).val = "default"
  BY DEF Default, Entry
<1>3. /\ op \notin Requests /\ op \notin Resets /\ op # "operate" /\ op # "defaults"
      /\ k # "w_mode" /\ m # "w_mode" /\ op \in Fillers /\ op # "uart"
  BY DEF Requests, Pages, Refuses, Resets, Checked, Fillers
<1>4. q # <<>> => \A e : e = Default(k) \/ e = Default(m) => EntryFits(t, op, e) /\ StartFits(op, e)
  BY <1>2, <1>3 DEF EntryFits, StartFits
<1>5. \A i \in DOMAIN q : q # <<>>
  OBVIOUS
<1> HIDE DEF Default
<1>6. t \in Tasks
  BY DEF Tasks
<1> QED
  BY <1>1, <1>3, <1>4, <1>5, <1>6, StartsWith

\* The pages of the web server, and the tools.
LEMMA RequestKind ==
  ASSUME IInv, Contents, Web \/ UdpLogin \/ UdpIdentity \/ UdpNetwork \/ UdpReboot \/ MqttConfig
  PROVE  Kinds
<1> USE DEF nvsVars, keyVars, ghostVars
<1>1. \A t \in Tasks : Starts(t, job'[t]) => Kinds
  <2>1. \A t \in Tasks : job'[t] \in Jobs
    BY NextIInv DEF IInv, Shape, Next
  <2> QED
    BY <2>1 DEF Kinds
<1>2. /\ "httpd" \in Tasks /\ "udp" \in Tasks /\ "mqtt" \in Tasks /\ "reset" \in Tasks
      /\ \A op \in Pages \cup {"mode", "info", "operate", "restore"} : op \in OpsOf("httpd")
      /\ \A op \in {"login", "identity", "network", "restart"} : op \in OpsOf("udp")
      /\ "config" \in OpsOf("mqtt")
      /\ \A op \in Pages \cup {"mode", "identity", "network", "config"} : op \in Requests
  BY DEF Tasks, OpsOf, Requests, Refuses
<1>3. ASSUME NEW page \in Pages, Post(page) \/ PostInPieces(page) PROVE Kinds
  <2>1. CASE Reboot
    BY <2>1 DEF Kinds
  <2>2. CASE ~Reboot
    <3>1. /\ Does("httpd", page, "write", Asked(page)) \/ Does("httpd", page, "write", <<>>)
          /\ Same /\ job["httpd"] = Idle
      BY <1>3, <2>2 DEF Post, PostInPieces, Accepts, Same
    <3>2. page \notin Resets /\ page # "defaults"
      BY DEF Pages, Resets
    <3> QED
      BY <1>1, <1>2, <3>1, <3>2, AskStarts, EmptyStarts
  <2> QED
    BY <2>1, <2>2
<1>4. CASE SerialFill
  BY <1>4 DEF Kinds
<1>5. ASSUME NEW k \in Checked \cup {"baud_rate"}, NEW m \in Checked \cup {"baud_rate"}, NEW probe,
             k # "device_sn", m # "device_sn", NEW q \in {<<Default(k)>>, <<Default(k), Default(m)>>},
             Info(probe, q), probe \in Checked \/ (probe = k /\ m = k)
      PROVE  Kinds
  <2>1. PICK p : /\ Does("httpd", "info", "write", p) /\ Same /\ job["httpd"] = Idle
                 /\ (p = q /\ seen[probe] = Missing) \/ p = <<>>
    BY <1>5 DEF Info, Accepts, Same
  <2>2. p # <<>> => (\E c \in Checked : seen[c] = Missing) \/ (seen[k] = Missing /\ m = k)
    BY <1>5, <2>1
  <2> QED
    BY <1>1, <1>2, <1>5, <2>1, <2>2, FillStarts
<1>6. CASE DevInfo
  BY <1>5, <1>6 DEF DevInfo, Checked
<1>7. CASE SerialSetInfo
  BY <1>5, <1>7 DEF SerialSetInfo, Checked
<1>8. CASE TcpInfo \/ HttpInfo
  BY <1>5, <1>8 DEF TcpInfo, HttpInfo, Checked
<1>9. CASE NetSetInfo
  BY <1>5, <1>9 DEF NetSetInfo, Checked
<1>10. CASE ModuleSetInfo \/ WebLogin
  BY <1>5, <1>10 DEF ModuleSetInfo, WebLogin, Checked
<1>11. CASE ApSetInfo
  BY <1>5, <1>11 DEF ApSetInfo, Checked
<1>12. CASE WorkModeSet
  <2>1. Does("httpd", "mode", "write", Asked("mode")) /\ Same /\ job["httpd"] = Idle
    BY <1>12 DEF WorkModeSet, Accepts, Same
  <2> QED
    BY <1>1, <1>2, <2>1, AskStarts
<1>13. CASE WorkModeConfig
  <2>1. job["httpd"].op = "mode" /\ job["httpd"].at = "validate" /\ Same
    BY <1>13 DEF WorkModeConfig, At, Same
  <2>2. CASE Goes("httpd", "commit")
    <3> DEFINE j == [job["httpd"] EXCEPT !.at = "commit"]
    <3>1. job["httpd"] \in Jobs /\ job' = [job EXCEPT !["httpd"] = j]
      BY <1>2, <2>2 DEF Goes, IInv, Shape
    <3>2. /\ j \in Jobs /\ j.op = "mode" /\ j.at = "commit" /\ j.todo = job["httpd"].todo
          /\ j.wrote = job["httpd"].wrote /\ j.stale = job["httpd"].stale
      BY <2>1, <3>1 DEF Jobs
    <3> HIDE DEF j
    <3>3. Proceeds("httpd", j)
      BY <2>1, <3>1, <3>2 DEF Proceeds, Pending, Resets
    <3> QED
      BY <1>2, <3>2, <3>3 DEF Kinds
  <2>3. CASE job' = [job EXCEPT !["httpd"] = Idle]
    <3>1. Ends("httpd")
      BY <2>1, <2>3 DEF Ends, Resets
    <3> QED
      BY <1>2, <3>1 DEF Kinds
  <2> QED
    BY <1>13, <2>2, <2>3 DEF WorkModeConfig
<1>14. CASE Operate
  <2> DEFINE e == Kept("w_mode")
  <2>1. PICK at : /\ at \in {"write", "done"} /\ Does("httpd", "operate", at, <<e>>)
                  /\ Same /\ job["httpd"] = Idle
    BY <1>14 DEF Operate, Accepts, Same
  <2>2. e.key = "w_mode" /\ e.val = (IF seen["w_mode"] = Missing THEN "default" ELSE seen["w_mode"])
    BY DEF Kept, Entry
  <2> HIDE DEF e
  <2>3. EntryFits("httpd", "operate", e) /\ StartFits("operate", e)
    BY <2>2 DEF EntryFits, StartFits, Fillers, Requests, Pages, Refuses, Resets
  <2>4. \A i \in DOMAIN <<e>> : <<e>>[i] = e
    OBVIOUS
  <2>5. "operate" \notin Resets /\ "operate" \notin Requests
    BY DEF Resets, Requests, Pages, Refuses
  <2>6. \A i \in DOMAIN <<e>> : EntryFits("httpd", "operate", <<e>>[i]) /\ StartFits("operate", <<e>>[i])
    BY <2>3, <2>4
  <2>7. Starts("httpd", job'["httpd"])
    BY <1>2, <2>1, <2>5, <2>6, StartsWith
  <2> QED
    BY <1>1, <1>2, <2>7
<1>15. CASE Restore
  <2>1. Does("httpd", "restore", "read", <<>>) /\ Same /\ job["httpd"] = Idle
    BY <1>15 DEF Restore, Accepts, Same
  <2> QED
    BY <1>1, <1>2, <2>1, EmptyStarts
<1>16. CASE UdpLogin
  <2>1. PICK p : /\ Does("udp", "login", "write", p) /\ Same /\ job["udp"] = Idle
                 /\ (p = <<Default("lgname")>> /\ seen["lgname"] = Missing) \/ p = <<>>
    BY <1>16 DEF UdpLogin, Accepts, Same
  <2>2. /\ "lgname" \in Checked \cup {"baud_rate"} /\ "lgname" # "device_sn" /\ "lgname" # "baud_rate"
        /\ "login" \in {"info", "login"} \cap OpsOf("udp") /\ "udp" \in {"httpd", "udp"}
    BY <1>2 DEF Checked
  <2>3. p \in {<<>>, <<Default("lgname")>>, <<Default("lgname"), Default("lgname")>>}
    BY <2>1
  <2>4. p # <<>> => seen["lgname"] = Missing
    BY <2>1
  <2>5. Starts("udp", job'["udp"])
    BY <2>1, <2>2, <2>3, <2>4, FillStarts
  <2> QED
    BY <1>1, <1>2, <2>5
<1>17. CASE UdpIdentity
  <2>1. Does("udp", "identity", "write", Asked("identity")) /\ Same /\ job["udp"] = Idle
    BY <1>17 DEF UdpIdentity, Accepts, Same
  <2> QED
    BY <1>1, <1>2, <2>1, AskStarts
<1>18. CASE UdpNetwork
  <2> DEFINE q == <<Entry("host_names", "udp"), Entry("primary_dns", "udp")>>
  <2>1. Does("udp", "network", "write", q) /\ Same /\ job["udp"] = Idle
    BY <1>18 DEF UdpNetwork, Accepts, Same
  <2>2. \A i \in DOMAIN q : q[i] = Entry("host_names", "udp") \/ q[i] = Entry("primary_dns", "udp")
    BY FewEntries
  <2>3. \A e : e = Entry("host_names", "udp") \/ e = Entry("primary_dns", "udp") =>
          EntryFits("udp", "network", e) /\ StartFits("network", e)
    BY <1>2 DEF EntryFits, StartFits, Fillers, Resets, Entry, Own
  <2> HIDE DEF q
  <2>4. "network" \notin Resets
    BY DEF Resets
  <2>5. \A i \in DOMAIN q : EntryFits("udp", "network", q[i]) /\ StartFits("network", q[i])
    BY <2>2, <2>3
  <2>6. Starts("udp", job'["udp"])
    BY <1>2, <2>1, <2>4, <2>5, StartsWith
  <2> QED
    BY <1>1, <1>2, <2>6
<1>19. CASE UdpReboot
  <2>1. Does("udp", "restart", "restart", <<>>) /\ Same /\ job["udp"] = Idle
    BY <1>19 DEF UdpReboot, Accepts, Same
  <2>2. "restart" \notin Resets
    BY DEF Resets
  <2> QED
    BY <1>1, <1>2, <2>1, <2>2, EmptyStarts
<1>20. CASE MqttConfig
  <2>1. Does("mqtt", "config", "write", Asked("config")) /\ Same /\ job["mqtt"] = Idle
    BY <1>20 DEF MqttConfig, Accepts, Same
  <2> QED
    BY <1>1, <1>2, <2>1, AskStarts
<1> QED
  BY <1>3, <1>4, <1>6, <1>7, <1>8, <1>9, <1>10, <1>11, <1>12, <1>13, <1>14, <1>15, <1>16, <1>17, <1>18,
     <1>19, <1>20 DEF Web

\* app_main.
LEMMA MainKind == ASSUME IInv, Contents, MainStep PROVE Kinds
<1> USE DEF nvsVars, keyVars, ghostVars
<1>1. \A t \in Tasks : job'[t] \in Jobs /\ (Starts(t, job'[t]) \/ Proceeds(t, job'[t]) => Kinds)
  <2>1. \A t \in Tasks : job'[t] \in Jobs
    BY NextIInv DEF IInv, Shape, Next
  <2> QED
    BY <2>1 DEF Kinds
<1>2. /\ "main" \in Tasks
      /\ \A op \in MainOps : op \in OpsOf("main") /\ op \notin Resets /\ op \notin Requests
      /\ "defaults" \in MainOps /\ "migrate" \in MainOps /\ "uart" \in MainOps /\ "boot" \in MainOps
      /\ "run" \in MainOps
  BY DEF Tasks, OpsOf, MainOps, Resets, Requests, Pages, Refuses
<1>3. ASSUME NEW at, Goes("main", at), Same PROVE Kinds
  <2> DEFINE j == [job["main"] EXCEPT !.at = at]
  <2>1. job["main"] \in Jobs /\ job' = [job EXCEPT !["main"] = j] /\ job["main"].op \in MainOps
    BY <1>2, <1>3 DEF Goes, IInv, Shape, Roles
  <2>2. /\ j.op = job["main"].op /\ j.todo = job["main"].todo
        /\ j.wrote = job["main"].wrote /\ j.stale = job["main"].stale
    BY <2>1 DEF Jobs
  <2>3. job'["main"] = j
    BY <1>2, <2>1 DEF IInv, Shape
  <2> HIDE DEF j
  <2>4. Proceeds("main", j)
    BY <1>2, <1>3, <2>1, <2>2 DEF Proceeds, Pending, MainOps
  <2> QED
    BY <1>1, <1>2, <2>3, <2>4
<1>4. CASE NvsInit \/ KeyIsDown \/ LetGo
  <2>1. PICK at : Goes("main", at) /\ Same
    BY <1>4 DEF NvsInit, KeyIsDown, LetGo, Same
  <2> QED
    BY <1>3, <2>1
<1>5. CASE RestartErased \/ HeldForTwoSeconds
  BY <1>5 DEF RestartErased, Kinds
<1>6. CASE StartTimers \/ StartServices \/ Runs
  <2>1. PICK op \in MainOps : /\ Same /\ op # "defaults"
                             /\ \E at \in {"key", "net", "run"} : Does("main", op, at, <<>>)
    BY <1>2, <1>6 DEF StartTimers, StartServices, Runs, Same
  <2> QED
    BY <1>1, <1>2, <2>1, EmptyStarts
<1>7. ASSUME NEW op \in MainOps, NEW q, Does("main", op, "write", q), Same, op = "defaults" => Booting,
             \A i \in DOMAIN q : EntryFits("main", op, q[i]) /\ StartFits(op, q[i])
      PROVE  Kinds
  BY <1>1, <1>2, <1>7, StartsWith
<1>8. CASE Migrate
  <2>1. PICK q : /\ Does("main", "migrate", "write", q) /\ Same
                 /\ (q = <<Entry("w_mode", "old")>> /\ seen["w_mode"] = Missing) \/ q = <<>>
    BY <1>8 DEF Migrate, Same
  <2>2. \A i \in DOMAIN q : q[i].key = "w_mode" /\ seen["w_mode"] = Missing
    BY <2>1 DEF Entry
  <2>3. \A i \in DOMAIN q : EntryFits("main", "migrate", q[i]) /\ StartFits("migrate", q[i])
    BY <1>2, <2>2 DEF EntryFits, StartFits, Fillers
  <2> QED
    BY <1>2, <1>7, <2>1, <2>3
<1>9. CASE UartInit
  <2>1. PICK q : q \in {<<Default("baud_rate")>>, <<>>} /\ Does("main", "uart", "write", q) /\ Same
    BY <1>9 DEF UartInit, Same
  <2>2. \A i \in DOMAIN q : q[i].key = "baud_rate" /\ q[i].val = "default"
    BY <2>1 DEF Default, Entry
  <2>3. \A i \in DOMAIN q : EntryFits("main", "uart", q[i]) /\ StartFits("uart", q[i])
    BY <1>2, <2>2 DEF EntryFits, StartFits, Fillers
  <2> QED
    BY <1>2, <1>7, <2>1, <2>3
<1>10. CASE CheckSettings
  <2> DEFINE all == <<Default("static_dns1"), Default("use_tcp"), Default("ap_name"),
                      Default("host_names"), Default("lgname"), Kept("device_type"), Kept("device_sn")>>
             one == IF \E k \in Checked : seen[k] = Missing THEN all ELSE <<>>
             two == IF seen["w_mode"] = Missing THEN <<Default("w_mode")>> ELSE <<>>
  <2>1. Booting /\ Does("main", "defaults", "write", one \o two) /\ Same
    BY <1>10 DEF CheckSettings, At, Booting, Same
  <2>2. \A i \in 1..7 : EntryFits("main", "defaults", all[i])
                        /\ (all[i].key = "device_sn" => all[i] = Kept("device_sn"))
    <3>1. \A k \in Keys : EntryFits("main", "defaults", Default(k)) /\ EntryFits("main", "defaults", Kept(k))
                          /\ Default(k).key = k /\ Kept(k).key = k
      BY <1>2 DEF EntryFits, Fillers, Default, Kept, Entry
    <3> QED
      BY <3>1 DEF Keys, Checked
  <2>3. Kept("device_sn").val = seen["device_sn"] \/ seen["device_sn"] = Missing
    BY DEF Kept, Entry
  <2>4. Len(all) = 7 /\ DOMAIN all = 1..7
    OBVIOUS
  <2> HIDE DEF all
  <2>5. \A i \in DOMAIN one : EntryFits("main", "defaults", one[i]) /\ StartFits("defaults", one[i])
    BY <2>2, <2>3, <2>4 DEF StartFits
  <2>6. \A i \in DOMAIN two : EntryFits("main", "defaults", two[i]) /\ StartFits("defaults", two[i])
    <3>1. \A i \in DOMAIN two : two[i].key = "w_mode" /\ seen["w_mode"] = Missing
      BY DEF Default, Entry
    <3> QED
      BY <1>2, <3>1 DEF EntryFits, StartFits, Fillers
  <2>7. one \in Seq(Writes) /\ two \in Seq(Writes)
    <3>1. \A k \in Keys : Default(k) \in Writes /\ Kept(k) \in Writes
      <4> SUFFICES ASSUME NEW k \in Keys PROVE Default(k) \in Writes /\ Kept(k) \in Writes
        OBVIOUS
      <4>1. seen[k] \in Values
        BY DEF IInv, Shape
      <4> QED
        BY <4>1, OneWrite DEF Default, Kept, Values, Missing
    <3>2. all \in Seq(Writes)
      BY <3>1 DEF all, Keys, Checked
    <3> QED
      BY <3>1, <3>2 DEF Keys
  <2> HIDE DEF one, two
  <2>8. \A i \in DOMAIN (one \o two) : EntryFits("main", "defaults", (one \o two)[i])
                                       /\ StartFits("defaults", (one \o two)[i])
    <3> SUFFICES ASSUME NEW i \in DOMAIN (one \o two)
                 PROVE  \/ \E m \in DOMAIN one : (one \o two)[i] = one[m]
                        \/ \E m \in DOMAIN two : (one \o two)[i] = two[m]
      BY <2>5, <2>6
    <3>1. Len(one) \in Nat /\ Len(two) \in Nat /\ i \in 1..(Len(one) + Len(two))
          /\ DOMAIN one = 1..Len(one) /\ DOMAIN two = 1..Len(two)
      BY <2>7
    <3>2. CASE i <= Len(one)
      BY <2>7, <3>1, <3>2
    <3>3. CASE i > Len(one)
      <4>1. (one \o two)[i] = two[i - Len(one)] /\ i - Len(one) \in DOMAIN two
        BY <2>7, <3>1, <3>3
      <4> QED
        BY <4>1
    <3> QED
      BY <3>1, <3>2, <3>3
  <2> QED
    BY <1>2, <1>7, <2>1, <2>8
<1> QED
  BY <1>4, <1>5, <1>6, <1>8, <1>9, <1>10 DEF MainStep

\* The key, and what goes on within a job.
LEMMA KeyKind == ASSUME IInv, Contents, Press \/ Hold \/ Release PROVE Kinds
<1> USE DEF nvsVars, ghostVars
<1>1. CASE UNCHANGED job
  BY <1>1 DEF Press, Hold, Release, Kinds, Same
<1>2. CASE ~UNCHANGED job
  <2>1. PICK op \in {"restart", "reset"} : /\ Same /\ job["reset"] = Idle
          /\ Does("reset", op, IF op = "reset" THEN "read" ELSE "restart", <<>>)
    BY <1>2 DEF Press, Hold, Release, Same
  <2>2. "reset" \in Tasks /\ op \in OpsOf("reset") /\ op \notin Requests /\ op # "defaults"
        /\ (op \in Resets <=> op = "reset")
    BY DEF Tasks, OpsOf, Requests, Pages, Refuses, Resets
  <2>3. job'["reset"] \in Jobs
    BY NextIInv DEF IInv, Shape, Next, Tasks
  <2>4. Starts("reset", job'["reset"])
    BY <2>1, <2>2, EmptyStarts
  <2> QED
    BY <2>2, <2>3, <2>4 DEF Kinds
<1> QED
  BY <1>1, <1>2

\* After the last set, after a failed call that is answered, after the reply.
LEMMA JobKind ==
  ASSUME IInv, Contents, NEW t \in Tasks, Written(t) \/ FailRefuses(t) \/ ReplyOnly(t) \/ Reinit(t)
  PROVE  Kinds
<1> USE DEF nvsVars, keyVars, ghostVars
<1>1. Same /\ job[t] \in Jobs
  BY DEF Written, FailRefuses, ReplyOnly, Reinit, Same, IInv, Shape
<1>2. CASE FailRefuses(t) \/ ReplyOnly(t)
  <2>1. job[t].op \in Refuses \cup {"info", "login"} /\ job' = [job EXCEPT ![t] = Idle]
    BY <1>2 DEF FailRefuses, ReplyOnly
  <2>2. t # "main" /\ job[t].op \notin Resets
    BY <2>1 DEF IInv, Roles, MainOps, Refuses, Resets
  <2> QED
    BY <1>1, <2>1, <2>2 DEF Kinds, Ends
<1>3. CASE Reinit(t)
  <2> DEFINE j == [job[t] EXCEPT !.at = "write", !.stale = FALSE]
  <2>1. /\ job[t].op \in Resets /\ job[t].at = "reinit" /\ job' = [job EXCEPT ![t] = j]
    BY <1>3 DEF Reinit, Resets, IInv, Shape
  <2>2. /\ j \in Jobs /\ j.op = job[t].op /\ j.todo = job[t].todo
        /\ j.at = "write" /\ j.wrote = job[t].wrote
    BY <1>1 DEF Jobs
  <2> HIDE DEF j
  <2>3. Proceeds(t, j)
    BY <1>1, <2>1, <2>2 DEF Proceeds, Pending, Resets, Requests, Pages, Refuses
  <2> QED
    BY <2>2, <2>3 DEF Kinds
<1>4. CASE Written(t)
  <2> DEFINE j == [job[t] EXCEPT !.at = job'[t].at]
  <2>1. /\ job[t].at = "write" /\ job[t].todo = <<>> /\ Goes(t, job'[t].at)
        /\ job'[t].at \in {"done", "validate", "commit"}
        /\ job[t].op \in Requests /\ job'[t].at = "done" => job[t].wrote = {}
    BY <1>4 DEF Written, Goes, IInv, Shape, Jobs, Requests, Pages, Refuses
  <2>2. job' = [job EXCEPT ![t] = j]
    BY <2>1 DEF Goes, IInv, Shape
  <2>3. /\ j \in Jobs /\ j.op = job[t].op /\ j.todo = job[t].todo
        /\ j.at = job'[t].at /\ j.wrote = job[t].wrote /\ j.stale = job[t].stale
    BY <1>1, <2>1 DEF Jobs
  <2> HIDE DEF j
  <2>4. Proceeds(t, j)
    BY <1>1, <2>1, <2>2, <2>3 DEF Proceeds, Pending
  <2> QED
    BY <2>3, <2>4 DEF Kinds
<1> QED
  BY <1>2, <1>3, <1>4

\* Every step is of one of the kinds.
LEMMA EveryKind == ASSUME IInv, Contents, [Next]_vars PROVE Kinds
<1>1. CASE ServicesFail \/ PowerLoss \/ NvsUnusable
  BY <1>1 DEF ServicesFail, PowerLoss, Kinds
<1>2. ASSUME NEW t \in Tasks, Step(t) \/ Failure(t) PROVE Kinds
  <2>1. CASE Restarts(t) \/ FailAborts(t)
    BY <2>1 DEF Restarts, FailAborts, Kinds
  <2>2. CASE Written(t) \/ FailRefuses(t) \/ ReplyOnly(t) \/ Reinit(t)
    BY <2>2, JobKind
  <2>3. CASE Set(t) \/ Commit(t) \/ Reply(t) \/ ReadKept(t) \/ EraseAll(t) \/ FailSkips(t)
    BY <2>3 DEF Kinds
  <2> QED
    BY <1>2, <2>1, <2>2, <2>3 DEF Step, Failure
<1>3. CASE UNCHANGED vars
  BY <1>3 DEF vars, nvsVars, ghostVars, Kinds, Same
<1> QED
  BY <1>1, <1>2, <1>3, MainKind, RequestKind, KeyKind DEF Next

-----------------------------------------------------------------------------
(* The contents of the jobs.                                                   *)

\* One task changes its job.
LEMMA OneFits ==
  ASSUME IInv, Contents, NEW t \in Tasks, NEW j, job' = [job EXCEPT ![t] = j], Fits(t, j) PROVE Contents'
<1>1. \A u \in Tasks : job'[u] = IF u = t THEN j ELSE job[u]
  BY DEF IInv, Shape
<1> QED
  BY <1>1 DEF Contents, Fits, EntryFits

\* Nothing to do fits every task but app_main.
LEMMA IdleFits == \A t \in Tasks \ {"main"} : Fits(t, Idle)
  BY DEF Fits, Idle, Job, OpsOf, Tasks

\* A restart begins with nothing in hand.
LEMMA RebootContents == ASSUME Reboot PROVE Contents'
<1>1. \A t \in Tasks : job'[t] = IF t = "main" THEN Job("boot", "init", <<>>) ELSE Idle
  BY DEF Reboot
<1>2. Fits("main", Job("boot", "init", <<>>))
  BY DEF Fits, Job, OpsOf, MainOps
<1>3. \A t \in Tasks : Fits(t, job'[t])
  BY <1>1, <1>2, IdleFits
<1> QED
  BY <1>3 DEF Contents, Fits, EntryFits

\* The contents stay what the task may write.
LEMMA KindContents == ASSUME IInv, Contents, Kinds PROVE Contents'
<1>1. \A t \in Tasks : job[t] \in Jobs /\ Fits(t, job[t])
  BY DEF IInv, Shape, Contents
<1>2. CASE Reboot
  BY <1>2, RebootContents
<1>3. ASSUME NEW t \in Tasks, NEW at, Goes(t, at) PROVE Contents'
  <2> DEFINE j == [job[t] EXCEPT !.at = at]
  <2>1. job' = [job EXCEPT ![t] = j]
    BY <1>3 DEF Goes, IInv, Shape
  <2>2. j.op = job[t].op /\ j.todo = job[t].todo /\ j.wrote = job[t].wrote
    BY <1>1 DEF Jobs
  <2> HIDE DEF j
  <2>3. Fits(t, j)
    BY <1>1, <2>2 DEF Fits
  <2> QED
    BY <2>1, <2>3, OneFits
<1>4. CASE NvsUnusable \/ HeldForTwoSeconds
  BY <1>3, <1>4 DEF NvsUnusable, HeldForTwoSeconds, Tasks
<1>5. CASE SerialFill \/ UNCHANGED job
  BY <1>5 DEF SerialFill, Contents, Fits, EntryFits
<1>6. ASSUME NEW t \in Tasks, NEW j \in Jobs, Starts(t, j) \/ Proceeds(t, j) PROVE Contents'
  <2>1. job' = [job EXCEPT ![t] = j] /\ Fits(t, j)
    BY <1>1, <1>6 DEF Starts, Proceeds, Fits
  <2> QED
    BY <2>1, OneFits
<1>7. ASSUME NEW t \in Tasks, t # "main", job' = [job EXCEPT ![t] = Idle] PROVE Contents'
  BY <1>7, IdleFits, OneFits
<1>8. ASSUME NEW t \in Tasks, Commit(t) \/ Reply(t) PROVE Contents'
  <2>1. CASE Commit(t)
    BY <1>3, <2>1 DEF Commit
  <2>2. CASE Reply(t)
    <3>1. t # "main"
      BY <2>2 DEF Reply, IInv, Roles, MainOps, Requests, Pages, Refuses
    <3> QED
      BY <1>3, <1>7, <2>2, <3>1 DEF Reply
  <2> QED
    BY <1>8, <2>1, <2>2
<1>9. ASSUME NEW t \in Tasks, Set(t) PROVE Contents'
  <2> DEFINE e == Next1(t)
             j == [job[t] EXCEPT !.todo = Tail(@), !.wrote = @ \cup {e.key}]
  <2>1. job' = [job EXCEPT ![t] = j] /\ job[t].todo # <<>>
    BY <1>9 DEF Set, IInv, Shape
  <2>2. /\ 1 \in DOMAIN job[t].todo /\ e = job[t].todo[1]
        /\ \A i \in DOMAIN Tail(job[t].todo) :
             i + 1 \in DOMAIN job[t].todo /\ Tail(job[t].todo)[i] = job[t].todo[i + 1]
    BY <2>1, NextWrite DEF IInv
  <2> HIDE DEF e
  <2>3. j.op = job[t].op /\ j.todo = Tail(job[t].todo) /\ j.wrote = job[t].wrote \cup {e.key}
    BY <1>1 DEF Jobs
  <2> HIDE DEF j
  <2>4. t = "udp" => e.key # "w_mode"
    BY <1>1, <2>2 DEF Fits, EntryFits
  <2>5. Fits(t, j)
    BY <1>1, <2>2, <2>3, <2>4 DEF Fits
  <2> QED
    BY <2>1, <2>5, OneFits
<1>10. ASSUME NEW t \in Tasks, ReadKept(t) PROVE Contents'
  <2> DEFINE j == [job[t] EXCEPT !.at = "erase", !.todo = KeptBy(job[t].op)]
  <2>1. job' = [job EXCEPT ![t] = j] /\ job[t].op \in Resets
    BY <1>10 DEF ReadKept, IInv, Shape, Resets
  <2>2. j.op = job[t].op /\ j.todo = KeptBy(job[t].op) /\ j.wrote = job[t].wrote
    BY <1>1 DEF Jobs
  <2> HIDE DEF j
  <2>3. \A i \in DOMAIN KeptBy(job[t].op) : KeptBy(job[t].op)[i].key \in {"device_sn", "device_type"}
    BY DEF KeptBy, Saved, Entry
  <2>4. job[t].op \notin {"info", "login", "uart", "operate"} /\ job[t].op \notin Requests
    BY <2>1 DEF Resets, Requests, Pages, Refuses
  <2>5. Fits(t, j)
    BY <1>1, <2>1, <2>2, <2>3, <2>4 DEF Fits, EntryFits, Resets
  <2> QED
    BY <2>1, <2>5, OneFits
<1>11. ASSUME NEW t \in Tasks, EraseAll(t) PROVE Contents'
  <2>1. \A u \in Tasks : job'[u].op = job[u].op /\ job'[u].todo = job[u].todo
                         /\ job'[u].wrote = job[u].wrote
    BY <1>1, <1>11 DEF EraseAll, Stale, Jobs
  <2> QED
    BY <1>1, <2>1 DEF Contents, Fits, EntryFits
<1>12. ASSUME NEW t \in Tasks, FailSkips(t) PROVE Contents'
  <2>1. CASE job[t].at = "write"
    <3> DEFINE j == [job[t] EXCEPT !.todo = Tail(@)]
    <3>1. job' = [job EXCEPT ![t] = j] /\ job[t].todo # <<>>
      BY <1>12, <2>1 DEF FailSkips, Fails, IInv, Shape
    <3>2. \A i \in DOMAIN Tail(job[t].todo) :
             i + 1 \in DOMAIN job[t].todo /\ Tail(job[t].todo)[i] = job[t].todo[i + 1]
      BY <3>1, NextWrite DEF IInv
    <3>3. j.op = job[t].op /\ j.todo = Tail(job[t].todo) /\ j.wrote = job[t].wrote
      BY <1>1 DEF Jobs
    <3> HIDE DEF j
    <3>4. Fits(t, j)
      BY <1>1, <3>2, <3>3 DEF Fits
    <3> QED
      BY <3>1, <3>4, OneFits
  <2>2. CASE job[t].at # "write" /\ job[t].op = "config"
    BY <1>7, <1>12, <2>2 DEF FailSkips, IInv, Roles, MainOps
  <2>3. CASE job[t].at # "write" /\ job[t].op # "config"
    BY <1>3, <1>12, <2>3 DEF FailSkips
  <2> QED
    BY <2>1, <2>2, <2>3
<1> QED
  BY <1>2, <1>4, <1>5, <1>6, <1>7, <1>8, <1>9, <1>10, <1>11, <1>12 DEF Kinds, Ends

\* Every task stays with its own kind of work.
LEMMA AllContents == Spec => []Contents
<1>1. Init => Contents
  <2> SUFFICES ASSUME Init PROVE Contents
    OBVIOUS
  <2>1. \A t \in Tasks : job[t] = IF t = "main" THEN Job("boot", "init", <<>>) ELSE Idle
    BY DEF Init
  <2>2. Fits("main", Job("boot", "init", <<>>))
    BY DEF Fits, Job, OpsOf, MainOps
  <2> QED
    BY <2>1, <2>2, IdleFits DEF Contents
<1>2. IInv /\ Contents /\ [Next]_vars => Contents'
  BY EveryKind, KindContents
<1> QED
  BY <1>1, <1>2, Invariance, PTL DEF Spec

\* One nvs_set_str, with what is left to write.
LEMMA SetFacts ==
  ASSUME IInv, Contents, NEW t \in Tasks, Set(t)
  PROVE  \E e \in [key : Keys, val : Values \ {Missing}], j \in Jobs :
           /\ job' = [job EXCEPT ![t] = j] /\ e = Next1(t) /\ job[t].todo # <<>>
           /\ job'[t] = j /\ \A u \in Tasks \ {t} : job'[u] = job[u]
           /\ j.op = job[t].op /\ j.at = "write" /\ job[t].at = "write" /\ ~j.stale /\ ~job[t].stale
           /\ j.wrote = job[t].wrote \cup {e.key} /\ EntryFits(t, j.op, e)
           /\ \E i \in DOMAIN job[t].todo : job[t].todo[i] = e
           /\ \A i \in DOMAIN j.todo : \E m \in DOMAIN job[t].todo : j.todo[i] = job[t].todo[m]
           /\ \A m \in DOMAIN job[t].todo :
                job[t].todo[m] = e \/ \E i \in DOMAIN j.todo : j.todo[i] = job[t].todo[m]
           /\ seen' = [seen EXCEPT ![e.key] = e.val]
           /\ seen'[e.key] = e.val /\ \A k \in Keys \ {e.key} : seen'[k] = seen[k]
           /\ UNCHANGED <<flash, complete>>
<1> DEFINE e == Next1(t)
           j == [job[t] EXCEPT !.todo = Tail(@), !.wrote = @ \cup {e.key}]
<1>1. /\ job[t].at = "write" /\ job[t].todo # <<>> /\ ~job[t].stale
      /\ seen' = [seen EXCEPT ![e.key] = e.val] /\ job' = [job EXCEPT ![t] = j]
      /\ UNCHANGED <<flash, complete>>
  BY DEF Set, IInv, Shape
<1>2. /\ e \in [key : Keys, val : Values] /\ e.val # Missing
      /\ 1 \in DOMAIN job[t].todo /\ e = job[t].todo[1]
      /\ Tail(job[t].todo) \in Seq([key : Keys, val : Values])
      /\ \A i \in DOMAIN Tail(job[t].todo) :
           i + 1 \in DOMAIN job[t].todo /\ Tail(job[t].todo)[i] = job[t].todo[i + 1]
      /\ \A i \in DOMAIN job[t].todo \ {1} :
           i - 1 \in DOMAIN Tail(job[t].todo) /\ Tail(job[t].todo)[i - 1] = job[t].todo[i]
  BY <1>1, NextWrite DEF IInv
<1> HIDE DEF e
<1>3. /\ j \in Jobs /\ j.op = job[t].op /\ j.at = "write" /\ j.stale = job[t].stale
      /\ j.todo = Tail(job[t].todo) /\ j.wrote = job[t].wrote \cup {e.key}
  BY <1>1, <1>2 DEF IInv, Shape, Jobs
<1> HIDE DEF j
<1>4. job'[t] = j /\ \A u \in Tasks \ {t} : job'[u] = job[u]
  BY <1>1 DEF IInv, Shape
<1>5. e \in [key : Keys, val : Values \ {Missing}]
  BY <1>2
<1>6. EntryFits(t, j.op, e)
  BY <1>2, <1>3 DEF Contents, Fits
<1>7. /\ \A i \in DOMAIN j.todo : \E m \in DOMAIN job[t].todo : j.todo[i] = job[t].todo[m]
      /\ \A m \in DOMAIN job[t].todo :
           job[t].todo[m] = e \/ \E i \in DOMAIN j.todo : j.todo[i] = job[t].todo[m]
  <2>1. \A i \in DOMAIN j.todo : i + 1 \in DOMAIN job[t].todo /\ j.todo[i] = job[t].todo[i + 1]
    BY <1>2, <1>3
  <2>2. ASSUME NEW m \in DOMAIN job[t].todo
        PROVE  job[t].todo[m] = e \/ \E i \in DOMAIN j.todo : j.todo[i] = job[t].todo[m]
    <3>1. CASE m = 1
      BY <1>2, <3>1
    <3>2. CASE m # 1
      <4>1. m - 1 \in DOMAIN j.todo /\ j.todo[m - 1] = job[t].todo[m]
        BY <1>2, <1>3, <2>2, <3>2
      <4> QED
        BY <4>1
    <3> QED
      BY <3>1, <3>2
  <2>3. ASSUME NEW i \in DOMAIN j.todo PROVE \E m \in DOMAIN job[t].todo : j.todo[i] = job[t].todo[m]
    BY <2>1
  <2> QED
    BY <2>2, <2>3
<1>8. seen'[e.key] = e.val /\ \A k \in Keys \ {e.key} : seen'[k] = seen[k]
  BY <1>1, <1>2 DEF IInv, Shape
<1>9. e = Next1(t)
  BY DEF e
<1> QED
  BY <1>1, <1>2, <1>3, <1>4, <1>5, <1>6, <1>7, <1>8, <1>9

-----------------------------------------------------------------------------
(* Types.                                                                      *)

\* What the properties remember.
Ghosts ==
  promised \in [Keys -> Values] /\ misled \subseteq Keys /\ complete \in BOOLEAN /\ sn \in Values

\* What the invariant says nothing of.
Rest ==
  /\ up \in BOOLEAN /\ old \in BOOLEAN
  /\ key \in {"up", "short", "mid", "long"} /\ timer \in BOOLEAN
  /\ Ghosts
  /\ events \in 0..MaxEvents

\* The count of what happens to the device.
LEMMA EventRest == ASSUME events \in 0..MaxEvents, Event \/ NoEvent PROVE events' \in 0..MaxEvents
  BY SettingsAssumption DEF Event, NoEvent

\* A restart, for the key and the timer.
LEMMA RebootRest ==
  ASSUME Rest, Reboot
  PROVE  up' \in BOOLEAN /\ old' \in BOOLEAN /\ key' \in {"up", "short", "mid", "long"} /\ timer' \in BOOLEAN
  BY DEF Rest, Reboot

\* The key, the timer and NVS itself.
LEMMA KeyRest ==
  ASSUME Rest, [Next]_vars
  PROVE  /\ up' \in BOOLEAN /\ old' \in BOOLEAN
         /\ key' \in {"up", "short", "mid", "long"} /\ timer' \in BOOLEAN
         /\ events' \in 0..MaxEvents
<1> DEFINE Kept5 == up' \in {up, TRUE, FALSE} /\ old' \in {old, FALSE}
                    /\ UNCHANGED <<key, timer>> /\ (Event \/ NoEvent)
<1>1. ASSUME Reboot, Event \/ NoEvent
      PROVE  /\ up' \in BOOLEAN /\ old' \in BOOLEAN
             /\ key' \in {"up", "short", "mid", "long"} /\ timer' \in BOOLEAN
             /\ events' \in 0..MaxEvents
  BY <1>1, EventRest, RebootRest DEF Rest
<1>2. CASE PowerLoss \/ ServicesFail \/ RestartErased \/ \E t \in Tasks : FailAborts(t) \/ Restarts(t)
  BY <1>1, <1>2 DEF PowerLoss, ServicesFail, RestartErased, FailAborts, Fails, Restarts
<1>3. CASE Kept5
  <2>1. events' \in 0..MaxEvents
    BY <1>3, EventRest DEF Rest
  <2> QED
    BY <1>3, <2>1 DEF Rest
<1> USE DEF nvsVars, keyVars
<1>4. CASE \E t \in Tasks : Set(t) \/ Written(t) \/ Commit(t) \/ Reply(t) \/ ReplyOnly(t)
                            \/ ReadKept(t) \/ EraseAll(t) \/ Reinit(t)
  BY <1>3, <1>4
  DEF Set, Written, Commit, Reply, ReplyOnly, ReadKept, EraseAll, Reinit, Erased, NoEvent
<1>5. CASE \E t \in Tasks : FailSkips(t) \/ FailRefuses(t)
  BY <1>3, <1>5 DEF FailSkips, FailRefuses, Fails
<1>6. CASE NvsUnusable \/ NvsInit \/ Migrate \/ KeyIsDown \/ LetGo \/ HeldForTwoSeconds
  BY <1>3, <1>6 DEF NvsUnusable, NvsInit, Migrate, KeyIsDown, LetGo, HeldForTwoSeconds, Erased, NoEvent
<1>7. CASE CheckSettings \/ StartServices \/ UartInit \/ Runs
  BY <1>3, <1>7 DEF CheckSettings, StartServices, UartInit, Runs, NoEvent
<1>8. CASE StartTimers \/ Press \/ Hold \/ Release
  <2>1. Event \/ NoEvent
    BY <1>8 DEF StartTimers, Press, Hold, Release, NoEvent
  <2>2. /\ timer' \in {timer, TRUE, FALSE} /\ key' \in {key, "up", "short", "mid", "long"}
        /\ UNCHANGED <<up, old>>
    BY <1>8 DEF StartTimers, Press, Hold, Release
  <2>3. events' \in 0..MaxEvents
    BY <2>1, EventRest DEF Rest
  <2> QED
    BY <2>2, <2>3 DEF Rest
<1>9. CASE UdpLogin \/ UdpIdentity \/ UdpNetwork \/ UdpReboot \/ MqttConfig
  BY <1>3, <1>9 DEF UdpLogin, UdpIdentity, UdpNetwork, UdpReboot, MqttConfig
<1>10. CASE DevInfo \/ SerialSetInfo \/ TcpInfo \/ HttpInfo \/ NetSetInfo \/ ModuleSetInfo \/ ApSetInfo
            \/ WebLogin
  <2>1. PICK probe, fill : Info(probe, fill)
    BY <1>10 DEF DevInfo, SerialSetInfo, TcpInfo, HttpInfo, NetSetInfo, ModuleSetInfo, ApSetInfo, WebLogin
  <2> QED
    BY <1>3, <2>1 DEF Info
<1>11. CASE \E page \in Pages : Post(page)
  BY <1>3, <1>11 DEF Post
<1>12. CASE \E page \in Pages : PostInPieces(page)
  BY <1>1, <1>3, <1>12 DEF PostInPieces
<1>13. CASE SerialFill \/ WorkModeSet \/ WorkModeConfig \/ Operate \/ Restore \/ UNCHANGED vars
  BY <1>3, <1>13 DEF SerialFill, WorkModeSet, WorkModeConfig, Operate, Restore, vars, NoEvent
<1> HIDE DEF Kept5
<1> QED
  BY <1>2, <1>4, <1>5, <1>6, <1>7, <1>8, <1>9, <1>10, <1>11, <1>12, <1>13
  DEF Next, MainStep, Web, Step, Failure

\* What was acknowledged, and the serial number to keep.
LEMMA GhostRest ==
  ASSUME IInv, Contents, Rest, Kinds
  PROVE  Ghosts'
<1>1. \A k \in Keys : flash[k] \in Values /\ seen[k] \in Values
  BY DEF IInv, Shape
<1>2. Blank \in [Keys -> Values] /\ Missing \in Values /\ "device_sn" \in Keys
  BY DEF Blank, Values, Keys, Checked
<1>3. CASE Same
  BY <1>3 DEF Same, Rest, Ghosts
<1>4. CASE Reboot
  <2>1. flash'["device_sn"] \in Values
    BY <1>1, <1>2, <1>4 DEF Reboot
  <2> QED
    BY <1>2, <1>4, <2>1 DEF Reboot, Rest, Ghosts
<1>5. CASE NvsUnusable \/ HeldForTwoSeconds \/ \E t \in Tasks : EraseAll(t)
  BY <1>2, <1>5 DEF NvsUnusable, HeldForTwoSeconds, EraseAll, Erased, Rest, Ghosts
<1>6. CASE SerialFill
  BY <1>6 DEF SerialFill, ghostVars, Rest, Ghosts
<1>7. ASSUME NEW t \in Tasks, Commit(t) \/ ReadKept(t) \/ FailSkips(t) PROVE Ghosts'
  BY <1>2, <1>7 DEF Commit, ReadKept, FailSkips, Rest, Ghosts
<1>8. ASSUME NEW t \in Tasks, Set(t) PROVE Ghosts'
  <2>1. PICK e \in [key : Keys, val : Values \ {Missing}] : e = Next1(t)
    BY <1>8, SetFacts
  <2>2. sn' \in {sn, Missing, e.val} /\ UNCHANGED complete
    BY <1>8, <2>1 DEF Set
  <2>3. promised' \in {promised, [promised EXCEPT ![e.key] = Missing]}
    BY <1>8, <2>1 DEF Set
  <2>4. misled' \subseteq misled \cup {e.key}
    BY <1>8, <2>1 DEF Set
  <2> QED
    BY <1>2, <2>1, <2>2, <2>3, <2>4 DEF Rest, Ghosts
<1>9. ASSUME NEW t \in Tasks, Reply(t) PROVE Ghosts'
  <2> DEFINE a == Asked(job[t].op)
  <2>1. UNCHANGED <<complete, sn>> /\ job[t].op \in Requests \cap OpsOf(t)
    BY <1>9 DEF Reply, Contents, Fits
  <2>2. CASE UNCHANGED <<promised, misled>>
    BY <2>1, <2>2 DEF Rest, Ghosts
  <2>3. CASE ~UNCHANGED <<promised, misled>>
    <3>1. /\ promised' = [k \in Keys |->
               IF (\E i \in DOMAIN a : a[i].key = k /\ (k \in job[t].wrote => seen[k] = a[i].val))
               THEN (CHOOSE e \in {a[i] : i \in DOMAIN a} : e.key = k).val ELSE promised[k]]
          /\ misled' = misled \cup ({a[i].key : i \in DOMAIN a} \ job[t].wrote)
      BY <1>9, <2>3 DEF Reply, Acknowledges
    <3>2. \A i \in DOMAIN a : a[i].key \in Keys /\ a[i].val = Own(t)
      BY <2>1, AskedEntries
    <3>3. Own(t) \in Values
      BY DEF Own, Values, Missing, Tasks
    <3> HIDE DEF a
    <3>4. ASSUME NEW k \in Keys, \E i \in DOMAIN a : a[i].key = k
          PROVE  (CHOOSE e \in {a[i] : i \in DOMAIN a} : e.key = k).val = Own(t)
      <4>1. PICK i \in DOMAIN a : a[i].key = k
        BY <3>4
      <4>2. (CHOOSE e \in {a[m] : m \in DOMAIN a} : e.key = k) \in {a[m] : m \in DOMAIN a}
        BY <4>1
      <4> QED
        BY <3>2, <4>2
    <3>5. promised' \in [Keys -> Values]
      BY <3>1, <3>3, <3>4 DEF Rest, Ghosts
    <3>6. misled' \subseteq Keys
      BY <3>1, <3>2 DEF Rest, Ghosts
    <3> QED
      BY <2>1, <3>5, <3>6 DEF Rest, Ghosts
  <2> QED
    BY <2>2, <2>3
<1> QED
  BY <1>3, <1>4, <1>5, <1>6, <1>7, <1>8, <1>9 DEF Kinds, Ends, Starts, Proceeds

\* Everything that is not about the jobs and the settings is well typed.
LEMMA AllRest == Spec => []Rest
<1>1. Init => Rest
  <2> SUFFICES ASSUME Init PROVE Rest
    OBVIOUS
  <2>1. promised = Blank /\ Blank \in [Keys -> Values] /\ "user" \in Values /\ Missing \in Values
    BY DEF Init, Blank, Values
  <2>2. old \in BOOLEAN /\ complete \in BOOLEAN
    BY DEF Init
  <2>3. sn \in {"user", Missing}
    BY DEF Init
  <2>4. up = FALSE /\ key = "up" /\ timer = FALSE /\ misled = {} /\ events = 0
    BY DEF Init
  <2>5. 0 \in 0..MaxEvents
    BY SettingsAssumption
  <2> QED
    BY <2>1, <2>2, <2>3, <2>4, <2>5 DEF Rest, Ghosts
<1>2. IInv /\ Contents /\ Rest /\ [Next]_vars => Rest'
  BY KeyRest, GhostRest, EveryKind DEF Rest, Ghosts
<1> QED
  BY <1>1, <1>2, Invariance, AllContents, PTL DEF Spec

\* Every key of NVS holds one of the values and every task is at a step of one
\* of its jobs, however requests, presses of the key, failures and restarts
\* follow each other.
THEOREM TypeCorrect == Spec => []TypeOK
<1>1. IInv /\ Rest => TypeOK
  BY DEF IInv, Shape, Rest, Ghosts, TypeOK
<1> QED
  BY <1>1, Invariance, AllRest, PTL


-----------------------------------------------------------------------------
(* The serial number.                                                          *)

HasSn(j)    == \E i \in DOMAIN j.todo : j.todo[i].key = "device_sn"
Holds(j, s) == \A i \in DOMAIN j.todo : j.todo[i].key = "device_sn" => j.todo[i].val = s

\* The number is visible, or a reset that has erased it is still to write it.
SnSeen == sn # Missing =>
  /\ seen["device_sn"] \in {Missing, sn}
  /\ seen["device_sn"] = sn \/ \E t \in Tasks : Pending(job[t])

\* A reset that is about to erase the number has read it.
SnSaved == sn # Missing => \A t \in Tasks : job[t].op \in Resets /\ job[t].at = "erase" =>
  Holds(job[t], sn) /\ HasSn(job[t])

\* The defaults that app_main writes keep the number.
SnDefaults == sn # Missing /\ job["main"].op = "defaults" /\ ~job["main"].stale => Holds(job["main"], sn)

\* app_main cannot go on writing defaults once a reset has erased the settings.
Past == {"reinit", "write", "commit", "done"}
MainStale ==
  job["main"].op = "defaults" /\ job["reset"].op = "reset" /\ job["reset"].at \in Past => job["main"].stale

SnInv == SnSeen /\ SnSaved /\ SnDefaults /\ MainStale

\* One task goes on, and the number stays what it is.
LEMMA SnKeeps ==
  ASSUME IInv, SnInv, NEW t \in Tasks, NEW j, job' = [job EXCEPT ![t] = j],
         sn' = sn, seen'["device_sn"] = seen["device_sn"],
         sn # Missing /\ Pending(job[t]) => Pending(j),
         sn # Missing /\ j.op \in Resets /\ j.at = "erase" => Holds(j, sn) /\ HasSn(j),
         sn # Missing /\ t = "main" /\ j.op = "defaults" /\ ~j.stale => Holds(j, sn),
         t = "main" /\ j.op = "defaults" /\ job["reset"].op = "reset" /\ job["reset"].at \in Past => j.stale,
         t = "reset" /\ j.op = "reset" /\ j.at \in Past /\ job["main"].op = "defaults" => job["main"].stale
  PROVE  SnInv'
<1>1. \A u \in Tasks : job'[u] = IF u = t THEN j ELSE job[u]
  BY DEF IInv, Shape
<1>2. "main" \in Tasks /\ "reset" \in Tasks
  BY DEF Tasks
<1>3. SnSeen'
  <2> SUFFICES ASSUME sn # Missing, seen["device_sn"] # sn PROVE \E u \in Tasks : Pending(job'[u])
    BY DEF SnInv, SnSeen, Pending
  <2>1. PICK u \in Tasks : Pending(job[u])
    BY DEF SnInv, SnSeen
  <2>2. Pending(job'[u])
    BY <1>1, <2>1
  <2> QED
    BY <2>2
<1>4. SnSaved'
  BY <1>1 DEF SnInv, SnSaved, Holds, HasSn
<1>5. SnDefaults'
  BY <1>1, <1>2 DEF SnInv, SnDefaults, Holds
<1>6. MainStale'
  BY <1>1, <1>2 DEF SnInv, MainStale
<1> QED
  BY <1>3, <1>4, <1>5, <1>6 DEF SnInv

\* Until app_main has checked the settings no reset has erased them.
LEMMA NoneBooting == ASSUME IInv, Booting, NEW t \in Tasks PROVE job[t].op \notin Resets
<1>1. ~Serving
  BY DEF Booting, Serving, At
<1>2. Idle.op = "none"
  BY DEF Idle, Job
<1> QED
  BY <1>1, <1>2 DEF IInv, Roles, BootClean, Resets, MainOps, Served, Tasks

\* While app_main writes defaults, only the key can have started a reset.
LEMMA DefaultsAlone ==
  ASSUME IInv, job["main"].op = "defaults" PROVE \A t \in Served : job[t] = Idle /\ job[t].op = "none"
  BY DEF IInv, Roles, Serving, At, Idle, Job

\* A restart outside the window leaves a number that can be seen.
LEMMA RebootSn == ASSUME IInv, SnInv, Reboot PROVE SnInv'
<1>1. \A t \in Tasks : job'[t] = IF t = "main" THEN Job("boot", "init", <<>>) ELSE Idle
  BY DEF Reboot
<1>2. /\ \A t \in Tasks : job'[t].op \notin Resets
      /\ job'["main"].op # "defaults"
  BY <1>1 DEF Job, Idle, Resets, Tasks
<1>3. SnSeen'
  <2> SUFFICES ASSUME sn' # Missing PROVE seen'["device_sn"] = sn'
    BY DEF SnSeen, Pending
  <2>1. ~Window /\ sn' = (IF "device_sn" \in Unsaved /\ sn # Missing THEN flash'["device_sn"] ELSE sn)
    BY DEF Reboot
  <2>2. seen' = flash' /\ flash'["device_sn"] \in {flash["device_sn"], seen["device_sn"]}
    BY DEF Reboot, Keys, Checked
  <2>3. CASE "device_sn" \in Unsaved
    BY <2>1, <2>2, <2>3
  <2>4. CASE "device_sn" \notin Unsaved
    <3>1. flash["device_sn"] = seen["device_sn"] /\ sn' = sn
      BY <2>1, <2>4 DEF Unsaved, Keys, Checked
    <3>2. \A t \in Tasks : ~Pending(job[t])
      BY <2>1 DEF Window, Pending, Resets
    <3> QED
      BY <2>2, <3>1, <3>2 DEF SnInv, SnSeen
  <2> QED
    BY <2>3, <2>4
<1>4. SnSaved' /\ SnDefaults'
  BY <1>2 DEF SnSaved, SnDefaults
<1>5. MainStale'
  BY <1>2 DEF MainStale
<1> QED
  BY <1>3, <1>4, <1>5 DEF SnInv

\* A job that is taken up, goes on or ends.
LEMMA JobSn ==
  ASSUME IInv, Contents, SnInv, NEW t \in Tasks,
         Ends(t) \/ \E j \in Jobs : Starts(t, j) \/ Proceeds(t, j)
  PROVE  SnInv'
<1>1. CASE Ends(t)
  <2>1. Idle.op = "none"
    BY DEF Idle, Job
  <2> QED
    BY <1>1, <2>1, SnKeeps DEF Ends, Same, Pending, Resets
<1>2. ASSUME NEW j \in Jobs, Starts(t, j) PROVE SnInv'
  <2>1. /\ job' = [job EXCEPT ![t] = j] /\ sn' = sn /\ seen' = seen /\ job[t].op \notin Resets
        /\ (j.op \in Resets => j.at = "read") /\ (j.op = "defaults" => Booting)
    BY <1>2 DEF Starts, Same
  <2>2. ~Pending(job[t])
    BY <2>1 DEF Pending
  <2>3. ASSUME sn # Missing, j.op = "defaults" PROVE Holds(j, sn)
    <3>1. \A u \in Tasks : ~Pending(job[u])
      BY <2>1, <2>3, NoneBooting DEF Pending
    <3>2. seen["device_sn"] = sn
      BY <2>3, <3>1 DEF SnInv, SnSeen
    <3> QED
      BY <1>2, <2>3, <3>2 DEF Starts, StartFits, Holds
  <2>4. j.op = "defaults" => job["reset"].op # "reset"
    BY <2>1, NoneBooting DEF Resets, Tasks
  <2>5. ~(j.op = "reset" /\ j.at \in Past)
    BY <2>1 DEF Past, Resets
  <2>6. ~(j.op \in Resets /\ j.at = "erase")
    BY <2>1
  <2> QED
    BY <2>1, <2>2, <2>3, <2>4, <2>5, <2>6, SnKeeps
<1>3. ASSUME NEW j \in Jobs, Proceeds(t, j) PROVE SnInv'
  <2>1. /\ job' = [job EXCEPT ![t] = j] /\ sn' = sn /\ seen' = seen
        /\ j.op = job[t].op /\ j.todo = job[t].todo
        /\ (j.stale = job[t].stale \/ j.op \in Resets)
        /\ (Pending(job[t]) => Pending(j))
        /\ (j.op \in Resets => j.at # "erase" /\ job[t].at \in {"reinit", "write", "commit"})
    BY <1>3 DEF Proceeds, Same
  <2>2. t = "main" /\ j.op = "defaults" => j.stale = job[t].stale
    BY <2>1 DEF Resets
  <2>3. t = "main" /\ j.op = "defaults" /\ ~j.stale /\ sn # Missing => Holds(j, sn)
    BY <2>1, <2>2 DEF SnInv, SnDefaults, Holds
  <2>4. t = "main" /\ j.op = "defaults" /\ job["reset"].op = "reset" /\ job["reset"].at \in Past => j.stale
    BY <2>1, <2>2 DEF SnInv, MainStale
  <2>5. t = "reset" /\ j.op = "reset" /\ job["main"].op = "defaults" => job["main"].stale
    BY <2>1 DEF SnInv, MainStale, Past, Resets
  <2> QED
    BY <2>1, <2>3, <2>4, <2>5, SnKeeps
<1> QED
  BY <1>1, <1>2, <1>3

\* One nvs_set_str: the number changes only where the invariant knows it.
LEMMA SetSn == ASSUME IInv, Contents, SnInv, NEW t \in Tasks, Set(t) PROVE SnInv'
<1>1. PICK e \in [key : Keys, val : Values \ {Missing}], j \in Jobs :
           /\ job' = [job EXCEPT ![t] = j] /\ e = Next1(t)
           /\ job'[t] = j /\ \A u \in Tasks \ {t} : job'[u] = job[u]
           /\ j.op = job[t].op /\ j.at = "write" /\ job[t].at = "write" /\ ~j.stale /\ ~job[t].stale
           /\ EntryFits(t, j.op, e)
           /\ \E i \in DOMAIN job[t].todo : job[t].todo[i] = e
           /\ \A i \in DOMAIN j.todo : \E m \in DOMAIN job[t].todo : j.todo[i] = job[t].todo[m]
           /\ \A m \in DOMAIN job[t].todo :
                job[t].todo[m] = e \/ \E i \in DOMAIN j.todo : j.todo[i] = job[t].todo[m]
           /\ seen'[e.key] = e.val /\ \A k \in Keys \ {e.key} : seen'[k] = seen[k]
  BY SetFacts
<1>2. "main" \in Tasks /\ "reset" \in Tasks /\ "device_sn" \in Keys
  BY DEF Tasks, Keys, Checked
<1>3. \A s : Holds(job[t], s) => Holds(j, s)
  BY <1>1 DEF Holds
<1>4. t = "main" /\ j.op = "defaults" => ~(job["reset"].op = "reset" /\ job["reset"].at \in Past)
  BY <1>1 DEF SnInv, MainStale
<1>5. t = "reset" /\ j.op = "reset" /\ job["main"].op = "defaults" => job["main"].stale
  BY <1>1 DEF SnInv, MainStale, Past
<1>6. ~(j.op \in Resets /\ j.at = "erase")
  BY <1>1
<1>7. CASE e.key # "device_sn"
  <2>1. sn' = sn /\ seen'["device_sn"] = seen["device_sn"]
    BY <1>1, <1>2, <1>7 DEF Set
  <2>2. Pending(job[t]) => Pending(j)
    BY <1>1, <1>7 DEF Pending
  <2>3. t = "main" /\ j.op = "defaults" /\ sn # Missing => Holds(j, sn)
    BY <1>1, <1>3 DEF SnInv, SnDefaults
  <2> QED
    BY <1>1, <1>4, <1>5, <1>6, <2>1, <2>2, <2>3, SnKeeps
<1>8. CASE e.key = "device_sn"
  <2>1. j.op \in Resets \cup {"identity", "defaults"}
    BY <1>1, <1>8 DEF EntryFits
  <2>2. seen'["device_sn"] = e.val /\ e.val # Missing
    BY <1>1, <1>8
  <2>3. sn' # Missing => sn' = e.val
    <3>1. CASE j.op = "defaults"
      <4>1. sn' = sn /\ t = "main"
        BY <1>1, <1>8, <3>1, Roster DEF Set, Contents, Fits
      <4>2. sn # Missing => Holds(job["main"], sn)
        BY <1>1, <3>1, <4>1 DEF SnInv, SnDefaults
      <4> QED
        BY <1>1, <1>8, <4>1, <4>2 DEF Holds
    <3>2. CASE j.op \in Resets \cup {"identity"}
      <4>1. (sn' = sn /\ sn = Missing) \/ sn' \in {Missing, e.val}
        BY <1>1, <1>8, <3>2 DEF Set, Resets
      <4> QED
        BY <4>1
    <3> QED
      BY <2>1, <3>1, <3>2
  <2>4. ASSUME sn' # Missing, j.op # "defaults"
        PROVE  \A u \in Tasks : ~(job[u].op \in Resets /\ job[u].at = "erase")
    BY <1>1, <1>8, <2>1, <2>4 DEF Set, Resets
  <2>5. ASSUME j.op = "defaults"
        PROVE  sn' = sn /\ \A u \in Tasks : job'[u].op = job[u].op /\ job'[u].at = job[u].at
    BY <1>1, <1>8, <2>5 DEF Set, Resets
  <2>6. SnSeen'
    BY <2>2, <2>3 DEF SnSeen
  <2>7. SnSaved'
    <3> SUFFICES ASSUME sn' # Missing, NEW u \in Tasks, job'[u].op \in Resets, job'[u].at = "erase"
                 PROVE  Holds(job'[u], sn') /\ HasSn(job'[u])
      BY DEF SnSaved, Holds, HasSn
    <3>1. u # t /\ job'[u] = job[u]
      BY <1>1
    <3>2. j.op = "defaults"
      BY <2>4, <3>1
    <3> QED
      BY <2>5, <3>1, <3>2 DEF SnInv, SnSaved
  <2>8. SnDefaults'
    <3> SUFFICES ASSUME sn' # Missing, job'["main"].op = "defaults", ~job'["main"].stale
                 PROVE  Holds(job'["main"], sn')
      BY DEF SnDefaults, Holds
    <3>1. CASE t = "main"
      BY <1>1, <1>3, <2>5, <3>1 DEF SnInv, SnDefaults
    <3>2. CASE t # "main"
      <4>1. job["main"].op = "defaults" /\ ~job["main"].stale
        BY <1>1, <1>2, <3>2
      <4>2. t \notin Served
        BY <1>1, <4>1, DefaultsAlone DEF Idle, Job
      <4>3. t = "reset" /\ j.op \in OpsOf(t)
        BY <1>1, <3>2, <4>2 DEF Served, Tasks, Contents, Fits
      <4>4. j.op = "reset"
        BY <2>1, <4>3, Roster
      <4> QED
        BY <1>5, <4>1, <4>3, <4>4
    <3> QED
      BY <3>1, <3>2
  <2>9. MainStale'
    BY <1>1, <1>2, <1>4, <1>5 DEF SnInv, MainStale
  <2> QED
    BY <2>6, <2>7, <2>8, <2>9 DEF SnInv
<1> QED
  BY <1>7, <1>8

\* A sequence of one and what is added to it.
LEMMA OneMore == \A a, b : <<a>> \o <<>> = <<a>> /\ <<a>> \o <<b>> = <<a, b>>
<1> TAKE a, b
<1> DEFINE S == {a, b}
           s == <<a>> \o <<b>>
<1>1. <<a>> \in Seq(S) /\ <<b>> \in Seq(S) /\ <<a, b>> \in Seq(S)
  OBVIOUS
<1>2. <<a>> \o <<>> = <<a>>
  BY <1>1, ConcatEmptySeq
<1>3. s \in Seq(S) /\ Len(s) = 2 /\ s[1] = a /\ s[2] = b
  BY <1>1, ConcatProperties
<1> HIDE DEF s
<1>4. \A i \in 1..2 : s[i] = <<a, b>>[i]
  BY <1>3
<1>5. s = <<a, b>>
  BY <1>1, <1>3, <1>4, SeqEqual
<1> QED
  BY <1>2, <1>5 DEF s

\* A reset reads what it keeps.
LEMMA ReadSn == ASSUME IInv, SnInv, NEW t \in Tasks, ReadKept(t) PROVE SnInv'
<1> DEFINE q == KeptBy(job[t].op)
           j == [job[t] EXCEPT !.at = "erase", !.todo = q]
<1>1. /\ job' = [job EXCEPT ![t] = j] /\ job[t].op \in Resets /\ job[t].at = "read" /\ job[t] \in Jobs
      /\ sn' = (IF seen["device_sn"] = Missing THEN Missing ELSE sn) /\ seen' = seen
  BY DEF ReadKept, IInv, Shape, Resets, nvsVars
<1>2. j.op = job[t].op /\ j.at = "erase" /\ j.todo = q /\ j.stale = job[t].stale
  BY <1>1 DEF Jobs
<1>3. ASSUME sn # Missing, seen["device_sn"] = sn PROVE Holds(j, sn) /\ HasSn(j)
  <2>1. Saved("device_sn") = <<Entry("device_sn", sn)>>
    BY <1>3 DEF Saved
  <2>2. q \in {<<Entry("device_sn", sn)>>,
                <<Entry("device_sn", sn), Entry("device_type", seen["device_type"])>>}
    <3>1. \/ q = <<Entry("device_sn", sn)>> \o <<>>
          \/ q = <<Entry("device_sn", sn)>> \o <<Entry("device_type", seen["device_type"])>>
      BY <2>1 DEF KeptBy, Saved
    <3> QED
      BY <3>1, OneMore
  <2>3. 1 \in DOMAIN q /\ q[1] = Entry("device_sn", sn)
    BY <2>2
  <2>4. \A i \in DOMAIN q : q[i] = Entry("device_sn", sn) \/ q[i] = Entry("device_type", seen["device_type"])
    BY <2>2
  <2> QED
    BY <1>2, <2>3, <2>4 DEF Holds, HasSn, Entry
<1>4. t # "main"
  BY <1>1 DEF IInv, Roles, MainOps, Resets
<1> HIDE DEF j
<1>5. CASE seen["device_sn"] # Missing
  <2>1. sn' = sn /\ (sn # Missing => seen["device_sn"] = sn)
    BY <1>1, <1>5 DEF SnInv, SnSeen
  <2>2. ~Pending(job[t]) /\ ~(j.at \in Past)
    BY <1>1, <1>2 DEF Pending, Past
  <2> QED
    BY <1>1, <1>3, <1>4, <2>1, <2>2, SnKeeps
<1>6. CASE seen["device_sn"] = Missing
  <2>1. sn' = Missing
    BY <1>1, <1>6
  <2>2. job'["main"] = job["main"] /\ (job'["reset"] = job["reset"] \/ job'["reset"].at \notin Past)
    BY <1>1, <1>2, <1>4 DEF IInv, Shape, Tasks, Past
  <2>3. MainStale'
    BY <2>2 DEF SnInv, MainStale
  <2> QED
    BY <2>1, <2>3 DEF SnInv, SnSeen, SnSaved, SnDefaults
<1> QED
  BY <1>5, <1>6

\* A reset erases the settings, and app_main and the other resets lose their handles.
LEMMA EraseSn == ASSUME IInv, SnInv, NEW t \in Tasks, EraseAll(t) PROVE SnInv'
<1>1. /\ job[t].op \in Resets /\ job[t].at = "erase" /\ seen' = Blank /\ sn' = sn
      /\ job' = [Stale(t) EXCEPT ![t].at = "reinit"] /\ \A u \in Tasks : job[u] \in Jobs
  BY DEF EraseAll, Erased, IInv, Shape, Resets
<1>2. \A u \in Tasks : Stale(t)[u] \in Jobs /\ Stale(t)[u].op = job[u].op /\ Stale(t)[u].at = job[u].at
                       /\ Stale(t)[u].todo = job[u].todo
                       /\ (u # t /\ job[u].op # "none" => Stale(t)[u].stale)
  <2> TAKE u \in Tasks
  <2>1. CASE u = t \/ job[u] = Idle
    BY <1>1, <2>1 DEF Stale, Idle, Job
  <2>2. CASE ~(u = t \/ job[u] = Idle)
    <3>1. Stale(t)[u] = [job[u] EXCEPT !.stale = TRUE]
      BY <2>2 DEF Stale
    <3> QED
      BY <1>1, <3>1 DEF Jobs
  <2> QED
    BY <2>1, <2>2
<1>3. /\ \A u \in Tasks : job'[u].op = job[u].op /\ job'[u].todo = job[u].todo
                          /\ (u # t => job'[u].at = job[u].at)
                          /\ (u # t /\ job[u].op # "none" => job'[u].stale)
      /\ job'[t].at = "reinit"
  BY <1>1, <1>2 DEF Stale, Jobs
<1>4. "main" \in Tasks \ {t} /\ seen'["device_sn"] = Missing
  BY <1>1 DEF IInv, Roles, MainOps, Resets, Tasks, Blank, Keys, Checked
<1>5. SnSeen'
  <2> SUFFICES ASSUME sn # Missing PROVE Pending(job'[t])
    BY <1>1, <1>4 DEF SnSeen, Pending
  <2>1. HasSn(job[t])
    BY <1>1 DEF SnInv, SnSaved
  <2> QED
    BY <1>1, <1>3, <2>1 DEF Pending, HasSn
<1>6. SnSaved'
  <2> SUFFICES ASSUME sn # Missing, NEW u \in Tasks, job'[u].op \in Resets, job'[u].at = "erase"
               PROVE  Holds(job'[u], sn) /\ HasSn(job'[u])
    BY <1>1 DEF SnSaved, Holds, HasSn
  <2>1. Holds(job[u], sn) /\ HasSn(job[u])
    BY <1>3 DEF SnInv, SnSaved
  <2> QED
    BY <1>3, <2>1 DEF Holds, HasSn
<1>7. job["main"].op = "defaults" => job'["main"].stale
  BY <1>3, <1>4
<1>8. SnDefaults' /\ MainStale'
  BY <1>3, <1>4, <1>7 DEF SnDefaults, MainStale
<1> QED
  BY <1>5, <1>6, <1>8 DEF SnInv

\* A failed call of a reset gives the number up; those of others leave it alone.
LEMMA SkipSn == ASSUME IInv, SnInv, NEW t \in Tasks, FailSkips(t) PROVE SnInv'
<1>1. /\ job[t].op \in Skips /\ seen' = seen /\ job[t].at \in {"write", "commit"} /\ job[t] \in Jobs
      /\ sn' = IF job[t].op \in Resets THEN Missing ELSE sn
  BY DEF FailSkips, Fails, Resets, IInv, Shape, nvsVars
<1>2. PICK j : /\ job' = [job EXCEPT ![t] = j] /\ (j.op = job[t].op \/ j.op = "none")
               /\ (t = "main" => j.op = job[t].op)
  <2>1. CASE job[t].at = "write"
    <3> DEFINE j == [job[t] EXCEPT !.todo = Tail(@)]
    <3>1. job' = [job EXCEPT ![t] = j] /\ j.op = job[t].op
      BY <1>1, <2>1 DEF FailSkips, IInv, Shape, Jobs
    <3> QED
      BY <3>1
  <2>2. CASE job[t].at # "write" /\ job[t].op = "config"
    <3>1. Idle.op = "none" /\ t # "main"
      BY <2>2 DEF Idle, Job, IInv, Roles, MainOps
    <3> QED
      BY <2>2, <3>1 DEF FailSkips
  <2>3. CASE job[t].at # "write" /\ job[t].op # "config"
    <3> DEFINE j == [job[t] EXCEPT !.at = "done"]
    <3>1. job' = [job EXCEPT ![t] = j] /\ j.op = job[t].op
      BY <1>1, <2>3 DEF FailSkips, Goes, IInv, Shape, Jobs
    <3> QED
      BY <3>1
  <2> QED
    BY <2>1, <2>2, <2>3
<1>3. CASE job[t].op \notin Resets
  <2>1. sn' = sn /\ j.op \notin Resets /\ j.op # "defaults" /\ ~Pending(job[t])
    BY <1>1, <1>2, <1>3 DEF Skips, Resets, Pending
  <2>2. j.op # "reset"
    BY <2>1 DEF Resets
  <2> QED
    BY <1>1, <1>2, <2>1, <2>2, SnKeeps
<1>4. CASE job[t].op \in Resets
  <2>1. sn' = Missing /\ t # "main"
    BY <1>1, <1>4 DEF IInv, Roles, MainOps, Resets
  <2>2. job'["main"] = job["main"] /\ (t # "reset" => job'["reset"] = job["reset"])
    BY <1>2, <2>1 DEF IInv, Shape, Tasks
  <2>3. t = "reset" => job[t].op = "reset" /\ job[t].at \in Past
    BY <1>1, <1>4 DEF IInv, Roles, Resets, Past
  <2>4. MainStale'
    BY <2>2, <2>3 DEF SnInv, MainStale
  <2> QED
    BY <2>1, <2>4 DEF SnInv, SnSeen, SnSaved, SnDefaults
<1> QED
  BY <1>3, <1>4

\* Every step keeps what the number rests on.
LEMMA NextSn == IInv /\ Contents /\ SnInv /\ [Next]_vars => SnInv'
<1> SUFFICES ASSUME IInv, Contents, SnInv, Kinds PROVE SnInv'
  BY EveryKind
<1>1. CASE NvsUnusable \/ HeldForTwoSeconds
  <2>1. sn' = Missing /\ job["main"].op = "boot" /\ \E at : Goes("main", at)
    BY <1>1 DEF NvsUnusable, HeldForTwoSeconds, At
  <2>2. job'["main"].op # "defaults"
    BY <2>1 DEF Goes, IInv, Shape, Jobs, Tasks
  <2> QED
    BY <2>1, <2>2 DEF SnInv, SnSeen, SnSaved, SnDefaults, MainStale
<1>2. CASE SerialFill \/ (Same /\ UNCHANGED job)
  <2>1. sn' = sn /\ job' = job /\ seen'["device_sn"] = seen["device_sn"]
    BY <1>2 DEF SerialFill, Same, ghostVars, IInv, Shape, Keys, Checked
  <2> QED
    BY <2>1 DEF SnInv, SnSeen, SnSaved, SnDefaults, MainStale, Pending, Holds, HasSn
<1>3. ASSUME NEW t \in Tasks, Commit(t) PROVE SnInv'
  <2> DEFINE j == [job[t] EXCEPT !.at = "done"]
  <2>1. job' = [job EXCEPT ![t] = j] /\ sn' = sn /\ seen' = seen /\ job[t].at = "commit" /\ job[t] \in Jobs
    BY <1>3 DEF Commit, Goes, IInv, Shape
  <2>2. j.op = job[t].op /\ j.at = "done" /\ j.todo = job[t].todo /\ j.stale = job[t].stale
    BY <2>1 DEF Jobs
  <2> HIDE DEF j
  <2>3. ~Pending(job[t]) /\ "commit" \in Past
    BY <2>1 DEF Pending, Past
  <2>4. t = "main" /\ j.op = "defaults" /\ ~j.stale /\ sn # Missing => Holds(j, sn)
    BY <2>2 DEF SnInv, SnDefaults, Holds
  <2>5. /\ t = "main" /\ j.op = "defaults" /\ job["reset"].op = "reset" /\ job["reset"].at \in Past => j.stale
        /\ t = "reset" /\ j.op = "reset" /\ job["main"].op = "defaults" => job["main"].stale
    BY <2>1, <2>2, <2>3 DEF SnInv, MainStale
  <2> QED
    BY <2>1, <2>2, <2>3, <2>4, <2>5, SnKeeps
<1>4. ASSUME NEW t \in Tasks, Reply(t) PROVE SnInv'
  <2>1. sn' = sn /\ seen' = seen /\ job[t].op \in Requests /\ job[t] \in Jobs
    BY <1>4 DEF Reply, nvsVars, IInv, Shape
  <2>2. \E j : job' = [job EXCEPT ![t] = j] /\ (j.op = job[t].op \/ j.op = "none")
    <3> DEFINE j == [job[t] EXCEPT !.at = "restart"]
    <3>1. j.op = job[t].op /\ Idle.op = "none"
      BY <2>1 DEF Jobs, Idle, Job
    <3>2. job' = [job EXCEPT ![t] = j] \/ job' = [job EXCEPT ![t] = Idle]
      BY <1>4 DEF Reply, Goes, IInv, Shape
    <3> QED
      BY <3>1, <3>2
  <2>3. PICK j : job' = [job EXCEPT ![t] = j] /\ (j.op = job[t].op \/ j.op = "none")
    BY <2>2
  <2>4. j.op \notin Resets /\ j.op # "defaults" /\ j.op # "reset" /\ ~Pending(job[t])
    BY <2>1, <2>3 DEF Requests, Pages, Refuses, Resets, Pending
  <2> QED
    BY <2>1, <2>3, <2>4, SnKeeps
<1> QED
  BY <1>1, <1>2, <1>3, <1>4, RebootSn, JobSn, SetSn, ReadSn, EraseSn, SkipSn DEF Kinds

\* What the number rests on holds in every reachable state.
LEMMA SnInvariance == Spec => []SnInv
<1>1. Init => SnInv
  <2> SUFFICES ASSUME Init PROVE SnInv
    OBVIOUS
  <2>1. sn # Missing => seen["device_sn"] = sn
    BY DEF Init
  <2>2. \A t \in Tasks : job[t] = IF t = "main" THEN Job("boot", "init", <<>>) ELSE Idle
    BY DEF Init
  <2>3. /\ \A t \in Tasks : job[t].op \notin Resets
        /\ job["main"].op # "defaults"
    BY <2>2 DEF Job, Idle, Resets, Tasks
  <2> QED
    BY <2>1, <2>3 DEF SnInv, SnSeen, SnSaved, SnDefaults, MainStale
<1> QED
  BY <1>1, NextSn, Invariance, AllContents, PTL DEF Spec

\* The serial number survives every boot, reset and request, however they and
\* failures interleave, outside the window in which a reset has erased it.
THEOREM SerialNumberCorrect == Spec => []SerialNumberKept
<1>1. SnInv => SerialNumberKept
  BY DEF SnInv, SnSeen, SerialNumberKept, Window, Pending, Resets
<1> QED
  BY <1>1, SnInvariance, PTL

-----------------------------------------------------------------------------
(* The acknowledged settings.                                                  *)

\* The last acknowledgement of k binds.
Stands(k) == promised[k] # Missing /\ k \notin misled

\* It is in the flash and not overwritten in memory.
AckStored == \A k \in Keys : Stands(k) => flash[k] = promised[k] /\ seen[k] = promised[k]

\* Nothing is promised before a boot has filled the settings, and none of them is
\* left to the resets that have erased them.
AckComplete == ~complete => promised = Blank
AckErased == \A t \in Tasks :
  job[t].op \in Resets /\ job[t].at \in {"reinit", "write", "commit"} => ~complete

\* What is filled in was missing.
AckFill == complete => \A t \in Tasks : job[t].op \in Fillers => \A i \in DOMAIN job[t].todo :
  /\ ~Stands(job[t].todo[i].key)
  /\ job[t].op \in {"info", "login"} => job[t].todo[i].key = "baud_rate"

\* A request that is about to be answered has committed what it wrote.
AckDone == complete => \A t \in Served : job[t].op \in Requests /\ job[t].at = "done" =>
  \A k \in job[t].wrote : seen[k] = Own(t) => flash[k] = Own(t)

\* operate writes back the mode of MQTT only while that is the mode.
Operates(j) == j.op = "operate" /\ ~j.stale /\ j.at = "write"
BacksUp(j, mode) == \A i \in DOMAIN j.todo :
  /\ j.todo[i].val = "mqtt" => mode = "mqtt"
  /\ \A m \in DOMAIN j.todo : j.todo[m].val = j.todo[i].val
AckOperate == Operates(job["httpd"]) => BacksUp(job["httpd"], seen["w_mode"])

AckInv == AckStored /\ AckComplete /\ AckErased /\ AckFill /\ AckDone /\ AckOperate

\* What a job is still to write has its type.
LEMMA EntryTypes ==
  ASSUME NEW j \in Jobs, NEW i \in DOMAIN j.todo PROVE j.todo[i].key \in Keys /\ j.todo[i].val \in Values
<1> DEFINE q == j.todo
           S == [key : Keys, val : Values]
<1>1. q \in Seq(S) /\ i \in DOMAIN q
  BY DEF Jobs
<1> HIDE DEF q, S
<1>2. q[i] \in S
  BY <1>1
<1> QED
  BY <1>2 DEF q, S

\* One task goes on, and all settings and promises stay.
LEMMA AckKeeps ==
  ASSUME IInv, AckInv, NEW t \in Tasks, NEW j, job' = [job EXCEPT ![t] = j],
         UNCHANGED <<flash, seen, promised, misled, complete>>,
         j.op \in Resets /\ j.at \in {"reinit", "write", "commit"} => ~complete,
         complete /\ j.op \in Fillers => \A i \in DOMAIN j.todo :
           /\ ~Stands(j.todo[i].key)
           /\ j.op \in {"info", "login"} => j.todo[i].key = "baud_rate",
         complete /\ t \in Served /\ j.op \in Requests /\ j.at = "done" =>
           \A k \in j.wrote : seen[k] = Own(t) => flash[k] = Own(t),
         t = "httpd" /\ Operates(j) => BacksUp(j, seen["w_mode"])
  PROVE  AckInv'
<1>1. \A u \in Tasks : job'[u] = IF u = t THEN j ELSE job[u]
  BY DEF IInv, Shape
<1>2. "httpd" \in Tasks /\ Served \subseteq Tasks
  BY DEF Tasks, Served
<1>3. AckStored' /\ AckComplete'
  BY DEF AckInv, AckStored, AckComplete, Stands
<1>4. AckErased'
  BY <1>1 DEF AckInv, AckErased
<1>5. AckFill'
  BY <1>1 DEF AckInv, AckFill, Stands
<1>6. AckDone'
  BY <1>1, <1>2 DEF AckInv, AckDone, Own
<1>7. AckOperate'
  BY <1>1, <1>2 DEF AckInv, AckOperate, Operates, BacksUp
<1> QED
  BY <1>3, <1>4, <1>5, <1>6, <1>7 DEF AckInv

\* A job that is taken up, goes on or ends.
LEMMA JobAck ==
  ASSUME IInv, Contents, AckInv, NEW t \in Tasks,
         Ends(t) \/ \E j \in Jobs : Starts(t, j) \/ Proceeds(t, j)
  PROVE  AckInv'
<1>1. CASE Ends(t)
  <2>1. /\ Idle.op = "none" /\ "none" \notin Resets /\ "none" \notin Fillers /\ "none" \notin Requests
        /\ ~Operates(Idle)
    BY DEF Idle, Job, Resets, Fillers, Requests, Pages, Refuses, Operates
  <2> QED
    BY <1>1, <2>1, AckKeeps DEF Ends, Same
<1>2. ASSUME NEW j \in Jobs, Starts(t, j) PROVE AckInv'
  <2>1. /\ job' = [job EXCEPT ![t] = j] /\ UNCHANGED <<flash, seen, promised, misled, complete>>
        /\ (j.op \in Resets => j.at = "read") /\ (j.op \in Requests => j.at # "done")
        /\ \A i \in DOMAIN j.todo : StartFits(j.op, j.todo[i]) /\ EntryFits(t, j.op, j.todo[i])
    BY <1>2 DEF Starts, Same, Fits
  <2>2. ASSUME complete, j.op \in Fillers, NEW i \in DOMAIN j.todo
        PROVE  /\ ~Stands(j.todo[i].key)
               /\ j.op \in {"info", "login"} => j.todo[i].key = "baud_rate"
    <3>1. \A k \in Checked : seen[k] # Missing
      BY <2>2 DEF IInv, NeverResetAgain
    <3>2. seen[j.todo[i].key] = Missing
      BY <2>1, <2>2, <3>1 DEF StartFits
    <3>4. j.todo[i].key \in Keys
      BY <2>2, EntryTypes
    <3>3. j.op \in {"info", "login"} => j.todo[i].key \in Checked \cup {"baud_rate"}
      BY <2>1 DEF EntryFits
    <3> QED
      BY <3>1, <3>2, <3>3, <3>4 DEF AckInv, AckStored, Stands
  <2>3. Operates(j) => BacksUp(j, seen["w_mode"])
    BY <2>1 DEF Operates, BacksUp, StartFits
  <2> QED
    BY <2>1, <2>2, <2>3, AckKeeps
<1>3. ASSUME NEW j \in Jobs, Proceeds(t, j) PROVE AckInv'
  <2>1. /\ job' = [job EXCEPT ![t] = j] /\ UNCHANGED <<flash, seen, promised, misled, complete>>
        /\ j.op = job[t].op /\ j.todo = job[t].todo
        /\ (j.op \in Resets => job[t].at \in {"reinit", "write", "commit"})
        /\ (j.op \in Requests => j.at # "done" \/ j.wrote = {})
        /\ (j.op = "operate" => j.at # "write")
    BY <1>3 DEF Proceeds, Same
  <2>2. j.op \in Resets => ~complete
    BY <2>1 DEF AckInv, AckErased
  <2>3. complete /\ j.op \in Fillers => \A i \in DOMAIN j.todo :
           /\ ~Stands(j.todo[i].key)
           /\ j.op \in {"info", "login"} => j.todo[i].key = "baud_rate"
    BY <2>1 DEF AckInv, AckFill
  <2>4. ~Operates(j)
    BY <2>1 DEF Operates
  <2> QED
    BY <2>1, <2>2, <2>3, <2>4, AckKeeps
<1> QED
  BY <1>1, <1>2, <1>3

\* A restart: both values of a key that was acknowledged are the acknowledged one.
LEMMA RebootAck == ASSUME IInv, AckInv, Reboot PROVE AckInv'
<1>1. \A t \in Tasks : job'[t] = IF t = "main" THEN Job("boot", "init", <<>>) ELSE Idle
  BY DEF Reboot
<1>2. \A t \in Tasks : /\ job'[t].op \notin Resets /\ job'[t].op \notin Fillers /\ job'[t].op \notin Requests
                       /\ job'[t].op # "operate"
  BY <1>1 DEF Job, Idle, Resets, Fillers, Requests, Pages, Refuses
<1>3. UNCHANGED <<promised, misled, complete>> /\ seen' = flash'
      /\ \A k \in Keys : flash'[k] \in {flash[k], seen[k]}
  BY DEF Reboot
<1>4. AckStored' /\ AckComplete'
  BY <1>3 DEF AckInv, AckStored, AckComplete, Stands
<1>5. AckErased' /\ AckFill' /\ AckDone' /\ AckOperate'
  BY <1>2 DEF AckErased, AckFill, AckDone, AckOperate, Operates, Served, Tasks
<1> QED
  BY <1>4, <1>5 DEF AckInv

\* An erase ends every promise, and operate has lost its handle or not begun.
LEMMA ErasedAck ==
  ASSUME IInv, Erased, ~Operates(job'["httpd"]) PROVE AckInv'
<1>1. promised' = Blank /\ misled' = {} /\ ~complete'
  BY DEF Erased
<1>2. AckStored'
  BY <1>1 DEF AckStored, Stands, Blank
<1>3. AckComplete' /\ AckErased' /\ AckFill' /\ AckDone'
  BY <1>1 DEF AckComplete, AckErased, AckFill, AckDone, Blank
<1>4. AckOperate'
  BY DEF AckOperate, Operates
<1> QED
  BY <1>2, <1>3, <1>4 DEF AckInv

\* The three that erase.
LEMMA EraseAck ==
  ASSUME IInv, AckInv, NvsUnusable \/ HeldForTwoSeconds \/ \E t \in Tasks : EraseAll(t) PROVE AckInv'
<1>1. "httpd" \in Tasks /\ "httpd" \in Served /\ "httpd" # "main" /\ "operate" \notin Resets
  BY DEF Tasks, Served, Resets
<1>2. CASE NvsUnusable \/ HeldForTwoSeconds
  <2>1. Erased /\ job'["httpd"] = job["httpd"] /\ ~Serving
    BY <1>1, <1>2 DEF NvsUnusable, HeldForTwoSeconds, Goes, IInv, Shape, Serving, At
  <2>2. job'["httpd"] = Idle
    BY <1>1, <2>1 DEF IInv, Roles
  <2> QED
    BY <2>1, <2>2, ErasedAck DEF Operates, Idle, Job
<1>3. ASSUME NEW t \in Tasks, EraseAll(t) PROVE AckInv'
  <2>1. /\ job[t].op \in Resets /\ Erased /\ \A u \in Tasks : job[u] \in Jobs
        /\ job' = [Stale(t) EXCEPT ![t].at = "reinit"]
    BY <1>3 DEF EraseAll, Resets, IInv, Shape
  <2>2. CASE t = "httpd"
    <3>1. Stale(t)[t] = job[t]
      BY DEF Stale
    <3>2. job'[t] = [job[t] EXCEPT !.at = "reinit"]
      BY <2>1, <3>1 DEF Stale
    <3> QED
      BY <1>1, <2>1, <2>2, <3>2, ErasedAck DEF Operates, Jobs
  <2>3. CASE t # "httpd"
    <3>1. job'["httpd"] = Stale(t)["httpd"]
      BY <1>1, <2>1, <2>3 DEF Stale
    <3>2. job'["httpd"] = IF job["httpd"] = Idle THEN Idle ELSE [job["httpd"] EXCEPT !.stale = TRUE]
      BY <1>1, <2>3, <3>1 DEF Stale
    <3>3. ~Operates(job'["httpd"])
      BY <1>1, <2>1, <3>2 DEF Operates, Jobs, Idle, Job
    <3> QED
      BY <2>1, <3>3, ErasedAck
  <2> QED
    BY <2>2, <2>3
<1> QED
  BY <1>2, <1>3

\* nvs_commit makes durable what was written, also what others have written since.
LEMMA CommitAck == ASSUME IInv, Contents, SnInv, AckInv, NEW t \in Tasks, Commit(t) PROVE AckInv'
<1> DEFINE j == [job[t] EXCEPT !.at = "done"]
<1>1. /\ job[t].at = "commit" /\ ~job[t].stale /\ job[t] \in Jobs
      /\ flash' = [k \in Keys |-> IF k \in job[t].wrote THEN seen[k] ELSE flash[k]]
      /\ complete' = (complete \/ job[t].op = "defaults")
      /\ job' = [job EXCEPT ![t] = j] /\ UNCHANGED <<seen, promised, misled>>
  BY DEF Commit, Goes, IInv, Shape
<1>2. /\ j.op = job[t].op /\ j.at = "done" /\ j.todo = job[t].todo
      /\ j.wrote = job[t].wrote /\ j.wrote \subseteq Keys
  BY <1>1 DEF Jobs
<1> HIDE DEF j
<1>3. \A u \in Tasks : job'[u] = IF u = t THEN j ELSE job[u]
  BY <1>1 DEF IInv, Shape
<1>4. \A u \in Tasks : job'[u].op = job[u].op /\ job'[u].todo = job[u].todo /\ job'[u].wrote = job[u].wrote
                       /\ (u # t => job'[u] = job[u])
  BY <1>2, <1>3
<1>5. job'[t].at = "done" /\ Served \subseteq Tasks /\ "main" \in Tasks /\ "httpd" \in Tasks
  BY <1>2, <1>3 DEF Served, Tasks
<1>6. \A k \in Keys : flash'[k] \in {flash[k], seen[k]} /\ (k \in job[t].wrote => flash'[k] = seen[k])
  BY <1>1
<1>7. job[t].op = "defaults" => t = "main" /\ \A u \in Served : job[u] = Idle /\ job[u].op = "none"
  BY Roster, DefaultsAlone DEF Contents, Fits
<1>8. "none" \notin Resets /\ "none" \notin Fillers /\ "none" \notin Requests
  BY DEF Resets, Fillers, Requests, Pages, Refuses
<1>9. AckStored'
  BY <1>1, <1>6 DEF AckInv, AckStored, Stands
<1>10. AckComplete'
  BY <1>1 DEF AckInv, AckComplete
<1>11. AckErased'
  <2> SUFFICES ASSUME NEW u \in Tasks, job'[u].op \in Resets, job'[u].at \in {"reinit", "write", "commit"}
               PROVE  ~complete'
    BY DEF AckErased
  <2>1. u # t /\ job'[u] = job[u]
    BY <1>4, <1>5
  <2>2. ~complete
    BY <2>1 DEF AckInv, AckErased
  <2>3. ASSUME job[t].op = "defaults" PROVE FALSE
    <3>1. u \notin Served /\ u # "main" /\ t = "main"
      BY <1>7, <1>8, <2>1, <2>3
    <3>2. u = "reset" /\ job[u].op = "reset"
      BY <2>1, <3>1 DEF Tasks, Served, IInv, Roles, Resets
    <3> QED
      BY <1>1, <2>1, <2>3, <3>1, <3>2 DEF SnInv, MainStale, Past
  <2> QED
    BY <1>1, <2>2, <2>3
<1>12. AckFill'
  <2> SUFFICES ASSUME complete', NEW u \in Tasks, job'[u].op \in Fillers, NEW i \in DOMAIN job'[u].todo
               PROVE  /\ ~Stands(job'[u].todo[i].key)
                      /\ job'[u].op \in {"info", "login"} => job'[u].todo[i].key = "baud_rate"
    BY <1>1 DEF AckFill, Stands
  <2>1. CASE complete
    BY <1>4, <2>1 DEF AckInv, AckFill
  <2>2. CASE ~complete
    <3>1. job[t].op = "defaults" /\ promised = Blank
      BY <1>1, <2>2 DEF AckInv, AckComplete
    <3>2. job[u].op \notin {"info", "login"}
      BY <1>7, <3>1, Roster DEF Contents, Fits, Served
    <3>3. job'[u].todo[i].key \in Keys
      <4>1. job[u] \in Jobs /\ job'[u].todo = job[u].todo
        BY <1>4 DEF IInv, Shape
      <4> QED
        BY <4>1, EntryTypes
    <3> QED
      BY <1>4, <3>1, <3>2, <3>3 DEF Stands, Blank
  <2> QED
    BY <2>1, <2>2
<1>13. AckDone'
  <2> SUFFICES ASSUME complete', NEW u \in Served, job'[u].op \in Requests, job'[u].at = "done",
                      NEW k \in job'[u].wrote, seen[k] = Own(u)
               PROVE  flash'[k] = Own(u)
    BY <1>1 DEF AckDone, Own
  <2>1. k \in Keys /\ k \in job[u].wrote
    BY <1>4, <1>5 DEF IInv, Shape, Jobs
  <2>2. CASE u = t
    BY <1>6, <2>1, <2>2
  <2>3. CASE u # t
    <3>1. job[u].op \in Requests /\ job[u].at = "done"
      BY <1>4, <1>5, <2>3
    <3>2. complete
      BY <1>1, <1>7, <1>8, <3>1
    <3> QED
      BY <1>6, <2>1, <3>1, <3>2 DEF AckInv, AckDone
  <2> QED
    BY <2>2, <2>3
<1>14. AckOperate'
  <2> SUFFICES ASSUME Operates(job'["httpd"]) PROVE BacksUp(job'["httpd"], seen["w_mode"])
    BY <1>1 DEF AckOperate, Operates, BacksUp
  <2>1. job'["httpd"] = job["httpd"]
    BY <1>4, <1>5 DEF Operates
  <2> QED
    BY <2>1 DEF AckInv, AckOperate
<1> QED
  BY <1>9, <1>10, <1>11, <1>12, <1>13, <1>14 DEF AckInv

\* A failed call that is skipped ends the job or leaves the rest of it.
LEMMA SkipAck == ASSUME IInv, Contents, AckInv, NEW t \in Tasks, FailSkips(t) PROVE AckInv'
<1>1. /\ job[t].op \in Skips /\ job[t].at \in {"write", "commit"} /\ job[t] \in Jobs
      /\ UNCHANGED <<flash, seen, promised, misled, complete>>
  BY DEF FailSkips, Fails, IInv, Shape, nvsVars
<1>2. job[t].op \in Resets => ~complete
  BY <1>1 DEF AckInv, AckErased
<1>3. PICK j : /\ job' = [job EXCEPT ![t] = j] /\ (j.op = job[t].op \/ j.op = "none")
               /\ (j.op \in Requests => j.at # "done")
               /\ j.op # "none" => j.stale = job[t].stale /\ (j.at = "write" => job[t].at = "write")
               /\ \A i \in DOMAIN j.todo : \E m \in DOMAIN job[t].todo : j.todo[i] = job[t].todo[m]
  <2>1. CASE job[t].at = "write"
    <3> DEFINE j == [job[t] EXCEPT !.todo = Tail(@)]
    <3>1. job' = [job EXCEPT ![t] = j] /\ job[t].todo # <<>>
      BY <1>1, <2>1 DEF FailSkips, Fails, IInv, Shape
    <3>2. \A i \in DOMAIN Tail(job[t].todo) :
             i + 1 \in DOMAIN job[t].todo /\ Tail(job[t].todo)[i] = job[t].todo[i + 1]
      BY <3>1, NextWrite DEF IInv
    <3>3. j.op = job[t].op /\ j.at = "write" /\ j.todo = Tail(job[t].todo) /\ j.stale = job[t].stale
      BY <1>1, <2>1 DEF Jobs
    <3> HIDE DEF j
    <3>4. \A i \in DOMAIN j.todo : \E m \in DOMAIN job[t].todo : j.todo[i] = job[t].todo[m]
      BY <3>2, <3>3
    <3> QED
      BY <2>1, <3>1, <3>3, <3>4
  <2>2. CASE job[t].at # "write" /\ job[t].op = "config"
    <3>1. Idle.op = "none" /\ Idle.todo = <<>> /\ "none" \notin Requests
      BY DEF Idle, Job, Requests, Pages, Refuses
    <3>2. \A i \in DOMAIN Idle.todo : FALSE
      BY <3>1
    <3> QED
      BY <2>2, <3>1, <3>2 DEF FailSkips
  <2>3. CASE job[t].at # "write" /\ job[t].op # "config"
    <3> DEFINE j == [job[t] EXCEPT !.at = "done"]
    <3>1. job' = [job EXCEPT ![t] = j]
      BY <1>1, <2>3 DEF FailSkips, Goes, IInv, Shape
    <3>2. j.op = job[t].op /\ j.at = "done" /\ j.todo = job[t].todo /\ j.stale = job[t].stale
      BY <1>1 DEF Jobs
    <3>3. job[t].op \notin Requests
      BY <1>1, <2>3 DEF Skips, Requests, Pages, Refuses
    <3> HIDE DEF j
    <3> QED
      BY <3>1, <3>2, <3>3
  <2> QED
    BY <2>1, <2>2, <2>3
<1>4. "none" \notin Resets /\ "none" \notin Fillers /\ "none" \notin {"info", "login", "operate"}
  BY DEF Resets, Fillers
<1>5. complete /\ j.op \in Fillers => \A i \in DOMAIN j.todo :
           /\ ~Stands(j.todo[i].key)
           /\ j.op \in {"info", "login"} => j.todo[i].key = "baud_rate"
  <2> SUFFICES ASSUME complete, j.op \in Fillers, NEW i \in DOMAIN j.todo
               PROVE  ~Stands(j.todo[i].key) /\ (j.op \in {"info", "login"} => j.todo[i].key = "baud_rate")
    OBVIOUS
  <2>1. PICK m \in DOMAIN job[t].todo : j.todo[i] = job[t].todo[m]
    BY <1>3
  <2>2. j.op = job[t].op
    BY <1>3, <1>4
  <2> QED
    BY <2>1, <2>2 DEF AckInv, AckFill
<1>6. t = "httpd" /\ Operates(j) => BacksUp(j, seen["w_mode"])
  <2> SUFFICES ASSUME t = "httpd", Operates(j) PROVE BacksUp(j, seen["w_mode"])
    OBVIOUS
  <2>1. Operates(job[t])
    BY <1>3, <1>4 DEF Operates
  <2>2. BacksUp(job[t], seen["w_mode"])
    BY <2>1 DEF AckInv, AckOperate
  <2> QED
    BY <1>3, <2>2 DEF BacksUp
<1> QED
  BY <1>1, <1>2, <1>3, <1>4, <1>5, <1>6, AckKeeps

\* A reset reads what it keeps.
LEMMA ReadAck == ASSUME IInv, AckInv, NEW t \in Tasks, ReadKept(t) PROVE AckInv'
<1> DEFINE j == [job[t] EXCEPT !.at = "erase", !.todo = KeptBy(job[t].op)]
<1>1. /\ job' = [job EXCEPT ![t] = j] /\ job[t].op \in Resets /\ job[t] \in Jobs
      /\ UNCHANGED <<flash, seen, promised, misled, complete>>
  BY DEF ReadKept, IInv, Shape, Resets, nvsVars
<1>2. j.op = job[t].op /\ j.at = "erase"
  BY <1>1 DEF Jobs
<1>3. j.op \notin Fillers /\ j.op \notin Requests /\ ~Operates(j)
  BY <1>1, <1>2 DEF Resets, Fillers, Requests, Pages, Refuses, Operates
<1> HIDE DEF j
<1> QED
  BY <1>1, <1>2, <1>3, AckKeeps

\* get_serial_set_handler fills in a rate that nobody was promised.
LEMMA SerialAck == ASSUME IInv, AckInv, SerialFill PROVE AckInv'
<1>1. /\ seen["baud_rate"] = Missing /\ seen' = [seen EXCEPT !["baud_rate"] = "default"]
      /\ UNCHANGED <<flash, job, promised, misled, complete>>
  BY DEF SerialFill, ghostVars
<1>2. "baud_rate" \in Keys /\ "w_mode" \in Keys \ {"baud_rate"} /\ \A t \in Tasks : Own(t) # "default"
  BY DEF Keys, Own, Missing
<1>3. seen'["baud_rate"] = "default" /\ \A k \in Keys \ {"baud_rate"} : seen'[k] = seen[k]
  BY <1>1, <1>2 DEF IInv, Shape
<1>4. AckStored'
  BY <1>1, <1>3 DEF AckInv, AckStored, Stands
<1>5. AckComplete' /\ AckErased' /\ AckFill'
  BY <1>1 DEF AckInv, AckComplete, AckErased, AckFill, Stands
<1>6. AckDone'
  <2>1. \A t \in Served : job[t].wrote \subseteq Keys /\ t \in Tasks
    BY DEF IInv, Shape, Jobs, Served, Tasks
  <2> QED
    BY <1>1, <1>2, <1>3, <2>1 DEF AckInv, AckDone, Own
<1>7. AckOperate'
  BY <1>1, <1>2, <1>3 DEF AckInv, AckOperate, Operates, BacksUp
<1> QED
  BY <1>4, <1>5, <1>6, <1>7 DEF AckInv

\* The reply to a request promises only what is in the flash by now.
LEMMA ReplyAck == ASSUME IInv, Contents, AckInv, NEW t \in Tasks, Reply(t) PROVE AckInv'
<1> DEFINE a == Asked(job[t].op)
<1>1. /\ job[t].op \in Requests \cap OpsOf(t) /\ job[t].at = "done" /\ t \in Served /\ job[t] \in Jobs
      /\ UNCHANGED <<flash, seen, complete>>
  BY Roster DEF Reply, Contents, Fits, IInv, Shape, nvsVars
<1>2. PICK j : /\ job' = [job EXCEPT ![t] = j]
               /\ (j.op = job[t].op /\ j.at = "restart") \/ j.op = "none"
  <2> DEFINE j == [job[t] EXCEPT !.at = "restart"]
  <2>1. j.op = job[t].op /\ j.at = "restart" /\ Idle.op = "none"
    BY <1>1 DEF Jobs, Idle, Job
  <2>2. job' = [job EXCEPT ![t] = j] \/ job' = [job EXCEPT ![t] = Idle]
    BY DEF Reply, Goes, IInv, Shape
  <2> QED
    BY <2>1, <2>2
<1>3. /\ j.op \notin Resets /\ j.op \notin Fillers /\ ~Operates(j)
      /\ j.op \in Requests => j.at # "done"
  BY <1>1, <1>2 DEF Resets, Fillers, Requests, Pages, Refuses, Operates
<1>4. CASE UNCHANGED <<promised, misled>>
  BY <1>1, <1>2, <1>3, <1>4, AckKeeps
<1>5. CASE ~UNCHANGED <<promised, misled>>
  <2>1. /\ complete
        /\ promised' = [k \in Keys |->
               IF (\E i \in DOMAIN a : a[i].key = k /\ (k \in job[t].wrote => seen[k] = a[i].val))
               THEN (CHOOSE e \in {a[i] : i \in DOMAIN a} : e.key = k).val ELSE promised[k]]
        /\ misled' = misled \cup ({a[i].key : i \in DOMAIN a} \ job[t].wrote)
    BY <1>5 DEF Reply, Acknowledges
  <2>2. \A i \in DOMAIN a : /\ a[i].key \in Keys /\ a[i].val = Own(t)
                            /\ a[i].key = "baud_rate" => t = "httpd"
    BY <1>1, AskedEntries
  <2> HIDE DEF a
  <2>3. ASSUME NEW k \in Keys, \E i \in DOMAIN a : a[i].key = k
        PROVE  (CHOOSE e \in {a[i] : i \in DOMAIN a} : e.key = k).val = Own(t)
    <3>1. PICK i \in DOMAIN a : a[i].key = k
      BY <2>3
    <3>2. (CHOOSE e \in {a[m] : m \in DOMAIN a} : e.key = k) \in {a[m] : m \in DOMAIN a}
      BY <3>1
    <3> QED
      BY <2>2, <3>2
  <2>4. ASSUME NEW k \in Keys, Stands(k)'
        PROVE  \/ Stands(k) /\ promised'[k] = promised[k]
               \/ /\ promised'[k] = Own(t) /\ k \in job[t].wrote /\ seen[k] = Own(t)
                  /\ k = "baud_rate" => t = "httpd"
    <3>1. CASE \E i \in DOMAIN a : a[i].key = k /\ (k \in job[t].wrote => seen[k] = a[i].val)
      <4>1. PICK i \in DOMAIN a : a[i].key = k /\ (k \in job[t].wrote => seen[k] = a[i].val)
        BY <3>1
      <4>2. promised'[k] = Own(t)
        BY <2>1, <2>3, <3>1
      <4>3. k \in job[t].wrote
        BY <2>1, <2>4, <4>1 DEF Stands
      <4> QED
        BY <2>2, <4>1, <4>2, <4>3
    <3>2. CASE ~\E i \in DOMAIN a : a[i].key = k /\ (k \in job[t].wrote => seen[k] = a[i].val)
      <4>1. promised'[k] = promised[k]
        BY <2>1, <3>2
      <4> QED
        BY <2>1, <2>4, <4>1 DEF Stands
    <3> QED
      BY <3>1, <3>2
  <2>5. \A u \in Tasks : job'[u] = IF u = t THEN j ELSE job[u]
    BY <1>2 DEF IInv, Shape
  <2>6. "httpd" \in Tasks /\ Served \subseteq Tasks
    BY DEF Tasks, Served
  <2>7. AckStored'
    <3> SUFFICES ASSUME NEW k \in Keys, Stands(k)' PROVE flash[k] = promised'[k] /\ seen[k] = promised'[k]
      BY <1>1 DEF AckStored
    <3>1. CASE Stands(k) /\ promised'[k] = promised[k]
      BY <3>1 DEF AckInv, AckStored
    <3>2. CASE promised'[k] = Own(t) /\ k \in job[t].wrote /\ seen[k] = Own(t)
      BY <1>1, <2>1, <3>2 DEF AckInv, AckDone
    <3> QED
      BY <2>4, <3>1, <3>2
  <2>8. AckComplete'
    BY <1>1, <2>1 DEF AckComplete
  <2>9. AckErased'
    BY <1>1, <1>3, <2>5 DEF AckInv, AckErased
  <2>10. AckFill'
    <3> SUFFICES ASSUME NEW u \in Tasks, job'[u].op \in Fillers, NEW i \in DOMAIN job'[u].todo,
                        NEW k, k = job'[u].todo[i].key
                 PROVE  ~Stands(k)' /\ (job'[u].op \in {"info", "login"} => k = "baud_rate")
      BY DEF AckFill, Stands
    <3>1. u # t /\ job'[u] = job[u]
      BY <1>3, <2>5
    <3>2. /\ ~Stands(k) /\ k \in Keys /\ k = job[u].todo[i].key
          /\ job[u].op \in {"info", "login"} => k = "baud_rate"
      <4>1. job[u] \in Jobs
        BY DEF IInv, Shape
      <4> QED
        BY <2>1, <3>1, <4>1, EntryTypes DEF AckInv, AckFill
    <3>3. job[u].op \notin {"defaults", "migrate"}
      <4> SUFFICES ASSUME job[u].op \in {"defaults", "migrate"} PROVE FALSE
        OBVIOUS
      <4>1. u = "main"
        BY Roster DEF Contents, Fits
      <4>2. ~Serving
        BY <4>1 DEF Serving, At
      <4>3. job[t] = Idle
        BY <1>1, <4>2 DEF IInv, Roles
      <4> QED
        BY <1>1, <4>3 DEF Idle, Job
    <3>4. job[u].op = "login" \/ (job[u].op = "info" /\ u = "httpd")
      BY <3>1, <3>3, Roster DEF Contents, Fits, Fillers
    <3>5. ASSUME job[u].op = "login" PROVE FALSE
      <4>1. EntryFits(u, job[u].op, job[u].todo[i])
        BY <3>1 DEF Contents, Fits
      <4> QED
        BY <3>2, <3>5, <4>1 DEF EntryFits
    <3>6. k = "baud_rate" /\ t # "httpd"
      BY <3>1, <3>2, <3>4, <3>5
    <3>7. ~Stands(k)'
      BY <2>4, <3>1, <3>2, <3>6 DEF Stands
    <3> QED
      BY <3>1, <3>2, <3>7
  <2>11. AckDone'
    BY <1>1, <1>3, <2>1, <2>5, <2>6 DEF AckInv, AckDone, Own
  <2>12. AckOperate'
    BY <1>1, <1>3, <2>5, <2>6 DEF AckInv, AckOperate, Operates, BacksUp
  <2> QED
    BY <2>7, <2>8, <2>9, <2>10, <2>11, <2>12 DEF AckInv
<1> QED
  BY <1>4, <1>5

\* One nvs_set_str, whose effects on the promises depend on the kind of job.
LEMMA SetAck == ASSUME IInv, Contents, Rest, SnInv, AckInv, NEW t \in Tasks, Set(t) PROVE AckInv'
<1>1. PICK e \in [key : Keys, val : Values \ {Missing}], j \in Jobs :
           /\ e = Next1(t)
           /\ job'[t] = j /\ \A u \in Tasks \ {t} : job'[u] = job[u]
           /\ j.op = job[t].op /\ j.at = "write" /\ job[t].at = "write" /\ ~j.stale /\ ~job[t].stale
           /\ EntryFits(t, j.op, e)
           /\ \E i \in DOMAIN job[t].todo : job[t].todo[i] = e
           /\ \A i \in DOMAIN j.todo : \E m \in DOMAIN job[t].todo : j.todo[i] = job[t].todo[m]
           /\ seen'[e.key] = e.val /\ \A k \in Keys \ {e.key} : seen'[k] = seen[k]
           /\ UNCHANGED <<flash, complete>>
  BY SetFacts
<1>2. /\ promised' = IF j.op \in Requests THEN [promised EXCEPT ![e.key] = Missing] ELSE promised
      /\ misled' = IF j.op \in Requests THEN misled \ {e.key}
                   ELSE IF j.op \in {"operate", "uart"} /\ seen[e.key] # e.val THEN misled \cup {e.key}
                   ELSE misled
  BY <1>1 DEF Set
<1>3. /\ "main" \in Tasks /\ "httpd" \in Tasks /\ Served \subseteq Tasks
      /\ "w_mode" \in Keys /\ \A u \in Served : Own(u) # "default" /\ Own(u) # Missing
      /\ \A u, v \in Served : Own(u) = Own(v) => u = v
  BY DEF Tasks, Served, Keys, Own, Missing
<1>4. \A u \in Tasks : job[u] \in Jobs /\ Fits(u, job[u]) /\ job[u].wrote \subseteq Keys
                       /\ job[u].op \in OpsOf(u)
  BY DEF IInv, Shape, Jobs, Contents, Fits
<1>5. j.op \in Requests \cup Fillers \cup Resets \cup {"uart", "operate"}
  BY <1>1 DEF EntryFits
<1>6. /\ j.op \in Requests => t \in Served /\ e.val = Own(t)
      /\ j.op = "operate" => t = "httpd" /\ e.key = "w_mode"
      /\ j.op \in {"uart", "defaults", "migrate"} => t = "main"
      /\ j.op \in {"uart", "info", "login"} => e.val = "default"
      /\ j.op \in {"uart", "info", "login"} \cup Resets => e.key # "w_mode"
  BY <1>1, <1>4, Roster DEF EntryFits, Checked
<1>7. j.op \in {"defaults", "migrate"} => \A u \in Served : job[u] = Idle /\ job[u].op = "none"
  BY <1>1, <1>6 DEF IInv, Roles, Serving, At, Idle, Job
<1>8. j.op \in Resets => ~complete
  BY <1>1 DEF AckInv, AckErased
<1>9. /\ j.op \in Requests => j.op \notin Fillers /\ j.op \notin Resets /\ j.op \notin {"uart", "operate"}
      /\ j.op \in Fillers \cup Resets \cup {"uart", "operate"} => j.op \notin Requests
      /\ j.op \in Fillers \cup Resets => j.op \notin {"uart", "operate"}
  BY DEF Requests, Pages, Refuses, Fillers, Resets
\* A promise that stands has stood before, and is not written over.
<1>10. ASSUME NEW k \in Keys, Stands(k)'
       PROVE  Stands(k) /\ promised'[k] = promised[k] /\ (k = e.key => e.val = seen[k])
  <2>1. CASE j.op \in Requests
    <3>1. k # e.key
      BY <1>2, <1>10, <2>1 DEF Stands, Rest, Ghosts
    <3> QED
      BY <1>2, <1>10, <2>1, <3>1 DEF Stands, Rest, Ghosts
  <2>2. CASE j.op \in {"operate", "uart"}
    BY <1>2, <1>9, <1>10, <2>2 DEF Stands
  <2>3. CASE j.op \in Fillers
    <3>1. Stands(k) /\ promised' = promised
      BY <1>2, <1>9, <1>10, <2>3 DEF Stands
    <3>2. complete
      BY <3>1 DEF AckInv, AckComplete, Stands, Blank
    <3>3. k # e.key
      BY <1>1, <2>3, <3>1, <3>2 DEF AckInv, AckFill
    <3> QED
      BY <3>1, <3>3
  <2>4. CASE j.op \in Resets
    <3>1. Stands(k) /\ promised' = promised
      BY <1>2, <1>9, <1>10, <2>4 DEF Stands
    <3> QED
      BY <1>8, <2>4, <3>1 DEF AckInv, AckComplete, Stands, Blank
  <2> QED
    BY <1>5, <2>1, <2>2, <2>3, <2>4
<1>11. AckStored'
  BY <1>1, <1>10 DEF AckInv, AckStored
<1>12. AckComplete'
  BY <1>1, <1>2 DEF AckInv, AckComplete, Blank
<1>13. AckErased'
  BY <1>1, <1>8 DEF AckInv, AckErased
<1>14. AckFill'
  <2> SUFFICES ASSUME complete, NEW u \in Tasks, job'[u].op \in Fillers, NEW i \in DOMAIN job'[u].todo,
                      NEW k, k = job'[u].todo[i].key
               PROVE  ~Stands(k)' /\ (job'[u].op \in {"info", "login"} => k = "baud_rate")
    BY <1>1 DEF AckFill, Stands
  <2>1. PICK m \in DOMAIN job[u].todo : job'[u].todo[i] = job[u].todo[m]
    BY <1>1
  <2>2. job'[u].op = job[u].op /\ k = job[u].todo[m].key
    BY <1>1, <2>1
  <2>3. k \in Keys
    BY <1>4, <2>2, EntryTypes
  <2>4. ~Stands(k) /\ (job[u].op \in {"info", "login"} => k = "baud_rate")
    BY <2>2 DEF AckInv, AckFill
  <2> QED
    BY <1>10, <2>2, <2>3, <2>4
<1>15. AckDone'
  <2> SUFFICES ASSUME complete, NEW u \in Served, job'[u].op \in Requests, job'[u].at = "done",
                      NEW k \in job'[u].wrote, seen'[k] = Own(u)
               PROVE  flash[k] = Own(u)
    BY <1>1 DEF AckDone, Own
  <2>1. u # t /\ job'[u] = job[u] /\ k \in Keys
    BY <1>1, <1>3, <1>4
  <2>2. seen[k] = Own(u) => flash[k] = Own(u)
    BY <2>1 DEF AckInv, AckDone
  <2>3. CASE k # e.key
    BY <1>1, <2>1, <2>2, <2>3
  <2>4. CASE k = e.key
    <3>1. e.val = Own(u)
      BY <1>1, <2>4
    <3>2. j.op \notin Requests
      BY <1>3, <1>6, <2>1, <3>1
    <3>3. j.op \notin {"uart", "info", "login"}
      BY <1>3, <1>6, <3>1
    <3>4. j.op \notin {"defaults", "migrate"}
      BY <1>7, <2>1 DEF Requests, Pages, Refuses
    <3>5. j.op = "operate" /\ t = "httpd" /\ k = "w_mode"
      BY <1>5, <1>6, <1>8, <2>4, <3>2, <3>3, <3>4 DEF Fillers
    <3>6. u = "mqtt"
      BY <1>3, <1>4, <2>1, <3>5 DEF Served, Fits
    <3>7. BacksUp(job[t], seen["w_mode"])
      BY <1>1, <3>5 DEF AckInv, AckOperate, Operates
    <3>8. e.val = "mqtt"
      BY <3>1, <3>6 DEF Own
    <3>9. seen[k] = "mqtt"
      BY <1>1, <3>5, <3>7, <3>8 DEF BacksUp
    <3> QED
      BY <2>2, <3>1, <3>8, <3>9
  <2> QED
    BY <2>3, <2>4
<1>16. AckOperate'
  <2> SUFFICES ASSUME Operates(job'["httpd"]) PROVE BacksUp(job'["httpd"], seen'["w_mode"])
    BY DEF AckOperate, Operates, BacksUp
  <2>1. CASE t = "httpd"
    <3>1. j.op = "operate" /\ e.key = "w_mode"
      BY <1>1, <1>6, <2>1 DEF Operates
    <3>2. BacksUp(job[t], seen["w_mode"])
      BY <1>1, <2>1, <3>1 DEF AckInv, AckOperate, Operates
    <3>3. seen'["w_mode"] = e.val
      BY <1>1, <3>1
    <3>4. \A i \in DOMAIN j.todo : j.todo[i].val = e.val
      BY <1>1, <3>2 DEF BacksUp
    <3> QED
      BY <1>1, <2>1, <3>3, <3>4 DEF BacksUp
  <2>2. CASE t # "httpd"
    <3>1. job'["httpd"] = job["httpd"] /\ BacksUp(job["httpd"], seen["w_mode"])
      BY <1>1, <1>3, <2>2 DEF AckInv, AckOperate
    <3>2. CASE e.key # "w_mode"
      BY <1>1, <1>3, <3>1, <3>2
    <3>3. CASE e.key = "w_mode"
      <4>1. j.op \notin {"defaults", "migrate"}
        BY <1>7, <3>1 DEF Operates, Served
      <4>2. j.op \in Requests
        BY <1>5, <1>6, <2>2, <3>3, <4>1 DEF Fillers
      <4>3. t = "mqtt"
        BY <1>1, <1>6, <2>2, <3>3, <4>2 DEF Served, EntryFits
      <4>4. seen'["w_mode"] = "mqtt"
        BY <1>1, <1>6, <3>3, <4>2, <4>3 DEF Own
      <4> QED
        BY <3>1, <4>4 DEF BacksUp
    <3> QED
      BY <3>2, <3>3
  <2> QED
    BY <2>1, <2>2
<1> QED
  BY <1>11, <1>12, <1>13, <1>14, <1>15, <1>16 DEF AckInv

\* Every step keeps what the acknowledgements rest on.
LEMMA NextAck == IInv /\ Contents /\ Rest /\ SnInv /\ AckInv /\ [Next]_vars => AckInv'
<1> SUFFICES ASSUME IInv, Contents, Rest, SnInv, AckInv, Kinds PROVE AckInv'
  BY EveryKind
<1>1. CASE Same /\ UNCHANGED job
  BY <1>1 DEF Same, AckInv, AckStored, AckComplete, AckErased, AckFill, AckDone, AckOperate, Stands,
              Operates, BacksUp
<1> QED
  BY <1>1, RebootAck, EraseAck, SerialAck, SetAck, CommitAck, ReplyAck, ReadAck, SkipAck, JobAck
  DEF Kinds

\* A setting that was acknowledged is in the flash, whatever the pages fill in,
\* the boot checks, the resets erase and the other tasks write, until a request
\* of its own or an erase ends the promise, for every key not in misled.
THEOREM AcknowledgedCorrect == Spec => []AcknowledgedIsStored
<1>1. Init => AckInv
  <2> SUFFICES ASSUME Init PROVE AckInv
    OBVIOUS
  <2>1. promised = Blank /\ misled = {}
    BY DEF Init
  <2>2. \A t \in Tasks : job[t] = IF t = "main" THEN Job("boot", "init", <<>>) ELSE Idle
    BY DEF Init
  <2>3. \A t \in Tasks : /\ job[t].op \notin Resets /\ job[t].op \notin Fillers
                         /\ job[t].op \notin Requests /\ job[t].op # "operate"
    BY <2>2 DEF Job, Idle, Resets, Fillers, Requests, Pages, Refuses, Tasks
  <2>4. AckStored /\ AckComplete
    BY <2>1 DEF AckStored, AckComplete, Stands, Blank
  <2>5. AckErased /\ AckFill /\ AckDone /\ AckOperate
    BY <2>3 DEF AckErased, AckFill, AckDone, AckOperate, Operates, Served, Tasks
  <2> QED
    BY <2>4, <2>5 DEF AckInv
<1>2. AckInv => AcknowledgedIsStored
  BY DEF AckInv, AckStored, AcknowledgedIsStored, Stands
<1> QED
  BY <1>1, <1>2, NextAck, Invariance, AllContents, AllRest, SnInvariance, PTL DEF Spec

-----------------------------------------------------------------------------
(* What a step may never do.                                                   *)

\* A key in the flash is seen as well, whatever the key.
AllSeen == \A k \in Keys : flash[k] # Missing => seen[k] # Missing

\* Nothing but an erase loses a setting, with or without a restart.
LEMMA KeepsSettings ==
  ASSUME IInv, Contents, AllSeen, Kinds
  PROVE  AllSeen' /\ (Erased \/ \A k \in Keys : flash[k] # Missing => flash'[k] # Missing)
<1>1. CASE Same
  BY <1>1 DEF Same, AllSeen
<1>2. CASE Reboot
  <2>1. seen' = flash' /\ \A k \in Keys : flash'[k] \in {flash[k], seen[k]}
    BY <1>2 DEF Reboot
  <2> QED
    BY <2>1 DEF AllSeen
<1>3. CASE Erased
  BY <1>3 DEF Erased, AllSeen, Blank
<1>4. CASE SerialFill
  <2>1. /\ \A k \in Keys : seen'[k] = seen[k] \/ seen'[k] = "default"
        /\ flash' = flash
    BY <1>4 DEF SerialFill, IInv, Shape
  <2> QED
    BY <2>1 DEF AllSeen, Missing
<1>5. ASSUME NEW t \in Tasks, Set(t) PROVE AllSeen' /\ flash' = flash
  <2>1. PICK e \in [key : Keys, val : Values \ {Missing}] :
          seen'[e.key] = e.val /\ (\A k \in Keys \ {e.key} : seen'[k] = seen[k]) /\ flash' = flash
    BY <1>5, SetFacts
  <2> QED
    BY <2>1 DEF AllSeen
<1>6. ASSUME NEW t \in Tasks, Commit(t)
      PROVE  AllSeen' /\ \A k \in Keys : flash[k] # Missing => flash'[k] # Missing
  <2>1. seen' = seen /\ \A k \in Keys : flash'[k] \in {flash[k], seen[k]}
    BY <1>6 DEF Commit
  <2> QED
    BY <2>1 DEF AllSeen
<1>7. ASSUME NEW t \in Tasks, Reply(t) \/ ReadKept(t) \/ FailSkips(t) PROVE flash' = flash /\ seen' = seen
  BY <1>7 DEF Reply, ReadKept, FailSkips, nvsVars
<1>8. CASE flash' = flash /\ seen' = seen
  BY <1>8 DEF AllSeen
<1>9. NvsUnusable \/ HeldForTwoSeconds \/ (\E t \in Tasks : EraseAll(t)) => Erased
  BY DEF NvsUnusable, HeldForTwoSeconds, EraseAll
<1> QED
  BY <1>1, <1>2, <1>3, <1>4, <1>5, <1>6, <1>7, <1>8, <1>9 DEF Kinds, Ends, Starts, Proceeds

\* Nothing but nvs_flash_erase removes a setting from what the next boot reads:
\* neither a commit that comes after other writes, nor a restart between a set and
\* its commit, which keeps one of two values of which none is missing.
NothingVanishes == [][\A k \in Keys : flash[k] # Missing /\ flash'[k] = Missing => Erased]_vars
THEOREM NothingIsLost == Spec => NothingVanishes
<1>1. Init => AllSeen
  BY DEF Init, AllSeen
<1>2. IInv /\ Contents /\ AllSeen /\ [Next]_vars => AllSeen'
  BY EveryKind, KeepsSettings
<1>3. IInv /\ Contents /\ AllSeen /\ [Next]_vars =>
        [\A k \in Keys : flash[k] # Missing /\ flash'[k] = Missing => Erased]_vars
  BY EveryKind, KeepsSettings
<1> QED
  BY <1>1, <1>2, <1>3, Invariance, AllContents, PTL DEF Spec, NothingVanishes

\* When the device has no number to keep any more: after an erase that keeps
\* nothing, after a restart in the window or before the first commit of the
\* number, after a failed call of a reset, when a reset reads it while another one
\* has erased it, or when it is written while a reset is about to erase it.
GivesUp ==
  \/ NvsUnusable \/ HeldForTwoSeconds
  \/ Reboot /\ (Window \/ flash["device_sn"] = Missing)
  \/ \E t \in Tasks : FailSkips(t) /\ job[t].op \in Resets
  \/ \E t, u \in Tasks : t # u /\ ReadKept(t) /\ Pending(job[u])
  \/ \E t, u \in Tasks : t # u /\ Set(t) /\ job[u].op \in Resets /\ job[u].at = "erase"

\* The list is complete.
LEMMA OnlyGivenUp ==
  ASSUME IInv, Contents, SnInv, Kinds, sn # Missing, sn' = Missing PROVE GivesUp
<1>1. ~Same /\ ~SerialFill
  BY DEF Same, SerialFill, ghostVars
<1>2. CASE NvsUnusable \/ HeldForTwoSeconds
  BY <1>2 DEF GivesUp
<1>3. CASE Reboot
  <2> SUFFICES ASSUME ~Window PROVE flash["device_sn"] = Missing
    BY <1>3 DEF GivesUp
  <2>1. "device_sn" \in Unsaved /\ flash'["device_sn"] = Missing
    BY <1>3 DEF Reboot
  <2>2. flash'["device_sn"] \in {flash["device_sn"], seen["device_sn"]}
    BY <1>3 DEF Reboot, Keys, Checked
  <2>3. seen["device_sn"] = sn
    BY DEF SnInv, SnSeen, Window, Pending, Resets
  <2> QED
    BY <2>1, <2>2, <2>3
<1>4. ASSUME NEW t \in Tasks, Set(t) PROVE GivesUp
  <2>1. PICK e \in [key : Keys, val : Values \ {Missing}] : e = Next1(t) /\ job[t].at = "write"
    BY <1>4, SetFacts
  <2>2. PICK u \in Tasks : job[u].op \in Resets /\ job[u].at = "erase"
    BY <1>4, <2>1 DEF Set, Resets
  <2> QED
    BY <1>4, <2>1, <2>2 DEF GivesUp
<1>5. ASSUME NEW t \in Tasks, ReadKept(t) PROVE GivesUp
  <2>1. seen["device_sn"] = Missing /\ job[t].at = "read"
    BY <1>5 DEF ReadKept
  <2>2. PICK u \in Tasks : Pending(job[u])
    BY <2>1 DEF SnInv, SnSeen
  <2>3. u # t
    BY <2>1, <2>2 DEF Pending
  <2> QED
    BY <1>5, <2>2, <2>3 DEF GivesUp
<1>6. ASSUME NEW t \in Tasks, FailSkips(t) PROVE GivesUp
  BY <1>6 DEF FailSkips, GivesUp, Resets
<1>7. ASSUME NEW t \in Tasks, Commit(t) \/ Reply(t) \/ EraseAll(t) PROVE FALSE
  BY <1>7 DEF Commit, Reply, EraseAll
<1> QED
  BY <1>1, <1>2, <1>3, <1>4, <1>5, <1>6, <1>7 DEF Kinds, Ends, Starts, Proceeds

\* SerialNumberKept says nothing once the device has no number to keep.  It comes
\* to that only in the cases of GivesUp, and in no other step.
NumberGivenUp == [][sn # Missing /\ sn' = Missing => GivesUp]_vars
THEOREM NumberKeptOtherwise == Spec => NumberGivenUp
<1>1. IInv /\ Contents /\ SnInv /\ [Next]_vars => [sn # Missing /\ sn' = Missing => GivesUp]_vars
  BY EveryKind, OnlyGivenUp
<1> QED
  BY <1>1, Invariance, AllContents, SnInvariance, PTL DEF Spec, NumberGivenUp
=============================================================================

--------------------------- MODULE WebSocket_proofs ---------------------------
(* Proofs about WebSocket, for any browsers, socket numbers and slots, any     *)
(* length of the message queue and any number of connections.                  *)
EXTENDS WebSocket, WellFoundedInduction, SequenceTheorems, FiniteSetTheorems, TLAPS

\* What a worker is doing, or will do after the line that it is logging.
Phase(w) == IF At(w, "log") THEN pc[w].after ELSE pc[w].at

-----------------------------------------------------------------------------
(* The inductive invariant.                                                    *)

Shape ==
  /\ sess \in [Fds -> [who : Browsers \cup {"page", "none"}, ws : BOOLEAN, peer : BOOLEAN, trig : BOOLEAN]]
  /\ slot \in [Slots -> [fd : Fds, tag : Browsers] \cup {Free}]
  /\ pc \in [Workers -> [at : Steps, after : Steps \ {"log"}]]
  /\ hd \in [fd : Fds \cup {0}, tag : Browsers \cup {"none"}, list : SUBSET Fds, idx : SUBSET Slots]
  /\ stale \subseteq Used
  /\ \A f \in Fds : sess[f].ws => sess[f].who \in Browsers

\* Nobody but a stale slot has the number.
Unknown(f) == \A i \in Used \ stale : slot[i].fd # f

\* A number has one slot, stale ones aside.
OneSlot == \A i, j \in Used \ stale : slot[i].fd = slot[j].fd => i = j

\* What the task of the HTTP server knows of the session that it works on.
Working ==
  /\ Phase("httpd") = "idle" => hd = NoJob
  /\ hd.list # {} => Phase("httpd") = "trigger"
  /\ Phase("httpd") \in {"slot", "release", "close", "closed"} => hd.fd \in Fds
  /\ Phase("httpd") \in {"replace", "trigger", "slot"} /\ hd.fd # 0 =>
       sess[hd.fd].ws /\ sess[hd.fd].who = hd.tag /\ Unknown(hd.fd)
  /\ Phase("httpd") = "closed" => Unknown(hd.fd)
  /\ \A i \in hd.idx : slot[i] = Free \/ slot[i].fd = hd.fd

IInv == Shape /\ OneSlot /\ Working /\ SlotsAreOpen /\ ListenersHaveSlots

\* The initial state satisfies the invariant.
LEMMA InitIInv == Init => IInv
<1> SUFFICES ASSUME Init PROVE IInv
  OBVIOUS
<1>1. Used = {}
  BY DEF Init, Used
<1>2. Shape
  BY <1>1 DEF Init, Shape, NoSess, NoJob, Steps, Workers
<1>3. Phase("httpd") = "idle"
  BY DEF Init, Phase, At, Workers
<1>4. OneSlot /\ SlotsAreOpen /\ Working
  BY <1>1, <1>3 DEF Init, OneSlot, SlotsAreOpen, Working, NoJob
<1>5. ListenersHaveSlots
  BY DEF Init, ListenersHaveSlots, NoSess
<1> QED
  BY <1>2, <1>4, <1>5 DEF IInv

-----------------------------------------------------------------------------
(* Lemmas about the operators the actions are built from.                      *)

\* A set of slots that is not empty has a least one.
LEMMA LeastIn == ASSUME NEW S \in SUBSET Slots, S # {} PROVE Least(S) \in S
<1> DEFINE R == OpToRel(<, Nat)
<1>1. IsWellFoundedOn(R, Nat)
  BY NatLessThanWellFounded
<1>2. ASSUME NEW x \in Nat, NEW y \in Nat, ~(<<y, x>> \in R) PROVE x <= y
  <2>1. ~(y < x)
    BY <1>2, Zenon DEF OpToRel
  <2> QED
    BY <2>1
<1> HIDE DEF R
<1>3. S \subseteq Nat
  BY DEF Slots
<1>4. PICK x \in S : \A y \in S : ~(<<y, x>> \in R)
  BY <1>1, <1>3, WFMin
<1>5. ASSUME NEW y \in S PROVE x <= y
  <2>1. x \in Nat /\ y \in Nat
    BY <1>3
  <2>2. ~(<<y, x>> \in R)
    BY <1>4, Zenon
  <2> QED
    BY <1>2, <2>1, <2>2, Zenon
<1> QED
  BY <1>5 DEF Least

\* A worker goes to a step, perhaps after a line that it logs under the mutex.
LEMMA Moves ==
  ASSUME Shape, NEW w \in Workers, NEW step \in Steps \ {"log"},
         \/ pc' = [pc EXCEPT ![w].at = step]
         \/ pc' = [pc EXCEPT ![w] = [at |-> "log", after |-> step]]
  PROVE  /\ pc' \in [Workers -> [at : Steps, after : Steps \ {"log"}]]
         /\ Phase(w)' = step /\ \A v \in Workers \ {w} : Phase(v)' = Phase(v)
<1>1. "log" \in Steps /\ pc \in [Workers -> [at : Steps, after : Steps \ {"log"}]]
  BY DEF Shape, Steps
<1>2. CASE pc' = [pc EXCEPT ![w].at = step]
  BY <1>1, <1>2 DEF Phase, At
<1>3. CASE pc' = [pc EXCEPT ![w] = [at |-> "log", after |-> step]]
  BY <1>1, <1>3 DEF Phase, At
<1> QED
  BY <1>2, <1>3

\* The line is posted or dropped: the worker is where it was going.
LEMMA Logged ==
  ASSUME Shape, NEW w \in Workers, LogPosted(w) \/ LogTimesOut(w)
  PROVE  /\ pc' \in [Workers -> [at : Steps, after : Steps \ {"log"}]]
         /\ \A v \in Workers : Phase(v)' = Phase(v)
<1>1. /\ pc[w].at = "log" /\ pc' = [pc EXCEPT ![w] = [at |-> pc[w].after, after |-> "idle"]]
      /\ pc \in [Workers -> [at : Steps, after : Steps \ {"log"}]] /\ "idle" \in Steps \ {"log"}
  BY DEF LogPosted, LogTimesOut, At, Shape, Steps
<1>2. pc' \in [Workers -> [at : Steps, after : Steps \ {"log"}]]
  BY <1>1
<1>3. Phase(w)' = Phase(w)
  BY <1>1 DEF Phase, At
<1>4. \A v \in Workers \ {w} : Phase(v)' = Phase(v)
  BY <1>1 DEF Phase, At
<1> QED
  BY <1>2, <1>3, <1>4

\* Slots are released.
LEMMA Released ==
  ASSUME Shape, NEW R, slot' = [i \in Slots |-> IF i \in R THEN Free ELSE slot[i]]
  PROVE  /\ slot' \in [Slots -> [fd : Fds, tag : Browsers] \cup {Free}]
         /\ Used' = Used \ R /\ \A i \in Used' : slot'[i] = slot[i]
  BY DEF Shape, Used

\* Fewer slots, and the sessions of those that stay are as before.
LEMMA FewerSlots ==
  ASSUME Shape, OneSlot, SlotsAreOpen,
         Used' \ stale' \subseteq Used \ stale, \A i \in Used' \ stale' : slot'[i] = slot[i],
         \A i \in Used' \ stale' : sess[slot[i].fd].ws =>
            sess'[slot[i].fd].ws /\ sess'[slot[i].fd].who = sess[slot[i].fd].who
  PROVE  OneSlot' /\ SlotsAreOpen' /\ \A f : Unknown(f) => Unknown(f)'
  BY DEF OneSlot, SlotsAreOpen, Unknown

\* What goes on beside the task of the HTTP server.
LEMMA Aside ==
  ASSUME IInv, Shape', ListenersHaveSlots', UNCHANGED hd, Phase("httpd")' = Phase("httpd"),
         Used' \ stale' \subseteq Used \ stale, \A i \in Slots : slot'[i] \in {slot[i], Free},
         \A f \in Fds : sess[f].ws => sess'[f].ws /\ sess'[f].who = sess[f].who
  PROVE  IInv'
<1>1. \A i \in Used' \ stale' : slot'[i] = slot[i] /\ slot[i].fd \in Fds
  BY DEF Used, IInv, Shape
<1>2. OneSlot' /\ SlotsAreOpen' /\ \A f : Unknown(f) => Unknown(f)'
  BY <1>1, FewerSlots DEF IInv
<1>3. Working'
  <2>1. hd.idx \subseteq Slots /\ hd.fd \in Fds \cup {0}
    BY DEF IInv, Shape
  <2> QED
    BY <1>2, <2>1 DEF IInv, Working
<1> QED
  BY <1>2, <1>3 DEF IInv

\* A step that changes neither slots nor sessions.
LEMMA Quiet ==
  ASSUME IInv, UNCHANGED <<sess, slot, hd, stale, deaf>>, Phase("httpd")' = Phase("httpd"),
         pc' \in [Workers -> [at : Steps, after : Steps \ {"log"}]]
  PROVE  IInv'
<1>1. Used' = Used
  BY DEF Used
<1>2. Shape' /\ ListenersHaveSlots'
  BY <1>1 DEF IInv, Shape, ListenersHaveSlots
<1> QED
  BY <1>1, <1>2, Aside

-----------------------------------------------------------------------------
(* The other ends, the messages and the send task.                             *)

\* Connections that come and ends that vanish.
LEMMA PeerStep ==
  ASSUME IInv, NEW fd \in Fds, Vanish(fd) \/ \E who \in Browsers \cup {"page"} : Connect(who, fd)
  PROVE  IInv'
<1>1. UNCHANGED <<slot, pc, hd, stale>> /\ Used' = Used /\ Phase("httpd")' = Phase("httpd")
  BY DEF Vanish, Connect, httpdVars, Used, Phase, At
<1>2. CASE Vanish(fd)
  <2>1. sess' = [sess EXCEPT ![fd].peer = FALSE] /\ UNCHANGED deaf
    BY <1>2 DEF Vanish
  <2>2. /\ sess' \in [Fds -> [who : Browsers \cup {"page", "none"}, ws : BOOLEAN,
                              peer : BOOLEAN, trig : BOOLEAN]]
        /\ \A f \in Fds : /\ sess'[f].ws = sess[f].ws /\ sess'[f].who = sess[f].who
                          /\ sess'[f].trig = sess[f].trig /\ (sess'[f].peer => sess[f].peer)
    <3>1. sess'[fd] = [sess[fd] EXCEPT !.peer = FALSE] /\ \A f \in Fds \ {fd} : sess'[f] = sess[f]
      BY <2>1 DEF IInv, Shape
    <3>2. sess[fd] \in [who : Browsers \cup {"page", "none"}, ws : BOOLEAN,
                       peer : BOOLEAN, trig : BOOLEAN]
      BY DEF IInv, Shape
    <3>3. /\ sess'[fd].ws = sess[fd].ws /\ sess'[fd].who = sess[fd].who
          /\ sess'[fd].trig = sess[fd].trig /\ ~sess'[fd].peer
          /\ sess'[fd] \in [who : Browsers \cup {"page", "none"}, ws : BOOLEAN,
                            peer : BOOLEAN, trig : BOOLEAN]
      BY <3>1, <3>2
    <3>4. sess' \in [Fds -> [who : Browsers \cup {"page", "none"}, ws : BOOLEAN,
                            peer : BOOLEAN, trig : BOOLEAN]]
      BY <2>1, <3>3 DEF IInv, Shape
    <3> QED
      BY <3>1, <3>3, <3>4
  <2>3. Shape'
    BY <1>1, <2>2 DEF IInv, Shape
  <2>4. ListenersHaveSlots'
    BY <1>1, <2>1, <2>2 DEF IInv, ListenersHaveSlots
  <2> QED
    BY <1>1, <2>2, <2>3, <2>4, Aside
<1>3. ASSUME NEW who \in Browsers \cup {"page"}, Connect(who, fd) PROVE IInv'
  <2>1. /\ sess[fd].who = "none" /\ deaf' = deaf \ {fd}
        /\ sess' = [sess EXCEPT ![fd] = [who |-> who, ws |-> FALSE, peer |-> TRUE, trig |-> FALSE]]
    BY <1>3 DEF Connect, Open
  <2>2. ~sess[fd].ws /\ ~sess'[fd].ws
    BY <2>1, WebSocketAssumption DEF IInv, Shape
  <2>3. \A f \in Fds \ {fd} : sess'[f] = sess[f]
    BY <2>1 DEF IInv, Shape
  <2>4. Shape'
    BY <1>1, <2>1 DEF IInv, Shape
  <2>5. ListenersHaveSlots'
    BY <1>1, <2>1, <2>2, <2>3 DEF IInv, ListenersHaveSlots
  <2>6. \A f \in Fds : sess[f].ws => sess'[f].ws /\ sess'[f].who = sess[f].who
    BY <2>2, <2>3
  <2> QED
    BY <1>1, <2>4, <2>5, <2>6, Aside
<1> QED
  BY <1>2, <1>3

\* The send task orders the closing of a session that it could not reach.
LEMMA TriggerFailedStep == ASSUME IInv, TriggerFailed PROVE IInv'
<1> DEFINE f == Head(fds)
<1>1. /\ UNCHANGED <<slot, hd, stale, deaf>> /\ pc' = [pc EXCEPT !["sender"].at = "reset"]
      /\ sess' = IF Open(f) THEN [sess EXCEPT ![f].trig = TRUE] ELSE sess
  BY DEF TriggerFailed, httpdVars, Goes
<1> HIDE DEF f
<1>2. sess \in [Fds -> [who : Browsers \cup {"page", "none"}, ws : BOOLEAN, peer : BOOLEAN, trig : BOOLEAN]]
  BY DEF IInv, Shape
<1>3. \A g \in Fds : /\ sess'[g].ws = sess[g].ws /\ sess'[g].who = sess[g].who
                    /\ sess'[g].peer = sess[g].peer /\ (sess[g].trig => sess'[g].trig)
  BY <1>1, <1>2
<1>4. sess' \in [Fds -> [who : Browsers \cup {"page", "none"}, ws : BOOLEAN, peer : BOOLEAN, trig : BOOLEAN]]
  BY <1>1, <1>2
<1>5. Used' = Used /\ Phase("httpd")' = Phase("httpd")
      /\ pc' \in [Workers -> [at : Steps, after : Steps \ {"log"}]]
  BY <1>1, Moves DEF Used, IInv, Steps, Workers
<1>6. Shape' /\ ListenersHaveSlots'
  BY <1>1, <1>3, <1>4, <1>5 DEF IInv, Shape, ListenersHaveSlots
<1> QED
  BY <1>1, <1>3, <1>5, <1>6, Aside

\* The send task releases a slot of the number that it could not reach.
LEMMA ResetFailedStep == ASSUME IInv, ResetFailed PROVE IInv'
<1> DEFINE f    == Head(fds)
           mine == Of(f)
           R    == IF mine = {} THEN {} ELSE {Least(mine)}
<1>1. UNCHANGED <<sess, hd>> /\ Shape
  BY DEF ResetFailed, IInv
<1>2. /\ Phase("httpd")' = Phase("httpd")
      /\ pc' \in [Workers -> [at : Steps, after : Steps \ {"log"}]]
  <2>1. \/ pc' = [pc EXCEPT !["sender"].at = "send"]
        \/ pc' = [pc EXCEPT !["sender"] = [at |-> "log", after |-> "send"]]
    BY DEF ResetFailed, Section, Goes
  <2> QED
    BY <1>1, <2>1, Moves DEF Steps, Workers
<1>3. CASE UNCHANGED <<slot, stale, deaf>>
  BY <1>1, <1>2, <1>3, Quiet
<1>4. CASE /\ slot' = [i \in Slots |-> IF mine # {} /\ i = Least(mine) THEN Free ELSE slot[i]]
           /\ stale' = (IF mine = {} THEN stale ELSE stale \ {Least(mine)})
           /\ deaf' = (IF mine # {} /\ sess[f].peer /\ ~sess[f].trig THEN deaf \cup {f} ELSE deaf)
  <2>1. slot' = [i \in Slots |-> IF i \in R THEN Free ELSE slot[i]] /\ stale' = stale \ R
    BY <1>4
  <2>2. \A i \in R : i \in Used /\ slot[i].fd = f
    BY LeastIn DEF Of, Used
  <2>3. R # {} => deaf' = IF sess[f].peer /\ ~sess[f].trig THEN deaf \cup {f} ELSE deaf
    BY <1>4
  <2>4. deaf \subseteq deaf'
    BY <1>4
  <2> HIDE DEF R, f, mine
  <2>5. /\ slot' \in [Slots -> [fd : Fds, tag : Browsers] \cup {Free}]
        /\ Used' = Used \ R /\ \A i \in Used' : slot'[i] = slot[i]
    BY <1>1, <2>1, Released
  <2>6. Shape'
    BY <1>1, <1>2, <2>1, <2>5 DEF Shape
  <2>7. ListenersHaveSlots'
    <3> SUFFICES ASSUME NEW g \in Fds, sess[g].ws, sess[g].peer, ~sess[g].trig, g \notin deaf',
                        g \notin {hd.fd} \cup hd.list
                 PROVE  \E i \in Used' : slot'[i].fd = g /\ slot'[i].tag = sess[g].who
      BY <1>1 DEF ListenersHaveSlots
    <3>1. PICK i \in Used : slot[i].fd = g /\ slot[i].tag = sess[g].who
      BY <2>4 DEF IInv, ListenersHaveSlots
    <3>2. i \notin R
      BY <2>2, <2>3, <3>1
    <3> QED
      BY <2>5, <3>1, <3>2
  <2>8. Used' \ stale' \subseteq Used \ stale /\ \A i \in Slots : slot'[i] \in {slot[i], Free}
    BY <2>1, <2>5
  <2> QED
    BY <1>1, <1>2, <2>6, <2>7, <2>8, Aside
<1> QED
  BY <1>3, <1>4 DEF ResetFailed

\* All other steps beside the task of the HTTP server, and its logging.
LEMMA OtherStep ==
  ASSUME IInv,
         \/ Post \/ LogSwitch \/ Receive \/ Snapshot \/ Sent \/ SendFails \/ AllSent \/ UNCHANGED vars
         \/ \E w \in Workers : LogPosted(w) \/ LogTimesOut(w)
  PROVE  IInv'
<1>1. UNCHANGED <<sess, slot, hd, stale, deaf>>
  BY DEF Post, LogSwitch, Receive, Snapshot, Sent, SendFails, AllSent, LogPosted, LogTimesOut, vars, httpdVars
<1>2. CASE UNCHANGED pc
  <2>1. Phase("httpd")' = Phase("httpd")
    BY <1>2 DEF Phase, At
  <2> QED
    BY <1>1, <1>2, <2>1, Quiet DEF IInv, Shape
<1>3. CASE \E step \in Steps \ {"log"} : pc' = [pc EXCEPT !["sender"].at = step]
  <2>1. PICK step \in Steps \ {"log"} : pc' = [pc EXCEPT !["sender"].at = step]
    BY <1>3
  <2>2. Phase("httpd")' = Phase("httpd") /\ pc' \in [Workers -> [at : Steps, after : Steps \ {"log"}]]
    BY <2>1, Moves DEF IInv, Workers
  <2> QED
    BY <1>1, <2>2, Quiet
<1>4. CASE \E w \in Workers : LogPosted(w) \/ LogTimesOut(w)
  <2>1. Phase("httpd")' = Phase("httpd") /\ pc' \in [Workers -> [at : Steps, after : Steps \ {"log"}]]
    BY <1>4, Logged DEF IInv, Workers
  <2> QED
    BY <1>1, <2>1, Quiet
<1> QED
  BY <1>2, <1>3, <1>4 DEF Post, LogSwitch, Receive, Snapshot, Sent, SendFails, AllSent, vars, Goes, Steps

-----------------------------------------------------------------------------
(* The task of the HTTP server.                                                *)

\* It goes to a step of its own.
LEMMA HttpdMoves ==
  ASSUME Shape, NEW step \in Steps \ {"log"},
         \/ Goes("httpd", step)
         \/ pc' = [pc EXCEPT !["httpd"] = [at |-> "log", after |-> step]]
  PROVE  /\ pc' \in [Workers -> [at : Steps, after : Steps \ {"log"}]]
         /\ Phase("httpd")' = step
  BY Moves DEF Goes, Workers

\* It takes up a session, or the wish of a page to disconnect another.
LEMMA BeginStep ==
  ASSUME IInv,
         \/ \E fd \in Fds : Handshake(fd) \/ FindClosed(fd) \/ Unusable(fd) \/ Ends(fd)
         \/ \E tag \in Browsers : Disconnect(tag)
  PROVE  IInv'
<1>1. /\ UNCHANGED <<slot, stale, deaf>> /\ Used' = Used /\ hd = NoJob /\ Shape
      /\ hd.list = {} /\ hd.fd = 0 /\ 0 \notin Fds
  <2>1. UNCHANGED <<slot, stale, deaf>> /\ At("httpd", "idle")
    BY DEF Handshake, FindClosed, Unusable, Ends, Disconnect
  <2>2. Phase("httpd") = "idle"
    BY <2>1 DEF Phase, At
  <2> QED
    BY <2>1, <2>2, WebSocketAssumption DEF Used, IInv, Working, NoJob
<1>2. ASSUME NEW step \in Steps \ {"log"}, Goes("httpd", step), sess' = sess,
             NEW fd \in Fds \cup {0}, NEW tag \in Browsers \cup {"none"}, NEW idx \in SUBSET Of(fd),
             hd' = [fd |-> fd, tag |-> tag, list |-> {}, idx |-> idx],
             (step = "replace" /\ fd = 0) \/ (step \in {"release", "close"} /\ fd # 0)
      PROVE  IInv'
  <2>1. Phase("httpd")' = step /\ pc' \in [Workers -> [at : Steps, after : Steps \ {"log"}]]
    BY <1>1, <1>2, HttpdMoves
  <2>2. \A i \in idx : i \in Slots /\ slot[i].fd = fd
    BY DEF Of, Used
  <2>3. Shape'
    BY <1>1, <1>2, <2>1, <2>2 DEF Shape
  <2>4. Working'
    BY <1>1, <1>2, <2>1, <2>2 DEF Working
  <2>5. OneSlot' /\ SlotsAreOpen' /\ ListenersHaveSlots'
    BY <1>1, <1>2 DEF IInv, OneSlot, SlotsAreOpen, ListenersHaveSlots
  <2> QED
    BY <2>3, <2>4, <2>5 DEF IInv
<1>3. ASSUME NEW fd \in Fds, Handshake(fd) PROVE IInv'
  <2>1. /\ sess' = [sess EXCEPT ![fd].ws = TRUE] /\ ~sess[fd].ws /\ sess[fd].who \in Browsers
        /\ hd' = [fd |-> fd, tag |-> sess[fd].who, list |-> {}, idx |-> {}]
        /\ Goes("httpd", "replace")
    BY <1>3 DEF Handshake
  <2>2. /\ sess' \in [Fds -> [who : Browsers \cup {"page", "none"}, ws : BOOLEAN,
                              peer : BOOLEAN, trig : BOOLEAN]]
        /\ \A f \in Fds : /\ sess'[f].who = sess[f].who /\ sess'[f].peer = sess[f].peer
                          /\ sess'[f].trig = sess[f].trig
                          /\ sess'[f].ws = (f = fd \/ sess[f].ws)
    <3>1. sess[fd] \in [who : Browsers \cup {"page", "none"}, ws : BOOLEAN, peer : BOOLEAN, trig : BOOLEAN]
      BY <1>1 DEF Shape
    <3>2. \A f \in Fds \ {fd} : sess'[f] = sess[f]
      BY <1>1, <2>1 DEF Shape
    <3>3. sess'[fd] = [sess[fd] EXCEPT !.ws = TRUE]
      BY <1>1, <2>1 DEF Shape
    <3>4. /\ sess'[fd].who = sess[fd].who /\ sess'[fd].peer = sess[fd].peer
          /\ sess'[fd].trig = sess[fd].trig /\ sess'[fd].ws
          /\ sess'[fd] \in [who : Browsers \cup {"page", "none"}, ws : BOOLEAN,
                            peer : BOOLEAN, trig : BOOLEAN]
      BY <3>1, <3>3
    <3>5. sess' \in [Fds -> [who : Browsers \cup {"page", "none"}, ws : BOOLEAN,
                             peer : BOOLEAN, trig : BOOLEAN]]
      BY <1>1, <2>1, <3>4 DEF Shape
    <3>6. \A f \in Fds : sess[f].ws \in BOOLEAN
      BY <1>1 DEF Shape
    <3> QED
      BY <2>1, <3>2, <3>4, <3>5, <3>6
  <2>3. Phase("httpd")' = "replace" /\ pc' \in [Workers -> [at : Steps, after : Steps \ {"log"}]]
    BY <1>1, <2>1, HttpdMoves DEF Steps
  <2>4. Unknown(fd)'
    BY <1>1, <2>1 DEF IInv, SlotsAreOpen, Unknown
  <2>5. Shape'
    BY <1>1, <2>1, <2>2, <2>3 DEF Shape
  <2>6. Working'
    BY <1>1, <2>1, <2>2, <2>3, <2>4 DEF Working
  <2>7. \A i \in Used : slot[i].fd \in Fds
    BY <1>1 DEF Shape, Used
  <2>8. OneSlot' /\ SlotsAreOpen'
    BY <1>1, <2>2, <2>7 DEF IInv, OneSlot, SlotsAreOpen
  <2>9. ListenersHaveSlots'
    BY <1>1, <2>1, <2>2 DEF IInv, ListenersHaveSlots
  <2> QED
    BY <2>5, <2>6, <2>8, <2>9 DEF IInv
<1>4. ASSUME NEW fd \in Fds, FindClosed(fd) PROVE IInv'
  <2> DEFINE idx == IF lock = "none" /\ Of(fd) # {} THEN {Least(Of(fd))} ELSE {}
  <2>1. idx \in SUBSET Of(fd)
    BY LeastIn DEF Of, Used
  <2>2. /\ sess' = sess /\ Goes("httpd", "release") /\ fd # 0
        /\ hd' = [fd |-> fd, tag |-> "none", list |-> {}, idx |-> idx]
    BY <1>1, <1>4 DEF FindClosed
  <2> HIDE DEF idx
  <2>3. "release" \in Steps \ {"log"} /\ fd \in Fds \cup {0} /\ "none" \in Browsers \cup {"none"}
    BY DEF Steps
  <2> QED
    BY <1>2, <2>1, <2>2, <2>3
<1>5. ASSUME NEW fd \in Fds, Unusable(fd) \/ Ends(fd) PROVE IInv'
  <2>1. /\ sess' = sess /\ Goes("httpd", "close") /\ fd # 0
        /\ hd' = [fd |-> fd, tag |-> "none", list |-> {}, idx |-> {}]
    BY <1>1, <1>5 DEF Unusable, Ends
  <2> QED
    BY <1>2, <2>1 DEF Steps
<1>6. ASSUME NEW tag \in Browsers, Disconnect(tag) PROVE IInv'
  <2>1. /\ sess' = sess /\ Goes("httpd", "replace")
        /\ hd' = [fd |-> 0, tag |-> tag, list |-> {}, idx |-> {}]
    BY <1>6 DEF Disconnect
  <2> QED
    BY <1>2, <2>1 DEF Steps
<1> QED
  BY <1>3, <1>4, <1>5, <1>6

\* The slots of the browser are released; their sessions are to be closed.
LEMMA ReplaceStep == ASSUME IInv, Replace PROVE IInv'
<1> DEFINE gone == {i \in Used : slot[i].tag = hd.tag}
<1>1. /\ slot' = [i \in Slots |-> IF i \in gone THEN Free ELSE slot[i]]
      /\ hd' = [hd EXCEPT !.list = {slot[i].fd : i \in gone}]
      /\ stale' = stale \ gone /\ UNCHANGED <<sess, deaf>>
      /\ Goes("httpd", "trigger") \/ pc' = [pc EXCEPT !["httpd"] = [at |-> "log", after |-> "trigger"]]
      /\ At("httpd", "replace")
  BY DEF Replace, Section, Goes
<1>2. Phase("httpd") = "replace" /\ hd.list = {} /\ Shape
  BY <1>1 DEF Phase, At, IInv, Working
<1>3. Phase("httpd")' = "trigger" /\ pc' \in [Workers -> [at : Steps, after : Steps \ {"log"}]]
  BY <1>1, <1>2, HttpdMoves DEF Steps
<1>4. {slot[i].fd : i \in gone} \subseteq Fds /\ gone \subseteq Used
  BY <1>2 DEF Shape, Used
<1>5. /\ hd' \in [fd : Fds \cup {0}, tag : Browsers \cup {"none"}, list : SUBSET Fds, idx : SUBSET Slots]
      /\ hd'.fd = hd.fd /\ hd'.tag = hd.tag /\ hd'.idx = hd.idx /\ \A i \in gone : slot[i].fd \in hd'.list
  BY <1>1, <1>2, <1>4 DEF Shape
<1> HIDE DEF gone
<1>6. /\ slot' \in [Slots -> [fd : Fds, tag : Browsers] \cup {Free}]
      /\ Used' = Used \ gone /\ \A i \in Used' : slot'[i] = slot[i]
  BY <1>1, <1>2, Released
<1>7. OneSlot' /\ SlotsAreOpen' /\ \A f : Unknown(f) => Unknown(f)'
  BY <1>1, <1>2, <1>6, FewerSlots DEF IInv
<1>8. Shape'
  BY <1>1, <1>2, <1>3, <1>5, <1>6 DEF Shape
<1>9. Working'
  <2>1. \A i \in hd'.idx : slot'[i] = Free \/ slot'[i].fd = hd'.fd
    BY <1>1, <1>2, <1>5 DEF IInv, Working, Shape
  <2> QED
    BY <1>1, <1>2, <1>3, <1>5, <1>7, <2>1 DEF IInv, Working
<1>10. ListenersHaveSlots'
  <2> SUFFICES ASSUME NEW g \in Fds, sess[g].ws, sess[g].peer, ~sess[g].trig, g \notin deaf,
                      g \notin {hd'.fd} \cup hd'.list
               PROVE  \E i \in Used' : slot'[i].fd = g /\ slot'[i].tag = sess[g].who
    BY <1>1 DEF ListenersHaveSlots
  <2>1. PICK i \in Used : slot[i].fd = g /\ slot[i].tag = sess[g].who
    BY <1>2, <1>5 DEF IInv, ListenersHaveSlots
  <2> QED
    BY <1>5, <1>6, <2>1
<1> QED
  BY <1>7, <1>8, <1>9, <1>10 DEF IInv

\* Without the mutex, or without a slot, it goes on; nothing has changed.
LEMMA RefuseStep == ASSUME IInv, ReplaceGivesUp \/ Refuse PROVE IInv'
<1>1. UNCHANGED <<sess, slot, hd, stale, deaf>> /\ Shape /\ Used' = Used
  BY DEF ReplaceGivesUp, Refuse, httpdVars, IInv, Used
<1>2. \/ Phase("httpd") = "replace" /\ Goes("httpd", "trigger")
      \/ Phase("httpd") = "slot" /\ Goes("httpd", "close")
  BY DEF ReplaceGivesUp, Refuse, Phase, At
<1>3. /\ pc' \in [Workers -> [at : Steps, after : Steps \ {"log"}]]
      /\ \/ Phase("httpd") = "replace" /\ Phase("httpd")' = "trigger"
         \/ Phase("httpd") = "slot" /\ Phase("httpd")' = "close"
  BY <1>1, <1>2, HttpdMoves DEF Steps
<1>4. Shape' /\ OneSlot' /\ SlotsAreOpen' /\ ListenersHaveSlots'
  BY <1>1, <1>3 DEF IInv, Shape, OneSlot, SlotsAreOpen, ListenersHaveSlots
<1>5. Working'
  BY <1>1, <1>3 DEF IInv, Working, Unknown
<1> QED
  BY <1>4, <1>5 DEF IInv

\* The closing of the replaced sessions is ordered.
LEMMA TriggerStep == ASSUME IInv, Trigger PROVE IInv'
<1> DEFINE S == {f \in hd.list : Open(f)}
<1>1. /\ UNCHANGED <<slot, stale, deaf>> /\ Used' = Used /\ Shape /\ At("httpd", "trigger")
      /\ sess' = [f \in Fds |-> IF f \in S THEN [sess[f] EXCEPT !.trig = TRUE] ELSE sess[f]]
  BY DEF Trigger, IInv, Used
<1>2. Phase("httpd") = "trigger"
  BY <1>1 DEF Phase, At
<1>3. \A f \in Fds : sess[f].ws /\ f \in hd.list => f \in S
  BY <1>1, WebSocketAssumption DEF Shape, Open
<1> HIDE DEF S
<1>4. /\ sess' \in [Fds -> [who : Browsers \cup {"page", "none"}, ws : BOOLEAN,
                            peer : BOOLEAN, trig : BOOLEAN]]
      /\ \A f \in Fds : /\ sess'[f].ws = sess[f].ws /\ sess'[f].who = sess[f].who
                        /\ sess'[f].peer = sess[f].peer
                        /\ sess'[f].trig = (f \in S \/ sess[f].trig)
  <2>1. sess \in [Fds -> [who : Browsers \cup {"page", "none"}, ws : BOOLEAN, peer : BOOLEAN, trig : BOOLEAN]]
    BY <1>1 DEF Shape
  <2> QED
    BY <1>1, <2>1
<1>5. \/ hd.fd = 0 /\ Goes("httpd", "idle") /\ hd' = NoJob
      \/ hd.fd # 0 /\ Goes("httpd", "slot") /\ hd' = [hd EXCEPT !.list = {}]
  BY DEF Trigger
<1>6. /\ hd' \in [fd : Fds \cup {0}, tag : Browsers \cup {"none"}, list : SUBSET Fds, idx : SUBSET Slots]
      /\ hd'.fd = hd.fd /\ hd'.list = {}
      /\ \/ hd.fd = 0 /\ Phase("httpd")' = "idle" /\ hd' = NoJob
         \/ hd.fd # 0 /\ Phase("httpd")' = "slot" /\ hd'.tag = hd.tag /\ hd'.idx = hd.idx
      /\ pc' \in [Workers -> [at : Steps, after : Steps \ {"log"}]]
  <2>1. CASE hd.fd = 0 /\ Goes("httpd", "idle") /\ hd' = NoJob
    BY <1>1, <2>1, HttpdMoves DEF Steps, NoJob
  <2>2. CASE hd.fd # 0 /\ Goes("httpd", "slot") /\ hd' = [hd EXCEPT !.list = {}]
    <3>1. hd \in [fd : Fds \cup {0}, tag : Browsers \cup {"none"}, list : SUBSET Fds, idx : SUBSET Slots]
      BY <1>1 DEF Shape
    <3>2. Phase("httpd")' = "slot" /\ pc' \in [Workers -> [at : Steps, after : Steps \ {"log"}]]
      BY <1>1, <2>2, HttpdMoves DEF Steps
    <3> QED
      BY <2>2, <3>1, <3>2
  <2> QED
    BY <1>5, <2>1, <2>2
<1>7. Shape'
  BY <1>1, <1>4, <1>6 DEF Shape
<1>8. \A i \in Used : slot[i].fd \in Fds
  BY <1>1 DEF Shape, Used
<1>9. OneSlot' /\ SlotsAreOpen'
  BY <1>1, <1>4, <1>8 DEF IInv, OneSlot, SlotsAreOpen
<1>10. Working'
  <2>1. CASE hd.fd = 0 /\ Phase("httpd")' = "idle" /\ hd' = NoJob
    BY <2>1 DEF Working, NoJob
  <2>2. CASE hd.fd # 0 /\ Phase("httpd")' = "slot" /\ hd'.tag = hd.tag /\ hd'.idx = hd.idx
    <3>1. hd.fd \in Fds /\ sess[hd.fd].ws /\ sess[hd.fd].who = hd.tag /\ Unknown(hd.fd)
      BY <1>1, <1>2, <2>2 DEF IInv, Shape, Working
    <3>2. Unknown(hd.fd)'
      BY <1>1, <1>6, <3>1 DEF Unknown
    <3> QED
      BY <1>1, <1>4, <1>6, <2>2, <3>1, <3>2 DEF IInv, Working
  <2> QED
    BY <1>6, <2>1, <2>2
<1>11. ListenersHaveSlots'
  BY <1>1, <1>3, <1>4, <1>6 DEF IInv, ListenersHaveSlots
<1> QED
  BY <1>7, <1>9, <1>10, <1>11 DEF IInv

\* The session gets a free slot.
LEMMA TakeSlotStep == ASSUME IInv, TakeSlot PROVE IInv'
<1> DEFINE k == Least(Slots \ Used)
<1>1. /\ At("httpd", "slot") /\ hd' = NoJob /\ UNCHANGED <<sess, stale, deaf>> /\ Shape
      /\ slot' = [slot EXCEPT ![k] = [fd |-> hd.fd, tag |-> hd.tag]]
      /\ Goes("httpd", "idle") \/ pc' = [pc EXCEPT !["httpd"] = [at |-> "log", after |-> "idle"]]
  BY DEF TakeSlot, Section, Goes, IInv
<1>2. k \in Slots \ Used
  BY LeastIn DEF TakeSlot
<1> HIDE DEF k
<1>3. Phase("httpd") = "slot"
  BY <1>1 DEF Phase, At
<1>4. /\ hd.fd \in Fds /\ hd.fd # 0 /\ hd.tag \in Browsers /\ hd.tag # "none" /\ hd.list = {}
      /\ sess[hd.fd].ws /\ sess[hd.fd].who = hd.tag /\ Unknown(hd.fd)
  <2>1. hd.fd \in Fds /\ hd.fd # 0 /\ hd.list = {}
    BY <1>3, WebSocketAssumption DEF IInv, Working
  <2>2. sess[hd.fd].ws /\ sess[hd.fd].who = hd.tag /\ Unknown(hd.fd)
    BY <1>3, <2>1 DEF IInv, Working
  <2> QED
    BY <1>1, <2>1, <2>2, WebSocketAssumption DEF Shape
<1>5. Phase("httpd")' = "idle" /\ pc' \in [Workers -> [at : Steps, after : Steps \ {"log"}]]
  BY <1>1, HttpdMoves DEF Steps
<1>6. /\ slot' \in [Slots -> [fd : Fds, tag : Browsers] \cup {Free}]
      /\ slot'[k].fd = hd.fd /\ slot'[k].tag = hd.tag /\ slot'[k] # Free
      /\ \A i \in Slots \ {k} : slot'[i] = slot[i]
  BY <1>1, <1>2, <1>4 DEF Shape, Free
<1>7. Used' = Used \cup {k} /\ k \notin stale
  BY <1>1, <1>2, <1>6 DEF Used, Shape
<1>8. Shape'
  BY <1>1, <1>5, <1>6, <1>7 DEF Shape, NoJob
<1>9. OneSlot'
  BY <1>1, <1>2, <1>4, <1>6, <1>7 DEF IInv, OneSlot, Unknown, Used
<1>10. SlotsAreOpen'
  BY <1>1, <1>2, <1>4, <1>6, <1>7 DEF IInv, SlotsAreOpen, Used
<1>11. Working'
  BY <1>1, <1>5 DEF Working, NoJob
<1>12. ListenersHaveSlots'
  <2> SUFFICES ASSUME NEW g \in Fds, sess[g].ws, sess[g].peer, ~sess[g].trig, g \notin deaf
               PROVE  \E i \in Used' : slot'[i].fd = g /\ slot'[i].tag = sess[g].who
    BY <1>1 DEF ListenersHaveSlots
  <2>1. CASE g = hd.fd
    BY <1>4, <1>6, <1>7, <2>1
  <2>2. CASE g # hd.fd
    <3>1. PICK i \in Used : slot[i].fd = g /\ slot[i].tag = sess[g].who
      BY <1>4, <2>2 DEF IInv, ListenersHaveSlots
    <3> QED
      BY <1>2, <1>6, <1>7, <3>1 DEF Used
  <2> QED
    BY <2>1, <2>2
<1> QED
  BY <1>8, <1>9, <1>10, <1>11, <1>12 DEF IInv

\* Slots of the session that is about to be closed are released, or forgotten
\* as stale.
LEMMA Drops ==
  ASSUME IInv, NEW next \in {"close", "closed"}, Phase("httpd") \in {"release", "close"},
         NEW R \in SUBSET Slots, \A i \in R : slot[i] = Free \/ slot[i].fd = hd.fd,
         slot' = [i \in Slots |-> IF i \in R THEN Free ELSE slot[i]],
         stale' \subseteq Used', stale \ R \subseteq stale',
         UNCHANGED <<sess, deaf>>, hd' = hd \/ hd' = [hd EXCEPT !.idx = {}],
         next = "closed" => Unknown(hd.fd)',
         Goes("httpd", next) \/ pc' = [pc EXCEPT !["httpd"] = [at |-> "log", after |-> next]]
  PROVE  IInv'
<1>1. Shape /\ hd.list = {} /\ hd.fd \in Fds
  BY DEF IInv, Working
<1>2. Phase("httpd")' = next /\ pc' \in [Workers -> [at : Steps, after : Steps \ {"log"}]]
  BY <1>1, HttpdMoves DEF Steps
<1>3. /\ slot' \in [Slots -> [fd : Fds, tag : Browsers] \cup {Free}]
      /\ Used' = Used \ R /\ \A i \in Used' : slot'[i] = slot[i]
  BY <1>1, Released
<1>4. Used' \ stale' \subseteq Used \ stale
  BY <1>3
<1>5. OneSlot' /\ SlotsAreOpen'
  BY <1>1, <1>3, <1>4, FewerSlots DEF IInv
<1>6. /\ hd' \in [fd : Fds \cup {0}, tag : Browsers \cup {"none"}, list : SUBSET Fds, idx : SUBSET Slots]
      /\ hd'.fd = hd.fd /\ hd'.list = {} /\ hd'.idx \subseteq hd.idx
  BY <1>1 DEF Shape
<1>7. Shape'
  BY <1>1, <1>2, <1>3, <1>6 DEF Shape
<1>8. Working'
  <2>1. \A i \in hd'.idx : slot'[i] = Free \/ slot'[i].fd = hd'.fd
    BY <1>1, <1>6 DEF IInv, Working, Shape
  <2> QED
    BY <1>1, <1>2, <1>6, <2>1 DEF Working
<1>9. ListenersHaveSlots'
  <2> SUFFICES ASSUME NEW g \in Fds, sess[g].ws, sess[g].peer, ~sess[g].trig, g \notin deaf, g # hd.fd
               PROVE  \E i \in Used' : slot'[i].fd = g /\ slot'[i].tag = sess[g].who
    BY <1>6 DEF ListenersHaveSlots
  <2>1. PICK i \in Used : slot[i].fd = g /\ slot[i].tag = sess[g].who
    BY <1>1 DEF IInv, ListenersHaveSlots
  <2>2. i \notin R
    BY <2>1 DEF Used
  <2> QED
    BY <1>3, <2>1, <2>2
<1> QED
  BY <1>5, <1>7, <1>8, <1>9 DEF IInv

\* A close frame: the slot that was looked up is released.
LEMMA ReleaseStep == ASSUME IInv, Release PROVE IInv'
<1>1. /\ UNCHANGED <<sess, deaf>> /\ hd' = [hd EXCEPT !.idx = {}] /\ Phase("httpd") = "release"
  BY DEF Release, Phase, At
<1>2. hd.idx \in SUBSET Slots /\ (\A i \in hd.idx : slot[i] = Free \/ slot[i].fd = hd.fd) /\ Shape
  BY DEF IInv, Working, Shape
<1>3. CASE /\ slot' = [i \in Slots |-> IF i \in hd.idx THEN Free ELSE slot[i]]
           /\ stale' = stale \ hd.idx
           /\ Section("httpd", hd.idx \cap Used # {}, "close")
  <2>1. PICK R \in SUBSET Slots : R = hd.idx
    BY <1>2
  <2>2. slot' = [i \in Slots |-> IF i \in R THEN Free ELSE slot[i]]
    BY <1>3, <2>1
  <2>3. Used' = Used \ R
    BY <1>2, <2>2, Released
  <2>4. stale' \subseteq Used' /\ stale \ R \subseteq stale'
    BY <1>2, <1>3, <2>1, <2>3 DEF Shape
  <2>5. Goes("httpd", "close") \/ pc' = [pc EXCEPT !["httpd"] = [at |-> "log", after |-> "close"]]
    BY <1>3 DEF Section
  <2> QED
    BY <1>1, <1>2, <2>1, <2>2, <2>4, <2>5, Drops
<1>4. CASE Goes("httpd", "close") /\ UNCHANGED <<slot, stale>>
  <2>1. PICK R \in SUBSET Slots : R = {}
    OBVIOUS
  <2>2. slot' = [i \in Slots |-> IF i \in R THEN Free ELSE slot[i]]
    BY <1>2, <1>4, <2>1 DEF Shape
  <2>3. /\ stale' \subseteq Used' /\ stale \ R \subseteq stale'
        /\ \A i \in R : slot[i] = Free \/ slot[i].fd = hd.fd
    BY <1>2, <1>4, <2>1 DEF Shape, Used
  <2> QED
    BY <1>1, <1>4, <2>2, <2>3, Drops
<1> QED
  BY <1>3, <1>4 DEF Release

\* The server closes the session: its slot is released, or is stale from now on.
LEMMA CloseSessionStep == ASSUME IInv, CloseSession PROVE IInv'
<1> DEFINE mine == Of(hd.fd)
<1>1. UNCHANGED <<sess, deaf, hd>> /\ Phase("httpd") = "close" /\ Shape
  BY DEF CloseSession, httpdVars, Phase, At, IInv
<1>2. \A i \in Slots : i \in mine <=> i \in Used /\ slot[i].fd = hd.fd
  BY DEF Of, Used
<1>3. mine \in SUBSET Used /\ mine \in SUBSET Slots /\ (mine # {} => Least(mine) \in mine)
  BY LeastIn DEF Of, Used
<1>4. CASE /\ slot' = [i \in Slots |-> IF mine # {} /\ i = Least(mine) THEN Free ELSE slot[i]]
           /\ stale' = (IF mine \cap stale = {} THEN stale ELSE (stale \cup mine) \ {Least(mine)})
           /\ Section("httpd", mine # {}, "closed")
  <2>1. PICK R \in SUBSET Slots : R = IF mine # {} THEN {Least(mine)} ELSE {}
    BY <1>3
  <2>2. /\ slot' = [i \in Slots |-> IF i \in R THEN Free ELSE slot[i]]
        /\ R \subseteq mine /\ (mine # {} => R # {})
        /\ \/ mine \cap stale = {} /\ stale' = stale
           \/ mine \cap stale # {} /\ stale' = (stale \cup mine) \ R
    BY <1>3, <1>4, <2>1
  <2>3. Goes("httpd", "closed") \/ pc' = [pc EXCEPT !["httpd"] = [at |-> "log", after |-> "closed"]]
    BY <1>4 DEF Section
  <2>4. \A i \in R : slot[i] = Free \/ slot[i].fd = hd.fd
    BY <1>2, <2>2
  <2> HIDE DEF mine
  <2>5. Used' = Used \ R /\ \A i \in Used' : slot'[i] = slot[i]
    BY <1>1, <2>2, Released
  <2>6. stale' \subseteq Used' /\ stale \ R \subseteq stale'
    BY <1>1, <1>3, <2>2, <2>5 DEF Shape
  <2>7. Unknown(hd.fd)'
    <3> SUFFICES ASSUME NEW i \in Used' \ stale', slot'[i].fd = hd.fd PROVE FALSE
      BY <1>1 DEF Unknown
    <3>1. i \in Slots /\ i \in mine /\ i \notin R
      BY <1>2, <2>5 DEF Used
    <3>2. mine \cap stale = {} /\ R # {}
      BY <2>2, <3>1
    <3>3. PICK j \in R : j \in mine
      BY <2>2, <3>2
    <3>4. i \in Used \ stale /\ j \in Used \ stale /\ slot[i].fd = slot[j].fd
      BY <1>2, <1>3, <3>1, <3>2, <3>3
    <3> QED
      BY <3>1, <3>3, <3>4 DEF IInv, OneSlot
  <2> QED
    BY <1>1, <2>2, <2>3, <2>4, <2>6, <2>7, Drops
<1>5. CASE Goes("httpd", "closed") /\ stale' = stale \cup mine /\ slot' = slot
  <2>1. PICK R \in SUBSET Slots : R = {}
    OBVIOUS
  <2>2. slot' = [i \in Slots |-> IF i \in R THEN Free ELSE slot[i]]
    BY <1>1, <1>5, <2>1 DEF Shape
  <2>3. /\ stale' \subseteq Used' /\ stale \ R \subseteq stale'
        /\ \A i \in R : slot[i] = Free \/ slot[i].fd = hd.fd
    BY <1>1, <1>3, <1>5, <2>1 DEF Shape, Used
  <2>4. Unknown(hd.fd)'
    BY <1>1, <1>2, <1>5 DEF Unknown, Used
  <2> QED
    BY <1>1, <1>5, <2>2, <2>3, <2>4, Drops
<1> QED
  BY <1>4, <1>5 DEF CloseSession

\* The number is free for the next connection.
LEMMA ClosedStep == ASSUME IInv, Closed PROVE IInv'
<1>1. /\ UNCHANGED <<slot, stale>> /\ hd' = NoJob /\ sess' = [sess EXCEPT ![hd.fd] = NoSess]
      /\ deaf' = deaf \ {hd.fd} /\ Goes("httpd", "idle") /\ Phase("httpd") = "closed" /\ Shape
      /\ Used' = Used
  BY DEF Closed, Phase, At, IInv, Used
<1>2. hd.fd \in Fds /\ Unknown(hd.fd) /\ hd.list = {}
  BY <1>1 DEF IInv, Working
<1>3. Phase("httpd")' = "idle" /\ pc' \in [Workers -> [at : Steps, after : Steps \ {"log"}]]
  BY <1>1, HttpdMoves DEF Steps
<1>4. /\ sess' \in [Fds -> [who : Browsers \cup {"page", "none"}, ws : BOOLEAN,
                            peer : BOOLEAN, trig : BOOLEAN]]
      /\ ~sess'[hd.fd].ws /\ \A f \in Fds \ {hd.fd} : sess'[f] = sess[f]
  BY <1>1, <1>2 DEF Shape, NoSess
<1>5. Shape'
  BY <1>1, <1>3, <1>4 DEF Shape, NoJob
<1>6. \A i \in Used : slot[i].fd \in Fds
  BY <1>1 DEF Shape, Used
<1>7. OneSlot' /\ SlotsAreOpen'
  BY <1>1, <1>2, <1>4, <1>6 DEF IInv, OneSlot, SlotsAreOpen, Unknown
<1>8. Working'
  BY <1>1, <1>3 DEF Working, NoJob
<1>9. ListenersHaveSlots'
  BY <1>1, <1>2, <1>4 DEF IInv, ListenersHaveSlots
<1> QED
  BY <1>5, <1>7, <1>8, <1>9 DEF IInv

-----------------------------------------------------------------------------
(* The invariant and what follows from it.                                     *)

\* Every step keeps the invariant.
LEMMA NextIInv == IInv /\ [Next]_vars => IInv'
<1> SUFFICES ASSUME IInv, [Next]_vars PROVE IInv'
  OBVIOUS
<1>1. CASE HttpdWorks
  BY <1>1, ReplaceStep, RefuseStep, TriggerStep, TakeSlotStep, ReleaseStep, CloseSessionStep, ClosedStep,
     OtherStep DEF HttpdWorks, Workers
<1>2. CASE SenderWorks
  BY <1>2, TriggerFailedStep, ResetFailedStep, OtherStep DEF SenderWorks, Workers
<1>3. CASE Post \/ LogSwitch \/ UNCHANGED vars
  BY <1>3, OtherStep
<1>4. CASE \E fd \in Fds : Vanish(fd) \/ \E who \in Browsers \cup {"page"} : Connect(who, fd)
  BY <1>4, PeerStep
<1>5. CASE \/ \E fd \in Fds : Handshake(fd) \/ FindClosed(fd) \/ Unusable(fd) \/ Ends(fd)
           \/ \E tag \in Browsers : Disconnect(tag)
  BY <1>5, BeginStep
<1> QED
  BY <1>1, <1>2, <1>3, <1>4, <1>5 DEF Next

\* The invariant holds in every reachable state.
LEMMA Invariance == Spec => []IInv
  BY InitIInv, NextIInv, PTL DEF Spec

\* Every slot in use, stale ones aside, is that of an open WebSocket session of
\* its own browser, however the close callback, the replacement by another page
\* and the failures of the send task interleave (ws_handler, ws_send_task).
THEOREM SlotsCorrect == Spec => []SlotsAreOpen
<1>1. IInv => SlotsAreOpen
  BY DEF IInv
<1> QED
  BY <1>1, Invariance, PTL

\* Every browser whose session is up and not about to be closed has a slot, unless
\* the send task took it away for a former session of that number.
THEOREM ListenersCorrect == Spec => []ListenersHaveSlots
<1>1. IInv => ListenersHaveSlots
  BY DEF IInv
<1> QED
  BY <1>1, Invariance, PTL
-----------------------------------------------------------------------------
(* Types: the mutex, the queue and what the send task still has to send to.    *)

\* The mutex is held between two steps exactly by the worker that logs under it.
Mutex == lock \in Workers \cup {"none"} /\ \A w \in Workers : At(w, "log") <=> lock = w

\* The send task looks at the first number only while there is one.
Sending ==
  /\ fds \in Seq(Fds)
  /\ Phase("sender") \in {"trigger", "reset"} => fds # <<>>

Counters == queue \in 0..QueueLen /\ logOn \in BOOLEAN /\ deaf \subseteq Fds /\ opens \in 0..MaxOpens

Typed == Mutex /\ Sending /\ Counters

\* The initial state is well typed.
LEMMA InitTyped == Init => Typed
<1> SUFFICES ASSUME Init PROVE Typed
  OBVIOUS
<1>1. \A w \in Workers : pc[w].at = "idle" /\ pc[w].after = "idle"
  BY DEF Init
<1>2. Mutex
  BY <1>1 DEF Init, Mutex, At, Workers
<1>3. Sending
  BY <1>1 DEF Init, Sending, Phase, At, Workers
<1>4. Counters
  BY WebSocketAssumption DEF Init, Counters
<1> QED
  BY <1>2, <1>3, <1>4 DEF Typed

\* A worker that holds no mutex and takes none goes to another step.
LEMMA PlainStep ==
  ASSUME Shape, Mutex, NEW w \in Workers, ~At(w, "log"), NEW step \in Steps \ {"log"},
         Goes(w, step), UNCHANGED lock
  PROVE  Mutex'
<1>1. pc'[w].at = step /\ \A v \in Workers \ {w} : pc'[v] = pc[v]
  BY DEF Goes, Shape
<1> QED
  BY <1>1 DEF Mutex, At

\* A critical section leaves the mutex to nobody, or to the worker that logs.
LEMMA SectionStep ==
  ASSUME Shape, Mutex, queue \in 0..QueueLen, NEW w \in Workers, ~At(w, "log"), NEW logs \in BOOLEAN,
         NEW step \in Steps \ {"log"}, Section(w, logs, step)
  PROVE  /\ Mutex' /\ queue' \in 0..QueueLen
         /\ Goes(w, step) \/ pc' = [pc EXCEPT ![w] = [at |-> "log", after |-> step]]
<1>1. QueueLen \in Nat /\ "none" \notin Workers
  BY WebSocketAssumption DEF Workers
<1>2. CASE Goes(w, step) /\ UNCHANGED lock
  <2>1. queue' \in 0..QueueLen
    BY <1>1, <1>2 DEF Section
  <2> QED
    BY <1>2, <2>1, PlainStep
<1>3. CASE /\ lock = "none" /\ lock' = w /\ UNCHANGED queue
           /\ pc' = [pc EXCEPT ![w] = [at |-> "log", after |-> step]]
  <2>1. pc'[w].at = "log" /\ \A v \in Workers \ {w} : pc'[v] = pc[v]
    BY <1>3 DEF Shape
  <2>2. Mutex'
    BY <1>1, <1>3, <2>1 DEF Mutex, At
  <2> QED
    BY <1>3, <2>2
<1> QED
  BY <1>2, <1>3 DEF Section

\* Once the line is posted or dropped the mutex is free.
LEMMA LoggedTyped ==
  ASSUME Shape, Typed, NEW w \in Workers, LogPosted(w) \/ LogTimesOut(w) PROVE Typed'
<1>1. /\ pc[w].at = "log" /\ lock' = "none" /\ UNCHANGED <<fds, logOn, deaf, opens>>
      /\ pc' = [pc EXCEPT ![w] = [at |-> pc[w].after, after |-> "idle"]]
      /\ queue' = queue \/ (queue < QueueLen /\ queue' = queue + 1)
  BY DEF LogPosted, LogTimesOut, At, httpdVars
<1>2. lock = w /\ pc[w].after # "log" /\ pc'[w].at = pc[w].after
      /\ \A v \in Workers \ {w} : pc'[v] = pc[v]
  BY <1>1 DEF Typed, Mutex, At, Shape
<1>3. Mutex'
  <2>1. "none" \notin Workers
    BY DEF Workers
  <2> QED
    BY <1>1, <1>2, <2>1 DEF Typed, Mutex, At
<1>4. Phase("sender")' = Phase("sender")
  BY Logged DEF Workers
<1>5. Sending' /\ Counters'
  BY <1>1, <1>4, WebSocketAssumption DEF Typed, Sending, Counters
<1> QED
  BY <1>3, <1>5 DEF Typed

\* The mutex is all that the task of the HTTP server shares with this part.
LEMMA HttpdTyped ==
  ASSUME Shape, Typed, Mutex', queue' \in 0..QueueLen, UNCHANGED <<fds, logOn, opens>>,
         deaf' \subseteq deaf, NEW step \in Steps \ {"log"},
         Goes("httpd", step) \/ pc' = [pc EXCEPT !["httpd"] = [at |-> "log", after |-> step]]
  PROVE  Typed'
<1>1. pc'["sender"] = pc["sender"]
  BY DEF Goes, Shape, Workers
<1>2. Phase("sender")' = Phase("sender")
  BY <1>1 DEF Phase, At
<1>3. Sending' /\ Counters'
  BY <1>2 DEF Typed, Sending, Counters
<1> QED
  BY <1>3 DEF Typed

\* It works under the mutex, or gives it up.
LEMMA HttpdWorksTyped ==
  ASSUME IInv, Typed, HttpdWorks PROVE Typed'
<1>1. Shape /\ Mutex /\ queue \in 0..QueueLen /\ "httpd" \in Workers
  BY DEF IInv, Typed, Counters, Workers
<1>2. CASE LogPosted("httpd") \/ LogTimesOut("httpd")
  BY <1>1, <1>2, LoggedTyped
<1>3. ASSUME ~At("httpd", "log"), UNCHANGED <<fds, logOn, opens>>, deaf' \subseteq deaf,
             NEW step \in Steps \ {"log"},
             \/ \E logs \in BOOLEAN : Section("httpd", logs, step)
             \/ Goes("httpd", step) /\ UNCHANGED <<lock, queue>>
      PROVE  Typed'
  <2>1. CASE Goes("httpd", step) /\ UNCHANGED <<lock, queue>>
    BY <1>1, <1>3, <2>1, PlainStep, HttpdTyped
  <2>2. CASE \E logs \in BOOLEAN : Section("httpd", logs, step)
    <3>1. PICK logs \in BOOLEAN : Section("httpd", logs, step)
      BY <2>2
    <3> QED
      BY <1>1, <1>3, <3>1, SectionStep, HttpdTyped
  <2> QED
    BY <1>3, <2>1, <2>2
<1>4. CASE Replace
  BY <1>3, <1>4 DEF Replace, At, Steps
<1>5. CASE ReplaceGivesUp
  BY <1>3, <1>5 DEF ReplaceGivesUp, At, Steps, httpdVars
<1>6. CASE Trigger
  BY <1>3, <1>6 DEF Trigger, At, Steps
<1>7. CASE TakeSlot
  BY <1>3, <1>7 DEF TakeSlot, At, Steps
<1>8. CASE Refuse
  BY <1>3, <1>8 DEF Refuse, At, Steps, httpdVars
<1>9. CASE Release
  BY <1>3, <1>9 DEF Release, At, Steps
<1>10. CASE CloseSession
  BY <1>3, <1>10 DEF CloseSession, At, Steps, httpdVars
<1>11. CASE Closed
  BY <1>3, <1>11 DEF Closed, At, Steps
<1> QED
  BY <1>2, <1>4, <1>5, <1>6, <1>7, <1>8, <1>9, <1>10, <1>11 DEF HttpdWorks

\* It takes up a session only when it is idle.
LEMMA BeginTyped ==
  ASSUME Shape, Typed,
         \/ LogSwitch
         \/ \E fd \in Fds : Handshake(fd) \/ FindClosed(fd) \/ Unusable(fd) \/ Ends(fd)
         \/ \E tag \in Browsers : Disconnect(tag)
  PROVE  Typed'
<1>1. CASE LogSwitch
  <2>1. logOn' \in BOOLEAN /\ UNCHANGED <<lock, pc, fds, queue, deaf, opens>>
    BY <1>1 DEF LogSwitch, httpdVars
  <2> QED
    BY <2>1 DEF Typed, Mutex, Sending, Counters, Phase, At
<1>2. CASE ~LogSwitch
  <2>1. PICK step \in {"replace", "release", "close"} : Goes("httpd", step)
    BY <1>2 DEF Handshake, FindClosed, Unusable, Ends, Disconnect
  <2>2. ~At("httpd", "log") /\ UNCHANGED <<lock, fds, queue, logOn, deaf, opens>>
    BY <1>2 DEF Handshake, FindClosed, Unusable, Ends, Disconnect, At
  <2>3. step \in Steps \ {"log"} /\ "httpd" \in Workers
    BY DEF Steps, Workers
  <2>4. Mutex' /\ queue' \in 0..QueueLen
    BY <2>1, <2>2, <2>3, PlainStep DEF Typed, Counters
  <2> QED
    BY <2>1, <2>2, <2>3, <2>4, HttpdTyped
<1> QED
  BY <1>1, <1>2

\* The table is copied in its order: every number is that of a session.
LEMMA SnapshotTyped == ASSUME Shape, Typed, Snapshot PROVE fds' \in Seq(Fds)
<1>1. CASE fds' = <<>>
  BY <1>1
<1>2. CASE \E order \in [1..Cardinality(Used) -> Used] : fds' = [k \in DOMAIN order |-> slot[order[k]].fd]
  <2>1. PICK order \in [1..Cardinality(Used) -> Used] : fds' = [k \in DOMAIN order |-> slot[order[k]].fd]
    BY <1>2
  <2>2. Cardinality(Used) \in Nat
    <3>1. IsFiniteSet(Slots)
      BY FS_Interval, WebSocketAssumption DEF Slots
    <3>2. Used \in SUBSET Slots
      BY DEF Used
    <3> QED
      BY <3>1, <3>2, FS_Subset, FS_CardinalityType
  <2>3. \A i \in Used : slot[i].fd \in Fds
    BY DEF Used, Shape
  <2> QED
    BY <2>1, <2>2, <2>3
<1> QED
  BY <1>1, <1>2 DEF Snapshot

\* The send task.
LEMMA SenderTyped ==
  ASSUME IInv, Typed, SenderWorks PROVE Typed'
<1>1. /\ Shape /\ Mutex /\ queue \in 0..QueueLen /\ "sender" \in Workers /\ QueueLen \in Nat
      /\ fds \in Seq(Fds) /\ deaf \subseteq Fds /\ logOn \in BOOLEAN /\ opens \in 0..MaxOpens
  BY WebSocketAssumption DEF IInv, Typed, Sending, Counters, Workers
<1>2. CASE LogPosted("sender") \/ LogTimesOut("sender")
  BY <1>1, <1>2, LoggedTyped
<1>3. ASSUME ~At("sender", "log"), NEW step \in Steps \ {"log"}, Goes("sender", step), UNCHANGED lock,
             queue' \in 0..QueueLen, fds' \in Seq(Fds), step \in {"trigger", "reset"} => fds' # <<>>,
             UNCHANGED <<logOn, deaf, opens>>
      PROVE  Typed'
  <2>1. Mutex'
    BY <1>1, <1>3, PlainStep
  <2>2. Phase("sender")' = step
    BY <1>1, <1>3, Moves DEF Goes
  <2> QED
    BY <1>1, <1>3, <2>1, <2>2 DEF Typed, Sending, Counters
<1>4. CASE Receive
  <2>1. queue' \in 0..QueueLen
    BY <1>1, <1>4 DEF Receive
  <2> QED
    BY <1>1, <1>3, <1>4, <2>1 DEF Receive, At, Steps, httpdVars
<1>5. CASE Snapshot
  <2>1. fds' \in Seq(Fds)
    BY <1>1, <1>5, SnapshotTyped
  <2> QED
    BY <1>1, <1>3, <1>5, <2>1 DEF Snapshot, At, Steps
<1>6. CASE Sent
  <2>1. /\ fds' \in Seq(Fds) /\ UNCHANGED <<lock, pc, queue, logOn, deaf, opens>> /\ At("sender", "send")
    BY <1>1, <1>6, HeadTailProperties DEF Sent
  <2>2. Phase("sender")' = "send"
    BY <2>1 DEF Phase, At
  <2>3. Mutex'
    BY <1>1, <2>1 DEF Mutex, At
  <2> QED
    BY <1>1, <2>1, <2>2, <2>3 DEF Typed, Sending, Counters
<1>7. CASE SendFails
  <2>1. queue' \in 0..QueueLen
    BY <1>1, <1>7 DEF SendFails
  <2> QED
    BY <1>1, <1>3, <1>7, <2>1 DEF SendFails, At, Steps, httpdVars
<1>8. CASE TriggerFailed
  <2>1. fds # <<>>
    BY <1>8 DEF TriggerFailed, Typed, Sending, Phase, At
  <2> QED
    BY <1>1, <1>3, <1>8, <2>1 DEF TriggerFailed, At, Steps, httpdVars
<1>9. CASE ResetFailed
  <2>1. /\ At("sender", "reset") /\ fds' = Tail(fds) /\ UNCHANGED <<logOn, opens>>
        /\ deaf' = deaf \/ deaf' = deaf \cup {Head(fds)}
        /\ \/ \E logs \in BOOLEAN : Section("sender", logs, "send")
           \/ Goes("sender", "send") /\ UNCHANGED <<lock, queue>>
    BY <1>9 DEF ResetFailed
  <2>2. fds # <<>>
    BY <2>1 DEF Typed, Sending, Phase, At
  <2>3. fds' \in Seq(Fds) /\ deaf' \subseteq Fds
    BY <1>1, <2>1, <2>2, HeadTailProperties
  <2>4. "send" \in Steps \ {"log"} /\ ~At("sender", "log")
    BY <2>1 DEF Steps, At
  <2>5. /\ Mutex' /\ queue' \in 0..QueueLen
        /\ Goes("sender", "send") \/ pc' = [pc EXCEPT !["sender"] = [at |-> "log", after |-> "send"]]
    BY <1>1, <2>1, <2>4, SectionStep, PlainStep
  <2>6. Phase("sender")' = "send"
    BY <1>1, <2>4, <2>5, Moves DEF Goes
  <2> QED
    BY <1>1, <2>1, <2>3, <2>5, <2>6 DEF Typed, Sending, Counters
<1>10. CASE AllSent
  BY <1>1, <1>3, <1>10 DEF AllSent, At, Steps, httpdVars
<1> QED
  BY <1>2, <1>4, <1>5, <1>6, <1>7, <1>8, <1>9, <1>10 DEF SenderWorks

\* Every step keeps the types.
LEMMA NextTyped == IInv /\ Typed /\ [Next]_vars => Typed'
<1> SUFFICES ASSUME IInv, Typed, [Next]_vars PROVE Typed'
  OBVIOUS
<1>1. Shape
  BY DEF IInv
<1>2. CASE \/ Post \/ UNCHANGED vars
           \/ \E fd \in Fds : Vanish(fd) \/ \E who \in Browsers \cup {"page"} : Connect(who, fd)
  <2>1. UNCHANGED <<lock, pc, fds, logOn>> /\ deaf' \subseteq deaf
    BY <1>2 DEF Post, Vanish, Connect, vars, httpdVars
  <2>2. /\ queue' = queue \/ (queue < QueueLen /\ queue' = queue + 1)
        /\ opens' = opens \/ (opens < MaxOpens /\ opens' = opens + 1)
    BY <1>2 DEF Post, Vanish, Connect, vars
  <2>3. Mutex' /\ Sending'
    BY <2>1 DEF Typed, Mutex, Sending, Phase, At
  <2>4. Counters'
    BY <2>1, <2>2, WebSocketAssumption DEF Typed, Counters
  <2> QED
    BY <2>3, <2>4 DEF Typed
<1> QED
  BY <1>1, <1>2, HttpdWorksTyped, SenderTyped, BeginTyped DEF Next

\* The queue never holds more than WS_QUEUE_SIZE messages, every number in the
\* table and in the list of the send task is a socket number, and the mutex is
\* held between two steps by the worker that waits to log and by nobody else.
THEOREM TypeCorrect == Spec => []TypeOK
<1>1. IInv /\ Typed => TypeOK
  <2> SUFFICES ASSUME IInv, Typed PROVE TypeOK
    OBVIOUS
  <2>1. \A i \in Used : slot[i].fd \in Fds /\ slot[i].tag \in Browsers
    BY DEF IInv, Shape, Used
  <2>2. pc \in [Workers -> [at : Steps, after : Steps]]
    BY DEF IInv, Shape
  <2> QED
    BY <2>1, <2>2 DEF IInv, Shape, Typed, Mutex, Sending, Counters, TypeOK
<1>2. Spec => []Typed
  BY InitTyped, NextTyped, Invariance, PTL DEF Spec
<1> QED
  BY <1>1, <1>2, Invariance, PTL
=============================================================================

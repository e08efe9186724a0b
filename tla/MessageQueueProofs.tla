-------------------------- MODULE MessageQueueProofs --------------------------
(* Theorems about MessageQueue for every set of handles, every capacity,     *)
(* every range of priorities and every number of messages.                   *)
EXTENDS MessageConsumer, TLAPS

(* The calls of receive that have been given a message, and the calls of     *)
(* send that will report success.                                            *)
Takers == {g \in Handle : pc[g] = "done" /\ op[g] \in Receives /\ code[g] = "ok"}
Reporters == {g \in Handle : pc[g] = "done" /\ op[g] \in Sends /\ code[g] = "ok"}

(* What a call in progress is about.  TypeOK needs it: what a sender that    *)
(* waits puts in the queue, and what a receive returns, is a message.        *)
InCall ==
  \A h \in Handle :
    /\ pc[h] = "idle" => op[h] = "none"
    /\ op[h] \in Sends => msg[h] \in 1 .. calls
    /\ h \in Takers => msg[h] \in Id

Shaped == TypeOK /\ InCall

(* No call is in progress at the start. *)
LEMMA InitShaped == Init => Shaped
<1> SUFFICES ASSUME Init PROVE TypeOK /\ InCall
  BY DEF Shaped
<1>1. 0 \in Priority
  BY PrioMaxAssumption DEF Priority
<1>2. TypeOK
  BY <1>1, MaxSendAssumption DEF Init, TypeOK, Deadline
<1> QED
  BY <1>2 DEF Init, InCall, Takers, Sends

(* The number of the next message is new. *)
LEMMA NewId ==
  ASSUME TypeOK, NEW p \in Priority, NewMessage(p)
  PROVE  /\ calls + 1 \in Id /\ calls + 1 \notin 1 .. calls
         /\ calls' = calls + 1 /\ calls' \in 0 .. MaxSend
         /\ 1 .. calls \subseteq 1 .. calls'
         /\ 1 .. calls' \subseteq Id
         /\ asked' \in [Id -> Priority]
BY MaxSendAssumption DEF TypeOK, NewMessage, Id

(* A send, whatever becomes of it, keeps the types. *)
LEMMA SendShaped ==
  ASSUME Shaped, NEW h \in Handle, NEW p \in Priority, NEW d \in Deadline,
         NEW o \in Sends, NEW valid \in BOOLEAN,
         Begin(h, o), NewMessage(p), KSend(h, calls + 1, p, d, valid)
  PROVE  Shaped'
<1> DEFINE i == calls + 1
<1>0. TypeOK /\ InCall
  BY DEF Shaped
<1>1. /\ i \in Id /\ i \notin 1 .. calls /\ i \in 1 .. calls'
      /\ calls' \in 0 .. MaxSend /\ 1 .. calls \subseteq 1 .. calls'
      /\ asked' \in [Id -> Priority]
  BY <1>0, NewId, MaxSendAssumption DEF TypeOK
<1> HIDE DEF i
<1>2. /\ given' \in [Id -> Priority]
      /\ op' = [op EXCEPT ![h] = o]
      /\ pc[h] = "idle"
      /\ UNCHANGED <<mode, nonblock, fate, told, received>>
  BY <1>0, <1>1 DEF KSend, Begin, TypeOK, handles, reports
<1>3. op' \in [Handle -> {"none"} \cup Sends \cup Receives]
  BY <1>0, <1>2 DEF TypeOK
<1>a. o \notin Receives /\ o # "none"
  BY DEF Sends, Receives
<1>4. ASSUME UNCHANGED <<kernel, content>>, msg' = [msg EXCEPT ![h] = i],
             \/ Ends(h, "rejected") /\ UNCHANGED deadline
             \/ Ends(h, "EAGAIN") /\ UNCHANGED deadline
             \/ Waits(h, d)
      PROVE  TypeOK' /\ InCall'
  <2>1. TypeOK'
    BY <1>0, <1>1, <1>2, <1>3, <1>4
       DEF TypeOK, kernel, content, Ends, Waits
  <2>2. InCall'
    BY <1>0, <1>1, <1>2, <1>4, <1>a
       DEF TypeOK, InCall, Takers, Ends, Waits
  <2> QED
    BY <2>1, <2>2
<1>5. ASSUME UNCHANGED <<kernel, content, deadline>>,
             NEW r \in Waiting(Receives),
             msg' = [msg EXCEPT ![h] = i, ![r] = i],
             pc' = [pc EXCEPT ![h] = "done", ![r] = "done"],
             code' = [code EXCEPT ![h] = "ok", ![r] = "ok"]
      PROVE  TypeOK' /\ InCall'
  <2>0. r \in Handle /\ r # h /\ op[r] \in Receives
    BY <1>2 DEF Waiting
  <2>1. TypeOK'
    BY <1>0, <1>1, <1>2, <1>3, <1>5 DEF TypeOK, kernel, content
  <2>2. InCall'
    BY <1>0, <1>1, <1>2, <1>5, <1>a, <2>0 DEF TypeOK, InCall, Takers
  <2> QED
    BY <2>1, <2>2
<1>6. ASSUME Ends(h, "ok"), msg' = [msg EXCEPT ![h] = i], queue' = queue \cup {i},
             Enqueue(i), Announce, UNCHANGED deadline
      PROVE  TypeOK' /\ InCall'
  <2>1. reg' \in [by : Handle, event : Events] \cup {NoReg}
    BY <1>0, <1>6 DEF Announce, TypeOK
  <2>2. sig' \in [Handle -> BOOLEAN] /\ named' \in BOOLEAN
    BY <1>0, <1>6 DEF Announce, TypeOK
  <2>3. entered' \in [Id -> Nat] /\ arrivals' \in Nat /\ queue' \subseteq Id
    BY <1>0, <1>1, <1>6 DEF Enqueue, TypeOK
  <2>4. TypeOK'
    BY <1>0, <1>1, <1>2, <1>3, <1>6, <2>1, <2>2, <2>3 DEF TypeOK, Ends
  <2>5. InCall'
    BY <1>0, <1>1, <1>2, <1>6, <1>a DEF TypeOK, InCall, Takers, Ends
  <2> QED
    BY <2>4, <2>5
<1> QED
  BY <1>4, <1>5, <1>6 DEF KSend, Shaped, i

(* A receive, whatever becomes of it, keeps the types. *)
LEMMA ReceiveShaped ==
  ASSUME Shaped, NEW h \in Handle, NEW d \in Deadline,
         NEW o \in Receives, NEW valid \in BOOLEAN,
         Begin(h, o), KReceive(h, d, valid), UNCHANGED sending
  PROVE  Shaped'
<1>0. TypeOK /\ InCall
  BY DEF Shaped
<1>2. /\ op' = [op EXCEPT ![h] = o]
      /\ pc[h] = "idle"
      /\ UNCHANGED <<kernel, mode, nonblock, fate, told, received>>
      /\ UNCHANGED <<calls, asked, given>>
  BY DEF KReceive, Begin, handles, reports, sending
<1>3. op' \in [Handle -> {"none"} \cup Sends \cup Receives]
  BY <1>0, <1>2 DEF TypeOK
<1>a. o \notin Sends /\ o # "none"
  BY DEF Sends, Receives
<1>4. ASSUME UNCHANGED <<content, msg>>,
             \/ Ends(h, "rejected") /\ UNCHANGED deadline
             \/ Ends(h, "EAGAIN") /\ UNCHANGED deadline
             \/ Waits(h, d)
      PROVE  TypeOK' /\ InCall'
  <2>1. TypeOK'
    BY <1>0, <1>2, <1>3, <1>4 DEF TypeOK, kernel, content, Ends, Waits
  <2>2. InCall'
    BY <1>0, <1>2, <1>4, <1>a DEF TypeOK, InCall, Takers, Ends, Waits
  <2> QED
    BY <2>1, <2>2
<1>5. ASSUME NEW i \in queue, msg' = [msg EXCEPT ![h] = i],
             queue' = queue \ {i}, Ends(h, "ok"),
             UNCHANGED <<entered, arrivals, deadline>>
      PROVE  TypeOK' /\ InCall'
  <2>0. i \in Id
    BY <1>0 DEF TypeOK
  <2>1. TypeOK'
    BY <1>0, <1>2, <1>3, <1>5, <2>0 DEF TypeOK, kernel, Ends
  <2>2. InCall'
    BY <1>0, <1>2, <1>5, <1>a, <2>0 DEF TypeOK, InCall, Takers, Ends
  <2> QED
    BY <2>1, <2>2
<1>6. ASSUME NEW i \in queue, msg' = [msg EXCEPT ![h] = i],
             NEW s \in Waiting(Sends),
             queue' = (queue \ {i}) \cup {msg[s]}, Enqueue(msg[s]),
             pc' = [pc EXCEPT ![h] = "done", ![s] = "done"],
             code' = [code EXCEPT ![h] = "ok", ![s] = "ok"],
             UNCHANGED deadline
      PROVE  TypeOK' /\ InCall'
  <2>0. /\ s \in Handle /\ s # h /\ op[s] \in Sends /\ op[s] \notin Receives
        /\ i \in Id
    BY <1>0, <1>2 DEF Waiting, Sends, Receives, TypeOK
  <2>1. msg[s] \in Id
    BY <1>0, <2>0, MaxSendAssumption DEF InCall, TypeOK, Id
  <2>2. entered' \in [Id -> Nat] /\ arrivals' \in Nat /\ queue' \subseteq Id
    BY <1>0, <1>6, <2>1 DEF Enqueue, TypeOK
  <2>3. TypeOK'
    BY <1>0, <1>2, <1>3, <1>6, <2>0, <2>2 DEF TypeOK, kernel
  <2>4. InCall'
    BY <1>0, <1>2, <1>6, <1>a, <2>0 DEF TypeOK, InCall, Takers
  <2> QED
    BY <2>3, <2>4
<1> QED
  BY <1>4, <1>5, <1>6 DEF KReceive, Shaped

(* Every step keeps the types. *)
LEMMA StepShaped == Shaped /\ [Next]_vars => Shaped'
<1> SUFFICES ASSUME Shaped, [Next]_vars PROVE Shaped'
  OBVIOUS
<1>0. TypeOK /\ InCall
  BY DEF Shaped
<1>1. ASSUME UNCHANGED <<content, call, sending, reports>>,
             named' \in BOOLEAN,
             reg' \in [by : Handle, event : Events] \cup {NoReg},
             sig' \in [Handle -> BOOLEAN],
             mode' \in [Handle -> Modes \cup {"closed"}],
             nonblock' \in [Handle -> BOOLEAN]
      PROVE  Shaped'
  BY <1>0, <1>1
     DEF Shaped, TypeOK, InCall, Takers, content, call, sending, reports
<1>2. CASE Unlink
  BY <1>0, <1>1, <1>2 DEF Unlink, handles, TypeOK
<1>3. ASSUME NEW h \in Handle, NEW m \in Modes, NEW nb \in BOOLEAN, Open(h, m, nb)
      PROVE  Shaped'
  BY <1>0, <1>1, <1>3 DEF Open, kernel, TypeOK
<1>4. ASSUME NEW h \in Handle, Close(h) PROVE Shaped'
  BY <1>0, <1>1, <1>4 DEF Close, TypeOK
<1>5. ASSUME NEW h \in Handle, SetAttr(h) PROVE Shaped'
  BY <1>0, <1>1, <1>5 DEF SetAttr, kernel, TypeOK
<1>6. ASSUME NEW h \in Handle, NEW event \in Events, Notify(h, event)
      PROVE  Shaped'
  BY <1>0, <1>1, <1>6 DEF Notify, handles, TypeOK
<1>7. ASSUME NEW h \in Handle, TakeSignal(h) PROVE Shaped'
  BY <1>0, <1>1, <1>7 DEF TakeSignal, handles, TypeOK
<1>8. ASSUME NEW h \in Handle, NEW valid \in BOOLEAN,
             Receive(h, valid) \/ TimedReceive(h, valid)
      PROVE  Shaped'
  BY <1>8, ReceiveShaped DEF Receive, TimedReceive, Receives, Deadline
<1>9. ASSUME NEW h \in Handle, NEW p \in Priority, NEW valid \in BOOLEAN,
             Send(h, p, valid) \/ TimedSend(h, p, valid)
      PROVE  Shaped'
  BY <1>9, SendShaped DEF Send, TimedSend, Sends, Deadline
<1>10. ASSUME NEW h \in Handle, Expire(h) \/ Interrupt(h) PROVE Shaped'
  BY <1>0, <1>10
     DEF Expire, Interrupt, Ends, kernel, content, handles, sending, reports,
         Shaped, TypeOK, InCall, Takers
<1>11. ASSUME NEW h \in Handle, Returns(h),
              fate' \in [Id -> {"unknown", "accepted", "refused"}],
              told' \in [Id -> Priority], received' \subseteq Id
       PROVE  Shaped'
  <2>1. TypeOK'
    BY <1>0, <1>11
       DEF Returns, kernel, content, handles, sending, TypeOK, Deadline
  <2>2. InCall'
    BY <1>0, <1>11
       DEF Returns, sending, TypeOK, InCall, Takers, Sends, Receives
  <2> QED
    BY <2>1, <2>2 DEF Shaped
<1>12. ASSUME NEW h \in Handle, SendReturns(h) PROVE Shaped'
  BY <1>0, <1>11, <1>12 DEF SendReturns, TypeOK
<1>13. ASSUME NEW h \in Handle, ReceiveReturns(h) PROVE Shaped'
  <2>1. code[h] = "ok" => msg[h] \in Id
    BY <1>0, <1>13 DEF ReceiveReturns, Returns, InCall, Takers
  <2>2. told' \in [Id -> Priority] /\ received' \subseteq Id
    BY <1>0, <1>13, <2>1 DEF ReceiveReturns, TypeOK
  <2> QED
    BY <1>0, <1>11, <1>13, <2>2 DEF ReceiveReturns, TypeOK
<1>14. CASE UNCHANGED vars
  BY <1>0, <1>14
     DEF vars, kernel, content, handles, call, sending, reports, Shaped,
         TypeOK, InCall, Takers
<1> QED
  BY <1>2, <1>3, <1>4, <1>5, <1>6, <1>7, <1>8, <1>9, <1>10, <1>12, <1>13,
     <1>14 DEF Next, Use

(* Whatever calls race with deadlines, signals and other calls, a receive    *)
(* that succeeds has been given a message and the queue holds messages only. *)
THEOREM QueueTyping == Spec => []TypeOK
<1>1. Spec => []Shaped
  BY InitShaped, StepShaped, PTL DEF Spec
<1> QED
  BY <1>1, PTL DEF Shaped
-------------------------------------------------------------------------------
(* NothingLost speaks of messages; what it needs is who has which.  A        *)
(* message belongs to one call of send, and its caller has been told nothing *)
(* as long as the call lasts: so a call that waits, or that failed, has a    *)
(* message that is nowhere.                                                  *)
Senders ==
  /\ \A i \in Id : fate[i] # "unknown" => i \in 1 .. calls
  /\ \A h \in Handle : op[h] \in Sends => fate[msg[h]] = "unknown"
  /\ \A g, h \in Handle :
       g # h /\ op[g] \in Sends /\ op[h] \in Sends => msg[g] # msg[h]

OneTaker == \A g, h \in Takers : g # h => msg[g] # msg[h]

Sound == Shaped /\ Senders /\ given = asked /\ NothingLost /\ PriorityTold

(* NothingLost in terms of the calls. *)
LEMMA Parts ==
  /\ InHand = {msg[h] : h \in Takers}
  /\ Delivered = {msg[h] : h \in Reporters}
  /\ NothingLost <=> /\ Accepted \cup Delivered = queue \cup InHand \cup received
                     /\ queue \cap (InHand \cup received) = {}
                     /\ InHand \cap received = {}
                     /\ OneTaker
<1>1. InHand = {msg[h] : h \in Takers} /\ Delivered = {msg[h] : h \in Reporters}
  BY DEF InHand, Delivered, Takers, Reporters
<1>2. OneTaker <=> \A g, h \in Handle :
                     /\ g # h
                     /\ {g, h} \subseteq {x \in Handle : /\ pc[x] = "done"
                                                         /\ op[x] \in Receives
                                                         /\ code[x] = "ok"}
                     => msg[g] # msg[h]
  BY DEF OneTaker, Takers
<1> QED
  BY <1>1, <1>2 DEF NothingLost

(* The same after a step. *)
LEMMA PartsAfter ==
  /\ InHand' = {msg'[h] : h \in Takers'}
  /\ Delivered' = {msg'[h] : h \in Reporters'}
  /\ /\ Accepted' \cup Delivered' = queue' \cup InHand' \cup received'
     /\ queue' \cap (InHand' \cup received') = {}
     /\ InHand' \cap received' = {}
     /\ OneTaker'
     => NothingLost'
<1>1. /\ InHand' = {msg'[h] : h \in Takers'}
      /\ Delivered' = {msg'[h] : h \in Reporters'}
  BY DEF InHand, Delivered, Takers, Reporters
<1>2. OneTaker' => \A g, h \in Handle :
                     /\ g # h
                     /\ {g, h} \subseteq {x \in Handle : /\ pc'[x] = "done"
                                                         /\ op'[x] \in Receives
                                                         /\ code'[x] = "ok"}
                     => msg'[g] # msg'[h]
  BY DEF OneTaker, Takers
<1> QED
  BY <1>1, <1>2 DEF NothingLost

(* The images of sets of calls under the messages they have. *)
LEMMA ImageSame ==
  ASSUME NEW A, NEW f, NEW g, \A x \in A : g[x] = f[x]
  PROVE  {g[x] : x \in A} = {f[x] : x \in A}
OBVIOUS

(* One call more. *)
LEMMA ImageAdds ==
  ASSUME NEW A, NEW f, NEW g, NEW h, \A x \in A : g[x] = f[x]
  PROVE  {g[x] : x \in A \cup {h}} = {f[x] : x \in A} \cup {g[h]}
OBVIOUS

(* One call less. *)
LEMMA ImageDrops ==
  ASSUME NEW A, NEW f, NEW g, NEW h \in A,
         \A x \in A : x # h => g[x] = f[x] /\ f[x] # f[h]
  PROVE  {g[x] : x \in A \ {h}} = {f[x] : x \in A} \ {f[h]}
OBVIOUS

(* Only messages that have been given to send are anywhere, and a call of    *)
(* send that is not going to report success has a message that is nowhere.   *)
LEMMA Whereabouts ==
  ASSUME Sound
  PROVE  /\ queue \cup InHand \cup received \subseteq 1 .. calls
         /\ \A h \in Handle : op[h] \in Sends /\ h \notin Reporters =>
              msg[h] \notin queue \cup InHand \cup received
<1>0. /\ TypeOK /\ InCall /\ Senders
      /\ Accepted \cup Delivered = queue \cup InHand \cup received
  BY Parts DEF Sound, Shaped
<1>1. Accepted \subseteq 1 .. calls
  BY <1>0 DEF Accepted, Senders
<1>2. Delivered \subseteq 1 .. calls
  BY <1>0, Parts DEF InCall, Reporters
<1>3. ASSUME NEW h \in Handle, op[h] \in Sends, h \notin Reporters
      PROVE  msg[h] \notin Accepted \cup Delivered
  <2>1. msg[h] \notin Accepted
    BY <1>0, <1>3 DEF Accepted, Senders
  <2>2. \A g \in Reporters : msg[g] # msg[h]
    BY <1>0, <1>3 DEF Senders, Reporters
  <2> QED
    BY <2>1, <2>2, Parts
<1> QED
  BY <1>0, <1>1, <1>2, <1>3

(* Steps that no call and no message takes part in. *)
LEMMA IdleSound ==
  ASSUME Sound, Shaped', UNCHANGED <<content, call, sending, reports>>
  PROVE  Sound'
<1>1. UNCHANGED <<queue, pc, op, msg, code, calls, asked, given, fate, told, received>>
  BY DEF content, call, sending, reports
<1>2. Senders' /\ PriorityTold' /\ given' = asked'
  BY <1>1 DEF Sound, Senders, PriorityTold
<1>3. NothingLost'
  BY <1>1 DEF Sound, NothingLost, InHand, Delivered, Accepted
<1> QED
  BY <1>2, <1>3 DEF Sound

(* A send that is rejected, fails or has to wait leaves its message nowhere; *)
(* one that succeeds has put it in the queue or in the hands of a receiver.  *)
LEMMA SendSound ==
  ASSUME Sound, Shaped', NEW h \in Handle, NEW p \in Priority, NEW d \in Deadline,
         NEW o \in Sends, NEW valid \in BOOLEAN,
         Begin(h, o), NewMessage(p), KSend(h, calls + 1, p, d, valid)
  PROVE  Sound'
<1> DEFINE i == calls + 1
<1>0. /\ TypeOK /\ InCall /\ Senders /\ given = asked /\ PriorityTold
      /\ Accepted \cup Delivered = queue \cup InHand \cup received
      /\ queue \cap (InHand \cup received) = {}
      /\ InHand \cap received = {}
      /\ OneTaker
  BY Parts DEF Sound, Shaped
<1>1. /\ i \in Id /\ i \notin 1 .. calls /\ i \in 1 .. calls'
      /\ 1 .. calls \subseteq 1 .. calls'
      /\ i \notin queue \cup InHand \cup received
  BY <1>0, NewId, Whereabouts, MaxSendAssumption DEF TypeOK
<1>2. /\ op' = [op EXCEPT ![h] = o] /\ pc[h] = "idle" /\ op[h] = "none"
      /\ UNCHANGED <<fate, told, received>>
      /\ given' = [given EXCEPT ![i] = p] /\ asked' = [asked EXCEPT ![i] = p]
  BY <1>0 DEF KSend, Begin, NewMessage, InCall, reports
<1> HIDE DEF i
<1>a. /\ o \notin Receives /\ h \notin Takers \cup Reporters
      /\ Accepted' = Accepted
  BY <1>2 DEF Sends, Receives, Takers, Reporters, Accepted
<1>3. given' = asked' /\ PriorityTold'
  BY <1>0, <1>1, <1>2 DEF PriorityTold, TypeOK
<1>4. ASSUME msg'[h] = i, \A g \in Handle : op[g] \in Sends => msg'[g] = msg[g]
      PROVE  Senders'
  <2>1. \A g \in Handle : op'[g] \in Sends =>
          g = h \/ (op[g] \in Sends /\ msg'[g] = msg[g] /\ msg[g] \in 1 .. calls)
    BY <1>0, <1>2, <1>4 DEF TypeOK, InCall
  <2>2. fate[i] = "unknown"
    BY <1>0, <1>1 DEF Senders
  <2> QED
    BY <1>0, <1>1, <1>2, <1>4, <2>1, <2>2 DEF Senders
<1>5. ASSUME UNCHANGED content, msg' = [msg EXCEPT ![h] = i],
             Ends(h, "rejected") \/ Ends(h, "EAGAIN") \/ Waits(h, d)
      PROVE  Senders' /\ NothingLost'
  <2>1. Senders'
    BY <1>0, <1>2, <1>4, <1>5 DEF TypeOK, Sends
  <2>2. Takers' = Takers /\ Reporters' = Reporters /\ queue' = queue
    BY <1>0, <1>2, <1>5, <1>a
       DEF TypeOK, Takers, Reporters, Ends, Waits, content
  <2>3. \A g \in Takers \cup Reporters : msg'[g] = msg[g]
    BY <1>0, <1>5, <1>a DEF TypeOK, Takers, Reporters
  <2>4. InHand' = InHand /\ Delivered' = Delivered
    BY <2>2, <2>3, Parts, PartsAfter, ImageSame
  <2>5. OneTaker'
    BY <1>0, <2>2, <2>3 DEF OneTaker
  <2> QED
    BY <1>0, <1>2, <1>a, <2>1, <2>2, <2>4, <2>5, PartsAfter
<1>6. ASSUME UNCHANGED content, NEW r \in Waiting(Receives),
             msg' = [msg EXCEPT ![h] = i, ![r] = i],
             pc' = [pc EXCEPT ![h] = "done", ![r] = "done"],
             code' = [code EXCEPT ![h] = "ok", ![r] = "ok"]
      PROVE  Senders' /\ NothingLost'
  <2>0. /\ r \in Handle /\ r # h /\ op[r] \in Receives /\ op[r] \notin Sends
        /\ r \notin Takers
    BY <1>2 DEF Waiting, Sends, Receives, Takers
  <2>1. Senders'
    BY <1>0, <1>2, <1>4, <1>6, <2>0 DEF TypeOK, Sends
  <2>2. /\ Takers' = Takers \cup {r} /\ Reporters' = Reporters \cup {h}
        /\ queue' = queue
    BY <1>0, <1>2, <1>6, <1>a, <2>0 DEF TypeOK, Takers, Reporters, content
  <2>3. /\ \A g \in Takers \cup Reporters : msg'[g] = msg[g]
        /\ msg'[h] = i /\ msg'[r] = i
    BY <1>0, <1>6, <1>a, <2>0 DEF TypeOK, Takers, Reporters
  <2>4. InHand' = InHand \cup {i} /\ Delivered' = Delivered \cup {i}
    BY <2>2, <2>3, Parts, PartsAfter, ImageAdds
  <2>5. OneTaker'
    BY <1>0, <1>1, <2>2, <2>3, Parts DEF OneTaker
  <2> QED
    BY <1>0, <1>1, <1>2, <1>a, <2>1, <2>2, <2>4, <2>5, PartsAfter
<1>7. ASSUME Ends(h, "ok"), msg' = [msg EXCEPT ![h] = i], queue' = queue \cup {i}
      PROVE  Senders' /\ NothingLost'
  <2>1. Senders'
    BY <1>0, <1>2, <1>4, <1>7 DEF TypeOK, Sends
  <2>2. Takers' = Takers /\ Reporters' = Reporters \cup {h}
    BY <1>0, <1>2, <1>7, <1>a DEF TypeOK, Takers, Reporters, Ends
  <2>3. (\A g \in Takers \cup Reporters : msg'[g] = msg[g]) /\ msg'[h] = i
    BY <1>0, <1>7, <1>a DEF TypeOK, Takers, Reporters
  <2>4. InHand' = InHand /\ Delivered' = Delivered \cup {i}
    BY <2>2, <2>3, Parts, PartsAfter, ImageSame, ImageAdds
  <2>5. OneTaker'
    BY <1>0, <2>2, <2>3 DEF OneTaker
  <2> QED
    BY <1>0, <1>1, <1>2, <1>7, <1>a, <2>1, <2>4, <2>5, PartsAfter
<1>8. Senders' /\ NothingLost'
  BY <1>5, <1>6, <1>7 DEF KSend, i
<1> QED
  BY <1>3, <1>8 DEF Sound

(* A receive that succeeds has taken one message out of the queue, and a     *)
(* sender that waited has put its own there.                                 *)
LEMMA ReceiveSound ==
  ASSUME Sound, Shaped', NEW h \in Handle, NEW d \in Deadline,
         NEW o \in Receives, NEW valid \in BOOLEAN,
         Begin(h, o), KReceive(h, d, valid), UNCHANGED sending
  PROVE  Sound'
<1>0. /\ TypeOK /\ InCall /\ Senders /\ given = asked /\ PriorityTold
      /\ Accepted \cup Delivered = queue \cup InHand \cup received
      /\ queue \cap (InHand \cup received) = {}
      /\ InHand \cap received = {}
      /\ OneTaker
  BY Parts DEF Sound, Shaped
<1>2. /\ op' = [op EXCEPT ![h] = o] /\ pc[h] = "idle" /\ op[h] = "none"
      /\ UNCHANGED <<fate, told, received, calls, asked, given>>
  BY <1>0 DEF KReceive, Begin, InCall, reports, sending
<1>a. /\ o \notin Sends /\ h \notin Takers \cup Reporters
      /\ Accepted' = Accepted
  BY <1>2 DEF Sends, Receives, Takers, Reporters, Accepted
<1>3. given' = asked' /\ PriorityTold'
  BY <1>0, <1>2 DEF PriorityTold
<1>4. ASSUME \A g \in Handle : g # h => msg'[g] = msg[g]
      PROVE  Senders'
  <2>1. \A g \in Handle : op'[g] \in Sends => op[g] \in Sends /\ msg'[g] = msg[g]
    BY <1>0, <1>2, <1>4, <1>a DEF TypeOK
  <2> QED
    BY <1>0, <1>2, <2>1 DEF Senders
<1>5. ASSUME UNCHANGED <<content, msg>>,
             Ends(h, "rejected") \/ Ends(h, "EAGAIN") \/ Waits(h, d)
      PROVE  Senders' /\ NothingLost'
  <2>1. Senders'
    BY <1>4, <1>5
  <2>2. Takers' = Takers /\ Reporters' = Reporters /\ queue' = queue
    BY <1>0, <1>2, <1>5, <1>a
       DEF TypeOK, Takers, Reporters, Ends, Waits, content
  <2>3. \A g \in Takers \cup Reporters : msg'[g] = msg[g]
    BY <1>5
  <2>4. InHand' = InHand /\ Delivered' = Delivered
    BY <2>2, <2>3, Parts, PartsAfter, ImageSame
  <2>5. OneTaker'
    BY <1>0, <2>2, <2>3 DEF OneTaker
  <2> QED
    BY <1>0, <1>2, <1>a, <2>1, <2>2, <2>4, <2>5, PartsAfter
<1>6. ASSUME NEW i \in queue, msg' = [msg EXCEPT ![h] = i],
             queue' = queue \ {i}, Ends(h, "ok")
      PROVE  Senders' /\ NothingLost'
  <2>1. Senders'
    BY <1>0, <1>4, <1>6 DEF TypeOK
  <2>2. Takers' = Takers \cup {h} /\ Reporters' = Reporters
    BY <1>0, <1>2, <1>6, <1>a DEF TypeOK, Takers, Reporters, Ends
  <2>3. (\A g \in Takers \cup Reporters : msg'[g] = msg[g]) /\ msg'[h] = i
    BY <1>0, <1>6, <1>a DEF TypeOK, Takers, Reporters
  <2>4. InHand' = InHand \cup {i} /\ Delivered' = Delivered
    BY <2>2, <2>3, Parts, PartsAfter, ImageSame, ImageAdds
  <2>5. OneTaker'
    BY <1>0, <2>2, <2>3, Parts DEF OneTaker
  <2> QED
    BY <1>0, <1>2, <1>6, <1>a, <2>1, <2>4, <2>5, PartsAfter
<1>7. ASSUME NEW i \in queue, msg' = [msg EXCEPT ![h] = i],
             NEW s \in Waiting(Sends),
             queue' = (queue \ {i}) \cup {msg[s]},
             pc' = [pc EXCEPT ![h] = "done", ![s] = "done"],
             code' = [code EXCEPT ![h] = "ok", ![s] = "ok"]
      PROVE  Senders' /\ NothingLost'
  <2>0. /\ s \in Handle /\ s # h /\ op[s] \in Sends /\ op[s] \notin Receives
        /\ s \notin Reporters
    BY <1>2 DEF Waiting, Sends, Receives, Reporters
  <2>1. Senders'
    BY <1>0, <1>4, <1>7 DEF TypeOK
  <2>2. Takers' = Takers \cup {h} /\ Reporters' = Reporters \cup {s}
    BY <1>0, <1>2, <1>7, <1>a, <2>0 DEF TypeOK, Takers, Reporters
  <2>3. /\ \A g \in Takers \cup Reporters : msg'[g] = msg[g]
        /\ msg'[h] = i /\ msg'[s] = msg[s]
    BY <1>0, <1>7, <1>a, <2>0 DEF TypeOK, Takers, Reporters
  <2>4. InHand' = InHand \cup {i} /\ Delivered' = Delivered \cup {msg[s]}
    BY <2>2, <2>3, Parts, PartsAfter, ImageAdds
  <2>5. OneTaker'
    BY <1>0, <2>2, <2>3, Parts DEF OneTaker
  <2>6. msg[s] \notin queue \cup InHand \cup received
    BY <2>0, Whereabouts
  <2> QED
    BY <1>0, <1>2, <1>7, <1>a, <2>1, <2>4, <2>5, <2>6, PartsAfter
<1>8. Senders' /\ NothingLost'
  BY <1>5, <1>6, <1>7 DEF KReceive
<1> QED
  BY <1>3, <1>8 DEF Sound

(* A deadline or a signal that ends a call which waits loses nothing: the    *)
(* message of a send was nowhere, and a receive had none.                    *)
LEMMA EndSound ==
  ASSUME Sound, Shaped', NEW h \in Handle, Expire(h) \/ Interrupt(h)
  PROVE  Sound'
<1>0. /\ TypeOK /\ Senders /\ given = asked /\ PriorityTold
      /\ Accepted \cup Delivered = queue \cup InHand \cup received
      /\ queue \cap (InHand \cup received) = {}
      /\ InHand \cap received = {}
      /\ OneTaker
  BY Parts DEF Sound, Shaped
<1>1. /\ UNCHANGED <<queue, op, msg, calls, asked, given, fate, told, received>>
      /\ pc[h] = "waiting"
      /\ Ends(h, "ETIMEDOUT") \/ Ends(h, "EINTR")
  BY DEF Expire, Interrupt, content, sending, reports
<1>2. Senders' /\ PriorityTold' /\ given' = asked' /\ Accepted' = Accepted
  BY <1>0, <1>1 DEF Senders, PriorityTold, Accepted
<1>3. Takers' = Takers /\ Reporters' = Reporters
  BY <1>0, <1>1 DEF TypeOK, Takers, Reporters, Ends
<1>4. InHand' = InHand /\ Delivered' = Delivered
  BY <1>1, <1>3, Parts, PartsAfter
<1>5. OneTaker'
  BY <1>0, <1>1, <1>3 DEF OneTaker
<1>6. NothingLost'
  BY <1>0, <1>1, <1>2, <1>4, <1>5, PartsAfter
<1> QED
  BY <1>2, <1>6 DEF Sound

(* send tells its caller what has become of the message. *)
LEMMA SendReturnsSound ==
  ASSUME Sound, Shaped', NEW h \in Handle, SendReturns(h)
  PROVE  Sound'
<1>0. /\ TypeOK /\ InCall /\ Senders /\ given = asked /\ PriorityTold
      /\ Accepted \cup Delivered = queue \cup InHand \cup received
      /\ queue \cap (InHand \cup received) = {}
      /\ InHand \cap received = {}
      /\ OneTaker
  BY Parts DEF Sound, Shaped
<1> DEFINE m == msg[h]
<1>1. /\ op[h] \in Sends /\ op[h] \notin Receives /\ pc[h] = "done"
      /\ UNCHANGED <<queue, calls, asked, given, told, received>>
      /\ pc' = [pc EXCEPT ![h] = "idle"] /\ op' = [op EXCEPT ![h] = "none"]
      /\ msg' = [msg EXCEPT ![h] = NoId] /\ code' = [code EXCEPT ![h] = "ok"]
      /\ fate' = [fate EXCEPT ![m] = IF code[h] = "ok" THEN "accepted"
                                                       ELSE "refused"]
  BY DEF SendReturns, Returns, content, sending, Sends, Receives
<1>2. m \in 1 .. calls /\ m \in Id /\ fate[m] = "unknown"
  BY <1>0, <1>1, MaxSendAssumption DEF InCall, Senders, TypeOK, Id
<1>3. \A g \in Handle : g # h /\ op[g] \in Sends => msg[g] # m
  BY <1>0, <1>1 DEF Senders
<1>4. Senders'
  <2>1. \A g \in Handle : op'[g] \in Sends =>
          /\ g # h /\ op[g] \in Sends /\ msg'[g] = msg[g]
          /\ msg[g] \in Id /\ msg[g] # m
    <3>1. "none" \notin Sends
      BY DEF Sends
    <3>2. \A g \in Handle : op[g] \in Sends => msg[g] \in Id
      BY <1>0, MaxSendAssumption DEF InCall, TypeOK, Id
    <3> QED
      BY <1>0, <1>1, <1>3, <3>1, <3>2 DEF TypeOK
  <2>2. \A j \in Id : j # m => fate'[j] = fate[j]
    BY <1>0, <1>1 DEF TypeOK
  <2> QED
    BY <1>0, <1>1, <1>2, <2>1, <2>2 DEF Senders
<1>5. PriorityTold' /\ given' = asked'
  BY <1>0, <1>1 DEF PriorityTold
<1>6. /\ Takers' = Takers /\ Reporters' = Reporters \ {h}
      /\ \A g \in Takers \cup Reporters : g # h => msg'[g] = msg[g]
      /\ h \notin Takers
  BY <1>0, <1>1 DEF TypeOK, Takers, Reporters, Sends, Receives
<1>7. InHand' = InHand /\ OneTaker'
  <2>1. \A g \in Takers : msg'[g] = msg[g]
    BY <1>6
  <2> QED
    BY <1>0, <1>6, <2>1, Parts, PartsAfter, ImageSame DEF OneTaker
<1>8. CASE code[h] = "ok"
  <2>1. h \in Reporters /\ \A g \in Reporters : g # h => msg[g] # msg[h]
    BY <1>1, <1>3, <1>8 DEF Reporters
  <2>2. Delivered' = Delivered \ {m} /\ m \in Delivered
    BY <1>6, <2>1, Parts, PartsAfter, ImageDrops
  <2>3. Accepted' = Accepted \cup {m}
    BY <1>0, <1>1, <1>2, <1>8 DEF Accepted, TypeOK
  <2>4. NothingLost'
    BY <1>0, <1>1, <1>7, <2>2, <2>3, PartsAfter
  <2> QED
    BY <1>4, <1>5, <2>4 DEF Sound
<1>9. CASE code[h] # "ok"
  <2>1. h \notin Reporters /\ Reporters' = Reporters
    BY <1>6, <1>9 DEF Reporters
  <2>2. Delivered' = Delivered
    BY <1>6, <2>1, Parts, PartsAfter, ImageSame
  <2>3. Accepted' = Accepted
    BY <1>0, <1>1, <1>2, <1>9 DEF Accepted, TypeOK
  <2>4. NothingLost'
    BY <1>0, <1>1, <1>7, <2>2, <2>3, PartsAfter
  <2> QED
    BY <1>4, <1>5, <2>4 DEF Sound
<1> QED
  BY <1>8, <1>9

(* receive gives its caller the message it took, with its priority. *)
LEMMA ReceiveReturnsSound ==
  ASSUME Sound, Shaped', NEW h \in Handle, ReceiveReturns(h)
  PROVE  Sound'
<1>0. /\ TypeOK /\ InCall /\ Senders /\ given = asked /\ PriorityTold
      /\ Accepted \cup Delivered = queue \cup InHand \cup received
      /\ queue \cap (InHand \cup received) = {}
      /\ InHand \cap received = {}
      /\ OneTaker
  BY Parts DEF Sound, Shaped
<1> DEFINE m == msg[h]
<1>1. /\ op[h] \in Receives /\ op[h] \notin Sends /\ pc[h] = "done"
      /\ UNCHANGED <<queue, calls, asked, given, fate>>
      /\ pc' = [pc EXCEPT ![h] = "idle"] /\ op' = [op EXCEPT ![h] = "none"]
      /\ msg' = [msg EXCEPT ![h] = NoId] /\ code' = [code EXCEPT ![h] = "ok"]
  BY DEF ReceiveReturns, Returns, content, sending, Sends, Receives
<1>4. Senders'
  <2>1. \A g \in Handle : op'[g] \in Sends =>
          g # h /\ op[g] \in Sends /\ msg'[g] = msg[g]
    <3>1. "none" \notin Sends
      BY DEF Sends
    <3> QED
      BY <1>0, <1>1, <3>1 DEF TypeOK
  <2> QED
    BY <1>0, <1>1, <2>1 DEF Senders
<1>6. /\ Takers' = Takers \ {h} /\ Reporters' = Reporters
      /\ \A g \in Takers \cup Reporters : g # h => msg'[g] = msg[g]
      /\ h \notin Reporters
  BY <1>0, <1>1 DEF TypeOK, Takers, Reporters, Sends, Receives
<1>7. Delivered' = Delivered /\ OneTaker' /\ Accepted' = Accepted
  <2>1. Delivered' = Delivered
    BY <1>6, Parts, PartsAfter, ImageSame
  <2> QED
    BY <1>0, <1>1, <1>6, <2>1 DEF OneTaker, Accepted
<1>8. CASE code[h] = "ok"
  <2>1. /\ received' = received \cup {m} /\ told' = [told EXCEPT ![m] = given[m]]
        /\ h \in Takers /\ m \in Id
    BY <1>0, <1>1, <1>8 DEF ReceiveReturns, Takers, InCall
  <2>2. \A g \in Takers : g # h => msg[g] # msg[h]
    BY <1>0, <2>1 DEF OneTaker
  <2>3. InHand' = InHand \ {m} /\ m \in InHand
    BY <1>6, <2>1, <2>2, Parts, PartsAfter, ImageDrops
  <2>4. NothingLost'
    BY <1>0, <1>1, <1>7, <2>1, <2>3, PartsAfter
  <2>5. PriorityTold' /\ given' = asked'
    BY <1>0, <1>1, <2>1 DEF PriorityTold, TypeOK
  <2> QED
    BY <1>4, <2>4, <2>5 DEF Sound
<1>9. CASE code[h] # "ok"
  <2>1. UNCHANGED <<received, told>> /\ h \notin Takers /\ Takers' = Takers
    BY <1>6, <1>9 DEF ReceiveReturns, Takers
  <2>2. InHand' = InHand
    BY <1>6, <2>1, Parts, PartsAfter, ImageSame
  <2>3. NothingLost'
    BY <1>0, <1>1, <1>7, <2>1, <2>2, PartsAfter
  <2>4. PriorityTold' /\ given' = asked'
    BY <1>0, <1>1, <2>1 DEF PriorityTold
  <2> QED
    BY <1>4, <2>3, <2>4 DEF Sound
<1> QED
  BY <1>8, <1>9

(* At the start no message is anywhere. *)
LEMMA InitSound == Init => Sound
<1> SUFFICES ASSUME Init PROVE Sound
  OBVIOUS
<1>1. Takers = {} /\ Reporters = {} /\ Accepted = {}
  BY DEF Init, Takers, Reporters, Accepted
<1>2. InHand = {} /\ Delivered = {} /\ OneTaker
  BY <1>1, Parts DEF OneTaker
<1>3. NothingLost
  BY <1>1, <1>2, Parts DEF Init
<1>4. Senders /\ given = asked /\ PriorityTold
  BY DEF Init, Senders, PriorityTold, Sends
<1> QED
  BY <1>3, <1>4, InitShaped DEF Sound

(* Every step keeps the messages accounted for. *)
LEMMA StepSound == Sound /\ [Next]_vars => Sound'
<1> SUFFICES ASSUME Sound, [Next]_vars PROVE Sound'
  OBVIOUS
<1>0. Shaped'
  BY StepShaped DEF Sound
<1>1. CASE Unlink
  BY <1>0, <1>1, IdleSound DEF Unlink
<1>2. ASSUME NEW h \in Handle, NEW m \in Modes, NEW nb \in BOOLEAN, Open(h, m, nb)
      PROVE  Sound'
  BY <1>0, <1>2, IdleSound DEF Open
<1>3. ASSUME NEW h \in Handle, NEW event \in Events, Notify(h, event)
      PROVE  Sound'
  BY <1>0, <1>3, IdleSound DEF Notify
<1>4. ASSUME NEW h \in Handle, Close(h) \/ SetAttr(h) \/ TakeSignal(h)
      PROVE  Sound'
  BY <1>0, <1>4, IdleSound DEF Close, SetAttr, TakeSignal
<1>5. ASSUME NEW h \in Handle, NEW valid \in BOOLEAN,
             Receive(h, valid) \/ TimedReceive(h, valid)
      PROVE  Sound'
  BY <1>0, <1>5, ReceiveSound DEF Receive, TimedReceive, Receives, Deadline
<1>6. ASSUME NEW h \in Handle, NEW p \in Priority, NEW valid \in BOOLEAN,
             Send(h, p, valid) \/ TimedSend(h, p, valid)
      PROVE  Sound'
  BY <1>0, <1>6, SendSound DEF Send, TimedSend, Sends, Deadline
<1>7. ASSUME NEW h \in Handle, Expire(h) \/ Interrupt(h) PROVE Sound'
  BY <1>0, <1>7, EndSound
<1>8. ASSUME NEW h \in Handle, SendReturns(h) \/ ReceiveReturns(h) PROVE Sound'
  BY <1>0, <1>8, SendReturnsSound, ReceiveReturnsSound
<1>9. CASE UNCHANGED vars
  BY <1>0, <1>9, IdleSound DEF vars
<1> QED
  BY <1>1, <1>2, <1>3, <1>4, <1>5, <1>6, <1>7, <1>8, <1>9 DEF Next, Use

(* For any number of programs and messages and any capacity: the messages    *)
(* that send has reported, or is about to report, as sent are exactly those  *)
(* that are in the queue, on their way to one receiver, or received once.  A *)
(* deadline or a signal that races with another call never makes an error of *)
(* a message that was delivered, or a success of one that was not.           *)
THEOREM NoMessageLost == Spec => []NothingLost
<1>1. Spec => []Sound
  BY InitSound, StepSound, PTL DEF Spec
<1> QED
  BY <1>1, PTL DEF Sound

(* The priority in an mq_message is the one the sender of that message chose *)
(* in send or timed_send.                                                    *)
THEOREM PrioritiesAreTold == Spec => []PriorityTold
<1>1. Spec => []Sound
  BY InitSound, StepSound, PTL DEF Spec
<1> QED
  BY <1>1, PTL DEF Sound
-------------------------------------------------------------------------------
(* Nothing but a receive takes a message out of the queue. *)
LEMMA OnlyReceiveTakes ==
  ASSUME [Next]_vars, NEW i \in queue \ queue'
  PROVE  First(i)
<1>1. ASSUME UNCHANGED content PROVE FALSE
  BY <1>1 DEF content
<1>2. ASSUME NEW h, NEW d, NEW valid, KReceive(h, d, valid) PROVE First(i)
  BY <1>1, <1>2 DEF KReceive
<1>3. ASSUME NEW h, NEW j, NEW p, NEW d, NEW valid, KSend(h, j, p, d, valid)
      PROVE  FALSE
  BY <1>1, <1>3 DEF KSend
<1> QED
  BY <1>1, <1>2, <1>3
     DEF Next, Use, vars, Unlink, Open, Close, SetAttr, Receive, TimedReceive,
         Send, TimedSend, Expire, Interrupt, SendReturns, ReceiveReturns,
         Returns, Notify, TakeSignal

(* A receive takes a message of the highest priority in the queue, by what   *)
(* the senders chose and not only by what reached the kernel, and of these   *)
(* the one that entered first.                                               *)
THEOREM ReceivedInOrder == Spec => TakenInOrder
<1>1. Spec => []Sound
  BY InitSound, StepSound, PTL DEF Spec
<1> DEFINE Order == \A i \in queue \ queue' : \A j \in queue :
                      \/ asked[j] < asked[i]
                      \/ asked[j] = asked[i] /\ entered[j] >= entered[i]
<1>2. Sound /\ [Next]_vars => [Order]_vars
  <2> SUFFICES ASSUME Sound, [Next]_vars PROVE Order
    OBVIOUS
  <2>1. given = asked
    BY DEF Sound
  <2> QED
    BY <2>1, OnlyReceiveTakes DEF First
<1>3. Spec => [][Order]_vars
  BY <1>1, <1>2, PTL DEF Spec
<1> QED
  BY <1>3 DEF TakenInOrder
-------------------------------------------------------------------------------
(* A consumer that registers for notification, drains the queue and sleeps   *)
(* only makes calls of the queue, and so do the programs beside it: what is  *)
(* proved of the queue holds while it runs.                                  *)
THEOREM ConsumerUsesQueue == CSpec => Spec
<1>1. CInit => Init
  BY DEF CInit
<1>2. [CNext]_cvars => [Next]_vars
  <2>1. Consumer => Next
    BY ConsumerAssumption
       DEF Consumer, COpen, CRegister, CReceive, CReceived, CWake, Next, Use
  <2>2. CNext => Next
    BY <2>1 DEF CNext, Next
  <2> QED
    BY <2>2 DEF cvars
<1>3. CSpec => CInit /\ [][CNext]_cvars
  BY PTL DEF CSpec
<1> QED
  BY <1>1, <1>2, <1>3, PTL DEF Spec
===============================================================================

---------------------------- MODULE MessageQueue ----------------------------
(***************************************************************************)
(* pposix::rt::mq (include/pposix/rt/mqueue.hpp, src/rt/mqueue.cpp): the   *)
(* calls of several programs on one POSIX message queue.                   *)
(*                                                                         *)
(* A handle is an mq object, used by one thread at a time.  A call is two  *)
(* steps or more: the system call, which takes effect, fails or blocks;    *)
(* while it blocks, the kernel hands it a message or a place in the queue, *)
(* its deadline passes, or a signal interrupts it; and Return, in which    *)
(* the wrapper turns what ::mq_* returned into an error_code or a result.  *)
(*                                                                         *)
(* The queue is created, and kept open, by another program: no usable      *)
(* overload of mq::open gives O_CREAT to ::mq_open.  Who owns a descriptor *)
(* is the subject of Descriptor; here a handle is open or closed.          *)
(***************************************************************************)
EXTENDS Integers, FiniteSets

CONSTANTS
  Handle,    \* mq objects
  Capacity,  \* mq_maxmsg of the queue
  PrioMax,   \* the kernel takes priorities 0 .. PrioMax - 1
  Modes,     \* the access modes programs use
  Events,    \* the kinds of notification they ask for
  MaxSend    \* bound: calls of send in a behaviour

ASSUME CapacityAssumption == Capacity \in Nat \ {0}
ASSUME PrioMaxAssumption == PrioMax \in Nat \ {0}
ASSUME ModesAssumption ==
  Modes \subseteq {"read_only", "write_only", "read_write"}
ASSUME EventsAssumption == Events \subseteq {"none", "signal"}
ASSUME MaxSendAssumption == MaxSend \in Nat

Id == 1 .. MaxSend          \* messages, numbered in the order of the calls
NoId == 0
Priority == 0 .. PrioMax - 1
Deadline == {"none", "absolute_time"}
NoReg == [by |-> "nobody", event |-> "none"]

Sends == {"send", "timed_send"}
Receives == {"receive", "timed_receive"}
Timed == {"timed_send", "timed_receive"}

VARIABLES
  named,     \* kernel: the queue still has its name
  queue,     \* kernel: the messages in the queue
  given,     \* kernel: the priority each message was given
  entered,   \* kernel: when each message entered the queue
  arrivals,  \* kernel: how many have entered it
  reg,       \* kernel: the registration for notification
  sig,       \* kernel: a notification signal is pending
  mode,      \* access mode of each open handle, or "closed"
  nonblock,  \* O_NONBLOCK of each handle
  pc,        \* "idle", "waiting" in the kernel, or "done" and not returned
  op,        \* the call in progress
  deadline,  \* of the call, as the kernel knows it
  msg,       \* the message that a send is given or a receive has been given
  code,      \* outcome of the call
  calls,     \* calls of send so far
  asked,     \* history: the priority the caller chose for each message
  fate,      \* history: what the caller of send was told
  told,      \* history: the priority in the mq_message returned
  received   \* history: the messages that a receive has returned

kernel == <<named, reg, sig>>
content == <<queue, entered, arrivals>>
handles == <<mode, nonblock>>
call == <<pc, op, deadline, msg, code>>
sending == <<calls, asked, given>>
reports == <<fate, told, received>>
vars == <<kernel, content, handles, call, sending, reports>>

TypeOK ==
  /\ named \in BOOLEAN
  /\ queue \subseteq Id
  /\ given \in [Id -> Priority]
  /\ entered \in [Id -> Nat]
  /\ arrivals \in Nat
  /\ reg \in [by : Handle, event : Events] \cup {NoReg}
  /\ sig \in [Handle -> BOOLEAN]
  /\ mode \in [Handle -> Modes \cup {"closed"}]
  /\ nonblock \in [Handle -> BOOLEAN]
  /\ pc \in [Handle -> {"idle", "waiting", "done"}]
  /\ op \in [Handle -> {"none"} \cup Sends \cup Receives]
  /\ deadline \in [Handle -> Deadline]
  /\ msg \in [Handle -> Id \cup {NoId}]
  /\ code \in [Handle -> {"ok", "EAGAIN", "ETIMEDOUT", "EINTR", "rejected"}]
  /\ calls \in 0 .. MaxSend
  /\ asked \in [Id -> Priority]
  /\ fate \in [Id -> {"unknown", "accepted", "refused"}]
  /\ told \in [Id -> Priority]
  /\ received \subseteq Id

Init ==
  /\ named = TRUE
  /\ queue = {}
  /\ given = [i \in Id |-> 0]
  /\ entered = [i \in Id |-> 0]
  /\ arrivals = 0
  /\ reg = NoReg
  /\ sig = [h \in Handle |-> FALSE]
  /\ mode = [h \in Handle |-> "closed"]
  /\ nonblock = [h \in Handle |-> FALSE]
  /\ pc = [h \in Handle |-> "idle"]
  /\ op = [h \in Handle |-> "none"]
  /\ deadline = [h \in Handle |-> "none"]
  /\ msg = [h \in Handle |-> NoId]
  /\ code = [h \in Handle |-> "ok"]
  /\ calls = 0
  /\ asked = [i \in Id |-> 0]
  /\ fate = [i \in Id |-> "unknown"]
  /\ told = [i \in Id |-> 0]
  /\ received = {}
-----------------------------------------------------------------------------
(* The kernel's part of a call. *)

Full == Cardinality(queue) >= Capacity
Waiting(ops) == {h \in Handle : pc[h] = "waiting" /\ op[h] \in ops}

(* The next message: of the highest priority, and of these the oldest.     *)
First(i) ==
  /\ i \in queue
  /\ \A j \in queue : \/ given[j] < given[i]
                      \/ given[j] = given[i] /\ entered[j] >= entered[i]

Ends(h, e) ==
  /\ pc' = [pc EXCEPT ![h] = "done"]
  /\ code' = [code EXCEPT ![h] = e]

(* A message that enters an empty queue uses up the registration. *)
Announce ==
  /\ reg' = IF queue = {} THEN NoReg ELSE reg
  /\ sig' = [h \in Handle |->
               sig[h] \/ (queue = {} /\ reg = [by |-> h, event |-> "signal"])]
  /\ UNCHANGED named

Enqueue(i) ==
  /\ arrivals' = arrivals + 1
  /\ entered' = [entered EXCEPT ![i] = arrivals + 1]

Waits(h, d) ==
  /\ pc' = [pc EXCEPT ![h] = "waiting"]
  /\ deadline' = [deadline EXCEPT ![h] = d]
  /\ UNCHANGED code

(* EBADF, EINVAL, EMSGSIZE.  valid: the priority, the deadline and the     *)
(* length of the message are such as ::mq_send takes.                      *)
SendRejected(h, valid) ==
  mode[h] \notin {"write_only", "read_write"} \/ ~valid

(* ::mq_send or ::mq_timedsend of message i by h. A receiver that waits is *)
(* handed the message, which then never is in the queue.                   *)
KSend(h, i, p, d, valid) ==
  /\ given' = [given EXCEPT ![i] = p]
  /\ \/ /\ SendRejected(h, valid)
        /\ Ends(h, "rejected")
        /\ msg' = [msg EXCEPT ![h] = i]
        /\ UNCHANGED <<kernel, content, deadline>>
     \/ /\ ~SendRejected(h, valid) /\ Full
        /\ IF nonblock[h] THEN Ends(h, "EAGAIN") /\ UNCHANGED deadline
                          ELSE Waits(h, d)
        /\ msg' = [msg EXCEPT ![h] = i]
        /\ UNCHANGED <<kernel, content>>
     \/ /\ ~SendRejected(h, valid) /\ ~Full
        /\ \E r \in Waiting(Receives) :
             /\ msg' = [msg EXCEPT ![h] = i, ![r] = i]
             /\ pc' = [pc EXCEPT ![h] = "done", ![r] = "done"]
             /\ code' = [code EXCEPT ![h] = "ok", ![r] = "ok"]
        /\ UNCHANGED <<kernel, content, deadline>>
     \/ /\ ~SendRejected(h, valid) /\ ~Full
        /\ Waiting(Receives) = {}
        /\ Ends(h, "ok")
        /\ msg' = [msg EXCEPT ![h] = i]
        /\ queue' = queue \cup {i}
        /\ Enqueue(i)
        /\ Announce
        /\ UNCHANGED deadline

ReceiveRejected(h, valid) ==
  mode[h] \notin {"read_only", "read_write"} \/ ~valid

(* ::mq_receive or ::mq_timedreceive by h.  The place it frees goes to a   *)
(* sender that waits.                                                      *)
KReceive(h, d, valid) ==
  /\ \/ /\ ReceiveRejected(h, valid)
        /\ Ends(h, "rejected")
        /\ UNCHANGED <<content, msg, deadline>>
     \/ /\ ~ReceiveRejected(h, valid) /\ queue = {}
        /\ IF nonblock[h] THEN Ends(h, "EAGAIN") /\ UNCHANGED deadline
                          ELSE Waits(h, d)
        /\ UNCHANGED <<content, msg>>
     \/ /\ ~ReceiveRejected(h, valid)
        /\ \E i \in queue :
             /\ First(i)
             /\ msg' = [msg EXCEPT ![h] = i]
             /\ \/ /\ Waiting(Sends) = {}
                   /\ queue' = queue \ {i}
                   /\ Ends(h, "ok")
                   /\ UNCHANGED <<entered, arrivals>>
                \/ \E s \in Waiting(Sends) :
                     /\ queue' = (queue \ {i}) \cup {msg[s]}
                     /\ Enqueue(msg[s])
                     /\ pc' = [pc EXCEPT ![h] = "done", ![s] = "done"]
                     /\ code' = [code EXCEPT ![h] = "ok", ![s] = "ok"]
        /\ UNCHANGED deadline
  /\ UNCHANGED kernel

(* The deadline of a call that still waits passes; the call has no effect. *)
Expire(h) ==
  /\ pc[h] = "waiting" /\ deadline[h] = "absolute_time"
  /\ Ends(h, "ETIMEDOUT")
  /\ UNCHANGED <<kernel, content, handles, op, deadline, msg, sending, reports>>

(* A signal handler runs in the thread that waits. *)
Interrupt(h) ==
  /\ pc[h] = "waiting"
  /\ Ends(h, "EINTR")
  /\ UNCHANGED <<kernel, content, handles, op, deadline, msg, sending, reports>>
-----------------------------------------------------------------------------
(* Opening and closing. *)

Open_Unchecked(h, m, nb) ==
  /\ mode[h] = "closed"
  /\ mode' = [mode EXCEPT ![h] = IF named THEN m ELSE "NULL_MQD_T"]
  /\ nonblock' = [nonblock EXCEPT ![h] = nb]
  /\ UNCHANGED <<kernel, content, call, sending, reports>>

(* mq::open and unsafe_open.  nb: mq_non_blocking is among the options.    *)
(* The overloads that take an mq_create_queue open the queue in the same   *)
(* way: they give ::mq_open no O_CREAT, and it ignores the attributes.     *)
(* When ::mq_open fails they return its error and there is no handle.      *)
Open(h, m, nb) ==
  /\ named
  /\ mode[h] = "closed"
  /\ mode' = [mode EXCEPT ![h] = m]
  /\ nonblock' = [nonblock EXCEPT ![h] = nb]
  /\ UNCHANGED <<kernel, content, call, sending, reports>>

(* ~mq.  The kernel drops the registration of a program that closes. *)
Close(h) ==
  /\ pc[h] = "idle" /\ mode[h] # "closed"
  /\ mode' = [mode EXCEPT ![h] = "closed"]
  /\ nonblock' = [nonblock EXCEPT ![h] = FALSE]
  /\ reg' = IF reg.by = h THEN NoReg ELSE reg
  /\ UNCHANGED <<named, sig, content, call, sending, reports>>

(* mq::unlink: the name goes; who has the queue open goes on using it. *)
Unlink ==
  /\ named
  /\ named' = FALSE
  /\ UNCHANGED <<reg, sig, content, handles, call, sending, reports>>

(* mq::setattr(mq_non_blocking), the only flag it can be given. *)
SetAttr(h) ==
  /\ pc[h] = "idle" /\ mode[h] # "closed"
  /\ nonblock' = [nonblock EXCEPT ![h] = TRUE]
  /\ UNCHANGED <<kernel, content, mode, call, sending, reports>>
-----------------------------------------------------------------------------
(* Sending and receiving.  The arguments are valid or not: the length of   *)
(* the message or buffer against mq_msgsize, the nanoseconds of the        *)
(* deadline, and the priority, which the static_assert of the typed        *)
(* functions checks and unsafe_send and unsafe_timed_send do not.          *)

Begin(h, o) ==
  /\ pc[h] = "idle"
  /\ op' = [op EXCEPT ![h] = o]
  /\ UNCHANGED <<handles, reports>>

NewMessage(p) ==
  /\ calls < MaxSend
  /\ calls' = calls + 1
  /\ asked' = [asked EXCEPT ![calls + 1] = p]

(* mq::send and unsafe_send *)
Send(h, p, valid) ==
  /\ Begin(h, "send")
  /\ NewMessage(p)
  /\ KSend(h, calls + 1, p, "none", valid)

TimedSend_DropsPriority(h, p, valid) ==
  /\ Begin(h, "timed_send")
  /\ NewMessage(p)
  /\ KSend(h, calls + 1, 0, "absolute_time", valid)

(* mq::timed_send and unsafe_timed_send *)
TimedSend(h, p, valid) ==
  /\ Begin(h, "timed_send")
  /\ NewMessage(p)
  /\ KSend(h, calls + 1, p, "absolute_time", valid)

(* mq::receive *)
Receive(h, valid) ==
  /\ Begin(h, "receive")
  /\ KReceive(h, "none", valid)
  /\ UNCHANGED sending

TimedReceive_NoDeadline(h, valid) ==
  /\ Begin(h, "timed_receive")
  /\ KReceive(h, "none", valid)
  /\ UNCHANGED sending

(* mq::timed_receive *)
TimedReceive(h, valid) ==
  /\ Begin(h, "timed_receive")
  /\ KReceive(h, "absolute_time", valid)
  /\ UNCHANGED sending

Returns(h) ==
  /\ pc[h] = "done"
  /\ pc' = [pc EXCEPT ![h] = "idle"]
  /\ op' = [op EXCEPT ![h] = "none"]
  /\ msg' = [msg EXCEPT ![h] = NoId]
  /\ deadline' = [deadline EXCEPT ![h] = "none"]
  /\ code' = [code EXCEPT ![h] = "ok"]
  /\ UNCHANGED <<kernel, content, handles, sending>>

SendReturns_HidesTimeout(h) ==
  /\ op[h] \in Sends
  /\ Returns(h)
  /\ fate' = [fate EXCEPT ![msg[h]] =
                IF code[h] \in {"ok", "ETIMEDOUT"} THEN "accepted" ELSE "refused"]
  /\ UNCHANGED <<told, received>>

(* PPOSIX_COMMON_CALL: no error, or the error of the call. *)
SendReturns(h) ==
  /\ op[h] \in Sends
  /\ Returns(h)
  /\ fate' = [fate EXCEPT ![msg[h]] =
                IF code[h] = "ok" THEN "accepted" ELSE "refused"]
  /\ UNCHANGED <<told, received>>

(* An error code, or an mq_message with the priority the kernel filled in. *)
ReceiveReturns(h) ==
  /\ op[h] \in Receives
  /\ Returns(h)
  /\ IF code[h] = "ok"
       THEN /\ received' = received \cup {msg[h]}
            /\ told' = [told EXCEPT ![msg[h]] = given[msg[h]]]
       ELSE UNCHANGED <<received, told>>
  /\ UNCHANGED fate
-----------------------------------------------------------------------------
(* Notification. *)

Notify_DropsKind(h, event) ==
  /\ pc[h] = "idle" /\ mode[h] # "closed"
  /\ reg = NoReg
  /\ reg' = [by |-> h, event |-> "none"]
  /\ UNCHANGED <<named, sig, content, handles, call, sending, reports>>

(* notify(mq_notify_signal) and unsafe_notify, which may also be given an  *)
(* event of kind "none".  EBUSY if anyone is registered already.           *)
Notify(h, event) ==
  /\ pc[h] = "idle" /\ mode[h] # "closed"
  /\ reg = NoReg
  /\ reg' = [by |-> h, event |-> event]
  /\ UNCHANGED <<named, sig, content, handles, call, sending, reports>>

(* The program takes the signal. *)
TakeSignal(h) ==
  /\ sig[h]
  /\ sig' = [sig EXCEPT ![h] = FALSE]
  /\ UNCHANGED <<named, reg, content, handles, call, sending, reports>>
-----------------------------------------------------------------------------
(* What a program may do but for notification. *)
Use(h) ==
  \/ \E m \in Modes, nb \in BOOLEAN : Open(h, m, nb)
  \/ Close(h)
  \/ SetAttr(h)
  \/ \E valid \in BOOLEAN :
       \/ Receive(h, valid)
       \/ TimedReceive(h, valid)
       \/ \E p \in Priority : Send(h, p, valid) \/ TimedSend(h, p, valid)
  \/ Expire(h)
  \/ Interrupt(h)
  \/ SendReturns(h)
  \/ ReceiveReturns(h)

Next ==
  \/ Unlink
  \/ \E h \in Handle :
       \/ Use(h)
       \/ \E event \in Events : Notify(h, event)
       \/ TakeSignal(h)

Spec == Init /\ [][Next]_vars
-----------------------------------------------------------------------------
InHand == {msg[h] : h \in {g \in Handle : /\ pc[g] = "done"
                                          /\ op[g] \in Receives
                                          /\ code[g] = "ok"}}
Delivered == {msg[h] : h \in {g \in Handle : /\ pc[g] = "done"
                                             /\ op[g] \in Sends
                                             /\ code[g] = "ok"}}
Accepted == {i \in Id : fate[i] = "accepted"}

(* What callers are told is what happened, whatever deadlines, signals and *)
(* other calls the send or receive raced with: the messages whose send     *)
(* reported, or will report, success are exactly those that are in the     *)
(* queue, on their way to one receiver, or returned by a receive; a        *)
(* message is in one of these places only, and goes to one receiver only.  *)
NothingLost ==
  /\ Accepted \cup Delivered = queue \cup InHand \cup received
  /\ queue \cap (InHand \cup received) = {}
  /\ InHand \cap received = {}
  /\ \A g, h \in Handle :
       /\ g # h
       /\ {g, h} \subseteq {x \in Handle : pc[x] = "done" /\ op[x] \in Receives
                                             /\ code[x] = "ok"}
       => msg[g] # msg[h]

(* A receive takes, of the messages in the queue, one to which the sender  *)
(* gave the highest priority, and the oldest of these.                     *)
TakenInOrder ==
  [][\A i \in queue \ queue' : \A j \in queue :
       \/ asked[j] < asked[i]
       \/ asked[j] = asked[i] /\ entered[j] >= entered[i]]_vars

(* The priority in an mq_message is the one its sender chose. *)
PriorityTold == \A i \in received : told[i] = asked[i]

(* timed_send and timed_receive return, even if nobody ever frees a place  *)
(* or sends a message.                                                     *)
TimedReturns ==
  \A h \in Handle :
    (pc[h] # "idle" /\ op[h] \in Timed) ~> (pc[h] = "idle")
=============================================================================

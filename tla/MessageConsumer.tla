--------------------------- MODULE MessageConsumer ---------------------------
(***************************************************************************)
(* A program that waits for messages by notification and not by blocking,  *)
(* with the calls of MessageQueue.  A registration is used up by one       *)
(* message, and a message that finds the queue not empty announces         *)
(* nothing, so that the order of its calls matters: register, then receive *)
(* until EAGAIN, then sleep until the signal comes.  The program is not    *)
(* part of pposix; the calls it makes, and the senders' calls, are.        *)
(***************************************************************************)
EXTENDS MessageQueue

CONSTANT C   \* the handle of the consumer

ASSUME ConsumerAssumption == C \in Handle /\ "signal" \in Events

VARIABLE at  \* where the consumer is: "start", "register", "drain", "sleep"

cvars == <<vars, at>>

CInit == Init /\ at = "start"

(* mq::open(name, mode, mq_non_blocking), to read *)
COpen ==
  /\ at = "start"
  /\ \E m \in Modes \ {"write_only"} : Open(C, m, TRUE)
  /\ at' = "register"

CRegister ==
  /\ at = "register"
  /\ Notify(C, "signal")
  /\ at' = "drain"

CReceive ==
  /\ at = "drain"
  /\ Receive(C, TRUE)
  /\ UNCHANGED at

CReceived ==
  /\ ReceiveReturns(C)
  /\ at' = IF code[C] = "EAGAIN" THEN "sleep" ELSE "drain"

CWake ==
  /\ at = "sleep"
  /\ TakeSignal(C)
  /\ at' = "register"

Consumer == COpen \/ CRegister \/ CReceive \/ CReceived \/ CWake

(* The other programs use the queue as they like, but leave notification   *)
(* to the consumer: a second registration would be refused.                *)
CNext ==
  \/ Consumer
  \/ (Unlink \/ \E h \in Handle \ {C} : Use(h)) /\ UNCHANGED at

(* The consumer's thread runs whenever it can.  Of the others it is only   *)
(* assumed that deadlines pass and that a thread whose system call has     *)
(* ended goes on; nobody need send or receive.                             *)
CSpec ==
  /\ CInit
  /\ [][CNext]_cvars
  /\ WF_cvars(Consumer)
  /\ \A h \in Handle \ {C} :
       /\ WF_cvars(Expire(h) /\ UNCHANGED at)
       /\ WF_cvars(SendReturns(h) /\ UNCHANGED at)
       /\ WF_cvars(ReceiveReturns(h) /\ UNCHANGED at)

(* No message is stranded in the queue while the consumer sleeps: each one *)
(* whose send succeeded is received, by the consumer or by somebody else,  *)
(* whenever it arrived between the consumer's registration, its last       *)
(* receive and its sleep, and whoever else took messages meanwhile.        *)
EveryMessageArrives ==
  \A i \in Id : (fate[i] = "accepted" /\ at # "start") ~> (i \in received)
=============================================================================

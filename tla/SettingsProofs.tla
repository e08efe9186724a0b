---------------------------- MODULE SettingsProofs ----------------------------
(* Theorems about Settings, the log and the socket options, for every set of *)
(* strings, priorities, facilities and option values and every depth of      *)
(* nested scopes.                                                            *)
EXTENDS Settings, SequenceTheorems, TLAPS

(* A process whose settings are changed by both libraries still only takes   *)
(* steps of the log, as far as the log can see.                              *)
THEOREM SettingsImplementLog == SSpec => Spec
<1>1. SInit => Init
  BY DEF SInit
<1>2. [SNext]_svars => [Next]_vars
  BY DEF SNext, svars
<1> QED
  BY <1>1, <1>2, PTL DEF SSpec, Spec
-------------------------------------------------------------------------------
(* What MaskRestored needs beside itself: no scope has left the mask empty,  *)
(* for ::setlogmask takes an empty mask for a question and would restore     *)
(* nothing.                                                                  *)
SomeMask == (SUBSET (0 .. 7)) \ {{}}

Masks ==
  /\ mask \in SomeMask
  /\ saved \in Seq(SomeMask)
  /\ named \in Seq(SUBSET (0 .. 7))
  /\ Len(named) = Len(saved) + 1
  /\ Len(saved) <= MaxNest
  /\ MaskRestored

(* At the start every priority passes. *)
LEMMA InitMasks == Init => Masks
<1> SUFFICES ASSUME Init PROVE Masks
  OBVIOUS
<1>1. /\ mask = 0 .. 7 /\ saved = <<>> /\ named = <<0 .. 7>>
      /\ mask \in SomeMask
  BY DEF Init, SomeMask
<1> QED
  BY <1>1, MaxNestAssumption DEF Masks, MaskRestored

(* The mask of a list of priorities has the bits of its members. *)
LEMMA ToMask == \A priorities : to_mask(priorities) = priorities
BY DEF to_mask, LOG_MASK

(* A scope less. *)
LEMMA DropLast ==
  ASSUME NEW S, NEW s \in Seq(S), Len(s) > 0
  PROVE  /\ SubSeq(s, 1, Len(s) - 1) \in Seq(S)
         /\ Len(SubSeq(s, 1, Len(s) - 1)) = Len(s) - 1
         /\ \A i \in 1 .. Len(s) - 1 : SubSeq(s, 1, Len(s) - 1)[i] = s[i]
<1> DEFINE n == Len(s) - 1
<1>1. n \in Nat /\ \A i \in 1 .. n : s[i] \in S
  OBVIOUS
<1> HIDE DEF n
<1>2. /\ SubSeq(s, 1, n) \in Seq(S)
      /\ Len(SubSeq(s, 1, n)) = IF 1 <= n THEN n - 1 + 1 ELSE 0
      /\ \A i \in 1 .. n - 1 + 1 : SubSeq(s, 1, n)[i] = s[1 + i - 1]
  BY <1>1, SubSeqProperties
<1>3. \A i \in 1 .. n : i \in 1 .. n - 1 + 1 /\ 1 + i - 1 = i
  BY <1>1
<1>4. Len(SubSeq(s, 1, n)) = n
  BY <1>1, <1>2
<1> QED
  BY <1>2, <1>3, <1>4 DEF n

(* Beginning a scope keeps the masks in order. *)
LEMMA SetMasks ==
  ASSUME Masks, NEW priorities \in SUBSET Priority, setlogmask(priorities)
  PROVE  Masks'
<1> DEFINE next == IF priorities = {} THEN named[Len(named)] ELSE priorities
<1>0. /\ mask \in SomeMask
      /\ saved \in Seq(SomeMask) /\ named \in Seq(SUBSET (0 .. 7))
      /\ Len(named) = Len(saved) + 1 /\ Len(saved) <= MaxNest
      /\ mask = named[Len(named)]
      /\ \A i \in 1 .. Len(saved) : saved[i] = named[i]
  BY DEF Masks, MaskRestored
<1>1. /\ mask' = IF priorities = {} THEN mask ELSE priorities
      /\ saved' = Append(saved, mask) /\ named' = Append(named, next)
      /\ Len(saved) < MaxNest
  BY ToMask DEF setlogmask, KMask
<1>2. next = mask' /\ mask' \in SomeMask
  BY <1>0, <1>1, PriorityAssumption DEF SomeMask
<1> HIDE DEF next
<1>3. /\ saved' \in Seq(SomeMask) /\ named' \in Seq(SUBSET (0 .. 7))
      /\ Len(saved') = Len(saved) + 1 /\ Len(named') = Len(named) + 1
      /\ saved'[Len(saved')] = mask /\ named'[Len(named')] = next
      /\ \A i \in 1 .. Len(saved) : saved'[i] = saved[i]
      /\ \A i \in 1 .. Len(named) : named'[i] = named[i]
  <2>1. next \in SUBSET (0 .. 7)
    BY <1>2 DEF SomeMask
  <2>2. /\ saved' \in Seq(SomeMask) /\ Len(saved') = Len(saved) + 1
        /\ saved'[Len(saved) + 1] = mask
        /\ \A i \in 1 .. Len(saved) : saved'[i] = saved[i]
    BY <1>0, <1>1, AppendProperties
  <2>3. /\ named' \in Seq(SUBSET (0 .. 7)) /\ Len(named') = Len(named) + 1
        /\ named'[Len(named) + 1] = next
        /\ \A i \in 1 .. Len(named) : named'[i] = named[i]
    BY <1>0, <1>1, <2>1, AppendProperties
  <2> QED
    BY <2>2, <2>3
<1>4. \A i \in 1 .. Len(saved') : saved'[i] = named'[i]
  BY <1>0, <1>3
<1> QED
  BY <1>0, <1>1, <1>2, <1>3, <1>4, MaxNestAssumption DEF Masks, MaskRestored

(* Ending a scope brings back the mask of the scope outside. *)
LEMMA RestoreMasks ==
  ASSUME Masks, Restore
  PROVE  Masks'
<1>0. /\ mask \in SomeMask
      /\ saved \in Seq(SomeMask) /\ named \in Seq(SUBSET (0 .. 7))
      /\ Len(named) = Len(saved) + 1 /\ Len(saved) <= MaxNest
      /\ mask = named[Len(named)]
      /\ \A i \in 1 .. Len(saved) : saved[i] = named[i]
  BY DEF Masks, MaskRestored
<1>1. saved # <<>> /\ Len(saved) \in Nat \ {0}
  BY <1>0 DEF Restore
<1>2. saved[Len(saved)] \in SomeMask
  BY <1>0, <1>1
<1>3. /\ mask' = saved[Len(saved)]
      /\ saved' = SubSeq(saved, 1, Len(saved) - 1)
      /\ named' = SubSeq(named, 1, Len(named) - 1)
  BY <1>2 DEF Restore, KMask, SomeMask
<1>4. /\ saved' \in Seq(SomeMask) /\ named' \in Seq(SUBSET (0 .. 7))
      /\ Len(saved') = Len(saved) - 1 /\ Len(named') = Len(saved)
      /\ \A i \in 1 .. Len(saved) - 1 : saved'[i] = saved[i]
      /\ \A i \in 1 .. Len(saved) : named'[i] = named[i]
  BY <1>0, <1>1, <1>3, DropLast
<1>5. mask' = named'[Len(named')]
  BY <1>0, <1>1, <1>3, <1>4
<1>6. \A i \in 1 .. Len(saved') : saved'[i] = named'[i]
  <2> TAKE i \in 1 .. Len(saved')
  <2>1. i \in 1 .. Len(saved) - 1 /\ i \in 1 .. Len(saved)
    BY <1>1, <1>4
  <2>2. saved'[i] = saved[i] /\ named'[i] = named[i] /\ saved[i] = named[i]
    BY <1>0, <1>4, <2>1
  <2> QED
    BY <2>2
<1>7. Len(named') = Len(saved') + 1 /\ Len(saved') <= MaxNest
  BY <1>0, <1>1, <1>4, MaxNestAssumption
<1> QED
  BY <1>2, <1>3, <1>4, <1>5, <1>6, <1>7 DEF Masks, MaskRestored

(* Every step keeps the masks in order. *)
LEMMA StepMasks == Masks /\ [Next]_vars => Masks'
<1> SUFFICES ASSUME Masks, [Next]_vars PROVE Masks'
  OBVIOUS
<1>1. CASE UNCHANGED <<mask, saved, named>>
  BY <1>1 DEF Masks, MaskRestored
<1> QED
  BY <1>1, SetMasks, RestoreMasks
     DEF Next, vars, openlog, closelog, syslog

(* However deeply scopes nest and whatever sets of priorities they name, the *)
(* empty one included, what setlogmask returned puts back exactly the mask   *)
(* of the scope outside.                                                     *)
THEOREM MasksAreRestored == SSpec => []MaskRestored
<1>1. Spec => []Masks
  BY InitMasks, StepMasks, PTL DEF Spec
<1>2. Masks => MaskRestored
  BY DEF Masks
<1> QED
  BY <1>1, <1>2, SettingsImplementLog, PTL

-------------------------------------------------------------------------------
(* The priority and the facility of a message share a word without touching. *)
LEMMA WordParts ==
  ASSUME NEW p \in 0 .. 7, NEW f \in 0 .. 23
  PROVE  (p + 8 * f) % 8 = p /\ (p + 8 * f) \div 8 = f
OBVIOUS

(* What ::syslog records of such a word. *)
LEMMA Logged ==
  ASSUME NEW p \in 0 .. 7, NEW f \in 0 .. 23
  PROVE  KLog(p + 8 * f) = IF p \in mask
                             THEN <<p, IF f = 0 THEN LogFacility ELSE f>>
                             ELSE <<>>
BY WordParts DEF KLog

(* A message is recorded exactly if the innermost scope names its priority,  *)
(* with that priority and its facility: the mask is that of the scope, and   *)
(* or-ing priority and facility into one word loses neither.                 *)
THEOREM MessagesRecordedAsAsked == SSpec => RecordedAsAsked
<1> DEFINE Recorded ==
      \A p \in Priority, f \in Facility :
        syslog(p, f) =>
          IF p \in named[Len(named)]
            THEN last'.recorded[1] = p /\ (f # 0 => last'.recorded[2] = f)
            ELSE last'.recorded = <<>>
<1>1. Spec => []Masks
  BY InitMasks, StepMasks, PTL DEF Spec
<1>2. Masks => Recorded
  <2> SUFFICES ASSUME Masks, NEW p \in Priority, NEW f \in Facility, syslog(p, f)
               PROVE  IF p \in named[Len(named)]
                        THEN last'.recorded[1] = p /\ (f # 0 => last'.recorded[2] = f)
                        ELSE last'.recorded = <<>>
    OBVIOUS
  <2>1. p \in 0 .. 7 /\ f \in 0 .. 23
    BY PriorityAssumption, FacilityAssumption
  <2>2. last'.recorded = IF p \in mask
                           THEN <<p, IF f = 0 THEN LogFacility ELSE f>> ELSE <<>>
    BY <2>1, Logged DEF syslog
  <2>3. mask = named[Len(named)]
    BY DEF Masks, MaskRestored
  <2> QED
    BY <2>2, <2>3
<1>3. Masks /\ [Next]_vars => [Recorded]_vars
  BY <1>2
<1>4. Spec => [][Recorded]_vars
  BY <1>1, <1>3, PTL DEF Spec
<1>5. SSpec => [][Recorded]_vars
  BY <1>4, SettingsImplementLog
<1> QED
  BY <1>5 DEF RecordedAsAsked

(* What libc keeps, apart from the masks. *)
Logs ==
  /\ ident \in Ident \cup {NoIdent}
  /\ LogFacility \in (Facility \cup {User}) \ {0}
  /\ last.asked \in {<<>>} \cup Priority \X Facility
  /\ last.recorded \in {<<>>} \cup (0 .. 7) \X (0 .. 23)

(* Every step of the log keeps the types. *)
LEMMA StepLogs == Logs /\ [Next]_vars => Logs'
<1> SUFFICES ASSUME Logs, [Next]_vars PROVE Logs'
  OBVIOUS
<1>2. ASSUME NEW s \in Ident, NEW f \in Facility, openlog(s, f)
      PROVE  Logs'
  BY <1>2 DEF openlog, Logs
<1>3. CASE closelog
  BY <1>3 DEF closelog, Logs
<1>4. CASE UNCHANGED <<ident, LogFacility, last>>
  BY <1>4 DEF Logs
<1>5. ASSUME NEW p \in Priority, NEW f \in Facility, syslog(p, f) PROVE Logs'
  <2>1. p \in 0 .. 7 /\ f \in 0 .. 23
    BY PriorityAssumption, FacilityAssumption
  <2>2. /\ last' = [asked |-> <<p, f>>, recorded |-> KLog(p + 8 * f)]
        /\ UNCHANGED <<ident, LogFacility>>
    BY <1>5 DEF syslog
  <2>3. LogFacility \in 0 .. 23
    BY FacilityAssumption DEF Logs, User
  <2>4. KLog(p + 8 * f) \in {<<>>} \cup (0 .. 7) \X (0 .. 23)
    <3> DEFINE g == IF f = 0 THEN LogFacility ELSE f
    <3>1. KLog(p + 8 * f) = IF p \in mask THEN <<p, g>> ELSE <<>>
      BY <2>1, Logged
    <3>2. <<p, g>> \in (0 .. 7) \X (0 .. 23)
      BY <2>1, <2>3
    <3> HIDE DEF g
    <3> QED
      BY <3>1, <3>2
  <2> QED
    BY <2>2, <2>4 DEF Logs
<1> QED
  BY <1>2, <1>3, <1>4, <1>5 DEF Next, vars, setlogmask, Restore

(* The state of the log is typed: facility 0 never becomes the default, and  *)
(* there is one more mask than scopes to restore.                            *)
THEOREM LogTyping == SSpec => []TypeOK
<1>1. Init => Logs
  BY DEF Init, Logs, User, NoMessage
<1>2. Spec => [](Logs /\ Masks)
  BY <1>1, StepLogs, InitMasks, StepMasks, PTL DEF Spec
<1>3. Logs /\ Masks => TypeOK
  <2> SUFFICES ASSUME Logs, Masks PROVE TypeOK
    OBVIOUS
  <2>1. saved \in Seq(SUBSET (0 .. 7)) /\ mask \subseteq 0 .. 7
    BY DEF Masks, SomeMask
  <2> QED
    BY <2>1 DEF Logs, Masks, TypeOK
<1> QED
  BY <1>2, <1>3, SettingsImplementLog, PTL
-------------------------------------------------------------------------------
(* The options that can be set, and their numbers. *)
LEMMA OptionNames ==
  /\ Sock!Option = {"debug", "reuseaddr", "dontroute", "broadcast", "sndbuf",
                    "rcvbuf", "keepalive", "oobinline", "linger", "rcvlowat",
                    "sndlowat", "rcvtimeo", "sndtimeo"}
  /\ Sock!Option = Sock!Switch \cup Sock!Amount \cup {"linger"} \cup Sock!Timeout
BY DEF Sock!Option, Sock!socket_option, Sock!Switch, Sock!Amount, Sock!Timeout

(* The number of each. *)
LEMMA NumberOf ==
  /\ Sock!socket_option["debug"] = 1 /\ Sock!socket_option["reuseaddr"] = 2
  /\ Sock!socket_option["dontroute"] = 5 /\ Sock!socket_option["broadcast"] = 6
  /\ Sock!socket_option["sndbuf"] = 7 /\ Sock!socket_option["rcvbuf"] = 8
  /\ Sock!socket_option["keepalive"] = 9 /\ Sock!socket_option["oobinline"] = 10
  /\ Sock!socket_option["linger"] = 13 /\ Sock!socket_option["rcvlowat"] = 18
  /\ Sock!socket_option["sndlowat"] = 19 /\ Sock!socket_option["rcvtimeo"] = 20
  /\ Sock!socket_option["sndtimeo"] = 21
BY DEF Sock!socket_option

(* No two options have one number. *)
LEMMA OwnNumber ==
  \A o, q \in Sock!Option : o # q => Sock!socket_option[o] # Sock!socket_option[q]
BY OptionNames, NumberOf

(* Every option has one. *)
LEMMA NumberIsNumber == \A o \in Sock!Option : Sock!socket_option[o] \in Sock!Number
BY DEF Sock!Number

(* Each overload that takes a bool or an int names the option of its type.   *)
LEMMA OverloadNumber ==
  \A o \in Sock!Switch \cup Sock!Amount : Sock!overload[o] = Sock!socket_option[o]
BY DEF Sock!overload, Sock!Switch, Sock!Amount

(* The numbers by which the kernel tells kinds of options apart. *)
LEMMA Kinds ==
  /\ {Sock!socket_option[o] : o \in Sock!Switch} = {1, 2, 5, 6, 9, 10}
  /\ {Sock!socket_option[o] : o \in Sock!Timeout} = {20, 21}
BY NumberOf DEF Sock!Switch, Sock!Timeout

(* What the kernel keeps for each kind. *)
LEMMA Keeps ==
  ASSUME NEW data
  PROVE  /\ \A n \in {1, 2, 5, 6, 9, 10} :
              Sock!KKeeps(n, data) = IF data # 0 THEN 1 ELSE 0
         /\ \A n \in {7, 8} : Sock!KKeeps(n, data) = 2 * data
         /\ Sock!KKeeps(18, data) = IF data = 0 THEN 1 ELSE data
         /\ Sock!KKeeps(13, data) =
              IF data.l_onoff # 0
                THEN [l_onoff |-> 1, l_linger |-> data.l_linger]
                ELSE [opts[13] EXCEPT !.l_onoff = 0]
         /\ \A n \in {20, 21} :
              Sock!KKeeps(n, data) = IF data.tv_sec < 0
                                       THEN [tv_sec |-> 0, tv_usec |-> 0]
                                       ELSE data
<1> DEFINE S == {Sock!socket_option[o] : o \in Sock!Switch}
           T == {Sock!socket_option[o] : o \in Sock!Timeout}
<1>0. S = {1, 2, 5, 6, 9, 10} /\ T = {20, 21}
  BY Kinds
<1>a. \A n : Sock!KKeeps(n, data) =
        CASE n \in S -> IF data # 0 THEN 1 ELSE 0
          [] n \in {Sock!socket_option.sndbuf, Sock!socket_option.rcvbuf} -> 2 * data
          [] n = Sock!socket_option.rcvlowat -> IF data = 0 THEN 1 ELSE data
          [] n = Sock!socket_option.linger ->
               IF data.l_onoff # 0
                 THEN [l_onoff |-> 1, l_linger |-> data.l_linger]
                 ELSE [opts[n] EXCEPT !.l_onoff = 0]
          [] n \in T ->
               IF data.tv_sec < 0 THEN [tv_sec |-> 0, tv_usec |-> 0] ELSE data
          [] OTHER -> data
  BY DEF Sock!KKeeps
<1> HIDE DEF S, T
<1>1. \A n \in {1, 2, 5, 6, 9, 10} :
        Sock!KKeeps(n, data) = IF data # 0 THEN 1 ELSE 0
  BY <1>0, <1>a, NumberOf
<1>2. \A n \in {7, 8} : Sock!KKeeps(n, data) = 2 * data
  BY <1>0, <1>a, NumberOf
<1>3. Sock!KKeeps(18, data) = IF data = 0 THEN 1 ELSE data
  BY <1>0, <1>a, NumberOf
<1>4. Sock!KKeeps(13, data) =
        IF data.l_onoff # 0
          THEN [l_onoff |-> 1, l_linger |-> data.l_linger]
          ELSE [opts[13] EXCEPT !.l_onoff = 0]
  BY <1>0, <1>a, NumberOf
<1>5. \A n \in {20, 21} :
        Sock!KKeeps(n, data) = IF data.tv_sec < 0
                                 THEN [tv_sec |-> 0, tv_usec |-> 0] ELSE data
  BY <1>0, <1>a, NumberOf
<1> QED
  BY <1>1, <1>2, <1>3, <1>4, <1>5

(* What the kernel holds for SO_LINGER: KKeeps changes one of its fields.    *)
Lingering == [l_onoff : {0, 1}, l_linger : Int]

(* A successful call at level "socket" changes the option that the type of   *)
(* its argument names, to what the argument means.                           *)
LEMMA SetMeans ==
  ASSUME OnOff \subseteq {0, 1}, opts[13] \in Lingering,
         NEW o \in Sock!Option, NEW v \in Sock!Values(o),
         Sock!setsockopt("socket", o, v)
  PROVE  \E y : /\ opts' = [opts EXCEPT ![Sock!socket_option[o]] = y]
                /\ Sock!Means(o, v, y)
                /\ o = "linger" => y \in Lingering
<1> DEFINE Goal == \E y : /\ opts' = [opts EXCEPT ![Sock!socket_option[o]] = y]
                          /\ Sock!Means(o, v, y)
                          /\ o = "linger" => y \in Lingering
<1> USE DEF Sock!unsafe_setsockopt, Sock!KSet, Sock!Switch, Sock!Amount, Sock!Timeout
<1>1. ASSUME o \in Sock!Switch PROVE Goal
  <2>1. v \in BOOLEAN /\ Sock!socket_option[o] \in {1, 2, 5, 6, 9, 10} /\ o # "linger"
    BY <1>1, NumberOf DEF Sock!Values
  <2> DEFINE i == IF v THEN 1 ELSE 0
             y == Sock!KKeeps(Sock!socket_option[o], i)
  <2>2. opts' = [opts EXCEPT ![Sock!socket_option[o]] = y]
    BY <1>1, OverloadNumber DEF Sock!setsockopt, Sock!setsockopt_bool, Sock!setsockopt_int
  <2>3. y = IF i # 0 THEN 1 ELSE 0
    BY <2>1, Keeps
  <2>4. y = i
    BY <2>3
  <2>5. Sock!Means(o, v, y)
    BY <1>1, <2>4 DEF Sock!Means
  <2> QED
    BY <2>1, <2>2, <2>5
<1>2. ASSUME o \in {"sndbuf", "rcvbuf"} PROVE Goal
  <2>1. Sock!socket_option[o] \in {7, 8}
    BY <1>2, NumberOf
  <2>2. opts' = [opts EXCEPT ![Sock!socket_option[o]] =
                               Sock!KKeeps(Sock!socket_option[o], v)]
    BY <1>2, OverloadNumber DEF Sock!setsockopt, Sock!setsockopt_int
  <2>3. Sock!KKeeps(Sock!socket_option[o], v) = 2 * v
    BY <2>1, Keeps
  <2>4. Sock!Means(o, v, 2 * v)
    BY <1>2 DEF Sock!Means
  <2> QED
    BY <1>2, <2>2, <2>3, <2>4
<1>3. ASSUME o = "rcvlowat" PROVE Goal
  <2> DEFINE y == IF v = 0 THEN 1 ELSE v
  <2>1. opts' = [opts EXCEPT ![Sock!socket_option[o]] = y]
    BY <1>3, NumberOf, Keeps, OverloadNumber
       DEF Sock!setsockopt, Sock!setsockopt_int
  <2>2. Sock!Means(o, v, y)
    BY <1>3 DEF Sock!Means
  <2> QED
    BY <1>3, <2>1, <2>2
<1>4. ASSUME o = "sndlowat" PROVE Goal
  <2>1. Sock!KRefuses(19, v, Sock!sizeof.int)
    BY NumberOf DEF Sock!KRefuses
  <2>2. Sock!overload[o] = 19
    BY <1>4, NumberOf, OverloadNumber
  <2> QED
    BY <1>4, <2>1, <2>2 DEF Sock!setsockopt, Sock!setsockopt_int
<1>5. ASSUME o = "linger" PROVE Goal
  <2> DEFINE y == Sock!KKeeps(13, v)
  <2>1. v \in [l_onoff : OnOff, l_linger : Seconds \cap Nat]
    BY <1>5 DEF Sock!Values, Sock!Linger
  <2>2. opts' = [opts EXCEPT ![Sock!socket_option[o]] = y]
    BY <1>5, NumberOf
       DEF Sock!setsockopt, Sock!setsockopt_linger
  <2>3. y = IF v.l_onoff # 0
              THEN [l_onoff |-> 1, l_linger |-> v.l_linger]
              ELSE [opts[13] EXCEPT !.l_onoff = 0]
    BY Keeps
  <2> HIDE DEF y
  <2>4. y \in Lingering /\ (v.l_onoff = 1 <=> y.l_onoff = 1)
        /\ (v.l_onoff = 1 => y.l_linger = v.l_linger)
    BY <2>1, <2>3 DEF Lingering
  <2>5. Sock!Means(o, v, y)
    BY <1>5, <2>4 DEF Sock!Means, Sock!enabled
  <2> QED
    BY <2>2, <2>4, <2>5
<1>6. ASSUME o \in Sock!Timeout PROVE Goal
  <2> DEFINE y == IF v.tv_sec < 0 THEN [tv_sec |-> 0, tv_usec |-> 0] ELSE v
  <2>1. Sock!socket_option[o] \in {20, 21} /\ o # "linger"
    BY <1>6, NumberOf DEF Sock!Timeout
  <2>2. opts' = [opts EXCEPT ![Sock!socket_option[o]] = y]
    <3>0. Sock!KKeeps(Sock!socket_option[o], v) = y
      BY <2>1, Keeps
    <3>1. CASE o = "rcvtimeo"
      BY <3>0, <3>1 DEF Sock!setsockopt, Sock!setsockopt_rcvtimeo
    <3>2. CASE o = "sndtimeo"
      BY <3>0, <3>2 DEF Sock!setsockopt, Sock!setsockopt_sndtimeo
    <3> QED
      BY <1>6, <3>1, <3>2
  <2>3. Sock!Means(o, v, y)
    BY <1>6 DEF Sock!Means
  <2> QED
    BY <2>1, <2>2, <2>3
<1> QED
  BY <1>1, <1>2, <1>3, <1>4, <1>5, <1>6, OptionNames DEF Sock!Amount

(* At another level the number names another option, and the call leaves the *)
(* socket's own options alone.                                               *)
LEMMA SetElsewhere ==
  ASSUME NEW l, l # "socket", NEW o \in Sock!Option, NEW v, Sock!setsockopt(l, o, v)
  PROVE  opts' = opts
<1> USE DEF Sock!unsafe_setsockopt, Sock!KSet, Sock!Switch, Sock!Amount, Sock!Timeout
<1>1. CASE o \in Sock!Switch
  BY <1>1 DEF Sock!setsockopt, Sock!setsockopt_bool, Sock!setsockopt_int
<1>2. CASE o \in Sock!Amount
  BY <1>2 DEF Sock!setsockopt, Sock!setsockopt_int
<1>3. CASE o = "linger"
  BY <1>3 DEF Sock!setsockopt, Sock!setsockopt_linger
<1>4. CASE o = "rcvtimeo"
  BY <1>4 DEF Sock!setsockopt, Sock!setsockopt_rcvtimeo
<1>5. CASE o = "sndtimeo"
  BY <1>5 DEF Sock!setsockopt, Sock!setsockopt_sndtimeo
<1> QED
  BY <1>1, <1>2, <1>3, <1>4, <1>5, OptionNames

(* What OptionsInEffect needs beside itself: the kernel has a value for      *)
(* every number, and for SO_LINGER one whose l_onoff is 0 or 1.              *)
Optioned ==
  /\ DOMAIN opts = Sock!Number /\ opts = [n \in Sock!Number |-> opts[n]]
  /\ DOMAIN want = Sock!Option /\ want = [o \in Sock!Option |-> want[o]]
  /\ opts[13] \in Lingering
  /\ OptionsInEffect

(* At the start every option has its default. *)
LEMMA InitOptioned == Sock!Init => Optioned
<1> SUFFICES ASSUME Sock!Init PROVE Optioned
  OBVIOUS
<1>1. /\ opts = [n \in Sock!Number |-> Sock!Default(n)]
      /\ want = [o \in Sock!Option |-> {}]
  BY DEF Sock!Init
<1>2. 13 \in Sock!Number
  BY OptionNames, NumberOf, NumberIsNumber
<1>3. Sock!Default(13) = [l_onoff |-> 0, l_linger |-> 0]
  <2> DEFINE T == {Sock!socket_option[o] : o \in Sock!Timeout}
  <2>1. T = {20, 21}
    BY Kinds
  <2>2. Sock!Default(13) =
          CASE 13 = Sock!socket_option.linger -> [l_onoff |-> 0, l_linger |-> 0]
            [] 13 \in T -> [tv_sec |-> 0, tv_usec |-> 0]
            [] OTHER -> 0
    BY DEF Sock!Default
  <2> HIDE DEF T
  <2> QED
    BY <2>1, <2>2, NumberOf
<1>4. OptionsInEffect
  BY <1>1, NumberIsNumber DEF OptionsInEffect, Sock!InEffect
<1> QED
  BY <1>1, <1>2, <1>3, <1>4 DEF Optioned, Lingering

(* A successful call keeps every option in effect: its own by SetMeans, and  *)
(* the others because no two have one number.                                *)
LEMMA SetOptioned ==
  ASSUME OnOff \subseteq {0, 1}, Optioned,
         NEW l \in Sock!socket_level, NEW o \in Sock!Option,
         NEW v \in Sock!Values(o), Sock!Set(l, o, v)
  PROVE  Optioned'
<1>1. CASE l # "socket"
  <2>1. opts' = opts /\ want' = want
    BY <1>1, SetElsewhere DEF Sock!Set
  <2> QED
    BY <2>1 DEF Optioned, OptionsInEffect, Sock!InEffect
<1>2. CASE l = "socket"
  <2>1. Sock!setsockopt("socket", o, v) /\ want' = [want EXCEPT ![o] = {v}]
    BY <1>2 DEF Sock!Set
  <2>2. opts[13] \in Lingering
    BY DEF Optioned
  <2>3. PICK y : /\ opts' = [opts EXCEPT ![Sock!socket_option[o]] = y]
                 /\ Sock!Means(o, v, y)
                 /\ o = "linger" => y \in Lingering
    BY <2>1, <2>2, SetMeans
  <2>4. /\ DOMAIN opts' = Sock!Number /\ opts' = [n \in Sock!Number |-> opts'[n]]
        /\ DOMAIN want' = Sock!Option /\ want' = [q \in Sock!Option |-> want'[q]]
    BY <2>1, <2>3 DEF Optioned
  <2>5. opts'[Sock!socket_option[o]] = y /\ want'[o] = {v}
    BY <2>1, <2>3, NumberIsNumber DEF Optioned
  <2>6. \A q \in Sock!Option \ {o} :
          /\ opts'[Sock!socket_option[q]] = opts[Sock!socket_option[q]]
          /\ want'[q] = want[q]
    BY <2>1, <2>3, OwnNumber, NumberIsNumber DEF Optioned
  <2>7. opts'[13] \in Lingering
    <3>1. Sock!socket_option["linger"] = 13 /\ "linger" \in Sock!Option
      BY NumberOf, OptionNames
    <3> QED
      BY <2>2, <2>3, <2>5, <2>6, <3>1
  <2>8. OptionsInEffect'
    <3> SUFFICES ASSUME NEW q \in Sock!Option
                 PROVE  IF want'[q] = {}
                          THEN opts'[Sock!socket_option[q]] =
                                 Sock!Default(Sock!socket_option[q])
                          ELSE \A w \in want'[q] :
                                 Sock!Means(q, w, opts'[Sock!socket_option[q]])
      BY DEF OptionsInEffect, Sock!InEffect
    <3>1. CASE q = o
      BY <2>3, <2>5, <3>1
    <3>2. CASE q # o
      BY <2>6, <3>2 DEF Optioned, OptionsInEffect, Sock!InEffect
    <3> QED
      BY <3>1, <3>2
  <2> QED
    BY <2>4, <2>7, <2>8 DEF Optioned
<1> QED
  BY <1>1, <1>2

(* Every option of the socket is what the program last set it to without an  *)
(* error, whatever values the program uses and in whatever order it sets     *)
(* them, at any level.  l_onoff is 0 or 1, as every constructor of           *)
(* socket_linger but the one from a ::linger leaves it: for another value    *)
(* the kernel lingers where socket_linger::enabled() says that it does not.  *)
THEOREM OptionsTakeEffect ==
  ASSUME OnOff \subseteq {0, 1}
  PROVE  SSpec => []OptionsInEffect
<1>1. SInit => Optioned
  BY InitOptioned DEF SInit
<1>2. Optioned /\ [SNext]_svars => Optioned'
  <2> SUFFICES ASSUME Optioned, [SNext]_svars PROVE Optioned'
    OBVIOUS
  <2>1. CASE UNCHANGED <<opts, want>>
    BY <2>1 DEF Optioned, OptionsInEffect, Sock!InEffect
  <2>2. CASE Sock!Next
    BY <2>1, <2>2, SetOptioned DEF Sock!Next, Sock!SetFails
  <2> QED
    BY <2>1, <2>2 DEF SNext, svars
<1>3. Optioned => OptionsInEffect
  BY DEF Optioned
<1> QED
  BY <1>1, <1>2, <1>3, PTL DEF SSpec
===============================================================================

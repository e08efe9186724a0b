----------------------------- MODULE FlagsProofs -----------------------------
(* Theorems about Flags, for every set of functions and of permission        *)
(* literals, of any length and over any characters.                          *)
EXTENDS Flags, TLAPS

(* The argument of each function is of its flag type.                        *)
LEMMA EnumOf ==
  /\ DOMAIN Enum = {"open", "open_permission", "map_protection", "protect",
                    "map_flags", "epoll_modify", "mq_open", "mq_open_create",
                    "mq_setattr", "permission"}
  /\ Enum["open"] = OpenFlag /\ Enum["open_permission"] = OpenFlag
  /\ Enum["map_protection"] = MmapProtection /\ Enum["protect"] = MmapProtection
  /\ Enum["map_flags"] = MmapFlag /\ Enum["epoll_modify"] = EpollEventFlag
  /\ Enum["mq_open"] = MqOption /\ Enum["mq_open_create"] = MqOption
  /\ Enum["mq_setattr"] = MqOption /\ Enum["permission"] = Permissions
BY DEF Enum

(* A combination has the bits of the flags that were written, and the        *)
(* compiler has said of it what the assertions say.                          *)
Combined ==
  /\ op \in Op
  /\ names \subseteq DOMAIN Enum[op]
  /\ \A b : b \in flags <=> \E n \in names : b \in Enum[op][n]
  /\ stage \in {"building", "accepted", "rejected"}
  /\ stage = "accepted" => Accepts(op)
  /\ stage = "rejected" => ~Accepts(op)

(* An expression begins with one flag. *)
LEMMA InitCombined == Init => Combined
BY DEF Init, Combined

(* The assertions see nothing but the flags. *)
LEMMA SameFlags == flags' = flags /\ op' = op => (Accepts(op)' <=> Accepts(op))
BY DEF Accepts, FileAccepts, MmapAccepts, EpollModifyAccepts, MqAccepts,
       ExclHasCreat, has

(* Combining a flag adds its bits, whichever it shares with the others. *)
LEMMA StepCombined == Combined /\ [Next]_vars => Combined'
<1> SUFFICES ASSUME Combined, [Next]_vars PROVE Combined'
  OBVIOUS
<1>1. ASSUME NEW n \in DOMAIN Enum[op], Or(n) PROVE Combined'
  <2>1. /\ names' = names \cup {n} /\ flags' = flags \cup Enum[op][n]
        /\ op' = op /\ stage' = "building"
    BY <1>1 DEF Or
  <2>2. \A b : b \in flags' <=> \E m \in names' : b \in Enum[op][m]
    BY <2>1 DEF Combined
  <2> QED
    BY <2>1, <2>2 DEF Combined
<1>2. CASE Compile
  <2>1. /\ flags' = flags /\ op' = op /\ names' = names
        /\ stage' = IF Accepts(op) THEN "accepted" ELSE "rejected"
    BY <1>2 DEF Compile
  <2> QED
    BY <2>1, SameFlags DEF Combined
<1>3. CASE UNCHANGED vars
  BY <1>3, SameFlags DEF Combined, vars
<1> QED
  BY <1>1, <1>2, <1>3 DEF Next

(* Combined holds of every expression. *)
LEMMA AlwaysCombined == Spec => []Combined
BY InitCombined, StepCombined, PTL DEF Spec
-----------------------------------------------------------------------------
(* Which flags have the bits that the assertions ask for.  The assertions    *)
(* only ask for flags of one bit, which no other flag of the type has.       *)
LEMMA OpenBits ==
  /\ "excl" \in DOMAIN OpenFlag /\ "creat" \in DOMAIN OpenFlag
  /\ OpenFlag.excl = {7} /\ OpenFlag.creat = {6}
  /\ \A n \in DOMAIN OpenFlag : /\ 7 \in OpenFlag[n] <=> n = "excl"
                                /\ 6 \in OpenFlag[n] <=> n = "creat"
BY DEF OpenFlag

(* The flags of mmap::map. *)
LEMMA MmapBits ==
  /\ "private" \in DOMAIN MmapFlag /\ "shared" \in DOMAIN MmapFlag
  /\ MmapFlag.private = {1} /\ MmapFlag.shared = {0}
  /\ \A n \in DOMAIN MmapFlag : /\ 1 \in MmapFlag[n] <=> n = "private"
                                /\ 0 \in MmapFlag[n] <=> n = "shared"
BY DEF MmapFlag

(* The events of epoll_modify. *)
LEMMA EpollBits ==
  /\ EpollEventFlag.exclusive = {28}
  /\ \A n \in DOMAIN EpollEventFlag : 28 \in EpollEventFlag[n] <=> n = "exclusive"
BY DEF EpollEventFlag

(* The options of message queues. *)
LEMMA MqBits ==
  /\ MqOption.mq_excl = {7}
  /\ \A n \in DOMAIN MqOption : 7 \in MqOption[n] <=> n = "mq_excl"
BY DEF MqOption

(* has of a bit that only one flag of the type has says whether that flag    *)
(* was written.                                                              *)
LEMMA HasBit ==
  ASSUME Combined, NEW b, NEW value, value = {b}, NEW flag,
         \A n \in DOMAIN Enum[op] : b \in Enum[op][n] <=> n = flag
  PROVE  has(value) <=> flag \in names
<1>1. has(value) <=> b \in flags
  BY DEF has
<1>2. /\ names \subseteq DOMAIN Enum[op]
      /\ b \in flags <=> \E n \in names : b \in Enum[op][n]
  BY DEF Combined
<1> QED
  BY <1>1, <1>2

(* The functions whose assertions can do what their messages say: not        *)
(* mmap::map and mmap::protect, which ask for a protection without bits, and *)
(* not mq::open(name, mode, flags), which compares the flags as a whole.     *)
Sayable == {"open", "open_permission", "map_flags", "epoll_modify",
            "mq_open_create", "mq_setattr", "permission"}

(* They accept a combination exactly if its flags are not forbidden.         *)
LEMMA AcceptsExactly ==
  ASSUME Combined, op \in Sayable
  PROVE  Accepts(op) <=> ~Forbidden(op)
<1>1. CASE op \in {"open", "open_permission"}
  <2>1. Enum[op] = OpenFlag
    BY <1>1, EnumOf
  <2>2. has(OpenFlag.excl) <=> "excl" \in names
    <3>1. OpenFlag.excl = {7} /\ \A n \in DOMAIN Enum[op] : 7 \in Enum[op][n] <=> n = "excl"
      BY <2>1, OpenBits
    <3> QED
      BY <3>1, HasBit
  <2>3. has(OpenFlag.creat) <=> "creat" \in names
    <3>1. OpenFlag.creat = {6} /\ \A n \in DOMAIN Enum[op] : 6 \in Enum[op][n] <=> n = "creat"
      BY <2>1, OpenBits
    <3> QED
      BY <3>1, HasBit
  <2>4. Accepts(op) <=> FileAccepts(op)
    BY <1>1 DEF Accepts
  <2> QED
    BY <1>1, <2>2, <2>3, <2>4 DEF FileAccepts, ExclHasCreat, Forbidden
<1>2. CASE op = "map_flags"
  <2>1. Enum[op] = MmapFlag
    BY <1>2, EnumOf
  <2>2. has(MmapFlag.private) <=> "private" \in names
    <3>1. MmapFlag.private = {1} /\ \A n \in DOMAIN Enum[op] : 1 \in Enum[op][n] <=> n = "private"
      BY <2>1, MmapBits
    <3> QED
      BY <3>1, HasBit
  <2>3. has(MmapFlag.shared) <=> "shared" \in names
    <3>1. MmapFlag.shared = {0} /\ \A n \in DOMAIN Enum[op] : 0 \in Enum[op][n] <=> n = "shared"
      BY <2>1, MmapBits
    <3> QED
      BY <3>1, HasBit
  <2>4. Accepts(op) <=> MmapAccepts(op)
    BY <1>2 DEF Accepts
  <2> QED
    BY <1>2, <2>2, <2>3, <2>4 DEF MmapAccepts, Forbidden
<1>3. CASE op = "epoll_modify"
  <2>1. Enum[op] = EpollEventFlag
    BY <1>3, EnumOf
  <2>2. has(EpollEventFlag.exclusive) <=> "exclusive" \in names
    <3>1. EpollEventFlag.exclusive = {28} /\ \A n \in DOMAIN Enum[op] : 28 \in Enum[op][n] <=> n = "exclusive"
      BY <2>1, EpollBits
    <3> QED
      BY <3>1, HasBit
  <2>3. Accepts(op) <=> EpollModifyAccepts
    BY <1>3 DEF Accepts
  <2> QED
    BY <1>3, <2>2, <2>3 DEF EpollModifyAccepts, Forbidden
<1>4. CASE op \in {"mq_open_create", "mq_setattr"}
  <2>1. Enum[op] = MqOption
    BY <1>4, EnumOf
  <2>2. has(MqOption.mq_excl) <=> "mq_excl" \in names
    <3>1. MqOption.mq_excl = {7} /\ \A n \in DOMAIN Enum[op] : 7 \in Enum[op][n] <=> n = "mq_excl"
      BY <2>1, MqBits
    <3> QED
      BY <3>1, HasBit
  <2>3. Accepts(op) <=> MqAccepts(op)
    BY <1>4 DEF Accepts
  <2> QED
    BY <1>4, <2>2, <2>3 DEF MqAccepts, Forbidden
<1>5. CASE op = "permission"
  BY <1>5 DEF Accepts, Forbidden
<1> QED
  BY <1>1, <1>2, <1>3, <1>4, <1>5 DEF Sayable

(* The static_asserts of file::open, mmap::map (flags), epoll_modify,        *)
(* mq::setattr and mq::open with mq_create_queue accept a combination        *)
(* exactly if their messages do, in whatever order and however often its     *)
(* flags are written.                                                        *)
THEOREM AssertionsSayWhatTheyCheck ==
  ASSUME Op \subseteq Sayable
  PROVE  Spec => []MessagesKept
<1>1. Combined => MessagesKept
  <2> SUFFICES ASSUME Combined PROVE MessagesKept
    OBVIOUS
  <2>1. op \in Sayable
    BY DEF Combined
  <2> QED
    BY <2>1, AcceptsExactly DEF Combined, MessagesKept
<1> QED
  BY <1>1, AlwaysCombined, PTL
-----------------------------------------------------------------------------
(* The permissions, by class and right. *)
LEMMA BitOf ==
  /\ Class = {"user", "group", "other"}
  /\ DOMAIN Letters = {"read", "write", "execute"}
  /\ Letters["read"] = {"r", "R"} /\ Letters["write"] = {"w", "W"}
  /\ Letters["execute"] = {"x", "X"}
  /\ Bit["user"]["read"] = 8 /\ Bit["user"]["write"] = 7 /\ Bit["user"]["execute"] = 6
  /\ Bit["group"]["read"] = 5 /\ Bit["group"]["write"] = 4 /\ Bit["group"]["execute"] = 3
  /\ Bit["other"]["read"] = 2 /\ Bit["other"]["write"] = 1 /\ Bit["other"]["execute"] = 0
BY DEF Class, Bit, Letters

(* No two permissions share a bit. *)
LEMMA OwnBit ==
  ASSUME NEW c \in Class, NEW k \in Class, NEW r \in DOMAIN Letters,
         NEW q \in DOMAIN Letters, Bit[c][r] = Bit[k][q]
  PROVE  c = k /\ r = q
BY BitOf

(* A character stands for the right whose letter it is. *)
LEMMA CharMeans ==
  ASSUME NEW c, NEW class \in Class, NEW k \in Class, NEW right \in DOMAIN Letters
  PROVE  Bit[k][right] \in char_to_permission(c, class)
           <=> k = class /\ c \in Letters[right]
<1>0. char_to_permission(c, class) =
        CASE c \in {"R", "r"} -> {Bit[class]["read"]}
          [] c \in {"W", "w"} -> {Bit[class]["write"]}
          [] c \in {"X", "x"} -> {Bit[class]["execute"]}
          [] OTHER -> {}
  BY DEF char_to_permission, None
<1>1. CASE c \in {"R", "r"}
  <2>1. char_to_permission(c, class) = {Bit[class]["read"]}
    BY <1>0, <1>1
  <2>2. c \in Letters[right] <=> right = "read"
    BY <1>1, BitOf
  <2> QED
    BY <2>1, <2>2, BitOf
<1>2. CASE c \in {"W", "w"}
  <2>1. char_to_permission(c, class) = {Bit[class]["write"]}
    BY <1>0, <1>2
  <2>2. c \in Letters[right] <=> right = "write"
    BY <1>2, BitOf
  <2> QED
    BY <2>1, <2>2, BitOf
<1>3. CASE c \in {"X", "x"}
  <2>1. char_to_permission(c, class) = {Bit[class]["execute"]}
    BY <1>0, <1>3
  <2>2. c \in Letters[right] <=> right = "execute"
    BY <1>3, BitOf
  <2> QED
    BY <2>1, <2>2, BitOf
<1>4. CASE c \notin {"R", "r", "W", "w", "X", "x"}
  <2>1. char_to_permission(c, class) = {}
    BY <1>0, <1>4
  <2>2. c \notin Letters[right]
    BY <1>4, BitOf
  <2> QED
    BY <2>1, <2>2
<1> QED
  BY <1>1, <1>2, <1>3, <1>4

(* The constants have all three bits of their class and no other. *)
LEMMA AllMeans ==
  ASSUME NEW class \in Class, NEW k \in Class, NEW right \in DOMAIN Letters
  PROVE  Bit[k][right] \in All[class] <=> k = class
<1>1. /\ All["user"] = {6, 7, 8} /\ All["group"] = {3, 4, 5} /\ All["other"] = {0, 1, 2}
  BY DEF All
<1> QED
  BY <1>1, BitOf

(* A literal has the bits of its letters, however many characters it has.    *)
LEMMA LiteralMeans ==
  ASSUME NEW class \in Class, NEW text \in Text \cup {<<"all">>},
         NEW k \in Class, NEW right \in DOMAIN Letters
  PROVE  Bit[k][right] \in Literal(class, text)
           <=> /\ class = k
               /\ \E i \in DOMAIN text : text[i] \in Letters[right] \cup {"all"}
<1>1. CASE text = <<"all">>
  <2>1. 1 \in DOMAIN text /\ text[1] = "all"
    BY <1>1
  <2>2. Literal(class, text) = All[class]
    BY <1>1 DEF Literal
  <2> QED
    BY <2>1, <2>2, AllMeans
<1>2. CASE text # <<"all">>
  <2>1. \A i \in DOMAIN text : text[i] # "all"
    BY <1>2, TextAssumption
  <2>2. Literal(class, text) = UNION {char_to_permission(text[i], class) : i \in DOMAIN text}
    BY <1>2 DEF Literal, str_to_permission
  <2>3. Bit[k][right] \in Literal(class, text)
          <=> \E i \in DOMAIN text : Bit[k][right] \in char_to_permission(text[i], class)
    BY <2>2
  <2>4. \A i \in DOMAIN text : Bit[k][right] \in char_to_permission(text[i], class)
          <=> k = class /\ text[i] \in Letters[right]
    BY CharMeans
  <2> QED
    BY <2>1, <2>3, <2>4
<1> QED
  BY <1>1, <1>2

(* A combination of permission literals (a capi::permission, which is not    *)
(* the permission<> of file::open) has a bit exactly if some literal of that *)
(* class has the letter, or its "all" constant is written, for literals of   *)
(* any length over any characters, in any combination.                       *)
THEOREM PermissionsSayWhatTheyMean == Spec => []SaysWhatItMeans
<1>1. Combined => SaysWhatItMeans
  <2> SUFFICES ASSUME Combined, op = "permission",
                      NEW class \in Class, NEW right \in DOMAIN Letters
               PROVE  Bit[class][right] \in flags <=>
                        \E n \in names :
                          /\ n[1] = class
                          /\ \E i \in DOMAIN n[2] :
                               n[2][i] \in Letters[right] \cup {"all"}
    BY DEF SaysWhatItMeans
  <2>1. Enum[op] = [n \in Class \X (Text \cup {<<"all">>}) |-> Literal(n[1], n[2])]
    BY EnumOf DEF Permissions
  <2>2. /\ names \subseteq Class \X (Text \cup {<<"all">>})
        /\ \A n \in names : Enum[op][n] = Literal(n[1], n[2])
    BY <2>1 DEF Combined
  <2>3. Bit[class][right] \in flags
          <=> \E n \in names : Bit[class][right] \in Literal(n[1], n[2])
    BY <2>2 DEF Combined
  <2>4. \A n \in names :
          Bit[class][right] \in Literal(n[1], n[2])
            <=> /\ n[1] = class
                /\ \E i \in DOMAIN n[2] : n[2][i] \in Letters[right] \cup {"all"}
    <3> TAKE n \in names
    <3>1. n[1] \in Class /\ n[2] \in Text \cup {<<"all">>}
      BY <2>2
    <3> QED
      BY <3>1, LiteralMeans
  <2> QED
    BY <2>3, <2>4
<1> QED
  BY <1>1, AlwaysCombined, PTL

(* Every literal has bits of a mode_t only. *)
LEMMA LiteralBits ==
  ASSUME NEW class \in Class, NEW text
  PROVE  Literal(class, text) \subseteq 0 .. 31
<1>1. All[class] \subseteq 0 .. 31
  BY BitOf DEF All
<1>2. \A c : char_to_permission(c, class) \subseteq 0 .. 31
  <2> TAKE c
  <2>1. char_to_permission(c, class) \in {{Bit[class]["read"]}, {Bit[class]["write"]},
                                         {Bit[class]["execute"]}, {}}
    BY DEF char_to_permission, None
  <2> QED
    BY <2>1, BitOf
<1>3. str_to_permission(text, class) \subseteq 0 .. 31
  BY <1>2 DEF str_to_permission
<1> QED
  BY <1>1, <1>3 DEF Literal

(* No combination has a bit that the integer behind the flag type has not,   *)
(* and every flag of it is one of its type.                                  *)
THEOREM FlagsTyping == Spec => []TypeOK
<1>1. \A f \in DOMAIN Enum : \A n \in DOMAIN Enum[f] : Enum[f][n] \subseteq 0 .. 31
  <2>1. /\ \A n \in DOMAIN OpenFlag : OpenFlag[n] \subseteq 0 .. 31
        /\ \A n \in DOMAIN MmapProtection : MmapProtection[n] \subseteq 0 .. 31
        /\ \A n \in DOMAIN MmapFlag : MmapFlag[n] \subseteq 0 .. 31
        /\ \A n \in DOMAIN EpollEventFlag : EpollEventFlag[n] \subseteq 0 .. 31
        /\ \A n \in DOMAIN MqOption : MqOption[n] \subseteq 0 .. 31
    BY DEF OpenFlag, MmapProtection, MmapFlag, EpollEventFlag, MqOption
  <2>2. \A n \in DOMAIN Permissions : Permissions[n] \subseteq 0 .. 31
    BY LiteralBits DEF Permissions
  <2> QED
    BY <2>1, <2>2, EnumOf
<1>2. Combined => TypeOK
  BY <1>1, OpAssumption DEF Combined, TypeOK
<1> QED
  BY <1>2, AlwaysCombined, PTL
=============================================================================

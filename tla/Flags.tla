-------------------------------- MODULE Flags --------------------------------
(***************************************************************************)
(* The flag types of pposix (enum_flag of include/pposix/util.hpp) and the *)
(* static_asserts with which the typed functions refuse a combination.     *)
(*                                                                         *)
(* A flag is the set of bits it has on Linux; operator| is union.  A step  *)
(* of the model is a step of the compiler's evaluation of one expression:  *)
(* flags are combined by name, then given to a function whose              *)
(* static_asserts accept the value or not.  names is history: what the     *)
(* programmer wrote; the code only has the bits.                           *)
(***************************************************************************)
EXTENDS Permission

CONSTANTS
  Op,    \* the functions that flags are given to
  Text   \* the texts of the permission literals that are written

OpenFlag == [cloexec |-> {19}, creat |-> {6}, directory |-> {16}, excl |-> {7},
             noctty |-> {8}, nofollow |-> {17}, truncate |-> {9}, append |-> {10},
             nonblock |-> {11}, dsync |-> {12}, sync |-> {12, 20},
             rsync |-> {12, 20}, rdonly |-> {}]

MmapProtection == [no_access |-> {}, read |-> {0}, write |-> {1}, execute |-> {2}]

MmapFlag == [shared |-> {0}, private |-> {1}, fixed |-> {4}]

EpollEventFlag == [read_available |-> {0}, fd_exception |-> {1},
                   write_available |-> {2}, fd_error |-> {3}, fd_hup |-> {4},
                   socket_closed |-> {13}, exclusive |-> {28}, wakeup |-> {29},
                   one_shot |-> {30}, edge_triggered |-> {31}]

MqOption == [mq_excl |-> {7}, mq_non_blocking |-> {11}]

(* The permission literals.  They are values of capi::permission, which    *)
(* has an operator| of its own (stat.hpp:39); file::open takes             *)
(* permission<> and cannot be given one.                                   *)
Permissions == [n \in Class \X (Text \cup {<<"all">>}) |-> Literal(n[1], n[2])]

(* Every function, with the flag type it takes. *)
Enum == [open |-> OpenFlag, open_permission |-> OpenFlag,
         map_protection |-> MmapProtection, protect |-> MmapProtection,
         map_flags |-> MmapFlag, epoll_modify |-> EpollEventFlag,
         mq_open |-> MqOption, mq_open_create |-> MqOption,
         mq_setattr |-> MqOption, permission |-> Permissions]

ASSUME OpAssumption == Op \subseteq DOMAIN Enum

(* A literal is made of characters, none of which is the name of a constant. *)
ASSUME TextAssumption == \A text \in Text : \A i \in DOMAIN text : text[i] # "all"

VARIABLES
  op,      \* the function the expression is an argument of
  names,   \* the flags combined so far, by name
  flags,   \* and the bits of their combination
  stage    \* "building", "accepted" or "rejected"

vars == <<op, names, flags, stage>>

TypeOK ==
  /\ op \in Op
  /\ names \subseteq DOMAIN Enum[op]
  /\ flags \subseteq 0 .. 31
  /\ stage \in {"building", "accepted", "rejected"}

Init ==
  /\ op \in Op
  /\ \E n \in DOMAIN Enum[op] : names = {n} /\ flags = Enum[op][n]
  /\ stage = "building"

Or_KeepsRight(n) ==
  /\ stage = "building"
  /\ names' = names \cup {n}
  /\ flags' = Enum[op][n]
  /\ UNCHANGED <<op, stage>>

Or_Adds(n) ==
  /\ stage = "building"
  /\ names' = names \cup {n}
  /\ flags' = (flags \ Enum[op][n]) \cup (Enum[op][n] \ flags)
                 \cup {b + 1 : b \in flags \cap Enum[op][n]}
  /\ UNCHANGED <<op, stage>>

(* operator|(enum_flag<Enum, Lhs>, enum_flag<Enum, Rhs>), and that of      *)
(* capi::permission.                                                       *)
Or(n) ==
  /\ stage = "building"
  /\ names' = names \cup {n}
  /\ flags' = flags \cup Enum[op][n]
  /\ UNCHANGED <<op, stage>>

(* enum_flag::has : the flags and the value have a bit in common. *)
has(value) == flags \cap value # {}

(* The static_asserts of file::open, without and with a permission; *)
ExclHasCreat == has(OpenFlag.excl) => has(OpenFlag.creat)

FileAccepts(f) == ExclHasCreat /\ (f = "open" => ~has(OpenFlag.creat))

(* of mmap::map and mmap::protect; *)
MmapAccepts(f) ==
  IF f = "map_flags"
  THEN ~(has(MmapFlag.private) /\ has(MmapFlag.shared))
  ELSE ~(/\ has(MmapProtection.no_access)
         /\ \/ has(MmapProtection.read)
            \/ has(MmapProtection.write)
            \/ has(MmapProtection.execute))

(* of the constructors of epoll_modify; *)
EpollModifyAccepts == ~has(EpollEventFlag.exclusive)

(* of mq::open, whose first check compares the flags as a whole, and       *)
(* mq::setattr.                                                            *)
MqAccepts(f) ==
  /\ f = "mq_open" => flags # MqOption.mq_excl
  /\ f = "mq_setattr" => ~has(MqOption.mq_excl)

Accepts(f) ==
  CASE f \in {"open", "open_permission"} -> FileAccepts(f)
    [] f \in {"map_protection", "protect", "map_flags"} -> MmapAccepts(f)
    [] f = "epoll_modify" -> EpollModifyAccepts
    [] f \in {"mq_open", "mq_open_create", "mq_setattr"} -> MqAccepts(f)
    [] f = "permission" -> TRUE

Compile ==
  /\ stage = "building"
  /\ stage' = IF Accepts(op) THEN "accepted" ELSE "rejected"
  /\ UNCHANGED <<op, names, flags>>

Next == Compile \/ \E n \in DOMAIN Enum[op] : Or(n)

Spec == Init /\ [][Next]_vars
-----------------------------------------------------------------------------
(* What the messages of the static_asserts say must not be written.        *)
Forbidden(f) ==
  CASE f = "open" -> "creat" \in names \/ "excl" \in names
    [] f = "open_permission" -> "excl" \in names /\ "creat" \notin names
    [] f \in {"map_protection", "protect"} ->
         "no_access" \in names /\ names # {"no_access"}
    [] f = "map_flags" -> {"private", "shared"} \subseteq names
    [] f = "epoll_modify" -> "exclusive" \in names
    [] f \in {"mq_open", "mq_setattr"} -> "mq_excl" \in names
    [] f \in {"mq_open_create", "permission"} -> FALSE

(* The static_asserts let through exactly the combinations that their      *)
(* messages allow, in whatever order and company the flags are written:    *)
(* overlapping flags (O_SYNC contains O_DSYNC) and flags without bits do   *)
(* not confuse them.                                                       *)
MessagesKept ==
  /\ stage = "accepted" => ~Forbidden(op)
  /\ stage = "rejected" => Forbidden(op)

Letters == [read |-> {"r", "R"}, write |-> {"w", "W"}, execute |-> {"x", "X"}]

(* A combination of permission literals, a capi::permission made with the  *)
(* operator| of stat.hpp:39 (file::open takes permission<> and cannot be   *)
(* given it), has a bit if and only if some literal of that class has the  *)
(* letter, in either case, wherever it stands and however often, whatever  *)
(* other characters and literals there are, or the class's "all" constant  *)
(* is written.                                                             *)
SaysWhatItMeans ==
  op = "permission" =>
    \A class \in Class : \A right \in DOMAIN Letters :
      Bit[class][right] \in flags <=>
        \E n \in names : /\ n[1] = class
                         /\ \E i \in DOMAIN n[2] : n[2][i] \in Letters[right] \cup {"all"}
=============================================================================

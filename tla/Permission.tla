----------------------------- MODULE Permission -----------------------------
(***************************************************************************)
(* The permission literals of include/pposix/stat.hpp, "rw"_user and so    *)
(* on, as the compiler evaluates them.  A permission is the set of its     *)
(* bits in a mode_t; a literal is its suffix and its characters.           *)
(***************************************************************************)
EXTENDS Integers, Sequences

None == {}

(* capi::permission: S_IRUSR and its companions, *)
Bit == [user  |-> [read |-> 8, write |-> 7, execute |-> 6],
        group |-> [read |-> 5, write |-> 4, execute |-> 3],
        other |-> [read |-> 2, write |-> 1, execute |-> 0]]

(* and user_all, group_all, other_all. *)
All == [user |-> {6, 7, 8}, group |-> {3, 4, 5}, other |-> {0, 1, 2}]

Class == DOMAIN Bit

(* detail::char_to_permission<Read, Write, Execute> *)
char_to_permission(c, class) ==
  CASE c \in {"R", "r"} -> {Bit[class].read}
    [] c \in {"W", "w"} -> {Bit[class].write}
    [] c \in {"X", "x"} -> {Bit[class].execute}
    [] OTHER -> None

str_to_permission_Assigns(text, class) ==
  IF text = <<>> THEN None ELSE char_to_permission(text[Len(text)], class)

(* detail::str_to_permission: p |= char_to_permission(c) for each c. *)
str_to_permission(text, class) ==
  UNION {char_to_permission(text[i], class) : i \in DOMAIN text}

(* operator"" _user, _group, _other, and the constants, which are written  *)
(* here as the text <<"all">>.                                             *)
Literal(class, text) ==
  IF text = <<"all">> THEN All[class] ELSE str_to_permission(text, class)
=============================================================================

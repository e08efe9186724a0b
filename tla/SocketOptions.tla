---------------------------- MODULE SocketOptions ----------------------------
(***************************************************************************)
(* The options of a socket (include/pposix/socket.hpp, src/socket.cpp).    *)
(* Each overload of socket::setsockopt takes a type of its own, turns it   *)
(* into the number of an option and some bytes, and hands both to          *)
(* ::setsockopt, which knows only level, number, bytes and their length.   *)
(* want is history: what the program asked for and was told it has got.    *)
(*                                                                         *)
(* The typed getsockopt cannot be instantiated; options are read with      *)
(* unsafe_getsockopt, whose lengths are the subject of Span.               *)
(***************************************************************************)
EXTENDS Integers

CONSTANTS
  Size,     \* values of socket_sndbuf, socket_rcvbuf and the low-water marks
  Seconds,  \* values of pposix::seconds
  OnOff,    \* values of ::linger::l_onoff that programs use
  MaxSet    \* bound: calls of setsockopt in a behaviour

(* enum class socket_option, the options that can be set. *)
socket_option ==
  [debug |-> 1, reuseaddr |-> 2, dontroute |-> 5, broadcast |-> 6, sndbuf |-> 7,
   rcvbuf |-> 8, keepalive |-> 9, oobinline |-> 10, linger |-> 13,
   rcvlowat |-> 18, sndlowat |-> 19, rcvtimeo |-> 20, sndtimeo |-> 21]

(* enum class socket_level; ip, ipv6, icmp, raw and udp are as tcp. *)
socket_level == {"socket", "tcp"}

Option == DOMAIN socket_option
Number == {socket_option[o] : o \in Option}

Switch == {"debug", "broadcast", "reuseaddr", "keepalive", "oobinline", "dontroute"}
Amount == {"sndbuf", "rcvbuf", "rcvlowat", "sndlowat"}
Timeout == {"rcvtimeo", "sndtimeo"}

(* The values of the types socket_debug ... socket_sndtimeo.  Half a       *)
(* second is a multiple of every clock tick; 10^6 is not a microsecond.    *)
Linger == [l_onoff : OnOff, l_linger : Seconds \cap Nat]
Timeval == [tv_sec : Seconds, tv_usec : {0, 500000, 1000000}]
Values(o) == CASE o \in Switch -> BOOLEAN
               [] o \in Amount -> Size
               [] o = "linger" -> Linger
               [] o \in Timeout -> Timeval

VARIABLES
  opts,   \* kernel: the value of each number at level "socket"
  sets,   \* calls so far
  want    \* history: the value asked for at level "socket", {} if none

vars == <<opts, sets, want>>

(* The kernel's value for a number that nobody has set. *)
Default(n) ==
  CASE n = socket_option.linger -> [l_onoff |-> 0, l_linger |-> 0]
    [] n \in {socket_option[o] : o \in Timeout} -> [tv_sec |-> 0, tv_usec |-> 0]
    [] OTHER -> 0

Init ==
  /\ opts = [n \in Number |-> Default(n)]
  /\ sets = 0
  /\ want = [o \in Option |-> {}]
-----------------------------------------------------------------------------
(* ::setsockopt *)

sizeof == [int |-> 4, linger |-> 8, timeval |-> 16]
NeededLength(n) ==
  CASE n = socket_option.linger -> sizeof.linger
    [] n \in {socket_option[o] : o \in Timeout} -> sizeof.timeval
    [] OTHER -> sizeof.int

(* EINVAL, EDOM, ENOPROTOOPT.  Any call may also fail for other reasons:   *)
(* EBADF on an empty socket, EACCES.                                       *)
KRefuses(n, data, len) ==
  \/ len < NeededLength(n)
  \/ n = socket_option.sndlowat
  \/ /\ n \in {socket_option[o] : o \in Timeout}
     /\ data.tv_usec >= 1000000

(* What the kernel keeps. *)
KKeeps(n, data) ==
  CASE n \in {socket_option[o] : o \in Switch} -> IF data # 0 THEN 1 ELSE 0
    [] n \in {socket_option.sndbuf, socket_option.rcvbuf} -> 2 * data
    [] n = socket_option.rcvlowat -> IF data = 0 THEN 1 ELSE data
    [] n = socket_option.linger ->
         IF data.l_onoff # 0
           THEN [l_onoff |-> 1, l_linger |-> data.l_linger]
           ELSE [opts[n] EXCEPT !.l_onoff = 0]
    [] n \in {socket_option[o] : o \in Timeout} ->
         IF data.tv_sec < 0 THEN [tv_sec |-> 0, tv_usec |-> 0] ELSE data
    [] OTHER -> data

(* At another level a number is another option (1 at level tcp is          *)
(* TCP_NODELAY), with checks and a value of its own.                       *)
KSet(l, n, data, len) ==
  \/ /\ l = "socket"
     /\ ~KRefuses(n, data, len)
     /\ opts' = [opts EXCEPT ![n] = KKeeps(n, data)]
  \/ l # "socket" /\ UNCHANGED opts
-----------------------------------------------------------------------------
(* socket *)

unsafe_setsockopt(l, n, data, len) == KSet(l, n, data, len)

setsockopt_int(l, n, i) == unsafe_setsockopt(l, n, i, sizeof.int)

setsockopt_bool(l, n, b) == setsockopt_int(l, n, IF b THEN 1 ELSE 0)

(* The enumerator in the body of each overload that takes a bool or int.   *)
overload_PastedReuseaddr ==
  [debug |-> socket_option.debug, broadcast |-> socket_option.broadcast,
   reuseaddr |-> socket_option.reuseaddr, keepalive |-> socket_option.reuseaddr,
   oobinline |-> socket_option.oobinline, sndbuf |-> socket_option.sndbuf,
   rcvbuf |-> socket_option.rcvbuf, dontroute |-> socket_option.dontroute,
   rcvlowat |-> socket_option.rcvlowat, sndlowat |-> socket_option.sndlowat]

overload ==
  [debug |-> socket_option.debug, broadcast |-> socket_option.broadcast,
   reuseaddr |-> socket_option.reuseaddr, keepalive |-> socket_option.keepalive,
   oobinline |-> socket_option.oobinline, sndbuf |-> socket_option.sndbuf,
   rcvbuf |-> socket_option.rcvbuf, dontroute |-> socket_option.dontroute,
   rcvlowat |-> socket_option.rcvlowat, sndlowat |-> socket_option.sndlowat]

setsockopt_linger(l, v) ==
  unsafe_setsockopt(l, socket_option.linger, v, sizeof.linger)

setsockopt_rcvtimeo(l, v) ==
  unsafe_setsockopt(l, socket_option.rcvtimeo, v, sizeof.timeval)

setsockopt_sndtimeo(l, v) ==
  unsafe_setsockopt(l, socket_option.sndtimeo, v, sizeof.timeval)

(* The overload that the type of v selects. *)
setsockopt(l, o, v) ==
  CASE o \in Switch -> setsockopt_bool(l, overload[o], v)
    [] o \in Amount -> setsockopt_int(l, overload[o], v)
    [] o = "linger" -> setsockopt_linger(l, v)
    [] o = "rcvtimeo" -> setsockopt_rcvtimeo(l, v)
    [] o = "sndtimeo" -> setsockopt_sndtimeo(l, v)

(* The call succeeds, and says so. *)
Set(l, o, v) ==
  /\ sets < MaxSet
  /\ setsockopt(l, o, v)
  /\ sets' = sets + 1
  /\ want' = IF l = "socket" THEN [want EXCEPT ![o] = {v}] ELSE want

(* It fails, says so, and has done nothing. *)
SetFails ==
  /\ sets < MaxSet
  /\ sets' = sets + 1
  /\ UNCHANGED <<opts, want>>

Next ==
  \/ \E l \in socket_level, o \in Option : \E v \in Values(o) : Set(l, o, v)
  \/ SetFails

Spec == Init /\ [][Next]_vars
-----------------------------------------------------------------------------
(* socket_linger::enabled *)
enabled(v) == v.l_onoff = 1

(* Value x of the kernel is what value v of option o means. *)
Means(o, v, x) ==
  CASE o \in Switch -> x = (IF v THEN 1 ELSE 0)
    [] o \in {"sndbuf", "rcvbuf"} -> x = 2 * v
    [] o \in {"rcvlowat", "sndlowat"} -> x = v \/ v = 0
    [] o = "linger" -> /\ enabled(v) <=> x.l_onoff = 1
                       /\ enabled(v) => x.l_linger = v.l_linger
    [] o \in Timeout -> x = v \/ v.tv_sec < 0

(* Every option of the socket is what the program last set it to without   *)
(* an error, and an option that it has not set has its default: no         *)
(* overload sets another option than its type names, at another level, or  *)
(* to another value, and no later call of another overload undoes it.      *)
InEffect ==
  \A o \in Option :
    LET x == opts[socket_option[o]]
    IN IF want[o] = {} THEN x = Default(socket_option[o])
                       ELSE \A v \in want[o] : Means(o, v, x)
=============================================================================

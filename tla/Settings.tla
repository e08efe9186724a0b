------------------------------ MODULE Settings ------------------------------
(***************************************************************************)
(* A process that keeps a log and configures a socket: the settings that   *)
(* pposix changes for it outside its own objects, in libc (Syslog) and in  *)
(* the kernel (SocketOptions), by calls that come in any order.            *)
(***************************************************************************)
EXTENDS Syslog

CONSTANTS Size, Seconds, OnOff, MaxSet

VARIABLES opts, sets, want

Sock == INSTANCE SocketOptions

svars == <<vars, opts, sets, want>>

ASSUME SockAssumption == Size \subseteq Nat /\ Seconds \subseteq Int /\ MaxSet \in Nat

SInit == Init /\ Sock!Init

SNext ==
  \/ Next /\ UNCHANGED <<opts, sets, want>>
  \/ Sock!Next /\ UNCHANGED vars

SSpec == SInit /\ [][SNext]_svars
-----------------------------------------------------------------------------
(* Every option of the socket is what the program last set it to without   *)
(* an error, and an option that it has not set has its default: no         *)
(* overload of socket::setsockopt sets another option than its type names, *)
(* at another level or to another value, and no later call undoes it.      *)
OptionsInEffect == Sock!InEffect
=============================================================================

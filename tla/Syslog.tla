------------------------------- MODULE Syslog -------------------------------
(***************************************************************************)
(* The log of a process (include/pposix/syslog.hpp, src/syslog.cpp): what  *)
(* libc keeps between the calls (a pointer to the identifier, a default    *)
(* facility, a mask), and a program that opens and closes the log, narrows *)
(* the mask and restores it in nested scopes, and logs.                    *)
(*                                                                         *)
(* ::openlog keeps a pointer into the caller's string; how long that       *)
(* string lives is up to the program and not modelled.  Only the overload  *)
(* of syslog with a facility can be called: the one without calls it       *)
(* before it is declared.                                                  *)
(***************************************************************************)
EXTENDS Integers, Sequences

CONSTANTS
  Ident,      \* the strings that the program gives to openlog
  Priority,   \* the priorities the program uses
  Facility,   \* the facilities it uses, as underlying_v / 8; 0 is kernel
  MaxNest     \* bound: scopes that have narrowed the mask

ASSUME PriorityAssumption == Priority \subseteq 0 .. 7
ASSUME FacilityAssumption == Facility \subseteq 0 .. 23
ASSUME MaxNestAssumption == MaxNest \in Nat

NoIdent == "none"
User == 1

VARIABLES
  ident,     \* libc: the string that the log's identifier points into
  LogFacility, \* libc: the facility of messages that name none
  mask,      \* libc: the bits of the mask
  saved,     \* the priority sets that scopes have got from setlogmask
  named,     \* history: the priorities that each scope lets through,
             \* outermost first
  last       \* history: the last message, as asked for and as recorded

vars == <<ident, LogFacility, mask, saved, named, last>>

NoMessage == [asked |-> <<>>, recorded |-> <<>>]

TypeOK ==
  /\ ident \in Ident \cup {NoIdent}
  /\ LogFacility \in (Facility \cup {User}) \ {0}
  /\ mask \subseteq 0 .. 7
  /\ saved \in Seq(SUBSET (0 .. 7)) /\ Len(saved) <= MaxNest
  /\ Len(named) = Len(saved) + 1
  /\ last.asked \in {<<>>} \cup Priority \X Facility
  /\ last.recorded \in {<<>>} \cup (0 .. 7) \X (0 .. 23)

Init ==
  /\ ident = NoIdent
  /\ LogFacility = User
  /\ mask = 0 .. 7
  /\ saved = <<>>
  /\ named = <<0 .. 7>>
  /\ last = NoMessage
-----------------------------------------------------------------------------
(* Both overloads of openlog.  ::openlog keeps the pointer, which is into  *)
(* the caller's own string, and takes facility 0 for "unchanged".          *)
openlog(s, f) ==
  /\ ident' = s
  /\ LogFacility' = IF f = 0 THEN LogFacility ELSE f
  /\ UNCHANGED <<mask, saved, named, last>>

closelog ==
  /\ ident' = NoIdent
  /\ UNCHANGED <<LogFacility, mask, saved, named, last>>
-----------------------------------------------------------------------------
LOG_MASK(p) == {p}

to_mask_OneTooFar(priorities) == UNION {LOG_MASK(p + 1) : p \in priorities}

(* The constructor of syslog_priority_set sets each priority of the list. *)
to_mask(priorities) == UNION {LOG_MASK(p) : p \in priorities}

(* ::setlogmask leaves the mask alone if it is given 0. *)
KMask(bits) == mask' = IF bits = {} THEN mask ELSE bits

(* A scope begins: auto old{setlogmask({...})}.  The set it names may be   *)
(* empty.                                                                  *)
setlogmask(priorities) ==
  /\ Len(saved) < MaxNest
  /\ KMask(to_mask(priorities))
  /\ saved' = Append(saved, mask)
  /\ named' = Append(named, IF priorities = {} THEN named[Len(named)] ELSE priorities)
  /\ UNCHANGED <<ident, LogFacility, last>>

Restore_DropsMask ==
  /\ saved # <<>>
  /\ KMask({})
  /\ saved' = SubSeq(saved, 1, Len(saved) - 1)
  /\ named' = SubSeq(named, 1, Len(named) - 1)
  /\ UNCHANGED <<ident, LogFacility, last>>

(* It ends: setlogmask(old). *)
Restore ==
  /\ saved # <<>>
  /\ KMask(saved[Len(saved)])
  /\ saved' = SubSeq(saved, 1, Len(saved) - 1)
  /\ named' = SubSeq(named, 1, Len(named) - 1)
  /\ UNCHANGED <<ident, LogFacility, last>>
-----------------------------------------------------------------------------
(* ::syslog of a priority and a facility in one word.  Without a facility  *)
(* it uses the default.                                                    *)
KLog(word) ==
  LET p == word % 8
      f == IF word \div 8 = 0 THEN LogFacility ELSE word \div 8
  IN IF p \in mask THEN <<p, f>> ELSE <<>>

syslog_UnshiftedFacility(p, f) ==
  /\ last' = [asked |-> <<p, f>>, recorded |-> KLog(p + f)]
  /\ UNCHANGED <<ident, LogFacility, mask, saved, named>>

(* underlying_v(priority) | underlying_v(facility): no bit in common. *)
syslog(p, f) ==
  /\ last' = [asked |-> <<p, f>>, recorded |-> KLog(p + 8 * f)]
  /\ UNCHANGED <<ident, LogFacility, mask, saved, named>>

Next ==
  \/ \E s \in Ident, f \in Facility : openlog(s, f)
  \/ closelog
  \/ \E priorities \in SUBSET Priority : setlogmask(priorities)
  \/ Restore
  \/ \E p \in Priority, f \in Facility : syslog(p, f)

Spec == Init /\ [][Next]_vars
-----------------------------------------------------------------------------
(* However scopes nest, whatever sets they name, the empty one included,   *)
(* what setlogmask returns restores exactly the mask of the scope outside. *)
MaskRestored ==
  /\ mask = named[Len(named)]
  /\ \A i \in 1 .. Len(saved) : saved[i] = named[i]

(* A message is recorded if and only if the innermost scope lets its       *)
(* priority through, with that priority and with its facility (kernel      *)
(* apart, which ::syslog does not take from programs).                     *)
RecordedAsAsked ==
  [][\A p \in Priority, f \in Facility :
       syslog(p, f) =>
         IF p \in named[Len(named)]
           THEN last'.recorded[1] = p /\ (f # 0 => last'.recorded[2] = f)
           ELSE last'.recorded = <<>>]_vars
=============================================================================

-------------------------------- MODULE Calls --------------------------------
(***************************************************************************)
(* How pposix turns a libc call into a std::error_code or a result<T>:     *)
(* the macros of include/pposix/util.hpp, result.hpp, errno_context and    *)
(* get_errno/set_errno of errno.cpp, and the functions built on them.      *)
(*                                                                         *)
(* errno is per thread, so one thread is modelled.  What can come between  *)
(* a libc call and the read of errno is a signal handler on the same       *)
(* thread; it may run at any point and call pposix functions again.  Its   *)
(* author is taken to bracket it by an errno_context.  frames[1..depth]    *)
(* are the contexts that are alive and the calls in flight, innermost      *)
(* last.                                                                   *)
(***************************************************************************)
EXTENDS Integers

CONSTANTS
  Used,      \* the wrappers the thread calls
  Dirty,     \* shapes whose libc function may change errno and yet succeed
  MaxErrc,   \* bound: error numbers are 1 .. MaxErrc
  MaxDepth   \* bound: contexts and calls alive at once

(***************************************************************************)
(* The wrappers of each source file, with the way each one reports:        *)
(*   common   PPOSIX_COMMON_CALL: error_code, from errno if -1             *)
(*   result   PPOSIX_COMMON_RESULT_CALL_IMPL, _MAP_IMPL or the same by hand *)
(*   checked  as result, after an argument check that may return early     *)
(*   widened  the error_code of PPOSIX_COMMON_CALL returned as a result    *)
(*   sysconf, confstr: by hand, inside an errno_context                    *)
(***************************************************************************)
W(shape, names) == {[name |-> n, shape |-> shape] : n \in names}

FileCalls == W("result", {"lseek", "read", "write"}) \cup W("common", {"close"})

FdCalls == W("common", {"close_fd"})

FcntlCalls == W("common", {"fcntl"}) \cup W("result", {"open"})

SocketCalls ==
  W("result", {"socket::unsafe_make"})
    \cup W("common", {"close_socket", "unsafe_setsockopt"})
    \cup W("checked", {"unsafe_getsockopt"})

EpollCalls ==
  W("result", {"epoll::create"}) \cup W("common", {"epoll::ctl"})
    \cup W("widened", {"epoll::wait", "epoll::pwait"})

MqCalls ==
  W("result", {"mq::unsafe_open", "getattr", "receive", "timed_receive"})
    \cup W("common", {"close_mq_d", "unsafe_send", "unsafe_timed_send",
                      "unlink", "notify"})

MqTypedCalls ==
  W("result", {"mq::open", "setattr"}) \cup W("common", {"send", "timed_send"})

DirentCalls == W("result", {"opendir"}) \cup W("common", {"close_dir"})

IoctlCalls == W("widened", {"ioctl"})

MmanCalls ==
  W("result", {"mmap_map"}) \cup W("common", {"mmap_protect", "close_mmap", "unmap"})

SysconfCalls == W("sysconf", {"sysconf"})

ConfstrCalls == W("confstr", {"confstr_length", "confstr"})

Call == FileCalls \cup FdCalls \cup FcntlCalls \cup SocketCalls \cup EpollCalls
          \cup MqCalls \cup MqTypedCalls \cup DirentCalls \cup IoctlCalls
          \cup MmanCalls \cup SysconfCalls \cup ConfstrCalls

Shape == {"common", "result", "checked", "widened", "sysconf", "confstr"}
InContext == {"sysconf", "confstr"}

ASSUME UsedAssumption == Used \subseteq Call
ASSUME DirtyAssumption == Dirty \subseteq Shape
ASSUME MaxErrcAssumption == MaxErrc \in Nat \ {0}
ASSUME MaxDepthAssumption == MaxDepth \in Nat \ {0}

Errc == 0 .. MaxErrc
Index == 1 .. MaxDepth
ValueTooLarge == MaxErrc   \* std::errc::value_too_large

VARIABLES
  errno,   \* errno of the thread
  frames,  \* contexts and calls, outermost first
  depth,   \* how many of them are alive
  last     \* what the last wrapper that returned reported

vars == <<errno, frames, depth, last>>

(* pc: an errno_context object of the caller, a wrapper that is about to   *)
(* make its libc call, or one that has made it.  failed is the error       *)
(* number of the failure, 0 if it did not fail; minusOne is whether it     *)
(* returned -1.  entry is history: errno when the frame was entered.       *)
Frame == [pc : {"context", "called", "done"}, shape : Shape \cup {"none"},
          minusOne : BOOLEAN, failed : Errc, saved_errno_ : Errc, entry : Errc]

Report == [shape : Shape \cup {"none"}, failed : Errc,
           has_error : BOOLEAN, code : Errc]

TypeOK ==
  /\ errno \in Errc
  /\ frames \in [Index -> Frame]
  /\ depth \in 0 .. MaxDepth
  /\ last \in Report

NoFrame == [pc |-> "context", shape |-> "none", minusOne |-> FALSE,
            failed |-> 0, saved_errno_ |-> 0, entry |-> 0]

Init ==
  /\ errno = 0
  /\ frames = [i \in Index |-> NoFrame]
  /\ depth = 0
  /\ last = [shape |-> "none", failed |-> 0, has_error |-> FALSE, code |-> 0]

Push(fr) ==
  /\ depth < MaxDepth
  /\ depth' = depth + 1
  /\ frames' = [frames EXCEPT ![depth + 1] = fr]

Pop ==
  /\ depth' = depth - 1
  /\ frames' = [frames EXCEPT ![depth] = NoFrame]

Top == frames[depth]

(* Code of the caller runs: no wrapper is in flight, or a handler runs. *)
CallerRuns == depth > 0 => Top.pc = "context"
-----------------------------------------------------------------------------
(* errno_context as the caller, or a signal handler that interrupts the    *)
(* thread anywhere, uses it.                                               *)

OpenContext_ClearsFirst ==
  /\ Push([NoFrame EXCEPT !.saved_errno_ = 0, !.entry = errno])
  /\ errno' = 0
  /\ UNCHANGED last

(* errno_context(): remember errno and clear it. *)
OpenContext ==
  /\ Push([NoFrame EXCEPT !.saved_errno_ = errno, !.entry = errno])
  /\ errno' = 0
  /\ UNCHANGED last

(* restore() *)
Restore ==
  /\ depth > 0 /\ Top.pc = "context"
  /\ errno' = Top.saved_errno_
  /\ UNCHANGED <<frames, depth, last>>

(* ~errno_context() *)
CloseContext ==
  /\ depth > 0 /\ Top.pc = "context"
  /\ errno' = Top.saved_errno_
  /\ Pop
  /\ UNCHANGED last

(* set_errno, or any libc function the caller uses directly. *)
CallerErrno ==
  /\ CallerRuns
  /\ \E e \in Errc : errno' = e
  /\ UNCHANGED <<frames, depth, last>>
-----------------------------------------------------------------------------
(* A wrapper. *)

Begin_KeepsErrno(c) ==
  /\ CallerRuns
  /\ Push([NoFrame EXCEPT !.pc = "called", !.shape = c.shape,
                          !.saved_errno_ = errno, !.entry = errno])
  /\ UNCHANGED <<errno, last>>

(* The wrapper is entered; sysconf and confstr construct their context.    *)
Begin(c) ==
  /\ CallerRuns
  /\ Push([NoFrame EXCEPT !.pc = "called", !.shape = c.shape,
                          !.saved_errno_ = errno, !.entry = errno])
  /\ errno' = IF c.shape \in InContext THEN 0 ELSE errno
  /\ UNCHANGED last

Done(minusOne, failed) ==
  frames' = [frames EXCEPT ![depth] = [@ EXCEPT !.pc = "done",
               !.minusOne = minusOne, !.failed = failed]]

InCall == depth > 0 /\ Top.pc = "called"

(* The libc function fails: -1 and errno (confstr: 0 and errno). *)
LibcFails ==
  /\ InCall
  /\ \E e \in Errc \ {0} : /\ errno' = e
                           /\ Done(Top.shape # "confstr", e)
  /\ UNCHANGED <<depth, last>>

(* It succeeds; what that leaves in errno is unspecified unless its         *)
(* description says otherwise.                                             *)
LibcSucceeds ==
  /\ InCall
  /\ Done(FALSE, 0)
  /\ \E e \in Errc : /\ e = errno \/ Top.shape \in Dirty
                     /\ errno' = e
  /\ UNCHANGED <<depth, last>>

(* ::sysconf has no value to give, which is not an error: -1, errno as it was. *)
SysconfIndeterminate ==
  /\ InCall /\ Top.shape = "sysconf"
  /\ Done(TRUE, 0)
  /\ UNCHANGED <<errno, depth, last>>

(* unsafe_getsockopt rejects a buffer longer than a socklen_t can say.     *)
CheckFails ==
  /\ InCall /\ Top.shape = "checked"
  /\ last' = [shape |-> Top.shape, failed |-> ValueTooLarge,
              has_error |-> TRUE, code |-> ValueTooLarge]
  /\ Pop
  /\ UNCHANGED errno

Value == [has_error |-> FALSE, code |-> 0]
Error(e) == [has_error |-> TRUE, code |-> e]

Outcome_ReturnValueAsCode(shape, minusOne, e) ==
  IF minusOne THEN Error(-1) ELSE Value

(* What the wrapper reports when the libc function returned -1 or not and  *)
(* it reads e in errno.  An error_code tests as an error when it is not 0; *)
(* a result has an error when it was constructed from an error_code, be    *)
(* that 0 or not.                                                          *)
Outcome(shape, minusOne, e) ==
  CASE shape = "common" -> IF minusOne /\ e # 0 THEN Error(e) ELSE Value
    [] shape \in {"result", "checked"} -> IF minusOne THEN Error(e) ELSE Value
    [] shape = "widened" -> Error(IF minusOne THEN e ELSE 0)
    [] shape = "sysconf" -> IF minusOne /\ e # 0 THEN Error(e) ELSE Value
    [] shape = "confstr" -> IF e # 0 THEN Error(e) ELSE Value

(* The wrapper builds what it returns; then its errno_context, if it has   *)
(* one, is destroyed.                                                      *)
Return ==
  /\ depth > 0 /\ Top.pc = "done"
  /\ LET r == Outcome(Top.shape, Top.minusOne, errno) IN
       last' = [shape |-> Top.shape, failed |-> Top.failed,
                has_error |-> r.has_error, code |-> r.code]
  /\ errno' = IF Top.shape \in InContext THEN Top.saved_errno_ ELSE errno
  /\ Pop
-----------------------------------------------------------------------------
Next ==
  \/ OpenContext
  \/ Restore
  \/ CloseContext
  \/ CallerErrno
  \/ \E c \in Used : Begin(c)
  \/ LibcFails
  \/ LibcSucceeds
  \/ SysconfIndeterminate
  \/ CheckFails
  \/ Return

Spec == Init /\ [][Next]_vars
-----------------------------------------------------------------------------
(* Whatever handlers ran between the libc call and the read of errno, and  *)
(* whatever errno was before, the caller learns the truth: there is an     *)
(* error if and only if this very call failed, and the code is the one     *)
(* this call failed with.  (A value that ::sysconf leaves indeterminate is *)
(* no error.)                                                              *)
TellsOutcome ==
  /\ last.has_error <=> last.failed # 0
  /\ last.code = last.failed

(* An errno_context leaves errno as it was when the context was entered,   *)
(* through everything nested in it: the interrupted code, or the caller of *)
(* sysconf and confstr, cannot see that it ran.                            *)
ContextInvisible ==
  [][depth' < depth /\ (Top.pc = "context" \/ Top.shape \in InContext)
       => errno' = Top.entry]_vars
=============================================================================

-------------------------------- MODULE Span --------------------------------
(***************************************************************************)
(* The views through which pposix passes memory: span, cspan, byte_span,   *)
(* char_span and their const forms (one class in the source's words, four  *)
(* times over) and any_view/any_cview, and the calls that hand a view to   *)
(* the kernel or make a new one from what the kernel returned.             *)
(*                                                                         *)
(* A pointer is an offset into a block of memory, or null.  Three fields   *)
(* are history: lo and hi are the part of the block that the program       *)
(* entrusted to the view this one was first derived from, and cut says     *)
(* that it comes from a confstr whose buffer was too short for the name.   *)
(* The slot Kernel stands for the memory that the kernel was last allowed  *)
(* to access.                                                              *)
(***************************************************************************)
EXTENDS Integers

CONSTANTS
  Slot,        \* variables of the program that hold a view
  Kernel,      \* see above
  BlockLen,    \* length of the block of memory
  SizeMod,     \* 2^64: a size_t is taken modulo this
  IntMod,      \* 2^32: the range of int, and of socklen_t
  NameLen      \* what confstr_length reports for the name asked for

ASSUME KernelAssumption == Kernel \notin Slot
ASSUME BlockAssumption == BlockLen \in Nat /\ BlockLen < SizeMod
ASSUME SizeAssumption == SizeMod \in Nat \ {0} /\ IntMod \in Nat \ {0}
ASSUME NameAssumption == NameLen \in 0 .. SizeMod - 1

Size == 0 .. SizeMod - 1
Place == 0 .. BlockLen
Region == {r \in Place \X Place : r[1] <= r[2]}

VARIABLE view
vars == view

View == [kind : {"span", "any"}, null : BOOLEAN, buffer_ : Place, length_ : Size,
         lo : Place, hi : Place, cut : BOOLEAN]

TypeOK == view \in [Slot \cup {Kernel} -> View]

(* span() : null, length 0 *)
Empty == [kind |-> "span", null |-> TRUE, buffer_ |-> 0, length_ |-> 0,
          lo |-> 0, hi |-> 0, cut |-> FALSE]

Init == view = [s \in Slot \cup {Kernel} |-> Empty]

(* The constructors from a pointer (that of view v, plus an offset) and a  *)
(* length: a null pointer makes a span empty, and leaves an any_view its   *)
(* length.                                                                 *)
SpanOf_KeepsLength(v, offset, n) ==
  [v EXCEPT !.kind = "span", !.buffer_ = @ + offset, !.length_ = n]

SpanOf(v, offset, n) ==
  IF v.null THEN Empty
  ELSE [v EXCEPT !.kind = "span", !.buffer_ = @ + offset, !.length_ = n]

AnyOf(v, n) == [v EXCEPT !.kind = "any", !.length_ = n]

Set(s, v) == view' = [view EXCEPT ![s] = v]
-----------------------------------------------------------------------------
(* The program makes a view of memory it has: of a pointer and a length,   *)
(* of an array, std::array or std::vector, or of an object.                *)
Granted(r) == [kind |-> "span", null |-> FALSE, buffer_ |-> r[1],
               length_ |-> r[2] - r[1], lo |-> r[1], hi |-> r[2],
               cut |-> FALSE]

Construct(s, r) == Set(s, SpanOf(Granted(r), 0, r[2] - r[1]))

ConstructAny(s, r) == Set(s, AnyOf(Granted(r), r[2] - r[1]))

(* ... or of a null pointer with any length. *)
ConstructNull(s, n) == Set(s, SpanOf(Empty, 0, n))

ConstructAnyNull(s, n) == Set(s, AnyOf(Empty, n))
-----------------------------------------------------------------------------
(* One view is made from another. *)

(* Copies, and the conversions to the const form. *)
Convert(s, t) ==
  Set(s, IF view[t].kind = "span" THEN SpanOf(view[t], 0, view[t].length_)
         ELSE AnyOf(view[t], view[t].length_))

(* any_view::as_bytes and as_writeable_bytes *)
AsBytes(s, t) ==
  /\ view[t].kind = "any"
  /\ Set(s, SpanOf(view[t], 0, view[t].length_))

Subspan_AddsFirst(s, t, offset, count) ==
  /\ view[t].kind = "span"
  /\ view[t].cut => view[t].buffer_ + offset \in Place
  /\ Set(s, IF (offset + count) % SizeMod > view[t].length_ THEN Empty
            ELSE SpanOf(view[t], offset, count))

Subspan_NoOffsetCheck(s, t, offset, count) ==
  /\ view[t].kind = "span"
  /\ view[t].cut => view[t].buffer_ + offset \in Place
  /\ Set(s, IF (view[t].length_ - offset) % SizeMod < count THEN Empty
            ELSE SpanOf(view[t], offset, count))

(* subspan.  A pointer beyond the block, which only a view that confstr    *)
(* made too long could lead to, is undefined and not followed.             *)
Subspan(s, t, offset, count) ==
  /\ view[t].kind = "span"
  /\ view[t].cut => view[t].buffer_ + offset \in Place
  /\ Set(s, IF \/ offset >= view[t].length_
               \/ (view[t].length_ - offset) % SizeMod < count
            THEN Empty
            ELSE SpanOf(view[t], offset, count))
-----------------------------------------------------------------------------
(* Calls.  The kernel may access the first n bytes of view t. *)
Access(t, n) == [view[t] EXCEPT !.length_ = n]

(* file::read and write, mq::unsafe_send: pointer and length as they are. *)
Pass(t) ==
  /\ view[t].kind = "span"
  /\ Set(Kernel, Access(t, view[t].length_))

(* mq::receive and timed_receive: the message is a view of its first n     *)
(* bytes in the caller's buffer.                                           *)
Receive(s, t, n) ==
  /\ view[t].kind = "span"
  /\ n <= view[t].length_
  /\ view' = [view EXCEPT ![Kernel] = Access(t, view[t].length_),
                          ![s] = SpanOf(view[t], 0, n)]

(* confstr(name, buffer): writes at most the buffer, and makes a view of   *)
(* the length that the whole name needs.  Nothing compares the two: if the *)
(* caller's buffer is shorter, the view runs past it.                      *)
Confstr(s, t) ==
  /\ view[t].kind = "span"
  /\ view' = [view EXCEPT
       ![Kernel] = Access(t, view[t].length_),
       ![s] = [SpanOf(view[t], 0, NameLen) EXCEPT
                 !.cut = view[t].cut \/ NameLen > view[t].length_]]

(* The length converted to int. *)
ToInt(n) ==
  LET m == n % IntMod IN IF m + m < IntMod THEN m ELSE m - IntMod

(* epoll::wait and pwait: the length becomes an int, and the kernel        *)
(* refuses one that is not positive.                                       *)
Wait(t) ==
  /\ view[t].kind = "span"
  /\ Set(Kernel, IF ToInt(view[t].length_) > 0
                 THEN Access(t, ToInt(view[t].length_)) ELSE Empty)

(* socket::unsafe_setsockopt: the length becomes a socklen_t. *)
SetSockOpt(t) ==
  /\ view[t].kind = "any"
  /\ Set(Kernel, Access(t, view[t].length_ % IntMod))

(* socket::unsafe_getsockopt: a length that is not a socklen_t is refused, *)
(* and the call returns before the kernel is asked.                        *)
GetSockOpt(t) ==
  /\ view[t].kind = "any"
  /\ view[t].length_ < IntMod
  /\ Set(Kernel, Access(t, view[t].length_))
-----------------------------------------------------------------------------
Next ==
  \/ \E s \in Slot :
       \/ \E r \in Region : Construct(s, r) \/ ConstructAny(s, r)
       \/ \E n \in Size : ConstructNull(s, n) \/ ConstructAnyNull(s, n)
       \/ \E t \in Slot :
            \/ Convert(s, t)
            \/ AsBytes(s, t)
            \/ Confstr(s, t)
            \/ \E n \in Size : Receive(s, t, n)
            \/ \E offset, count \in Size : Subspan(s, t, offset, count)
  \/ \E t \in Slot : Pass(t) \/ Wait(t) \/ SetSockOpt(t) \/ GetSockOpt(t)

Spec == Init /\ [][Next]_vars
-----------------------------------------------------------------------------
(* However views are converted, narrowed and passed on, none of them, and  *)
(* no system call, reaches memory outside the part the program first       *)
(* entrusted; for all offsets and counts a size_t can hold, and for every  *)
(* way in which int and socklen_t cut a length short.  The one exception   *)
(* is a view that comes from a confstr given too short a buffer.           *)
StaysInside ==
  \A s \in Slot \cup {Kernel} :
    ~view[s].null /\ ~view[s].cut =>
      /\ view[s].lo <= view[s].buffer_
      /\ view[s].buffer_ + view[s].length_ <= view[s].hi

(* A span of no memory has no length, whatever length came with the null   *)
(* pointer, an any_view's included: begin() = end() and a loop over it     *)
(* reads nothing.                                                          *)
NullIsEmpty ==
  \A s \in Slot : view[s].kind = "span" /\ view[s].null => view[s].length_ = 0
=============================================================================

----------------------------- MODULE Descriptor -----------------------------
(***************************************************************************)
(* The owning handle descriptor<Descriptor, GetNull, ClosePolicy> of       *)
(* include/pposix/descriptor.hpp, the classes that embed it (file, socket, *)
(* epoll, mq, unique_dirent), and the descriptor table of the process they *)
(* all share with code that uses no handle.                                *)
(*                                                                         *)
(* Every object belongs to one thread at a time, so the steps of different *)
(* objects are the steps of different threads.  A descriptor number is     *)
(* reused as soon as it is free; an "open file description" is what one    *)
(* successful open created and is never reused.  raw_descriptor_ is what   *)
(* the code keeps; got is a history variable: the description the number   *)
(* stood for when it was entrusted to the object.                          *)
(***************************************************************************)
EXTENDS Integers

CONSTANTS
  Obj,          \* the places in which a handle may be constructed
  FileObj,      \* those that hold a pposix::file, whose close() is file::close
  NFd,          \* the size of the descriptor table (RLIMIT_NOFILE)
  MaxOpen,      \* bound: open file descriptions created in a behaviour
  CloseFailure, \* what a ::close may have done to the descriptor when a
                \* close() reports that it failed; {}: no close() fails
  DtorFailure   \* the same of a ::close that fails in a destructor

ASSUME ObjAssumption == FileObj \subseteq Obj
ASSUME NFdAssumption == NFd \in Nat \ {0}
ASSUME MaxOpenAssumption == MaxOpen \in Nat
ASSUME CloseFailureAssumption == CloseFailure \subseteq {"released", "kept"}
ASSUME DtorFailureAssumption == DtorFailure \subseteq {"released", "kept"}

Fd == 0 .. NFd - 1

(* descriptor_constant<raw_fd, raw_fd_t, -1> *)
Null == -1

Desc == 1 .. MaxOpen
NoDesc == 0

VARIABLES
  fdt,              \* kernel: the description each descriptor number denotes
  born,             \* kernel: how many descriptions have been created
  ints,             \* <<number, description>> held by code without a handle
  st,               \* lifetime of each object
  raw_descriptor_,  \* the member of each object
  got,              \* history: the description entrusted to the object
  error,            \* what ::close returned to the close() in progress
  up                \* the process is running

vars == <<fdt, born, ints, st, raw_descriptor_, got, error, up>>
objVars == <<st, raw_descriptor_, got, error>>

TypeOK ==
  /\ fdt \in [Fd -> Desc \cup {NoDesc}]
  /\ born \in 0 .. MaxOpen
  /\ ints \subseteq Fd \X Desc
  /\ st \in [Obj -> {"none", "live", "closing"}]
  /\ raw_descriptor_ \in [Obj -> Fd \cup {Null}]
  /\ got \in [Obj -> Desc \cup {NoDesc}]
  /\ error \in [Obj -> {"ok", "EBADF", "EINTR"}]
  /\ up \in BOOLEAN

Init ==
  /\ fdt = [f \in Fd |-> NoDesc]
  /\ born = 0
  /\ ints = {}
  /\ st = [o \in Obj |-> "none"]
  /\ raw_descriptor_ = [o \in Obj |-> Null]
  /\ got = [o \in Obj |-> NoDesc]
  /\ error = [o \in Obj |-> "ok"]
  /\ up = TRUE
-----------------------------------------------------------------------------
(* The kernel. *)

(* A successful open takes the lowest free number. *)
KOpen(f) ==
  /\ born < MaxOpen
  /\ fdt[f] = NoDesc
  /\ \A g \in Fd : g < f => fdt[g] # NoDesc
  /\ born' = born + 1
  /\ fdt' = [fdt EXCEPT ![f] = born + 1]

IsOpen(f) == f \in Fd /\ fdt[f] # NoDesc

(* ::close(f) ends with error code e.  POSIX leaves open what a close that *)
(* fails on an open descriptor did to it: Linux has always released it.    *)
KClose(f, e, failure) ==
  \/ /\ ~IsOpen(f)
     /\ e = "EBADF"
     /\ UNCHANGED fdt
  \/ /\ IsOpen(f)
     /\ \/ e = "ok"
        \/ e = "EINTR" /\ "released" \in failure
     /\ fdt' = [fdt EXCEPT ![f] = NoDesc]
  \/ /\ IsOpen(f)
     /\ e = "EINTR" /\ "kept" \in failure
     /\ UNCHANGED fdt
-----------------------------------------------------------------------------
(* Code of the process that holds descriptors as plain integers, among it  *)
(* the callers of capi::open, which returns a raw_fd and no handle.        *)

OutsideOpen ==
  /\ up
  /\ \E f \in Fd : /\ KOpen(f)
                   /\ ints' = ints \cup {<<f, born + 1>>}
  /\ UNCHANGED <<objVars, up>>

OutsideClose(p) ==
  /\ up
  /\ p \in ints
  /\ ints' = ints \ {p}
  /\ fdt' = [fdt EXCEPT ![p[1]] = NoDesc]
  /\ UNCHANGED <<born, objVars, up>>

(* The process ends, wherever it is: the kernel reclaims everything. *)
ProcessEnds ==
  /\ up
  /\ up' = FALSE
  /\ fdt' = [f \in Fd |-> NoDesc]
  /\ ints' = {}
  /\ st' = [p \in Obj |-> "none"]
  /\ raw_descriptor_' = [p \in Obj |-> Null]
  /\ got' = [p \in Obj |-> NoDesc]
  /\ error' = [p \in Obj |-> "ok"]
  /\ UNCHANGED born
-----------------------------------------------------------------------------
(* Construction. *)

Begin(o, f, d) ==
  /\ st[o] = "none"
  /\ st' = [st EXCEPT ![o] = "live"]
  /\ raw_descriptor_' = [raw_descriptor_ EXCEPT ![o] = f]
  /\ got' = [got EXCEPT ![o] = d]
  /\ error' = [error EXCEPT ![o] = "ok"]

(* descriptor() and descriptor(null_d) *)
Construct(o) ==
  /\ up
  /\ Begin(o, Null, NoDesc)
  /\ UNCHANGED <<fdt, born, ints, up>>

(* explicit descriptor(Descriptor): the caller gives its number away.      *)
Adopt(o, p) ==
  /\ up
  /\ p \in ints
  /\ ints' = ints \ {p}
  /\ Begin(o, p[1], p[2])
  /\ UNCHANGED <<fdt, born, up>>

(* A factory: the system call succeeds and the number is wrapped before it *)
(* is returned.  The temporaries the value is moved out of are destroyed   *)
(* empty, and ::close(-1) leaves the table alone.  A factory whose system  *)
(* call fails returns an error code and constructs nothing.  file has no   *)
(* factory that a program can use: a file adopts the number of capi::open. *)
Make(o) ==
  /\ up
  /\ o \notin FileObj
  /\ \E f \in Fd : /\ KOpen(f)
                   /\ Begin(o, f, born + 1)
  /\ UNCHANGED <<ints, up>>

SameClass(o, p) == o \in FileObj <=> p \in FileObj

(* descriptor(descriptor &&): swap with the null the member starts with.   *)
MoveConstruct(o, other) ==
  /\ up
  /\ SameClass(o, other)
  /\ st[o] = "none" /\ st[other] = "live"
  /\ st' = [st EXCEPT ![o] = "live"]
  /\ raw_descriptor_' = [raw_descriptor_ EXCEPT ![o] = raw_descriptor_[other],
                                                ![other] = Null]
  /\ got' = [got EXCEPT ![o] = got[other], ![other] = NoDesc]
  /\ error' = [error EXCEPT ![o] = "ok"]
  /\ UNCHANGED <<fdt, born, ints, up>>
-----------------------------------------------------------------------------
(* Operations on a live object. *)

MoveAssign_Overwrites(o, other) ==
  /\ up
  /\ SameClass(o, other) /\ o # other
  /\ st[o] = "live" /\ st[other] = "live"
  /\ raw_descriptor_' = [raw_descriptor_ EXCEPT ![o] = raw_descriptor_[other],
                                                ![other] = Null]
  /\ got' = [got EXCEPT ![o] = got[other], ![other] = NoDesc]
  /\ UNCHANGED <<fdt, born, ints, st, error, up>>

(* operator=(descriptor &&) swaps, self-assignment included. *)
MoveAssign(o, other) ==
  /\ up
  /\ SameClass(o, other)
  /\ st[o] = "live" /\ st[other] = "live"
  /\ raw_descriptor_' = [raw_descriptor_ EXCEPT ![o] = raw_descriptor_[other],
                                                ![other] = raw_descriptor_[o]]
  /\ got' = [got EXCEPT ![o] = got[other], ![other] = got[o]]
  /\ UNCHANGED <<fdt, born, ints, st, error, up>>

(* It has no return statement: flowing off its end is undefined, and a     *)
(* build may also stop the process there.                                  *)
MoveAssignTraps(o, other) ==
  /\ SameClass(o, other)
  /\ st[o] = "live" /\ st[other] = "live"
  /\ ProcessEnds

Release_KeepsNumber(o) ==
  /\ up
  /\ o \notin FileObj /\ st[o] = "live"
  /\ ints' = ints \cup (IF raw_descriptor_[o] = Null THEN {}
                        ELSE {<<raw_descriptor_[o], got[o]>>})
  /\ UNCHANGED <<fdt, born, objVars, up>>

(* release(): the caller gets the number back.  file hides it. *)
Release(o) ==
  /\ up
  /\ o \notin FileObj /\ st[o] = "live"
  /\ ints' = ints \cup (IF raw_descriptor_[o] = Null THEN {}
                        ELSE {<<raw_descriptor_[o], got[o]>>})
  /\ raw_descriptor_' = [raw_descriptor_ EXCEPT ![o] = Null]
  /\ got' = [got EXCEPT ![o] = NoDesc]
  /\ UNCHANGED <<fdt, born, st, error, up>>

(* close(), first half, when the number that ::close is given is f. *)
CloseNumber(o, f) ==
  /\ up
  /\ o \notin FileObj /\ st[o] = "live"
  /\ \E e \in {"ok", "EBADF", "EINTR"} :
       /\ KClose(f, e, CloseFailure)
       /\ error' = [error EXCEPT ![o] = e]
  /\ st' = [st EXCEPT ![o] = "closing"]
  /\ UNCHANGED <<born, ints, raw_descriptor_, got, up>>

(* ClosePolicy(raw()), called on the null value too. *)
CloseCall(o) == CloseNumber(o, raw_descriptor_[o])

CloseReturn_NeverNulls(o) ==
  /\ up
  /\ st[o] = "closing"
  /\ st' = [st EXCEPT ![o] = "live"]
  /\ error' = [error EXCEPT ![o] = "ok"]
  /\ UNCHANGED <<fdt, born, ints, raw_descriptor_, got, up>>

(* close(), second half: the member becomes null only if there was no      *)
(* error.  Between the halves other threads run.                           *)
CloseReturn(o) ==
  /\ up
  /\ st[o] = "closing"
  /\ st' = [st EXCEPT ![o] = "live"]
  /\ IF error[o] = "ok"
       THEN /\ raw_descriptor_' = [raw_descriptor_ EXCEPT ![o] = Null]
            /\ got' = [got EXCEPT ![o] = NoDesc]
       ELSE UNCHANGED <<raw_descriptor_, got>>
  /\ error' = [error EXCEPT ![o] = "ok"]
  /\ UNCHANGED <<fdt, born, ints, up>>

(* file::close() calls ::close on the number and leaves the member as it is. *)
FileClose(o) ==
  /\ up
  /\ o \in FileObj /\ st[o] = "live"
  /\ \E e \in {"ok", "EBADF", "EINTR"} :
       KClose(raw_descriptor_[o], e, CloseFailure)
  /\ UNCHANGED <<born, ints, objVars, up>>

(* ~descriptor(): close(), whose error, if any, is dropped with the object. *)
DestroyNumber(o, f) ==
  /\ up
  /\ st[o] = "live"
  /\ \E e \in {"ok", "EBADF", "EINTR"} : KClose(f, e, DtorFailure)
  /\ st' = [st EXCEPT ![o] = "none"]
  /\ raw_descriptor_' = [raw_descriptor_ EXCEPT ![o] = Null]
  /\ got' = [got EXCEPT ![o] = NoDesc]
  /\ UNCHANGED <<born, ints, error, up>>

Destroy(o) == DestroyNumber(o, raw_descriptor_[o])
-----------------------------------------------------------------------------
Next ==
  \/ ProcessEnds
  \/ OutsideOpen
  \/ \E p \in ints : OutsideClose(p)
  \/ \E o \in Obj :
       \/ Construct(o)
       \/ Make(o)
       \/ Release(o)
       \/ CloseCall(o)
       \/ CloseReturn(o)
       \/ FileClose(o)
       \/ Destroy(o)
       \/ \E p \in ints : Adopt(o, p)
       \/ \E other \in Obj :
            \/ MoveConstruct(o, other)
            \/ MoveAssign(o, other)
            \/ MoveAssignTraps(o, other)

Spec == Init /\ [][Next]_vars
-----------------------------------------------------------------------------
(* The member and the history agree on whether the object has anything. *)
Entrusted == \A o \in Obj : raw_descriptor_[o] = Null <=> got[o] = NoDesc

(* Object o will close its number sooner or later: it has one, and is not  *)
(* about to forget it because its close() has just succeeded.              *)
Closer(o) ==
  /\ raw_descriptor_[o] # Null
  /\ st[o] = "live" \/ (st[o] = "closing" /\ error[o] # "ok")

(* descriptor has no copy operations and is emptied by move, release and a *)
(* successful close, so that no open descriptor is ever due to be closed   *)
(* by two parties: by two objects, or by an object and by the code that    *)
(* holds the number as an integer.                                         *)
SoleCloser ==
  /\ \A o, p \in Obj :
       /\ o # p /\ Closer(o) /\ Closer(p)
       /\ raw_descriptor_[o] = raw_descriptor_[p]
       => ~IsOpen(raw_descriptor_[o])
  /\ \A o \in Obj : \A q \in ints :
       Closer(o) /\ raw_descriptor_[o] = q[1] => ~IsOpen(q[1])

(* A descriptor in the hands of code without a handle still denotes what   *)
(* that code opened: no destructor or close() in another thread has closed *)
(* it through a number kept too long.                                      *)
OutsideIntact == \A q \in ints : fdt[q[1]] = q[2]

(* No open descriptor is lost: whatever is open is an integer in somebody's *)
(* hands or will be closed by an object, through moves, move assignments   *)
(* over a full handle, release and destruction.                            *)
NoLeak ==
  \A f \in Fd : fdt[f] # NoDesc =>
    \/ <<f, fdt[f]>> \in ints
    \/ \E o \in Obj : /\ Closer(o)
                      /\ raw_descriptor_[o] = f
                      /\ got[o] = fdt[f]
-----------------------------------------------------------------------------
(* The refinement mapping: resources are descriptions. *)
OpenDescs == {fdt[f] : f \in {g \in Fd : fdt[g] # NoDesc}}
HeldDescs == [o \in Obj |-> IF Closer(o) THEN {got[o]} ELSE {}]
LooseDescs == {q[2] : q \in ints}

Abstract == INSTANCE Ownership WITH
  Res   <- Desc,
  used  <- 1 .. born,
  open  <- OpenDescs,
  held  <- HeldDescs,
  loose <- LooseDescs

(* If no close() that reports failure has released its descriptor (on      *)
(* Linux: if no close() reports failure; destructors may fail as they do)  *)
(* and nobody calls file::close, the handles implement Ownership: every    *)
(* step moves descriptions between parties, closes one, or is a destructor *)
(* that fails to close its own, exactly as the abstract specification      *)
(* allows.                                                                 *)
ImplementsOwnership == Abstract!OSpec
=============================================================================

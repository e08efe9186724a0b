------------------------------- MODULE Mapping -------------------------------
(***************************************************************************)
(* pposix::mmap (include/pposix/mman.hpp, src/mman.cpp): a descriptor      *)
(* whose value is an address and a length, over the address space of the   *)
(* process, which other threads and code without handles map and unmap at  *)
(* the same time.                                                          *)
(*                                                                         *)
(* The close policy of unique_mmap_d is close_mmap(const mmap_d &), which  *)
(* the header declares and nothing defines (mman.cpp defines an overload   *)
(* for mmap_d &, which nothing calls): the module presupposes the intended *)
(* one, a ::munmap of the member's range.  mmap::map cannot be             *)
(* instantiated (its result_map asks for a noexcept function), so that an  *)
(* mmap is made of the mmap_d that capi::mmap_map returns.  MAP_FIXED is   *)
(* not used: the kernel chooses addresses.                                 *)
(***************************************************************************)
EXTENDS Integers

CONSTANTS
  Obj,       \* the places in which an mmap may be constructed
  Unmapper,  \* those of them whose unmap() the program calls
  NPage,     \* pages of the address space
  MaxMap     \* bound: mappings made in a behaviour

Page == 1 .. NPage
Map == 1 .. MaxMap
NoMap == 0

(* mmap_d{}: MAP_FAILED and no length. *)
Null == [address |-> 0, length |-> 0]

Pages(d) == d.address .. d.address + d.length - 1
MmapD == {d \in [address : Page, length : Page] : Pages(d) \subseteq Page}

VARIABLES
  space,   \* kernel: the mapping that each page belongs to
  born,    \* kernel: mappings made so far
  loose,   \* <<mmap_d, mapping>> in the hands of code without a handle
  st,      \* lifetime of each object: "none" or "live"
  mmap_d_, \* the member of each object
  got,     \* history: the mapping it stands for, until unmap() ends it
  up       \* the process is running

vars == <<space, born, loose, st, mmap_d_, got, up>>

TypeOK ==
  /\ space \in [Page -> Map \cup {NoMap}]
  /\ born \in 0 .. MaxMap
  /\ loose \subseteq MmapD \X Map
  /\ st \in [Obj -> {"none", "live"}]
  /\ mmap_d_ \in [Obj -> MmapD \cup {Null}]
  /\ got \in [Obj -> Map \cup {NoMap}]
  /\ up \in BOOLEAN

Init ==
  /\ space = [p \in Page |-> NoMap]
  /\ born = 0
  /\ loose = {}
  /\ st = [o \in Obj |-> "none"]
  /\ mmap_d_ = [o \in Obj |-> Null]
  /\ got = [o \in Obj |-> NoMap]
  /\ up = TRUE
-----------------------------------------------------------------------------
(* ::munmap ends whatever is mapped in the range, whoever mapped it, and   *)
(* does not mind if nothing is.  A length of 0 is an error (EINVAL).       *)
KUnmap(d) == space' = [p \in Page |-> IF p \in Pages(d) THEN NoMap ELSE space[p]]

(* capi::mmap_map: the kernel picks a range nobody uses. *)
CapiMap(d) ==
  /\ up
  /\ born < MaxMap
  /\ \A p \in Pages(d) : space[p] = NoMap
  /\ born' = born + 1
  /\ space' = [p \in Page |-> IF p \in Pages(d) THEN born + 1 ELSE space[p]]
  /\ loose' = loose \cup {<<d, born + 1>>}
  /\ UNCHANGED <<st, mmap_d_, got, up>>

(* Code without a handle unmaps what it has. *)
LooseUnmap(x) ==
  /\ up
  /\ x \in loose
  /\ loose' = loose \ {x}
  /\ KUnmap(x[1])
  /\ UNCHANGED <<born, st, mmap_d_, got, up>>

Begin(o, d, m) ==
  /\ st[o] = "none"
  /\ st' = [st EXCEPT ![o] = "live"]
  /\ mmap_d_' = [mmap_d_ EXCEPT ![o] = d]
  /\ got' = [got EXCEPT ![o] = m]

(* mmap() *)
Construct(o) ==
  /\ up
  /\ Begin(o, Null, NoMap)
  /\ UNCHANGED <<space, born, loose, up>>

(* explicit mmap(mmap_d) *)
Adopt(o, x) ==
  /\ up
  /\ x \in loose
  /\ loose' = loose \ {x}
  /\ Begin(o, x[1], x[2])
  /\ UNCHANGED <<space, born, up>>

(* mmap(mmap &&): descriptor(descriptor &&), a swap with null. *)
MoveConstruct(o, other) ==
  /\ up
  /\ st[o] = "none" /\ st[other] = "live"
  /\ st' = [st EXCEPT ![o] = "live"]
  /\ mmap_d_' = [mmap_d_ EXCEPT ![o] = mmap_d_[other], ![other] = Null]
  /\ got' = [got EXCEPT ![o] = got[other], ![other] = NoMap]
  /\ UNCHANGED <<space, born, loose, up>>

(* operator=(mmap &&): descriptor's operator=, a swap. *)
MoveAssign(o, other) ==
  /\ up
  /\ st[o] = "live" /\ st[other] = "live"
  /\ mmap_d_' = [mmap_d_ EXCEPT ![o] = mmap_d_[other], ![other] = mmap_d_[o]]
  /\ got' = [got EXCEPT ![o] = got[other], ![other] = got[o]]
  /\ UNCHANGED <<space, born, loose, st, up>>

(* descriptor's operator= returns nothing, and a build may stop there. *)
MoveAssignTraps(o, other) ==
  /\ up
  /\ st[o] = "live" /\ st[other] = "live"
  /\ up' = FALSE
  /\ space' = [p \in Page |-> NoMap]
  /\ loose' = {}
  /\ st' = [p \in Obj |-> "none"]
  /\ mmap_d_' = [p \in Obj |-> Null]
  /\ got' = [p \in Obj |-> NoMap]
  /\ UNCHANGED born

(* mmap::unmap() leaves the member as it is. *)
Unmap(o) ==
  /\ up
  /\ o \in Unmapper /\ st[o] = "live"
  /\ KUnmap(mmap_d_[o])
  /\ got' = [got EXCEPT ![o] = NoMap]
  /\ UNCHANGED <<born, loose, st, mmap_d_, up>>

(* ~descriptor() with the intended close_mmap(const mmap_d &).  An error   *)
(* (of the empty handle's munmap) is dropped, and the object is gone in    *)
(* any case.                                                               *)
Destroy(o) ==
  /\ up
  /\ st[o] = "live"
  /\ KUnmap(mmap_d_[o])
  /\ st' = [st EXCEPT ![o] = "none"]
  /\ mmap_d_' = [mmap_d_ EXCEPT ![o] = Null]
  /\ got' = [got EXCEPT ![o] = NoMap]
  /\ UNCHANGED <<born, loose, up>>
-----------------------------------------------------------------------------
Next ==
  \/ \E d \in MmapD : CapiMap(d)
  \/ \E x \in loose : LooseUnmap(x)
  \/ \E o \in Obj :
       \/ Construct(o)
       \/ \E x \in loose : Adopt(o, x)
       \/ Unmap(o)
       \/ Destroy(o)
       \/ \E other \in Obj :
            \/ MoveConstruct(o, other)
            \/ MoveAssign(o, other)
            \/ MoveAssignTraps(o, other)

Spec == Init /\ [][Next]_vars
-----------------------------------------------------------------------------
(* A mapping stays as it was made until the party that has it ends it: no  *)
(* destructor in another thread has unmapped a page of it through an       *)
(* address kept too long.                                                  *)
MappingsIntact ==
  /\ \A x \in loose : \A p \in Pages(x[1]) : space[p] = x[2]
  /\ \A o \in Obj : got[o] # NoMap =>
       \A p \in Pages(mmap_d_[o]) : space[p] = got[o]
=============================================================================

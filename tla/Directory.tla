------------------------------ MODULE Directory ------------------------------
(***************************************************************************)
(* Directory streams (include/pposix/dirent.hpp, src/dirent.cpp).          *)
(* unique_dirent is descriptor<DIR *, nullptr, close_dir>, so it has every *)
(* operation of a handle; raw_descriptor_ stands for its DIR * by the      *)
(* number under the stream, and what differs is the close policy:          *)
(* ::closedir closes that number and frees the stream.  What release()     *)
(* returns is a DIR * in the hands of code without a handle.               *)
(*                                                                         *)
(* ::closedir of a null pointer, which is what destroying an empty         *)
(* unique_dirent is (the temporaries of opendir among them), is EINVAL in  *)
(* some C libraries, as ::close(-1) is EBADF; in others the process ends   *)
(* there, a step that is always possible.                                  *)
(***************************************************************************)
EXTENDS Descriptor

CONSTANT DirObj   \* the places in which a unique_dirent may be constructed

ASSUME DirAssumption == DirObj \subseteq Obj \ FileObj

VARIABLE stream   \* the DIR that was opened on each description, if any

dvars == <<vars, stream>>

DirTypeOK == TypeOK /\ stream \in [Desc -> {"none", "open", "freed"}]

DInit == Init /\ stream = [d \in Desc |-> "none"]

FdObj == Obj \ DirObj
Plain(p) == stream[p[2]] = "none"    \* a descriptor number
Dirp(p) == stream[p[2]] = "open"     \* a DIR * that may be used
-----------------------------------------------------------------------------
(* Opening. *)

OpenDirFd_TakesAnyway(o, p) ==
  /\ o \in DirObj
  /\ p \in ints /\ Plain(p)
  /\ \/ /\ Adopt(o, p)
        /\ stream' = [stream EXCEPT ![p[2]] = "open"]
     \/ /\ up /\ st[o] = "none"
        /\ ints' = ints \ {p}
        /\ UNCHANGED <<fdt, born, objVars, up, stream>>

(* opendir(dir_fd): ::fdopendir takes the number over if it succeeds, and  *)
(* leaves it with the caller if it fails.                                  *)
OpenDirFd(o, p) ==
  /\ o \in DirObj
  /\ p \in ints /\ Plain(p)
  /\ \/ /\ Adopt(o, p)
        /\ stream' = [stream EXCEPT ![p[2]] = "open"]
     \/ /\ up /\ st[o] = "none"
        /\ UNCHANGED dvars

(* opendir of a path: ::opendir opens a descriptor of its own. *)
OpenDirPath(o) ==
  /\ o \in DirObj
  /\ Make(o)
  /\ stream' = [stream EXCEPT ![born + 1] = "open"]
-----------------------------------------------------------------------------
(* Closing. *)

(* close() or ~unique_dirent: close_dir(raw()).  A ::closedir that fails   *)
(* has done nothing, or has closed the number and freed the stream all the *)
(* same: C libraries free it whatever ::close returns.                     *)
CloseDir(o) ==
  /\ o \in DirObj
  /\ raw_descriptor_[o] # Null /\ stream[got[o]] = "open"
  /\ CloseCall(o) \/ Destroy(o)
  /\ stream' = IF fdt'[raw_descriptor_[o]] # NoDesc THEN stream
               ELSE [stream EXCEPT ![got[o]] = "freed"]

CloseNull(o) ==
  /\ o \in DirObj
  /\ raw_descriptor_[o] = Null
  /\ CloseCall(o) \/ Destroy(o)
  /\ UNCHANGED stream

(* The same with a pointer to a stream that a ::closedir freed when it     *)
(* failed: which number is closed is read from freed memory.               *)
CloseFreed(o) ==
  /\ o \in DirObj
  /\ raw_descriptor_[o] # Null /\ stream[got[o]] = "freed"
  /\ \E f \in Fd : CloseNumber(o, f) \/ DestroyNumber(o, f)
  /\ UNCHANGED stream

(* Code that released a stream from its handle calls ::closedir itself.    *)
(* It does not use a pointer that release() returned after a failed close  *)
(* had freed the stream.                                                   *)
OutsideCloseDir(p) ==
  /\ Dirp(p)
  /\ OutsideClose(p)
  /\ stream' = [stream EXCEPT ![p[2]] = "freed"]
-----------------------------------------------------------------------------
Moves(o, other) ==
  \/ MoveConstruct(o, other)
  \/ MoveAssign(o, other)
  \/ MoveAssignTraps(o, other)

(* What every class of handles over descriptor numbers can do, S being all *)
(* the objects of one class, and what most can.                            *)
Basic(S) ==
  \E o \in S :
    \/ Construct(o)
    \/ Destroy(o)
    \/ \E p \in ints : Plain(p) /\ Adopt(o, p)
    \/ \E other \in S : Moves(o, other)

Full(S) ==
  \E o \in S : \/ Make(o) \/ Release(o)
               \/ CloseCall(o) \/ CloseReturn(o) \/ FileClose(o)

NoHandle ==
  \/ ProcessEnds
  \/ OutsideOpen
  \/ \E p \in ints : Plain(p) /\ OutsideClose(p)

DirStep ==
  \/ \E p \in ints : OutsideCloseDir(p)
  \/ \E o \in DirObj :
       \/ OpenDirPath(o)
       \/ CloseDir(o) \/ CloseNull(o) \/ CloseFreed(o)
       \/ \E p \in ints : OpenDirFd(o, p)
       \/ /\ \/ Construct(o) \/ Release(o) \/ CloseReturn(o)
             \/ \E p \in ints : Dirp(p) /\ Adopt(o, p)
             \/ \E other \in DirObj : Moves(o, other)
          /\ UNCHANGED stream

DNext ==
  \/ (NoHandle \/ Basic(FdObj) \/ Full(FdObj)) /\ UNCHANGED stream
  \/ DirStep

DSpec == DInit /\ [][DNext]_dvars
-----------------------------------------------------------------------------
(* A unique_dirent that will call ::closedir has a stream that nobody has  *)
(* freed, over the directory it was opened on: neither a unique_dir_fd     *)
(* that gave the number up, nor a stream that was moved from or released,  *)
(* nor any other handle has closed it.                                     *)
StreamIntact ==
  \A o \in DirObj : Closer(o) =>
    stream[got[o]] = "open" /\ fdt[raw_descriptor_[o]] = got[o]
=============================================================================

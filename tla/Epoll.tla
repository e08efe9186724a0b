-------------------------------- MODULE Epoll --------------------------------
(***************************************************************************)
(* Interest lists (include/pposix/lnx/epoll.hpp, src/lnx/epoll.cpp) over   *)
(* the descriptor table that handles, directory streams and other code     *)
(* share: epoll::ctl is given a descriptor number, and the kernel          *)
(* registers the description the number denotes at that moment.  A         *)
(* description has one number here (pposix offers no dup), so that closing *)
(* it ends its registrations.                                              *)
(*                                                                         *)
(* An epoll object has no close() and no release(); the handles that are   *)
(* watched have both.  The data of an event is the number that was watched *)
(* or, if epoll_add's event or epoll_modify was given no data, 0; data of  *)
(* the caller's own making (a pointer, an index) is not told apart from    *)
(* none, since the number it does not carry cannot be stale.               *)
(***************************************************************************)
EXTENDS Directory

CONSTANT EpollObj   \* the places in which an epoll may be constructed

ASSUME EpollAssumption == EpollObj \subseteq FdObj \ FileObj

VARIABLES
  epolls,    \* kernel: the descriptions that are epoll instances
  interest   \* kernel: the registrations

evars == <<dvars, epolls, interest>>

(* data is what an event will carry; named is history: the caller gave the *)
(* watched number as data.                                                 *)
Entry == [ep : Desc, fd : Fd, desc : Desc, flags : SUBSET {"one_shot", "exclusive"},
          armed : BOOLEAN, data : Fd, named : BOOLEAN]

ETypeOK ==
  /\ DirTypeOK
  /\ epolls \subseteq Desc
  /\ interest \subseteq Entry

EInit == DInit /\ epolls = {} /\ interest = {}
-----------------------------------------------------------------------------
(* Descriptor's operations, with what they do to registrations. *)

(* Those of descriptions that are no longer open are gone. *)
Purge ==
  interest' = {e \in interest : \E f, g \in Fd : fdt'[f] = e.ep /\ fdt'[g] = e.desc}

Watched == FdObj \ EpollObj

(* epoll::create: unsafe_create(1) or unsafe_create1(cloexec). *)
Create(o) ==
  /\ o \in EpollObj
  /\ Make(o)
  /\ epolls' = epolls \cup {born + 1}
  /\ UNCHANGED <<stream, interest>>

HandlesAndStreams ==
  /\ \/ /\ NoHandle \/ Basic(Watched) \/ Full(Watched) \/ Basic(EpollObj)
        /\ UNCHANGED stream
     \/ DirStep
  /\ Purge
  /\ UNCHANGED epolls
-----------------------------------------------------------------------------
(* epoll::ctl of epoll object o for the number that handle w has. *)

Target(o) == fdt[raw_descriptor_[o]]

(* ::epoll_ctl fails with EBADF or EINVAL unless these are open, different *)
(* and the first is an epoll instance.                                     *)
CtlValid(o, w) ==
  /\ up
  /\ o \in EpollObj /\ st[o] = "live" /\ st[w] = "live"
  /\ IsOpen(raw_descriptor_[o]) /\ IsOpen(raw_descriptor_[w])
  /\ Target(o) \in epolls
  /\ Target(o) # Target(w)

Registered(o, w) == {e \in interest : e.ep = Target(o) /\ e.desc = Target(w)}

Event_ForgetsData(o, w, flags, named) ==
  [ep |-> Target(o), fd |-> raw_descriptor_[w], desc |-> Target(w),
   flags |-> flags, armed |-> TRUE, data |-> 0, named |-> named]

Event_NoFdIsMinusOne(o, w, flags, named) ==
  [ep |-> Target(o), fd |-> raw_descriptor_[w], desc |-> Target(w),
   flags |-> flags, armed |-> TRUE,
   data |-> IF named THEN raw_descriptor_[w] ELSE Null, named |-> named]

(* capi::epoll_event: the constructors start from zeroed data. *)
Event(o, w, flags, named) ==
  [ep |-> Target(o), fd |-> raw_descriptor_[w], desc |-> Target(w),
   flags |-> flags, armed |-> TRUE,
   data |-> IF named THEN raw_descriptor_[w] ELSE 0, named |-> named]

(* ctl(epoll_add): EEXIST if it is registered already. *)
CtlAdd(o, w, flags, named) ==
  /\ CtlValid(o, w)
  /\ Registered(o, w) = {}
  /\ interest' = interest \cup {Event(o, w, flags, named)}
  /\ UNCHANGED <<dvars, epolls>>

(* ctl(epoll_modify), whose constructors refuse epoll_exclusive: ENOENT if *)
(* it is not registered, EINVAL if it was registered as exclusive.  The    *)
(* whole event is replaced: without data, the data given before is lost.   *)
CtlModify(o, w, flags, named) ==
  /\ CtlValid(o, w)
  /\ "exclusive" \notin flags
  /\ \E e \in Registered(o, w) :
       /\ "exclusive" \notin e.flags
       /\ interest' = (interest \ {e}) \cup {Event(o, w, flags, named)}
  /\ UNCHANGED <<dvars, epolls>>

(* ctl(epoll_remove): ENOENT if it is not registered. *)
CtlRemove(o, w) ==
  /\ CtlValid(o, w)
  /\ Registered(o, w) # {}
  /\ interest' = interest \ Registered(o, w)
  /\ UNCHANGED <<dvars, epolls>>

(* epoll::wait and pwait: a registration that is armed and one-shot is     *)
(* silent once it has been reported; the others stay as they are.          *)
Wait(o) ==
  /\ up
  /\ o \in EpollObj /\ st[o] = "live"
  /\ IsOpen(raw_descriptor_[o])
  /\ \E e \in interest :
       /\ e.ep = Target(o) /\ e.armed /\ "one_shot" \in e.flags
       /\ interest' = (interest \ {e}) \cup {[e EXCEPT !.armed = FALSE]}
  /\ UNCHANGED <<dvars, epolls>>

Ctl(o, w) ==
  \/ \E flags \in SUBSET {"one_shot", "exclusive"}, named \in BOOLEAN :
       CtlAdd(o, w, flags, named) \/ CtlModify(o, w, flags, named)
  \/ CtlRemove(o, w)
-----------------------------------------------------------------------------
ENext ==
  \/ HandlesAndStreams
  \/ \E o \in EpollObj :
       \/ Create(o)
       \/ Wait(o)
       \/ \E w \in Watched : Ctl(o, w)

ESpec == EInit /\ [][ENext]_evars
-----------------------------------------------------------------------------
(* A call of ctl concerns the epoll instance and the description that its  *)
(* two handles were entrusted with, and no others: no handle still has a   *)
(* number that now denotes something else.  epoll is Linux only, where a   *)
(* ::close that fails has released the number: this is what a program may  *)
(* rely on there as long as no close() reports failure, whatever the       *)
(* destructors' ::close do (CloseFailure = {}, DtorFailure = {"released"}, *)
(* whose behaviours are among those of any larger two sets).               *)
RightTarget ==
  [][\A o \in EpollObj, w \in Watched :
       Ctl(o, w) => \A e \in (interest \ interest') \cup (interest' \ interest) :
                      e.ep = got[o] /\ e.desc = got[w]]_evars

(* The number that an event carries denotes the description the event is   *)
(* about, however often numbers were closed and reused since it was given. *)
DataNamesSource == \A e \in interest : e.named => fdt[e.data] = e.desc
=============================================================================

----------------------------- MODULE EpollProofs -----------------------------
(* Theorems about Epoll for every set of epolls, handles and streams, every  *)
(* size of the descriptor table and every number of opens.                   *)
EXTENDS Epoll, DirectoryProofs

(* To the descriptor table, creating an epoll is one more factory, and ctl   *)
(* and wait are nothing at all.                                              *)
LEMMA StepIsDirectoryStep == [ENext]_evars => [DNext]_dvars
<1>1. Watched \subseteq FdObj /\ EpollObj \subseteq FdObj
  BY EpollAssumption DEF Watched
<1>2. (Basic(Watched) => Basic(FdObj)) /\ (Basic(EpollObj) => Basic(FdObj))
  BY <1>1 DEF Basic
<1>3. Full(Watched) => Full(FdObj)
  BY <1>1 DEF Full
<1>4. HandlesAndStreams => DNext
  BY <1>2, <1>3 DEF HandlesAndStreams, DNext
<1>5. ASSUME NEW o \in EpollObj, Create(o) PROVE DNext
  BY <1>1, <1>5 DEF Create, DNext, Full
<1> QED
  BY <1>4, <1>5 DEF ENext, evars, Wait, Ctl, CtlAdd, CtlModify, CtlRemove

(* Epoll implements Directory, so that all that is proved of handles and     *)
(* streams holds in a program that uses epoll as well.                       *)
THEOREM EpollImplementsDirectory == ESpec => DSpec
<1>1. EInit => DInit
  BY DEF EInit
<1> QED
  BY <1>1, StepIsDirectoryStep, PTL DEF ESpec, DSpec
-------------------------------------------------------------------------------
Listed == epolls \subseteq Desc /\ interest \subseteq Entry

(* An open number denotes a description. *)
LEMMA TargetType ==
  ASSUME TypeOK, NEW o \in Obj, IsOpen(raw_descriptor_[o])
  PROVE  raw_descriptor_[o] \in Fd /\ Target(o) \in Desc
BY DEF TypeOK, IsOpen, Target

(* What ctl registers is an entry: 0, the data of an event without data, is  *)
(* a number too.                                                             *)
LEMMA EventType ==
  ASSUME TypeOK, NEW o \in Obj, NEW w \in Obj, CtlValid(o, w),
         NEW flags \in SUBSET {"one_shot", "exclusive"}, NEW named \in BOOLEAN
  PROVE  Event(o, w, flags, named) \in Entry
<1>1. 0 \in Fd
  BY NFdAssumption DEF Fd
<1>2. /\ raw_descriptor_[w] \in Fd
      /\ Target(o) \in Desc /\ Target(w) \in Desc
  BY TargetType DEF CtlValid
<1>3. (IF named THEN raw_descriptor_[w] ELSE 0) \in Fd
  BY <1>1, <1>2
<1> QED
  BY <1>2, <1>3 DEF Event, Entry

(* Every step keeps the registrations typed. *)
LEMMA StepListed == DTyped /\ Listed /\ [ENext]_evars => Listed'
<1> SUFFICES ASSUME DTyped, Listed, [ENext]_evars PROVE Listed'
  OBVIOUS
<1>0. TypeOK /\ epolls \subseteq Desc /\ interest \subseteq Entry
  BY DEF DTyped, Typed, Listed
<1>1. CASE HandlesAndStreams
  BY <1>0, <1>1 DEF HandlesAndStreams, Purge, Listed
<1>2. ASSUME NEW o \in EpollObj, Create(o) PROVE Listed'
  <2>1. born + 1 \in Desc
    BY <1>0, <1>2, KOpenType DEF Create, Make
  <2> QED
    BY <1>0, <1>2, <2>1 DEF Create, Listed
<1>3. ASSUME NEW o \in EpollObj, Wait(o) PROVE Listed'
  <2>1. PICK e \in interest :
          interest' = (interest \ {e}) \cup {[e EXCEPT !.armed = FALSE]}
    BY <1>3 DEF Wait
  <2>2. [e EXCEPT !.armed = FALSE] \in Entry
    BY <1>0 DEF Entry
  <2> QED
    BY <1>0, <1>3, <2>1, <2>2 DEF Wait, Listed
<1>4. ASSUME NEW o \in EpollObj, NEW w \in Watched,
             NEW flags \in SUBSET {"one_shot", "exclusive"}, NEW named \in BOOLEAN,
             CtlAdd(o, w, flags, named) \/ CtlModify(o, w, flags, named)
      PROVE  Listed'
  <2>1. o \in Obj /\ w \in Obj /\ CtlValid(o, w)
    BY <1>4, EpollAssumption DEF CtlAdd, CtlModify, Watched, FdObj
  <2>2. Event(o, w, flags, named) \in Entry
    BY <1>0, <2>1, EventType
  <2> QED
    BY <1>0, <1>4, <2>2 DEF CtlAdd, CtlModify, Listed
<1>5. ASSUME NEW o \in EpollObj, NEW w \in Watched, CtlRemove(o, w) PROVE Listed'
  BY <1>0, <1>5 DEF CtlRemove, Listed
<1>6. CASE UNCHANGED evars
  BY <1>6 DEF evars, Listed
<1> QED
  BY <1>1, <1>2, <1>3, <1>4, <1>5, <1>6 DEF ENext, Ctl

(* Interest lists hold nothing but entries of the kernel's form: a number of *)
(* the table as data, whether the caller gave one or not.                    *)
THEOREM EpollTyping == ESpec => []ETypeOK
<1>1. EInit => DTyped /\ Listed
  BY InitDTyped DEF EInit, Listed
<1>2. DTyped /\ Listed /\ [ENext]_evars => (DTyped /\ Listed)'
  BY StepDTyped, StepListed, StepIsDirectoryStep
<1>3. DTyped /\ Listed => ETypeOK
  BY DEF DTyped, Typed, Streamed, DirTypeOK, Listed, ETypeOK
<1> QED
  BY <1>1, <1>2, <1>3, PTL DEF ESpec
-------------------------------------------------------------------------------
(* What DataNamesSource needs beside itself: a description has one number,   *)
(* so that one which is still open somewhere is open where the event says.   *)
Named == DTyped /\ Listed /\ Unique /\ DataNamesSource

(* Nothing is registered at the start. *)
LEMMA InitNamed == EInit => Named
BY InitDTyped, InitOwned
   DEF EInit, DInit, Named, Listed, Owned, DataNamesSource

(* A registration that outlives a step of handles and streams still carries  *)
(* the number of its description: the number has not changed its meaning     *)
(* unless it was closed, and then the registration is gone.                  *)
LEMMA PurgeNames ==
  ASSUME Named, [DNext]_dvars, Unique', DTyped',
         NEW e \in interest, e.named,
         \E g \in Fd : fdt'[g] = e.desc
  PROVE  fdt'[e.data] = e.desc
<1>0. /\ TypeOK /\ DTyped /\ Unique /\ e \in Entry /\ fdt[e.data] = e.desc
  BY DEF Named, DTyped, Typed, Listed, DataNamesSource
<1>1. e.data \in Fd /\ e.desc \in Desc /\ e.desc # NoDesc
  BY <1>0, MaxOpenAssumption DEF Entry, Desc, NoDesc
<1>2. PICK g \in Fd : fdt'[g] = e.desc
  OBVIOUS
<1>3. CASE fdt'[g] = fdt[g]
  <2>1. g = e.data
    BY <1>0, <1>1, <1>2, <1>3 DEF Unique
  <2> QED
    BY <1>2, <2>1
<1>4. CASE fdt'[g] = born + 1
  BY <1>0, <1>1, <1>2, <1>4 DEF Unique, TypeOK
<1> QED
  BY <1>0, <1>1, <1>2, <1>3, <1>4, StepIsWide, Meaning DEF DTyped

(* Every step keeps the data of events right. *)
LEMMA StepNamed == Named /\ [ENext]_evars => Named'
<1> SUFFICES ASSUME Named, [ENext]_evars PROVE Named'
  OBVIOUS
<1>0. /\ DTyped /\ Listed /\ Unique /\ DataNamesSource
      /\ TypeOK /\ interest \subseteq Entry
  BY DEF Named, DTyped, Typed, Listed
<1>1. [DNext]_dvars
  BY StepIsDirectoryStep
<1>2. DTyped' /\ Listed' /\ Unique'
  BY <1>0, <1>1, StepDTyped, StepListed, StepIsWide, WideUnique DEF DTyped
<1> SUFFICES DataNamesSource'
  BY <1>2 DEF Named
<1>3. CASE HandlesAndStreams
  <2> SUFFICES ASSUME NEW e \in interest', e.named PROVE fdt'[e.data] = e.desc
    BY DEF DataNamesSource
  <2>1. e \in interest /\ \E g \in Fd : fdt'[g] = e.desc
    BY <1>3 DEF HandlesAndStreams, Purge
  <2> QED
    BY <1>1, <1>2, <2>1, PurgeNames
<1>4. ASSUME NEW o \in EpollObj, Create(o) PROVE DataNamesSource'
  <2> SUFFICES ASSUME NEW e \in interest, e.named PROVE fdt'[e.data] = e.desc
    BY <1>4 DEF Create, DataNamesSource
  <2>1. PICK f \in Fd : KOpen(f)
    BY <1>4 DEF Create, Make
  <2>2. fdt[e.data] = e.desc /\ e.data \in Fd /\ e.desc # NoDesc
    BY <1>0, MaxOpenAssumption DEF DataNamesSource, Entry, Desc, NoDesc
  <2> QED
    BY <1>0, <2>1, <2>2 DEF KOpen, TypeOK
<1>5. ASSUME NEW o \in EpollObj, Wait(o) PROVE DataNamesSource'
  <2>1. PICK e \in interest :
          interest' = (interest \ {e}) \cup {[e EXCEPT !.armed = FALSE]}
    BY <1>5 DEF Wait
  <2>2. /\ [e EXCEPT !.armed = FALSE].named = e.named
        /\ [e EXCEPT !.armed = FALSE].data = e.data
        /\ [e EXCEPT !.armed = FALSE].desc = e.desc
    BY <1>0 DEF Entry
  <2>3. fdt' = fdt
    BY <1>5 DEF Wait, dvars, vars
  <2> QED
    BY <1>0, <2>1, <2>2, <2>3 DEF DataNamesSource
<1>6. ASSUME NEW o \in EpollObj, NEW w \in Watched, NEW flags, NEW named,
             NEW e, e \in interest' => e \in interest \/ e = Event(o, w, flags, named),
             e \in interest', e.named, fdt' = fdt
      PROVE  fdt'[e.data] = e.desc
  BY <1>0, <1>6 DEF DataNamesSource, Event, Target
<1>7. ASSUME NEW o \in EpollObj, NEW w \in Watched, Ctl(o, w)
      PROVE  DataNamesSource'
  <2>1. fdt' = fdt
    BY <1>7 DEF Ctl, CtlAdd, CtlModify, CtlRemove, dvars, vars
  <2>2. \/ \E flags, named : interest' \subseteq interest \cup {Event(o, w, flags, named)}
        \/ interest' \subseteq interest
    BY <1>7 DEF Ctl, CtlAdd, CtlModify, CtlRemove
  <2>3. PICK flags, named : interest' \subseteq interest \cup {Event(o, w, flags, named)}
    BY <2>2
  <2> QED
    BY <1>6, <2>1, <2>3 DEF DataNamesSource
<1>8. CASE UNCHANGED evars
  BY <1>0, <1>8 DEF evars, dvars, vars, DataNamesSource
<1> QED
  BY <1>3, <1>4, <1>5, <1>7, <1>8 DEF ENext

(* However descriptors are closed, reused, moved and taken over, and however *)
(* ::close fails, the number that an event carries denotes the description   *)
(* the event is about.                                                       *)
THEOREM EventsNameTheirSource == ESpec => []DataNamesSource
<1>1. ESpec => []Named
  BY InitNamed, StepNamed, PTL DEF ESpec
<1> QED
  BY <1>1, PTL DEF Named
-------------------------------------------------------------------------------
(* An open number of a live handle denotes what the handle was entrusted     *)
(* with.                                                                     *)
LEMMA TargetIsGot ==
  ASSUME Separated, NEW o \in Obj, st[o] = "live", IsOpen(raw_descriptor_[o])
  PROVE  Target(o) = got[o]
BY NFdAssumption DEF Separated, Faithful, Closer, IsOpen, Target, Fd, Null

(* What a call of ctl changes concerns what its two handles denote. *)
LEMMA CtlTargets ==
  ASSUME Separated, NEW o \in EpollObj, NEW w \in Watched, Ctl(o, w),
         NEW e \in (interest \ interest') \cup (interest' \ interest)
  PROVE  e.ep = got[o] /\ e.desc = got[w]
<1>1. CtlValid(o, w) /\ o \in Obj /\ w \in Obj
  BY EpollAssumption DEF Ctl, CtlAdd, CtlModify, CtlRemove, Watched, FdObj
<1>2. Target(o) = got[o] /\ Target(w) = got[w]
  BY <1>1, TargetIsGot DEF CtlValid
<1>3. \A flags, named : /\ Event(o, w, flags, named).ep = Target(o)
                        /\ Event(o, w, flags, named).desc = Target(w)
  BY DEF Event
<1>4. e \in Registered(o, w) \/ \E flags, named : e = Event(o, w, flags, named)
  BY DEF Ctl, CtlAdd, CtlModify, CtlRemove
<1> QED
  BY <1>2, <1>3, <1>4 DEF Registered

(* epoll exists on Linux only, where a ::close that fails has released the   *)
(* number.  As long as no close() reports such a failure (destructors' may   *)
(* fail as they like: they leave no handle behind) and nobody uses           *)
(* file::close, ctl concerns the instance and the description that the two   *)
(* handles were entrusted with: never one that has been given the number of  *)
(* a handle since.                                                           *)
THEOREM CtlHitsItsTarget ==
  ASSUME FileObj = {}, "released" \notin CloseFailure
  PROVE  ESpec => RightTarget
<1>1. ESpec => []DOwned
  <2>1. EInit => DOwned
    BY InitDOwned DEF EInit
  <2> QED
    BY <2>1, StepIsDirectoryStep, StepDOwned, PTL DEF ESpec
<1> DEFINE Right ==
      \A o \in EpollObj, w \in Watched :
        Ctl(o, w) => \A e \in (interest \ interest') \cup (interest' \ interest) :
                       e.ep = got[o] /\ e.desc = got[w]
<1>2. DOwned /\ [ENext]_evars => [Right]_evars
  BY CtlTargets DEF DOwned, Owned
<1>3. ESpec => [][Right]_evars
  BY <1>1, <1>2, PTL DEF ESpec
<1> QED
  BY <1>3 DEF RightTarget

(* Under the same conditions epolls, handles, streams and code with plain    *)
(* numbers never step on each other's descriptors: each open one is due to   *)
(* be closed by one party, and integers and streams keep what they have.     *)
THEOREM EveryDescriptorHasOneParty ==
  ASSUME FileObj = {}, "released" \notin CloseFailure
  PROVE  ESpec => [](SoleCloser /\ OutsideIntact /\ StreamIntact)
<1>1. DSpec => [](SoleCloser /\ OutsideIntact) /\ []StreamIntact
  BY SoleOwnershipBesideStreams, StreamsKeepTheirDescriptor
<1> QED
  BY <1>1, EpollImplementsDirectory, PTL

(* And together they implement Ownership: nothing that epoll does is visible *)
(* in who holds what.                                                        *)
THEOREM EpollImplementsOwnership ==
  ASSUME FileObj = {}, "released" \notin CloseFailure
  PROVE  ESpec => ImplementsOwnership
BY EpollImplementsDirectory, HandlesAndStreamsImplementOwnership
===============================================================================

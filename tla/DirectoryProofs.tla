--------------------------- MODULE DirectoryProofs ---------------------------
(* Theorems about Directory for every set of handles and streams, every size *)
(* of the descriptor table and every number of opens.                        *)
EXTENDS Directory, DescriptorProofs

(* To the descriptor table a program with streams takes steps of Descriptor, *)
(* except that a ::closedir of a freed stream closes any number.             *)
Wide ==
  \/ [Next]_vars
  \/ \E o \in Obj, f \in Fd : CloseNumber(o, f) \/ DestroyNumber(o, f)

(* Opening a stream is one more factory or constructor, and closing one is   *)
(* closing a handle.                                                         *)
LEMMA StepNarrow ==
  [DNext]_dvars => [Next]_vars \/ \E o \in DirObj : CloseFreed(o)
<1> SUFFICES ASSUME [DNext]_dvars
             PROVE  [Next]_vars \/ \E o \in DirObj : CloseFreed(o)
  OBVIOUS
<1>1. \A o \in DirObj : o \in Obj
  BY DirAssumption
<1>2. \A o \in FdObj : o \in Obj
  BY DEF FdObj
<1>3. ASSUME NEW o \in Obj, NEW other \in Obj, Moves(o, other) PROVE Next
  BY <1>3 DEF Moves, Next
<1>4. CASE NoHandle
  BY <1>4 DEF NoHandle, Next
<1>5. CASE Basic(FdObj)
  BY <1>2, <1>3, <1>5 DEF Basic, Next
<1>6. CASE Full(FdObj)
  BY <1>2, <1>6 DEF Full, Next
<1>7. CASE DirStep
  <2>1. ASSUME NEW p \in ints, OutsideCloseDir(p) PROVE [Next]_vars
    BY <2>1 DEF OutsideCloseDir, Next
  <2>2. ASSUME NEW o \in DirObj,
               OpenDirPath(o) \/ CloseDir(o) \/ CloseNull(o)
        PROVE  Next
    BY <1>1, <2>2 DEF OpenDirPath, CloseDir, CloseNull, Next
  <2>3. ASSUME NEW o \in DirObj, NEW p \in ints, OpenDirFd(o, p) PROVE [Next]_vars
    BY <1>1, <2>3 DEF OpenDirFd, Next, dvars
  <2>4. ASSUME NEW o \in DirObj,
               \/ Construct(o) \/ Release(o) \/ CloseReturn(o)
               \/ \E p \in ints : Adopt(o, p)
               \/ \E other \in DirObj : Moves(o, other)
        PROVE  Next
    BY <1>1, <1>3, <2>4 DEF Next
  <2> QED
    BY <1>7, <2>1, <2>2, <2>3, <2>4 DEF DirStep
<1> QED
  BY <1>4, <1>5, <1>6, <1>7 DEF DNext, dvars

(* Only a ::closedir of a freed stream closes another number. *)
LEMMA StepIsWide == [DNext]_dvars => Wide
BY StepNarrow, DirAssumption DEF Wide, CloseFreed

(* Which number ::closedir reads from freed memory is no matter of types. *)
LEMMA WideTyped == Typed /\ Wide => Typed'
BY StepTyped, CloseNumberTyped, DestroyNumberTyped DEF Wide

(* Nor does it make a description appear under two numbers. *)
LEMMA WideUnique == Typed /\ Unique /\ Wide => Unique'
<1> SUFFICES ASSUME Typed, Unique, NEW o \in Obj, NEW f \in Fd,
                    CloseNumber(o, f) \/ DestroyNumber(o, f)
             PROVE  Unique'
  BY StepUnique DEF Wide, Typed
<1>1. born' = born /\ \A g \in Fd : fdt'[g] = fdt[g] \/ fdt'[g] = NoDesc
  BY DEF CloseNumber, DestroyNumber, KClose, Typed, TypeOK
<1> QED
  BY <1>1, MaxOpenAssumption DEF Unique, Typed, TypeOK, NoDesc

(* A number that denotes something after a step denotes the same as before,  *)
(* or was free and denotes what the step has opened.                         *)
LEMMA Meaning ==
  ASSUME Typed, Wide, NEW f \in Fd, fdt'[f] # NoDesc
  PROVE  fdt'[f] = fdt[f] \/ (fdt[f] = NoDesc /\ fdt'[f] = born + 1)
<1> DEFINE Goal == fdt'[f] = fdt[f] \/ (fdt[f] = NoDesc /\ fdt'[f] = born + 1)
<1>0. TypeOK
  BY DEF Typed
<1>1. ASSUME NEW g \in Fd, KOpen(g) PROVE Goal
  BY <1>0, <1>1 DEF KOpen, TypeOK
<1>2. ASSUME NEW g, NEW e, NEW failure, KClose(g, e, failure) PROVE Goal
  BY <1>0, <1>2 DEF KClose, TypeOK
<1>3. ASSUME NEW p \in ints, OutsideClose(p) PROVE Goal
  BY <1>0, <1>3 DEF OutsideClose, TypeOK
<1>4. ASSUME NEW o \in Obj, NEW g, CloseNumber(o, g) \/ DestroyNumber(o, g) PROVE Goal
  BY <1>2, <1>4 DEF CloseNumber, DestroyNumber
<1>5. CASE ProcessEnds
  BY <1>5 DEF ProcessEnds
<1> QED
  BY <1>1, <1>2, <1>3, <1>4, <1>5
     DEF Wide, Next, vars, OutsideOpen, Construct, Make, Release, CloseCall,
         CloseReturn, FileClose, Destroy, Adopt, MoveConstruct, MoveAssign,
         MoveAssignTraps
-------------------------------------------------------------------------------
Streamed == stream \in [Desc -> {"none", "open", "freed"}]

DTyped == Typed /\ Streamed

(* No stream exists at the start. *)
LEMMA InitDTyped == DInit => DTyped
BY InitTyped DEF DInit, DTyped, Streamed

(* What a step does to the streams: it opens one or frees one, or none.      *)
LEMMA StreamSteps ==
  ASSUME [DNext]_dvars
  PROVE  \/ UNCHANGED stream
         \/ \E d, v : v \in {"open", "freed"} /\ stream' = [stream EXCEPT ![d] = v]
BY DEF DNext, dvars, DirStep, OutsideCloseDir, OpenDirPath, OpenDirFd, CloseDir,
       CloseNull, CloseFreed

(* Steps of handles and of streams keep the types. *)
LEMMA StepDTyped == DTyped /\ [DNext]_dvars => DTyped'
<1> SUFFICES ASSUME DTyped, [DNext]_dvars PROVE DTyped'
  OBVIOUS
<1>1. Typed'
  BY StepIsWide, WideTyped DEF DTyped
<1>2. Streamed'
  BY StreamSteps DEF DTyped, Streamed
<1> QED
  BY <1>1, <1>2 DEF DTyped

(* The variables of handles and streams keep their types: what fdopendir     *)
(* takes over and what closedir closes are numbers of the table, even when   *)
(* closedir reads them from freed memory.                                    *)
THEOREM DirectoryTyping == DSpec => []DirTypeOK
<1>1. DSpec => []DTyped
  BY InitDTyped, StepDTyped, PTL DEF DSpec
<1>2. DTyped => DirTypeOK
  BY DEF DTyped, Typed, Streamed, DirTypeOK
<1> QED
  BY <1>1, <1>2, PTL
-------------------------------------------------------------------------------
(* Number f is known to somebody as the number of description d. *)
Known(f, d) ==
  \/ <<f, d>> \in ints
  \/ \E o \in Obj : raw_descriptor_[o] = f /\ got[o] = d /\ d # NoDesc

(* A description that somebody knows is open under the number it is known    *)
(* by or not at all, and a stream that has been freed has no open            *)
(* description.                                                              *)
Pinned ==
  /\ \A f, g \in Fd, d \in Desc : Known(f, d) => d <= born /\ (fdt[g] = d => g = f)
  /\ \A d \in Desc : stream[d] # "none" => d <= born
  /\ \A d \in Desc : stream[d] = "freed" => \A g \in Fd : fdt[g] # d

(* What is known after a step was known before, or has just been opened.     *)
LEMMA StepKnown ==
  ASSUME Typed, Wide, NEW f \in Fd, NEW d \in Desc, Known(f, d)'
  PROVE  Known(f, d) \/ (d = born + 1 /\ fdt'[f] = d /\ born' = born + 1)
<1> DEFINE Goal == Known(f, d) \/ (d = born + 1 /\ fdt'[f] = d /\ born' = born + 1)
<1>0. TypeOK /\ Entrusted /\ d # NoDesc /\ f # Null
  BY NFdAssumption, MaxOpenAssumption DEF Typed, Desc, NoDesc, Fd, Null
<1>a. <<f, d>> \in ints' \/ \E o \in Obj : raw_descriptor_'[o] = f /\ got'[o] = d
  BY DEF Known
<1>b. ASSUME ints' \subseteq ints,
             \A o \in Obj : \/ raw_descriptor_'[o] = Null
                            \/ \E p \in Obj : /\ raw_descriptor_'[o] = raw_descriptor_[p]
                                             /\ got'[o] = got[p]
      PROVE  Goal
  BY <1>0, <1>a, <1>b DEF Known
<1>c. ASSUME UNCHANGED <<raw_descriptor_, got>>, ints' \subseteq ints PROVE Goal
  BY <1>b, <1>c
<1>1. CASE OutsideOpen
  <2>1. PICK g \in Fd : KOpen(g) /\ ints' = ints \cup {<<g, born + 1>>}
    BY <1>1 DEF OutsideOpen
  <2>2. UNCHANGED <<raw_descriptor_, got>>
    BY <1>1 DEF OutsideOpen, objVars
  <2> QED
    BY <1>0, <1>a, <2>1, <2>2 DEF KOpen, TypeOK, Known
<1>2. ASSUME NEW p \in ints, OutsideClose(p) PROVE Goal
  BY <1>2, <1>c DEF OutsideClose, objVars
<1>3. ASSUME NEW o \in Obj, Construct(o) PROVE Goal
  BY <1>0, <1>3, <1>b DEF Construct, Begin, TypeOK
<1>4. ASSUME NEW o \in Obj, Make(o) PROVE Goal
  <2>1. PICK g \in Fd : KOpen(g) /\ Begin(o, g, born + 1) /\ ints' = ints
    BY <1>4 DEF Make
  <2>2. /\ raw_descriptor_'[o] = g /\ got'[o] = born + 1
        /\ \A p \in Obj \ {o} : /\ raw_descriptor_'[p] = raw_descriptor_[p]
                                 /\ got'[p] = got[p]
    BY <1>0, <2>1 DEF Begin, TypeOK
  <2>3. fdt'[g] = born + 1 /\ born' = born + 1
    BY <1>0, <2>1 DEF KOpen, TypeOK
  <2> QED
    BY <1>0, <1>a, <2>1, <2>2, <2>3 DEF Known
<1>5. ASSUME NEW o \in Obj, Release(o) PROVE Goal
  <2>1. CASE <<f, d>> \in ints'
    BY <1>0, <1>5, <2>1 DEF Release, Known
  <2>2. CASE \E p \in Obj : raw_descriptor_'[p] = f /\ got'[p] = d
    BY <1>0, <1>5, <2>2 DEF Release, Known, TypeOK
  <2> QED
    BY <1>a, <2>1, <2>2
<1>6. ASSUME NEW o \in Obj, NEW g, CloseNumber(o, g) PROVE Goal
  BY <1>6, <1>c DEF CloseNumber
<1>7. ASSUME NEW o \in Obj, CloseReturn(o) PROVE Goal
  BY <1>0, <1>7, <1>b DEF CloseReturn, TypeOK
<1>8. ASSUME NEW o \in Obj, FileClose(o) PROVE Goal
  BY <1>8, <1>c DEF FileClose, objVars
<1>9. ASSUME NEW o \in Obj, NEW g, DestroyNumber(o, g) PROVE Goal
  BY <1>0, <1>9, <1>b DEF DestroyNumber, TypeOK
<1>10. ASSUME NEW o \in Obj, NEW p \in ints, Adopt(o, p) PROVE Goal
  <2>1. /\ raw_descriptor_'[o] = p[1] /\ got'[o] = p[2] /\ p = <<p[1], p[2]>>
        /\ \A q \in Obj \ {o} : /\ raw_descriptor_'[q] = raw_descriptor_[q]
                                 /\ got'[q] = got[q]
    BY <1>0, <1>10, IntsType DEF Adopt, Begin, TypeOK
  <2> QED
    BY <1>0, <1>10, <1>a, <2>1 DEF Adopt, Known
<1>11. ASSUME NEW o \in Obj, NEW other \in Obj,
              MoveConstruct(o, other) \/ MoveAssign(o, other)
       PROVE  Goal
  BY <1>0, <1>11, <1>b DEF MoveConstruct, MoveAssign, TypeOK
<1>12. CASE ProcessEnds
  BY <1>0, <1>12, <1>b DEF ProcessEnds
<1>13. CASE UNCHANGED vars
  BY <1>13, <1>c DEF vars
<1> QED
  BY <1>1, <1>2, <1>3, <1>4, <1>5, <1>6, <1>7, <1>8, <1>9, <1>10, <1>11, <1>12,
     <1>13 DEF Wide, Next, CloseCall, Destroy, MoveAssignTraps

(* A step that frees a stream leaves no number open for its description, and *)
(* one that opens a stream does so on a description that somebody knew or on *)
(* a new one.                                                                *)
LEMMA StepStream ==
  ASSUME DTyped, Unique, Pinned, [DNext]_dvars, NEW d \in Desc, stream'[d] # stream[d]
  PROVE  /\ d <= born'
         /\ stream'[d] = "freed" => \A g \in Fd : fdt'[g] # d
<1>0. /\ Typed /\ TypeOK /\ Entrusted /\ Streamed
      /\ \A f, g \in Fd, c \in Desc :
           Known(f, c) => c <= born /\ (fdt[g] = c => g = f)
  BY DEF DTyped, Typed, Pinned
<1>a. \A o \in DirObj : o \in Obj
  BY DirAssumption
<1>b. \A p \in ints : p[1] \in Fd /\ p[2] \in Desc /\ Known(p[1], p[2])
  BY <1>0, IntsType DEF Known
<1>c. d # NoDesc
  BY MaxOpenAssumption DEF Desc, NoDesc
<1> DEFINE Goal == d <= born' /\ (stream'[d] = "freed" => \A g \in Fd : fdt'[g] # d)
<1>1. ASSUME NEW p \in ints, OutsideCloseDir(p) PROVE Goal
  <2>1. d = p[2] /\ born' = born /\ fdt' = [fdt EXCEPT ![p[1]] = NoDesc]
    BY <1>0, <1>1 DEF OutsideCloseDir, OutsideClose, Streamed
  <2> QED
    BY <1>0, <1>b, <1>c, <2>1 DEF TypeOK
<1>2. ASSUME NEW o \in DirObj, OpenDirPath(o) PROVE Goal
  <2>1. d = born + 1 /\ stream'[d] = "open"
    BY <1>0, <1>2 DEF OpenDirPath, Streamed
  <2>2. born' = born + 1
    BY <1>2 DEF OpenDirPath, Make, KOpen
  <2> QED
    BY <1>0, <2>1, <2>2 DEF TypeOK
<1>3. ASSUME NEW o \in DirObj, NEW p \in ints, OpenDirFd(o, p) PROVE Goal
  <2>1. d = p[2] /\ stream'[d] = "open" /\ Adopt(o, p)
    BY <1>0, <1>3 DEF OpenDirFd, Streamed, dvars
  <2> QED
    BY <1>0, <1>b, <2>1 DEF Adopt
<1>4. ASSUME NEW o \in DirObj, CloseDir(o) PROVE Goal
  <2>1. d = got[o] /\ fdt'[raw_descriptor_[o]] = NoDesc
    BY <1>0, <1>4 DEF CloseDir, Streamed
  <2>2. raw_descriptor_[o] \in Fd /\ Known(raw_descriptor_[o], d) /\ o \in Obj
    BY <1>0, <1>4, <1>a, <1>c, <2>1 DEF CloseDir, TypeOK, Known
  <2>3. born' = born
    BY <1>4 DEF CloseDir, CloseCall, CloseNumber, Destroy, DestroyNumber
  <2>4. \A g \in Fd : fdt'[g] # NoDesc => fdt'[g] = fdt[g]
    BY <1>0, <1>4, CloseFrees
       DEF CloseDir, CloseCall, CloseNumber, Destroy, DestroyNumber
  <2> QED
    BY <1>0, <1>c, <2>1, <2>2, <2>3, <2>4
<1> QED
  BY <1>1, <1>2, <1>3, <1>4 DEF DNext, dvars, DirStep, CloseNull, CloseFreed

(* Numbers come and go, and are read from freed memory; descriptions stay    *)
(* pinned to the number they are known by.                                   *)
LEMMA StepPinned == DTyped /\ Unique /\ Pinned /\ [DNext]_dvars => Pinned'
<1> SUFFICES ASSUME DTyped, Unique, Pinned, [DNext]_dvars PROVE Pinned'
  OBVIOUS
<1>0. Typed /\ TypeOK /\ Wide /\ Unique' /\ TypeOK'
  BY StepIsWide, WideUnique, WideTyped DEF DTyped, Typed
<1>1. born' >= born /\ born \in Nat /\ born' \in Nat
  BY <1>0 DEF Wide, Next, vars, ProcessEnds, OutsideOpen, OutsideClose, KOpen,
              Construct, Make, Release, CloseCall, CloseNumber, CloseReturn,
              FileClose, Destroy, DestroyNumber, Adopt, MoveConstruct, MoveAssign,
              MoveAssignTraps, TypeOK
<1>2. \A c \in Desc : c # NoDesc /\ c \in Nat
  BY MaxOpenAssumption DEF Desc, NoDesc
<1>3. ASSUME NEW f \in Fd, NEW g \in Fd, NEW d \in Desc, Known(f, d)'
      PROVE  d <= born' /\ (fdt'[g] = d => g = f)
  <2>1. CASE Known(f, d)
    <3>1. d <= born /\ (fdt[g] = d => g = f)
      BY <2>1 DEF Pinned
    <3> QED
      BY <1>0, <1>1, <1>2, <3>1, Meaning
  <2>2. CASE d = born + 1 /\ fdt'[f] = d /\ born' = born + 1
    BY <1>0, <1>1, <1>2, <2>2 DEF Unique
  <2> QED
    BY <1>0, <1>3, <2>1, <2>2, StepKnown
<1>4. ASSUME NEW d \in Desc, stream'[d] # "none" PROVE d <= born'
  BY <1>1, <1>2, <1>4, StepStream DEF Pinned
<1>5. ASSUME NEW d \in Desc, stream'[d] = "freed", NEW g \in Fd PROVE fdt'[g] # d
  <2>1. CASE stream[d] = "freed"
    BY <1>0, <1>1, <1>2, <2>1, Meaning DEF Pinned
  <2> QED
    BY <1>5, <2>1, StepStream
<1> QED
  BY <1>3, <1>4, <1>5 DEF Pinned

(* A handle that has a pointer to a freed stream answers for no open number, *)
(* so that nothing is lost when it gives the pointer up.                     *)
LEMMA StepNoLeakWithStreams ==
  ASSUME "kept" \notin DtorFailure
  PROVE  DTyped /\ Pinned /\ NoLeak /\ [DNext]_dvars => NoLeak'
<1> SUFFICES ASSUME DTyped, Pinned, NoLeak, [DNext]_dvars PROVE NoLeak'
  OBVIOUS
<1>0. Typed /\ TypeOK /\ Entrusted
  BY DEF DTyped, Typed
<1>1. CASE [Next]_vars
  BY <1>0, <1>1, StepNoLeak
<1>2. ASSUME NEW o \in DirObj, CloseFreed(o) PROVE NoLeak'
  <2>1. /\ o \in Obj /\ got[o] \in Desc
        /\ \A g \in Fd : fdt[g] # got[o]
    BY <1>0, <1>2, DirAssumption DEF CloseFreed, TypeOK, Entrusted, Pinned
  <2>2. PICK f \in Fd : CloseNumber(o, f) \/ DestroyNumber(o, f)
    BY <1>2 DEF CloseFreed
  <2>3. \A g \in Fd : fdt'[g] # NoDesc => fdt'[g] = fdt[g]
    BY <1>0, <2>2, CloseFrees DEF CloseNumber, DestroyNumber
  <2>4. \A p \in Obj : p # o /\ Closer(p) =>
          /\ Closer(p)'
          /\ raw_descriptor_'[p] = raw_descriptor_[p] /\ got'[p] = got[p]
    BY <1>0, <2>2 DEF CloseNumber, DestroyNumber, TypeOK, Closer
  <2>5. ints' = ints
    BY <2>2 DEF CloseNumber, DestroyNumber
  <2> QED
    BY <2>1, <2>3, <2>4, <2>5 DEF NoLeak
<1>3. [Next]_vars \/ \E o \in DirObj : CloseFreed(o)
  BY StepNarrow
<1> QED
  BY <1>1, <1>2, <1>3

(* As long as a ::close that fails in a destructor has released its number   *)
(* (as on Linux), whatever is open will be closed by a stream, a handle or   *)
(* the code that has it, however opendir(dir_fd) ends and even when          *)
(* ::closedir is called on a stream that a failed one has freed.             *)
THEOREM NothingLostWithStreams ==
  ASSUME "kept" \notin DtorFailure
  PROVE  DSpec => []NoLeak
<1>1. DInit => Unique /\ Pinned /\ NoLeak
  BY InitOwned, NFdAssumption, MaxOpenAssumption
     DEF DInit, Init, Owned, Pinned, Known, NoLeak, Fd, Desc, Null, NoDesc
<1>2. DTyped /\ Unique /\ [DNext]_dvars => Unique'
  BY StepIsWide, WideUnique DEF DTyped
<1>3. DSpec => [](DTyped /\ Unique /\ Pinned /\ NoLeak)
  BY <1>1, <1>2, InitDTyped, StepDTyped, StepPinned, StepNoLeakWithStreams, PTL
     DEF DSpec
<1> QED
  BY <1>3, PTL
-------------------------------------------------------------------------------
(* No stream is freed under a handle that will close it: StreamIntact is     *)
(* inductive beside Owned.                                                   *)
DOwned == Owned /\ Streamed /\ StreamIntact

(* At the start there is no stream. *)
LEMMA InitDOwned == DInit => DOwned
<1>1. DInit => Owned /\ Streamed
  BY InitOwned, InitDTyped DEF DInit, DTyped
<1>2. DInit => StreamIntact
  BY DirAssumption DEF DInit, Init, StreamIntact, Closer
<1> QED
  BY <1>1, <1>2 DEF DOwned

(* So that ::closedir never meets a freed stream. *)
LEMMA StepIsDescriptorStep == DOwned /\ [DNext]_dvars => [Next]_vars
BY StepNarrow, DirAssumption
   DEF DOwned, StreamIntact, Closer, CloseFreed, CloseNumber, DestroyNumber

(* Two parties that are due to close have different descriptions. *)
LEMMA OwnersDiffer ==
  ASSUME Owned, NEW o \in Obj, Closer(o)
  PROVE  /\ raw_descriptor_[o] \in Fd /\ got[o] \in Desc /\ got[o] # NoDesc
         /\ \A p \in Obj : p # o /\ Closer(p) => got[p] # got[o]
         /\ \A q \in ints : q[2] # got[o]
<1>0. TypeOK /\ Entrusted /\ Faithful /\ Apart /\ OutsideIntact /\ Unique
  BY DEF Owned, Separated, Typed
<1>1. \A p \in Obj : Closer(p) =>
        /\ raw_descriptor_[p] \in Fd /\ got[p] \in Desc /\ got[p] # NoDesc
        /\ fdt[raw_descriptor_[p]] = got[p]
  BY <1>0, MaxOpenAssumption
     DEF Closer, TypeOK, Entrusted, Faithful, Desc, NoDesc
<1>2. \A q \in ints : q[1] \in Fd /\ fdt[q[1]] = q[2]
  BY <1>0, IntsType DEF OutsideIntact
<1> QED
  BY <1>0, <1>1, <1>2 DEF Apart, Unique

(* Every step keeps the streams of handles open, when no pposix::file is     *)
(* used and a ::closedir or ::close that fails in close() has done nothing.  *)
LEMMA StepDOwned ==
  ASSUME FileObj = {}, "released" \notin CloseFailure
  PROVE  DOwned /\ [DNext]_dvars => DOwned'
<1> SUFFICES ASSUME DOwned, [DNext]_dvars PROVE DOwned'
  OBVIOUS
<1>0. /\ Owned /\ Separated /\ Typed /\ TypeOK /\ Streamed /\ StreamIntact
  BY DEF DOwned, Owned, Separated, Typed
<1>1. [Next]_vars
  BY StepIsDescriptorStep
<1>2. Owned' /\ Streamed'
  BY <1>0, <1>1, StepOwned, StepDTyped DEF DTyped
<1>3. Faithful'
  BY <1>2 DEF Owned, Separated
<1> SUFFICES ASSUME NEW o \in DirObj, Closer(o)' PROVE stream'[got'[o]] = "open"
  BY <1>2, <1>3, DirAssumption DEF DOwned, StreamIntact, Faithful
<1>a. \A p \in DirObj : p \in Obj
  BY DirAssumption
<1>b. \A p \in DirObj : Closer(p) => stream[got[p]] = "open"
  BY <1>0 DEF StreamIntact
<1> DEFINE Goal == stream'[got'[o]] = "open"
<1>c. ASSUME UNCHANGED stream,
             \E p \in DirObj : Closer(p) /\ got'[o] = got[p]
      PROVE  Goal
  BY <1>b, <1>c
<1>4. ASSUME UNCHANGED stream, o \in Obj,
             NoHandle \/ Basic(FdObj) \/ Full(FdObj)
      PROVE  Goal
  <2>1. Closer(o) /\ got'[o] = got[o]
    BY <1>0, <1>4
       DEF NoHandle, ProcessEnds, OutsideOpen, OutsideClose, Basic, Full, FdObj,
           Moves, Construct, Make, Release, CloseCall, CloseNumber, CloseReturn,
           FileClose, Destroy, DestroyNumber, Adopt, Begin, MoveConstruct,
           MoveAssign, MoveAssignTraps, objVars, Closer, TypeOK
  <2> QED
    BY <1>4, <1>c, <2>1
<1>5. ASSUME NEW p \in ints, OutsideCloseDir(p) PROVE Goal
  <2>1. Closer(o) /\ got'[o] = got[o]
    BY <1>5 DEF OutsideCloseDir, OutsideClose, objVars, Closer
  <2>2. got[o] # p[2]
    BY <1>0, <1>a, <2>1, OwnersDiffer
  <2> QED
    BY <1>0, <1>5, <1>b, <2>1, <2>2 DEF OutsideCloseDir, Streamed
<1>6. ASSUME NEW n \in DirObj, OpenDirPath(n) PROVE Goal
  <2>1. born + 1 \in Desc
    BY <1>0, <1>6, KOpenType DEF OpenDirPath, Make
  <2>2. got'[o] = born + 1 \/ (Closer(o) /\ got'[o] = got[o])
    BY <1>0, <1>6, <1>a DEF OpenDirPath, Make, Begin, TypeOK, Closer
  <2> QED
    BY <1>0, <1>6, <1>b, <2>1, <2>2 DEF OpenDirPath, Streamed
<1>7. ASSUME NEW n \in DirObj, NEW p \in ints, OpenDirFd(n, p) PROVE Goal
  <2>1. CASE Adopt(n, p) /\ stream' = [stream EXCEPT ![p[2]] = "open"]
    <3>1. p[2] \in Desc
      BY <1>0, IntsType
    <3>2. got'[o] = p[2] \/ (Closer(o) /\ got'[o] = got[o])
      BY <1>0, <2>1, <1>a DEF Adopt, Begin, TypeOK, Closer
    <3> QED
      BY <1>0, <1>b, <2>1, <3>1, <3>2 DEF Streamed
  <2>2. CASE UNCHANGED dvars
    BY <1>c, <2>2 DEF dvars, vars, Closer
  <2> QED
    BY <1>7, <2>1, <2>2 DEF OpenDirFd
<1>8. ASSUME NEW n \in DirObj, CloseDir(n) PROVE Goal
  <2>0. Closer(n) /\ n \in Obj /\ st[n] = "live"
    BY <1>8, <1>a
       DEF CloseDir, CloseCall, CloseNumber, Destroy, DestroyNumber, Closer
  <2>1. Closer(o) /\ got'[o] = got[o]
    BY <1>0, <1>8, <1>a
       DEF CloseDir, CloseCall, CloseNumber, Destroy, DestroyNumber, TypeOK, Closer
  <2>2. CASE o # n
    <3>1. got[o] # got[n]
      BY <1>0, <1>a, <2>0, <2>1, <2>2, OwnersDiffer
    <3> QED
      BY <1>0, <1>8, <1>b, <2>1, <3>1 DEF CloseDir, Streamed
  <2>3. CASE o = n
    <3>1. fdt'[raw_descriptor_[n]] = got[n] /\ got[n] # NoDesc
      <4>1. raw_descriptor_'[o] = raw_descriptor_[o]
        BY <1>0, <1>8, <2>3, <1>a
           DEF CloseDir, CloseCall, CloseNumber, Destroy, DestroyNumber, TypeOK,
               Closer
      <4> QED
        BY <1>0, <1>3, <1>a, <2>0, <2>1, <2>3, <4>1, OwnersDiffer DEF Faithful
    <3> QED
      BY <1>8, <1>b, <2>1, <2>3, <3>1 DEF CloseDir
  <2> QED
    BY <2>2, <2>3
<1>9. ASSUME NEW n \in DirObj, CloseNull(n) PROVE Goal
  <2>1. Closer(o) /\ got'[o] = got[o]
    BY <1>0, <1>9, <1>a
       DEF CloseNull, CloseCall, CloseNumber, Destroy, DestroyNumber, TypeOK, Closer
  <2> QED
    BY <1>9, <1>c, <2>1 DEF CloseNull
<1>10. ASSUME NEW n \in DirObj, CloseFreed(n) PROVE Goal
  BY <1>10, <1>b, <1>a DEF CloseFreed, CloseNumber, DestroyNumber, Closer
<1>11. ASSUME NEW n \in DirObj, UNCHANGED stream,
              Construct(n) \/ Release(n) \/ CloseReturn(n)
       PROVE  Goal
  <2>1. Closer(o) /\ got'[o] = got[o]
    BY <1>0, <1>11, <1>a
       DEF Construct, Begin, Release, CloseReturn, TypeOK, Closer
  <2> QED
    BY <1>11, <1>c, <2>1
<1>12. ASSUME NEW n \in DirObj, NEW p \in ints, UNCHANGED stream,
              Dirp(p) /\ Adopt(n, p)
       PROVE  Goal
  <2>1. got'[o] = p[2] \/ (Closer(o) /\ got'[o] = got[o])
    BY <1>0, <1>12, <1>a DEF Adopt, Begin, TypeOK, Closer
  <2> QED
    BY <1>12, <1>c, <2>1 DEF Dirp
<1>13. ASSUME NEW n \in DirObj, NEW other \in DirObj, UNCHANGED stream,
              Moves(n, other)
       PROVE  Goal
  <2>1. \E p \in {o, n, other} : Closer(p) /\ got'[o] = got[p]
    BY <1>0, <1>13, <1>a
       DEF Moves, MoveConstruct, MoveAssign, MoveAssignTraps, ProcessEnds, TypeOK,
           Closer
  <2> QED
    BY <1>13, <1>c, <2>1
<1>14. CASE UNCHANGED dvars
  BY <1>14, <1>c DEF dvars, vars, Closer
<1> QED
  BY <1>4, <1>5, <1>6, <1>7, <1>8, <1>9, <1>10, <1>11, <1>12, <1>13, <1>14, <1>a
     DEF DNext, DirStep

(* As long as no close() that reports failure has released its descriptor or *)
(* freed its stream (on Linux: as long as no close() reports failure) and    *)
(* nobody uses file::close, ::closedir is never called on a stream that has  *)
(* been freed, and a stream keeps the descriptor it was opened on: no        *)
(* unique_dir_fd that gave the number up, and no other handle or code,       *)
(* closes it behind the stream.                                              *)
THEOREM StreamsKeepTheirDescriptor ==
  ASSUME FileObj = {}, "released" \notin CloseFailure
  PROVE  DSpec => []StreamIntact
<1>1. DSpec => []DOwned
  BY InitDOwned, StepDOwned, PTL DEF DSpec
<1> QED
  BY <1>1, PTL DEF DOwned

(* Under the same conditions a program with streams is, to the descriptor    *)
(* table, a program with handles only, and what is proved of Descriptor      *)
(* holds of it.                                                              *)
THEOREM DirectoryImplementsDescriptor ==
  ASSUME FileObj = {}, "released" \notin CloseFailure
  PROVE  DSpec => Spec
<1>1. DSpec => []DOwned
  BY InitDOwned, StepDOwned, PTL DEF DSpec
<1>2. DInit => Init
  BY DEF DInit
<1> QED
  BY <1>1, <1>2, StepIsDescriptorStep, PTL DEF DSpec, Spec

(* Handles remain sole closers, and code without a handle keeps what it      *)
(* opened, when streams take numbers over, are moved, released and closed.   *)
THEOREM SoleOwnershipBesideStreams ==
  ASSUME FileObj = {}, "released" \notin CloseFailure
  PROVE  DSpec => [](SoleCloser /\ OutsideIntact)
BY DirectoryImplementsDescriptor, SoleOwnership, PTL

(* And handles, directory streams and code with plain numbers together       *)
(* behave as Ownership says: opendir(dir_fd) moves a description and never   *)
(* duplicates or drops it, ::closedir closes the stream's own, and one that  *)
(* fails leaves it with the stream or, in a destructor, to nobody.           *)
THEOREM HandlesAndStreamsImplementOwnership ==
  ASSUME FileObj = {}, "released" \notin CloseFailure
  PROVE  DSpec => ImplementsOwnership
BY DirectoryImplementsDescriptor, DescriptorImplementsOwnership
===============================================================================

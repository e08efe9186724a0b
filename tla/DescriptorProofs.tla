--------------------------- MODULE DescriptorProofs ---------------------------
(* Theorems about Descriptor for every set of handles, every size of the     *)
(* descriptor table and every number of opens, and that Descriptor           *)
(* implements Ownership.                                                     *)
EXTENDS Descriptor, TLAPS

(* ::close changes at most the entry of the number it was given, and only by *)
(* freeing it.                                                               *)
LEMMA KCloseType ==
  ASSUME TypeOK, NEW f, NEW e, NEW failure, KClose(f, e, failure)
  PROVE  fdt' \in [Fd -> Desc \cup {NoDesc}]
BY DEF TypeOK, KClose, IsOpen, NoDesc

(* A successful open keeps the table and the count of descriptions typed.    *)
LEMMA KOpenType ==
  ASSUME TypeOK, NEW f \in Fd, KOpen(f)
  PROVE  /\ fdt' \in [Fd -> Desc \cup {NoDesc}]
         /\ born' \in 0 .. MaxOpen
         /\ born + 1 \in Desc
BY MaxOpenAssumption DEF TypeOK, KOpen, Desc

(* Construction keeps the members typed.                                     *)
LEMMA BeginType ==
  ASSUME TypeOK, NEW o \in Obj, NEW f \in Fd \cup {Null},
         NEW d \in Desc \cup {NoDesc}, Begin(o, f, d)
  PROVE  /\ st' \in [Obj -> {"none", "live", "closing"}]
         /\ raw_descriptor_' \in [Obj -> Fd \cup {Null}]
         /\ got' \in [Obj -> Desc \cup {NoDesc}]
         /\ error' \in [Obj -> {"ok", "EBADF", "EINTR"}]
BY DEF TypeOK, Begin

(* Code without a handle only has descriptor numbers and descriptions.       *)
LEMMA IntsType ==
  ASSUME TypeOK, NEW p \in ints
  PROVE  p[1] \in Fd /\ p[2] \in Desc /\ p = <<p[1], p[2]>>
BY DEF TypeOK

(* TypeOK alone is not inductive: what release() hands out is a description  *)
(* only because a handle that has a number was entrusted with one.           *)
Typed == TypeOK /\ Entrusted

(* No handle and no descriptor exists at the start. *)
LEMMA InitTyped == Init => Typed
BY MaxOpenAssumption DEF Init, Typed, TypeOK, Entrusted

(* close() and the destructor keep the types, whatever number ::close gets.  *)
LEMMA CloseNumberTyped ==
  ASSUME Typed, NEW o \in Obj, NEW f, CloseNumber(o, f)
  PROVE  Typed'
<1>1. PICK e \in {"ok", "EBADF", "EINTR"} :
        KClose(f, e, CloseFailure) /\ error' = [error EXCEPT ![o] = e]
  BY DEF CloseNumber
<1>2. fdt' \in [Fd -> Desc \cup {NoDesc}]
  BY <1>1, KCloseType DEF Typed
<1> QED
  BY <1>1, <1>2 DEF CloseNumber, Typed, TypeOK, Entrusted

(* The destructor's half of the same. *)
LEMMA DestroyNumberTyped ==
  ASSUME Typed, NEW o \in Obj, NEW f, DestroyNumber(o, f)
  PROVE  Typed'
<1>1. fdt' \in [Fd -> Desc \cup {NoDesc}]
  BY KCloseType DEF DestroyNumber, Typed
<1> QED
  BY <1>1 DEF DestroyNumber, Typed, TypeOK, Entrusted

(* Every operation of a handle, and of code without one, keeps the types. *)
LEMMA StepTyped == Typed /\ [Next]_vars => Typed'
<1> SUFFICES ASSUME TypeOK, Entrusted, [Next]_vars PROVE TypeOK' /\ Entrusted'
  BY DEF Typed
<1> USE DEF Null, NoDesc
<1>1. CASE OutsideOpen
  <2>1. PICK f \in Fd : KOpen(f) /\ ints' = ints \cup {<<f, born + 1>>}
    BY <1>1 DEF OutsideOpen
  <2>2. fdt' \in [Fd -> Desc \cup {NoDesc}] /\ born' \in 0 .. MaxOpen
        /\ born + 1 \in Desc
    BY <2>1, KOpenType
  <2>3. ints' \subseteq Fd \X Desc
    BY <2>1, <2>2 DEF TypeOK
  <2> QED
    BY <1>1, <2>2, <2>3 DEF OutsideOpen, TypeOK, Entrusted, objVars
<1>2. ASSUME NEW p \in ints, OutsideClose(p) PROVE TypeOK' /\ Entrusted'
  BY <1>2, IntsType DEF OutsideClose, TypeOK, Entrusted, objVars
<1>3. ASSUME NEW o \in Obj, Construct(o) PROVE TypeOK' /\ Entrusted'
  <2>1. Begin(o, Null, NoDesc)
    BY <1>3 DEF Construct
  <2>2. Entrusted'
    BY <2>1 DEF Begin, TypeOK, Entrusted
  <2> QED
    BY <1>3, <2>1, <2>2, BeginType DEF Construct, TypeOK
<1>4. ASSUME NEW o \in Obj, Make(o) PROVE TypeOK' /\ Entrusted'
  <2>1. PICK f \in Fd : KOpen(f) /\ Begin(o, f, born + 1)
    BY <1>4 DEF Make
  <2>2. fdt' \in [Fd -> Desc \cup {NoDesc}] /\ born' \in 0 .. MaxOpen
        /\ born + 1 \in Desc
    BY <2>1, KOpenType
  <2>3. Entrusted'
    BY <2>1, <2>2, NFdAssumption, MaxOpenAssumption
       DEF Begin, TypeOK, Entrusted, Fd, Desc
  <2> QED
    BY <1>4, <2>1, <2>2, <2>3, BeginType DEF Make, TypeOK
<1>5. ASSUME NEW o \in Obj, Release(o) PROVE TypeOK' /\ Entrusted'
  <2>1. ints' \subseteq Fd \X Desc
    <3>1. CASE raw_descriptor_[o] = Null
      BY <1>5, <3>1 DEF Release, TypeOK
    <3>2. CASE raw_descriptor_[o] # Null
      <4>1. raw_descriptor_[o] \in Fd /\ got[o] \in Desc
        BY <3>2 DEF TypeOK, Entrusted
      <4> QED
        BY <1>5, <3>2, <4>1 DEF Release, TypeOK
    <3> QED
      BY <3>1, <3>2
  <2> QED
    BY <1>5, <2>1 DEF Release, TypeOK, Entrusted
<1>6. ASSUME NEW o \in Obj, CloseCall(o) PROVE TypeOK' /\ Entrusted'
  BY <1>6, CloseNumberTyped DEF CloseCall, Typed
<1>7. ASSUME NEW o \in Obj, CloseReturn(o) PROVE TypeOK' /\ Entrusted'
  BY <1>7 DEF CloseReturn, TypeOK, Entrusted
<1>8. ASSUME NEW o \in Obj, FileClose(o) PROVE TypeOK' /\ Entrusted'
  <2>1. fdt' \in [Fd -> Desc \cup {NoDesc}]
    BY <1>8, KCloseType DEF FileClose
  <2> QED
    BY <1>8, <2>1 DEF FileClose, objVars, TypeOK, Entrusted
<1>9. ASSUME NEW o \in Obj, Destroy(o) PROVE TypeOK' /\ Entrusted'
  BY <1>9, DestroyNumberTyped DEF Destroy, Typed
<1>10. ASSUME NEW o \in Obj, NEW p \in ints, Adopt(o, p)
       PROVE  TypeOK' /\ Entrusted'
  <2>1. Begin(o, p[1], p[2]) /\ p[1] \in Fd /\ p[2] \in Desc
    BY <1>10, IntsType DEF Adopt
  <2>2. Entrusted'
    BY <2>1, NFdAssumption, MaxOpenAssumption
       DEF Begin, TypeOK, Entrusted, Fd, Desc
  <2> QED
    BY <1>10, <2>1, <2>2, BeginType DEF Adopt, TypeOK
<1>11. ASSUME NEW o \in Obj, NEW other \in Obj, MoveConstruct(o, other)
       PROVE  TypeOK' /\ Entrusted'
  BY <1>11 DEF MoveConstruct, TypeOK, Entrusted
<1>12. ASSUME NEW o \in Obj, NEW other \in Obj, MoveAssign(o, other)
       PROVE  TypeOK' /\ Entrusted'
  BY <1>12 DEF MoveAssign, TypeOK, Entrusted
<1>13. ASSUME NEW o \in Obj, NEW other \in Obj, MoveAssignTraps(o, other)
       PROVE  TypeOK' /\ Entrusted'
  BY <1>13 DEF MoveAssignTraps, ProcessEnds, TypeOK, Entrusted
<1>14. CASE UNCHANGED vars
  BY <1>14 DEF vars, TypeOK, Entrusted
<1>15. CASE ProcessEnds
  BY <1>15 DEF ProcessEnds, TypeOK, Entrusted
<1> QED
  BY <1>15, <1>1, <1>2, <1>3, <1>4, <1>5, <1>6, <1>7, <1>8, <1>9, <1>10, <1>11,
     <1>12, <1>13, <1>14 DEF Next

(* Every reachable state is typed: the numbers the handles and the code      *)
(* around them hold are always numbers of the descriptor table or the null   *)
(* value, whatever the order of moves, releases, closes and failures.        *)
THEOREM Typing == Spec => []TypeOK
<1>1. Spec => []Typed
  BY InitTyped, StepTyped, PTL DEF Spec
<1> QED
  BY <1>1, PTL DEF Typed
-------------------------------------------------------------------------------
(* What a handle that is due to close its number relies on: the number still *)
(* denotes what the handle was entrusted with, and nobody else is due to     *)
(* close it.  SoleCloser speaks of open descriptors only and does not carry  *)
(* itself over the reuse of a number: a stale number is harmless until the   *)
(* kernel hands it out again.                                                *)
Faithful == \A o \in Obj : Closer(o) => fdt[raw_descriptor_[o]] = got[o]

Apart ==
  /\ \A o, p \in Obj :
       o # p /\ Closer(o) /\ Closer(p) => raw_descriptor_[o] # raw_descriptor_[p]
  /\ \A o \in Obj : \A q \in ints : Closer(o) => raw_descriptor_[o] # q[1]

Separated == Typed /\ Faithful /\ Apart /\ OutsideIntact

(* At the start there is nothing to be shared. *)
LEMMA InitSeparated == Init => Separated
BY InitTyped DEF Init, Separated, Faithful, Apart, OutsideIntact, Closer

(* What is inductive implies what matters: one closer for each descriptor. *)
LEMMA SeparatedImplies == Separated => SoleCloser /\ OutsideIntact
BY DEF Separated, Apart, SoleCloser

(* The number a successful open returns is in nobody's hands. *)
LEMMA FreshNumber ==
  ASSUME Separated, NEW f \in Fd, KOpen(f)
  PROVE  /\ \A o \in Obj : Closer(o) => raw_descriptor_[o] # f
         /\ \A q \in ints : q[1] # f
<1>1. ASSUME NEW o \in Obj, Closer(o) PROVE raw_descriptor_[o] # f
  <2>1. fdt[raw_descriptor_[o]] = got[o] /\ got[o] # NoDesc
    BY <1>1 DEF Separated, Faithful, Typed, Entrusted, Closer
  <2> QED
    BY <2>1 DEF KOpen
<1>2. ASSUME NEW q \in ints PROVE q[1] # f
  <2>1. fdt[q[1]] = q[2] /\ q[2] # NoDesc
    BY <1>2, IntsType, MaxOpenAssumption
       DEF Separated, Typed, OutsideIntact, Desc, NoDesc
  <2> QED
    BY <2>1 DEF KOpen
<1> QED
  BY <1>1, <1>2

(* ::close on the number of a live handle frees that number, or changes      *)
(* nothing and reports an error.  Unless a ::close that reports one may have *)
(* released the number, it reports none when it frees it.                    *)
LEMMA HonestClose ==
  ASSUME Separated, NEW o \in Obj, st[o] = "live", NEW e, NEW failure,
         KClose(raw_descriptor_[o], e, failure)
  PROVE  \/ /\ Closer(o)
            /\ "released" \notin failure => e = "ok"
            /\ fdt' = [fdt EXCEPT ![raw_descriptor_[o]] = NoDesc]
         \/ /\ e # "ok"
            /\ fdt' = fdt
<1>1. CASE raw_descriptor_[o] = Null
  BY <1>1, NFdAssumption DEF KClose, IsOpen, Fd, Null
<1>2. CASE raw_descriptor_[o] # Null
  BY <1>2 DEF KClose, Closer
<1> QED
  BY <1>1, <1>2

(* Every step keeps the handles separated when no pposix::file is used and a *)
(* close() that reports failure has left its descriptor open.                *)
LEMMA StepSeparated ==
  ASSUME FileObj = {}, "released" \notin CloseFailure
  PROVE  Separated /\ [Next]_vars => Separated'
<1> SUFFICES ASSUME Separated, [Next]_vars
             PROVE  Faithful' /\ Apart' /\ OutsideIntact'
  BY StepTyped DEF Separated
<1>0. TypeOK /\ Entrusted /\ Typed' /\ Faithful /\ Apart /\ OutsideIntact
  BY StepTyped DEF Separated, Typed
<1>a. \A q \in ints : q[1] \in Fd /\ q[2] \in Desc /\ q = <<q[1], q[2]>>
  BY <1>0, IntsType
<1>b. \A o \in Obj : Closer(o) => raw_descriptor_[o] \in Fd
  BY <1>0 DEF Closer, TypeOK
<1> DEFINE Goal == Faithful' /\ Apart' /\ OutsideIntact'
<1>1. CASE OutsideOpen
  <2>1. PICK f \in Fd : KOpen(f) /\ ints' = ints \cup {<<f, born + 1>>}
    BY <1>1 DEF OutsideOpen
  <2>2. /\ \A o \in Obj : Closer(o) => raw_descriptor_[o] # f
        /\ \A q \in ints : q[1] # f
    BY <2>1, FreshNumber
  <2>3. \A o \in Obj : Closer(o)' <=> Closer(o)
    BY <1>1 DEF OutsideOpen, objVars, Closer
  <2> QED
    BY <1>0, <1>1, <1>a, <1>b, <2>1, <2>2, <2>3
       DEF OutsideOpen, KOpen, objVars, TypeOK, Faithful, Apart, OutsideIntact
<1>2. ASSUME NEW p \in ints, OutsideClose(p) PROVE Goal
  <2>1. \A o \in Obj : Closer(o)' <=> Closer(o)
    BY <1>2 DEF OutsideClose, objVars, Closer
  <2>2. \A q \in ints : q # p => q[1] # p[1]
    BY <1>0, <1>a DEF OutsideIntact
  <2> QED
    BY <1>0, <1>2, <1>a, <1>b, <2>1, <2>2
       DEF OutsideClose, objVars, TypeOK, Faithful, Apart, OutsideIntact
<1>3. ASSUME NEW o \in Obj, Construct(o) PROVE Goal
  <2>1. \A p \in Obj : Closer(p)' => Closer(p) /\ p # o
    BY <1>0, <1>3 DEF Construct, Begin, TypeOK, Closer
  <2> QED
    BY <1>0, <1>3, <2>1
       DEF Construct, Begin, TypeOK, Faithful, Apart, OutsideIntact
<1>4. ASSUME NEW o \in Obj, Make(o) PROVE Goal
  <2>1. PICK f \in Fd : KOpen(f) /\ Begin(o, f, born + 1)
    BY <1>4 DEF Make
  <2>2. /\ \A p \in Obj : Closer(p) => raw_descriptor_[p] # f
        /\ \A q \in ints : q[1] # f
    BY <2>1, FreshNumber
  <2>3. \A p \in Obj : Closer(p)' => Closer(p) \/ p = o
    BY <1>0, <2>1 DEF Begin, TypeOK, Closer
  <2> QED
    BY <1>0, <1>4, <1>a, <1>b, <2>1, <2>2, <2>3
       DEF Make, Begin, KOpen, TypeOK, Faithful, Apart, OutsideIntact
<1>5. ASSUME NEW o \in Obj, Release(o) PROVE Goal
  <2>1. \A p \in Obj : Closer(p)' => Closer(p) /\ p # o
    BY <1>0, <1>5 DEF Release, TypeOK, Closer
  <2>2. raw_descriptor_[o] # Null => Closer(o)
    BY <1>5 DEF Release, Closer
  <2> QED
    BY <1>0, <1>5, <1>a, <2>1, <2>2
       DEF Release, TypeOK, Faithful, Apart, OutsideIntact
<1>6. ASSUME NEW o \in Obj, CloseCall(o) PROVE Goal
  <2>1. PICK e \in {"ok", "EBADF", "EINTR"} :
          /\ KClose(raw_descriptor_[o], e, CloseFailure)
          /\ error' = [error EXCEPT ![o] = e]
    BY <1>6 DEF CloseCall, CloseNumber
  <2>2. \A p \in Obj : p # o => (Closer(p)' <=> Closer(p))
    BY <1>0, <1>6, <2>1 DEF CloseCall, CloseNumber, TypeOK, Closer
  <2>3. CASE Closer(o) /\ e = "ok"
             /\ fdt' = [fdt EXCEPT ![raw_descriptor_[o]] = NoDesc]
    <3>1. ~Closer(o)'
      BY <1>0, <1>6, <2>1, <2>3 DEF CloseCall, CloseNumber, TypeOK, Closer
    <3> QED
      BY <1>0, <1>6, <1>a, <1>b, <2>2, <2>3, <3>1
         DEF CloseCall, CloseNumber, TypeOK, Faithful, Apart, OutsideIntact
  <2>4. CASE e # "ok" /\ fdt' = fdt
    <3>1. Closer(o)' <=> Closer(o)
      BY <1>0, <1>6, <2>1, <2>4 DEF CloseCall, CloseNumber, TypeOK, Closer
    <3> QED
      BY <1>0, <1>6, <2>2, <2>4, <3>1
         DEF CloseCall, CloseNumber, TypeOK, Faithful, Apart, OutsideIntact
  <2> QED
    BY <1>6, <2>1, <2>3, <2>4, HonestClose DEF CloseCall, CloseNumber
<1>7. ASSUME NEW o \in Obj, CloseReturn(o) PROVE Goal
  <2>1. CASE error[o] = "ok"
    <3>1. \A p \in Obj : Closer(p)' => Closer(p) /\ p # o
      BY <1>0, <1>7, <2>1 DEF CloseReturn, TypeOK, Closer
    <3> QED
      BY <1>0, <1>7, <2>1, <3>1
         DEF CloseReturn, TypeOK, Faithful, Apart, OutsideIntact
  <2>2. CASE error[o] # "ok"
    <3>1. \A p \in Obj : Closer(p)' <=> Closer(p)
      BY <1>0, <1>7, <2>2 DEF CloseReturn, TypeOK, Closer
    <3> QED
      BY <1>0, <1>7, <2>2, <3>1
         DEF CloseReturn, TypeOK, Faithful, Apart, OutsideIntact
  <2> QED
    BY <2>1, <2>2
<1>8. ASSUME NEW o \in Obj, FileClose(o) PROVE Goal
  BY <1>8 DEF FileClose
<1>9. ASSUME NEW o \in Obj, Destroy(o) PROVE Goal
  <2>1. PICK e : KClose(raw_descriptor_[o], e, DtorFailure)
    BY <1>9 DEF Destroy, DestroyNumber
  <2>2. \A p \in Obj : Closer(p)' =>
          /\ Closer(p) /\ p # o
          /\ raw_descriptor_'[p] = raw_descriptor_[p] /\ got'[p] = got[p]
    BY <1>0, <1>9 DEF Destroy, DestroyNumber, TypeOK, Closer
  <2>3. CASE Closer(o) /\ fdt' = [fdt EXCEPT ![raw_descriptor_[o]] = NoDesc]
    BY <1>0, <1>9, <1>a, <1>b, <2>2, <2>3
       DEF Destroy, DestroyNumber, TypeOK, Faithful, Apart, OutsideIntact
  <2>4. CASE fdt' = fdt
    BY <1>0, <1>9, <2>2, <2>4
       DEF Destroy, DestroyNumber, Faithful, Apart, OutsideIntact
  <2> QED
    BY <1>9, <2>1, <2>3, <2>4, HonestClose DEF Destroy, DestroyNumber
<1>10. ASSUME NEW o \in Obj, NEW q \in ints, Adopt(o, q) PROVE Goal
  <2>1. \A p \in Obj : Closer(p)' => Closer(p) \/ p = o
    BY <1>0, <1>10 DEF Adopt, Begin, TypeOK, Closer
  <2>2. \A r \in ints : r # q => r[1] # q[1]
    BY <1>0, <1>a DEF OutsideIntact
  <2> QED
    BY <1>0, <1>10, <1>a, <2>1, <2>2
       DEF Adopt, Begin, TypeOK, Faithful, Apart, OutsideIntact
<1>11. ASSUME NEW o \in Obj, NEW other \in Obj, MoveConstruct(o, other)
       PROVE  Goal
  <2>1. /\ o # other /\ ~Closer(o) /\ ~Closer(other)'
        /\ Closer(o)' => Closer(other)
        /\ \A p \in Obj \ {o, other} : Closer(p)' <=> Closer(p)
    BY <1>0, <1>11 DEF MoveConstruct, TypeOK, Closer
  <2> QED
    BY <1>0, <1>11, <2>1
       DEF MoveConstruct, TypeOK, Faithful, Apart, OutsideIntact
<1>12. ASSUME NEW o \in Obj, NEW other \in Obj, MoveAssign(o, other)
       PROVE  Goal
  <2>1. /\ Closer(o)' => Closer(other)
        /\ Closer(other)' => Closer(o)
        /\ \A p \in Obj \ {o, other} : Closer(p)' <=> Closer(p)
    BY <1>0, <1>12 DEF MoveAssign, TypeOK, Closer
  <2> QED
    BY <1>0, <1>12, <2>1
       DEF MoveAssign, TypeOK, Faithful, Apart, OutsideIntact
<1>13. CASE ProcessEnds
  <2>1. \A p \in Obj : ~Closer(p)'
    BY <1>13 DEF ProcessEnds, Closer
  <2> QED
    BY <1>13, <2>1 DEF ProcessEnds, Faithful, Apart, OutsideIntact
<1>14. CASE UNCHANGED vars
  BY <1>0, <1>14 DEF vars, Faithful, Apart, OutsideIntact, Closer
<1> QED
  BY <1>1, <1>2, <1>3, <1>4, <1>5, <1>6, <1>7, <1>8, <1>9, <1>10, <1>11,
     <1>12, <1>13, <1>14 DEF Next, MoveAssignTraps

(* As long as nobody uses file::close and no close() that reports failure    *)
(* has released its descriptor, no open descriptor is ever due to be closed  *)
(* by two parties, and no handle ever closes what code without a handle has  *)
(* opened, however destructors' ::close fail.  On Linux the condition is     *)
(* that no close() reports failure.                                          *)
THEOREM SoleOwnership ==
  ASSUME FileObj = {}, "released" \notin CloseFailure
  PROVE  Spec => [](SoleCloser /\ OutsideIntact)
<1>1. Spec => []Separated
  BY InitSeparated, StepSeparated, PTL DEF Spec
<1> QED
  BY <1>1, SeparatedImplies, PTL

(* Under the same conditions a descriptor that a program holds as an integer *)
(* denotes what it opened, whatever destructors run in other threads.        *)
THEOREM ForeignDescriptorsIntact ==
  ASSUME FileObj = {}, "released" \notin CloseFailure
  PROVE  Spec => []OutsideIntact
BY SoleOwnership, PTL
-------------------------------------------------------------------------------
(* ::close changes the meaning of no number but the one it is given, and     *)
(* leaves that one open only where a ::close that fails may keep it.         *)
LEMMA CloseFrees ==
  ASSUME TypeOK, NEW f, NEW e, NEW failure, KClose(f, e, failure)
  PROVE  /\ \A g \in Fd : fdt'[g] # NoDesc => fdt'[g] = fdt[g]
         /\ e = "ok" \/ "kept" \notin failure =>
              \A g \in Fd : fdt'[g] # NoDesc => g # f
BY DEF KClose, IsOpen, TypeOK

(* Somebody answers for number f: it is an integer in the hands of code      *)
(* without a handle, or a handle that was entrusted with it will close it.   *)
Answered(f) ==
  \/ <<f, fdt[f]>> \in ints
  \/ \E o \in Obj : Closer(o) /\ raw_descriptor_[o] = f /\ got[o] = fdt[f]

(* Every step keeps an open number answered for, file::close included.       *)
LEMMA StepAnswered ==
  ASSUME "kept" \notin DtorFailure, Typed, [Next]_vars, NEW f \in Fd,
         fdt'[f] # NoDesc, fdt[f] # NoDesc => Answered(f)
  PROVE  Answered(f)'
<1>0. TypeOK
  BY DEF Typed
<1>a. fdt[f] # NoDesc => Answered(f)
  OBVIOUS
<1>1. CASE OutsideOpen
  <2>1. PICK g \in Fd : KOpen(g) /\ ints' = ints \cup {<<g, born + 1>>}
    BY <1>1 DEF OutsideOpen
  <2>2. \A o \in Obj : Closer(o)' <=> Closer(o)
    BY <1>1 DEF OutsideOpen, objVars, Closer
  <2> QED
    BY <1>0, <1>1, <1>a, <2>1, <2>2
       DEF OutsideOpen, KOpen, objVars, TypeOK, Answered
<1>2. ASSUME NEW p \in ints, OutsideClose(p) PROVE Answered(f)'
  <2>1. \A o \in Obj : Closer(o)' <=> Closer(o)
    BY <1>2 DEF OutsideClose, objVars, Closer
  <2>2. f # p[1] /\ fdt'[f] = fdt[f]
    BY <1>0, <1>2 DEF OutsideClose, TypeOK
  <2> QED
    BY <1>2, <1>a, <2>1, <2>2 DEF OutsideClose, objVars, Answered
<1>3. ASSUME NEW o \in Obj, Construct(o) PROVE Answered(f)'
  <2>1. \A p \in Obj : Closer(p) => p # o /\ Closer(p)'
    BY <1>0, <1>3 DEF Construct, Begin, TypeOK, Closer
  <2> QED
    BY <1>0, <1>3, <1>a, <2>1 DEF Construct, Begin, TypeOK, Answered
<1>4. ASSUME NEW o \in Obj, Make(o) PROVE Answered(f)'
  <2>1. PICK g \in Fd : KOpen(g) /\ Begin(o, g, born + 1)
    BY <1>4 DEF Make
  <2>2. \A p \in Obj : Closer(p) => p # o /\ Closer(p)'
    BY <1>0, <2>1 DEF Begin, TypeOK, Closer
  <2>3. Closer(o)'
    BY <1>0, <2>1, NFdAssumption DEF Begin, TypeOK, Closer, Fd, Null
  <2> QED
    BY <1>0, <1>4, <1>a, <2>1, <2>2, <2>3
       DEF Make, Begin, KOpen, TypeOK, Answered
<1>5. ASSUME NEW o \in Obj, Release(o) PROVE Answered(f)'
  <2>1. \A p \in Obj : p # o /\ Closer(p) => Closer(p)'
    BY <1>0, <1>5 DEF Release, TypeOK, Closer
  <2>2. CASE \E p \in Obj : Closer(p) /\ raw_descriptor_[p] = f /\ got[p] = fdt[f]
    BY <1>0, <1>5, <2>1, <2>2, NFdAssumption
       DEF Release, TypeOK, Answered, Closer, Fd, Null
  <2>3. CASE <<f, fdt[f]>> \in ints
    BY <1>5, <2>3 DEF Release, Answered
  <2> QED
    BY <1>5, <1>a, <2>2, <2>3 DEF Release, Answered
<1>6. ASSUME NEW o \in Obj, CloseCall(o) PROVE Answered(f)'
  <2>1. PICK e \in {"ok", "EBADF", "EINTR"} :
          /\ KClose(raw_descriptor_[o], e, CloseFailure)
          /\ error' = [error EXCEPT ![o] = e]
    BY <1>6 DEF CloseCall, CloseNumber
  <2>2. fdt'[f] = fdt[f] /\ (e = "ok" => f # raw_descriptor_[o])
    BY <1>0, <2>1, CloseFrees
  <2>3. \A p \in Obj : (p # o \/ e # "ok") /\ Closer(p) => Closer(p)'
    BY <1>0, <1>6, <2>1 DEF CloseCall, CloseNumber, TypeOK, Closer
  <2> QED
    BY <1>6, <1>a, <2>2, <2>3 DEF CloseCall, CloseNumber, Answered
<1>7. ASSUME NEW o \in Obj, CloseReturn(o) PROVE Answered(f)'
  <2>1. \A p \in Obj : Closer(p) =>
          /\ Closer(p)'
          /\ raw_descriptor_'[p] = raw_descriptor_[p]
          /\ got'[p] = got[p]
    BY <1>0, <1>7 DEF CloseReturn, TypeOK, Closer
  <2> QED
    BY <1>7, <1>a, <2>1 DEF CloseReturn, Answered
<1>8. ASSUME NEW o \in Obj, FileClose(o) PROVE Answered(f)'
  <2>1. fdt'[f] = fdt[f]
    BY <1>0, <1>8, CloseFrees DEF FileClose
  <2> QED
    BY <1>8, <1>a, <2>1 DEF FileClose, objVars, Answered, Closer
<1>9. ASSUME NEW o \in Obj, Destroy(o) PROVE Answered(f)'
  <2>1. f # raw_descriptor_[o] /\ fdt'[f] = fdt[f]
    BY <1>0, <1>9, CloseFrees DEF Destroy, DestroyNumber
  <2>2. \A p \in Obj : p # o /\ Closer(p) =>
          /\ Closer(p)'
          /\ raw_descriptor_'[p] = raw_descriptor_[p]
          /\ got'[p] = got[p]
    BY <1>0, <1>9 DEF Destroy, DestroyNumber, TypeOK, Closer
  <2> QED
    BY <1>9, <1>a, <2>1, <2>2 DEF Destroy, DestroyNumber, Answered
<1>10. ASSUME NEW o \in Obj, NEW q \in ints, Adopt(o, q) PROVE Answered(f)'
  <2>1. \A p \in Obj : Closer(p) => p # o /\ Closer(p)'
    BY <1>0, <1>10 DEF Adopt, Begin, TypeOK, Closer
  <2>2. q[1] \in Fd /\ q = <<q[1], q[2]>>
    BY <1>0, IntsType
  <2>3. Closer(o)' /\ raw_descriptor_'[o] = q[1] /\ got'[o] = q[2]
    BY <1>0, <1>10, <2>2, NFdAssumption
       DEF Adopt, Begin, TypeOK, Closer, Fd, Null
  <2> QED
    BY <1>0, <1>10, <1>a, <2>1, <2>2, <2>3
       DEF Adopt, Begin, TypeOK, Answered
<1>11. ASSUME NEW o \in Obj, NEW other \in Obj, MoveConstruct(o, other)
       PROVE  Answered(f)'
  <2>1. /\ o # other /\ ~Closer(o)
        /\ Closer(other) => Closer(o)'
        /\ \A p \in Obj \ {o, other} : Closer(p)' <=> Closer(p)
    BY <1>0, <1>11 DEF MoveConstruct, TypeOK, Closer
  <2> QED
    BY <1>0, <1>11, <1>a, <2>1 DEF MoveConstruct, TypeOK, Answered
<1>12. ASSUME NEW o \in Obj, NEW other \in Obj, MoveAssign(o, other)
       PROVE  Answered(f)'
  <2>1. /\ Closer(other) => Closer(o)'
        /\ Closer(o) => Closer(other)'
        /\ \A p \in Obj \ {o, other} : Closer(p)' <=> Closer(p)
    BY <1>0, <1>12 DEF MoveAssign, TypeOK, Closer
  <2> QED
    BY <1>0, <1>12, <1>a, <2>1 DEF MoveAssign, TypeOK, Answered
<1>13. CASE ProcessEnds
  BY <1>13 DEF ProcessEnds
<1>14. CASE UNCHANGED vars
  BY <1>14, <1>a DEF vars, Answered, Closer
<1> QED
  BY <1>1, <1>2, <1>3, <1>4, <1>5, <1>6, <1>7, <1>8, <1>9, <1>10, <1>11,
     <1>12, <1>13, <1>14 DEF Next, MoveAssignTraps

(* NoLeak says that somebody answers for every open descriptor. *)
LEMMA StepNoLeak ==
  ASSUME "kept" \notin DtorFailure
  PROVE  Typed /\ NoLeak /\ [Next]_vars => NoLeak'
<1>1. NoLeak <=> \A f \in Fd : fdt[f] # NoDesc => Answered(f)
  BY DEF NoLeak, Answered
<1>2. NoLeak' <=> \A f \in Fd : fdt'[f] # NoDesc => Answered(f)'
  BY DEF NoLeak, Answered
<1> QED
  BY <1>1, <1>2, StepAnswered

(* As long as a ::close that fails in a destructor has released its number   *)
(* (as on Linux), no open descriptor is ever lost: moving, move assignment   *)
(* over a full handle, release, a failed close(), whatever it did, and       *)
(* destruction keep everything answered for.                                 *)
THEOREM NothingLost ==
  ASSUME "kept" \notin DtorFailure
  PROVE  Spec => []NoLeak
<1>1. Init => NoLeak
  BY DEF Init, NoLeak
<1>2. Spec => [](Typed /\ NoLeak)
  BY <1>1, InitTyped, StepTyped, StepNoLeak, PTL DEF Spec
<1> QED
  BY <1>2, PTL
-------------------------------------------------------------------------------
(* No description is denoted by two numbers, and none is from the future.    *)
Unique ==
  /\ \A f \in Fd : fdt[f] <= born
  /\ \A f, g \in Fd : fdt[f] = fdt[g] /\ fdt[f] # NoDesc => f = g

Owned == Separated /\ Unique

(* The table starts empty. *)
LEMMA InitOwned == Init => Owned
BY InitSeparated DEF Init, Owned, Unique, NoDesc

(* Opening and closing keep descriptions unique. *)
LEMMA StepUnique == TypeOK /\ Unique /\ [Next]_vars => Unique'
<1> SUFFICES ASSUME TypeOK, Unique, [Next]_vars PROVE Unique'
  OBVIOUS
<1>0. TypeOK /\ Unique
  OBVIOUS
<1>1. ASSUME NEW f \in Fd, KOpen(f) PROVE Unique'
  BY <1>0, <1>1, MaxOpenAssumption DEF KOpen, TypeOK, Unique, Desc, NoDesc
<1>2. ASSUME NEW f, fdt' = [fdt EXCEPT ![f] = NoDesc], born' = born PROVE Unique'
  BY <1>0, <1>2, MaxOpenAssumption DEF TypeOK, Unique, Desc, NoDesc
<1>3. ASSUME UNCHANGED <<fdt, born>> PROVE Unique'
  BY <1>0, <1>3 DEF Unique
<1>4. ASSUME NEW f, NEW e, NEW failure, KClose(f, e, failure), born' = born
      PROVE  Unique'
  BY <1>2, <1>3, <1>4 DEF KClose
<1>5. CASE OutsideOpen
  BY <1>1, <1>5 DEF OutsideOpen
<1>6. ASSUME NEW p \in ints, OutsideClose(p) PROVE Unique'
  BY <1>2, <1>6 DEF OutsideClose
<1>7. ASSUME NEW o \in Obj, Make(o) PROVE Unique'
  BY <1>1, <1>7 DEF Make
<1>8. ASSUME NEW o \in Obj, CloseCall(o) \/ FileClose(o) \/ Destroy(o) PROVE Unique'
  BY <1>4, <1>8 DEF CloseCall, CloseNumber, FileClose, Destroy, DestroyNumber
<1>9. CASE ProcessEnds
  BY <1>0, <1>9, MaxOpenAssumption DEF ProcessEnds, TypeOK, Unique, NoDesc
<1> QED
  BY <1>3, <1>5, <1>6, <1>7, <1>8, <1>9
     DEF Next, vars, Construct, Release, CloseReturn, Adopt, MoveConstruct,
         MoveAssign, MoveAssignTraps

(* Without file::close, and unless a close() that fails may have released    *)
(* its number, every step keeps Owned.                                       *)
LEMMA StepOwned ==
  ASSUME FileObj = {}, "released" \notin CloseFailure
  PROVE  Owned /\ [Next]_vars => Owned'
BY StepUnique, StepSeparated DEF Owned, Separated, Typed
-------------------------------------------------------------------------------
(* What opening and closing do to the abstract set of open descriptions.     *)
LEMMA OpenAdds ==
  ASSUME TypeOK, NEW f \in Fd, KOpen(f)
  PROVE  /\ OpenDescs' = OpenDescs \cup {born + 1}
         /\ (1 .. born)' = 1 .. born \cup {born + 1}
         /\ born + 1 \in Desc \ (1 .. born)
<1>1. born \in Nat /\ born' = born + 1 /\ born + 1 # NoDesc
  BY DEF TypeOK, KOpen, NoDesc
<1>2. OpenDescs' = OpenDescs \cup {born + 1}
  BY <1>1 DEF TypeOK, KOpen, OpenDescs
<1> QED
  BY <1>1, <1>2, MaxOpenAssumption DEF TypeOK, KOpen, Desc

(* ::close of an open number takes one description away. *)
LEMMA CloseRemoves ==
  ASSUME TypeOK, Unique, NEW f \in Fd, fdt[f] # NoDesc,
         fdt' = [fdt EXCEPT ![f] = NoDesc]
  PROVE  OpenDescs' = OpenDescs \ {fdt[f]}
BY DEF TypeOK, Unique, OpenDescs

(* A pair more in the hands of code without a handle is a description more.  *)
LEMMA PairAdds ==
  ASSUME NEW f, NEW d, ints' = ints \cup {<<f, d>>}
  PROVE  LooseDescs' = LooseDescs \cup {d}
<1> DEFINE Second(q) == q[2]
<1>1. Second(<<f, d>>) = d
  OBVIOUS
<1>2. LooseDescs = {Second(q) : q \in ints}
  BY DEF LooseDescs
<1>3. LooseDescs' = {Second(q) : q \in ints'}
  BY DEF LooseDescs
<1> HIDE DEF Second
<1> QED
  BY <1>1, <1>2, <1>3

(* A handle is due to close before and after, and holds the same. *)
LEMMA SameHeld ==
  ASSUME \A o \in Obj : /\ Closer(o)' <=> Closer(o)
                        /\ Closer(o) => got'[o] = got[o]
  PROVE  HeldDescs' = HeldDescs
BY DEF HeldDescs

(* One handle changes hands. *)
LEMMA OneHeld ==
  ASSUME NEW o \in Obj, NEW S,
         \A p \in Obj \ {o} : /\ Closer(p)' <=> Closer(p)
                              /\ Closer(p) => got'[p] = got[p],
         (IF Closer(o) THEN {got[o]} ELSE {})' = S
  PROVE  HeldDescs' = [HeldDescs EXCEPT ![o] = S]
BY DEF HeldDescs

(* The empty table is the initial state of Ownership. *)
LEMMA InitRefines == Init => Abstract!OInit
BY DEF Init, Abstract!OInit, OpenDescs, HeldDescs, LooseDescs, Closer

(* Every step is a step of Ownership or changes nothing it can see.          *)
LEMMA StepRefines ==
  ASSUME FileObj = {}, "released" \notin CloseFailure
  PROVE  Owned /\ [Next]_vars => [Abstract!ONext]_(Abstract!ovars)
<1> SUFFICES ASSUME Owned, [Next]_vars
             PROVE  Abstract!ONext \/ UNCHANGED Abstract!ovars
  OBVIOUS
<1> DEFINE Goal == Abstract!ONext \/ UNCHANGED Abstract!ovars
<1>0. TypeOK /\ Entrusted /\ Faithful /\ Apart /\ OutsideIntact /\ Unique
  BY DEF Owned, Separated, Typed
<1>a. \A q \in ints : q[1] \in Fd /\ q[2] \in Desc /\ q = <<q[1], q[2]>>
  BY <1>0, IntsType
<1>b. \A o \in Obj : Closer(o) =>
        /\ raw_descriptor_[o] \in Fd /\ got[o] \in Desc
        /\ fdt[raw_descriptor_[o]] = got[o] /\ got[o] # NoDesc
        /\ HeldDescs[o] = {got[o]}
  BY <1>0, MaxOpenAssumption
     DEF Closer, TypeOK, Entrusted, Faithful, HeldDescs, Desc, NoDesc
<1>c. \A o \in Obj : ~Closer(o) => HeldDescs[o] = {}
  BY DEF HeldDescs
<1>d. ASSUME UNCHANGED <<born, ints, fdt>>, HeldDescs' = HeldDescs PROVE Goal
  BY <1>d DEF Abstract!ovars, OpenDescs, LooseDescs
(* closing the description that handle o holds *)
<1>e. ASSUME NEW o \in Obj, Closer(o), UNCHANGED <<born, ints>>,
             fdt' = [fdt EXCEPT ![raw_descriptor_[o]] = NoDesc],
             HeldDescs' = [HeldDescs EXCEPT ![o] = {}]
      PROVE  Goal
  <2> DEFINE f == raw_descriptor_[o]
  <2>0. f \in Fd /\ fdt[f] = got[o] /\ fdt[f] # NoDesc
        /\ fdt' = [fdt EXCEPT ![f] = NoDesc]
    BY <1>b, <1>e
  <2> HIDE DEF f
  <2>1. OpenDescs' = OpenDescs \ {got[o]}
    BY <1>0, <2>0, CloseRemoves
  <2>2. Abstract!Dispose(o, got[o])
    BY <1>b, <1>e, <2>1 DEF Abstract!Dispose, LooseDescs
  <2> QED
    BY <1>b, <1>e, <2>2 DEF Abstract!ONext
<1>1. CASE OutsideOpen
  <2>1. PICK f \in Fd : KOpen(f) /\ ints' = ints \cup {<<f, born + 1>>}
    BY <1>1 DEF OutsideOpen
  <2>2. HeldDescs' = HeldDescs
    BY <1>1, SameHeld DEF OutsideOpen, objVars, Closer
  <2>3. LooseDescs' = LooseDescs \cup {born + 1}
    BY <2>1, PairAdds
  <2>4. Abstract!AcquireLoose(born + 1)
    BY <1>0, <2>1, <2>2, <2>3, OpenAdds DEF Abstract!AcquireLoose, Abstract!Fresh
  <2> QED
    BY <1>0, <2>1, <2>4, OpenAdds DEF Abstract!ONext
<1>2. ASSUME NEW p \in ints, OutsideClose(p) PROVE Goal
  <2>1. HeldDescs' = HeldDescs
    BY <1>2, SameHeld DEF OutsideClose, objVars, Closer
  <2>2. fdt[p[1]] = p[2] /\ p[2] # NoDesc /\ p[1] \in Fd
    BY <1>0, <1>a, MaxOpenAssumption DEF OutsideIntact, Desc, NoDesc
  <2>3. OpenDescs' = OpenDescs \ {p[2]}
    BY <1>0, <1>2, <2>2, CloseRemoves DEF OutsideClose
  <2>4. \A q \in ints : q[2] = p[2] => q = p
    BY <1>0, <1>a, <2>2 DEF OutsideIntact, Unique
  <2>5. LooseDescs' = LooseDescs \ {p[2]} /\ p[2] \in LooseDescs
    BY <1>2, <2>4 DEF OutsideClose, LooseDescs
  <2>6. Abstract!DisposeLoose(p[2])
    BY <1>2, <2>1, <2>3, <2>5 DEF OutsideClose, Abstract!DisposeLoose
  <2> QED
    BY <1>a, <2>6 DEF Abstract!ONext
<1>3. ASSUME NEW o \in Obj, Construct(o) PROVE Goal
  <2>1. HeldDescs' = HeldDescs
    BY <1>0, <1>3, SameHeld DEF Construct, Begin, TypeOK, Closer
  <2> QED
    BY <1>3, <1>d, <2>1 DEF Construct
<1>4. ASSUME NEW o \in Obj, Make(o) PROVE Goal
  <2>1. PICK f \in Fd : KOpen(f) /\ Begin(o, f, born + 1)
    BY <1>4 DEF Make
  <2>2. ~Closer(o) /\ Closer(o)' /\ got'[o] = born + 1
    BY <1>0, <2>1, NFdAssumption DEF Begin, TypeOK, Closer, Fd, Null
  <2>3. \A p \in Obj \ {o} : (Closer(p)' <=> Closer(p)) /\ got'[p] = got[p]
    BY <1>0, <2>1 DEF Begin, TypeOK, Closer
  <2>4. HeldDescs' = [HeldDescs EXCEPT ![o] = {born + 1}]
    BY <2>2, <2>3, OneHeld
  <2>5. Abstract!Acquire(o, born + 1)
    BY <1>0, <1>4, <1>c, <2>1, <2>2, <2>4, OpenAdds
       DEF Make, Abstract!Acquire, Abstract!Fresh, LooseDescs
  <2> QED
    BY <1>0, <2>1, <2>5, OpenAdds DEF Abstract!ONext
<1>5. ASSUME NEW o \in Obj, Release(o) PROVE Goal
  <2>1. \A p \in Obj \ {o} : (Closer(p)' <=> Closer(p)) /\ got'[p] = got[p]
    BY <1>0, <1>5 DEF Release, TypeOK, Closer
  <2>2. ~Closer(o)'
    BY <1>0, <1>5 DEF Release, TypeOK, Closer
  <2>3. CASE raw_descriptor_[o] = Null
    <3>1. HeldDescs' = HeldDescs
      BY <2>1, <2>2, <2>3, SameHeld DEF Closer
    <3> QED
      BY <1>5, <1>d, <2>3, <3>1 DEF Release
  <2>4. CASE raw_descriptor_[o] # Null
    <3>1. Closer(o)
      BY <1>5, <2>4 DEF Release, Closer
    <3>2. HeldDescs' = [HeldDescs EXCEPT ![o] = {}]
      BY <2>1, <2>2, OneHeld
    <3>3. LooseDescs' = LooseDescs \cup {got[o]}
      BY <1>5, <2>4, PairAdds DEF Release
    <3>4. Abstract!GiveUp(o, got[o])
      BY <1>5, <1>b, <3>1, <3>2, <3>3 DEF Release, Abstract!GiveUp, OpenDescs
    <3> QED
      BY <1>b, <3>1, <3>4 DEF Abstract!ONext
  <2> QED
    BY <2>3, <2>4
(* ::close on the number of live handle o, which o holds on to only if the   *)
(* number was not freed                                                      *)
<1>6. ASSUME NEW o \in Obj, st[o] = "live", NEW e, NEW failure,
             KClose(raw_descriptor_[o], e, failure),
             \A p \in Obj \ {o} : (Closer(p)' <=> Closer(p)) /\ got'[p] = got[p],
             Closer(o)' => /\ Closer(o) /\ got'[o] = got[o]
                           /\ e # "ok" /\ "released" \notin failure,
             UNCHANGED <<born, ints>>
      PROVE  Goal
  <2>1. CASE /\ Closer(o) /\ ("released" \notin failure => e = "ok")
             /\ fdt' = [fdt EXCEPT ![raw_descriptor_[o]] = NoDesc]
    <3>1. ~Closer(o)'
      BY <1>6, <2>1
    <3>2. HeldDescs' = [HeldDescs EXCEPT ![o] = {}]
      BY <1>6, <3>1, OneHeld
    <3> QED
      BY <1>6, <1>e, <2>1, <3>2
  <2>2. CASE fdt' = fdt
    <3>1. CASE Closer(o) <=> Closer(o)'
      BY <1>6, <1>d, <2>2, <3>1, SameHeld
    <3>2. CASE Closer(o) /\ ~Closer(o)'
      <4>1. HeldDescs' = [HeldDescs EXCEPT ![o] = {}]
        BY <1>6, <3>2, OneHeld
      <4>2. Abstract!Abandon(o, got[o])
        BY <1>6, <1>b, <2>2, <3>2, <4>1
           DEF Abstract!Abandon, OpenDescs, LooseDescs
      <4> QED
        BY <1>b, <3>2, <4>2 DEF Abstract!ONext
    <3> QED
      BY <1>6, <3>1, <3>2
  <2> QED
    BY <1>6, <2>1, <2>2, HonestClose DEF Owned
<1>7. ASSUME NEW o \in Obj, CloseCall(o) PROVE Goal
  <2>1. PICK e \in {"ok", "EBADF", "EINTR"} :
          /\ KClose(raw_descriptor_[o], e, CloseFailure)
          /\ error' = [error EXCEPT ![o] = e]
    BY <1>7 DEF CloseCall, CloseNumber
  <2>2. \A p \in Obj \ {o} : (Closer(p)' <=> Closer(p)) /\ got'[p] = got[p]
    BY <1>0, <1>7, <2>1 DEF CloseCall, CloseNumber, TypeOK, Closer
  <2>3. Closer(o)' => Closer(o) /\ got'[o] = got[o] /\ e # "ok"
    BY <1>0, <1>7, <2>1 DEF CloseCall, CloseNumber, TypeOK, Closer
  <2> QED
    BY <1>6, <1>7, <2>1, <2>2, <2>3 DEF CloseCall, CloseNumber
<1>8. ASSUME NEW o \in Obj, CloseReturn(o) PROVE Goal
  <2>1. HeldDescs' = HeldDescs
    BY <1>0, <1>8, SameHeld DEF CloseReturn, TypeOK, Closer
  <2> QED
    BY <1>8, <1>d, <2>1 DEF CloseReturn
<1>9. ASSUME NEW o \in Obj, FileClose(o) PROVE Goal
  BY <1>9 DEF FileClose
<1>10. ASSUME NEW o \in Obj, Destroy(o) PROVE Goal
  <2>1. PICK e : KClose(raw_descriptor_[o], e, DtorFailure)
    BY <1>10 DEF Destroy, DestroyNumber
  <2>2. ~Closer(o)'
    BY <1>0, <1>10 DEF Destroy, DestroyNumber, TypeOK, Closer
  <2>3. \A p \in Obj \ {o} : (Closer(p)' <=> Closer(p)) /\ got'[p] = got[p]
    BY <1>0, <1>10 DEF Destroy, DestroyNumber, TypeOK, Closer
  <2> QED
    BY <1>6, <1>10, <2>1, <2>2, <2>3 DEF Destroy, DestroyNumber
<1>11. ASSUME NEW o \in Obj, NEW p \in ints, Adopt(o, p) PROVE Goal
  <2>1. Begin(o, p[1], p[2])
    BY <1>11 DEF Adopt
  <2>2. ~Closer(o) /\ Closer(o)' /\ got'[o] = p[2]
    BY <1>0, <1>a, <2>1, NFdAssumption DEF Begin, TypeOK, Closer, Fd, Null
  <2>3. \A r \in Obj \ {o} : (Closer(r)' <=> Closer(r)) /\ got'[r] = got[r]
    BY <1>0, <2>1 DEF Begin, TypeOK, Closer
  <2>4. HeldDescs' = [HeldDescs EXCEPT ![o] = {p[2]}]
    BY <2>2, <2>3, OneHeld
  <2>5. \A q \in ints : q[2] = p[2] => q = p
    BY <1>0, <1>a, MaxOpenAssumption DEF OutsideIntact, Unique, Desc, NoDesc
  <2>6. LooseDescs' = LooseDescs \ {p[2]} /\ p[2] \in LooseDescs
    BY <1>11, <2>5 DEF Adopt, LooseDescs
  <2>7. Abstract!Entrust(o, p[2])
    BY <1>11, <1>c, <2>2, <2>4, <2>6 DEF Adopt, Abstract!Entrust, OpenDescs
  <2> QED
    BY <1>a, <2>7 DEF Abstract!ONext
<1>12. ASSUME NEW o \in Obj, NEW other \in Obj, UNCHANGED <<born, ints, fdt>>,
              (Closer(o)' <=> Closer(other)) /\ got'[o] = got[other],
              (Closer(other)' <=> Closer(o)) /\ (Closer(o) => got'[other] = got[o]),
              \A p \in Obj \ {o, other} :
                (Closer(p)' <=> Closer(p)) /\ got'[p] = got[p]
       PROVE  Goal
  <2>1. HeldDescs' = [HeldDescs EXCEPT ![o] = HeldDescs[other],
                                       ![other] = HeldDescs[o]]
    BY <1>12 DEF HeldDescs
  <2>2. Abstract!Exchange(o, other)
    BY <1>12, <2>1 DEF Abstract!Exchange, OpenDescs, LooseDescs
  <2> QED
    BY <2>2 DEF Abstract!ONext
<1>13. ASSUME NEW o \in Obj, NEW other \in Obj, MoveConstruct(o, other) PROVE Goal
  <2>1. /\ (Closer(o)' <=> Closer(other)) /\ got'[o] = got[other]
        /\ ~Closer(other)' /\ ~Closer(o)
        /\ \A p \in Obj \ {o, other} :
             (Closer(p)' <=> Closer(p)) /\ got'[p] = got[p]
    BY <1>0, <1>13 DEF MoveConstruct, TypeOK, Closer
  <2> QED
    BY <1>12, <1>13, <2>1 DEF MoveConstruct
<1>14. ASSUME NEW o \in Obj, NEW other \in Obj, MoveAssign(o, other) PROVE Goal
  <2>1. /\ (Closer(o)' <=> Closer(other)) /\ got'[o] = got[other]
        /\ (Closer(other)' <=> Closer(o)) /\ got'[other] = got[o]
        /\ \A p \in Obj \ {o, other} :
             (Closer(p)' <=> Closer(p)) /\ got'[p] = got[p]
    BY <1>0, <1>14 DEF MoveAssign, TypeOK, Closer
  <2> QED
    BY <1>12, <1>14, <2>1 DEF MoveAssign
<1>15. CASE ProcessEnds
  <2>1. HeldDescs' = [p \in Obj |-> {}] /\ OpenDescs' = {} /\ LooseDescs' = {}
    BY <1>15 DEF ProcessEnds, HeldDescs, OpenDescs, LooseDescs, Closer
  <2>2. Abstract!Reclaim
    BY <1>15, <2>1 DEF ProcessEnds, Abstract!Reclaim
  <2> QED
    BY <2>2 DEF Abstract!ONext
<1>16. CASE UNCHANGED vars
  <2>1. HeldDescs' = HeldDescs
    BY <1>16, SameHeld DEF vars, Closer
  <2> QED
    BY <1>16, <1>d, <2>1 DEF vars
<1> QED
  BY <1>1, <1>2, <1>3, <1>4, <1>5, <1>7, <1>8, <1>9, <1>10, <1>11, <1>13,
     <1>14, <1>15, <1>16 DEF Next, MoveAssignTraps

(* As long as no close() that reports failure has released its descriptor    *)
(* (on Linux: as long as no close() reports failure) and nobody uses         *)
(* file::close, a program that uses handles behaves as Ownership says: a     *)
(* description is in the hands of one party from the open to the close,      *)
(* changes hands whole, and is closed by the party that holds it, or left    *)
(* open by a destructor whose ::close failed.                                *)
THEOREM DescriptorImplementsOwnership ==
  ASSUME FileObj = {}, "released" \notin CloseFailure
  PROVE  Spec => ImplementsOwnership
<1>1. Spec => []Owned
  BY InitOwned, StepOwned, PTL DEF Spec
<1>2. Spec => Abstract!OSpec
  BY <1>1, InitRefines, StepRefines, PTL DEF Spec, Abstract!OSpec
<1> QED
  BY <1>2 DEF ImplementsOwnership
===============================================================================

----------------------------- MODULE CallsProofs -----------------------------
(* Theorems about Calls for any set of wrappers, any error numbers and any    *)
(* depth of nesting.                                                         *)
EXTENDS Calls, TLAPS

(* What errno will be when frame i runs again: errno itself if i is on top,  *)
(* else what the frame above it has put by.                                  *)
Resumes(i) == IF i = depth THEN errno ELSE frames[i + 1].saved_errno_

InFlight(i) == frames[i].pc # "context"

(* A wrapper in flight has only contexts above it. *)
Bracketed ==
  \A i \in 1 .. depth : InFlight(i) =>
    /\ frames[i].shape \in Shape
    /\ i < depth => frames[i + 1].pc = "context"

(* A wrapper that relies on a cleared errno will find it cleared. *)
Cleared ==
  \A i \in 1 .. depth :
    frames[i].pc = "called" /\ frames[i].shape \in InContext => Resumes(i) = 0

(* A wrapper that has made its libc call will read the errno of that call.   *)
Truthful ==
  \A i \in 1 .. depth : frames[i].pc = "done" =>
    IF frames[i].failed # 0
      THEN /\ Resumes(i) = frames[i].failed
           /\ frames[i].shape # "confstr" => frames[i].minusOne
      ELSE /\ frames[i].shape = "confstr" => Resumes(i) = 0
           /\ frames[i].minusOne => frames[i].shape = "sysconf" /\ Resumes(i) = 0

Remembered == \A i \in 1 .. depth : frames[i].saved_errno_ = frames[i].entry

NotWidened == \A i \in 1 .. depth : frames[i].shape # "widened"

Nested == TypeOK /\ Bracketed /\ Cleared /\ Truthful /\ Remembered
-------------------------------------------------------------------------------
(* Every wrapper of the library has one of the six shapes. *)
LEMMA CallShape == \A c \in Used : c.shape \in Shape
BY UsedAssumption
   DEF Call, FileCalls, FdCalls, FcntlCalls, SocketCalls, EpollCalls, MqCalls,
       MqTypedCalls, DirentCalls, IoctlCalls, MmanCalls, SysconfCalls,
       ConfstrCalls, W, Shape

(* Pushing and popping frames keeps the stack typed. *)
LEMMA PushType ==
  ASSUME TypeOK, NEW fr \in Frame, Push(fr)
  PROVE  /\ frames' \in [Index -> Frame] /\ depth' \in 0 .. MaxDepth
         /\ depth' = depth + 1 /\ depth + 1 \in Index
         /\ frames'[depth + 1] = fr
         /\ \A i \in 1 .. depth : i \in Index /\ frames'[i] = frames[i]
BY MaxDepthAssumption DEF TypeOK, Push, Index

(* A wrapper that returns leaves well-typed frames behind. *)
LEMMA PopType ==
  ASSUME TypeOK, depth > 0, Pop
  PROVE  /\ frames' \in [Index -> Frame] /\ depth' \in 0 .. MaxDepth
         /\ depth' = depth - 1 /\ depth \in Index
         /\ \A i \in 1 .. depth' : i \in Index /\ frames'[i] = frames[i]
<1>1. NoFrame \in Frame
  BY MaxErrcAssumption DEF NoFrame, Frame, Errc
<1> QED
  BY <1>1, MaxDepthAssumption DEF TypeOK, Pop, Index

(* The frame a libc call leaves behind. *)
LEMMA DoneType ==
  ASSUME TypeOK, InCall, NEW m \in BOOLEAN, NEW e \in Errc, Done(m, e)
  PROVE  /\ frames' \in [Index -> Frame]
         /\ depth \in Index /\ depth \in 1 .. depth
         /\ frames'[depth].pc = "done"
         /\ frames'[depth].shape = frames[depth].shape
         /\ frames'[depth].minusOne = m
         /\ frames'[depth].failed = e
         /\ frames'[depth].saved_errno_ = frames[depth].saved_errno_
         /\ frames'[depth].entry = frames[depth].entry
         /\ \A i \in 1 .. depth - 1 : i \in Index /\ frames'[i] = frames[i]
<1> DEFINE fr == [frames[depth] EXCEPT !.pc = "done", !.minusOne = m,
                                        !.failed = e]
<1>1. depth \in Index /\ depth \in 1 .. depth /\ frames[depth] \in Frame
  BY MaxDepthAssumption DEF TypeOK, InCall, Index
<1>2. fr \in Frame
  BY <1>1 DEF Frame
<1>3. frames' = [frames EXCEPT ![depth] = fr]
  BY DEF Done
<1>4. /\ fr.pc = "done" /\ fr.shape = frames[depth].shape
      /\ fr.minusOne = m /\ fr.failed = e
      /\ fr.saved_errno_ = frames[depth].saved_errno_
      /\ fr.entry = frames[depth].entry
  BY <1>1 DEF Frame
<1> QED
  BY <1>1, <1>2, <1>3, <1>4, MaxDepthAssumption DEF TypeOK, Index

(* errno starts at 0 and nothing is in flight. *)
LEMMA InitNested == Init => Nested /\ NotWidened /\ TellsOutcome
BY MaxErrcAssumption, MaxDepthAssumption
   DEF Init, Nested, TypeOK, Bracketed, Cleared, Truthful, Remembered,
       NotWidened, TellsOutcome, NoFrame, Frame, Report, Errc, Index

(* Every step keeps the stack nested: nothing a handler does inside its      *)
(* context reaches the wrapper below.                                        *)
LEMMA StepNested ==
  ASSUME "confstr" \notin Dirty
  PROVE  Nested /\ [Next]_vars => Nested'
<1> SUFFICES ASSUME Nested, [Next]_vars PROVE Nested'
  OBVIOUS
<1>0. TypeOK /\ Bracketed /\ Cleared /\ Truthful /\ Remembered
  BY DEF Nested
<1>a. depth \in Nat /\ 0 \in Errc /\ errno \in Errc /\ last \in Report
  BY <1>0, MaxErrcAssumption DEF TypeOK, Errc
<1>1. CASE OpenContext
  <2> DEFINE fr == [NoFrame EXCEPT !.saved_errno_ = errno, !.entry = errno]
  <2>1. /\ fr \in Frame /\ fr.pc = "context"
        /\ fr.saved_errno_ = errno /\ fr.entry = errno
    BY <1>a DEF NoFrame, Frame
  <2>2. /\ frames' \in [Index -> Frame] /\ depth' \in 0 .. MaxDepth
        /\ depth' = depth + 1 /\ depth + 1 \in Index
        /\ frames'[depth + 1] = fr
        /\ \A i \in 1 .. depth : i \in Index /\ frames'[i] = frames[i]
    BY <1>0, <1>1, <2>1, PushType DEF OpenContext
  <2> HIDE DEF fr
  <2>3. \A i \in 1 .. depth : Resumes(i)' = Resumes(i)
    BY <1>a, <2>1, <2>2 DEF Resumes
  <2>4. \A i \in 1 .. depth' : i \in 1 .. depth \/ i = depth + 1
    BY <1>a, <2>2
  <2> QED
    BY <1>0, <1>1, <1>a, <2>1, <2>2, <2>3, <2>4
       DEF OpenContext, Nested, TypeOK, Bracketed, InFlight, Cleared, Truthful,
           Remembered
<1>2. CASE Restore
  BY <1>0, <1>2, <1>a DEF Restore, Nested, TypeOK, Bracketed, InFlight, Cleared,
     Truthful, Remembered, Resumes, Top, Index, Frame
<1>3. CASE CloseContext
  <2>1. /\ frames' \in [Index -> Frame] /\ depth' \in 0 .. MaxDepth
        /\ depth' = depth - 1 /\ depth \in Index
        /\ \A i \in 1 .. depth' : i \in Index /\ frames'[i] = frames[i]
    BY <1>0, <1>3, PopType DEF CloseContext
  <2>2. errno' = frames[depth].saved_errno_ /\ errno' \in Errc
    BY <1>0, <1>3, <2>1 DEF CloseContext, Top, TypeOK, Frame
  <2>3. \A i \in 1 .. depth' : Resumes(i)' = Resumes(i) /\ i \in 1 .. depth
    BY <1>a, <2>1, <2>2 DEF Resumes
  <2> QED
    BY <1>0, <1>3, <1>a, <2>1, <2>2, <2>3
       DEF CloseContext, Nested, TypeOK, Bracketed, InFlight, Cleared, Truthful,
           Remembered
<1>4. CASE CallerErrno
  BY <1>0, <1>4, <1>a
     DEF CallerErrno, CallerRuns, Top, Nested, TypeOK, Bracketed, InFlight,
         Cleared, Truthful, Remembered, Resumes
<1>5. ASSUME NEW c \in Used, Begin(c) PROVE Nested'
  <2> DEFINE fr == [NoFrame EXCEPT !.pc = "called", !.shape = c.shape,
                                   !.saved_errno_ = errno, !.entry = errno]
  <2>1. /\ fr \in Frame /\ fr.pc = "called" /\ fr.shape = c.shape
        /\ fr.shape \in Shape
        /\ fr.saved_errno_ = errno /\ fr.entry = errno
    BY <1>a, CallShape DEF NoFrame, Frame
  <2>2. /\ frames' \in [Index -> Frame] /\ depth' \in 0 .. MaxDepth
        /\ depth' = depth + 1 /\ depth + 1 \in Index
        /\ frames'[depth + 1] = fr
        /\ \A i \in 1 .. depth : i \in Index /\ frames'[i] = frames[i]
    BY <1>0, <1>5, <2>1, PushType DEF Begin
  <2> HIDE DEF fr
  <2>3. \A i \in 1 .. depth : Resumes(i)' = Resumes(i)
    BY <1>a, <2>1, <2>2 DEF Resumes
  <2>4. \A i \in 1 .. depth' : i \in 1 .. depth \/ i = depth + 1
    BY <1>a, <2>2
  <2>5. \A i \in 1 .. depth : i = depth => ~InFlight(i)
    BY <1>a, <1>5 DEF Begin, CallerRuns, Top, InFlight
  <2>6. errno' \in Errc /\ (fr.shape \in InContext => errno' = 0)
    BY <1>a, <1>5, <2>1 DEF Begin
  <2>7. \A i \in 1 .. depth' : i = depth + 1 => Resumes(i)' = errno'
    BY <2>2 DEF Resumes
  <2> QED
    BY <1>0, <1>5, <1>a, <2>1, <2>2, <2>3, <2>4, <2>5, <2>6, <2>7
       DEF Begin, Nested, TypeOK, Bracketed, InFlight, Cleared, Truthful,
           Remembered
<1>6. ASSUME InCall, NEW m \in BOOLEAN, NEW e \in Errc, Done(m, e),
             errno' \in Errc, UNCHANGED <<depth, last>>,
             IF e # 0
               THEN errno' = e /\ (Top.shape # "confstr" => m)
               ELSE /\ Top.shape = "confstr" => errno' = 0
                    /\ m => Top.shape = "sysconf" /\ errno' = 0
      PROVE  Nested'
  <2>1. /\ frames' \in [Index -> Frame]
        /\ depth \in Index /\ depth \in 1 .. depth
        /\ frames'[depth].pc = "done"
        /\ frames'[depth].shape = frames[depth].shape
        /\ frames'[depth].minusOne = m
        /\ frames'[depth].failed = e
        /\ frames'[depth].saved_errno_ = frames[depth].saved_errno_
        /\ frames'[depth].entry = frames[depth].entry
        /\ \A i \in 1 .. depth - 1 : i \in Index /\ frames'[i] = frames[i]
    BY <1>0, <1>6, DoneType
  <2>2. \A i \in 1 .. depth - 1 : Resumes(i)' = Resumes(i)
    BY <1>a, <1>6, <2>1 DEF Resumes
  <2>3. \A i \in 1 .. depth' : i \in 1 .. depth - 1 \/ i = depth
    BY <1>a, <1>6
  <2>4. Resumes(depth)' = errno' /\ InFlight(depth)
    BY <1>6 DEF Resumes, InCall, Top, InFlight
  <2>5. TypeOK'
    BY <1>0, <1>6, <1>a, <2>1 DEF TypeOK
  <2>6. Bracketed' /\ Cleared' /\ Remembered'
    BY <1>0, <1>6, <1>a, <2>1, <2>2, <2>3, <2>4
       DEF Bracketed, InFlight, Cleared, Remembered, InCall, Top
  <2>7. Truthful'
    BY <1>0, <1>6, <1>a, <2>1, <2>2, <2>3, <2>4 DEF Truthful, Top
  <2> QED
    BY <2>5, <2>6, <2>7 DEF Nested
<1>7. CASE LibcFails
  <2>1. PICK e \in Errc \ {0} : errno' = e /\ Done(Top.shape # "confstr", e)
    BY <1>7 DEF LibcFails
  <2> QED
    BY <1>6, <1>7, <2>1 DEF LibcFails
<1>8. CASE LibcSucceeds
  <2>1. errno' \in Errc /\ (Top.shape = "confstr" => errno' = errno)
    BY <1>a, <1>8 DEF LibcSucceeds
  <2>2. Top.shape = "confstr" => errno = 0
    BY <1>0, <1>8, <1>a DEF LibcSucceeds, InCall, Top, Cleared, InContext, Resumes
  <2> QED
    BY <1>6, <1>8, <1>a, <2>1, <2>2 DEF LibcSucceeds
<1>9. CASE SysconfIndeterminate
  <2>1. errno = 0
    BY <1>0, <1>9, <1>a
       DEF SysconfIndeterminate, InCall, Top, Cleared, InContext, Resumes
  <2> QED
    BY <1>6, <1>9, <1>a, <2>1 DEF SysconfIndeterminate
<1>10. ASSUME depth > 0, InFlight(depth), Pop, errno' \in Errc, last' \in Report
       PROVE  Nested'
  <2>1. /\ frames' \in [Index -> Frame] /\ depth' \in 0 .. MaxDepth
        /\ depth' = depth - 1 /\ depth \in Index
        /\ \A i \in 1 .. depth' : i \in Index /\ frames'[i] = frames[i]
    BY <1>0, <1>10, PopType
  <2>2. \A i \in 1 .. depth' : i \in 1 .. depth /\ i # depth
    BY <1>a, <2>1
  <2>3. depth' > 0 => frames[depth'].pc = "context"
    BY <1>0, <1>10, <1>a, <2>1 DEF Bracketed, InFlight
  <2>4. \A i \in 1 .. depth' : i # depth' => Resumes(i)' = Resumes(i)
    BY <1>a, <2>1 DEF Resumes
  <2> QED
    BY <1>0, <1>10, <1>a, <2>1, <2>2, <2>3, <2>4
       DEF Nested, TypeOK, Bracketed, InFlight, Cleared, Truthful, Remembered
<1>11. CASE CheckFails
  <2>1. last' \in Report /\ InFlight(depth) /\ errno' = errno
    BY <1>11, MaxErrcAssumption
       DEF CheckFails, InCall, Top, InFlight, Report, ValueTooLarge, Errc, Shape
  <2> QED
    BY <1>10, <1>11, <1>a, <2>1 DEF CheckFails, InCall
<1>12. CASE Return
  <2>1. depth \in Index /\ Top \in Frame /\ InFlight(depth)
    BY <1>0, <1>12, MaxDepthAssumption DEF Return, TypeOK, Top, Index, InFlight
  <2>2. Top.shape \in Shape
    BY <1>0, <1>a, <2>1, <1>12 DEF Bracketed, Top, Return
  <2>3. /\ Outcome(Top.shape, Top.minusOne, errno).has_error \in BOOLEAN
        /\ Outcome(Top.shape, Top.minusOne, errno).code \in Errc
    BY <1>a, <2>2 DEF Outcome, Shape, Error, Value
  <2>4. last' \in Report
    BY <1>12, <2>1, <2>3 DEF Return, Report, Frame
  <2>5. errno' \in Errc
    BY <1>12, <1>a, <2>1 DEF Return, Frame
  <2> QED
    BY <1>10, <1>12, <2>1, <2>4, <2>5 DEF Return
<1>13. CASE UNCHANGED vars
  BY <1>0, <1>13 DEF vars, Nested, TypeOK, Bracketed, InFlight, Cleared, Truthful,
     Remembered, Resumes
<1> QED
  BY <1>1, <1>2, <1>3, <1>4, <1>5, <1>7, <1>8, <1>9, <1>11, <1>12, <1>13 DEF Next

(* No wrapper that returns an error_code as a result is in flight if the     *)
(* thread calls none.                                                        *)
LEMMA StepNotWidened ==
  ASSUME \A c \in Used : c.shape # "widened"
  PROVE  Nested /\ NotWidened /\ [Next]_vars => NotWidened'
<1> SUFFICES ASSUME TypeOK, NotWidened, [Next]_vars PROVE NotWidened'
  BY DEF Nested
<1>a. depth \in Nat /\ MaxDepth \in Nat /\ NoFrame.shape = "none"
  BY MaxDepthAssumption DEF TypeOK, NoFrame
<1>1. ASSUME NEW fr, fr.shape # "widened", Push(fr) PROVE NotWidened'
  BY <1>1, <1>a DEF Push, NotWidened, TypeOK, Index
<1>2. ASSUME depth > 0, Pop PROVE NotWidened'
  BY <1>2, <1>a DEF Pop, NotWidened, TypeOK, Index
<1>3. ASSUME InCall, NEW m, NEW e, Done(m, e), depth' = depth PROVE NotWidened'
  <2>1. depth \in Index /\ frames[depth] \in Frame
    BY <1>3, <1>a DEF InCall, TypeOK, Index
  <2>2. frames'[depth].shape = frames[depth].shape
    BY <1>3, <2>1 DEF Done, Frame, TypeOK
  <2>3. \A i \in 1 .. depth : i \in Index /\ (i # depth => frames'[i] = frames[i])
    BY <1>3, <1>a, <2>1 DEF Done, TypeOK, Index
  <2> QED
    BY <1>3, <2>2, <2>3 DEF NotWidened
<1>4. CASE OpenContext
  BY <1>1, <1>4 DEF OpenContext, NoFrame
<1>5. CASE Restore \/ CallerErrno \/ UNCHANGED vars
  BY <1>5 DEF Restore, CallerErrno, NotWidened, vars
<1>6. CASE CloseContext \/ CheckFails \/ Return
  BY <1>2, <1>6 DEF CloseContext, CheckFails, Return, InCall
<1>7. ASSUME NEW c \in Used, Begin(c) PROVE NotWidened'
  BY <1>1, <1>7 DEF Begin, NoFrame
<1>8. CASE LibcFails \/ LibcSucceeds \/ SysconfIndeterminate
  BY <1>3, <1>8 DEF LibcFails, LibcSucceeds, SysconfIndeterminate
<1> QED
  BY <1>4, <1>5, <1>6, <1>7, <1>8 DEF Next

(* The report a wrapper makes from what it reads is true. *)
LEMMA StepTells ==
  Nested /\ NotWidened /\ TellsOutcome /\ [Next]_vars => TellsOutcome'
<1> SUFFICES ASSUME Nested, NotWidened, TellsOutcome, [Next]_vars
             PROVE  TellsOutcome'
  OBVIOUS
<1>1. CASE Return
  <2>1. depth \in 1 .. depth /\ Top = frames[depth] /\ Top \in Frame
    BY <1>1, MaxDepthAssumption DEF Return, Nested, TypeOK, Top, Index
  <2>2. Resumes(depth) = errno
    BY DEF Resumes
  <2>3. /\ Top.shape \in Shape \ {"widened"}
        /\ IF Top.failed # 0
             THEN errno = Top.failed /\ (Top.shape # "confstr" => Top.minusOne)
             ELSE /\ Top.shape = "confstr" => errno = 0
                  /\ Top.minusOne => Top.shape = "sysconf" /\ errno = 0
    BY <1>1, <2>1, <2>2
       DEF Return, Nested, Bracketed, InFlight, Truthful, NotWidened
  <2>4. LET r == Outcome(Top.shape, Top.minusOne, errno)
        IN  (r.has_error <=> Top.failed # 0) /\ r.code = Top.failed
    BY <2>3 DEF Outcome, Error, Value, Shape
  <2> QED
    BY <1>1, <2>4 DEF Return, TellsOutcome
<1>2. CASE CheckFails
  BY <1>2, MaxErrcAssumption DEF CheckFails, TellsOutcome, ValueTooLarge
<1>3. CASE UNCHANGED last
  BY <1>3 DEF TellsOutcome
<1> QED
  BY <1>1, <1>2, <1>3
     DEF Next, vars, OpenContext, Restore, CloseContext, CallerErrno, Begin,
         LibcFails, LibcSucceeds, SysconfIndeterminate

(* A context that ends puts back the errno it was entered with.              *)
LEMMA StepInvisible ==
  Nested /\ [Next]_vars =>
    [depth' < depth /\ (Top.pc = "context" \/ Top.shape \in InContext)
       => errno' = Top.entry]_vars
<1> SUFFICES ASSUME Nested, [Next]_vars, depth' < depth,
                    Top.pc = "context" \/ Top.shape \in InContext
             PROVE  errno' = Top.entry
  OBVIOUS
<1>1. depth \in Int /\ (depth > 0 => Top.saved_errno_ = Top.entry)
  BY DEF Nested, TypeOK, Remembered, Top
<1>2. CASE CloseContext
  BY <1>1, <1>2 DEF CloseContext
<1>3. CASE Return
  <2>1. Top.pc = "done" /\ depth > 0
    BY <1>3 DEF Return
  <2> QED
    BY <1>1, <1>3, <2>1 DEF Return
<1>4. CASE CheckFails
  BY <1>4 DEF CheckFails, InCall, InContext
<1>5. CASE depth' = depth \/ depth' = depth + 1
  BY <1>1, <1>5
<1> QED
  BY <1>2, <1>3, <1>4, <1>5
     DEF Next, vars, OpenContext, Restore, CallerErrno, Begin, Push,
         LibcFails, LibcSucceeds, SysconfIndeterminate
-------------------------------------------------------------------------------
(* The thread's errno, its contexts and its calls stay typed, and what the   *)
(* last wrapper reported is the truth about its own libc call, at any depth  *)
(* of nested handlers, unless it is one of the wrappers that return an       *)
(* error_code as a result, and provided ::confstr does not touch errno when  *)
(* it succeeds.                                                              *)
THEOREM ReportsAreTrue ==
  ASSUME "confstr" \notin Dirty, \A c \in Used : c.shape # "widened"
  PROVE  Spec => [](TypeOK /\ TellsOutcome)
<1>1. Nested /\ NotWidened /\ TellsOutcome /\ [Next]_vars
        => (Nested /\ NotWidened /\ TellsOutcome)'
  BY StepNested, StepNotWidened, StepTells
<1>2. Spec => [](Nested /\ NotWidened /\ TellsOutcome)
  BY <1>1, InitNested, PTL DEF Spec
<1>3. Nested => TypeOK
  BY DEF Nested
<1> QED
  BY <1>2, <1>3, PTL

(* The thread's errno, its contexts and its calls stay typed with the        *)
(* wrappers that return an error_code as a result as well.                   *)
THEOREM CallsTyped ==
  ASSUME "confstr" \notin Dirty
  PROVE  Spec => []TypeOK
<1>1. Spec => []Nested
  BY InitNested, StepNested, PTL DEF Spec
<1>2. Nested => TypeOK
  BY DEF Nested
<1> QED
  BY <1>1, <1>2, PTL

(* Nobody can tell from errno that an errno_context was there.               *)
THEOREM ContextsAreInvisible ==
  ASSUME "confstr" \notin Dirty
  PROVE  Spec => ContextInvisible
<1>1. Spec => []Nested
  BY InitNested, StepNested, PTL DEF Spec
<1> QED
  BY <1>1, StepInvisible, PTL DEF Spec, ContextInvisible
===============================================================================

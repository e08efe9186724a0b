----------------------------- MODULE SpanProofs -----------------------------
(* Theorems about Span for blocks of any length and integers of any width.   *)
EXTENDS Span, TLAPS

(* What makes one view good, whoever holds it. *)
Good(v) ==
  /\ v \in View
  /\ ~v.null /\ ~v.cut => v.lo <= v.buffer_ /\ v.buffer_ + v.length_ <= v.hi
  /\ v.kind = "span" /\ v.null => v.length_ = 0

AllGood == view \in [Slot \cup {Kernel} -> View]
             /\ \A s \in Slot \cup {Kernel} : Good(view[s])

(* Good views are typed, stay inside, and are empty if null. *)
LEMMA AllGoodImplies == AllGood => TypeOK /\ StaysInside /\ NullIsEmpty
BY DEF AllGood, Good, TypeOK, StaysInside, NullIsEmpty

(* Conversion to a narrower unsigned type never makes a number larger.       *)
LEMMA Narrowing ==
  ASSUME NEW n \in Nat, NEW m \in Nat \ {0}
  PROVE  n % m \in Nat /\ n % m < m /\ n % m <= n /\ (n < m => n % m = n)
<1>1. n % m \in 0 .. m - 1
  OBVIOUS
<1>2. n < m => n % m = n
  OBVIOUS
<1> QED
  BY <1>1, <1>2

(* The default constructor makes a good view. *)
LEMMA EmptyGood == Good(Empty) /\ Empty.null
BY BlockAssumption, SizeAssumption DEF Good, Empty, View, Place, Size

(* A span made from a good view, an offset and a length that fit it, is good. *)
LEMMA SpanOfGood ==
  ASSUME NEW v, Good(v), NEW offset \in Nat, NEW n \in Size,
         ~v.null /\ ~v.cut => offset + n <= v.length_,
         ~v.null => v.buffer_ + offset \in Place
  PROVE  Good(SpanOf(v, offset, n))
<1>1. CASE v.null
  BY <1>1, EmptyGood DEF SpanOf
<1>2. CASE ~v.null
  <2> DEFINE w == [v EXCEPT !.kind = "span", !.buffer_ = @ + offset,
                            !.length_ = n]
  <2>1. SpanOf(v, offset, n) = w
    BY <1>2 DEF SpanOf
  <2>2. w \in View
    BY <1>2 DEF Good, View
  <2>3. /\ w.null = v.null /\ w.buffer_ = v.buffer_ + offset /\ w.length_ = n
        /\ w.lo = v.lo /\ w.hi = v.hi /\ w.cut = v.cut
    BY DEF Good, View
  <2>4. ~w.cut => w.lo <= w.buffer_ /\ w.buffer_ + w.length_ <= w.hi
    BY <1>2, <2>3 DEF Good, View, Place, Size
  <2> QED
    BY <1>2, <2>1, <2>2, <2>3, <2>4 DEF Good
<1> QED
  BY <1>1, <1>2 DEF Good, View

(* A span of the beginning of a good view is good. *)
LEMMA PrefixGood ==
  ASSUME NEW v, Good(v), NEW n \in Size, ~v.null /\ ~v.cut => n <= v.length_
  PROVE  Good(SpanOf(v, 0, n))
<1>1. ~v.null /\ ~v.cut => 0 + n <= v.length_
  BY SizeAssumption DEF Good, View, Size
<1>2. v.buffer_ + 0 \in Place
  BY BlockAssumption DEF Good, View, Place
<1> QED
  BY <1>1, <1>2, SpanOfGood

(* An any_view of the same memory, or of its beginning, is good. *)
LEMMA AnyOfGood ==
  ASSUME NEW v, Good(v), NEW n \in Size, ~v.null /\ ~v.cut => n <= v.length_
  PROVE  Good(AnyOf(v, n))
<1> DEFINE w == AnyOf(v, n)
<1>1. w \in View
  BY DEF AnyOf, Good, View
<1>2. /\ w.null = v.null /\ w.buffer_ = v.buffer_ /\ w.length_ = n
      /\ w.lo = v.lo /\ w.hi = v.hi /\ w.cut = v.cut
      /\ w.kind = "any"
  BY DEF AnyOf, Good, View
<1> QED
  BY <1>1, <1>2 DEF Good, View, Place, Size

(* So is the memory that the kernel may access. *)
LEMMA AccessGood ==
  ASSUME NEW t \in Slot, Good(view[t]), NEW n \in Size, n <= view[t].length_
  PROVE  Good(Access(t, n))
<1> DEFINE v == view[t]  w == Access(t, n)
<1>1. w \in View
  BY DEF Access, Good, View
<1>2. /\ w.null = v.null /\ w.buffer_ = v.buffer_ /\ w.length_ = n
      /\ w.lo = v.lo /\ w.hi = v.hi /\ w.cut = v.cut
      /\ w.kind = v.kind
  BY DEF Access, Good, View
<1> QED
  BY <1>1, <1>2 DEF Good, View, Place, Size

(* What the program grants is good. *)
LEMMA GrantedGood ==
  ASSUME NEW r \in Region
  PROVE  /\ Good(Granted(r)) /\ r[2] - r[1] \in Size
         /\ r[2] - r[1] <= Granted(r).length_
<1>1. r[1] \in Place /\ r[2] \in Place /\ r[1] <= r[2]
  BY DEF Region
<1> QED
  BY <1>1, BlockAssumption, SizeAssumption DEF Good, Granted, View, Place, Size

(* Storing a good view keeps all views good. *)
LEMMA SetGood ==
  ASSUME AllGood, NEW s \in Slot \cup {Kernel}, NEW v, Good(v), Set(s, v)
  PROVE  AllGood'
BY DEF AllGood, Set, Good

(* All views start empty. *)
LEMMA InitGood == Init => AllGood
BY EmptyGood DEF Init, AllGood, Good
-------------------------------------------------------------------------------
LEMMA StepGood == AllGood /\ [Next]_vars => AllGood'
<1> SUFFICES ASSUME AllGood, [Next]_vars PROVE AllGood'
  OBVIOUS
<1>0. \A t \in Slot : /\ Good(view[t]) /\ view[t].length_ \in Size
                      /\ view[t].length_ <= view[t].length_
  BY SizeAssumption DEF AllGood, Good, View, Size
<1>a. Size \subseteq Nat /\ 0 \in Size
  BY SizeAssumption DEF Size
<1>1. ASSUME NEW s \in Slot, NEW r \in Region, Construct(s, r) PROVE AllGood'
  <2>1. Good(SpanOf(Granted(r), 0, r[2] - r[1]))
    BY GrantedGood, PrefixGood
  <2> QED
    BY <1>1, <2>1, SetGood DEF Construct
<1>2. ASSUME NEW s \in Slot, NEW r \in Region, ConstructAny(s, r) PROVE AllGood'
  <2>1. Good(AnyOf(Granted(r), r[2] - r[1]))
    BY GrantedGood, AnyOfGood
  <2> QED
    BY <1>2, <2>1, SetGood DEF ConstructAny
<1>3. ASSUME NEW s \in Slot, NEW n \in Size, ConstructNull(s, n) PROVE AllGood'
  BY <1>3, <1>a, EmptyGood, PrefixGood, SetGood DEF ConstructNull
<1>4. ASSUME NEW s \in Slot, NEW n \in Size, ConstructAnyNull(s, n)
      PROVE  AllGood'
  BY <1>4, <1>a, EmptyGood, AnyOfGood, SetGood DEF ConstructAnyNull
<1>5. ASSUME NEW s \in Slot, NEW t \in Slot, Convert(s, t) PROVE AllGood'
  <2>1. Good(SpanOf(view[t], 0, view[t].length_))
    BY <1>0, <1>a, PrefixGood
  <2>2. Good(AnyOf(view[t], view[t].length_))
    BY <1>0, <1>a, AnyOfGood
  <2> QED
    BY <1>5, <2>1, <2>2, SetGood DEF Convert
<1>6. ASSUME NEW s \in Slot, NEW t \in Slot, AsBytes(s, t) PROVE AllGood'
  <2>1. Good(SpanOf(view[t], 0, view[t].length_))
    BY <1>0, <1>a, PrefixGood
  <2> QED
    BY <1>6, <2>1, SetGood DEF AsBytes
<1>7. ASSUME NEW s \in Slot, NEW t \in Slot, NEW offset \in Size,
             NEW count \in Size, Subspan(s, t, offset, count)
      PROVE  AllGood'
  <2> DEFINE len == view[t].length_
  <2>1. CASE offset >= len \/ (len - offset) % SizeMod < count
    BY <1>7, <2>1, EmptyGood, SetGood DEF Subspan
  <2>2. CASE offset < len /\ ~((len - offset) % SizeMod < count)
    <3>1. len - offset \in Nat /\ len - offset < SizeMod
      BY <1>0, <2>2, SizeAssumption DEF Size
    <3>2. (len - offset) % SizeMod = len - offset
      BY <3>1, SizeAssumption, Narrowing
    <3>3. offset + count <= len
      BY <1>0, <2>2, <3>2 DEF Size
    <3>4. ~view[t].null => view[t].buffer_ + offset \in Place
      BY <1>0, <1>7, <3>3, BlockAssumption DEF Subspan, Good, View, Place, Size
    <3>6. Good(SpanOf(view[t], offset, count))
      BY <1>0, <1>a, <3>3, <3>4, SpanOfGood
    <3>5. Set(s, SpanOf(view[t], offset, count))
      BY <1>0, <1>7, <2>2 DEF Subspan, Size
    <3> QED
      BY <3>5, <3>6, SetGood
  <2> QED
    BY <1>0, <2>1, <2>2 DEF Size
<1>8. ASSUME NEW t \in Slot, Pass(t) PROVE AllGood'
  <2>1. Good(Access(t, view[t].length_))
    BY <1>0, <1>a, AccessGood
  <2> QED
    BY <1>8, <2>1, SetGood DEF Pass
<1>9. ASSUME NEW s \in Slot, NEW t \in Slot, NEW n \in Size, Good(SpanOf(view[t], 0, n)),
             view' = [view EXCEPT ![Kernel] = Access(t, view[t].length_),
                                  ![s] = SpanOf(view[t], 0, n)]
      PROVE  AllGood'
  <2>1. Good(Access(t, view[t].length_))
    BY <1>0, <1>a, AccessGood
  <2> QED
    BY <1>9, <2>1, KernelAssumption DEF AllGood, Good
<1>10. ASSUME NEW s \in Slot, NEW t \in Slot, NEW n \in Size, Receive(s, t, n)
       PROVE  AllGood'
  <2>1. Good(SpanOf(view[t], 0, n))
    BY <1>0, <1>10, <1>a, PrefixGood DEF Receive
  <2> QED
    BY <1>9, <1>10, <2>1 DEF Receive
<1>11. ASSUME NEW s \in Slot, NEW t \in Slot, Confstr(s, t) PROVE AllGood'
  <2> DEFINE v == view[t]
             w == SpanOf(v, 0, NameLen)
             c == v.cut \/ NameLen > v.length_
             x == [w EXCEPT !.cut = c]
  <2>1. NameLen \in Size /\ v.buffer_ + 0 \in Place /\ v.buffer_ + 0 = v.buffer_
    BY <1>0, NameAssumption, BlockAssumption DEF Size, Good, View, Place
  <2>2. w \in View /\ c \in BOOLEAN /\ (w.null => w = Empty)
    BY <1>0, <2>1, EmptyGood DEF SpanOf, Good, View
  <2>3. /\ x \in View /\ x.null = w.null /\ x.buffer_ = w.buffer_ /\ x.kind = w.kind
        /\ x.length_ = w.length_ /\ x.lo = w.lo /\ x.hi = w.hi /\ x.cut = c
    BY <2>2 DEF View
  <2>4. ASSUME ~x.null, ~x.cut
        PROVE  x.lo <= x.buffer_ /\ x.buffer_ + x.length_ <= x.hi
    <3>1. ~v.null /\ ~v.cut /\ NameLen <= v.length_
      BY <1>0, <2>1, <2>3, <2>4, EmptyGood DEF SpanOf, Good, View, Size
    <3>2. w.lo = v.lo /\ w.hi = v.hi /\ w.buffer_ = v.buffer_ /\ w.length_ = NameLen
      BY <1>0, <2>1, <3>1 DEF SpanOf, Good, View
    <3> QED
      BY <1>0, <2>1, <2>3, <3>1, <3>2 DEF Good, View, Place, Size
  <2>5. x.null => x.length_ = 0
    BY <2>2, <2>3 DEF Empty
  <2>6. Good(x)
    BY <2>3, <2>4, <2>5 DEF Good
  <2>7. Good(Access(t, v.length_))
    BY <1>0, <1>a, AccessGood
  <2>8. view' = [view EXCEPT ![Kernel] = Access(t, v.length_), ![s] = x]
    BY <1>11 DEF Confstr
  <2> HIDE DEF x
  <2> QED
    BY <2>6, <2>7, <2>8, KernelAssumption DEF AllGood, Good
<1>12. ASSUME NEW t \in Slot, Wait(t) PROVE AllGood'
  <2> DEFINE len == view[t].length_
  <2>1. CASE ToInt(len) > 0
    <3>1. len \in Nat /\ len < SizeMod
      BY <1>0, SizeAssumption DEF Size
    <3>2. len % IntMod \in Nat /\ len % IntMod < IntMod /\ len % IntMod <= len
      BY <3>1, SizeAssumption, Narrowing
    <3>3. ToInt(len) \in Size /\ ToInt(len) <= len
      BY <2>1, <3>1, <3>2, SizeAssumption DEF ToInt, Size
    <3>4. Good(Access(t, ToInt(len)))
      BY <1>0, <3>3, AccessGood
    <3> QED
      BY <1>12, <2>1, <3>4, SetGood DEF Wait
  <2>2. CASE ~(ToInt(len) > 0)
    BY <1>12, <2>2, EmptyGood, SetGood DEF Wait
  <2> QED
    BY <2>1, <2>2
<1>13. ASSUME NEW t \in Slot, SetSockOpt(t) PROVE AllGood'
  <2> DEFINE n == view[t].length_ % IntMod
  <2>1. view[t].length_ \in Nat /\ view[t].length_ < SizeMod
    BY <1>0, SizeAssumption DEF Size
  <2>2. n \in Nat /\ n <= view[t].length_
    BY <2>1, SizeAssumption, Narrowing
  <2> HIDE DEF n
  <2>3. n \in Size
    BY <2>1, <2>2, SizeAssumption DEF Size
  <2>4. Good(Access(t, n))
    BY <1>0, <2>2, <2>3, AccessGood
  <2> QED
    BY <1>13, <2>4, SetGood DEF SetSockOpt, n
<1>14. ASSUME NEW t \in Slot, GetSockOpt(t) PROVE AllGood'
  <2>1. Good(Access(t, view[t].length_))
    BY <1>0, <1>a, AccessGood
  <2> QED
    BY <1>14, <2>1, SetGood DEF GetSockOpt
<1>15. CASE UNCHANGED vars
  BY <1>15 DEF vars, AllGood, Good
<1> QED
  BY <1>1, <1>2, <1>3, <1>4, <1>5, <1>6, <1>7, <1>8, <1>10, <1>11, <1>12,
     <1>13, <1>14, <1>15 DEF Next

(* For every length, offset and count a size_t can hold, and however int and *)
(* socklen_t cut lengths short, no view and no system call reaches memory    *)
(* that was not entrusted to it, unless the view comes from a confstr that   *)
(* was given too short a buffer; and a span of no memory is empty.           *)
THEOREM ViewsStayInside == Spec => [](TypeOK /\ StaysInside /\ NullIsEmpty)
<1>1. Spec => []AllGood
  BY InitGood, StepGood, PTL DEF Spec
<1> QED
  BY <1>1, AllGoodImplies, PTL

(* A span made of a null pointer, by whatever chain of conversions and       *)
(* subspans, is empty, although an any_view of a null pointer may not be.    *)
THEOREM NullSpansAreEmpty == Spec => []NullIsEmpty
BY ViewsStayInside, PTL

(* Every offset stays between the ends of its block and every length within  *)
(* size_t, through any chain of conversions, differences and narrowings.     *)
THEOREM ViewsTyped == Spec => []TypeOK
BY ViewsStayInside, PTL
=============================================================================

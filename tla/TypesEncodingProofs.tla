------------------------- MODULE TypesEncodingProofs -------------------------
(***************************************************************************)
(* Proofs about TypesEncoding: for every set of strings, that decode_type  *)
(* stays in the string and comes to an end (TypeOK, CallsNest,             *)
(* WorkDecreases); for every set of strings of the grammar (TypesGrammar), *)
(* that it finds the types they mean (RoundTrip).                          *)
(***************************************************************************)
EXTENDS TypesGrammar, SequenceTheorems, FiniteSetTheorems, WellFoundedInduction, TLAPS

-----------------------------------------------------------------------------
(***************************************************************************)
(* Reading: the iterator moves forward, and never past the end.            *)
(***************************************************************************)
LEMMA MinIsElement ==
  ASSUME NEW S, S \subseteq Nat, S # {}
  PROVE  Min(S) \in S /\ \A y \in S : Min(S) <= y
<1> DEFINE R == {ss \in Nat \X Nat : ss[1] < ss[2]}
<1>1. R = OpToRel(<, Nat)
  BY Zenon DEF OpToRel
<1>2. IsWellFoundedOn(R, Nat)
  BY <1>1, NatLessThanWellFounded
<1>3. \A x, y \in S : y < x => <<y, x>> \in R
  OBVIOUS
<1> HIDE DEF R
<1>4. PICK x \in S : \A y \in S : ~ (<<y, x>> \in R)
  BY <1>2, WFMin
<1>5. \A y \in S : ~ (y < x)
  BY Zenon, <1>3, <1>4
<1>6. \A y \in S : x <= y
  BY <1>5
<1> QED
  BY <1>6 DEF Min

LEMMA UntilRange ==
  ASSUME encoded \in Seq(STRING), NEW k \in 1..(Len(encoded) + 1), NEW stops
  PROVE  Until(k, stops) \in k..(Len(encoded) + 1)
<1>1. Len(encoded) \in Nat
  BY LenProperties
<1> DEFINE S == {j \in k..Len(encoded) : encoded[j] \in stops} \cup {Len(encoded) + 1}
<1>2. S \subseteq k..(Len(encoded) + 1) /\ S \subseteq Nat /\ S # {}
  BY <1>1
<1>3. Min(S) \in S
  BY <1>2, MinIsElement
<1> QED
  BY <1>2, <1>3 DEF Until

LEMMA SkipAllRange ==
  ASSUME encoded \in Seq(STRING), NEW k \in 1..(Len(encoded) + 1), NEW chars
  PROVE  SkipAll(k, chars) \in k..(Len(encoded) + 1)
BY UntilRange DEF SkipAll

LEMMA TypeAtRange ==
  ASSUME encoded \in Seq(STRING), it \in 1..(Len(encoded) + 1)
  PROVE  TypeAt \in it..(Len(encoded) + 1)
<1>1. Len(encoded) \in Nat
  BY LenProperties
<1>2. SkipAll(it, Digits) \in it..(Len(encoded) + 1)
  BY SkipAllRange
<1>3. SkipAll(it, Digits) \in 1..(Len(encoded) + 1)
  BY <1>1, <1>2
<1>4. TypeAt \in SkipAll(it, Digits)..(Len(encoded) + 1)
  BY <1>3, SkipAllRange DEF TypeAt
<1> QED
  BY <1>1, <1>2, <1>4

\* At a type there is a character to read.
LEMMA TypeReadable ==
  ASSUME encoded \in Seq(STRING), it \in 1..(Len(encoded) + 1), ~ AtEnd(TypeAt)
  PROVE  TypeAt \in it..Len(encoded) /\ ~ AtEnd(it)
<1>1. Len(encoded) \in Nat
  BY LenProperties
<1> QED
  BY <1>1, TypeAtRange DEF AtEnd

LEMMA NameAfterRange ==
  ASSUME encoded \in Seq(STRING), NEW k \in 1..(Len(encoded) + 1)
  PROVE  NameAfter(k) \in k..(Len(encoded) + 1)
<1>1. Len(encoded) \in Nat
  BY LenProperties
<1>2. CASE ~ Is(k, Quote)
  BY <1>1, <1>2 DEF NameAfter
<1>3. CASE Is(k, Quote)
  <2> DEFINE close == Until(k + 1, {Quote})
  <2>1. k + 1 \in 1..(Len(encoded) + 1)
    BY <1>1, <1>3 DEF Is, AtEnd
  <2>2. close \in (k + 1)..(Len(encoded) + 1)
    BY <2>1, UntilRange
  <2> HIDE DEF close
  <2>3. (IF AtEnd(close) THEN close ELSE close + 1) \in k..(Len(encoded) + 1)
    BY <1>1, <2>2 DEF AtEnd
  <2> QED
    BY <1>3, <2>3 DEF NameAfter, close
<1> QED
  BY <1>2, <1>3

-----------------------------------------------------------------------------
(***************************************************************************)
(* What the actions do to the control state.  Each action is a step of one *)
(* of five shapes.                                                         *)
(***************************************************************************)
ReturnStep ==
  /\ phase = "call" /\ phase' = "return" /\ calls' = calls
  /\ it' \in it..(Len(encoded) + 1) /\ (it' = it => AtEnd(it))

EnterStep ==
  /\ phase = "call" /\ phase' \in {"call", "loop"} /\ ~ AtEnd(it)
  /\ it' \in (it + 1)..(Len(encoded) + 1)
  /\ \E fn, at, name, dim :
        /\ fn \in Fns /\ at \in it..(it' - 1)
        /\ calls' = Append(calls, Frame(fn, at, name, dim))
        /\ encoded[at] = Opening[fn]
        /\ phase' = "loop" => fn \in DOMAIN Closing

\* A frame that differs from f in its data only.
Alike(f, g) ==
  /\ g = [fn |-> g.fn, at |-> g.at, name |-> g.name, dim |-> g.dim,
          field |-> g.field, subs |-> g.subs]
  /\ g.fn = f.fn /\ g.at = f.at

LoopStep ==
  /\ calls # << >> /\ \E f : calls' = SetTop(calls, f) /\ Alike(Top, f)
  /\ \/ /\ phase = "loop" /\ phase' = "call" /\ ~ AtEnd(it)
        /\ it' \in it..(Len(encoded) + 1)
     \/ phase = "return" /\ phase' = "loop" /\ it' = it /\ Top.fn # "pointer"

LeaveStep ==
  /\ calls # << >> /\ phase \in {"loop", "return"} /\ phase' = "return"
  /\ calls' = Pop(calls) /\ it' \in it..(Len(encoded) + 1)

DecodeStep ==
  /\ calls = << >> /\ calls' = calls
  /\ \/ /\ phase = "loop" /\ phase' = "call" /\ ~ AtEnd(it)
        /\ it' \in it..(Len(encoded) + 1)
     \/ phase = "return" /\ phase' = "loop" /\ it' = it

Step ==
  encoded' = encoded
  /\ (ReturnStep \/ EnterStep \/ LoopStep \/ LeaveStep \/ DecodeStep)

\* process() returns after it has read the character of the type.
LEMMA ReturnShape ==
  ASSUME TypeOK, phase = "call", ~ AtEnd(TypeAt),
         NEW k \in (TypeAt + 1)..(Len(encoded) + 1), NEW type, Return(k, type)
  PROVE  Step
<1>1. Len(encoded) \in Nat /\ it \in Nat
  BY LenProperties DEF TypeOK
<1>2. TypeAt \in it..Len(encoded)
  BY TypeReadable DEF TypeOK
<1>3. k \in it..(Len(encoded) + 1) /\ k # it
  BY <1>1, <1>2
<1> QED
  BY <1>3 DEF Return, Step, ReturnStep

LEMMA EnterShape ==
  ASSUME TypeOK, phase = "call", NEW fn \in Fns, Is(TypeAt, Opening[fn]),
         NEW name, NEW dim, NEW next \in {"call", "loop"},
         next = "loop" => fn \in DOMAIN Closing,
         NEW k \in (TypeAt + 1)..(Len(encoded) + 1),
         Enter(Frame(fn, TypeAt, name, dim), k, next)
  PROVE  Step
<1>1. Len(encoded) \in Nat /\ it \in Nat
  BY LenProperties DEF TypeOK
<1>2. TypeAt \in it..Len(encoded) /\ ~ AtEnd(it) /\ encoded[TypeAt] = Opening[fn]
  BY TypeReadable DEF TypeOK, Is
<1>3. k \in (it + 1)..(Len(encoded) + 1) /\ TypeAt \in it..(k - 1)
  BY <1>1, <1>2
<1>4. EnterStep
  BY <1>2, <1>3 DEF Enter, EnterStep
<1> QED
  BY <1>4 DEF Step, Enter

\* A construct whose opening character is followed by more to read.
LEMMA BehindOpening ==
  ASSUME TypeOK, ~ AtEnd(TypeAt)
  PROVE  /\ Len(encoded) \in Nat /\ TypeAt \in 1..Len(encoded)
         /\ TypeAt + 1 \in 1..(Len(encoded) + 1)
<1>1. Len(encoded) \in Nat /\ it \in 1..(Len(encoded) + 1)
  BY LenProperties DEF TypeOK
<1>2. TypeAt \in it..Len(encoded)
  BY TypeReadable DEF TypeOK
<1> QED
  BY <1>1, <1>2

LEMMA RecordShape ==
  ASSUME TypeOK, NEW fn \in {"struct", "union"}, ProcessRecord(fn)
  PROVE  Step
<1> USE DEF TypeOK
<1> DEFINE start == IF Is(TypeAt + 1, "?") THEN TypeAt + 2 ELSE TypeAt + 1
           stop == Until(start, NameEnds[fn])
           name == SubSeq(encoded, start, stop - 1)
           fields == IF Is(stop, "=") THEN stop + 1 ELSE stop
<1>1. phase = "call" /\ Is(TypeAt, Opening[fn]) /\ ~ AtEnd(TypeAt)
  BY DEF ProcessRecord, Process, Is
<1>2. /\ Len(encoded) \in Nat /\ TypeAt \in 1..Len(encoded)
      /\ TypeAt + 1 \in 1..(Len(encoded) + 1)
  BY <1>1, BehindOpening
<1>3. start \in (TypeAt + 1)..(Len(encoded) + 1) /\ start \in 1..(Len(encoded) + 1)
  BY <1>2 DEF Is, AtEnd
<1>4. CASE Is(fields, Closing[fn]) /\ Return(fields + 1, Ty(fn, name, 0, << >>))
  <2>1. stop \in start..(Len(encoded) + 1)
    BY <1>3, UntilRange
  <2> HIDE DEF stop, start
  <2>2. fields \in (TypeAt + 1)..(Len(encoded) + 1)
    BY <1>2, <1>3, <2>1 DEF Is, AtEnd
  <2>3. fields + 1 \in (TypeAt + 1)..(Len(encoded) + 1)
    BY <1>2, <1>4, <2>2 DEF Is, AtEnd
  <2> HIDE DEF fields, name
  <2> QED
    BY <1>1, <1>4, <2>3, ReturnShape
<1>5. CASE Enter(Frame(fn, TypeAt, name, 0), fields, "loop")
  <2>1. stop \in start..(Len(encoded) + 1)
    BY <1>3, UntilRange
  <2> HIDE DEF stop, start
  <2>2. fields \in (TypeAt + 1)..(Len(encoded) + 1)
    BY <1>2, <1>3, <2>1 DEF Is, AtEnd
  <2>3. fn \in Fns /\ fn \in DOMAIN Closing
    BY DEF Fns, Opening, Closing
  <2> HIDE DEF fields, name
  <2> QED
    BY <1>1, <1>5, <2>2, <2>3, EnterShape
<1> QED
  BY <1>4, <1>5 DEF ProcessRecord

LEMMA ArrayShape ==
  ASSUME TypeOK, ProcessArray
  PROVE  Step
<1> DEFINE next == SkipAll(TypeAt + 1, Digits)
<1>1. phase = "call" /\ Is(TypeAt, "[") /\ ~ AtEnd(TypeAt)
  BY DEF ProcessArray, Process, Is
<1>2. /\ Len(encoded) \in Nat /\ TypeAt \in 1..Len(encoded)
      /\ TypeAt + 1 \in 1..(Len(encoded) + 1)
  BY <1>1, BehindOpening
<1>3. next \in (TypeAt + 1)..(Len(encoded) + 1)
  BY <1>2, SkipAllRange DEF TypeOK
<1>4. CASE Return(next, Null)
  <2> HIDE DEF next
  <2> QED
    BY <1>1, <1>3, <1>4, ReturnShape
<1>5. CASE Enter(Frame("array", TypeAt, << >>, NumberBefore(next)), next, "loop")
  <2>1. "array" \in Fns /\ "array" \in DOMAIN Closing /\ Opening["array"] = "["
    BY DEF Fns, Opening, Closing
  <2> DEFINE dim == NumberBefore(next)
  <2> HIDE DEF next, dim
  <2>2. Enter(Frame("array", TypeAt, << >>, dim), next, "loop")
    BY <1>5 DEF dim
  <2> QED
    BY <1>1, <1>3, <2>1, <2>2, EnterShape
<1> QED
  BY <1>4, <1>5 DEF ProcessArray

\* The element loops, and decode_type, start at what is left of the string.
LEMMA NextElementShape ==
  ASSUME TypeOK, NextElement
  PROVE  Step
<1>1. calls # << >> /\ phase = "loop" /\ ~ AtEnd(it) /\ phase' = "call"
  BY DEF NextElement, InLoop
<1>2. Len(encoded) \in Nat /\ it \in 1..(Len(encoded) + 1)
  BY LenProperties DEF TypeOK
<1>3. NameAfter(it) \in it..(Len(encoded) + 1)
  BY <1>2, NameAfterRange DEF TypeOK
<1>4. it' \in it..(Len(encoded) + 1)
  BY <1>2, <1>3 DEF NextElement
<1>5. Len(calls) \in Nat \ {0} /\ FrameOK(Top)
  BY <1>1, EmptySeq, LenProperties DEF TypeOK, Top, Depth
<1>6. \A field : Alike(Top, [Top EXCEPT !.field = field])
  BY <1>5 DEF FrameOK, Alike
<1>7. \E field : calls' = SetTop(calls, [Top EXCEPT !.field = field])
  BY DEF NextElement
<1>8. LoopStep
  BY <1>1, <1>4, <1>6, <1>7 DEF LoopStep
<1> QED
  BY <1>8 DEF Step, NextElement

LEMMA TakeElementShape ==
  ASSUME TypeOK, TakeElement
  PROVE  Step
<1>1. /\ calls # << >> /\ phase = "return" /\ Top.fn # "pointer"
      /\ phase' = "loop" /\ it' = it
  BY DEF TakeElement
<1>2. Len(calls) \in Nat \ {0} /\ FrameOK(Top)
  BY <1>1, EmptySeq, LenProperties DEF TypeOK, Top, Depth
<1>3. \A subs : Alike(Top, [Top EXCEPT !.subs = subs])
  BY <1>2 DEF FrameOK, Alike
<1>4. \E subs : calls' = SetTop(calls, [Top EXCEPT !.subs = subs])
  BY DEF TakeElement
<1>5. LoopStep
  BY <1>1, <1>3, <1>4 DEF LoopStep
<1> QED
  BY <1>5 DEF Step, TakeElement

\* A construct or a loop ends.
LEMMA LeaveShape ==
  ASSUME TypeOK, calls # << >>, phase \in {"loop", "return"},
         NEW k \in it..(Len(encoded) + 1), NEW type, Leave(k, type)
  PROVE  Step
BY DEF Leave, Step, LeaveStep

LEMMA Shapes ==
  ASSUME TypeOK, Next
  PROVE  Step
<1>0. Len(encoded) \in Nat /\ it \in 1..(Len(encoded) + 1)
  BY LenProperties DEF TypeOK
<1>1. CASE ProcessEnd
  <2>1. TypeAt \in it..(Len(encoded) + 1)
    BY TypeAtRange DEF TypeOK
  <2>2. it' = TypeAt /\ AtEnd(TypeAt)
    BY <1>1 DEF ProcessEnd, Return
  <2> QED
    BY <1>1, <2>1, <2>2 DEF ProcessEnd, Return, Step, ReturnStep
<1>2. CASE ProcessLeaf
  <2>1. ~ AtEnd(TypeAt) /\ phase = "call"
    BY <1>2 DEF ProcessLeaf
  <2>2. TypeAt + 1 \in (TypeAt + 1)..(Len(encoded) + 1)
    BY <2>1, BehindOpening
  <2> QED
    BY <1>2, <2>1, <2>2, ReturnShape DEF ProcessLeaf
<1>3. CASE ProcessUnsupported
  <2>1. ~ AtEnd(TypeAt) /\ phase = "call"
    BY <1>3 DEF ProcessUnsupported
  <2>2. TypeAt + 1 \in (TypeAt + 1)..(Len(encoded) + 1)
    BY <2>1, BehindOpening
  <2> QED
    BY <1>3, <2>1, <2>2, ReturnShape DEF ProcessUnsupported
<1>4. CASE ProcessBitField
  <2>1. ~ AtEnd(TypeAt) /\ phase = "call"
    BY <1>4 DEF ProcessBitField, Process, Is
  <2>2. TypeAt + 1 \in 1..(Len(encoded) + 1)
    BY <2>1, BehindOpening
  <2>3. SkipAll(TypeAt + 1, Digits) \in (TypeAt + 1)..(Len(encoded) + 1)
    BY <2>2, SkipAllRange DEF TypeOK
  <2> QED
    BY <1>4, <2>1, <2>3, ReturnShape DEF ProcessBitField
<1>5. CASE ProcessBlock \/ ProcessVoidPointer
  <2>1. ~ AtEnd(TypeAt) /\ phase = "call" /\ ~ AtEnd(TypeAt + 1)
    BY <1>5 DEF ProcessBlock, ProcessVoidPointer, Process, Is
  <2>2. TypeAt \in 1..Len(encoded)
    BY <2>1, BehindOpening
  <2>3. TypeAt + 2 \in (TypeAt + 1)..(Len(encoded) + 1)
    BY <1>0, <2>1, <2>2 DEF AtEnd
  <2> QED
    BY <1>5, <2>1, <2>3, ReturnShape DEF ProcessBlock, ProcessVoidPointer
<1>6. CASE ProcessObject
  <2>1. ~ AtEnd(TypeAt) /\ phase = "call"
    BY <1>6 DEF ProcessObject, Process, Is
  <2>2. TypeAt + 1 \in 1..(Len(encoded) + 1)
    BY <2>1, BehindOpening
  <2>3. NameAfter(TypeAt + 1) \in (TypeAt + 1)..(Len(encoded) + 1)
    BY <2>2, NameAfterRange DEF TypeOK
  <2> QED
    BY <1>6, <2>1, <2>3, ReturnShape DEF ProcessObject
<1>7. CASE ProcessPointer
  <2>1. ~ AtEnd(TypeAt) /\ phase = "call" /\ Is(TypeAt, "^")
    BY <1>7 DEF ProcessPointer, Process, Is
  <2>2. TypeAt + 1 \in (TypeAt + 1)..(Len(encoded) + 1)
    BY <2>1, BehindOpening
  <2>3. "pointer" \in Fns /\ Opening["pointer"] = "^"
    BY DEF Fns, Opening
  <2> QED
    BY <1>7, <2>1, <2>2, <2>3, EnterShape DEF ProcessPointer
<1>8. CASE ProcessArray \/ ProcessStructure \/ ProcessUnion
  BY <1>8, ArrayShape, RecordShape DEF ProcessStructure, ProcessUnion
<1>9. CASE NextElement \/ TakeElement
  BY <1>9, NextElementShape, TakeElementShape
<1>10. CASE CloseElements
  <2>1. phase = "loop" /\ calls # << >> /\ ~ AtEnd(it)
    BY <1>10 DEF CloseElements, InLoop, Is
  <2>2. it + 1 \in it..(Len(encoded) + 1)
    BY <1>0, <2>1 DEF AtEnd
  <2> QED
    BY <1>10, <2>1, <2>2, LeaveShape DEF CloseElements
<1>11. CASE UnclosedElements \/ PointTo
  <2>1. phase \in {"loop", "return"} /\ calls # << >>
    BY <1>11 DEF UnclosedElements, PointTo, InLoop
  <2>2. it \in it..(Len(encoded) + 1)
    BY <1>0
  <2> QED
    BY <1>11, <2>1, <2>2, LeaveShape DEF UnclosedElements, PointTo
<1>12. CASE NextType \/ TakeType
  <2>1. calls = << >> /\ calls' = calls /\ encoded' = encoded
    BY <1>12 DEF NextType, TakeType
  <2>2. CASE NextType
    BY <1>0, <2>1, <2>2 DEF NextType, AtEnd, Step, DecodeStep
  <2>3. CASE TakeType
    BY <2>1, <2>3 DEF TakeType, Step, DecodeStep
  <2> QED
    BY <1>12, <2>2, <2>3
<1> QED
  BY <1>1, <1>2, <1>3, <1>4, <1>5, <1>6, <1>7, <1>8, <1>9, <1>10, <1>11, <1>12
     DEF Next

-----------------------------------------------------------------------------
(***************************************************************************)
(* The waiting calls.  A frame's place in calls, its position and the      *)
(* iterator are in this order.                                             *)
(***************************************************************************)
\* s is a sequence, whatever its elements are.
IsSeq(s) == s \in Seq({s[k] : k \in DOMAIN s})

\* What TypeOK and CallsNest say of the calls s when the iterator is at pos.
Waiting(s, pos) ==
  /\ IsSeq(s)
  /\ \A k \in DOMAIN s :
       /\ s[k] = [fn |-> s[k].fn, at |-> s[k].at, name |-> s[k].name,
                  dim |-> s[k].dim, field |-> s[k].field, subs |-> s[k].subs]
       /\ s[k].fn \in Fns /\ s[k].at \in 1..(pos - 1)
       /\ encoded[s[k].at] = Opening[s[k].fn]
       /\ k <= s[k].at
  /\ \A j, k \in DOMAIN s : j < k => s[j].at < s[k].at

LEMMA WaitingIs ==
  TypeOK /\ CallsNest => Waiting(calls, it)
BY DEF TypeOK, CallsNest, Waiting, IsSeq, FrameOK

LEMMA SeqOfElements ==
  ASSUME NEW S, NEW s \in Seq(S)
  PROVE  IsSeq(s) /\ Len(s) \in Nat /\ DOMAIN s = 1..Len(s)
<1>1. Len(s) \in Nat /\ DOMAIN s = 1..Len(s) /\ s \in [1..Len(s) -> S]
  BY LenProperties
<1> DEFINE R == {s[k] : k \in DOMAIN s}
<1>2. s \in [1..Len(s) -> R]
  BY <1>1
<1> HIDE DEF R
<1>3. s \in Seq(R)
  BY <1>1, <1>2, IsASeq
<1> QED
  BY <1>1, <1>3 DEF IsSeq, R

LEMMA WaitingEmpty ==
  ASSUME NEW pos
  PROVE  Waiting(<< >>, pos)
BY DEF Waiting, IsSeq

\* A position further on leaves them waiting.
LEMMA WaitingFurther ==
  ASSUME NEW s, NEW pos \in Nat, Waiting(s, pos), NEW k \in Nat, pos <= k
  PROVE  Waiting(s, k)
<1>1. 1..(pos - 1) \subseteq 1..(k - 1)
  OBVIOUS
<1> QED
  BY <1>1 DEF Waiting

LEMMA WaitingPush ==
  ASSUME NEW s, NEW pos \in Nat, Waiting(s, pos),
         NEW fn \in Fns, NEW at \in Nat, NEW k \in Nat, pos <= at, at < k,
         1 <= at, encoded[at] = Opening[fn], NEW name, NEW dim
  PROVE  /\ Waiting(Append(s, Frame(fn, at, name, dim)), k)
         /\ Len(Append(s, Frame(fn, at, name, dim))) = Len(s) + 1
         /\ Append(s, Frame(fn, at, name, dim))[Len(s) + 1].fn = fn
<1> DEFINE S == {s[j] : j \in DOMAIN s}
           f == Frame(fn, at, name, dim)
           t == Append(s, f)
<1>1. s \in Seq(S \cup {f}) /\ s \in Seq(S)
  BY DEF Waiting, IsSeq
<1>2. Len(s) \in Nat /\ DOMAIN s = 1..Len(s)
  BY <1>1, LenProperties
<1>3. /\ t \in Seq(S \cup {f}) /\ Len(t) = Len(s) + 1
      /\ \A j \in 1..Len(s) : t[j] = s[j]
      /\ t[Len(s) + 1] = f
  BY <1>1, AppendProperties
<1>4. IsSeq(t) /\ DOMAIN t = 1..(Len(s) + 1)
  BY <1>3, SeqOfElements
<1>5. /\ f.fn = fn /\ f.at = at
      /\ f = [fn |-> f.fn, at |-> f.at, name |-> f.name, dim |-> f.dim,
              field |-> f.field, subs |-> f.subs]
  BY DEF Frame
<1> HIDE DEF f, t, S
<1>6. \A n \in Nat : \A j \in 1..(n + 1) : j \in 1..n \/ j = n + 1
  OBVIOUS
<1>7. Len(s) <= pos - 1 \/ Len(s) = 0
  <2>1. CASE Len(s) # 0
    <3>1. Len(s) \in DOMAIN s
      BY <1>2, <2>1
    <3>2. s[Len(s)].at \in 1..(pos - 1) /\ Len(s) <= s[Len(s)].at
      BY <3>1 DEF Waiting
    <3> QED
      BY <1>2, <3>2
  <2> QED
    BY <2>1
<1>8. \A j \in 1..Len(s) :
        /\ t[j].at \in 1..(pos - 1) /\ j <= t[j].at
        /\ t[j] = [fn |-> t[j].fn, at |-> t[j].at, name |-> t[j].name,
                   dim |-> t[j].dim, field |-> t[j].field, subs |-> t[j].subs]
        /\ t[j].fn \in Fns /\ encoded[t[j].at] = Opening[t[j].fn]
  BY <1>2, <1>3 DEF Waiting
<1>9. Len(s) + 1 <= at
  BY <1>2, <1>7
<1>10. \A j \in 1..(Len(s) + 1) :
        /\ t[j] = [fn |-> t[j].fn, at |-> t[j].at, name |-> t[j].name,
                   dim |-> t[j].dim, field |-> t[j].field, subs |-> t[j].subs]
        /\ t[j].fn \in Fns /\ t[j].at \in 1..(k - 1)
        /\ encoded[t[j].at] = Opening[t[j].fn]
        /\ j <= t[j].at
  <2> TAKE j \in 1..(Len(s) + 1)
  <2>1. CASE j \in 1..Len(s)
    BY <1>8, <2>1
  <2>2. CASE j = Len(s) + 1
    BY <1>3, <1>5, <1>9, <2>2
  <2> QED
    BY <1>2, <1>6, <2>1, <2>2
<1>11. \A i, j \in 1..(Len(s) + 1) : i < j => t[i].at < t[j].at
  <2> TAKE i, j \in 1..(Len(s) + 1)
  <2> HAVE i < j
  <2>1. i \in 1..Len(s)
    BY <1>2
  <2>2. CASE j \in 1..Len(s)
    BY <1>2, <1>3, <2>1, <2>2 DEF Waiting
  <2>3. CASE j = Len(s) + 1
    <3>1. t[i].at \in 1..(pos - 1)
      BY <1>8, <2>1
    <3>2. t[j].at = at
      BY <1>3, <1>5, <2>3
    <3> QED
      BY <3>1, <3>2
  <2> QED
    BY <1>2, <1>6, <2>2, <2>3
<1>12. t[Len(s) + 1].fn = fn
  BY <1>3, <1>5
<1> QED
  BY <1>3, <1>4, <1>10, <1>11, <1>12 DEF Waiting, t, f

LEMMA WaitingSetTop ==
  ASSUME NEW s, NEW pos \in Nat, Waiting(s, pos), s # << >>,
         NEW f, Alike(s[Len(s)], f)
  PROVE  /\ Waiting(SetTop(s, f), pos)
         /\ Len(SetTop(s, f)) = Len(s) /\ SetTop(s, f) # << >>
         /\ SetTop(s, f)[Len(s)].fn = s[Len(s)].fn
<1> DEFINE S == {s[j] : j \in DOMAIN s} \cup {f}
           t == SetTop(s, f)
<1>1. s \in Seq(S)
  BY DEF Waiting, IsSeq
<1>2. Len(s) \in Nat \ {0} /\ DOMAIN s = 1..Len(s)
  BY <1>1, LenProperties, EmptySeq
<1>3. /\ t \in Seq(S) /\ Len(t) = Len(s)
      /\ \A j \in 1..Len(s) : t[j] = IF j = Len(s) THEN f ELSE s[j]
  BY <1>1, <1>2, ExceptSeq DEF SetTop
<1> HIDE DEF t, S
<1>4. IsSeq(t) /\ DOMAIN t = 1..Len(s)
  BY <1>3, SeqOfElements
<1>5. \A j \in 1..Len(s) : t[j].fn = s[j].fn /\ t[j].at = s[j].at
  BY <1>3 DEF Alike
<1>6. \A j \in 1..Len(s) :
        t[j] = [fn |-> t[j].fn, at |-> t[j].at, name |-> t[j].name,
                dim |-> t[j].dim, field |-> t[j].field, subs |-> t[j].subs]
  BY <1>2, <1>3 DEF Alike, Waiting
<1>7. Waiting(t, pos)
  BY <1>2, <1>4, <1>5, <1>6 DEF Waiting
<1>8. t # << >>
  BY <1>2, <1>3
<1>9. Len(s) \in 1..Len(s)
  BY <1>2
<1>10. t[Len(s)].fn = s[Len(s)].fn
  BY <1>5, <1>9
<1> QED
  BY <1>3, <1>7, <1>8, <1>10 DEF t

LEMMA WaitingPop ==
  ASSUME NEW s, NEW pos \in Nat, Waiting(s, pos), s # << >>
  PROVE  Waiting(Pop(s), pos) /\ Len(Pop(s)) = Len(s) - 1
<1> DEFINE S == {s[j] : j \in DOMAIN s}
           t == Pop(s)
<1>1. s \in Seq(S)
  BY DEF Waiting, IsSeq
<1>2. Len(s) \in Nat \ {0} /\ DOMAIN s = 1..Len(s)
  BY <1>1, LenProperties, EmptySeq
<1>3. /\ t \in Seq(S) /\ Len(t) = Len(s) - 1
      /\ \A j \in 1..(Len(s) - 1) : t[j] = s[j]
  <2>1. 1..(Len(s) - 1) \subseteq 1..Len(s)
    BY <1>2
  <2>2. \A n \in Nat \ {0} : n - 1 \in Nat /\ n - 1 <= n /\ 1 <= n /\ n - 1 - 1 + 1 = n - 1
    OBVIOUS
  <2> QED
    BY <1>1, <1>2, <2>1, <2>2, SubSeqProperties DEF Pop
<1> HIDE DEF t, S
<1>4. IsSeq(t) /\ DOMAIN t = 1..(Len(s) - 1)
  BY <1>3, SeqOfElements
<1>5. 1..(Len(s) - 1) \subseteq DOMAIN s
  BY <1>2
<1>6. Waiting(t, pos)
  BY <1>3, <1>4, <1>5 DEF Waiting
<1> QED
  BY <1>3, <1>6 DEF t

-----------------------------------------------------------------------------
(***************************************************************************)
(* A step of any shape preserves TypeOK and CallsNest.                     *)
(***************************************************************************)
\* A position inside the part of the string that a call has read.
LEMMA Between ==
  \A i, k \in Nat : \A j \in i..(k - 1) :
    1 <= i => j \in Nat /\ i <= j /\ j < k /\ 1 <= j
OBVIOUS

LEMMA StepWaiting ==
  ASSUME TypeOK, CallsNest, Step
  PROVE  /\ Waiting(calls', it')
         /\ it' \in 1..(Len(encoded) + 1) /\ it <= it'
<1>1. Len(encoded) \in Nat /\ it \in 1..(Len(encoded) + 1)
  BY LenProperties DEF TypeOK
<1>2. Waiting(calls, it)
  BY WaitingIs
<1>3. CASE ReturnStep \/ DecodeStep
  <2>1. it' \in it..(Len(encoded) + 1) /\ calls' = calls
    BY <1>1, <1>3 DEF ReturnStep, DecodeStep
  <2>2. it \in Nat /\ it' \in Nat /\ it <= it'
    BY <1>1, <2>1
  <2>3. Waiting(calls', it')
    BY <1>2, <2>1, <2>2, WaitingFurther
  <2> QED
    BY <1>1, <2>1, <2>3
<1>4. CASE EnterStep
  <2>1. it' \in (it + 1)..(Len(encoded) + 1)
    BY <1>4 DEF EnterStep
  <2>2. PICK fn, at, name, dim :
          /\ fn \in Fns /\ at \in it..(it' - 1)
          /\ calls' = Append(calls, Frame(fn, at, name, dim))
          /\ encoded[at] = Opening[fn]
    BY <1>4 DEF EnterStep
  <2>3. it \in Nat /\ it' \in Nat /\ 1 <= it
    BY <1>1, <2>1
  <2>4. at \in Nat /\ it <= at /\ at < it' /\ 1 <= at
    <3>1. at \in it..(it' - 1)
      BY <2>2
    <3> QED
      BY <2>3, <3>1, Between
  <2>5. Waiting(calls', it')
    BY <1>2, <2>2, <2>3, <2>4, WaitingPush
  <2> QED
    BY <1>1, <2>1, <2>5
<1>5. CASE LoopStep
  <2>1. it' \in it..(Len(encoded) + 1) /\ calls # << >>
    BY <1>1, <1>5 DEF LoopStep
  <2>2. PICK f : calls' = SetTop(calls, f) /\ Alike(calls[Len(calls)], f)
    BY <1>5 DEF LoopStep, Top, Depth
  <2>3. it \in Nat /\ it' \in Nat /\ it <= it'
    BY <1>1, <2>1
  <2>4. Waiting(calls', it)
    BY <1>2, <2>1, <2>2, <2>3, WaitingSetTop
  <2>5. Waiting(calls', it')
    BY <2>3, <2>4, WaitingFurther
  <2> QED
    BY <1>1, <2>1, <2>5
<1>6. CASE LeaveStep
  <2>1. it' \in it..(Len(encoded) + 1) /\ calls # << >> /\ calls' = Pop(calls)
    BY <1>6 DEF LeaveStep
  <2>2. it \in Nat /\ it' \in Nat /\ it <= it'
    BY <1>1, <2>1
  <2>3. Waiting(calls', it)
    BY <1>2, <2>1, <2>2, WaitingPop
  <2>4. Waiting(calls', it')
    BY <2>2, <2>3, WaitingFurther
  <2> QED
    BY <1>1, <2>1, <2>4
<1> QED
  BY <1>3, <1>4, <1>5, <1>6 DEF Step

LEMMA StepLoop ==
  ASSUME TypeOK, CallsNest, Step, phase' = "loop", calls' # << >>
  PROVE  calls'[Len(calls')].fn \in DOMAIN Closing
<1>1. it \in Nat /\ Waiting(calls, it)
  BY WaitingIs, LenProperties DEF TypeOK
<1>2. CASE EnterStep
  <2>1. it' \in (it + 1)..(Len(encoded) + 1)
    BY <1>2 DEF EnterStep
  <2>2. PICK fn, at, name, dim :
          /\ fn \in Fns /\ at \in it..(it' - 1)
          /\ calls' = Append(calls, Frame(fn, at, name, dim))
          /\ encoded[at] = Opening[fn]
          /\ fn \in DOMAIN Closing
    BY <1>2 DEF EnterStep
  <2>3. it' \in Nat /\ 1 <= it
    BY <1>1, <2>1, LenProperties DEF TypeOK
  <2>4. at \in Nat /\ it <= at /\ at < it' /\ 1 <= at
    <3>1. at \in it..(it' - 1)
      BY <2>2
    <3> QED
      BY <1>1, <2>3, <3>1, Between
  <2>5. calls'[Len(calls) + 1].fn = fn /\ Len(calls') = Len(calls) + 1
    BY <1>1, <2>2, <2>3, <2>4, WaitingPush
  <2> QED
    BY <2>2, <2>5
<1>3. CASE LoopStep
  <2>1. calls # << >> /\ Top.fn # "pointer"
    BY <1>3 DEF LoopStep
  <2>2. PICK f : calls' = SetTop(calls, f) /\ Alike(calls[Len(calls)], f)
    BY <1>3 DEF LoopStep, Top, Depth
  <2>3. /\ Len(calls') = Len(calls)
        /\ calls'[Len(calls)].fn = calls[Len(calls)].fn
    BY <1>1, <2>1, <2>2, WaitingSetTop
  <2>4. Len(calls) \in DOMAIN calls
    BY <2>1, EmptySeq, LenProperties DEF TypeOK
  <2>5. Top.fn \in Fns
    BY <2>4 DEF TypeOK, FrameOK, Top, Depth
  <2> QED
    BY <2>1, <2>3, <2>5 DEF Fns, Opening, Closing, Top, Depth
<1> QED
  BY <1>2, <1>3 DEF Step, ReturnStep, LeaveStep, DecodeStep

LEMMA StepPreserves ==
  ASSUME TypeOK, CallsNest, Step
  PROVE  TypeOK' /\ CallsNest'
<1>1. encoded' = encoded /\ encoded \in Seq(STRING)
  BY DEF Step, TypeOK
<1>2. Waiting(calls', it') /\ it' \in 1..(Len(encoded) + 1)
  BY StepWaiting
<1>3. phase' \in {"call", "return", "loop"}
  BY DEF Step, ReturnStep, EnterStep, LoopStep, LeaveStep, DecodeStep
<1>4. (InLoop => Top.fn \in DOMAIN Closing)'
  BY StepLoop DEF InLoop, Top, Depth
<1> QED
  BY <1>1, <1>2, <1>3, <1>4 DEF TypeOK, CallsNest, FrameOK, Waiting, IsSeq

\* Every step pays for itself: a call of process() that enters a construct
\* has read its opening character, worth six, and waits, which costs two; a
\* call that returns without reading is at the end of the string.
\* What a step adds to the calls and the rank is paid by the iterator.
LEMMA LowerSum ==
  ASSUME NEW n \in Int, NEW i \in Nat, NEW j \in Nat, NEW d \in Nat,
         NEW e \in Int, NEW r \in Nat, NEW q \in Nat,
         2 * e + q + 6 * i < 2 * d + r + 6 * j
  PROVE  6 * (n + 1 - j) + 2 * e + q < 6 * (n + 1 - i) + 2 * d + r
OBVIOUS

LEMMA StepWork ==
  ASSUME TypeOK, CallsNest, Step
  PROVE  Work' < Work
<1>0. Waiting(calls, it)
  BY WaitingIs
<1>1. /\ Len(encoded) \in Nat /\ it \in 1..(Len(encoded) + 1)
      /\ Len(calls) \in Nat /\ it \in Nat /\ 1 <= it
  BY LenProperties DEF TypeOK
<1>2. it' \in it..(Len(encoded) + 1) /\ encoded' = encoded
  BY <1>1, StepWaiting DEF Step
<1> DEFINE n == Len(encoded)
<1>3. /\ Work = 6 * (n + 1 - it) + 2 * Len(calls) + Rank
      /\ Work' = 6 * (n + 1 - it') + 2 * Len(calls') + Rank'
  BY <1>2 DEF Work, Depth
<1>4. /\ phase = "call" => Rank = IF it > n THEN 4 ELSE 1
      /\ phase = "return" => Rank = 3
      /\ phase = "loop" => Rank = 2
      /\ phase' = "call" => Rank' \in {1, 4} /\ (it' <= n => Rank' = 1)
      /\ phase' = "return" => Rank' = 3
      /\ phase' = "loop" => Rank' = 2
  BY <1>1, <1>2 DEF Rank, AtEnd
<1>5. n \in Nat /\ it' \in Nat /\ it <= it' /\ it' <= n + 1 /\ it <= n + 1
  BY <1>1, <1>2
<1> HIDE DEF n
<1>6. ASSUME Len(calls') \in Int, Rank \in Nat, Rank' \in Nat,
             2 * Len(calls') + Rank' + 6 * it < 2 * Len(calls) + Rank + 6 * it'
      PROVE  Work' < Work
  <2>1. n \in Int
    BY <1>5
  <2>2. 6 * (n + 1 - it') + 2 * Len(calls') + Rank'
          < 6 * (n + 1 - it) + 2 * Len(calls) + Rank
    BY Zenon, <1>1, <1>5, <1>6, <2>1, LowerSum
  <2> QED
    BY Zenon, <1>3, <2>2
<1>7. CASE ReturnStep
  <2>1. /\ Len(calls') = Len(calls) /\ phase = "call" /\ phase' = "return"
        /\ it' = it => it > n
    BY <1>7 DEF ReturnStep, AtEnd, n
  <2>2. Rank' = 3 /\ Rank \in {1, 4} /\ (it' = it => Rank = 4)
    BY <1>4, <2>1
  <2>3. /\ Len(calls') \in Int /\ Rank \in Nat /\ Rank' \in Nat
        /\ 2 * Len(calls') + Rank' + 6 * it < 2 * Len(calls) + Rank + 6 * it'
    BY <1>1, <1>5, <2>1, <2>2
  <2> QED
    BY Zenon, <1>6, <2>3
<1>8. CASE EnterStep
  <2>1. /\ phase = "call" /\ phase' \in {"call", "loop"} /\ ~ (it > n)
        /\ it' \in (it + 1)..(n + 1)
    BY <1>8 DEF EnterStep, AtEnd, n
  <2>2. PICK fn, at, name, dim :
          /\ fn \in Fns /\ at \in it..(it' - 1)
          /\ calls' = Append(calls, Frame(fn, at, name, dim))
          /\ encoded[at] = Opening[fn]
    BY <1>8 DEF EnterStep
  <2>3. at \in Nat /\ it <= at /\ at < it' /\ 1 <= at
    <3>1. at \in it..(it' - 1)
      BY <2>2
    <3> QED
      BY <1>1, <1>5, <3>1, Between
  <2>4. Len(calls') = Len(calls) + 1
    BY <1>0, <1>1, <1>5, <2>2, <2>3, WaitingPush
  <2>5. Rank = 1 /\ Rank' \in {1, 2, 4} /\ it' >= it + 1
    BY <1>1, <1>4, <1>5, <2>1
  <2>6. /\ Len(calls') \in Int /\ Rank \in Nat /\ Rank' \in Nat
        /\ 2 * Len(calls') + Rank' + 6 * it < 2 * Len(calls) + Rank + 6 * it'
    BY <1>1, <1>5, <2>4, <2>5
  <2> QED
    BY Zenon, <1>6, <2>6
<1>9. CASE LoopStep
  <2>1. PICK f : calls' = SetTop(calls, f) /\ Alike(calls[Len(calls)], f)
    BY <1>9 DEF LoopStep, Top, Depth
  <2>2. Len(calls') = Len(calls)
    BY <1>0, <1>1, <1>9, <2>1, WaitingSetTop DEF LoopStep
  <2>3. \/ phase = "loop" /\ phase' = "call" /\ ~ (it > n)
        \/ phase = "return" /\ phase' = "loop" /\ it' = it
    BY <1>9 DEF LoopStep, AtEnd, n
  <2>4. \/ Rank = 2 /\ Rank' \in {1, 4} /\ (it' = it => Rank' = 1)
        \/ Rank = 3 /\ Rank' = 2
    BY <1>1, <1>4, <1>5, <2>3
  <2>5. /\ Len(calls') \in Int /\ Rank \in Nat /\ Rank' \in Nat
        /\ 2 * Len(calls') + Rank' + 6 * it < 2 * Len(calls) + Rank + 6 * it'
    BY <1>1, <1>5, <2>2, <2>4
  <2> QED
    BY Zenon, <1>6, <2>5
<1>10. CASE LeaveStep
  <2>1. /\ calls # << >> /\ calls' = Pop(calls)
        /\ phase \in {"loop", "return"} /\ phase' = "return"
    BY <1>10 DEF LeaveStep
  <2>2. Len(calls') = Len(calls) - 1
    BY <1>0, <1>1, <2>1, WaitingPop
  <2>3. Rank \in {2, 3} /\ Rank' = 3
    BY <1>4, <2>1
  <2>4. /\ Len(calls') \in Int /\ Rank \in Nat /\ Rank' \in Nat
        /\ 2 * Len(calls') + Rank' + 6 * it < 2 * Len(calls) + Rank + 6 * it'
    BY <1>1, <1>5, <2>2, <2>3
  <2> QED
    BY Zenon, <1>6, <2>4
<1>11. CASE DecodeStep
  <2>1. Len(calls') = Len(calls)
    BY <1>11 DEF DecodeStep
  <2>2. \/ phase = "loop" /\ phase' = "call" /\ ~ (it > n)
        \/ phase = "return" /\ phase' = "loop" /\ it' = it
    BY <1>11 DEF DecodeStep, AtEnd, n
  <2>3. \/ Rank = 2 /\ Rank' \in {1, 4} /\ (it' = it => Rank' = 1)
        \/ Rank = 3 /\ Rank' = 2
    BY <1>1, <1>4, <1>5, <2>2
  <2>4. /\ Len(calls') \in Int /\ Rank \in Nat /\ Rank' \in Nat
        /\ 2 * Len(calls') + Rank' + 6 * it < 2 * Len(calls) + Rank + 6 * it'
    BY <1>1, <1>5, <2>1, <2>3
  <2> QED
    BY Zenon, <1>6, <2>4
<1> QED
  BY <1>7, <1>8, <1>9, <1>10, <1>11 DEF Step

-----------------------------------------------------------------------------
(***************************************************************************)
(* The theorems.                                                           *)
(***************************************************************************)
LEMMA TypesInit == Init => TypeOK /\ CallsNest
<1> SUFFICES ASSUME Init PROVE TypeOK /\ CallsNest
  OBVIOUS
<1>1. encoded \in Seq(STRING) /\ Len(encoded) \in Nat
  BY EncodingsAssumption, LenProperties DEF Init
<1>2. it \in 1..(Len(encoded) + 1) /\ phase = "loop" /\ calls = << >>
  BY <1>1 DEF Init
<1> QED
  BY <1>1, <1>2 DEF TypeOK, CallsNest, InLoop

LEMMA TypesNext == TypeOK /\ CallsNest /\ [Next]_vars => TypeOK' /\ CallsNest'
<1> SUFFICES ASSUME TypeOK, CallsNest, [Next]_vars PROVE TypeOK' /\ CallsNest'
  OBVIOUS
<1>1. CASE Next
  BY <1>1, Shapes, StepPreserves
<1>2. CASE UNCHANGED vars
  BY <1>2 DEF vars, TypeOK, CallsNest, FrameOK, InLoop, Top, Depth
<1> QED
  BY <1>1, <1>2

\* The shared iterator of decode_type stays in the string or at its end, in
\* every function that moves it, for every string; every waiting call of
\* process() stands in front of the iterator, on the opening character of
\* its construct; and only constructs with a closing character are looped
\* over.
THEOREM TypesTypeCorrect == Spec => []TypeOK
<1>1. Spec => [](TypeOK /\ CallsNest)
  BY TypesInit, TypesNext, PTL DEF Spec
<1> QED
  BY <1>1, PTL

\* The recursion of process() is never deeper than the string is long: each
\* waiting call has an opening character of its own, and the inner ones come
\* later in the string.
THEOREM CallsCorrect == Spec => []CallsNest
<1>1. Spec => [](TypeOK /\ CallsNest)
  BY TypesInit, TypesNext, PTL DEF Spec
<1> QED
  BY <1>1, PTL

\* Every step of decode_type, on any string, lowers Work: no loop repeats
\* itself without reading, and process() never calls itself without it.
THEOREM WorkCorrect == Spec => WorkDecreases
<1>1. TypeOK /\ CallsNest /\ [Next]_vars => [Work' < Work]_vars
  BY Shapes, StepWork
<1>2. Spec => [](TypeOK /\ CallsNest)
  BY TypesInit, TypesNext, PTL DEF Spec
<1> QED
  BY <1>1, <1>2, PTL DEF Spec, WorkDecreases

-----------------------------------------------------------------------------
(***************************************************************************)
(* Reading a string whose characters are known: the converse of the ranges *)
(* above.                                                                  *)
(***************************************************************************)
LEMMA UntilIs ==
  ASSUME encoded \in Seq(STRING), NEW k \in Nat, NEW m \in Nat, NEW stops,
         1 <= k, k <= m, m <= Len(encoded) + 1,
         \A j \in k..(m - 1) : encoded[j] \notin stops,
         m <= Len(encoded) => encoded[m] \in stops
  PROVE  Until(k, stops) = m
<1>1. Len(encoded) \in Nat
  BY LenProperties
<1> DEFINE S == {j \in k..Len(encoded) : encoded[j] \in stops} \cup {Len(encoded) + 1}
<1>2. S \subseteq Nat /\ S # {}
  BY <1>1
<1>3. m \in S /\ \A y \in S : m <= y
  <2>1. m \in S
    BY <1>1
  <2>2. ASSUME NEW y \in S, y < m PROVE FALSE
    <3>1. y \in k..Len(encoded) /\ encoded[y] \in stops
      BY <1>1, <2>2
    <3>2. y \in k..(m - 1)
      BY <1>1, <2>2, <3>1
    <3> QED
      BY <3>1, <3>2
  <2>3. \A y \in S : y \in Nat
    BY <1>2
  <2> QED
    BY <2>1, <2>2, <2>3
<1>4. Min(S) \in S /\ \A y \in S : Min(S) <= y
  BY <1>2, MinIsElement
<1>5. Min(S) = m
  <2>1. Min(S) <= m /\ m <= Min(S) /\ Min(S) \in Nat
    BY <1>2, <1>3, <1>4
  <2> QED
    BY <2>1
<1> QED
  BY <1>5 DEF Until

LEMMA SkipAllIs ==
  ASSUME encoded \in Seq(STRING), NEW k \in Nat, NEW m \in Nat, NEW chars,
         1 <= k, k <= m, m <= Len(encoded) + 1,
         \A j \in k..(m - 1) : encoded[j] \in chars,
         m <= Len(encoded) => encoded[m] \notin chars
  PROVE  SkipAll(k, chars) = m
<1> DEFINE stops == {encoded[j] : j \in DOMAIN encoded} \ chars
<1>1. Len(encoded) \in Nat /\ DOMAIN encoded = 1..Len(encoded)
  BY LenProperties
<1>2. m <= Len(encoded) => encoded[m] \in stops
  BY <1>1
<1>3. \A j \in k..(m - 1) : encoded[j] \notin stops
  OBVIOUS
<1> HIDE DEF stops
<1> QED
  BY <1>2, <1>3, UntilIs DEF SkipAll, stops

-----------------------------------------------------------------------------
\* From i on t has digits, then specifiers, then at c what is neither.
Leads(t, i, c) ==
  /\ c \in Nat /\ c <= Len(t) + 1
  /\ \E m \in i..c :
       /\ \A j \in i..(m - 1) : t[j] \in Digits
       /\ \A j \in m..(c - 1) : t[j] \in Specifiers
  /\ c <= Len(t) => t[c] \notin Digits \cup Specifiers

LEMMA TypeAtIs ==
  ASSUME encoded \in Seq(STRING), it \in Nat, 1 <= it, NEW c, Leads(encoded, it, c)
  PROVE  TypeAt = c
<1>1. Len(encoded) \in Nat /\ c \in Nat /\ c <= Len(encoded) + 1
  BY LenProperties DEF Leads
<1>2. PICK m \in it..c :
        /\ \A j \in it..(m - 1) : encoded[j] \in Digits
        /\ \A j \in m..(c - 1) : encoded[j] \in Specifiers
  BY DEF Leads
<1>3. m \in Nat /\ it <= m /\ m <= c
  BY <1>1, <1>2
<1>4. Digits \cap Specifiers = {}
  BY DEF Digits, Specifiers
<1>5. m <= Len(encoded) => encoded[m] \notin Digits
  <2>1. CASE m = c
    BY <2>1 DEF Leads
  <2>2. CASE m # c
    <3>1. m \in m..(c - 1)
      BY <1>1, <1>3, <2>2
    <3> QED
      BY <1>2, <1>4, <3>1
  <2> QED
    BY <2>1, <2>2
<1>6. SkipAll(it, Digits) = m
  BY <1>1, <1>2, <1>3, <1>5, SkipAllIs
<1>7. SkipAll(m, Specifiers) = c
  <2>1. c <= Len(encoded) => encoded[c] \notin Specifiers
    BY DEF Leads
  <2>2. 1 <= m
    BY <1>3
  <2> QED
    BY <1>1, <1>2, <1>3, <2>1, <2>2, SkipAllIs
<1> QED
  BY <1>6, <1>7 DEF TypeAt

-----------------------------------------------------------------------------
\* Texts in texts.
LEMMA OccursIn ==
  ASSUME NEW s, NEW t, NEW u, NEW k \in Nat, NEW j \in Nat,
         IsSeq(s), DOMAIN t \subseteq Nat \ {0}, DOMAIN s \subseteq Nat \ {0},
         Occurs(s, t, k), Occurs(t, u, j), 1 <= k
  PROVE  Occurs(s, u, k + j - 1)
<1> SUFFICES ASSUME NEW i \in DOMAIN s
             PROVE  Has(u, (k + j - 1) + i - 1, s[i])
  BY DEF Occurs
<1>1. Has(t, k + i - 1, s[i])
  BY DEF Occurs
<1>2. Has(u, j + (k + i - 1) - 1, t[k + i - 1])
  BY <1>1 DEF Occurs, Has
<1>3. j + (k + i - 1) - 1 = (k + j - 1) + i - 1
  OBVIOUS
<1> QED
  BY <1>1, <1>2, <1>3 DEF Has

LEMMA HasIn ==
  ASSUME NEW t, NEW u, NEW k \in Nat, NEW j \in Nat, NEW c,
         Has(t, k, c), Occurs(t, u, j)
  PROVE  Has(u, k + j - 1, c)
<1>1. Has(u, j + k - 1, t[k])
  BY DEF Occurs, Has
<1>2. j + k - 1 = k + j - 1
  OBVIOUS
<1> QED
  BY <1>1, <1>2 DEF Has

-----------------------------------------------------------------------------
(***************************************************************************)
(* Phrases in strings.                                                     *)
(***************************************************************************)
\* A job of process(): to read phrase, which is in the string from at on; n of
\* its elements are read.
Core(j) == j.at + Len(j.phrase.quals)
End(j) == j.at + Width(j.phrase)
Spot(j, k) == Core(j) + k - 1  \* where the k-th character of its text is

Job(t, j) ==
  /\ j.phrase \in Phrases /\ j.at \in Nat \ {0} /\ j.n \in Nat
  /\ Stands(j.phrase, t, j.at)

LEMMA SumIs ==
  \A a, b \in Nat :
    /\ b # 0 => a + b \in Nat \ {0}
    /\ a # 0 => a + b \in Nat \ {0}
    /\ a <= a + b
OBVIOUS

LEMMA SumAssoc ==
  \A a \in Nat \ {0} : \A b \in Nat : \A c \in Nat \ {0} : a + (b + c) = (a + b) + c
OBVIOUS

LEMMA PhraseShape ==
  ASSUME NEW p \in Phrases
  PROVE  /\ IsSeq(p.quals) /\ IsSeq(p.text)
         /\ Len(p.quals) \in Nat /\ DOMAIN p.quals = 1..Len(p.quals)
         /\ Len(p.text) \in Nat \ {0} /\ DOMAIN p.text = 1..Len(p.text)
         /\ \A i \in DOMAIN p.quals : p.quals[i] \in Specifiers
         /\ p.text[1] \notin Digits \cup Specifiers \cup Marks
         /\ Width(p) = Len(p.quals) + Len(p.text) /\ Width(p) \in Nat \ {0}
         /\ IsSimple(p) \/ IsConstruct(p)
<1>1. /\ p.quals \in Seq(Specifiers) /\ p.text \in Seq(STRING) /\ p.text # << >>
      /\ p.text[1] \notin Digits \cup Specifiers \cup Marks
      /\ IsSimple(p) \/ IsConstruct(p)
  BY PhrasesAssumption DEF IsPhrase
<1>2. /\ Len(p.quals) \in Nat /\ DOMAIN p.quals = 1..Len(p.quals) /\ IsSeq(p.quals)
      /\ Len(p.text) \in Nat /\ DOMAIN p.text = 1..Len(p.text) /\ IsSeq(p.text)
  BY <1>1, SeqOfElements
<1>3. Len(p.text) # 0
  BY <1>1, <1>2, EmptySeq
<1>4. \A i \in DOMAIN p.quals : p.quals[i] \in Specifiers
  BY <1>1, ElementOfSeq
<1>5. Width(p) = Len(p.quals) + Len(p.text)
  BY DEF Width
<1>6. Width(p) \in Nat \ {0}
  BY <1>2, <1>3, <1>5, SumIs
<1> QED
  BY <1>1, <1>2, <1>3, <1>4, <1>5, <1>6

LEMMA TextDomain ==
  ASSUME NEW p \in Phrases
  PROVE  DOMAIN p.text \subseteq Nat \ {0}
<1>1. DOMAIN p.text = 1..Len(p.text) /\ Len(p.text) \in Nat
  BY PhraseShape
<1>2. \A n \in Nat : 1..n \subseteq Nat \ {0}
  OBVIOUS
<1> QED
  BY <1>1, <1>2

LEMMA JobText ==
  ASSUME NEW t \in Seq(STRING), NEW j, Job(t, j)
  PROVE  /\ Core(j) \in Nat \ {0} /\ End(j) \in Nat /\ j.at <= Core(j)
         /\ End(j) = Core(j) + Len(j.phrase.text)
         /\ Core(j) < End(j) /\ End(j) <= Len(t) + 1
         /\ Occurs(j.phrase.text, t, Core(j)) /\ Has(t, Core(j), j.phrase.text[1])
         /\ \A c \in j.phrase.bars : ~ Has(t, End(j), c)
<1> DEFINE p == j.phrase
<1>1. /\ Len(p.quals) \in Nat /\ Len(p.text) \in Nat \ {0}
      /\ DOMAIN p.text = 1..Len(p.text) /\ Width(p) = Len(p.quals) + Len(p.text)
  BY PhraseShape DEF Job
<1>2. Len(t) \in Nat /\ DOMAIN t = 1..Len(t)
  BY LenProperties
<1>3. j.at \in Nat \ {0}
  BY DEF Job
<1>4. Occurs(p.text, t, Core(j)) /\ \A c \in p.bars : ~ Has(t, End(j), c)
  BY DEF Job, Stands, Core, End
<1>5. Core(j) \in Nat \ {0} /\ End(j) = Core(j) + Len(p.text) /\ j.at <= Core(j)
  <2>1. Core(j) = j.at + Len(p.quals) /\ End(j) = j.at + Width(p)
    BY DEF Core, End
  <2>2. Core(j) \in Nat \ {0} /\ j.at <= Core(j)
    BY <1>1, <1>3, <2>1, SumIs
  <2>3. j.at + (Len(p.quals) + Len(p.text)) = (j.at + Len(p.quals)) + Len(p.text)
    BY Zenon, <1>1, <1>3, SumAssoc
  <2>4. End(j) = Core(j) + Len(p.text)
    BY Zenon, <1>1, <2>1, <2>3
  <2> QED
    BY <2>2, <2>4
<1>6. 1 \in DOMAIN p.text /\ Len(p.text) \in DOMAIN p.text
  BY <1>1
<1>7. Has(t, Core(j) + 1 - 1, p.text[1])
  BY <1>4, <1>6 DEF Occurs
<1>8. Core(j) + Len(p.text) - 1 \in DOMAIN t
  BY <1>4, <1>6 DEF Occurs, Has
<1>9. Core(j) + 1 - 1 = Core(j)
  BY <1>5
<1>10. End(j) \in Nat /\ Core(j) < End(j) /\ End(j) <= Len(t) + 1
  BY <1>1, <1>2, <1>5, <1>8
<1> QED
  BY <1>4, <1>5, <1>7, <1>9, <1>10

\* A phrase behind digits, and one whose first specifier is read.
LEMMA JobLeads ==
  ASSUME NEW t \in Seq(STRING), NEW j, Job(t, j),
         NEW i \in Nat, i <= j.at, \A k \in i..(j.at - 1) : t[k] \in Digits
  PROVE  Leads(t, i, Core(j))
<1> DEFINE p == j.phrase
<1>1. /\ Core(j) \in Nat \ {0} /\ Core(j) <= Len(t) + 1 /\ Has(t, Core(j), p.text[1])
      /\ j.at <= Core(j)
  <2>1. /\ Core(j) \in Nat \ {0} /\ Core(j) < End(j) /\ End(j) <= Len(t) + 1
        /\ Has(t, Core(j), p.text[1]) /\ j.at <= Core(j) /\ End(j) \in Nat
    BY JobText
  <2> QED
    BY <2>1, LenProperties
<1>2. j.at \in Nat \ {0} /\ j.at \in i..Core(j)
  BY <1>1 DEF Job
<1>3. t[Core(j)] \notin Digits \cup Specifiers
  BY <1>1, PhraseShape DEF Has, Job
<1>4. ASSUME NEW k \in j.at..(Core(j) - 1) PROVE t[k] \in Specifiers
  <2>1. /\ Len(p.quals) \in Nat /\ DOMAIN p.quals = 1..Len(p.quals)
        /\ \A q \in DOMAIN p.quals : p.quals[q] \in Specifiers
    BY PhraseShape DEF Job
  <2>2. k - j.at + 1 \in DOMAIN p.quals
    <3>1. Core(j) = j.at + Len(p.quals)
      BY DEF Core
    <3>2. k - j.at + 1 \in 1..Len(p.quals)
      BY <1>1, <1>2, <2>1, <3>1
    <3> QED
      BY <2>1, <3>2
  <2>3. Has(t, j.at + (k - j.at + 1) - 1, p.quals[k - j.at + 1])
    BY <2>2 DEF Job, Stands, Occurs
  <2>4. j.at + (k - j.at + 1) - 1 = k
    BY <1>2
  <2> QED
    BY <2>1, <2>2, <2>3, <2>4 DEF Has
<1> QED
  BY <1>1, <1>2, <1>3, <1>4 DEF Leads

LEMMA JobLeadsFurther ==
  ASSUME NEW t \in Seq(STRING), NEW j, Job(t, j), t[j.at] \in Specifiers
  PROVE  Leads(t, j.at + 1, Core(j))
<1>1. Leads(t, j.at, Core(j))
  <2>1. j.at \in Nat /\ j.at <= j.at /\ \A k \in j.at..(j.at - 1) : FALSE
    BY DEF Job
  <2> QED
    BY <2>1, JobLeads
<1>2. j.at \in Nat /\ Core(j) \in Nat /\ Core(j) <= Len(t) + 1 /\ j.at <= Core(j)
  BY JobText, <1>1 DEF Job, Leads
<1>3. Has(t, Core(j), j.phrase.text[1]) /\ j.phrase.text[1] \notin Specifiers
  BY JobText, PhraseShape DEF Job
<1>4. j.at # Core(j)
  BY <1>3 DEF Has
<1>5. \A k \in (j.at + 1)..(Core(j) - 1) : t[k] \in Specifiers
  <2>1. PICK m \in j.at..Core(j) :
          /\ \A k \in j.at..(m - 1) : t[k] \in Digits
          /\ \A k \in m..(Core(j) - 1) : t[k] \in Specifiers
    BY <1>1 DEF Leads
  <2>2. m = j.at
    <3>1. SUFFICES ASSUME m # j.at PROVE FALSE
      OBVIOUS
    <3>2. j.at \in j.at..(m - 1)
      BY <1>2, <2>1, <3>1
    <3>3. t[j.at] \in Digits
      BY <2>1, <3>2
    <3> QED
      BY <3>3 DEF Digits, Specifiers
  <2>3. (j.at + 1)..(Core(j) - 1) \subseteq m..(Core(j) - 1)
    BY <1>2, <2>2
  <2> QED
    BY <2>1, <2>3
<1>6. j.at + 1 \in (j.at + 1)..Core(j) /\ \A k \in (j.at + 1)..((j.at + 1) - 1) : FALSE
  BY <1>2, <1>4
<1> QED
  BY <1>1, <1>2, <1>5, <1>6 DEF Leads

-----------------------------------------------------------------------------
(***************************************************************************)
(* The elements of a construct.                                            *)
(***************************************************************************)
\* The job of reading the k-th element of what j reads.
PartJob(j, k) ==
  [phrase |-> j.phrase.parts[k].phrase, at |-> Spot(j, j.phrase.parts[k].at), n |-> 0]

\* No phrase begins with a character that ends another.
LEMMA Beginning ==
  ASSUME NEW q \in Phrases, NEW t, NEW a \in Nat \ {0}, Stands(q, t, a)
  PROVE  a \in DOMAIN t /\ t[a] \notin Marks \cup Digits
<1>1. /\ Len(q.quals) \in Nat /\ DOMAIN q.quals = 1..Len(q.quals)
      /\ Len(q.text) \in Nat \ {0} /\ DOMAIN q.text = 1..Len(q.text)
      /\ \A i \in DOMAIN q.quals : q.quals[i] \in Specifiers
      /\ q.text[1] \notin Digits \cup Marks
  BY PhraseShape
<1>2. Specifiers \cap (Marks \cup Digits) = {}
  BY DEF Specifiers, Marks, Digits, Quote
<1>3. CASE Len(q.quals) = 0
  <2>1. 1 \in DOMAIN q.text /\ a + Len(q.quals) + 1 - 1 = a
    BY <1>1, <1>3
  <2>2. Has(t, a + Len(q.quals) + 1 - 1, q.text[1])
    BY <2>1 DEF Stands, Occurs
  <2> QED
    BY <1>1, <2>1, <2>2 DEF Has
<1>4. CASE Len(q.quals) # 0
  <2>1. 1 \in DOMAIN q.quals /\ a + 1 - 1 = a
    BY <1>1, <1>4
  <2>2. Has(t, a + 1 - 1, q.quals[1])
    BY <2>1 DEF Stands, Occurs
  <2> QED
    BY <1>1, <1>2, <2>1, <2>2 DEF Has
<1> QED
  BY <1>3, <1>4

LEMMA ConstructShape ==
  ASSUME NEW p \in Phrases, p.fn # "none"
  PROVE  /\ IsPointer(p) \/ IsArray(p) \/ IsRecord(p)
         /\ Len(p.parts) \in Nat /\ DOMAIN p.parts = 1..Len(p.parts)
         /\ p.parts \in Seq({p.parts[k] : k \in DOMAIN p.parts})
         /\ p.text[1] = Opening[p.fn]
         /\ p.fn # "pointer" => Has(p.text, Close(p), Closing[p.fn])
         /\ p.fn \in Fns
         /\ \A k \in DOMAIN p.parts :
              /\ p.parts[k].phrase \in Phrases
              /\ IsPart(p.parts[k], p.text)
              /\ p.parts[k].at + Width(p.parts[k].phrase) = From(p, k + 1)
              /\ From(p, k) = p.parts[k].from
<1>1. IsConstruct(p)
  BY PhraseShape DEF IsSimple
<1>2. \A k \in DOMAIN p.parts : p.parts[k].phrase \in Phrases
  <2>1. \A k \in DOMAIN p.parts : p.parts[k].phrase \in Inside(p)
    BY DEF Inside
  <2>2. Inside(p) \in {Inside(x) : x \in Phrases}
    OBVIOUS
  <2>3. Inside(p) \subseteq UNION {Inside(x) : x \in Phrases}
    BY <2>2
  <2> QED
    BY <2>1, <2>3, InsideAssumption
<1>3. p.fn \in Fns
  BY <1>1 DEF IsConstruct, IsPointer, IsArray, IsRecord, Fns, Opening
<1>4. \A k \in DOMAIN p.parts : From(p, k) = p.parts[k].from
  BY DEF From
<1> QED
  BY <1>1, <1>2, <1>3, <1>4 DEF IsConstruct, HasParts

\* Where an element begins, or the construct closes.
LEMMA ElementBegins ==
  ASSUME NEW p \in Phrases, p.fn # "none", NEW k \in DOMAIN p.parts
  PROVE  /\ From(p, k) \in DOMAIN p.text
         /\ p.text[From(p, k)] \notin (Marks \ {Quote}) \cup Digits
         /\ p.text[From(p, k)] = Quote =>
              /\ Quoted(p.parts[k].name, p.text, From(p, k))
              /\ p.parts[k].at = From(p, k) + Len(p.parts[k].name) + 2
         /\ p.text[From(p, k)] # Quote =>
              p.parts[k].name = << >> /\ p.parts[k].at = From(p, k)
<1> DEFINE part == p.parts[k]
<1>1. /\ From(p, k) = part.from /\ part.phrase \in Phrases
      /\ part.from \in Nat \ {0} /\ part.at \in Nat \ {0}
      /\ \/ part.name = << >> /\ part.at = part.from
         \/ Quoted(part.name, p.text, part.from) /\ part.at = part.from + Len(part.name) + 2
      /\ Stands(part.phrase, p.text, part.at)
  BY ConstructShape DEF IsPart
<1>2. part.at \in DOMAIN p.text /\ p.text[part.at] \notin Marks \cup Digits
  BY <1>1, Beginning
<1> HIDE DEF part
<1>3. Quote \in Marks /\ Quote \notin (Marks \ {Quote}) \cup Digits
  BY DEF Marks, Digits, Quote
<1>4. CASE part.name = << >> /\ part.at = part.from
  BY <1>1, <1>2, <1>3, <1>4 DEF part
<1>5. CASE Quoted(part.name, p.text, part.from) /\ part.at = part.from + Len(part.name) + 2
  <2>1. Has(p.text, part.from, Quote)
    BY <1>5 DEF Quoted
  <2> QED
    BY <1>1, <1>3, <1>5, <2>1 DEF part, Has
<1> QED
  BY <1>1, <1>4, <1>5

LEMMA ElementEnds ==
  ASSUME NEW p \in Phrases, p.fn # "none", NEW k \in DOMAIN p.parts
  PROVE  LET sub == p.parts[k].phrase
             end == p.parts[k].at + Width(sub)
         IN  /\ end = From(p, k + 1)
             /\ \/ end \in DOMAIN p.text /\ p.text[end] \notin sub.bars
                \/ end = Len(p.text) + 1 /\ sub.bars \subseteq p.bars
<1> DEFINE sub == p.parts[k].phrase
           end == p.parts[k].at + Width(sub)
<1>1. /\ end = From(p, k + 1) /\ Stands(sub, p.text, p.parts[k].at)
      /\ DOMAIN p.parts = 1..Len(p.parts) /\ Len(p.parts) \in Nat
      /\ IsPointer(p) \/ IsArray(p) \/ IsRecord(p)
  BY ConstructShape DEF IsPart
<1>2. ASSUME end \in DOMAIN p.text
      PROVE  p.text[end] \notin sub.bars
  BY <1>1, <1>2 DEF Stands, Has
<1> HIDE DEF sub, end
<1>3. CASE k + 1 \in DOMAIN p.parts
  BY <1>1, <1>2, <1>3, ElementBegins DEF sub, end
<1>4. CASE k + 1 \notin DOMAIN p.parts /\ p.fn # "pointer"
  <2>1. end = Close(p)
    BY <1>1, <1>4 DEF From
  <2>2. Has(p.text, Close(p), Closing[p.fn])
    BY <1>4, ConstructShape
  <2> QED
    BY <1>1, <1>2, <2>1, <2>2 DEF sub, end, Has
<1>5. CASE k + 1 \notin DOMAIN p.parts /\ p.fn = "pointer"
  <2>1. end = Len(p.text) + 1
    BY <1>1, <1>5 DEF From, Close
  <2>2. IsPointer(p)
    BY <1>1, <1>5 DEF IsArray, IsRecord
  <2>3. k = 1
    BY <1>1, <2>2 DEF IsPointer, OnePart
  <2>4. sub.bars \subseteq p.bars
    BY <2>2, <2>3 DEF IsPointer, sub
  <2> QED
    BY <1>1, <2>1, <2>4 DEF sub, end
<1> QED
  BY <1>3, <1>4, <1>5

LEMMA Shifted ==
  \A a, c \in Nat \ {0} : \A w \in Nat : (a + c - 1) + w = (a + w) + c - 1
OBVIOUS

\* An element of a construct that is in a string is in that string.
LEMMA PartIsJob ==
  ASSUME NEW t \in Seq(STRING), NEW j, Job(t, j), j.phrase.fn # "none",
         NEW k \in DOMAIN j.phrase.parts
  PROVE  /\ Job(t, PartJob(j, k))
         /\ End(PartJob(j, k)) = Spot(j, From(j.phrase, k + 1))
<1> DEFINE p == j.phrase
           part == p.parts[k]
           sub == part.phrase
<1>1. p \in Phrases /\ j.at \in Nat \ {0}
  BY DEF Job
<1>2. /\ part.at \in Nat \ {0} /\ Stands(sub, p.text, part.at) /\ sub \in Phrases
      /\ part.at + Width(sub) = From(p, k + 1)
  BY <1>1, ConstructShape DEF IsPart
<1>3. /\ Core(j) \in Nat \ {0} /\ End(j) = Core(j) + Len(p.text)
      /\ Occurs(p.text, t, Core(j)) /\ \A c \in p.bars : ~ Has(t, End(j), c)
  BY JobText
<1>4. /\ IsSeq(p.text) /\ DOMAIN p.text = 1..Len(p.text) /\ Len(p.text) \in Nat
  BY <1>1, PhraseShape
<1>5. /\ IsSeq(sub.text) /\ DOMAIN sub.text = 1..Len(sub.text)
      /\ IsSeq(sub.quals) /\ DOMAIN sub.quals = 1..Len(sub.quals)
      /\ Len(sub.quals) \in Nat /\ Len(sub.text) \in Nat
      /\ Width(sub) = Len(sub.quals) + Len(sub.text) /\ Width(sub) \in Nat
  BY <1>2, PhraseShape
<1>6. \/ From(p, k + 1) \in DOMAIN p.text /\ p.text[From(p, k + 1)] \notin sub.bars
      \/ From(p, k + 1) = Len(p.text) + 1 /\ sub.bars \subseteq p.bars
  BY <1>1, ElementEnds
<1> DEFINE at == Spot(j, part.at)
<1>7. at = part.at + Core(j) - 1 /\ at \in Nat \ {0}
  BY <1>2, <1>3 DEF Spot
<1> HIDE DEF p, part, sub, at
<1>8. \A s : IsSeq(s) /\ DOMAIN s \subseteq Nat \ {0} =>
        \A m \in Nat \ {0} : Occurs(s, p.text, m) => Occurs(s, t, m + Core(j) - 1)
  <2>1. DOMAIN p.text \subseteq Nat \ {0}
    BY <1>4
  <2>2. TAKE s
  <2>3. HAVE IsSeq(s) /\ DOMAIN s \subseteq Nat \ {0}
  <2>4. TAKE m \in Nat \ {0}
  <2>5. HAVE Occurs(s, p.text, m)
  <2>6. m \in Nat /\ Core(j) \in Nat /\ 1 <= m
    BY <1>3
  <2> QED
    BY <1>3, <2>1, <2>3, <2>5, <2>6, OccursIn
<1>9. Occurs(sub.quals, t, at)
  <2>1. DOMAIN sub.quals \subseteq Nat \ {0} /\ Occurs(sub.quals, p.text, part.at)
    BY <1>2, <1>5 DEF Stands
  <2> QED
    BY <1>2, <1>5, <1>7, <1>8, <2>1
<1>10. Occurs(sub.text, t, at + Len(sub.quals))
  <2>1. DOMAIN sub.text \subseteq Nat \ {0} /\ Occurs(sub.text, p.text, part.at + Len(sub.quals))
    BY <1>2, <1>5 DEF Stands
  <2>2. /\ part.at + Len(sub.quals) \in Nat \ {0}
        /\ (part.at + Len(sub.quals)) + Core(j) - 1 = at + Len(sub.quals)
    BY <1>2, <1>3, <1>5, <1>7
  <2> QED
    BY <1>5, <1>8, <2>1, <2>2
<1>11. at + Width(sub) = From(p, k + 1) + Core(j) - 1
  <2>1. (part.at + Core(j) - 1) + Width(sub) = (part.at + Width(sub)) + Core(j) - 1
    BY <1>2, <1>3, <1>5, Shifted
  <2> QED
    BY Zenon, <1>2, <1>7, <2>1
<1>12. \A c \in sub.bars : ~ Has(t, at + Width(sub), c)
  <2>1. CASE From(p, k + 1) \in DOMAIN p.text /\ p.text[From(p, k + 1)] \notin sub.bars
    <3>1. From(p, k + 1) \in Nat /\ Has(p.text, From(p, k + 1), p.text[From(p, k + 1)])
      BY <1>4, <2>1 DEF Has
    <3>2. Has(t, at + Width(sub), p.text[From(p, k + 1)])
      BY <1>3, <1>11, <3>1, HasIn
    <3> QED
      BY <2>1, <3>2 DEF Has
  <2>2. CASE From(p, k + 1) = Len(p.text) + 1 /\ sub.bars \subseteq p.bars
    <3>1. at + Width(sub) = End(j)
      BY <1>3, <1>4, <1>11, <2>2
    <3> QED
      BY <1>3, <2>2, <3>1
  <2> QED
    BY <1>6, <2>1, <2>2
<1>13. PartJob(j, k) = [phrase |-> sub, at |-> at, n |-> 0]
  BY DEF PartJob, sub, at, part, p
<1>14. Job(t, PartJob(j, k))
  BY <1>2, <1>7, <1>9, <1>10, <1>12, <1>13 DEF Job, Stands
<1>15. End(PartJob(j, k)) = Spot(j, From(p, k + 1))
  <2>1. Spot(j, From(p, k + 1)) = From(p, k + 1) + Core(j) - 1
    <3>1. From(p, k + 1) \in Nat
      BY <1>2, <1>5, SumIs
    <3> QED
      BY <1>3, <3>1 DEF Spot
  <2> QED
    BY <1>11, <1>13, <2>1 DEF End
<1> QED
  BY <1>14, <1>15 DEF p

-----------------------------------------------------------------------------
(***************************************************************************)
(* What process() makes of the head of a phrase.                           *)
(***************************************************************************)
LEMMA IsHas ==
  ASSUME encoded \in Seq(STRING), NEW k \in Nat \ {0}, NEW c
  PROVE  Is(k, c) <=> Has(encoded, k, c)
<1>1. Len(encoded) \in Nat /\ DOMAIN encoded = 1..Len(encoded)
  BY LenProperties
<1>2. k \in DOMAIN encoded <=> ~ AtEnd(k)
  BY <1>1 DEF AtEnd
<1> QED
  BY <1>2 DEF Is, Has

LEMMA Cut ==
  ASSUME NEW t \in Seq(STRING), NEW s \in Seq(STRING), NEW k \in Nat \ {0}, Occurs(s, t, k)
  PROVE  SubSeq(t, k, k + Len(s) - 1) = s
<1>1. /\ Len(s) \in Nat /\ DOMAIN s = 1..Len(s)
      /\ Len(t) \in Nat /\ DOMAIN t = 1..Len(t)
  BY LenProperties
<1>2. \A i \in 1..Len(s) : k + i - 1 \in 1..Len(t) /\ t[k + i - 1] = s[i]
  BY <1>1 DEF Occurs, Has
<1> DEFINE n == k + Len(s) - 1
           u == SubSeq(t, k, n)
<1>3. n \in Int /\ n = k + Len(s) - 1
  BY <1>1
<1>4. \A i \in k..n : i \in 1..Len(t)
  <2> TAKE i \in k..n
  <2>1. i - k + 1 \in 1..Len(s) /\ k + (i - k + 1) - 1 = i
    BY <1>1, <1>3
  <2> QED
    BY <1>2, <2>1
<1>5. u \in Seq(STRING) /\ Len(u) = Len(s)
  BY <1>1, <1>3, <1>4, SubSeqProperties
<1>6. \A i \in 1..Len(s) : u[i] = s[i]
  <2> TAKE i \in 1..Len(s)
  <2>1. u[i] = t[k + i - 1]
    <3>1. /\ n - k + 1 = Len(s)
          /\ Len(u) = (IF k <= n THEN n - k + 1 ELSE 0)
          /\ \A q \in 1..(n - k + 1) : u[q] = t[k + q - 1]
      BY <1>1, <1>3, <1>4, SubSeqProperties
    <3> QED
      BY <3>1
  <2> QED
    BY <1>2, <2>1
<1> HIDE DEF u
<1>7. u = s
  BY <1>5, <1>6, SeqEqual
<1> QED
  BY <1>7 DEF u

LEMMA QuotedIn ==
  ASSUME NEW t, NEW u, NEW name, NEW k \in Nat \ {0}, NEW j \in Nat \ {0},
         DOMAIN t \subseteq Nat \ {0}, Quoted(name, t, k), Occurs(t, u, j)
  PROVE  Quoted(name, u, k + j - 1)
<1>1. /\ name \in Seq(STRING) /\ Len(name) \in Nat
      /\ IsSeq(name) /\ DOMAIN name = 1..Len(name)
  BY SeqOfElements DEF Quoted
<1>2. Has(u, k + j - 1, Quote)
  BY HasIn DEF Quoted
<1>3. Occurs(name, u, (k + 1) + j - 1)
  <2>1. k + 1 \in Nat /\ 1 <= k + 1 /\ DOMAIN name \subseteq Nat \ {0} /\ j \in Nat
    BY <1>1
  <2>2. Occurs(name, t, k + 1)
    BY DEF Quoted
  <2> QED
    BY <1>1, <2>1, <2>2, OccursIn
<1>4. Has(u, (k + Len(name) + 1) + j - 1, Quote)
  <2>1. k + Len(name) + 1 \in Nat
    BY <1>1
  <2> QED
    BY <2>1, HasIn DEF Quoted
<1>5. /\ (k + 1) + j - 1 = (k + j - 1) + 1
      /\ (k + Len(name) + 1) + j - 1 = (k + j - 1) + Len(name) + 1
  BY <1>1
<1> QED
  BY <1>2, <1>3, <1>4, <1>5 DEF Quoted

\* read_opt_name reads a quoted name, and nothing else.
LEMMA ReadQuoted ==
  ASSUME encoded \in Seq(STRING), NEW k \in Nat \ {0}, NEW name, Quoted(name, encoded, k)
  PROVE  NameAfter(k) = k + Len(name) + 2 /\ OptName(k) = name
<1> DEFINE close == k + Len(name) + 1
<1>1. /\ name \in Seq(STRING) /\ Len(name) \in Nat /\ DOMAIN name = 1..Len(name)
      /\ Len(encoded) \in Nat /\ DOMAIN encoded = 1..Len(encoded)
  BY LenProperties DEF Quoted
<1>2. Is(k, Quote)
  BY IsHas DEF Quoted
<1>3. close \in 1..Len(encoded) /\ encoded[close] = Quote
  BY <1>1 DEF Quoted, Has
<1>4. \A i \in (k + 1)..(close - 1) : encoded[i] # Quote
  <2> TAKE i \in (k + 1)..(close - 1)
  <2>1. i - k \in DOMAIN name /\ (k + 1) + (i - k) - 1 = i
    BY <1>1
  <2>2. Has(encoded, (k + 1) + (i - k) - 1, name[i - k]) /\ name[i - k] # Quote
    BY <2>1 DEF Quoted, Occurs
  <2> QED
    BY <2>1, <2>2 DEF Has
<1>5. close = (k + 1) + Len(name) /\ k + 1 \in Nat \ {0} /\ k + 1 <= close
  BY <1>1
<1> HIDE DEF close
<1>6. Until(k + 1, {Quote}) = close
  <2>1. close \in Nat /\ k + 1 \in Nat /\ 1 <= k + 1 /\ close <= Len(encoded) + 1
    BY <1>1, <1>3, <1>5
  <2>2. \A i \in (k + 1)..(close - 1) : encoded[i] \notin {Quote}
    BY <1>4
  <2> QED
    BY <1>3, <1>5, <2>1, <2>2, UntilIs
<1>7. ~ AtEnd(close)
  BY <1>1, <1>3 DEF AtEnd
<1>8. NameAfter(k) = close + 1
  BY <1>2, <1>6, <1>7 DEF NameAfter
<1>9. OptName(k) = SubSeq(encoded, k + 1, close - 1)
  BY <1>2, <1>6 DEF OptName
<1>10. SubSeq(encoded, k + 1, (k + 1) + Len(name) - 1) = name
  BY <1>1, <1>5, Cut DEF Quoted
<1> QED
  BY <1>1, <1>5, <1>8, <1>9, <1>10

LEMMA ReadUnquoted ==
  ASSUME NEW k, ~ Is(k, Quote)
  PROVE  NameAfter(k) = k /\ OptName(k) = << >>
BY DEF NameAfter, OptName

\* read_str_number reads a size of one digit.
LEMMA ReadSize ==
  ASSUME encoded \in Seq(STRING), NEW n \in Sizes, Len(n.text) = 1,
         NEW k \in Nat \ {0}, Occurs(n.text, encoded, k),
         \A c \in Digits : ~ Has(encoded, k + 1, c)
  PROVE  SkipAll(k, Digits) = k + 1 /\ NumberBefore(k + 1) = n.value
<1>1. /\ n.text \in Seq(Digits) /\ n.value = DigitValue(n.text[1])
      /\ 1 \in DOMAIN n.text /\ n.text[1] \in Digits
  <2>1. n.text \in Seq(Digits) /\ n.value = DigitValue(n.text[1])
    BY SizesAssumption DEF IsSize
  <2>2. DOMAIN n.text = 1..1
    BY <2>1, LenProperties
  <2> QED
    BY <2>1, <2>2, ElementOfSeq
<1>2. Len(encoded) \in Nat /\ DOMAIN encoded = 1..Len(encoded)
  BY LenProperties
<1>3. k \in 1..Len(encoded) /\ encoded[k] = n.text[1]
  <2>1. Has(encoded, k + 1 - 1, n.text[1]) /\ k + 1 - 1 = k
    BY <1>1 DEF Occurs
  <2> QED
    BY <1>2, <2>1 DEF Has
<1>4. SkipAll(k, Digits) = k + 1
  <2>1. \A i \in k..((k + 1) - 1) : encoded[i] \in Digits
    BY <1>1, <1>3
  <2>2. k + 1 <= Len(encoded) => encoded[k + 1] \notin Digits
    BY <1>2 DEF Has
  <2>3. k + 1 \in Nat /\ 1 <= k /\ k <= k + 1 /\ k + 1 <= Len(encoded) + 1
    BY <1>2, <1>3
  <2> QED
    BY <2>1, <2>2, <2>3, SkipAllIs
<1>5. k + 1 - 1 = k
  OBVIOUS
<1>6. NumberBefore(k + 1) = DigitValue(encoded[k])
  BY <1>5 DEF NumberBefore
<1> QED
  BY <1>1, <1>3, <1>4, <1>6

\* The steps of process() up to a call or a loop.
Processing ==
  \/ ProcessEnd \/ ProcessLeaf \/ ProcessUnsupported \/ ProcessBitField
  \/ ProcessBlock \/ ProcessObject \/ ProcessVoidPointer \/ ProcessPointer
  \/ ProcessArray \/ ProcessStructure \/ ProcessUnion

\* The character says which it is.
LEMMA ProcessBy ==
  ASSUME encoded \in Seq(STRING), Processing, TypeAt \in Nat \ {0}, NEW c, Has(encoded, TypeAt, c)
  PROVE  /\ c \in Leaves => Return(TypeAt + 1, Leaf(c))
         /\ c \notin Supported => Return(TypeAt + 1, Null)
         /\ c = "b" => ProcessBitField
         /\ c = "@" => ProcessBlock \/ ProcessObject
         /\ c = "^" => ProcessVoidPointer \/ ProcessPointer
         /\ c = "[" => ProcessArray
         /\ c = "{" => ProcessRecord("struct")
         /\ c = "(" => ProcessRecord("union")
<1>1. Is(TypeAt, c) /\ ~ AtEnd(TypeAt) /\ encoded[TypeAt] = c
  BY IsHas DEF Is, Has
<1>2. Supported = Leaves \cup {"b", "@", "^", "[", "{", "("}
  <2>1. {Opening[fn] : fn \in DOMAIN Opening} = {"^", "[", "{", "("}
    <3>1. DOMAIN Opening = {"pointer", "array", "struct", "union"}
      BY DEF Opening
    <3>2. /\ Opening["pointer"] = "^" /\ Opening["array"] = "["
          /\ Opening["struct"] = "{" /\ Opening["union"] = "("
      BY DEF Opening
    <3> QED
      BY <3>1, <3>2
  <2> QED
    BY <2>1 DEF Supported
<1>3. {"b", "@", "^", "[", "{", "("} \cap Leaves = {}
  BY DEF Leaves
<1>4. /\ ProcessLeaf => c \in Leaves /\ Return(TypeAt + 1, Leaf(c))
      /\ ProcessUnsupported => c \notin Supported /\ Return(TypeAt + 1, Null)
      /\ ~ ProcessEnd
  BY <1>1 DEF ProcessLeaf, ProcessUnsupported, ProcessEnd
<1>5. /\ ProcessBitField => c = "b"
      /\ ProcessBlock \/ ProcessObject => c = "@"
      /\ ProcessVoidPointer \/ ProcessPointer => c = "^"
      /\ ProcessArray => c = "["
      /\ ProcessStructure => c = "{" /\ ProcessRecord("struct")
      /\ ProcessUnion => c = "(" /\ ProcessRecord("union")
  BY <1>1 DEF ProcessBitField, ProcessBlock, ProcessObject, ProcessVoidPointer,
              ProcessPointer, ProcessArray, ProcessStructure, ProcessUnion,
              ProcessRecord, Process, Is, Opening
<1> QED
  BY <1>2, <1>3, <1>4, <1>5 DEF Processing

-----------------------------------------------------------------------------
\* read_str_number keeps one digit only: sizes below ten.
LEMMA TwoCharacters ==
  ASSUME NEW a, NEW b
  PROVE  /\ Len(<<a, b>>) = 2 /\ 2 \in DOMAIN <<a, b>>
         /\ <<a, b>>[1] = a /\ <<a, b>>[2] = b
OBVIOUS

LEMMA ReadBitField ==
  ASSUME encoded \in Seq(STRING), NEW j, Job(encoded, j), IsBitField(j.phrase),
         TypeAt = Core(j), ProcessBitField, ShortSizes
  PROVE  Return(End(j), j.phrase.type)
<1> DEFINE p == j.phrase
<1>1. PICK n \in Sizes :
        /\ p.text[1] = "b" /\ Len(p.text) = Len(n.text) + 1 /\ Occurs(n.text, p.text, 2)
        /\ p.type = BitField(n.value) /\ Digits \subseteq p.bars
  BY DEF IsBitField
<1>2. /\ Core(j) \in Nat \ {0} /\ End(j) = Core(j) + Len(p.text)
      /\ Occurs(p.text, encoded, Core(j))
      /\ \A c \in p.bars : ~ Has(encoded, End(j), c)
  BY JobText
<1>3. Len(n.text) = 1 /\ n.text \in Seq(Digits)
  BY SizesAssumption DEF ShortSizes, IsSize
<1>4. Occurs(n.text, encoded, Core(j) + 1)
  <2>1. IsSeq(n.text) /\ DOMAIN n.text = 1..1
    BY <1>3, SeqOfElements
  <2>2. DOMAIN p.text \subseteq Nat \ {0}
    BY TextDomain DEF Job
  <2>3. Occurs(n.text, encoded, 2 + Core(j) - 1)
    <3>1. 2 \in Nat /\ 1 <= 2 /\ Core(j) \in Nat /\ DOMAIN n.text \subseteq Nat \ {0}
      BY <1>2, <2>1
    <3> QED
      BY <1>1, <1>2, <2>1, <2>2, <3>1, OccursIn
  <2>4. 2 + Core(j) - 1 = Core(j) + 1
    BY <1>2
  <2> QED
    BY <2>3, <2>4
<1>5. End(j) = (Core(j) + 1) + 1 /\ Core(j) + 1 \in Nat \ {0}
  BY <1>1, <1>2, <1>3
<1>6. SkipAll(Core(j) + 1, Digits) = End(j) /\ NumberBefore(End(j)) = n.value
  <2>1. \A c \in Digits : ~ Has(encoded, (Core(j) + 1) + 1, c)
    BY <1>1, <1>2, <1>5
  <2> QED
    BY <1>3, <1>4, <1>5, <2>1, ReadSize
<1>7. SkipAll(TypeAt + 1, Digits) # TypeAt + 1
  BY <1>2, <1>5, <1>6
<1> QED
  BY <1>1, <1>6, <1>7 DEF ProcessBitField

LEMMA ReadNamedObject ==
  ASSUME encoded \in Seq(STRING), NEW j, Job(encoded, j), IsNamedObject(j.phrase),
         TypeAt = Core(j), ProcessBlock \/ ProcessObject
  PROVE  Return(End(j), j.phrase.type)
<1> DEFINE p == j.phrase
           name == p.type.name
<1>1. /\ p.type = Object(name) /\ Quoted(name, p.text, 2) /\ Len(p.text) = Len(name) + 3
  BY DEF IsNamedObject
<1>2. /\ Core(j) \in Nat \ {0} /\ End(j) = Core(j) + Len(p.text)
      /\ Occurs(p.text, encoded, Core(j))
  BY JobText
<1>3. Len(name) \in Nat
  BY <1>1, LenProperties DEF Quoted
<1> HIDE DEF name
<1>4. Quoted(name, encoded, Core(j) + 1)
  <2>1. DOMAIN p.text \subseteq Nat \ {0}
    BY TextDomain DEF Job
  <2>2. Quoted(name, encoded, 2 + Core(j) - 1)
    <3> DEFINE t == p.text
               c == Core(j)
    <3>1. Quoted(name, t, 2) /\ Occurs(t, encoded, c) /\ DOMAIN t \subseteq Nat \ {0}
      BY <1>1, <1>2, <2>1
    <3>2. c \in Nat \ {0} /\ 2 \in Nat \ {0}
      BY <1>2
    <3> HIDE DEF t, c, p
    <3>3. Quoted(name, encoded, 2 + c - 1)
      BY <3>1, <3>2, QuotedIn
    <3> QED
      BY <3>3 DEF c
  <2>3. 2 + Core(j) - 1 = Core(j) + 1
    BY <1>2
  <2> QED
    BY <2>2, <2>3
<1>5. Core(j) + 1 \in Nat \ {0}
  BY <1>2
<1>6. NameAfter(Core(j) + 1) = (Core(j) + 1) + Len(name) + 2 /\ OptName(Core(j) + 1) = name
  BY <1>4, <1>5, ReadQuoted
<1>7. NameAfter(Core(j) + 1) = End(j)
  BY <1>1, <1>2, <1>3, <1>6
<1>8. ~ Is(Core(j) + 1, "?")
  <2>1. Has(encoded, Core(j) + 1, Quote)
    BY <1>4 DEF Quoted
  <2> QED
    BY <2>1 DEF Has, Is, Quote
<1>9. ProcessObject
  BY <1>8 DEF ProcessBlock
<1> QED
  BY <1>1, <1>6, <1>7, <1>9 DEF ProcessObject

LEMMA ReadSimple ==
  ASSUME encoded \in Seq(STRING), NEW j, Job(encoded, j), j.phrase.fn = "none",
         TypeAt = Core(j), Processing, ShortSizes
  PROVE  Return(End(j), j.phrase.type)
<1> DEFINE p == j.phrase
<1>1. IsSimple(p)
  BY PhraseShape DEF Job, IsConstruct, IsPointer, IsArray, IsRecord
<1>2. /\ Core(j) \in Nat \ {0} /\ End(j) = Core(j) + Len(p.text)
      /\ Occurs(p.text, encoded, Core(j)) /\ Has(encoded, Core(j), p.text[1])
      /\ \A c \in p.bars : ~ Has(encoded, End(j), c)
  BY JobText
<1>3. Core(j) + 1 \in Nat \ {0}
  BY <1>2
<1>4. /\ p.text[1] \in Leaves => Return(Core(j) + 1, Leaf(p.text[1]))
      /\ p.text[1] \notin Supported => Return(Core(j) + 1, Null)
      /\ p.text[1] = "b" => ProcessBitField
      /\ p.text[1] = "@" => ProcessBlock \/ ProcessObject
      /\ p.text[1] = "^" => ProcessVoidPointer \/ ProcessPointer
  BY <1>2, ProcessBy
<1>5. ASSUME 2 \in DOMAIN p.text
      PROVE  Is(Core(j) + 1, p.text[2])
  <2>1. Has(encoded, Core(j) + 2 - 1, p.text[2]) /\ Core(j) + 2 - 1 = Core(j) + 1
    BY <1>2, <1>5 DEF Occurs
  <2> QED
    BY <1>3, <2>1, IsHas
<1>6. CASE IsLeaf(p)
  <2>1. PICK c \in Leaves : p.text = <<c>> /\ p.type = Leaf(c)
    BY <1>6 DEF IsLeaf
  <2>2. p.text[1] = c /\ Len(p.text) = 1
    BY <2>1
  <2> QED
    BY <1>2, <1>4, <2>1, <2>2
<1>7. CASE IsUnsupported(p)
  BY <1>2, <1>4, <1>7 DEF IsUnsupported
<1>8. CASE IsBitField(p)
  BY <1>4, <1>8, ReadBitField DEF IsBitField
<1>9. CASE IsBlock(p)
  <2>1. p.text[1] = "@" /\ p.text[2] = "?" /\ 2 \in DOMAIN p.text /\ Len(p.text) = 2
    BY <1>9, TwoCharacters DEF IsBlock
  <2>2. Is(TypeAt + 1, "?")
    BY <1>5, <2>1
  <2>3. ProcessBlock
    BY <1>4, <2>1, <2>2 DEF ProcessObject
  <2> QED
    BY <1>2, <1>9, <2>1, <2>3 DEF ProcessBlock, IsBlock
<1>10. CASE IsId(p)
  <2>1. /\ p.text[1] = "@" /\ Len(p.text) = 1 /\ p.type = Object(<< >>)
        /\ {Quote, "?"} \subseteq p.bars
    BY <1>10 DEF IsId
  <2>2. End(j) = Core(j) + 1
    BY <1>2, <2>1
  <2>3. ~ Is(TypeAt + 1, "?") /\ ~ Is(TypeAt + 1, Quote)
    BY <1>2, <1>3, <2>1, <2>2, IsHas
  <2>4. ProcessObject
    BY <1>4, <2>1, <2>3 DEF ProcessBlock
  <2>5. NameAfter(TypeAt + 1) = TypeAt + 1 /\ OptName(TypeAt + 1) = << >>
    BY <2>3, ReadUnquoted
  <2> QED
    BY <2>1, <2>2, <2>4, <2>5 DEF ProcessObject
<1>11. CASE IsNamedObject(p)
  BY <1>4, <1>11, ReadNamedObject DEF IsNamedObject
<1>12. CASE IsVoidPointer(p)
  <2>1. p.text[1] = "^" /\ p.text[2] = "?" /\ 2 \in DOMAIN p.text /\ Len(p.text) = 2
    BY <1>12, TwoCharacters DEF IsVoidPointer
  <2>2. Is(TypeAt + 1, "?")
    BY <1>5, <2>1
  <2>3. ProcessVoidPointer
    BY <1>4, <2>1, <2>2 DEF ProcessPointer
  <2> QED
    BY <1>2, <1>12, <2>1, <2>3 DEF ProcessVoidPointer, IsVoidPointer
<1> QED
  BY <1>1, <1>6, <1>7, <1>8, <1>9, <1>10, <1>11, <1>12 DEF IsSimple

-----------------------------------------------------------------------------
\* Where an element begins in the string.
LEMMA SpotHas ==
  ASSUME NEW t \in Seq(STRING), NEW j, Job(t, j), NEW k \in DOMAIN j.phrase.text
  PROVE  Spot(j, k) \in Nat \ {0} /\ Has(t, Spot(j, k), j.phrase.text[k])
<1>1. Core(j) \in Nat \ {0} /\ Occurs(j.phrase.text, t, Core(j))
  BY JobText
<1>2. DOMAIN j.phrase.text \subseteq Nat \ {0}
  BY TextDomain DEF Job
<1>3. Has(t, Core(j) + k - 1, j.phrase.text[k]) /\ Core(j) + k - 1 \in Nat \ {0}
  BY <1>1, <1>2 DEF Occurs
<1> QED
  BY <1>3 DEF Spot

LEMMA ReadPointer ==
  ASSUME encoded \in Seq(STRING), NEW j, Job(encoded, j), j.phrase.fn = "pointer",
         TypeAt = Core(j), Processing
  PROVE  Enter(Frame("pointer", TypeAt, << >>, 0), Spot(j, From(j.phrase, 1)), "call")
<1> DEFINE p == j.phrase
<1>1. /\ p \in Phrases /\ IsPointer(p) /\ p.text[1] = "^" /\ 1 \in DOMAIN p.parts
  <2>1. p \in Phrases
    BY DEF Job
  <2>2. /\ IsPointer(p) \/ IsArray(p) \/ IsRecord(p)
        /\ DOMAIN p.parts = 1..Len(p.parts) /\ p.text[1] = Opening[p.fn]
    BY <2>1, ConstructShape
  <2>3. IsPointer(p)
    BY <2>2 DEF IsArray, IsRecord
  <2> QED
    BY <2>1, <2>2, <2>3 DEF IsPointer, OnePart, Opening
<1>2. From(p, 1) = 2 /\ 2 \in DOMAIN p.text /\ p.text[2] # "?"
  <2>1. From(p, 1) = 2
    BY <1>1 DEF IsPointer
  <2>2. /\ From(p, 1) \in DOMAIN p.text
        /\ p.text[From(p, 1)] \notin (Marks \ {Quote}) \cup Digits
    BY <1>1, ElementBegins
  <2> QED
    BY <2>1, <2>2 DEF Marks, Quote
<1>3. /\ Core(j) \in Nat \ {0} /\ Has(encoded, Core(j), p.text[1])
  BY JobText
<1>4. Spot(j, 2) = Core(j) + 1
  BY <1>3 DEF Spot
<1>5. ~ Is(TypeAt + 1, "?")
  BY <1>2, <1>4, SpotHas DEF Has, Is
<1>6. ProcessVoidPointer \/ ProcessPointer
  BY <1>1, <1>3, ProcessBy
<1> QED
  BY <1>2, <1>4, <1>5, <1>6 DEF ProcessVoidPointer, ProcessPointer

LEMMA ReadArray ==
  ASSUME encoded \in Seq(STRING), NEW j, Job(encoded, j), j.phrase.fn = "array",
         TypeAt = Core(j), Processing, ShortSizes
  PROVE  Enter(Frame("array", TypeAt, j.phrase.type.name, j.phrase.type.dim),
               Spot(j, From(j.phrase, 1)), "loop")
<1> DEFINE p == j.phrase
<1>1. /\ p \in Phrases /\ IsArray(p) /\ p.text[1] = "[" /\ 1 \in DOMAIN p.parts
  <2>1. p \in Phrases
    BY DEF Job
  <2>2. /\ IsPointer(p) \/ IsArray(p) \/ IsRecord(p)
        /\ DOMAIN p.parts = 1..Len(p.parts) /\ p.text[1] = Opening[p.fn]
    BY <2>1, ConstructShape
  <2>3. IsArray(p)
    BY <2>2 DEF IsPointer, IsRecord
  <2> QED
    BY <2>1, <2>2, <2>3 DEF IsArray, OnePart, Opening
<1>2. PICK n \in Sizes :
        /\ Occurs(n.text, p.text, 2) /\ From(p, 1) = Len(n.text) + 2
        /\ p.type = Ty("array", << >>, n.value, Attributes(p))
  BY <1>1 DEF IsArray
<1>3. Len(n.text) = 1 /\ From(p, 1) = 3 /\ n.text \in Seq(Digits)
  <2>1. Len(n.text) = 1 /\ n.text \in Seq(Digits)
    BY SizesAssumption DEF ShortSizes, IsSize
  <2> QED
    BY <1>2, <2>1
<1>4. 3 \in DOMAIN p.text /\ p.text[3] \notin Digits
  BY <1>1, <1>3, ElementBegins
<1>5. /\ Core(j) \in Nat \ {0} /\ Has(encoded, Core(j), p.text[1])
      /\ Occurs(p.text, encoded, Core(j))
  BY JobText
<1>6. Spot(j, 3) = (Core(j) + 1) + 1 /\ Core(j) + 1 \in Nat \ {0}
  BY <1>5 DEF Spot
<1>7. Occurs(n.text, encoded, Core(j) + 1)
  <2>1. IsSeq(n.text) /\ DOMAIN n.text = 1..1
    BY <1>3, SeqOfElements
  <2>2. DOMAIN p.text \subseteq Nat \ {0}
    BY <1>1, TextDomain
  <2>3. Occurs(n.text, encoded, 2 + Core(j) - 1)
    <3>1. 2 \in Nat /\ 1 <= 2 /\ Core(j) \in Nat /\ DOMAIN n.text \subseteq Nat \ {0}
      BY <1>5, <2>1
    <3> QED
      BY <1>2, <1>5, <2>1, <2>2, <3>1, OccursIn
  <2>4. 2 + Core(j) - 1 = Core(j) + 1
    BY <1>5
  <2> QED
    BY <2>3, <2>4
<1>8. SkipAll(Core(j) + 1, Digits) = Spot(j, 3) /\ NumberBefore(Spot(j, 3)) = n.value
  <2>1. \A c \in Digits : ~ Has(encoded, (Core(j) + 1) + 1, c)
    BY <1>4, <1>6, SpotHas DEF Has
  <2> QED
    BY <1>3, <1>6, <1>7, <2>1, ReadSize
<1>9. ProcessArray
  BY <1>1, <1>5, ProcessBy
<1>10. SkipAll(TypeAt + 1, Digits) # TypeAt + 1
  BY <1>5, <1>6, <1>8
<1>11. p.type.name = << >> /\ p.type.dim = n.value
  BY <1>2 DEF Ty
<1> QED
  BY <1>3, <1>8, <1>9, <1>10, <1>11 DEF ProcessArray

\* The name of a record ends at "=", or where a structure ends.
RecordFns == {"struct", "union"}
Plain(name, fn) == \A i \in DOMAIN name : name[i] \notin {"=", Closing[fn]}
EndsName(t, k, fn) == Has(t, k, "=") \/ (fn = "struct" /\ Has(t, k, "}"))

LEMMA ReadName ==
  ASSUME encoded \in Seq(STRING), NEW k \in Nat \ {0}, NEW name \in Seq(STRING),
         NEW fn \in RecordFns, Occurs(name, encoded, k),
         Plain(name, fn), EndsName(encoded, k + Len(name), fn)
  PROVE  /\ Until(k, NameEnds[fn]) = k + Len(name)
         /\ SubSeq(encoded, k, k + Len(name) - 1) = name
<1> DEFINE stop == k + Len(name)
<1>1. /\ Len(name) \in Nat /\ DOMAIN name = 1..Len(name)
      /\ Len(encoded) \in Nat /\ DOMAIN encoded = 1..Len(encoded)
  BY LenProperties
<1>2. stop \in Nat /\ k <= stop
  BY <1>1
<1>3. NameEnds[fn] \subseteq {"=", Closing[fn]} /\ "=" \in NameEnds[fn]
      /\ (fn = "struct" => "}" \in NameEnds[fn])
  <2>1. CASE fn = "struct"
    BY <2>1 DEF NameEnds, Closing
  <2>2. CASE fn = "union"
    BY <2>2 DEF NameEnds, Closing
  <2> QED
    BY <2>1, <2>2 DEF RecordFns
<1>4. stop <= Len(encoded) /\ encoded[stop] \in NameEnds[fn]
  <2>1. stop \in DOMAIN encoded /\ encoded[stop] \in NameEnds[fn]
    BY <1>3 DEF Has, EndsName
  <2> QED
    BY <1>1, <2>1
<1>5. \A i \in k..(stop - 1) : encoded[i] \notin NameEnds[fn]
  <2> TAKE i \in k..(stop - 1)
  <2>1. i - k + 1 \in DOMAIN name /\ k + (i - k + 1) - 1 = i
    BY <1>1
  <2>2. Has(encoded, k + (i - k + 1) - 1, name[i - k + 1])
    BY <2>1 DEF Occurs
  <2> QED
    BY <1>3, <2>1, <2>2 DEF Has, Plain
<1>6. SubSeq(encoded, k, k + Len(name) - 1) = name
  BY Cut
<1> HIDE DEF stop
<1>7. Until(k, NameEnds[fn]) = stop
  <2>1. 1 <= k /\ k \in Nat /\ stop <= Len(encoded) + 1
    BY <1>1, <1>2, <1>4
  <2> QED
    BY <1>2, <1>4, <1>5, <2>1, UntilIs
<1> QED
  BY <1>6, <1>7 DEF stop

LEMMA SpotSum ==
  ASSUME NEW j, Core(j) \in Nat \ {0}, NEW a \in Nat, NEW b \in Nat
  PROVE  Spot(j, a + b) = Spot(j, a) + b
BY DEF Spot

LEMMA ReadRecord ==
  ASSUME encoded \in Seq(STRING), NEW j, Job(encoded, j),
         j.phrase.fn \in RecordFns, TypeAt = Core(j), Processing
  PROVE  IF j.phrase.parts = << >> THEN Return(End(j), j.phrase.type)
         ELSE Enter(Frame(j.phrase.fn, TypeAt, j.phrase.type.name, j.phrase.type.dim),
                    Spot(j, From(j.phrase, 1)), "loop")
<1> DEFINE p == j.phrase
           fn == p.fn
           name == p.type.name
           start == IF Has(p.text, 2, "?") THEN 3 ELSE 2
           stop == start + Len(name)
<1>1. /\ p \in Phrases /\ IsRecord(p) /\ Has(p.text, Len(p.text), Closing[fn])
      /\ p.text[1] = Opening[fn] /\ Len(p.parts) \in Nat
      /\ p.parts \in Seq({p.parts[k] : k \in DOMAIN p.parts})
      /\ DOMAIN p.parts = 1..Len(p.parts)
  <2>1. p \in Phrases
    BY DEF Job
  <2>2. p.fn # "none" /\ p.fn # "pointer" /\ p.fn # "array"
    BY DEF RecordFns
  <2>3. /\ IsPointer(p) \/ IsArray(p) \/ IsRecord(p)
        /\ p.text[1] = Opening[p.fn] /\ Len(p.parts) \in Nat
        /\ p.parts \in Seq({p.parts[k] : k \in DOMAIN p.parts})
        /\ DOMAIN p.parts = 1..Len(p.parts)
        /\ Has(p.text, Close(p), Closing[p.fn])
    BY <2>1, <2>2, ConstructShape
  <2>4. Close(p) = Len(p.text)
    BY <2>2 DEF Close
  <2>5. IsRecord(p)
    BY <2>2, <2>3 DEF IsPointer, IsArray
  <2> QED
    BY <2>1, <2>3, <2>4, <2>5
<1>2. /\ fn \in RecordFns /\ p.type = Ty(fn, name, 0, Attributes(p))
      /\ name \in Seq(STRING) /\ Occurs(name, p.text, start)
      /\ Plain(name, fn)
      /\ \/ Has(p.text, stop, "=") /\ From(p, 1) = stop + 1
         \/ fn = "struct" /\ p.parts = << >> /\ From(p, 1) = stop
  BY <1>1 DEF IsRecord, RecordFns, Plain
<1>3. /\ Core(j) \in Nat \ {0} /\ End(j) = Core(j) + Len(p.text)
      /\ Occurs(p.text, encoded, Core(j)) /\ Has(encoded, Core(j), p.text[1])
  BY JobText
<1>4. /\ IsSeq(p.text) /\ Len(p.text) \in Nat \ {0} /\ DOMAIN p.text = 1..Len(p.text)
  BY <1>1, PhraseShape
<1>5. start \in Nat \ {0} /\ 2 <= start /\ Len(name) \in Nat
      /\ DOMAIN name = 1..Len(name) /\ IsSeq(name)
  <2>1. Len(name) \in Nat /\ DOMAIN name = 1..Len(name) /\ IsSeq(name)
    BY <1>2, SeqOfElements
  <2> QED
    BY <2>1
<1> HIDE DEF start, name, fn
<1>6. stop \in Nat \ {0} /\ 2 <= stop
  <2>1. \A a, b \in Nat : 2 <= a => a + b \in Nat \ {0} /\ 2 <= a + b
    OBVIOUS
  <2> QED
    BY <1>5, <2>1
<1>7. p.parts = << >> => From(p, 1) = Len(p.text)
  <2>1. p.fn # "pointer"
    BY <1>2 DEF RecordFns, fn
  <2>2. DOMAIN << >> = {}
    OBVIOUS
  <2> QED
    BY <2>1, <2>2 DEF From, Close
<1>8. \/ Has(p.text, stop, "=") /\ From(p, 1) = stop + 1
      \/ /\ fn = "struct" /\ p.parts = << >> /\ From(p, 1) = stop
         /\ Has(p.text, stop, "}")
  <2>1. fn = "struct" => Closing[fn] = "}"
    BY DEF Closing
  <2> QED
    BY <1>1, <1>2, <1>7, <2>1
<1> HIDE DEF stop
<1>9. stop \in DOMAIN p.text /\ 2 \in DOMAIN p.text
  <2>1. stop \in DOMAIN p.text
    BY <1>8 DEF Has
  <2>2. \A n, m \in Nat : m \in 1..n /\ 2 <= m => 2 \in 1..n
    OBVIOUS
  <2> QED
    BY <1>4, <1>6, <2>1, <2>2
<1>10. Is(TypeAt + 1, "?") <=> Has(p.text, 2, "?")
  <2>1. Has(encoded, Spot(j, 2), p.text[2])
    BY <1>9, SpotHas
  <2>2. Spot(j, 2) = TypeAt + 1 /\ TypeAt + 1 \in Nat \ {0}
    BY <1>3 DEF Spot
  <2> QED
    BY <1>9, <2>1, <2>2, IsHas DEF Has
<1>11. (IF Is(TypeAt + 1, "?") THEN TypeAt + 2 ELSE TypeAt + 1) = Spot(j, start)
  BY <1>3, <1>10 DEF Spot, start
<1>12. Spot(j, stop) = Spot(j, start) + Len(name) /\ Spot(j, start) \in Nat \ {0}
  <2>1. Spot(j, start + Len(name)) = Spot(j, start) + Len(name)
    BY <1>3, <1>5, SpotSum
  <2>2. Spot(j, start) \in Nat \ {0}
    <3>1. \A a, b \in Nat \ {0} : a + b - 1 \in Nat \ {0}
      OBVIOUS
    <3> QED
      BY <1>3, <1>5, <3>1 DEF Spot
  <2> QED
    BY <2>1, <2>2 DEF stop
<1>13. Occurs(name, encoded, Spot(j, start))
  <2>1. DOMAIN name \subseteq Nat \ {0} /\ DOMAIN p.text \subseteq Nat \ {0}
    BY <1>1, <1>5, TextDomain
  <2>2. start \in Nat /\ Core(j) \in Nat /\ 1 <= start
    BY <1>3, <1>5
  <2>3. Occurs(name, encoded, start + Core(j) - 1)
    BY <1>2, <1>3, <1>5, <2>1, <2>2, OccursIn
  <2>4. start + Core(j) - 1 = Spot(j, start)
    BY <2>2 DEF Spot
  <2> QED
    BY <2>3, <2>4
<1>14. Has(encoded, Spot(j, stop), p.text[stop])
  BY <1>9, SpotHas
<1>15. /\ Until(Spot(j, start), NameEnds[fn]) = Spot(j, stop)
       /\ SubSeq(encoded, Spot(j, start), Spot(j, stop) - 1) = name
  <2>1. EndsName(encoded, Spot(j, start) + Len(name), fn)
    BY <1>8, <1>12, <1>14 DEF Has, EndsName
  <2> QED
    BY <1>2, <1>12, <1>13, <2>1, ReadName
<1>16. (IF Is(Spot(j, stop), "=") THEN Spot(j, stop) + 1 ELSE Spot(j, stop))
         = Spot(j, From(p, 1))
  <2>1. Spot(j, stop) \in Nat \ {0}
    BY <1>9, SpotHas
  <2>2. Is(Spot(j, stop), "=") <=> p.text[stop] = "="
    BY <1>14, <2>1, IsHas DEF Has
  <2>3. Spot(j, stop + 1) = Spot(j, stop) + 1
    BY <1>3, <1>6, SpotSum
  <2> QED
    BY <1>8, <2>2, <2>3 DEF Has
<1>17. Spot(j, From(p, 1)) \in Nat \ {0}
       /\ Has(encoded, Spot(j, From(p, 1)), p.text[From(p, 1)])
  <2>1. From(p, 1) \in DOMAIN p.text
    <3>1. CASE p.parts = << >>
      BY <1>4, <1>7, <3>1
    <3>2. CASE p.parts # << >>
      <4>1. 1 \in DOMAIN p.parts
        BY <1>1, <3>2, EmptySeq
      <4>2. p.fn # "none"
        BY <1>2 DEF fn, RecordFns
      <4> QED
        BY <1>1, <4>1, <4>2, ElementBegins
    <3> QED
      BY <3>1, <3>2
  <2> QED
    BY <2>1, SpotHas
<1>18. ProcessRecord(fn)
  <2>1. fn = "struct" => p.text[1] = "{"
    <3>1. Opening["struct"] = "{"
      BY DEF Opening
    <3> QED
      BY <1>1, <3>1 DEF fn
  <2>2. fn = "union" => p.text[1] = "("
    <3>1. Opening["union"] = "("
      BY DEF Opening
    <3> QED
      BY <1>1, <3>1 DEF fn
  <2>3. Has(encoded, TypeAt, p.text[1]) /\ TypeAt \in Nat \ {0}
    BY <1>3
  <2> QED
    BY <1>2, <2>1, <2>2, <2>3, ProcessBy DEF RecordFns
<1>19. IF Is(Spot(j, From(p, 1)), Closing[fn])
       THEN Return(Spot(j, From(p, 1)) + 1, Ty(fn, name, 0, << >>))
       ELSE Enter(Frame(fn, TypeAt, name, 0), Spot(j, From(p, 1)), "loop")
  BY ONLY <1>11, <1>15, <1>16, <1>18 DEF ProcessRecord
<1>20. Is(Spot(j, From(p, 1)), Closing[fn]) <=> p.parts = << >>
  <2>1. Is(Spot(j, From(p, 1)), Closing[fn]) <=> p.text[From(p, 1)] = Closing[fn]
    BY <1>17, IsHas DEF Has
  <2>2. CASE p.parts = << >>
    BY <1>1, <1>7, <2>1, <2>2 DEF Has, fn
  <2>3. CASE p.parts # << >>
    <3>1. 1 \in DOMAIN p.parts
      BY <1>1, <2>3, EmptySeq
    <3>2. p.text[From(p, 1)] \notin (Marks \ {Quote}) \cup Digits
      <4>1. p.fn # "none"
        BY <1>2 DEF fn, RecordFns
      <4> QED
        BY <1>1, <3>1, <4>1, ElementBegins
    <3>3. Closing[fn] \in Marks \ {Quote}
      <4>1. CASE fn = "struct"
        BY <4>1 DEF Closing, Marks, Quote
      <4>2. CASE fn = "union"
        BY <4>2 DEF Closing, Marks, Quote
      <4> QED
        BY <1>2, <4>1, <4>2 DEF RecordFns
    <3> QED
      BY <2>1, <2>3, <3>2, <3>3
  <2> QED
    BY <2>2, <2>3
<1>21. p.type.name = name /\ p.type.dim = 0
  BY <1>2 DEF Ty, name
<1>22. CASE p.parts = << >>
  <2>1. Attributes(p) = << >>
    BY <1>22 DEF Attributes
  <2>2. Spot(j, From(p, 1)) + 1 = End(j)
    BY <1>3, <1>4, <1>7, <1>22 DEF Spot
  <2> QED
    BY <1>2, <1>19, <1>20, <1>22, <2>1, <2>2
<1>23. CASE p.parts # << >>
  BY <1>19, <1>20, <1>21, <1>23 DEF fn
<1> QED
  BY <1>22, <1>23

-----------------------------------------------------------------------------
(***************************************************************************)
(* The state of decode_type on a signature s: done of its types are        *)
(* collected, and jobs[1] is the next one; jobs[k] is what the k-th call of *)
(* process() reads, jobs[k + 1] the element of it that is next.            *)
(***************************************************************************)
\* The frame f is that of the call that reads j.
Framed(f, j) ==
  /\ f.fn = j.phrase.fn /\ f.fn # "none"
  /\ f.fn # "pointer" => f.name = j.phrase.type.name /\ f.dim = j.phrase.type.dim
  /\ j.n <= Len(j.phrase.parts)
  /\ IsSeq(f.subs) /\ Len(f.subs) = j.n
  /\ \A k \in 1..j.n : f.subs[k] = Attributes(j.phrase)[k]

\* The call of f, which reads j, waits for the one that reads i.
Inner(f, j, i) ==
  /\ j.n + 1 \in DOMAIN j.phrase.parts
  /\ i.phrase = PartJob(j, j.n + 1).phrase /\ i.at = PartJob(j, j.n + 1).at
  /\ f.fn # "pointer" => f.field = j.phrase.parts[j.n + 1].name

Pending(s, done, t, cs, jobs, m) ==
  /\ m \in Nat \ {0} /\ done + 1 \in DOMAIN s.parts
  /\ jobs[1].phrase = s.parts[done + 1].phrase /\ jobs[1].at = s.parts[done + 1].at
  /\ \A k \in 1..m : Job(t, jobs[k])
  /\ \A k \in 1..(m - 1) : Inner(cs[k], jobs[k], jobs[k + 1])
  /\ \A k \in 1..Len(cs) : Framed(cs[k], jobs[k])

\* process() is called for the last job, has done it, or is in its loop.
Calling(s, done, jobs, t, i, cs) ==
  LET j == jobs[Len(cs) + 1]
  IN  Pending(s, done, t, cs, jobs, Len(cs) + 1) /\ j.n = 0 /\ Leads(t, i, Core(j))

Returning(s, done, jobs, t, i, cs, r) ==
  LET j == jobs[Len(cs) + 1]
  IN  Pending(s, done, t, cs, jobs, Len(cs) + 1) /\ i = End(j) /\ r = j.phrase.type

Looping(s, done, jobs, t, i, cs) ==
  LET j == jobs[Len(cs)]
  IN  /\ cs # << >> /\ Pending(s, done, t, cs, jobs, Len(cs))
      /\ j.phrase.fn # "pointer" /\ i = Spot(j, From(j.phrase, j.n + 1))

\* decode_type is between two types, or at the offset behind the last one.
Ready(s, done, t, i, cs) ==
  /\ cs = << >>
  /\ i = Begins(s, done + 1) \/ (done = Len(s.parts) /\ i = Len(t) + 1)

Collected(s, done, ts) ==
  /\ done \in 0..Len(s.parts) /\ IsSeq(ts) /\ Len(ts) = KeptOf(s, done)
  /\ \A k \in 1..Len(ts) : ts[k] = s.types[k]

AtOffset(s, done, cs) == cs = << >> /\ done = Len(s.parts)

At(s, done, jobs, t, i, cs, ph, r) ==
  \/ ph = "call" /\ Calling(s, done, jobs, t, i, cs)
  \/ ph = "return" /\ Returning(s, done, jobs, t, i, cs, r)
  \/ ph = "loop" /\ (Looping(s, done, jobs, t, i, cs) \/ Ready(s, done, t, i, cs))
  \/ ph = "call" /\ AtOffset(s, done, cs) /\ Leads(t, i, Len(t) + 1)
  \/ ph = "return" /\ AtOffset(s, done, cs) /\ i = Len(t) + 1 /\ r = Null

Decodes ==
  \E s \in Signatures : \E done, jobs :
    /\ encoded = s.text /\ meant = s.types /\ Collected(s, done, types)
    /\ At(s, done, jobs, encoded, it, calls, phase, ret)

-----------------------------------------------------------------------------
LEMMA SeqFacts ==
  ASSUME NEW s, IsSeq(s)
  PROVE  /\ Len(s) \in Nat /\ DOMAIN s = 1..Len(s)
         /\ s # << >> => Len(s) \in Nat \ {0}
<1>1. s \in Seq({s[k] : k \in DOMAIN s})
  BY DEF IsSeq
<1>2. Len(s) \in Nat /\ DOMAIN s = 1..Len(s)
  BY <1>1, LenProperties
<1>3. s # << >> => Len(s) # 0
  BY <1>1, EmptySeq
<1> QED
  BY <1>2, <1>3

LEMMA AppendFacts ==
  ASSUME NEW s, IsSeq(s), NEW x
  PROVE  /\ Len(Append(s, x)) = Len(s) + 1 /\ IsSeq(Append(s, x))
         /\ \A k \in 1..Len(s) : Append(s, x)[k] = s[k]
         /\ Append(s, x)[Len(s) + 1] = x
<1> DEFINE S == {s[k] : k \in DOMAIN s} \cup {x}
           u == Append(s, x)
<1>1. s \in Seq(S)
  BY DEF IsSeq
<1>2. /\ u \in Seq(S) /\ Len(u) = Len(s) + 1
      /\ \A k \in 1..Len(s) : u[k] = s[k]
      /\ u[Len(s) + 1] = x
  BY <1>1, AppendProperties
<1> HIDE DEF S, u
<1>3. IsSeq(u)
  BY <1>2, SeqOfElements
<1> QED
  BY <1>2, <1>3 DEF u

LEMMA SetTopFacts ==
  ASSUME NEW s, IsSeq(s), s # << >>, NEW x
  PROVE  /\ Len(SetTop(s, x)) = Len(s)
         /\ \A k \in 1..Len(s) : SetTop(s, x)[k] = IF k = Len(s) THEN x ELSE s[k]
<1> DEFINE S == {s[k] : k \in DOMAIN s} \cup {x}
<1>1. s \in Seq(S) /\ Len(s) \in Nat \ {0} /\ DOMAIN s = 1..Len(s)
  BY SeqFacts DEF IsSeq
<1> HIDE DEF S
<1>2. x \in S
  BY DEF S
<1> QED
  BY <1>1, <1>2, ExceptSeq DEF SetTop

LEMMA PopFacts ==
  ASSUME NEW s, IsSeq(s), s # << >>
  PROVE  /\ Len(Pop(s)) + 1 = Len(s)
         /\ \A k \in 1..Len(Pop(s)) : Pop(s)[k] = s[k]
<1> DEFINE S == {s[k] : k \in DOMAIN s}
<1>1. s \in Seq(S) /\ Len(s) \in Nat \ {0} /\ DOMAIN s = 1..Len(s)
  BY SeqFacts DEF IsSeq
<1>2. /\ Len(Pop(s)) = Len(s) - 1
      /\ \A k \in 1..(Len(s) - 1) : Pop(s)[k] = s[k]
  <2>1. 1..(Len(s) - 1) \subseteq 1..Len(s)
    BY <1>1
  <2>2. \A n \in Nat \ {0} : n - 1 \in Nat /\ n - 1 <= n /\ 1 <= n /\ n - 1 - 1 + 1 = n - 1
    OBVIOUS
  <2> QED
    BY <1>1, <2>1, <2>2, SubSeqProperties DEF Pop
<1> HIDE DEF S
<1> QED
  BY <1>1, <1>2

\* What a frame holds when its construct closes.
LEMMA AllSubs ==
  ASSUME NEW f, NEW j, Framed(f, j), j.phrase \in Phrases, j.n = Len(j.phrase.parts)
  PROVE  f.subs = Attributes(j.phrase)
<1> DEFINE p == j.phrase
<1>1. p.fn # "none" /\ IsSeq(f.subs) /\ Len(f.subs) = j.n
      /\ \A k \in 1..j.n : f.subs[k] = Attributes(p)[k]
  BY DEF Framed
<1>2. Len(p.parts) \in Nat /\ DOMAIN p.parts = 1..Len(p.parts)
  BY <1>1, ConstructShape
<1>3. Attributes(p) = [k \in 1..Len(p.parts) |-> Attributes(p)[k]]
  BY <1>2 DEF Attributes
<1>4. f.subs = [k \in 1..Len(p.parts) |-> f.subs[k]]
  <2>1. f.subs \in Seq({f.subs[k] : k \in DOMAIN f.subs}) /\ DOMAIN f.subs = 1..Len(f.subs)
    BY <1>1, SeqFacts DEF IsSeq
  <2>2. f.subs \in [1..Len(f.subs) -> {f.subs[k] : k \in DOMAIN f.subs}]
    BY <2>1, LenProperties
  <2> QED
    BY <1>1, <2>2
<1> QED
  BY <1>1, <1>3, <1>4

-----------------------------------------------------------------------------
(***************************************************************************)
(* The calls that wait, and their jobs, when a call begins or ends.        *)
(***************************************************************************)
WithJob(jobs, m, j) == [k \in 1..m |-> IF k = m THEN j ELSE jobs[k]]
Advanced(j) == [phrase |-> j.phrase, at |-> j.at, n |-> j.n + 1]

LEMMA PendingPush ==
  ASSUME NEW s, NEW done, NEW t, NEW cs, NEW jobs, IsSeq(cs),
         Pending(s, done, t, cs, jobs, Len(cs) + 1),
         NEW g, Framed(g, jobs[Len(cs) + 1])
  PROVE  LET cs2 == Append(cs, g)
         IN  /\ Pending(s, done, t, cs2, jobs, Len(cs2)) /\ cs2 # << >> /\ IsSeq(cs2)
             /\ Len(cs2) = Len(cs) + 1 /\ cs2[Len(cs2)] = g
<1> DEFINE cs2 == Append(cs, g)
           m == Len(cs)
<1>1. m \in Nat
  BY SeqFacts
<1>2. /\ Len(cs2) = m + 1 /\ IsSeq(cs2) /\ \A k \in 1..m : cs2[k] = cs[k]
      /\ cs2[m + 1] = g
  BY AppendFacts
<1>3. cs2 # << >>
  BY <1>1, <1>2
<1>4. Pending(s, done, t, cs, jobs, m + 1) /\ Framed(g, jobs[m + 1])
  OBVIOUS
<1> HIDE DEF cs2, m
<1>5. \A k \in 1..((m + 1) - 1) : Inner(cs2[k], jobs[k], jobs[k + 1])
  <2>1. \A k \in 1..((m + 1) - 1) : k \in 1..m
    BY <1>1
  <2>2. \A k \in 1..((m + 1) - 1) : Inner(cs[k], jobs[k], jobs[k + 1])
    BY <1>4 DEF Pending
  <2> QED
    BY <1>2, <2>1, <2>2
<1>6. \A k \in 1..(m + 1) : Framed(cs2[k], jobs[k])
  <2>1. \A k \in 1..m : Framed(cs[k], jobs[k])
    BY <1>4 DEF Pending, m
  <2>2. \A k \in 1..(m + 1) : k = m + 1 \/ k \in 1..m
    BY <1>1
  <2> QED
    BY <1>2, <1>4, <2>1, <2>2
<1>7. Pending(s, done, t, cs2, jobs, m + 1)
  BY <1>2, <1>4, <1>5, <1>6 DEF Pending
<1> QED
  BY <1>2, <1>3, <1>7 DEF cs2, m

LEMMA PendingTop ==
  ASSUME NEW s, NEW done, NEW t, NEW cs, NEW jobs, IsSeq(cs), cs # << >>,
         Pending(s, done, t, cs, jobs, Len(cs)),
         NEW g, Framed(g, jobs[Len(cs)])
  PROVE  LET cs2 == SetTop(cs, g)
         IN  /\ Pending(s, done, t, cs2, jobs, Len(cs2)) /\ Len(cs2) = Len(cs)
             /\ cs2[Len(cs2)] = g
<1> DEFINE cs2 == SetTop(cs, g)
           m == Len(cs)
<1>1. m \in Nat \ {0}
  BY SeqFacts
<1>2. Len(cs2) = m /\ \A k \in 1..m : cs2[k] = IF k = m THEN g ELSE cs[k]
  BY SetTopFacts
<1>3. Pending(s, done, t, cs, jobs, m) /\ Framed(g, jobs[m])
  OBVIOUS
<1>4. \A k \in 1..m : Framed(cs[k], jobs[k])
  BY DEF Pending
<1> HIDE DEF cs2, m
<1>5. \A k \in 1..(m - 1) : Inner(cs2[k], jobs[k], jobs[k + 1])
  <2>1. \A k \in 1..(m - 1) : k \in 1..m /\ k # m
    BY <1>1
  <2>2. \A k \in 1..(m - 1) : Inner(cs[k], jobs[k], jobs[k + 1])
    BY <1>3 DEF Pending
  <2> QED
    BY <1>2, <2>1, <2>2
<1>6. \A k \in 1..m : Framed(cs2[k], jobs[k])
  BY <1>2, <1>3, <1>4
<1>7. Pending(s, done, t, cs2, jobs, m)
  BY <1>2, <1>3, <1>5, <1>6 DEF Pending
<1>8. m \in 1..m
  BY <1>1
<1> QED
  BY <1>2, <1>7, <1>8 DEF cs2, m

\* The element of the innermost call that is next becomes the last job.
LEMMA PendingFurther ==
  ASSUME NEW s, NEW done, NEW t \in Seq(STRING), NEW cs, NEW jobs, IsSeq(cs), cs # << >>,
         Pending(s, done, t, cs, jobs, Len(cs)),
         jobs[Len(cs)].n + 1 \in DOMAIN jobs[Len(cs)].phrase.parts,
         cs[Len(cs)].fn # "pointer" =>
           cs[Len(cs)].field = jobs[Len(cs)].phrase.parts[jobs[Len(cs)].n + 1].name
  PROVE  LET j == jobs[Len(cs)]
             i == PartJob(j, j.n + 1)
             jobs2 == WithJob(jobs, Len(cs) + 1, i)
         IN  /\ Pending(s, done, t, cs, jobs2, Len(cs) + 1) /\ jobs2[Len(cs) + 1] = i
             /\ Job(t, i)
<1> DEFINE m == Len(cs)
           j == jobs[m]
           i == PartJob(j, j.n + 1)
           jobs2 == WithJob(jobs, m + 1, i)
<1>1. m \in Nat \ {0}
  BY SeqFacts
<1>2. m \in 1..m
  BY <1>1
<1>3. Job(t, j) /\ Framed(cs[m], j)
  BY <1>2 DEF Pending
<1>4. Job(t, i)
  BY <1>3, PartIsJob DEF Framed
<1>5. Inner(cs[m], j, i)
  BY DEF Inner
<1>6. Pending(s, done, t, cs, jobs, m) /\ \A k \in 1..m : Framed(cs[k], jobs[k])
  BY DEF Pending
<1>7. /\ \A k \in 1..m : jobs2[k] = jobs[k]
      /\ jobs2[m + 1] = i
  <2>1. \A k \in 1..m : k \in 1..(m + 1) /\ k # m + 1
    BY <1>1
  <2>2. m + 1 \in 1..(m + 1)
    BY <1>1
  <2> QED
    BY <2>1, <2>2 DEF WithJob
<1>8. j = jobs[m]
  OBVIOUS
<1> HIDE DEF m, j, i, jobs2
<1>9. m + 1 \in Nat \ {0} /\ 1 \in 1..m /\ \A k \in 1..(m + 1) : k = m + 1 \/ k \in 1..m
  BY <1>1
<1>10. \A k \in 1..(m + 1) : Job(t, jobs2[k])
  BY <1>4, <1>6, <1>7, <1>9 DEF Pending
<1>11. \A k \in 1..((m + 1) - 1) : Inner(cs[k], jobs2[k], jobs2[k + 1])
  <2>1. SUFFICES ASSUME NEW k \in 1..m PROVE Inner(cs[k], jobs2[k], jobs2[k + 1])
    BY <1>1
  <2>2. CASE k = m
    BY <1>2, <1>5, <1>7, <1>8, <2>2
  <2>3. CASE k # m
    <3>1. k \in 1..(m - 1) /\ k + 1 \in 1..m
      BY <1>1, <2>3
    <3>2. Inner(cs[k], jobs[k], jobs[k + 1])
      BY <1>6, <3>1 DEF Pending
    <3> QED
      BY <1>7, <3>1, <3>2
  <2> QED
    BY <2>2, <2>3
<1>12. \A k \in 1..m : Framed(cs[k], jobs2[k])
  BY <1>6, <1>7
<1>13. Pending(s, done, t, cs, jobs2, m + 1)
  BY <1>6, <1>7, <1>9, <1>10, <1>11, <1>12 DEF Pending, m
<1> QED
  BY <1>4, <1>7, <1>13 DEF m, j, i, jobs2

\* The call of g has taken the element that the last job has read.
LEMMA PendingTake ==
  ASSUME NEW s, NEW done, NEW t, NEW cs, NEW jobs, IsSeq(cs), cs # << >>,
         Pending(s, done, t, cs, jobs, Len(cs) + 1),
         NEW g, Framed(g, Advanced(jobs[Len(cs)]))
  PROVE  LET cs2 == SetTop(cs, g)
             jobs2 == WithJob(jobs, Len(cs), Advanced(jobs[Len(cs)]))
         IN  /\ Pending(s, done, t, cs2, jobs2, Len(cs2)) /\ Len(cs2) = Len(cs)
             /\ cs2 # << >> /\ jobs2[Len(cs2)] = Advanced(jobs[Len(cs)])
<1> DEFINE cs2 == SetTop(cs, g)
           m == Len(cs)
           j == jobs[m]
           jobs2 == WithJob(jobs, m, Advanced(j))
<1>1. m \in Nat \ {0}
  BY SeqFacts
<1>2. Len(cs2) = m /\ \A k \in 1..m : cs2[k] = IF k = m THEN g ELSE cs[k]
  BY SetTopFacts
<1>3. Pending(s, done, t, cs, jobs, m + 1) /\ Framed(g, Advanced(j))
  OBVIOUS
<1>4. \A k \in 1..m : Framed(cs[k], jobs[k])
  BY DEF Pending
<1>5. \A k \in 1..m : jobs2[k] = IF k = m THEN Advanced(jobs[m]) ELSE jobs[k]
  BY DEF WithJob
<1>6. \A k \in 1..m : jobs2[k].phrase = jobs[k].phrase /\ jobs2[k].at = jobs[k].at
  BY <1>5 DEF Advanced
<1>7. cs2 # << >>
  BY <1>1, <1>2
<1>8. j = jobs[m]
  OBVIOUS
<1> HIDE DEF cs2, m, jobs2, j
<1>9. /\ \A k \in 1..m : k \in 1..(m + 1)
      /\ \A k \in 1..(m - 1) : k \in 1..((m + 1) - 1) /\ k \in 1..m /\ k + 1 \in 1..m /\ k # m
      /\ 1 \in 1..m /\ m \in 1..m
  BY <1>1
<1>10. \A k \in 1..m : Job(t, jobs2[k])
  <2>1. \A k \in 1..m : Job(t, jobs[k])
    BY <1>3, <1>9 DEF Pending
  <2>2. \A k \in 1..m : jobs2[k].n \in Nat
    BY <1>5, <2>1, <1>8 DEF Job, Advanced
  <2> QED
    BY <1>6, <2>1, <2>2 DEF Job
<1>11. \A k \in 1..(m - 1) : Inner(cs2[k], jobs2[k], jobs2[k + 1])
  <2>1. \A k \in 1..(m - 1) : Inner(cs[k], jobs[k], jobs[k + 1])
    BY <1>3, <1>9 DEF Pending
  <2>2. \A k \in 1..(m - 1) : cs2[k] = cs[k] /\ jobs2[k] = jobs[k]
    BY <1>2, <1>5, <1>9
  <2> QED
    BY <1>6, <1>9, <2>1, <2>2 DEF Inner
<1>12. \A k \in 1..m : Framed(cs2[k], jobs2[k])
  BY <1>2, <1>3, <1>4, <1>5, <1>8
<1>13. Pending(s, done, t, cs2, jobs2, m)
  BY <1>1, <1>2, <1>3, <1>6, <1>9, <1>10, <1>11, <1>12 DEF Pending
<1> QED
  BY <1>2, <1>5, <1>7, <1>9, <1>13 DEF cs2, m, jobs2, j

\* The innermost call has returned: its job is done.
LEMMA PendingPop ==
  ASSUME NEW s, NEW done, NEW t, NEW cs, NEW jobs, IsSeq(cs), cs # << >>,
         NEW last \in {Len(cs), Len(cs) + 1},
         Pending(s, done, t, cs, jobs, last)
  PROVE  Pending(s, done, t, Pop(cs), jobs, Len(Pop(cs)) + 1) /\ Len(Pop(cs)) + 1 = Len(cs)
<1> DEFINE cs2 == Pop(cs)
           m == Len(cs)
<1>1. m \in Nat \ {0}
  BY SeqFacts
<1>2. Len(cs2) + 1 = m /\ \A k \in 1..Len(cs2) : cs2[k] = cs[k]
  BY PopFacts
<1>3. IsSeq(cs2) /\ Len(cs2) \in Nat
  <2>1. Len(cs2) = m - 1
    <3> DEFINE S == {cs[k] : k \in DOMAIN cs}
    <3>1. cs \in Seq(S) /\ DOMAIN cs = 1..m
      BY SeqFacts DEF IsSeq
    <3>2. 1..(m - 1) \subseteq 1..m
      BY <1>1
    <3>3. \A n \in Nat \ {0} : n - 1 \in Nat /\ n - 1 <= n /\ 1 <= n /\ n - 1 - 1 + 1 = n - 1
      OBVIOUS
    <3> QED
      BY <1>1, <3>1, <3>2, <3>3, SubSeqProperties DEF Pop
  <2>2. IsSeq(cs2)
    <3> DEFINE S == {cs[k] : k \in DOMAIN cs}
    <3>1. cs \in Seq(S) /\ DOMAIN cs = 1..m
      BY SeqFacts DEF IsSeq
    <3>2. 1..(m - 1) \subseteq 1..m
      BY <1>1
    <3>3. cs2 \in Seq(S)
      BY <1>1, <3>1, <3>2, SubSeqProperties DEF Pop
    <3> HIDE DEF cs2, S
    <3> QED
      BY <3>3, SeqOfElements
  <2> QED
    BY <2>2, SeqFacts
<1>4. \A k \in 1..m : Framed(cs[k], jobs[k])
  BY DEF Pending
<1>5. Pending(s, done, t, cs, jobs, last) /\ last \in {m, m + 1}
  OBVIOUS
<1> HIDE DEF cs2, m
<1>6. Len(cs2) = m - 1
  BY <1>1, <1>2, <1>3
<1>7. /\ \A k \in 1..m : k \in 1..last
      /\ \A k \in 1..(m - 1) : k \in 1..(last - 1) /\ k \in 1..m /\ k \in 1..Len(cs2)
      /\ \A k \in 1..Len(cs2) : k \in 1..m
  BY <1>1, <1>5, <1>6
<1>8. \A k \in 1..m : Job(t, jobs[k])
  BY <1>5, <1>7 DEF Pending
<1>9. \A k \in 1..(m - 1) : Inner(cs2[k], jobs[k], jobs[k + 1])
  <2>1. \A k \in 1..(last - 1) : Inner(cs[k], jobs[k], jobs[k + 1])
    BY <1>5 DEF Pending
  <2> QED
    BY <1>2, <1>7, <2>1
<1>10. \A k \in 1..Len(cs2) : Framed(cs2[k], jobs[k])
  BY <1>2, <1>4, <1>7
<1>11. Pending(s, done, t, cs2, jobs, m)
  BY <1>1, <1>5, <1>8, <1>9, <1>10 DEF Pending
<1> QED
  BY <1>2, <1>11 DEF cs2, m

-----------------------------------------------------------------------------
(***************************************************************************)
(* The steps of process(), in a signature.                                 *)
(***************************************************************************)
LEMMA InString ==
  ASSUME TypeOK
  PROVE  /\ encoded \in Seq(STRING) /\ it \in Nat /\ 1 <= it /\ IsSeq(calls)
         /\ Len(calls) \in Nat /\ Len(encoded) \in Nat /\ DOMAIN encoded = 1..Len(encoded)
<1>1. encoded \in Seq(STRING) /\ it \in 1..(Len(encoded) + 1) /\ IsSeq(calls)
  BY DEF TypeOK, IsSeq
<1>2. Len(encoded) \in Nat /\ DOMAIN encoded = 1..Len(encoded)
  BY <1>1, LenProperties
<1> QED
  BY <1>1, <1>2, SeqFacts

LEMMA NewFrame ==
  ASSUME NEW j, j.phrase \in Phrases, j.phrase.fn # "none", j.n = 0, NEW at, NEW name, NEW dim,
         j.phrase.fn # "pointer" => name = j.phrase.type.name /\ dim = j.phrase.type.dim
  PROVE  Framed(Frame(j.phrase.fn, at, name, dim), j)
<1> DEFINE f == Frame(j.phrase.fn, at, name, dim)
<1>1. Len(j.phrase.parts) \in Nat
  BY ConstructShape
<1>2. /\ f.fn = j.phrase.fn /\ f.name = name /\ f.dim = dim /\ f.subs = << >>
  BY DEF Frame
<1>3. IsSeq(<< >>) /\ Len(<< >>) = 0
  BY DEF IsSeq
<1> HIDE DEF f
<1>4. \A k \in 1..j.n : FALSE
  OBVIOUS
<1> QED
  BY <1>1, <1>2, <1>3, <1>4 DEF Framed, f

LEMMA PointerPart ==
  ASSUME NEW p \in Phrases, p.fn \in {"pointer", "array"}
  PROVE  Len(p.parts) = 1 /\ DOMAIN p.parts = 1..1 /\ p.parts[1].name = << >>
<1>1. p.fn # "none"
  OBVIOUS
<1>2. DOMAIN p.parts = 1..Len(p.parts) /\ (IsPointer(p) \/ IsArray(p) \/ IsRecord(p))
  BY <1>1, ConstructShape
<1>3. OnePart(p)
  BY <1>2 DEF IsPointer, IsArray, IsRecord
<1> QED
  BY <1>2, <1>3 DEF OnePart

LEMMA CallStep ==
  ASSUME TypeOK, ShortSizes, Next, phase = "call", NEW s, NEW done, NEW jobs,
         Calling(s, done, jobs, encoded, it, calls)
  PROVE  /\ \E jobs2 : At(s, done, jobs2, encoded, it', calls', phase', ret')
         /\ UNCHANGED <<encoded, types>>
<1> DEFINE j == jobs[Len(calls) + 1]
           p == j.phrase
<1>1. /\ encoded \in Seq(STRING) /\ it \in Nat /\ 1 <= it /\ IsSeq(calls) /\ Len(calls) \in Nat
  BY InString
<1>2. Pending(s, done, encoded, calls, jobs, Len(calls) + 1) /\ j.n = 0
      /\ Leads(encoded, it, Core(j))
  BY DEF Calling
<1>3. Len(calls) + 1 \in 1..(Len(calls) + 1)
  BY <1>1
<1>4. Job(encoded, j) /\ p \in Phrases
  BY <1>2, <1>3 DEF Pending, Job
<1>5. TypeAt = Core(j)
  BY <1>1, <1>2, TypeAtIs
<1>6. Processing
  BY DEF Next, Processing, NextElement, TakeElement, CloseElements, UnclosedElements,
         PointTo, NextType, TakeType, InLoop
<1>7. ASSUME Return(End(j), p.type)
      PROVE  /\ \E jobs2 : At(s, done, jobs2, encoded, it', calls', phase', ret')
             /\ UNCHANGED <<encoded, types>>
  <2>1. phase' = "return" /\ it' = End(j) /\ ret' = p.type /\ calls' = calls
        /\ UNCHANGED <<encoded, types>>
    BY <1>7 DEF Return
  <2>2. Returning(s, done, jobs, encoded, it', calls', ret')
    BY <1>2, <2>1 DEF Returning
  <2> QED
    BY <2>1, <2>2 DEF At
<1>8. ASSUME p.fn # "none", NEW at, NEW name, NEW dim, NEW next,
             p.fn # "pointer" => name = p.type.name /\ dim = p.type.dim,
             Enter(Frame(p.fn, at, name, dim), Spot(j, From(p, 1)), next)
      PROVE  /\ Pending(s, done, encoded, calls', jobs, Len(calls'))
             /\ calls' # << >> /\ IsSeq(calls') /\ Len(calls') = Len(calls) + 1
             /\ calls'[Len(calls')].fn = p.fn
             /\ phase' = next /\ it' = Spot(j, From(p, 1)) /\ UNCHANGED <<encoded, types>>
  <2>1. /\ calls' = Append(calls, Frame(p.fn, at, name, dim))
        /\ phase' = next /\ it' = Spot(j, From(p, 1)) /\ UNCHANGED <<encoded, types>>
    BY <1>8 DEF Enter
  <2>2. Framed(Frame(p.fn, at, name, dim), j)
    BY <1>2, <1>4, <1>8, NewFrame
  <2>3. Frame(p.fn, at, name, dim).fn = p.fn
    BY DEF Frame
  <2> QED
    BY <1>1, <1>2, <2>1, <2>2, <2>3, PendingPush
<1>9. CASE p.fn = "none"
  <2>1. Return(End(j), p.type)
    BY <1>1, <1>4, <1>5, <1>6, <1>9, ReadSimple
  <2> QED
    BY <1>7, <2>1
<1>10. ASSUME p.fn # "none", p.fn # "pointer",
              Enter(Frame(p.fn, TypeAt, p.type.name, p.type.dim), Spot(j, From(p, 1)), "loop")
       PROVE  /\ \E jobs2 : At(s, done, jobs2, encoded, it', calls', phase', ret')
              /\ UNCHANGED <<encoded, types>>
  <2>1. /\ Pending(s, done, encoded, calls', jobs, Len(calls'))
        /\ calls' # << >> /\ IsSeq(calls') /\ Len(calls') = Len(calls) + 1
        /\ phase' = "loop" /\ it' = Spot(j, From(p, 1)) /\ UNCHANGED <<encoded, types>>
    BY <1>8, <1>10
  <2>2. j.n + 1 = 1
    BY <1>2
  <2>3. jobs[Len(calls')] = j
    BY <2>1
  <2>4. Looping(s, done, jobs, encoded, it', calls')
    BY <1>10, <2>1, <2>2, <2>3 DEF Looping
  <2> QED
    BY <2>1, <2>4 DEF At
<1>11. CASE p.fn = "array"
  <2>1. Enter(Frame("array", TypeAt, p.type.name, p.type.dim), Spot(j, From(p, 1)), "loop")
    BY <1>1, <1>4, <1>5, <1>6, <1>11, ReadArray
  <2> QED
    BY <1>10, <1>11, <2>1
<1>12. CASE p.fn \in RecordFns
  <2>1. IF p.parts = << >> THEN Return(End(j), p.type)
        ELSE Enter(Frame(p.fn, TypeAt, p.type.name, p.type.dim), Spot(j, From(p, 1)), "loop")
    BY <1>1, <1>4, <1>5, <1>6, <1>12, ReadRecord
  <2>2. p.fn # "none" /\ p.fn # "pointer"
    BY <1>12 DEF RecordFns
  <2> QED
    BY <1>7, <1>10, <2>1, <2>2
<1>13. CASE p.fn = "pointer"
  <2>1. Enter(Frame(p.fn, TypeAt, << >>, 0), Spot(j, From(p, 1)), "call")
    BY <1>1, <1>4, <1>5, <1>6, <1>13, ReadPointer
  <2>2. /\ Pending(s, done, encoded, calls', jobs, Len(calls'))
        /\ calls' # << >> /\ IsSeq(calls') /\ Len(calls') = Len(calls) + 1
        /\ calls'[Len(calls')].fn = p.fn
        /\ phase' = "call" /\ it' = Spot(j, From(p, 1)) /\ UNCHANGED <<encoded, types>>
    BY <1>8, <1>13, <2>1
  <2>3. DOMAIN p.parts = 1..1 /\ p.parts[1].name = << >> /\ p.fn # "none"
    BY <1>4, <1>13, PointerPart
  <2>4. j.n + 1 = 1 /\ 1 \in DOMAIN p.parts
    BY <1>2, <2>3
  <2>5. jobs[Len(calls')] = j
    BY <2>2
  <2> DEFINE i == PartJob(j, 1)
             jobs2 == WithJob(jobs, Len(calls') + 1, i)
  <2>6. /\ Pending(s, done, encoded, calls', jobs2, Len(calls') + 1)
        /\ jobs2[Len(calls') + 1] = i /\ Job(encoded, i)
    BY <1>1, <1>13, <2>2, <2>4, <2>5, PendingFurther
  <2>7. i.n = 0 /\ i.at = Spot(j, p.parts[1].at)
    BY DEF PartJob
  <2>8. p.parts[1].at = From(p, 1)
    <3>1. IsPointer(p)
      BY <1>4, <1>13, <2>3, ConstructShape DEF IsArray, IsRecord
    <3> QED
      BY <2>4, <3>1 DEF IsPointer, OnePart, From
  <2>9. Leads(encoded, it', Core(i))
    <3>1. it' = i.at
      BY <2>2, <2>7, <2>8
    <3>2. i.at \in Nat /\ i.at <= i.at /\ \A k \in i.at..(i.at - 1) : FALSE
      BY <2>6 DEF Job
    <3> HIDE DEF i
    <3> QED
      BY <1>1, <2>6, <3>1, <3>2, JobLeads
  <2>10. Calling(s, done, jobs2, encoded, it', calls')
    <3> HIDE DEF i, jobs2
    <3> QED
      BY <2>6, <2>7, <2>9 DEF Calling
  <2> QED
    BY <2>2, <2>10 DEF At
<1>14. p.fn = "none" \/ p.fn \in Fns
  BY <1>4, ConstructShape
<1> QED
  BY <1>9, <1>11, <1>12, <1>13, <1>14 DEF Fns, Opening, RecordFns

LEMMA ConcatFacts ==
  ASSUME NEW s, IsSeq(s), NEW x
  PROVE  /\ IsSeq(s \o <<x>>) /\ Len(s \o <<x>>) = Len(s) + 1
         /\ \A k \in 1..Len(s) : (s \o <<x>>)[k] = s[k]
         /\ (s \o <<x>>)[Len(s) + 1] = x
<1> DEFINE S == {s[k] : k \in DOMAIN s} \cup {x}
           u == s \o <<x>>
<1>1. s \in Seq(S) /\ <<x>> \in Seq(S) /\ Len(<<x>>) = 1 /\ <<x>>[1] = x
  BY DEF IsSeq
<1>2. Len(s) \in Nat
  BY SeqFacts
<1> HIDE DEF S
<1>3. /\ u \in Seq(S) /\ Len(u) = Len(s) + 1
      /\ \A k \in 1..(Len(s) + 1) : u[k] = IF k <= Len(s) THEN s[k] ELSE <<x>>[k - Len(s)]
  BY <1>1, ConcatProperties
<1>4. \A n \in Nat : /\ n + 1 \in 1..(n + 1) /\ ~ (n + 1 <= n) /\ (n + 1) - n = 1
                     /\ \A k \in 1..n : k \in 1..(n + 1) /\ k <= n
  OBVIOUS
<1> HIDE DEF u
<1>5. IsSeq(u)
  BY <1>3, SeqOfElements
<1>6. u[Len(s) + 1] = x /\ \A k \in 1..Len(s) : u[k] = s[k]
  BY <1>1, <1>2, <1>3, <1>4
<1> QED
  BY <1>3, <1>5, <1>6 DEF u

\* The frame of a call that has taken an element.
LEMMA TakenFrame ==
  ASSUME NEW f, NEW j, Framed(f, j), j.phrase \in Phrases, j.n \in Nat,
         f = [fn |-> f.fn, at |-> f.at, name |-> f.name, dim |-> f.dim,
              field |-> f.field, subs |-> f.subs],
         f.fn # "pointer", j.n + 1 \in DOMAIN j.phrase.parts,
         NEW a, a = Attributes(j.phrase)[j.n + 1]
  PROVE  Framed([f EXCEPT !.subs = IF f.fn = "array" THEN <<a>> ELSE @ \o <<a>>], Advanced(j))
<1> DEFINE subs == IF f.fn = "array" THEN <<a>> ELSE f.subs \o <<a>>
           g == [f EXCEPT !.subs = subs]
           p == j.phrase
           h == Advanced(j)
<1>1. /\ f.fn = p.fn /\ f.fn # "none" /\ IsSeq(f.subs) /\ Len(f.subs) = j.n
      /\ f.name = p.type.name /\ f.dim = p.type.dim
      /\ \A k \in 1..j.n : f.subs[k] = Attributes(p)[k]
  BY DEF Framed
<1>2. DOMAIN p.parts = 1..Len(p.parts) /\ Len(p.parts) \in Nat
  BY <1>1, ConstructShape
<1>3. j.n + 1 <= Len(p.parts)
  BY <1>2
<1>4. /\ IsSeq(subs) /\ Len(subs) = j.n + 1
      /\ \A k \in 1..(j.n + 1) : subs[k] = Attributes(p)[k]
  <2>1. CASE f.fn = "array"
    <3>1. DOMAIN p.parts = 1..1
      BY <1>1, <2>1, PointerPart
    <3>2. j.n = 0
      BY <3>1
    <3>3. subs = <<a>>
      BY <2>1
    <3>4. IsSeq(<<a>>) /\ Len(<<a>>) = 1 /\ <<a>>[1] = a
      BY DEF IsSeq
    <3> HIDE DEF subs
    <3>5. \A k \in 1..(j.n + 1) : k = 1
      BY <3>2
    <3>6. j.n + 1 = 1
      BY <3>2
    <3> QED
      BY <3>3, <3>4, <3>5, <3>6
  <2>2. CASE f.fn # "array"
    <3>1. subs = f.subs \o <<a>>
      BY <2>2
    <3>2. /\ IsSeq(subs) /\ Len(subs) = j.n + 1 /\ subs[j.n + 1] = a
          /\ \A k \in 1..j.n : subs[k] = f.subs[k]
      <4>1. /\ IsSeq(f.subs \o <<a>>) /\ Len(f.subs \o <<a>>) = Len(f.subs) + 1
            /\ \A k \in 1..Len(f.subs) : (f.subs \o <<a>>)[k] = f.subs[k]
            /\ (f.subs \o <<a>>)[Len(f.subs) + 1] = a
        <5> DEFINE u == f.subs
        <5>1. IsSeq(u)
          BY <1>1
        <5> HIDE DEF u
        <5>2. /\ IsSeq(u \o <<a>>) /\ Len(u \o <<a>>) = Len(u) + 1
              /\ \A k \in 1..Len(u) : (u \o <<a>>)[k] = u[k]
              /\ (u \o <<a>>)[Len(u) + 1] = a
          BY <5>1, ConcatFacts
        <5> QED
          BY Zenon, <5>2 DEF u
      <4> HIDE DEF subs
      <4> QED
        BY Zenon, <1>1, <3>1, <4>1
    <3> HIDE DEF subs
    <3>3. \A k \in 1..(j.n + 1) : k = j.n + 1 \/ k \in 1..j.n
      OBVIOUS
    <3> QED
      BY <1>1, <3>2, <3>3
  <2> QED
    BY <2>1, <2>2
<1>5. /\ g.fn = f.fn /\ g.name = f.name /\ g.dim = f.dim /\ g.subs = subs
  <2> HIDE DEF subs
  <2> QED
    OBVIOUS
<1>6. h.phrase = p /\ h.n = j.n + 1
  BY DEF Advanced
<1>7. [f EXCEPT !.subs = IF f.fn = "array" THEN <<a>> ELSE @ \o <<a>>] = g
  OBVIOUS
<1> HIDE DEF g, h, subs, p
<1>8. Framed(g, h)
  BY <1>1, <1>3, <1>4, <1>5, <1>6 DEF Framed
<1> QED
  BY <1>7, <1>8 DEF h

LEMMA TakeStep ==
  ASSUME TypeOK, TakeElement, NEW s, NEW done, NEW jobs,
         Returning(s, done, jobs, encoded, it, calls, ret)
  PROVE  \E jobs2 : At(s, done, jobs2, encoded, it', calls', phase', ret')
<1> DEFINE m == Len(calls)
           j == jobs[m]
           i == jobs[m + 1]
           n == j.n
           p == j.phrase
           a == Attr(Top.field, ret)
           g == [Top EXCEPT !.subs = IF Top.fn = "array" THEN <<a>> ELSE @ \o <<a>>]
           jobs2 == WithJob(jobs, m, Advanced(j))
<1>1. /\ encoded \in Seq(STRING) /\ IsSeq(calls) /\ calls # << >> /\ m \in Nat \ {0}
      /\ DOMAIN calls = 1..m
  BY InString, SeqFacts DEF TakeElement
<1>2. m \in 1..m /\ m \in 1..(m + 1) /\ m \in 1..((m + 1) - 1) /\ m \in DOMAIN calls
  BY <1>1
<1>3. /\ Pending(s, done, encoded, calls, jobs, m + 1) /\ it = End(i)
      /\ ret = i.phrase.type
  BY DEF Returning
<1>4. Framed(Top, j) /\ Inner(Top, j, i) /\ Job(encoded, j)
  BY <1>2, <1>3 DEF Pending, Top, Depth
<1>5. Top = [fn |-> Top.fn, at |-> Top.at, name |-> Top.name, dim |-> Top.dim,
             field |-> Top.field, subs |-> Top.subs]
  BY <1>2 DEF TypeOK, FrameOK, Top, Depth
<1>6. /\ Top.fn # "pointer" /\ phase' = "loop" /\ it' = it /\ calls' = SetTop(calls, g)
  BY DEF TakeElement
<1>7. /\ n + 1 \in DOMAIN p.parts /\ p \in Phrases /\ n \in Nat
      /\ i.phrase = p.parts[n + 1].phrase /\ i.at = PartJob(j, n + 1).at
      /\ Top.field = p.parts[n + 1].name
  BY <1>4, <1>6 DEF Inner, PartJob, Job
<1>8. a = Attributes(p)[n + 1]
  BY <1>3, <1>7 DEF Attributes
<1>9. Framed(g, Advanced(j))
  BY <1>4, <1>5, <1>6, <1>7, <1>8, TakenFrame
<1>10. p.fn = Top.fn /\ p.fn # "none"
  BY <1>4 DEF Framed
<1>11. End(i) = Spot(j, From(p, n + 1 + 1))
  <2>1. End(PartJob(j, n + 1)) = Spot(j, From(p, n + 1 + 1))
    BY <1>1, <1>4, <1>7, <1>10, PartIsJob
  <2>2. End(i) = End(PartJob(j, n + 1))
    BY <1>7 DEF End, PartJob
  <2> QED
    BY <2>1, <2>2
<1> HIDE DEF g
<1>12. /\ Pending(s, done, encoded, calls', jobs2, Len(calls')) /\ Len(calls') = m
       /\ calls' # << >> /\ jobs2[Len(calls')] = Advanced(j)
  BY <1>1, <1>3, <1>6, <1>9, PendingTake
<1>13. /\ Advanced(j).phrase = p /\ Advanced(j).n = n + 1
       /\ \A k : Spot(Advanced(j), k) = Spot(j, k)
  BY DEF Advanced, Spot, Core
<1> HIDE DEF jobs2
<1>14. Looping(s, done, jobs2, encoded, it', calls')
  BY <1>3, <1>6, <1>10, <1>11, <1>12, <1>13 DEF Looping
<1> QED
  BY <1>6, <1>14 DEF At

LEMMA PointStep ==
  ASSUME TypeOK, PointTo, NEW s, NEW done, NEW jobs,
         Returning(s, done, jobs, encoded, it, calls, ret)
  PROVE  \E jobs2 : At(s, done, jobs2, encoded, it', calls', phase', ret')
<1> DEFINE m == Len(calls)
           j == jobs[m]
           i == jobs[m + 1]
           p == j.phrase
<1>1. /\ encoded \in Seq(STRING) /\ IsSeq(calls) /\ calls # << >> /\ m \in Nat \ {0}
  BY InString, SeqFacts DEF PointTo
<1>2. m \in 1..m /\ m \in 1..(m + 1) /\ m \in 1..((m + 1) - 1)
  BY <1>1
<1>3. /\ Pending(s, done, encoded, calls, jobs, m + 1) /\ it = End(i)
      /\ ret = i.phrase.type
  BY DEF Returning
<1>4. Framed(Top, j) /\ Inner(Top, j, i) /\ Job(encoded, j)
  BY <1>2, <1>3 DEF Pending, Top, Depth
<1>5. /\ Top.fn = "pointer" /\ phase' = "return" /\ it' = it /\ calls' = Pop(calls)
      /\ ret' = IF ret = Null THEN Null ELSE Pointer(ret)
  BY DEF PointTo, Leave
<1>6. p \in Phrases /\ p.fn = "pointer" /\ j.n \in Nat
  BY <1>4, <1>5 DEF Framed, Job
<1>7. DOMAIN p.parts = 1..1
  BY <1>6, PointerPart
<1>8. IsPointer(p)
  BY <1>6, ConstructShape DEF IsArray, IsRecord
<1>9. j.n + 1 \in 1..1
  BY <1>4, <1>7 DEF Inner
<1>10. j.n + 1 = 1 /\ 1 \in DOMAIN p.parts
  BY <1>6, <1>7, <1>9
<1>11. i.phrase = p.parts[1].phrase /\ i.at = PartJob(j, 1).at
  BY <1>4, <1>10 DEF Inner, PartJob
<1>12. ret' = p.type
  BY <1>3, <1>5, <1>8, <1>11 DEF IsPointer
<1>13. it' = End(j)
  <2>1. End(PartJob(j, 1)) = Spot(j, From(p, 1 + 1))
    BY <1>1, <1>4, <1>6, <1>10, PartIsJob
  <2>2. End(i) = End(PartJob(j, 1))
    BY <1>11 DEF End, PartJob
  <2>3. From(p, 1 + 1) = Len(p.text) + 1
    BY <1>6, <1>7 DEF From, Close
  <2>4. End(j) = Core(j) + Len(p.text) /\ Core(j) \in Nat /\ Len(p.text) \in Nat
    BY <1>1, <1>4, <1>6, JobText, PhraseShape
  <2>5. Spot(j, Len(p.text) + 1) = End(j)
    BY <2>4 DEF Spot
  <2> QED
    BY <1>3, <1>5, <2>1, <2>2, <2>3, <2>5
<1>14. Pending(s, done, encoded, calls', jobs, Len(calls') + 1) /\ Len(calls') + 1 = m
  BY <1>1, <1>3, <1>5, PendingPop
<1>15. Returning(s, done, jobs, encoded, it', calls', ret')
  BY <1>12, <1>13, <1>14 DEF Returning
<1> QED
  BY <1>5, <1>15 DEF At

LEMMA ClosingMark ==
  \A fn \in Fns : fn # "pointer" => Closing[fn] \in Marks \ {Quote}
<1> SUFFICES ASSUME NEW fn \in {"array", "struct", "union"}
             PROVE  Closing[fn] \in Marks \ {Quote}
  BY DEF Fns, Opening
<1>1. CASE fn = "array"
  BY <1>1 DEF Closing, Marks, Quote
<1>2. CASE fn = "struct"
  BY <1>2 DEF Closing, Marks, Quote
<1>3. CASE fn = "union"
  BY <1>3 DEF Closing, Marks, Quote
<1> QED
  BY <1>1, <1>2, <1>3

\* The loop over the elements of a construct, at the next element.
LEMMA ElementStep ==
  ASSUME TypeOK, NextElement, NEW s, NEW done, NEW jobs,
         Looping(s, done, jobs, encoded, it, calls),
         jobs[Len(calls)].n + 1 \in DOMAIN jobs[Len(calls)].phrase.parts
  PROVE  \E jobs2 : At(s, done, jobs2, encoded, it', calls', phase', ret')
<1> DEFINE m == Len(calls)
           j == jobs[m]
           n == j.n
           p == j.phrase
           part == p.parts[n + 1]
           i == PartJob(j, n + 1)
           g == [Top EXCEPT !.field = part.name]
           jobs2 == WithJob(jobs, m + 1, i)
<1>1. /\ encoded \in Seq(STRING) /\ IsSeq(calls) /\ calls # << >> /\ m \in Nat \ {0}
      /\ DOMAIN calls = 1..m
  BY InString, SeqFacts DEF NextElement, InLoop
<1>2. m \in 1..m /\ m \in DOMAIN calls
  BY <1>1
<1>3. /\ Pending(s, done, encoded, calls, jobs, m)
      /\ p.fn # "pointer" /\ it = Spot(j, From(p, n + 1))
  BY DEF Looping
<1>4. Framed(Top, j) /\ Job(encoded, j)
  BY <1>2, <1>3 DEF Pending, Top, Depth
<1>5. Top = [fn |-> Top.fn, at |-> Top.at, name |-> Top.name, dim |-> Top.dim,
             field |-> Top.field, subs |-> Top.subs]
  BY <1>2 DEF TypeOK, FrameOK, Top, Depth
<1>6. p \in Phrases /\ p.fn # "none" /\ Top.fn = p.fn /\ n + 1 \in DOMAIN p.parts
  BY <1>4 DEF Framed, Job
<1>7. /\ From(p, n + 1) \in DOMAIN p.text
      /\ p.text[From(p, n + 1)] = Quote =>
           /\ Quoted(part.name, p.text, From(p, n + 1))
           /\ part.at = From(p, n + 1) + Len(part.name) + 2
      /\ p.text[From(p, n + 1)] # Quote =>
           part.name = << >> /\ part.at = From(p, n + 1)
  BY <1>6, ElementBegins
<1>8. it \in Nat \ {0} /\ Has(encoded, it, p.text[From(p, n + 1)])
  BY <1>1, <1>3, <1>4, <1>7, SpotHas
<1>9. Core(j) \in Nat \ {0} /\ Occurs(p.text, encoded, Core(j))
  BY <1>1, <1>4, JobText
<1>10. From(p, n + 1) \in Nat \ {0} /\ DOMAIN p.text \subseteq Nat \ {0}
  BY <1>6, <1>7, TextDomain
<1>11. ASSUME p.fn = "array"
       PROVE  it' = Spot(j, part.at) /\ calls' = SetTop(calls, g) /\ phase' = "call"
  <2>1. IsArray(p) /\ n + 1 \in 1..1
    BY <1>6, <1>11, ConstructShape, PointerPart DEF IsPointer, IsRecord
  <2>2. n + 1 = 1
    BY <2>1
  <2>3. part.name = << >> /\ part.at = From(p, n + 1)
    BY <1>6, <2>1, <2>2 DEF IsArray, OnePart, From
  <2>4. it' = it /\ calls' = SetTop(calls, [Top EXCEPT !.field = << >>]) /\ phase' = "call"
    BY <1>6, <1>11 DEF NextElement
  <2> QED
    <3>1. it' = Spot(j, part.at) /\ calls' = SetTop(calls, g)
      BY <1>3, <2>3, <2>4
    <3> QED
      BY <3>1, <2>4
<1>12. it' = Spot(j, part.at) /\ calls' = SetTop(calls, g) /\ phase' = "call"
  <2>1. CASE p.fn = "array"
    BY <1>11, <2>1
  <2>2. CASE p.fn # "array"
    <3>1. /\ it' = NameAfter(it) /\ phase' = "call"
          /\ calls' = SetTop(calls, [Top EXCEPT !.field = OptName(it)])
      BY <1>6, <2>2 DEF NextElement
    <3>2. NameAfter(it) = Spot(j, part.at) /\ OptName(it) = part.name
      <4>1. CASE p.text[From(p, n + 1)] = Quote
        <5>1. Quoted(part.name, encoded, From(p, n + 1) + Core(j) - 1)
          BY <1>7, <1>9, <1>10, <4>1, QuotedIn
        <5>2. From(p, n + 1) + Core(j) - 1 = it
          BY <1>3, <1>9, <1>10 DEF Spot
        <5>3. NameAfter(it) = it + Len(part.name) + 2 /\ OptName(it) = part.name
          BY <1>1, <1>8, <5>1, <5>2, ReadQuoted
        <5>4. Len(part.name) \in Nat
          BY <1>7, <4>1, LenProperties DEF Quoted
        <5>5. it + Len(part.name) + 2 = Spot(j, part.at)
          <6>1. \A c, k \in Nat \ {0} : \A l \in Nat : (c + k - 1) + l + 2 = c + (k + l + 2) - 1
            OBVIOUS
          <6>2. it = Core(j) + From(p, n + 1) - 1
            BY <1>3 DEF Spot
          <6>3. Spot(j, part.at) = Core(j) + (From(p, n + 1) + Len(part.name) + 2) - 1
            BY <1>7, <4>1 DEF Spot
          <6> QED
            BY Zenon, <1>9, <1>10, <5>4, <6>1, <6>2, <6>3
        <5> QED
          BY <5>3, <5>5
      <4>2. CASE p.text[From(p, n + 1)] # Quote
        <5>1. ~ Is(it, Quote)
          BY <1>1, <1>8, <4>2, IsHas DEF Has
        <5> QED
          BY <1>3, <1>7, <4>2, <5>1, ReadUnquoted
      <4> QED
        BY <4>1, <4>2
    <3> QED
      BY <3>1, <3>2
  <2> QED
    BY <2>1, <2>2
<1>13. /\ g.fn = Top.fn /\ g.name = Top.name /\ g.dim = Top.dim /\ g.subs = Top.subs
       /\ g.field = part.name
  <2> HIDE DEF part
  <2> QED
    BY <1>5
<1> HIDE DEF g
<1>14. Framed(g, j)
  BY <1>4, <1>13 DEF Framed
<1>15. /\ Pending(s, done, encoded, calls', jobs, Len(calls')) /\ Len(calls') = m
       /\ calls'[Len(calls')] = g
  BY <1>1, <1>3, <1>12, <1>14, PendingTop
<1>16. IsSeq(calls') /\ calls' # << >>
  <2> DEFINE S == {calls[k] : k \in DOMAIN calls} \cup {g}
  <2>1. calls \in Seq(S) /\ g \in S
    BY <1>1 DEF IsSeq
  <2> HIDE DEF S
  <2>2. SetTop(calls, g) \in Seq(S)
    BY <1>1, <1>2, <2>1, ExceptSeq DEF SetTop
  <2>3. IsSeq(SetTop(calls, g))
    BY <2>2, SeqOfElements
  <2>4. Len(<< >>) = 0
    OBVIOUS
  <2> QED
    BY <1>1, <1>12, <1>15, <2>3, <2>4
<1>17. /\ Pending(s, done, encoded, calls', jobs2, Len(calls') + 1)
       /\ jobs2[Len(calls') + 1] = i /\ Job(encoded, i)
  <2>1. jobs[Len(calls')] = j
    BY <1>15
  <2>2. calls'[Len(calls')].field = p.parts[j.n + 1].name
    BY <1>13, <1>15
  <2>3. WithJob(jobs, Len(calls') + 1, PartJob(j, j.n + 1)) = jobs2
    BY <1>15
  <2> HIDE DEF j, jobs2, i, n, m
  <2>4. PartJob(j, j.n + 1) = i
    BY DEF i, n
  <2>5. j.n + 1 \in DOMAIN j.phrase.parts
    BY DEF j, m
  <2> QED
    BY <1>1, <1>15, <1>16, <2>1, <2>2, <2>3, <2>4, <2>5, PendingFurther
<1>18. i.n = 0 /\ i.at = Spot(j, part.at)
  BY DEF PartJob
<1>19. Leads(encoded, it', Core(i))
  <2>1. i.at \in Nat /\ i.at <= i.at /\ \A k \in i.at..(i.at - 1) : FALSE
    BY <1>17 DEF Job
  <2> HIDE DEF i
  <2> QED
    BY <1>1, <1>12, <1>17, <1>18, <2>1, JobLeads
<1>20. Calling(s, done, jobs2, encoded, it', calls')
  <2> HIDE DEF i, jobs2
  <2> QED
    BY <1>17, <1>18, <1>19 DEF Calling
<1> QED
  BY <1>12, <1>20 DEF At

\* Behind the last element the construct closes.
LEMMA CloseStep ==
  ASSUME TypeOK, CloseElements, NEW s, NEW done, NEW jobs,
         Looping(s, done, jobs, encoded, it, calls),
         jobs[Len(calls)].n = Len(jobs[Len(calls)].phrase.parts)
  PROVE  \E jobs2 : At(s, done, jobs2, encoded, it', calls', phase', ret')
<1> DEFINE m == Len(calls)
           j == jobs[m]
           p == j.phrase
<1>1. /\ encoded \in Seq(STRING) /\ IsSeq(calls) /\ calls # << >> /\ m \in Nat \ {0}
  BY InString, SeqFacts DEF CloseElements, InLoop
<1>2. m \in 1..m
  BY <1>1
<1>3. /\ Pending(s, done, encoded, calls, jobs, m)
      /\ p.fn # "pointer" /\ it = Spot(j, From(p, j.n + 1))
  BY DEF Looping
<1>4. Framed(Top, j) /\ Job(encoded, j)
  BY <1>2, <1>3 DEF Pending, Top, Depth
<1>5. /\ p \in Phrases /\ p.fn # "none" /\ Top.fn = p.fn /\ Len(Top.subs) = j.n
      /\ Top.name = p.type.name /\ Top.dim = p.type.dim
  BY <1>3, <1>4 DEF Framed, Job
<1>6. /\ phase' = "return" /\ it' = it + 1 /\ calls' = Pop(calls)
      /\ ret' = IF Top.fn = "array" /\ Top.subs = << >> THEN Array(Top.dim, Null)
                ELSE Ty(Top.fn, Top.name, Top.dim, Top.subs)
  BY DEF CloseElements, Leave
<1>7. Top.subs = Attributes(p)
  BY <1>4, <1>5, AllSubs
<1>8. ~ (Top.fn = "array" /\ Top.subs = << >>)
  <2>1. SUFFICES ASSUME Top.fn = "array", Top.subs = << >> PROVE FALSE
    OBVIOUS
  <2>2. Len(p.parts) = 1
    BY <1>5, <2>1, PointerPart
  <2>3. Len(Top.subs) = 0
    <3>1. Len(<< >>) = 0
      OBVIOUS
    <3> QED
      BY ONLY <2>1, <3>1
  <2> HIDE DEF j, p
  <2>4. Len(Top.subs) = Len(p.parts)
    BY <1>5 DEF j, p
  <2> QED
    BY ONLY <2>2, <2>3, <2>4
<1>9. p.type = Ty(p.fn, p.type.name, p.type.dim, Attributes(p))
  <2>1. IsArray(p) \/ IsRecord(p)
    BY <1>3, <1>5, ConstructShape DEF IsPointer
  <2>2. \A a, b, c, d : Ty(a, b, c, d).name = b /\ Ty(a, b, c, d).dim = c
    BY DEF Ty
  <2>3. ASSUME IsArray(p) PROVE \E c : p.type = Ty(p.fn, << >>, c, Attributes(p))
    BY <2>3 DEF IsArray
  <2>4. ASSUME IsRecord(p) PROVE p.type = Ty(p.fn, p.type.name, 0, Attributes(p))
    BY <2>4 DEF IsRecord
  <2>5. CASE IsArray(p)
    <3>1. PICK c : p.type = Ty(p.fn, << >>, c, Attributes(p))
      BY <2>3, <2>5
    <3>2. p.type.name = << >> /\ p.type.dim = c
      BY <2>2, <3>1
    <3> QED
      BY <3>1, <3>2
  <2>6. CASE IsRecord(p)
    <3>1. p.type = Ty(p.fn, p.type.name, 0, Attributes(p))
      BY <2>4, <2>6
    <3>2. p.type.dim = 0
      BY ONLY <2>2, <3>1
    <3> QED
      BY ONLY <3>1, <3>2
  <2> QED
    BY <2>1, <2>5, <2>6
<1>10. ret' = p.type
  BY <1>5, <1>6, <1>7, <1>8, <1>9
<1>11. it' = End(j)
  <2>1. From(p, j.n + 1) = Len(p.text)
    <3>1. DOMAIN p.parts = 1..Len(p.parts) /\ Len(p.parts) \in Nat
      BY <1>5, ConstructShape
    <3>2. j.n + 1 \notin DOMAIN p.parts
      BY <3>1
    <3> QED
      BY <1>3, <3>2 DEF From, Close
  <2>2. End(j) = Core(j) + Len(p.text) /\ Core(j) \in Nat \ {0} /\ Len(p.text) \in Nat
    BY <1>1, <1>4, <1>5, JobText, PhraseShape
  <2>3. it = Core(j) + Len(p.text) - 1
    BY <1>3, <2>1 DEF Spot
  <2>4. \A a, b \in Nat : (a + b - 1) + 1 = a + b
    OBVIOUS
  <2> QED
    BY Zenon, <1>6, <2>2, <2>3, <2>4
<1>12. Pending(s, done, encoded, calls', jobs, Len(calls') + 1) /\ Len(calls') + 1 = m
  BY <1>1, <1>3, <1>6, PendingPop
<1>13. Returning(s, done, jobs, encoded, it', calls', ret')
  BY <1>10, <1>11, <1>12 DEF Returning
<1> QED
  BY <1>6, <1>13 DEF At

LEMMA LoopingStep ==
  ASSUME TypeOK, Next, phase = "loop", NEW s, NEW done, NEW jobs,
         Looping(s, done, jobs, encoded, it, calls)
  PROVE  /\ \E jobs2 : At(s, done, jobs2, encoded, it', calls', phase', ret')
         /\ UNCHANGED <<encoded, types>>
<1> DEFINE m == Len(calls)
           j == jobs[m]
           n == j.n
           p == j.phrase
<1>1. /\ encoded \in Seq(STRING) /\ IsSeq(calls) /\ calls # << >> /\ m \in Nat \ {0}
  BY InString, SeqFacts DEF Looping
<1>2. m \in 1..m
  BY <1>1
<1>3. /\ Pending(s, done, encoded, calls, jobs, m)
      /\ p.fn # "pointer" /\ it = Spot(j, From(p, n + 1))
  BY DEF Looping
<1>4. Framed(Top, j) /\ Job(encoded, j)
  BY <1>2, <1>3 DEF Pending, Top, Depth
<1>5. p \in Phrases /\ p.fn # "none" /\ Top.fn = p.fn /\ n \in Nat /\ n <= Len(p.parts)
  BY <1>4 DEF Framed, Job
<1>6. /\ DOMAIN p.parts = 1..Len(p.parts) /\ Len(p.parts) \in Nat
      /\ Has(p.text, Close(p), Closing[p.fn]) /\ p.fn \in Fns
  BY <1>3, <1>5, ConstructShape
<1>7. NextElement \/ CloseElements \/ UnclosedElements
  BY <1>1 DEF Next, ProcessEnd, ProcessLeaf, ProcessUnsupported, ProcessBitField,
    ProcessBlock, ProcessObject, ProcessVoidPointer, ProcessPointer, ProcessArray,
    ProcessStructure, ProcessUnion, ProcessRecord, Process, TakeElement, PointTo,
    NextType, TakeType
<1>8. UNCHANGED <<encoded, types>>
  BY <1>7 DEF NextElement, CloseElements, UnclosedElements, Leave
<1>9. CASE n < Len(p.parts)
  <2>1. n + 1 \in DOMAIN p.parts
    BY <1>5, <1>6, <1>9
  <2>2. /\ From(p, n + 1) \in DOMAIN p.text
        /\ p.text[From(p, n + 1)] \notin (Marks \ {Quote}) \cup Digits
    BY <1>5, <2>1, ElementBegins
  <2>3. it \in Nat \ {0} /\ Has(encoded, it, p.text[From(p, n + 1)])
    BY <1>1, <1>3, <1>4, <2>2, SpotHas
  <2>4. Closing[p.fn] \in Marks \ {Quote}
    BY <1>3, <1>6, ClosingMark
  <2>5. ~ AtEnd(it) /\ encoded[it] # Closing[p.fn]
    BY <1>1, <2>2, <2>3, <2>4, LenProperties DEF Has, AtEnd
  <2>6. NextElement
    BY <1>5, <1>7, <2>5 DEF CloseElements, UnclosedElements, Is
  <2> QED
    BY <1>8, <2>1, <2>6, ElementStep
<1>10. CASE n = Len(p.parts)
  <2>1. n + 1 \notin DOMAIN p.parts
    BY <1>6, <1>10
  <2>2. From(p, n + 1) = Close(p) /\ Close(p) \in DOMAIN p.text /\ p.text[Close(p)] = Closing[p.fn]
    BY <1>6, <2>1 DEF From, Has
  <2>3. it \in Nat \ {0} /\ Has(encoded, it, Closing[p.fn])
    BY <1>1, <1>3, <1>4, <2>2, SpotHas
  <2>4. ~ AtEnd(it) /\ encoded[it] = Closing[p.fn]
    BY <1>1, <2>3, LenProperties DEF Has, AtEnd
  <2>5. CloseElements
    BY <1>5, <1>7, <2>4 DEF NextElement, UnclosedElements
  <2> QED
    BY <1>8, <1>10, <2>5, CloseStep
<1> QED
  BY <1>5, <1>6, <1>9, <1>10

-----------------------------------------------------------------------------
(***************************************************************************)
(* The steps of decode_type, between the types of a signature.             *)
(***************************************************************************)
LEMMA SumMore ==
  \A a \in Nat \ {0} : \A b \in Nat : a + b \in Nat \ {0}
OBVIOUS

LEMMA SignatureShape ==
  ASSUME NEW s \in Signatures
  PROVE  /\ Len(s.parts) \in Nat /\ DOMAIN s.parts = 1..Len(s.parts)
         /\ \A k \in DOMAIN s.parts :
              /\ s.parts[k].phrase \in Phrases /\ s.parts[k].at \in Nat \ {0}
              /\ Stands(s.parts[k].phrase, s.text, s.parts[k].at)
              /\ Begins(s, k) <= s.parts[k].at
              /\ \A i \in Begins(s, k)..(s.parts[k].at - 1) : s.text[i] \in Digits
         /\ Begins(s, Len(s.parts) + 1) <= Len(s.text) + 1
         /\ \A i \in Begins(s, Len(s.parts) + 1)..((Len(s.text) + 1) - 1) : s.text[i] \in Digits
         /\ \A k \in 1..(Len(s.parts) + 1) : Begins(s, k) \in Nat \ {0}
         /\ Len(s.types) = KeptOf(s, Len(s.parts)) /\ IsSeq(s.types)
         /\ \A k \in DOMAIN s.parts :
              s.parts[k].phrase.type # Null =>
                s.types[KeptOf(s, k)] = s.parts[k].phrase.type
<1> DEFINE n == Len(s.parts)
           Behind(k) == IF k \in DOMAIN s.parts THEN s.parts[k].at ELSE Len(s.text) + 1
<1>1. /\ n \in Nat /\ DOMAIN s.parts = 1..n
      /\ \A k \in 1..n :
           /\ s.parts[k].at \in Nat \ {0}
           /\ Stands(s.parts[k].phrase, s.text, s.parts[k].at)
      /\ \A k \in 1..(n + 1) :
           Begins(s, k) <= Behind(k) /\ \A j \in Begins(s, k)..(Behind(k) - 1) : s.text[j] \in Digits
      /\ Len(s.types) = KeptOf(s, n)
      /\ s.types \in Seq({s.types[k] : k \in DOMAIN s.types})
      /\ \A k \in 1..n :
           s.parts[k].phrase.type # Null => s.types[KeptOf(s, k)] = s.parts[k].phrase.type
  BY SignaturesAssumption DEF IsSignature
<1>2. \A k \in DOMAIN s.parts : s.parts[k].phrase \in Phrases
  BY InsideAssumption DEF Inside
<1>3. \A k \in 1..n : k \in 1..(n + 1) /\ Behind(k) = s.parts[k].at
  BY <1>1
<1>4. n + 1 \in 1..(n + 1) /\ Behind(n + 1) = Len(s.text) + 1
  BY <1>1
<1>5. IsSeq(s.types)
  BY <1>1 DEF IsSeq
<1>6. ASSUME NEW k \in 1..(n + 1) PROVE Begins(s, k) \in Nat \ {0}
  <2>1. CASE k = 1
    BY <2>1 DEF Begins
  <2>2. CASE k # 1
    <3>1. k - 1 \in 1..n
      BY <1>1, <2>2
    <3>2. s.parts[k - 1].at \in Nat \ {0} /\ s.parts[k - 1].phrase \in Phrases
      BY <1>1, <1>2, <3>1
    <3>3. Width(s.parts[k - 1].phrase) \in Nat
      BY <3>2, PhraseShape
    <3>4. Begins(s, k) = s.parts[k - 1].at + Width(s.parts[k - 1].phrase)
      BY <2>2 DEF Begins
    <3> QED
      BY Zenon, <3>2, <3>3, <3>4, SumMore
  <2> QED
    BY <2>1, <2>2
<1> HIDE DEF n, Behind
<1>7. \A k \in 1..n : Begins(s, k) <= s.parts[k].at
         /\ \A i \in Begins(s, k)..(s.parts[k].at - 1) : s.text[i] \in Digits
  BY <1>1, <1>3
<1>8. Begins(s, n + 1) <= Len(s.text) + 1
      /\ \A i \in Begins(s, n + 1)..((Len(s.text) + 1) - 1) : s.text[i] \in Digits
  BY <1>1, <1>4
<1> QED
  BY <1>1, <1>2, <1>5, <1>6, <1>7, <1>8 DEF n

\* A type more: it counts unless it is not supported.
LEMMA KeptNext ==
  ASSUME NEW s, NEW k \in Nat
  PROVE  /\ KeptOf(s, k) \in Nat
         /\ KeptOf(s, k + 1) =
              IF s.parts[k + 1].phrase.type # Null THEN KeptOf(s, k) + 1 ELSE KeptOf(s, k)
<1> DEFINE S(n) == {j \in 1..n : s.parts[j].phrase.type # Null}
<1>1. IsFiniteSet(S(k)) /\ Cardinality(S(k)) \in Nat
  <2>1. IsFiniteSet(1..k)
    BY FS_Interval
  <2>2. S(k) \subseteq 1..k
    OBVIOUS
  <2> HIDE DEF S
  <2>3. IsFiniteSet(S(k))
    BY <2>1, <2>2, FS_Subset
  <2> QED
    BY <2>3, FS_CardinalityType
<1>2. CASE s.parts[k + 1].phrase.type # Null
  <2>1. S(k + 1) = S(k) \cup {k + 1} /\ k + 1 \notin S(k)
    BY <1>2
  <2> HIDE DEF S
  <2>2. Cardinality(S(k + 1)) = Cardinality(S(k)) + 1
    BY <1>1, <2>1, FS_AddElement
  <2> QED
    BY <1>1, <1>2, <2>2 DEF KeptOf, S
<1>3. CASE s.parts[k + 1].phrase.type = Null
  <2>1. S(k + 1) = S(k)
    BY <1>3
  <2> HIDE DEF S
  <2> QED
    BY <1>1, <1>3, <2>1 DEF KeptOf, S
<1> QED
  BY <1>2, <1>3

LEMMA KeptNone ==
  ASSUME NEW s
  PROVE  KeptOf(s, 0) = 0
<1>1. {j \in 1..0 : s.parts[j].phrase.type # Null} = {}
  OBVIOUS
<1> QED
  BY <1>1, FS_EmptySet DEF KeptOf

\* decode_type begins with a type, or with the offset behind the last one.
LEMMA NextTypeStep ==
  ASSUME TypeOK, NextType, NEW s \in Signatures, encoded = s.text,
         NEW done \in 0..Len(s.parts), Ready(s, done, encoded, it, calls)
  PROVE  \E jobs : At(s, done, jobs, encoded, it', calls', phase', ret')
<1> DEFINE n == Len(s.parts)
<1>1. /\ encoded \in Seq(STRING) /\ it \in Nat /\ 1 <= it /\ Len(encoded) \in Nat
  BY InString
<1>2. /\ calls = << >> /\ calls' = << >> /\ phase' = "call" /\ ~ (it > Len(encoded))
      /\ it' = IF encoded[it] \in Specifiers THEN it + 1 ELSE it
  BY DEF NextType, AtEnd
<1>3. it = Begins(s, done + 1)
  <2>1. it # Len(encoded) + 1
    BY <1>1, <1>2
  <2> QED
    BY <2>1 DEF Ready
<1>4. n \in Nat /\ DOMAIN s.parts = 1..n /\ done \in Nat
  BY SignatureShape
<1>5. \A c : c \in Digits => c \notin Specifiers
  BY DEF Digits, Specifiers
<1>6. Len(<< >>) = 0 /\ \A k \in 1..Len(<< >>) : FALSE
  OBVIOUS
<1>7. CASE done < n
  <2> DEFINE at == s.parts[done + 1].at
             j == [phrase |-> s.parts[done + 1].phrase, at |-> at, n |-> 0]
             jobs == [k \in 1..1 |-> j]
  <2>1. done + 1 \in DOMAIN s.parts
    BY <1>4, <1>7
  <2>2. /\ s.parts[done + 1].phrase \in Phrases /\ at \in Nat \ {0}
        /\ Stands(s.parts[done + 1].phrase, encoded, at)
        /\ it <= at /\ \A i \in it..(at - 1) : encoded[i] \in Digits
    BY <1>3, <2>1, SignatureShape
  <2>3. /\ j.phrase = s.parts[done + 1].phrase /\ j.at = at /\ j.n = 0
    OBVIOUS
  <2>4. jobs[1] = j
    OBVIOUS
  <2> HIDE DEF j, jobs
  <2>5. Job(encoded, j)
    BY <2>2, <2>3 DEF Job
  <2>6. Pending(s, done, encoded, << >>, jobs, 1)
    <3>1. \A k \in 1..(1 - 1) : FALSE
      OBVIOUS
    <3>2. \A k \in 1..1 : k = 1
      OBVIOUS
    <3>3. 1 \in Nat \ {0}
      OBVIOUS
    <3> QED
      BY <1>6, <2>1, <2>3, <2>4, <2>5, <3>1, <3>2, <3>3 DEF Pending
  <2>7. Leads(encoded, it', Core(j))
    <3>1. CASE encoded[it] \in Specifiers
      <4>1. it = at
        <5>1. SUFFICES ASSUME it # at PROVE FALSE
          OBVIOUS
        <5>2. it \in it..(at - 1)
          BY <1>1, <2>2, <5>1
        <5> QED
          BY <1>5, <2>2, <3>1, <5>2
      <4>2. it' = j.at + 1 /\ encoded[j.at] \in Specifiers
        BY <1>2, <2>3, <3>1, <4>1
      <4> QED
        BY <1>1, <2>5, <4>2, JobLeadsFurther
    <3>2. CASE encoded[it] \notin Specifiers
      <4>1. it' = it
        BY <1>2, <3>2
      <4>2. it <= j.at /\ \A i \in it..(j.at - 1) : encoded[i] \in Digits
        BY <2>2, <2>3
      <4> QED
        BY <1>1, <2>5, <4>1, <4>2, JobLeads
    <3> QED
      BY <3>1, <3>2
  <2>8. Calling(s, done, jobs, encoded, it', calls')
    <3>1. Len(<< >>) + 1 = 1
      OBVIOUS
    <3> QED
      BY <1>2, <2>3, <2>4, <2>6, <2>7, <3>1 DEF Calling
  <2> QED
    BY <1>2, <2>8 DEF At
<1>8. CASE done = n
  <2>1. \A i \in it..((Len(encoded) + 1) - 1) : encoded[i] \in Digits
    BY <1>3, <1>8, SignatureShape
  <2>2. it \in it..((Len(encoded) + 1) - 1)
    BY <1>1, <1>2
  <2>3. it' = it
    BY <1>2, <1>5, <2>1, <2>2
  <2>4. Leads(encoded, it, Len(encoded) + 1)
    <3> DEFINE c == Len(encoded) + 1
    <3>1. c \in Nat /\ c <= Len(encoded) + 1 /\ c \in it..c /\ ~ (c <= Len(encoded))
      BY <1>1, <1>2
    <3>2. \A i \in c..(c - 1) : FALSE
      BY <1>1
    <3> HIDE DEF c
    <3>3. Leads(encoded, it, c)
      BY <2>1, <3>1, <3>2 DEF Leads, c
    <3> QED
      BY <3>3 DEF c
  <2> QED
    BY <1>2, <1>8, <2>3, <2>4 DEF At, AtOffset
<1> QED
  BY <1>4, <1>7, <1>8

\* A type that is read is collected, unless it is not supported.
LEMMA TakeTypeStep ==
  ASSUME TypeOK, TakeType, NEW s \in Signatures, encoded = s.text, NEW done, NEW jobs,
         Collected(s, done, types),
         Returning(s, done, jobs, encoded, it, calls, ret)
  PROVE  /\ Collected(s, done + 1, types')
         /\ At(s, done + 1, jobs, encoded, it', calls', phase', ret')
<1> DEFINE n == Len(s.parts)
           k == done + 1
           p == s.parts[k].phrase
<1>1. /\ calls = << >> /\ calls' = << >> /\ phase' = "loop" /\ it' = it
      /\ types' = IF ret = Null THEN types ELSE Append(types, ret)
  BY DEF TakeType
<1>2. Len(calls) + 1 = 1
  BY <1>1
<1>3. /\ k \in DOMAIN s.parts /\ jobs[1].phrase = p /\ jobs[1].at = s.parts[k].at
      /\ it = End(jobs[1]) /\ ret = p.type
  BY <1>2 DEF Returning, Pending
<1>4. n \in Nat /\ DOMAIN s.parts = 1..n /\ done \in Nat /\ k \in 0..n /\ k # 0
  <2>1. n \in Nat /\ DOMAIN s.parts = 1..n
    BY SignatureShape
  <2>2. done \in 0..n
    BY DEF Collected
  <2> QED
    BY <1>3, <2>1, <2>2
<1>5. it = Begins(s, k + 1)
  <2>1. k + 1 # 1 /\ (k + 1) - 1 = k
    BY <1>4
  <2>2. Begins(s, k + 1) = s.parts[k].at + Width(p)
    BY <2>1 DEF Begins
  <2> QED
    BY <1>3, <2>2 DEF End
<1>6. Ready(s, k, encoded, it', calls')
  BY <1>1, <1>5 DEF Ready
<1>7. /\ KeptOf(s, done) \in Nat
      /\ KeptOf(s, k) = IF p.type # Null THEN KeptOf(s, done) + 1 ELSE KeptOf(s, done)
  BY <1>4, KeptNext
<1>8. IsSeq(types) /\ Len(types) = KeptOf(s, done) /\ \A i \in 1..Len(types) : types[i] = s.types[i]
  BY DEF Collected
<1>9. Collected(s, k, types')
  <2>1. CASE p.type = Null
    <3>1. types' = types /\ KeptOf(s, k) = KeptOf(s, done)
      BY <1>1, <1>3, <1>7, <2>1
    <3> HIDE DEF k, p
    <3> QED
      BY <1>4, <1>8, <3>1 DEF Collected
  <2>2. CASE p.type # Null
    <3>1. types' = Append(types, ret) /\ KeptOf(s, k) = Len(types) + 1
      BY <1>1, <1>3, <1>7, <1>8, <2>2
    <3>2. s.types[Len(types) + 1] = ret
      BY <1>3, <2>2, <3>1, SignatureShape
    <3> DEFINE u == Append(types, ret)
    <3>3. /\ Len(u) = Len(types) + 1 /\ IsSeq(u)
          /\ \A i \in 1..Len(types) : u[i] = types[i]
          /\ u[Len(types) + 1] = ret
      BY <1>8, AppendFacts
    <3>4. types' = u
      BY <3>1
    <3> HIDE DEF u, k, p
    <3>5. \A i \in 1..Len(u) : u[i] = s.types[i]
      <4>1. \A m \in Nat : \A i \in 1..(m + 1) : i = m + 1 \/ i \in 1..m
        OBVIOUS
      <4>2. \A i \in 1..(Len(types) + 1) : i = Len(types) + 1 \/ i \in 1..Len(types)
        BY <1>7, <1>8, <4>1
      <4> QED
        BY <1>8, <3>2, <3>3, <4>2
    <3> QED
      BY <1>4, <3>1, <3>3, <3>4, <3>5 DEF Collected
  <2> QED
    BY <2>1, <2>2
<1> QED
  BY <1>1, <1>6, <1>9 DEF At

\* process() finds the end behind the last offset.
LEMMA OffsetStep ==
  ASSUME TypeOK, Next, phase = "call", NEW s, NEW done, NEW jobs,
         AtOffset(s, done, calls), Leads(encoded, it, Len(encoded) + 1)
  PROVE  /\ At(s, done, jobs, encoded, it', calls', phase', ret')
         /\ UNCHANGED <<encoded, types>>
<1>1. encoded \in Seq(STRING) /\ it \in Nat /\ 1 <= it /\ Len(encoded) \in Nat
  BY InString
<1>2. TypeAt = Len(encoded) + 1
  BY <1>1, TypeAtIs
<1>3. AtEnd(TypeAt)
  BY <1>1, <1>2 DEF AtEnd
<1>4. ProcessEnd
  BY <1>3 DEF Next, ProcessLeaf, ProcessUnsupported, ProcessBitField, ProcessBlock,
    ProcessObject, ProcessVoidPointer, ProcessPointer, ProcessArray, ProcessStructure,
    ProcessUnion, ProcessRecord, Process, Is, NextElement, TakeElement, CloseElements,
    UnclosedElements, PointTo, NextType, TakeType, InLoop
<1>5. /\ phase' = "return" /\ it' = Len(encoded) + 1 /\ ret' = Null
      /\ UNCHANGED <<encoded, calls, types>>
  BY <1>2, <1>4 DEF ProcessEnd, Return
<1> QED
  BY <1>5 DEF At, AtOffset

LEMMA DecodesInit == SignatureInit => Decodes
<1> SUFFICES ASSUME SignatureInit PROVE Decodes
  OBVIOUS
<1>1. PICK s \in Signatures : encoded = s.text /\ meant = s.types /\ Init
  BY DEF SignatureInit
<1>2. it = 1 /\ calls = << >> /\ phase = "loop" /\ types = << >>
  BY <1>1 DEF Init
<1>3. Collected(s, 0, << >>)
  <2>1. Len(s.parts) \in Nat
    BY SignatureShape
  <2>2. IsSeq(<< >>) /\ Len(<< >>) = 0 /\ \A k \in 1..0 : FALSE
    BY DEF IsSeq
  <2>3. 0 \in 0..Len(s.parts)
    BY <2>1
  <2> QED
    BY <2>2, <2>3, KeptNone DEF Collected
<1>4. Ready(s, 0, encoded, it, calls)
  BY <1>2 DEF Ready, Begins
<1>5. At(s, 0, << >>, encoded, it, calls, phase, ret)
  BY <1>2, <1>4 DEF At
<1> QED
  BY <1>1, <1>2, <1>3, <1>5 DEF Decodes

LEMMA DecodesNext ==
  ASSUME TypeOK, ShortSizes, Decodes, SignatureNext
  PROVE  Decodes'
<1>1. PICK s \in Signatures : \E done, jobs :
        /\ encoded = s.text /\ meant = s.types /\ Collected(s, done, types)
        /\ At(s, done, jobs, encoded, it, calls, phase, ret)
  BY DEF Decodes
<1>2. PICK done, jobs :
        /\ encoded = s.text /\ meant = s.types /\ Collected(s, done, types)
        /\ At(s, done, jobs, encoded, it, calls, phase, ret)
  BY <1>1
<1>3. Next /\ meant' = meant
  BY DEF SignatureNext
<1>4. ASSUME NEW done2, NEW jobs2, encoded' = encoded, Collected(s, done2, types'),
             At(s, done2, jobs2, encoded, it', calls', phase', ret')
      PROVE  Decodes'
  <2>1. At(s, done2, jobs2, encoded', it', calls', phase', ret')
    BY <1>4
  <2>2. encoded' = s.text /\ meant' = s.types
    BY <1>2, <1>3, <1>4
  <2> QED
    BY <1>4, <2>1, <2>2 DEF Decodes
<1>5. ASSUME UNCHANGED <<encoded, types>>,
             \E jobs2 : At(s, done, jobs2, encoded, it', calls', phase', ret')
      PROVE  Decodes'
  <2>1. PICK jobs2 : At(s, done, jobs2, encoded, it', calls', phase', ret')
    BY <1>5
  <2>2. encoded' = encoded /\ Collected(s, done, types')
    BY <1>2, <1>5
  <2> QED
    BY <1>4, <2>1, <2>2
<1>6. CASE phase = "call" /\ Calling(s, done, jobs, encoded, it, calls)
  BY <1>3, <1>5, <1>6, CallStep
<1>7. CASE phase = "return" /\ Returning(s, done, jobs, encoded, it, calls, ret)
  <2>1. TakeElement \/ PointTo \/ TakeType
    BY <1>3, <1>7 DEF Next, ProcessEnd, ProcessLeaf, ProcessUnsupported, ProcessBitField,
      ProcessBlock, ProcessObject, ProcessVoidPointer, ProcessPointer, ProcessArray,
      ProcessStructure, ProcessUnion, ProcessRecord, Process, NextElement, CloseElements,
      UnclosedElements, InLoop, NextType
  <2>2. CASE TakeElement
    <3>1. UNCHANGED <<encoded, types>>
      BY <2>2 DEF TakeElement
    <3> QED
      BY <1>5, <1>7, <2>2, <3>1, TakeStep
  <2>3. CASE PointTo
    <3>1. UNCHANGED <<encoded, types>>
      BY <2>3 DEF PointTo, Leave
    <3> QED
      BY <1>5, <1>7, <2>3, <3>1, PointStep
  <2>4. CASE TakeType
    <3>1. encoded' = encoded
      BY <2>4 DEF TakeType
    <3>2. /\ Collected(s, done + 1, types')
          /\ At(s, done + 1, jobs, encoded, it', calls', phase', ret')
      BY <1>2, <1>7, <2>4, TakeTypeStep
    <3> QED
      BY <1>4, <3>1, <3>2
  <2> QED
    BY <2>1, <2>2, <2>3, <2>4
<1>8. CASE phase = "loop" /\ Looping(s, done, jobs, encoded, it, calls)
  BY <1>3, <1>5, <1>8, LoopingStep
<1>9. CASE phase = "loop" /\ Ready(s, done, encoded, it, calls)
  <2>1. NextType
    BY <1>3, <1>9 DEF Ready, Next, ProcessEnd, ProcessLeaf, ProcessUnsupported,
      ProcessBitField, ProcessBlock, ProcessObject, ProcessVoidPointer, ProcessPointer,
      ProcessArray, ProcessStructure, ProcessUnion, ProcessRecord, Process, NextElement,
      CloseElements, UnclosedElements, InLoop, TakeElement, PointTo, TakeType
  <2>2. UNCHANGED <<encoded, types>>
    BY <2>1 DEF NextType
  <2>3. done \in 0..Len(s.parts)
    BY <1>2 DEF Collected
  <2> QED
    BY <1>2, <1>5, <1>9, <2>1, <2>2, <2>3, NextTypeStep
<1>10. CASE phase = "call" /\ AtOffset(s, done, calls) /\ Leads(encoded, it, Len(encoded) + 1)
  BY <1>3, <1>5, <1>10, OffsetStep
<1>11. CASE phase = "return" /\ AtOffset(s, done, calls) /\ it = Len(encoded) + 1 /\ ret = Null
  <2>1. TakeType
    BY <1>3, <1>11 DEF AtOffset, Next, ProcessEnd, ProcessLeaf, ProcessUnsupported,
      ProcessBitField, ProcessBlock, ProcessObject, ProcessVoidPointer, ProcessPointer,
      ProcessArray, ProcessStructure, ProcessUnion, ProcessRecord, Process, NextElement,
      CloseElements, UnclosedElements, InLoop, TakeElement, PointTo, NextType
  <2>2. /\ phase' = "loop" /\ it' = it /\ calls' = calls /\ UNCHANGED <<encoded, types>>
    BY <1>11, <2>1 DEF TakeType
  <2>3. Ready(s, done, encoded, it', calls')
    BY <1>11, <2>2 DEF AtOffset, Ready
  <2>4. At(s, done, jobs, encoded, it', calls', phase', ret')
    BY <2>2, <2>3 DEF At
  <2> QED
    BY <1>5, <2>2, <2>4
<1> QED
  BY <1>2, <1>6, <1>7, <1>8, <1>9, <1>10, <1>11 DEF At

LEMMA DecodesStutter ==
  ASSUME Decodes, UNCHANGED <<vars, meant>>
  PROVE  Decodes'
<1>1. /\ encoded' = encoded /\ it' = it /\ calls' = calls /\ phase' = phase /\ ret' = ret
      /\ types' = types /\ meant' = meant
  BY DEF vars
<1> QED
  BY <1>1 DEF Decodes

\* At the end of the string all types of the signature are collected.
LEMMA DecodesAll ==
  ASSUME TypeOK, Decodes
  PROVE  RoundTrip
<1> SUFFICES ASSUME Done PROVE types = meant
  BY DEF RoundTrip
<1>1. PICK s \in Signatures : \E done, jobs :
        /\ encoded = s.text /\ meant = s.types /\ Collected(s, done, types)
        /\ At(s, done, jobs, encoded, it, calls, phase, ret)
  BY DEF Decodes
<1>2. PICK done, jobs :
        /\ encoded = s.text /\ meant = s.types /\ Collected(s, done, types)
        /\ At(s, done, jobs, encoded, it, calls, phase, ret)
  BY <1>1
<1>3. phase = "loop" /\ calls = << >> /\ it > Len(encoded)
  BY DEF Done, AtEnd
<1>4. Ready(s, done, encoded, it, calls)
  BY <1>2, <1>3 DEF At, Looping
<1>5. encoded \in Seq(STRING) /\ it \in Nat /\ Len(encoded) \in Nat
  BY InString
<1>6. /\ Len(s.parts) \in Nat /\ DOMAIN s.parts = 1..Len(s.parts) /\ done \in 0..Len(s.parts)
      /\ IsSeq(types) /\ Len(types) = KeptOf(s, done)
      /\ \A k \in 1..Len(types) : types[k] = s.types[k]
      /\ IsSeq(s.types) /\ Len(s.types) = KeptOf(s, Len(s.parts))
  BY <1>2, SignatureShape DEF Collected
<1>7. done = Len(s.parts)
  <2>1. SUFFICES ASSUME done # Len(s.parts) PROVE FALSE
    OBVIOUS
  <2>2. done + 1 \in DOMAIN s.parts /\ it = Begins(s, done + 1)
    BY <1>4, <1>6, <2>1 DEF Ready
  <2> DEFINE j == [phrase |-> s.parts[done + 1].phrase, at |-> s.parts[done + 1].at, n |-> 0]
  <2>3. j.phrase = s.parts[done + 1].phrase /\ j.at = s.parts[done + 1].at /\ j.n = 0
    OBVIOUS
  <2> HIDE DEF j
  <2>4. Job(encoded, j) /\ it <= j.at /\ j.at \in Nat
    BY <1>2, <2>2, <2>3, SignatureShape DEF Job
  <2>5. /\ Core(j) \in Nat /\ End(j) \in Nat /\ j.at <= Core(j) /\ Core(j) < End(j)
        /\ End(j) <= Len(encoded) + 1
    BY <1>5, <2>4, JobText
  <2> QED
    BY <1>3, <1>5, <2>4, <2>5
<1>8. Len(types) = Len(s.types)
  BY <1>6, <1>7
<1>9. types = s.types
  <2> DEFINE S == {types[k] : k \in DOMAIN types}
             T == {s.types[k] : k \in DOMAIN s.types}
  <2>1. types \in Seq(S) /\ s.types \in Seq(T)
    BY <1>6 DEF IsSeq
  <2> HIDE DEF S, T
  <2>2. types \in Seq(S \cup T) /\ s.types \in Seq(S \cup T)
    BY <2>1, SeqMonotonic
  <2> QED
    BY <1>6, <1>8, <2>2, SeqEqual
<1> QED
  BY <1>2, <1>9

\* decode_type gives every string of the grammar the types that it means: however
\* deep pointers, arrays, structures and unions nest, whatever specifiers,
\* offsets and names stand between them, and with each unsupported type, and
\* the pointers to it, left out and nothing else; for sizes of one digit, as
\* read_str_number keeps the last digit of a longer one.
THEOREM RoundTripHolds ==
  ASSUME ShortSizes
  PROVE  SignatureSpec => []RoundTrip
<1> DEFINE IInv == TypeOK /\ CallsNest /\ Decodes
<1>1. SignatureInit => IInv
  BY TypesInit, DecodesInit DEF SignatureInit
<1>2. IInv /\ [SignatureNext]_<<vars, meant>> => IInv'
  <2> SUFFICES ASSUME IInv, [SignatureNext]_<<vars, meant>> PROVE IInv'
    OBVIOUS
  <2>1. [Next]_vars
    BY DEF SignatureNext
  <2>2. TypeOK' /\ CallsNest'
    BY <2>1, TypesNext
  <2>3. CASE SignatureNext
    BY <2>2, <2>3, DecodesNext
  <2>4. CASE UNCHANGED <<vars, meant>>
    BY <2>2, <2>4, DecodesStutter
  <2> QED
    BY <2>3, <2>4
<1>3. IInv => RoundTrip
  BY DecodesAll
<1> QED
  BY <1>1, <1>2, <1>3, PTL DEF SignatureSpec
=============================================================================

-------------------------- MODULE ObjCParserProofs --------------------------
(***************************************************************************)
(* Proofs about ObjCParser, for every set of images.                       *)
(***************************************************************************)
EXTENDS ObjCParser, SequenceTheorems, TLAPS

-----------------------------------------------------------------------------
(***************************************************************************)
(* What the image gives back.                                              *)
(***************************************************************************)
\* decode_ptr and the fields of a structure that was read are naturals.
LEMMA DecodeNat ==
  ASSUME NEW im, im.imagebase \in Nat, NEW ptr \in Nat
  PROVE  Decode(im, ptr) \in Nat
<1>1. ptr % PtrSpan \in Nat
  BY PtrSpanAssumption
<1> QED
  BY <1>1 DEF Decode

LEMMA CellIsCell ==
  ASSUME NEW im, IsImage(im), NEW kind, NEW addr, Has(im, kind, addr)
  PROVE  Cell(im, addr) \in Cells /\ Cell(im, addr).kind = kind
BY DEF IsImage, Has, Cell

LEMMA ClassCell ==
  ASSUME NEW c \in Cells, c.kind = "class"
  PROVE  c.isa \in Nat /\ c.bits \in Nat /\ c.rw_ro \in Nat
BY DEF Cells

LEMMA ClassRoCell ==
  ASSUME NEW c \in Cells, c.kind = "class_ro"
  PROVE  /\ c.is_meta \in BOOLEAN /\ c.name \in Nat
         /\ \A field \in ClassFields : c[field] \in Nat
BY DEF Cells, ClassFields

LEMMA ProtocolCell ==
  ASSUME NEW c \in Cells, c.kind = "protocol"
  PROVE  /\ c.mangled_name \in Nat
         /\ \A field \in ProtocolFields : c[field] \in Nat
BY DEF Cells, ClassFields, ProtocolFields, ListFields, MethodFields, PropertyFields

LEMMA ListCell ==
  ASSUME NEW field \in ListFields,
         NEW c \in Cells, c.kind = ListKind(field)
  PROVE  c.count \in Nat
BY DEF Cells, ListKind, ListFields, MethodFields, PropertyFields

LEMMA PointerCell ==
  ASSUME NEW c \in Cells, c.kind = "pointer"
  PROVE  c.value \in Nat
BY DEF Cells

LEMMA StringAtType ==
  ASSUME NEW im, IsImage(im), NEW addr
  PROVE  StringAt(im, addr) \in STRING
<1>1. CASE Has(im, "string", addr)
  <2>1. Cell(im, addr) \in Cells /\ Cell(im, addr).kind = "string"
    BY <1>1, CellIsCell
  <2>2. Cell(im, addr).value \in STRING
    BY <2>1 DEF Cells
  <2> QED
    BY <1>1, <2>2 DEF StringAt
<1> QED
  BY <1>1, EmptyAssumption DEF StringAt

LEMMA MethodAtType ==
  ASSUME NEW im, IsImage(im), NEW small, NEW addr, NEW flag \in BOOLEAN
  PROVE  MethodAt(im, small, addr, flag) \in Methods
<1>1. MethodName(im, small, addr) \in STRING
  BY StringAtType, EmptyAssumption DEF MethodName
<1>2. MethodTypes(im, small, addr) \in STRING
  BY StringAtType DEF MethodTypes
<1> QED
  BY <1>1, <1>2 DEF MethodAt, Methods

LEMMA IVarAtType ==
  ASSUME NEW im, IsImage(im), NEW addr
  PROVE  IVarAt(im, addr) \in IVars
BY StringAtType DEF IVarAt, IVars

LEMMA PropertyAtType ==
  ASSUME NEW im, IsImage(im), NEW addr
  PROVE  PropertyAt(im, addr) \in Properties
BY StringAtType DEF PropertyAt, Properties

LEMMA SectionType ==
  ASSUME NEW sections, \A seg \in DOMAIN sections : sections[seg] \in Seq(Nat)
  PROVE  ObjCSection(sections) \in Seq(Nat)
BY DEF ObjCSection

-----------------------------------------------------------------------------
(***************************************************************************)
(* The stack.                                                              *)
(***************************************************************************)
LEMMA TopOfStack ==
  ASSUME NEW im, NEW s, FramesOK(im, s), s # << >>
  PROVE  /\ Len(s) \in Nat \ {0} /\ DOMAIN s = 1..Len(s)
         /\ s[Len(s)] \in Frames /\ FrameReads(im, s[Len(s)])
<1>1. s \in Seq(Frames) /\ \A k \in DOMAIN s : FrameReads(im, s[k])
  BY DEF FramesOK
<1>2. Len(s) \in Nat \ {0} /\ DOMAIN s = 1..Len(s)
  BY <1>1, EmptySeq, LenProperties
<1>3. s[Len(s)] \in Frames
  BY <1>1, <1>2, ElementOfSeq
<1> QED
  BY <1>1, <1>2, <1>3

LEMMA EmptyStack ==
  ASSUME NEW im
  PROVE  FramesOK(im, << >>)
BY DEF FramesOK

\* A frame is replaced, pushed or popped.
LEMMA SetTopFrames ==
  ASSUME NEW im, NEW s, FramesOK(im, s), s # << >>,
         NEW f \in Frames, FrameReads(im, f)
  PROVE  /\ FramesOK(im, SetTop(s, f)) /\ SetTop(s, f) # << >>
         /\ Len(SetTop(s, f)) = Len(s) /\ SetTop(s, f)[Len(s)] = f
         /\ \A k \in 1..(Len(s) - 1) : SetTop(s, f)[k] = s[k]
<1>1. s \in Seq(Frames) /\ \A k \in DOMAIN s : FrameReads(im, s[k])
  BY DEF FramesOK
<1>d. DOMAIN s = 1..Len(s)
  BY TopOfStack
<1>2. Len(s) \in Nat \ {0}
  BY TopOfStack
<1> DEFINE t == SetTop(s, f)
<1>3. /\ t \in Seq(Frames) /\ Len(t) = Len(s)
      /\ \A j \in 1..Len(s) : t[j] = IF j = Len(s) THEN f ELSE s[j]
  BY <1>1, <1>2, ExceptSeq DEF SetTop
<1> HIDE DEF t
<1>4. DOMAIN t = 1..Len(s) /\ t # << >>
  BY <1>2, <1>3, LenProperties, EmptySeq
<1>5. t[Len(s)] = f /\ \A k \in 1..(Len(s) - 1) : t[k] = s[k]
  BY <1>2, <1>3
<1>6. \A k \in DOMAIN t : FrameReads(im, t[k])
  BY <1>1, <1>d, <1>3, <1>4
<1> QED
  BY <1>3, <1>4, <1>5, <1>6 DEF FramesOK, t

LEMMA PushFrames ==
  ASSUME NEW im, NEW s, FramesOK(im, s), NEW f \in Frames, FrameReads(im, f)
  PROVE  /\ FramesOK(im, Append(s, f)) /\ Append(s, f) # << >>
         /\ Len(Append(s, f)) = Len(s) + 1 /\ Append(s, f)[Len(s) + 1] = f
         /\ \A k \in 1..Len(s) : Append(s, f)[k] = s[k]
<1>1. s \in Seq(Frames) /\ \A k \in DOMAIN s : FrameReads(im, s[k])
  BY DEF FramesOK
<1> DEFINE t == Append(s, f)
<1>2. /\ t \in Seq(Frames) /\ t # << >> /\ Len(t) = Len(s) + 1
      /\ \A k \in 1..Len(s) : t[k] = s[k]
      /\ t[Len(s) + 1] = f
  BY <1>1, AppendProperties
<1>3. DOMAIN t = 1..(Len(s) + 1) /\ DOMAIN s = 1..Len(s) /\ Len(s) \in Nat
  BY <1>1, <1>2, LenProperties
<1>4. \A k \in DOMAIN t : FrameReads(im, t[k])
  <2> TAKE k \in DOMAIN t
  <2>1. k \in 1..Len(s) \/ k = Len(s) + 1
    BY <1>3
  <2> QED
    BY <2>1, <1>1, <1>2, <1>3
<1> QED
  BY <1>2, <1>4 DEF FramesOK

LEMMA PopFrames ==
  ASSUME NEW im, NEW s, FramesOK(im, s), s # << >>
  PROVE  /\ FramesOK(im, Pop(s)) /\ Len(Pop(s)) = Len(s) - 1
         /\ \A k \in 1..(Len(s) - 1) : Pop(s)[k] = s[k]
         /\ Len(s) > 1 => Pop(s) # << >>
         /\ Len(s) = 1 => Pop(s) = << >>
<1>1. s \in Seq(Frames) /\ \A k \in DOMAIN s : FrameReads(im, s[k])
  BY DEF FramesOK
<1>d. DOMAIN s = 1..Len(s)
  BY TopOfStack
<1>2. Len(s) \in Nat \ {0}
  BY TopOfStack
<1> DEFINE t == Pop(s)
<1>3. \A k \in 1..(Len(s) - 1) : s[k] \in Frames
  BY <1>1, <1>2, ElementOfSeq
<1>4. /\ t \in Seq(Frames)
      /\ Len(t) = IF 1 <= Len(s) - 1 THEN (Len(s) - 1) - 1 + 1 ELSE 0
      /\ \A k \in 1..((Len(s) - 1) - 1 + 1) : t[k] = s[1 + k - 1]
  BY <1>2, <1>3, SubSeqProperties DEF Pop
<1> HIDE DEF t
<1>5. Len(t) = Len(s) - 1 /\ \A k \in 1..(Len(s) - 1) : t[k] = s[k]
  <2> \A n \in Nat \ {0} : (IF 1 <= n - 1 THEN (n - 1) - 1 + 1 ELSE 0) = n - 1
    OBVIOUS
  <2>1. Len(t) = Len(s) - 1
    BY <1>2, <1>4
  <2>2. ASSUME NEW k \in 1..(Len(s) - 1)
        PROVE  t[k] = s[k]
    <3>1. k \in 1..((Len(s) - 1) - 1 + 1) /\ 1 + k - 1 = k
      BY <1>2
    <3>2. t[k] = s[1 + k - 1]
      BY <3>1, <1>4
    <3> QED
      BY <3>1, <3>2
  <2> QED
    BY <2>1, <2>2
<1>6. DOMAIN t = 1..(Len(s) - 1)
  BY <1>4, <1>5, LenProperties
<1>7. \A k \in DOMAIN t : FrameReads(im, t[k])
  BY <1>1, <1>d, <1>2, <1>5, <1>6
<1>8. Len(s) > 1 => t # << >>
  BY <1>2, <1>5, EmptySeq
<1>9. Len(s) = 1 => t = << >>
  BY <1>4, <1>5, EmptySeq
<1> QED
  BY <1>4, <1>5, <1>7, <1>8, <1>9 DEF FramesOK, t

-----------------------------------------------------------------------------
(***************************************************************************)
(* The frames that the actions build.                                      *)
(***************************************************************************)
LEMMA NewObjectType ==
  ASSUME NEW name \in STRING, NEW at \in Nat, NEW is_meta \in BOOLEAN
  PROVE  NewObject(name, at, is_meta) \in Objects
BY EmptySeq DEF NewObject, Objects

LEMMA CallFrame ==
  ASSUME NEW im, NEW fn \in {"Class", "Protocol"},
         NEW addr \in Nat, NEW cursor \in Nat
  PROVE  LET f == Call(fn, addr, cursor)
         IN  /\ f \in Frames /\ FrameReads(im, f)
             /\ f.fn = fn /\ f.at = addr /\ f.saved = cursor
             /\ f.ph = "create" /\ ~ f.open
<1> DEFINE f == Call(fn, addr, cursor)
<1>1. NewObject(Empty, addr, FALSE) \in Objects
  BY NewObjectType, EmptyAssumption
<1>2. f \in Frames
  BY <1>1 DEF Call, Frames, Phases, Null
<1>3. f.fn = fn /\ f.at = addr /\ f.saved = cursor /\ f.ph = "create" /\ ~ f.open
  BY DEF Call
<1>4. FrameReads(im, f)
  BY <1>3 DEF FrameReads, ClassFields, ProtocolFields, ListFields,
              MethodFields, PropertyFields
<1> QED
  BY <1>2, <1>3, <1>4

\* A frame that leaves the code of ph for the code that follows it.
LEMMA GoFrame ==
  ASSUME NEW im, NEW f \in Frames, FrameReads(im, f),
         f.ph \in ListFields \cup {"super_class"}
  PROVE  LET g == Go(f, After[f.ph])
         IN  /\ g \in Frames /\ FrameReads(im, g)
             /\ g.fn = f.fn /\ g.at = f.at /\ g.saved = f.saved
             /\ g.obj = f.obj /\ ~ g.open /\ g.ph # "create"
             /\ g.raw = f.raw
<1> DEFINE g == Go(f, After[f.ph])
<1>1. After[f.ph] \in Phases
  BY DEF After, Phases, ListFields, MethodFields, PropertyFields
<1>2. /\ g \in Frames
      /\ g.fn = f.fn /\ g.at = f.at /\ g.saved = f.saved
      /\ g.obj = f.obj /\ ~ g.open /\ g.raw = f.raw /\ g.ph = After[f.ph]
  BY <1>1 DEF Go, Frames
<1>3. /\ g.ph # "create"
      /\ f.ph \in ClassFields \cup {"super_class"} =>
           After[f.ph] \in ClassFields \cup {"return"}
      /\ f.ph \in ProtocolFields => After[f.ph] \in ProtocolFields \cup {"return"}
  BY <1>2 DEF After, ClassFields, ProtocolFields, ListFields, MethodFields,
              PropertyFields
<1>4. FrameReads(im, g)
  BY <1>2, <1>3 DEF FrameReads, ClassFields, ProtocolFields, ListFields,
                    MethodFields, PropertyFields
<1> QED
  BY <1>2, <1>3, <1>4

-----------------------------------------------------------------------------
(***************************************************************************)
(* The inductive invariant.  The type invariant alone is not inductive: a  *)
(* class goes on with its own lists after a call, so the caller must have  *)
(* read its class_ro_t.  Nor is CursorOnTarget: what a call leaves in the  *)
(* cursor is the position its caller saved.                                *)
(***************************************************************************)
IInv == TypeOK /\ WellNested /\ CursorOnTarget

LEMMA NestedSetTop ==
  ASSUME NEW im, NEW s, FramesOK(im, s), s # << >>, Nested(s),
         NEW f \in Frames, FrameReads(im, f),
         f.fn = s[Len(s)].fn, f.saved = s[Len(s)].saved,
         f.open => f.back = f.at
  PROVE  Nested(SetTop(s, f))
<1> DEFINE t == SetTop(s, f)
<1>1. Len(s) \in Nat \ {0}
  BY TopOfStack
<1>2. DOMAIN s = 1..Len(s)
  BY TopOfStack
<1>3. /\ t # << >> /\ Len(t) = Len(s) /\ t[Len(s)] = f
      /\ \A k \in 1..(Len(s) - 1) : t[k] = s[k]
  BY SetTopFrames
<1>4. DOMAIN t = 1..Len(s)
  BY <1>3, SetTopFrames, TopOfStack
<1> HIDE DEF t
<1>5. \A k \in 1..Len(s) : k = Len(s) \/ k \in 1..(Len(s) - 1)
  BY <1>1
<1>6. t[1].saved = Home
  <2>1. 1 \in 1..Len(s) /\ s[1].saved = Home
    BY <1>1 DEF Nested
  <2> QED
    BY <2>1, <1>3, <1>5
<1>7. \A k \in DOMAIN t : t[k].open => t[k].back = t[k].at
  <2>1. \A k \in 1..Len(s) : s[k].open => s[k].back = s[k].at
    BY <1>2 DEF Nested
  <2>2. \A k \in 1..Len(s) : t[k].open => t[k].back = t[k].at
    BY <2>1, <1>3, <1>5
  <2> QED
    BY <2>2, <1>4
<1>8. ASSUME NEW k \in 1..(Len(t) - 1)
      PROVE  MayCall(t[k], t[k + 1])
  <2>1. k \in 1..(Len(s) - 1) /\ k + 1 \in 1..Len(s)
    BY <1>1, <1>3
  <2>2. MayCall(s[k], s[k + 1])
    BY <2>1 DEF Nested
  <2>3. t[k] = s[k]
    BY <2>1, <1>3
  <2>4. t[k + 1].fn = s[k + 1].fn /\ t[k + 1].saved = s[k + 1].saved
    BY <2>1, <1>3, <1>5
  <2> QED
    BY <2>2, <2>3, <2>4 DEF MayCall
<1> QED
  BY <1>6, <1>7, <1>8 DEF Nested, t

LEMMA NestedPush ==
  ASSUME NEW im, NEW s, FramesOK(im, s), s # << >>, Nested(s),
         NEW g \in Frames, FrameReads(im, g), MayCall(s[Len(s)], g), ~ g.open
  PROVE  Nested(Append(s, g))
<1> DEFINE t == Append(s, g)
<1>1. Len(s) \in Nat \ {0}
  BY TopOfStack
<1>2. DOMAIN s = 1..Len(s)
  BY TopOfStack
<1>3. /\ t # << >> /\ Len(t) = Len(s) + 1 /\ t[Len(s) + 1] = g
      /\ \A k \in 1..Len(s) : t[k] = s[k]
  BY PushFrames
<1>4. DOMAIN t = 1..(Len(s) + 1)
  BY <1>3, PushFrames, TopOfStack
<1> HIDE DEF t
<1>6. t[1].saved = Home
  <2>1. 1 \in 1..Len(s) /\ s[1].saved = Home
    BY <1>1 DEF Nested
  <2> QED
    BY <2>1, <1>3
<1>7. \A k \in DOMAIN t : t[k].open => t[k].back = t[k].at
  <2>1. \A k \in 1..Len(s) : s[k].open => s[k].back = s[k].at
    BY <1>2 DEF Nested
  <2>2. \A k \in 1..(Len(s) + 1) : k = Len(s) + 1 \/ k \in 1..Len(s)
    BY <1>1
  <2>3. \A k \in 1..(Len(s) + 1) : t[k].open => t[k].back = t[k].at
    BY <2>1, <2>2, <1>3
  <2> QED
    BY <2>3, <1>4
<1>8. ASSUME NEW k \in 1..(Len(t) - 1)
      PROVE  MayCall(t[k], t[k + 1])
  <2>1. k \in 1..Len(s) /\ t[k] = s[k]
    BY <1>1, <1>3
  <2>2. CASE k = Len(s)
    BY <2>1, <2>2, <1>3
  <2>3. CASE k # Len(s)
    <3>1. k \in 1..(Len(s) - 1) /\ k + 1 \in 1..Len(s)
      BY <1>1, <2>1, <2>3
    <3>2. MayCall(s[k], s[k + 1]) /\ t[k + 1] = s[k + 1]
      BY <3>1, <1>3 DEF Nested
    <3> QED
      BY <3>2, <2>1
  <2> QED
    BY <2>2, <2>3
<1> QED
  BY <1>6, <1>7, <1>8 DEF Nested, t

LEMMA NestedPop ==
  ASSUME NEW im, NEW s, FramesOK(im, s), s # << >>, Nested(s)
  PROVE  Nested(Pop(s))
<1> DEFINE t == Pop(s)
<1>1. Len(s) \in Nat \ {0}
  BY TopOfStack
<1>2. DOMAIN s = 1..Len(s)
  BY TopOfStack
<1>3. Len(t) = Len(s) - 1 /\ \A k \in 1..(Len(s) - 1) : t[k] = s[k]
  BY PopFrames
<1>4. t # << >> => DOMAIN t = 1..(Len(s) - 1)
  BY <1>3, PopFrames, TopOfStack
<1>5. t # << >> => Len(s) > 1
  <2>1. Len(s) = 1 => t = << >>
    BY PopFrames
  <2> HIDE DEF t
  <2> QED
    BY <1>1, <2>1
<1> HIDE DEF t
<1>6. t # << >> => t[1].saved = Home
  <2>1. t # << >> => 1 \in 1..(Len(s) - 1)
    BY <1>1, <1>5
  <2> QED
    BY <2>1, <1>3 DEF Nested
<1>7. \A k \in DOMAIN t : t[k].open => t[k].back = t[k].at
  <2>1. \A k \in 1..Len(s) : s[k].open => s[k].back = s[k].at
    BY <1>2 DEF Nested
  <2>2. \A k \in 1..(Len(s) - 1) : k \in 1..Len(s)
    BY <1>1
  <2>3. \A k \in 1..(Len(s) - 1) : t[k].open => t[k].back = t[k].at
    BY <2>1, <2>2, <1>3
  <2>4. t = << >> => DOMAIN t = {}
    OBVIOUS
  <2> QED
    BY <2>3, <2>4, <1>4
<1>8. ASSUME NEW k \in 1..(Len(t) - 1)
      PROVE  MayCall(t[k], t[k + 1])
  <2>1. k \in 1..(Len(s) - 1) /\ k + 1 \in 1..(Len(s) - 1)
    BY <1>1, <1>3
  <2>2. MayCall(s[k], s[k + 1])
    BY <2>1 DEF Nested
  <2> QED
    BY <2>1, <2>2, <1>3
<1> QED
  BY <1>6, <1>7, <1>8 DEF Nested, t

-----------------------------------------------------------------------------
(***************************************************************************)
(* What IInv says of the running call and of the call below it.            *)
(***************************************************************************)
LEMMA TopFacts ==
  ASSUME IInv, stack # << >>
  PROVE  /\ IsImage(img) /\ img.imagebase \in Nat /\ pos \in Nat
         /\ Depth \in Nat \ {0}
         /\ Top \in Frames /\ FrameReads(img, Top)
         /\ Top.open => Top.back = Top.at
         /\ Relies(Top) => pos = CursorOf(Top)
         /\ Depth = 1 => Top.saved = Home
<1>1. FramesOK(img, stack) /\ IsImage(img) /\ pos \in Nat
  BY DEF IInv, TypeOK
<1>2. Depth \in Nat \ {0} /\ Top \in Frames /\ FrameReads(img, Top)
  BY <1>1, TopOfStack DEF Depth, Top
<1>3. Top.open => Top.back = Top.at
  <2>1. Depth \in DOMAIN stack
    BY <1>1, <1>2, TopOfStack DEF Depth
  <2> QED
    BY <2>1 DEF IInv, WellNested, Nested, Top
<1>4. Relies(Top) => pos = CursorOf(Top)
  BY DEF IInv, CursorOnTarget
<1>5. Depth = 1 => Top.saved = Home
  BY DEF IInv, WellNested, Nested, Top
<1> QED
  BY <1>1, <1>2, <1>3, <1>4, <1>5 DEF IsImage

LEMMA CallerFacts ==
  ASSUME IInv, stack # << >>, Depth # 1
  PROVE  /\ Caller \in Frames /\ FrameReads(img, Caller)
         /\ MayCall(Caller, Top)
         /\ Caller.open => Caller.back = Caller.at
         /\ FramesOK(img, Pop(stack)) /\ Pop(stack) # << >>
         /\ Len(Pop(stack)) = Depth - 1 /\ Pop(stack)[Depth - 1] = Caller
         /\ Nested(Pop(stack))
<1>1. FramesOK(img, stack) /\ Nested(stack)
  BY DEF IInv, TypeOK, WellNested
<1>2. Depth \in Nat \ {0} /\ Depth - 1 \in 1..(Depth - 1) /\ Depth > 1
  BY TopFacts
<1>3. /\ FramesOK(img, Pop(stack)) /\ Pop(stack) # << >>
      /\ Len(Pop(stack)) = Depth - 1
      /\ Pop(stack)[Depth - 1] = Caller
  BY <1>1, <1>2, PopFrames DEF Depth, Caller
<1>4. Caller \in Frames /\ FrameReads(img, Caller)
  BY <1>3, TopOfStack
<1>5. Nested(Pop(stack))
  BY <1>1, NestedPop
<1>6. MayCall(Caller, Top)
  <2>1. MayCall(stack[Depth - 1], stack[Depth - 1 + 1])
    BY <1>1, <1>2 DEF Nested, Depth
  <2>2. Depth - 1 + 1 = Depth
    BY <1>2
  <2> QED
    BY <2>1, <2>2 DEF Caller, Top
<1>7. Caller.open => Caller.back = Caller.at
  <2>1. Depth - 1 \in DOMAIN Pop(stack)
    BY <1>2, <1>3, TopOfStack
  <2> QED
    BY <2>1, <1>3, <1>5 DEF Nested
<1> QED
  BY <1>3, <1>4, <1>5, <1>6, <1>7

-----------------------------------------------------------------------------
(***************************************************************************)
(* The four shapes of a step: the running call goes on, it makes a call,   *)
(* it returns to its caller, it returns to the loop over the section.      *)
(***************************************************************************)
LEMMA StepOn ==
  ASSUME IInv, stack # << >>,
         NEW f \in Frames, FrameReads(img, f),
         f.fn = Top.fn, f.saved = Top.saved, f.open => f.back = f.at,
         img' = img, stack' = SetTop(stack, f), TablesOK',
         pos' \in Nat, Relies(f) => pos' = CursorOf(f)
  PROVE  IInv'
<1>1. FramesOK(img, stack) /\ Nested(stack) /\ IsImage(img)
  BY DEF IInv, TypeOK, WellNested
<1>2. /\ FramesOK(img, stack') /\ stack' # << >>
      /\ Len(stack') = Len(stack) /\ stack'[Len(stack)] = f
  BY <1>1, SetTopFrames
<1>3. Nested(stack')
  BY <1>1, NestedSetTop DEF Top, Depth
<1>4. TypeOK'
  BY <1>1, <1>2 DEF TypeOK
<1>5. CursorOnTarget'
  <2>1. Top' = f
    BY <1>2 DEF Top, Depth
  <2> QED
    BY <2>1, <1>2 DEF CursorOnTarget, Relies, CursorOf
<1> QED
  BY <1>3, <1>4, <1>5 DEF IInv, WellNested, Nested, MayCall, CursorOf

LEMMA StepCall ==
  ASSUME IInv, stack # << >>,
         NEW f \in Frames, FrameReads(img, f),
         f.fn = Top.fn, f.saved = Top.saved, f.open => f.back = f.at,
         NEW g \in Frames, FrameReads(img, g), MayCall(f, g), ~ g.open,
         img' = img, stack' = Append(SetTop(stack, f), g), TablesOK',
         pos' \in Nat, pos' = g.at
  PROVE  IInv'
<1> DEFINE s == SetTop(stack, f)
<1>1. FramesOK(img, stack) /\ Nested(stack) /\ IsImage(img)
  BY DEF IInv, TypeOK, WellNested
<1>2. /\ FramesOK(img, s) /\ s # << >>
      /\ Len(s) = Len(stack) /\ s[Len(stack)] = f
  BY <1>1, SetTopFrames
<1>3. Nested(s)
  BY <1>1, NestedSetTop DEF Top, Depth
<1> HIDE DEF s
<1>4. /\ FramesOK(img, Append(s, g)) /\ Append(s, g) # << >>
      /\ Len(Append(s, g)) = Len(s) + 1 /\ Append(s, g)[Len(s) + 1] = g
  BY <1>2, PushFrames
<1>5. Nested(Append(s, g))
  BY <1>2, <1>3, NestedPush
<1>6. stack' = Append(s, g)
  BY DEF s
<1>7. TypeOK'
  BY <1>1, <1>4, <1>6 DEF TypeOK
<1>8. CursorOnTarget'
  <2>1. Top' = g /\ stack' # << >>
    BY <1>4, <1>6 DEF Top, Depth
  <2> QED
    BY <2>1 DEF CursorOnTarget, Relies, CursorOf
<1> QED
  BY <1>5, <1>6, <1>7, <1>8 DEF IInv, WellNested, Nested, MayCall, CursorOf

LEMMA StepReturn ==
  ASSUME IInv, stack # << >>, Depth # 1,
         NEW f \in Frames, FrameReads(img, f),
         f.fn = Caller.fn, f.saved = Caller.saved, f.open => f.back = f.at,
         CursorOf(f) = CursorOf(Caller),
         img' = img, stack' = SetTop(Pop(stack), f), TablesOK',
         pos' = Top.saved
  PROVE  IInv'
<1> DEFINE s == Pop(stack)
<1>1. /\ FramesOK(img, s) /\ s # << >> /\ Nested(s)
      /\ s[Len(s)] = Caller
      /\ MayCall(Caller, Top)
  BY CallerFacts
<1>2. IsImage(img) /\ pos' \in Nat
  BY TopFacts DEF Frames
<1>3. stack' = SetTop(s, f)
  OBVIOUS
<1> HIDE DEF s
<1>4. /\ FramesOK(img, stack') /\ stack' # << >>
      /\ Len(stack') = Len(s) /\ stack'[Len(s)] = f
  BY <1>1, <1>3, SetTopFrames
<1>5. Nested(stack')
  BY <1>1, <1>3, NestedSetTop
<1>6. TypeOK'
  BY <1>2, <1>4 DEF TypeOK
<1>7. CursorOnTarget'
  <2>1. Top' = f
    BY <1>4 DEF Top, Depth
  <2>2. pos' = CursorOf(f)
    BY <1>1 DEF MayCall
  <2> QED
    BY <2>1, <2>2, <1>4 DEF CursorOnTarget, Relies, CursorOf
<1> QED
  BY <1>5, <1>6, <1>7 DEF IInv, WellNested, Nested, MayCall, CursorOf

LEMMA StepLeave ==
  ASSUME IInv, stack # << >>, Depth = 1,
         img' = img, stack' = << >>, TablesOK', pos' = Top.saved
  PROVE  IInv'
<1>1. IsImage(img) /\ pos' = Home
  BY TopFacts
<1>2. FramesOK(img, stack')
  BY EmptyStack
<1>3. TypeOK'
  BY <1>1, <1>2 DEF TypeOK, Home
<1>4. CursorOnTarget'
  BY <1>1 DEF CursorOnTarget, Home
<1>5. Nested(stack')
  BY EmptySeq DEF Nested
<1> QED
  BY <1>3, <1>4, <1>5 DEF IInv, WellNested, Nested, MayCall, CursorOf

LEMMA SameTables ==
  ASSUME IInv, UNCHANGED <<stage, idx, cache, metadata>>
  PROVE  TablesOK'
BY DEF IInv, TypeOK, TablesOK, metadata

-----------------------------------------------------------------------------
(***************************************************************************)
(* The actions.                                                            *)
(***************************************************************************)
LEMMA InitIInv == Init => IInv
<1> SUFFICES ASSUME Init PROVE IInv
  OBVIOUS
<1>1. IsImage(img)
  BY ImagesAssumption DEF Init
<1>2. FramesOK(img, stack)
  BY EmptyStack DEF Init
<1>3. TablesOK
  BY EmptySeq DEF Init, TablesOK
<1>4. TypeOK
  BY <1>1, <1>2, <1>3 DEF TypeOK, Init, Home
<1>5. WellNested
  BY EmptySeq DEF Init, WellNested, Nested
<1>6. CursorOnTarget
  BY DEF Init, CursorOnTarget
<1> QED
  BY <1>4, <1>5, <1>6 DEF IInv

LEMMA SectionActions ==
  ASSUME IInv, ProcessEntry \/ SectionDone
  PROVE  IInv'
<1>1. /\ IsImage(img) /\ TablesOK /\ idx \in Nat \ {0}
      /\ stack = << >> /\ pos = Home /\ Home \in Nat
  BY DEF IInv, TypeOK, TablesOK, CursorOnTarget, ProcessEntry, SectionDone, Home
<1>2. CASE ProcessEntry
  <2> DEFINE location == Decode(img, Section[idx])
             fn == IF stage = "protocols" THEN "Protocol" ELSE "Class"
             f == Call(fn, location, pos)
  <2>1. Section \in Seq(Nat)
    BY <1>1, SectionType DEF Section, IsImage
  <2>2. Section[idx] \in Nat
    <3>1. Len(Section) \in Nat
      BY <2>1, LenProperties
    <3>2. idx \in 1..Len(Section)
      BY <1>1, <1>2, <3>1 DEF ProcessEntry
    <3> QED
      BY <2>1, <3>2, ElementOfSeq
  <2>3. location \in Nat
    BY <1>1, <2>2, DecodeNat DEF IsImage
  <2>4. fn \in {"Class", "Protocol"}
    OBVIOUS
  <2>5. stack' = <<f>> /\ pos' = location /\ img' = img
    BY <1>2 DEF ProcessEntry
  <2> HIDE DEF location, fn
  <2>6. /\ f \in Frames /\ FrameReads(img, f) /\ f.at = location
        /\ f.saved = Home /\ ~ f.open
    <3>1. pos \in Nat
      BY <1>1
    <3>2. /\ f \in Frames /\ FrameReads(img, f) /\ f.at = location
          /\ f.saved = pos /\ ~ f.open
      BY <2>3, <2>4, <3>1, CallFrame
    <3> QED
      BY <1>1, <3>2
  <2> HIDE DEF f
  <2>7. /\ <<f>> \in Seq(Frames) /\ <<f>> # << >> /\ Len(<<f>>) = 1
        /\ DOMAIN <<f>> = {1} /\ <<f>>[1] = f
    BY <2>6
  <2>8. FramesOK(img, <<f>>)
    BY <2>6, <2>7 DEF FramesOK
  <2>9. Nested(<<f>>)
    BY <2>6, <2>7 DEF Nested
  <2>10. TablesOK'
    BY <1>1, <1>2 DEF ProcessEntry, TablesOK, metadata
  <2>11. TypeOK'
    BY <1>1, <2>3, <2>5, <2>8, <2>10 DEF TypeOK
  <2>12. CursorOnTarget'
    <3>1. Top' = f /\ stack' # << >>
      BY <2>5, <2>7 DEF Top, Depth
    <3> QED
      BY <2>5, <2>6, <3>1 DEF CursorOnTarget, CursorOf
  <2> QED
    BY <2>5, <2>9, <2>11, <2>12
       DEF IInv, WellNested, Nested, MayCall, CursorOf
<1>3. CASE SectionDone
  <2>1. stack' = << >> /\ pos' = pos /\ img' = img
    BY <1>1, <1>3 DEF SectionDone
  <2>2. TablesOK'
    BY <1>1, <1>3 DEF SectionDone, TablesOK, metadata
  <2>3. TypeOK'
    BY <1>1, <2>1, <2>2, EmptyStack DEF TypeOK
  <2>4. CursorOnTarget' /\ Nested(stack')
    BY <1>1, <2>1, EmptySeq DEF CursorOnTarget, Nested
  <2> QED
    BY <2>3, <2>4 DEF IInv, WellNested, Nested, MayCall, CursorOf
<1> QED
  BY <1>2, <1>3

LEMMA ReadableClass ==
  ASSUME NEW im, IsImage(im), NEW addr, ClassReadable(im, addr)
  PROVE  LET ro == ClassRoPtr(im, Cell(im, addr))
         IN  /\ Cell(im, addr).isa \in Nat
             /\ ro \in Nat /\ Has(im, "class_ro", ro)
             /\ Cell(im, ro).is_meta \in BOOLEAN
<1> DEFINE c == Cell(im, addr)
           ro == ClassRoPtr(im, c)
<1>1. Has(im, "class", addr) /\ Has(im, "class_ro", ro)
  BY DEF ClassReadable
<1>2. c \in Cells /\ c.kind = "class"
  BY <1>1, CellIsCell
<1>3. c.isa \in Nat /\ c.bits \in Nat /\ c.rw_ro \in Nat
  BY <1>2, ClassCell
<1>4. Decode(im, c.bits) \in Nat
  BY <1>3, DecodeNat DEF IsImage
<1>5. ro \in Nat
  BY <1>3, <1>4 DEF ClassRoPtr
<1>6. Cell(im, ro).is_meta \in BOOLEAN
  BY <1>1, CellIsCell, ClassRoCell
<1> QED
  BY <1>1, <1>3, <1>5, <1>6

LEMMA MappedMethods ==
  ASSUME NEW methods \in Seq(Methods)
  PROVE  [m \in DOMAIN methods |-> [methods[m] EXCEPT !.is_instance = FALSE]]
           \in Seq(Methods)
<1>1. DOMAIN methods = 1..Len(methods) /\ Len(methods) \in Nat
  BY LenProperties
<1>2. \A m \in DOMAIN methods : methods[m] \in Methods
  BY <1>1, ElementOfSeq
<1>3. \A m \in DOMAIN methods :
        [methods[m] EXCEPT !.is_instance = FALSE] \in Methods
  BY <1>2 DEF Methods
<1> DEFINE t == [m \in DOMAIN methods |-> [methods[m] EXCEPT !.is_instance = FALSE]]
<1>4. t \in [1..Len(methods) -> Methods]
  BY <1>1, <1>3
<1> HIDE DEF t
<1>5. t \in Seq(Methods)
  BY <1>1, <1>4, SeqDef
<1> QED
  BY <1>5 DEF t

\* A frame whose object takes the methods of its super class, or a protocol.
LEMMA TakeMethodsFrame ==
  ASSUME NEW im, NEW f \in Frames, FrameReads(im, f), NEW methods \in Seq(Methods)
  PROVE  LET g == TakeMethods(f, methods)
         IN  /\ g \in Frames /\ FrameReads(im, g)
             /\ g.fn = f.fn /\ g.at = f.at /\ g.saved = f.saved
             /\ g.ph = f.ph /\ g.open = f.open
<1> DEFINE new == [m \in DOMAIN methods |->
                     [methods[m] EXCEPT !.is_instance = FALSE]]
           g == TakeMethods(f, methods)
<1>1. new \in Seq(Methods)
  BY MappedMethods
<1> HIDE DEF new
<1>2. f.obj \in Objects
  BY DEF Frames
<1>3. f.obj.methods \o new \in Seq(Methods)
  BY <1>1, <1>2, ConcatProperties DEF Objects
<1>4. [f.obj EXCEPT !.methods = f.obj.methods \o new] \in Objects
  BY <1>2, <1>3 DEF Objects
<1>5. g = [f EXCEPT !.obj = [f.obj EXCEPT !.methods = f.obj.methods \o new]]
  BY <1>2 DEF TakeMethods, new, Frames, Objects
<1> HIDE DEF g
<1>6. /\ g \in Frames /\ g.raw = f.raw /\ g.list = f.list
      /\ g.fn = f.fn /\ g.at = f.at /\ g.saved = f.saved
      /\ g.ph = f.ph /\ g.open = f.open
  BY <1>4, <1>5 DEF Frames
<1>7. FrameReads(im, g)
  BY <1>6 DEF FrameReads
<1> QED
  BY <1>6, <1>7 DEF g

LEMMA AdoptFrame ==
  ASSUME NEW im, NEW f \in Frames, FrameReads(im, f), NEW proto \in Nat
  PROVE  LET g == Adopt(f, proto)
         IN  /\ g \in Frames /\ FrameReads(im, g)
             /\ g.fn = f.fn /\ g.at = f.at /\ g.saved = f.saved
             /\ g.ph = f.ph /\ g.open = f.open
             /\ g.list = f.list /\ g.back = f.back /\ g.i = f.i
<1> DEFINE g == Adopt(f, proto)
<1>1. f.obj \in Objects
  BY DEF Frames
<1>2. [f.obj EXCEPT !.protocols = Append(f.obj.protocols, proto)] \in Objects
  BY <1>1, AppendProperties DEF Objects
<1>3. g = [f EXCEPT !.obj =
             [f.obj EXCEPT !.protocols = Append(f.obj.protocols, proto)]]
  BY <1>1 DEF Adopt, Frames, Objects
<1> HIDE DEF g
<1>4. /\ g \in Frames /\ g.raw = f.raw
      /\ g.fn = f.fn /\ g.at = f.at /\ g.saved = f.saved
      /\ g.ph = f.ph /\ g.open = f.open
      /\ g.list = f.list /\ g.back = f.back /\ g.i = f.i
  BY <1>2, <1>3 DEF Frames
<1>5. FrameReads(im, g)
  BY <1>4 DEF FrameReads
<1> QED
  BY <1>4, <1>5 DEF g

LEMMA CreateClassStep ==
  ASSUME IInv, CreateClass
  PROVE  IInv'
<1> DEFINE ro == ClassRoPtr(img, Cell(img, pos))
           raw == Cell(img, ro)
           obj == NewObject(StringAt(img, Decode(img, raw.name)), Top.at,
                            raw.is_meta)
           f == [Top EXCEPT !.ph = "super_class", !.raw = ro,
                            !.isa = Cell(img, pos).isa, !.obj = obj]
<1>1. /\ stack # << >> /\ Top.fn = "Class" /\ Top.ph = "create"
      /\ ClassReadable(img, pos)
      /\ stack' = SetTop(stack, f) /\ pos' = pos /\ img' = img
  BY DEF CreateClass, Running
<1>2. /\ IsImage(img) /\ pos \in Nat /\ Top \in Frames /\ FrameReads(img, Top)
      /\ Relies(Top) => pos = CursorOf(Top)
  BY <1>1, TopFacts
<1>3. /\ Cell(img, pos).isa \in Nat /\ ro \in Nat /\ Has(img, "class_ro", ro)
      /\ raw.is_meta \in BOOLEAN
  BY <1>1, <1>2, ReadableClass
<1>4. obj \in Objects
  BY <1>2, <1>3, StringAtType, NewObjectType DEF Frames
<1> HIDE DEF ro, raw, obj
<1>5. /\ f \in Frames /\ f.fn = Top.fn /\ f.at = Top.at /\ f.saved = Top.saved
      /\ f.ph = "super_class" /\ f.raw = ro /\ f.open = Top.open
  BY <1>2, <1>3, <1>4 DEF Frames, Phases
<1>6. ~ Top.open
  BY <1>1, <1>2 DEF FrameReads, ListFields, MethodFields, PropertyFields
<1>7. FrameReads(img, f)
  BY <1>1, <1>3, <1>5, <1>6 DEF FrameReads, ClassFields, ProtocolFields,
                                ListFields, MethodFields, PropertyFields
<1>8. pos' = CursorOf(f)
  BY <1>1, <1>2, <1>5, <1>6 DEF CursorOf, Relies
<1>9. TablesOK'
  BY SameTables DEF CreateClass
<1> HIDE DEF f
<1> QED
  BY <1>1, <1>2, <1>5, <1>6, <1>7, <1>8, <1>9, StepOn

\* The caller of a create() for the isa goes on with its own lists.
LEMMA AfterSuper ==
  ASSUME IInv, stack # << >>, Depth # 1, Top.fn = "Class"
  PROVE  LET g == Go(Caller, After["super_class"])
         IN  /\ g \in Frames /\ FrameReads(img, g)
             /\ g.fn = Caller.fn /\ g.saved = Caller.saved /\ ~ g.open
             /\ CursorOf(g) = CursorOf(Caller)
<1> DEFINE g == Go(Caller, After["super_class"])
<1>1. /\ Caller \in Frames /\ FrameReads(img, Caller)
      /\ Caller.ph = "super_class"
  BY CallerFacts DEF MayCall
<1>2. ~ Caller.open
  BY <1>1 DEF FrameReads, ListFields, MethodFields, PropertyFields
<1>3. /\ g \in Frames /\ FrameReads(img, g)
      /\ g.fn = Caller.fn /\ g.at = Caller.at /\ g.saved = Caller.saved
      /\ ~ g.open
  BY <1>1, GoFrame
<1> QED
  BY <1>2, <1>3 DEF CursorOf

LEMMA ClassFailedStep ==
  ASSUME IInv, ClassFailed
  PROVE  IInv'
<1>1. /\ stack # << >> /\ Top.fn = "Class" /\ pos' = Top.saved /\ img' = img
  BY DEF ClassFailed, Running
<1>2. TablesOK'
  BY SameTables DEF ClassFailed
<1>3. CASE Depth = 1
  <2>1. stack' = << >>
    BY <1>3 DEF ClassFailed
  <2> QED
    BY <1>1, <1>2, <1>3, <2>1, StepLeave
<1>4. CASE Depth # 1
  <2> DEFINE g == Go(Caller, After["super_class"])
  <2>1. stack' = SetTop(Pop(stack), g)
    BY <1>4 DEF ClassFailed
  <2>2. /\ g \in Frames /\ FrameReads(img, g)
        /\ g.fn = Caller.fn /\ g.saved = Caller.saved /\ ~ g.open
        /\ CursorOf(g) = CursorOf(Caller)
    BY <1>1, <1>4, AfterSuper
  <2> HIDE DEF g
  <2> QED
    BY <1>1, <1>2, <1>4, <2>1, <2>2, StepReturn
<1> QED
  BY <1>3, <1>4

LEMMA ParseSuperStep ==
  ASSUME IInv, ParseSuper
  PROVE  IInv'
<1> DEFINE addr == Decode(img, Top.isa)
           g == Call("Class", addr, pos)
<1>1. /\ stack # << >> /\ Top.fn = "Class" /\ Top.ph = "super_class"
      /\ stack' = Append(stack, g) /\ pos' = addr /\ img' = img
  BY DEF ParseSuper, Running
<1>2. /\ IsImage(img) /\ pos \in Nat /\ Top \in Frames /\ FrameReads(img, Top)
      /\ Relies(Top) => pos = CursorOf(Top)
      /\ Top.open => Top.back = Top.at
  BY <1>1, TopFacts
<1>3. addr \in Nat
  BY <1>2, DecodeNat DEF Frames, IsImage
<1> HIDE DEF addr
<1>4. /\ g \in Frames /\ FrameReads(img, g)
      /\ g.fn = "Class" /\ g.at = addr /\ g.saved = pos /\ ~ g.open
  BY <1>2, <1>3, CallFrame
<1>5. ~ Top.open
  BY <1>1, <1>2 DEF FrameReads, ListFields, MethodFields, PropertyFields
<1>6. MayCall(Top, g)
  BY <1>1, <1>2, <1>4, <1>5 DEF MayCall, Relies
<1>7. SetTop(stack, Top) = stack
  <2>1. stack \in Seq(Frames)
    BY DEF IInv, TypeOK, FramesOK
  <2> QED
    BY <2>1 DEF SetTop, Top, Depth
<1>8. TablesOK'
  BY SameTables DEF ParseSuper
<1> HIDE DEF g
<1> QED
  BY <1>1, <1>2, <1>3, <1>4, <1>6, <1>7, <1>8, StepCall

\* NoSuper, NoList and CloseList: the code after a member that was read.
LEMMA GoOnStep ==
  ASSUME IInv, stack # << >>, Top.ph \in ListFields \cup {"super_class"},
         img' = img, stack' = SetTop(stack, Go(Top, After[Top.ph])), TablesOK',
         pos' = IF Top.open THEN Top.back ELSE pos
  PROVE  IInv'
<1> DEFINE g == Go(Top, After[Top.ph])
<1>1. /\ pos \in Nat /\ Top \in Frames /\ FrameReads(img, Top)
      /\ Relies(Top) => pos = CursorOf(Top)
      /\ Top.open => Top.back = Top.at
  BY TopFacts
<1>2. /\ g \in Frames /\ FrameReads(img, g)
      /\ g.fn = Top.fn /\ g.at = Top.at /\ g.saved = Top.saved /\ ~ g.open
  BY <1>1, GoFrame
<1> HIDE DEF g
<1>3. pos' \in Nat /\ pos' = CursorOf(g)
  BY <1>1, <1>2 DEF CursorOf, Relies, Frames
<1>4. stack' = SetTop(stack, g)
  BY DEF g
<1> QED
  BY <1>2, <1>3, <1>4, StepOn

LEMMA NoSuperStep ==
  ASSUME IInv, NoSuper
  PROVE  IInv'
<1>1. /\ stack # << >> /\ Top.ph = "super_class" /\ img' = img /\ pos' = pos
      /\ stack' = SetTop(stack, Go(Top, After[Top.ph]))
  BY DEF NoSuper, Running
<1>2. ~ Top.open
  BY <1>1, TopFacts DEF FrameReads, ListFields, MethodFields, PropertyFields
<1>3. TablesOK'
  BY SameTables DEF NoSuper
<1> QED
  BY <1>1, <1>2, <1>3, GoOnStep

LEMMA ReturnSuperStep ==
  ASSUME IInv, ReturnSuper
  PROVE  IInv'
<1> DEFINE g == Go(Caller, After["super_class"])
           h == TakeMethods(g, Top.obj.methods)
<1>1. /\ stack # << >> /\ Top.fn = "Class" /\ pos' = Top.saved /\ img' = img
      /\ stack' = SetTop(Pop(stack), h) /\ Depth > 1
  BY DEF ReturnSuper, Running
<1>2. Depth # 1 /\ Top \in Frames
  BY <1>1, TopFacts
<1>3. Top.obj.methods \in Seq(Methods)
  BY <1>2 DEF Frames, Objects
<1>4. /\ g \in Frames /\ FrameReads(img, g)
      /\ g.fn = Caller.fn /\ g.saved = Caller.saved /\ ~ g.open
      /\ CursorOf(g) = CursorOf(Caller)
  BY <1>1, <1>2, AfterSuper
<1> HIDE DEF g
<1>5. /\ h \in Frames /\ FrameReads(img, h)
      /\ h.fn = g.fn /\ h.at = g.at /\ h.saved = g.saved /\ h.open = g.open
  BY <1>3, <1>4, TakeMethodsFrame
<1>6. CursorOf(h) = CursorOf(Caller)
  BY <1>4, <1>5 DEF CursorOf
<1>7. TablesOK'
  BY SameTables DEF ReturnSuper
<1> HIDE DEF h
<1> QED
  BY <1>1, <1>2, <1>4, <1>5, <1>6, <1>7, StepReturn

LEMMA PutType ==
  ASSUME NEW f, f \in [DOMAIN f -> Nat], NEW x, NEW y \in Nat
  PROVE  LET g == Put(f, x, y) IN g \in [DOMAIN g -> Nat]
BY DEF Put

LEMMA StoreClassStep ==
  ASSUME IInv, StoreClass
  PROVE  IInv'
<1>1. /\ stack # << >> /\ Depth = 1
      /\ stack' = << >> /\ pos' = Top.saved /\ img' = img
  BY DEF StoreClass, Running
<1>2. Top.obj \in Objects
  BY <1>1, TopFacts DEF Frames
<1>3. TablesOK
  BY DEF IInv, TypeOK
<1>4. Len(classes) + 1 \in Nat /\ Append(classes, Top.obj) \in Seq(Objects)
  BY <1>2, <1>3, LenProperties, AppendProperties DEF TablesOK
<1>5. classes_lookup' \in [DOMAIN classes_lookup' -> Nat]
  BY <1>3, <1>4, PutType DEF StoreClass, TablesOK
<1>6. TablesOK'
  BY <1>3, <1>4, <1>5 DEF TablesOK, StoreClass
<1> QED
  BY <1>1, <1>6, StepLeave

LEMMA CreateProtocolStep ==
  ASSUME IInv, CreateProtocol
  PROVE  IInv'
<1> DEFINE obj == NewObject(
             StringAt(img, Decode(img, Cell(img, pos).mangled_name)),
             Top.at, FALSE)
           f == [Top EXCEPT !.ph = "instance_methods", !.raw = pos, !.obj = obj]
<1>1. /\ stack # << >> /\ Top.fn = "Protocol" /\ Top.ph = "create"
      /\ Has(img, "protocol", pos)
      /\ stack' = SetTop(stack, f) /\ pos' = pos /\ img' = img
  BY DEF CreateProtocol, Running
<1>2. /\ IsImage(img) /\ pos \in Nat /\ Top \in Frames /\ FrameReads(img, Top)
      /\ Relies(Top) => pos = CursorOf(Top)
  BY <1>1, TopFacts
<1>3. obj \in Objects
  BY <1>2, StringAtType, NewObjectType DEF Frames
<1> HIDE DEF obj
<1>4. /\ f \in Frames /\ f.fn = Top.fn /\ f.at = Top.at /\ f.saved = Top.saved
      /\ f.ph = "instance_methods" /\ f.raw = pos /\ f.open = Top.open
  BY <1>2, <1>3 DEF Frames, Phases, ListFields, MethodFields
<1>5. ~ Top.open
  BY <1>1, <1>2 DEF FrameReads, ListFields, MethodFields, PropertyFields
<1>6. FrameReads(img, f)
  BY <1>1, <1>4, <1>5 DEF FrameReads, ClassFields, ProtocolFields,
                          ListFields, MethodFields, PropertyFields
<1>7. pos' = CursorOf(f)
  BY <1>1, <1>2, <1>4, <1>5 DEF CursorOf, Relies
<1>8. TablesOK'
  BY SameTables DEF CreateProtocol
<1> HIDE DEF f
<1> QED
  BY <1>1, <1>2, <1>4, <1>5, <1>6, <1>7, <1>8, StepOn

\* A protocol that a class refers to returns into the base_protocols loop.
LEMMA ProtocolCaller ==
  ASSUME IInv, stack # << >>, Depth # 1, Top.fn = "Protocol"
  PROVE  /\ Caller \in Frames /\ FrameReads(img, Caller)
         /\ Caller.open => Caller.back = Caller.at
         /\ Pop(stack) = SetTop(Pop(stack), Caller)
<1>1. /\ Caller \in Frames /\ FrameReads(img, Caller)
      /\ Caller.open => Caller.back = Caller.at
      /\ FramesOK(img, Pop(stack)) /\ Pop(stack) # << >>
      /\ Len(Pop(stack)) = Depth - 1 /\ Pop(stack)[Depth - 1] = Caller
  BY CallerFacts
<1>2. Pop(stack) \in Seq(Frames)
  BY <1>1 DEF FramesOK
<1> QED
  BY <1>1, <1>2 DEF SetTop

LEMMA ProtocolFailedStep ==
  ASSUME IInv, ProtocolFailed
  PROVE  IInv'
<1>1. /\ stack # << >> /\ Top.fn = "Protocol"
      /\ stack' = Pop(stack) /\ pos' = Top.saved /\ img' = img
  BY DEF ProtocolFailed, Running
<1>2. TablesOK'
  BY SameTables DEF ProtocolFailed
<1>3. CASE Depth = 1
  <2>1. Pop(stack) = << >>
    BY <1>1, <1>3, PopFrames DEF IInv, TypeOK, Depth
  <2> QED
    BY <1>1, <1>2, <1>3, <2>1, StepLeave
<1>4. CASE Depth # 1
  BY <1>1, <1>2, <1>4, ProtocolCaller, StepReturn
<1> QED
  BY <1>3, <1>4

LEMMA StoreProtocolTables ==
  ASSUME IInv, stack # << >>, StoreProtocol,
         cache' \in [DOMAIN cache' -> Nat]
  PROVE  TablesOK' /\ Len(protocols) + 1 \in Nat
<1>1. Top.obj \in Objects
  BY TopFacts DEF Frames
<1>2. TablesOK
  BY DEF IInv, TypeOK
<1>3. /\ Len(protocols) + 1 \in Nat
      /\ Append(protocols, Top.obj) \in Seq(Objects)
  BY <1>1, <1>2, LenProperties, AppendProperties DEF TablesOK
<1>4. protocol_lookup' \in [DOMAIN protocol_lookup' -> Nat]
  BY <1>2, <1>3, PutType DEF StoreProtocol, TablesOK
<1> QED
  BY <1>2, <1>3, <1>4 DEF TablesOK, StoreProtocol

LEMMA StoreListedProtocolStep ==
  ASSUME IInv, StoreListedProtocol
  PROVE  IInv'
<1>1. /\ stack # << >> /\ Depth = 1 /\ StoreProtocol
      /\ stack' = << >> /\ pos' = Top.saved /\ img' = img
  BY DEF StoreListedProtocol, StoreProtocol, Running
<1>2. TablesOK /\ Len(protocols) + 1 \in Nat
  BY LenProperties DEF IInv, TypeOK, TablesOK
<1>3. cache' \in [DOMAIN cache' -> Nat]
  BY <1>2, PutType DEF StoreListedProtocol, TablesOK
<1>4. TablesOK'
  BY <1>1, <1>3, StoreProtocolTables
<1> QED
  BY <1>1, <1>4, StepLeave

LEMMA StoreAdoptedProtocolStep ==
  ASSUME IInv, StoreAdoptedProtocol
  PROVE  IInv'
<1> DEFINE g == Adopt(Caller, Len(protocols) + 1)
<1>1. /\ stack # << >> /\ Top.fn = "Protocol" /\ Depth > 1 /\ StoreProtocol
      /\ stack' = SetTop(Pop(stack), g) /\ pos' = Top.saved /\ img' = img
      /\ cache' = cache
  BY DEF StoreAdoptedProtocol, StoreProtocol, Running
<1>2. Depth # 1
  BY <1>1, TopFacts
<1>3. cache' \in [DOMAIN cache' -> Nat]
  BY <1>1 DEF IInv, TypeOK, TablesOK
<1>4. TablesOK' /\ Len(protocols) + 1 \in Nat
  BY <1>1, <1>3, StoreProtocolTables
<1>5. /\ Caller \in Frames /\ FrameReads(img, Caller)
      /\ Caller.open => Caller.back = Caller.at
  BY <1>1, <1>2, ProtocolCaller
<1>6. /\ g \in Frames /\ FrameReads(img, g)
      /\ g.fn = Caller.fn /\ g.at = Caller.at /\ g.saved = Caller.saved
      /\ g.open = Caller.open /\ g.list = Caller.list
      /\ g.back = Caller.back /\ g.i = Caller.i
  BY <1>4, <1>5, AdoptFrame
<1> HIDE DEF g
<1>7. CursorOf(g) = CursorOf(Caller)
  BY <1>6 DEF CursorOf
<1> QED
  BY <1>1, <1>2, <1>4, <1>5, <1>6, <1>7, StepReturn

LEMMA ListPtrNat ==
  ASSUME IInv, stack # << >>, Top.ph \in ListFields
  PROVE  ListPtr \in Nat
<1>1. IsImage(img) /\ FrameReads(img, Top)
  BY TopFacts
<1>2. CASE Top.ph \in ClassFields
  <2>1. Has(img, "class_ro", Top.raw)
    BY <1>1, <1>2 DEF FrameReads
  <2> QED
    BY <1>1, <1>2, <2>1, CellIsCell, ClassRoCell DEF ListPtr
<1>3. CASE Top.ph \in ProtocolFields
  <2>1. Has(img, "protocol", Top.raw)
    BY <1>1, <1>3 DEF FrameReads
  <2> QED
    BY <1>1, <1>3, <2>1, CellIsCell, ProtocolCell DEF ListPtr
<1> QED
  BY <1>2, <1>3 DEF ProtocolFields

LEMMA OpenListStep ==
  ASSUME IInv, OpenList
  PROVE  IInv'
<1> DEFINE list == Decode(img, ListPtr)
           n == Cell(img, list).count
           f == [Top EXCEPT !.open = TRUE, !.list = list, !.back = pos,
                            !.i = 0, !.n = n]
<1>1. /\ stack # << >> /\ Top.ph \in ListFields /\ ~ Top.open
      /\ Has(img, ListKind(Top.ph), list)
      /\ stack' = SetTop(stack, f) /\ pos' = list + 1 /\ img' = img
  BY DEF OpenList, BeforeList, ListReadable
<1>2. /\ IsImage(img) /\ pos \in Nat /\ Top \in Frames /\ FrameReads(img, Top)
      /\ pos = Top.at
  BY <1>1, TopFacts DEF Relies, CursorOf
<1>3. list \in Nat
  BY <1>1, <1>2, ListPtrNat, DecodeNat DEF IsImage
<1> HIDE DEF list
<1>4. n \in Nat
  BY <1>1, <1>2, CellIsCell, ListCell
<1> HIDE DEF n
<1>5. /\ f \in Frames /\ f.fn = Top.fn /\ f.at = Top.at /\ f.saved = Top.saved
      /\ f.ph = Top.ph /\ f.raw = Top.raw
      /\ f.open /\ f.list = list /\ f.back = pos /\ f.i = 0
  BY <1>2, <1>3, <1>4 DEF Frames
<1> HIDE DEF f
<1>6. FrameReads(img, f)
  BY <1>1, <1>2, <1>5 DEF FrameReads
<1>7. pos' \in Nat /\ pos' = CursorOf(f)
  BY <1>1, <1>3, <1>5 DEF CursorOf
<1>8. TablesOK'
  BY SameTables DEF OpenList
<1> QED
  BY <1>1, <1>2, <1>5, <1>6, <1>7, <1>8, StepOn

LEMMA NoListStep ==
  ASSUME IInv, NoList
  PROVE  IInv'
<1>1. TablesOK'
  BY SameTables DEF NoList
<1> QED
  BY <1>1, GoOnStep DEF NoList, BeforeList

LEMMA CloseListStep ==
  ASSUME IInv, CloseList
  PROVE  IInv'
<1>1. Top.ph \in ListFields
  BY TopFacts DEF CloseList, FrameReads
<1>2. TablesOK'
  BY SameTables DEF CloseList
<1> QED
  BY <1>1, <1>2, GoOnStep DEF CloseList

\* A step inside a loop: the object, the index or the bound changes.
LEMMA LoopStep ==
  ASSUME IInv, stack # << >>, Top.open,
         NEW obj \in Objects, NEW i \in Nat, NEW n \in Nat,
         img' = img, TablesOK',
         stack' = SetTop(stack, [Top EXCEPT !.obj = obj, !.i = i, !.n = n]),
         pos' \in Nat,
         Top.ph = "base_protocols" => pos' = Top.list + 1 + i
  PROVE  IInv'
<1> DEFINE g == [Top EXCEPT !.obj = obj, !.i = i, !.n = n]
<1>1. /\ Top \in Frames /\ FrameReads(img, Top)
      /\ Top.open => Top.back = Top.at
  BY TopFacts
<1>2. /\ g \in Frames /\ FrameReads(img, g)
      /\ g.fn = Top.fn /\ g.at = Top.at /\ g.saved = Top.saved
      /\ g.ph = Top.ph /\ g.open = Top.open /\ g.list = Top.list
      /\ g.back = Top.back /\ g.i = i
  <2>1. /\ g \in Frames /\ g.raw = Top.raw
        /\ g.fn = Top.fn /\ g.at = Top.at /\ g.saved = Top.saved
        /\ g.ph = Top.ph /\ g.open = Top.open /\ g.list = Top.list
        /\ g.back = Top.back /\ g.i = i
    BY <1>1 DEF Frames
  <2>2. FrameReads(img, g)
    BY <1>1, <2>1 DEF FrameReads
  <2> QED
    BY <2>1, <2>2
<1>3. stack' = SetTop(stack, g)
  OBVIOUS
<1> HIDE DEF g
<1>4. Relies(g) => pos' = CursorOf(g)
  BY <1>2 DEF Relies, CursorOf
<1> QED
  BY <1>1, <1>2, <1>3, <1>4, StepOn

LEMMA ElementType ==
  ASSUME IInv, stack # << >>, Top.open, Top.ph # "base_protocols", NEW addr
  PROVE  /\ MemberOf(Top.ph) \in {"methods", "opt_methods"} =>
              Element(addr) \in Methods
         /\ MemberOf(Top.ph) = "properties" => Element(addr) \in Properties
         /\ MemberOf(Top.ph) = "ivars" => Element(addr) \in IVars
         /\ MemberOf(Top.ph) \in {"methods", "opt_methods", "properties", "ivars"}
<1>1. IsImage(img) /\ Top \in Frames /\ Top.ph \in ListFields
  BY TopFacts DEF FrameReads
<1>2. IsInstance \in BOOLEAN
  <2>1. Top.obj.is_meta \in BOOLEAN
    BY <1>1 DEF Frames, Objects
  <2>2. (~ Top.obj.is_meta) \in BOOLEAN
    BY <2>1
  <2>3. (Top.ph \in {"instance_methods", "optional_instance_methods"}) \in BOOLEAN
    OBVIOUS
  <2> QED
    BY <2>2, <2>3, Zenon DEF IsInstance
<1>3. /\ MethodAt(img, IsSmallList, addr, IsInstance) \in Methods
      /\ PropertyAt(img, addr) \in Properties
      /\ IVarAt(img, addr) \in IVars
  BY <1>1, <1>2, MethodAtType, PropertyAtType, IVarAtType
<1>4. CASE Top.ph \in MethodFields
  <2>1. MemberOf(Top.ph) \in {"methods", "opt_methods"}
    BY <1>4 DEF MemberOf
  <2> QED
    BY <1>3, <1>4, <2>1 DEF Element
<1>5. CASE Top.ph \in PropertyFields
  <2>1. MemberOf(Top.ph) = "properties" /\ Top.ph \notin MethodFields
    BY <1>5 DEF MemberOf, PropertyFields, MethodFields
  <2> QED
    BY <1>3, <1>5, <2>1 DEF Element
<1>6. CASE Top.ph = "ivars"
  <2>1. /\ MemberOf(Top.ph) = "ivars" /\ Top.ph \notin MethodFields
        /\ Top.ph \notin PropertyFields
    BY <1>6 DEF MemberOf, PropertyFields, MethodFields
  <2> QED
    BY <1>3, <2>1 DEF Element
<1> QED
  BY <1>1, <1>4, <1>5, <1>6 DEF ListFields

LEMMA ReadElementStep ==
  ASSUME IInv, ReadElement
  PROVE  IInv'
<1> DEFINE e == Element(ElementAddr)
           member == MemberOf(Top.ph)
           obj == [Top.obj EXCEPT ![member] = Append(@, e)]
<1>1. /\ stack # << >> /\ Top.open /\ Top.ph # "base_protocols"
      /\ pos' = ElementAddr /\ img' = img
      /\ stack' = SetTop(stack, [Top EXCEPT !.obj[member] = Append(@, e),
                                            !.i = @ + 1])
  BY DEF ReadElement, InElements, InLoop
<1>2. Top \in Frames /\ Top.obj \in Objects
  BY <1>1, TopFacts DEF Frames
<1>3. /\ member \in {"methods", "opt_methods"} => e \in Methods
      /\ member = "properties" => e \in Properties
      /\ member = "ivars" => e \in IVars
      /\ member \in {"methods", "opt_methods", "properties", "ivars"}
  BY <1>1, ElementType
<1> HIDE DEF e, member
<1>4. obj \in Objects
  <2>1. CASE member = "methods"
    <3>1. Append(Top.obj.methods, e) \in Seq(Methods)
      BY <1>2, <1>3, <2>1, AppendProperties DEF Objects
    <3> QED
      BY <1>2, <2>1, <3>1 DEF Objects
  <2>2. CASE member = "opt_methods"
    <3>1. Append(Top.obj.opt_methods, e) \in Seq(Methods)
      BY <1>2, <1>3, <2>2, AppendProperties DEF Objects
    <3> QED
      BY <1>2, <2>2, <3>1 DEF Objects
  <2>3. CASE member = "properties"
    <3>1. Append(Top.obj.properties, e) \in Seq(Properties)
      BY <1>2, <1>3, <2>3, AppendProperties DEF Objects
    <3> QED
      BY <1>2, <2>3, <3>1 DEF Objects
  <2>4. CASE member = "ivars"
    <3>1. Append(Top.obj.ivars, e) \in Seq(IVars)
      BY <1>2, <1>3, <2>4, AppendProperties DEF Objects
    <3> QED
      BY <1>2, <2>4, <3>1 DEF Objects
  <2> QED
    BY <1>3, <2>1, <2>2, <2>3, <2>4
<1>5. [Top EXCEPT !.obj[member] = Append(@, e), !.i = @ + 1]
        = [Top EXCEPT !.obj = obj, !.i = Top.i + 1, !.n = Top.n]
  BY <1>2, <1>3 DEF Frames, Objects
<1> HIDE DEF obj
<1>6. Top.i + 1 \in Nat /\ Top.n \in Nat /\ ElementAddr \in Nat
  BY <1>2 DEF Frames, ElementAddr
<1>7. TablesOK'
  BY SameTables DEF ReadElement
<1>8. stack' = SetTop(stack,
                 [Top EXCEPT !.obj = obj, !.i = Top.i + 1, !.n = Top.n])
  BY <1>1, <1>5
<1> QED
  BY <1>1, <1>4, <1>6, <1>7, <1>8, LoopStep

LEMMA SkipElementStep ==
  ASSUME IInv, SkipElement
  PROVE  IInv'
<1>1. /\ stack # << >> /\ Top.open /\ Top.ph # "base_protocols"
      /\ pos' = ElementAddr /\ img' = img
      /\ stack' = SetTop(stack, AfterFailure(Top))
  BY DEF SkipElement, InElements, InLoop
<1>2. Top \in Frames /\ Top.obj \in Objects
  BY <1>1, TopFacts DEF Frames
<1>3. /\ Top.i \in Nat /\ Top.i + 1 \in Nat /\ Top.n \in Nat
      /\ ElementAddr \in Nat
  BY <1>2 DEF Frames, ElementAddr
<1>4. TablesOK'
  BY SameTables DEF SkipElement
<1>5. CASE Top.ph = "base_method_list"
  <2>1. AfterFailure(Top) =
          [Top EXCEPT !.obj = Top.obj, !.i = Top.i, !.n = Top.i]
    BY <1>2, <1>5 DEF AfterFailure, Frames
  <2>2. stack' = SetTop(stack,
                   [Top EXCEPT !.obj = Top.obj, !.i = Top.i, !.n = Top.i])
    BY <1>1, <2>1
  <2> QED
    BY <1>1, <1>2, <1>3, <1>4, <2>2, LoopStep
<1>6. CASE Top.ph # "base_method_list"
  <2>1. AfterFailure(Top) =
          [Top EXCEPT !.obj = Top.obj, !.i = Top.i + 1, !.n = Top.n]
    BY <1>2, <1>6 DEF AfterFailure, Frames
  <2>2. stack' = SetTop(stack,
                   [Top EXCEPT !.obj = Top.obj, !.i = Top.i + 1, !.n = Top.n])
    BY <1>1, <2>1
  <2> QED
    BY <1>1, <1>2, <1>3, <1>4, <2>2, LoopStep
<1> QED
  BY <1>5, <1>6

\* In the base_protocols loop the cursor is on the next pointer.
LEMMA RefFacts ==
  ASSUME IInv, InRefs
  PROVE  /\ stack # << >> /\ Top.open /\ Top.ph = "base_protocols"
         /\ Top \in Frames /\ Top.obj \in Objects
         /\ Top.i \in Nat /\ Top.n \in Nat /\ Top.list \in Nat
         /\ pos = Top.list + 1 + Top.i /\ pos \in Nat
         /\ Has(img, "pointer", pos) => RefAddr \in Nat
<1>1. stack # << >> /\ Top.open /\ Top.ph = "base_protocols"
  BY DEF InRefs, InLoop
<1>2. /\ Top \in Frames /\ pos = CursorOf(Top) /\ pos \in Nat
      /\ IsImage(img) /\ img.imagebase \in Nat
  BY <1>1, TopFacts DEF Relies
<1>3. Has(img, "pointer", pos) => RefAddr \in Nat
  BY <1>2, CellIsCell, PointerCell, DecodeNat DEF RefAddr
<1> QED
  BY <1>1, <1>2, <1>3 DEF CursorOf, Frames

LEMMA NextRefFrame ==
  ASSUME IInv, InRefs
  PROVE  /\ NextRef \in Frames /\ FrameReads(img, NextRef)
         /\ NextRef.fn = Top.fn /\ NextRef.at = Top.at
         /\ NextRef.saved = Top.saved
         /\ NextRef.ph = "base_protocols" /\ NextRef.open
         /\ NextRef.list = Top.list /\ NextRef.back = Top.back
         /\ NextRef.i = Top.i + 1
         /\ NextRef.open => NextRef.back = NextRef.at
<1>1. /\ stack # << >> /\ Top.open /\ Top.ph = "base_protocols"
      /\ Top \in Frames
  BY RefFacts
<1>2. FrameReads(img, Top) /\ Top.back = Top.at
  BY <1>1, TopFacts
<1>3. /\ NextRef \in Frames /\ NextRef.raw = Top.raw
      /\ NextRef.fn = Top.fn /\ NextRef.at = Top.at
      /\ NextRef.saved = Top.saved
      /\ NextRef.ph = "base_protocols" /\ NextRef.open
      /\ NextRef.list = Top.list /\ NextRef.back = Top.back
      /\ NextRef.i = Top.i + 1
  BY <1>1 DEF NextRef, Frames
<1>4. FrameReads(img, NextRef)
  BY <1>1, <1>2, <1>3 DEF FrameReads
<1> QED
  BY <1>2, <1>3, <1>4

LEMMA KnownProtocolStep ==
  ASSUME IInv, KnownProtocol
  PROVE  IInv'
<1> DEFINE g == Adopt(NextRef, cache[RefAddr])
<1>1. /\ InRefs /\ RefAddr \in DOMAIN cache
      /\ stack' = SetTop(stack, g) /\ pos' = pos + 1 /\ img' = img
  BY DEF KnownProtocol
<1>2. /\ stack # << >> /\ Top.i \in Nat /\ Top.list \in Nat
      /\ pos = Top.list + 1 + Top.i /\ pos \in Nat
  BY <1>1, RefFacts
<1>3. cache[RefAddr] \in Nat
  BY <1>1 DEF IInv, TypeOK, TablesOK
<1>4. /\ NextRef \in Frames /\ FrameReads(img, NextRef)
      /\ NextRef.fn = Top.fn /\ NextRef.at = Top.at
      /\ NextRef.saved = Top.saved /\ NextRef.open
      /\ NextRef.list = Top.list /\ NextRef.i = Top.i + 1
      /\ NextRef.back = NextRef.at
  BY <1>1, NextRefFrame
<1>5. /\ g \in Frames /\ FrameReads(img, g)
      /\ g.fn = NextRef.fn /\ g.at = NextRef.at /\ g.saved = NextRef.saved
      /\ g.open = NextRef.open /\ g.list = NextRef.list
      /\ g.back = NextRef.back /\ g.i = NextRef.i
  BY <1>3, <1>4, AdoptFrame
<1> HIDE DEF g
<1>6. pos' \in Nat /\ pos' = CursorOf(g)
  BY <1>1, <1>2, <1>4, <1>5 DEF CursorOf
<1>7. TablesOK'
  BY SameTables DEF KnownProtocol
<1> QED
  BY <1>1, <1>2, <1>4, <1>5, <1>6, <1>7, StepOn

LEMMA NewProtocolRefStep ==
  ASSUME IInv, NewProtocolRef
  PROVE  IInv'
<1> DEFINE addr == RefAddr
           cursor == pos + 1
           g == Call("Protocol", addr, cursor)
<1>1. /\ InRefs /\ Has(img, "pointer", pos)
      /\ stack' = Append(SetTop(stack, NextRef), g)
      /\ pos' = RefAddr /\ img' = img
  BY DEF NewProtocolRef
<1>2. /\ stack # << >> /\ Top.i \in Nat /\ Top.list \in Nat
      /\ pos = Top.list + 1 + Top.i /\ pos + 1 \in Nat /\ RefAddr \in Nat
  BY <1>1, RefFacts
<1>3. /\ NextRef \in Frames /\ FrameReads(img, NextRef)
      /\ NextRef.fn = Top.fn /\ NextRef.saved = Top.saved
      /\ NextRef.ph = "base_protocols" /\ NextRef.open
      /\ NextRef.list = Top.list /\ NextRef.i = Top.i + 1
      /\ NextRef.back = NextRef.at
  BY <1>1, NextRefFrame
<1>4. /\ g \in Frames /\ FrameReads(img, g)
      /\ g.fn = "Protocol" /\ g.at = addr /\ g.saved = cursor /\ ~ g.open
  <2>1. addr \in Nat /\ cursor \in Nat
    BY <1>2
  <2> HIDE DEF addr, cursor
  <2> QED
    BY <2>1, CallFrame
<1> HIDE DEF g
<1>5. MayCall(NextRef, g)
  <2>1. NextRef.fn = "Class"
    BY <1>3 DEF FrameReads, Frames, ClassFields
  <2>2. g.saved = CursorOf(NextRef)
    BY <1>2, <1>3, <1>4 DEF CursorOf
  <2> QED
    BY <1>3, <1>4, <2>1, <2>2 DEF MayCall
<1>6. TablesOK'
  BY SameTables DEF NewProtocolRef
<1> QED
  BY <1>1, <1>2, <1>3, <1>4, <1>5, <1>6, StepCall

LEMMA BreakRefsStep ==
  ASSUME IInv, BreakRefs
  PROVE  IInv'
<1>1. /\ InRefs /\ pos' = pos /\ img' = img
      /\ stack' = SetTop(stack, [Top EXCEPT !.n = Top.i])
  BY DEF BreakRefs
<1>2. /\ stack # << >> /\ Top.open /\ Top \in Frames /\ Top.obj \in Objects
      /\ Top.i \in Nat /\ pos = Top.list + 1 + Top.i /\ pos \in Nat
  BY <1>1, RefFacts
<1>3. [Top EXCEPT !.n = Top.i]
        = [Top EXCEPT !.obj = Top.obj, !.i = Top.i, !.n = Top.i]
  BY <1>2 DEF Frames
<1>4. TablesOK'
  BY SameTables DEF BreakRefs
<1>5. stack' = SetTop(stack,
                 [Top EXCEPT !.obj = Top.obj, !.i = Top.i, !.n = Top.i])
  BY <1>1, <1>3
<1> QED
  BY <1>1, <1>2, <1>4, <1>5, LoopStep

-----------------------------------------------------------------------------
(***************************************************************************)
(* The theorems.                                                           *)
(***************************************************************************)
LEMMA NextIInv == IInv /\ [Next]_vars => IInv'
<1> SUFFICES ASSUME IInv, [Next]_vars PROVE IInv'
  OBVIOUS
<1>1. CASE Next
  BY <1>1, SectionActions, CreateClassStep, ClassFailedStep, ParseSuperStep,
     NoSuperStep, ReturnSuperStep, StoreClassStep, CreateProtocolStep,
     ProtocolFailedStep, StoreListedProtocolStep, StoreAdoptedProtocolStep,
     OpenListStep, NoListStep, CloseListStep, ReadElementStep,
     SkipElementStep, KnownProtocolStep, NewProtocolRefStep, BreakRefsStep
     DEF Next
<1>2. CASE UNCHANGED vars
  BY <1>2 DEF vars, metadata, IInv, TypeOK, TablesOK, FramesOK, WellNested,
              Nested, MayCall, CursorOnTarget, CursorOf, Relies, Top, Depth
<1> QED
  BY <1>1, <1>2

\* IInv is an invariant of the parser on any set of images.
THEOREM InvariantHolds == Spec => []IInv
<1> QED
  BY InitIInv, NextIInv, PTL DEF Spec

\* Every variable has its type, and a running call only reads the structures
\* of its phase after it has read the class_ro_t, protocol_t or list header
\* they hang from, whichever reads failed before.
THEOREM TypeCorrect == Spec => []TypeOK
<1>1. IInv => TypeOK
  BY DEF IInv
<1> QED
  BY <1>1, InvariantHolds, PTL

\* The shared cursor is on the structure the running create() reads next
\* whatever the create() calls inside it did with the cursor, at any nesting
\* depth: no image makes a class be read from where its protocol ended.
THEOREM CursorCorrect == Spec => []CursorOnTarget
<1>1. IInv => CursorOnTarget
  BY DEF IInv
<1> QED
  BY <1>1, InvariantHolds, PTL

\* Every ScopedStream restores the position at which the caller reads on, and
\* every call is one the code of its caller makes.
THEOREM NestingCorrect == Spec => []WellNested
<1>1. IInv => WellNested
  BY DEF IInv
<1> QED
  BY <1>1, InvariantHolds, PTL

-----------------------------------------------------------------------------
(***************************************************************************)
(* The objects: the Protocol* that the parser hands out, the tables of the *)
(* metadata and the depth of the create() calls.                           *)
(*                                                                         *)
(* The tables.  An object is appended and its name mapped to it.           *)
(***************************************************************************)
LEMMA PutIndexes ==
  ASSUME NEW lookup, NEW objects \in Seq(Objects), NEW o \in Objects,
         Indexes(lookup, objects)
  PROVE  Indexes(Put(lookup, o.name, Len(objects) + 1), Append(objects, o))
<1> DEFINE n == Len(objects) + 1
           new == Put(lookup, o.name, n)
           all == Append(objects, o)
<1>1. /\ Len(objects) \in Nat /\ DOMAIN objects = 1..Len(objects)
      /\ DOMAIN all = 1..n /\ all[n] = o
      /\ \A k \in 1..Len(objects) : all[k] = objects[k]
  BY AppendProperties, LenProperties
<1>2. /\ DOMAIN new = DOMAIN lookup \cup {o.name}
      /\ \A name \in DOMAIN new :
           new[name] = IF name = o.name THEN n ELSE lookup[name]
  BY DEF Put
<1> HIDE DEF new, all
<1>3. ASSUME NEW name \in DOMAIN new
      PROVE  new[name] \in DOMAIN all /\ all[new[name]].name = name
  <2>1. CASE name = o.name
    <3>1. new[name] = n
      BY <1>2, <2>1
    <3>2. n \in 1..n
      BY <1>1
    <3> QED
      BY <1>1, <2>1, <3>1, <3>2
  <2>2. CASE name # o.name
    <3>1. name \in DOMAIN lookup /\ new[name] = lookup[name]
      BY <1>2, <2>2
    <3>2. lookup[name] \in 1..Len(objects) /\ objects[lookup[name]].name = name
      BY <1>1, <3>1 DEF Indexes
    <3> QED
      BY <1>1, <3>1, <3>2
  <2> QED
    BY <2>1, <2>2
<1>4. ASSUME NEW k \in DOMAIN all
      PROVE  all[k].name \in DOMAIN new /\ new[all[k].name] >= k
  <2>1. k \in 1..n
    BY <1>1
  <2>2. CASE k = n
    <3>1. all[k].name \in DOMAIN new /\ new[all[k].name] = n
      BY <1>1, <1>2, <2>2
    <3> QED
      BY <1>1, <2>2, <3>1
  <2>3. CASE k # n
    <3>1. k \in 1..Len(objects) /\ k <= n /\ all[k] = objects[k]
      BY <1>1, <2>1, <2>3
    <3>2. objects[k].name \in DOMAIN lookup /\ lookup[objects[k].name] >= k
      BY <1>1, <3>1 DEF Indexes
    <3>3. /\ objects[k].name \in DOMAIN new
          /\ new[objects[k].name] = IF objects[k].name = o.name THEN n
                                    ELSE lookup[objects[k].name]
      BY <1>2, <3>2
    <3>4. n >= k
      BY <1>1, <3>1
    <3> QED
      BY <3>1, <3>2, <3>3, <3>4
  <2> QED
    BY <2>2, <2>3
<1> QED
  BY <1>3, <1>4 DEF Indexes, new, all

LEMMA InitLookup == Init => LookupLatest
BY DEF Init, LookupLatest, Indexes

LEMMA NextLookup ==
  ASSUME IInv, LookupLatest, [Next]_vars
  PROVE  LookupLatest'
<1>1. protocols \in Seq(Objects) /\ classes \in Seq(Objects)
  BY DEF IInv, TypeOK, TablesOK
<1>2. CASE UNCHANGED metadata
  BY <1>2 DEF metadata, LookupLatest, Indexes
<1>3. CASE StoreClass
  <2>1. Top.obj \in Objects
    BY <1>3, TopFacts DEF StoreClass, Running, Frames
  <2>2. Indexes(classes_lookup', classes')
    BY <1>1, <1>3, <2>1, PutIndexes DEF StoreClass, LookupLatest
  <2> QED
    BY <1>3, <2>2 DEF StoreClass, LookupLatest, Indexes
<1>4. CASE stack # << >> /\ StoreProtocol
  <2>1. Top.obj \in Objects
    BY <1>4, TopFacts DEF Frames
  <2>2. Indexes(protocol_lookup', protocols')
    BY <1>1, <1>4, <2>1, PutIndexes DEF StoreProtocol, LookupLatest
  <2> QED
    BY <1>4, <2>2 DEF StoreProtocol, LookupLatest, Indexes
<1>5. CASE UNCHANGED vars
  BY <1>2, <1>5 DEF vars
<1>6. CASE Next
  BY <1>2, <1>3, <1>4, <1>6
     DEF Next, ProcessEntry, SectionDone, CreateClass, ClassFailed, ParseSuper,
         NoSuper, ReturnSuper, CreateProtocol, ProtocolFailed,
         StoreListedProtocol, StoreAdoptedProtocol, OpenList, NoList,
         CloseList, ReadElement, SkipElement, KnownProtocol, NewProtocolRef,
         BreakRefs, Running
<1> QED
  BY <1>5, <1>6

\* get_class and get_protocol find the latest object of a name, and only
\* objects of that name, at every step of parsing any image: the three places
\* that store an object keep table and vector in step.
THEOREM LookUpsCorrect == Spec => []LookupLatest
<1>1. IInv /\ LookupLatest /\ [Next]_vars => LookupLatest'
  BY NextLookup
<1> QED
  BY <1>1, InitLookup, InvariantHolds, PTL DEF Spec

-----------------------------------------------------------------------------
(***************************************************************************)
(* The running calls.  PointersValid and NestingBounded are not inductive: *)
(* a protocol is cached under the address its create() was called at, which*)
(* has to be the address its object remembers; and the calls along isa     *)
(* stop because each class on the stack is the isa of the one below it.    *)
(***************************************************************************)
\* The Protocol* of obj are among the n protocols of the metadata.
Owns(obj, n) == \A k \in DOMAIN obj.protocols : obj.protocols[k] \in 1..n

\* A class that create() goes on with was readable, and isa is its isa.
ReadsIsa(im, f) ==
  f.fn = "Class" /\ f.ph # "create" =>
    ClassReadable(im, f.at) /\ f.isa = Cell(im, f.at).isa

FrameHolds(im, f, n) == f.obj.at = f.at /\ Owns(f.obj, n) /\ ReadsIsa(im, f)

\* The create() of f called that of g for its isa.
FollowsIsa(im, f, g) ==
  f.fn = "Class" /\ g.fn = "Class" =>
    f.isa # Null /\ g.at = Decode(im, f.isa) /\ g.at # f.at

StackHolds(im, s, n) ==
  /\ \A k \in DOMAIN s : FrameHolds(im, s[k], n)
  /\ \A k \in DOMAIN s : k + 1 \in DOMAIN s => FollowsIsa(im, s[k], s[k + 1])

CacheHolds ==
  \A addr \in DOMAIN cache :
    cache[addr] \in DOMAIN protocols /\ protocols[cache[addr]].at = addr

OInv ==
  /\ CacheHolds
  /\ \A k \in DOMAIN classes : Owns(classes[k], Len(protocols))
  /\ StackHolds(img, stack, Len(protocols))

LEMMA MoreOwned ==
  ASSUME NEW obj, NEW n \in Nat, Owns(obj, n)
  PROVE  Owns(obj, n + 1)
BY DEF Owns

LEMMA MoreHeld ==
  ASSUME NEW im, NEW s, NEW n \in Nat, StackHolds(im, s, n)
  PROVE  StackHolds(im, s, n + 1)
BY MoreOwned DEF StackHolds, FrameHolds

LEMMA SetTopHolds ==
  ASSUME NEW im, NEW s, NEW n, s \in Seq(Frames), s # << >>,
         StackHolds(im, s, n),
         NEW f, f.fn = s[Len(s)].fn, f.at = s[Len(s)].at, FrameHolds(im, f, n)
  PROVE  StackHolds(im, SetTop(s, f), n)
<1> DEFINE t == SetTop(s, f)
<1>1. DOMAIN s = 1..Len(s) /\ Len(s) \in Nat
  BY LenProperties
<1>2. DOMAIN t = DOMAIN s /\ t[Len(s)] = f
  BY <1>1, EmptySeq DEF SetTop
<1>3. \A k \in DOMAIN s : k # Len(s) => t[k] = s[k]
  BY <1>1 DEF SetTop
<1> HIDE DEF t
<1>4. \A k \in DOMAIN t : FrameHolds(im, t[k], n)
  BY <1>2, <1>3 DEF StackHolds
<1>5. ASSUME NEW k \in DOMAIN t, k + 1 \in DOMAIN t
      PROVE  FollowsIsa(im, t[k], t[k + 1])
  <2>1. k # Len(s) /\ t[k] = s[k]
    BY <1>1, <1>2, <1>3, <1>5
  <2>2. FollowsIsa(im, s[k], s[k + 1])
    BY <1>2, <1>5 DEF StackHolds
  <2>3. t[k + 1].fn = s[k + 1].fn /\ t[k + 1].at = s[k + 1].at
    BY <1>2, <1>3, <1>5
  <2> QED
    BY <2>1, <2>2, <2>3 DEF FollowsIsa
<1> QED
  BY <1>4, <1>5 DEF StackHolds, t

LEMMA PushHolds ==
  ASSUME NEW im, NEW s, NEW n, s \in Seq(Frames), s # << >>,
         StackHolds(im, s, n),
         NEW g \in Frames, FrameHolds(im, g, n), FollowsIsa(im, s[Len(s)], g)
  PROVE  StackHolds(im, Append(s, g), n)
<1> DEFINE t == Append(s, g)
<1>1. /\ DOMAIN s = 1..Len(s) /\ Len(s) \in Nat \ {0}
      /\ DOMAIN t = 1..(Len(s) + 1) /\ t[Len(s) + 1] = g
      /\ \A k \in 1..Len(s) : t[k] = s[k]
  BY AppendProperties, LenProperties, EmptySeq
<1> HIDE DEF t
<1>2. \A k \in DOMAIN t : k \in 1..Len(s) \/ k = Len(s) + 1
  BY <1>1
<1>3. \A k \in DOMAIN t : FrameHolds(im, t[k], n)
  BY <1>1, <1>2 DEF StackHolds
<1>4. ASSUME NEW k \in DOMAIN t, k + 1 \in DOMAIN t
      PROVE  FollowsIsa(im, t[k], t[k + 1])
  <2>1. k \in 1..Len(s) /\ t[k] = s[k]
    BY <1>1, <1>4
  <2>2. CASE k = Len(s)
    BY <1>1, <2>1, <2>2
  <2>3. CASE k # Len(s)
    <3>1. k + 1 \in 1..Len(s)
      BY <1>1, <2>1, <2>3
    <3> QED
      BY <1>1, <2>1, <3>1 DEF StackHolds
  <2> QED
    BY <2>2, <2>3
<1> QED
  BY <1>3, <1>4 DEF StackHolds, t

LEMMA PopHolds ==
  ASSUME NEW im, NEW s, NEW n, FramesOK(im, s), s # << >>,
         StackHolds(im, s, n)
  PROVE  StackHolds(im, Pop(s), n)
<1> DEFINE t == Pop(s)
<1>1. /\ DOMAIN s = 1..Len(s) /\ Len(s) \in Nat \ {0}
  BY TopOfStack
<1>2. /\ FramesOK(im, t) /\ Len(t) = Len(s) - 1
      /\ \A k \in 1..(Len(s) - 1) : t[k] = s[k]
  BY PopFrames
<1> HIDE DEF t
<1>3. DOMAIN t = 1..(Len(s) - 1)
  BY <1>2, LenProperties DEF FramesOK
<1>4. \A k \in 1..(Len(s) - 1) : k \in DOMAIN s
  BY <1>1
<1>5. \A k \in DOMAIN t : t[k] = s[k] /\ k \in DOMAIN s
  BY <1>2, <1>3, <1>4
<1> QED
  BY <1>5 DEF StackHolds, t

-----------------------------------------------------------------------------
(***************************************************************************)
(* What OInv says of the running call, and the shapes of a step.           *)
(***************************************************************************)
LEMMA TopHolds ==
  ASSUME IInv, OInv, stack # << >>
  PROVE  /\ FrameHolds(img, Top, Len(protocols)) /\ Top \in Frames
         /\ stack \in Seq(Frames) /\ FramesOK(img, stack)
         /\ Len(protocols) \in Nat
<1>1. FramesOK(img, stack) /\ stack \in Seq(Frames)
  BY DEF IInv, TypeOK, FramesOK
<1>2. Top \in Frames /\ Depth \in DOMAIN stack
  BY <1>1, TopOfStack DEF Top, Depth
<1>3. Len(protocols) \in Nat
  BY LenProperties DEF IInv, TypeOK, TablesOK
<1> QED
  BY <1>1, <1>2, <1>3 DEF OInv, StackHolds, Top

\* The running call goes on.
LEMMA HoldsOn ==
  ASSUME IInv, OInv, stack # << >>,
         NEW f, f.fn = Top.fn, f.at = Top.at,
         FrameHolds(img, f, Len(protocols)),
         stack' = SetTop(stack, f), UNCHANGED <<img, cache, metadata>>
  PROVE  OInv'
<1>1. StackHolds(img, stack', Len(protocols))
  BY TopHolds, SetTopHolds DEF OInv, Top, Depth
<1> QED
  BY <1>1 DEF OInv, CacheHolds, metadata

\* It returns to its caller, with or without a protocol that was stored.
LEMMA HoldsReturn ==
  ASSUME IInv, OInv, stack # << >>, Depth # 1, NEW n, n \in Nat,
         n = Len(protocols) \/ n = Len(protocols) + 1,
         NEW f, f.fn = Caller.fn, f.at = Caller.at, FrameHolds(img, f, n)
  PROVE  StackHolds(img, SetTop(Pop(stack), f), n)
<1>1. /\ FramesOK(img, Pop(stack)) /\ Pop(stack) # << >>
      /\ Pop(stack)[Len(Pop(stack))] = Caller
  BY CallerFacts
<1>2. StackHolds(img, Pop(stack), Len(protocols))
  BY TopHolds, PopHolds DEF OInv
<1>3. StackHolds(img, Pop(stack), n)
  BY <1>2, TopHolds, MoreHeld
<1>4. Pop(stack) \in Seq(Frames)
  BY <1>1 DEF FramesOK
<1> QED
  BY <1>1, <1>3, <1>4, SetTopHolds

\* The caller of the running call, and its frame in the code after a list.
LEMMA CallerHolds ==
  ASSUME IInv, OInv, stack # << >>, Depth # 1
  PROVE  FrameHolds(img, Caller, Len(protocols)) /\ Caller \in Frames
         /\ Caller.ph # "create"
<1>1. Depth \in Nat \ {0} /\ DOMAIN stack = 1..Depth
  BY TopHolds, TopOfStack DEF Depth
<1>2. Depth - 1 \in DOMAIN stack
  BY <1>1
<1>3. Caller.ph # "create"
  BY CallerFacts DEF MayCall
<1> QED
  BY <1>2, <1>3, CallerFacts DEF OInv, StackHolds, Caller

LEMMA GoHolds ==
  ASSUME NEW im, NEW n, NEW f \in Frames, FrameHolds(im, f, n),
         f.ph # "create", NEW ph
  PROVE  LET g == Go(f, ph)
         IN FrameHolds(im, g, n) /\ g.fn = f.fn /\ g.at = f.at
<1> DEFINE g == Go(f, ph)
<1>1. g.fn = f.fn /\ g.at = f.at /\ g.obj = f.obj /\ g.isa = f.isa
  BY DEF Go, Frames
<1> QED
  BY <1>1 DEF FrameHolds, ReadsIsa

\* The frame of a new call.
LEMMA CallHolds ==
  ASSUME NEW im, NEW n, NEW fn, NEW addr, NEW cursor
  PROVE  FrameHolds(im, Call(fn, addr, cursor), n)
BY DEF FrameHolds, Owns, ReadsIsa, Call, NewObject

-----------------------------------------------------------------------------
(***************************************************************************)
(* The actions.                                                            *)
(***************************************************************************)
LEMMA InitHolds == Init => OInv
BY DEF Init, OInv, CacheHolds, StackHolds

LEMMA SectionHolds ==
  ASSUME IInv, OInv, ProcessEntry \/ SectionDone
  PROVE  OInv'
<1>1. CASE ProcessEntry
  <2>1. PICK f : stack' = <<f>> /\ FrameHolds(img, f, Len(protocols))
    BY <1>1, CallHolds DEF ProcessEntry
  <2>2. StackHolds(img, <<f>>, Len(protocols))
    BY <2>1 DEF StackHolds
  <2> QED
    BY <1>1, <2>1, <2>2 DEF ProcessEntry, OInv, CacheHolds, metadata
<1>2. CASE SectionDone
  BY <1>2 DEF SectionDone, OInv, CacheHolds, metadata
<1> QED
  BY <1>1, <1>2

\* Class::create and Protocol::create read the structure at the cursor, which
\* is on the address they were called at.
LEMMA CreateHolds ==
  ASSUME IInv, OInv, CreateClass \/ CreateProtocol
  PROVE  OInv'
<1>1. /\ stack # << >> /\ Top.ph = "create" /\ img' = img
      /\ Top \in Frames /\ FrameReads(img, Top)
      /\ Relies(Top) => pos = CursorOf(Top)
  BY TopFacts DEF CreateClass, CreateProtocol, Running
<1>2. pos = Top.at
  BY <1>1 DEF FrameReads, ListFields, MethodFields, PropertyFields, Relies,
              CursorOf
<1>3. CASE CreateClass
  <2> DEFINE ro == ClassRoPtr(img, Cell(img, pos))
             raw == Cell(img, ro)
             obj == NewObject(StringAt(img, Decode(img, raw.name)), Top.at,
                              raw.is_meta)
             f == [Top EXCEPT !.ph = "super_class", !.raw = ro,
                              !.isa = Cell(img, pos).isa, !.obj = obj]
  <2>1. ClassReadable(img, pos) /\ stack' = SetTop(stack, f)
    BY <1>3 DEF CreateClass
  <2>2. obj.at = Top.at /\ obj.protocols = << >>
    BY DEF NewObject
  <2> HIDE DEF ro, obj
  <2>3. /\ f.fn = Top.fn /\ f.at = Top.at /\ f.obj = obj
        /\ f.isa = Cell(img, pos).isa
    BY <1>1 DEF Frames
  <2> HIDE DEF f
  <2>4. FrameHolds(img, f, Len(protocols))
    BY <1>2, <2>1, <2>2, <2>3 DEF FrameHolds, Owns, ReadsIsa
  <2> QED
    BY <1>1, <1>3, <2>1, <2>3, <2>4, HoldsOn DEF CreateClass
<1>4. CASE CreateProtocol
  <2> DEFINE obj == NewObject(
               StringAt(img, Decode(img, Cell(img, pos).mangled_name)),
               Top.at, FALSE)
             f == [Top EXCEPT !.ph = "instance_methods", !.raw = pos,
                              !.obj = obj]
  <2>1. stack' = SetTop(stack, f) /\ Top.fn = "Protocol"
    BY <1>4 DEF CreateProtocol, Running
  <2>2. obj.at = Top.at /\ obj.protocols = << >>
    BY DEF NewObject
  <2> HIDE DEF obj
  <2>3. f.fn = Top.fn /\ f.at = Top.at /\ f.obj = obj
    BY <1>1 DEF Frames
  <2> HIDE DEF f
  <2>4. FrameHolds(img, f, Len(protocols))
    BY <2>1, <2>2, <2>3 DEF FrameHolds, Owns, ReadsIsa
  <2> QED
    BY <1>1, <1>4, <2>1, <2>3, <2>4, HoldsOn DEF CreateProtocol
<1> QED
  BY <1>3, <1>4

\* NoSuper, NoList, CloseList: the code after a member.
LEMMA GoOnHolds ==
  ASSUME IInv, OInv, NoSuper \/ NoList \/ CloseList
  PROVE  OInv'
<1>1. PICK ph : stack' = SetTop(stack, Go(Top, ph))
  BY DEF NoSuper, NoList, CloseList
<1>2. /\ stack # << >> /\ UNCHANGED <<img, cache, metadata>>
      /\ Top.ph # "create"
  BY TopFacts DEF NoSuper, NoList, CloseList, BeforeList, Running, FrameReads,
                  ListFields, MethodFields, PropertyFields
<1>3. /\ FrameHolds(img, Go(Top, ph), Len(protocols))
      /\ Go(Top, ph).fn = Top.fn /\ Go(Top, ph).at = Top.at
  BY <1>2, TopHolds, GoHolds
<1> QED
  BY <1>1, <1>2, <1>3, HoldsOn

\* A call for the isa is only made when it leads to another class.
LEMMA ParseSuperHolds ==
  ASSUME IInv, OInv, ParseSuper
  PROVE  OInv'
<1> DEFINE g == Call("Class", Decode(img, Top.isa), pos)
<1>1. /\ stack # << >> /\ Top.ph = "super_class" /\ HasSuper
      /\ stack' = Append(stack, g) /\ UNCHANGED <<img, cache, metadata>>
  BY DEF ParseSuper, Running
<1>2. pos = Top.at
  BY <1>1, TopFacts DEF FrameReads, ListFields, MethodFields, PropertyFields,
                        Relies, CursorOf
<1>3. pos \in Nat /\ Top.isa \in Nat /\ img.imagebase \in Nat
  BY <1>1, TopFacts DEF Frames
<1>4. Decode(img, Top.isa) \in Nat
  BY <1>3, DecodeNat
<1>5. g \in Frames
  BY <1>3, <1>4, CallFrame
<1>6. FollowsIsa(img, Top, g)
  BY <1>1, <1>2 DEF FollowsIsa, HasSuper, Call
<1>7. FrameHolds(img, g, Len(protocols))
  BY CallHolds
<1> HIDE DEF g
<1>8. StackHolds(img, stack', Len(protocols))
  BY <1>1, <1>5, <1>6, <1>7, TopHolds, PushHolds DEF OInv, Top, Depth
<1> QED
  BY <1>1, <1>8 DEF OInv, CacheHolds, metadata

LEMMA NewProtocolRefHolds ==
  ASSUME IInv, OInv, NewProtocolRef
  PROVE  OInv'
<1> DEFINE g == Call("Protocol", RefAddr, pos + 1)
           s == SetTop(stack, NextRef)
<1>1. /\ InRefs /\ Has(img, "pointer", pos)
      /\ stack' = Append(s, g) /\ UNCHANGED <<img, cache, metadata>>
  BY DEF NewProtocolRef
<1>2. /\ stack # << >> /\ Top.ph = "base_protocols" /\ Top \in Frames
      /\ pos + 1 \in Nat /\ RefAddr \in Nat
  BY <1>1, RefFacts
<1>3. g \in Frames /\ g.fn = "Protocol" /\ FrameHolds(img, g, Len(protocols))
  <2>1. FrameHolds(img, g, Len(protocols))
    BY CallHolds
  <2>2. \A addr \in Nat, cursor \in Nat :
          /\ Call("Protocol", addr, cursor) \in Frames
          /\ Call("Protocol", addr, cursor).fn = "Protocol"
    BY CallFrame
  <2> QED
    BY <1>2, <2>1, <2>2
<1>4. /\ NextRef \in Frames /\ FrameReads(img, NextRef)
      /\ NextRef.fn = Top.fn /\ NextRef.at = Top.at
  BY <1>1, NextRefFrame
<1>5. NextRef.obj = Top.obj /\ NextRef.isa = Top.isa
  BY <1>2 DEF NextRef, Frames
<1>6. FrameHolds(img, NextRef, Len(protocols))
  BY <1>2, <1>4, <1>5, TopHolds DEF FrameHolds, ReadsIsa
<1>7. StackHolds(img, s, Len(protocols))
  BY <1>2, <1>4, <1>6, TopHolds, SetTopHolds DEF OInv, Top, Depth
<1>8. FramesOK(img, s) /\ s # << >>
  BY <1>2, <1>4, TopHolds, SetTopFrames
<1> HIDE DEF s, g
<1>9. FollowsIsa(img, s[Len(s)], g)
  BY <1>3 DEF FollowsIsa
<1>10. StackHolds(img, stack', Len(protocols))
  BY <1>1, <1>3, <1>7, <1>8, <1>9, PushHolds DEF FramesOK
<1> QED
  BY <1>1, <1>10 DEF OInv, CacheHolds, metadata

LEMMA OpenListHolds ==
  ASSUME IInv, OInv, OpenList
  PROVE  OInv'
<1> DEFINE list == Decode(img, ListPtr)
           n == Cell(img, list).count
           f == [Top EXCEPT !.open = TRUE, !.list = list, !.back = pos,
                            !.i = 0, !.n = n]
<1>1. /\ stack # << >> /\ stack' = SetTop(stack, f)
      /\ UNCHANGED <<img, cache, metadata>>
  BY DEF OpenList, BeforeList
<1>2. /\ f.fn = Top.fn /\ f.at = Top.at /\ f.ph = Top.ph
      /\ f.isa = Top.isa /\ f.obj = Top.obj
  BY <1>1, TopHolds DEF Frames
<1> HIDE DEF f
<1>3. FrameHolds(img, f, Len(protocols))
  BY <1>1, <1>2, TopHolds DEF FrameHolds, ReadsIsa
<1> QED
  BY <1>1, <1>2, <1>3, HoldsOn

\* Steps of a loop: only KnownProtocol changes the protocols of the object,
\* by one that the cache has.
LEMMA LoopHolds ==
  ASSUME IInv, OInv, ReadElement \/ SkipElement \/ BreakRefs
  PROVE  OInv'
<1>1. PICK f : /\ stack' = SetTop(stack, f)
               /\ f.fn = Top.fn /\ f.at = Top.at /\ f.ph = Top.ph
               /\ f.isa = Top.isa /\ f.obj.at = Top.obj.at
               /\ f.obj.protocols = Top.obj.protocols
  <2>1. stack # << >> /\ Top.open
    BY DEF ReadElement, SkipElement, BreakRefs, InElements, InRefs, InLoop
  <2>2. Top \in Frames /\ Top.obj \in Objects
    BY <2>1, TopFacts DEF Frames
  <2>3. CASE ReadElement
    <3> DEFINE member == MemberOf(Top.ph)
               f == [Top EXCEPT !.obj[member] = Append(@, Element(ElementAddr)),
                                !.i = @ + 1]
    <3>1. stack' = SetTop(stack, f)
      BY <2>3 DEF ReadElement
    <3>2. member \in {"methods", "opt_methods", "properties", "ivars"}
      BY <2>1, <2>3, ElementType DEF ReadElement, InElements
    <3> HIDE DEF member
    <3>3. /\ f.fn = Top.fn /\ f.at = Top.at /\ f.ph = Top.ph
          /\ f.isa = Top.isa /\ f.obj.at = Top.obj.at
          /\ f.obj.protocols = Top.obj.protocols
      BY <2>2, <3>2 DEF Frames, Objects
    <3> HIDE DEF f
    <3> QED
      BY <3>1, <3>3
  <2>4. CASE SkipElement
    <3> DEFINE f == AfterFailure(Top)
    <3>1. stack' = SetTop(stack, f)
      BY <2>4 DEF SkipElement
    <3>2. /\ f.fn = Top.fn /\ f.at = Top.at /\ f.ph = Top.ph
          /\ f.isa = Top.isa /\ f.obj = Top.obj
      BY <2>2 DEF AfterFailure, Frames
    <3> HIDE DEF f
    <3> QED
      BY <3>1, <3>2
  <2>5. CASE BreakRefs
    <3> DEFINE f == [Top EXCEPT !.n = Top.i]
    <3>1. stack' = SetTop(stack, f)
      BY <2>5 DEF BreakRefs
    <3>2. /\ f.fn = Top.fn /\ f.at = Top.at /\ f.ph = Top.ph
          /\ f.isa = Top.isa /\ f.obj = Top.obj
      BY <2>2 DEF Frames
    <3> HIDE DEF f
    <3> QED
      BY <3>1, <3>2
  <2> QED
    BY <2>3, <2>4, <2>5
<1>2. stack # << >> /\ UNCHANGED <<img, cache, metadata>>
  BY DEF ReadElement, SkipElement, BreakRefs, InElements, InRefs, InLoop
<1>3. FrameHolds(img, f, Len(protocols))
  BY <1>1, <1>2, TopHolds DEF FrameHolds, Owns, ReadsIsa
<1> QED
  BY <1>1, <1>2, <1>3, HoldsOn

\* A frame whose object adopts one of the n protocols.
LEMMA AdoptHolds ==
  ASSUME NEW im, NEW n \in Nat, NEW f \in Frames, FrameHolds(im, f, n),
         NEW proto \in 1..n
  PROVE  LET g == Adopt(f, proto)
         IN  FrameHolds(im, g, n) /\ g.fn = f.fn /\ g.at = f.at
<1> DEFINE g == Adopt(f, proto)
           all == Append(f.obj.protocols, proto)
<1>1. f.obj \in Objects /\ f.obj.protocols \in Seq(Nat)
  BY DEF Frames, Objects
<1>2. g = [f EXCEPT !.obj = [f.obj EXCEPT !.protocols = all]]
  BY <1>1 DEF Adopt, Frames, Objects
<1> HIDE DEF g, all
<1>3. /\ g.obj.protocols = all /\ g.obj.at = f.obj.at /\ g.isa = f.isa
      /\ g.fn = f.fn /\ g.at = f.at /\ g.ph = f.ph
  <2> DEFINE obj == [f.obj EXCEPT !.protocols = all]
  <2>1. obj.protocols = all /\ obj.at = f.obj.at
    BY <1>1 DEF Objects
  <2> HIDE DEF obj
  <2>2. /\ g.obj = obj /\ g.isa = f.isa
        /\ g.fn = f.fn /\ g.at = f.at /\ g.ph = f.ph
    <3>1. g = [f EXCEPT !.obj = obj]
      BY <1>2 DEF obj
    <3> QED
      BY <3>1 DEF Frames
  <2> QED
    BY <2>1, <2>2
<1>4. \A k \in DOMAIN all : all[k] \in 1..n
  <2>1. /\ DOMAIN f.obj.protocols = 1..Len(f.obj.protocols)
        /\ Len(f.obj.protocols) \in Nat
        /\ DOMAIN all = 1..(Len(f.obj.protocols) + 1)
        /\ all[Len(f.obj.protocols) + 1] = proto
        /\ \A k \in 1..Len(f.obj.protocols) : all[k] = f.obj.protocols[k]
    BY <1>1, AppendProperties, LenProperties DEF all
  <2>2. \A k \in DOMAIN all :
          k \in 1..Len(f.obj.protocols) \/ k = Len(f.obj.protocols) + 1
    BY <2>1
  <2> QED
    BY <2>1, <2>2 DEF FrameHolds, Owns
<1>5. FrameHolds(im, g, n)
  BY <1>3, <1>4 DEF FrameHolds, Owns, ReadsIsa
<1> QED
  BY <1>3, <1>5 DEF g

LEMMA KnownProtocolHolds ==
  ASSUME IInv, OInv, KnownProtocol
  PROVE  OInv'
<1> DEFINE g == Adopt(NextRef, cache[RefAddr])
<1>1. /\ InRefs /\ RefAddr \in DOMAIN cache
      /\ stack' = SetTop(stack, g) /\ UNCHANGED <<img, cache, metadata>>
  BY DEF KnownProtocol
<1>2. stack # << >> /\ Top.ph = "base_protocols" /\ Top \in Frames
  BY <1>1, RefFacts
<1>3. NextRef \in Frames /\ NextRef.fn = Top.fn /\ NextRef.at = Top.at
  BY <1>1, NextRefFrame
<1>4. NextRef.obj = Top.obj /\ NextRef.isa = Top.isa /\ NextRef.ph = Top.ph
  BY <1>2 DEF NextRef, Frames
<1>5. FrameHolds(img, NextRef, Len(protocols))
  BY <1>2, <1>3, <1>4, TopHolds DEF FrameHolds, ReadsIsa
<1>6. cache[RefAddr] \in 1..Len(protocols) /\ Len(protocols) \in Nat
  <2>1. DOMAIN protocols = 1..Len(protocols)
    BY LenProperties DEF IInv, TypeOK, TablesOK
  <2> QED
    BY <1>1, <1>2, <2>1, TopHolds DEF OInv, CacheHolds
<1>7. FrameHolds(img, g, Len(protocols)) /\ g.fn = Top.fn /\ g.at = Top.at
  BY <1>3, <1>5, <1>6, AdoptHolds
<1> HIDE DEF g
<1> QED
  BY <1>1, <1>2, <1>7, HoldsOn

\* A create() of a class that returns: nothing, its methods, or itself.
LEMMA ClassFailedHolds ==
  ASSUME IInv, OInv, ClassFailed
  PROVE  OInv'
<1>1. stack # << >> /\ UNCHANGED <<img, cache, metadata>>
  BY DEF ClassFailed, Running
<1>2. CASE Depth = 1
  BY <1>1, <1>2 DEF ClassFailed, OInv, CacheHolds, StackHolds, metadata
<1>3. CASE Depth # 1
  <2> DEFINE g == Go(Caller, After["super_class"])
  <2>1. FrameHolds(img, g, Len(protocols)) /\ g.fn = Caller.fn /\ g.at = Caller.at
    BY <1>1, <1>3, CallerHolds, GoHolds
  <2>2. stack' = SetTop(Pop(stack), g)
    BY <1>3 DEF ClassFailed
  <2> HIDE DEF g
  <2>3. StackHolds(img, stack', Len(protocols))
    BY <1>1, <1>3, <2>1, <2>2, TopHolds, HoldsReturn
  <2> QED
    BY <1>1, <2>3 DEF OInv, CacheHolds, metadata
<1> QED
  BY <1>2, <1>3

LEMMA ReturnSuperHolds ==
  ASSUME IInv, OInv, ReturnSuper
  PROVE  OInv'
<1> DEFINE g == Go(Caller, After["super_class"])
           new == [m \in DOMAIN Top.obj.methods |->
                     [Top.obj.methods[m] EXCEPT !.is_instance = FALSE]]
           h == TakeMethods(g, Top.obj.methods)
<1>1. /\ stack # << >> /\ Top.fn = "Class" /\ Depth > 1
      /\ stack' = SetTop(Pop(stack), h) /\ UNCHANGED <<img, cache, metadata>>
  BY DEF ReturnSuper, Running
<1>2. Depth # 1
  BY <1>1, TopFacts
<1>3. FrameHolds(img, g, Len(protocols)) /\ g.fn = Caller.fn /\ g.at = Caller.at
  BY <1>1, <1>2, CallerHolds, GoHolds
<1>4. g \in Frames /\ g.obj \in Objects
  BY <1>1, <1>2, AfterSuper DEF Frames
<1> HIDE DEF g, new
<1>5. h = [g EXCEPT !.obj = [g.obj EXCEPT !.methods = g.obj.methods \o new]]
  BY <1>4 DEF TakeMethods, new, Frames, Objects
<1> HIDE DEF h
<1>6. /\ h.fn = g.fn /\ h.at = g.at /\ h.ph = g.ph /\ h.isa = g.isa
      /\ h.obj.at = g.obj.at /\ h.obj.protocols = g.obj.protocols
  BY <1>4, <1>5 DEF Frames, Objects
<1>7. FrameHolds(img, h, Len(protocols))
  BY <1>3, <1>6 DEF FrameHolds, Owns, ReadsIsa
<1>8. StackHolds(img, stack', Len(protocols))
  BY <1>1, <1>2, <1>3, <1>6, <1>7, TopHolds, HoldsReturn
<1> QED
  BY <1>1, <1>8 DEF OInv, CacheHolds, metadata

LEMMA StoreClassHolds ==
  ASSUME IInv, OInv, StoreClass
  PROVE  OInv'
<1>1. /\ stack # << >> /\ stack' = << >> /\ classes' = Append(classes, Top.obj)
      /\ UNCHANGED <<img, cache, protocols, protocol_lookup>>
  BY DEF StoreClass, Running
<1>2. Owns(Top.obj, Len(protocols)) /\ Top.obj \in Objects
  BY <1>1, TopHolds DEF FrameHolds, Frames
<1>3. \A k \in DOMAIN classes' : Owns(classes'[k], Len(protocols))
  <2>1. /\ DOMAIN classes = 1..Len(classes) /\ Len(classes) \in Nat
        /\ DOMAIN classes' = 1..(Len(classes) + 1)
        /\ classes'[Len(classes) + 1] = Top.obj
        /\ \A k \in 1..Len(classes) : classes'[k] = classes[k]
    BY <1>1, <1>2, AppendProperties, LenProperties DEF IInv, TypeOK, TablesOK
  <2>2. \A k \in DOMAIN classes' :
          k \in 1..Len(classes) \/ k = Len(classes) + 1
    BY <2>1
  <2> QED
    BY <1>2, <2>1, <2>2 DEF OInv
<1> QED
  BY <1>1, <1>3 DEF OInv, CacheHolds, StackHolds

\* A protocol is appended: what was held before still is, and the new one is
\* at its address.
LEMMA StoreProtocolHolds ==
  ASSUME IInv, OInv, stack # << >>, StoreProtocol
  PROVE  /\ Len(protocols) \in Nat /\ Len(protocols') = Len(protocols) + 1
         /\ Len(protocols') \in DOMAIN protocols'
         /\ protocols'[Len(protocols')].at = Top.at
         /\ \A addr \in DOMAIN cache :
              /\ cache[addr] \in DOMAIN protocols'
              /\ protocols'[cache[addr]].at = addr
         /\ \A k \in DOMAIN classes : Owns(classes[k], Len(protocols'))
<1>1. /\ Top.obj.at = Top.at /\ Top.obj \in Objects
      /\ protocols' = Append(protocols, Top.obj)
  BY TopHolds DEF FrameHolds, Frames, StoreProtocol
<1>2. protocols \in Seq(Objects)
  BY DEF IInv, TypeOK, TablesOK
<1>3. /\ Len(protocols) \in Nat /\ Len(protocols') = Len(protocols) + 1
      /\ DOMAIN protocols = 1..Len(protocols)
      /\ DOMAIN protocols' = 1..(Len(protocols) + 1)
      /\ protocols'[Len(protocols) + 1] = Top.obj
      /\ \A k \in 1..Len(protocols) : protocols'[k] = protocols[k]
  BY <1>1, <1>2, AppendProperties, LenProperties
<1>4. Len(protocols) + 1 \in 1..(Len(protocols) + 1)
  BY <1>3
<1>5. \A k \in 1..Len(protocols) : k \in DOMAIN protocols'
  BY <1>3
<1>6. \A addr \in DOMAIN cache :
        cache[addr] \in 1..Len(protocols) /\ protocols[cache[addr]].at = addr
  BY <1>3 DEF OInv, CacheHolds
<1>7. \A k \in DOMAIN classes : Owns(classes[k], Len(protocols'))
  BY <1>3, MoreOwned DEF OInv
<1> QED
  BY <1>1, <1>3, <1>4, <1>5, <1>6, <1>7

\* The key is the address create() was called at.
LEMMA StoreListedHolds ==
  ASSUME IInv, OInv, StoreListedProtocol
  PROVE  OInv'
<1>1. /\ stack # << >> /\ StoreProtocol /\ stack' = << >>
      /\ cache' = Put(cache, Top.at, Len(protocols) + 1)
      /\ classes' = classes
  BY DEF StoreListedProtocol, StoreProtocol, Running
<1>2. CacheHolds'
  BY <1>1, StoreProtocolHolds DEF CacheHolds, Put
<1>3. \A k \in DOMAIN classes' : Owns(classes'[k], Len(protocols'))
  BY <1>1, StoreProtocolHolds
<1> QED
  BY <1>1, <1>2, <1>3 DEF OInv, StackHolds

LEMMA StoreAdoptedHolds ==
  ASSUME IInv, OInv, StoreAdoptedProtocol
  PROVE  OInv'
<1> DEFINE n == Len(protocols) + 1
           g == Adopt(Caller, n)
<1>1. /\ stack # << >> /\ Depth > 1 /\ StoreProtocol
      /\ stack' = SetTop(Pop(stack), g)
      /\ cache' = cache /\ classes' = classes /\ img' = img
  BY DEF StoreAdoptedProtocol, StoreProtocol, Running
<1>2. Depth # 1
  BY <1>1, TopFacts
<1>3. Len(protocols) \in Nat /\ Len(protocols') = n
  BY <1>1, StoreProtocolHolds
<1>4. n \in Nat /\ n \in 1..n
  BY <1>3
<1>5. FrameHolds(img, Caller, n) /\ Caller \in Frames
  BY <1>1, <1>2, <1>3, CallerHolds, MoreOwned DEF FrameHolds
<1> HIDE DEF n
<1>6. FrameHolds(img, g, n) /\ g.fn = Caller.fn /\ g.at = Caller.at
  BY <1>4, <1>5, AdoptHolds
<1> HIDE DEF g
<1>7. StackHolds(img, stack', n)
  BY <1>1, <1>2, <1>4, <1>6, HoldsReturn DEF n
<1>8. CacheHolds'
  BY <1>1, StoreProtocolHolds DEF CacheHolds
<1>9. \A k \in DOMAIN classes' : Owns(classes'[k], Len(protocols'))
  BY <1>1, StoreProtocolHolds
<1> QED
  BY <1>1, <1>3, <1>7, <1>8, <1>9 DEF OInv

LEMMA ProtocolFailedHolds ==
  ASSUME IInv, OInv, ProtocolFailed
  PROVE  OInv'
<1>1. /\ stack # << >> /\ stack' = Pop(stack)
      /\ UNCHANGED <<img, cache, metadata>>
  BY DEF ProtocolFailed, Running
<1>2. StackHolds(img, stack', Len(protocols))
  BY <1>1, TopHolds, PopHolds DEF OInv
<1> QED
  BY <1>1, <1>2 DEF OInv, CacheHolds, metadata

LEMMA NextHolds ==
  ASSUME IInv, OInv, [Next]_vars
  PROVE  OInv'
<1>1. CASE Next
  <2>1. CASE ProcessEntry \/ SectionDone
    BY <2>1, SectionHolds
  <2>2. CASE CreateClass \/ CreateProtocol
    BY <2>2, CreateHolds
  <2>3. CASE NoSuper \/ NoList \/ CloseList
    BY <2>3, GoOnHolds
  <2>4. CASE ReadElement \/ SkipElement \/ BreakRefs
    BY <2>4, LoopHolds
  <2>5. CASE ParseSuper \/ NewProtocolRef \/ KnownProtocol
    BY <2>5, ParseSuperHolds, NewProtocolRefHolds, KnownProtocolHolds
  <2>6. CASE ClassFailed \/ ReturnSuper \/ ProtocolFailed
    BY <2>6, ClassFailedHolds, ReturnSuperHolds, ProtocolFailedHolds
  <2>7. CASE StoreClass \/ StoreListedProtocol \/ StoreAdoptedProtocol
    BY <2>7, StoreClassHolds, StoreListedHolds, StoreAdoptedHolds
  <2>8. CASE OpenList
    BY <2>8, OpenListHolds
  <2> QED
    BY <1>1, <2>1, <2>2, <2>3, <2>4, <2>5, <2>6, <2>7, <2>8 DEF Next
<1>2. CASE UNCHANGED vars
  BY <1>2 DEF vars, metadata, OInv, CacheHolds
<1> QED
  BY <1>1, <1>2

LEMMA ObjectsHold == Spec => [](IInv /\ OInv)
<1>1. IInv /\ OInv /\ [Next]_vars => OInv'
  BY NextHolds
<1> QED
  BY <1>1, InitHolds, InvariantHolds, PTL DEF Spec

-----------------------------------------------------------------------------
(***************************************************************************)
(* The theorems.                                                           *)
(***************************************************************************)
\* On any image, every Protocol* that the parser caches or a class holds is a
\* protocol the metadata owns, and the cache gives for an address the
\* protocol read there.
THEOREM PointersCorrect == Spec => []PointersValid
<1>1. ASSUME IInv, OInv
      PROVE  PointersValid
  <2>1. DOMAIN protocols = 1..Len(protocols)
    BY <1>1, LenProperties DEF IInv, TypeOK, TablesOK
  <2>2. \A c \in Holders : Owns(c, Len(protocols))
    BY <1>1 DEF OInv, StackHolds, FrameHolds, Holders
  <2>3. \A c \in Holders :
          \A k \in DOMAIN c.protocols : c.protocols[k] \in DOMAIN protocols
    BY <2>1, <2>2 DEF Owns
  <2> QED
    BY <1>1, <2>3 DEF OInv, CacheHolds, PointersValid
<1> QED
  BY <1>1, ObjectsHold, PTL

\* A class that is read is at one of the positions FollowsAbi speaks of.
LEMMA ReadAtPosition ==
  ASSUME NEW im, IsImage(im), FollowsAbi(im),
         NEW addr \in Nat, ClassReadable(im, addr)
  PROVE  ClassFollowsAbi(im, addr)
<1> DEFINE va == VirtualAddress(im, addr)
<1>1. va \in DOMAIN im.mem
  BY DEF ClassReadable, Has
<1>2. addr = va \/ addr = va - im.imagebase + im.membase
  BY DEF VirtualAddress, IsImage
<1> HIDE DEF va
<1>3. addr \in Positions(im)
  BY <1>1, <1>2 DEF Positions
<1> QED
  BY <1>3 DEF FollowsAbi

\* Whatever an image holds otherwise, when its classes follow the ABI
\* Class::create is in at most a class, its metaclass, the root metaclass and
\* one protocol: the only stop of the recursion, a class that is its own isa,
\* is enough.
THEOREM NestingStops == Spec => []NestingBounded
<1>1. ASSUME IInv, OInv, FollowsAbi(img), ~ (Depth <= 4)
      PROVE  FALSE
  <2>1. stack # << >>
    BY <1>1, EmptySeq DEF Depth
  <2>2. /\ Depth \in Nat /\ DOMAIN stack = 1..Depth
        /\ stack \in Seq(Frames) /\ IsImage(img)
    BY <1>1, <2>1, TopOfStack DEF IInv, TypeOK, FramesOK, Depth
  <2>3. /\ 1 \in 1..(Depth - 1) /\ 2 \in 1..(Depth - 1)
        /\ 3 \in 1..(Depth - 1) /\ 4 \in 1..(Depth - 1)
        /\ 1 \in DOMAIN stack /\ 2 \in DOMAIN stack /\ 3 \in DOMAIN stack
        /\ 4 \in DOMAIN stack
    BY <1>1, <2>2
  <2> DEFINE Addr(k) == stack[k].at
  <2>4. ASSUME NEW k \in {1, 2, 3, 4}
        PROVE  /\ stack[k].fn = "Class" /\ ClassReadable(img, Addr(k))
               /\ stack[k].isa = Cell(img, Addr(k)).isa /\ Addr(k) \in Nat
    <3>1. stack[k].fn = "Class" /\ stack[k].ph # "create"
      BY <1>1, <2>2, <2>3 DEF IInv, WellNested, Nested, MayCall, Depth
    <3>2. ReadsIsa(img, stack[k])
      BY <1>1, <2>3 DEF OInv, StackHolds, FrameHolds
    <3>3. stack[k] \in Frames
      BY <2>2, <2>3, ElementOfSeq DEF Depth
    <3> QED
      BY <3>1, <3>2, <3>3 DEF ReadsIsa, Frames
  <2>5. ASSUME NEW k \in {1, 2, 3}
        PROVE  /\ HasIsa(img, Addr(k)) /\ Addr(k + 1) = IsaOf(img, Addr(k))
               /\ Addr(k + 1) # Addr(k)
    <3>1. k + 1 \in {1, 2, 3, 4} /\ k \in {1, 2, 3, 4}
      OBVIOUS
    <3>2. FollowsIsa(img, stack[k], stack[k + 1])
      BY <1>1, <2>3, <3>1 DEF OInv, StackHolds
    <3>3. /\ stack[k].isa # Null /\ Addr(k + 1) = Decode(img, stack[k].isa)
          /\ Addr(k + 1) # Addr(k)
      BY <2>4, <3>1, <3>2 DEF FollowsIsa
    <3> QED
      BY <2>4, <3>1, <3>3 DEF HasIsa, IsaOf, Null
  <2> HIDE DEF Addr
  <2>6. IsMeta(img, Addr(2))
    <3>1. Addr(2) = IsaOf(img, Addr(1)) /\ HasIsa(img, Addr(1))
      BY <2>5
    <3>2. ClassFollowsAbi(img, Addr(1)) /\ ClassReadable(img, Addr(1))
      BY <1>1, <2>2, <2>4, ReadAtPosition
    <3> QED
      BY <3>1, <3>2 DEF ClassFollowsAbi
  <2>7. Addr(3) = IsaOf(img, Addr(2)) /\ HasIsa(img, Addr(2))
    BY <2>5
  <2>8. IsaOf(img, Addr(3)) = Addr(3)
    <3>1. ClassFollowsAbi(img, Addr(2)) /\ ClassReadable(img, Addr(2))
      BY <1>1, <2>2, <2>4, ReadAtPosition
    <3> QED
      BY <2>6, <2>7, <3>1 DEF ClassFollowsAbi
  <2>9. Addr(4) = IsaOf(img, Addr(3)) /\ Addr(4) # Addr(3)
    BY <2>5
  <2> QED
    BY <2>8, <2>9
<1>2. IInv /\ OInv => NestingBounded
  BY <1>1 DEF NestingBounded
<1> QED
  BY <1>2, ObjectsHold, PTL
=============================================================================

------------------------ MODULE ObjCParserRefinement ------------------------
(***************************************************************************)
(* ObjCParser implements ObjCMetadata, for every set of images: each entry *)
(* of a section is reported once, in order, with exactly the members that  *)
(* its structures denote.                                                  *)
(***************************************************************************)
EXTENDS ObjCParserProofs, FiniteSetTheorems

-----------------------------------------------------------------------------
(***************************************************************************)
(* Induction and recursion over numbers.                                   *)
(***************************************************************************)
\* A set with 0 and with the successor of each of its members below n has all
\* numbers up to n: counting one further would otherwise map it into itself
\* without 0, one to one.
LEMMA UpTo ==
  ASSUME NEW n \in Nat, NEW S, 0 \in S, \A k \in S : k \in 0..(n - 1) => k + 1 \in S
  PROVE  0..n \subseteq S
<1> SUFFICES ASSUME NEW j \in 0..n, j \notin S PROVE FALSE
  OBVIOUS
<1> DEFINE T == S \cap 0..j
           f == [k \in T |-> k + 1]
<1>1. IsFiniteSet(0..j) /\ T \in SUBSET (0..j)
  BY FS_Interval
<1>2. IsFiniteSet(T)
  BY <1>1, FS_Subset
<1>3. 0 \in T
  OBVIOUS
<1>4. IsFiniteSet(T \ {0}) /\ Cardinality(T \ {0}) = Cardinality(T) - 1
  BY <1>2, <1>3, FS_RemoveElement
<1>5. Cardinality(T) \in Nat
  BY <1>2, FS_CardinalityType
<1>6. ASSUME NEW k \in T PROVE k + 1 \in T \ {0}
  <2>1. k \in 0..j /\ k \in S /\ k # j
    OBVIOUS
  <2>2. k \in 0..(n - 1) /\ k + 1 \in 0..j
    BY <2>1
  <2> QED
    BY <2>1, <2>2
<1>7. f \in [T -> T \ {0}]
  BY <1>6
<1> HIDE DEF T
<1>8. Cardinality(T \ {0}) < Cardinality(T)
  BY <1>4, <1>5
<1>9. \E x, y \in T : x # y /\ f[x] = f[y]
  <2> HIDE DEF f
  <2> QED
    BY <1>2, <1>4, <1>7, <1>8, FS_PigeonHole
<1> QED
  BY <1>9 DEF T

\* h is what repeating step makes of x, as far as n.
Repeats(h, x, step, n) ==
  h[0] = x /\ \A k \in 0..(n - 1) : h[k + 1] = step[k][h[k]]

LEMMA RepeatsExists ==
  ASSUME NEW V, NEW x \in V, NEW step \in [Nat -> [V -> V]], NEW n \in Nat
  PROVE  \E h \in [0..n -> V] : Repeats(h, x, step, n)
<1> DEFINE S == {k \in 0..n : \E h \in [0..k -> V] : Repeats(h, x, step, k)}
<1>1. 0 \in S
  <2> DEFINE h == [i \in 0..0 |-> x]
  <2>1. h \in [0..0 -> V] /\ Repeats(h, x, step, 0)
    BY DEF Repeats
  <2> QED
    BY <2>1
<1>2. ASSUME NEW k \in S, k \in 0..(n - 1) PROVE k + 1 \in S
  <2>1. PICK h \in [0..k -> V] : Repeats(h, x, step, k)
    OBVIOUS
  <2> DEFINE g == [i \in 0..(k + 1) |-> IF i = k + 1 THEN step[k][h[k]] ELSE h[i]]
  <2>2. h[k] \in V /\ step[k] \in [V -> V] /\ k \in Nat
    OBVIOUS
  <2>3. step[k][h[k]] \in V
    BY <2>2
  <2>4. g \in [0..(k + 1) -> V]
    BY <2>2, <2>3
  <2>5. /\ g[k + 1] = step[k][h[k]]
        /\ \A i \in 0..k : g[i] = h[i]
    BY <2>2
  <2> HIDE DEF g
  <2>6. ASSUME NEW i \in 0..((k + 1) - 1) PROVE g[i + 1] = step[i][g[i]]
    <3>1. i \in 0..k
      BY <2>2
    <3>2. CASE i = k
      BY <2>5, <3>1, <3>2
    <3>3. CASE i # k
      <4>1. i \in 0..(k - 1) /\ i + 1 \in 0..k
        BY <2>2, <3>1, <3>3
      <4> QED
        BY <2>1, <2>5, <3>1, <4>1 DEF Repeats
    <3> QED
      BY <3>2, <3>3
  <2>7. g[0] = x
    BY <2>1, <2>2, <2>5 DEF Repeats
  <2>8. Repeats(g, x, step, k + 1)
    BY <2>6, <2>7 DEF Repeats
  <2> QED
    BY <1>2, <2>4, <2>8
<1>3. 0..n \subseteq S
  <2> HIDE DEF S
  <2> QED
    BY <1>1, <1>2, UpTo
<1> QED
  BY <1>3

LEMMA RepeatsAgree ==
  ASSUME NEW x, NEW step, NEW n \in Nat,
         NEW g, Repeats(g, x, step, n), NEW h, Repeats(h, x, step, n)
  PROVE  \A k \in 0..n : g[k] = h[k]
<1> DEFINE S == {k \in 0..n : g[k] = h[k]}
<1>1. 0 \in S
  BY DEF Repeats
<1>2. ASSUME NEW k \in S, k \in 0..(n - 1) PROVE k + 1 \in S
  BY <1>2 DEF Repeats
<1>3. 0..n \subseteq S
  <2> HIDE DEF S
  <2> QED
    BY <1>1, <1>2, UpTo
<1> QED
  BY <1>3

RepeatsForEver(f, x, step) ==
  f[0] = x /\ \A n \in Nat : f[n + 1] = step[n][f[n]]

\* A step can be repeated from x for ever.
LEMMA Repetition ==
  ASSUME NEW V, NEW x \in V, NEW step \in [Nat -> [V -> V]]
  PROVE  \E f \in [Nat -> V] : RepeatsForEver(f, x, step)
<1> DEFINE C(n) == CHOOSE h : h \in [0..n -> V] /\ Repeats(h, x, step, n)
           f == [n \in Nat |-> C(n)[n]]
<1>1. ASSUME NEW n \in Nat PROVE C(n) \in [0..n -> V] /\ Repeats(C(n), x, step, n)
  BY RepeatsExists
<1> HIDE DEF C
<1>2. f \in [Nat -> V]
  <2>1. \A n \in Nat : n \in 0..n
    OBVIOUS
  <2> QED
    BY <1>1, <2>1
<1>3. f[0] = x
  BY <1>1 DEF Repeats
<1>4. ASSUME NEW n \in Nat PROVE f[n + 1] = step[n][f[n]]
  <2>1. n + 1 \in Nat /\ n \in 0..((n + 1) - 1) /\ n \in 0..n
        /\ \A k \in 0..(n - 1) : k \in 0..((n + 1) - 1)
    OBVIOUS
  <2>2. Repeats(C(n + 1), x, step, n + 1) /\ Repeats(C(n), x, step, n)
    BY <1>1, <2>1
  <2>3. Repeats(C(n + 1), x, step, n)
    BY <2>1, <2>2 DEF Repeats
  <2>4. C(n + 1)[n] = C(n)[n]
    BY <2>1, <2>2, <2>3, RepeatsAgree
  <2>5. C(n + 1)[n + 1] = step[n][C(n + 1)[n]]
    BY <2>1, <2>2 DEF Repeats
  <2> QED
    BY <2>1, <2>4, <2>5
<1> QED
  BY <1>2, <1>3, <1>4 DEF RepeatsForEver

-----------------------------------------------------------------------------
(***************************************************************************)
(* The invariant: what the object under construction holds is what the     *)
(* lists that the call has read so far hold.                               *)
(***************************************************************************)
\* Where the protocols are that obj.protocols = refs refers to.
At(prots, refs) == [k \in DOMAIN refs |-> prots[refs[k]].at]

KindIn(im, field, ptr) ==
  IF field \in MethodFields THEN MethodKind(Promise!IsSmall(im, ptr))
  ELSE IF field \in PropertyFields THEN "property"
  ELSE IF field = "ivars" THEN "ivar" ELSE "protocol"

Elements(im, field, ptr) == Promise!ElementsOf(im, ListKind(field), ptr)

Pointees(im, refs) == [k \in DOMAIN refs |-> Decode(im, Cell(im, refs[k]).value)]

\* The elements that the loop over a list goes through: where an unreadable one
\* ends it, those before.  Those of base_protocols are what its pointers lead to.
Source(im, field, ptr) ==
  IF field = "base_method_list"
  THEN Promise!ReadablePrefix(im, KindIn(im, field, ptr), Elements(im, field, ptr))
  ELSE IF field = "base_protocols"
  THEN Pointees(im, Promise!ReadablePrefix(im, "pointer", Elements(im, field, ptr)))
  ELSE Elements(im, field, ptr)

Made(im, field, ptr, flag, addr) ==
  IF field \in MethodFields
  THEN MethodAt(im, Promise!IsSmall(im, ptr), addr, flag)
  ELSE IF field \in PropertyFields THEN PropertyAt(im, addr)
  ELSE IF field = "ivars" THEN IVarAt(im, addr) ELSE addr

\* What the first n of these elements give.
Taken(im, field, ptr, flag, n) ==
  LET s == Promise!Among(im, KindIn(im, field, ptr), Source(im, field, ptr))[n]
  IN  [k \in DOMAIN s |-> Made(im, field, ptr, flag, s[k])]

\* The lists that have been read when a call is in a phase.
Done ==
  [create |-> {}, super_class |-> {}, base_method_list |-> {},
   base_protocols |-> {"base_method_list"},
   ivars |-> {"base_method_list", "base_protocols"},
   base_properties |-> {"base_method_list", "base_protocols", "ivars"},
   instance_methods |-> {}, class_methods |-> {"instance_methods"},
   optional_instance_methods |-> {"instance_methods", "class_methods"},
   optional_class_methods |->
     {"instance_methods", "class_methods", "optional_instance_methods"},
   instance_properties |-> {"instance_methods", "class_methods",
     "optional_instance_methods", "optional_class_methods"},
   return |-> ListFields]

Ptr(im, f, field) == Cell(im, f.raw)[field]
SourceOf(im, f, field) == Source(im, field, Ptr(im, f, field))

Flag(f, field) ==
  IF field = "base_method_list" THEN ~ f.obj.is_meta
  ELSE field \in {"instance_methods", "optional_instance_methods"}

\* How many of the elements of a list frame f has gone through.
Extent(im, f, field) ==
  IF f.ph = field THEN IF f.open THEN f.i ELSE 0
  ELSE IF field \in Done[f.ph] THEN Len(SourceOf(im, f, field)) ELSE 0

Upto(im, f, field, n) ==
  Taken(im, field, Ptr(im, f, field), Flag(f, field), n)
Part(im, f, field) == Upto(im, f, field, Extent(im, f, field))

LoopProgress(im, f) ==
  f.open =>
    /\ Ptr(im, f, f.ph) # 0 /\ f.list = Decode(im, Ptr(im, f, f.ph))
    /\ f.i <= Len(SourceOf(im, f, f.ph))
    /\ Len(SourceOf(im, f, f.ph)) <= f.n
    /\ f.n <= Len(Elements(im, f.ph, Ptr(im, f, f.ph)))

ProtocolProgress(im, f) ==
  /\ f.raw = f.at /\ Has(im, "protocol", f.at)
  /\ f.obj.name = StringAt(im, Decode(im, Cell(im, f.at).mangled_name))
  /\ f.obj.is_meta = FALSE /\ f.obj.protocols = << >> /\ f.obj.ivars = << >>
  /\ f.obj.methods = Part(im, f, "instance_methods") \o Part(im, f, "class_methods")
  /\ f.obj.opt_methods = Part(im, f, "optional_instance_methods")
                         \o Part(im, f, "optional_class_methods")
  /\ f.obj.properties = Part(im, f, "instance_properties")

\* Last(im, addr, n): the n-th class along isa from addr is the last one.
Last(im, addr, n) ==
  /\ ~ Promise!HasSuper(im, Promise!Along(im, addr)[n])
  /\ \A k \in 0..(n - 1) : Promise!HasSuper(im, Promise!Along(im, addr)[k])
Ends(im, addr) == \E n \in Nat : Last(im, addr, n)

Inherited(im, addr) ==
  IF Promise!HasSuper(im, addr)
  THEN Promise!AsClassMethods(Promise!MethodsOf(im, IsaOf(im, addr)))
  ELSE << >>

\* The super class has been read, and the protocols it mentions are stored.
SuperProgress(im, f, prots) ==
  f.ph # "super_class" /\ Promise!HasSuper(im, f.at) =>
    /\ Ends(im, IsaOf(im, f.at))
    /\ Promise!Mentioned(im, IsaOf(im, f.at)) \subseteq
         {prots[k].at : k \in DOMAIN prots}

\* A class adopts a protocol when the call that reads it has returned.
Adopted(im, f, calls) ==
  IF f.ph = "base_protocols" /\ calls THEN f.i - 1
  ELSE Extent(im, f, "base_protocols")

ClassProgress(im, f, prots, calls) ==
  /\ f.raw = ClassRoPtr(im, Cell(im, f.at))
  /\ f.obj.name = StringAt(im, Decode(im, Promise!Ro(im, f.at).name))
  /\ f.obj.is_meta = Promise!Ro(im, f.at).is_meta
  /\ f.obj.opt_methods = << >>
  /\ f.obj.methods = (IF f.ph = "super_class" THEN << >> ELSE Inherited(im, f.at))
                     \o Part(im, f, "base_method_list")
  /\ f.obj.ivars = Part(im, f, "ivars")
  /\ f.obj.properties = Part(im, f, "base_properties")
  /\ At(prots, f.obj.protocols) =
       Upto(im, f, "base_protocols", Adopted(im, f, calls))
  /\ SuperProgress(im, f, prots)

Progress(im, f, prots, calls) ==
  f.ph # "create" =>
    /\ LoopProgress(im, f)
    /\ IF f.fn = "Class" THEN ClassProgress(im, f, prots, calls)
       ELSE ProtocolProgress(im, f)

\* The class that called get_or_create_protocol had read the pointer to it.
CallsRef(im, f, g) ==
  f.ph = "base_protocols" =>
    f.i > 0 /\ g.at = SourceOf(im, f, "base_protocols")[f.i]

\* The calls below the top of the stack.
Below(im, s, prots) ==
  \A k \in 1..(Len(s) - 1) :
    Progress(im, s[k], prots, TRUE) /\ CallsRef(im, s[k], s[k + 1])

StackProgress(im, s, prots) ==
  Below(im, s, prots) /\ (s # << >> => Progress(im, s[Len(s)], prots, FALSE))

\* The entry of the section that is being read.
EntryProgress ==
  /\ stage = "done" => stack = << >>
  /\ stack # << >> =>
       /\ stack[1].fn = IF stage = "protocols" THEN "Protocol" ELSE "Class"
       /\ idx - 1 \in DOMAIN Section /\ stack[1].at = Decode(img, Section[idx - 1])

Listed == Promise!Locations(img, img.protolist)

\* What process_protocols is done with is cached where it could be read, and
\* get_or_create_protocol only reads what is not.
CacheProgress ==
  /\ \A addr \in DOMAIN cache : Has(img, "protocol", addr)
  /\ \A k \in DOMAIN Listed :
       (stage = "protocols" => k < idx - 1 \/ (k < idx /\ stack = << >>))
         /\ Has(img, "protocol", Listed[k])
       => Listed[k] \in DOMAIN cache
  /\ \A k \in DOMAIN stack :
       k > 1 /\ stack[k].fn = "Protocol" => stack[k].at \notin DOMAIN cache

RInv == EntryProgress /\ CacheProgress /\ StackProgress(img, stack, protocols)

-----------------------------------------------------------------------------
(***************************************************************************)
(* Sequences.                                                              *)
(***************************************************************************)
\* Among is computed an element at a time.
LEMMA AmongIs ==
  ASSUME NEW im, NEW kind, NEW S, NEW s \in Seq(S)
  PROVE  LET a == Promise!Among(im, kind, s)
         IN  /\ a[0] = << >>
             /\ \A n \in 0..Len(s) : a[n] \in Seq(S)
             /\ \A n \in 0..(Len(s) - 1) :
                  a[n + 1] = IF Has(im, kind, s[n + 1]) THEN Append(a[n], s[n + 1])
                             ELSE a[n]
<1> DEFINE a == Promise!Among(im, kind, s)
           step == [n \in Nat |-> [v \in Seq(S) |->
                      IF n < Len(s) /\ Has(im, kind, s[n + 1])
                      THEN Append(v, s[n + 1]) ELSE v]]
           body(g) == [n \in 0..Len(s) |->
                         IF n = 0 THEN << >>
                         ELSE IF Has(im, kind, s[n]) THEN Append(g[n - 1], s[n])
                         ELSE g[n - 1]]
<1>1. Len(s) \in Nat /\ \A n \in 1..Len(s) : s[n] \in S
  BY LenProperties, ElementOfSeq
<1>2. << >> \in Seq(S) /\ step \in [Nat -> [Seq(S) -> Seq(S)]]
  <2>1. ASSUME NEW n \in Nat, NEW v \in Seq(S)
        PROVE  (IF n < Len(s) /\ Has(im, kind, s[n + 1])
                THEN Append(v, s[n + 1]) ELSE v) \in Seq(S)
    <3>1. CASE n < Len(s)
      <4>1. s[n + 1] \in S
        BY <1>1, <3>1
      <4>2. Append(v, s[n + 1]) \in Seq(S)
        BY <4>1, AppendProperties
      <4> QED
        BY <4>2
    <3> QED
      BY <3>1
  <2> QED
    BY <2>1, EmptySeq
<1>3. PICK f \in [Nat -> Seq(S)] : RepeatsForEver(f, << >>, step)
  <2> HIDE DEF step
  <2> QED
    BY <1>2, Repetition
<1> DEFINE h == [n \in 0..Len(s) |-> f[n]]
<1>4. ASSUME NEW n \in 0..(Len(s) - 1)
      PROVE  f[n + 1] = IF Has(im, kind, s[n + 1]) THEN Append(f[n], s[n + 1])
                        ELSE f[n]
  <2>1. n \in Nat /\ n < Len(s) /\ f[n] \in Seq(S)
    BY <1>1
  <2> QED
    BY <1>3, <2>1 DEF RepeatsForEver
<1>5. h = body(h)
  <2>1. ASSUME NEW n \in 0..Len(s)
        PROVE  h[n] = IF n = 0 THEN << >>
                      ELSE IF Has(im, kind, s[n]) THEN Append(h[n - 1], s[n])
                      ELSE h[n - 1]
    <3>1. CASE n = 0
      BY <1>3, <3>1 DEF RepeatsForEver
    <3>2. CASE n # 0
      <4>1. n - 1 \in 0..(Len(s) - 1) /\ n - 1 \in 0..Len(s) /\ (n - 1) + 1 = n
        BY <1>1, <3>2
      <4> HIDE DEF step
      <4> QED
        BY <1>4, <3>2, <4>1
    <3> QED
      BY <3>1, <3>2
  <2> HIDE DEF step
  <2> QED
    BY <2>1
<1>6. a = body(a)
  <2> DEFINE P(g) == g = body(g)
  <2>1. P(h)
    BY <1>5
  <2>2. a = CHOOSE g : P(g)
    BY DEF Promise!Among, Promise!Has, Promise!VirtualAddress, Has, VirtualAddress
  <2> HIDE DEF P
  <2>3. P(CHOOSE g : P(g))
    BY <2>1
  <2> QED
    BY <2>2, <2>3 DEF P
<1> HIDE DEF a, step, h
<1>7. a[0] = << >>
  BY <1>1, <1>6
<1>8. ASSUME NEW n \in 0..(Len(s) - 1)
      PROVE  a[n + 1] = IF Has(im, kind, s[n + 1]) THEN Append(a[n], s[n + 1])
                        ELSE a[n]
  <2>1. n + 1 \in 0..Len(s) /\ n + 1 # 0 /\ (n + 1) - 1 = n
    BY <1>1
  <2>2. a[n + 1] = body(a)[n + 1]
    BY <1>6
  <2> QED
    BY <2>1, <2>2
<1>9. \A n \in 0..Len(s) : a[n] \in Seq(S)
  <2> DEFINE T == {n \in 0..Len(s) : a[n] \in Seq(S)}
  <2>1. 0 \in T
    <3>1. 0 \in 0..Len(s)
      BY <1>1
    <3>2. a[0] \in Seq(S)
      BY <1>2, <1>7
    <3> QED
      BY <3>1, <3>2
  <2>2. ASSUME NEW n \in T, n \in 0..(Len(s) - 1) PROVE n + 1 \in T
    <3>1. n + 1 \in 0..Len(s) /\ s[n + 1] \in S /\ a[n] \in Seq(S)
      BY <1>1, <2>2
    <3>2. Append(a[n], s[n + 1]) \in Seq(S)
      BY <3>1, AppendProperties
    <3> QED
      BY <1>8, <2>2, <3>1, <3>2
  <2>3. 0..Len(s) \subseteq T
    <3> HIDE DEF T
    <3> QED
      BY <1>1, <2>1, <2>2, UpTo
  <2> QED
    BY <2>3
<1> QED
  BY <1>7, <1>8, <1>9 DEF a

\* Where all elements can be read, these are all.
LEMMA AmongAll ==
  ASSUME NEW im, NEW kind, NEW S, NEW s \in Seq(S),
         \A k \in 1..Len(s) : Has(im, kind, s[k])
  PROVE  Promise!Among(im, kind, s)[Len(s)] = s
<1> DEFINE a == Promise!Among(im, kind, s)
           T == {n \in 0..Len(s) : Len(a[n]) = n /\ \A k \in 1..n : a[n][k] = s[k]}
<1>1. /\ a[0] = << >> /\ \A n \in 0..Len(s) : a[n] \in Seq(S)
      /\ \A n \in 0..(Len(s) - 1) :
           a[n + 1] = IF Has(im, kind, s[n + 1]) THEN Append(a[n], s[n + 1])
                      ELSE a[n]
  BY AmongIs
<1> HIDE DEF a
<1>2. Len(s) \in Nat /\ \A n \in 1..Len(s) : s[n] \in S
  BY LenProperties, ElementOfSeq
<1>3. 0 \in T
  BY <1>1, <1>2, EmptySeq
<1>4. ASSUME NEW n \in T, n \in 0..(Len(s) - 1) PROVE n + 1 \in T
  <2>1. /\ n \in 0..Len(s) /\ n + 1 \in 1..Len(s) /\ n + 1 \in 0..Len(s)
        /\ n \in Nat
    BY <1>2, <1>4
  <2>2. a[n + 1] = Append(a[n], s[n + 1])
    BY <1>1, <1>4, <2>1
  <2>3. /\ Len(a[n]) = n /\ \A k \in 1..n : a[n][k] = s[k]
        /\ a[n] \in Seq(S) /\ s[n + 1] \in S
    BY <1>1, <1>2, <2>1
  <2>4. /\ Len(a[n + 1]) = n + 1 /\ a[n + 1][n + 1] = s[n + 1]
        /\ \A k \in 1..n : a[n + 1][k] = a[n][k]
    BY <2>2, <2>3, AppendProperties
  <2>5. \A k \in 1..(n + 1) : k \in 1..n \/ k = n + 1
    BY <2>1
  <2> QED
    BY <2>1, <2>3, <2>4, <2>5
<1>5. 0..Len(s) \subseteq T
  <2> HIDE DEF T
  <2> QED
    BY <1>2, <1>3, <1>4, UpTo
<1>6. Len(s) \in 0..Len(s)
  BY <1>2
<1>7. /\ Len(a[Len(s)]) = Len(s) /\ a[Len(s)] \in Seq(S)
      /\ \A k \in 1..Len(s) : a[Len(s)][k] = s[k]
  BY <1>1, <1>5, <1>6
<1>8. a[Len(s)] = s
  BY <1>7, SeqEqual
<1> QED
  BY <1>8 DEF a

\* An element that can be read is among them.
LEMMA AmongFinds ==
  ASSUME NEW im, NEW kind, NEW S, NEW s \in Seq(S),
         NEW k \in 1..Len(s), Has(im, kind, s[k])
  PROVE  \E j \in DOMAIN Promise!Readable(im, kind, s) :
           Promise!Readable(im, kind, s)[j] = s[k]
<1> DEFINE a == Promise!Among(im, kind, s)
           Found(n) == \E j \in 1..Len(a[n]) : a[n][j] = s[k]
           T == {n \in 0..Len(s) : k <= n => Found(n)}
<1>1. /\ a[0] = << >> /\ \A n \in 0..Len(s) : a[n] \in Seq(S)
      /\ \A n \in 0..(Len(s) - 1) :
           a[n + 1] = IF Has(im, kind, s[n + 1]) THEN Append(a[n], s[n + 1])
                      ELSE a[n]
  BY AmongIs
<1> HIDE DEF a
<1>2. Len(s) \in Nat /\ \A n \in 1..Len(s) : s[n] \in S
  BY LenProperties, ElementOfSeq
<1>3. 0 \in T
  BY <1>2
<1>4. ASSUME NEW n \in T, n \in 0..(Len(s) - 1) PROVE n + 1 \in T
  <2>1. /\ n \in 0..Len(s) /\ n + 1 \in 1..Len(s) /\ n + 1 \in 0..Len(s)
        /\ n \in Nat /\ k <= n + 1 => k <= n \/ k = n + 1
    BY <1>2, <1>4
  <2>2. a[n] \in Seq(S) /\ s[n + 1] \in S
    BY <1>1, <1>2, <2>1
  <2>3. /\ Len(a[n]) \in Nat /\ Len(Append(a[n], s[n + 1])) = Len(a[n]) + 1
        /\ Append(a[n], s[n + 1])[Len(a[n]) + 1] = s[n + 1]
        /\ \A j \in 1..Len(a[n]) : Append(a[n], s[n + 1])[j] = a[n][j]
    BY <2>2, AppendProperties, LenProperties
  <2>4. \A j \in 1..Len(a[n]) : j \in 1..(Len(a[n]) + 1)
    BY <2>3
  <2>5. Len(a[n]) + 1 \in 1..(Len(a[n]) + 1)
    BY <2>3
  <2>6. CASE k <= n
    <3>1. PICK j \in 1..Len(a[n]) : a[n][j] = s[k]
      BY <2>6
    <3>2. CASE Has(im, kind, s[n + 1])
      BY <1>1, <1>4, <2>1, <2>3, <2>4, <3>1, <3>2
    <3>3. CASE ~ Has(im, kind, s[n + 1])
      BY <1>1, <1>4, <2>1, <3>1, <3>3
    <3> QED
      BY <3>2, <3>3
  <2>7. CASE k = n + 1
    BY <1>1, <1>4, <2>1, <2>3, <2>5, <2>7
  <2> QED
    BY <2>1, <2>6, <2>7
<1>5. 0..Len(s) \subseteq T
  <2> HIDE DEF T
  <2> QED
    BY <1>2, <1>3, <1>4, UpTo
<1>6. Len(s) \in 0..Len(s) /\ k <= Len(s)
  BY <1>2
<1>7. Found(Len(s)) /\ a[Len(s)] \in Seq(S)
  BY <1>1, <1>5, <1>6
<1>8. DOMAIN a[Len(s)] = 1..Len(a[Len(s)])
  BY <1>7, LenProperties
<1> QED
  BY <1>7, <1>8 DEF Promise!Readable, a

\* There is one length of the readable prefix.
LEMMA ReadableLengthIs ==
  ASSUME NEW im, NEW kind, NEW S, NEW s \in Seq(S)
  PROVE  LET n == Promise!ReadableLength(im, kind, s)
         IN  /\ n \in 0..Len(s) /\ \A k \in 1..n : Has(im, kind, s[k])
             /\ n < Len(s) => ~ Has(im, kind, s[n + 1])
<1> DEFINE P(n) == /\ \A k \in 1..n : Has(im, kind, s[k])
                   /\ n < Len(s) => ~ Has(im, kind, s[n + 1])
           T == {n \in 0..Len(s) : \A k \in 1..n : Has(im, kind, s[k])}
<1>1. Len(s) \in Nat
  BY LenProperties
<1>2. \E n \in 0..Len(s) : P(n)
  <2> SUFFICES ASSUME \A n \in 0..Len(s) : ~ P(n) PROVE FALSE
    OBVIOUS
  <2>1. 0 \in T
    BY <1>1
  <2>2. ASSUME NEW n \in T, n \in 0..(Len(s) - 1) PROVE n + 1 \in T
    <3>1. n \in Nat /\ n + 1 \in 0..Len(s) /\ n < Len(s)
      BY <1>1, <2>2
    <3>2. Has(im, kind, s[n + 1])
      BY <3>1
    <3>3. \A k \in 1..(n + 1) : k \in 1..n \/ k = n + 1
      BY <3>1
    <3> QED
      BY <3>1, <3>2, <3>3
  <2>3. 0..Len(s) \subseteq T
    <3> HIDE DEF T
    <3> QED
      BY <1>1, <2>1, <2>2, UpTo
  <2>4. Len(s) \in 0..Len(s) /\ ~ (Len(s) < Len(s))
    BY <1>1
  <2> QED
    BY <2>3, <2>4
<1>3. Promise!ReadableLength(im, kind, s) = CHOOSE n \in 0..Len(s) : P(n)
  BY DEF Promise!ReadableLength, Promise!Has, Promise!VirtualAddress,
         Has, VirtualAddress
<1>4. LET n == CHOOSE n \in 0..Len(s) : P(n) IN n \in 0..Len(s) /\ P(n)
  <2> HIDE DEF P
  <2> QED
    BY <1>2
<1> QED
  BY <1>3, <1>4

-----------------------------------------------------------------------------
(***************************************************************************)
(* Lists.  Promise has ObjCImage of its own, which says the same.          *)
(***************************************************************************)
LEMMA SameImage ==
  ASSUME NEW im
  PROVE  /\ \A kind, addr : Promise!Has(im, kind, addr) <=> Has(im, kind, addr)
         /\ \A addr : Promise!Cell(im, addr) = Cell(im, addr)
         /\ \A ptr : Promise!Decode(im, ptr) = Decode(im, ptr)
         /\ \A addr : Promise!StringAt(im, addr) = StringAt(im, addr)
         /\ \A small : Promise!MethodKind(small) = MethodKind(small)
<1>1. \A kind, addr : Promise!Has(im, kind, addr) <=> Has(im, kind, addr)
  BY DEF Promise!Has, Promise!VirtualAddress, Has, VirtualAddress
<1>2. \A addr : Promise!Cell(im, addr) = Cell(im, addr)
  BY DEF Promise!Cell, Promise!VirtualAddress, Cell, VirtualAddress
<1>3. \A addr : Promise!StringAt(im, addr) = StringAt(im, addr)
  BY <1>1, <1>2 DEF Promise!StringAt, StringAt
<1> QED
  BY <1>1, <1>2, <1>3 DEF Promise!Decode, Decode, Promise!MethodKind, MethodKind

LEMMA SameLeaves ==
  ASSUME NEW im, NEW addr
  PROVE  /\ \A small, flag :
              Promise!MethodAt(im, small, addr, flag) = MethodAt(im, small, addr, flag)
         /\ Promise!IVarAt(im, addr) = IVarAt(im, addr)
         /\ Promise!PropertyAt(im, addr) = PropertyAt(im, addr)
<1>1. \A small, flag :
        Promise!MethodAt(im, small, addr, flag) = MethodAt(im, small, addr, flag)
  <2> SUFFICES ASSUME NEW small, NEW flag
               PROVE  Promise!MethodAt(im, small, addr, flag)
                        = MethodAt(im, small, addr, flag)
    OBVIOUS
  <2>1. Promise!MethodName(im, small, addr) = MethodName(im, small, addr)
    BY SameImage DEF Promise!MethodName, MethodName
  <2>2. Promise!MethodTypes(im, small, addr) = MethodTypes(im, small, addr)
    BY SameImage DEF Promise!MethodTypes, MethodTypes
  <2> QED
    BY <2>1, <2>2 DEF Promise!MethodAt, MethodAt
<1> QED
  BY <1>1, SameImage DEF Promise!IVarAt, IVarAt, Promise!PropertyAt, PropertyAt

LEMMA SameClasses ==
  ASSUME NEW im, NEW addr
  PROVE  /\ \A cls : Promise!ClassRoPtr(im, cls) = ClassRoPtr(im, cls)
         /\ Promise!ClassReadable(im, addr) <=> ClassReadable(im, addr)
         /\ Promise!IsaOf(im, addr) = IsaOf(im, addr)
         /\ Promise!HasSuper(im, addr) <=>
              HasIsa(im, addr) /\ IsaOf(im, addr) # addr
         /\ Promise!Ro(im, addr) = Cell(im, ClassRoPtr(im, Cell(im, addr)))
<1>1. \A cls : Promise!ClassRoPtr(im, cls) = ClassRoPtr(im, cls)
  BY SameImage DEF Promise!ClassRoPtr, ClassRoPtr
<1>2. \A a : Promise!ClassReadable(im, a) <=> ClassReadable(im, a)
  BY <1>1, SameImage DEF Promise!ClassReadable, ClassReadable
<1>3. Promise!IsaOf(im, addr) = IsaOf(im, addr)
  BY SameImage DEF Promise!IsaOf, IsaOf
<1>4. Promise!HasIsa(im, addr) <=> HasIsa(im, addr)
  BY <1>2, <1>3, SameImage DEF Promise!HasIsa, HasIsa
<1> QED
  BY <1>1, <1>2, <1>3, <1>4, SameImage DEF Promise!HasSuper, Promise!Ro

\* A list that can be read has the elements behind its header, any other none.
LEMMA ElementsAre ==
  ASSUME NEW im, IsImage(im), NEW field \in ListFields, NEW ptr \in Nat
  PROVE  LET s == Elements(im, field, ptr)
         IN  /\ s \in Seq(Nat)
             /\ ptr # 0 /\ Has(im, ListKind(field), Decode(im, ptr)) =>
                  /\ Len(s) = Cell(im, Decode(im, ptr)).count
                  /\ \A k \in 1..Len(s) : s[k] = Decode(im, ptr) + k
             /\ ~ (ptr # 0 /\ Has(im, ListKind(field), Decode(im, ptr))) =>
                  s = << >>
<1> DEFINE head == Decode(im, ptr)
           count == Cell(im, head).count
           all == [k \in 1..count |-> head + k]
<1>1. Elements(im, field, ptr) =
        IF ptr # 0 /\ Has(im, ListKind(field), head) THEN all ELSE << >>
  BY SameImage DEF Elements, Promise!ElementsOf
<1>2. head \in Nat
  BY DecodeNat DEF IsImage
<1>3. CASE ptr # 0 /\ Has(im, ListKind(field), head)
  <2>1. count \in Nat
    BY <1>3, CellIsCell, ListCell
  <2> HIDE DEF count, head
  <2>2. all \in Seq(Nat) /\ Len(all) = count
    BY <1>2, <2>1
  <2>3. \A k \in 1..count : all[k] = head + k
    BY <2>1
  <2> QED
    BY <1>1, <1>3, <2>2, <2>3 DEF count, head
<1>4. CASE ~ (ptr # 0 /\ Has(im, ListKind(field), head))
  BY <1>1, <1>4, EmptySeq
<1> QED
  BY <1>3, <1>4

LEMMA PrefixIs ==
  ASSUME NEW im, NEW kind, NEW S, NEW s \in Seq(S)
  PROVE  LET p == Promise!ReadablePrefix(im, kind, s)
         IN  /\ p \in Seq(S) /\ Len(p) <= Len(s)
             /\ \A k \in 1..Len(p) : p[k] = s[k] /\ Has(im, kind, s[k])
             /\ Len(p) < Len(s) => ~ Has(im, kind, s[Len(p) + 1])
<1> DEFINE n == Promise!ReadableLength(im, kind, s)
           p == SubSeq(s, 1, n)
<1>1. /\ n \in 0..Len(s) /\ \A k \in 1..n : Has(im, kind, s[k])
      /\ n < Len(s) => ~ Has(im, kind, s[n + 1])
  BY ReadableLengthIs
<1> HIDE DEF n
<1>2. Len(s) \in Nat
  BY LenProperties
<1>3. p \in Seq(S) /\ Len(p) = n /\ \A k \in 1..n : p[k] = s[k]
  <2>1. /\ \A k \in 1..n : s[k] \in S
        /\ n \in Nat
    BY <1>1, <1>2, ElementOfSeq
  <2> QED
    BY <1>1, <1>2, <2>1, SubSeqProperties
<1> QED
  BY <1>1, <1>2, <1>3 DEF Promise!ReadablePrefix, n

LEMMA SourceIs ==
  ASSUME NEW im, IsImage(im), NEW field \in ListFields, NEW ptr \in Nat
  PROVE  LET s == Source(im, field, ptr)
             all == Elements(im, field, ptr)
         IN  /\ s \in Seq(Nat) /\ Len(s) <= Len(all)
             /\ field = "base_method_list" =>
                  /\ \A k \in 1..Len(s) :
                       s[k] = all[k] /\ Has(im, KindIn(im, field, ptr), all[k])
                  /\ Len(s) < Len(all) =>
                       ~ Has(im, KindIn(im, field, ptr), all[Len(s) + 1])
             /\ field = "base_protocols" =>
                  /\ \A k \in 1..Len(s) :
                       /\ s[k] = Decode(im, Cell(im, all[k]).value)
                       /\ Has(im, "pointer", all[k])
                  /\ Len(s) < Len(all) => ~ Has(im, "pointer", all[Len(s) + 1])
             /\ field \notin {"base_method_list", "base_protocols"} => s = all
<1> DEFINE all == Elements(im, field, ptr)
           s == Source(im, field, ptr)
<1>1. all \in Seq(Nat)
  BY ElementsAre
<1> HIDE DEF all
<1>2. Len(all) \in Nat
  BY <1>1, LenProperties
<1>3. CASE field = "base_method_list"
  <2>1. s = Promise!ReadablePrefix(im, KindIn(im, field, ptr), all)
    BY <1>3 DEF Source, all
  <2> HIDE DEF s
  <2>2. /\ s \in Seq(Nat) /\ Len(s) <= Len(all)
        /\ \A k \in 1..Len(s) :
             s[k] = all[k] /\ Has(im, KindIn(im, field, ptr), all[k])
        /\ Len(s) < Len(all) => ~ Has(im, KindIn(im, field, ptr), all[Len(s) + 1])
    BY <1>1, <2>1, PrefixIs
  <2> QED
    BY <1>3, <2>2 DEF s, all
<1>4. CASE field = "base_protocols"
  <2> DEFINE p == Promise!ReadablePrefix(im, "pointer", all)
  <2>1. s = [k \in DOMAIN p |-> Decode(im, Cell(im, p[k]).value)]
    BY <1>4 DEF Source, Pointees, all
  <2>2. /\ p \in Seq(Nat) /\ Len(p) <= Len(all)
        /\ \A k \in 1..Len(p) : p[k] = all[k] /\ Has(im, "pointer", all[k])
        /\ Len(p) < Len(all) => ~ Has(im, "pointer", all[Len(p) + 1])
    BY <1>1, PrefixIs
  <2> HIDE DEF p
  <2>3. Len(p) \in Nat /\ DOMAIN p = 1..Len(p)
    BY <2>2, LenProperties
  <2>4. ASSUME NEW k \in 1..Len(p)
        PROVE  /\ Decode(im, Cell(im, p[k]).value) \in Nat
               /\ s[k] = Decode(im, Cell(im, all[k]).value)
    <3>1. Cell(im, all[k]).value \in Nat
      BY <2>2, CellIsCell, PointerCell
    <3> HIDE DEF s
    <3> QED
      BY <2>1, <2>2, <2>3, <3>1, DecodeNat DEF IsImage
  <2> HIDE DEF s
  <2>5. s \in Seq(Nat) /\ Len(s) = Len(p)
    BY <2>1, <2>3, <2>4
  <2> QED
    BY <1>4, <2>2, <2>4, <2>5 DEF s, all
<1>5. CASE field \notin {"base_method_list", "base_protocols"}
  BY <1>1, <1>2, <1>5 DEF Source, all
<1> QED
  BY <1>3, <1>4, <1>5

MemberSet(field) ==
  IF field \in MethodFields THEN Methods
  ELSE IF field \in PropertyFields THEN Properties
  ELSE IF field = "ivars" THEN IVars ELSE Nat

\* What a list gives is computed an element at a time, as the loop over it does.
LEMMA TakenIs ==
  ASSUME NEW im, IsImage(im), NEW field \in ListFields, NEW ptr \in Nat,
         NEW flag \in BOOLEAN
  PROVE  LET s == Source(im, field, ptr)
             kind == KindIn(im, field, ptr)
         IN  /\ Taken(im, field, ptr, flag, 0) = << >>
             /\ \A n \in 0..Len(s) :
                  Taken(im, field, ptr, flag, n) \in Seq(MemberSet(field))
             /\ \A n \in 0..(Len(s) - 1) :
                  Taken(im, field, ptr, flag, n + 1) =
                    IF Has(im, kind, s[n + 1])
                    THEN Append(Taken(im, field, ptr, flag, n),
                                Made(im, field, ptr, flag, s[n + 1]))
                    ELSE Taken(im, field, ptr, flag, n)
<1> DEFINE s == Source(im, field, ptr)
           kind == KindIn(im, field, ptr)
           a == Promise!Among(im, kind, s)
           made(addr) == Made(im, field, ptr, flag, addr)
           t(n) == Taken(im, field, ptr, flag, n)
<1>1. s \in Seq(Nat)
  BY SourceIs
<1>2. Len(s) \in Nat /\ \A n \in 1..Len(s) : s[n] \in Nat
  BY <1>1, LenProperties, ElementOfSeq
<1>3. /\ a[0] = << >> /\ \A n \in 0..Len(s) : a[n] \in Seq(Nat)
      /\ \A n \in 0..(Len(s) - 1) :
           a[n + 1] = IF Has(im, kind, s[n + 1]) THEN Append(a[n], s[n + 1])
                      ELSE a[n]
  <2> HIDE DEF s, kind
  <2> QED
    BY <1>1, AmongIs
<1>4. \A n : t(n) = [k \in DOMAIN a[n] |-> made(a[n][k])]
  BY DEF Taken
<1>5. \A addr \in Nat : made(addr) \in MemberSet(field)
  BY MethodAtType, IVarAtType, PropertyAtType DEF Made, MemberSet
<1> HIDE DEF s, kind, a, made, t
<1>6. ASSUME NEW n \in 0..Len(s)
      PROVE  /\ Len(a[n]) \in Nat /\ DOMAIN a[n] = 1..Len(a[n])
             /\ t(n) \in Seq(MemberSet(field)) /\ Len(t(n)) = Len(a[n])
             /\ \A k \in 1..Len(a[n]) : t(n)[k] = made(a[n][k])
  <2> DEFINE b == a[n]
             M == MemberSet(field)
  <2>1. b \in Seq(Nat)
    BY <1>3
  <2> HIDE DEF b, M
  <2>2. Len(b) \in Nat /\ DOMAIN b = 1..Len(b) /\ \A k \in 1..Len(b) : b[k] \in Nat
    BY <2>1, LenProperties, ElementOfSeq
  <2>3. t(n) = [k \in 1..Len(b) |-> made(b[k])]
    BY <1>4, <2>2 DEF b
  <2>4. \A k \in 1..Len(b) : made(b[k]) \in M
    BY <1>5, <2>2 DEF M
  <2>5. t(n) \in Seq(M) /\ Len(t(n)) = Len(b)
    BY <2>2, <2>3, <2>4
  <2> QED
    BY <2>2, <2>3, <2>5 DEF b, M
<1>7. t(0) = << >>
  <2>1. 0 \in 0..Len(s)
    BY <1>2
  <2>2. t(0) \in Seq(MemberSet(field)) /\ Len(t(0)) = 0
    BY <1>3, <1>6, <2>1, EmptySeq
  <2> QED
    BY <2>2, EmptySeq
<1>8. ASSUME NEW n \in 0..(Len(s) - 1)
      PROVE  t(n + 1) = IF Has(im, kind, s[n + 1]) THEN Append(t(n), made(s[n + 1]))
                        ELSE t(n)
  <2>1. n \in 0..Len(s) /\ n + 1 \in 0..Len(s) /\ n + 1 \in 1..Len(s) /\ n \in Nat
    BY <1>2
  <2>2. CASE ~ Has(im, kind, s[n + 1])
    <3>1. a[n + 1] = a[n]
      BY <1>3, <2>2
    <3> QED
      BY <1>4, <2>2, <3>1
  <2>3. CASE Has(im, kind, s[n + 1])
    <3> DEFINE M == MemberSet(field)
               e == s[n + 1]
               b == a[n]
               u == Append(t(n), made(e))
               v == t(n + 1)
               c == a[n + 1]
    <3>1. c = Append(b, e)
      BY <1>3, <2>3
    <3>2. /\ t(n) \in Seq(M) /\ v \in Seq(M) /\ made(e) \in M
          /\ b \in Seq(Nat) /\ e \in Nat
      BY <1>2, <1>3, <1>5, <1>6, <2>1
    <3>3. /\ Len(t(n)) = Len(b) /\ \A k \in 1..Len(b) : t(n)[k] = made(b[k])
          /\ Len(v) = Len(c) /\ \A k \in 1..Len(c) : v[k] = made(c[k])
          /\ Len(b) \in Nat
      BY <1>6, <2>1
    <3> HIDE DEF M, e, b, c, v
    <3>4. /\ Len(c) = Len(b) + 1 /\ c[Len(b) + 1] = e
          /\ \A k \in 1..Len(b) : c[k] = b[k]
      BY <3>1, <3>2, AppendProperties
    <3>5. /\ u \in Seq(M) /\ Len(u) = Len(t(n)) + 1 /\ u[Len(t(n)) + 1] = made(e)
          /\ \A k \in 1..Len(t(n)) : u[k] = t(n)[k]
      BY <3>2, AppendProperties
    <3> HIDE DEF u
    <3>6. Len(u) = Len(v)
      BY <3>3, <3>4, <3>5
    <3>7. ASSUME NEW k \in 1..Len(u) PROVE u[k] = v[k]
      <4>1. k \in 1..Len(b) \/ k = Len(b) + 1
        BY <3>3, <3>5
      <4>2. k \in 1..Len(c)
        BY <3>3, <3>6
      <4> QED
        BY <3>3, <3>4, <3>5, <4>1, <4>2
    <3>8. u = v
      BY <3>2, <3>5, <3>6, <3>7, SeqEqual
    <3> QED
      BY <2>3, <3>8 DEF u, v, e
  <2> QED
    BY <2>2, <2>3
<1>9. \A n \in 0..Len(s) : t(n) \in Seq(MemberSet(field))
  BY <1>6
<1> QED
  BY <1>7, <1>8, <1>9 DEF t, s, kind, made

Whole(im, field, ptr, flag) ==
  Taken(im, field, ptr, flag, Len(Source(im, field, ptr)))

\* The whole of a list is what Promise makes of it: for the lists of a protocol
\* and of properties...
LEMMA WholeMethods ==
  ASSUME NEW im, IsImage(im), NEW field \in MethodFields \ {"base_method_list"},
         NEW ptr \in Nat, NEW flag \in BOOLEAN
  PROVE  Promise!ProtocolMethods(im, ptr, flag) = Whole(im, field, ptr, flag)
<1> DEFINE all == Elements(im, field, ptr)
           kind == MethodKind(Promise!IsSmall(im, ptr))
           s == Promise!Among(im, kind, all)[Len(all)]
<1>1. /\ field \in ListFields /\ ListKind(field) = "method_list"
      /\ field \notin {"base_method_list", "base_protocols"}
      /\ KindIn(im, field, ptr) = kind
  BY DEF ListFields, ListKind, KindIn, MethodFields
<1>2. Source(im, field, ptr) = all
  BY <1>1, SourceIs
<1>3. Promise!ElementsOf(im, "method_list", ptr) = all
  BY <1>1 DEF Elements
<1>4. Taken(im, field, ptr, flag, 0) = << >>
  BY <1>1, TakenIs
<1>5. CASE all = << >>
  <2>1. Promise!ProtocolMethods(im, ptr, flag) = << >>
    BY <1>3, <1>5 DEF Promise!ProtocolMethods
  <2>2. Len(all) = 0
    BY <1>5
  <2> QED
    BY <1>2, <1>4, <2>1, <2>2 DEF Whole
<1>6. CASE all # << >>
  <2>1. Promise!MethodKind(Promise!IsSmall(im, ptr)) = kind
    BY SameImage
  <2>2. Promise!ProtocolMethods(im, ptr, flag) = Promise!MethodsAt(im, ptr, s, flag)
    BY <1>3, <1>6, <2>1 DEF Promise!ProtocolMethods, Promise!Readable
  <2>3. Whole(im, field, ptr, flag)
          = [k \in DOMAIN s |-> MethodAt(im, Promise!IsSmall(im, ptr), s[k], flag)]
    BY <1>1, <1>2 DEF Whole, Taken, Made
  <2> HIDE DEF s
  <2>4. Promise!MethodsAt(im, ptr, s, flag)
          = [k \in DOMAIN s |-> MethodAt(im, Promise!IsSmall(im, ptr), s[k], flag)]
    BY SameLeaves DEF Promise!MethodsAt
  <2> QED
    BY <2>2, <2>3, <2>4
<1> QED
  BY <1>5, <1>6

LEMMA WholeProperties ==
  ASSUME NEW im, IsImage(im), NEW field \in PropertyFields,
         NEW ptr \in Nat, NEW flag \in BOOLEAN
  PROVE  Promise!PropertiesOf(im, ptr) = Whole(im, field, ptr, flag)
<1> DEFINE all == Elements(im, field, ptr)
           s == Promise!Among(im, "property", all)[Len(all)]
<1>1. /\ field \in ListFields /\ ListKind(field) = "property_list"
      /\ field \notin {"base_method_list", "base_protocols"}
      /\ field \notin MethodFields
      /\ KindIn(im, field, ptr) = "property"
  BY DEF ListFields, ListKind, KindIn, MethodFields, PropertyFields
<1>2. Source(im, field, ptr) = all
  BY <1>1, SourceIs
<1>3. Promise!ElementsOf(im, "property_list", ptr) = all
  BY <1>1 DEF Elements
<1>4. Whole(im, field, ptr, flag) = [k \in DOMAIN s |-> PropertyAt(im, s[k])]
  BY <1>1, <1>2 DEF Whole, Taken, Made
<1>5. Promise!PropertiesOf(im, ptr) = [k \in DOMAIN s |-> Promise!PropertyAt(im, s[k])]
  BY <1>3 DEF Promise!PropertiesOf, Promise!Readable
<1> HIDE DEF s
<1> QED
  BY <1>4, <1>5, SameLeaves

\* ... and for those of a class.
LEMMA WholeOwnMethods ==
  ASSUME NEW im, IsImage(im), NEW addr,
         Promise!Ro(im, addr).base_method_list \in Nat,
         Promise!Ro(im, addr).is_meta \in BOOLEAN
  PROVE  Promise!OwnMethods(im, addr) =
           Whole(im, "base_method_list", Promise!Ro(im, addr).base_method_list,
                 ~ Promise!Ro(im, addr).is_meta)
<1> DEFINE ptr == Promise!Ro(im, addr).base_method_list
           flag == ~ Promise!Ro(im, addr).is_meta
           all == Elements(im, "base_method_list", ptr)
           kind == MethodKind(Promise!IsSmall(im, ptr))
           s == Source(im, "base_method_list", ptr)
<1>1. /\ "base_method_list" \in ListFields
      /\ ListKind("base_method_list") = "method_list"
      /\ "base_method_list" \in MethodFields
      /\ KindIn(im, "base_method_list", ptr) = kind
      /\ flag \in BOOLEAN
  BY DEF ListFields, ListKind, KindIn, MethodFields
<1>2. Promise!ElementsOf(im, "method_list", ptr) = all
  BY <1>1 DEF Elements
<1>3. /\ s \in Seq(Nat) /\ Len(s) <= Len(all)
      /\ \A k \in 1..Len(s) : s[k] = all[k] /\ Has(im, kind, all[k])
  BY <1>1, SourceIs
<1>4. s = Promise!ReadablePrefix(im, kind, all)
  BY <1>1 DEF Source
<1>5. Taken(im, "base_method_list", ptr, flag, 0) = << >>
  BY <1>1, TakenIs
<1>6. Whole(im, "base_method_list", ptr, flag)
        = LET b == Promise!Among(im, kind, s)[Len(s)]
          IN  [k \in DOMAIN b |-> MethodAt(im, Promise!IsSmall(im, ptr), b[k], flag)]
  BY <1>1 DEF Whole, Taken, Made
<1>7. Promise!OwnMethods(im, addr) =
        IF all = << >> THEN << >>
        ELSE Promise!MethodsAt(im, ptr,
               Promise!ReadablePrefix(im, Promise!MethodKind(Promise!IsSmall(im, ptr)), all),
               flag)
  BY <1>2 DEF Promise!OwnMethods
<1> HIDE DEF s
<1>8. CASE all = << >>
  <2>1. Len(s) = 0
    BY <1>3, <1>8, LenProperties, EmptySeq
  <2> QED
    BY <1>5, <1>7, <1>8, <2>1 DEF Whole, s
<1>9. CASE all # << >>
  <2>1. Promise!MethodKind(Promise!IsSmall(im, ptr)) = kind
    BY SameImage
  <2>2. Promise!OwnMethods(im, addr) = Promise!MethodsAt(im, ptr, s, flag)
    BY <1>4, <1>7, <1>9, <2>1
  <2>3. Promise!Among(im, kind, s)[Len(s)] = s
    BY <1>3, AmongAll
  <2> HIDE DEF kind, flag, ptr
  <2>4. Promise!MethodsAt(im, ptr, s, flag)
          = [k \in DOMAIN s |-> MethodAt(im, Promise!IsSmall(im, ptr), s[k], flag)]
    BY SameLeaves DEF Promise!MethodsAt
  <2> QED
    BY <1>6, <2>2, <2>3, <2>4 DEF ptr, flag
<1> QED
  BY <1>8, <1>9

LEMMA WholeIvars ==
  ASSUME NEW im, IsImage(im), NEW addr, Promise!Ro(im, addr).ivars \in Nat,
         NEW flag \in BOOLEAN
  PROVE  Promise!IvarsOf(im, addr) =
           Whole(im, "ivars", Promise!Ro(im, addr).ivars, flag)
<1> DEFINE ptr == Promise!Ro(im, addr).ivars
           all == Elements(im, "ivars", ptr)
           s == Promise!Among(im, "ivar", all)[Len(all)]
<1>1. /\ "ivars" \in ListFields /\ ListKind("ivars") = "ivar_list"
      /\ "ivars" \notin MethodFields \cup PropertyFields
      /\ KindIn(im, "ivars", ptr) = "ivar"
  BY DEF ListFields, ListKind, KindIn, MethodFields, PropertyFields
<1>2. Source(im, "ivars", ptr) = all
  BY <1>1, SourceIs
<1>3. Promise!ElementsOf(im, "ivar_list", ptr) = all
  BY <1>1 DEF Elements
<1>4. Whole(im, "ivars", ptr, flag) = [k \in DOMAIN s |-> IVarAt(im, s[k])]
  BY <1>1, <1>2 DEF Whole, Taken, Made
<1>5. Promise!IvarsOf(im, addr) = [k \in DOMAIN s |-> Promise!IVarAt(im, s[k])]
  BY <1>3 DEF Promise!IvarsOf, Promise!Readable
<1> HIDE DEF s
<1> QED
  BY <1>4, <1>5, SameLeaves

LEMMA WholeAdopts ==
  ASSUME NEW im, IsImage(im), NEW addr,
         Promise!Ro(im, addr).base_protocols \in Nat, NEW flag \in BOOLEAN
  PROVE  LET ptr == Promise!Ro(im, addr).base_protocols
             s == Source(im, "base_protocols", ptr)
         IN  /\ Promise!Adopts(im, addr) = Whole(im, "base_protocols", ptr, flag)
             /\ Promise!Adopts(im, addr) = Promise!Readable(im, "protocol", s)
             /\ s \in Seq(Nat)
<1> DEFINE ptr == Promise!Ro(im, addr).base_protocols
           all == Elements(im, "base_protocols", ptr)
           p == Promise!ReadablePrefix(im, "pointer", all)
           s == Source(im, "base_protocols", ptr)
           b == Promise!Among(im, "protocol", s)[Len(s)]
<1>1. /\ "base_protocols" \in ListFields
      /\ ListKind("base_protocols") = "protocol_list"
      /\ "base_protocols" \notin MethodFields \cup PropertyFields
      /\ KindIn(im, "base_protocols", ptr) = "protocol"
  BY DEF ListFields, ListKind, KindIn, MethodFields, PropertyFields
<1>2. Promise!ElementsOf(im, "protocol_list", ptr) = all
  BY <1>1 DEF Elements
<1>3. s \in Seq(Nat)
  BY <1>1, SourceIs
<1>4. s = Pointees(im, p)
  BY DEF Source
<1>5. Promise!Adopts(im, addr) = Promise!Readable(im, "protocol",
        [k \in DOMAIN p |-> Promise!Decode(im, Promise!Cell(im, p[k]).value)])
  BY <1>2 DEF Promise!Adopts
<1>6. Whole(im, "base_protocols", ptr, flag) = [k \in DOMAIN b |-> b[k]]
  BY <1>1 DEF Whole, Taken, Made
<1> HIDE DEF s, p
<1>7. [k \in DOMAIN p |-> Promise!Decode(im, Promise!Cell(im, p[k]).value)] = s
  BY <1>4, SameImage DEF Pointees
<1>8. Promise!Adopts(im, addr) = b
  BY <1>5, <1>7 DEF Promise!Readable
<1>9. b \in Seq(Nat)
  <2>1. Len(s) \in 0..Len(s)
    BY <1>3, LenProperties
  <2> QED
    BY <1>3, <2>1, AmongIs
<1> HIDE DEF b
<1>10. [k \in DOMAIN b |-> b[k]] = b
  BY <1>9
<1> QED
  BY <1>3, <1>5, <1>6, <1>7, <1>8, <1>10 DEF s

-----------------------------------------------------------------------------
(***************************************************************************)
(* Classes along isa.                                                      *)
(***************************************************************************)
LEMMA ReadableRo ==
  ASSUME NEW im, IsImage(im), NEW addr, ClassReadable(im, addr)
  PROVE  LET ro == Promise!Ro(im, addr)
         IN  /\ ro.is_meta \in BOOLEAN /\ ro.base_method_list \in Nat
             /\ ro.base_protocols \in Nat /\ ro.ivars \in Nat
             /\ ro.base_properties \in Nat /\ ro.name \in Nat
             /\ Cell(im, addr).isa \in Nat /\ IsaOf(im, addr) \in Nat
<1> DEFINE at == ClassRoPtr(im, Cell(im, addr))
<1>1. Has(im, "class_ro", at) /\ Cell(im, addr).isa \in Nat
  BY ReadableClass
<1>2. Cell(im, at) \in Cells /\ Cell(im, at).kind = "class_ro"
  BY <1>1, CellIsCell
<1>3. Promise!Ro(im, addr) = Cell(im, at)
  BY SameClasses
<1> HIDE DEF at
<1>4. /\ Cell(im, at).is_meta \in BOOLEAN /\ Cell(im, at).name \in Nat
      /\ Cell(im, at).base_method_list \in Nat /\ Cell(im, at).base_protocols \in Nat
      /\ Cell(im, at).ivars \in Nat /\ Cell(im, at).base_properties \in Nat
  BY <1>2 DEF Cells
<1>5. IsaOf(im, addr) \in Nat
  BY <1>1, DecodeNat DEF IsaOf, IsImage
<1> QED
  BY <1>1, <1>3, <1>4, <1>5

LEMMA OwnMethodsType ==
  ASSUME NEW im, IsImage(im), NEW addr, ClassReadable(im, addr)
  PROVE  Promise!OwnMethods(im, addr) \in Seq(Methods)
<1> DEFINE ptr == Promise!Ro(im, addr).base_method_list
           flag == ~ Promise!Ro(im, addr).is_meta
<1>1. ptr \in Nat /\ flag \in BOOLEAN /\ Promise!Ro(im, addr).is_meta \in BOOLEAN
  BY ReadableRo
<1>2. "base_method_list" \in ListFields /\ MemberSet("base_method_list") = Methods
  BY DEF ListFields, MethodFields, MemberSet
<1>3. Promise!OwnMethods(im, addr) = Whole(im, "base_method_list", ptr, flag)
  BY <1>1, WholeOwnMethods
<1> HIDE DEF ptr, flag
<1>4. /\ Source(im, "base_method_list", ptr) \in Seq(Nat)
      /\ \A n \in 0..Len(Source(im, "base_method_list", ptr)) :
           Taken(im, "base_method_list", ptr, flag, n) \in Seq(Methods)
  BY <1>1, <1>2, SourceIs, TakenIs
<1>5. Len(Source(im, "base_method_list", ptr))
        \in 0..Len(Source(im, "base_method_list", ptr))
  BY <1>4, LenProperties
<1> QED
  BY <1>3, <1>4, <1>5 DEF Whole

LEMMA SuperReadable ==
  ASSUME NEW im, IsImage(im), NEW addr, ClassReadable(im, addr),
         Promise!HasSuper(im, addr)
  PROVE  /\ IsaOf(im, addr) \in Nat /\ ClassReadable(im, IsaOf(im, addr))
         /\ Promise!IsaOf(im, addr) = IsaOf(im, addr)
BY ReadableRo, SameClasses DEF HasIsa

\* Along is computed a step at a time.
LEMMA AlongIs ==
  ASSUME NEW im, IsImage(im), NEW addr \in Nat, ClassReadable(im, addr)
  PROVE  LET a == Promise!Along(im, addr)
         IN  /\ a[0] = addr
             /\ \A n \in Nat : a[n] \in Nat /\ ClassReadable(im, a[n])
             /\ \A n \in Nat :
                  a[n + 1] = IF Promise!HasSuper(im, a[n]) THEN IsaOf(im, a[n])
                             ELSE a[n]
<1> DEFINE a == Promise!Along(im, addr)
           V == {c \in Nat : ClassReadable(im, c)}
           step == [n \in Nat |-> [c \in V |->
                      IF Promise!HasSuper(im, c) THEN Promise!IsaOf(im, c) ELSE c]]
           body(g) == [n \in Nat |->
                         IF n = 0 THEN addr
                         ELSE IF Promise!HasSuper(im, g[n - 1])
                         THEN Promise!IsaOf(im, g[n - 1])
                         ELSE g[n - 1]]
<1>1. addr \in V /\ step \in [Nat -> [V -> V]]
  BY SuperReadable
<1>2. PICK f \in [Nat -> V] : RepeatsForEver(f, addr, step)
  <2> HIDE DEF step, V
  <2> QED
    BY <1>1, Repetition
<1>3. f = body(f)
  <2>1. ASSUME NEW n \in Nat
        PROVE  f[n] = IF n = 0 THEN addr
                      ELSE IF Promise!HasSuper(im, f[n - 1])
                      THEN Promise!IsaOf(im, f[n - 1])
                      ELSE f[n - 1]
    <3>1. CASE n = 0
      BY <1>2, <3>1 DEF RepeatsForEver
    <3>2. CASE n # 0
      <4>1. n - 1 \in Nat /\ (n - 1) + 1 = n
        BY <3>2
      <4>2. f[n] = step[n - 1][f[n - 1]] /\ f[n - 1] \in V
        BY <1>2, <4>1 DEF RepeatsForEver
      <4>3. step[n - 1] = [c \in V |-> IF Promise!HasSuper(im, c)
                                       THEN Promise!IsaOf(im, c) ELSE c]
        BY <4>1
      <4> QED
        BY <3>2, <4>2, <4>3
    <3> QED
      BY <3>1, <3>2
  <2> HIDE DEF step, V
  <2> QED
    BY <2>1
<1>4. a = body(a)
  <2> DEFINE P(g) == g = body(g)
  <2>1. P(f)
    BY <1>3
  <2>2. a = CHOOSE g : P(g)
    BY DEF Promise!Along
  <2> HIDE DEF P
  <2>3. P(CHOOSE g : P(g))
    BY <2>1
  <2> QED
    BY <2>2, <2>3 DEF P
<1> HIDE DEF a, step
<1>5. a[0] = addr
  BY <1>4
<1>6. ASSUME NEW n \in Nat
      PROVE  a[n + 1] = IF Promise!HasSuper(im, a[n]) THEN Promise!IsaOf(im, a[n])
                        ELSE a[n]
  <2>1. n + 1 \in Nat /\ n + 1 # 0 /\ (n + 1) - 1 = n
    OBVIOUS
  <2>2. a[n + 1] = body(a)[n + 1]
    BY <1>4
  <2> QED
    BY <2>1, <2>2
<1>7. ASSUME NEW n \in Nat PROVE a[n] \in V
  <2> DEFINE T == {k \in 0..n : a[k] \in V}
  <2>1. 0 \in T
    BY <1>1, <1>5
  <2>2. ASSUME NEW k \in T, k \in 0..(n - 1) PROVE k + 1 \in T
    <3>1. k \in Nat /\ k + 1 \in 0..n /\ a[k] \in V
      BY <2>2
    <3> QED
      BY <1>6, <3>1, SuperReadable
  <2>3. 0..n \subseteq T
    <3> HIDE DEF T
    <3> QED
      BY <2>1, <2>2, UpTo
  <2>4. n \in 0..n
    OBVIOUS
  <2> QED
    BY <2>3, <2>4
<1>8. \A n \in Nat : Promise!IsaOf(im, a[n]) = IsaOf(im, a[n])
  BY SameClasses
<1> QED
  BY <1>5, <1>6, <1>7, <1>8 DEF a

\* Steps counts the steps to the last class.
LEMMA StepsIs ==
  ASSUME NEW im, IsImage(im), NEW addr \in Nat, ClassReadable(im, addr),
         NEW n \in Nat, Last(im, addr, n)
  PROVE  Promise!Steps(im, addr) = n
<1> DEFINE a == Promise!Along(im, addr)
           Super(k) == Promise!HasSuper(im, a[k])
           h == [k \in Nat |-> IF k <= n THEN n ELSE k]
           body(g) == [k \in Nat |-> IF Super(k) THEN g[k + 1] ELSE k]
           c == CHOOSE g : g = body(g)
<1>1. /\ ~ Super(n) /\ \A k \in 0..(n - 1) : Super(k)
      /\ \A k \in Nat : a[k + 1] = IF Super(k) THEN IsaOf(im, a[k]) ELSE a[k]
  BY AlongIs DEF Last
<1>2. Promise!Steps(im, addr) = c[0]
  BY DEF Promise!Steps
<1> HIDE DEF a
<1>3. ASSUME NEW k \in Nat, k > n PROVE ~ Super(k)
  <2> DEFINE T == {j \in 0..(k - n) : a[n + j] = a[n]}
  <2>1. 0 \in T /\ k - n \in Nat
    BY <1>3
  <2>2. ASSUME NEW j \in T, j \in 0..((k - n) - 1) PROVE j + 1 \in T
    <3>1. j + 1 \in 0..(k - n) /\ n + j \in Nat /\ (n + j) + 1 = n + (j + 1)
      BY <2>1, <2>2
    <3>2. ~ Super(n + j) /\ a[n + j] = a[n]
      BY <1>1
    <3>3. a[(n + j) + 1] = a[n + j]
      BY <1>1, <3>1, <3>2
    <3> QED
      BY <3>1, <3>2, <3>3
  <2>3. 0..(k - n) \subseteq T
    <3> HIDE DEF T
    <3> QED
      BY <2>1, <2>2, UpTo
  <2>4. k - n \in 0..(k - n) /\ n + (k - n) = k
    BY <2>1
  <2>5. a[k] = a[n]
    BY <2>3, <2>4
  <2> QED
    BY <1>1, <2>5
<1> HIDE DEF Super
<1>4. h = body(h)
  <2>1. ASSUME NEW k \in Nat PROVE h[k] = IF Super(k) THEN h[k + 1] ELSE k
    <3>1. CASE k < n
      <4>1. k \in 0..(n - 1) /\ k + 1 <= n /\ k + 1 \in Nat
        BY <3>1
      <4> QED
        BY <1>1, <3>1, <4>1
    <3>2. CASE k = n
      BY <1>1, <3>2
    <3>3. CASE k > n
      BY <1>3, <3>3
    <3> QED
      BY <3>1, <3>2, <3>3
  <2> HIDE DEF h
  <2> QED
    BY <2>1 DEF h
<1>5. c = body(c)
  <2> DEFINE P(g) == g = body(g)
  <2>1. P(h)
    BY <1>4
  <2>2. c = CHOOSE g : P(g)
    OBVIOUS
  <2> HIDE DEF P, c
  <2>3. P(CHOOSE g : P(g))
    BY <2>1
  <2>4. P(c)
    BY <2>2, <2>3
  <2> QED
    BY <2>4 DEF P
<1> HIDE DEF c
<1>6. \A k \in Nat : c[k] = IF Super(k) THEN c[k + 1] ELSE k
  BY <1>5
<1>7. c[0] = c[n]
  <2> DEFINE T == {k \in 0..n : c[0] = c[k]}
  <2>1. 0 \in T
    OBVIOUS
  <2>2. ASSUME NEW k \in T, k \in 0..(n - 1) PROVE k + 1 \in T
    BY <1>1, <1>6, <2>2
  <2>3. 0..n \subseteq T
    <3> HIDE DEF T
    <3> QED
      BY <2>1, <2>2, UpTo
  <2>4. n \in 0..n
    OBVIOUS
  <2> QED
    BY <2>3, <2>4
<1> QED
  BY <1>1, <1>2, <1>6, <1>7

\* The methods that addr has with those of its last n classes along isa.
InheritanceStep(im, addr, n) ==
  [k \in Nat |-> [methods \in Seq(Methods) |->
     IF k < n
     THEN Promise!AsClassMethods(methods)
            \o Promise!OwnMethods(im, Promise!Along(im, addr)[n - (k + 1)])
     ELSE methods]]

LEMMA AsClassMethodsType ==
  ASSUME NEW methods \in Seq(Methods)
  PROVE  Promise!AsClassMethods(methods) \in Seq(Methods)
BY MappedMethods DEF Promise!AsClassMethods

LEMMA InheritanceStepType ==
  ASSUME NEW im, IsImage(im), NEW addr \in Nat, ClassReadable(im, addr),
         NEW n \in Nat
  PROVE  InheritanceStep(im, addr, n) \in [Nat -> [Seq(Methods) -> Seq(Methods)]]
<1> SUFFICES ASSUME NEW k \in Nat, NEW methods \in Seq(Methods), k < n
             PROVE  Promise!AsClassMethods(methods)
                      \o Promise!OwnMethods(im, Promise!Along(im, addr)[n - (k + 1)])
                    \in Seq(Methods)
  BY DEF InheritanceStep
<1>1. n - (k + 1) \in Nat
  OBVIOUS
<1>2. ClassReadable(im, Promise!Along(im, addr)[n - (k + 1)])
  BY <1>1, AlongIs
<1>3. /\ Promise!AsClassMethods(methods) \in Seq(Methods)
      /\ Promise!OwnMethods(im, Promise!Along(im, addr)[n - (k + 1)]) \in Seq(Methods)
  BY <1>2, OwnMethodsType, AsClassMethodsType
<1> QED
  BY <1>3, ConcatProperties

LEMMA MethodsOfIs ==
  ASSUME NEW im, IsImage(im), NEW addr \in Nat, ClassReadable(im, addr),
         NEW n \in Nat, Last(im, addr, n)
  PROVE  \E m \in [0..n -> Seq(Methods)] :
           /\ Promise!MethodsOf(im, addr) = m[n]
           /\ Repeats(m, Promise!OwnMethods(im, Promise!Along(im, addr)[n]),
                      InheritanceStep(im, addr, n), n)
<1> DEFINE own(k) == Promise!OwnMethods(im, Promise!Along(im, addr)[n - k])
           step == InheritanceStep(im, addr, n)
           body(g) == [k \in 0..n |->
                         IF k = 0 THEN own(k)
                         ELSE Promise!AsClassMethods(g[k - 1]) \o own(k)]
           m == CHOOSE g : g = body(g)
<1>1. Promise!MethodsOf(im, addr) = m[n]
  BY StepsIs DEF Promise!MethodsOf
<1>2. own(0) \in Seq(Methods) /\ own(0) = Promise!OwnMethods(im, Promise!Along(im, addr)[n])
  <2>1. n - 0 = n
    OBVIOUS
  <2> QED
    BY <2>1, AlongIs, OwnMethodsType
<1>3. step \in [Nat -> [Seq(Methods) -> Seq(Methods)]]
  BY InheritanceStepType
<1>4. ASSUME NEW k \in 0..(n - 1), NEW v \in Seq(Methods)
      PROVE  step[k][v] = Promise!AsClassMethods(v) \o own(k + 1)
  <2>1. k \in Nat /\ k < n
    OBVIOUS
  <2> QED
    BY <2>1 DEF InheritanceStep
<1> HIDE DEF own, step
<1>5. PICK h \in [0..n -> Seq(Methods)] : Repeats(h, own(0), step, n)
  <2> DEFINE V == Seq(Methods)
  <2>1. own(0) \in V /\ step \in [Nat -> [V -> V]]
    BY <1>2, <1>3
  <2> HIDE DEF V
  <2>2. \E h \in [0..n -> V] : Repeats(h, own(0), step, n)
    BY <2>1, RepeatsExists
  <2> QED
    BY <2>2 DEF V
<1>6. h = body(h)
  <2>1. ASSUME NEW k \in 0..n
        PROVE  h[k] = IF k = 0 THEN own(k)
                      ELSE Promise!AsClassMethods(h[k - 1]) \o own(k)
    <3>1. CASE k = 0
      BY <1>5, <3>1 DEF Repeats
    <3>2. CASE k # 0
      <4>1. k - 1 \in 0..(n - 1) /\ k - 1 \in 0..n /\ (k - 1) + 1 = k
        BY <3>2
      <4>2. h[k] = step[k - 1][h[k - 1]]
        BY <1>5, <4>1 DEF Repeats
      <4>3. step[k - 1][h[k - 1]] = Promise!AsClassMethods(h[k - 1]) \o own(k)
        BY <1>4, <1>5, <4>1
      <4> QED
        BY <3>2, <4>2, <4>3
    <3> QED
      BY <3>1, <3>2
  <2> QED
    BY <1>5, <2>1
<1>7. m = body(m)
  <2> DEFINE P(g) == g = body(g)
  <2>1. P(h)
    BY <1>6
  <2>2. m = CHOOSE g : P(g)
    OBVIOUS
  <2> HIDE DEF P, m
  <2>3. P(CHOOSE g : P(g))
    BY <2>1
  <2> QED
    BY <2>2, <2>3 DEF P
<1> HIDE DEF m
\* Whatever satisfies the equation is h.
<1>8. \A k \in 0..n : m[k] = h[k]
  <2> DEFINE T == {k \in 0..n : m[k] = h[k]}
  <2>1. 0 \in T
    BY <1>5, <1>7 DEF Repeats
  <2>2. ASSUME NEW k \in T, k \in 0..(n - 1) PROVE k + 1 \in T
    <3>1. k + 1 \in 0..n /\ k + 1 # 0 /\ (k + 1) - 1 = k
      BY <2>2
    <3>2. m[k + 1] = Promise!AsClassMethods(m[k]) \o own(k + 1)
      BY <1>7, <3>1
    <3>3. h[k + 1] = Promise!AsClassMethods(h[k]) \o own(k + 1)
      BY <1>6, <3>1
    <3> QED
      BY <3>1, <3>2, <3>3
  <2>3. 0..n \subseteq T
    <3> HIDE DEF T
    <3> QED
      BY <2>1, <2>2, UpTo
  <2> QED
    BY <2>3
<1>9. Promise!MethodsOf(im, addr) = h[n]
  BY <1>1, <1>8
<1> QED
  BY <1>2, <1>5, <1>9 DEF step

\* A class without a super class is the last one.
LEMMA LastClass ==
  ASSUME NEW im, IsImage(im), NEW addr \in Nat, ClassReadable(im, addr),
         ~ Promise!HasSuper(im, addr)
  PROVE  /\ Ends(im, addr)
         /\ Promise!MethodsOf(im, addr) = Promise!OwnMethods(im, addr)
         /\ Promise!Mentioned(im, addr) =
              {Promise!Adopts(im, addr)[k] : k \in DOMAIN Promise!Adopts(im, addr)}
<1> DEFINE a == Promise!Along(im, addr)
<1>1. a[0] = addr
  BY AlongIs
<1>2. Last(im, addr, 0)
  BY <1>1 DEF Last
<1>3. Promise!Steps(im, addr) = 0
  BY <1>2, StepsIs
<1>4. Promise!MethodsOf(im, addr) = Promise!OwnMethods(im, addr)
  <2>1. PICK m \in [0..0 -> Seq(Methods)] :
          /\ Promise!MethodsOf(im, addr) = m[0]
          /\ Repeats(m, Promise!OwnMethods(im, a[0]), InheritanceStep(im, addr, 0), 0)
    BY <1>2, MethodsOfIs
  <2> QED
    BY <1>1, <2>1 DEF Repeats
<1>5. {a[n] : n \in 0..0} = {addr}
  BY <1>1
<1> QED
  BY <1>2, <1>3, <1>4, <1>5 DEF Ends, Promise!Mentioned

LEMMA AlongSuper ==
  ASSUME NEW im, IsImage(im), NEW addr \in Nat, ClassReadable(im, addr),
         Promise!HasSuper(im, addr), NEW n \in Nat
  PROVE  Promise!Along(im, addr)[n + 1] = Promise!Along(im, IsaOf(im, addr))[n]
<1> DEFINE isa == IsaOf(im, addr)
           a == Promise!Along(im, addr)
           b == Promise!Along(im, isa)
           T == {k \in 0..n : a[k + 1] = b[k]}
<1>1. isa \in Nat /\ ClassReadable(im, isa)
  BY SuperReadable
<1>2. /\ a[0] = addr /\ b[0] = isa
      /\ \A k \in Nat : a[k + 1] = IF Promise!HasSuper(im, a[k])
                                   THEN IsaOf(im, a[k]) ELSE a[k]
      /\ \A k \in Nat : b[k + 1] = IF Promise!HasSuper(im, b[k])
                                   THEN IsaOf(im, b[k]) ELSE b[k]
  BY <1>1, AlongIs
<1> HIDE DEF a, b
<1>3. 0 \in T
  BY <1>2
<1>4. ASSUME NEW k \in T, k \in 0..(n - 1) PROVE k + 1 \in T
  <2>1. k \in Nat /\ k + 1 \in Nat /\ k + 1 \in 0..n /\ a[k + 1] = b[k]
    BY <1>4
  <2> QED
    BY <1>2, <2>1
<1>5. 0..n \subseteq T
  <2> HIDE DEF T
  <2> QED
    BY <1>3, <1>4, UpTo
<1>6. n \in 0..n
  OBVIOUS
<1>7. a[n + 1] = b[n]
  BY <1>5, <1>6
<1> QED
  BY <1>7 DEF a, b

\* What a class gets from the one that is its isa.
LEMMA SuperClass ==
  ASSUME NEW im, IsImage(im), NEW addr \in Nat, ClassReadable(im, addr),
         Promise!HasSuper(im, addr), Ends(im, IsaOf(im, addr))
  PROVE  LET isa == IsaOf(im, addr)
         IN  /\ Ends(im, addr)
             /\ Promise!MethodsOf(im, addr) =
                  Promise!AsClassMethods(Promise!MethodsOf(im, isa))
                    \o Promise!OwnMethods(im, addr)
             /\ Promise!Mentioned(im, addr) =
                  {Promise!Adopts(im, addr)[k] : k \in DOMAIN Promise!Adopts(im, addr)}
                    \cup Promise!Mentioned(im, isa)
<1> DEFINE isa == IsaOf(im, addr)
           a == Promise!Along(im, addr)
           b == Promise!Along(im, isa)
<1>1. isa \in Nat /\ ClassReadable(im, isa)
  BY SuperReadable
<1>2. PICK n \in Nat : Last(im, isa, n)
  BY DEF Ends
<1>3. a[0] = addr /\ \A k \in Nat : a[k + 1] = b[k]
  BY AlongIs, AlongSuper
<1>4. Last(im, addr, n + 1)
  <2>1. ~ Promise!HasSuper(im, a[n + 1])
    BY <1>2, <1>3 DEF Last
  <2>2. ASSUME NEW k \in 0..((n + 1) - 1) PROVE Promise!HasSuper(im, a[k])
    <3>1. CASE k = 0
      BY <1>3, <3>1
    <3>2. CASE k # 0
      <4>1. k - 1 \in 0..(n - 1) /\ k - 1 \in Nat /\ (k - 1) + 1 = k
        BY <3>2
      <4>2. Promise!HasSuper(im, b[k - 1])
        BY <1>2, <4>1 DEF Last
      <4>3. a[(k - 1) + 1] = b[k - 1]
        BY <1>3, <4>1
      <4> QED
        BY <4>1, <4>2, <4>3
    <3> QED
      BY <3>1, <3>2
  <2> QED
    BY <2>1, <2>2 DEF Last
<1>5. Promise!Steps(im, addr) = n + 1 /\ Promise!Steps(im, isa) = n
  BY <1>1, <1>2, <1>4, StepsIs
<1>6. Promise!MethodsOf(im, addr) =
        Promise!AsClassMethods(Promise!MethodsOf(im, isa))
          \o Promise!OwnMethods(im, addr)
  <2> DEFINE x == Promise!OwnMethods(im, b[n])
             step == InheritanceStep(im, addr, n + 1)
             isaStep == InheritanceStep(im, isa, n)
  <2>1. PICK m \in [0..(n + 1) -> Seq(Methods)] :
          /\ Promise!MethodsOf(im, addr) = m[n + 1]
          /\ Repeats(m, Promise!OwnMethods(im, a[n + 1]), step, n + 1)
    BY <1>4, MethodsOfIs
  <2>2. PICK h \in [0..n -> Seq(Methods)] :
          Promise!MethodsOf(im, isa) = h[n] /\ Repeats(h, x, isaStep, n)
    BY <1>1, <1>2, MethodsOfIs
  <2>3. ASSUME NEW k \in 0..(n - 1), NEW v \in Seq(Methods)
        PROVE  step[k][v] = isaStep[k][v]
    <3>1. /\ k \in Nat /\ k < n /\ k < n + 1 /\ n - (k + 1) \in Nat
          /\ (n + 1) - (k + 1) = (n - (k + 1)) + 1
      OBVIOUS
    <3>2. a[(n + 1) - (k + 1)] = b[n - (k + 1)]
      BY <1>3, <3>1
    <3> QED
      BY <3>1, <3>2 DEF InheritanceStep
  <2>4. step[n][m[n]] = Promise!AsClassMethods(m[n]) \o Promise!OwnMethods(im, addr)
    <3>1. n < n + 1 /\ (n + 1) - (n + 1) = 0 /\ n \in 0..(n + 1)
      OBVIOUS
    <3>2. m[n] \in Seq(Methods)
      BY <2>1, <3>1
    <3> QED
      BY <1>3, <3>1, <3>2 DEF InheritanceStep
  <2> HIDE DEF step, isaStep, x, a, b
  <2>5. Repeats(m, x, isaStep, n)
    <3>1. m[0] = x
      BY <1>3, <2>1 DEF Repeats, x
    <3>2. ASSUME NEW k \in 0..(n - 1) PROVE m[k + 1] = isaStep[k][m[k]]
      <4>1. k \in 0..((n + 1) - 1) /\ k \in 0..(n + 1)
        OBVIOUS
      <4>2. m[k + 1] = step[k][m[k]] /\ m[k] \in Seq(Methods)
        BY <2>1, <4>1 DEF Repeats
      <4> QED
        BY <2>3, <4>2
    <3> QED
      BY <3>1, <3>2 DEF Repeats
  <2>6. m[n] = h[n]
    <3>1. n \in 0..n
      OBVIOUS
    <3>2. n \in Nat /\ Repeats(m, x, isaStep, n) /\ Repeats(h, x, isaStep, n)
      BY <2>2, <2>5
    <3>3. \A k \in 0..n : m[k] = h[k]
      BY <3>2, RepeatsAgree, SMTT(30)
    <3> QED
      BY <3>1, <3>3
  <2>7. m[n + 1] = step[n][m[n]]
    <3>1. n \in 0..((n + 1) - 1)
      OBVIOUS
    <3> QED
      BY <2>1, <3>1 DEF Repeats
  <2> QED
    BY <2>1, <2>2, <2>4, <2>6, <2>7
<1>7. {a[k] : k \in 0..(n + 1)} = {addr} \cup {b[k] : k \in 0..n}
  <2> HIDE DEF a, b
  <2>1. ASSUME NEW k \in 0..(n + 1)
        PROVE  a[k] \in {addr} \cup {b[j] : j \in 0..n}
    <3>1. CASE k = 0
      BY <1>3, <3>1
    <3>2. CASE k # 0
      <4>1. k - 1 \in 0..n /\ k - 1 \in Nat /\ (k - 1) + 1 = k
        BY <3>2
      <4>2. a[(k - 1) + 1] = b[k - 1]
        BY <1>3, <4>1
      <4> QED
        BY <4>1, <4>2
    <3> QED
      BY <3>1, <3>2
  <2>2. ASSUME NEW k \in 0..n PROVE b[k] \in {a[j] : j \in 0..(n + 1)}
    <3>1. k \in Nat /\ k + 1 \in 0..(n + 1)
      OBVIOUS
    <3>2. a[k + 1] = b[k]
      BY <1>3, <3>1
    <3> QED
      BY <3>1, <3>2
  <2>3. addr \in {a[j] : j \in 0..(n + 1)}
    BY <1>3
  <2> QED
    BY <2>1, <2>2, <2>3
<1>8. Promise!Mentioned(im, addr) =
        {Promise!Adopts(im, addr)[k] : k \in DOMAIN Promise!Adopts(im, addr)}
          \cup Promise!Mentioned(im, isa)
  <2> DEFINE own(c) == {Promise!Adopts(im, c)[k] : k \in DOMAIN Promise!Adopts(im, c)}
             B == {b[k] : k \in 0..n}
             A == {a[k] : k \in 0..(n + 1)}
  <2>1. Promise!Mentioned(im, addr) = UNION {own(c) : c \in A}
    BY <1>5 DEF Promise!Mentioned
  <2>2. Promise!Mentioned(im, isa) = UNION {own(c) : c \in B}
    BY <1>5 DEF Promise!Mentioned
  <2>3. A = {addr} \cup B
    BY <1>7
  <2> HIDE DEF own, A, B
  <2>4. UNION {own(c) : c \in A} = own(addr) \cup UNION {own(c) : c \in B}
    BY <2>3
  <2>5. Promise!Mentioned(im, addr) = own(addr) \cup Promise!Mentioned(im, isa)
    BY <2>1, <2>2, <2>4
  <2> QED
    BY <2>5 DEF own
<1> QED
  BY <1>4, <1>6, <1>8 DEF Ends

-----------------------------------------------------------------------------
(***************************************************************************)
(* What a frame has read.                                                  *)
(***************************************************************************)
FieldsOf(f) == IF f.fn = "Class" THEN ClassFields ELSE ProtocolFields

LEMMA FieldSets ==
  /\ ClassFields \subseteq ListFields /\ ProtocolFields \subseteq ListFields
  /\ ClassFields \cap ProtocolFields = {}
  /\ ListFields \subseteq Phases
  /\ "super_class" \notin ListFields /\ "create" \notin ListFields
  /\ "return" \notin ListFields
  /\ ProtocolFields = {"instance_methods", "class_methods", "instance_properties",
                       "optional_instance_methods", "optional_class_methods"}
BY DEF ClassFields, ProtocolFields, ListFields, MethodFields, PropertyFields, Phases

\* The lists are read one after the other, each one once.
LEMMA ClassOrder ==
  ASSUME NEW ph \in ClassFields \cup {"super_class"}, NEW field \in ClassFields
  PROVE  /\ field \in Done[After[ph]] <=> field \in Done[ph] \/ field = ph
         /\ field \in Done[ph] => field # ph
         /\ After[ph] = field => field \notin Done[ph] /\ field # ph
<1>1. CASE ph = "super_class"
  BY <1>1 DEF ClassFields, After, Done
<1>2. CASE ph = "base_method_list"
  BY <1>2 DEF ClassFields, After, Done
<1>3. CASE ph = "base_protocols"
  BY <1>3 DEF ClassFields, After, Done
<1>4. CASE ph = "ivars"
  BY <1>4 DEF ClassFields, After, Done
<1>5. CASE ph = "base_properties"
  BY <1>5 DEF ClassFields, ListFields, MethodFields, PropertyFields, After, Done
<1> QED
  BY <1>1, <1>2, <1>3, <1>4, <1>5 DEF ClassFields

LEMMA ProtocolOrder ==
  ASSUME NEW ph \in ProtocolFields, NEW field \in ProtocolFields
  PROVE  /\ field \in Done[After[ph]] <=> field \in Done[ph] \/ field = ph
         /\ field \in Done[ph] => field # ph
         /\ After[ph] = field => field \notin Done[ph] /\ field # ph
<1>1. CASE ph = "instance_methods"
  BY <1>1, FieldSets DEF After, Done
<1>2. CASE ph = "class_methods"
  BY <1>2, FieldSets DEF After, Done
<1>3. CASE ph = "optional_instance_methods"
  BY <1>3, FieldSets DEF After, Done
<1>4. CASE ph = "optional_class_methods"
  BY <1>4, FieldSets DEF After, Done
<1>5. CASE ph = "instance_properties"
  BY <1>5, FieldSets DEF After, Done
<1> QED
  BY <1>1, <1>2, <1>3, <1>4, <1>5, FieldSets

LEMMA FlagType ==
  ASSUME NEW f, f.obj.is_meta \in BOOLEAN, NEW field
  PROVE  Flag(f, field) \in BOOLEAN
<1> DEFINE rest == field \in {"instance_methods", "optional_instance_methods"}
<1>1. (~ f.obj.is_meta) \in BOOLEAN /\ rest \in BOOLEAN
  OBVIOUS
<1>2. Flag(f, field) = (~ f.obj.is_meta) \/ Flag(f, field) = rest
  BY Zenon DEF Flag
<1> HIDE DEF rest
<1> QED
  BY <1>1, <1>2

\* The pointers to the lists of a class_ro_t or a protocol_t that was read.
LEMMA PtrType ==
  ASSUME NEW im, IsImage(im), NEW f \in Frames, ReadsIsa(im, f), f.ph # "create",
         NEW prots, NEW calls, Progress(im, f, prots, calls),
         NEW field \in FieldsOf(f)
  PROVE  /\ Ptr(im, f, field) \in Nat /\ field \in ListFields
         /\ Flag(f, field) \in BOOLEAN
         /\ f.fn = "Class" => Ptr(im, f, field) = Promise!Ro(im, f.at)[field]
<1>1. field \in ListFields
  BY FieldSets DEF FieldsOf
<1>2. f.fn \in {"Class", "Protocol"} /\ f.obj \in Objects /\ f.obj.is_meta \in BOOLEAN
  BY DEF Frames, Objects
<1>3. Flag(f, field) \in BOOLEAN
  BY <1>2, FlagType
<1>4. CASE f.fn = "Class"
  <2>1. f.raw = ClassRoPtr(im, Cell(im, f.at)) /\ ClassReadable(im, f.at)
    BY <1>4 DEF Progress, ClassProgress, ReadsIsa
  <2>2. Has(im, "class_ro", f.raw) /\ Promise!Ro(im, f.at) = Cell(im, f.raw)
    BY <2>1, ReadableClass, SameClasses
  <2>3. Cell(im, f.raw)[field] \in Nat
    BY <1>4, <2>2, CellIsCell, ClassRoCell DEF FieldsOf
  <2> QED
    BY <1>1, <1>3, <2>2, <2>3 DEF Ptr
<1>5. CASE f.fn = "Protocol"
  <2>1. Has(im, "protocol", f.raw)
    BY <1>5 DEF Progress, ProtocolProgress
  <2>2. Cell(im, f.raw)[field] \in Nat
    BY <1>5, <2>1, CellIsCell, ProtocolCell DEF FieldsOf
  <2> QED
    BY <1>1, <1>3, <1>5, <2>2 DEF Ptr
<1> QED
  BY <1>2, <1>4, <1>5

LEMMA ExtentType ==
  ASSUME NEW im, IsImage(im), NEW f \in Frames, ReadsIsa(im, f), f.ph # "create",
         NEW prots, NEW calls, Progress(im, f, prots, calls),
         NEW field \in FieldsOf(f)
  PROVE  /\ SourceOf(im, f, field) \in Seq(Nat)
         /\ Len(SourceOf(im, f, field)) \in Nat
         /\ Extent(im, f, field) \in 0..Len(SourceOf(im, f, field))
         /\ Part(im, f, field) \in Seq(MemberSet(field))
<1>1. Ptr(im, f, field) \in Nat /\ field \in ListFields /\ Flag(f, field) \in BOOLEAN
  BY PtrType
<1>2. SourceOf(im, f, field) \in Seq(Nat)
  BY <1>1, SourceIs DEF SourceOf
<1>3. Len(SourceOf(im, f, field)) \in Nat
  BY <1>2, LenProperties
<1>4. f.i \in Nat /\ (f.open /\ f.ph = field => f.i <= Len(SourceOf(im, f, field)))
  BY DEF Frames, Progress, LoopProgress
<1>5. Extent(im, f, field) \in 0..Len(SourceOf(im, f, field))
  BY <1>3, <1>4 DEF Extent
<1>6. Part(im, f, field) \in Seq(MemberSet(field))
  BY <1>1, <1>5, TakenIs DEF Part, Upto, SourceOf
<1> QED
  BY <1>2, <1>3, <1>5, <1>6

\* Going on to the next list changes nothing when the list has been gone through.
LEMMA GoExtent ==
  ASSUME NEW im, NEW f \in Frames,
         f.ph \in FieldsOf(f) \/ (f.fn = "Class" /\ f.ph = "super_class"),
         f.ph \in ListFields => Extent(im, f, f.ph) = Len(SourceOf(im, f, f.ph)),
         NEW field \in FieldsOf(f)
  PROVE  LET g == Go(f, After[f.ph])
         IN  /\ Extent(im, g, field) = Extent(im, f, field)
             /\ \A n : Upto(im, g, field, n) = Upto(im, f, field, n)
             /\ Part(im, g, field) = Part(im, f, field)
<1> DEFINE g == Go(f, After[f.ph])
<1>1. /\ g.ph = After[f.ph] /\ g.open = FALSE /\ g.raw = f.raw /\ g.obj = f.obj
      /\ g.i = f.i
  BY DEF Go, Frames
<1> HIDE DEF g
<1>2. /\ \A n : Upto(im, g, field, n) = Upto(im, f, field, n)
      /\ SourceOf(im, g, field) = SourceOf(im, f, field)
  BY <1>1 DEF Upto, SourceOf, Ptr, Flag
<1>3. /\ field \in Done[After[f.ph]] <=> field \in Done[f.ph] \/ field = f.ph
      /\ field \in Done[f.ph] => field # f.ph
      /\ After[f.ph] = field => field \notin Done[f.ph] /\ field # f.ph
  <2>1. f.fn \in {"Class", "Protocol"}
    BY DEF Frames
  <2>2. CASE f.fn = "Class"
    BY <2>2, ClassOrder DEF FieldsOf
  <2>3. CASE f.fn = "Protocol"
    BY <2>3, ProtocolOrder DEF FieldsOf
  <2> QED
    BY <2>1, <2>2, <2>3
<1>4. field \in ListFields
  BY FieldSets DEF FieldsOf
<1>5. Extent(im, g, field) = Extent(im, f, field)
  BY <1>1, <1>2, <1>3, <1>4 DEF Extent
<1> QED
  BY <1>2, <1>5 DEF Part, g

\* What was adopted stays what it is when a protocol is added.
LEMMA AtMore ==
  ASSUME NEW prots \in Seq(Objects), NEW o \in Objects, NEW obj,
         Owns(obj, Len(prots))
  PROVE  /\ At(Append(prots, o), obj.protocols) = At(prots, obj.protocols)
         /\ {prots[k].at : k \in DOMAIN prots}
              \subseteq {Append(prots, o)[k].at : k \in DOMAIN Append(prots, o)}
<1> DEFINE more == Append(prots, o)
<1>1. /\ Len(prots) \in Nat /\ DOMAIN prots = 1..Len(prots)
      /\ DOMAIN more = 1..(Len(prots) + 1)
      /\ \A k \in 1..Len(prots) : more[k] = prots[k]
  BY AppendProperties, LenProperties
<1> HIDE DEF more
<1>2. At(more, obj.protocols) = At(prots, obj.protocols)
  BY <1>1 DEF At, Owns
<1>3. \A k \in DOMAIN prots : k \in DOMAIN more
  BY <1>1
<1>4. {prots[k].at : k \in DOMAIN prots} \subseteq {more[k].at : k \in DOMAIN more}
  BY <1>1, <1>3
<1> QED
  BY <1>2, <1>4 DEF more

LEMMA MoreProgress ==
  ASSUME NEW im, NEW f, NEW calls, NEW prots \in Seq(Objects), NEW o \in Objects,
         Owns(f.obj, Len(prots)), Progress(im, f, prots, calls)
  PROVE  Progress(im, f, Append(prots, o), calls)
<1> DEFINE more == Append(prots, o)
<1>1. /\ At(more, f.obj.protocols) = At(prots, f.obj.protocols)
      /\ {prots[k].at : k \in DOMAIN prots} \subseteq {more[k].at : k \in DOMAIN more}
  BY AtMore
<1> HIDE DEF more
<1>2. SuperProgress(im, f, prots) => SuperProgress(im, f, more)
  BY <1>1 DEF SuperProgress
<1>3. ClassProgress(im, f, prots, calls) => ClassProgress(im, f, more, calls)
  BY <1>1, <1>2 DEF ClassProgress
<1>4. Progress(im, f, more, calls)
  BY <1>3 DEF Progress
<1> QED
  BY <1>4 DEF more

\* The top is replaced, a call is made, a call returns.
LEMMA SetTopBelow ==
  ASSUME NEW im, NEW s \in Seq(Frames), s # << >>, NEW prots, Below(im, s, prots),
         NEW f, f.at = s[Len(s)].at
  PROVE  Below(im, SetTop(s, f), prots)
<1> DEFINE t == SetTop(s, f)
<1>1. /\ Len(s) \in Nat \ {0} /\ Len(t) = Len(s) /\ t[Len(s)] = f
      /\ \A k \in 1..(Len(s) - 1) : t[k] = s[k]
  BY LenProperties, EmptySeq DEF SetTop
<1> HIDE DEF t
<1>2. ASSUME NEW k \in 1..(Len(s) - 1)
      PROVE  Progress(im, t[k], prots, TRUE) /\ CallsRef(im, t[k], t[k + 1])
  <2>1. t[k] = s[k] /\ Progress(im, s[k], prots, TRUE) /\ CallsRef(im, s[k], s[k + 1])
    BY <1>1 DEF Below
  <2>2. k + 1 \in 1..(Len(s) - 1) \/ k + 1 = Len(s)
    BY <1>1
  <2>3. t[k + 1].at = s[k + 1].at
    BY <1>1, <2>2
  <2> QED
    BY <2>1, <2>3 DEF CallsRef
<1> QED
  BY <1>1, <1>2 DEF Below, t

LEMMA PushBelow ==
  ASSUME NEW im, NEW s \in Seq(Frames), s # << >>, NEW prots, Below(im, s, prots),
         Progress(im, s[Len(s)], prots, TRUE),
         NEW g \in Frames, CallsRef(im, s[Len(s)], g)
  PROVE  Below(im, Append(s, g), prots)
<1> DEFINE t == Append(s, g)
<1>1. /\ Len(s) \in Nat \ {0} /\ Len(t) = Len(s) + 1 /\ t[Len(s) + 1] = g
      /\ \A k \in 1..Len(s) : t[k] = s[k]
  BY LenProperties, EmptySeq, AppendProperties
<1> HIDE DEF t
<1>2. ASSUME NEW k \in 1..(Len(t) - 1)
      PROVE  Progress(im, t[k], prots, TRUE) /\ CallsRef(im, t[k], t[k + 1])
  <2>1. k \in 1..Len(s) /\ t[k] = s[k]
    BY <1>1
  <2>2. CASE k = Len(s)
    BY <1>1, <2>1, <2>2
  <2>3. CASE k # Len(s)
    <3>1. k \in 1..(Len(s) - 1) /\ k + 1 \in 1..Len(s)
      BY <1>1, <2>1, <2>3
    <3> QED
      BY <1>1, <2>1, <3>1 DEF Below
  <2> QED
    BY <2>2, <2>3
<1> QED
  BY <1>2 DEF Below, t

LEMMA PopBelow ==
  ASSUME NEW im, NEW s, FramesOK(im, s), s # << >>, NEW prots, Below(im, s, prots)
  PROVE  /\ Below(im, Pop(s), prots)
         /\ Len(s) # 1 => /\ Progress(im, s[Len(s) - 1], prots, TRUE)
                          /\ CallsRef(im, s[Len(s) - 1], s[Len(s)])
<1>1. /\ Len(Pop(s)) = Len(s) - 1 /\ Len(s) \in Nat \ {0}
      /\ \A k \in 1..(Len(s) - 1) : Pop(s)[k] = s[k]
  BY TopOfStack, PopFrames
<1>2. ASSUME NEW k \in 1..(Len(Pop(s)) - 1)
      PROVE  Progress(im, Pop(s)[k], prots, TRUE)
             /\ CallsRef(im, Pop(s)[k], Pop(s)[k + 1])
  <2>1. k \in 1..(Len(s) - 1) /\ k + 1 \in 1..(Len(s) - 1)
    BY <1>1
  <2> QED
    BY <1>1, <2>1 DEF Below
<1>3. ASSUME Len(s) # 1
      PROVE  /\ Progress(im, s[Len(s) - 1], prots, TRUE)
             /\ CallsRef(im, s[Len(s) - 1], s[Len(s)])
  <2>1. Len(s) - 1 \in 1..(Len(s) - 1) /\ (Len(s) - 1) + 1 = Len(s)
    BY <1>1, <1>3
  <2> QED
    BY <2>1 DEF Below
<1> QED
  BY <1>2, <1>3 DEF Below

LEMMA MoreBelow ==
  ASSUME NEW im, NEW s \in Seq(Frames), NEW prots \in Seq(Objects), NEW o \in Objects,
         StackHolds(im, s, Len(prots)), Below(im, s, prots)
  PROVE  Below(im, s, Append(prots, o))
<1>1. ASSUME NEW k \in 1..(Len(s) - 1) PROVE Progress(im, s[k], Append(prots, o), TRUE)
  <2>1. k \in DOMAIN s
    BY LenProperties
  <2>2. Owns(s[k].obj, Len(prots))
    BY <2>1 DEF StackHolds, FrameHolds
  <2> QED
    BY <2>2, MoreProgress DEF Below
<1> QED
  BY <1>1 DEF Below

-----------------------------------------------------------------------------
(***************************************************************************)
(* The invariant from step to step.                                        *)
(***************************************************************************)
LEMMA TopProgress ==
  ASSUME IInv, OInv, RInv, stack # << >>
  PROVE  /\ IsImage(img) /\ stack \in Seq(Frames) /\ FramesOK(img, stack)
         /\ Top \in Frames /\ Top.obj \in Objects
         /\ FrameReads(img, Top) /\ ReadsIsa(img, Top)
         /\ Owns(Top.obj, Len(protocols)) /\ Top.obj.at = Top.at
         /\ Progress(img, Top, protocols, FALSE) /\ Below(img, stack, protocols)
         /\ StackHolds(img, stack, Len(protocols))
         /\ protocols \in Seq(Objects) /\ Depth \in Nat \ {0}
<1>1. FrameHolds(img, Top, Len(protocols)) /\ stack \in Seq(Frames)
  BY TopHolds
<1>2. protocols \in Seq(Objects)
  BY DEF IInv, TypeOK, TablesOK
<1> QED
  BY <1>1, <1>2, TopFacts, TopHolds
     DEF RInv, StackProgress, FrameHolds, OInv, Top, Depth, Frames

\* The calls of stack t are among those of s.
SubCalls(s, t) ==
  \A k \in DOMAIN t : k \in DOMAIN s /\ t[k].fn = s[k].fn /\ t[k].at = s[k].at

LEMMA SetTopCalls ==
  ASSUME NEW s \in Seq(Frames), s # << >>,
         NEW f, f.fn = s[Len(s)].fn, f.at = s[Len(s)].at
  PROVE  /\ SubCalls(s, SetTop(s, f)) /\ 1 \in DOMAIN SetTop(s, f)
         /\ SetTop(s, f) # << >>
<1> DEFINE t == SetTop(s, f)
<1>1. /\ Len(s) \in Nat \ {0} /\ DOMAIN s = 1..Len(s) /\ DOMAIN t = 1..Len(s)
      /\ t[Len(s)] = f /\ \A k \in 1..(Len(s) - 1) : t[k] = s[k]
  BY LenProperties, EmptySeq DEF SetTop
<1> HIDE DEF t
<1>2. ASSUME NEW k \in DOMAIN t
      PROVE  k \in DOMAIN s /\ t[k].fn = s[k].fn /\ t[k].at = s[k].at
  <2>1. k \in 1..(Len(s) - 1) \/ k = Len(s)
    BY <1>1
  <2> QED
    BY <1>1, <2>1
<1>3. 1 \in DOMAIN t /\ t # << >>
  BY <1>1
<1> QED
  BY <1>2, <1>3 DEF SubCalls, t

LEMMA PopCalls ==
  ASSUME NEW im, NEW s, FramesOK(im, s), s # << >>, Len(s) # 1,
         NEW f, f.fn = s[Len(s) - 1].fn, f.at = s[Len(s) - 1].at
  PROVE  /\ SubCalls(s, SetTop(Pop(s), f)) /\ 1 \in DOMAIN SetTop(Pop(s), f)
         /\ SetTop(Pop(s), f) # << >>
<1> DEFINE p == Pop(s)
<1>1. /\ FramesOK(im, p) /\ Len(p) = Len(s) - 1 /\ p # << >>
      /\ \A k \in 1..(Len(s) - 1) : p[k] = s[k]
      /\ Len(s) \in Nat \ {0} /\ DOMAIN s = 1..Len(s)
  <2>1. Len(s) \in Nat \ {0} /\ DOMAIN s = 1..Len(s)
    BY TopOfStack
  <2>2. /\ FramesOK(im, p) /\ Len(p) = Len(s) - 1
        /\ \A k \in 1..(Len(s) - 1) : p[k] = s[k]
        /\ Len(s) > 1 => p # << >>
    BY PopFrames
  <2> QED
    BY <2>1, <2>2
<1> HIDE DEF p
<1>2. p \in Seq(Frames) /\ DOMAIN p = 1..(Len(s) - 1) /\ p[Len(p)] = s[Len(s) - 1]
  <2>1. Len(s) - 1 \in 1..(Len(s) - 1)
    BY <1>1
  <2> QED
    BY <1>1, <2>1, LenProperties DEF FramesOK
<1>3. /\ SubCalls(p, SetTop(p, f)) /\ 1 \in DOMAIN SetTop(p, f)
      /\ SetTop(p, f) # << >>
  BY <1>1, <1>2, SetTopCalls
<1>4. \A k \in DOMAIN p : k \in DOMAIN s /\ p[k] = s[k]
  BY <1>1, <1>2
<1>5. SubCalls(s, SetTop(p, f))
  BY <1>3, <1>4 DEF SubCalls
<1> QED
  BY <1>3, <1>5 DEF p

\* The entry and the cache, when the calls are the same or fewer or a new one
\* is made.
LEMMA SameEntry ==
  ASSUME EntryProgress, CacheProgress, stack # << >>,
         UNCHANGED <<img, stage, idx, cache>>,
         1 \in DOMAIN stack', stack' # << >>,
         stack'[1].fn = stack[1].fn, stack'[1].at = stack[1].at,
         \A k \in DOMAIN stack' :
           \/ /\ k \in DOMAIN stack /\ stack'[k].fn = stack[k].fn
              /\ stack'[k].at = stack[k].at
           \/ stack'[k].fn = "Class" \/ stack'[k].at \notin DOMAIN cache
  PROVE  EntryProgress' /\ CacheProgress'
<1>1. Section' = Section /\ Listed' = Listed
  BY DEF Section, Listed
<1>2. EntryProgress'
  BY <1>1 DEF EntryProgress
<1>3. \A k \in DOMAIN stack' :
        k > 1 /\ stack'[k].fn = "Protocol" => stack'[k].at \notin DOMAIN cache
  BY DEF CacheProgress
<1>4. CacheProgress'
  BY <1>1, <1>3 DEF CacheProgress
<1> QED
  BY <1>2, <1>4

LEMMA StaysOn ==
  ASSUME IInv, OInv, RInv, stack # << >>,
         NEW f, f.fn = Top.fn, f.at = Top.at, Progress(img, f, protocols, FALSE),
         stack' = SetTop(stack, f), UNCHANGED <<img, stage, idx, cache, protocols>>
  PROVE  RInv'
<1>1. stack \in Seq(Frames) /\ Below(img, stack, protocols) /\ Depth \in Nat \ {0}
  BY TopProgress
<1>2. Below(img, stack', protocols)
  BY <1>1, SetTopBelow DEF Top, Depth
<1>3. stack'[Len(stack')] = f
  <2>1. Len(stack') = Len(stack) /\ stack'[Len(stack)] = f
    BY <1>1, LenProperties DEF SetTop, Depth
  <2> QED
    BY <2>1
<1>4. /\ SubCalls(stack, stack') /\ 1 \in DOMAIN stack' /\ stack' # << >>
  BY <1>1, SetTopCalls DEF Top, Depth
<1>5. EntryProgress' /\ CacheProgress'
  BY <1>4, SameEntry DEF RInv, SubCalls
<1> QED
  BY <1>2, <1>3, <1>5 DEF RInv, StackProgress

LEMMA Calls ==
  ASSUME IInv, OInv, RInv, stack # << >>,
         NEW f \in Frames, f.fn = Top.fn, f.at = Top.at,
         Progress(img, f, protocols, TRUE),
         NEW g \in Frames, g.ph = "create", CallsRef(img, f, g),
         g.fn = "Class" \/ g.at \notin DOMAIN cache,
         stack' = Append(SetTop(stack, f), g),
         UNCHANGED <<img, stage, idx, cache, protocols>>
  PROVE  RInv'
<1> DEFINE t == SetTop(stack, f)
<1>1. stack \in Seq(Frames) /\ Below(img, stack, protocols) /\ Depth \in Nat \ {0}
  BY TopProgress
<1>2. Below(img, t, protocols)
  BY <1>1, SetTopBelow DEF Top, Depth
<1>3. t \in Seq(Frames) /\ Len(t) = Len(stack) /\ t[Len(t)] = f
  <2>1. /\ Len(t) = Len(stack) /\ t[Len(stack)] = f
        /\ t \in Seq(Frames)
    BY <1>1, LenProperties DEF SetTop, Depth
  <2> QED
    BY <2>1
<1>4. /\ SubCalls(stack, t) /\ 1 \in DOMAIN t /\ t # << >>
  BY <1>1, SetTopCalls DEF Top, Depth
<1> HIDE DEF t
<1>5. Below(img, stack', protocols)
  BY <1>2, <1>3, <1>4, PushBelow DEF t
<1>6. /\ Len(stack') = Len(t) + 1 /\ stack'[Len(t) + 1] = g /\ Len(t) \in Nat
      /\ stack' # << >>
      /\ DOMAIN t = 1..Len(t) /\ DOMAIN stack' = 1..(Len(t) + 1)
      /\ \A k \in 1..Len(t) : stack'[k] = t[k]
  BY <1>3, AppendProperties, LenProperties DEF t
<1>7. Progress(img, stack'[Len(stack')], protocols, FALSE)
  BY <1>6 DEF Progress
<1>8. ASSUME NEW k \in DOMAIN stack'
      PROVE  \/ /\ k \in DOMAIN stack /\ stack'[k].fn = stack[k].fn
                /\ stack'[k].at = stack[k].at
             \/ stack'[k].fn = "Class" \/ stack'[k].at \notin DOMAIN cache
  <2>1. k \in 1..Len(t) \/ k = Len(t) + 1
    BY <1>6
  <2> QED
    BY <1>4, <1>6, <2>1 DEF SubCalls
<1>9. /\ 1 \in DOMAIN stack' /\ stack'[1].fn = stack[1].fn
      /\ stack'[1].at = stack[1].at
  BY <1>4, <1>6 DEF SubCalls
<1>10. EntryProgress' /\ CacheProgress'
  BY <1>6, <1>8, <1>9, SameEntry DEF RInv
<1> QED
  BY <1>5, <1>7, <1>10 DEF RInv, StackProgress

\* A call returns to f; it may have added a protocol.
LEMMA Returns ==
  ASSUME IInv, OInv, RInv, stack # << >>, Depth # 1,
         \/ protocols' = protocols
         \/ \E o \in Objects : protocols' = Append(protocols, o),
         NEW f, f.fn = Caller.fn, f.at = Caller.at,
         Progress(img, f, protocols', FALSE),
         stack' = SetTop(Pop(stack), f), UNCHANGED <<img, stage, idx, cache>>
  PROVE  RInv'
<1> DEFINE p == Pop(stack)
<1>1. /\ stack \in Seq(Frames) /\ FramesOK(img, stack) /\ protocols \in Seq(Objects)
      /\ Below(img, stack, protocols) /\ StackHolds(img, stack, Len(protocols))
  BY TopProgress
<1>2. Below(img, stack, protocols')
  BY <1>1, MoreBelow
<1>3. /\ FramesOK(img, p) /\ p # << >> /\ Len(p) = Depth - 1 /\ p[Depth - 1] = Caller
  BY CallerFacts
<1>4. p \in Seq(Frames) /\ p[Len(p)] = Caller
  BY <1>3 DEF FramesOK
<1>5. Below(img, p, protocols')
  BY <1>1, <1>2, PopBelow
<1> HIDE DEF p
<1>6. Below(img, SetTop(p, f), protocols')
  BY <1>3, <1>4, <1>5, SetTopBelow
<1>7. Len(SetTop(p, f)) = Len(p) /\ SetTop(p, f)[Len(p)] = f
  <2>1. Len(p) \in Nat \ {0}
    BY <1>3, <1>4, EmptySeq
  <2> QED
    BY <1>4, <2>1, LenProperties DEF SetTop
<1>8. StackProgress(img, SetTop(p, f), protocols')
  BY <1>6, <1>7 DEF StackProgress
<1>9. /\ SubCalls(stack, stack') /\ 1 \in DOMAIN stack' /\ stack' # << >>
  BY <1>1, PopCalls DEF Caller, Depth
<1>10. EntryProgress' /\ CacheProgress'
  BY <1>9, SameEntry DEF RInv, SubCalls
<1> QED
  BY <1>8, <1>10 DEF RInv, p

-----------------------------------------------------------------------------
(***************************************************************************)
(* The lists.                                                              *)
(***************************************************************************)
LEMMA PhaseField ==
  ASSUME NEW im, NEW f \in Frames, FrameReads(im, f), f.ph \in ListFields
  PROVE  f.ph \in FieldsOf(f) /\ f.ph # "create" /\ f.ph # "super_class"
                              /\ f.ph # "return"
<1>1. f.fn \in {"Class", "Protocol"}
  BY DEF Frames
<1>2. f.ph \in ClassFields \cup ProtocolFields
  BY DEF ProtocolFields
<1> QED
  BY <1>1, <1>2, FieldSets DEF FrameReads, FieldsOf

LEMMA TopList ==
  ASSUME IInv, OInv, RInv, stack # << >>, Top.ph \in ListFields
  PROVE  /\ Top.ph \in FieldsOf(Top) /\ Top.ph \in Phases
         /\ ListPtr = Ptr(img, Top, Top.ph) /\ ListPtr \in Nat
         /\ Flag(Top, Top.ph) \in BOOLEAN
         /\ Top.ph # "create" /\ Top.ph # "super_class" /\ Top.ph # "return"
<1>1. /\ Top \in Frames /\ FrameReads(img, Top) /\ IsImage(img) /\ ReadsIsa(img, Top)
      /\ Progress(img, Top, protocols, FALSE)
  BY TopProgress
<1>2. Top.ph \in FieldsOf(Top) /\ Top.ph # "create" /\ Top.ph # "super_class"
      /\ Top.ph # "return"
  BY <1>1, PhaseField
<1>3. Ptr(img, Top, Top.ph) \in Nat /\ Flag(Top, Top.ph) \in BOOLEAN
  BY <1>1, <1>2, PtrType
<1> QED
  BY <1>2, <1>3, FieldSets DEF ListPtr, Ptr

\* Frame g has read as much as f.
LEMMA SameProgress ==
  ASSUME NEW im, NEW f, NEW g, NEW prots,
         f.ph # "create", Progress(im, f, prots, FALSE), LoopProgress(im, g),
         g.fn = f.fn, g.at = f.at, g.raw = f.raw, g.obj = f.obj,
         f.fn \in {"Class", "Protocol"},
         (g.ph = "super_class") <=> (f.ph = "super_class"),
         \A field \in FieldsOf(f) : Part(im, g, field) = Part(im, f, field)
  PROVE  Progress(im, g, prots, FALSE)
<1>3. CASE f.fn = "Class"
  <2>1. {"base_method_list", "base_protocols", "ivars", "base_properties"}
          \subseteq FieldsOf(f)
    BY <1>3 DEF FieldsOf, ClassFields
  <2>2. \A h : Upto(im, h, "base_protocols", Adopted(im, h, FALSE))
                = Part(im, h, "base_protocols")
    BY DEF Adopted, Part
  <2>3. ClassProgress(im, f, prots, FALSE)
    BY <1>3 DEF Progress
  <2>4. SuperProgress(im, g, prots)
    BY <2>3 DEF ClassProgress, SuperProgress
  <2>5. ClassProgress(im, g, prots, FALSE)
    BY <2>1, <2>2, <2>3, <2>4 DEF ClassProgress
  <2> QED
    BY <1>3, <2>5 DEF Progress
<1>4. CASE f.fn = "Protocol"
  <2>1. {"instance_methods", "class_methods", "instance_properties",
         "optional_instance_methods", "optional_class_methods"} \subseteq FieldsOf(f)
    BY <1>4, FieldSets DEF FieldsOf
  <2>2. ProtocolProgress(im, f)
    BY <1>4 DEF Progress
  <2>3. ProtocolProgress(im, g)
    BY <2>1, <2>2 DEF ProtocolProgress
  <2> QED
    BY <1>4, <2>3 DEF Progress
<1> QED
  BY <1>3, <1>4

LEMMA GoProgress ==
  ASSUME NEW im, NEW f \in Frames, FrameReads(im, f), NEW prots,
         Progress(im, f, prots, FALSE), f.ph \in ListFields,
         Extent(im, f, f.ph) = Len(SourceOf(im, f, f.ph))
  PROVE  LET g == Go(f, After[f.ph])
         IN  Progress(im, g, prots, FALSE) /\ g.fn = f.fn /\ g.at = f.at
<1> DEFINE g == Go(f, After[f.ph])
<1>1. f.ph \in FieldsOf(f) /\ f.ph # "create" /\ f.ph # "super_class"
  BY PhaseField
<1>2. /\ g.ph = After[f.ph] /\ g.open = FALSE /\ g.raw = f.raw /\ g.obj = f.obj
      /\ g.fn = f.fn /\ g.at = f.at
  BY DEF Go, Frames
<1>3. \A field \in FieldsOf(f) : Part(im, g, field) = Part(im, f, field)
  BY <1>1, GoExtent
<1>4. After[f.ph] # "super_class"
  BY FieldSets DEF After, ListFields, MethodFields, PropertyFields
<1> HIDE DEF g
<1>5. LoopProgress(im, g)
  BY <1>2 DEF LoopProgress
<1>6. f.fn \in {"Class", "Protocol"}
  BY DEF Frames
<1>7. Progress(im, g, prots, FALSE)
  BY <1>1, <1>2, <1>3, <1>4, <1>5, <1>6, SameProgress
<1> QED
  BY <1>2, <1>7 DEF g

\* There is no list to read, or all of it has been gone through.
LEMMA NoListProgress ==
  ASSUME IInv, OInv, RInv, NoList
  PROVE  RInv'
<1>1. /\ stack # << >> /\ Top.ph \in ListFields /\ ~ Top.open /\ ~ ListReadable
      /\ stack' = SetTop(stack, Go(Top, After[Top.ph]))
      /\ UNCHANGED <<img, stage, idx, cache, protocols>>
  BY DEF NoList, BeforeList, metadata
<1>2. /\ Top \in Frames /\ FrameReads(img, Top) /\ IsImage(img)
      /\ Progress(img, Top, protocols, FALSE)
  BY <1>1, TopProgress
<1>3. ListPtr = Ptr(img, Top, Top.ph) /\ ListPtr \in Nat
  BY <1>1, TopList
<1>4. Elements(img, Top.ph, ListPtr) = << >>
  BY <1>1, <1>2, <1>3, ElementsAre DEF ListReadable, Null
<1>5. Len(SourceOf(img, Top, Top.ph)) = 0
  <2> DEFINE s == SourceOf(img, Top, Top.ph)
  <2>1. s \in Seq(Nat) /\ Len(s) <= Len(Elements(img, Top.ph, ListPtr))
    BY <1>1, <1>2, <1>3, SourceIs DEF SourceOf
  <2> HIDE DEF s
  <2>2. Len(s) \in Nat
    BY <2>1, LenProperties
  <2>3. Len(s) <= 0
    BY <1>4, <2>1
  <2>4. Len(s) = 0
    BY <2>2, <2>3
  <2> QED
    BY <2>4 DEF s
<1>6. Extent(img, Top, Top.ph) = 0
  BY <1>1 DEF Extent
<1>7. LET g == Go(Top, After[Top.ph])
      IN  Progress(img, g, protocols, FALSE) /\ g.fn = Top.fn /\ g.at = Top.at
  BY <1>1, <1>2, <1>5, <1>6, GoProgress
<1> QED
  BY <1>1, <1>7, StaysOn

LEMMA CloseListProgress ==
  ASSUME IInv, OInv, RInv, CloseList
  PROVE  RInv'
<1>1. /\ stack # << >> /\ Top.open /\ Top.i >= Top.n
      /\ stack' = SetTop(stack, Go(Top, After[Top.ph]))
      /\ UNCHANGED <<img, stage, idx, cache, protocols>>
  BY DEF CloseList, metadata
<1>2. /\ Top \in Frames /\ FrameReads(img, Top) /\ IsImage(img) /\ ReadsIsa(img, Top)
      /\ Progress(img, Top, protocols, FALSE)
  BY <1>1, TopProgress
<1>3. Top.ph \in ListFields
  BY <1>1, <1>2 DEF FrameReads
<1>4. Top.ph # "create" /\ Top.ph \in FieldsOf(Top)
  BY <1>1, <1>3, TopList
<1>5. LoopProgress(img, Top)
  BY <1>2, <1>4 DEF Progress
<1>6. /\ Top.i \in Nat /\ Top.n \in Nat
      /\ Len(SourceOf(img, Top, Top.ph)) \in Nat
  BY <1>2, <1>4, ExtentType DEF Frames
<1>7. Top.i = Len(SourceOf(img, Top, Top.ph))
  BY <1>1, <1>5, <1>6 DEF LoopProgress
<1>8. Extent(img, Top, Top.ph) = Top.i
  BY <1>1 DEF Extent
<1>9. LET g == Go(Top, After[Top.ph])
      IN  Progress(img, g, protocols, FALSE) /\ g.fn = Top.fn /\ g.at = Top.at
  BY <1>2, <1>3, <1>7, <1>8, GoProgress
<1> QED
  BY <1>1, <1>9, StaysOn

LEMMA OpenListProgress ==
  ASSUME IInv, OInv, RInv, OpenList
  PROVE  RInv'
<1> DEFINE list == Decode(img, ListPtr)
           g == [Top EXCEPT !.open = TRUE, !.list = list, !.back = pos,
                            !.i = 0, !.n = Cell(img, list).count]
<1>1. /\ stack # << >> /\ Top.ph \in ListFields /\ ~ Top.open /\ ListReadable
      /\ stack' = SetTop(stack, g)
      /\ UNCHANGED <<img, stage, idx, cache, protocols>>
  BY DEF OpenList, BeforeList, metadata
<1>2. /\ Top \in Frames /\ FrameReads(img, Top) /\ IsImage(img)
      /\ Progress(img, Top, protocols, FALSE)
  BY <1>1, TopProgress
<1>3. /\ ListPtr = Ptr(img, Top, Top.ph) /\ ListPtr \in Nat
      /\ Top.ph # "create" /\ Top.ph # "super_class"
  BY <1>1, TopList
<1>4. /\ g.ph = Top.ph /\ g.open = TRUE /\ g.raw = Top.raw /\ g.obj = Top.obj
      /\ g.fn = Top.fn /\ g.at = Top.at /\ g.i = 0 /\ g.n = Cell(img, list).count
      /\ g.list = list
  BY <1>2 DEF Frames
<1> HIDE DEF g
<1>5. \A field \in FieldsOf(Top) : Part(img, g, field) = Part(img, Top, field)
  BY <1>1, <1>4 DEF Part, Upto, Extent, SourceOf, Ptr, Flag
<1>6. LoopProgress(img, g)
  <2>1. /\ SourceOf(img, g, g.ph) = Source(img, Top.ph, ListPtr)
        /\ Ptr(img, g, g.ph) = ListPtr
    BY <1>3, <1>4 DEF SourceOf, Ptr
  <2>2. ListPtr # 0 /\ Has(img, ListKind(Top.ph), list)
    BY <1>1 DEF ListReadable, Null
  <2>3. Len(Elements(img, Top.ph, ListPtr)) = Cell(img, list).count
        /\ Elements(img, Top.ph, ListPtr) \in Seq(Nat)
    BY <1>1, <1>2, <1>3, <2>2, ElementsAre
  <2>4. /\ Source(img, Top.ph, ListPtr) \in Seq(Nat)
        /\ Len(Source(img, Top.ph, ListPtr)) <= Len(Elements(img, Top.ph, ListPtr))
    BY <1>1, <1>2, <1>3, SourceIs
  <2>5. /\ Len(Source(img, Top.ph, ListPtr)) \in Nat
        /\ Len(Elements(img, Top.ph, ListPtr)) \in Nat
    BY <2>3, <2>4, LenProperties
  <2> QED
    BY <1>4, <2>1, <2>2, <2>3, <2>4, <2>5 DEF LoopProgress
<1>7. Top.fn \in {"Class", "Protocol"}
  BY <1>2 DEF Frames
<1>8. Progress(img, g, protocols, FALSE)
  BY <1>2, <1>3, <1>4, <1>5, <1>6, <1>7, SameProgress
<1> QED
  BY <1>1, <1>4, <1>8, StaysOn

\* What the loop over a list finds at its index.
LEMMA LoopElement ==
  ASSUME IInv, OInv, RInv, InElements
  PROVE  LET s == SourceOf(img, Top, Top.ph)
             has == Has(img, KindIn(img, Top.ph, ListPtr), ElementAddr)
         IN  /\ stack # << >> /\ Top.open /\ Top.ph \in ListFields
             /\ Top.ph # "base_protocols" /\ Top.i \in Nat /\ Top.n \in Nat
             /\ LoopProgress(img, Top)
             /\ ElementKind = KindIn(img, Top.ph, ListPtr)
             /\ Element(ElementAddr)
                  = Made(img, Top.ph, ListPtr, Flag(Top, Top.ph), ElementAddr)
             /\ has \/ Top.ph # "base_method_list" =>
                  Top.i + 1 <= Len(s) /\ s[Top.i + 1] = ElementAddr
             /\ ~ has /\ Top.ph = "base_method_list" => Len(s) = Top.i
<1> DEFINE s == SourceOf(img, Top, Top.ph)
           all == Elements(img, Top.ph, ListPtr)
           kind == KindIn(img, Top.ph, ListPtr)
<1>1. stack # << >> /\ Top.open /\ Top.i < Top.n /\ Top.ph # "base_protocols"
  BY DEF InElements, InLoop
<1>2. /\ Top \in Frames /\ FrameReads(img, Top) /\ IsImage(img)
      /\ Progress(img, Top, protocols, FALSE)
  BY <1>1, TopProgress
<1>3. /\ Top.ph \in ListFields /\ Has(img, ListKind(Top.ph), Top.list)
      /\ Top.i \in Nat /\ Top.n \in Nat
  BY <1>1, <1>2 DEF FrameReads, Frames
<1>4. /\ ListPtr = Ptr(img, Top, Top.ph) /\ ListPtr \in Nat /\ Top.ph # "create"
  BY <1>1, <1>3, TopList
<1>5. LoopProgress(img, Top)
  BY <1>2, <1>4 DEF Progress
<1>6. /\ ListPtr # 0 /\ Top.list = Decode(img, ListPtr)
      /\ Top.i <= Len(s) /\ Top.n <= Len(all)
  BY <1>1, <1>4, <1>5 DEF LoopProgress
<1>7. /\ all \in Seq(Nat) /\ \A k \in 1..Len(all) : all[k] = Top.list + k
  BY <1>2, <1>3, <1>4, <1>6, ElementsAre
<1>8. /\ s \in Seq(Nat) /\ Len(s) <= Len(all)
      /\ Top.ph = "base_method_list" =>
           /\ \A k \in 1..Len(s) : s[k] = all[k] /\ Has(img, kind, all[k])
           /\ Len(s) < Len(all) => ~ Has(img, kind, all[Len(s) + 1])
      /\ Top.ph # "base_method_list" => s = all
  BY <1>1, <1>2, <1>3, <1>4, SourceIs DEF SourceOf
<1> HIDE DEF s, all
<1>9. /\ Len(s) \in Nat /\ Len(all) \in Nat /\ Top.i + 1 \in 1..Len(all)
      /\ Top.i + 1 <= Len(all)
  BY <1>1, <1>3, <1>6, <1>7, <1>8, LenProperties
<1>10. all[Top.i + 1] = ElementAddr
  <2>1. all[Top.i + 1] = Top.list + (Top.i + 1) /\ Top.list \in Nat
    BY <1>2, <1>7, <1>9 DEF Frames
  <2> QED
    BY <1>3, <2>1 DEF ElementAddr
<1>11. Has(img, kind, ElementAddr) \/ Top.ph # "base_method_list" =>
         Top.i + 1 <= Len(s) /\ s[Top.i + 1] = ElementAddr
  <2>1. CASE Top.ph # "base_method_list"
    BY <1>8, <1>9, <1>10, <2>1
  <2>2. CASE Top.ph = "base_method_list" /\ Has(img, kind, ElementAddr)
    <3>1. Top.i # Len(s)
      BY <1>8, <1>9, <1>10, <2>2
    <3>2. Top.i + 1 <= Len(s) /\ Top.i + 1 \in 1..Len(s)
      BY <1>3, <1>6, <1>9, <3>1
    <3> QED
      BY <1>8, <1>10, <2>2, <3>2
  <2> QED
    BY <2>1, <2>2
<1>12. ~ Has(img, kind, ElementAddr) /\ Top.ph = "base_method_list" => Len(s) = Top.i
  <2> SUFFICES ASSUME ~ Has(img, kind, ElementAddr), Top.ph = "base_method_list"
               PROVE  Len(s) = Top.i
    OBVIOUS
  <2>1. ~ (Top.i + 1 \in 1..Len(s))
    BY <1>8, <1>10
  <2> QED
    BY <1>3, <1>6, <1>9, <2>1
<1>14. Promise!IsSmall(img, ListPtr) = IsSmallList
  BY <1>6, SameImage DEF Promise!IsSmall, IsSmallList
<1>15. ElementKind = kind
  <2>1. Top.ph \in MethodFields \/ Top.ph \in PropertyFields \/ Top.ph = "ivars"
    BY <1>1, <1>3 DEF ListFields
  <2> QED
    BY <1>14, <2>1 DEF ElementKind, KindIn
<1>16. Element(ElementAddr) = Made(img, Top.ph, ListPtr, Flag(Top, Top.ph), ElementAddr)
  <2>1. Top.ph \in MethodFields \/ Top.ph \in PropertyFields \/ Top.ph = "ivars"
    BY <1>1, <1>3 DEF ListFields
  <2>2. IsInstance = Flag(Top, Top.ph)
    BY DEF IsInstance, Flag
  <2> QED
    BY <1>14, <2>1, <2>2 DEF Element, Made
<1> QED
  BY <1>1, <1>3, <1>5, <1>11, <1>12, <1>15, <1>16 DEF s

\* The loop goes on: the other lists are as they were.
LEMMA LoopParts ==
  ASSUME NEW im, NEW f, NEW g, f.open, g.open, g.ph = f.ph, g.raw = f.raw,
         g.obj.is_meta = f.obj.is_meta
  PROVE  /\ \A field : field # f.ph => Part(im, g, field) = Part(im, f, field)
         /\ Part(im, g, f.ph) = Upto(im, f, f.ph, g.i)
         /\ Part(im, f, f.ph) = Upto(im, f, f.ph, f.i)
         /\ \A field : SourceOf(im, g, field) = SourceOf(im, f, field)
         /\ \A field, n : Upto(im, g, field, n) = Upto(im, f, field, n)
         /\ \A field : Ptr(im, g, field) = Ptr(im, f, field)
BY DEF Part, Upto, Extent, SourceOf, Ptr, Flag

LEMMA SkipElementProgress ==
  ASSUME IInv, OInv, RInv, SkipElement
  PROVE  RInv'
<1> DEFINE g == AfterFailure(Top)
           s == SourceOf(img, Top, Top.ph)
<1>1. /\ InElements /\ ~ Has(img, ElementKind, ElementAddr)
      /\ stack' = SetTop(stack, g)
      /\ UNCHANGED <<img, stage, idx, cache, protocols>>
  BY DEF SkipElement, metadata
<1>2. /\ stack # << >> /\ Top.open /\ Top.ph \in ListFields
      /\ Top.i \in Nat /\ Top.n \in Nat /\ LoopProgress(img, Top)
      /\ Top.ph # "base_method_list" =>
           Top.i + 1 <= Len(s) /\ s[Top.i + 1] = ElementAddr
      /\ Top.ph = "base_method_list" => Len(s) = Top.i
      /\ ~ Has(img, KindIn(img, Top.ph, ListPtr), ElementAddr)
  BY <1>1, LoopElement
<1>3. /\ Top \in Frames /\ FrameReads(img, Top) /\ IsImage(img) /\ ReadsIsa(img, Top)
      /\ Progress(img, Top, protocols, FALSE)
  BY <1>2, TopProgress
<1>4. /\ Top.ph \in FieldsOf(Top) /\ ListPtr = Ptr(img, Top, Top.ph)
      /\ ListPtr \in Nat /\ Flag(Top, Top.ph) \in BOOLEAN
      /\ Top.ph # "create" /\ Top.ph # "super_class"
  BY <1>2, TopList
<1>5. Len(s) \in Nat /\ s \in Seq(Nat)
  BY <1>3, <1>4, ExtentType
<1>6. /\ g.ph = Top.ph /\ g.open = TRUE /\ g.raw = Top.raw /\ g.obj = Top.obj
      /\ g.fn = Top.fn /\ g.at = Top.at /\ g.list = Top.list
      /\ Top.ph = "base_method_list" => g.i = Top.i /\ g.n = Top.i
      /\ Top.ph # "base_method_list" => g.i = Top.i + 1 /\ g.n = Top.n
  BY <1>2, <1>3 DEF AfterFailure, Frames
<1> HIDE DEF g
<1>7. /\ \A field : field # Top.ph => Part(img, g, field) = Part(img, Top, field)
      /\ Part(img, g, Top.ph) = Upto(img, Top, Top.ph, g.i)
      /\ Part(img, Top, Top.ph) = Upto(img, Top, Top.ph, Top.i)
      /\ \A field : SourceOf(img, g, field) = SourceOf(img, Top, field)
      /\ \A field : Ptr(img, g, field) = Ptr(img, Top, field)
  <2>1. /\ Top.open /\ g.open /\ g.ph = Top.ph /\ g.raw = Top.raw
        /\ g.obj.is_meta = Top.obj.is_meta
    BY <1>2, <1>6
  <2> QED
    BY <2>1, LoopParts
<1>8. Upto(img, Top, Top.ph, g.i) = Upto(img, Top, Top.ph, Top.i)
  <2>1. CASE Top.ph = "base_method_list"
    BY <1>6, <2>1
  <2>2. CASE Top.ph # "base_method_list"
    <3>1. Top.i \in 0..(Len(s) - 1) /\ ~ Has(img, KindIn(img, Top.ph, ListPtr), s[Top.i + 1])
      BY <1>2, <1>5, <2>2
    <3>2. Taken(img, Top.ph, ListPtr, Flag(Top, Top.ph), Top.i + 1)
            = Taken(img, Top.ph, ListPtr, Flag(Top, Top.ph), Top.i)
      BY <1>2, <1>3, <1>4, <3>1, TakenIs DEF SourceOf
    <3> QED
      BY <1>4, <1>6, <2>2, <3>2 DEF Upto
  <2> QED
    BY <2>1, <2>2
<1>9. LoopProgress(img, g)
  BY <1>2, <1>5, <1>6, <1>7 DEF LoopProgress
<1>10. \A field \in FieldsOf(Top) : Part(img, g, field) = Part(img, Top, field)
  BY <1>7, <1>8
<1>11. Top.fn \in {"Class", "Protocol"}
  BY <1>3 DEF Frames
<1>12. Progress(img, g, protocols, FALSE)
  BY <1>3, <1>4, <1>6, <1>9, <1>10, <1>11, SameProgress
<1> QED
  BY <1>1, <1>2, <1>6, <1>12, StaysOn

LEMMA AppendMethod ==
  \A a, b \in Seq(Methods), e \in Methods : Append(a \o b, e) = a \o Append(b, e)
<1> SUFFICES ASSUME NEW a \in Seq(Methods), NEW b \in Seq(Methods), NEW e \in Methods
             PROVE  Append(a \o b, e) = a \o Append(b, e)
  OBVIOUS
<1>1. <<e>> \in Seq(Methods) /\ a \o b \in Seq(Methods)
  BY ConcatProperties
<1>2. Append(a \o b, e) = (a \o b) \o <<e>> /\ Append(b, e) = b \o <<e>>
  BY <1>1, AppendIsConcat
<1>3. (a \o b) \o <<e>> = a \o (b \o <<e>>)
  BY <1>1, ConcatAssociative
<1> QED
  BY <1>2, <1>3, Zenon

LEMMA AppendFirst ==
  ASSUME NEW S, NEW a \in Seq(S), NEW b, b = << >>, NEW e \in S
  PROVE  Append(a \o b, e) = Append(a, e) \o b
<1>1. Append(a, e) \in Seq(S)
  BY AppendProperties
<1> QED
  BY <1>1, ConcatEmptySeq

LEMMA MethodsOfType ==
  ASSUME NEW im, IsImage(im), NEW addr \in Nat, ClassReadable(im, addr),
         Ends(im, addr)
  PROVE  Promise!MethodsOf(im, addr) \in Seq(Methods)
<1>1. PICK n \in Nat : Last(im, addr, n)
  BY DEF Ends
<1>2. \E m \in [0..n -> Seq(Methods)] : Promise!MethodsOf(im, addr) = m[n]
  BY <1>1, MethodsOfIs
<1> QED
  BY <1>2

LEMMA InheritedType ==
  ASSUME NEW im, IsImage(im), NEW f \in Frames, ReadsIsa(im, f),
         f.fn = "Class", f.ph # "create", f.ph # "super_class",
         NEW prots, SuperProgress(im, f, prots)
  PROVE  Inherited(im, f.at) \in Seq(Methods)
<1>1. ClassReadable(im, f.at) /\ f.at \in Nat
  BY DEF ReadsIsa, Frames
<1>2. CASE Promise!HasSuper(im, f.at)
  <2>1. IsaOf(im, f.at) \in Nat /\ ClassReadable(im, IsaOf(im, f.at))
    BY <1>1, <1>2, SuperReadable
  <2>2. Promise!MethodsOf(im, IsaOf(im, f.at)) \in Seq(Methods)
    BY <1>2, <2>1, MethodsOfType DEF SuperProgress
  <2> QED
    BY <1>2, <2>2, AsClassMethodsType DEF Inherited
<1>3. CASE ~ Promise!HasSuper(im, f.at)
  BY <1>3, EmptySeq DEF Inherited
<1> QED
  BY <1>2, <1>3

\* A list that is not reached yet has given nothing.
LEMMA LaterPart ==
  ASSUME NEW im, IsImage(im), NEW f \in Frames, ReadsIsa(im, f), f.ph # "create",
         NEW prots, NEW calls, Progress(im, f, prots, calls),
         NEW field \in FieldsOf(f), field # f.ph, field \notin Done[f.ph]
  PROVE  Part(im, f, field) = << >>
<1>1. Ptr(im, f, field) \in Nat /\ field \in ListFields /\ Flag(f, field) \in BOOLEAN
  BY PtrType
<1>2. Extent(im, f, field) = 0
  BY DEF Extent
<1> QED
  BY <1>1, <1>2, TakenIs DEF Part, Upto

\* The element goes where the loop appends it.
LEMMA ReadElementFrame ==
  ASSUME IInv, ReadElement
  PROVE  LET e == Element(ElementAddr)
             member == MemberOf(Top.ph)
             g == [Top EXCEPT !.obj[member] = Append(@, e), !.i = @ + 1]
         IN  /\ g.ph = Top.ph /\ g.open = Top.open /\ g.raw = Top.raw
             /\ g.fn = Top.fn /\ g.at = Top.at /\ g.list = Top.list
             /\ g.i = Top.i + 1 /\ g.n = Top.n
             /\ member \in {"methods", "opt_methods", "properties", "ivars"}
             /\ g.obj[member] = Append(Top.obj[member], e)
             /\ \A x \in {"name", "is_meta", "at", "methods", "opt_methods",
                          "protocols", "ivars", "properties"} :
                  x # member => g.obj[x] = Top.obj[x]
             /\ stack' = SetTop(stack, g)
<1> DEFINE e == Element(ElementAddr)
           member == MemberOf(Top.ph)
<1>1. /\ stack # << >> /\ Top.open /\ Top.ph # "base_protocols"
      /\ stack' = SetTop(stack, [Top EXCEPT !.obj[member] = Append(@, e),
                                            !.i = @ + 1])
  BY DEF ReadElement, InElements, InLoop
<1>2. Top \in Frames /\ Top.obj \in Objects
  BY <1>1, TopFacts DEF Frames
<1>3. member \in {"methods", "opt_methods", "properties", "ivars"}
  BY <1>1, ElementType
<1> HIDE DEF e, member
<1>4. DOMAIN Top.obj = {"name", "is_meta", "at", "methods", "opt_methods",
                        "protocols", "ivars", "properties"}
  BY <1>2 DEF Objects
<1> QED
  BY <1>1, <1>2, <1>3, <1>4 DEF Frames, e, member

LEMMA ReadElementParts ==
  ASSUME IInv, OInv, RInv, ReadElement
  PROVE  LET e == Element(ElementAddr)
             g == [Top EXCEPT !.obj[MemberOf(Top.ph)] = Append(@, e), !.i = @ + 1]
         IN  /\ Part(img, g, Top.ph) = Append(Part(img, Top, Top.ph), e)
             /\ Part(img, Top, Top.ph) \in Seq(MemberSet(Top.ph))
             /\ e \in MemberSet(Top.ph)
             /\ \A field : field # Top.ph => Part(img, g, field) = Part(img, Top, field)
             /\ LoopProgress(img, g)
<1> DEFINE e == Element(ElementAddr)
           g == [Top EXCEPT !.obj[MemberOf(Top.ph)] = Append(@, e), !.i = @ + 1]
           s == SourceOf(img, Top, Top.ph)
           flag == Flag(Top, Top.ph)
<1>1. InElements /\ Has(img, ElementKind, ElementAddr) /\ stack # << >>
  BY DEF ReadElement, InElements, InLoop
<1>2. /\ Top.open /\ Top.ph \in ListFields /\ Top.ph # "base_protocols"
      /\ Top.i \in Nat /\ Top.n \in Nat
      /\ LoopProgress(img, Top)
      /\ Has(img, KindIn(img, Top.ph, ListPtr), ElementAddr)
      /\ e = Made(img, Top.ph, ListPtr, flag, ElementAddr)
      /\ Top.i + 1 <= Len(s) /\ s[Top.i + 1] = ElementAddr
      /\ Top.i < Top.n
  BY <1>1, LoopElement DEF InElements, InLoop
<1>3. /\ Top \in Frames /\ IsImage(img) /\ ReadsIsa(img, Top)
      /\ Progress(img, Top, protocols, FALSE)
  BY <1>1, TopProgress
<1>4. /\ Top.ph \in FieldsOf(Top) /\ ListPtr = Ptr(img, Top, Top.ph)
      /\ ListPtr \in Nat /\ flag \in BOOLEAN /\ Top.ph # "create"
  BY <1>1, <1>2, TopList
<1>5. Len(s) \in Nat /\ s \in Seq(Nat)
  BY <1>3, <1>4, ExtentType
<1>6. /\ g.ph = Top.ph /\ g.open = Top.open /\ g.raw = Top.raw
      /\ g.list = Top.list /\ g.i = Top.i + 1 /\ g.n = Top.n
      /\ g.obj.is_meta = Top.obj.is_meta
  BY ReadElementFrame
<1> HIDE DEF e, g, s, flag
<1>7. /\ \A field : field # Top.ph => Part(img, g, field) = Part(img, Top, field)
      /\ Part(img, g, Top.ph) = Upto(img, Top, Top.ph, Top.i + 1)
      /\ Part(img, Top, Top.ph) = Upto(img, Top, Top.ph, Top.i)
      /\ SourceOf(img, g, Top.ph) = SourceOf(img, Top, Top.ph)
      /\ Ptr(img, g, Top.ph) = Ptr(img, Top, Top.ph)
  <2>1. /\ Top.open /\ g.open /\ g.ph = Top.ph /\ g.raw = Top.raw
        /\ g.obj.is_meta = Top.obj.is_meta
    BY <1>2, <1>6
  <2> QED
    BY <1>6, <2>1, LoopParts
<1>8. Top.i \in 0..(Len(s) - 1) /\ Top.i \in 0..Len(s) /\ s = Source(img, Top.ph, ListPtr)
  BY <1>2, <1>4, <1>5 DEF s, SourceOf
<1>9. /\ Taken(img, Top.ph, ListPtr, flag, Top.i + 1)
           = Append(Taken(img, Top.ph, ListPtr, flag, Top.i), e)
      /\ Taken(img, Top.ph, ListPtr, flag, Top.i) \in Seq(MemberSet(Top.ph))
  BY <1>2, <1>3, <1>4, <1>8, TakenIs
<1>10. /\ Upto(img, Top, Top.ph, Top.i + 1) = Append(Upto(img, Top, Top.ph, Top.i), e)
       /\ Upto(img, Top, Top.ph, Top.i) \in Seq(MemberSet(Top.ph))
  BY <1>4, <1>9 DEF Upto, flag
<1>11. LoopProgress(img, g)
  BY <1>2, <1>6, <1>7 DEF LoopProgress, s
<1>12. e \in MemberSet(Top.ph)
  <2>1. Top.ph \in MethodFields \/ Top.ph \in PropertyFields \/ Top.ph = "ivars"
    BY <1>2 DEF ListFields
  <2> QED
    BY <1>2, <1>3, <1>4, <2>1, MethodAtType, PropertyAtType, IVarAtType
       DEF Made, MemberSet
<1> QED
  BY <1>7, <1>10, <1>11, <1>12 DEF e, g

LEMMA ReadElementProgress ==
  ASSUME IInv, OInv, RInv, ReadElement
  PROVE  RInv'
<1> DEFINE e == Element(ElementAddr)
           g == [Top EXCEPT !.obj[MemberOf(Top.ph)] = Append(@, e), !.i = @ + 1]
           part(field) == Part(img, Top, field)
<1>1. InElements /\ stack # << >> /\ UNCHANGED <<img, stage, idx, cache, protocols>>
  BY DEF ReadElement, InElements, InLoop, metadata
<1>2. Top.open /\ Top.ph \in ListFields /\ Top.ph # "base_protocols"
  BY <1>1, LoopElement
<1>3. /\ Top \in Frames /\ IsImage(img) /\ ReadsIsa(img, Top)
      /\ Progress(img, Top, protocols, FALSE)
  BY <1>1, TopProgress
<1>4. /\ Top.ph \in FieldsOf(Top) /\ Top.ph # "create" /\ Top.ph # "super_class"
  BY <1>1, <1>2, TopList
<1>5. /\ g.ph = Top.ph /\ g.open = Top.open /\ g.raw = Top.raw
      /\ g.fn = Top.fn /\ g.at = Top.at
      /\ g.obj[MemberOf(Top.ph)] = Append(Top.obj[MemberOf(Top.ph)], e)
      /\ \A x \in {"name", "is_meta", "at", "methods", "opt_methods",
                   "protocols", "ivars", "properties"} :
           x # MemberOf(Top.ph) => g.obj[x] = Top.obj[x]
      /\ stack' = SetTop(stack, g)
  BY ReadElementFrame
<1>6. /\ Part(img, g, Top.ph) = Append(part(Top.ph), e)
      /\ part(Top.ph) \in Seq(MemberSet(Top.ph)) /\ e \in MemberSet(Top.ph)
      /\ \A field : field # Top.ph => Part(img, g, field) = part(field)
      /\ LoopProgress(img, g)
  BY ReadElementParts
<1>7. \A field \in FieldsOf(Top) : part(field) \in Seq(MemberSet(field))
  BY <1>3, <1>4, ExtentType
<1>8. \A field \in FieldsOf(Top) : field # Top.ph /\ field \notin Done[Top.ph]
                                     => part(field) = << >>
  BY <1>3, <1>4, LaterPart
<1> HIDE DEF e, g, part
<1>9. CASE Top.fn = "Class"
  <2>1. ClassProgress(img, Top, protocols, FALSE)
    BY <1>3, <1>4, <1>9 DEF Progress
  <2>2. Top.ph \in {"base_method_list", "ivars", "base_properties"}
    BY <1>2, <1>4, <1>9 DEF FieldsOf, ClassFields
  <2>3. Inherited(img, Top.at) \in Seq(Methods)
    BY <1>3, <1>4, <1>9, <2>1, InheritedType DEF ClassProgress
  <2>4. At(protocols, g.obj.protocols) =
          Upto(img, g, "base_protocols", Adopted(img, g, FALSE))
    <3>1. At(protocols, Top.obj.protocols) = part("base_protocols")
      BY <2>1 DEF ClassProgress, Adopted, Part, part
    <3>2. g.obj.protocols = Top.obj.protocols
      BY <1>5, <2>2 DEF MemberOf, MethodFields, PropertyFields
    <3>3. Upto(img, g, "base_protocols", Adopted(img, g, FALSE))
            = Part(img, g, "base_protocols")
      BY DEF Adopted, Part
    <3> QED
      BY <1>2, <1>6, <3>1, <3>2, <3>3
  <2>5. /\ g.obj.name = Top.obj.name /\ g.obj.is_meta = Top.obj.is_meta
        /\ g.obj.opt_methods = Top.obj.opt_methods
    BY <1>5, <2>2 DEF MemberOf, MethodFields, PropertyFields
  <2>6. /\ Top.obj.methods = Inherited(img, Top.at) \o part("base_method_list")
        /\ Top.obj.ivars = part("ivars")
        /\ Top.obj.properties = part("base_properties")
    BY <1>4, <2>1 DEF ClassProgress, part
  <2>7. /\ g.obj.methods = Inherited(img, Top.at) \o Part(img, g, "base_method_list")
        /\ g.obj.ivars = Part(img, g, "ivars")
        /\ g.obj.properties = Part(img, g, "base_properties")
    <3>1. CASE Top.ph = "base_method_list"
      <4>1. MemberOf(Top.ph) = "methods" /\ e \in Methods
        <5>1. MemberOf(Top.ph) = "methods" /\ Top.ph \in MethodFields
          BY <3>1 DEF MemberOf, MethodFields
        <5> QED
          BY <1>6, <5>1 DEF MemberSet
      <4>2. g.obj.methods = Append(Inherited(img, Top.at) \o part("base_method_list"), e)
            /\ g.obj.ivars = Top.obj.ivars /\ g.obj.properties = Top.obj.properties
        BY <1>5, <2>6, <4>1
      <4>3. g.obj.methods = Inherited(img, Top.at) \o Append(part("base_method_list"), e)
        <5>1. /\ part("base_method_list") \in Seq(Methods)
              /\ Part(img, g, Top.ph) = Append(part("base_method_list"), e)
          BY <1>6, <3>1 DEF MemberSet, MethodFields
        <5>2. Append(Inherited(img, Top.at) \o part("base_method_list"), e)
                = Inherited(img, Top.at) \o Append(part("base_method_list"), e)
          BY <2>3, <4>1, <5>1, AppendMethod, Zenon
        <5> QED
          BY <4>2, <5>2
      <4> QED
        BY <1>6, <2>6, <3>1, <4>2, <4>3
    <3>2. CASE Top.ph = "ivars"
      <4>1. MemberOf(Top.ph) = "ivars"
        BY <3>2 DEF MemberOf, MethodFields, PropertyFields
      <4> QED
        BY <1>5, <1>6, <2>6, <3>2, <4>1
    <3>3. CASE Top.ph = "base_properties"
      <4>1. MemberOf(Top.ph) = "properties"
        BY <3>3 DEF MemberOf, MethodFields, PropertyFields
      <4> QED
        BY <1>5, <1>6, <2>6, <3>3, <4>1
    <3> QED
      BY <2>2, <3>1, <3>2, <3>3
  <2>8. SuperProgress(img, g, protocols)
    BY <1>5, <2>1 DEF ClassProgress, SuperProgress
  <2>9. ClassProgress(img, g, protocols, FALSE)
    BY <1>4, <1>5, <2>1, <2>4, <2>5, <2>7, <2>8 DEF ClassProgress
  <2>10. Progress(img, g, protocols, FALSE)
    BY <1>5, <1>6, <1>9, <2>9 DEF Progress
  <2> QED
    BY <1>1, <1>5, <2>10, StaysOn
<1>10. CASE Top.fn = "Protocol"
  <2>1. ProtocolProgress(img, Top)
    BY <1>3, <1>4, <1>10 DEF Progress
  <2>2. Top.ph \in {"instance_methods", "class_methods", "instance_properties",
                    "optional_instance_methods", "optional_class_methods"}
    BY <1>4, <1>10, FieldSets DEF FieldsOf
  <2>3. {"instance_methods", "class_methods", "instance_properties",
         "optional_instance_methods", "optional_class_methods"} \subseteq FieldsOf(Top)
    BY <1>10, FieldSets DEF FieldsOf
  <2>4. /\ g.obj.name = Top.obj.name /\ g.obj.is_meta = Top.obj.is_meta
        /\ g.obj.protocols = Top.obj.protocols /\ g.obj.ivars = Top.obj.ivars
    BY <1>5, <2>2 DEF MemberOf, MethodFields, PropertyFields
  <2>5. /\ Top.obj.methods = part("instance_methods") \o part("class_methods")
        /\ Top.obj.opt_methods = part("optional_instance_methods")
                                 \o part("optional_class_methods")
        /\ Top.obj.properties = part("instance_properties")
    BY <2>1 DEF ProtocolProgress, part
  <2>6. /\ part("instance_methods") \in Seq(Methods)
        /\ part("class_methods") \in Seq(Methods)
        /\ part("optional_instance_methods") \in Seq(Methods)
        /\ part("optional_class_methods") \in Seq(Methods)
    BY <1>7, <2>3 DEF MemberSet, MethodFields
  <2>7. /\ g.obj.methods = Part(img, g, "instance_methods") \o Part(img, g, "class_methods")
        /\ g.obj.opt_methods = Part(img, g, "optional_instance_methods")
                               \o Part(img, g, "optional_class_methods")
        /\ g.obj.properties = Part(img, g, "instance_properties")
    <3>1. CASE Top.ph = "instance_methods"
      <4>1. MemberOf(Top.ph) = "methods" /\ e \in Methods
        <5>1. MemberOf(Top.ph) = "methods" /\ Top.ph \in MethodFields
          BY <3>1 DEF MemberOf, MethodFields
        <5> QED
          BY <1>6, <5>1 DEF MemberSet
      <4>2. part("class_methods") = << >>
        BY <1>8, <2>3, <3>1 DEF Done
      <4>3. Append(part("instance_methods") \o part("class_methods"), e)
              = Append(part("instance_methods"), e) \o part("class_methods")
        BY <2>6, <4>1, <4>2, AppendFirst
      <4> QED
        BY <1>5, <1>6, <2>5, <3>1, <4>1, <4>3
    <3>2. CASE Top.ph = "class_methods"
      <4>1. MemberOf(Top.ph) = "methods" /\ e \in Methods
        <5>1. MemberOf(Top.ph) = "methods" /\ Top.ph \in MethodFields
          BY <3>2 DEF MemberOf, MethodFields
        <5> QED
          BY <1>6, <5>1 DEF MemberSet
      <4>2. Append(part("instance_methods") \o part("class_methods"), e)
              = part("instance_methods") \o Append(part("class_methods"), e)
        BY <2>6, <4>1, AppendMethod, Zenon
      <4> QED
        BY <1>5, <1>6, <2>5, <3>2, <4>1, <4>2
    <3>3. CASE Top.ph = "optional_instance_methods"
      <4>1. MemberOf(Top.ph) = "opt_methods" /\ e \in Methods
        <5>1. MemberOf(Top.ph) = "opt_methods" /\ Top.ph \in MethodFields
          BY <3>3 DEF MemberOf, MethodFields
        <5> QED
          BY <1>6, <5>1 DEF MemberSet
      <4>2. part("optional_class_methods") = << >>
        BY <1>8, <2>3, <3>3 DEF Done
      <4>3. Append(part("optional_instance_methods") \o part("optional_class_methods"), e)
              = Append(part("optional_instance_methods"), e)
                \o part("optional_class_methods")
        BY <2>6, <4>1, <4>2, AppendFirst
      <4> QED
        BY <1>5, <1>6, <2>5, <3>3, <4>1, <4>3
    <3>4. CASE Top.ph = "optional_class_methods"
      <4>1. MemberOf(Top.ph) = "opt_methods" /\ e \in Methods
        <5>1. MemberOf(Top.ph) = "opt_methods" /\ Top.ph \in MethodFields
          BY <3>4 DEF MemberOf, MethodFields
        <5> QED
          BY <1>6, <5>1 DEF MemberSet
      <4>2. Append(part("optional_instance_methods") \o part("optional_class_methods"), e)
              = part("optional_instance_methods")
                \o Append(part("optional_class_methods"), e)
        BY <2>6, <4>1, AppendMethod, Zenon
      <4> QED
        BY <1>5, <1>6, <2>5, <3>4, <4>1, <4>2
    <3>5. CASE Top.ph = "instance_properties"
      <4>1. MemberOf(Top.ph) = "properties"
        BY <3>5 DEF MemberOf, MethodFields, PropertyFields
      <4> QED
        BY <1>5, <1>6, <2>5, <3>5, <4>1
    <3> QED
      BY <2>2, <3>1, <3>2, <3>3, <3>4, <3>5
  <2>8. ProtocolProgress(img, g)
    BY <1>5, <2>1, <2>4, <2>7 DEF ProtocolProgress
  <2>9. Progress(img, g, protocols, FALSE)
    BY <1>5, <1>6, <1>10, <2>8 DEF Progress
  <2> QED
    BY <1>1, <1>5, <2>9, StaysOn
<1>11. Top.fn \in {"Class", "Protocol"}
  BY <1>3 DEF Frames
<1> QED
  BY <1>9, <1>10, <1>11

-----------------------------------------------------------------------------
(***************************************************************************)
(* The protocols a class adopts.                                           *)
(***************************************************************************)
\* What the base_protocols loop finds at the cursor.
LEMMA RefElement ==
  ASSUME IInv, OInv, RInv, InRefs
  PROVE  LET s == SourceOf(img, Top, "base_protocols")
         IN  /\ stack # << >> /\ Top.open /\ Top.ph = "base_protocols"
             /\ Top.fn = "Class" /\ Top.i \in Nat /\ Top.n \in Nat /\ Top.i < Top.n
             /\ Top \in Frames /\ LoopProgress(img, Top)
             /\ Len(s) \in Nat
             /\ Has(img, "pointer", pos) =>
                  Top.i + 1 <= Len(s) /\ s[Top.i + 1] = RefAddr
             /\ ~ Has(img, "pointer", pos) => Len(s) = Top.i
<1> DEFINE s == SourceOf(img, Top, "base_protocols")
           all == Elements(img, Top.ph, ListPtr)
<1>1. /\ stack # << >> /\ Top.open /\ Top.ph = "base_protocols"
      /\ Top \in Frames /\ Top.i \in Nat /\ Top.n \in Nat /\ Top.list \in Nat
      /\ pos = Top.list + 1 + Top.i /\ Top.i < Top.n
  BY RefFacts DEF InRefs, InLoop
<1>2. /\ FrameReads(img, Top) /\ IsImage(img) /\ Progress(img, Top, protocols, FALSE)
      /\ ReadsIsa(img, Top)
  BY <1>1, TopProgress
<1>3. Top.fn = "Class"
  <2>1. Top.fn \in {"Class", "Protocol"}
    BY <1>1 DEF Frames
  <2> QED
    BY <1>1, <1>2, <2>1 DEF FrameReads, ClassFields
<1>4. Top.ph \in ListFields /\ Has(img, ListKind(Top.ph), Top.list)
  BY <1>1, <1>2 DEF FrameReads
<1>5. /\ ListPtr = Ptr(img, Top, Top.ph) /\ ListPtr \in Nat /\ Top.ph # "create"
  BY <1>1, <1>4, TopList
<1>6. LoopProgress(img, Top)
  BY <1>2, <1>5 DEF Progress
<1>7. /\ ListPtr # 0 /\ Top.list = Decode(img, ListPtr)
      /\ Top.i <= Len(s) /\ Top.n <= Len(all)
  BY <1>1, <1>5, <1>6 DEF LoopProgress
<1>8. /\ all \in Seq(Nat) /\ \A k \in 1..Len(all) : all[k] = Top.list + k
  BY <1>2, <1>4, <1>5, <1>7, ElementsAre
<1>9. /\ s \in Seq(Nat) /\ Len(s) <= Len(all)
      /\ \A k \in 1..Len(s) :
           /\ s[k] = Decode(img, Cell(img, all[k]).value)
           /\ Has(img, "pointer", all[k])
      /\ Len(s) < Len(all) => ~ Has(img, "pointer", all[Len(s) + 1])
  BY <1>1, <1>2, <1>4, <1>5, SourceIs DEF SourceOf
<1> HIDE DEF s, all
<1>10. Len(s) \in Nat /\ Len(all) \in Nat /\ Top.i + 1 \in 1..Len(all)
  <2>1. Len(s) \in Nat /\ Len(all) \in Nat
    BY <1>8, <1>9, LenProperties
  <2> QED
    BY <1>1, <1>7, <2>1
<1>11. all[Top.i + 1] = pos
  <2>1. Top.list + (Top.i + 1) = pos
    BY <1>1
  <2>2. all[Top.i + 1] = Top.list + (Top.i + 1)
    BY <1>8, <1>10
  <2> QED
    BY <2>1, <2>2
<1>12. Has(img, "pointer", pos) => Top.i + 1 <= Len(s) /\ s[Top.i + 1] = RefAddr
  <2> SUFFICES ASSUME Has(img, "pointer", pos)
               PROVE  Top.i + 1 <= Len(s) /\ s[Top.i + 1] = RefAddr
    OBVIOUS
  <2>1. Top.i # Len(s)
    BY <1>9, <1>10, <1>11
  <2>2. Top.i + 1 \in 1..Len(s)
    BY <1>1, <1>7, <1>10, <2>1
  <2> QED
    BY <1>9, <1>11, <2>2 DEF RefAddr
<1>13. ~ Has(img, "pointer", pos) => Len(s) = Top.i
  <2> SUFFICES ASSUME ~ Has(img, "pointer", pos) PROVE Len(s) = Top.i
    OBVIOUS
  <2>1. ~ (Top.i + 1 \in 1..Len(s))
    BY <1>9, <1>11
  <2> QED
    BY <1>1, <1>7, <1>10, <2>1
<1> QED
  BY <1>1, <1>3, <1>6, <1>10, <1>12, <1>13 DEF s

LEMMA AtAppend ==
  ASSUME NEW prots \in Seq(Objects), NEW obj \in Objects, Owns(obj, Len(prots)),
         NEW r \in DOMAIN prots
  PROVE  At(prots, Append(obj.protocols, r))
           = Append(At(prots, obj.protocols), prots[r].at)
<1> DEFINE refs == obj.protocols
           a == At(prots, refs)
           more == Append(refs, r)
           x == prots[r].at
<1>1. DOMAIN prots = 1..Len(prots) /\ Len(prots) \in Nat
  BY LenProperties
<1>2. refs \in Seq(Nat) /\ Len(refs) \in Nat /\ DOMAIN refs = 1..Len(refs)
  BY LenProperties DEF Objects
<1>3. \A k \in DOMAIN prots : prots[k].at \in Nat
  <2>1. \A k \in DOMAIN prots : prots[k] \in Objects
    BY <1>1, ElementOfSeq
  <2> QED
    BY <2>1 DEF Objects
<1>4. \A k \in 1..Len(refs) : refs[k] \in DOMAIN prots
  BY <1>1, <1>2 DEF Owns
<1>5. /\ more \in Seq(Nat) /\ Len(more) = Len(refs) + 1 /\ more[Len(refs) + 1] = r
      /\ \A k \in 1..Len(refs) : more[k] = refs[k]
      /\ DOMAIN more = 1..(Len(refs) + 1)
  <2>1. r \in Nat
    BY <1>1
  <2>2. more \in Seq(Nat) /\ Len(more) = Len(refs) + 1 /\ more[Len(refs) + 1] = r
        /\ \A k \in 1..Len(refs) : more[k] = refs[k]
    BY <1>2, <2>1, AppendProperties
  <2> QED
    BY <2>2, LenProperties
<1> HIDE DEF refs, more
<1>6. /\ a \in Seq(Nat) /\ Len(a) = Len(refs)
      /\ \A k \in 1..Len(refs) : a[k] = prots[refs[k]].at
  BY <1>2, <1>3, <1>4 DEF At
<1>7. x \in Nat
  BY <1>3
<1> DEFINE b == At(prots, more)
           c == Append(a, x)
<1>8. /\ b \in Seq(Nat) /\ Len(b) = Len(refs) + 1
      /\ \A k \in 1..(Len(refs) + 1) : b[k] = prots[more[k]].at
  <2>1. \A k \in 1..(Len(refs) + 1) : more[k] \in DOMAIN prots
    <3> TAKE k \in 1..(Len(refs) + 1)
    <3>1. k \in 1..Len(refs) \/ k = Len(refs) + 1
      BY <1>2
    <3> QED
      BY <1>4, <1>5, <3>1
  <2> QED
    BY <1>2, <1>3, <1>5, <2>1 DEF At
<1> HIDE DEF a, x, b
<1>9. /\ c \in Seq(Nat) /\ Len(c) = Len(refs) + 1 /\ c[Len(refs) + 1] = x
      /\ \A k \in 1..Len(refs) : c[k] = a[k]
  BY <1>6, <1>7, AppendProperties
<1> HIDE DEF c
<1>10. ASSUME NEW k \in 1..Len(b) PROVE b[k] = c[k]
  <2>1. /\ k \in 1..Len(refs) \/ k = Len(refs) + 1
        /\ b[k] = prots[more[k]].at
    BY <1>2, <1>8
  <2>2. CASE k \in 1..Len(refs)
    BY <1>5, <1>6, <1>9, <2>1, <2>2
  <2>3. CASE k = Len(refs) + 1
    BY <1>5, <1>9, <2>1, <2>3 DEF x
  <2> QED
    BY <2>1, <2>2, <2>3
<1>11. b = c
  BY <1>8, <1>9, <1>10, SeqEqual
<1> QED
  BY <1>11 DEF a, b, c, x, refs, more

\* Frame g goes on with the protocols of f's class.
LEMMA RefsProgress ==
  ASSUME NEW im, NEW prots, NEW f \in Frames, NEW before, NEW g, NEW calls,
         f.fn = "Class", f.ph = "base_protocols", f.open,
         Progress(im, f, prots, before),
         g.fn = f.fn, g.at = f.at, g.raw = f.raw, g.ph = f.ph, g.open = f.open,
         g.obj.name = f.obj.name, g.obj.is_meta = f.obj.is_meta,
         g.obj.methods = f.obj.methods, g.obj.opt_methods = f.obj.opt_methods,
         g.obj.ivars = f.obj.ivars, g.obj.properties = f.obj.properties,
         LoopProgress(im, g),
         At(prots, g.obj.protocols) =
           Upto(im, f, "base_protocols", Adopted(im, g, calls))
  PROVE  Progress(im, g, prots, calls)
<1>1. ClassProgress(im, f, prots, before)
  BY DEF Progress
<1>2. /\ \A field : field # f.ph => Part(im, g, field) = Part(im, f, field)
      /\ \A field, n : Upto(im, g, field, n) = Upto(im, f, field, n)
  <2>1. g.open
    OBVIOUS
  <2> QED
    BY <2>1, LoopParts
<1>3. SuperProgress(im, g, prots)
  BY <1>1 DEF ClassProgress, SuperProgress
<1>4. /\ Part(im, g, "base_method_list") = Part(im, f, "base_method_list")
      /\ Part(im, g, "ivars") = Part(im, f, "ivars")
      /\ Part(im, g, "base_properties") = Part(im, f, "base_properties")
  BY <1>2
<1>5. ClassProgress(im, g, prots, calls)
  BY <1>1, <1>2, <1>3, <1>4 DEF ClassProgress
<1> QED
  BY <1>5 DEF Progress

LEMMA RefTaken ==
  ASSUME NEW im, IsImage(im), NEW f \in Frames, ReadsIsa(im, f),
         f.fn = "Class", f.ph # "create", NEW prots, NEW calls,
         Progress(im, f, prots, calls), NEW n \in Nat,
         n < Len(SourceOf(im, f, "base_protocols"))
  PROVE  LET addr == SourceOf(im, f, "base_protocols")[n + 1]
         IN  Upto(im, f, "base_protocols", n + 1) =
               IF Has(im, "protocol", addr)
               THEN Append(Upto(im, f, "base_protocols", n), addr)
               ELSE Upto(im, f, "base_protocols", n)
<1> DEFINE field == "base_protocols"
           s == SourceOf(im, f, field)
           ptr == Ptr(im, f, field)
           flag == Flag(f, field)
<1>1. field \in FieldsOf(f)
  BY DEF FieldsOf, ClassFields
<1>2. /\ ptr \in Nat /\ field \in ListFields /\ flag \in BOOLEAN
      /\ Len(s) \in Nat
  BY <1>1, PtrType, ExtentType
<1>3. s = Source(im, field, ptr)
  BY DEF SourceOf
<1>4. /\ KindIn(im, field, ptr) = "protocol"
      /\ \A addr : Made(im, field, ptr, flag, addr) = addr
  BY DEF KindIn, Made, MethodFields, PropertyFields
<1>5. n \in 0..(Len(s) - 1)
  BY <1>2
<1>6. \A m : Upto(im, f, field, m) = Taken(im, field, ptr, flag, m)
  BY DEF Upto
<1> HIDE DEF ptr, flag, s, field
<1>7. Taken(im, field, ptr, flag, n + 1) =
        IF Has(im, KindIn(im, field, ptr), s[n + 1])
        THEN Append(Taken(im, field, ptr, flag, n), Made(im, field, ptr, flag, s[n + 1]))
        ELSE Taken(im, field, ptr, flag, n)
  BY <1>2, <1>3, <1>5, TakenIs
<1> QED
  BY <1>4, <1>6, <1>7 DEF s, field

LEMMA KnownProtocolProgress ==
  ASSUME IInv, OInv, RInv, KnownProtocol
  PROVE  RInv'
<1> DEFINE r == cache[RefAddr]
           g == Adopt(NextRef, r)
           s == SourceOf(img, Top, "base_protocols")
<1>1. /\ InRefs /\ Has(img, "pointer", pos) /\ RefAddr \in DOMAIN cache
      /\ stack' = SetTop(stack, g)
      /\ UNCHANGED <<img, stage, idx, cache, protocols>>
  BY DEF KnownProtocol, metadata
<1>2. /\ stack # << >> /\ Top.open /\ Top.ph = "base_protocols"
      /\ Top.fn = "Class" /\ Top.i \in Nat /\ Top.n \in Nat /\ Top.i < Top.n
      /\ Top \in Frames /\ LoopProgress(img, Top) /\ Len(s) \in Nat
      /\ Top.i + 1 <= Len(s) /\ s[Top.i + 1] = RefAddr
  BY <1>1, RefElement
<1>3. /\ IsImage(img) /\ Progress(img, Top, protocols, FALSE) /\ ReadsIsa(img, Top)
      /\ Owns(Top.obj, Len(protocols)) /\ Top.obj \in Objects
      /\ protocols \in Seq(Objects)
  BY <1>2, TopProgress
<1>4. /\ Has(img, "protocol", RefAddr)
      /\ r \in DOMAIN protocols /\ protocols[r].at = RefAddr
  BY <1>1 DEF RInv, CacheProgress, OInv, CacheHolds
<1>5. /\ g.fn = Top.fn /\ g.at = Top.at /\ g.raw = Top.raw /\ g.ph = Top.ph
      /\ g.open = Top.open /\ g.i = Top.i + 1 /\ g.n = Top.n /\ g.list = Top.list
      /\ g.obj.name = Top.obj.name /\ g.obj.is_meta = Top.obj.is_meta
      /\ g.obj.methods = Top.obj.methods /\ g.obj.opt_methods = Top.obj.opt_methods
      /\ g.obj.ivars = Top.obj.ivars /\ g.obj.properties = Top.obj.properties
      /\ g.obj.protocols = Append(Top.obj.protocols, r)
  BY <1>2, <1>3 DEF Adopt, NextRef, Frames, Objects
<1> HIDE DEF g, r, s
<1>6. At(protocols, g.obj.protocols) = Append(At(protocols, Top.obj.protocols), RefAddr)
  BY <1>3, <1>4, <1>5, AtAppend
<1>7. At(protocols, Top.obj.protocols) = Upto(img, Top, "base_protocols", Top.i)
  BY <1>2, <1>3 DEF Progress, ClassProgress, Adopted, Extent
<1>8. Upto(img, Top, "base_protocols", Top.i + 1)
        = Append(Upto(img, Top, "base_protocols", Top.i), RefAddr)
  <2>1. Top.i < Len(s) /\ Top.ph # "create"
    BY <1>2
  <2> QED
    BY <1>2, <1>3, <1>4, <2>1, RefTaken DEF s
<1>9. Adopted(img, g, FALSE) = Top.i + 1
  BY <1>2, <1>5 DEF Adopted, Extent
<1>10. At(protocols, g.obj.protocols) =
         Upto(img, Top, "base_protocols", Adopted(img, g, FALSE))
  BY <1>6, <1>7, <1>8, <1>9
<1>11. LoopProgress(img, g)
  <2>1. SourceOf(img, g, "base_protocols") = s
        /\ Ptr(img, g, "base_protocols") = Ptr(img, Top, "base_protocols")
    BY <1>5 DEF SourceOf, Ptr, s
  <2> QED
    BY <1>2, <1>5, <2>1 DEF LoopProgress, s
<1>12. Progress(img, g, protocols, FALSE)
  BY <1>2, <1>3, <1>5, <1>10, <1>11, RefsProgress
<1> QED
  BY <1>1, <1>2, <1>5, <1>12, StaysOn

LEMMA NewProtocolRefProgress ==
  ASSUME IInv, OInv, RInv, NewProtocolRef
  PROVE  RInv'
<1> DEFINE g == NextRef
           call == Call("Protocol", RefAddr, pos + 1)
           s == SourceOf(img, Top, "base_protocols")
<1>1. /\ InRefs /\ Has(img, "pointer", pos) /\ RefAddr \notin DOMAIN cache
      /\ stack' = Append(SetTop(stack, g), call)
      /\ UNCHANGED <<img, stage, idx, cache, protocols>>
  BY DEF NewProtocolRef, metadata
<1>2. /\ stack # << >> /\ Top.open /\ Top.ph = "base_protocols"
      /\ Top.fn = "Class" /\ Top.i \in Nat /\ Top.n \in Nat /\ Top.i < Top.n
      /\ Top \in Frames /\ LoopProgress(img, Top) /\ Len(s) \in Nat
      /\ Top.i + 1 <= Len(s) /\ s[Top.i + 1] = RefAddr
  BY <1>1, RefElement
<1>3. IsImage(img) /\ Progress(img, Top, protocols, FALSE)
  BY <1>2, TopProgress
<1>4. /\ g.fn = Top.fn /\ g.at = Top.at /\ g.raw = Top.raw /\ g.ph = Top.ph
      /\ g.open = Top.open /\ g.i = Top.i + 1 /\ g.n = Top.n /\ g.list = Top.list
      /\ g.obj = Top.obj
  BY <1>2 DEF NextRef, Frames
<1>5. g \in Frames
  BY <1>1, NextRefFrame
<1>6. call \in Frames /\ call.ph = "create" /\ call.at = RefAddr
  <2>1. RefAddr \in Nat /\ pos + 1 \in Nat
    BY <1>1, RefFacts
  <2> QED
    BY <2>1, CallFrame
<1> HIDE DEF g, s, call
<1>7. SourceOf(img, g, "base_protocols") = s
      /\ Ptr(img, g, "base_protocols") = Ptr(img, Top, "base_protocols")
  BY <1>4 DEF SourceOf, Ptr, s
<1>8. At(protocols, g.obj.protocols) =
        Upto(img, Top, "base_protocols", Adopted(img, g, TRUE))
  <2>1. At(protocols, Top.obj.protocols) = Upto(img, Top, "base_protocols", Top.i)
    BY <1>2, <1>3 DEF Progress, ClassProgress, Adopted, Extent
  <2>2. Adopted(img, g, TRUE) = Top.i
    BY <1>2, <1>4 DEF Adopted
  <2> QED
    BY <1>4, <2>1, <2>2
<1>9. LoopProgress(img, g)
  BY <1>2, <1>4, <1>7 DEF LoopProgress, s
<1>10. Progress(img, g, protocols, TRUE)
  BY <1>2, <1>3, <1>4, <1>8, <1>9, RefsProgress
<1>11. CallsRef(img, g, call)
  BY <1>2, <1>4, <1>6, <1>7 DEF CallsRef
<1> QED
  BY <1>1, <1>2, <1>4, <1>5, <1>6, <1>10, <1>11, Calls

LEMMA BreakRefsProgress ==
  ASSUME IInv, OInv, RInv, BreakRefs
  PROVE  RInv'
<1> DEFINE g == [Top EXCEPT !.n = Top.i]
           s == SourceOf(img, Top, "base_protocols")
<1>1. /\ InRefs /\ ~ Has(img, "pointer", pos)
      /\ stack' = SetTop(stack, g)
      /\ UNCHANGED <<img, stage, idx, cache, protocols>>
  BY DEF BreakRefs, metadata
<1>2. /\ stack # << >> /\ Top.open /\ Top.ph = "base_protocols"
      /\ Top.fn = "Class" /\ Top.i \in Nat /\ Top.n \in Nat /\ Top.i < Top.n
      /\ Top \in Frames /\ LoopProgress(img, Top) /\ Len(s) \in Nat
      /\ Len(s) = Top.i
  BY <1>1, RefElement
<1>3. IsImage(img) /\ Progress(img, Top, protocols, FALSE)
  BY <1>2, TopProgress
<1>4. /\ g.fn = Top.fn /\ g.at = Top.at /\ g.raw = Top.raw /\ g.ph = Top.ph
      /\ g.open = Top.open /\ g.i = Top.i /\ g.n = Top.i /\ g.list = Top.list
      /\ g.obj = Top.obj
  BY <1>2 DEF Frames
<1> HIDE DEF g, s
<1>5. SourceOf(img, g, "base_protocols") = s
      /\ Ptr(img, g, "base_protocols") = Ptr(img, Top, "base_protocols")
  BY <1>4 DEF SourceOf, Ptr, s
<1>6. At(protocols, g.obj.protocols) =
        Upto(img, Top, "base_protocols", Adopted(img, g, FALSE))
  <2>1. At(protocols, Top.obj.protocols) = Upto(img, Top, "base_protocols", Top.i)
    BY <1>2, <1>3 DEF Progress, ClassProgress, Adopted, Extent
  <2>2. Adopted(img, g, FALSE) = Top.i
    BY <1>2, <1>4 DEF Adopted, Extent
  <2> QED
    BY <1>4, <2>1, <2>2
<1>7. LoopProgress(img, g)
  BY <1>2, <1>4, <1>5 DEF LoopProgress, s
<1>8. Progress(img, g, protocols, FALSE)
  BY <1>2, <1>3, <1>4, <1>6, <1>7, RefsProgress
<1> QED
  BY <1>1, <1>2, <1>4, <1>8, StaysOn

-----------------------------------------------------------------------------
(***************************************************************************)
(* What has been read when create() returns.                               *)
(***************************************************************************)
LEMMA AllOfIt ==
  ASSUME NEW im, NEW f, f.ph = "return", NEW field \in ListFields
  PROVE  Part(im, f, field) = Whole(im, field, Ptr(im, f, field), Flag(f, field))
<1>1. f.ph # field /\ field \in Done[f.ph]
  BY FieldSets DEF Done
<1> QED
  BY <1>1 DEF Part, Upto, Extent, Whole, SourceOf

LEMMA ProtocolRead ==
  ASSUME NEW im, IsImage(im), NEW f \in Frames, f.fn = "Protocol",
         f.ph = "return", f.obj.at = f.at, NEW prots, NEW calls,
         Progress(im, f, prots, calls)
  PROVE  f.obj = Promise!ProtocolAt(im, f.at) /\ Has(im, "protocol", f.at)
<1> DEFINE raw == Cell(im, f.at)
<1>1. ProtocolProgress(im, f) /\ ReadsIsa(im, f) /\ f.ph # "create"
  BY DEF Progress, ReadsIsa
<1>2. {"instance_methods", "class_methods", "instance_properties",
       "optional_instance_methods", "optional_class_methods"} \subseteq FieldsOf(f)
  BY FieldSets DEF FieldsOf
<1>3. ASSUME NEW field \in FieldsOf(f)
      PROVE  /\ raw[field] \in Nat /\ Flag(f, field) \in BOOLEAN
             /\ field \in ListFields
             /\ Part(im, f, field) = Whole(im, field, raw[field], Flag(f, field))
  <2>1. /\ Ptr(im, f, field) \in Nat /\ Flag(f, field) \in BOOLEAN
        /\ field \in ListFields
    BY <1>1, PtrType
  <2>2. Ptr(im, f, field) = raw[field]
    BY <1>1 DEF Ptr, ProtocolProgress
  <2> QED
    BY <2>1, <2>2, AllOfIt
<1>4. /\ Flag(f, "instance_methods") = TRUE /\ Flag(f, "class_methods") = FALSE
      /\ Flag(f, "optional_instance_methods") = TRUE
      /\ Flag(f, "optional_class_methods") = FALSE
  BY DEF Flag
<1>5. /\ Part(im, f, "instance_methods")
           = Promise!ProtocolMethods(im, raw.instance_methods, TRUE)
      /\ Part(im, f, "class_methods")
           = Promise!ProtocolMethods(im, raw.class_methods, FALSE)
      /\ Part(im, f, "optional_instance_methods")
           = Promise!ProtocolMethods(im, raw.optional_instance_methods, TRUE)
      /\ Part(im, f, "optional_class_methods")
           = Promise!ProtocolMethods(im, raw.optional_class_methods, FALSE)
  <2>1. ASSUME NEW field \in {"instance_methods", "class_methods",
                              "optional_instance_methods", "optional_class_methods"}
        PROVE  Part(im, f, field)
                 = Promise!ProtocolMethods(im, raw[field], Flag(f, field))
    <3>1. field \in MethodFields \ {"base_method_list"} /\ field \in FieldsOf(f)
      BY <1>2 DEF MethodFields
    <3>2. /\ raw[field] \in Nat /\ Flag(f, field) \in BOOLEAN
          /\ Part(im, f, field) = Whole(im, field, raw[field], Flag(f, field))
      BY <1>3, <3>1
    <3> HIDE DEF raw
    <3> QED
      BY <3>1, <3>2, WholeMethods
  <2> HIDE DEF raw
  <2> QED
    BY <1>4, <2>1
<1>6. Part(im, f, "instance_properties")
        = Promise!PropertiesOf(im, raw.instance_properties)
  <2>1. "instance_properties" \in PropertyFields
    BY DEF PropertyFields
  <2> HIDE DEF raw
  <2> QED
    BY <1>2, <1>3, <2>1, WholeProperties
<1>7. /\ f.obj.name = Promise!StringAt(im, Promise!Decode(im, raw.mangled_name))
      /\ Promise!Cell(im, f.at) = raw
  BY <1>1, SameImage DEF ProtocolProgress
<1>8. f.obj \in Objects
  BY DEF Frames
<1>9. /\ f.obj.is_meta = FALSE /\ f.obj.protocols = << >> /\ f.obj.ivars = << >>
      /\ f.obj.methods = Part(im, f, "instance_methods") \o Part(im, f, "class_methods")
      /\ f.obj.opt_methods = Part(im, f, "optional_instance_methods")
                             \o Part(im, f, "optional_class_methods")
      /\ f.obj.properties = Part(im, f, "instance_properties")
      /\ Has(im, "protocol", f.at)
  BY <1>1 DEF ProtocolProgress
<1> DEFINE p == Promise!ProtocolAt(im, f.at)
<1>10. p = [name |-> f.obj.name, is_meta |-> FALSE, at |-> f.at,
            methods |-> f.obj.methods, opt_methods |-> f.obj.opt_methods,
            protocols |-> << >>, ivars |-> << >>, properties |-> f.obj.properties]
  <2> HIDE DEF raw
  <2> QED
    BY <1>5, <1>6, <1>7, <1>9 DEF Promise!ProtocolAt
<1> HIDE DEF p
<1> QED
  BY <1>8, <1>9, <1>10 DEF p, Objects

Stored(prots) == {prots[k].at : k \in DOMAIN prots}

LEMMA ClassRead ==
  ASSUME NEW im, IsImage(im), NEW f \in Frames, f.fn = "Class", f.ph = "return",
         f.obj.at = f.at, ReadsIsa(im, f), NEW prots, Owns(f.obj, Len(prots)),
         Progress(im, f, prots, FALSE),
         DOMAIN prots = 1..Len(prots)
  PROVE  /\ f.obj.methods = Promise!MethodsOf(im, f.at)
         /\ Ends(im, f.at) /\ Promise!Mentioned(im, f.at) \subseteq Stored(prots)
         /\ [f.obj EXCEPT !.protocols = At(prots, @)] = Promise!ClassAt(im, f.at)
<1> DEFINE ro == Promise!Ro(im, f.at)
           reported == Stored(prots)
           adopts == Promise!Adopts(im, f.at)
<1>1. ClassProgress(im, f, prots, FALSE) /\ f.ph # "create"
  BY DEF Progress
<1>2. ClassReadable(im, f.at) /\ f.at \in Nat
  BY DEF ReadsIsa, Frames
<1>3. /\ ro.is_meta \in BOOLEAN /\ ro.base_method_list \in Nat
      /\ ro.base_protocols \in Nat /\ ro.ivars \in Nat
      /\ ro.base_properties \in Nat
  BY <1>2, ReadableRo
<1>4. ASSUME NEW field \in FieldsOf(f)
      PROVE  /\ Flag(f, field) \in BOOLEAN
             /\ Part(im, f, field) = Whole(im, field, ro[field], Flag(f, field))
  <2>1. /\ Flag(f, field) \in BOOLEAN /\ field \in ListFields
        /\ Ptr(im, f, field) = ro[field]
    BY <1>1, PtrType
  <2> QED
    BY <2>1, AllOfIt
<1>5. {"base_method_list", "base_protocols", "ivars", "base_properties"}
        \subseteq FieldsOf(f)
  BY DEF FieldsOf, ClassFields
<1>6. Part(im, f, "base_method_list") = Promise!OwnMethods(im, f.at)
  <2>1. Flag(f, "base_method_list") = ~ ro.is_meta
    BY <1>1 DEF Flag, ClassProgress
  <2> HIDE DEF ro
  <2> QED
    BY <1>3, <1>4, <1>5, <2>1, WholeOwnMethods DEF ro
<1>7. Part(im, f, "ivars") = Promise!IvarsOf(im, f.at)
  BY <1>3, <1>4, <1>5, WholeIvars
<1>8. Part(im, f, "base_properties") = Promise!PropertiesOf(im, ro.base_properties)
  <2>1. "base_properties" \in PropertyFields
    BY DEF PropertyFields
  <2> HIDE DEF ro
  <2> QED
    BY <1>3, <1>4, <1>5, <2>1, WholeProperties
<1>9. At(prots, f.obj.protocols) = adopts
  <2>1. At(prots, f.obj.protocols) = Part(im, f, "base_protocols")
    BY <1>1 DEF ClassProgress, Adopted, Part
  <2> HIDE DEF adopts
  <2> QED
    BY <1>3, <1>4, <1>5, <2>1, WholeAdopts DEF adopts
<1>10. {adopts[k] : k \in DOMAIN adopts} \subseteq reported
  <2>1. \A k \in DOMAIN f.obj.protocols : f.obj.protocols[k] \in DOMAIN prots
    BY DEF Owns
  <2>2. /\ DOMAIN adopts = DOMAIN f.obj.protocols
        /\ \A k \in DOMAIN f.obj.protocols : adopts[k] = prots[f.obj.protocols[k]].at
    BY <1>9 DEF At
  <2> HIDE DEF adopts
  <2> QED
    BY <2>1, <2>2 DEF Stored
<1>11. /\ f.obj.methods = Promise!MethodsOf(im, f.at)
       /\ Ends(im, f.at) /\ Promise!Mentioned(im, f.at) \subseteq reported
  <2>1. f.obj.methods = Inherited(im, f.at) \o Promise!OwnMethods(im, f.at)
    BY <1>1, <1>6 DEF ClassProgress
  <2>2. CASE Promise!HasSuper(im, f.at)
    <3>1. /\ Ends(im, IsaOf(im, f.at))
          /\ Promise!Mentioned(im, IsaOf(im, f.at)) \subseteq reported
      BY <1>1, <2>2 DEF ClassProgress, SuperProgress, Stored
    <3>2. /\ Ends(im, f.at)
          /\ Promise!MethodsOf(im, f.at) =
               Promise!AsClassMethods(Promise!MethodsOf(im, IsaOf(im, f.at)))
                 \o Promise!OwnMethods(im, f.at)
          /\ Promise!Mentioned(im, f.at) =
               {adopts[k] : k \in DOMAIN adopts}
                 \cup Promise!Mentioned(im, IsaOf(im, f.at))
      BY <1>2, <2>2, <3>1, SuperClass
    <3>3. Inherited(im, f.at) =
            Promise!AsClassMethods(Promise!MethodsOf(im, IsaOf(im, f.at)))
      BY <2>2 DEF Inherited
    <3> HIDE DEF adopts, reported
    <3> QED
      BY <1>10, <2>1, <3>1, <3>2, <3>3
  <2>3. CASE ~ Promise!HasSuper(im, f.at)
    <3>1. /\ Ends(im, f.at)
          /\ Promise!MethodsOf(im, f.at) = Promise!OwnMethods(im, f.at)
          /\ Promise!Mentioned(im, f.at) = {adopts[k] : k \in DOMAIN adopts}
      BY <1>2, <2>3, LastClass
    <3>2. Inherited(im, f.at) = << >>
      BY <2>3 DEF Inherited
    <3>3. Promise!OwnMethods(im, f.at) \in Seq(Methods)
      BY <1>2, OwnMethodsType
    <3>4. << >> \o Promise!OwnMethods(im, f.at) = Promise!OwnMethods(im, f.at)
      BY <3>3, ConcatEmptySeq
    <3> HIDE DEF adopts, reported
    <3> QED
      BY <1>10, <2>1, <3>1, <3>2, <3>4
  <2> QED
    BY <2>2, <2>3
<1>12. [f.obj EXCEPT !.protocols = At(prots, @)] = Promise!ClassAt(im, f.at)
  <2>1. f.obj \in Objects
    BY DEF Frames
  <2>2. /\ f.obj.name = Promise!StringAt(im, Promise!Decode(im, ro.name))
        /\ f.obj.is_meta = ro.is_meta /\ f.obj.opt_methods = << >>
        /\ f.obj.ivars = Promise!IvarsOf(im, f.at)
        /\ f.obj.properties = Promise!PropertiesOf(im, ro.base_properties)
    BY <1>1, <1>7, <1>8, SameImage DEF ClassProgress
  <2> DEFINE c == Promise!ClassAt(im, f.at)
  <2>3. c = [name |-> f.obj.name, is_meta |-> f.obj.is_meta, at |-> f.at,
             methods |-> f.obj.methods, opt_methods |-> << >>,
             protocols |-> At(prots, f.obj.protocols),
             ivars |-> f.obj.ivars, properties |-> f.obj.properties]
    BY <1>9, <1>11, <2>2 DEF Promise!ClassAt
  <2> HIDE DEF c
  <2> QED
    BY <2>1, <2>2, <2>3 DEF Objects, c
<1> QED
  BY <1>11, <1>12

-----------------------------------------------------------------------------
(***************************************************************************)
(* create(), the super class, and the return to the caller.                *)
(***************************************************************************)
\* Nothing has been read when create() comes to the first list.
LEMMA FreshPart ==
  ASSUME NEW im, IsImage(im), NEW f, ~ f.open,
         f.ph \in {"super_class", "base_method_list", "instance_methods"},
         NEW field \in ListFields, Ptr(im, f, field) \in Nat,
         Flag(f, field) \in BOOLEAN
  PROVE  Part(im, f, field) = << >> /\ Upto(im, f, field, 0) = << >>
<1>1. Extent(im, f, field) = 0
  BY DEF Extent, Done
<1> QED
  BY <1>1, TakenIs DEF Part, Upto

LEMMA FreshClass ==
  ASSUME NEW im, IsImage(im), NEW f, ~ f.open, f.fn = "Class",
         f.ph \in {"super_class", "base_method_list"},
         ClassReadable(im, f.at), f.raw = ClassRoPtr(im, Cell(im, f.at)),
         f.obj.is_meta \in BOOLEAN
  PROVE  /\ \A field \in ClassFields : Part(im, f, field) = << >>
         /\ \A calls : Upto(im, f, "base_protocols", Adopted(im, f, calls)) = << >>
<1>1. ASSUME NEW field \in ClassFields
      PROVE  Part(im, f, field) = << >> /\ Upto(im, f, field, 0) = << >>
  <2>1. Has(im, "class_ro", f.raw)
    BY ReadableClass
  <2>2. Ptr(im, f, field) \in Nat /\ field \in ListFields
    BY <2>1, CellIsCell, ClassRoCell, FieldSets DEF Ptr
  <2>3. Flag(f, field) \in BOOLEAN
    BY FlagType
  <2> QED
    BY <2>2, <2>3, FreshPart
<1>2. \A calls : Adopted(im, f, calls) = 0
  BY DEF Adopted, Extent, Done
<1>3. "base_protocols" \in ClassFields
  BY DEF ClassFields
<1> QED
  BY <1>1, <1>2, <1>3

\* The cursor is on the structure create() was called for.
LEMMA CreateAt ==
  ASSUME IInv, stack # << >>, Top.ph = "create" \/ Top.ph = "super_class"
  PROVE  pos = Top.at /\ ~ Top.open /\ Top \in Frames
<1>1. Top \in Frames /\ FrameReads(img, Top) /\ (Relies(Top) => pos = CursorOf(Top))
  BY TopFacts
<1>2. ~ Top.open
  BY <1>1, FieldSets DEF FrameReads
<1> QED
  BY <1>1, <1>2 DEF Relies, CursorOf

LEMMA CreateClassProgress ==
  ASSUME IInv, OInv, RInv, CreateClass
  PROVE  RInv'
<1> DEFINE ro == ClassRoPtr(img, Cell(img, pos))
           raw == Cell(img, ro)
           name == StringAt(img, Decode(img, raw.name))
           g == [Top EXCEPT !.ph = "super_class", !.raw = ro,
                            !.isa = Cell(img, pos).isa,
                            !.obj = NewObject(name, Top.at, raw.is_meta)]
<1>1. /\ stack # << >> /\ Top.fn = "Class" /\ Top.ph = "create"
      /\ ClassReadable(img, pos) /\ stack' = SetTop(stack, g)
      /\ UNCHANGED <<img, stage, idx, cache, protocols>>
  BY DEF CreateClass, Running, metadata
<1>2. pos = Top.at /\ ~ Top.open /\ Top \in Frames /\ IsImage(img)
  BY <1>1, CreateAt, TopFacts
<1>3. raw.is_meta \in BOOLEAN /\ raw = Promise!Ro(img, Top.at)
  BY <1>1, <1>2, ReadableClass, SameClasses
<1>4. /\ g.fn = Top.fn /\ g.at = Top.at /\ g.raw = ro /\ g.ph = "super_class"
      /\ g.open = Top.open
      /\ g.obj = NewObject(name, Top.at, raw.is_meta)
  BY <1>2 DEF Frames
<1>5. /\ g.obj.name = name /\ g.obj.is_meta = raw.is_meta
      /\ g.obj.methods = << >> /\ g.obj.opt_methods = << >>
      /\ g.obj.protocols = << >> /\ g.obj.ivars = << >> /\ g.obj.properties = << >>
  BY <1>4 DEF NewObject
<1>6. g.raw = ClassRoPtr(img, Cell(img, g.at))
  BY <1>2, <1>4
<1> HIDE DEF g, ro, raw
<1>7. /\ \A field \in ClassFields : Part(img, g, field) = << >>
      /\ \A calls : Upto(img, g, "base_protocols", Adopted(img, g, calls)) = << >>
  <2>1. /\ ~ g.open /\ g.fn = "Class" /\ g.ph \in {"super_class", "base_method_list"}
        /\ ClassReadable(img, g.at) /\ g.obj.is_meta \in BOOLEAN
    BY <1>1, <1>2, <1>3, <1>4, <1>5
  <2> QED
    BY <1>2, <1>6, <2>1, FreshClass
<1>8. {"base_method_list", "base_protocols", "ivars", "base_properties"}
        \subseteq ClassFields
  BY DEF ClassFields
<1>9. At(protocols, << >>) = << >>
  BY DEF At
<1>10. << >> \o << >> = << >>
  BY EmptySeq, ConcatEmptySeq
<1>11. ClassProgress(img, g, protocols, FALSE)
  BY <1>3, <1>4, <1>5, <1>6, <1>7, <1>8, <1>9, <1>10
     DEF ClassProgress, SuperProgress, name
<1>12. Progress(img, g, protocols, FALSE)
  BY <1>1, <1>2, <1>4, <1>11 DEF Progress, LoopProgress
<1> QED
  BY <1>1, <1>4, <1>12, StaysOn

LEMMA CreateProtocolProgress ==
  ASSUME IInv, OInv, RInv, CreateProtocol
  PROVE  RInv'
<1> DEFINE name == StringAt(img, Decode(img, Cell(img, pos).mangled_name))
           g == [Top EXCEPT !.ph = "instance_methods", !.raw = pos,
                            !.obj = NewObject(name, Top.at, FALSE)]
<1>1. /\ stack # << >> /\ Top.fn = "Protocol" /\ Top.ph = "create"
      /\ Has(img, "protocol", pos) /\ stack' = SetTop(stack, g)
      /\ UNCHANGED <<img, stage, idx, cache, protocols>>
  BY DEF CreateProtocol, Running, metadata
<1>2. pos = Top.at /\ ~ Top.open /\ Top \in Frames /\ IsImage(img)
  BY <1>1, CreateAt, TopFacts
<1>3. /\ g.fn = Top.fn /\ g.at = Top.at /\ g.raw = pos /\ g.ph = "instance_methods"
      /\ g.open = Top.open /\ g.obj = NewObject(name, Top.at, FALSE)
  BY <1>2 DEF Frames
<1>4. /\ g.obj.name = name /\ g.obj.is_meta = FALSE
      /\ g.obj.methods = << >> /\ g.obj.opt_methods = << >>
      /\ g.obj.protocols = << >> /\ g.obj.ivars = << >> /\ g.obj.properties = << >>
  BY <1>3 DEF NewObject
<1> HIDE DEF g
<1>5. ASSUME NEW field \in ProtocolFields PROVE Part(img, g, field) = << >>
  <2>1. Ptr(img, g, field) \in Nat /\ field \in ListFields
    BY <1>1, <1>3, CellIsCell, ProtocolCell, FieldSets, <1>2 DEF Ptr
  <2>2. field # "base_method_list"
    BY FieldSets
  <2>3. Flag(g, field) \in BOOLEAN
    BY <2>2 DEF Flag
  <2>4. ~ g.open /\ g.ph \in {"super_class", "base_method_list", "instance_methods"}
    BY <1>2, <1>3
  <2> QED
    BY <1>2, <2>1, <2>3, <2>4, FreshPart
<1>6. {"instance_methods", "class_methods", "instance_properties",
       "optional_instance_methods", "optional_class_methods"} \subseteq ProtocolFields
  BY FieldSets
<1>7. << >> \o << >> = << >>
  BY EmptySeq, ConcatEmptySeq
<1>8. ProtocolProgress(img, g)
  BY <1>1, <1>2, <1>3, <1>4, <1>5, <1>6, <1>7 DEF ProtocolProgress, name
<1>9. Progress(img, g, protocols, FALSE)
  BY <1>1, <1>2, <1>3, <1>8 DEF Progress, LoopProgress
<1> QED
  BY <1>1, <1>3, <1>9, StaysOn

\* A class goes on with its own methods, after those it inherits.
LEMMA AfterSuperProgress ==
  ASSUME NEW im, IsImage(im), NEW prots, NEW f \in Frames, NEW calls, NEW g,
         f.fn = "Class", f.ph = "super_class", ~ f.open,
         ReadsIsa(im, f), Progress(im, f, prots, calls),
         g.fn = f.fn, g.at = f.at, g.raw = f.raw, g.ph = "base_method_list",
         ~ g.open,
         g.obj.name = f.obj.name, g.obj.is_meta = f.obj.is_meta,
         g.obj.opt_methods = f.obj.opt_methods, g.obj.protocols = f.obj.protocols,
         g.obj.ivars = f.obj.ivars, g.obj.properties = f.obj.properties,
         g.obj.methods = f.obj.methods \o Inherited(im, f.at),
         Inherited(im, f.at) \in Seq(Methods), SuperProgress(im, g, prots)
  PROVE  Progress(im, g, prots, FALSE)
<1>1. ClassProgress(im, f, prots, calls) /\ ClassReadable(im, f.at)
  BY DEF Progress, ReadsIsa
<1>2. f.raw = ClassRoPtr(im, Cell(im, f.at)) /\ f.obj.is_meta \in BOOLEAN
  BY <1>1 DEF ClassProgress, Frames, Objects
<1>3. /\ \A field \in ClassFields : Part(im, f, field) = << >>
      /\ \A c : Upto(im, f, "base_protocols", Adopted(im, f, c)) = << >>
  BY <1>1, <1>2, FreshClass
<1>4. /\ \A field \in ClassFields : Part(im, g, field) = << >>
      /\ \A c : Upto(im, g, "base_protocols", Adopted(im, g, c)) = << >>
  <2>1. /\ g.fn = "Class" /\ g.ph \in {"super_class", "base_method_list"}
        /\ ClassReadable(im, g.at) /\ g.raw = ClassRoPtr(im, Cell(im, g.at))
        /\ g.obj.is_meta \in BOOLEAN
    BY <1>1, <1>2
  <2> QED
    BY <2>1, FreshClass
<1>5. {"base_method_list", "base_protocols", "ivars", "base_properties"}
        \subseteq ClassFields
  BY DEF ClassFields
<1>6. << >> \o << >> = << >> /\ << >> \o Inherited(im, f.at) = Inherited(im, f.at)
      /\ Inherited(im, f.at) \o << >> = Inherited(im, f.at)
  BY EmptySeq, ConcatEmptySeq
<1>7. f.obj.methods = << >>
  BY <1>1, <1>3, <1>5, <1>6 DEF ClassProgress
<1>8. g.obj.methods = Inherited(im, g.at) \o Part(im, g, "base_method_list")
  BY <1>4, <1>5, <1>6, <1>7
<1>9. ClassProgress(im, g, prots, FALSE)
  BY <1>1, <1>3, <1>4, <1>5, <1>8 DEF ClassProgress
<1> QED
  BY <1>9 DEF Progress, LoopProgress

\* The super class that create() looks for is the one that Promise knows.
LEMMA SameSuper ==
  ASSUME NEW im, NEW f, f.fn = "Class", f.ph # "create", ReadsIsa(im, f)
  PROVE  Promise!HasSuper(im, f.at) <=>
           /\ f.isa # Null /\ Decode(im, f.isa) # f.at
           /\ ClassReadable(im, Decode(im, f.isa))
BY SameClasses DEF ReadsIsa, HasIsa, IsaOf, Null

\* There is no super class, or it cannot be read.
LEMMA NoneInherited ==
  ASSUME NEW im, IsImage(im), NEW prots, NEW f \in Frames, NEW calls,
         f.fn = "Class", f.ph = "super_class", ~ f.open,
         ReadsIsa(im, f), Progress(im, f, prots, calls),
         ~ Promise!HasSuper(im, f.at)
  PROVE  LET g == Go(f, After["super_class"])
         IN  Progress(im, g, prots, FALSE) /\ g.fn = f.fn /\ g.at = f.at
<1> DEFINE g == Go(f, After["super_class"])
<1>1. /\ g.fn = f.fn /\ g.at = f.at /\ g.raw = f.raw
      /\ g.ph = "base_method_list" /\ g.open = FALSE /\ g.obj = f.obj
  BY DEF Go, After, Frames
<1> HIDE DEF g
<1>2. Inherited(im, f.at) = << >> /\ Inherited(im, f.at) \in Seq(Methods)
  BY EmptySeq DEF Inherited
<1>3. f.obj.methods \in Seq(Methods)
  BY DEF Frames, Objects
<1>4. f.obj.methods \o << >> = f.obj.methods
  BY <1>3, ConcatEmptySeq
<1>5. SuperProgress(im, g, prots)
  BY <1>1 DEF SuperProgress
<1>6. g.obj.methods = f.obj.methods \o Inherited(im, f.at)
  BY <1>1, <1>2, <1>4
<1>7. Progress(im, g, prots, FALSE)
  BY <1>1, <1>2, <1>5, <1>6, AfterSuperProgress
<1> QED
  BY <1>1, <1>7 DEF g

LEMMA NoSuperProgress ==
  ASSUME IInv, OInv, RInv, NoSuper
  PROVE  RInv'
<1> DEFINE g == Go(Top, After["super_class"])
<1>1. /\ stack # << >> /\ Top.fn = "Class" /\ Top.ph = "super_class" /\ ~ HasSuper
      /\ stack' = SetTop(stack, g)
      /\ UNCHANGED <<img, stage, idx, cache, protocols>>
  BY DEF NoSuper, Running, metadata
<1>2. /\ Top \in Frames /\ IsImage(img) /\ ReadsIsa(img, Top)
      /\ Progress(img, Top, protocols, FALSE) /\ pos = Top.at /\ ~ Top.open
  BY <1>1, TopProgress, CreateAt
<1>3. ~ Promise!HasSuper(img, Top.at)
  BY <1>1, <1>2, SameSuper DEF HasSuper
<1>4. Progress(img, g, protocols, FALSE) /\ g.fn = Top.fn /\ g.at = Top.at
  BY <1>1, <1>2, <1>3, NoneInherited
<1> HIDE DEF g
<1> QED
  BY <1>1, <1>4, StaysOn

LEMMA ParseSuperProgress ==
  ASSUME IInv, OInv, RInv, ParseSuper
  PROVE  RInv'
<1> DEFINE addr == Decode(img, Top.isa)
           g == Call("Class", addr, pos)
<1>1. /\ stack # << >> /\ Top.fn = "Class" /\ Top.ph = "super_class"
      /\ stack' = Append(stack, g)
      /\ UNCHANGED <<img, stage, idx, cache, protocols>>
  BY DEF ParseSuper, Running, metadata
<1>2. /\ Top \in Frames /\ IsImage(img) /\ pos \in Nat
      /\ Progress(img, Top, protocols, FALSE) /\ stack \in Seq(Frames)
  BY <1>1, TopProgress, TopFacts
<1>3. addr \in Nat
  BY <1>2, DecodeNat DEF Frames, IsImage
<1> HIDE DEF addr
<1>4. g \in Frames /\ g.fn = "Class" /\ g.ph = "create"
  <2>1. addr \in Nat /\ pos \in Nat
    BY <1>2, <1>3
  <2> QED
    BY <2>1, CallFrame
<1> HIDE DEF g
<1>5. SetTop(stack, Top) = stack
  BY <1>2 DEF SetTop, Top, Depth
<1>6. Adopted(img, Top, TRUE) = Adopted(img, Top, FALSE)
  BY <1>1 DEF Adopted
<1>7. Progress(img, Top, protocols, TRUE)
  BY <1>1, <1>2, <1>6 DEF Progress, ClassProgress
<1>8. CallsRef(img, Top, g)
  BY <1>1 DEF CallsRef
<1> QED
  BY <1>1, <1>2, <1>4, <1>5, <1>7, <1>8, Calls

\* The class that called create() for its isa.
LEMMA ClassCaller ==
  ASSUME IInv, OInv, RInv, stack # << >>, Depth # 1, Top.fn = "Class"
  PROVE  /\ Caller \in Frames /\ Caller.fn = "Class" /\ Caller.ph = "super_class"
         /\ ~ Caller.open /\ ReadsIsa(img, Caller) /\ Caller.at \in Nat
         /\ ClassReadable(img, Caller.at)
         /\ Progress(img, Caller, protocols, TRUE)
         /\ Top.at = IsaOf(img, Caller.at)
         /\ ClassReadable(img, Top.at) <=> Promise!HasSuper(img, Caller.at)
<1>1. /\ Caller \in Frames /\ FrameReads(img, Caller) /\ MayCall(Caller, Top)
  BY CallerFacts
<1>2. Caller.fn = "Class" /\ Caller.ph = "super_class"
  BY <1>1 DEF MayCall
<1>3. ~ Caller.open
  BY <1>1, <1>2, FieldSets DEF FrameReads
<1>4. ReadsIsa(img, Caller) /\ ClassReadable(img, Caller.at) /\ Caller.at \in Nat
  BY <1>1, <1>2, CallerHolds DEF FrameHolds, ReadsIsa, Frames
<1>5. Progress(img, Caller, protocols, TRUE)
  BY TopProgress, PopBelow DEF Caller, Depth
<1>6. Caller.isa # Null /\ Top.at = Decode(img, Caller.isa) /\ Top.at # Caller.at
  <2>1. /\ DOMAIN stack = 1..Depth /\ Depth \in Nat \ {0}
    BY TopFacts, TopOfStack DEF IInv, TypeOK, Depth
  <2>2. Depth - 1 \in DOMAIN stack /\ (Depth - 1) + 1 = Depth /\ Depth \in DOMAIN stack
    BY <2>1
  <2>3. FollowsIsa(img, stack[Depth - 1], stack[Depth])
    BY <2>2 DEF OInv, StackHolds
  <2> QED
    BY <1>2, <2>3 DEF FollowsIsa, Caller, Top
<1>7. Top.at = IsaOf(img, Caller.at)
  BY <1>2, <1>4, <1>6 DEF ReadsIsa, IsaOf
<1>8. ClassReadable(img, Top.at) <=> Promise!HasSuper(img, Caller.at)
  BY <1>2, <1>4, <1>6, SameSuper
<1> QED
  BY <1>1, <1>2, <1>3, <1>4, <1>5, <1>7, <1>8

LEMMA ReturnSuperProgress ==
  ASSUME IInv, OInv, RInv, ReturnSuper
  PROVE  RInv'
<1> DEFINE g == TakeMethods(Go(Caller, After["super_class"]), Top.obj.methods)
           isa == Top.at
<1>1. /\ stack # << >> /\ Top.fn = "Class" /\ Top.ph = "return" /\ Depth # 1
      /\ stack' = SetTop(Pop(stack), g)
      /\ UNCHANGED <<img, stage, idx, cache, protocols>>
  BY DEF ReturnSuper, Running, metadata
<1>2. /\ Top \in Frames /\ IsImage(img) /\ ReadsIsa(img, Top) /\ Top.obj.at = Top.at
      /\ Owns(Top.obj, Len(protocols)) /\ Progress(img, Top, protocols, FALSE)
      /\ DOMAIN protocols = 1..Len(protocols)
  BY <1>1, TopProgress, LenProperties
<1>3. /\ Top.obj.methods = Promise!MethodsOf(img, isa)
      /\ Ends(img, isa) /\ Promise!Mentioned(img, isa) \subseteq Stored(protocols)
  <2>1. /\ Top \in Frames /\ IsImage(img) /\ ReadsIsa(img, Top)
        /\ Top.fn = "Class" /\ Top.ph = "return" /\ Top.obj.at = Top.at
        /\ Owns(Top.obj, Len(protocols)) /\ Progress(img, Top, protocols, FALSE)
        /\ DOMAIN protocols = 1..Len(protocols)
    BY <1>1, <1>2
  <2> HIDE DEF g
  <2> QED
    BY <2>1, ClassRead
<1>4. ClassReadable(img, isa)
  BY <1>1, <1>2 DEF ReadsIsa
<1>5. /\ Caller \in Frames /\ Caller.fn = "Class" /\ Caller.ph = "super_class"
      /\ ~ Caller.open /\ ReadsIsa(img, Caller) /\ Caller.at \in Nat
      /\ ClassReadable(img, Caller.at)
      /\ Progress(img, Caller, protocols, TRUE)
      /\ isa = IsaOf(img, Caller.at) /\ Promise!HasSuper(img, Caller.at)
  BY <1>1, <1>4, ClassCaller
<1>6. Top.obj.methods \in Seq(Methods)
  BY <1>2 DEF Frames, Objects
<1>7. /\ Inherited(img, Caller.at) = Promise!AsClassMethods(Top.obj.methods)
      /\ Inherited(img, Caller.at) \in Seq(Methods)
  BY <1>3, <1>5, <1>6, AsClassMethodsType DEF Inherited
<1>8. /\ g.fn = Caller.fn /\ g.at = Caller.at /\ g.raw = Caller.raw
      /\ g.ph = "base_method_list" /\ ~ g.open
      /\ g.obj.name = Caller.obj.name /\ g.obj.is_meta = Caller.obj.is_meta
      /\ g.obj.opt_methods = Caller.obj.opt_methods
      /\ g.obj.protocols = Caller.obj.protocols
      /\ g.obj.ivars = Caller.obj.ivars /\ g.obj.properties = Caller.obj.properties
      /\ g.obj.methods = Caller.obj.methods \o Promise!AsClassMethods(Top.obj.methods)
  BY <1>5 DEF Go, After, TakeMethods, Promise!AsClassMethods, Frames, Objects
<1> HIDE DEF g
<1>9. SuperProgress(img, g, protocols)
  BY <1>3, <1>5, <1>8 DEF SuperProgress, Stored
<1>10. g.obj.methods = Caller.obj.methods \o Inherited(img, Caller.at)
  BY <1>7, <1>8
<1>11. Progress(img, g, protocols, FALSE)
  BY <1>2, <1>5, <1>7, <1>8, <1>9, <1>10, AfterSuperProgress
<1> QED
  BY <1>1, <1>8, <1>11, Returns

-----------------------------------------------------------------------------
(***************************************************************************)
(* The sections, and the entries that leave the stack.                     *)
(***************************************************************************)
LEMMA ListedIs ==
  ASSUME IsImage(img)
  PROVE  LET s == ObjCSection(img.protolist)
         IN  /\ s \in Seq(Nat) /\ DOMAIN Listed = DOMAIN s /\ DOMAIN s = 1..Len(s)
             /\ Len(s) \in Nat
             /\ \A k \in DOMAIN s : Listed[k] = Decode(img, s[k])
<1> DEFINE s == ObjCSection(img.protolist)
<1>1. s \in Seq(Nat)
  BY SectionType DEF IsImage
<1>2. Promise!ObjCSection(img.protolist) = s
  BY DEF Promise!ObjCSection, ObjCSection
<1> HIDE DEF s
<1>3. Listed = [k \in DOMAIN s |-> Promise!Decode(img, s[k])]
  BY <1>2 DEF Listed, Promise!Locations
<1>4. DOMAIN s = 1..Len(s) /\ Len(s) \in Nat
  BY <1>1, LenProperties
<1> QED
  BY <1>1, <1>3, <1>4, SameImage DEF s

LEMMA Leaves ==
  ASSUME IInv, OInv, RInv, stack # << >>, Depth = 1, stack' = << >>,
         UNCHANGED <<img, stage, idx>>,
         \A addr \in DOMAIN cache : addr \in DOMAIN cache',
         \A addr \in DOMAIN cache' :
           addr \in DOMAIN cache \/ Has(img, "protocol", addr),
         stage = "protocols" /\ Has(img, "protocol", Top.at)
           => Top.at \in DOMAIN cache'
  PROVE  RInv'
<1>1. EntryProgress' /\ StackProgress(img', stack', protocols')
  BY EmptySeq DEF EntryProgress, StackProgress, Below
<1>2. IsImage(img) /\ idx \in Nat \ {0} /\ Listed' = Listed
  BY DEF IInv, TypeOK, TablesOK, Listed
<1>3. /\ DOMAIN Listed = 1..Len(ObjCSection(img.protolist))
      /\ Len(ObjCSection(img.protolist)) \in Nat
      /\ \A k \in DOMAIN Listed : Listed[k] = Decode(img, ObjCSection(img.protolist)[k])
  BY <1>2, ListedIs
<1>4. /\ \A addr \in DOMAIN cache : Has(img, "protocol", addr)
      /\ \A k \in DOMAIN Listed :
           (stage = "protocols" => k < idx - 1 \/ (k < idx /\ stack = << >>))
             /\ Has(img, "protocol", Listed[k])
           => Listed[k] \in DOMAIN cache
  BY DEF RInv, CacheProgress
<1>5. stage = "protocols" /\ idx - 1 \in DOMAIN Listed => Listed[idx - 1] = Top.at
  <2>1. Top = stack[1]
    BY DEF Top
  <2>2. stack[1].at = Decode(img, Section[idx - 1])
    BY DEF RInv, EntryProgress
  <2> QED
    BY <1>3, <2>1, <2>2 DEF Section
<1>6. ASSUME NEW k \in DOMAIN Listed, stage = "protocols" => k < idx,
             Has(img, "protocol", Listed[k])
      PROVE  Listed[k] \in DOMAIN cache'
  <2>1. k \in Nat
    BY <1>3
  <2>2. CASE stage = "protocols" => k < idx - 1
    BY <1>4, <1>6, <2>2
  <2>3. CASE stage = "protocols" /\ k = idx - 1
    BY <1>5, <1>6, <2>3
  <2> QED
    BY <1>2, <1>6, <2>1, <2>2, <2>3
<1>7. \A k \in DOMAIN Listed' :
        (stage' = "protocols" => k < idx' - 1 \/ (k < idx' /\ stack' = << >>))
          /\ Has(img', "protocol", Listed'[k])
        => Listed'[k] \in DOMAIN cache'
  <2> SUFFICES ASSUME NEW k \in DOMAIN Listed,
                      stage = "protocols" => k < idx - 1 \/ k < idx,
                      Has(img, "protocol", Listed[k])
               PROVE  Listed[k] \in DOMAIN cache'
    BY <1>2
  <2>1. k \in Nat
    BY <1>3
  <2> QED
    BY <1>2, <1>6, <2>1
<1>8. \A addr \in DOMAIN cache' : Has(img', "protocol", addr)
  BY <1>4
<1>9. CacheProgress'
  BY <1>7, <1>8 DEF CacheProgress
<1> QED
  BY <1>1, <1>9 DEF RInv

LEMMA ClassFailedProgress ==
  ASSUME IInv, OInv, RInv, ClassFailed
  PROVE  RInv'
<1>1. /\ stack # << >> /\ Top.fn = "Class" /\ Top.ph = "create"
      /\ ~ ClassReadable(img, pos)
      /\ UNCHANGED <<img, stage, idx, cache, protocols>>
  BY DEF ClassFailed, Running, metadata
<1>2. pos = Top.at
  BY <1>1, CreateAt
<1>3. CASE Depth = 1
  <2>1. stack' = << >>
    BY <1>3 DEF ClassFailed
  <2>2. stage # "protocols"
    BY <1>1, <1>3 DEF RInv, EntryProgress, Top
  <2> QED
    BY <1>1, <1>3, <2>1, <2>2, Leaves
<1>4. CASE Depth # 1
  <2> DEFINE g == Go(Caller, After["super_class"])
  <2>1. stack' = SetTop(Pop(stack), g)
    BY <1>4 DEF ClassFailed
  <2>2. /\ Caller \in Frames /\ Caller.fn = "Class" /\ Caller.ph = "super_class"
        /\ ~ Caller.open /\ ReadsIsa(img, Caller) /\ IsImage(img)
        /\ Progress(img, Caller, protocols, TRUE)
        /\ ~ Promise!HasSuper(img, Caller.at)
    BY <1>1, <1>2, <1>4, ClassCaller, TopFacts
  <2>3. Progress(img, g, protocols, FALSE) /\ g.fn = Caller.fn /\ g.at = Caller.at
    BY <2>2, NoneInherited
  <2> HIDE DEF g
  <2> QED
    BY <1>1, <1>4, <2>1, <2>3, Returns
<1> QED
  BY <1>3, <1>4

LEMMA StoreClassProgress ==
  ASSUME IInv, OInv, RInv, StoreClass
  PROVE  RInv'
<1>1. /\ stack # << >> /\ Top.fn = "Class" /\ Depth = 1 /\ stack' = << >>
      /\ UNCHANGED <<img, stage, idx, cache>>
  BY DEF StoreClass, Running
<1>2. stage # "protocols"
  BY <1>1 DEF RInv, EntryProgress, Top
<1> QED
  BY <1>1, <1>2, Leaves

\* The class that called create() for a protocol.
LEMMA AdoptingCaller ==
  ASSUME IInv, OInv, RInv, stack # << >>, Depth # 1, Top.fn = "Protocol"
  PROVE  /\ Caller \in Frames /\ Caller.fn = "Class" /\ Caller.ph = "base_protocols"
         /\ Caller.open /\ ReadsIsa(img, Caller) /\ Caller.obj \in Objects
         /\ Owns(Caller.obj, Len(protocols)) /\ Caller.i \in Nat \ {0}
         /\ Progress(img, Caller, protocols, TRUE)
         /\ LoopProgress(img, Caller)
         /\ Len(SourceOf(img, Caller, "base_protocols")) \in Nat
         /\ Caller.i <= Len(SourceOf(img, Caller, "base_protocols"))
         /\ Top.at = SourceOf(img, Caller, "base_protocols")[Caller.i]
<1> DEFINE s == SourceOf(img, Caller, "base_protocols")
<1>1. /\ Caller \in Frames /\ FrameReads(img, Caller) /\ MayCall(Caller, Top)
  BY CallerFacts
<1>2. Caller.fn = "Class" /\ Caller.ph = "base_protocols" /\ Caller.open
  BY <1>1 DEF MayCall
<1>3. ReadsIsa(img, Caller) /\ Owns(Caller.obj, Len(protocols))
  BY <1>1, CallerHolds DEF FrameHolds
<1>4. Progress(img, Caller, protocols, TRUE) /\ CallsRef(img, Caller, Top)
  BY TopProgress, PopBelow DEF Caller, Depth, Top
<1>5. LoopProgress(img, Caller)
  BY <1>2, <1>4 DEF Progress
<1>6. /\ Caller.i \in Nat \ {0} /\ Top.at = s[Caller.i]
      /\ Caller.i <= Len(s) /\ Caller.obj \in Objects
  BY <1>1, <1>2, <1>4, <1>5 DEF CallsRef, LoopProgress, Frames
<1>7. Len(s) \in Nat
  <2>1. "base_protocols" \in FieldsOf(Caller) /\ IsImage(img) /\ Caller.ph # "create"
    BY <1>2, TopFacts DEF FieldsOf, ClassFields
  <2> QED
    BY <1>1, <1>3, <1>4, <2>1, ExtentType
<1> QED
  BY <1>1, <1>2, <1>3, <1>4, <1>5, <1>6, <1>7, Zenon

\* The call that reads the next pointer of its list has returned.
LEMMA CallerTaken ==
  ASSUME IInv, OInv, RInv, stack # << >>, Depth # 1, Top.fn = "Protocol"
  PROVE  LET now == Upto(img, Caller, "base_protocols", Caller.i)
             before == At(protocols, Caller.obj.protocols)
         IN  now = IF Has(img, "protocol", Top.at) THEN Append(before, Top.at)
                   ELSE before
<1>1. /\ Caller \in Frames /\ Caller.fn = "Class" /\ Caller.ph = "base_protocols"
      /\ Caller.open /\ ReadsIsa(img, Caller) /\ Caller.i \in Nat \ {0}
      /\ Progress(img, Caller, protocols, TRUE)
      /\ Len(SourceOf(img, Caller, "base_protocols")) \in Nat
      /\ Caller.i <= Len(SourceOf(img, Caller, "base_protocols"))
      /\ Top.at = SourceOf(img, Caller, "base_protocols")[Caller.i]
  BY AdoptingCaller
<1>2. IsImage(img)
  BY TopFacts
<1>3. At(protocols, Caller.obj.protocols)
        = Upto(img, Caller, "base_protocols", Caller.i - 1)
  BY <1>1 DEF Progress, ClassProgress, Adopted
<1>4. /\ Caller.i - 1 \in Nat /\ (Caller.i - 1) + 1 = Caller.i
      /\ Caller.i - 1 < Len(SourceOf(img, Caller, "base_protocols"))
      /\ Caller.ph # "create"
  BY <1>1
<1>5. Upto(img, Caller, "base_protocols", (Caller.i - 1) + 1) =
        IF Has(img, "protocol", SourceOf(img, Caller, "base_protocols")[(Caller.i - 1) + 1])
        THEN Append(Upto(img, Caller, "base_protocols", Caller.i - 1),
                    SourceOf(img, Caller, "base_protocols")[(Caller.i - 1) + 1])
        ELSE Upto(img, Caller, "base_protocols", Caller.i - 1)
  BY <1>1, <1>2, <1>4, RefTaken
<1> QED
  BY <1>1, <1>3, <1>4, <1>5

LEMMA ProtocolFailedProgress ==
  ASSUME IInv, OInv, RInv, ProtocolFailed
  PROVE  RInv'
<1>1. /\ stack # << >> /\ Top.fn = "Protocol" /\ Top.ph = "create"
      /\ ~ Has(img, "protocol", pos) /\ stack' = Pop(stack)
      /\ UNCHANGED <<img, stage, idx, cache, protocols>>
  BY DEF ProtocolFailed, Running, metadata
<1>2. pos = Top.at
  BY <1>1, CreateAt
<1>3. CASE Depth = 1
  <2>1. stack' = << >>
    BY <1>1, <1>3, PopFrames DEF IInv, TypeOK, Depth
  <2> QED
    BY <1>1, <1>2, <1>3, <2>1, Leaves
<1>4. CASE Depth # 1
  <2>1. /\ Caller \in Frames /\ Caller.fn = "Class" /\ Caller.ph = "base_protocols"
        /\ Caller.open /\ Progress(img, Caller, protocols, TRUE)
        /\ LoopProgress(img, Caller)
    BY <1>1, <1>4, AdoptingCaller
  <2>2. At(protocols, Caller.obj.protocols) = Upto(img, Caller, "base_protocols", Caller.i)
    BY <1>1, <1>2, <1>4, CallerTaken
  <2>3. Adopted(img, Caller, FALSE) = Caller.i
    BY <2>1 DEF Adopted, Extent
  <2>4. Progress(img, Caller, protocols, FALSE)
    BY <2>1, <2>2, <2>3, RefsProgress
  <2>5. stack' = SetTop(Pop(stack), Caller)
    BY <1>1, <1>4, ProtocolCaller
  <2> QED
    BY <1>1, <1>4, <2>4, <2>5, Returns
<1> QED
  BY <1>3, <1>4

LEMMA StoreListedProgress ==
  ASSUME IInv, OInv, RInv, StoreListedProtocol
  PROVE  RInv'
<1>1. /\ stack # << >> /\ Top.fn = "Protocol" /\ Top.ph = "return" /\ Depth = 1
      /\ stack' = << >> /\ cache' = Put(cache, Top.at, Len(protocols) + 1)
      /\ UNCHANGED <<img, stage, idx>>
  BY DEF StoreListedProtocol, StoreProtocol, Running
<1>2. Has(img, "protocol", Top.at)
  <2>1. /\ Top \in Frames /\ IsImage(img) /\ Top.obj.at = Top.at
        /\ Progress(img, Top, protocols, FALSE)
    BY <1>1, TopProgress
  <2> QED
    BY <1>1, <2>1, ProtocolRead
<1>3. DOMAIN cache' = DOMAIN cache \cup {Top.at}
  BY <1>1 DEF Put
<1> QED
  BY <1>1, <1>2, <1>3, Leaves

LEMMA StoreAdoptedProgress ==
  ASSUME IInv, OInv, RInv, StoreAdoptedProtocol
  PROVE  RInv'
<1> DEFINE r == Len(protocols) + 1
           g == Adopt(Caller, r)
           more == Append(protocols, Top.obj)
<1>1. /\ stack # << >> /\ Top.fn = "Protocol" /\ Top.ph = "return" /\ Depth # 1
      /\ stack' = SetTop(Pop(stack), g) /\ protocols' = more
      /\ UNCHANGED <<img, stage, idx, cache>>
  BY DEF StoreAdoptedProtocol, StoreProtocol, Running
<1>2. /\ Top \in Frames /\ IsImage(img) /\ Top.obj.at = Top.at /\ Top.obj \in Objects
      /\ Progress(img, Top, protocols, FALSE) /\ protocols \in Seq(Objects)
  BY <1>1, TopProgress
<1>3. Has(img, "protocol", Top.at)
  BY <1>1, <1>2, ProtocolRead
<1>4. /\ Caller \in Frames /\ Caller.fn = "Class" /\ Caller.ph = "base_protocols"
      /\ Caller.open /\ Caller.obj \in Objects
      /\ Owns(Caller.obj, Len(protocols))
      /\ Progress(img, Caller, protocols, TRUE) /\ LoopProgress(img, Caller)
  BY <1>1, AdoptingCaller
<1>5. /\ more \in Seq(Objects) /\ Len(more) = r /\ Len(protocols) \in Nat
      /\ more[r] = Top.obj /\ r \in DOMAIN more
  <2>1. more \in Seq(Objects) /\ Len(more) = r /\ Len(protocols) \in Nat
        /\ more[r] = Top.obj
    BY <1>2, AppendProperties, LenProperties
  <2>2. DOMAIN more = 1..Len(more)
    BY <2>1, LenProperties
  <2> QED
    BY <2>1, <2>2
<1>6. Progress(img, Caller, more, TRUE)
  BY <1>2, <1>4, MoreProgress
<1>7. At(more, Caller.obj.protocols) = At(protocols, Caller.obj.protocols)
  BY <1>2, <1>4, AtMore
<1> HIDE DEF more, r
<1>8. Owns(Caller.obj, Len(more))
  BY <1>4, <1>5, MoreOwned DEF r
<1>9. At(more, Append(Caller.obj.protocols, r))
        = Append(At(protocols, Caller.obj.protocols), Top.at)
  <2>1. At(more, Append(Caller.obj.protocols, r))
          = Append(At(more, Caller.obj.protocols), more[r].at)
    BY <1>4, <1>5, <1>8, AtAppend
  <2> QED
    BY <1>2, <1>5, <1>7, <2>1
<1>10. Upto(img, Caller, "base_protocols", Caller.i)
         = Append(At(protocols, Caller.obj.protocols), Top.at)
  BY <1>1, <1>3, CallerTaken
<1>11. /\ g.fn = Caller.fn /\ g.at = Caller.at /\ g.raw = Caller.raw
       /\ g.ph = Caller.ph /\ g.open = Caller.open /\ g.i = Caller.i
       /\ g.n = Caller.n /\ g.list = Caller.list
       /\ g.obj.name = Caller.obj.name /\ g.obj.is_meta = Caller.obj.is_meta
       /\ g.obj.methods = Caller.obj.methods
       /\ g.obj.opt_methods = Caller.obj.opt_methods
       /\ g.obj.ivars = Caller.obj.ivars /\ g.obj.properties = Caller.obj.properties
       /\ g.obj.protocols = Append(Caller.obj.protocols, r)
  BY <1>4 DEF Adopt, Frames, Objects
<1> HIDE DEF g
<1>12. Adopted(img, g, FALSE) = Caller.i
  BY <1>4, <1>11 DEF Adopted, Extent
<1>13. LoopProgress(img, g)
  BY <1>4, <1>11 DEF LoopProgress, SourceOf, Ptr
<1>14. At(more, g.obj.protocols) =
         Upto(img, Caller, "base_protocols", Adopted(img, g, FALSE))
  BY <1>9, <1>10, <1>11, <1>12
<1>15. Progress(img, g, more, FALSE)
  BY <1>4, <1>6, <1>11, <1>13, <1>14, RefsProgress
<1>16. \E o \in Objects : protocols' = Append(protocols, o)
  BY <1>1, <1>2 DEF more
<1> QED
  BY <1>1, <1>11, <1>15, <1>16, Returns

LEMMA ProcessEntryProgress ==
  ASSUME IInv, OInv, RInv, ProcessEntry
  PROVE  RInv'
<1> DEFINE fn == IF stage = "protocols" THEN "Protocol" ELSE "Class"
           call == Call(fn, Decode(img, Section[idx]), pos)
<1>1. /\ stage # "done" /\ stack = << >> /\ idx <= Len(Section)
      /\ stack' = << call >> /\ idx' = idx + 1
      /\ UNCHANGED <<img, stage, cache, protocols>>
  BY DEF ProcessEntry, metadata
<1>2. IsImage(img) /\ idx \in Nat \ {0}
  BY DEF IInv, TypeOK, TablesOK
<1>3. Section \in Seq(Nat) /\ Section' = Section /\ Listed' = Listed
  BY <1>1, <1>2, SectionType DEF Section, IsImage, Listed
<1>4. idx \in DOMAIN Section
  BY <1>1, <1>2, <1>3, LenProperties
<1>5. call.fn = fn /\ call.at = Decode(img, Section[idx]) /\ call.ph = "create"
  BY DEF Call
<1> HIDE DEF call
<1>6. /\ stack' # << >> /\ stack'[1] = call /\ Len(stack') = 1 /\ DOMAIN stack' = {1}
  BY <1>1
<1>7. EntryProgress'
  BY <1>1, <1>2, <1>3, <1>4, <1>5, <1>6 DEF EntryProgress
<1>8. CacheProgress'
  <2>1. ASSUME NEW k \in DOMAIN Listed, stage = "protocols" => k < idx,
               Has(img, "protocol", Listed[k])
        PROVE  Listed[k] \in DOMAIN cache
    BY <1>1, <2>1 DEF RInv, CacheProgress
  <2>2. \A addr \in DOMAIN cache : Has(img, "protocol", addr)
    BY DEF RInv, CacheProgress
  <2>3. ASSUME NEW k \in DOMAIN Listed,
               stage = "protocols" => k < idx' - 1 \/ (k < idx' /\ stack' = << >>),
               Has(img, "protocol", Listed[k])
        PROVE  Listed[k] \in DOMAIN cache
    BY <1>1, <1>2, <1>6, <2>1, <2>3
  <2>4. \A k \in DOMAIN stack' : ~ k > 1
    BY <1>6
  <2> QED
    BY <1>1, <1>3, <2>2, <2>3, <2>4 DEF CacheProgress
<1>9. StackProgress(img', stack', protocols')
  <2>1. Below(img', stack', protocols')
    BY <1>6 DEF Below
  <2>2. stack'[Len(stack')] = call
    BY <1>6
  <2>3. Progress(img', stack'[Len(stack')], protocols', FALSE)
    BY <1>5, <2>2 DEF Progress
  <2> QED
    BY <2>1, <2>3 DEF StackProgress
<1> QED
  BY <1>7, <1>8, <1>9 DEF RInv

LEMMA SectionDoneProgress ==
  ASSUME IInv, OInv, RInv, SectionDone
  PROVE  RInv'
<1>1. /\ stage # "done" /\ stack = << >> /\ idx > Len(Section)
      /\ stage' = (IF stage = "protocols" THEN "classes" ELSE "done") /\ idx' = 1
      /\ stack' = << >> /\ UNCHANGED <<img, cache, protocols>>
  BY DEF SectionDone, metadata
<1>2. IsImage(img) /\ idx \in Nat \ {0} /\ Listed' = Listed
  BY <1>1 DEF IInv, TypeOK, TablesOK, Listed
<1>3. EntryProgress' /\ StackProgress(img', stack', protocols')
  BY <1>1, EmptySeq DEF EntryProgress, StackProgress, Below
<1>4. ASSUME NEW k \in DOMAIN Listed, Has(img, "protocol", Listed[k])
      PROVE  Listed[k] \in DOMAIN cache
  <2>1. stage = "protocols" => k < idx
    BY <1>1, <1>2, ListedIs DEF Section
  <2> QED
    BY <1>1, <1>4, <2>1 DEF RInv, CacheProgress
<1>5. CacheProgress'
  <2>1. \A addr \in DOMAIN cache : Has(img, "protocol", addr)
    BY DEF RInv, CacheProgress
  <2> QED
    BY <1>1, <1>2, <1>4, <2>1 DEF CacheProgress
<1> QED
  BY <1>3, <1>5 DEF RInv

LEMMA InitProgress == Init => RInv
<1> SUFFICES ASSUME Init PROVE RInv
  OBVIOUS
<1>1. /\ stack = << >> /\ cache = << >> /\ idx = 1 /\ stage = "protocols"
      /\ IsImage(img)
  BY ImagesAssumption DEF Init
<1>2. EntryProgress /\ StackProgress(img, stack, protocols)
  BY <1>1, EmptySeq DEF EntryProgress, StackProgress, Below
<1>3. \A k \in DOMAIN Listed : ~ k < 1
  BY <1>1, ListedIs
<1>4. CacheProgress
  BY <1>1, <1>3 DEF CacheProgress
<1> QED
  BY <1>2, <1>4 DEF RInv

LEMMA NextProgress ==
  ASSUME IInv, OInv, RInv, [Next]_vars
  PROVE  RInv'
<1>1. CASE UNCHANGED vars
  BY <1>1 DEF vars, metadata, RInv, EntryProgress, CacheProgress, Section, Listed
<1>2. CASE Next
  BY <1>2, ProcessEntryProgress, SectionDoneProgress, CreateClassProgress,
     ClassFailedProgress, ParseSuperProgress, NoSuperProgress, ReturnSuperProgress,
     StoreClassProgress, CreateProtocolProgress, ProtocolFailedProgress,
     StoreListedProgress, StoreAdoptedProgress, OpenListProgress, NoListProgress,
     CloseListProgress, ReadElementProgress, SkipElementProgress,
     KnownProtocolProgress, NewProtocolRefProgress, BreakRefsProgress DEF Next
<1> QED
  BY <1>1, <1>2

-----------------------------------------------------------------------------
(***************************************************************************)
(* The entries that are left, and what is reported.                        *)
(***************************************************************************)
\* The entries of section s from the first-th on.
From(im, s, first) ==
  [k \in 1..(Len(s) + 1 - first) |-> Decode(im, s[first + k - 1])]

\* The first entry that is not done with: the one that is being read, if any.
Now == IF stack = << >> THEN idx ELSE idx - 1

LEMMA FromIs ==
  ASSUME NEW im, NEW s \in Seq(Nat), NEW first \in Nat
  PROVE  /\ first > Len(s) => From(im, s, first) = << >>
         /\ first \in DOMAIN s =>
              /\ From(im, s, first) # << >>
              /\ Head(From(im, s, first)) = Decode(im, s[first])
              /\ Tail(From(im, s, first)) = From(im, s, first + 1)
<1>1. Len(s) \in Nat /\ DOMAIN s = 1..Len(s)
  BY LenProperties
<1>2. CASE first > Len(s)
  <2>1. 1..(Len(s) + 1 - first) = {}
    BY <1>1, <1>2
  <2>2. From(im, s, first) = [k \in {} |-> Decode(im, s[first + k - 1])]
    BY <2>1 DEF From
  <2>3. From(im, s, first) = << >>
    BY <2>2
  <2>4. first \notin DOMAIN s
    BY <1>1, <1>2
  <2> QED
    BY <2>3, <2>4
<1>3. CASE first <= Len(s) /\ first > 0
  <2> DEFINE n == Len(s) + 1 - first
             e(k) == Decode(im, s[first + k - 1])
             f == [k \in 1..n |-> e(k)]
  <2>1. n \in Nat \ {0} /\ n - 1 = Len(s) + 1 - (first + 1)
    BY <1>1, <1>3
  <2>2. From(im, s, first) = f
    BY DEF From
  <2>3. ASSUME NEW k \in 1..(n - 1)
        PROVE  e(k + 1) = Decode(im, s[(first + 1) + k - 1]) /\ k + 1 \in 1..n
    <3>1. first + (k + 1) - 1 = (first + 1) + k - 1
      BY <2>1
    <3> QED
      BY <2>1, <3>1
  <2>4. e(1) = Decode(im, s[first])
    <3>1. first + 1 - 1 = first
      OBVIOUS
    <3> QED
      BY <3>1
  <2>5. From(im, s, first + 1) = [k \in 1..(n - 1) |-> e(k + 1)]
    BY <2>1, <2>3 DEF From
  <2> HIDE DEF n, e
  <2>6. f \in Seq({e(k) : k \in 1..n}) /\ Len(f) = n /\ f # << >>
    BY <2>1
  <2>7. Head(f) = e(1)
    BY <2>1, <2>6
  <2>8. Tail(f) = [k \in 1..(n - 1) |-> e(k + 1)]
    <3> DEFINE S == {e(k) : k \in 1..n}
               t == Tail(f)
    <3>1. f \in Seq(S)
      BY <2>6
    <3> HIDE DEF S
    <3>2. t \in Seq(S) /\ Len(t) = n - 1 /\ \A k \in 1..Len(t) : t[k] = f[k + 1]
      BY <2>6, <3>1, HeadTailProperties
    <3> HIDE DEF t
    <3>3. t = [k \in 1..(n - 1) |-> t[k]]
      BY <3>2, LenProperties
    <3>4. ASSUME NEW k \in 1..(n - 1) PROVE t[k] = e(k + 1)
      <4>1. k + 1 \in 1..n
        BY <2>1
      <4>2. f[k + 1] = e(k + 1)
        BY <4>1, Zenon
      <4> QED
        BY <3>2, <4>2
    <3> QED
      BY <3>3, <3>4 DEF t
  <2> HIDE DEF f
  <2>9. ~ (first > Len(s))
    BY <1>1, <1>3
  <2> QED
    BY <2>2, <2>4, <2>5, <2>6, <2>7, <2>8, <2>9
<1> QED
  BY <1>1, <1>2, <1>3

LEMMA LeftIs ==
  ASSUME IInv
  PROVE  LET p == ObjCSection(img.protolist)
             c == ObjCSection(img.classlist)
         IN  /\ p \in Seq(Nat) /\ c \in Seq(Nat) /\ idx \in Nat \ {0} /\ Now \in Nat
             /\ ListedLeft = IF stage = "protocols" THEN From(img, p, Now) ELSE << >>
             /\ stage = "protocols" => TodoLeft = From(img, c, 1)
             /\ stage = "classes" => TodoLeft = From(img, c, Now)
             /\ stage = "done" => TodoLeft = << >>
<1> DEFINE p == ObjCSection(img.protolist)
           c == ObjCSection(img.classlist)
<1>1. p \in Seq(Nat) /\ c \in Seq(Nat) /\ idx \in Nat \ {0} /\ Now \in Nat
  BY SectionType DEF IInv, TypeOK, TablesOK, IsImage, Now
<1>2. stage = "protocols" => Pending(img.protolist, TRUE) = From(img, p, Now)
  BY DEF Pending, From, Now
<1>3. stage = "protocols" => TodoLeft = From(img, c, 1)
  BY DEF TodoLeft, Pending, From
<1>4. stage = "classes" => TodoLeft = From(img, c, Now)
  BY DEF TodoLeft, Pending, From, Now
<1>5. stage = "done" => TodoLeft = From(img, c, Len(c) + 1)
  BY DEF TodoLeft, Pending, From
<1>6. Len(c) \in Nat /\ Len(c) + 1 > Len(c) /\ Len(c) + 1 \in Nat
  BY <1>1, LenProperties
<1> HIDE DEF c
<1>7. From(img, c, Len(c) + 1) = << >>
  BY <1>1, <1>6, FromIs
<1> QED
  BY <1>1, <1>2, <1>3, <1>4, <1>5, <1>7 DEF ListedLeft, c

-----------------------------------------------------------------------------
(***************************************************************************)
(* Steps that report nothing.                                              *)
(***************************************************************************)
LEMMA Unreported ==
  ASSUME IInv, stack # << >>, stack' # << >>,
         UNCHANGED <<img, stage, idx, protocols, classes>>
  PROVE  UNCHANGED Promise!vars
<1>1. UNCHANGED <<ListedLeft, TodoLeft>>
  BY DEF ListedLeft, TodoLeft, Pending
<1>2. \A c : ByLocation(c)' = ByLocation(c)
  BY DEF ByLocation
<1>3. [k \in DOMAIN classes |-> ByLocation(classes[k])]'
        = [k \in DOMAIN classes |-> ByLocation(classes[k])]
  BY <1>2
<1> QED
  BY <1>1, <1>3 DEF Promise!vars

LEMMA SomeCall ==
  ASSUME NEW s \in Seq(Frames), s # << >>, NEW f
  PROVE  SetTop(s, f) # << >> /\ Append(s, f) # << >>
<1>1. Len(s) \in Nat \ {0} /\ DOMAIN SetTop(s, f) = 1..Len(s)
  BY EmptySeq, LenProperties DEF SetTop
<1>2. SetTop(s, f) # << >>
  BY <1>1, EmptySeq
<1>3. Append(s, f) # << >>
  <2>1. Len(s) + 1 \in DOMAIN Append(s, f)
    BY <1>1
  <2> QED
    BY <2>1, EmptySeq
<1> QED
  BY <1>2, <1>3

LEMMA QuietGoesOn ==
  ASSUME IInv, \/ CreateClass \/ NoSuper \/ CreateProtocol
               \/ OpenList \/ NoList \/ CloseList \/ ReadElement \/ SkipElement
               \/ KnownProtocol \/ BreakRefs \/ ParseSuper \/ NewProtocolRef
  PROVE  UNCHANGED Promise!vars
<1>1. stack # << >> /\ UNCHANGED <<img, stage, idx, protocols, classes>>
  BY DEF CreateClass, NoSuper, CreateProtocol, OpenList, NoList, CloseList,
         ReadElement, SkipElement, KnownProtocol, BreakRefs, ParseSuper,
         NewProtocolRef, Running, BeforeList, InElements, InRefs, InLoop, metadata
<1>2. stack \in Seq(Frames)
  BY DEF IInv, TypeOK, FramesOK
<1>3. (\E f : stack' = SetTop(stack, f)) \/ (\E f : stack' = Append(stack, f))
        \/ (\E f, g : stack' = Append(SetTop(stack, f), g))
  BY DEF CreateClass, NoSuper, CreateProtocol, OpenList, NoList, CloseList,
         ReadElement, SkipElement, KnownProtocol, BreakRefs, ParseSuper,
         NewProtocolRef
<1> QED
  BY <1>1, <1>2, <1>3, SomeCall, Unreported

LEMMA QuietReturn ==
  ASSUME IInv, ReturnSuper \/ (Depth # 1 /\ (ClassFailed \/ ProtocolFailed))
  PROVE  UNCHANGED Promise!vars
<1>1. /\ stack # << >> /\ Depth # 1
      /\ UNCHANGED <<img, stage, idx, protocols, classes>>
  BY DEF ReturnSuper, ClassFailed, ProtocolFailed, Running, metadata
<1>2. Pop(stack) \in Seq(Frames) /\ Pop(stack) # << >>
  BY <1>1, CallerFacts DEF FramesOK
<1>3. stack' = Pop(stack) \/ \E f : stack' = SetTop(Pop(stack), f)
  BY <1>1 DEF ReturnSuper, ClassFailed, ProtocolFailed
<1> QED
  BY <1>1, <1>2, <1>3, SomeCall, Unreported

LEMMA QuietEntry ==
  ASSUME IInv, ProcessEntry
  PROVE  UNCHANGED Promise!vars
<1>1. /\ stack = << >> /\ idx' = idx + 1 /\ UNCHANGED <<img, stage, protocols, classes>>
  BY DEF ProcessEntry, metadata
<1>2. stack' # << >>
  BY DEF ProcessEntry
<1>3. idx \in Nat \ {0}
  BY DEF IInv, TypeOK, TablesOK
<1>4. Now' = Now
  BY <1>1, <1>2, <1>3 DEF Now
<1>5. UNCHANGED <<ListedLeft, TodoLeft>>
  <2>1. \A sections, current : Pending(sections, current)' = Pending(sections, current)
    BY <1>1, <1>4 DEF Pending, Now
  <2> QED
    BY <1>1, <2>1 DEF ListedLeft, TodoLeft
<1>6. \A c : ByLocation(c)' = ByLocation(c)
  BY <1>1 DEF ByLocation
<1>7. [k \in DOMAIN classes |-> ByLocation(classes[k])]'
        = [k \in DOMAIN classes |-> ByLocation(classes[k])]
  BY <1>1, <1>6
<1> QED
  BY <1>1, <1>5, <1>7 DEF Promise!vars

LEMMA QuietSection ==
  ASSUME IInv, SectionDone
  PROVE  UNCHANGED Promise!vars
<1> DEFINE p == ObjCSection(img.protolist)
           c == ObjCSection(img.classlist)
<1>1. /\ stage # "done" /\ stack = << >> /\ idx > Len(Section)
      /\ stage' = (IF stage = "protocols" THEN "classes" ELSE "done") /\ idx' = 1
      /\ stack' = << >> /\ UNCHANGED <<img, protocols, classes>>
  BY DEF SectionDone, metadata
<1>2. stage \in {"protocols", "classes"}
  BY <1>1 DEF IInv, TypeOK, TablesOK
<1>3. Now = idx
  BY <1>1 DEF Now
<1>4. /\ p \in Seq(Nat) /\ c \in Seq(Nat) /\ Now \in Nat
      /\ ListedLeft = IF stage = "protocols" THEN From(img, p, Now) ELSE << >>
      /\ stage = "protocols" => TodoLeft = From(img, c, 1)
      /\ stage = "classes" => TodoLeft = From(img, c, Now)
  BY LeftIs
<1>5. /\ ListedLeft' = << >>
      /\ stage = "protocols" => TodoLeft' = From(img, c, 1)
      /\ stage = "classes" => TodoLeft' = From(img, c, Len(c) + 1)
  <2>1. ListedLeft' = << >>
    BY <1>1 DEF ListedLeft
  <2>2. stage = "protocols" => TodoLeft' = From(img, c, 1)
    BY <1>1 DEF TodoLeft, Pending, From
  <2>3. stage = "classes" => TodoLeft' = From(img, c, Len(c) + 1)
    BY <1>1 DEF TodoLeft, Pending, From
  <2> QED
    BY <2>1, <2>2, <2>3
<1>6. Section = (IF stage = "protocols" THEN p ELSE c)
  BY <1>2 DEF Section
<1> HIDE DEF p, c
<1>7. From(img, Section, Now) = << >>
  BY <1>1, <1>3, <1>4, <1>6, FromIs
<1>8. From(img, c, Len(c) + 1) = << >>
  <2>1. c \in Seq(Nat) /\ Len(c) + 1 \in Nat /\ Len(c) + 1 > Len(c)
    BY <1>4, LenProperties
  <2> QED
    BY <2>1, FromIs
<1>9. UNCHANGED <<ListedLeft, TodoLeft>>
  <2>1. CASE stage = "protocols"
    BY <1>4, <1>5, <1>6, <1>7, <2>1
  <2>2. CASE stage = "classes"
    BY <1>4, <1>5, <1>6, <1>7, <1>8, <2>2
  <2> QED
    BY <1>2, <2>1, <2>2
<1>10. \A x : ByLocation(x)' = ByLocation(x)
  BY <1>1 DEF ByLocation
<1>11. [k \in DOMAIN classes |-> ByLocation(classes[k])]'
         = [k \in DOMAIN classes |-> ByLocation(classes[k])]
  BY <1>1, <1>10
<1> QED
  BY <1>1, <1>9, <1>11 DEF Promise!vars

-----------------------------------------------------------------------------
(***************************************************************************)
(* Steps that are done with an entry.                                      *)
(***************************************************************************)
LEMMA EntryRead ==
  ASSUME IInv, RInv, stack # << >>
  PROVE  /\ stage \in {"protocols", "classes"}
         /\ stack[1].fn = "Protocol" <=> stage = "protocols"
         /\ stage = "protocols" =>
              ListedLeft # << >> /\ Head(ListedLeft) = stack[1].at
         /\ stage = "classes" =>
              ListedLeft = << >> /\ TodoLeft # << >> /\ Head(TodoLeft) = stack[1].at
<1> DEFINE p == ObjCSection(img.protolist)
           c == ObjCSection(img.classlist)
<1>1. stage \in {"protocols", "classes"}
  BY DEF RInv, EntryProgress, IInv, TypeOK, TablesOK
<1>2. /\ stack[1].fn = "Protocol" <=> stage = "protocols"
      /\ idx - 1 \in DOMAIN Section /\ stack[1].at = Decode(img, Section[idx - 1])
  BY <1>1 DEF RInv, EntryProgress
<1>3. /\ p \in Seq(Nat) /\ c \in Seq(Nat) /\ Now \in Nat /\ Now = idx - 1
      /\ ListedLeft = IF stage = "protocols" THEN From(img, p, Now) ELSE << >>
      /\ stage = "classes" => TodoLeft = From(img, c, Now)
  BY LeftIs DEF Now
<1>4. Section = (IF stage = "protocols" THEN p ELSE c) /\ Section \in Seq(Nat)
  BY <1>1, <1>3 DEF Section
<1> HIDE DEF p, c
<1>5. From(img, Section, Now) # << >> /\ Head(From(img, Section, Now)) = stack[1].at
  BY <1>2, <1>3, <1>4, FromIs
<1> QED
  BY <1>1, <1>2, <1>3, <1>4, <1>5

LEMMA EntryLeft ==
  ASSUME IInv, RInv, stack # << >>, stack' = << >>, UNCHANGED <<img, stage, idx>>
  PROVE  /\ stage = "protocols" =>
              ListedLeft' = Tail(ListedLeft) /\ TodoLeft' = TodoLeft
         /\ stage = "classes" => ListedLeft' = << >> /\ TodoLeft' = Tail(TodoLeft)
<1> DEFINE p == ObjCSection(img.protolist)
           c == ObjCSection(img.classlist)
<1>1. /\ p \in Seq(Nat) /\ c \in Seq(Nat) /\ idx \in Nat /\ idx - 1 \in Nat
      /\ stage = "protocols" => ListedLeft = From(img, p, idx - 1)
      /\ stage = "classes" => TodoLeft = From(img, c, idx - 1)
  BY LeftIs DEF Now
<1>2. /\ idx - 1 \in DOMAIN Section
      /\ stage = "protocols" => Section = p
      /\ stage = "classes" => Section = c
  BY DEF RInv, EntryProgress, Section
<1>3. stage = "protocols" => ListedLeft' = From(img, p, idx)
  BY DEF ListedLeft, Pending, From
<1>4. stage = "classes" => TodoLeft' = From(img, c, idx)
  BY DEF TodoLeft, Pending, From
<1>5. stage = "protocols" => TodoLeft' = TodoLeft
  BY DEF TodoLeft, Pending
<1>6. stage = "classes" => ListedLeft' = << >>
  BY DEF ListedLeft
<1> HIDE DEF p, c
<1>7. ASSUME NEW s \in Seq(Nat), idx - 1 \in DOMAIN s
      PROVE  Tail(From(img, s, idx - 1)) = From(img, s, idx)
  <2>1. idx - 1 \in Nat /\ (idx - 1) + 1 = idx
    BY <1>1
  <2>2. Tail(From(img, s, idx - 1)) = From(img, s, (idx - 1) + 1)
    BY <1>7, <2>1, FromIs
  <2> QED
    BY <2>1, <2>2
<1> QED
  BY <1>1, <1>2, <1>3, <1>4, <1>5, <1>6, <1>7

Reports == [k \in DOMAIN classes |-> ByLocation(classes[k])]

LEMMA SameReports ==
  ASSUME IInv, OInv, classes' = classes,
         \/ protocols' = protocols
         \/ \E o \in Objects : protocols' = Append(protocols, o)
  PROVE  Reports' = Reports
<1>1. protocols \in Seq(Objects) /\ classes \in Seq(Objects)
  BY DEF IInv, TypeOK, TablesOK
<1>2. ASSUME NEW k \in DOMAIN classes PROVE ByLocation(classes[k])' = ByLocation(classes[k])
  <2>1. Owns(classes[k], Len(protocols))
    BY <1>2 DEF OInv
  <2>2. At(protocols', classes[k].protocols) = At(protocols, classes[k].protocols)
    <3>1. CASE protocols' = protocols
      BY <3>1
    <3>2. CASE \E o \in Objects : protocols' = Append(protocols, o)
      <4>1. PICK o \in Objects : protocols' = Append(protocols, o)
        BY <3>2
      <4>2. At(Append(protocols, o), classes[k].protocols)
              = At(protocols, classes[k].protocols)
        BY <1>1, <2>1, AtMore
      <4> QED
        BY <4>1, <4>2
    <3> QED
      BY <3>1, <3>2
  <2>3. /\ ByLocation(classes[k])
             = [classes[k] EXCEPT !.protocols = At(protocols, classes[k].protocols)]
        /\ ByLocation(classes[k])'
             = [classes[k] EXCEPT !.protocols = At(protocols', classes[k].protocols)]
    BY DEF ByLocation, At
  <2> QED
    BY <2>2, <2>3
<1> QED
  BY <1>2 DEF Reports

\* A call below the caller of the running one reads the class whose isa the
\* call above it reads.
LEMMA LowerClass ==
  ASSUME IInv, OInv, stack # << >>, NEW k \in 1..(Depth - 2)
  PROVE  /\ stack[k].at \in Nat /\ ClassReadable(img, stack[k].at)
         /\ Promise!HasSuper(img, stack[k].at)
         /\ IsaOf(img, stack[k].at) = stack[k + 1].at
<1> DEFINE f == stack[k]
           g == stack[k + 1]
<1>1. stack \in Seq(Frames) /\ Depth \in Nat /\ DOMAIN stack = 1..Depth
  BY LenProperties DEF IInv, TypeOK, FramesOK, Depth
<1>2. /\ k \in 1..(Depth - 1) /\ k + 1 \in 1..(Depth - 1)
      /\ k \in DOMAIN stack /\ k + 1 \in DOMAIN stack
  BY <1>1
<1>3. MayCall(f, g) /\ g.fn = "Class"
  <2>1. MayCall(f, g) /\ MayCall(stack[k + 1], stack[(k + 1) + 1])
    BY <1>2 DEF IInv, WellNested, Nested, Depth
  <2> QED
    BY <2>1 DEF MayCall
<1>4. f \in Frames /\ g \in Frames
  BY <1>1, <1>2, ElementOfSeq DEF Depth
<1>5. ReadsIsa(img, f) /\ ReadsIsa(img, g) /\ FollowsIsa(img, f, g)
  BY <1>2 DEF OInv, StackHolds, FrameHolds
<1>6. g.ph # "create"
  <2>1. MayCall(stack[k + 1], stack[(k + 1) + 1])
    BY <1>2 DEF IInv, WellNested, Nested, Depth
  <2> QED
    BY <2>1 DEF MayCall
<1> HIDE DEF f, g
<1>7. f.fn = "Class" /\ f.ph = "super_class" /\ f.at \in Nat
  BY <1>3, <1>4 DEF MayCall, Frames
<1>8. /\ ClassReadable(img, f.at) /\ f.isa = Cell(img, f.at).isa
      /\ ClassReadable(img, g.at)
  BY <1>3, <1>5, <1>6, <1>7 DEF ReadsIsa
<1>9. f.isa # Null /\ g.at = Decode(img, f.isa) /\ g.at # f.at
  BY <1>3, <1>5, <1>7 DEF FollowsIsa
<1>10. Promise!HasSuper(img, f.at)
  BY <1>5, <1>7, <1>8, <1>9, SameSuper
<1>11. IsaOf(img, f.at) = g.at
  BY <1>8, <1>9 DEF IsaOf
<1> QED
  BY <1>7, <1>8, <1>10, <1>11 DEF f, g

\* What a class adopts is mentioned by the class the entry is for.
LEMMA AdoptedMentioned ==
  ASSUME IInv, OInv, RInv, stack # << >>, Depth # 1, Top.fn = "Protocol",
         Has(img, "protocol", Top.at)
  PROVE  /\ ClassReadable(img, stack[1].at)
         /\ Top.at \in Promise!Mentioned(img, stack[1].at)
<1> DEFINE addr == Caller.at
           ptr == Promise!Ro(img, addr).base_protocols
           s == SourceOf(img, Caller, "base_protocols")
           adopts == Promise!Adopts(img, addr)
<1>1. /\ Caller \in Frames /\ Caller.fn = "Class" /\ Caller.ph = "base_protocols"
      /\ ReadsIsa(img, Caller) /\ Caller.i \in Nat \ {0}
      /\ Progress(img, Caller, protocols, TRUE)
      /\ Len(s) \in Nat /\ Caller.i <= Len(s) /\ Top.at = s[Caller.i]
  BY AdoptingCaller
<1>2. IsImage(img) /\ addr \in Nat /\ ClassReadable(img, addr)
  BY <1>1, TopFacts DEF ReadsIsa, Frames
<1>3. s = Source(img, "base_protocols", ptr) /\ ptr \in Nat
  <2>1. "base_protocols" \in FieldsOf(Caller)
    BY <1>1 DEF FieldsOf, ClassFields
  <2>2. Ptr(img, Caller, "base_protocols") = ptr
    BY <1>1, <1>2, SameClasses DEF Progress, ClassProgress, Ptr
  <2> QED
    BY <1>2, <2>2, ReadableRo DEF SourceOf
<1> HIDE DEF s, addr
<1>4. adopts = Promise!Readable(img, "protocol", s) /\ s \in Seq(Nat)
  <2>1. ptr \in Nat /\ TRUE \in BOOLEAN
    BY <1>3
  <2> QED
    BY <1>2, <1>3, <2>1, WholeAdopts
<1>5. \E j \in DOMAIN adopts : adopts[j] = Top.at
  <2>1. Caller.i \in 1..Len(s) /\ Has(img, "protocol", s[Caller.i])
    BY <1>1
  <2> HIDE DEF adopts
  <2> QED
    BY <1>1, <1>4, <2>1, AmongFinds
<1>6. Top.at \in {adopts[k] : k \in DOMAIN adopts}
  BY <1>5
<1>7. Ends(img, addr) /\ Top.at \in Promise!Mentioned(img, addr)
  <2>1. CASE Promise!HasSuper(img, addr)
    <3>1. Ends(img, IsaOf(img, addr))
      BY <1>1, <2>1 DEF Progress, ClassProgress, SuperProgress, addr
    <3>2. /\ Ends(img, addr)
          /\ Promise!Mentioned(img, addr) =
               {adopts[k] : k \in DOMAIN adopts}
                 \cup Promise!Mentioned(img, IsaOf(img, addr))
      BY <1>2, <2>1, <3>1, SuperClass
    <3> QED
      BY <1>6, <3>2
  <2>2. CASE ~ Promise!HasSuper(img, addr)
    <3>1. /\ Ends(img, addr)
          /\ Promise!Mentioned(img, addr) = {adopts[k] : k \in DOMAIN adopts}
      BY <1>2, <2>2, LastClass
    <3> QED
      BY <1>6, <3>1
  <2> QED
    BY <2>1, <2>2
<1> DEFINE P(k) == /\ ClassReadable(img, stack[k].at) /\ Ends(img, stack[k].at)
                   /\ Top.at \in Promise!Mentioned(img, stack[k].at)
           T == {j \in 0..(Depth - 2) : P((Depth - 1) - j)}
<1>8. Depth - 2 \in Nat /\ Depth \in Nat
  BY TopFacts
<1>9. 0 \in T
  <2>1. P(Depth - 1)
    BY <1>2, <1>7 DEF Caller, addr
  <2> HIDE DEF P
  <2> QED
    BY <1>8, <2>1
<1>10. ASSUME NEW j \in T, j \in 0..((Depth - 2) - 1) PROVE j + 1 \in T
  <2> DEFINE k == (Depth - 1) - (j + 1)
  <2>1. k \in 1..(Depth - 2) /\ k + 1 = (Depth - 1) - j /\ j + 1 \in 0..(Depth - 2)
    BY <1>8, <1>10
  <2>2. P(k + 1)
    BY <1>10, <2>1
  <2> HIDE DEF k
  <2>3. /\ stack[k].at \in Nat /\ ClassReadable(img, stack[k].at)
        /\ Promise!HasSuper(img, stack[k].at)
        /\ IsaOf(img, stack[k].at) = stack[k + 1].at
    BY <2>1, LowerClass
  <2>4. /\ Ends(img, stack[k].at)
        /\ Promise!Mentioned(img, IsaOf(img, stack[k].at))
             \subseteq Promise!Mentioned(img, stack[k].at)
    <3>1. Ends(img, IsaOf(img, stack[k].at))
      BY <2>2, <2>3
    <3> QED
      BY <1>2, <2>3, <3>1, SuperClass
  <2>5. P(k)
    BY <2>2, <2>3, <2>4
  <2> HIDE DEF P
  <2> QED
    BY <2>1, <2>5 DEF k
<1>11. 0..(Depth - 2) \subseteq T
  <2> HIDE DEF T
  <2> QED
    BY <1>8, <1>9, <1>10, UpTo
<1>12. Depth - 2 \in 0..(Depth - 2) /\ (Depth - 1) - (Depth - 2) = 1
  BY <1>8
<1>13. P(1)
  <2> HIDE DEF P
  <2> QED
    BY <1>11, <1>12
<1> QED
  BY <1>13

LEMMA ListedReported ==
  ASSUME IInv, OInv, RInv, StoreListedProtocol \/ (Depth = 1 /\ ProtocolFailed)
  PROVE  Promise!ReportProtocol
<1>1. /\ stack # << >> /\ Top.fn = "Protocol" /\ Depth = 1 /\ stack[1] = Top
      /\ UNCHANGED <<img, stage, idx, classes>>
  BY DEF StoreListedProtocol, ProtocolFailed, StoreProtocol, Running, metadata, Top
<1>2. stack' = << >>
  BY <1>1, PopFrames DEF StoreListedProtocol, ProtocolFailed, IInv, TypeOK, Depth
<1>3. stage = "protocols" /\ ListedLeft # << >> /\ Head(ListedLeft) = Top.at
  BY <1>1, EntryRead
<1>4. ListedLeft' = Tail(ListedLeft) /\ TodoLeft' = TodoLeft
  BY <1>1, <1>2, <1>3, EntryLeft
<1>5. /\ Top \in Frames /\ IsImage(img) /\ Top.obj.at = Top.at /\ Top.obj \in Objects
      /\ Progress(img, Top, protocols, FALSE)
  BY <1>1, TopProgress
<1>6. /\ protocols' = IF Has(img, "protocol", Top.at)
                      THEN Append(protocols, Promise!ProtocolAt(img, Top.at))
                      ELSE protocols
      /\ protocols' = protocols \/ \E o \in Objects : protocols' = Append(protocols, o)
  <2>1. CASE StoreListedProtocol
    <3>1. Top.ph = "return" /\ protocols' = Append(protocols, Top.obj)
      BY <2>1 DEF StoreListedProtocol, StoreProtocol
    <3>2. Top.obj = Promise!ProtocolAt(img, Top.at) /\ Has(img, "protocol", Top.at)
      BY <1>1, <1>5, <3>1, ProtocolRead
    <3> QED
      BY <1>5, <3>1, <3>2
  <2>2. CASE ProtocolFailed
    <3>1. /\ Top.ph = "create" /\ ~ Has(img, "protocol", pos)
          /\ protocols' = protocols
      BY <2>2 DEF ProtocolFailed, metadata
    <3>2. pos = Top.at
      BY <1>1, <3>1, CreateAt
    <3> QED
      BY <3>1, <3>2
  <2> QED
    BY <2>1, <2>2
<1>7. Reports' = Reports
  BY <1>1, <1>6, SameReports
<1>8. Promise!Has(img, "protocol", Top.at) <=> Has(img, "protocol", Top.at)
  BY SameImage
<1> QED
  BY <1>1, <1>3, <1>4, <1>6, <1>7, <1>8 DEF Promise!ReportProtocol, Reports

LEMMA AdoptedReported ==
  ASSUME IInv, OInv, RInv, StoreAdoptedProtocol
  PROVE  Promise!ReportAdopted
<1> DEFINE addr == Top.at
<1>1. /\ stack # << >> /\ Top.fn = "Protocol" /\ Top.ph = "return" /\ Depth > 1
      /\ protocols' = Append(protocols, Top.obj)
      /\ UNCHANGED <<img, stage, idx, classes>>
  BY DEF StoreAdoptedProtocol, StoreProtocol, Running
<1>2. Depth # 1
  BY <1>1
<1>3. stack' # << >>
  <2>1. Pop(stack) \in Seq(Frames) /\ Pop(stack) # << >>
    BY <1>1, <1>2, CallerFacts DEF FramesOK
  <2>2. \E f : stack' = SetTop(Pop(stack), f)
    BY DEF StoreAdoptedProtocol
  <2> QED
    BY <2>1, <2>2, SomeCall
<1>4. ListedLeft' = ListedLeft /\ TodoLeft' = TodoLeft
  BY <1>1, <1>3 DEF ListedLeft, TodoLeft, Pending
<1>5. /\ Top \in Frames /\ IsImage(img) /\ Top.obj.at = addr /\ Top.obj \in Objects
      /\ Progress(img, Top, protocols, FALSE) /\ stack \in Seq(Frames)
  BY <1>1, TopProgress
<1>6. Top.obj = Promise!ProtocolAt(img, addr) /\ Has(img, "protocol", addr)
  BY <1>1, <1>5, ProtocolRead
<1>7. Depth \in Nat /\ DOMAIN stack = 1..Depth
  BY <1>5, LenProperties DEF Depth
<1>8. stack[1].fn = "Class"
  <2>1. 1 \in 1..(Depth - 1)
    BY <1>1, <1>7
  <2> QED
    BY <2>1 DEF IInv, WellNested, Nested, MayCall, Depth
<1>9. /\ stage = "classes" /\ ListedLeft = << >> /\ TodoLeft # << >>
      /\ Head(TodoLeft) = stack[1].at
  BY <1>1, <1>8, EntryRead
<1>10. /\ ClassReadable(img, stack[1].at)
       /\ addr \in Promise!Mentioned(img, stack[1].at)
  BY <1>1, <1>2, <1>6, AdoptedMentioned
<1>11. ASSUME NEW k \in DOMAIN Listed PROVE Listed[k] # addr
  <2>1. addr \notin DOMAIN cache
    BY <1>1, <1>7 DEF RInv, CacheProgress, Top
  <2>2. Has(img, "protocol", Listed[k]) => Listed[k] \in DOMAIN cache
    BY <1>9 DEF RInv, CacheProgress
  <2> QED
    BY <1>6, <2>1, <2>2
<1>12. Reports' = Reports
  BY <1>1, <1>5, SameReports
<1>13. Promise!ClassReadable(img, stack[1].at)
  BY <1>10, SameClasses
<1> HIDE DEF addr
<1>14. \A k \in DOMAIN Promise!Locations(img, img.protolist) :
         Promise!Locations(img, img.protolist)[k] # addr
  BY <1>11 DEF Listed
<1>15. protocols' = Append(protocols, Promise!ProtocolAt(img, addr))
  BY <1>1, <1>6
<1>16. [k \in DOMAIN classes |-> ByLocation(classes[k])]'
         = [k \in DOMAIN classes |-> ByLocation(classes[k])]
  BY <1>12 DEF Reports
<1> QED
  BY <1>1, <1>4, <1>9, <1>10, <1>13, <1>14, <1>15, <1>16 DEF Promise!ReportAdopted

LEMMA ClassReported ==
  ASSUME IInv, OInv, RInv, StoreClass \/ (Depth = 1 /\ ClassFailed)
  PROVE  Promise!ReportClass
<1>1. /\ stack # << >> /\ Top.fn = "Class" /\ Depth = 1 /\ stack[1] = Top
      /\ stack' = << >> /\ UNCHANGED <<img, stage, idx, protocols>>
  BY DEF StoreClass, ClassFailed, Running, metadata, Top
<1>2. /\ stage = "classes" /\ ListedLeft = << >> /\ TodoLeft # << >>
      /\ Head(TodoLeft) = Top.at
  BY <1>1, EntryRead
<1>3. ListedLeft' = << >> /\ TodoLeft' = Tail(TodoLeft)
  BY <1>1, <1>2, EntryLeft
<1>4. Promise!ClassReadable(img, Top.at) <=> ClassReadable(img, Top.at)
  BY SameClasses
<1>5. CASE StoreClass
  <2>1. Top.ph = "return" /\ classes' = Append(classes, Top.obj)
    BY <1>5 DEF StoreClass
  <2>2. /\ Top \in Frames /\ IsImage(img) /\ Top.obj.at = Top.at /\ Top.obj \in Objects
        /\ ReadsIsa(img, Top) /\ Owns(Top.obj, Len(protocols))
        /\ Progress(img, Top, protocols, FALSE) /\ protocols \in Seq(Objects)
    BY <1>1, TopProgress
  <2>3. DOMAIN protocols = 1..Len(protocols)
    BY <2>2, LenProperties
  <2>4. /\ Promise!Mentioned(img, Top.at) \subseteq Stored(protocols)
        /\ [Top.obj EXCEPT !.protocols = At(protocols, @)] = Promise!ClassAt(img, Top.at)
    BY <1>1, <2>1, <2>2, <2>3, ClassRead
  <2>5. ClassReadable(img, Top.at)
    BY <1>1, <2>1, <2>2 DEF ReadsIsa
  <2>6. Promise!Mentioned(img, Top.at) \subseteq Promise!Reported
    BY <2>4 DEF Stored, Promise!Reported
  <2>7. Reports' = Append(Reports, Promise!ClassAt(img, Top.at))
    <3>1. ByLocation(Top.obj) = Promise!ClassAt(img, Top.at)
      BY <2>4 DEF ByLocation, At
    <3>2. classes \in Seq(Objects) /\ Len(classes) \in Nat
      BY LenProperties DEF IInv, TypeOK, TablesOK
    <3>3. /\ DOMAIN classes = 1..Len(classes) /\ DOMAIN classes' = 1..(Len(classes) + 1)
          /\ classes'[Len(classes) + 1] = Top.obj
          /\ \A k \in 1..Len(classes) : classes'[k] = classes[k]
      BY <2>1, <2>2, <3>2, AppendProperties, LenProperties
    <3>4. Reports' = [k \in 1..(Len(classes) + 1) |-> ByLocation(classes'[k])]
      BY <1>1, <3>3 DEF Reports, ByLocation
    <3>5. Reports = [k \in 1..Len(classes) |-> ByLocation(classes[k])]
      BY <3>3 DEF Reports
    <3> DEFINE x == Promise!ClassAt(img, Top.at)
               S == {ByLocation(classes[k]) : k \in 1..Len(classes)} \cup {x}
    <3>6. Reports \in Seq(S) /\ x \in S /\ Len(Reports) = Len(classes)
      BY <3>2, <3>5
    <3> HIDE DEF x, S
    <3>7. /\ Append(Reports, x) \in Seq(S) /\ Len(Append(Reports, x)) = Len(classes) + 1
          /\ Append(Reports, x)[Len(classes) + 1] = x
          /\ \A k \in 1..Len(classes) : Append(Reports, x)[k] = Reports[k]
      BY <3>6, AppendProperties
    <3>8. \A k \in 1..(Len(classes) + 1) : Append(Reports, x)[k] = ByLocation(classes'[k])
      <4> TAKE k \in 1..(Len(classes) + 1)
      <4>1. CASE k = Len(classes) + 1
        BY <3>1, <3>3, <3>7, <4>1 DEF x
      <4>2. CASE k # Len(classes) + 1
        <5>1. k \in 1..Len(classes)
          BY <3>2, <4>2
        <5> QED
          BY <3>3, <3>5, <3>7, <5>1
      <4> QED
        BY <4>1, <4>2
    <3>9. Append(Reports, x) = [k \in 1..(Len(classes) + 1) |-> Append(Reports, x)[k]]
      BY <3>7, LenProperties
    <3> QED
      BY <3>4, <3>8, <3>9 DEF x
  <2>8. [k \in DOMAIN classes |-> ByLocation(classes[k])]'
          = Append([k \in DOMAIN classes |-> ByLocation(classes[k])],
                   Promise!ClassAt(img, Top.at))
    BY <2>7 DEF Reports
  <2> QED
    BY <1>1, <1>2, <1>3, <1>4, <2>5, <2>6, <2>8 DEF Promise!ReportClass
<1>6. CASE ClassFailed
  <2>1. /\ Top.ph = "create" /\ ~ ClassReadable(img, pos) /\ classes' = classes
    BY <1>6 DEF ClassFailed, metadata
  <2>2. pos = Top.at
    BY <1>1, <2>1, CreateAt
  <2>3. Reports' = Reports
    BY <1>1, <2>1, SameReports
  <2>4. [k \in DOMAIN classes |-> ByLocation(classes[k])]'
          = [k \in DOMAIN classes |-> ByLocation(classes[k])]
    BY <2>3 DEF Reports
  <2> QED
    BY <1>1, <1>2, <1>3, <1>4, <2>1, <2>2, <2>4 DEF Promise!ReportClass
<1> QED
  BY <1>5, <1>6

-----------------------------------------------------------------------------
(***************************************************************************)
(* The theorems.                                                           *)
(***************************************************************************)
LEMMA InitReports == Init => Promise!Init
<1> SUFFICES ASSUME Init PROVE Promise!Init
  OBVIOUS
<1>1. /\ stage = "protocols" /\ idx = 1 /\ stack = << >> /\ protocols = << >>
      /\ classes = << >> /\ IsImage(img)
  BY ImagesAssumption DEF Init
<1> DEFINE p == ObjCSection(img.protolist)
           c == ObjCSection(img.classlist)
<1>2. ListedLeft = From(img, p, 1) /\ TodoLeft = From(img, c, 1)
  BY <1>1 DEF ListedLeft, TodoLeft, Pending, From
<1>3. /\ Promise!ObjCSection(img.protolist) = p
      /\ Promise!ObjCSection(img.classlist) = c
  BY DEF Promise!ObjCSection, ObjCSection
<1>4. p \in Seq(Nat) /\ c \in Seq(Nat)
  BY <1>1, SectionType DEF IsImage
<1> HIDE DEF p, c
<1>5. ASSUME NEW s \in Seq(Nat)
      PROVE  From(img, s, 1) = [k \in DOMAIN s |-> Promise!Decode(img, s[k])]
  <2>1. Len(s) \in Nat /\ DOMAIN s = 1..Len(s) /\ Len(s) + 1 - 1 = Len(s)
    BY LenProperties
  <2>2. From(img, s, 1) = [k \in 1..Len(s) |-> Decode(img, s[1 + k - 1])]
    BY <2>1 DEF From
  <2>3. \A k \in 1..Len(s) : 1 + k - 1 = k
    OBVIOUS
  <2> QED
    BY <2>1, <2>2, <2>3, SameImage
<1>6. /\ ListedLeft = Promise!Locations(img, img.protolist)
      /\ TodoLeft = Promise!Locations(img, img.classlist)
  BY <1>2, <1>3, <1>4, <1>5 DEF Promise!Locations
<1>7. [k \in DOMAIN classes |-> ByLocation(classes[k])] = << >>
  BY <1>1
<1> QED
  BY <1>1, <1>6, <1>7 DEF Promise!Init

\* Every step of the parser reports an entry, reports a protocol that a class
\* adopts, or reports nothing.
LEMMA StepReports ==
  ASSUME IInv, OInv, RInv, [Next]_vars
  PROVE  [Promise!Next]_(Promise!vars)
<1>1. CASE UNCHANGED vars
  <2>1. UNCHANGED <<ListedLeft, TodoLeft>>
    BY <1>1 DEF vars, metadata, ListedLeft, TodoLeft, Pending
  <2>2. \A c : ByLocation(c)' = ByLocation(c)
    BY <1>1 DEF vars, metadata, ByLocation
  <2>3. [k \in DOMAIN classes |-> ByLocation(classes[k])]'
          = [k \in DOMAIN classes |-> ByLocation(classes[k])]
    BY <1>1, <2>2 DEF vars, metadata
  <2> QED
    BY <1>1, <2>1, <2>3 DEF vars, metadata, Promise!vars
<1>2. CASE \/ CreateClass \/ NoSuper \/ CreateProtocol
           \/ OpenList \/ NoList \/ CloseList \/ ReadElement \/ SkipElement
           \/ KnownProtocol \/ BreakRefs \/ ParseSuper \/ NewProtocolRef
  BY <1>2, QuietGoesOn
<1>3. CASE ReturnSuper \/ (Depth # 1 /\ (ClassFailed \/ ProtocolFailed))
  BY <1>3, QuietReturn
<1>4. CASE ProcessEntry \/ SectionDone
  BY <1>4, QuietEntry, QuietSection
<1>5. CASE StoreListedProtocol \/ (Depth = 1 /\ ProtocolFailed)
  <2>1. Promise!ReportProtocol
    BY <1>5, ListedReported
  <2> QED
    BY <2>1 DEF Promise!Next
<1>6. CASE StoreAdoptedProtocol
  <2>1. Promise!ReportAdopted
    BY <1>6, AdoptedReported
  <2> QED
    BY <2>1 DEF Promise!Next
<1>7. CASE StoreClass \/ (Depth = 1 /\ ClassFailed)
  <2>1. Promise!ReportClass
    BY <1>7, ClassReported
  <2> QED
    BY <2>1 DEF Promise!Next
<1> QED
  BY <1>1, <1>2, <1>3, <1>4, <1>5, <1>6, <1>7 DEF Next

\* In every state of a parse, whatever the image and whatever of it cannot be
\* read, each object under construction holds what the lists its create() has
\* read denote, no more and no less, and the cache has each protocol of the
\* section entries done with (Class.cpp:80-169, Protocol.cpp:31-141,
\* Parser.cpp:79-135).
THEOREM ProgressHolds == Spec => []RInv
<1>1. IInv /\ OInv /\ RInv /\ [Next]_vars => RInv'
  BY NextProgress
<1> QED
  BY <1>1, InitProgress, ObjectsHold, PTL DEF Spec

\* parse() reports what ObjCMetadata promises: the readable entries of the two
\* sections, each once and in order, with exactly the members that their
\* structures denote, through however many nested create() calls, cached
\* protocols and unreadable structures (Parser.cpp:66-170).
THEOREM Refinement == Spec => ImplementsMetadata
<1>1. IInv /\ OInv /\ RInv /\ [Next]_vars => [Promise!Next]_(Promise!vars)
  BY StepReports
<1> QED
  BY <1>1, InitReports, ObjectsHold, ProgressHolds, PTL
     DEF Spec, ImplementsMetadata, Promise!Spec
=============================================================================

-------------------------- MODULE NodeFactoryProofs --------------------------
(***************************************************************************)
(* The memory of the demangler, for any sizes, bounds and placement of     *)
(* slabs: what it holds is in memory it owns and apart (Apart).            *)
(*                                                                         *)
(* Apart is inductive with the shape of the factory: the free range is     *)
(* memory the factory owns, and ends where its last slab does. The memory  *)
(* that is used, what is owned without the free range, only grows until    *)
(* clear(), and whatever an allocation returns was not used before. So one *)
(* owner gets memory that none other has, all others keep theirs.          *)
(***************************************************************************)
EXTENDS NodeFactory, FiniteSetTheorems, TLAPS

USE DEF Null

Factories == [cur : Nat, end : Nat, provided : Nat, slabSize : Nat,
              slabs : Seq([at : Nat, size : Nat])]
Vectors == [at : Nat, num : Int, cap : Nat]
NodeRecords == [self : Nat, array : Vectors, inline : Int]
CellValues == Values \cup {Null, Junk}
Memories == [1..Last -> CellValues]

\* The free range is memory of the factory, of its last slab if it has one.
GoodFactory(f) ==
    /\ f \in Factories
    /\ f.cur <= f.end /\ f.end <= Last + 1
    /\ f.cur = Null => f.end = Null
    /\ FreeRange(f) \subseteq Owned(f)
    /\ f.slabs # << >> =>
         f.end = f.slabs[Len(f.slabs)].at + Header + f.slabs[Len(f.slabs)].size

Shapes ==
    /\ stack \in Vectors
    /\ jobs \in Seq(Vectors)
    /\ node \in [Nodes -> NodeRecords]
    /\ text \in [Texts -> Vectors]

IInv == GoodFactory(factory) /\ memory \in Memories /\ Len(jobs) <= MaxJobs
          /\ Shapes /\ Apart

\* The sizes are positive numbers.
LEMMA Sizes ==
    /\ Last \in Nat /\ LeastGrowth \in Nat /\ MaxJobs \in Nat
    /\ Word \in Nat /\ Word > 0 /\ Header \in Nat /\ Header > 0
    /\ FirstSlab \in Nat /\ StackSpace \in Nat /\ StackSpace > 0
    /\ InitialCapacity \in Nat /\ NodeSize \in Nat /\ MaxPrintSize \in Nat
  BY SizesAssumption, ValuesAssumption

(***************************************************************************)
(* Arithmetic.                                                             *)
(***************************************************************************)
LEMMA AlignUp ==
  ASSUME NEW p \in Nat, NEW a \in Nat \ {0}
  PROVE  Align(p, a) \in Nat /\ Align(p, a) >= p /\ Align(p, a) < p + a
<1>1. (p + a - 1) \div a \in Int /\ (p + a - 1) % a \in 0..(a - 1)
  OBVIOUS
<1>2. p + a - 1 = a * ((p + a - 1) \div a) + ((p + a - 1) % a)
  OBVIOUS
<1> QED
  BY <1>1, <1>2 DEF Align

LEMMA Product ==
  ASSUME NEW c \in Nat, NEW g \in Nat, NEW s \in Nat
  PROVE  c * s \in Nat /\ (c + g) * s = c * s + g * s /\ (c + g) * s >= c * s
  OBVIOUS

\* What EXCEPT makes of the records.
LEMMA FactoryWith ==
  ASSUME NEW f \in Factories, NEW c \in Nat
  PROVE  /\ [f EXCEPT !.cur = c] \in Factories
         /\ [f EXCEPT !.cur = c].cur = c /\ [f EXCEPT !.cur = c].end = f.end
         /\ [f EXCEPT !.cur = c].slabs = f.slabs
         /\ [f EXCEPT !.cur = c].provided = f.provided
  BY DEF Factories

LEMMA NewSlabFields ==
  ASSUME NEW f \in Factories, NEW size \in Nat, NEW p \in Nat
  PROVE  /\ NewSlab(f, size, p) \in Factories
         /\ NewSlab(f, size, p).cur = p + Header
         /\ NewSlab(f, size, p).end = p + Header + size
         /\ NewSlab(f, size, p).slabs = Append(f.slabs, [at |-> p, size |-> size])
         /\ NewSlab(f, size, p).provided = f.provided
<1>1. p + Header \in Nat /\ p + Header + size \in Nat
  BY Sizes
<1>2. Append(f.slabs, [at |-> p, size |-> size]) \in Seq([at : Nat, size : Nat])
  BY DEF Factories
<1> QED
  BY <1>1, <1>2 DEF NewSlab, Factories

LEMMA VectorWith ==
  ASSUME NEW v \in Vectors, NEW c \in Nat
  PROVE  /\ [v EXCEPT !.cap = c] \in Vectors
         /\ [v EXCEPT !.cap = c].at = v.at /\ [v EXCEPT !.cap = c].cap = c
         /\ [v EXCEPT !.cap = c].num = v.num
  BY DEF Vectors

(***************************************************************************)
(* Allocation.                                                             *)
(***************************************************************************)
LEMMA FreeOfFit ==
  ASSUME NEW f, GoodFactory(f), NEW n \in Nat, NEW a \in Nat \ {0}, Fits(f, n, a)
  PROVE  /\ GoodFactory(Carved(f, n, a).factory)
         /\ Carved(f, n, a).at \in Nat
         /\ Used(f) \subseteq Used(Carved(f, n, a).factory)
         /\ Cells(Carved(f, n, a).at, n) \subseteq
              Used(Carved(f, n, a).factory) \ Used(f)
<1> DEFINE at == Align(f.cur, a)
           g == [f EXCEPT !.cur = at + n]
<1>1. f.cur \in Nat /\ f.end \in Nat
  BY DEF GoodFactory, Factories
<1>2. at \in Nat /\ at >= f.cur
  BY <1>1, AlignUp
<1>3. at + n <= f.end
  BY DEF Fits
<1>4. /\ g \in Factories /\ g.cur = at + n /\ g.end = f.end
      /\ g.slabs = f.slabs /\ g.provided = f.provided
  BY <1>2 DEF GoodFactory, Factories
<1>5. Owned(g) = Owned(f)
  BY <1>4 DEF Owned
<1>6. f.cur # Null
  BY DEF Fits
<1> HIDE DEF at, g
<1>7. FreeRange(g) \subseteq FreeRange(f) /\ Cells(at, n) \subseteq FreeRange(f)
  BY <1>1, <1>2, <1>3, <1>4 DEF FreeRange, Cells
<1>8. Cells(at, n) \cap FreeRange(g) = {}
  BY <1>1, <1>2, <1>4 DEF FreeRange, Cells
<1>9. GoodFactory(g)
  <2>1. g.cur <= g.end /\ g.end <= Last + 1 /\ g.cur # Null
    BY <1>1, <1>2, <1>3, <1>4, <1>6 DEF GoodFactory
  <2> QED
    BY <2>1, <1>4, <1>5, <1>7 DEF GoodFactory
<1>10. Used(f) \subseteq Used(g)
  BY <1>5, <1>7 DEF Used
<1>11. Cells(at, n) \subseteq Used(g) \ Used(f)
  BY <1>5, <1>7, <1>8 DEF Used, GoodFactory
<1>12. Carved(f, n, a) = [at |-> at, factory |-> g]
  BY DEF Carved, at, g
<1> QED
  BY <1>2, <1>9, <1>10, <1>11, <1>12

\* A new slab leaves what was used used, and all of it but the header free.
LEMMA FreshSlab ==
  ASSUME NEW f, GoodFactory(f), NEW size \in Nat, NEW p \in Malloc(f, Header + size)
  PROVE  /\ GoodFactory(NewSlab(f, size, p))
         /\ NewSlab(f, size, p).cur = p + Header
         /\ NewSlab(f, size, p).end = p + Header + size
         /\ p \in Nat
         /\ Used(f) \subseteq Used(NewSlab(f, size, p))
<1> DEFINE slab == [at |-> p, size |-> size]
           g == NewSlab(f, size, p)
<1>0. Header \in Nat /\ Header > 0 /\ Last \in Nat
  BY Sizes
<1>1. p \in 1..Last /\ p + (Header + size) - 1 <= Last
      /\ Cells(p, Header + size) \cap Owned(f) = {}
  BY SizesAssumption DEF Malloc
<1>2. p \in Nat /\ p > 0 /\ p + Header \in Nat /\ p + Header + size \in Nat
  BY <1>0, <1>1
<1>3. slab \in [at : Nat, size : Nat]
  BY <1>2
<1> HIDE DEF slab
<1>4. /\ f.slabs \in Seq([at : Nat, size : Nat])
      /\ Append(f.slabs, slab) \in Seq([at : Nat, size : Nat])
      /\ Len(Append(f.slabs, slab)) = Len(f.slabs) + 1
      /\ Len(f.slabs) \in Nat
      /\ Append(f.slabs, slab)[Len(f.slabs) + 1] = slab
      /\ \A i \in 1..Len(f.slabs) : Append(f.slabs, slab)[i] = f.slabs[i]
  BY <1>3 DEF GoodFactory, Factories
<1>5. /\ g \in Factories /\ g.cur = p + Header /\ g.end = p + Header + size
      /\ g.slabs = Append(f.slabs, slab) /\ g.provided = f.provided
  BY <1>2, NewSlabFields DEF GoodFactory, slab
<1> HIDE DEF g
<1>6. SlabRange(slab) = Cells(p, Header + size)
  BY DEF slab, SlabRange
<1>7. Owned(g) = Owned(f) \cup Cells(p, Header + size)
  <2> DEFINE n == Len(f.slabs)
  <2>1. n \in Nat /\ Len(g.slabs) = n + 1 /\ SlabRange(g.slabs[n + 1]) = Cells(p, Header + size)
        /\ \A i \in 1..n : SlabRange(g.slabs[i]) = SlabRange(f.slabs[i])
    BY <1>4, <1>5, <1>6
  <2> HIDE DEF n
  <2>2. 1..(n + 1) = (1..n) \cup {n + 1}
    BY <2>1
  <2>3. UNION {SlabRange(g.slabs[i]) : i \in 1..(n + 1)}
          = (UNION {SlabRange(f.slabs[i]) : i \in 1..n}) \cup Cells(p, Header + size)
    BY <2>1, <2>2
  <2> QED
    BY <1>5, <2>1, <2>3 DEF Owned, n
<1>8. FreeRange(g) \subseteq Cells(p, Header + size)
  BY <1>0, <1>2, <1>5 DEF FreeRange, Cells
<1>9. GoodFactory(g)
  <2>1. g.cur <= g.end /\ g.end <= Last + 1 /\ g.cur # Null
    BY <1>0, <1>1, <1>2, <1>5
  <2>2. Len(g.slabs) = Len(f.slabs) + 1 /\ g.slabs[Len(g.slabs)] = slab
    BY <1>4, <1>5
  <2>3. g.slabs[Len(g.slabs)].at = p /\ g.slabs[Len(g.slabs)].size = size
    BY <2>2 DEF slab
  <2> QED
    BY <2>1, <2>3, <1>5, <1>7, <1>8 DEF GoodFactory
<1>10. Used(f) \subseteq Used(g)
  BY <1>1, <1>7, <1>8 DEF Used
<1> QED
  BY <1>2, <1>5, <1>9, <1>10 DEF g

\* What is allocated was not used, and what was used still is.
LEMMA Allocation ==
  ASSUME NEW f, GoodFactory(f), NEW n \in Nat, NEW a \in Nat \ {0},
         NEW r \in Allocate(f, n, a)
  PROVE  /\ GoodFactory(r.factory)
         /\ r.at \in Nat
         /\ Used(f) \subseteq Used(r.factory)
         /\ Cells(r.at, n) \subseteq Used(r.factory) \ Used(f)
<1>1. CASE Fits(f, n, a)
  <2>1. r = Carved(f, n, a)
    BY <1>1 DEF Allocate
  <2> QED
    BY <1>1, <2>1, FreeOfFit
<1>2. CASE ~Fits(f, n, a)
  <2> DEFINE size == SlabSize(f, n, a)
  <2>1. PICK p \in Malloc(f, Header + size) : r = Carved(NewSlab(f, size, p), n, a)
    BY <1>2 DEF Allocate
  <2> DEFINE g == NewSlab(f, size, p)
  <2>2. f.slabSize \in Nat
    BY DEF GoodFactory, Factories
  <2>3. size \in Nat /\ size >= n + a
    BY <2>2 DEF SlabSize, Larger
  <2> HIDE DEF size
  <2>4. /\ GoodFactory(g) /\ g.cur = p + Header /\ g.end = p + Header + size
        /\ p \in Nat /\ Used(f) \subseteq Used(g)
    BY <2>3, FreshSlab
  <2>5. Header \in Nat /\ Header > 0
    BY Sizes
  <2> HIDE DEF g
  <2>6. g.cur \in Nat /\ g.cur # Null
    BY <2>4, <2>5
  <2>7. Align(g.cur, a) \in Nat /\ Align(g.cur, a) < g.cur + a
    BY <2>6, AlignUp
  <2>8. Fits(g, n, a)
    BY <2>3, <2>4, <2>5, <2>6, <2>7 DEF Fits
  <2>9. /\ GoodFactory(Carved(g, n, a).factory)
        /\ Carved(g, n, a).at \in Nat
        /\ Used(g) \subseteq Used(Carved(g, n, a).factory)
        /\ Cells(Carved(g, n, a).at, n) \subseteq Used(Carved(g, n, a).factory) \ Used(g)
    BY <2>4, <2>8, FreeOfFit
  <2> QED
    BY <2>1, <2>4, <2>9 DEF g
<1> QED
  BY <1>1, <1>2

\* An array that grows has what it had, or memory that was not used.
LEMMA Reallocation ==
  ASSUME NEW f, GoodFactory(f), NEW m \in Memories, NEW v \in Vectors,
         NEW growth \in Nat, NEW s \in Nat \ {0},
         Array(v, s) \subseteq Used(f),
         NEW r \in Reallocate(f, m, v, growth, s)
  PROVE  /\ GoodFactory(r.factory)
         /\ r.memory \in Memories
         /\ r.vector \in Vectors
         /\ r.vector.num = v.num
         /\ Used(f) \subseteq Used(r.factory)
         /\ Array(r.vector, s) \subseteq Used(r.factory)
         /\ Array(r.vector, s) \cap Used(f) \subseteq Array(v, s)
<1>0. v.at \in Nat /\ v.cap \in Nat /\ f.cur \in Nat /\ f.end \in Nat
      /\ v.cap * s \in Nat /\ growth * s \in Nat
  BY Product DEF Vectors, GoodFactory, Factories
<1>1. CASE InPlace(f, v, growth, s)
  <2> DEFINE g == [f EXCEPT !.cur = @ + growth * s]
             w == [v EXCEPT !.cap = @ + growth]
  <2>1. r = Made(g, m, w)
    BY <1>1 DEF Reallocate
  <2>2. v.at + v.cap * s = f.cur /\ f.cur + growth * s <= f.end
    BY <1>1 DEF InPlace
  <2>3. /\ g \in Factories /\ g.cur = f.cur + growth * s /\ g.end = f.end
        /\ g.slabs = f.slabs /\ g.provided = f.provided
    <3>1. f.cur + growth * s \in Nat
      BY <1>0
    <3> QED
      BY <3>1, FactoryWith DEF GoodFactory
  <2>4. w \in Vectors /\ w.at = v.at /\ w.cap = v.cap + growth /\ w.num = v.num
    <3>1. v.cap + growth \in Nat
      BY <1>0
    <3> QED
      BY <3>1, VectorWith
  <2> HIDE DEF g, w
  <2>5. w.cap * s = v.cap * s + growth * s
    BY <1>0, <2>4, Product
  <2>6. Array(w, s) = Array(v, s) \cup f.cur..(g.cur - 1)
    BY <1>0, <2>2, <2>3, <2>4, <2>5 DEF Array, Cells
  <2>7. FreeRange(f) = f.cur..(g.cur - 1) \cup FreeRange(g)
        /\ (f.cur..(g.cur - 1)) \cap FreeRange(g) = {}
    BY <1>0, <2>2, <2>3 DEF FreeRange
  <2>8. Owned(g) = Owned(f)
    BY <2>3 DEF Owned
  <2>9. GoodFactory(g)
    <3>1. g.cur <= g.end /\ g.end <= Last + 1 /\ (g.cur = Null => g.end = Null)
      BY <1>0, <2>2, <2>3 DEF GoodFactory
    <3> QED
      BY <3>1, <2>3, <2>7, <2>8 DEF GoodFactory
  <2>10. Used(f) \subseteq Used(g) /\ Array(w, s) \subseteq Used(g)
         /\ Array(w, s) \cap Used(f) \subseteq Array(v, s)
    BY <2>6, <2>7, <2>8 DEF Used, GoodFactory
  <2>11. r.factory = g /\ r.memory = m /\ r.vector = w
    BY <2>1 DEF Made
  <2> QED
    BY <2>4, <2>9, <2>10, <2>11
<1>2. CASE ~InPlace(f, v, growth, s)
  <2> DEFINE cap == v.cap + Growth(v, growth)
  <2>1. PICK q \in Allocate(f, cap * s, s) :
          r = Made(q.factory, Copy(m, v.at, q.at, v.cap * s),
                   [v EXCEPT !.at = q.at, !.cap = cap])
    BY <1>2 DEF Reallocate
  <2>2. cap \in Nat
    BY <1>0, Sizes DEF Growth, Larger
  <2> HIDE DEF cap
  <2>3. cap * s \in Nat
    BY <2>2, Product
  <2>4. /\ GoodFactory(q.factory) /\ q.at \in Nat
        /\ Used(f) \subseteq Used(q.factory)
        /\ Cells(q.at, cap * s) \subseteq Used(q.factory) \ Used(f)
    BY <2>3, Allocation
  <2> DEFINE w == [v EXCEPT !.at = q.at, !.cap = cap]
  <2>5. w \in Vectors /\ w.at = q.at /\ w.cap = cap /\ w.num = v.num
    BY <2>2, <2>4 DEF Vectors
  <2>6. Copy(m, v.at, q.at, v.cap * s) \in Memories
    BY DEF Copy, At, Memories, CellValues
  <2>7. r.factory = q.factory /\ r.vector = w
        /\ r.memory = Copy(m, v.at, q.at, v.cap * s)
    BY <2>1 DEF Made
  <2> HIDE DEF w
  <2>8. Array(w, s) = Cells(q.at, cap * s)
    BY <2>5 DEF Array
  <2> QED
    BY <2>4, <2>5, <2>6, <2>7, <2>8
<1> QED
  BY <1>1, <1>2

(***************************************************************************)
(* What is held stays apart when one owner, o, gets memory that was not    *)
(* used, and every other has what it had, or, with fewer owners or with    *)
(* others, what one of the owners had before.                              *)
(***************************************************************************)
LEMMA Kept ==
  ASSUME NEW D, NEW F, NEW G, NEW U, NEW V, NEW o \in D,
         \A p \in D : F[p] \subseteq U,
         \A p, q \in D : p # q => F[p] \cap F[q] = {},
         U \subseteq V,
         \A p \in D \ {o} : G[p] = F[p],
         G[o] \subseteq V, G[o] \cap U \subseteq F[o]
  PROVE  /\ \A p \in D : G[p] \subseteq V
         /\ \A p, q \in D : p # q => G[p] \cap G[q] = {}
<1>1. \A p \in D \ {o} : G[p] \subseteq U /\ G[p] \cap G[o] = {}
  OBVIOUS
<1>2. \A p, q \in D \ {o} : p # q => G[p] \cap G[q] = {}
  OBVIOUS
<1>3. ASSUME NEW p \in D, NEW q \in D, p # q
      PROVE  G[p] \cap G[q] = {}
  <2>1. CASE p = o
    BY <1>1, <1>3, <2>1
  <2>2. CASE q = o
    BY <1>1, <1>3, <2>2
  <2> QED
    BY <1>2, <1>3, <2>1, <2>2
<1> QED
  BY <1>1, <1>3

LEMMA Moved ==
  ASSUME NEW D, NEW E, NEW F, NEW G, NEW U, NEW V, NEW o, NEW was,
         \A p \in D : F[p] \subseteq U,
         \A p, q \in D : p # q => F[p] \cap F[q] = {},
         U \subseteq V,
         \A p \in E \ {o} : was[p] \in D /\ G[p] = F[was[p]],
         \A p, q \in E \ {o} : p # q => was[p] # was[q],
         o \in E => G[o] \subseteq V \ U
  PROVE  /\ \A p \in E : G[p] \subseteq V
         /\ \A p, q \in E : p # q => G[p] \cap G[q] = {}
<1>1. \A p \in E \ {o} : G[p] \subseteq U
  OBVIOUS
<1>2. \A p, q \in E \ {o} : p # q => G[p] \cap G[q] = {}
  OBVIOUS
<1>3. ASSUME NEW p \in E, NEW q \in E, p # q
      PROVE  G[p] \cap G[q] = {}
  <2>1. CASE p = o
    BY <1>1, <1>3, <2>1
  <2>2. CASE q = o
    BY <1>1, <1>3, <2>2
  <2> QED
    BY <1>2, <1>3, <2>1, <2>2
<1> QED
  BY <1>1, <1>3

\* What each owner holds.
LEMMA Holdings ==
  /\ <<"stack", 0>> \in Owners /\ Held[<<"stack", 0>>] = Array(stack, Word)
  /\ \A j \in 1..Len(jobs) :
       <<"saved", j>> \in Owners /\ Held[<<"saved", j>>] = Array(jobs[j], Word)
  /\ \A n \in Nodes :
       /\ <<"node", n>> \in Owners /\ <<"children", n>> \in Owners
       /\ Held[<<"node", n>>] =
            IF node[n].self = Null THEN {} ELSE Cells(node[n].self, NodeSize)
       /\ Held[<<"children", n>>] = Array(node[n].array, Word)
  /\ \A t \in Texts :
       <<"text", t>> \in Owners /\ Held[<<"text", t>>] = Array(text[t], 1)
<1>1. <<"stack", 0>> \in Owners /\ Held[<<"stack", 0>>] = Array(stack, Word)
  BY DEF Owners, Held
<1>2. ASSUME NEW j \in 1..Len(jobs)
      PROVE  <<"saved", j>> \in Owners /\ Held[<<"saved", j>>] = Array(jobs[j], Word)
  BY DEF Owners, Held
<1>3. ASSUME NEW n \in Nodes
      PROVE  /\ <<"node", n>> \in Owners /\ <<"children", n>> \in Owners
             /\ Held[<<"node", n>>] =
                  IF node[n].self = Null THEN {} ELSE Cells(node[n].self, NodeSize)
             /\ Held[<<"children", n>>] = Array(node[n].array, Word)
  BY DEF Owners, Held
<1>4. ASSUME NEW t \in Texts
      PROVE  <<"text", t>> \in Owners /\ Held[<<"text", t>>] = Array(text[t], 1)
  BY DEF Owners, Held
<1> QED
  BY <1>1, <1>2, <1>3, <1>4

LEMMA Kinds ==
  \A o \in Owners :
    \/ o = <<"stack", 0>>
    \/ \E j \in 1..Len(jobs) : o = <<"saved", j>>
    \/ \E n \in Nodes : o = <<"node", n>>
    \/ \E n \in Nodes : o = <<"children", n>>
    \/ \E t \in Texts : o = <<"text", t>>
  BY DEF Owners

(***************************************************************************)
(* Memory stays memory.                                                    *)
(***************************************************************************)
LEMMA Writing ==
  ASSUME NEW m \in Memories
  PROVE  /\ \A p, s : \A x \in CellValues : WriteAt(m, p, s, x) \in Memories
         /\ \A p \in Int : \A xs \in Seq(CellValues) : WriteAll(m, p, xs) \in Memories
         /\ \A from, to, n : Copy(m, from, to, n) \in Memories
         /\ \A nd, i : Reversed(m, nd, i) \in Memories
         /\ \A p, s : ReadAt(m, p, s) \in CellValues
<1>1. \A q : At(m, q) \in CellValues
  BY DEF At, Memories, CellValues
<1>2. ASSUME NEW p, NEW s, NEW x \in CellValues
      PROVE  WriteAt(m, p, s, x) \in Memories
  BY DEF WriteAt, Memories
<1>3. ASSUME NEW p \in Int, NEW xs \in Seq(CellValues)
      PROVE  WriteAll(m, p, xs) \in Memories
  <2>1. ASSUME NEW q \in 1..Last, q \in Cells(p, Len(xs))
        PROVE  xs[q - p + 1] \in CellValues
    <3>1. Len(xs) \in Nat /\ q - p + 1 \in 1..Len(xs)
      BY <2>1 DEF Cells
    <3> QED
      BY <3>1
  <2> QED
    BY <2>1 DEF WriteAll, Memories
<1>4. ASSUME NEW from, NEW to, NEW n
      PROVE  Copy(m, from, to, n) \in Memories
  BY <1>1 DEF Copy, Memories
<1>5. ASSUME NEW nd, NEW i
      PROVE  Reversed(m, nd, i) \in Memories
  <2> DEFINE Mirror(q) ==
               ChildAddress(nd, i)
                 + (NumChildren(nd) - i - ((q - ChildAddress(nd, i)) \div Word)) * Word
                 + ((q - ChildAddress(nd, i)) % Word)
  <2>1. \A q : At(m, Mirror(q)) \in CellValues
    BY <1>1
  <2>2. Reversed(m, nd, i) =
          IF NumChildren(nd) > 1 /\ (IsMany(nd) \/ i = 1)
          THEN [q \in DOMAIN m |->
                  IF q \in Cells(ChildAddress(nd, i), (NumChildren(nd) - i + 1) * Word)
                  THEN At(m, Mirror(q)) ELSE m[q]]
          ELSE m
    BY DEF Reversed
  <2> HIDE DEF Mirror
  <2> QED
    BY <2>1, <2>2 DEF Memories
<1>6. ASSUME NEW p, NEW s
      PROVE  ReadAt(m, p, s) \in CellValues
  BY <1>1 DEF ReadAt, CellValues
<1> QED
  BY <1>2, <1>3, <1>4, <1>5, <1>6

(***************************************************************************)
(* The operations on vectors and on nodes do what Reallocation says.       *)
(***************************************************************************)
Grown(f, g, v, w, s) ==
    /\ GoodFactory(g)
    /\ Used(f) \subseteq Used(g)
    /\ w \in Vectors
    /\ Array(w, s) \subseteq Used(g)
    /\ Array(w, s) \cap Used(f) \subseteq Array(v, s)

LEMMA MakingRoom ==
  ASSUME NEW f, GoodFactory(f), NEW m \in Memories, NEW v \in Vectors,
         NEW n \in Nat, NEW growth \in Nat, NEW s \in Nat \ {0},
         Array(v, s) \subseteq Used(f),
         NEW r \in WithRoom(f, m, v, n, growth, s)
  PROVE  Grown(f, r.factory, v, r.vector, s) /\ r.memory \in Memories
<1>1. CASE v.num + n > v.cap
  <2>1. r \in Reallocate(f, m, v, growth, s)
    BY <1>1 DEF WithRoom
  <2> QED
    BY <2>1, Reallocation DEF Grown
<1>2. CASE ~(v.num + n > v.cap)
  <2>1. r = Made(f, m, v)
    BY <1>2 DEF WithRoom
  <2>2. r.factory = f /\ r.memory = m /\ r.vector = v
    BY <2>1 DEF Made
  <2> QED
    BY <2>2 DEF Grown
<1> QED
  BY <1>1, <1>2

LEMMA NumWith ==
  ASSUME NEW v \in Vectors, NEW k \in Int
  PROVE  /\ [v EXCEPT !.num = k] \in Vectors
         /\ \A s : Array([v EXCEPT !.num = k], s) = Array(v, s)
  BY DEF Vectors, Array

LEMMA PushingBack ==
  ASSUME NEW f, GoodFactory(f), NEW m \in Memories, NEW v \in Vectors,
         NEW s \in Nat \ {0}, NEW x \in CellValues,
         Array(v, s) \subseteq Used(f),
         NEW r \in PushBack(f, m, v, x, s)
  PROVE  Grown(f, r.factory, v, r.vector, s) /\ r.memory \in Memories
<1>1. PICK q \in WithRoom(f, m, v, 1, 1, s) :
        r = Made(q.factory, WriteAt(q.memory, q.vector.at + v.num * s, s, x),
                 [q.vector EXCEPT !.num = v.num + 1])
  BY DEF PushBack
<1>2. Grown(f, q.factory, v, q.vector, s) /\ q.memory \in Memories
  BY MakingRoom
<1>3. v.num + 1 \in Int
  BY DEF Vectors
<1>4. /\ r.factory = q.factory
      /\ r.memory = WriteAt(q.memory, q.vector.at + v.num * s, s, x)
      /\ r.vector = [q.vector EXCEPT !.num = v.num + 1]
  BY <1>1 DEF Made
<1>5. r.memory \in Memories
  BY <1>2, <1>4, Writing
<1>6. r.vector \in Vectors /\ Array(r.vector, s) = Array(q.vector, s)
  BY <1>2, <1>3, <1>4, NumWith DEF Grown
<1> QED
  BY <1>2, <1>4, <1>5, <1>6 DEF Grown

LEMMA Appending ==
  ASSUME NEW f, GoodFactory(f), NEW m \in Memories, NEW v \in Vectors,
         NEW growth \in Nat, NEW xs \in Seq(CellValues), NEW extra \in Seq(CellValues),
         Array(v, 1) \subseteq Used(f),
         NEW r \in AppendChars(f, m, v, xs, extra, growth)
  PROVE  Grown(f, r.factory, v, r.vector, 1) /\ r.memory \in Memories
<1>1. PICK q \in WithRoom(f, m, v, growth, growth, 1) :
        r = Made(q.factory, WriteAll(q.memory, q.vector.at + v.num, xs \o extra),
                 [q.vector EXCEPT !.num = v.num + Len(xs)])
  BY DEF AppendChars
<1>2. Grown(f, q.factory, v, q.vector, 1) /\ q.memory \in Memories
  BY MakingRoom
<1>3. v.num \in Int /\ v.num + Len(xs) \in Int
  BY DEF Vectors
<1>4. /\ r.factory = q.factory
      /\ r.memory = WriteAll(q.memory, q.vector.at + v.num, xs \o extra)
      /\ r.vector = [q.vector EXCEPT !.num = v.num + Len(xs)]
  BY <1>1 DEF Made
<1>5. r.memory \in Memories
  <2>1. xs \o extra \in Seq(CellValues)
    OBVIOUS
  <2>2. q.vector.at + v.num \in Int
    BY <1>2, <1>3 DEF Grown, Vectors
  <2> DEFINE at == q.vector.at + v.num
             ys == xs \o extra
  <2>3. q.memory \in Memories /\ at \in Int /\ ys \in Seq(CellValues)
    BY <1>2, <2>1, <2>2
  <2>4. r.memory = WriteAll(q.memory, at, ys)
    BY <1>4
  <2> HIDE DEF at, ys
  <2> QED
    BY <2>3, <2>4, Writing
<1>6. r.vector \in Vectors /\ Array(r.vector, 1) = Array(q.vector, 1)
  <2>1. q.vector \in Vectors
    BY <1>2 DEF Grown
  <2> QED
    BY <2>1, <1>3, <1>4, NumWith
<1> QED
  BY <1>2, <1>4, <1>5, <1>6 DEF Grown

LEMMA NodeWithArray ==
  ASSUME NEW nd \in NodeRecords, NEW v \in Vectors
  PROVE  /\ [nd EXCEPT !.array = v] \in NodeRecords
         /\ [nd EXCEPT !.array = v].array = v /\ [nd EXCEPT !.array = v].self = nd.self
  BY DEF NodeRecords

LEMMA NodeWithInline ==
  ASSUME NEW nd \in NodeRecords, NEW k \in Int
  PROVE  /\ [nd EXCEPT !.inline = k] \in NodeRecords
         /\ [nd EXCEPT !.inline = k].array = nd.array
         /\ [nd EXCEPT !.inline = k].self = nd.self
  BY DEF NodeRecords

LEMMA EmptyVector ==
  NoVector \in Vectors /\ \A s \in Nat : Array(NoVector, s) = {}
<1>1. NoVector \in Vectors /\ NoVector.at = 0 /\ NoVector.cap = 0
  BY DEF NoVector, Vectors
<1>2. ASSUME NEW s \in Nat
      PROVE  Array(NoVector, s) = {}
  <2>1. NoVector.cap * s = 0
    BY <1>1
  <2> QED
    BY <1>1, <2>1 DEF Array, Cells
<1> QED
  BY <1>1, <1>2

LEMMA AddingChild ==
  ASSUME NEW f, GoodFactory(f), NEW m \in Memories, NEW nd \in NodeRecords,
         NEW x \in CellValues,
         Array(nd.array, Word) \subseteq Used(f),
         NEW r \in WithChild(f, m, nd, x)
  PROVE  /\ Grown(f, r.factory, nd.array, r.node.array, Word)
         /\ r.memory \in Memories
         /\ r.node \in NodeRecords /\ r.node.self = nd.self
<1>0. Word \in Nat \ {0} /\ nd.array \in Vectors /\ nd.inline \in Int
  BY Sizes DEF NodeRecords
<1>1. CASE r \in FurtherChild(f, m, nd, x)
  <2>1. PICK q \in PushBack(f, m, nd.array, x, Word) :
          r = [factory |-> q.factory, memory |-> q.memory,
               node |-> [nd EXCEPT !.array = q.vector]]
    BY <1>1 DEF FurtherChild
  <2>2. Grown(f, q.factory, nd.array, q.vector, Word) /\ q.memory \in Memories
    BY <1>0, PushingBack
  <2>3. q.vector \in Vectors
    BY <2>2 DEF Grown
  <2>4. /\ r.factory = q.factory /\ r.memory = q.memory
        /\ r.node = [nd EXCEPT !.array = q.vector]
    BY <2>1
  <2> QED
    BY <1>0, <2>2, <2>3, <2>4, NodeWithArray
<1>2. CASE r \in ThirdChild(f, m, nd, x)
  <2> DEFINE Header2(q) == WriteAt(q.memory, nd.self, 2 * Word, Junk)
             Many(q) == [nd EXCEPT !.array = [q.vector EXCEPT !.num = 3], !.inline = 0]
             Two(q) == SetChild(SetChild(Header2(q), Many(q), 1, Child(m, nd, 1)),
                                Many(q), 2, Child(m, nd, 2))
  <2>1. PICK q \in Reallocate(f, m, NoVector, 3, Word) :
          r = [factory |-> q.factory, memory |-> SetChild(Two(q), Many(q), 3, x),
               node |-> Many(q)]
    BY <1>2 DEF ThirdChild
  <2>2. /\ GoodFactory(q.factory) /\ q.memory \in Memories /\ q.vector \in Vectors
        /\ Used(f) \subseteq Used(q.factory)
        /\ Array(q.vector, Word) \subseteq Used(q.factory)
        /\ Array(q.vector, Word) \cap Used(f) \subseteq Array(NoVector, Word)
    <3>1. Array(NoVector, Word) \subseteq Used(f)
      BY <1>0, EmptyVector
    <3> QED
      BY <1>0, <3>1, EmptyVector, Reallocation
  <2>3. Array(NoVector, Word) = {}
    BY <1>0, EmptyVector
  <2> DEFINE three == [q.vector EXCEPT !.num = 3]
  <2>4. three \in Vectors /\ Array(three, Word) = Array(q.vector, Word)
    BY <2>2, NumWith
  <2>5. Many(q) \in NodeRecords /\ Many(q).array = three /\ Many(q).self = nd.self
    <3> HIDE DEF three
    <3> DEFINE big == [nd EXCEPT !.array = three]
    <3>1. big \in NodeRecords /\ big.array = three /\ big.self = nd.self
      BY <1>0, <2>4, NodeWithArray
    <3>2. [big EXCEPT !.inline = 0] = [nd EXCEPT !.array = three, !.inline = 0]
      OBVIOUS
    <3> HIDE DEF big
    <3>3. /\ [big EXCEPT !.inline = 0] \in NodeRecords
          /\ [big EXCEPT !.inline = 0].array = three
          /\ [big EXCEPT !.inline = 0].self = nd.self
      BY <3>1, NodeWithInline
    <3> QED
      BY <3>2, <3>3 DEF three
  <2>6. r.memory \in Memories
    <3> DEFINE c1 == Child(m, nd, 1)
               c2 == Child(m, nd, 2)
               m1 == SetChild(Header2(q), Many(q), 1, c1)
    <3>1. c1 \in CellValues /\ c2 \in CellValues /\ Junk \in CellValues
      BY Writing DEF Child, CellValues
    <3> HIDE DEF c1, c2, Many
    <3>2. Header2(q) \in Memories
      BY <2>2, <3>1, Writing
    <3> HIDE DEF Header2
    <3>3. m1 \in Memories
      BY <3>1, <3>2, Writing DEF SetChild
    <3>4. r.memory = SetChild(SetChild(m1, Many(q), 2, c2), Many(q), 3, x)
      BY <2>1 DEF c1, c2, Many, Header2
    <3> HIDE DEF m1
    <3>5. SetChild(m1, Many(q), 2, c2) \in Memories
      BY <3>1, <3>3, Writing DEF SetChild
    <3> DEFINE m2 == SetChild(m1, Many(q), 2, c2)
    <3> HIDE DEF m2
    <3>6. SetChild(m2, Many(q), 3, x) \in Memories
      BY <3>5, Writing DEF SetChild, m2
    <3> QED
      BY <3>4, <3>6 DEF m2
  <2>7. r.factory = q.factory /\ r.node = Many(q)
    BY <2>1
  <2> HIDE DEF Many, three
  <2> QED
    BY <2>2, <2>3, <2>4, <2>5, <2>6, <2>7 DEF Grown
<1>3. CASE r \in InlineChild(f, m, nd, x)
  <2> DEFINE cleared ==
        IF nd.inline = 0 THEN WriteAt(m, nd.self + Word, Word, Null) ELSE m
  <2>1. /\ r.factory = f
        /\ r.memory = SetChild(cleared, nd, nd.inline + 1, x)
        /\ r.node = [nd EXCEPT !.inline = @ + 1]
    BY <1>3 DEF InlineChild
  <2>2. cleared \in Memories
    BY Writing DEF CellValues
  <2> HIDE DEF cleared
  <2>3. r.memory \in Memories
    BY <2>1, <2>2, Writing DEF SetChild
  <2>4. r.node \in NodeRecords /\ r.node.self = nd.self /\ r.node.array = nd.array
    <3> DEFINE k == nd.inline + 1
    <3>1. k \in Int /\ r.node = [nd EXCEPT !.inline = k]
      BY <1>0, <2>1
    <3> HIDE DEF k
    <3> QED
      BY <3>1, NodeWithInline
  <2> QED
    BY <1>0, <2>1, <2>3, <2>4 DEF Grown
<1> QED
  BY <1>1, <1>2, <1>3 DEF WithChild

(***************************************************************************)
(* Steps that leave the owners as they are, and give to one of them.       *)
(***************************************************************************)
LEMMA Giving ==
  ASSUME Apart, UNCHANGED jobs, Used(factory) \subseteq Used(factory'),
         NEW o \in Owners, \A p \in Owners \ {o} : Held'[p] = Held[p],
         Held'[o] \subseteq Used(factory'),
         Held'[o] \cap Used(factory) \subseteq Held[o]
  PROVE  Apart'
<1>1. Owners' = Owners
  BY DEF Owners
<1> DEFINE D == Owners
           F == Held
           G == Held'
           U == Used(factory)
           V == Used(factory')
<1>2. /\ \A p \in D : F[p] \subseteq U
      /\ \A p, q \in D : p # q => F[p] \cap F[q] = {}
  BY DEF Apart
<1>3. /\ o \in D /\ U \subseteq V
      /\ \A p \in D \ {o} : G[p] = F[p]
      /\ G[o] \subseteq V /\ G[o] \cap U \subseteq F[o]
  OBVIOUS
<1>4. Owners' = D /\ Held' = G /\ Used(factory)' = V
  BY <1>1
<1> HIDE DEF D, F, G, U, V
<1>5. /\ \A p \in D : G[p] \subseteq V
      /\ \A p, q \in D : p # q => G[p] \cap G[q] = {}
  BY <1>2, <1>3, Kept
<1>6. /\ \A p \in Owners' : Held'[p] \subseteq Used(factory)'
      /\ \A p, q \in Owners' : p # q => Held'[p] \cap Held'[q] = {}
  BY <1>4, <1>5
<1> QED
  BY <1>6 DEF Apart

Nothing ==
    /\ stack = NoVector /\ jobs = << >>
    /\ node = [n \in Nodes |-> NoNode]
    /\ text = [t \in Texts |-> NoVector]

\* To begin with, and after clear(), there is nothing that takes memory.
LEMMA NothingHeld == Nothing => \A o \in Owners : Held[o] = {}
<1> SUFFICES ASSUME Nothing PROVE \A o \in Owners : Held[o] = {}
  OBVIOUS
<1>1. NoNode.self = Null /\ NoNode.array = NoVector
  BY DEF NoNode
<1>2. Array(NoVector, Word) = {} /\ Array(NoVector, 1) = {}
  BY EmptyVector, Sizes
<1>3. Held[<<"stack", 0>>] = {}
  BY <1>2, Holdings DEF Nothing
<1>4. ~ \E j \in 1..Len(jobs) : TRUE
  BY DEF Nothing
<1>5. ASSUME NEW n \in Nodes
      PROVE  Held[<<"node", n>>] = {} /\ Held[<<"children", n>>] = {}
  <2>1. node[n] = NoNode
    BY DEF Nothing
  <2> QED
    BY <1>1, <1>2, <2>1, Holdings
<1>6. ASSUME NEW t \in Texts
      PROVE  Held[<<"text", t>>] = {}
  <2>1. text[t] = NoVector
    BY DEF Nothing
  <2> QED
    BY <1>2, <2>1, Holdings
<1> QED
  BY <1>3, <1>4, <1>5, <1>6, Kinds

\* The invariant holds initially.
LEMMA Initially == Init => IInv
<1> SUFFICES ASSUME Init PROVE IInv
  OBVIOUS
<1> PICK size \in StackSizes :
      factory = [cur |-> IF size = 0 THEN Null ELSE StackSpace,
                 end |-> IF size = 0 THEN Null ELSE StackSpace + size,
                 provided |-> size, slabs |-> << >>, slabSize |-> FirstSlab]
  BY DEF Init
<1>1. size \in Nat /\ StackSpace + size - 1 <= Last
  BY SizesAssumption
<1>2. /\ factory.cur = (IF size = 0 THEN Null ELSE StackSpace)
      /\ factory.end = (IF size = 0 THEN Null ELSE StackSpace + size)
      /\ factory.provided = size /\ factory.slabs = << >> /\ factory.slabSize = FirstSlab
  OBVIOUS
<1>3. factory \in Factories
  BY <1>1, Sizes DEF Factories
<1>4. GoodFactory(factory)
  <2>1. factory.cur <= factory.end /\ factory.end <= Last + 1
    BY <1>1, <1>2, Sizes
  <2>2. factory.cur = Null => factory.end = Null
    BY <1>2, Sizes
  <2>3. FreeRange(factory) \subseteq Cells(StackSpace, factory.provided)
    BY <1>1, <1>2, Sizes DEF FreeRange, Cells
  <2>4. FreeRange(factory) \subseteq Owned(factory)
    BY <2>3 DEF Owned
  <2> QED
    BY <1>2, <1>3, <2>1, <2>2, <2>4 DEF GoodFactory
<1>5. memory \in Memories
  BY DEF Init, Blank, Memories, CellValues
<1>6. Shapes /\ Len(jobs) <= MaxJobs
  <2>1. NoNode \in NodeRecords /\ NoVector \in Vectors
    BY EmptyVector DEF NoNode, NodeRecords
  <2> QED
    BY <2>1, Sizes DEF Init, Shapes
<1>7. \A o \in Owners : Held[o] = {}
  BY NothingHeld DEF Init, Nothing
<1> QED
  BY <1>4, <1>5, <1>6, <1>7 DEF IInv, Apart

(***************************************************************************)
(* Each action preserves the invariant.                                    *)
(***************************************************************************)
LEMMA HoldingsAfter ==
  /\ <<"stack", 0>> \in Owners' /\ Held'[<<"stack", 0>>] = Array(stack', Word)
  /\ \A j \in 1..Len(jobs') :
       <<"saved", j>> \in Owners' /\ Held'[<<"saved", j>>] = Array(jobs'[j], Word)
  /\ \A n \in Nodes :
       /\ <<"node", n>> \in Owners' /\ <<"children", n>> \in Owners'
       /\ Held'[<<"node", n>>] =
            IF node'[n].self = Null THEN {} ELSE Cells(node'[n].self, NodeSize)
       /\ Held'[<<"children", n>>] = Array(node'[n].array, Word)
  /\ \A t \in Texts :
       <<"text", t>> \in Owners' /\ Held'[<<"text", t>>] = Array(text'[t], 1)
<1>1. <<"stack", 0>> \in Owners' /\ Held'[<<"stack", 0>>] = Array(stack', Word)
  BY DEF Owners, Held
<1>2. ASSUME NEW j \in 1..Len(jobs')
      PROVE  <<"saved", j>> \in Owners' /\ Held'[<<"saved", j>>] = Array(jobs'[j], Word)
  BY DEF Owners, Held
<1>3. ASSUME NEW n \in Nodes
      PROVE  /\ <<"node", n>> \in Owners' /\ <<"children", n>> \in Owners'
             /\ Held'[<<"node", n>>] =
                  IF node'[n].self = Null THEN {} ELSE Cells(node'[n].self, NodeSize)
             /\ Held'[<<"children", n>>] = Array(node'[n].array, Word)
  BY DEF Owners, Held
<1>4. ASSUME NEW t \in Texts
      PROVE  <<"text", t>> \in Owners' /\ Held'[<<"text", t>>] = Array(text'[t], 1)
  BY DEF Owners, Held
<1> QED
  BY <1>1, <1>2, <1>3, <1>4

LEMMA KindsAfter ==
  \A o \in Owners' :
    \/ o = <<"stack", 0>>
    \/ \E j \in 1..Len(jobs') : o = <<"saved", j>>
    \/ \E n \in Nodes : o = <<"node", n>>
    \/ \E n \in Nodes : o = <<"children", n>>
    \/ \E t \in Texts : o = <<"text", t>>
  BY DEF Owners

LEMMA NothingHeldAfter ==
  ASSUME Nothing'
  PROVE  \A o \in Owners' : Held'[o] = {}
<1>1. (Nothing => \A o \in Owners : Held[o] = {})'
  BY NothingHeld, PTL
<1> QED
  BY <1>1

LEMMA Begins == IInv /\ Begin => IInv'
<1> SUFFICES ASSUME IInv, Begin PROVE IInv'
  OBVIOUS
<1>1. PICK r \in Allocate(factory, InitialCapacity * Word, Word) :
        /\ factory' = r.factory
        /\ stack' = [at |-> r.at, num |-> 0, cap |-> InitialCapacity]
  BY DEF Begin
<1>2. /\ GoodFactory(factory) /\ memory \in Memories /\ Len(jobs) <= MaxJobs
      /\ stack \in Vectors /\ jobs \in Seq(Vectors)
      /\ node \in [Nodes -> NodeRecords] /\ text \in [Texts -> Vectors]
  BY DEF IInv, Shapes
<1>3. InitialCapacity * Word \in Nat /\ Word \in Nat \ {0} /\ InitialCapacity \in Nat
  BY Sizes, Product
<1>4. /\ GoodFactory(factory') /\ r.at \in Nat
      /\ Used(factory) \subseteq Used(factory')
      /\ Cells(r.at, InitialCapacity * Word) \subseteq Used(factory') \ Used(factory)
  BY <1>1, <1>2, <1>3, Allocation
<1>5. stack' \in Vectors /\ stack'.at = r.at /\ stack'.cap = InitialCapacity
  BY <1>1, <1>3, <1>4 DEF Vectors
<1>6. Array(stack', Word) \subseteq Used(factory') \ Used(factory)
  BY <1>4, <1>5 DEF Array
<1>7. /\ jobs' = Append(jobs, stack) /\ Len(jobs) < MaxJobs
      /\ UNCHANGED <<memory, node, text>>
  BY DEF Begin
<1> DEFINE k == Len(jobs)
<1>8. /\ jobs' \in Seq(Vectors) /\ k \in Nat /\ Len(jobs') = k + 1
      /\ jobs'[k + 1] = stack /\ \A j \in 1..k : jobs'[j] = jobs[j]
  BY <1>2, <1>7
<1>9. Shapes' /\ Len(jobs') <= MaxJobs
  BY <1>2, <1>5, <1>7, <1>8, Sizes DEF Shapes
<1> DEFINE was == [p \in Owners' |-> IF p = <<"saved", k + 1>> THEN <<"stack", 0>> ELSE p]
           o == <<"stack", 0>>
<1>10. \A p \in Owners' \ {o} : was[p] \in Owners /\ Held'[p] = Held[was[p]]
  <2> HIDE DEF k
  <2>1. ASSUME NEW j \in 1..Len(jobs')
        PROVE  /\ was[<<"saved", j>>] \in Owners
               /\ Held'[<<"saved", j>>] = Held[was[<<"saved", j>>]]
    <3>1. CASE j = k + 1
      BY <1>8, <3>1, Holdings, HoldingsAfter
    <3>2. CASE j # k + 1
      <4>1. j \in 1..k
        BY <1>8, <3>2
      <4>2. was[<<"saved", j>>] = <<"saved", j>>
        BY <3>2, HoldingsAfter
      <4>3. jobs'[j] = jobs[j]
        BY <1>8, <4>1
      <4> QED
        BY <4>1, <4>2, <4>3, Holdings, HoldingsAfter DEF k
    <3> QED
      BY <3>1, <3>2
  <2>2. ASSUME NEW n \in Nodes
        PROVE  /\ was[<<"node", n>>] = <<"node", n>>
               /\ was[<<"children", n>>] = <<"children", n>>
    BY HoldingsAfter
  <2>3. ASSUME NEW t \in Texts
        PROVE  was[<<"text", t>>] = <<"text", t>>
    BY HoldingsAfter
  <2> HIDE DEF was
  <2>4. ASSUME NEW n \in Nodes
        PROVE  /\ was[<<"node", n>>] \in Owners /\ was[<<"children", n>>] \in Owners
               /\ Held'[<<"node", n>>] = Held[was[<<"node", n>>]]
               /\ Held'[<<"children", n>>] = Held[was[<<"children", n>>]]
    BY <1>7, <2>2, Holdings, HoldingsAfter
  <2>5. ASSUME NEW t \in Texts
        PROVE  /\ was[<<"text", t>>] \in Owners
               /\ Held'[<<"text", t>>] = Held[was[<<"text", t>>]]
    BY <1>7, <2>3, Holdings, HoldingsAfter
  <2> QED
    BY <2>1, <2>4, <2>5, KindsAfter
<1>11. \A p, q \in Owners' \ {o} : p # q => was[p] # was[q]
  BY DEF was
<1>12. Apart'
  <2> DEFINE D == Owners
             E == Owners'
             F == Held
             G == Held'
             U == Used(factory)
             V == Used(factory')
  <2>1. /\ \A p \in D : F[p] \subseteq U
        /\ \A p, q \in D : p # q => F[p] \cap F[q] = {}
    BY DEF IInv, Apart
  <2>2. G[o] \subseteq V \ U
    BY <1>6, HoldingsAfter
  <2>3. /\ U \subseteq V /\ G[o] \subseteq V \ U
        /\ \A p \in E \ {o} : was[p] \in D /\ G[p] = F[was[p]]
        /\ \A p, q \in E \ {o} : p # q => was[p] # was[q]
    BY <1>4, <1>10, <1>11, <2>2
  <2>4. Owners' = E /\ Held' = G /\ Used(factory)' = V
    OBVIOUS
  <2> HIDE DEF D, E, F, G, U, V, o, was
  <2>5. /\ \A p \in E : G[p] \subseteq V
        /\ \A p, q \in E : p # q => G[p] \cap G[q] = {}
    BY <2>1, <2>3, Moved
  <2>6. /\ \A p \in Owners' : Held'[p] \subseteq Used(factory)'
        /\ \A p, q \in Owners' : p # q => Held'[p] \cap Held'[q] = {}
    BY <2>4, <2>5
  <2> QED
    BY <2>6 DEF Apart
<1> QED
  BY <1>2, <1>4, <1>7, <1>9, <1>12 DEF IInv

LEMMA Ends == IInv /\ End => IInv'
<1> SUFFICES ASSUME IInv, End PROVE IInv'
  OBVIOUS
<1> DEFINE k == Len(jobs)
<1>1. /\ GoodFactory(factory) /\ memory \in Memories /\ Len(jobs) <= MaxJobs
      /\ stack \in Vectors /\ jobs \in Seq(Vectors)
      /\ node \in [Nodes -> NodeRecords] /\ text \in [Texts -> Vectors]
  BY DEF IInv, Shapes
<1>2. /\ jobs # << >> /\ stack' = jobs[k] /\ jobs' = SubSeq(jobs, 1, k - 1)
      /\ UNCHANGED <<factory, memory, node, text>>
  BY DEF End
<1>3. k \in Nat \ {0}
  BY <1>1, <1>2
<1>4. /\ jobs' \in Seq(Vectors) /\ Len(jobs') = k - 1 /\ stack' \in Vectors
      /\ \A j \in 1..(k - 1) : jobs'[j] = jobs[j]
  <2> DEFINE rest == SubSeq(jobs, 1, k - 1)
  <2>1. k \in 1..Len(jobs) /\ k - 1 \in Nat /\ k - 1 <= Len(jobs)
    BY <1>3
  <2>2. jobs[k] \in Vectors
    BY <1>1, <2>1
  <2> HIDE DEF k
  <2>3. Len(rest) = k - 1 /\ \A j \in 1..(k - 1) : rest[j] = jobs[j]
    BY <1>1, <2>1
  <2>4. rest \in Seq(Vectors)
    BY <1>1, <2>1
  <2> QED
    BY <1>2, <2>2, <2>3, <2>4
<1>5. Shapes' /\ Len(jobs') <= MaxJobs
  <2>1. Len(jobs') <= MaxJobs
    BY <1>1, <1>3, <1>4, Sizes
  <2> QED
    BY <2>1, <1>1, <1>2, <1>4 DEF Shapes
<1> DEFINE was == [p \in Owners' |-> IF p = <<"stack", 0>> THEN <<"saved", k>> ELSE p]
<1>6. \A p \in Owners' : was[p] \in Owners /\ Held'[p] = Held[was[p]]
  <2>1. ASSUME NEW j \in 1..Len(jobs')
        PROVE  /\ was[<<"saved", j>>] \in Owners
               /\ Held'[<<"saved", j>>] = Held[was[<<"saved", j>>]]
    <3>1. j \in 1..(k - 1) /\ j \in 1..Len(jobs)
      BY <1>3, <1>4
    <3>2. was[<<"saved", j>>] = <<"saved", j>>
      BY HoldingsAfter
    <3>3. jobs'[j] = jobs[j]
      BY <1>4, <3>1
    <3> QED
      BY <3>1, <3>2, <3>3, Holdings, HoldingsAfter
  <2>2. was[<<"stack", 0>>] \in Owners /\ Held'[<<"stack", 0>>] = Held[was[<<"stack", 0>>]]
    <3>1. was[<<"stack", 0>>] = <<"saved", k>>
      BY HoldingsAfter
    <3>2. k \in 1..Len(jobs) /\ stack' = jobs[k]
      BY <1>2, <1>3
    <3> QED
      BY <3>1, <3>2, Holdings, HoldingsAfter
  <2>3. ASSUME NEW n \in Nodes
        PROVE  /\ was[<<"node", n>>] = <<"node", n>>
               /\ was[<<"children", n>>] = <<"children", n>>
    BY HoldingsAfter
  <2>4. ASSUME NEW t \in Texts
        PROVE  was[<<"text", t>>] = <<"text", t>>
    BY HoldingsAfter
  <2> HIDE DEF was
  <2>5. ASSUME NEW n \in Nodes
        PROVE  /\ was[<<"node", n>>] \in Owners /\ was[<<"children", n>>] \in Owners
               /\ Held'[<<"node", n>>] = Held[was[<<"node", n>>]]
               /\ Held'[<<"children", n>>] = Held[was[<<"children", n>>]]
    BY <1>2, <2>3, Holdings, HoldingsAfter
  <2>6. ASSUME NEW t \in Texts
        PROVE  /\ was[<<"text", t>>] \in Owners
               /\ Held'[<<"text", t>>] = Held[was[<<"text", t>>]]
    BY <1>2, <2>4, Holdings, HoldingsAfter
  <2> QED
    BY <2>1, <2>2, <2>5, <2>6, KindsAfter
<1>7. \A p, q \in Owners' : p # q => was[p] # was[q]
  <2>1. <<"saved", k>> \notin Owners'
    BY <1>3, <1>4 DEF Owners
  <2> QED
    BY <2>1
<1>8. Apart'
  <2> DEFINE D == Owners
             E == Owners'
             F == Held
             G == Held'
             U == Used(factory)
             o == <<"nobody", 0>>
  <2>1. /\ \A p \in D : F[p] \subseteq U
        /\ \A p, q \in D : p # q => F[p] \cap F[q] = {}
    BY DEF IInv, Apart
  <2>2. o \notin E
    BY DEF Owners
  <2>3. /\ \A p \in E \ {o} : was[p] \in D /\ G[p] = F[was[p]]
        /\ \A p, q \in E \ {o} : p # q => was[p] # was[q]
    BY <1>6, <1>7
  <2>4. Owners' = E /\ Held' = G /\ Used(factory)' = U
    BY <1>2 DEF Used, Owned, FreeRange
  <2> HIDE DEF D, E, F, G, U, o, was
  <2>5. /\ \A p \in E : G[p] \subseteq U
        /\ \A p, q \in E : p # q => G[p] \cap G[q] = {}
    BY <2>1, <2>2, <2>3, Moved
  <2>6. /\ \A p \in Owners' : Held'[p] \subseteq Used(factory)'
        /\ \A p, q \in Owners' : p # q => Held'[p] \cap Held'[q] = {}
    BY <2>4, <2>5
  <2> QED
    BY <2>6 DEF Apart
<1> QED
  BY <1>1, <1>2, <1>5, <1>8 DEF IInv

LEMMA Clears == IInv /\ Clear => IInv'
<1> SUFFICES ASSUME IInv, Clear PROVE IInv'
  OBVIOUS
<1>1. factory' = Recycled /\ memory' = Blank /\ Nothing' /\ GoodFactory(factory)
      /\ Len(jobs) <= MaxJobs
  BY DEF Clear, Nothing, IInv
<1>2. GoodFactory(factory')
  <2>1. CASE factory.slabs = << >>
    BY <1>1, <2>1 DEF Recycled
  <2>2. CASE factory.slabs # << >>
    <3> DEFINE slab == factory.slabs[Len(factory.slabs)]
    <3>1. slab \in [at : Nat, size : Nat] /\ slab.at \in Nat /\ slab.size \in Nat
      <4> DEFINE S == [at : Nat, size : Nat]
                 n == Len(factory.slabs)
      <4>1. factory.slabs \in Seq(S)
        BY <1>1 DEF GoodFactory, Factories
      <4>2. \A e \in S : e.at \in Nat /\ e.size \in Nat
        OBVIOUS
      <4> HIDE DEF S
      <4>3. n \in 1..n
        BY <2>2, <4>1
      <4>4. factory.slabs[n] \in S
        BY <4>1, <4>3
      <4> QED
        BY <4>2, <4>4 DEF S
    <3>2. factory.end = slab.at + Header + slab.size /\ factory.end <= Last + 1
      BY <1>1, <2>2 DEF GoodFactory
    <3>3. factory' = [factory EXCEPT !.cur = slab.at + Header, !.slabs = <<slab>>]
      BY <1>1, <2>2 DEF Recycled
    <3> HIDE DEF slab
    <3>4. slab.at + Header \in Nat /\ slab.at + Header > 0
          /\ slab.at + Header <= slab.at + Header + slab.size
      BY <3>1, Sizes
    <3>5. /\ factory' \in Factories
          /\ factory'.cur = slab.at + Header /\ factory'.end = factory.end
          /\ factory'.slabs = <<slab>> /\ factory'.provided = factory.provided
      <4> DEFINE c == slab.at + Header
                 slabs == <<slab>>
      <4>1. /\ factory \in Factories /\ c \in Nat /\ slabs \in Seq([at : Nat, size : Nat])
            /\ factory' = [factory EXCEPT !.cur = c, !.slabs = slabs]
        BY <1>1, <3>1, <3>3, <3>4 DEF GoodFactory
      <4>2. /\ factory' \in Factories /\ factory'.cur = c /\ factory'.end = factory.end
            /\ factory'.slabs = slabs /\ factory'.provided = factory.provided
        <5> HIDE DEF c, slabs
        <5> QED
          BY <4>1 DEF Factories
      <4> QED
        BY <4>2
    <3>6. FreeRange(factory') \subseteq SlabRange(slab)
      BY <3>1, <3>2, <3>5, Sizes DEF FreeRange, SlabRange, Cells
    <3>7. Len(factory'.slabs) = 1 /\ factory'.slabs[1] = slab
      BY <3>5
    <3>8. SlabRange(slab) \subseteq Owned(factory')
      BY <3>7 DEF Owned
    <3> QED
      BY <3>2, <3>4, <3>5, <3>6, <3>7, <3>8 DEF GoodFactory
  <2> QED
    BY <2>1, <2>2
<1>3. memory' \in Memories
  BY <1>1 DEF Blank, Memories, CellValues
<1>4. Shapes' /\ Len(jobs') <= MaxJobs
  <2>1. NoNode \in NodeRecords /\ NoVector \in Vectors
    BY EmptyVector DEF NoNode, NodeRecords
  <2> QED
    BY <1>1, <2>1, Sizes DEF Nothing, Shapes
<1>5. Apart'
  BY <1>1, NothingHeldAfter DEF Apart
<1> QED
  BY <1>2, <1>3, <1>4, <1>5 DEF IInv

\* A step that gives to one owner and leaves the jobs alone preserves the
\* invariant, when its values have their types.
LEMMA GivingStep ==
  ASSUME IInv, UNCHANGED jobs, GoodFactory(factory'), memory' \in Memories, Shapes',
         Used(factory) \subseteq Used(factory'),
         NEW o \in Owners, \A p \in Owners \ {o} : Held'[p] = Held[p],
         Held'[o] \subseteq Used(factory'),
         Held'[o] \cap Used(factory) \subseteq Held[o]
  PROVE  IInv'
<1>1. Apart'
  BY Giving DEF IInv
<1> QED
  BY <1>1 DEF IInv

LEMMA SameStep ==
  ASSUME IInv, UNCHANGED <<factory, jobs>>, memory' \in Memories, Shapes',
         \A p \in Owners \ {<<"nobody", 0>>} : Held'[p] = Held[p]
  PROVE  IInv'
<1>0. \A p \in Owners : Held'[p] = Held[p]
  BY DEF Owners
<1>1. GoodFactory(factory') /\ Used(factory') = Used(factory)
  BY DEF IInv
<1>2. <<"stack", 0>> \in Owners /\ Apart
  BY Holdings DEF IInv
<1>3. /\ Held'[<<"stack", 0>>] \subseteq Used(factory')
      /\ Held'[<<"stack", 0>>] \cap Used(factory) \subseteq Held[<<"stack", 0>>]
  BY <1>0, <1>1, <1>2 DEF Apart
<1> QED
  BY <1>0, <1>1, <1>2, <1>3, GivingStep

\* Every owner but o holds what it held where its array is as it was.
LEMMA SameHeld ==
  ASSUME UNCHANGED jobs, NEW o,
         o # <<"stack", 0>> => Array(stack', Word) = Array(stack, Word),
         \A n \in Nodes : o # <<"node", n>> => node'[n].self = node[n].self,
         \A n \in Nodes : o # <<"children", n>> =>
           Array(node'[n].array, Word) = Array(node[n].array, Word),
         \A t \in Texts : o # <<"text", t>> => Array(text'[t], 1) = Array(text[t], 1)
  PROVE  \A p \in Owners \ {o} : Held'[p] = Held[p]
<1>1. o # <<"stack", 0>> => Held'[<<"stack", 0>>] = Held[<<"stack", 0>>]
  BY Holdings, HoldingsAfter
<1>2. \A j \in 1..Len(jobs) : Held'[<<"saved", j>>] = Held[<<"saved", j>>]
  BY Holdings, HoldingsAfter
<1>3. ASSUME NEW n \in Nodes, o # <<"node", n>>
      PROVE  Held'[<<"node", n>>] = Held[<<"node", n>>]
  <2>1. Held[<<"node", n>>] =
          IF node[n].self = Null THEN {} ELSE Cells(node[n].self, NodeSize)
    BY Holdings
  <2>2. Held'[<<"node", n>>] =
          IF node'[n].self = Null THEN {} ELSE Cells(node'[n].self, NodeSize)
    BY HoldingsAfter
  <2>3. node'[n].self = node[n].self
    BY <1>3
  <2> QED
    BY <2>1, <2>2, <2>3
<1>4. ASSUME NEW n \in Nodes, o # <<"children", n>>
      PROVE  Held'[<<"children", n>>] = Held[<<"children", n>>]
  <2>1. Held[<<"children", n>>] = Array(node[n].array, Word)
    BY Holdings
  <2>2. Held'[<<"children", n>>] = Array(node'[n].array, Word)
    BY HoldingsAfter
  <2> QED
    BY <1>4, <2>1, <2>2
<1>5. \A t \in Texts : o # <<"text", t>> => Held'[<<"text", t>>] = Held[<<"text", t>>]
  BY Holdings, HoldingsAfter
<1> QED
  BY <1>1, <1>2, <1>3, <1>4, <1>5, Kinds

LEMMA Pushes == ASSUME IInv, NEW x \in Values, Push(x) PROVE IInv'
<1>1. /\ GoodFactory(factory) /\ memory \in Memories /\ Apart
      /\ stack \in Vectors /\ jobs \in Seq(Vectors)
      /\ node \in [Nodes -> NodeRecords] /\ text \in [Texts -> Vectors]
  BY DEF IInv, Shapes
<1>2. PICK r \in PushBack(factory, memory, stack, x, Word) :
        factory' = r.factory /\ memory' = r.memory /\ stack' = r.vector
  BY DEF Push
<1>3. UNCHANGED <<jobs, node, text>>
  BY DEF Push
<1> DEFINE o == <<"stack", 0>>
<1>4. o \in Owners /\ Held[o] = Array(stack, Word) /\ Held'[o] = Array(stack', Word)
  BY Holdings, HoldingsAfter
<1>5. Array(stack, Word) \subseteq Used(factory)
  BY <1>1, <1>4 DEF Apart
<1>6. x \in CellValues /\ Word \in Nat \ {0}
  BY Sizes DEF CellValues
<1>7. Grown(factory, factory', stack, stack', Word) /\ memory' \in Memories
  BY <1>1, <1>2, <1>5, <1>6, PushingBack
<1>8. \A p \in Owners \ {o} : Held'[p] = Held[p]
  BY <1>3, SameHeld
<1>9. Shapes'
  BY <1>1, <1>3, <1>7 DEF Shapes, Grown
<1>10. /\ GoodFactory(factory') /\ Used(factory) \subseteq Used(factory')
       /\ Held'[o] \subseteq Used(factory')
       /\ Held'[o] \cap Used(factory) \subseteq Held[o]
  BY <1>4, <1>7 DEF Grown
<1> HIDE DEF o
<1> QED
  BY <1>3, <1>4, <1>7, <1>8, <1>9, <1>10, GivingStep

LEMMA Pops == ASSUME IInv, Pop PROVE IInv'
<1>1. stack \in Vectors /\ stack' = [stack EXCEPT !.num = @ - 1] /\ Shapes
  BY DEF IInv, Shapes, Pop
<1> DEFINE k == stack.num - 1
<1>2. k \in Int /\ stack' = [stack EXCEPT !.num = k]
  BY <1>1 DEF Vectors
<1> HIDE DEF k
<1>3. stack' \in Vectors /\ Array(stack', Word) = Array(stack, Word)
  BY <1>1, <1>2, NumWith
<1>4. UNCHANGED <<factory, memory, jobs, node, text>>
  BY DEF Pop
<1>5. Shapes' /\ memory' \in Memories
  BY <1>1, <1>3, <1>4 DEF Shapes, IInv
<1>6. \A p \in Owners \ {<<"nobody", 0>>} : Held'[p] = Held[p]
  BY <1>3, <1>4, SameHeld
<1> QED
  BY <1>4, <1>5, <1>6, SameStep

LEMMA CreatesNode == ASSUME IInv, NEW n \in Nodes, CreateNode(n) PROVE IInv'
<1>1. /\ GoodFactory(factory) /\ memory \in Memories /\ Apart /\ Shapes
      /\ node \in [Nodes -> NodeRecords]
  BY DEF IInv, Shapes
<1>2. PICK r \in Allocate(factory, NodeSize, Word) :
        factory' = r.factory /\ node' = [node EXCEPT ![n].self = r.at]
  BY DEF CreateNode
<1>3. UNCHANGED <<memory, stack, jobs, text>>
  BY DEF CreateNode
<1>4. NodeSize \in Nat /\ Word \in Nat \ {0}
  BY Sizes
<1>5. /\ GoodFactory(factory') /\ r.at \in Nat
      /\ Used(factory) \subseteq Used(factory')
      /\ Cells(r.at, NodeSize) \subseteq Used(factory') \ Used(factory)
  BY <1>1, <1>2, <1>4, Allocation
<1>6. /\ node' \in [Nodes -> NodeRecords] /\ node'[n].self = r.at
      /\ \A q \in Nodes \ {n} : node'[q] = node[q]
      /\ \A q \in Nodes : node'[q].array = node[q].array
  BY <1>1, <1>2, <1>5 DEF NodeRecords
<1>7. Shapes'
  BY <1>1, <1>3, <1>6 DEF Shapes
<1> DEFINE o == <<"node", n>>
<1>8. o \in Owners /\ Held'[o] \subseteq Used(factory') \ Used(factory)
  <2>1. o \in Owners
    BY DEF Owners
  <2>2. Held'[o] =
          IF node'[n].self = Null THEN {} ELSE Cells(node'[n].self, NodeSize)
    BY HoldingsAfter
  <2> HIDE DEF o
  <2>3. Held'[o] \subseteq Cells(r.at, NodeSize)
    BY <1>6, <2>2
  <2> QED
    BY <1>5, <2>1, <2>3
<1>9. \A p \in Owners \ {o} : Held'[p] = Held[p]
  <2>1. \A q \in Nodes : o # <<"node", q>> => node'[q].self = node[q].self
    BY <1>6
  <2> QED
    BY <1>3, <1>6, <2>1, SameHeld
<1> HIDE DEF o
<1>10. Held'[o] \cap Used(factory) \subseteq Held[o] /\ Held'[o] \subseteq Used(factory')
  BY <1>8
<1>11. memory' \in Memories
  BY <1>1, <1>3
<1> QED
  BY <1>3, <1>5, <1>7, <1>8, <1>9, <1>10, <1>11, GivingStep

LEMMA AddsChild ==
  ASSUME IInv, NEW n \in Nodes, NEW x \in Values, AddChild(n, x)
  PROVE  IInv'
<1>1. /\ GoodFactory(factory) /\ memory \in Memories /\ Apart /\ Shapes
      /\ node \in [Nodes -> NodeRecords] /\ node[n] \in NodeRecords
  BY DEF IInv, Shapes
<1>2. PICK r \in WithChild(factory, memory, node[n], x) :
        factory' = r.factory /\ memory' = r.memory /\ node' = [node EXCEPT ![n] = r.node]
  BY DEF AddChild
<1>3. UNCHANGED <<stack, jobs, text>>
  BY DEF AddChild
<1> DEFINE o == <<"children", n>>
<1>4. Array(node[n].array, Word) \subseteq Used(factory)
  BY <1>1, Holdings DEF Apart
<1>5. x \in CellValues
  BY DEF CellValues
<1>6. /\ Grown(factory, factory', node[n].array, r.node.array, Word)
      /\ memory' \in Memories
      /\ r.node \in NodeRecords /\ r.node.self = node[n].self
  BY <1>1, <1>2, <1>4, <1>5, AddingChild
<1>7. /\ node' \in [Nodes -> NodeRecords] /\ node'[n] = r.node
      /\ \A q \in Nodes \ {n} : node'[q] = node[q]
  BY <1>1, <1>2, <1>6
<1>8. Shapes'
  BY <1>1, <1>3, <1>7 DEF Shapes
<1>9. o \in Owners /\ Held[o] = Array(node[n].array, Word)
      /\ Held'[o] = Array(r.node.array, Word)
  BY <1>7, Holdings, HoldingsAfter
<1>10. \A p \in Owners \ {o} : Held'[p] = Held[p]
  <2>1. \A q \in Nodes : node'[q].self = node[q].self
    BY <1>6, <1>7
  <2>2. \A q \in Nodes : o # <<"children", q>> =>
          Array(node'[q].array, Word) = Array(node[q].array, Word)
    BY <1>7
  <2> QED
    BY <1>3, <2>1, <2>2, SameHeld
<1>11. /\ GoodFactory(factory') /\ Used(factory) \subseteq Used(factory')
       /\ Held'[o] \subseteq Used(factory')
       /\ Held'[o] \cap Used(factory) \subseteq Held[o]
  BY <1>6, <1>9 DEF Grown
<1> HIDE DEF o
<1> QED
  BY <1>3, <1>6, <1>8, <1>9, <1>10, <1>11, GivingStep

LEMMA RemovesChild ==
  ASSUME IInv, NEW n \in Nodes, NEW i \in 1..NumChildren(node[n]), RemoveChildAt(n, i)
  PROVE  IInv'
<1>1. /\ memory \in Memories /\ Shapes
      /\ node \in [Nodes -> NodeRecords] /\ node[n] \in NodeRecords
      /\ node[n].array \in Vectors /\ node[n].inline \in Int /\ node[n].array.num \in Int
  BY DEF IInv, Shapes, NodeRecords, Vectors
<1>2. UNCHANGED <<factory, stack, jobs, text>>
  BY DEF RemoveChildAt
<1>3. memory' \in Memories
  BY <1>1, Writing DEF RemoveChildAt, WithoutChild
<1> DEFINE fewer == [node[n].array EXCEPT !.num = @ - 1]
           less == [node[n] EXCEPT !.inline = @ - 1]
           more == [node[n] EXCEPT !.array = fewer]
<1>4. fewer \in Vectors /\ Array(fewer, Word) = Array(node[n].array, Word)
  <2> DEFINE k == node[n].array.num - 1
  <2>1. k \in Int /\ fewer = [node[n].array EXCEPT !.num = k]
    BY <1>1
  <2> HIDE DEF k, fewer
  <2> QED
    BY <1>1, <2>1, NumWith
<1>5. less \in NodeRecords /\ less.array = node[n].array /\ less.self = node[n].self
  <2> DEFINE k == node[n].inline - 1
  <2>1. k \in Int /\ less = [node[n] EXCEPT !.inline = k]
    BY <1>1
  <2> HIDE DEF k, less
  <2> QED
    BY <1>1, <2>1, NodeWithInline
<1> HIDE DEF fewer
<1>6. more \in NodeRecords /\ more.array = fewer /\ more.self = node[n].self
  BY <1>1, <1>4, NodeWithArray
<1>7. PICK nd \in {less, more} : node' = [node EXCEPT ![n] = nd]
  <2>1. node' = [node EXCEPT ![n].array.num = @ - 1] \/ node' = [node EXCEPT ![n].inline = @ - 1]
    BY DEF RemoveChildAt
  <2> QED
    BY <2>1 DEF fewer
<1> HIDE DEF less, more
<1>8. /\ node' \in [Nodes -> NodeRecords] /\ node'[n] = nd
      /\ \A q \in Nodes \ {n} : node'[q] = node[q]
  BY <1>1, <1>5, <1>6, <1>7
<1>9. /\ nd.self = node[n].self
      /\ Array(nd.array, Word) = Array(node[n].array, Word)
  BY <1>4, <1>5, <1>6, <1>7
<1>10. Shapes'
  BY <1>1, <1>2, <1>8 DEF Shapes
<1>11. \A q \in Nodes : /\ node'[q].self = node[q].self
                        /\ Array(node'[q].array, Word) = Array(node[q].array, Word)
  BY <1>8, <1>9
<1>12. \A p \in Owners \ {<<"nobody", 0>>} : Held'[p] = Held[p]
  BY <1>2, <1>11, SameHeld
<1> QED
  BY <1>2, <1>3, <1>10, <1>12, SameStep

LEMMA ReversesChildren ==
  ASSUME IInv, NEW n \in Nodes, NEW i, ReverseChildren(n, i)
  PROVE  IInv'
<1>1. UNCHANGED <<factory, stack, jobs, node, text>>
  BY DEF ReverseChildren
<1>2. memory' \in Memories
  BY Writing DEF ReverseChildren, IInv
<1>3. Shapes'
  BY <1>1 DEF IInv, Shapes
<1>4. \A p \in Owners \ {<<"nobody", 0>>} : Held'[p] = Held[p]
  BY <1>1, SameHeld
<1> QED
  BY <1>1, <1>2, <1>3, <1>4, SameStep

LEMMA Appends ==
  ASSUME IInv, NEW t \in Texts, NEW xs \in Seq(CellValues), NEW extra \in Seq(CellValues),
         NEW growth \in Nat, AppendWith(t, xs, extra, growth)
  PROVE  IInv'
<1>1. /\ GoodFactory(factory) /\ memory \in Memories /\ Apart /\ Shapes
      /\ text \in [Texts -> Vectors] /\ text[t] \in Vectors
  BY DEF IInv, Shapes
<1>2. PICK r \in AppendChars(factory, memory, text[t], xs, extra, growth) :
        factory' = r.factory /\ memory' = r.memory /\ text' = [text EXCEPT ![t] = r.vector]
  BY DEF AppendWith
<1>3. UNCHANGED <<stack, jobs, node>>
  BY DEF AppendWith
<1> DEFINE o == <<"text", t>>
<1>4. Array(text[t], 1) \subseteq Used(factory)
  BY <1>1, Holdings DEF Apart
<1>5. Grown(factory, factory', text[t], r.vector, 1) /\ memory' \in Memories
  BY <1>1, <1>2, <1>4, Appending
<1>6. /\ text' \in [Texts -> Vectors] /\ text'[t] = r.vector
      /\ \A q \in Texts \ {t} : text'[q] = text[q]
  BY <1>1, <1>2, <1>5 DEF Grown
<1>7. Shapes'
  BY <1>1, <1>3, <1>6 DEF Shapes
<1>8. o \in Owners /\ Held[o] = Array(text[t], 1) /\ Held'[o] = Array(r.vector, 1)
  BY <1>6, Holdings, HoldingsAfter
<1>9. \A p \in Owners \ {o} : Held'[p] = Held[p]
  <2>1. \A q \in Texts : o # <<"text", q>> => Array(text'[q], 1) = Array(text[q], 1)
    BY <1>6
  <2> QED
    BY <1>3, <2>1, SameHeld
<1>10. /\ GoodFactory(factory') /\ Used(factory) \subseteq Used(factory')
       /\ Held'[o] \subseteq Used(factory')
       /\ Held'[o] \cap Used(factory) \subseteq Held[o]
  BY <1>5, <1>8 DEF Grown
<1> HIDE DEF o
<1> QED
  BY <1>3, <1>5, <1>7, <1>8, <1>9, <1>10, GivingStep

(***************************************************************************)
(* The invariant, and what follows from it.                                *)
(***************************************************************************)
LEMMA Steps == IInv /\ [Next]_vars => IInv'
<1> SUFFICES ASSUME IInv, [Next]_vars PROVE IInv'
  OBVIOUS
<1>1. CASE Begin
  BY <1>1, Begins
<1>2. CASE End
  BY <1>2, Ends
<1>3. CASE Clear
  BY <1>3, Clears
<1>4. CASE Pop
  BY <1>4, Pops
<1>5. ASSUME NEW x \in Values, Push(x) PROVE IInv'
  BY <1>5, Pushes
<1>6. ASSUME NEW n \in Nodes, CreateNode(n) PROVE IInv'
  BY <1>6, CreatesNode
<1>7. ASSUME NEW n \in Nodes, NEW x \in Values, AddChild(n, x) PROVE IInv'
  BY <1>7, AddsChild
<1>8. ASSUME NEW n \in Nodes, NEW i \in 1..NumChildren(node[n]),
             RemoveChildAt(n, i) \/ ReverseChildren(n, i)
      PROVE  IInv'
  BY <1>8, RemovesChild, ReversesChildren
<1>9. \A xs \in Strings : xs \in Seq(CellValues) /\ Len(xs) \in Nat
  <2> SUFFICES ASSUME NEW k \in 1..MaxString, NEW xs \in [1..k -> Values]
               PROVE  xs \in Seq(CellValues) /\ Len(xs) \in Nat
    BY DEF Strings
  <2>1. xs \in Seq(CellValues)
    BY DEF CellValues
  <2> QED
    BY <2>1
<1>10. ASSUME NEW t \in Texts, NEW xs \in Strings, AppendString(t, xs) PROVE IInv'
  <2>1. << >> \in Seq(CellValues) /\ xs \in Seq(CellValues) /\ Len(xs) \in Nat
    BY <1>9
  <2> QED
    BY <1>10, <2>1, Appends DEF AppendString
<1>11. ASSUME NEW t \in Texts, NEW xs \in Numbers, AppendNumber(t, xs) PROVE IInv'
  <2>1. xs \in Seq(CellValues)
    BY <1>9 DEF Numbers
  <2>2. <<Null>> \in Seq(CellValues) /\ MaxPrintSize \in Nat
    BY Sizes DEF CellValues
  <2> QED
    BY <1>11, <2>1, <2>2, Appends DEF AppendNumber
<1>12. CASE UNCHANGED vars
  <2>1. UNCHANGED <<factory, memory, stack, jobs, node, text>>
    BY <1>12 DEF vars
  <2>2. Shapes' /\ memory' \in Memories
    BY <2>1 DEF IInv, Shapes
  <2>3. \A p \in Owners \ {<<"nobody", 0>>} : Held'[p] = Held[p]
    BY <2>1, SameHeld
  <2> QED
    BY <2>1, <2>2, <2>3, SameStep
<1> QED
  BY <1>1, <1>2, <1>3, <1>4, <1>5, <1>6, <1>7, <1>8, <1>10, <1>11, <1>12 DEF Next

\* IInv is an invariant of every demangler: sizes, bounds and the places that
\* malloc chooses are arbitrary (Demangler.h:133-207, Demangler.cpp:306-543).
THEOREM Invariance == Spec => []IInv
  BY Initially, Steps, PTL DEF Spec

\* What the demangler holds is in memory it owns, apart from anything else it
\* holds and from what it gives out next (Demangler.h:133-207).
THEOREM MemoryApart == Spec => []Apart
<1>1. IInv => Apart
  BY DEF IInv
<1> QED
  BY <1>1, Invariance, PTL

\* The variables have their types; the free range is within the addresses
\* (Demangler.h:39-74, 245-250, 443-450).
THEOREM TypeCorrect == Spec => []TypeOK
<1>1. IInv => TypeOK
  <2> SUFFICES ASSUME IInv PROVE TypeOK
    OBVIOUS
  <2>1. factory.cur \in Nat /\ factory.end \in Nat
        /\ factory.cur <= factory.end /\ factory.end <= Last + 1
    BY DEF IInv, GoodFactory, Factories
  <2>2. factory.cur \in 0..Last + 1 /\ factory.end \in 0..Last + 1
    BY <2>1, Sizes
  <2> QED
    BY <2>2 DEF IInv, TypeOK, Memories, CellValues
<1> QED
  BY <1>1, Invariance, PTL

(***************************************************************************)
(* The sizes of the slabs. What a recursive function is for every number   *)
(* follows by induction on the numbers: a set with 0 and with the successor *)
(* of each of its members below n has all numbers up to n, since counting  *)
(* one further would otherwise map it into itself without 0, one to one.   *)
(***************************************************************************)
LEMMA UpTo ==
  ASSUME NEW n \in Nat, NEW S, 0 \in S, \A k \in S : k \in 0..(n - 1) => k + 1 \in S
  PROVE  0..n \subseteq S
<1> SUFFICES ASSUME NEW j \in 0..n, j \notin S PROVE FALSE
  OBVIOUS
<1> DEFINE T == S \cap 0..j
           f == [k \in T |-> k + 1]
<1>1. IsFiniteSet(0..j) /\ T \in SUBSET (0..j)
  BY FS_Interval
<1>2. IsFiniteSet(T)
  BY <1>1, FS_Subset
<1>3. 0 \in T
  OBVIOUS
<1>4. IsFiniteSet(T \ {0}) /\ Cardinality(T \ {0}) = Cardinality(T) - 1
  BY <1>2, <1>3, FS_RemoveElement
<1>5. Cardinality(T) \in Nat
  BY <1>2, FS_CardinalityType
<1>6. ASSUME NEW k \in T PROVE k + 1 \in T \ {0}
  <2>1. k \in 0..j /\ k \in S /\ k # j
    OBVIOUS
  <2>2. k \in 0..(n - 1) /\ k + 1 \in 0..j
    BY <2>1
  <2> QED
    BY <2>1, <2>2
<1>7. f \in [T -> T \ {0}]
  BY <1>6
<1> HIDE DEF T
<1>8. Cardinality(T \ {0}) < Cardinality(T)
  BY <1>4, <1>5
<1>9. \E x, y \in T : x # y /\ f[x] = f[y]
  <2> HIDE DEF f
  <2> QED
    BY <1>2, <1>4, <1>7, <1>8, FS_PigeonHole
<1> QED
  BY <1>9 DEF T

Slabs == Seq([at : Nat, size : Nat])
Sum(h, slabs, k) ==
    /\ h \in [0..k -> Nat] /\ h[0] = 0
    /\ \A i \in 1..k : h[i] = h[i - 1] + slabs[i].size

LEMMA SizesOf ==
  ASSUME NEW slabs \in Slabs
  PROVE  \A i \in 1..Len(slabs) : slabs[i].size \in Nat
<1> DEFINE R == [at : Nat, size : Nat]
<1>1. \A i \in 1..Len(slabs) : slabs[i] \in R
  <2> HIDE DEF R
  <2>1. slabs \in Seq(R)
    BY DEF Slabs, R
  <2> QED
    BY <2>1
<1> QED
  BY <1>1

LEMMA SumExists ==
  ASSUME NEW slabs \in Slabs, NEW n \in Nat, n <= Len(slabs)
  PROVE  \E h : Sum(h, slabs, n)
<1> DEFINE S == {k \in 0..n : \E h : Sum(h, slabs, k)}
<1>1. 0 \in S
  <2> DEFINE h == [i \in 0..0 |-> 0]
  <2>1. Sum(h, slabs, 0)
    BY DEF Sum
  <2> QED
    BY <2>1
<1>2. ASSUME NEW k \in S, k \in 0..(n - 1) PROVE k + 1 \in S
  <2>1. PICK h : Sum(h, slabs, k)
    OBVIOUS
  <2> DEFINE g == [i \in 0..(k + 1) |-> IF i = k + 1 THEN h[k] + slabs[k + 1].size ELSE h[i]]
  <2>2. slabs[k + 1].size \in Nat /\ k \in Nat /\ k + 1 \in 0..n
    <3>1. k + 1 \in 1..Len(slabs)
      BY <1>2
    <3> QED
      BY <1>2, <3>1, SizesOf
  <2>3. h \in [0..k -> Nat] /\ h[0] = 0 /\ h[k] \in Nat
    BY <2>1, <2>2 DEF Sum
  <2>4. \A i \in 1..k : h[i] = h[i - 1] + slabs[i].size
    BY <2>1 DEF Sum
  <2>5. g \in [0..(k + 1) -> Nat] /\ g[0] = 0
    BY <2>2, <2>3
  <2>6. g[k + 1] = g[(k + 1) - 1] + slabs[k + 1].size
    BY <2>2
  <2>7. \A i \in 1..k : g[i] = h[i] /\ g[i - 1] = h[i - 1]
    BY <2>2
  <2> HIDE DEF g
  <2>8. \A i \in 1..(k + 1) : g[i] = g[i - 1] + slabs[i].size
    BY <2>2, <2>4, <2>6, <2>7
  <2>9. Sum(g, slabs, k + 1)
    BY <2>5, <2>8 DEF Sum
  <2> QED
    BY <2>2, <2>9
<1> HIDE DEF S
<1>3. 0..n \subseteq S
  BY <1>1, <1>2, UpTo
<1> QED
  BY <1>3 DEF S

LEMMA BeforeIsSum ==
  ASSUME NEW slabs \in Slabs
  PROVE  Sum(Before(slabs), slabs, Len(slabs))
<1> DEFINE n == Len(slabs)
           Eq(h) == h = [i \in 0..n |-> IF i = 0 THEN 0 ELSE h[i - 1] + slabs[i].size]
           g == Before(slabs)
<1>1. n \in Nat
  BY DEF Slabs
<1>2. g = CHOOSE h : Eq(h)
  BY DEF Before
<1>3. PICK h : Sum(h, slabs, n)
  BY <1>1, SumExists
<1>4. Eq(h)
  <2>1. h \in [0..n -> Nat]
    BY <1>3 DEF Sum
  <2>2. \A i \in 0..n : h[i] = IF i = 0 THEN 0 ELSE h[i - 1] + slabs[i].size
    BY <1>1, <1>3 DEF Sum
  <2> QED
    BY <2>1, <2>2
<1>5. Eq(g)
  <2> HIDE DEF Eq, g
  <2> QED
    BY <1>2, <1>4
<1> HIDE DEF g
<1>6. g[0] = 0 /\ \A i \in 1..n : g[i] = g[i - 1] + slabs[i].size
  BY <1>1, <1>5
<1>7. \A i \in 1..n : slabs[i].size \in Nat
  BY SizesOf
<1> DEFINE S == {k \in 0..n : g[k] \in Nat}
<1>8. 0 \in S
  BY <1>1, <1>6
<1>9. ASSUME NEW k \in S, k \in 0..(n - 1) PROVE k + 1 \in S
  <2>1. k + 1 \in 1..n /\ (k + 1) - 1 = k
    BY <1>1, <1>9
  <2>2. g[k + 1] = g[k] + slabs[k + 1].size
    BY <1>6, <2>1
  <2> HIDE DEF n
  <2> QED
    BY <1>1, <1>7, <2>1, <2>2
<1> HIDE DEF S
<1>10. 0..n \subseteq S
  <2> HIDE DEF n
  <2> QED
    BY <1>1, <1>8, <1>9, UpTo
<1>11. \A i \in 0..n : g[i] \in Nat
  BY <1>10 DEF S
<1>12. g \in [0..n -> Nat]
  <2>1. g = [i \in 0..n |-> IF i = 0 THEN 0 ELSE g[i - 1] + slabs[i].size]
    BY <1>5
  <2> HIDE DEF n
  <2> QED
    BY <1>11, <2>1
<1> QED
  BY <1>6, <1>12 DEF Sum, g

\* The sums do not depend on the slabs behind.
LEMMA SumsAgree ==
  ASSUME NEW n \in Nat, NEW g, NEW h, NEW slabs, NEW more, NEW m \in Nat, n <= m,
         Sum(g, slabs, n), Sum(h, more, m),
         \A i \in 1..n : more[i] = slabs[i]
  PROVE  \A i \in 0..n : h[i] = g[i]
<1> DEFINE S == {k \in 0..n : h[k] = g[k]}
<1>1. 0 \in S
  BY DEF Sum
<1>2. ASSUME NEW k \in S, k \in 0..(n - 1) PROVE k + 1 \in S
  <2>1. k + 1 \in 1..n /\ k + 1 \in 1..m /\ (k + 1) - 1 = k
    BY <1>2
  <2>2. g[k + 1] = g[k] + slabs[k + 1].size /\ h[k + 1] = h[k] + more[k + 1].size
    BY <2>1 DEF Sum
  <2> QED
    BY <2>1, <2>2
<1> HIDE DEF S
<1>3. 0..n \subseteq S
  BY <1>1, <1>2, UpTo
<1> QED
  BY <1>3 DEF S

\* The last of the slabs is as large as those before together.
GoodSlabs(f) ==
    f.slabs # << >> =>
      /\ f.slabs[Len(f.slabs)].size >= Before(f.slabs)[Len(f.slabs) - 1]
      /\ f.slabs[Len(f.slabs)].size = f.slabSize

LEMMA SlabAdded ==
  ASSUME NEW f \in Factories, GoodSlabs(f), NEW size \in Nat, size >= 2 * f.slabSize,
         NEW p \in Nat
  PROVE  GoodSlabs(NewSlab(f, size, p))
<1> DEFINE n == Len(f.slabs)
           slab == [at |-> p, size |-> size]
           g == NewSlab(f, size, p)
<1>1. f.slabs \in Slabs /\ n \in Nat /\ f.slabSize \in Nat /\ slab \in [at : Nat, size : Nat]
  BY DEF Factories, Slabs
<1>2. /\ g.slabs = Append(f.slabs, slab)
      /\ g.slabSize = size
  BY NewSlabFields DEF NewSlab, Factories
<1>3. slab.size = size
  OBVIOUS
<1> HIDE DEF slab, g
<1>4. /\ g.slabs \in Slabs /\ Len(g.slabs) = n + 1 /\ g.slabs[n + 1] = slab
      /\ \A i \in 1..n : g.slabs[i] = f.slabs[i]
  BY <1>1, <1>2 DEF Slabs
<1> DEFINE b == Before(f.slabs)
           c == Before(g.slabs)
<1>5. Sum(b, f.slabs, n)
  BY <1>1, BeforeIsSum
<1>6. Sum(c, g.slabs, n + 1)
  BY <1>4, BeforeIsSum
<1>7. c[n] = b[n]
  <2> HIDE DEF n, b, c
  <2>1. n + 1 \in Nat /\ n <= n + 1
    BY <1>1
  <2>2. \A i \in 0..n : c[i] = b[i]
    BY <1>1, <1>4, <1>5, <1>6, <2>1, SumsAgree
  <2> QED
    BY <1>1, <2>2
<1>8. b[n] <= size
  <2>1. CASE n = 0
    BY <1>5, <2>1 DEF Sum
  <2>2. CASE n # 0
    <3>1. n \in 1..n /\ n - 1 \in 0..n
      BY <1>1, <2>2
    <3>2. b[n] = b[n - 1] + f.slabs[n].size /\ b[n - 1] \in Nat /\ f.slabs[n].size \in Nat
      <4>1. f.slabs[n].size \in Nat
        BY <1>1, <3>1, SizesOf
      <4> HIDE DEF n, b
      <4>2. b \in [0..n -> Nat] /\ \A i \in 1..n : b[i] = b[i - 1] + f.slabs[i].size
        BY <1>5 DEF Sum
      <4> QED
        BY <3>1, <4>1, <4>2
    <3>3. f.slabs[n].size >= b[n - 1] /\ f.slabs[n].size = f.slabSize
      BY <1>1, <2>2 DEF GoodSlabs
    <3> QED
      BY <1>1, <3>2, <3>3
  <2> QED
    BY <2>1, <2>2
<1>9. (n + 1) - 1 = n
  BY <1>1
<1> HIDE DEF n, b, c
<1>10. /\ g.slabs[Len(g.slabs)].size >= c[Len(g.slabs) - 1]
       /\ g.slabs[Len(g.slabs)].size = g.slabSize
  BY <1>2, <1>3, <1>4, <1>7, <1>8, <1>9
<1> QED
  BY <1>10 DEF GoodSlabs, g, c

LEMMA SameSlabs ==
  ASSUME NEW f, NEW g, g.slabs = f.slabs, g.slabSize = f.slabSize, GoodSlabs(f)
  PROVE  GoodSlabs(g)
  BY DEF GoodSlabs

LEMMA CurOnly ==
  ASSUME NEW f \in Factories, NEW c, GoodSlabs(f)
  PROVE  GoodSlabs([f EXCEPT !.cur = c])
<1>1. /\ [f EXCEPT !.cur = c].slabs = f.slabs
      /\ [f EXCEPT !.cur = c].slabSize = f.slabSize
  BY DEF Factories
<1> QED
  BY <1>1, SameSlabs

LEMMA AllocationSlabs ==
  ASSUME NEW f \in Factories, GoodSlabs(f), NEW n \in Nat, NEW a \in Nat \ {0},
         NEW r \in Allocate(f, n, a)
  PROVE  GoodSlabs(r.factory)
<1>1. CASE Fits(f, n, a)
  <2>1. r.factory = [f EXCEPT !.cur = Align(f.cur, a) + n]
    BY <1>1 DEF Allocate, Carved
  <2> QED
    BY <2>1, CurOnly
<1>2. CASE ~Fits(f, n, a)
  <2> DEFINE size == SlabSize(f, n, a)
  <2>1. PICK p \in Malloc(f, Header + size) : r = Carved(NewSlab(f, size, p), n, a)
    BY <1>2 DEF Allocate
  <2>2. f.slabSize \in Nat
    BY DEF Factories
  <2>3. size \in Nat /\ size >= 2 * f.slabSize
    BY <2>2 DEF SlabSize, Larger
  <2> HIDE DEF size
  <2>4. p \in Nat
    <3>1. p \in Places
      BY DEF Malloc
    <3> QED
      BY <3>1, SizesAssumption
  <2> DEFINE g == NewSlab(f, size, p)
  <2>5. GoodSlabs(g) /\ g \in Factories
    BY <2>3, <2>4, SlabAdded, NewSlabFields
  <2> HIDE DEF g
  <2>6. r.factory = [g EXCEPT !.cur = Align(g.cur, a) + n]
    <3>1. r = Carved(g, n, a)
      BY <2>1 DEF g
    <3> QED
      BY <3>1 DEF Carved
  <2> QED
    BY <2>5, <2>6, CurOnly
<1> QED
  BY <1>1, <1>2

LEMMA ReallocationSlabs ==
  ASSUME NEW f \in Factories, GoodSlabs(f), NEW m, NEW v \in Vectors,
         NEW growth \in Nat, NEW s \in Nat \ {0}, NEW r \in Reallocate(f, m, v, growth, s)
  PROVE  GoodSlabs(r.factory)
<1>1. CASE InPlace(f, v, growth, s)
  <2>1. r.factory = [f EXCEPT !.cur = f.cur + growth * s]
    BY <1>1 DEF Reallocate, Made
  <2> QED
    BY <2>1, CurOnly
<1>2. CASE ~InPlace(f, v, growth, s)
  <2> DEFINE cap == v.cap + Growth(v, growth)
  <2>0. PICK q \in Allocate(f, cap * s, s) :
          r = Made(q.factory, Copy(m, v.at, q.at, v.cap * s),
                   [v EXCEPT !.at = q.at, !.cap = cap])
    BY <1>2 DEF Reallocate
  <2>1. r.factory = q.factory
    BY <2>0 DEF Made
  <2>2. cap \in Nat
    BY Sizes DEF Growth, Larger, Vectors
  <2> HIDE DEF cap
  <2>3. cap * s \in Nat
    BY <2>2, Product
  <2> QED
    BY <2>1, <2>3, AllocationSlabs
<1> QED
  BY <1>1, <1>2

LEMMA RoomSlabs ==
  ASSUME NEW f \in Factories, GoodSlabs(f), NEW m, NEW v \in Vectors, NEW n,
         NEW growth \in Nat, NEW s \in Nat \ {0}, NEW r \in WithRoom(f, m, v, n, growth, s)
  PROVE  GoodSlabs(r.factory)
<1>1. CASE v.num + n > v.cap
  BY <1>1, ReallocationSlabs DEF WithRoom
<1>2. CASE ~(v.num + n > v.cap)
  BY <1>2 DEF WithRoom, Made
<1> QED
  BY <1>1, <1>2

LEMMA PushingSlabs ==
  ASSUME NEW f \in Factories, GoodSlabs(f), NEW m, NEW v \in Vectors, NEW x,
         NEW s \in Nat \ {0}, NEW r \in PushBack(f, m, v, x, s)
  PROVE  GoodSlabs(r.factory)
<1>1. PICK q \in WithRoom(f, m, v, 1, 1, s) : r.factory = q.factory
  BY DEF PushBack, Made
<1> QED
  BY <1>1, RoomSlabs

LEMMA ChildSlabs ==
  ASSUME NEW f \in Factories, GoodSlabs(f), NEW m, NEW nd \in NodeRecords, NEW x,
         NEW r \in WithChild(f, m, nd, x)
  PROVE  GoodSlabs(r.factory)
<1>0. Word \in Nat \ {0} /\ nd.array \in Vectors
  BY Sizes DEF NodeRecords
<1>1. CASE r \in FurtherChild(f, m, nd, x)
  <2>1. PICK q \in PushBack(f, m, nd.array, x, Word) : r.factory = q.factory
    BY <1>1 DEF FurtherChild
  <2> QED
    BY <1>0, <2>1, PushingSlabs
<1>2. CASE r \in ThirdChild(f, m, nd, x)
  <2> DEFINE Header2(q) == WriteAt(q.memory, nd.self, 2 * Word, Junk)
             Many(q) == [nd EXCEPT !.array = [q.vector EXCEPT !.num = 3], !.inline = 0]
             Two(q) == SetChild(SetChild(Header2(q), Many(q), 1, Child(m, nd, 1)),
                                Many(q), 2, Child(m, nd, 2))
             Third(q) == SetChild(Two(q), Many(q), 3, x)
  <2>0. PICK q \in Reallocate(f, m, NoVector, 3, Word) :
          r = [factory |-> q.factory, memory |-> Third(q), node |-> Many(q)]
    BY <1>2 DEF ThirdChild
  <2> HIDE DEF Many, Third
  <2>1. r.factory = q.factory
    BY <2>0
  <2>2. NoVector \in Vectors
    BY DEF NoVector, Vectors
  <2> QED
    BY <1>0, <2>1, <2>2, ReallocationSlabs
<1>3. CASE r \in InlineChild(f, m, nd, x)
  BY <1>3 DEF InlineChild
<1>4. \/ r \in FurtherChild(f, m, nd, x)
      \/ r \in ThirdChild(f, m, nd, x)
      \/ r \in InlineChild(f, m, nd, x)
  <2>1. CASE IsMany(nd)
    BY <2>1 DEF WithChild
  <2>2. CASE ~IsMany(nd) /\ nd.inline = 2
    BY <2>2 DEF WithChild
  <2>3. CASE ~IsMany(nd) /\ nd.inline # 2
    BY <2>3 DEF WithChild
  <2> QED
    BY <2>1, <2>2, <2>3
<1> QED
  BY <1>1, <1>2, <1>3, <1>4

LEMMA AppendingSlabs ==
  ASSUME IInv, GoodSlabs(factory), NEW t \in Texts, NEW xs, NEW extra,
         NEW growth \in Nat, AppendWith(t, xs, extra, growth)
  PROVE  GoodSlabs(factory')
<1>1. factory \in Factories /\ text[t] \in Vectors
  BY DEF IInv, GoodFactory, Shapes
<1>2. PICK q \in WithRoom(factory, memory, text[t], growth, growth, 1) :
        factory' = q.factory
  BY DEF AppendWith, AppendChars, Made
<1> QED
  BY <1>1, <1>2, RoomSlabs

\* The last slab is kept, and the sum of those before it is 0.
LEMMA RecyclingSlabs ==
  ASSUME factory \in Factories, GoodSlabs(factory)
  PROVE  GoodSlabs(Recycled)
<1>1. CASE factory.slabs = << >>
  BY <1>1 DEF Recycled
<1>2. CASE factory.slabs # << >>
  <2> DEFINE slab == factory.slabs[Len(factory.slabs)]
             one == <<slab>>
  <2>1. factory.slabs \in Slabs /\ Len(factory.slabs) \in 1..Len(factory.slabs)
    BY <1>2 DEF Factories, Slabs
  <2>2. slab.size \in Nat
    BY <2>1, SizesOf
  <2>3. one \in Slabs
    <3> DEFINE R == [at : Nat, size : Nat]
    <3>1. factory.slabs \in Seq(R)
      BY <2>1 DEF Slabs
    <3> HIDE DEF R
    <3>2. slab \in R
      BY <2>1, <3>1
    <3> HIDE DEF slab
    <3>3. one \in Seq(R)
      BY <3>2
    <3> QED
      BY <3>3 DEF Slabs, R
  <2>4. Recycled.slabs = one /\ Recycled.slabSize = factory.slabSize
    BY <1>2 DEF Recycled, Factories
  <2>5. slab.size = factory.slabSize
    BY <1>2 DEF GoodSlabs
  <2>6. Len(one) = 1 /\ one[1] = slab
    OBVIOUS
  <2> HIDE DEF slab, one
  <2>7. Before(one)[0] = 0
    BY <2>3, BeforeIsSum DEF Sum
  <2> QED
    BY <2>2, <2>4, <2>5, <2>6, <2>7 DEF GoodSlabs
<1> QED
  BY <1>1, <1>2

SlabsGood == GoodSlabs(factory)

LEMMA SlabSteps == IInv /\ GoodSlabs(factory) /\ [Next]_vars => GoodSlabs(factory')
<1> SUFFICES ASSUME IInv, GoodSlabs(factory), [Next]_vars PROVE GoodSlabs(factory')
  OBVIOUS
<1>0. /\ factory \in Factories /\ stack \in Vectors
      /\ \A n \in Nodes : node[n] \in NodeRecords
      /\ Word \in Nat \ {0} /\ NodeSize \in Nat /\ MaxPrintSize \in Nat
      /\ InitialCapacity * Word \in Nat
  <2>1. InitialCapacity * Word \in Nat
    BY Sizes, Product
  <2> QED
    BY <2>1, Sizes DEF IInv, GoodFactory, Shapes
<1>1. CASE Begin
  <2>1. PICK r \in Allocate(factory, InitialCapacity * Word, Word) : factory' = r.factory
    BY <1>1 DEF Begin
  <2> QED
    BY <1>0, <2>1, AllocationSlabs
<1>2. CASE End \/ Pop \/ UNCHANGED vars
  BY <1>2 DEF End, Pop, vars
<1>3. CASE Clear
  BY <1>0, <1>3, RecyclingSlabs DEF Clear
<1>4. ASSUME NEW x \in Values, Push(x) PROVE GoodSlabs(factory')
  <2>1. PICK r \in PushBack(factory, memory, stack, x, Word) : factory' = r.factory
    BY <1>4 DEF Push
  <2> QED
    BY <1>0, <2>1, PushingSlabs
<1>5. ASSUME NEW n \in Nodes, CreateNode(n) PROVE GoodSlabs(factory')
  <2>1. PICK r \in Allocate(factory, NodeSize, Word) : factory' = r.factory
    BY <1>5 DEF CreateNode
  <2> QED
    BY <1>0, <2>1, AllocationSlabs
<1>6. ASSUME NEW n \in Nodes, NEW x \in Values, AddChild(n, x) PROVE GoodSlabs(factory')
  <2>1. PICK r \in WithChild(factory, memory, node[n], x) : factory' = r.factory
    BY <1>6 DEF AddChild
  <2> QED
    BY <1>0, <2>1, ChildSlabs
<1>7. ASSUME NEW n \in Nodes, NEW i, RemoveChildAt(n, i) \/ ReverseChildren(n, i)
      PROVE  GoodSlabs(factory')
  BY <1>7 DEF RemoveChildAt, ReverseChildren
<1>8. ASSUME NEW t \in Texts, NEW xs \in Strings, AppendString(t, xs)
      PROVE  GoodSlabs(factory')
  <2>1. Len(xs) \in Nat
    BY DEF Strings
  <2> QED
    BY <1>8, <2>1, AppendingSlabs DEF AppendString
<1>9. ASSUME NEW t \in Texts, NEW xs \in Numbers, AppendNumber(t, xs)
      PROVE  GoodSlabs(factory')
  BY <1>0, <1>9, AppendingSlabs DEF AppendNumber
<1> QED
  BY <1>1, <1>2, <1>3, <1>4, <1>5, <1>6, <1>7, <1>8, <1>9 DEF Next

\* When the demangler is cleared, the one slab it keeps is at least as large
\* as all those it gives back together (Demangler.h:141-147, Demangler.cpp:433-455).
THEOREM SlabKept == Spec => []LastSlabSuffices
<1>1. Init => SlabsGood
  BY DEF Init, GoodSlabs, SlabsGood
<1>2. IInv /\ SlabsGood /\ [Next]_vars => SlabsGood'
  BY SlabSteps DEF SlabsGood
<1>3. IInv /\ SlabsGood => LastSlabSuffices
  <2> SUFFICES ASSUME IInv, GoodSlabs(factory), Len(factory.slabs) > 0
               PROVE  /\ factory.slabs[Len(factory.slabs)].size
                           >= Before(factory.slabs)[Len(factory.slabs) - 1]
                      /\ factory.slabs[Len(factory.slabs)].size = factory.slabSize
                      /\ factory.end = factory.slabs[Len(factory.slabs)].at + Header
                                         + factory.slabs[Len(factory.slabs)].size
    BY DEF LastSlabSuffices, SlabsGood
  <2>1. factory.slabs # << >>
    OBVIOUS
  <2> QED
    BY <2>1 DEF IInv, GoodFactory, GoodSlabs
<1> QED
  BY <1>1, <1>2, <1>3, Invariance, PTL DEF Spec
=============================================================================

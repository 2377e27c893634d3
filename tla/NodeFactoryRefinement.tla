------------------------ MODULE NodeFactoryRefinement ------------------------
(***************************************************************************)
(* The lists that the memory of the demangler holds are those of           *)
(* DemangleJobs, for any sizes, bounds and placement of slabs.             *)
(*                                                                         *)
(* What an operation writes is in memory of the list that it changes, and  *)
(* no other list has any of that (Apart). So it is enough that each        *)
(* operation makes of its own list what DemangleJobs says, wherever the    *)
(* list is then; that follows from where the cells of an element are.      *)
(***************************************************************************)
EXTENDS NodeFactoryProofs

USE DEF Null

(***************************************************************************)
(* Reading memory.                                                         *)
(***************************************************************************)
LEMMA AtOf ==
  ASSUME NEW m \in Memories, NEW q
  PROVE  At(m, q) = IF q \in 1..Last THEN m[q] ELSE Junk
  BY DEF At, Memories

LEMMA AtWriteAt ==
  ASSUME NEW m \in Memories, NEW p, NEW s, NEW x \in CellValues, NEW q
  PROVE  At(WriteAt(m, p, s, x), q) =
           IF q \in 1..Last /\ q \in Cells(p, s) THEN x ELSE At(m, q)
<1>1. WriteAt(m, p, s, x) = [a \in 1..Last |-> IF a \in Cells(p, s) THEN x ELSE m[a]]
  BY DEF WriteAt, Memories
<1>2. WriteAt(m, p, s, x) \in Memories
  BY Writing
<1> QED
  BY <1>1, <1>2, AtOf

LEMMA AtCopy ==
  ASSUME NEW m \in Memories, NEW from, NEW to, NEW n, NEW q
  PROVE  At(Copy(m, from, to, n), q) =
           IF q \in 1..Last /\ q \in Cells(to, n) THEN At(m, from + (q - to))
           ELSE At(m, q)
<1>1. Copy(m, from, to, n) =
        [a \in 1..Last |-> IF a \in Cells(to, n) THEN At(m, from + (a - to)) ELSE m[a]]
  BY DEF Copy, Memories
<1>2. Copy(m, from, to, n) \in Memories
  BY Writing
<1> QED
  BY <1>1, <1>2, AtOf

\* Memory m2 holds from p2 on what m holds from p on.
SameCells(m, p, m2, p2, s) == \A e \in 0..(s - 1) : At(m2, p2 + e) = At(m, p + e)

LEMMA ReadMoved ==
  ASSUME NEW m, NEW m2, NEW p \in Int, NEW p2 \in Int, NEW s \in Nat \ {0},
         SameCells(m, p, m2, p2, s)
  PROVE  ReadAt(m2, p2, s) = ReadAt(m, p, s)
<1>1. At(m2, p2) = At(m, p)
  <2>1. 0 \in 0..(s - 1) /\ p2 + 0 = p2 /\ p + 0 = p
    OBVIOUS
  <2> QED
    BY <2>1 DEF SameCells
<1>2. ASSUME \A q \in Cells(p, s) : At(m, q) = At(m, p), NEW q \in Cells(p2, s)
      PROVE  At(m2, q) = At(m2, p2)
  <2>1. q - p2 \in 0..(s - 1) /\ p2 + (q - p2) = q /\ p + (q - p2) \in Cells(p, s)
    BY DEF Cells
  <2> QED
    BY <1>1, <1>2, <2>1 DEF SameCells
<1>3. ASSUME \A q \in Cells(p2, s) : At(m2, q) = At(m2, p2), NEW q \in Cells(p, s)
      PROVE  At(m, q) = At(m, p)
  <2>1. q - p \in 0..(s - 1) /\ p + (q - p) = q /\ p2 + (q - p) \in Cells(p2, s)
    BY DEF Cells
  <2> QED
    BY <1>1, <1>3, <2>1 DEF SameCells
<1> QED
  BY <1>1, <1>2, <1>3 DEF ReadAt

LEMMA ReadWritten ==
  ASSUME NEW m, NEW p \in Int, NEW s \in Nat \ {0}, NEW x,
         \A q \in Cells(p, s) : At(m, q) = x
  PROVE  ReadAt(m, p, s) = x
<1>1. p \in Cells(p, s)
  BY DEF Cells
<1> QED
  BY <1>1 DEF ReadAt

(***************************************************************************)
(* The cells of the elements of an array.                                  *)
(***************************************************************************)
LEMMA Multiples ==
  ASSUME NEW j \in Int, NEW k \in Int, j <= k, NEW s \in Nat
  PROVE  j * s \in Int /\ k * s \in Int /\ j * s <= k * s
  OBVIOUS

LEMMA OneMore ==
  ASSUME NEW k \in Int, NEW s \in Nat
  PROVE  (k + 1) * s = k * s + s /\ k * s \in Int /\ (k - 1) * s + s = k * s
  OBVIOUS

LEMMA Distributed ==
  ASSUME NEW j \in Int, NEW k \in Int, NEW s \in Nat
  PROVE  /\ j * s + k * s = (j + k) * s
         /\ j * s \in Int /\ k * s \in Int /\ (j + k) * s \in Int
  OBVIOUS

LEMMA ElementWithin ==
  ASSUME NEW n \in Int, NEW i \in 1..n, NEW s \in Nat, NEW e \in 0..(s - 1)
  PROVE  (i - 1) * s + e \in 0..(n * s - 1)
<1>1. (i - 1) * s >= 0 /\ (i - 1) * s \in Int
  <2>1. 0 * s <= (i - 1) * s /\ (i - 1) * s \in Int
    BY Multiples
  <2> QED
    BY <2>1
<1>2. (i - 1) * s + s = i * s /\ i * s \in Int
  BY OneMore
<1>3. i * s <= n * s /\ n * s \in Int
  BY Multiples
<1> QED
  BY <1>1, <1>2, <1>3

LEMMA ElementCells ==
  ASSUME NEW p \in Int, NEW n \in Int, NEW i \in 1..n, NEW s \in Nat
  PROVE  Cells(p + (i - 1) * s, s) \subseteq Cells(p, n * s)
<1> SUFFICES ASSUME NEW q \in Cells(p + (i - 1) * s, s)
             PROVE  q \in Cells(p, n * s)
  OBVIOUS
<1>1. (i - 1) * s \in Int /\ n * s \in Int
  BY Multiples
<1> DEFINE e == q - (p + (i - 1) * s)
<1>2. q \in Int /\ e \in 0..(s - 1) /\ q = p + ((i - 1) * s + e)
  BY <1>1 DEF Cells
<1>3. (i - 1) * s + e \in 0..(n * s - 1)
  BY <1>2, ElementWithin
<1> QED
  BY <1>1, <1>2, <1>3 DEF Cells

LEMMA CellsWithin ==
  ASSUME NEW p \in Int, NEW a \in Int, NEW n \in Int, NEW c \in Int, a >= 0, a + n <= c
  PROVE  Cells(p + a, n) \subseteq Cells(p, c)
  BY DEF Cells

LEMMA ElementsApart ==
  ASSUME NEW p \in Int, NEW i \in Int, NEW j \in Int, i # j, NEW s \in Nat
  PROVE  Cells(p + (i - 1) * s, s) \cap Cells(p + (j - 1) * s, s) = {}
<1>1. ASSUME NEW a \in Int, NEW b \in Int, a < b
      PROVE  Cells(p + (a - 1) * s, s) \cap Cells(p + (b - 1) * s, s) = {}
  <2>1. (a - 1) * s + s = a * s /\ (a - 1) * s \in Int /\ a * s \in Int
    BY OneMore
  <2>2. a * s <= (b - 1) * s /\ (b - 1) * s \in Int
    BY <1>1, Multiples
  <2> QED
    BY <2>1, <2>2 DEF Cells
<1>2. CASE i < j
  BY <1>1, <1>2
<1>3. CASE j < i
  BY <1>1, <1>3
<1> QED
  BY <1>2, <1>3

(***************************************************************************)
(* A list is the same wherever its cells are.                              *)
(***************************************************************************)
Filled(v) == v.num \in 0..v.cap

LEMMA ContentsMoved ==
  ASSUME NEW m, NEW m2, NEW v \in Vectors, NEW w \in Vectors, NEW s \in Nat \ {0},
         w.num = v.num,
         \A e \in 0..(v.num * s - 1) : At(m2, w.at + e) = At(m, v.at + e)
  PROVE  Contents(m2, w, s) = Contents(m, v, s)
<1>1. v.at \in Int /\ w.at \in Int /\ v.num \in Int
  BY DEF Vectors
<1>2. ASSUME NEW i \in 1..v.num
      PROVE  ReadAt(m2, w.at + (i - 1) * s, s) = ReadAt(m, v.at + (i - 1) * s, s)
  <2>1. (i - 1) * s \in Int
    BY <1>1, OneMore
  <2>2. ASSUME NEW e \in 0..(s - 1)
        PROVE  At(m2, (w.at + (i - 1) * s) + e) = At(m, (v.at + (i - 1) * s) + e)
    <3>1. (i - 1) * s + e \in 0..(v.num * s - 1)
      BY <1>1, ElementWithin
    <3>2. /\ (w.at + (i - 1) * s) + e = w.at + ((i - 1) * s + e)
          /\ (v.at + (i - 1) * s) + e = v.at + ((i - 1) * s + e)
      BY <1>1, <2>1
    <3> QED
      BY <3>1, <3>2
  <2>3. w.at + (i - 1) * s \in Int /\ v.at + (i - 1) * s \in Int
    BY <1>1, <2>1
  <2>4. SameCells(m, v.at + (i - 1) * s, m2, w.at + (i - 1) * s, s)
    BY <2>2 DEF SameCells
  <2> QED
    BY <2>3, <2>4, ReadMoved
<1> QED
  BY <1>2 DEF Contents

LEMMA ContentsKept ==
  ASSUME NEW m, NEW m2, NEW v \in Vectors, Filled(v), NEW s \in Nat \ {0},
         \A q \in Array(v, s) : At(m2, q) = At(m, q)
  PROVE  Contents(m2, v, s) = Contents(m, v, s)
<1>1. v.at \in Int /\ v.num \in Int /\ v.cap \in Int /\ v.num <= v.cap
  BY DEF Vectors, Filled
<1>2. v.num * s <= v.cap * s /\ v.num * s \in Int /\ v.cap * s \in Int
  BY <1>1, Multiples
<1>3. \A e \in 0..(v.num * s - 1) : At(m2, v.at + e) = At(m, v.at + e)
  BY <1>1, <1>2 DEF Array, Cells
<1> QED
  BY <1>3, ContentsMoved

LEMMA ContentsIs ==
  ASSUME NEW m \in Memories, NEW v, NEW s, v.num \in Nat
  PROVE  /\ Contents(m, v, s) \in Seq(CellValues) /\ Len(Contents(m, v, s)) = v.num
         /\ \A i \in 1..v.num : Contents(m, v, s)[i] = ReadAt(m, v.at + (i - 1) * s, s)
<1>1. Contents(m, v, s) \in [1..v.num -> CellValues]
  BY Writing DEF Contents
<1>2. \A i \in 1..v.num : Contents(m, v, s)[i] = ReadAt(m, v.at + (i - 1) * s, s)
  BY DEF Contents
<1> HIDE DEF Contents
<1> QED
  BY <1>1, <1>2

LEMMA SameSequence ==
  ASSUME NEW T, NEW a \in Seq(T), NEW b \in Seq(T), Len(a) = Len(b),
         \A i \in 1..Len(a) : a[i] = b[i]
  PROVE  a = b
  OBVIOUS

\* An element more, behind the others.
LEMMA ContentsPlus ==
  ASSUME NEW m \in Memories, NEW m2 \in Memories, NEW v \in Vectors, NEW w \in Vectors,
         Filled(v), NEW s \in Nat \ {0}, NEW x \in CellValues,
         w.at = v.at, w.num = v.num + 1,
         \A q \in Cells(v.at, v.num * s) : At(m2, q) = At(m, q),
         \A q \in Cells(v.at + v.num * s, s) : At(m2, q) = x
  PROVE  Contents(m2, w, s) = Append(Contents(m, v, s), x)
<1> DEFINE n == v.num
           old == Contents(m, v, s)
           new == Contents(m2, w, s)
<1>1. n \in Nat /\ v.at \in Int /\ w.num \in Nat
  BY DEF Vectors, Filled
<1>2. /\ old \in Seq(CellValues) /\ Len(old) = n
      /\ \A i \in 1..n : old[i] = ReadAt(m, v.at + (i - 1) * s, s)
  BY <1>1, ContentsIs
<1>3. /\ new \in Seq(CellValues) /\ Len(new) = n + 1
      /\ \A i \in 1..(n + 1) : new[i] = ReadAt(m2, v.at + (i - 1) * s, s)
  BY <1>1, ContentsIs
<1>4. \A i \in 1..n : new[i] = old[i]
  <2> TAKE i \in 1..n
  <2>1. v.at + (i - 1) * s \in Int
    BY <1>1, OneMore
  <2>2. Cells(v.at + (i - 1) * s, s) \subseteq Cells(v.at, n * s)
    <3>1. v.at \in Int /\ n \in Int /\ s \in Nat /\ i \in 1..n
      BY <1>1
    <3> HIDE DEF n
    <3> QED
      BY <3>1, ElementCells
  <2>3. \A e \in 0..(s - 1) :
          At(m2, (v.at + (i - 1) * s) + e) = At(m, (v.at + (i - 1) * s) + e)
    <3> TAKE e \in 0..(s - 1)
    <3>1. (v.at + (i - 1) * s) + e \in Cells(v.at + (i - 1) * s, s)
      BY <2>1 DEF Cells
    <3> QED
      BY <2>2, <3>1
  <2>4. ReadAt(m2, v.at + (i - 1) * s, s) = ReadAt(m, v.at + (i - 1) * s, s)
    BY <2>1, <2>3, ReadMoved DEF SameCells
  <2>5. i \in 1..(n + 1)
    BY <1>1
  <2> QED
    BY <1>2, <1>3, <2>4, <2>5
<1>5. new[n + 1] = x
  <2>1. v.at + n * s \in Int /\ n + 1 \in 1..(n + 1) /\ (n + 1) - 1 = n
    BY <1>1, OneMore
  <2>2. ReadAt(m2, v.at + n * s, s) = x
    <3> DEFINE p == v.at + n * s
    <3>1. p \in Int /\ \A q \in Cells(p, s) : At(m2, q) = x
      BY <2>1
    <3> HIDE DEF p
    <3>2. ReadAt(m2, p, s) = x
      BY <3>1, ReadWritten
    <3> QED
      BY <3>2 DEF p
  <2> QED
    BY <1>3, <2>1, <2>2
<1> HIDE DEF n, old, new
<1>6. Append(old, x) \in Seq(CellValues) /\ Len(Append(old, x)) = n + 1
      /\ Append(old, x)[n + 1] = x /\ \A i \in 1..n : Append(old, x)[i] = old[i]
  BY <1>1, <1>2
<1>7. \A i \in 1..(n + 1) : new[i] = Append(old, x)[i]
  BY <1>1, <1>4, <1>5, <1>6
<1>8. new = Append(old, x)
  BY <1>3, <1>6, <1>7, SameSequence
<1> QED
  BY <1>8 DEF old, new

(***************************************************************************)
(* Growth keeps the list, and changes no memory but that of its array.     *)
(***************************************************************************)
Within(f) == Owned(f) \subseteq 1..Last
OnlyIn(m, m2, A) == \A q \in (1..Last) \ A : At(m2, q) = At(m, q)

LEMMA SlabWithin ==
  ASSUME NEW f, GoodFactory(f), Within(f), NEW size \in Nat,
         NEW p \in Malloc(f, Header + size)
  PROVE  Within(NewSlab(f, size, p))
<1> DEFINE slab == [at |-> p, size |-> size]
           g == NewSlab(f, size, p)
<1>1. p \in Places /\ p + (Header + size) - 1 <= Last
  BY DEF Malloc
<1>2. p \in 1..Last
  BY <1>1, SizesAssumption
<1>3. p \in Nat /\ Header \in Nat /\ Last \in Nat
  BY <1>2, Sizes
<1>4. g.slabs = Append(f.slabs, slab) /\ g.provided = f.provided
  BY <1>3, NewSlabFields DEF GoodFactory
<1>5. slab.at = p /\ slab.size = size /\ slab \in [at : Nat, size : Nat]
  BY <1>3
<1> HIDE DEF slab, g
<1>6. SlabRange(slab) \subseteq 1..Last
  BY <1>1, <1>2, <1>3, <1>5 DEF SlabRange, Cells
<1>7. /\ f.slabs \in Seq([at : Nat, size : Nat]) /\ Len(f.slabs) \in Nat
      /\ Len(g.slabs) = Len(f.slabs) + 1
      /\ \A i \in 1..Len(g.slabs) :
           g.slabs[i] = IF i <= Len(f.slabs) THEN f.slabs[i] ELSE slab
  BY <1>4, <1>5 DEF GoodFactory, Factories
<1>8. ASSUME NEW i \in 1..Len(g.slabs) PROVE SlabRange(g.slabs[i]) \subseteq 1..Last
  <2>1. CASE i <= Len(f.slabs)
    <3>1. i \in 1..Len(f.slabs)
      BY <1>7, <2>1
    <3>2. SlabRange(f.slabs[i]) \subseteq Owned(f)
      BY <3>1 DEF Owned
    <3> QED
      BY <1>7, <2>1, <3>2 DEF Within
  <2>2. CASE ~(i <= Len(f.slabs))
    BY <1>6, <1>7, <2>2
  <2> QED
    BY <2>1, <2>2
<1>9. Cells(StackSpace, g.provided) \subseteq 1..Last
  BY <1>4 DEF Within, Owned
<1> QED
  BY <1>8, <1>9 DEF Within, Owned, g

LEMMA CurWithin ==
  ASSUME NEW f \in Factories, NEW c, Within(f)
  PROVE  Within([f EXCEPT !.cur = c])
<1>1. /\ [f EXCEPT !.cur = c].slabs = f.slabs
      /\ [f EXCEPT !.cur = c].provided = f.provided
  BY DEF Factories
<1> QED
  BY <1>1 DEF Within, Owned

LEMMA AllocationWithin ==
  ASSUME NEW f, GoodFactory(f), Within(f), NEW n \in Nat, NEW a \in Nat \ {0},
         NEW r \in Allocate(f, n, a)
  PROVE  /\ Within(r.factory) /\ GoodFactory(r.factory)
         /\ r.at \in Nat /\ Cells(r.at, n) \subseteq 1..Last
         /\ n > 0 => r.at # Null
<1>1. Within(r.factory)
  <2>1. CASE Fits(f, n, a)
    <3>1. r.factory = [f EXCEPT !.cur = Align(f.cur, a) + n]
      BY <2>1 DEF Allocate, Carved
    <3>2. f \in Factories
      BY DEF GoodFactory
    <3> QED
      BY <3>1, <3>2, CurWithin
  <2>2. CASE ~Fits(f, n, a)
    <3> DEFINE size == SlabSize(f, n, a)
    <3>1. PICK p \in Malloc(f, Header + size) : r = Carved(NewSlab(f, size, p), n, a)
      BY <2>2 DEF Allocate
    <3>2. f.slabSize \in Nat
      BY DEF GoodFactory, Factories
    <3>3. size \in Nat
      BY <3>2 DEF SlabSize, Larger
    <3> HIDE DEF size
    <3> DEFINE g == NewSlab(f, size, p)
    <3>4. Within(g) /\ g \in Factories
      BY <3>3, SlabWithin, FreshSlab DEF GoodFactory
    <3> HIDE DEF g
    <3>5. r = Carved(g, n, a)
      BY <3>1 DEF g
    <3>6. r.factory = [g EXCEPT !.cur = Align(g.cur, a) + n]
      BY <3>5 DEF Carved
    <3> QED
      BY <3>4, <3>6, CurWithin
  <2> QED
    BY <2>1, <2>2
<1>2. /\ GoodFactory(r.factory) /\ r.at \in Nat
      /\ Cells(r.at, n) \subseteq Used(r.factory)
  BY Allocation
<1>3. Cells(r.at, n) \subseteq 1..Last
  BY <1>1, <1>2 DEF Used, Within
<1>4. n > 0 => r.at # Null
  <2>1. n > 0 => r.at \in Cells(r.at, n)
    BY <1>2 DEF Cells
  <2> QED
    BY <1>3, <2>1
<1> QED
  BY <1>1, <1>2, <1>3, <1>4

\* w, in memory m2, is v, in memory m, with what room it may have got.
Regrown(f, m, v, g, m2, w, s) ==
    /\ Within(g) /\ Grown(f, g, v, w, s) /\ m2 \in Memories
    /\ w.num = v.num /\ w.cap >= v.cap
    /\ Array(w, s) \subseteq 1..Last
    /\ OnlyIn(m, m2, Array(w, s))
    /\ Contents(m2, w, s) = Contents(m, v, s)

LEMMA ArrayWithin ==
  ASSUME NEW f, Within(f), NEW A, A \subseteq Used(f)
  PROVE  A \subseteq 1..Last
  BY DEF Within, Used

LEMMA NumFields ==
  ASSUME NEW v \in Vectors, NEW k \in Int, NEW w, w = [v EXCEPT !.num = k]
  PROVE  /\ w \in Vectors /\ w.at = v.at /\ w.num = k /\ w.cap = v.cap
         /\ \A s : Array(w, s) = Array(v, s)
  BY DEF Vectors, Array

LEMMA ArrayThere ==
  ASSUME NEW v \in Vectors, v.cap > 0, NEW s \in Nat \ {0}, Array(v, s) \subseteq 1..Last
  PROVE  v.at # Null
<1>1. v.at \in Nat /\ v.cap \in Nat
  BY DEF Vectors
<1>2. v.cap * s \in Int /\ v.cap * s >= 1
  <2>1. 1 * s <= v.cap * s /\ v.cap * s \in Int
    BY <1>1, Multiples
  <2> QED
    BY <2>1
<1>3. v.at \in Array(v, s)
  BY <1>1, <1>2 DEF Array, Cells
<1> QED
  BY <1>3

LEMMA ReallocationKeeps ==
  ASSUME NEW f, GoodFactory(f), Within(f), NEW m \in Memories, NEW v \in Vectors,
         Filled(v), NEW growth \in Nat, NEW s \in Nat \ {0}, Array(v, s) \subseteq Used(f),
         NEW r \in Reallocate(f, m, v, growth, s)
  PROVE  /\ Regrown(f, m, v, r.factory, r.memory, r.vector, s)
         /\ r.vector.cap >= v.cap + growth
<1>0. Grown(f, r.factory, v, r.vector, s) /\ r.memory \in Memories /\ r.vector.num = v.num
  BY Reallocation DEF Grown
<1>1. v.at \in Nat /\ v.num \in Nat /\ v.cap \in Nat /\ v.num <= v.cap
      /\ v.cap * s \in Nat /\ v.num * s \in Nat /\ v.num * s <= v.cap * s
  <2>1. v.at \in Nat /\ v.num \in Nat /\ v.cap \in Nat /\ v.num <= v.cap
    BY DEF Vectors, Filled
  <2> QED
    BY <2>1, Product, Multiples
<1>2. CASE InPlace(f, v, growth, s)
  <2>1. r = Made([f EXCEPT !.cur = f.cur + growth * s], m, [v EXCEPT !.cap = v.cap + growth])
    BY <1>2 DEF Reallocate
  <2>2. /\ r.factory = [f EXCEPT !.cur = f.cur + growth * s]
        /\ r.memory = m /\ r.vector = [v EXCEPT !.cap = v.cap + growth]
    BY <2>1 DEF Made
  <2>3. Within(r.factory)
    BY <2>2, CurWithin DEF GoodFactory
  <2>4. r.vector.at = v.at /\ r.vector.cap = v.cap + growth
    <3>1. v.cap + growth \in Nat
      BY <1>1
    <3> QED
      BY <2>2, <3>1, VectorWith
  <2>5. OnlyIn(m, r.memory, Array(r.vector, s))
    BY <2>2 DEF OnlyIn
  <2>6. Contents(r.memory, r.vector, s) = Contents(m, v, s)
    BY <1>0, <2>2, <2>4 DEF Contents
  <2>7. Array(r.vector, s) \subseteq 1..Last
    BY <1>0, <2>3, ArrayWithin DEF Grown
  <2> QED
    BY <1>0, <1>1, <1>2, <2>3, <2>4, <2>5, <2>6, <2>7 DEF Regrown
<1>3. CASE ~InPlace(f, v, growth, s)
  <2> DEFINE cap == v.cap + Growth(v, growth)
  <2>1. PICK q \in Allocate(f, cap * s, s) :
          r = Made(q.factory, Copy(m, v.at, q.at, v.cap * s),
                   [v EXCEPT !.at = q.at, !.cap = cap])
    BY <1>3 DEF Reallocate
  <2>2. cap \in Nat /\ cap >= v.cap + growth
    BY <1>1, Sizes DEF Growth, Larger
  <2> HIDE DEF cap
  <2>3. cap * s \in Nat /\ v.cap * s <= cap * s
    BY <1>1, <2>2, Product, Multiples
  <2>4. /\ Within(q.factory) /\ q.at \in Nat /\ Cells(q.at, cap * s) \subseteq 1..Last
    BY <2>3, AllocationWithin
  <2>5. /\ r.factory = q.factory /\ r.memory = Copy(m, v.at, q.at, v.cap * s)
        /\ r.vector = [v EXCEPT !.at = q.at, !.cap = cap]
    BY <2>1 DEF Made
  <2>6. r.vector.at = q.at /\ r.vector.cap = cap
    BY <2>5 DEF Vectors
  <2>7. Array(r.vector, s) = Cells(q.at, cap * s)
    BY <2>6 DEF Array
  <2>8. Cells(q.at, v.cap * s) \subseteq Cells(q.at, cap * s)
    BY <1>1, <2>3, <2>4 DEF Cells
  <2>9. OnlyIn(m, r.memory, Array(r.vector, s))
    BY <2>5, <2>7, <2>8, AtCopy DEF OnlyIn
  <2>10. \A e \in 0..(v.num * s - 1) : At(r.memory, r.vector.at + e) = At(m, v.at + e)
    <3> TAKE e \in 0..(v.num * s - 1)
    <3>1. q.at + e \in Cells(q.at, v.cap * s) /\ v.at + ((q.at + e) - q.at) = v.at + e
      BY <1>1, <2>4 DEF Cells
    <3>2. q.at + e \in 1..Last
      BY <2>4, <2>8, <3>1
    <3> QED
      BY <2>5, <2>6, <3>1, <3>2, AtCopy
  <2>11. r.vector \in Vectors
    BY <1>0 DEF Grown
  <2>12. Contents(r.memory, r.vector, s) = Contents(m, v, s)
    BY <1>0, <2>10, <2>11, ContentsMoved
  <2> QED
    BY <1>0, <1>1, <2>2, <2>4, <2>5, <2>6, <2>7, <2>9, <2>12 DEF Regrown
<1> QED
  BY <1>2, <1>3

LEMMA RoomKeeps ==
  ASSUME NEW f, GoodFactory(f), Within(f), NEW m \in Memories, NEW v \in Vectors,
         Filled(v), NEW growth \in Nat, NEW n \in Nat, n <= growth,
         NEW s \in Nat \ {0}, Array(v, s) \subseteq Used(f),
         NEW r \in WithRoom(f, m, v, n, growth, s)
  PROVE  /\ Regrown(f, m, v, r.factory, r.memory, r.vector, s)
         /\ r.vector.cap >= v.num + n
<1>0. v.num \in Nat /\ v.cap \in Nat /\ v.num <= v.cap
  BY DEF Vectors, Filled
<1>1. CASE v.num + n > v.cap
  <2>1. r \in Reallocate(f, m, v, growth, s)
    BY <1>1 DEF WithRoom
  <2>2. /\ Regrown(f, m, v, r.factory, r.memory, r.vector, s)
        /\ r.vector.cap >= v.cap + growth
    BY <2>1, ReallocationKeeps
  <2>3. r.vector.cap \in Nat
    BY <2>2 DEF Regrown, Grown, Vectors
  <2> QED
    BY <1>0, <2>2, <2>3
<1>2. CASE ~(v.num + n > v.cap)
  <2>1. r.factory = f /\ r.memory = m /\ r.vector = v
    BY <1>2 DEF WithRoom, Made
  <2>2. Grown(f, r.factory, v, r.vector, s)
    BY <2>1 DEF Grown
  <2>3. OnlyIn(m, r.memory, Array(r.vector, s))
    BY <2>1 DEF OnlyIn
  <2>4. Array(r.vector, s) \subseteq 1..Last
    BY <2>1, ArrayWithin
  <2> QED
    BY <1>0, <1>2, <2>1, <2>2, <2>3, <2>4 DEF Regrown
<1> QED
  BY <1>1, <1>2

\* An element is appended, and nothing outside the array changes.
LEMMA PushBackAppends ==
  ASSUME NEW f, GoodFactory(f), Within(f), NEW m \in Memories, NEW v \in Vectors,
         Filled(v), NEW s \in Nat \ {0}, Array(v, s) \subseteq Used(f),
         NEW x \in CellValues, NEW r \in PushBack(f, m, v, x, s)
  PROVE  /\ Within(r.factory) /\ Filled(r.vector)
         /\ r.vector.at # Null
         /\ OnlyIn(m, r.memory, Array(r.vector, s))
         /\ Contents(r.memory, r.vector, s) = Append(Contents(m, v, s), x)
<1>1. PICK q \in WithRoom(f, m, v, 1, 1, s) :
        r = Made(q.factory, WriteAt(q.memory, q.vector.at + v.num * s, s, x),
                 [q.vector EXCEPT !.num = v.num + 1])
  BY DEF PushBack
<1>2. /\ r.factory = q.factory
      /\ r.memory = WriteAt(q.memory, q.vector.at + v.num * s, s, x)
      /\ r.vector = [q.vector EXCEPT !.num = v.num + 1]
  BY <1>1 DEF Made
<1>3. Regrown(f, m, v, q.factory, q.memory, q.vector, s) /\ q.vector.cap >= v.num + 1
  BY RoomKeeps
<1>4. /\ q.vector \in Vectors /\ q.memory \in Memories /\ q.vector.num = v.num
      /\ Array(q.vector, s) \subseteq 1..Last
      /\ OnlyIn(m, q.memory, Array(q.vector, s))
      /\ Contents(q.memory, q.vector, s) = Contents(m, v, s) /\ Within(q.factory)
  BY <1>3 DEF Regrown, Grown
<1> DEFINE n == v.num
           w == q.vector
           at == w.at
           p == at + n * s
<1>5. n \in Nat /\ at \in Int /\ w.cap \in Int /\ n + 1 <= w.cap /\ w.num = n
  BY <1>3, <1>4 DEF Vectors, Filled
<1>6. n * s \in Int /\ (n + 1) * s = n * s + s /\ (n + 1) * s <= w.cap * s
      /\ w.cap * s \in Int /\ n * s >= 0
  <2>1. 0 * s <= n * s
    BY <1>5, Multiples
  <2> QED
    BY <1>5, <2>1, OneMore, Multiples
<1>7. /\ r.vector \in Vectors /\ r.vector.at = at /\ r.vector.num = n + 1
      /\ r.vector.cap = w.cap /\ Array(r.vector, s) = Array(w, s)
  <2>1. n + 1 \in Int /\ w \in Vectors /\ r.vector = [w EXCEPT !.num = n + 1]
    BY <1>2, <1>4, <1>5
  <2> QED
    BY <1>4, <2>1, NumFields
<1>8. Array(w, s) = Cells(at, w.cap * s)
  BY DEF Array
<1> HIDE DEF n, w, at
<1>9. /\ Cells(p, s) \subseteq Array(w, s)
      /\ Cells(at, n * s) \subseteq Array(w, s)
      /\ Cells(at, n * s) \cap Cells(p, s) = {}
  <2> DEFINE b == n * s
             c == w.cap * s
  <2>1. b \in Int /\ c \in Int /\ b + s <= c /\ b >= 0 /\ p = at + b
    BY <1>6
  <2> HIDE DEF b, c, p
  <2>2. /\ Cells(p, s) \subseteq Cells(at, c) /\ Cells(at, b) \subseteq Cells(at, c)
        /\ Cells(at, b) \cap Cells(p, s) = {}
    BY <1>5, <2>1 DEF Cells
  <2> QED
    BY <1>8, <2>2 DEF b, c
<1>10. r.memory = WriteAt(q.memory, p, s, x) /\ r.memory \in Memories
  BY <1>2, <1>4, Writing DEF n, w, at
<1>11. Array(w, s) \subseteq 1..Last /\ OnlyIn(m, q.memory, Array(w, s))
       /\ Contents(q.memory, w, s) = Contents(m, v, s)
  BY <1>4 DEF w
<1> HIDE DEF p
<1>12. \A a : At(r.memory, a) = IF a \in 1..Last /\ a \in Cells(p, s) THEN x ELSE At(q.memory, a)
  BY <1>4, <1>10, AtWriteAt
<1>13. OnlyIn(m, r.memory, Array(r.vector, s))
  BY <1>7, <1>9, <1>11, <1>12 DEF OnlyIn
<1>14. \A a \in Cells(at, n * s) : At(r.memory, a) = At(q.memory, a)
  BY <1>9, <1>12
<1>15. \A a \in Cells(at + n * s, s) : At(r.memory, a) = x
  BY <1>9, <1>11, <1>12 DEF p
<1>16. Contents(r.memory, r.vector, s) = Append(Contents(q.memory, w, s), x)
  <2>1. w \in Vectors /\ Filled(w) /\ q.memory \in Memories /\ w.at = at
    BY <1>4, <1>5 DEF Filled, w, at
  <2>2. r.vector \in Vectors /\ r.vector.at = w.at /\ r.vector.num = w.num + 1
    BY <1>5, <1>7, <2>1
  <2>3. /\ \A a \in Cells(w.at, w.num * s) : At(r.memory, a) = At(q.memory, a)
        /\ \A a \in Cells(w.at + w.num * s, s) : At(r.memory, a) = x
    BY <1>5, <1>14, <1>15, <2>1
  <2> QED
    BY <1>10, <2>1, <2>2, <2>3, ContentsPlus
<1>17. Filled(r.vector)
  BY <1>5, <1>7 DEF Filled
<1>18. r.vector.at # Null
  <2>1. r.vector.cap > 0 /\ Array(r.vector, s) \subseteq 1..Last
    BY <1>5, <1>7, <1>11
  <2> QED
    BY <1>7, <2>1, ArrayThere
<1> QED
  BY <1>2, <1>4, <1>11, <1>13, <1>16, <1>17, <1>18

(***************************************************************************)
(* Characters take one cell each.                                          *)
(***************************************************************************)
LEMMA AtWriteAll ==
  ASSUME NEW m \in Memories, NEW p \in Int, NEW xs \in Seq(CellValues), NEW q
  PROVE  At(WriteAll(m, p, xs), q) =
           IF q \in 1..Last /\ q \in Cells(p, Len(xs)) THEN xs[q - p + 1] ELSE At(m, q)
<1>1. WriteAll(m, p, xs) =
        [a \in 1..Last |-> IF a \in Cells(p, Len(xs)) THEN xs[a - p + 1] ELSE m[a]]
  BY DEF WriteAll, Memories
<1>2. WriteAll(m, p, xs) \in Memories
  BY Writing
<1> HIDE DEF WriteAll
<1> QED
  BY <1>1, <1>2, AtOf

LEMMA ReadOne ==
  ASSUME NEW m, NEW p \in Int
  PROVE  ReadAt(m, p, 1) = At(m, p)
<1>1. Cells(p, 1) = {p}
  BY DEF Cells
<1> QED
  BY <1>1 DEF ReadAt

LEMMA CharsAre ==
  ASSUME NEW m \in Memories, NEW v \in Vectors, v.num \in Nat
  PROVE  /\ Contents(m, v, 1) \in Seq(CellValues) /\ Len(Contents(m, v, 1)) = v.num
         /\ \A i \in 1..v.num : Contents(m, v, 1)[i] = At(m, v.at + (i - 1))
<1>1. /\ Contents(m, v, 1) \in Seq(CellValues) /\ Len(Contents(m, v, 1)) = v.num
      /\ \A i \in 1..v.num : Contents(m, v, 1)[i] = ReadAt(m, v.at + (i - 1) * 1, 1)
  BY ContentsIs
<1>2. \A i \in 1..v.num : v.at + (i - 1) * 1 = v.at + (i - 1) /\ v.at + (i - 1) \in Int
  BY DEF Vectors
<1> QED
  BY <1>1, <1>2, ReadOne

LEMMA Joined ==
  ASSUME NEW T, NEW a \in Seq(T), NEW b \in Seq(T)
  PROVE  /\ a \o b \in Seq(T) /\ Len(a \o b) = Len(a) + Len(b)
         /\ Len(a) \in Nat /\ Len(b) \in Nat
         /\ \A i \in 1..Len(a) : (a \o b)[i] = a[i]
         /\ \A i \in 1..Len(b) : (a \o b)[Len(a) + i] = b[i]
  OBVIOUS

LEMMA SameJoined ==
  ASSUME NEW T, NEW a \in Seq(T), NEW b \in Seq(T), NEW c \in Seq(T),
         Len(c) = Len(a) + Len(b),
         \A i \in 1..Len(a) : c[i] = a[i],
         \A i \in 1..Len(b) : c[Len(a) + i] = b[i]
  PROVE  c = a \o b
<1> DEFINE d == a \o b
<1>1. /\ d \in Seq(T) /\ Len(d) = Len(a) + Len(b)
      /\ Len(a) \in Nat /\ Len(b) \in Nat
      /\ \A i \in 1..Len(a) : d[i] = a[i]
      /\ \A i \in 1..Len(b) : d[Len(a) + i] = b[i]
  BY Joined
<1> HIDE DEF d
<1>2. ASSUME NEW i \in 1..Len(c) PROVE c[i] = d[i]
  <2>1. CASE i \in 1..Len(a)
    BY <1>1, <2>1
  <2>2. CASE i \notin 1..Len(a)
    <3>1. i - Len(a) \in 1..Len(b) /\ i = Len(a) + (i - Len(a))
      BY <1>1, <2>2
    <3> QED
      BY <1>1, <3>1
  <2> QED
    BY <2>1, <2>2
<1>3. c = d
  BY <1>1, <1>2, SameSequence
<1> QED
  BY <1>3 DEF d

\* The characters are appended; whatever comes behind them has room.
LEMMA CharsAppended ==
  ASSUME NEW f, GoodFactory(f), Within(f), NEW m \in Memories, NEW v \in Vectors,
         Filled(v), Array(v, 1) \subseteq Used(f), NEW growth \in Nat,
         NEW xs \in Seq(CellValues), NEW extra \in Seq(CellValues),
         Len(xs) + Len(extra) <= growth,
         NEW r \in AppendChars(f, m, v, xs, extra, growth)
  PROVE  /\ Within(r.factory) /\ Filled(r.vector)
         /\ OnlyIn(m, r.memory, Array(r.vector, 1))
         /\ Contents(r.memory, r.vector, 1) = Contents(m, v, 1) \o xs
<1>1. PICK q \in WithRoom(f, m, v, growth, growth, 1) :
        r = Made(q.factory, WriteAll(q.memory, q.vector.at + v.num, xs \o extra),
                 [q.vector EXCEPT !.num = v.num + Len(xs)])
  BY DEF AppendChars
<1>2. /\ r.factory = q.factory
      /\ r.memory = WriteAll(q.memory, q.vector.at + v.num, xs \o extra)
      /\ r.vector = [q.vector EXCEPT !.num = v.num + Len(xs)]
  BY <1>1 DEF Made
<1>3. Regrown(f, m, v, q.factory, q.memory, q.vector, 1) /\ q.vector.cap >= v.num + growth
  BY RoomKeeps
<1>4. /\ q.vector \in Vectors /\ q.memory \in Memories /\ q.vector.num = v.num
      /\ Array(q.vector, 1) \subseteq 1..Last
      /\ OnlyIn(m, q.memory, Array(q.vector, 1))
      /\ Contents(q.memory, q.vector, 1) = Contents(m, v, 1) /\ Within(q.factory)
  BY <1>3 DEF Regrown, Grown
<1> DEFINE n == v.num
           k == Len(xs)
           w == q.vector
           at == w.at
           p == at + n
           ys == xs \o extra
<1>5. /\ k \in Nat /\ ys \in Seq(CellValues) /\ Len(ys) >= k /\ Len(ys) <= growth
      /\ Len(ys) \in Nat
      /\ \A i \in 1..k : ys[i] = xs[i]
  BY Joined
<1>6. n \in Nat /\ at \in Int /\ w.cap \in Int /\ n + Len(ys) <= w.cap /\ w.num = n
      /\ p \in Int
  <2> HIDE DEF ys
  <2> QED
    BY <1>3, <1>4, <1>5 DEF Vectors, Filled
<1>7. /\ r.vector \in Vectors /\ r.vector.at = at /\ r.vector.num = n + k
      /\ r.vector.cap = w.cap /\ Array(r.vector, 1) = Array(w, 1)
  <2>1. w \in Vectors /\ r.vector = [w EXCEPT !.num = n + k]
    BY <1>2, <1>4
  <2> HIDE DEF w, n, k, at
  <2>2. w.at = at
    BY DEF at
  <2>3. n + k \in Int
    BY <1>5, <1>6
  <2> QED
    BY <2>1, <2>2, <2>3, NumFields
<1>8. Array(w, 1) = Cells(at, w.cap)
  BY <1>6 DEF Array
<1>9. r.memory = WriteAll(q.memory, p, ys) /\ r.memory \in Memories
  <2>1. r.memory = WriteAll(q.memory, p, ys)
    BY <1>2
  <2> HIDE DEF ys, p
  <2> QED
    BY <1>4, <1>5, <1>6, <2>1, Writing
<1> DEFINE old == Contents(m, v, 1)
           new == Contents(r.memory, r.vector, 1)
<1>10. /\ old \in Seq(CellValues) /\ Len(old) = n
       /\ \A i \in 1..n : old[i] = At(q.memory, at + (i - 1))
  <2>1. w \in Vectors /\ w.num \in Nat /\ Contents(q.memory, w, 1) = old /\ w.num = n
    BY <1>4, <1>6
  <2> HIDE DEF old, w
  <2> QED
    BY <1>4, <2>1, CharsAre
<1>11. /\ new \in Seq(CellValues) /\ Len(new) = n + k
       /\ \A i \in 1..(n + k) : new[i] = At(r.memory, at + (i - 1))
  <2>1. r.vector.num \in Nat
    BY <1>5, <1>6, <1>7
  <2> QED
    BY <1>7, <1>9, <2>1, CharsAre
<1>12. Array(w, 1) \subseteq 1..Last /\ OnlyIn(m, q.memory, Array(w, 1))
  BY <1>4
<1> HIDE DEF n, k, w, at, old, new, ys
<1>13. \A a : At(r.memory, a) =
         IF a \in 1..Last /\ a \in Cells(p, Len(ys)) THEN ys[a - p + 1] ELSE At(q.memory, a)
  <2> HIDE DEF p
  <2> QED
    BY <1>4, <1>5, <1>6, <1>9, AtWriteAll
<1>14. Cells(p, Len(ys)) \subseteq Array(w, 1)
  BY <1>5, <1>6, <1>8 DEF Cells
<1>15. OnlyIn(m, r.memory, Array(r.vector, 1))
  BY <1>7, <1>12, <1>13, <1>14 DEF OnlyIn
<1>16. \A i \in 1..n : new[i] = old[i]
  <2> TAKE i \in 1..n
  <2>1. at + (i - 1) \notin Cells(p, Len(ys)) /\ i \in 1..(n + k)
    BY <1>5, <1>6 DEF Cells
  <2> QED
    BY <1>10, <1>11, <1>13, <2>1
<1>17. \A i \in 1..k : new[n + i] = xs[i]
  <2> TAKE i \in 1..k
  <2>1. /\ n + i \in 1..(n + k) /\ p + (i - 1) \in Cells(p, Len(ys))
        /\ at + ((n + i) - 1) = p + (i - 1) /\ (p + (i - 1)) - p + 1 = i
    BY <1>5, <1>6 DEF Cells
  <2> HIDE DEF p
  <2>2. p + (i - 1) \in 1..Last
    BY <1>12, <1>14, <2>1
  <2>3. At(r.memory, p + (i - 1)) = ys[i]
    BY <1>13, <2>1, <2>2
  <2> QED
    BY <1>5, <1>11, <2>1, <2>3
<1>18. new = old \o xs
  <2>1. /\ Len(old) = n /\ Len(xs) = k
        /\ \A i \in 1..Len(old) : new[i] = old[i]
        /\ \A i \in 1..Len(xs) : new[Len(old) + i] = xs[i]
    BY <1>10, <1>16, <1>17 DEF k
  <2>2. new \in Seq(CellValues) /\ old \in Seq(CellValues) /\ Len(new) = Len(old) + Len(xs)
    BY <1>10, <1>11, <2>1
  <2> QED
    BY <2>1, <2>2, SameJoined
<1>19. Filled(r.vector)
  BY <1>5, <1>6, <1>7 DEF Filled
<1> QED
  BY <1>2, <1>4, <1>15, <1>18, <1>19 DEF old, new

(***************************************************************************)
(* The children of a node are a list in its array, or in the node itself.  *)
(***************************************************************************)
Few(nd) == nd.self # Null /\ nd.array = NoVector /\ nd.inline \in 0..2
Lots(nd) == nd.self # Null /\ nd.array.at # Null /\ Filled(nd.array) /\ nd.inline = 0
GoodNode(nd) == nd = NoNode \/ Few(nd) \/ Lots(nd)

Kids(nd) == IF IsMany(nd) THEN nd.array ELSE [at |-> nd.self, num |-> nd.inline, cap |-> 2]
NodeCells(nd) == Cells(nd.self, NodeSize)

LEMMA KidsAre ==
  ASSUME NEW nd \in NodeRecords, Few(nd) \/ Lots(nd)
  PROVE  /\ Kids(nd) \in Vectors /\ Filled(Kids(nd)) /\ NumChildren(nd) = Kids(nd).num
         /\ \A i : ChildAddress(nd, i) = Kids(nd).at + (i - 1) * Word
         /\ \A m : Children(m, nd) = Contents(m, Kids(nd), Word)
         /\ IsMany(nd) => Kids(nd) = nd.array
         /\ ~IsMany(nd) => Array(Kids(nd), Word) \subseteq NodeCells(nd)
<1>1. /\ nd.self \in Nat /\ nd.array \in Vectors /\ NodeSize \in Nat /\ NodeSize >= 2 * Word
      /\ Word \in Nat
  BY Sizes, SizesAssumption DEF NodeRecords
<1>2. CASE IsMany(nd)
  <2>1. Kids(nd) = nd.array /\ NumChildren(nd) = nd.array.num
    BY <1>2 DEF Kids, NumChildren
  <2>2. Filled(nd.array)
    BY <1>2 DEF Few, Lots, IsMany, NoVector
  <2>3. \A i : ChildAddress(nd, i) = Kids(nd).at + (i - 1) * Word
    BY <1>2, <2>1 DEF ChildAddress
  <2>4. \A m : Children(m, nd) = Contents(m, Kids(nd), Word)
    BY <2>1, <2>3 DEF Children, Contents
  <2> QED
    BY <1>1, <1>2, <2>1, <2>2, <2>3, <2>4
<1>3. CASE ~IsMany(nd)
  <2>0. nd.inline \in 0..2
    BY <1>3 DEF Few, Lots, IsMany
  <2> DEFINE v == [at |-> nd.self, num |-> nd.inline, cap |-> 2]
  <2>1. v \in Vectors /\ Filled(v) /\ v.at = nd.self /\ v.num = nd.inline /\ v.cap = 2
    BY <1>1, <2>0 DEF Vectors, Filled
  <2>2. Kids(nd) = v /\ NumChildren(nd) = nd.inline
    BY <1>3 DEF Kids, NumChildren
  <2> HIDE DEF v
  <2>3. \A i : ChildAddress(nd, i) = Kids(nd).at + (i - 1) * Word
    BY <1>3, <2>1, <2>2 DEF ChildAddress
  <2>4. \A m : Children(m, nd) = Contents(m, Kids(nd), Word)
    BY <2>1, <2>2, <2>3 DEF Children, Contents
  <2>5. Array(v, Word) \subseteq NodeCells(nd)
    BY <1>1, <2>1 DEF Array, Cells, NodeCells
  <2> QED
    BY <1>3, <2>1, <2>2, <2>3, <2>4, <2>5
<1> QED
  BY <1>2, <1>3

(***************************************************************************)
(* Taking out element i: those behind it move forward.                     *)
(***************************************************************************)
LEMMA OffsetOf ==
  ASSUME NEW p \in Int, NEW j \in Int, NEW i \in Int, NEW s \in Nat, NEW e \in Int
  PROVE  /\ p + (j - 1) * s + e = (p + (i - 1) * s) + ((j - i) * s + e)
         /\ p + j * s + e = (p + i * s) + ((j - i) * s + e)
         /\ (j - i) * s \in Int /\ (j - 1) * s \in Int /\ (i - 1) * s \in Int
         /\ i * s \in Int /\ j * s \in Int
<1>1. (j - i) * s = j * s - i * s /\ j * s \in Int /\ i * s \in Int
  OBVIOUS
<1>2. (j - 1) * s = j * s - s /\ (i - 1) * s = i * s - s
  OBVIOUS
<1> QED
  BY <1>1, <1>2

LEMMA RemoveAtIs ==
  ASSUME NEW T, NEW a \in Seq(T), NEW i \in 1..Len(a)
  PROVE  /\ Jobs!RemoveAt(a, i) \in Seq(T) /\ Len(Jobs!RemoveAt(a, i)) = Len(a) - 1
         /\ \A j \in 1..(Len(a) - 1) :
              Jobs!RemoveAt(a, i)[j] = IF j < i THEN a[j] ELSE a[j + 1]
<1> DEFINE n == Len(a)
           b == SubSeq(a, 1, i - 1)
           c == SubSeq(a, i + 1, n)
<1>0. n \in Nat /\ i \in Nat
  OBVIOUS
<1>1. b \in Seq(T) /\ Len(b) = i - 1 /\ \A j \in 1..(i - 1) : b[j] = a[j]
  BY <1>0
<1>2. c \in Seq(T) /\ Len(c) = n - i /\ \A j \in 1..(n - i) : c[j] = a[i + j]
  BY <1>0
<1>3. Jobs!RemoveAt(a, i) = b \o c
  BY DEF Jobs!RemoveAt
<1> HIDE DEF n, b, c
<1> DEFINE d == b \o c
<1>4. /\ d \in Seq(T) /\ Len(d) = Len(b) + Len(c)
      /\ \A j \in 1..Len(b) : d[j] = b[j]
      /\ \A j \in 1..Len(c) : d[Len(b) + j] = c[j]
  <2>1. b \in Seq(T) /\ c \in Seq(T)
    BY <1>1, <1>2
  <2> QED
    BY <2>1, Joined
<1> HIDE DEF d
<1>5. ASSUME NEW j \in 1..(n - 1) PROVE d[j] = IF j < i THEN a[j] ELSE a[j + 1]
  <2>1. CASE j < i
    BY <1>0, <1>1, <1>4, <2>1
  <2>2. CASE ~(j < i)
    <3>1. j - (i - 1) \in 1..(n - i) /\ (i - 1) + (j - (i - 1)) = j /\ i + (j - (i - 1)) = j + 1
      BY <1>0, <2>2
    <3> QED
      BY <1>1, <1>2, <1>4, <2>2, <3>1
  <2> QED
    BY <2>1, <2>2
<1>6. Len(d) = n - 1
  BY <1>0, <1>1, <1>2, <1>4
<1> QED
  BY <1>3, <1>4, <1>5, <1>6 DEF n, d

LEMMA ElementRemoved ==
  ASSUME NEW m \in Memories, NEW v \in Vectors, Filled(v), NEW s \in Nat \ {0},
         Array(v, s) \subseteq 1..Last, NEW i \in 1..v.num,
         NEW from, from = v.at + ((i + 1) - 1) * s,
         NEW m2, m2 = Copy(m, from, from - s, (v.num - i) * s),
         NEW w \in Vectors, w.at = v.at, w.num = v.num - 1
  PROVE  /\ OnlyIn(m, m2, Array(v, s))
         /\ Contents(m2, w, s) = Jobs!RemoveAt(Contents(m, v, s), i)
<1> DEFINE n == v.num
           at == v.at
           to == at + (i - 1) * s
           k == n - i
           old == Contents(m, v, s)
           new == Contents(m2, w, s)
           cut == Jobs!RemoveAt(old, i)
<1>1. n \in Nat /\ at \in Int /\ v.cap \in Int /\ n <= v.cap /\ s \in Nat /\ i \in 1..n
      /\ k \in Nat /\ w.num = n - 1 /\ w.num \in Nat
  BY DEF Vectors, Filled
<1>2. /\ old \in Seq(CellValues) /\ Len(old) = n
      /\ \A j \in 1..n : old[j] = ReadAt(m, at + (j - 1) * s, s)
  BY <1>1, ContentsIs
<1>3. m2 \in Memories
  BY Writing
<1>4. /\ new \in Seq(CellValues) /\ Len(new) = n - 1
      /\ \A j \in 1..(n - 1) : new[j] = ReadAt(m2, at + (j - 1) * s, s)
  <2>1. w.num \in Nat
    BY <1>1
  <2>2. /\ new \in Seq(CellValues) /\ Len(new) = w.num
        /\ \A j \in 1..w.num : new[j] = ReadAt(m2, w.at + (j - 1) * s, s)
    BY <1>3, <2>1, ContentsIs
  <2>3. w.num = n - 1 /\ w.at = at
    OBVIOUS
  <2> HIDE DEF new, n, at
  <2> QED
    BY <2>2, <2>3
<1>5. Array(v, s) = Cells(at, v.cap * s)
  BY DEF Array
<1>6. from - s = to /\ to \in Int /\ from = at + i * s /\ from \in Int
  <2>1. (i - 1) * s + s = i * s /\ i * s \in Int /\ (i - 1) * s \in Int /\ (i + 1) - 1 = i
    BY <1>1, OneMore
  <2> QED
    BY <1>1, <2>1
<1> HIDE DEF n, at, k, old, new
<1>7. old \in Seq(CellValues) /\ i \in 1..Len(old)
  BY <1>1, <1>2
<1>8. /\ cut \in Seq(CellValues) /\ Len(cut) = n - 1
      /\ \A j \in 1..(n - 1) : cut[j] = IF j < i THEN old[j] ELSE old[j + 1]
  <2>1. /\ cut \in Seq(CellValues) /\ Len(cut) = Len(old) - 1
        /\ \A j \in 1..(Len(old) - 1) : cut[j] = IF j < i THEN old[j] ELSE old[j + 1]
    BY <1>7, RemoveAtIs
  <2> HIDE DEF cut
  <2> QED
    BY <1>2, <2>1
<1> HIDE DEF to, cut
<1>9. \A a : At(m2, a) = IF a \in 1..Last /\ a \in Cells(to, k * s) THEN At(m, from + (a - to))
                         ELSE At(m, a)
  <2>1. m2 = Copy(m, from, to, k * s)
    BY <1>6 DEF k, n
  <2> QED
    BY <2>1, AtCopy
<1>10. /\ k * s \in Int /\ (i - 1) * s \in Int /\ v.cap * s \in Int /\ n * s \in Int
       /\ (i - 1) * s >= 0 /\ (i - 1) * s + k * s <= n * s /\ n * s <= v.cap * s
  <2>1. 0 * s <= (i - 1) * s /\ (i - 1) * s \in Int
    BY <1>1, Multiples
  <2>2. n * s <= v.cap * s /\ n * s \in Int /\ v.cap * s \in Int
    BY <1>1, Multiples
  <2>3. k * s \in Int /\ (i - 1) * s + k * s = (n - 1) * s
    <3>1. k = n - i
      BY DEF k, n
    <3> QED
      BY <1>1, <3>1
  <2>4. (n - 1) * s <= n * s
    BY <1>1, Multiples
  <2> QED
    BY <2>1, <2>2, <2>3, <2>4
<1>11. Cells(to, k * s) \subseteq Array(v, s)
  <2> DEFINE a == (i - 1) * s
             b == k * s
             c == v.cap * s
  <2>1. a \in Int /\ b \in Int /\ c \in Int /\ a >= 0 /\ a + b <= c
    BY <1>10
  <2>2. to = at + a
    BY DEF to
  <2> HIDE DEF a, b, c
  <2>3. Cells(to, b) \subseteq Cells(at, c)
    BY <1>1, <2>1, <2>2, CellsWithin
  <2> QED
    BY <1>5, <2>3 DEF b, c
<1>12. OnlyIn(m, m2, Array(v, s))
  BY <1>9, <1>11 DEF OnlyIn
<1>13. ASSUME NEW j \in 1..(n - 1) PROVE new[j] = cut[j]
  <2>0. j \in Int /\ j + 1 \in 1..n /\ j \in 1..n /\ i \in Int /\ (j + 1) - 1 = j
    BY <1>1
  <2>1. CASE j < i
    <3>1. ASSUME NEW e \in 0..(s - 1)
          PROVE  At(m2, (at + (j - 1) * s) + e) = At(m, (at + (j - 1) * s) + e)
      <4>1. at + (j - 1) * s + e = to + ((j - i) * s + e) /\ (j - i) * s \in Int
        BY <1>1, <2>0, OffsetOf DEF to
      <4>2. (j - i) * s <= (-1) * s /\ (-1) * s = -s
        BY <1>1, <2>0, <2>1, Multiples
      <4>3. at + (j - 1) * s + e \notin Cells(to, k * s)
        BY <1>1, <1>6, <4>1, <4>2 DEF Cells
      <4> QED
        BY <1>9, <4>3
    <3>2. ReadAt(m2, at + (j - 1) * s, s) = ReadAt(m, at + (j - 1) * s, s)
      <4> DEFINE a == at + (j - 1) * s
      <4>1. a \in Int
        BY <1>1, <2>0, OneMore
      <4>2. SameCells(m, a, m2, a, s)
        BY <3>1 DEF SameCells
      <4> HIDE DEF a
      <4>3. ReadAt(m2, a, s) = ReadAt(m, a, s)
        BY <4>1, <4>2, ReadMoved
      <4> QED
        BY <4>3 DEF a
    <3> QED
      BY <1>2, <1>4, <1>8, <2>0, <2>1, <3>2
  <2>2. CASE ~(j < i)
    <3> DEFINE l == j + 1
    <3>0. l \in Int /\ l \in 1..n /\ l - 1 = j
      BY <2>0
    <3> HIDE DEF l
    <3>1. ASSUME NEW e \in 0..(s - 1)
          PROVE  At(m2, (at + (j - 1) * s) + e) = At(m, (at + (l - 1) * s) + e)
      <4>1. /\ at + (j - 1) * s + e = to + ((j - i) * s + e) /\ (j - i) * s \in Int
            /\ at + j * s + e = from + ((j - i) * s + e)
        BY <1>1, <1>6, <2>0, OffsetOf DEF to
      <4>2. (j - i) * s + e \in 0..(k * s - 1)
        <5>1. ((j - i + 1) - 1) * s + e \in 0..(k * s - 1)
          <6>1. j - i + 1 \in 1..k /\ k \in Int
            BY <1>1, <2>0, <2>2 DEF k, n
          <6> QED
            BY <1>1, <6>1, ElementWithin
        <5>2. (j - i + 1) - 1 = j - i
          BY <2>0
        <5> QED
          BY <5>1, <5>2
      <4> DEFINE d == (j - i) * s + e
      <4>3. d \in 0..(k * s - 1) /\ k * s \in Int
        BY <1>10, <4>2
      <4>4. at + (j - 1) * s + e = to + d /\ at + j * s + e = from + d
        BY <4>1
      <4> HIDE DEF d
      <4>5. to + d \in Cells(to, k * s) /\ (to + d) - to = d
        BY <1>6, <4>3 DEF Cells
      <4>6. to + d \in 1..Last
        BY <1>11, <4>5
      <4>7. At(m2, to + d) = At(m, from + d)
        BY <1>9, <4>5, <4>6
      <4> QED
        BY <3>0, <4>4, <4>7
    <3>2. ReadAt(m2, at + (j - 1) * s, s) = ReadAt(m, at + (l - 1) * s, s)
      <4> DEFINE a == at + (j - 1) * s
                 b == at + (l - 1) * s
      <4>1. a \in Int /\ b \in Int
        BY <1>1, <2>0, <3>0, OneMore
      <4>2. SameCells(m, b, m2, a, s)
        BY <3>1 DEF SameCells
      <4> HIDE DEF a, b
      <4>3. ReadAt(m2, a, s) = ReadAt(m, b, s)
        BY <4>1, <4>2, ReadMoved
      <4> QED
        BY <4>3 DEF a, b
    <3> QED
      BY <1>2, <1>4, <1>8, <2>0, <2>2, <3>0, <3>2 DEF l
  <2> QED
    BY <2>1, <2>2
<1>14. new = cut
  BY <1>4, <1>8, <1>13, SameSequence
<1> QED
  BY <1>12, <1>14 DEF new, cut, old

(***************************************************************************)
(* Turning round the elements from i on.                                   *)
(***************************************************************************)
LEMMA Quotient ==
  ASSUME NEW k \in Int, NEW s \in Nat \ {0}, NEW e \in 0..(s - 1)
  PROVE  (k * s + e) \div s = k /\ (k * s + e) % s = e
<1> DEFINE x == k * s + e
           d == x \div s
           r == x % s
<1>1. k * s \in Int /\ x \in Int
  BY OneMore
<1>2. d \in Int /\ r \in 0..(s - 1) /\ x = s * d + r
  <2> HIDE DEF x
  <2> QED
    BY <1>1
<1>3. x = k * s + e
  OBVIOUS
<1> HIDE DEF x, d, r
<1>4. s * d = d * s /\ d * s \in Int
  BY <1>2
<1>5. ~(d < k)
  <2> SUFFICES ASSUME d < k PROVE FALSE
    OBVIOUS
  <2>1. (d + 1) * s <= k * s /\ (d + 1) * s = d * s + s
    BY <1>2, Multiples, OneMore
  <2> QED
    BY <1>1, <1>2, <1>3, <1>4, <2>1
<1>6. ~(k < d)
  <2> SUFFICES ASSUME k < d PROVE FALSE
    OBVIOUS
  <2>1. (k + 1) * s <= d * s /\ (k + 1) * s = k * s + s
    BY <1>2, Multiples, OneMore
  <2> QED
    BY <1>1, <1>2, <1>3, <1>4, <2>1
<1>7. d = k
  BY <1>2, <1>5, <1>6
<1>8. r = e
  BY <1>1, <1>2, <1>3, <1>4, <1>7
<1> QED
  BY <1>7, <1>8 DEF x, d, r

TurnedFrom(a, i) == SubSeq(a, 1, i - 1) \o Jobs!Reverse(SubSeq(a, i, Len(a)))

LEMMA TurnedIs ==
  ASSUME NEW T, NEW a \in Seq(T), NEW i \in 1..Len(a)
  PROVE  /\ TurnedFrom(a, i) \in Seq(T) /\ Len(TurnedFrom(a, i)) = Len(a)
         /\ \A j \in 1..Len(a) :
              TurnedFrom(a, i)[j] = IF j < i THEN a[j] ELSE a[Len(a) - j + i]
<1> DEFINE d == TurnedFrom(a, i)
           n == Len(a)
           b == SubSeq(a, 1, i - 1)
           c == SubSeq(a, i, n)
           r == Jobs!Reverse(c)
<1>0. n \in Nat /\ i \in Nat
  OBVIOUS
<1>1. b \in Seq(T) /\ Len(b) = i - 1 /\ \A j \in 1..(i - 1) : b[j] = a[j]
  BY <1>0
<1>2. c \in Seq(T) /\ Len(c) = n - i + 1 /\ \A j \in 1..(n - i + 1) : c[j] = a[i + j - 1]
  BY <1>0
<1> DEFINE z == b \o r
<1>3. d = z
  BY DEF TurnedFrom
<1>4. r = [j \in 1..Len(c) |-> c[(Len(c) - j) + 1]]
  BY DEF Jobs!Reverse
<1> HIDE DEF n, b, c, r, d
<1>5. ASSUME NEW j \in 1..Len(c) PROVE (Len(c) - j) + 1 \in 1..Len(c) /\ c[(Len(c) - j) + 1] \in T
  <2>1. (Len(c) - j) + 1 \in 1..Len(c)
    BY <1>0, <1>2
  <2>2. c \in Seq(T)
    BY <1>2
  <2> QED
    BY <2>1, <2>2
<1>6. r \in [1..Len(c) -> T] /\ Len(c) \in Nat
  BY <1>0, <1>2, <1>4, <1>5
<1>7. r \in Seq(T) /\ Len(r) = Len(c)
  BY <1>6
<1>8. /\ d \in Seq(T) /\ Len(d) = Len(b) + Len(r)
      /\ \A j \in 1..Len(b) : d[j] = b[j]
      /\ \A j \in 1..Len(r) : d[Len(b) + j] = r[j]
  <2>1. b \in Seq(T) /\ r \in Seq(T)
    BY <1>1, <1>7
  <2>2. /\ z \in Seq(T) /\ Len(z) = Len(b) + Len(r)
        /\ \A j \in 1..Len(b) : z[j] = b[j]
        /\ \A j \in 1..Len(r) : z[Len(b) + j] = r[j]
    BY <2>1, Joined
  <2> HIDE DEF z
  <2> QED
    BY <1>3, <2>2
<1>9. ASSUME NEW j \in 1..n PROVE d[j] = IF j < i THEN a[j] ELSE a[n - j + i]
  <2>1. CASE j < i
    BY <1>0, <1>1, <1>8, <2>1
  <2>2. CASE ~(j < i)
    <3> DEFINE k == j - (i - 1)
               l == (Len(c) - k) + 1
    <3>1. k \in 1..Len(c) /\ (i - 1) + k = j /\ l \in 1..(n - i + 1) /\ i + l - 1 = n - j + i
      BY <1>0, <1>2, <2>2
    <3>2. r[k] = c[l]
      BY <1>4, <3>1
    <3> HIDE DEF k, l
    <3>3. c[l] = a[n - j + i]
      BY <1>2, <3>1
    <3>4. d[j] = r[k]
      BY <1>1, <1>7, <1>8, <3>1
    <3> QED
      BY <2>2, <3>2, <3>3, <3>4
  <2> QED
    BY <2>1, <2>2
<1>10. Len(d) = n
  BY <1>0, <1>1, <1>2, <1>7, <1>8
<1> QED
  BY <1>8, <1>9, <1>10 DEF n, d

\* Cell a, from the first element on, gets what the mirrored one has.
Mirrored(m, first, k, s, a) ==
    At(m, first + (k - ((a - first) \div s)) * s + ((a - first) % s))

TurnedIn(m, m2, first, k, s) ==
    \A a : At(m2, a) = IF a \in 1..Last /\ a \in Cells(first, (k + 1) * s)
                       THEN Mirrored(m, first, k, s, a) ELSE At(m, a)

LEMMA ElementsTurned ==
  ASSUME NEW m \in Memories, NEW v \in Vectors, Filled(v), NEW s \in Nat \ {0},
         Array(v, s) \subseteq 1..Last, NEW i \in 1..v.num,
         NEW first, first = v.at + (i - 1) * s, NEW k, k = v.num - i,
         NEW m2 \in Memories, TurnedIn(m, m2, first, k, s)
  PROVE  /\ OnlyIn(m, m2, Array(v, s))
         /\ Contents(m2, v, s) = TurnedFrom(Contents(m, v, s), i)
<1> DEFINE old == Contents(m, v, s)
           n == v.num
           at == v.at
           new == Contents(m2, v, s)
           turned == TurnedFrom(old, i)
<1>1. n \in Nat /\ at \in Int /\ v.cap \in Int /\ n <= v.cap /\ s \in Nat /\ i \in 1..n
      /\ k \in Nat /\ k = n - i
  BY DEF Vectors, Filled
<1>2. /\ old \in Seq(CellValues) /\ Len(old) = n
      /\ \A j \in 1..n : old[j] = ReadAt(m, at + (j - 1) * s, s)
  BY <1>1, ContentsIs
<1>3. /\ new \in Seq(CellValues) /\ Len(new) = n
      /\ \A j \in 1..n : new[j] = ReadAt(m2, at + (j - 1) * s, s)
  BY <1>1, ContentsIs
<1>4. Array(v, s) = Cells(at, v.cap * s)
  BY DEF Array
<1>5. /\ turned \in Seq(CellValues) /\ Len(turned) = n
      /\ \A j \in 1..n : turned[j] = IF j < i THEN old[j] ELSE old[n - j + i]
  <2> HIDE DEF n, old
  <2>1. old \in Seq(CellValues) /\ i \in 1..Len(old)
    BY <1>1, <1>2
  <2>3. /\ turned \in Seq(CellValues) /\ Len(turned) = Len(old)
        /\ \A j \in 1..Len(old) : turned[j] = IF j < i THEN old[j] ELSE old[Len(old) - j + i]
    BY <2>1, TurnedIs
  <2> HIDE DEF turned
  <2>4. Len(old) = n
    BY <1>2
  <2> QED
    BY <2>3, <2>4
<1> HIDE DEF n, at, old, new, turned
<1>6. first = at + (i - 1) * s /\ (i - 1) * s \in Int /\ first \in Int
  BY <1>1, OneMore DEF at
<1>7. Cells(first, (k + 1) * s) \subseteq Array(v, s)
  <2> DEFINE a == (i - 1) * s
             b == (k + 1) * s
             c == v.cap * s
  <2>1. n * s <= v.cap * s /\ n * s \in Int /\ v.cap * s \in Int
    BY <1>1, Multiples
  <2>2. 0 * s <= (i - 1) * s
    BY <1>1, Multiples
  <2>3. (k + 1) * s \in Int /\ (i - 1) * s + (k + 1) * s = n * s
    <3>1. i - 1 \in Int /\ k + 1 \in Int /\ (i - 1) + (k + 1) = n
      BY <1>1
    <3> QED
      BY <1>1, <3>1, Distributed
  <2>4. a \in Int /\ b \in Int /\ c \in Int /\ a >= 0 /\ a + b <= c
    BY <1>6, <2>1, <2>2, <2>3
  <2>5. first = at + a
    BY <1>6
  <2> HIDE DEF a, b, c
  <2>6. Cells(first, b) \subseteq Cells(at, c)
    BY <1>1, <2>4, <2>5, CellsWithin
  <2> QED
    BY <1>4, <2>6 DEF b, c
<1>8. OnlyIn(m, m2, Array(v, s))
  BY <1>7 DEF OnlyIn, TurnedIn
<1>9. ASSUME NEW j \in 1..n PROVE new[j] = turned[j]
  <2>0. j \in Int /\ i \in Int
    BY <1>1
  <2> DEFINE a == at + (j - 1) * s
  <2>1. a \in Int
    BY <1>1, <2>0, OneMore
  <2>2. CASE j < i
    <3>1. ASSUME NEW e \in 0..(s - 1) PROVE At(m2, a + e) = At(m, a + e)
      <4>1. a + e = first + ((j - i) * s + e) /\ (j - i) * s \in Int
        <5>1. /\ (at + (j - 1) * s) + e = (at + (i - 1) * s) + ((j - i) * s + e)
              /\ (j - i) * s \in Int
          BY <1>1, <2>0, OffsetOf
        <5> QED
          BY <1>6, <5>1
      <4>2. (j - i) * s <= (-1) * s /\ (-1) * s = -s
        <5>1. j - i \in Int /\ -1 \in Int /\ j - i <= -1 /\ s \in Nat
          BY <1>1, <2>0, <2>2
        <5> QED
          BY <5>1, Multiples
      <4>3. a + e \notin Cells(first, (k + 1) * s)
        BY <1>1, <1>6, <4>1, <4>2 DEF Cells
      <4> QED
        BY <4>3 DEF TurnedIn
    <3>2. SameCells(m, a, m2, a, s)
      BY <3>1 DEF SameCells
    <3> HIDE DEF a
    <3>3. ReadAt(m2, a, s) = ReadAt(m, a, s)
      BY <2>1, <3>2, ReadMoved
    <3> QED
      BY <1>2, <1>3, <1>5, <2>2, <3>3 DEF a
  <2>3. CASE ~(j < i)
    <3> DEFINE l == n - j + i
               b == at + (l - 1) * s
    <3>0. l \in Int /\ l \in 1..n /\ l - i = k - (j - i)
      BY <1>1, <2>0, <2>3
    <3>00. b \in Int
      <4> HIDE DEF l
      <4> QED
        BY <1>1, <3>0, OneMore
    <3>1. ASSUME NEW e \in 0..(s - 1) PROVE At(m2, a + e) = At(m, b + e)
      <4> HIDE DEF l
      <4>1. a + e = first + ((j - i) * s + e) /\ (j - i) * s \in Int
        <5>1. /\ (at + (j - 1) * s) + e = (at + (i - 1) * s) + ((j - i) * s + e)
              /\ (j - i) * s \in Int
          BY <1>1, <2>0, OffsetOf
        <5> QED
          BY <1>6, <5>1
      <4>2. b + e = first + ((k - (j - i)) * s + e)
        <5>1. (at + (l - 1) * s) + e = (at + (i - 1) * s) + ((l - i) * s + e)
          BY <1>1, <2>0, <3>0, OffsetOf
        <5> QED
          BY <1>6, <3>0, <5>1
      <4>3. (j - i) * s + e \in 0..((k + 1) * s - 1)
        <5>1. ((j - i + 1) - 1) * s + e \in 0..((k + 1) * s - 1)
          <6>1. j - i + 1 \in 1..(k + 1) /\ k + 1 \in Int
            BY <1>1, <2>0, <2>3
          <6> QED
            BY <1>1, <6>1, ElementWithin
        <5>2. (j - i + 1) - 1 = j - i
          BY <2>0
        <5> QED
          BY <5>1, <5>2
      <4>4. (k + 1) * s \in Int
        BY <1>1
      <4>5. a + e \in Cells(first, (k + 1) * s)
        <5> DEFINE d == (j - i) * s + e
                   c == (k + 1) * s
        <5>1. d \in 0..(c - 1) /\ c \in Int /\ a + e = first + d
          BY <4>1, <4>3, <4>4
        <5> HIDE DEF d, c
        <5>2. first + d \in Cells(first, c)
          BY <1>6, <5>1 DEF Cells
        <5> QED
          BY <5>1, <5>2 DEF c
      <4>6. a + e \in 1..Last
        BY <1>7, <4>5
      <4>7. At(m2, a + e) = Mirrored(m, first, k, s, a + e)
        BY <4>5, <4>6 DEF TurnedIn
      <4> HIDE DEF a, b
      <4>8. Mirrored(m, first, k, s, a + e) = At(m, b + e)
        <5> DEFINE h == j - i
                   d == h * s + e
        <5>1. h \in Int /\ k \in Int /\ first \in Int
          BY <1>1, <1>6, <2>0
        <5>2. a + e = first + d /\ b + e = first + ((k - h) * s + e)
          BY <4>1, <4>2
        <5> HIDE DEF h
        <5>3. d \in Int /\ d \div s = h /\ d % s = e /\ (k - h) * s \in Int
          <6>0. s \in Nat \ {0} /\ e \in 0..(s - 1)
            OBVIOUS
          <6>1. h * s \in Int /\ d \div s = h /\ d % s = e
            <7>1. h * s \in Int
              BY <5>1, <6>0, OneMore
            <7>2. (h * s + e) \div s = h /\ (h * s + e) % s = e
              BY <5>1, <6>0, Quotient
            <7> QED
              BY <7>1, <7>2
          <6>2. k - h \in Int
            BY <5>1
          <6>3. (k - h) * s \in Int
            BY <6>2, OneMore
          <6>4. d \in Int
            BY <6>1
          <6> HIDE DEF d
          <6> QED
            BY <6>1, <6>3, <6>4
        <5> HIDE DEF d
        <5> DEFINE c == a + e
        <5>4. c - first = d /\ c = a + e
          BY <2>1, <5>1, <5>2, <5>3
        <5> HIDE DEF c
        <5>5. Mirrored(m, first, k, s, c) = At(m, first + (k - h) * s + e)
          BY <5>3, <5>4 DEF Mirrored
        <5>6. first + (k - h) * s + e = b + e
          BY <5>1, <5>2, <5>3
        <5> QED
          BY <5>4, <5>5, <5>6
      <4> QED
        BY <4>7, <4>8
    <3>2. SameCells(m, b, m2, a, s)
      BY <3>1 DEF SameCells
    <3> HIDE DEF a, b
    <3>3. ReadAt(m2, a, s) = ReadAt(m, b, s)
      BY <2>1, <3>00, <3>2, ReadMoved
    <3>4. new[j] = ReadAt(m2, a, s) /\ old[l] = ReadAt(m, b, s)
      BY <1>2, <1>3, <3>0 DEF a, b
    <3>5. turned[j] = old[l]
      BY <1>5, <2>3
    <3> QED
      BY <3>3, <3>4, <3>5
  <2> QED
    BY <2>2, <2>3
<1>10. new = turned
  BY <1>3, <1>5, <1>9, SameSequence
<1> QED
  BY <1>8, <1>10 DEF new, old, turned

(***************************************************************************)
(* What the operations on a node make of its children.                     *)
(***************************************************************************)
NodeMemory(nd) == NodeCells(nd) \cup Array(nd.array, Word)

LEMMA KidsWithin ==
  ASSUME NEW nd \in NodeRecords, Few(nd) \/ Lots(nd)
  PROVE  Array(Kids(nd), Word) \subseteq NodeMemory(nd)
  BY KidsAre DEF NodeMemory

Shorter(nd) == IF IsMany(nd) THEN [nd EXCEPT !.array.num = @ - 1]
               ELSE [nd EXCEPT !.inline = @ - 1]

LEMMA ShorterNode ==
  ASSUME NEW nd \in NodeRecords, Few(nd) \/ Lots(nd), NumChildren(nd) > 0
  PROVE  /\ Shorter(nd) \in NodeRecords /\ (Few(Shorter(nd)) \/ Lots(Shorter(nd)))
         /\ Kids(Shorter(nd)).at = Kids(nd).at
         /\ Kids(Shorter(nd)).num = Kids(nd).num - 1
         /\ NodeMemory(Shorter(nd)) = NodeMemory(nd)
<1> DEFINE s == Shorter(nd)
<1>1. CASE IsMany(nd)
  <2>1. Lots(nd) /\ nd.array \in Vectors /\ nd.array.num \in Int /\ nd.array.num > 0
    BY <1>1 DEF Few, Lots, IsMany, NoVector, NodeRecords, Vectors, NumChildren
  <2> DEFINE v == nd.array
             w == [v EXCEPT !.num = v.num - 1]
  <2>2. /\ w \in Vectors /\ w.at = v.at /\ w.num = v.num - 1 /\ w.cap = v.cap
        /\ Array(w, Word) = Array(v, Word)
    <3>1. v \in Vectors /\ v.num - 1 \in Int
      BY <2>1
    <3> QED
      BY <3>1, NumFields
  <2>3. s = [nd EXCEPT !.array = w]
    BY <1>1 DEF Shorter
  <2> HIDE DEF w
  <2>4. s \in NodeRecords /\ s.array = w /\ s.self = nd.self /\ s.inline = nd.inline
    BY <2>2, <2>3 DEF NodeRecords
  <2> HIDE DEF s
  <2>5. Lots(s)
    <3>1. w.num \in 0..w.cap
      BY <2>1, <2>2 DEF Lots, Filled, Vectors
    <3>2. Filled(s.array)
      BY <2>4, <3>1 DEF Filled
    <3> HIDE DEF v
    <3>3. nd.self # Null /\ v.at # Null /\ nd.inline = 0
      BY <2>1 DEF Lots, v
    <3> QED
      BY <2>2, <2>4, <3>2, <3>3 DEF Lots
  <2>6. IsMany(s) /\ Kids(s) = w /\ Kids(nd) = v
    BY <1>1, <2>2, <2>4 DEF IsMany, Kids
  <2>7. NodeMemory(s) = NodeMemory(nd)
    BY <2>2, <2>4 DEF NodeMemory, NodeCells
  <2> QED
    BY <2>2, <2>4, <2>5, <2>6, <2>7 DEF s
<1>2. CASE ~IsMany(nd)
  <2>1. Few(nd) /\ nd.inline \in 1..2
    BY <1>2 DEF Few, Lots, IsMany, NoVector, NumChildren
  <2>2. /\ s \in NodeRecords /\ s.array = nd.array /\ s.self = nd.self
        /\ s.inline = nd.inline - 1
    BY <1>2, <2>1 DEF Shorter, NodeRecords
  <2> HIDE DEF s
  <2>3. Few(s)
    BY <2>1, <2>2 DEF Few
  <2>4. /\ ~IsMany(s)
        /\ Kids(s) = [at |-> s.self, num |-> s.inline, cap |-> 2]
        /\ Kids(nd) = [at |-> nd.self, num |-> nd.inline, cap |-> 2]
    BY <1>2, <2>2 DEF IsMany, Kids
  <2>5. NodeMemory(s) = NodeMemory(nd)
    BY <2>2 DEF NodeMemory, NodeCells
  <2> QED
    BY <2>2, <2>3, <2>4, <2>5 DEF s
<1> QED
  BY <1>1, <1>2

LEMMA ChildRemoved ==
  ASSUME NEW m \in Memories, NEW nd \in NodeRecords, Few(nd) \/ Lots(nd),
         NodeMemory(nd) \subseteq 1..Last, NEW i \in 1..NumChildren(nd)
  PROVE  /\ OnlyIn(m, WithoutChild(m, nd, i), NodeMemory(nd))
         /\ Children(WithoutChild(m, nd, i), Shorter(nd)) = Jobs!RemoveAt(Children(m, nd), i)
<1> DEFINE v == Kids(nd)
           w == Kids(Shorter(nd))
           m2 == WithoutChild(m, nd, i)
           from == v.at + ((i + 1) - 1) * Word
<1>1. /\ v \in Vectors /\ Filled(v) /\ NumChildren(nd) = v.num
      /\ \A j : ChildAddress(nd, j) = v.at + (j - 1) * Word
      /\ Children(m, nd) = Contents(m, v, Word)
  BY KidsAre
<1>2. NumChildren(nd) > 0
  BY <1>1 DEF Vectors
<1>3. /\ Shorter(nd) \in NodeRecords /\ (Few(Shorter(nd)) \/ Lots(Shorter(nd)))
      /\ w.at = v.at /\ w.num = v.num - 1
  BY <1>2, ShorterNode
<1>4. w \in Vectors /\ Children(m2, Shorter(nd)) = Contents(m2, w, Word)
  <2> DEFINE s == Shorter(nd)
  <2>1. s \in NodeRecords /\ (Few(s) \/ Lots(s)) /\ w = Kids(s)
    BY <1>3
  <2> HIDE DEF s, w, m2
  <2>2. w \in Vectors /\ Children(m2, s) = Contents(m2, w, Word)
    BY <2>1, KidsAre
  <2> QED
    BY <2>2 DEF s
<1>5. m2 = Copy(m, from, from - Word, (v.num - i) * Word)
  BY <1>1 DEF WithoutChild
<1>6. Array(v, Word) \subseteq NodeMemory(nd)
  BY KidsWithin
<1>7. Word \in Nat \ {0}
  BY Sizes
<1> HIDE DEF v, w, m2
<1>8. /\ OnlyIn(m, m2, Array(v, Word))
      /\ Contents(m2, w, Word) = Jobs!RemoveAt(Contents(m, v, Word), i)
  <2>1. Array(v, Word) \subseteq 1..Last /\ i \in 1..v.num
    BY <1>1, <1>6
  <2>2. from = v.at + ((i + 1) - 1) * Word
    OBVIOUS
  <2> HIDE DEF from
  <2> QED
    BY <1>1, <1>3, <1>4, <1>5, <1>7, <2>1, <2>2, ElementRemoved
<1> QED
  BY <1>1, <1>4, <1>6, <1>8 DEF OnlyIn, m2

LEMMA ChildrenReversed ==
  ASSUME NEW m \in Memories, NEW nd \in NodeRecords, Few(nd) \/ Lots(nd),
         NodeMemory(nd) \subseteq 1..Last, NEW i \in 1..NumChildren(nd)
  PROVE  /\ OnlyIn(m, Reversed(m, nd, i), NodeMemory(nd))
         /\ Children(Reversed(m, nd, i), nd) = TurnedFrom(Children(m, nd), i)
<1> DEFINE v == Kids(nd)
           n == v.num
           m2 == Reversed(m, nd, i)
           first == v.at + (i - 1) * Word
           old == Contents(m, v, Word)
<1>1. /\ v \in Vectors /\ Filled(v) /\ NumChildren(nd) = n
      /\ ChildAddress(nd, i) = first
      /\ Children(m, nd) = old /\ Children(m2, nd) = Contents(m2, v, Word)
      /\ ~IsMany(nd) => n <= 2
  <2>1. ~IsMany(nd) => n <= 2
    BY DEF Few, Lots, IsMany, Kids
  <2> QED
    BY <2>1, KidsAre
<1>2. Array(v, Word) \subseteq NodeMemory(nd)
  BY KidsWithin
<1>3. Word \in Nat \ {0} /\ m2 \in Memories
  BY Sizes, Writing
<1>4. n \in Nat /\ i \in 1..n
  BY <1>1 DEF Vectors, Filled
<1>5. CASE n > 1 /\ (IsMany(nd) \/ i = 1)
  <2> DEFINE k == v.num - i
  <2>1. m2 = [q \in 1..Last |-> IF q \in Cells(first, (n - i + 1) * Word)
                                THEN Mirrored(m, first, k, Word, q) ELSE m[q]]
    <3>1. m2 = [q \in DOMAIN m |-> IF q \in Cells(first, (n - i + 1) * Word)
                                   THEN Mirrored(m, first, k, Word, q) ELSE m[q]]
      BY <1>1, <1>5 DEF Reversed, Mirrored
    <3> QED
      BY <3>1 DEF Memories
  <2> HIDE DEF m2, first, v
  <2>2. n - i + 1 = k + 1
    OBVIOUS
  <2>3. TurnedIn(m, m2, first, k, Word)
    BY <1>3, <2>1, <2>2, AtOf DEF TurnedIn
  <2>4. OnlyIn(m, m2, Array(v, Word)) /\ Contents(m2, v, Word) = TurnedFrom(old, i)
    <3>1. Array(v, Word) \subseteq 1..Last /\ i \in 1..v.num
      BY <1>2, <1>4
    <3>2. first = v.at + (i - 1) * Word
      BY DEF first
    <3> HIDE DEF k
    <3>3. k = v.num - i
      BY DEF k
    <3> QED
      BY <1>1, <1>3, <2>3, <3>1, <3>2, <3>3, ElementsTurned
  <2> QED
    BY <1>1, <1>2, <2>4 DEF OnlyIn, m2
<1>6. CASE ~(n > 1 /\ (IsMany(nd) \/ i = 1))
  <2>1. m2 = m
    BY <1>1, <1>6 DEF Reversed
  <2>2. i = n
    BY <1>1, <1>4, <1>6
  <2>3. old \in Seq(CellValues) /\ Len(old) = n
    BY <1>4, ContentsIs
  <2> HIDE DEF old, n
  <2>4. TurnedFrom(old, i) = old
    <3> DEFINE d == TurnedFrom(old, i)
    <3>1. /\ d \in Seq(CellValues) /\ Len(d) = Len(old)
          /\ \A j \in 1..Len(old) : d[j] = IF j < i THEN old[j] ELSE old[Len(old) - j + i]
      <4>1. old \in Seq(CellValues) /\ i \in 1..Len(old)
        BY <1>4, <2>3
      <4> QED
        BY <4>1, TurnedIs
    <3> HIDE DEF d
    <3>2. \A j \in 1..Len(d) : d[j] = old[j]
      <4> TAKE j \in 1..Len(d)
      <4>1. j < i \/ Len(old) - j + i = j
        BY <1>4, <2>2, <2>3, <3>1
      <4> QED
        BY <3>1, <4>1
    <3>3. d = old
      BY <2>3, <3>1, <3>2, SameSequence
    <3> QED
      BY <3>3 DEF d
  <2> QED
    BY <1>1, <2>1, <2>4 DEF OnlyIn, old
<1> QED
  BY <1>5, <1>6

\* What adding child x to node nd has to give.
Added(m, nd, x, r) ==
    /\ Within(r.factory)
    /\ Few(r.node) \/ Lots(r.node)
    /\ OnlyIn(m, r.memory, NodeMemory(r.node))
    /\ Children(r.memory, r.node) = Append(Children(m, nd), x)

LEMMA FurtherChildAdded ==
  ASSUME NEW f, GoodFactory(f), Within(f), NEW m \in Memories, NEW nd \in NodeRecords,
         Few(nd) \/ Lots(nd), IsMany(nd), NEW x \in CellValues,
         Array(nd.array, Word) \subseteq Used(f), NEW r \in FurtherChild(f, m, nd, x)
  PROVE  Added(m, nd, x, r)
<1> DEFINE v == nd.array
<1>1. PICK q \in PushBack(f, m, v, x, Word) :
        r = [factory |-> q.factory, memory |-> q.memory, node |-> [nd EXCEPT !.array = q.vector]]
  BY DEF FurtherChild
<1>2. v \in Vectors /\ Word \in Nat \ {0} /\ Lots(nd)
  BY Sizes DEF NodeRecords, Few, Lots, IsMany, NoVector
<1>3. Filled(v) /\ Kids(nd) = v
  BY <1>2 DEF Lots, Kids
<1>4. /\ Within(q.factory) /\ Filled(q.vector) /\ q.vector.at # Null
      /\ OnlyIn(m, q.memory, Array(q.vector, Word))
      /\ Contents(q.memory, q.vector, Word) = Append(Contents(m, v, Word), x)
  BY <1>2, <1>3, PushBackAppends
<1>5. q.vector \in Vectors
  BY <1>2, PushingBack DEF Grown
<1> DEFINE new == [nd EXCEPT !.array = q.vector]
<1>6. r.factory = q.factory /\ r.memory = q.memory /\ r.node = new
  BY <1>1
<1>7. /\ new \in NodeRecords /\ new.array = q.vector /\ new.self = nd.self
      /\ new.inline = nd.inline
  BY <1>5 DEF NodeRecords
<1> HIDE DEF new
<1>8. Lots(new) /\ Kids(new) = q.vector
  BY <1>2, <1>4, <1>7 DEF Lots, Kids, IsMany
<1>9. OnlyIn(m, r.memory, NodeMemory(new))
  BY <1>4, <1>6, <1>7 DEF OnlyIn, NodeMemory
<1>10. Children(r.memory, new) = Contents(q.memory, q.vector, Word)
  BY <1>6, <1>7, <1>8, KidsAre
<1>11. Children(m, nd) = Contents(m, v, Word)
  BY <1>3, KidsAre
<1> QED
  BY <1>4, <1>6, <1>8, <1>9, <1>10, <1>11 DEF Added

LEMMA InlineChildAdded ==
  ASSUME NEW f, Within(f), NEW m \in Memories, NEW nd \in NodeRecords,
         Few(nd), nd.inline # 2, NEW x \in CellValues,
         NodeCells(nd) \subseteq 1..Last, NEW r \in InlineChild(f, m, nd, x)
  PROVE  Added(m, nd, x, r)
<1> DEFINE k == nd.inline
           cleared == IF k = 0 THEN WriteAt(m, nd.self + Word, Word, Null) ELSE m
           new == [nd EXCEPT !.inline = k + 1]
           v == Kids(nd)
           w == Kids(new)
           at == nd.self
<1>1. /\ r.factory = f /\ r.node = new
      /\ r.memory = WriteAt(cleared, ChildAddress(nd, k + 1), Word, x)
  BY DEF InlineChild, SetChild
<1>2. k \in 0..1 /\ at \in Nat /\ nd.array = NoVector /\ ~IsMany(nd) /\ at # Null
  BY DEF Few, IsMany, NoVector, NodeRecords
<1>3. /\ new \in NodeRecords /\ new.array = NoVector /\ new.self = at /\ new.inline = k + 1
  BY <1>2 DEF NodeRecords
<1>4. cleared \in Memories /\ r.memory \in Memories
  <2>1. Null \in CellValues
    BY DEF CellValues
  <2>2. cleared \in Memories
    BY <2>1, Writing
  <2> HIDE DEF cleared
  <2> QED
    BY <1>1, <2>2, Writing
<1> HIDE DEF new
<1>5. Few(new) /\ ~IsMany(new)
  BY <1>2, <1>3 DEF Few, IsMany, NoVector
<1>6. /\ v = [at |-> at, num |-> k, cap |-> 2]
      /\ w = [at |-> at, num |-> k + 1, cap |-> 2]
  BY <1>2, <1>3, <1>5 DEF Kids
<1>7. /\ v \in Vectors /\ Filled(v) /\ v.at = at /\ v.num = k
      /\ w \in Vectors /\ w.at = at /\ w.num = k + 1
  BY <1>2, <1>6 DEF Vectors, Filled
<1>8. /\ ChildAddress(nd, k + 1) = at + k * Word
      /\ Children(m, nd) = Contents(m, v, Word)
      /\ Children(r.memory, new) = Contents(r.memory, w, Word)
  <2>1. ((k + 1) - 1) = k
    BY <1>2
  <2>2. ChildAddress(nd, k + 1) = at + k * Word /\ Children(m, nd) = Contents(m, v, Word)
    BY <1>7, <2>1, KidsAre
  <2>3. Children(r.memory, new) = Contents(r.memory, w, Word)
    BY <1>3, <1>5, KidsAre
  <2> QED
    BY <2>2, <2>3
<1>9. Word \in Nat \ {0} /\ NodeSize \in Nat /\ 2 * Word <= NodeSize
  BY Sizes, SizesAssumption
<1>10. k * Word \in Nat /\ (k = 0 \/ k * Word = Word)
  <2>1. CASE k = 0
    BY <1>9, <2>1
  <2>2. CASE k = 1
    BY <1>9, <2>2
  <2> QED
    BY <1>2, <2>1, <2>2
<1> DEFINE p == at + k * Word
<1>11. /\ Cells(p, Word) \subseteq NodeCells(nd)
       /\ Cells(at + Word, Word) \subseteq NodeCells(nd)
       /\ k = 0 => k * Word = 0
  BY <1>2, <1>9, <1>10 DEF Cells, NodeCells
<1> HIDE DEF v, w, at, k
<1>12. \A q : At(cleared, q) =
         IF k = 0 /\ q \in 1..Last /\ q \in Cells(at + Word, Word) THEN Null ELSE At(m, q)
  <2>1. Null \in CellValues
    BY DEF CellValues
  <2>2. CASE k = 0
    BY <2>1, <2>2, AtWriteAt DEF at
  <2>3. CASE k # 0
    BY <2>3
  <2> QED
    BY <2>2, <2>3
<1> HIDE DEF p, cleared
<1>13. \A q : At(r.memory, q) =
         IF q \in 1..Last /\ q \in Cells(p, Word) THEN x ELSE At(cleared, q)
  <2>1. r.memory = WriteAt(cleared, p, Word, x)
    BY <1>1, <1>8 DEF p
  <2> QED
    BY <1>4, <2>1, AtWriteAt
<1>14. OnlyIn(m, r.memory, NodeMemory(new))
  <2>1. NodeCells(nd) \subseteq NodeMemory(new)
    BY <1>3 DEF NodeMemory, NodeCells, at
  <2> QED
    BY <1>11, <1>12, <1>13, <2>1 DEF OnlyIn
<1>15. \A q \in Cells(v.at, v.num * Word) : At(r.memory, q) = At(m, q)
  <2> TAKE q \in Cells(v.at, v.num * Word)
  <2>1. q \in Cells(at, k * Word)
    BY <1>7
  <2>2. k # 0 /\ q \notin Cells(p, Word)
    BY <1>2, <1>9, <1>10, <1>11, <2>1 DEF Cells, p
  <2> QED
    BY <1>12, <1>13, <2>2
<1>16. \A q \in Cells(v.at + v.num * Word, Word) : At(r.memory, q) = x
  <2>1. v.at + v.num * Word = p
    BY <1>7 DEF p
  <2> QED
    BY <1>11, <1>13, <2>1
<1>17. Contents(r.memory, w, Word) = Append(Contents(m, v, Word), x)
  <2>1. w.at = v.at /\ w.num = v.num + 1
    BY <1>7
  <2> QED
    BY <1>4, <1>7, <1>9, <1>15, <1>16, <2>1, ContentsPlus
<1> QED
  BY <1>1, <1>5, <1>8, <1>14, <1>17 DEF Added

LEMMA WrittenElement ==
  ASSUME NEW m \in Memories, NEW a \in Int, NEW b \in Int, NEW s \in Nat \ {0},
         NEW x \in CellValues, Cells(b, s) \subseteq 1..Last,
         a # b => Cells(a, s) \cap Cells(b, s) = {}
  PROVE  ReadAt(WriteAt(m, a, s, x), b, s) = IF a = b THEN x ELSE ReadAt(m, b, s)
<1> DEFINE m2 == WriteAt(m, a, s, x)
<1>1. \A q : At(m2, q) = IF q \in 1..Last /\ q \in Cells(a, s) THEN x ELSE At(m, q)
  BY AtWriteAt
<1> HIDE DEF m2
<1>2. CASE a = b
  <2>1. \A q \in Cells(b, s) : At(m2, q) = x
    BY <1>1, <1>2
  <2>2. ReadAt(m2, b, s) = x
    BY <2>1, ReadWritten
  <2> QED
    BY <1>2, <2>2 DEF m2
<1>3. CASE a # b
  <2>1. \A q \in Cells(b, s) : At(m2, q) = At(m, q)
    BY <1>1, <1>3
  <2>2. SameCells(m, b, m2, b, s)
    <3> SUFFICES ASSUME NEW e \in 0..(s - 1) PROVE At(m2, b + e) = At(m, b + e)
      BY DEF SameCells
    <3>1. b + e \in Cells(b, s)
      BY DEF Cells
    <3> QED
      BY <2>1, <3>1
  <2>3. ReadAt(m2, b, s) = ReadAt(m, b, s)
    BY <2>2, ReadMoved
  <2> QED
    BY <1>3, <2>3 DEF m2
<1> QED
  BY <1>2, <1>3

LEMMA ThreeWritten ==
  ASSUME NEW m \in Memories, NEW w \in Vectors, w.num = 3, w.cap >= 3,
         NEW s \in Nat \ {0}, Array(w, s) \subseteq 1..Last,
         NEW c1 \in CellValues, NEW c2 \in CellValues, NEW x \in CellValues,
         NEW m3, m3 = WriteAt(WriteAt(WriteAt(m, w.at + (1 - 1) * s, s, c1),
                                      w.at + (2 - 1) * s, s, c2),
                              w.at + (3 - 1) * s, s, x)
  PROVE  /\ OnlyIn(m, m3, Array(w, s))
         /\ Contents(m3, w, s) = <<c1, c2, x>>
<1> DEFINE at == w.at
           A == Array(w, s)
           P(i) == at + (i - 1) * s
<1>1. at \in Int /\ w.cap \in Int /\ A = Cells(at, w.cap * s)
  BY DEF Vectors, Array
<1>2. m3 = WriteAt(WriteAt(WriteAt(m, P(1), s, c1), P(2), s, c2), P(3), s, x)
  OBVIOUS
<1> DEFINE new == Contents(m3, w, s)
<1>3. m3 \in Memories
  <2> DEFINE a == WriteAt(m, P(1), s, c1)
             b == WriteAt(a, P(2), s, c2)
  <2>1. a \in Memories
    BY Writing
  <2> HIDE DEF a
  <2>2. b \in Memories
    BY <2>1, Writing
  <2> HIDE DEF b
  <2>3. m3 = WriteAt(b, P(3), s, x)
    BY <1>2 DEF a, b
  <2> HIDE DEF P
  <2> QED
    BY <2>2, <2>3, Writing
<1>4. /\ new \in Seq(CellValues) /\ Len(new) = 3
      /\ \A j \in 1..3 : new[j] = ReadAt(m3, P(j), s)
  <2>1. w.num \in Nat
    OBVIOUS
  <2>2. /\ new \in Seq(CellValues) /\ Len(new) = w.num
        /\ \A j \in 1..w.num : new[j] = ReadAt(m3, w.at + (j - 1) * s, s)
    BY <1>3, <2>1, ContentsIs
  <2> HIDE DEF new
  <2> QED
    BY <2>2
<1> HIDE DEF at, A, new
<1>5. \A i \in 1..w.cap : P(i) \in Int /\ Cells(P(i), s) \subseteq A
  <2> TAKE i \in 1..w.cap
  <2>1. P(i) \in Int
    BY <1>1, OneMore
  <2>2. Cells(P(i), s) \subseteq A
    BY <1>1, ElementCells
  <2> QED
    BY <2>1, <2>2
<1>6. \A i, j \in Int : i # j => Cells(P(i), s) \cap Cells(P(j), s) = {}
  BY <1>1, ElementsApart
<1> HIDE DEF P
<1> DEFINE p1 == P(1)
           p2 == P(2)
           p3 == P(3)
<1>7. /\ p1 \in Int /\ p2 \in Int /\ p3 \in Int
      /\ Cells(p1, s) \subseteq A /\ Cells(p2, s) \subseteq A /\ Cells(p3, s) \subseteq A
  <2>1. 1 \in 1..w.cap /\ 2 \in 1..w.cap /\ 3 \in 1..w.cap
    BY <1>1
  <2> QED
    BY <1>5, <2>1
<1>8. /\ Cells(p1, s) \cap Cells(p2, s) = {} /\ Cells(p2, s) \cap Cells(p1, s) = {}
      /\ Cells(p1, s) \cap Cells(p3, s) = {} /\ Cells(p3, s) \cap Cells(p1, s) = {}
      /\ Cells(p2, s) \cap Cells(p3, s) = {} /\ Cells(p3, s) \cap Cells(p2, s) = {}
  BY <1>6
<1>9. p1 # p2 /\ p1 # p3 /\ p2 # p3
  <2>1. p1 \in Cells(p1, s) /\ p2 \in Cells(p2, s) /\ p3 \in Cells(p3, s)
    BY <1>7 DEF Cells
  <2> QED
    BY <1>8, <2>1
<1>10. A \subseteq 1..Last
  BY DEF A
<1> DEFINE m1 == WriteAt(m, p1, s, c1)
           m2 == WriteAt(m1, p2, s, c2)
<1>11. m3 = WriteAt(m2, p3, s, x)
  BY <1>2
<1>12. m1 \in Memories
  BY Writing
<1>13. /\ ReadAt(m1, p1, s) = c1
       /\ \A q : At(m1, q) = IF q \in 1..Last /\ q \in Cells(p1, s) THEN c1 ELSE At(m, q)
  <2>1. Cells(p1, s) \subseteq 1..Last
    BY <1>7, <1>10
  <2> HIDE DEF p1
  <2> QED
    BY <1>7, <2>1, WrittenElement, AtWriteAt
<1> HIDE DEF p1, p2, p3, m1
<1>14. m2 \in Memories
  BY <1>12, Writing
<1>15. /\ ReadAt(m2, p1, s) = c1 /\ ReadAt(m2, p2, s) = c2
       /\ \A q : At(m2, q) = IF q \in 1..Last /\ q \in Cells(p2, s) THEN c2 ELSE At(m1, q)
  <2>1. Cells(p1, s) \subseteq 1..Last /\ Cells(p2, s) \subseteq 1..Last
    BY <1>7, <1>10
  <2>2. ReadAt(m2, p1, s) = ReadAt(m1, p1, s)
    BY <1>7, <1>8, <1>9, <1>12, <2>1, WrittenElement
  <2>3. ReadAt(m2, p2, s) = c2
    BY <1>7, <1>12, <2>1, WrittenElement
  <2>4. \A q : At(m2, q) = IF q \in 1..Last /\ q \in Cells(p2, s) THEN c2 ELSE At(m1, q)
    BY <1>12, AtWriteAt
  <2> QED
    BY <1>13, <2>2, <2>3, <2>4
<1> HIDE DEF m2
<1>16. /\ ReadAt(m3, p1, s) = c1 /\ ReadAt(m3, p2, s) = c2 /\ ReadAt(m3, p3, s) = x
       /\ \A q : At(m3, q) = IF q \in 1..Last /\ q \in Cells(p3, s) THEN x ELSE At(m2, q)
  <2>1. /\ Cells(p1, s) \subseteq 1..Last /\ Cells(p2, s) \subseteq 1..Last
        /\ Cells(p3, s) \subseteq 1..Last
    BY <1>7, <1>10
  <2>2. ReadAt(m3, p1, s) = ReadAt(m2, p1, s)
    BY <1>7, <1>8, <1>9, <1>11, <1>14, <2>1, WrittenElement
  <2>3. ReadAt(m3, p2, s) = ReadAt(m2, p2, s)
    BY <1>7, <1>8, <1>9, <1>11, <1>14, <2>1, WrittenElement
  <2>4. ReadAt(m3, p3, s) = x
    BY <1>7, <1>11, <1>14, <2>1, WrittenElement
  <2>5. \A q : At(m3, q) = IF q \in 1..Last /\ q \in Cells(p3, s) THEN x ELSE At(m2, q)
    BY <1>11, <1>14, AtWriteAt
  <2> QED
    BY <1>15, <2>2, <2>3, <2>4, <2>5
<1>17. OnlyIn(m, m3, A)
  BY <1>7, <1>13, <1>15, <1>16 DEF OnlyIn
<1>18. new[1] = c1 /\ new[2] = c2 /\ new[3] = x
  BY <1>4, <1>16 DEF p1, p2, p3
<1>19. new = <<c1, c2, x>>
  <2> DEFINE d == <<c1, c2, x>>
  <2>1. d \in Seq(CellValues) /\ Len(d) = 3 /\ d[1] = c1 /\ d[2] = c2 /\ d[3] = x
    OBVIOUS
  <2> HIDE DEF d
  <2>2. \A j \in 1..3 : new[j] = d[j]
    <3> TAKE j \in 1..3
    <3>1. j = 1 \/ j = 2 \/ j = 3
      OBVIOUS
    <3> QED
      BY <1>18, <2>1, <3>1
  <2>3. new = d
    BY <1>4, <2>1, <2>2, SameSequence
  <2> QED
    BY <2>3 DEF d
<1> QED
  BY <1>17, <1>19 DEF new, A

LEMMA AppendToTwo ==
  ASSUME NEW a \in CellValues, NEW b \in CellValues, NEW x \in CellValues
  PROVE  Append(<<a, b>>, x) = <<a, b, x>>
<1> DEFINE c == <<a, b>>
           d == Append(c, x)
           e == <<a, b, x>>
<1>1. c \in Seq(CellValues) /\ Len(c) = 2 /\ c[1] = a /\ c[2] = b
  OBVIOUS
<1> HIDE DEF c
<1>2. d \in Seq(CellValues) /\ Len(d) = 3 /\ d[1] = a /\ d[2] = b /\ d[3] = x
  <2>1. c \in Seq(CellValues)
    BY <1>1
  <2>2. /\ d \in Seq(CellValues) /\ Len(d) = Len(c) + 1 /\ d[Len(c) + 1] = x
        /\ \A i \in 1..Len(c) : d[i] = c[i]
    BY <2>1
  <2> HIDE DEF d
  <2>3. 1 \in 1..2 /\ 2 \in 1..2 /\ 2 + 1 = 3
    OBVIOUS
  <2> QED
    BY <1>1, <2>2, <2>3
<1>3. e \in Seq(CellValues) /\ Len(e) = 3 /\ e[1] = a /\ e[2] = b /\ e[3] = x
  OBVIOUS
<1> HIDE DEF d, e
<1>4. \A j \in 1..3 : d[j] = e[j]
  <2> TAKE j \in 1..3
  <2>1. j = 1 \/ j = 2 \/ j = 3
    OBVIOUS
  <2> QED
    BY <1>2, <1>3, <2>1
<1>5. d = e
  BY <1>2, <1>3, <1>4, SameSequence
<1> QED
  BY <1>5 DEF c, d, e

LEMMA ThirdChildAdded ==
  ASSUME NEW f, GoodFactory(f), Within(f), NEW m \in Memories, NEW nd \in NodeRecords,
         Few(nd), nd.inline = 2, NEW x \in CellValues,
         NodeCells(nd) \subseteq Used(f), NEW r \in ThirdChild(f, m, nd, x)
  PROVE  Added(m, nd, x, r)
<1> DEFINE Header2(q) == WriteAt(q.memory, nd.self, 2 * Word, Junk)
           Many(q) == [nd EXCEPT !.array = [q.vector EXCEPT !.num = 3], !.inline = 0]
           One(q) == SetChild(Header2(q), Many(q), 1, Child(m, nd, 1))
           Two(q) == SetChild(One(q), Many(q), 2, Child(m, nd, 2))
<1>1. PICK q \in Reallocate(f, m, NoVector, 3, Word) :
        r = [factory |-> q.factory, memory |-> SetChild(Two(q), Many(q), 3, x),
             node |-> Many(q)]
  BY DEF ThirdChild
<1>2. Word \in Nat \ {0} /\ NodeSize \in Nat /\ 2 * Word <= NodeSize /\ nd.self \in Nat
      /\ nd.self # Null
  BY Sizes, SizesAssumption DEF NodeRecords, Few
<1>3. /\ NoVector \in Vectors /\ Array(NoVector, Word) = {} /\ Filled(NoVector)
      /\ NoVector.cap = 0
  BY <1>2, EmptyVector DEF Filled, NoVector
<1>4. Regrown(f, m, NoVector, q.factory, q.memory, q.vector, Word) /\ q.vector.cap >= 3
  BY <1>2, <1>3, ReallocationKeeps
<1>5. /\ Within(q.factory) /\ q.memory \in Memories /\ q.vector \in Vectors
      /\ Array(q.vector, Word) \subseteq 1..Last
      /\ OnlyIn(m, q.memory, Array(q.vector, Word))
      /\ Array(q.vector, Word) \cap Used(f) = {}
  BY <1>3, <1>4 DEF Regrown, Grown
<1> DEFINE w == [q.vector EXCEPT !.num = 3]
           many == Many(q)
<1>6. /\ w \in Vectors /\ w.num = 3 /\ w.cap >= 3
      /\ Array(w, Word) = Array(q.vector, Word)
  <2> DEFINE v == q.vector
  <2>1. v \in Vectors /\ v.cap >= 3 /\ w = [v EXCEPT !.num = 3] /\ 3 \in Int
    BY <1>4, <1>5
  <2> HIDE DEF w, v
  <2>2. w \in Vectors /\ w.num = 3 /\ w.cap = v.cap /\ Array(w, Word) = Array(v, Word)
    BY <2>1, NumFields
  <2> QED
    BY <2>1, <2>2 DEF v
<1> HIDE DEF w
<1>7. /\ many \in NodeRecords /\ many.array = w /\ many.self = nd.self /\ many.inline = 0
  <2>1. many = [nd EXCEPT !.array = w, !.inline = 0]
    BY DEF w
  <2> HIDE DEF many
  <2> DEFINE big == [nd EXCEPT !.array = w]
  <2>2. big \in NodeRecords /\ big.array = w /\ big.self = nd.self
    BY <1>6, NodeWithArray
  <2>3. many = [big EXCEPT !.inline = 0]
    BY <2>1
  <2> HIDE DEF big
  <2>4. many \in NodeRecords /\ many.array = w /\ many.self = nd.self
    BY <2>2, <2>3, NodeWithInline
  <2>5. many.inline = 0
    BY <2>2, <2>3 DEF NodeRecords
  <2> QED
    BY <2>4, <2>5
<1>8. w.at # Null
  <2>1. w.cap > 0 /\ Array(w, Word) \subseteq 1..Last
    BY <1>5, <1>6 DEF Vectors
  <2> QED
    BY <1>2, <1>6, <2>1, ArrayThere
<1> DEFINE c1 == Child(m, nd, 1)
           c2 == Child(m, nd, 2)
           m0 == Header2(q)
           m1 == One(q)
           m2 == Two(q)
<1>9. r.factory = q.factory /\ r.memory = SetChild(m2, many, 3, x) /\ r.node = many
  BY <1>1
<1>10. m1 = SetChild(m0, many, 1, c1) /\ m2 = SetChild(m1, many, 2, c2)
  OBVIOUS
<1>11. m0 \in Memories
       /\ \A a : At(m0, a) = IF a \in 1..Last /\ a \in Cells(nd.self, 2 * Word) THEN Junk
                             ELSE At(q.memory, a)
  <2>1. Junk \in CellValues
    BY DEF CellValues
  <2> QED
    BY <1>5, <2>1, Writing, AtWriteAt
<1> HIDE DEF many, m0, m1, m2, c1, c2
<1>12. Lots(many) /\ IsMany(many)
  <2>1. Filled(w)
    BY <1>6 DEF Filled, Vectors
  <2> QED
    BY <1>2, <1>7, <1>8, <2>1 DEF Lots, IsMany
<1>13. Kids(many) = w /\ \A i : ChildAddress(many, i) = w.at + (i - 1) * Word
  BY <1>7, <1>12 DEF Kids, ChildAddress
<1>14. c1 \in CellValues /\ c2 \in CellValues /\ Children(m, nd) = <<c1, c2>>
  <2>1. NumChildren(nd) = 2
    BY DEF Few, IsMany, NoVector, NumChildren
  <2>2. Children(m, nd) = [i \in 1..2 |-> Child(m, nd, i)]
    BY <2>1 DEF Children, Child
  <2>3. [i \in 1..2 |-> Child(m, nd, i)] = <<c1, c2>>
    BY DEF c1, c2
  <2>4. c1 \in CellValues /\ c2 \in CellValues
    BY Writing DEF c1, c2, Child
  <2> QED
    BY <2>2, <2>3, <2>4
<1>15. /\ OnlyIn(m0, r.memory, Array(w, Word))
       /\ Contents(r.memory, w, Word) = Append(Children(m, nd), x)
  <2>1. m1 = WriteAt(m0, w.at + (1 - 1) * Word, Word, c1)
    BY <1>10, <1>13 DEF SetChild
  <2>2. m2 = WriteAt(m1, w.at + (2 - 1) * Word, Word, c2)
    BY <1>10, <1>13 DEF SetChild
  <2>3. r.memory = WriteAt(m2, w.at + (3 - 1) * Word, Word, x)
    BY <1>9, <1>13 DEF SetChild
  <2>4. Array(w, Word) \subseteq 1..Last
    BY <1>5, <1>6
  <2>5. r.memory = WriteAt(WriteAt(WriteAt(m0, w.at + (1 - 1) * Word, Word, c1),
                                   w.at + (2 - 1) * Word, Word, c2),
                           w.at + (3 - 1) * Word, Word, x)
    BY <2>1, <2>2, <2>3
  <2>6. OnlyIn(m0, r.memory, Array(w, Word)) /\ Contents(r.memory, w, Word) = <<c1, c2, x>>
    BY <1>2, <1>6, <1>11, <1>14, <2>4, <2>5, ThreeWritten
  <2>7. Append(<<c1, c2>>, x) = <<c1, c2, x>>
    BY <1>14, AppendToTwo
  <2> QED
    BY <1>14, <2>6, <2>7
<1>16. OnlyIn(m, r.memory, NodeMemory(many))
  <2>1. Cells(nd.self, 2 * Word) \subseteq NodeCells(nd)
    BY <1>2 DEF Cells, NodeCells
  <2>2. NodeMemory(many) = NodeCells(nd) \cup Array(w, Word)
    BY <1>7 DEF NodeMemory, NodeCells
  <2> QED
    BY <1>5, <1>6, <1>11, <1>15, <2>1, <2>2 DEF OnlyIn
<1>17. Children(r.memory, many) = Contents(r.memory, w, Word)
  BY <1>7, <1>12, <1>13, KidsAre
<1> QED
  BY <1>5, <1>9, <1>12, <1>15, <1>16, <1>17 DEF Added

LEMMA ChildAdded ==
  ASSUME NEW f, GoodFactory(f), Within(f), NEW m \in Memories, NEW nd \in NodeRecords,
         Few(nd) \/ Lots(nd), NEW x \in CellValues,
         NodeCells(nd) \subseteq Used(f), Array(nd.array, Word) \subseteq Used(f),
         NEW r \in WithChild(f, m, nd, x)
  PROVE  Added(m, nd, x, r)
<1>1. CASE IsMany(nd)
  <2>1. r \in FurtherChild(f, m, nd, x)
    BY <1>1 DEF WithChild
  <2> QED
    BY <1>1, <2>1, FurtherChildAdded
<1>2. CASE ~IsMany(nd) /\ nd.inline = 2
  <2>1. r \in ThirdChild(f, m, nd, x) /\ Few(nd)
    BY <1>2 DEF WithChild, Lots, IsMany
  <2> QED
    BY <1>2, <2>1, ThirdChildAdded
<1>3. CASE ~IsMany(nd) /\ nd.inline # 2
  <2>1. r \in InlineChild(f, m, nd, x) /\ Few(nd)
    BY <1>3 DEF WithChild, Lots, IsMany
  <2>2. NodeCells(nd) \subseteq 1..Last
    BY ArrayWithin
  <2> QED
    BY <1>3, <2>1, <2>2, InlineChildAdded
<1> QED
  BY <1>1, <1>2, <1>3

(***************************************************************************)
(* What else holds in every state: all memory is within the addresses, no  *)
(* list has more elements than room, and a node is not there, or keeps its *)
(* children either in itself or in an array.                               *)
(***************************************************************************)
Ready ==
    /\ Within(factory)
    /\ Filled(stack)
    /\ \A j \in 1..Len(jobs) : Filled(jobs[j])
    /\ \A n \in Nodes : GoodNode(node[n])
    /\ \A t \in Texts : Filled(text[t])

\* The lists of DemangleJobs.
StackBar == Contents(memory, stack, Word)
JobsBar == [j \in 1..Len(jobs) |-> Contents(memory, jobs[j], Word)]
NodeBar == [n \in Nodes |-> IF node[n] = NoNode THEN None ELSE Children(memory, node[n])]
TextBar == [t \in Texts |-> Contents(memory, text[t], 1)]

LEMMA Typed ==
  ASSUME IInv
  PROVE  /\ GoodFactory(factory) /\ memory \in Memories /\ Apart
         /\ stack \in Vectors /\ jobs \in Seq(Vectors)
         /\ \A j \in 1..Len(jobs) : jobs[j] \in Vectors
         /\ \A n \in Nodes : node[n] \in NodeRecords
         /\ \A t \in Texts : text[t] \in Vectors
         /\ node \in [Nodes -> NodeRecords] /\ text \in [Texts -> Vectors]
  BY DEF IInv, Shapes

LEMMA NodeThere ==
  ASSUME NEW nd, GoodNode(nd), nd # NoNode
  PROVE  (Few(nd) \/ Lots(nd)) /\ nd.self # Null
  BY DEF GoodNode, Few, Lots

LEMMA SameOutside ==
  ASSUME NEW m \in Memories, NEW m2 \in Memories, NEW W, OnlyIn(m, m2, W),
         NEW A, A \cap W = {}
  PROVE  \A q \in A : At(m2, q) = At(m, q)
<1> TAKE q \in A
<1>1. CASE q \in 1..Last
  BY <1>1 DEF OnlyIn
<1>2. CASE q \notin 1..Last
  BY <1>2, AtOf
<1> QED
  BY <1>1, <1>2

\* Where the owners of what a step writes are O, the lists of all others stay.
LEMMA Untouched ==
  ASSUME IInv, Ready, IInv', UNCHANGED jobs,
         NEW O, O \subseteq Owners, \A p \in Owners \ O : Held'[p] = Held[p],
         NEW W, \A q \in W : \E o \in O : q \in Held'[o],
         OnlyIn(memory, memory', W)
  PROVE  /\ <<"stack", 0>> \notin O => Contents(memory', stack, Word) = StackBar
         /\ \A j \in 1..Len(jobs) : <<"saved", j>> \notin O =>
              Contents(memory', jobs[j], Word) = Contents(memory, jobs[j], Word)
         /\ \A n \in Nodes :
              node[n] # NoNode /\ <<"node", n>> \notin O /\ <<"children", n>> \notin O =>
                Children(memory', node[n]) = Children(memory, node[n])
         /\ \A t \in Texts : <<"text", t>> \notin O =>
              Contents(memory', text[t], 1) = Contents(memory, text[t], 1)
<1>1. memory \in Memories /\ memory' \in Memories /\ Apart'
  BY DEF IInv
<1>2. Owners' = Owners
  BY DEF Owners
<1>3. \A p \in Owners \ O : Held[p] \cap W = {}
  <2> SUFFICES ASSUME NEW p \in Owners \ O, NEW q \in W, q \in Held[p] PROVE FALSE
    OBVIOUS
  <2>1. PICK o \in O : q \in Held'[o]
    OBVIOUS
  <2>2. o # p /\ o \in Owners' /\ p \in Owners' /\ q \in Held'[p]
    BY <1>2
  <2> QED
    BY <1>1, <2>1, <2>2 DEF Apart
<1>4. \A p \in Owners \ O : \A q \in Held[p] : At(memory', q) = At(memory, q)
  BY <1>1, <1>3, SameOutside
<1>5. Word \in Nat \ {0} /\ 1 \in Nat \ {0}
  BY Sizes
<1>6. ASSUME <<"stack", 0>> \notin O
      PROVE  Contents(memory', stack, Word) = StackBar
  <2>1. \A q \in Array(stack, Word) : At(memory', q) = At(memory, q)
    BY <1>4, <1>6, Holdings
  <2>2. stack \in Vectors /\ Filled(stack)
    BY Typed DEF Ready
  <2> QED
    BY <1>5, <2>1, <2>2, ContentsKept DEF StackBar
<1>7. ASSUME NEW j \in 1..Len(jobs), <<"saved", j>> \notin O
      PROVE  Contents(memory', jobs[j], Word) = Contents(memory, jobs[j], Word)
  <2>1. \A q \in Array(jobs[j], Word) : At(memory', q) = At(memory, q)
    BY <1>4, <1>7, Holdings
  <2>2. jobs[j] \in Vectors /\ Filled(jobs[j])
    BY Typed DEF Ready
  <2> QED
    BY <1>5, <2>1, <2>2, ContentsKept
<1>8. ASSUME NEW t \in Texts, <<"text", t>> \notin O
      PROVE  Contents(memory', text[t], 1) = Contents(memory, text[t], 1)
  <2>1. \A q \in Array(text[t], 1) : At(memory', q) = At(memory, q)
    BY <1>4, <1>8, Holdings
  <2>2. text[t] \in Vectors /\ Filled(text[t])
    BY Typed DEF Ready
  <2> QED
    BY <1>5, <2>1, <2>2, ContentsKept
<1>9. ASSUME NEW n \in Nodes, node[n] # NoNode,
             <<"node", n>> \notin O, <<"children", n>> \notin O
      PROVE  Children(memory', node[n]) = Children(memory, node[n])
  <2> DEFINE nd == node[n]
  <2>1. nd \in NodeRecords /\ (Few(nd) \/ Lots(nd)) /\ nd.self # Null
    BY <1>9, Typed, NodeThere DEF Ready
  <2>2. Held[<<"node", n>>] = NodeCells(nd) /\ Held[<<"children", n>>] = Array(nd.array, Word)
    BY <2>1, Holdings DEF NodeCells
  <2>3. \A q \in NodeMemory(nd) : At(memory', q) = At(memory, q)
    <3>1. <<"node", n>> \in Owners \ O /\ <<"children", n>> \in Owners \ O
      BY <1>9, Holdings
    <3> QED
      BY <1>4, <2>2, <3>1 DEF NodeMemory
  <2> HIDE DEF nd
  <2> DEFINE v == Kids(nd)
  <2>4. v \in Vectors /\ Filled(v) /\ Array(v, Word) \subseteq NodeMemory(nd)
        /\ \A m : Children(m, nd) = Contents(m, v, Word)
    BY <2>1, KidsAre, KidsWithin
  <2> HIDE DEF v
  <2>5. Contents(memory', v, Word) = Contents(memory, v, Word)
    BY <1>5, <2>3, <2>4, ContentsKept
  <2> QED
    BY <2>4, <2>5 DEF nd
<1> QED
  BY <1>6, <1>7, <1>8, <1>9

LEMMA OtherLists ==
  ASSUME IInv, Ready, IInv', UNCHANGED jobs,
         NEW O, O \subseteq Owners, \A p \in Owners \ O : Held'[p] = Held[p],
         NEW W, \A q \in W : \E o \in O : q \in Held'[o],
         OnlyIn(memory, memory', W),
         \A j \in 1..Len(jobs) : <<"saved", j>> \notin O
  PROVE  /\ JobsBar' = JobsBar
         /\ stack' = stack /\ <<"stack", 0>> \notin O => StackBar' = StackBar
         /\ \A n \in Nodes :
              node'[n] = node[n] /\ <<"node", n>> \notin O /\ <<"children", n>> \notin O =>
                NodeBar'[n] = NodeBar[n]
         /\ \A t \in Texts :
              text'[t] = text[t] /\ <<"text", t>> \notin O => TextBar'[t] = TextBar[t]
<1>1. /\ <<"stack", 0>> \notin O => Contents(memory', stack, Word) = StackBar
      /\ \A j \in 1..Len(jobs) : <<"saved", j>> \notin O =>
           Contents(memory', jobs[j], Word) = Contents(memory, jobs[j], Word)
      /\ \A n \in Nodes :
           node[n] # NoNode /\ <<"node", n>> \notin O /\ <<"children", n>> \notin O =>
             Children(memory', node[n]) = Children(memory, node[n])
      /\ \A t \in Texts : <<"text", t>> \notin O =>
           Contents(memory', text[t], 1) = Contents(memory, text[t], 1)
  BY Untouched
<1>2. JobsBar' = JobsBar
  BY <1>1 DEF JobsBar
<1>3. stack' = stack /\ <<"stack", 0>> \notin O => StackBar' = StackBar
  BY <1>1 DEF StackBar
<1>4. \A n \in Nodes :
        node'[n] = node[n] /\ <<"node", n>> \notin O /\ <<"children", n>> \notin O =>
          NodeBar'[n] = NodeBar[n]
  BY <1>1 DEF NodeBar
<1>5. \A t \in Texts :
        text'[t] = text[t] /\ <<"text", t>> \notin O => TextBar'[t] = TextBar[t]
  BY <1>1 DEF TextBar
<1> QED
  BY <1>2, <1>3, <1>4, <1>5

LEMMA SameNodes ==
  ASSUME \A n \in Nodes : NodeBar'[n] = NodeBar[n]
  PROVE  NodeBar' = NodeBar
  BY DEF NodeBar

LEMMA OneChanged ==
  ASSUME NEW D, NEW F, NEW G, F = [d \in D |-> F[d]], G = [d \in D |-> G[d]],
         NEW n \in D, NEW x, G[n] = x, \A d \in D \ {n} : G[d] = F[d]
  PROVE  G = [F EXCEPT ![n] = x]
  OBVIOUS

LEMMA NodeChanged ==
  ASSUME NEW n \in Nodes, NEW kids, NodeBar'[n] = kids,
         \A k \in Nodes \ {n} : NodeBar'[k] = NodeBar[k]
  PROVE  NodeBar' = [NodeBar EXCEPT ![n] = kids]
<1>1. /\ NodeBar = [k \in Nodes |-> NodeBar[k]]
      /\ NodeBar' = [k \in Nodes |-> NodeBar'[k]]
  BY DEF NodeBar
<1> DEFINE F == NodeBar
           G == NodeBar'
<1>2. F = [k \in Nodes |-> F[k]] /\ G = [k \in Nodes |-> G[k]]
  BY <1>1
<1>3. G[n] = kids /\ \A k \in Nodes \ {n} : G[k] = F[k]
  OBVIOUS
<1> HIDE DEF F, G
<1>4. G = [F EXCEPT ![n] = kids]
  BY <1>2, <1>3, OneChanged
<1> QED
  BY <1>4 DEF F, G

LEMMA TextChanged ==
  ASSUME NEW t \in Texts, NEW chars, TextBar'[t] = chars,
         \A k \in Texts \ {t} : TextBar'[k] = TextBar[k]
  PROVE  TextBar' = [TextBar EXCEPT ![t] = chars]
<1>1. /\ TextBar = [k \in Texts |-> TextBar[k]]
      /\ TextBar' = [k \in Texts |-> TextBar'[k]]
  BY DEF TextBar
<1> DEFINE F == TextBar
           G == TextBar'
<1>2. F = [k \in Texts |-> F[k]] /\ G = [k \in Texts |-> G[k]]
  BY <1>1
<1>3. G[t] = chars /\ \A k \in Texts \ {t} : G[k] = F[k]
  OBVIOUS
<1> HIDE DEF F, G
<1>4. G = [F EXCEPT ![t] = chars]
  BY <1>2, <1>3, OneChanged
<1> QED
  BY <1>4 DEF F, G

LEMMA SameTexts ==
  ASSUME \A t \in Texts : TextBar'[t] = TextBar[t]
  PROVE  TextBar' = TextBar
  BY DEF TextBar

(***************************************************************************)
(* Every step keeps Ready and is a step of DemangleJobs.                   *)
(***************************************************************************)
LEMMA PushRefines ==
  ASSUME IInv, Ready, NEW x \in Values, Push(x)
  PROVE  Ready' /\ Jobs!Push(x)
<1>1. PICK r \in PushBack(factory, memory, stack, x, Word) :
        factory' = r.factory /\ memory' = r.memory /\ stack' = r.vector
  BY DEF Push
<1>2. UNCHANGED <<jobs, node, text>>
  BY DEF Push
<1> DEFINE o == <<"stack", 0>>
           W == Array(stack', Word)
<1>3. o \in Owners /\ Held[o] = Array(stack, Word) /\ Held'[o] = W
  BY Holdings, HoldingsAfter
<1>4. /\ Within(factory') /\ Filled(stack')
      /\ OnlyIn(memory, memory', W)
      /\ Contents(memory', stack', Word) = Append(StackBar, x)
  <2>1. /\ GoodFactory(factory) /\ Within(factory) /\ memory \in Memories
        /\ stack \in Vectors /\ Filled(stack) /\ Word \in Nat \ {0} /\ x \in CellValues
    BY Typed, Sizes DEF Ready, CellValues
  <2>2. Array(stack, Word) \subseteq Used(factory)
    BY <1>3, Typed DEF Apart
  <2>3. /\ Within(r.factory) /\ Filled(r.vector)
        /\ OnlyIn(memory, r.memory, Array(r.vector, Word))
        /\ Contents(r.memory, r.vector, Word) = Append(Contents(memory, stack, Word), x)
    BY <2>1, <2>2, PushBackAppends
  <2> QED
    BY <1>1, <2>3 DEF StackBar
<1>5. Ready'
  BY <1>2, <1>4 DEF Ready
<1>6. IInv'
  BY Pushes
<1>7. \A p \in Owners \ {o} : Held'[p] = Held[p]
  BY <1>2, SameHeld
<1>8. JobsBar' = JobsBar /\ NodeBar' = NodeBar /\ TextBar' = TextBar
  <2> DEFINE O == {o}
  <2>1. O \subseteq Owners /\ \A q \in W : \E p \in O : q \in Held'[p]
    BY <1>3
  <2>2. \A p \in Owners \ O : Held'[p] = Held[p]
    BY <1>7
  <2>3. /\ \A j \in 1..Len(jobs) : <<"saved", j>> \notin O
        /\ \A n \in Nodes : <<"node", n>> \notin O /\ <<"children", n>> \notin O
        /\ \A t \in Texts : <<"text", t>> \notin O
    OBVIOUS
  <2> HIDE DEF O, W
  <2>4. /\ JobsBar' = JobsBar /\ \A n \in Nodes : NodeBar'[n] = NodeBar[n]
        /\ \A t \in Texts : TextBar'[t] = TextBar[t]
    BY <1>2, <1>4, <1>6, <2>1, <2>2, <2>3, OtherLists
  <2> QED
    BY <2>4, SameNodes, SameTexts
<1>9. StackBar' = Append(StackBar, x)
  BY <1>4 DEF StackBar
<1>10. Jobs!Push(x)
  BY <1>8, <1>9 DEF Jobs!Push, StackBar, JobsBar, NodeBar, TextBar
<1> QED
  BY <1>5, <1>10

LEMMA FrontIs ==
  ASSUME NEW T, NEW a \in Seq(T), a # << >>
  PROVE  /\ Jobs!Front(a) \in Seq(T) /\ Len(Jobs!Front(a)) = Len(a) - 1 /\ Len(a) > 0
         /\ \A i \in 1..(Len(a) - 1) : Jobs!Front(a)[i] = a[i]
<1> DEFINE n == Len(a)
           b == SubSeq(a, 1, n - 1)
<1>1. Jobs!Front(a) = b
  BY DEF Jobs!Front
<1>2. n \in Nat /\ n > 0
  OBVIOUS
<1>3. b \in Seq(T) /\ Len(b) = n - 1 /\ \A i \in 1..(n - 1) : b[i] = a[i]
  <2>1. Len(a) = n
    OBVIOUS
  <2> HIDE DEF n
  <2> QED
    BY <1>2, <2>1
<1> HIDE DEF b
<1> QED
  BY <1>1, <1>2, <1>3

LEMMA PopRefines ==
  ASSUME IInv, Ready, Pop
  PROVE  Ready' /\ Jobs!Pop
<1>1. /\ stack.num > 0 /\ stack' = [stack EXCEPT !.num = stack.num - 1]
      /\ UNCHANGED <<factory, memory, jobs, node, text>>
  BY DEF Pop
<1> DEFINE n == stack.num
<1>2. memory \in Memories /\ stack \in Vectors /\ Filled(stack) /\ n \in Nat /\ n > 0
  BY <1>1, Typed DEF Ready, Filled, Vectors
<1>3. stack' \in Vectors /\ stack'.at = stack.at /\ stack'.num = n - 1 /\ stack'.cap = stack.cap
  <2>1. n - 1 \in Int
    BY <1>2
  <2> QED
    BY <1>1, <1>2, <2>1, NumFields
<1>4. Filled(stack')
  BY <1>2, <1>3 DEF Filled, Vectors
<1>5. Ready'
  BY <1>1, <1>4 DEF Ready
<1>6. /\ StackBar \in Seq(CellValues) /\ Len(StackBar) = n
      /\ \A i \in 1..n : StackBar[i] = ReadAt(memory, stack.at + (i - 1) * Word, Word)
  BY <1>2, ContentsIs DEF StackBar
<1>7. /\ StackBar' \in Seq(CellValues) /\ Len(StackBar') = n - 1
      /\ \A i \in 1..(n - 1) : StackBar'[i] = ReadAt(memory, stack.at + (i - 1) * Word, Word)
  <2> DEFINE v == stack'
  <2>1. v.num \in Nat /\ v.num = n - 1 /\ v.at = stack.at /\ StackBar' = Contents(memory, v, Word)
    BY <1>1, <1>2, <1>3 DEF StackBar
  <2> HIDE DEF v, n
  <2> DEFINE b == Contents(memory, v, Word)
  <2>2. /\ b \in Seq(CellValues) /\ Len(b) = v.num
        /\ \A i \in 1..v.num : b[i] = ReadAt(memory, v.at + (i - 1) * Word, Word)
    BY <1>2, <2>1, ContentsIs
  <2> HIDE DEF b
  <2>3. StackBar' = b
    BY <2>1 DEF b
  <2> QED
    BY <2>1, <2>2, <2>3
<1> DEFINE a == StackBar
           b == StackBar'
           c == Jobs!Front(a)
<1>8. a # << >>
  BY <1>2, <1>6
<1>9. /\ c \in Seq(CellValues) /\ Len(c) = n - 1
      /\ \A i \in 1..(n - 1) : c[i] = a[i]
  <2> HIDE DEF a, n
  <2>1. a \in Seq(CellValues) /\ Len(a) = n
    BY <1>6 DEF a
  <2>2. /\ c \in Seq(CellValues) /\ Len(c) = Len(a) - 1
        /\ \A i \in 1..(Len(a) - 1) : c[i] = a[i]
    BY <1>8, <2>1, FrontIs
  <2> HIDE DEF c
  <2> QED
    BY <2>1, <2>2
<1> HIDE DEF c, n
<1>10. \A i \in 1..(n - 1) : b[i] = c[i]
  <2> TAKE i \in 1..(n - 1)
  <2>1. i \in 1..n
    BY <1>2
  <2> QED
    BY <1>6, <1>7, <1>9, <2>1
<1>11. b = c
  <2>1. b \in Seq(CellValues) /\ Len(b) = n - 1
    BY <1>7
  <2> HIDE DEF b
  <2> QED
    BY <1>9, <1>10, <2>1, SameSequence
<1>12. UNCHANGED <<JobsBar, NodeBar, TextBar>>
  BY <1>1 DEF JobsBar, NodeBar, TextBar
<1>13. Jobs!Pop
  BY <1>8, <1>11, <1>12 DEF Jobs!Pop, StackBar, JobsBar, NodeBar, TextBar, c
<1> QED
  BY <1>5, <1>13

\* The lists of the jobs.
LEMMA ListsAre ==
  ASSUME NEW m \in Memories, NEW js \in Seq(Vectors),
         \A j \in 1..Len(js) : Filled(js[j]),
         NEW ls, ls = [j \in 1..Len(js) |-> Contents(m, js[j], Word)]
  PROVE  /\ ls \in Seq(Seq(CellValues)) /\ Len(ls) = Len(js)
         /\ \A j \in 1..Len(js) : ls[j] = Contents(m, js[j], Word)
<1>1. \A j \in 1..Len(js) : Contents(m, js[j], Word) \in Seq(CellValues)
  <2> TAKE j \in 1..Len(js)
  <2>1. js[j].num \in Nat
    BY DEF Filled, Vectors
  <2> QED
    BY <2>1, ContentsIs
<1>2. ls \in [1..Len(js) -> Seq(CellValues)] /\ Len(js) \in Nat
  BY <1>1
<1>3. \A j \in 1..Len(js) : ls[j] = Contents(m, js[j], Word)
  OBVIOUS
<1>4. ls \in Seq(Seq(CellValues)) /\ Len(ls) = Len(js)
  BY <1>2
<1> QED
  BY <1>3, <1>4

LEMMA EndRefines ==
  ASSUME IInv, Ready, End
  PROVE  Ready' /\ Jobs!End
<1> DEFINE n == Len(jobs)
<1>1. /\ jobs # << >> /\ stack' = jobs[n] /\ jobs' = SubSeq(jobs, 1, n - 1)
      /\ UNCHANGED <<factory, memory, node, text>>
  BY DEF End
<1>2. n \in Nat /\ n > 0 /\ n \in 1..n /\ jobs \in Seq(Vectors)
  BY <1>1, Typed
<1> HIDE DEF n
<1>3. /\ jobs' \in Seq(Vectors) /\ Len(jobs') = n - 1
      /\ \A j \in 1..(n - 1) : jobs'[j] = jobs[j]
      /\ \A j \in 1..(n - 1) : j \in 1..n
  <2>1. Len(jobs) = n
    BY DEF n
  <2>2. /\ SubSeq(jobs, 1, n - 1) \in Seq(Vectors)
        /\ Len(SubSeq(jobs, 1, n - 1)) = n - 1
        /\ \A j \in 1..(n - 1) : SubSeq(jobs, 1, n - 1)[j] = jobs[j]
    BY <1>2, <2>1
  <2>3. \A j \in 1..(n - 1) : j \in 1..n
    BY <1>2
  <2> QED
    BY <1>1, <2>2, <2>3
<1>4. Filled(stack') /\ \A j \in 1..Len(jobs') : Filled(jobs'[j])
  <2>1. \A j \in 1..n : Filled(jobs[j])
    BY DEF Ready, n
  <2> QED
    BY <1>1, <1>2, <1>3, <2>1
<1>5. Ready'
  BY <1>1, <1>4 DEF Ready
<1> DEFINE a == JobsBar
           b == JobsBar'
           c == Jobs!Front(a)
<1>7. /\ a \in Seq(Seq(CellValues)) /\ Len(a) = n
      /\ \A j \in 1..n : a[j] = Contents(memory, jobs[j], Word)
  <2>1. memory \in Memories /\ \A j \in 1..Len(jobs) : Filled(jobs[j])
    BY Typed DEF Ready
  <2> QED
    BY <1>2, <2>1, ListsAre DEF n, JobsBar
<1>8. /\ b \in Seq(Seq(CellValues)) /\ Len(b) = n - 1
      /\ \A j \in 1..(n - 1) : b[j] = Contents(memory, jobs[j], Word)
  <2> DEFINE js == jobs'
  <2>1. /\ memory \in Memories /\ js \in Seq(Vectors)
        /\ \A j \in 1..Len(js) : Filled(js[j])
        /\ b = [j \in 1..Len(js) |-> Contents(memory, js[j], Word)]
    BY <1>1, <1>3, <1>4, Typed DEF JobsBar
  <2>2. Len(js) = n - 1 /\ \A j \in 1..(n - 1) : js[j] = jobs[j]
    BY <1>3
  <2> HIDE DEF js, b
  <2>3. /\ b \in Seq(Seq(CellValues)) /\ Len(b) = Len(js)
        /\ \A j \in 1..Len(js) : b[j] = Contents(memory, js[j], Word)
    BY <2>1, ListsAre
  <2> QED
    BY <2>2, <2>3
<1>10. StackBar' = a[n]
  BY <1>1, <1>2, <1>7 DEF StackBar
<1>11. a # << >>
  BY <1>2, <1>7
<1> HIDE DEF a, b
<1>12. /\ c \in Seq(Seq(CellValues)) /\ Len(c) = n - 1
       /\ \A j \in 1..(n - 1) : c[j] = a[j]
  <2>1. a \in Seq(Seq(CellValues)) /\ Len(a) = n
    BY <1>7
  <2>2. /\ c \in Seq(Seq(CellValues)) /\ Len(c) = Len(a) - 1
        /\ \A j \in 1..(Len(a) - 1) : c[j] = a[j]
    BY <1>11, <2>1, FrontIs
  <2> HIDE DEF c
  <2> QED
    BY <2>1, <2>2
<1> HIDE DEF c
<1>13. b = c
  <2>1. \A j \in 1..(n - 1) : b[j] = c[j]
    BY <1>3, <1>7, <1>8, <1>12
  <2> QED
    BY <1>8, <1>12, <2>1, SameSequence
<1>14. Jobs!Last(a) = a[n]
  BY <1>7 DEF Jobs!Last
<1>15. NodeBar' = NodeBar /\ TextBar' = TextBar
  BY <1>1 DEF NodeBar, TextBar
<1>16. Jobs!End
  BY <1>10, <1>11, <1>13, <1>14, <1>15
     DEF Jobs!End, StackBar, JobsBar, NodeBar, TextBar, a, b, c
<1> QED
  BY <1>5, <1>16

LEMMA NoElements ==
  ASSUME NEW m, NEW v, v.num = 0, NEW s
  PROVE  Contents(m, v, s) = << >>
  BY DEF Contents

LEMMA BeginRefines ==
  ASSUME IInv, Ready, Begin
  PROVE  Ready' /\ Jobs!Begin
<1>1. PICK r \in Allocate(factory, InitialCapacity * Word, Word) :
        /\ factory' = r.factory
        /\ stack' = [at |-> r.at, num |-> 0, cap |-> InitialCapacity]
  BY DEF Begin
<1>2. jobs' = Append(jobs, stack) /\ UNCHANGED <<memory, node, text>>
  BY DEF Begin
<1>3. Within(factory')
  <2>1. InitialCapacity * Word \in Nat /\ Word \in Nat \ {0}
    BY Sizes, Product
  <2>2. GoodFactory(factory) /\ Within(factory)
    BY Typed DEF Ready
  <2> QED
    BY <1>1, <2>1, <2>2, AllocationWithin
<1> DEFINE n == Len(jobs)
<1>4. /\ n \in Nat /\ jobs \in Seq(Vectors) /\ memory \in Memories /\ stack \in Vectors
      /\ Filled(stack) /\ \A j \in 1..n : Filled(jobs[j])
  BY Typed DEF Ready
<1> HIDE DEF n
<1>5. /\ jobs' \in Seq(Vectors) /\ Len(jobs') = n + 1 /\ jobs'[n + 1] = stack
      /\ \A j \in 1..n : jobs'[j] = jobs[j]
  BY <1>2, <1>4 DEF n
<1>6. \A j \in 1..(n + 1) : j \in 1..n \/ j = n + 1
  BY <1>4
<1>7. Filled(stack') /\ \A j \in 1..Len(jobs') : Filled(jobs'[j])
  <2>1. Filled(stack')
    BY <1>1, Sizes DEF Filled
  <2> QED
    BY <1>4, <1>5, <1>6, <2>1
<1>8. Ready'
  BY <1>2, <1>3, <1>7 DEF Ready
<1>9. StackBar' = << >>
  <2>1. stack'.num = 0
    BY <1>1
  <2> QED
    BY <2>1, NoElements DEF StackBar
<1> DEFINE a == JobsBar
           b == JobsBar'
           c == Append(a, StackBar)
<1>10. /\ a \in Seq(Seq(CellValues)) /\ Len(a) = n
       /\ \A j \in 1..n : a[j] = Contents(memory, jobs[j], Word)
  BY <1>4, ListsAre DEF n, JobsBar
<1>11. /\ b \in Seq(Seq(CellValues)) /\ Len(b) = n + 1
       /\ \A j \in 1..(n + 1) : b[j] = Contents(memory, jobs'[j], Word)
  <2> DEFINE js == jobs'
  <2>1. /\ js \in Seq(Vectors) /\ Len(js) = n + 1
        /\ \A j \in 1..Len(js) : Filled(js[j])
        /\ b = [j \in 1..Len(js) |-> Contents(memory, js[j], Word)]
    BY <1>2, <1>5, <1>7 DEF JobsBar
  <2> HIDE DEF js, b
  <2>2. /\ b \in Seq(Seq(CellValues)) /\ Len(b) = Len(js)
        /\ \A j \in 1..Len(js) : b[j] = Contents(memory, js[j], Word)
    BY <1>4, <2>1, ListsAre
  <2>3. \A j \in 1..(n + 1) : b[j] = Contents(memory, js[j], Word)
    BY <2>1, <2>2
  <2> QED
    BY <2>1, <2>2, <2>3 DEF js
<1>12. StackBar \in Seq(CellValues)
  <2>1. stack.num \in Nat
    BY <1>4 DEF Filled, Vectors
  <2> QED
    BY <1>4, <2>1, ContentsIs DEF StackBar
<1> HIDE DEF a, b
<1>13. /\ c \in Seq(Seq(CellValues)) /\ Len(c) = n + 1 /\ c[n + 1] = StackBar
       /\ \A j \in 1..n : c[j] = a[j]
  <2>1. a \in Seq(Seq(CellValues)) /\ Len(a) = n
    BY <1>10
  <2> QED
    BY <1>12, <2>1
<1> HIDE DEF c
<1>14. b = c
  <2>1. \A j \in 1..(n + 1) : b[j] = c[j]
    <3> TAKE j \in 1..(n + 1)
    <3>1. CASE j \in 1..n
      BY <1>5, <1>10, <1>11, <1>13, <3>1
    <3>2. CASE j = n + 1
      BY <1>5, <1>11, <1>13, <3>2 DEF StackBar
    <3> QED
      BY <1>6, <3>1, <3>2
  <2> QED
    BY <1>11, <1>13, <2>1, SameSequence
<1>15. NodeBar' = NodeBar /\ TextBar' = TextBar
  BY <1>2 DEF NodeBar, TextBar
<1>16. Jobs!Begin
  BY <1>9, <1>14, <1>15 DEF Jobs!Begin, StackBar, JobsBar, NodeBar, TextBar, a, b, c
<1> QED
  BY <1>8, <1>16

LEMMA NewNode ==
  ASSUME NEW p \in Nat \ {0}, NEW nd, nd = [NoNode EXCEPT !.self = p], NEW m
  PROVE  nd # NoNode /\ Few(nd) /\ Children(m, nd) = << >>
<1>1. nd.self = p /\ nd.array = NoVector /\ nd.inline = 0
  BY DEF NoNode
<1>2. Few(nd) /\ NumChildren(nd) = 0
  BY <1>1 DEF Few, NumChildren, IsMany, NoVector
<1>3. nd # NoNode
  BY <1>1 DEF NoNode
<1> QED
  BY <1>2, <1>3 DEF Children

LEMMA CreateNodeRefines ==
  ASSUME IInv, Ready, NEW n \in Nodes, CreateNode(n)
  PROVE  Ready' /\ Jobs!CreateNode(n)
<1>1. PICK r \in Allocate(factory, NodeSize, Word) :
        factory' = r.factory /\ node' = [node EXCEPT ![n].self = r.at]
  BY DEF CreateNode
<1>2. node[n] = NoNode /\ UNCHANGED <<memory, stack, jobs, text>>
  BY DEF CreateNode
<1>3. Within(factory') /\ r.at \in Nat \ {0}
  <2>1. NodeSize \in Nat /\ NodeSize > 0 /\ Word \in Nat \ {0}
    BY Sizes, SizesAssumption
  <2>2. GoodFactory(factory) /\ Within(factory)
    BY Typed DEF Ready
  <2>3. Within(r.factory) /\ r.at \in Nat /\ r.at # Null
    BY <2>1, <2>2, AllocationWithin
  <2> QED
    BY <1>1, <2>3
<1> DEFINE nd == [NoNode EXCEPT !.self = r.at]
<1>4. node' = [node EXCEPT ![n] = nd]
  BY <1>1, <1>2
<1>5. nd # NoNode /\ Few(nd) /\ \A m : Children(m, nd) = << >>
  BY <1>3, NewNode
<1> HIDE DEF nd
<1>6. /\ node'[n] = nd /\ \A k \in Nodes \ {n} : node'[k] = node[k]
  BY <1>4, Typed
<1>7. Ready'
  BY <1>2, <1>3, <1>5, <1>6 DEF Ready, GoodNode
<1>8. UNCHANGED <<StackBar, JobsBar, TextBar>>
  BY <1>2 DEF StackBar, JobsBar, TextBar
<1>9. NodeBar[n] = None
  BY <1>2 DEF NodeBar
<1>10. NodeBar' = [NodeBar EXCEPT ![n] = << >>]
  <2>1. NodeBar'[n] = << >> /\ \A k \in Nodes \ {n} : NodeBar'[k] = NodeBar[k]
    BY <1>2, <1>5, <1>6 DEF NodeBar
  <2> QED
    BY <2>1, NodeChanged
<1>11. Jobs!CreateNode(n)
  BY <1>8, <1>9, <1>10 DEF Jobs!CreateNode, StackBar, JobsBar, NodeBar, TextBar
<1> QED
  BY <1>7, <1>11

LEMMA ClearRefines ==
  ASSUME IInv, Ready, Clear
  PROVE  Ready' /\ Jobs!Clear
<1>1. /\ jobs = << >> /\ factory' = Recycled /\ memory' = Blank /\ stack' = NoVector
      /\ node' = [n \in Nodes |-> NoNode] /\ text' = [t \in Texts |-> NoVector]
      /\ jobs' = jobs
  BY DEF Clear
<1>2. Within(factory')
  <2>1. CASE factory.slabs = << >>
    BY <1>1, <2>1 DEF Recycled, Ready
  <2>2. CASE factory.slabs # << >>
    <3> DEFINE k == Len(factory.slabs)
               slab == factory.slabs[k]
               g == [factory EXCEPT !.cur = slab.at + Header, !.slabs = <<slab>>]
    <3>1. factory \in Factories /\ k \in Nat /\ k > 0 /\ k \in 1..k
      BY <2>2, Typed DEF GoodFactory, Factories
    <3>2. g.slabs = <<slab>> /\ g.provided = factory.provided
      BY <3>1 DEF Factories
    <3>3. factory' = g
      BY <1>1, <2>2 DEF Recycled
    <3>4. SlabRange(slab) \subseteq Owned(factory)
      BY <3>1 DEF Owned
    <3> HIDE DEF g, slab
    <3>5. Len(g.slabs) = 1 /\ g.slabs[1] = slab /\ \A i \in 1..1 : i = 1
      BY <3>2
    <3>6. Owned(g) \subseteq Owned(factory)
      BY <3>2, <3>4, <3>5 DEF Owned
    <3> QED
      BY <3>3, <3>6 DEF Within, Ready
  <2> QED
    BY <2>1, <2>2
<1>3. Filled(NoVector) /\ GoodNode(NoNode)
  BY DEF Filled, NoVector, GoodNode
<1>4. Len(jobs) = 0
  BY <1>1
<1>5. Ready'
  BY <1>1, <1>2, <1>3, <1>4 DEF Ready
<1>6. \A m, s : Contents(m, NoVector, s) = << >>
  <2>1. NoVector.num = 0
    BY DEF NoVector
  <2> QED
    BY <2>1, NoElements
<1>7. StackBar' = << >> /\ TextBar' = [t \in Texts |-> << >>]
  BY <1>1, <1>6 DEF StackBar, TextBar
<1>8. JobsBar = << >> /\ JobsBar' = << >>
  BY <1>1, <1>4 DEF JobsBar
<1>9. NodeBar' = [n \in Nodes |-> None]
  BY <1>1 DEF NodeBar
<1>10. Jobs!Clear
  BY <1>7, <1>8, <1>9 DEF Jobs!Clear, StackBar, JobsBar, NodeBar, TextBar
<1> QED
  BY <1>5, <1>10

LEMMA NodeBarIs ==
  ASSUME IInv, Ready, NEW n \in Nodes, node[n] # NoNode
  PROVE  /\ NodeBar[n] = Children(memory, node[n]) /\ NodeBar[n] # None
         /\ Len(NodeBar[n]) = NumChildren(node[n])
<1> DEFINE nd == node[n]
           v == Kids(nd)
           c == Children(memory, nd)
<1>1. nd \in NodeRecords /\ (Few(nd) \/ Lots(nd)) /\ memory \in Memories
  BY Typed, NodeThere DEF Ready
<1>2. NodeBar[n] = c
  BY DEF NodeBar
<1> HIDE DEF nd
<1>3. v \in Vectors /\ Filled(v) /\ NumChildren(nd) = v.num /\ c = Contents(memory, v, Word)
  BY <1>1, KidsAre
<1> HIDE DEF v, c
<1>4. v.num \in Nat
  BY <1>3 DEF Vectors, Filled
<1>5. c \in Seq(CellValues) /\ Len(c) = v.num
  BY <1>1, <1>3, <1>4, ContentsIs
<1>6. c # None
  BY <1>5, NoneAssumption DEF CellValues
<1> QED
  BY <1>2, <1>3, <1>5, <1>6 DEF nd, c

\* An operation on the children of node n, which is nd afterwards.
LEMMA ChildrenChanged ==
  ASSUME IInv, Ready, IInv', UNCHANGED <<stack, jobs, text>>,
         NEW n \in Nodes, node[n] # NoNode, NEW nd, node'[n] = nd,
         \A k \in Nodes \ {n} : node'[k] = node[k],
         Few(nd) \/ Lots(nd), nd.self = node[n].self, Within(factory'),
         OnlyIn(memory, memory', NodeMemory(nd))
  PROVE  /\ Ready'
         /\ StackBar' = StackBar /\ JobsBar' = JobsBar /\ TextBar' = TextBar
         /\ NodeBar' = [NodeBar EXCEPT ![n] = Children(memory', nd)]
<1>1. GoodNode(nd) /\ nd # NoNode /\ nd.self # Null
  BY DEF GoodNode, Few, Lots, NoNode
<1>2. Ready'
  BY <1>1 DEF Ready
<1> DEFINE a == <<"node", n>>
           b == <<"children", n>>
           O == {a, b}
           W == NodeMemory(nd)
<1>3. /\ a \in Owners /\ b \in Owners
      /\ Held'[a] = NodeCells(nd) /\ Held'[b] = Array(nd.array, Word)
  BY <1>1, Holdings, HoldingsAfter DEF NodeCells
<1>4. \A p \in Owners \ O : Held'[p] = Held[p]
  <2>1. \A k \in Nodes : node'[k].self = node[k].self
    OBVIOUS
  <2>2. \A k \in Nodes : b # <<"children", k>> =>
          Array(node'[k].array, Word) = Array(node[k].array, Word)
    OBVIOUS
  <2>3. \A p \in Owners \ {b} : Held'[p] = Held[p]
    BY <2>1, <2>2, SameHeld
  <2> QED
    BY <2>3
<1>5. O \subseteq Owners /\ \A q \in W : \E o \in O : q \in Held'[o]
  BY <1>3 DEF NodeMemory
<1>6. /\ <<"stack", 0>> \notin O
      /\ \A j \in 1..Len(jobs) : <<"saved", j>> \notin O
      /\ \A k \in Nodes \ {n} : <<"node", k>> \notin O /\ <<"children", k>> \notin O
      /\ \A t \in Texts : <<"text", t>> \notin O
  OBVIOUS
<1> HIDE DEF O, W
<1>7. /\ JobsBar' = JobsBar /\ StackBar' = StackBar
      /\ \A k \in Nodes \ {n} : NodeBar'[k] = NodeBar[k]
      /\ \A t \in Texts : TextBar'[t] = TextBar[t]
  <2>1. OnlyIn(memory, memory', W)
    BY DEF W
  <2> QED
    BY <1>4, <1>5, <1>6, <2>1, OtherLists
<1>8. TextBar' = TextBar
  BY <1>7, SameTexts
<1>9. NodeBar'[n] = Children(memory', nd)
  BY <1>1 DEF NodeBar
<1>10. NodeBar' = [NodeBar EXCEPT ![n] = Children(memory', nd)]
  BY <1>7, <1>9, NodeChanged
<1> QED
  BY <1>2, <1>7, <1>8, <1>10

LEMMA AddChildRefines ==
  ASSUME IInv, Ready, NEW n \in Nodes, NEW x \in Values, AddChild(n, x)
  PROVE  Ready' /\ Jobs!AddChild(n, x)
<1>1. PICK r \in WithChild(factory, memory, node[n], x) :
        factory' = r.factory /\ memory' = r.memory /\ node' = [node EXCEPT ![n] = r.node]
  BY DEF AddChild
<1>2. node[n] # NoNode /\ UNCHANGED <<stack, jobs, text>>
  BY DEF AddChild
<1> DEFINE nd == node[n]
<1>3. /\ GoodFactory(factory) /\ Within(factory) /\ memory \in Memories
      /\ nd \in NodeRecords /\ (Few(nd) \/ Lots(nd)) /\ x \in CellValues
      /\ nd.self # Null
  BY <1>2, Typed, NodeThere DEF Ready, CellValues
<1>4. NodeCells(nd) \subseteq Used(factory) /\ Array(nd.array, Word) \subseteq Used(factory)
  BY <1>3, Typed, Holdings DEF Apart, NodeCells
<1> HIDE DEF nd
<1>5. r \in WithChild(factory, memory, nd, x)
  BY DEF nd
<1>6. Added(memory, nd, x, r)
  BY <1>3, <1>4, <1>5, ChildAdded
<1>7. r.node.self = nd.self
  BY <1>3, <1>4, <1>5, AddingChild
<1>8. node'[n] = r.node /\ \A k \in Nodes \ {n} : node'[k] = node[k]
  BY <1>1, Typed
<1>9. IInv'
  BY AddsChild
<1> DEFINE kids == Append(Children(memory, nd), x)
<1>10. /\ Within(factory') /\ (Few(r.node) \/ Lots(r.node))
       /\ OnlyIn(memory, memory', NodeMemory(r.node))
       /\ Children(memory', r.node) = kids
  BY <1>1, <1>6 DEF Added
<1> HIDE DEF kids
<1>11. /\ Ready' /\ StackBar' = StackBar /\ JobsBar' = JobsBar /\ TextBar' = TextBar
       /\ NodeBar' = [NodeBar EXCEPT ![n] = Children(memory', r.node)]
  <2>1. r.node.self = node[n].self
    BY <1>7 DEF nd
  <2> QED
    BY <1>2, <1>8, <1>9, <1>10, <2>1, ChildrenChanged
<1>12. NodeBar[n] # None /\ kids = Append(NodeBar[n], x)
  BY <1>2, NodeBarIs DEF kids, nd
<1>13. NodeBar' = [NodeBar EXCEPT ![n] = Append(NodeBar[n], x)]
  BY <1>10, <1>11, <1>12
<1>14. Jobs!AddChild(n, x)
  BY <1>11, <1>12, <1>13
     DEF Jobs!AddChild, Jobs!SetChildren, StackBar, JobsBar, NodeBar, TextBar
<1> QED
  BY <1>11, <1>14

LEMMA NodeOwned ==
  ASSUME IInv, Ready, NEW n \in Nodes, node[n] # NoNode
  PROVE  /\ node[n] \in NodeRecords /\ (Few(node[n]) \/ Lots(node[n]))
         /\ node[n].self # Null /\ NodeMemory(node[n]) \subseteq 1..Last
<1> DEFINE nd == node[n]
<1>1. nd \in NodeRecords /\ (Few(nd) \/ Lots(nd)) /\ nd.self # Null /\ Within(factory)
  BY Typed, NodeThere DEF Ready
<1>2. NodeCells(nd) \subseteq Used(factory) /\ Array(nd.array, Word) \subseteq Used(factory)
  BY <1>1, Typed, Holdings DEF Apart, NodeCells
<1>3. NodeMemory(nd) \subseteq 1..Last
  BY <1>1, <1>2, ArrayWithin DEF NodeMemory
<1> QED
  BY <1>1, <1>3

LEMMA RemoveChildAtRefines ==
  ASSUME IInv, Ready, NEW n \in Nodes, NEW i \in 1..NumChildren(node[n]), RemoveChildAt(n, i)
  PROVE  /\ Ready' /\ Jobs!RemoveChildAt(n, i)
         /\ NodeBar[n] # None /\ i \in 1..Len(NodeBar[n])
<1> DEFINE nd == node[n]
           s == Shorter(nd)
<1>1. /\ memory' = WithoutChild(memory, nd, i)
      /\ node' = IF IsMany(nd) THEN [node EXCEPT ![n].array.num = @ - 1]
                 ELSE [node EXCEPT ![n].inline = @ - 1]
      /\ UNCHANGED <<factory, stack, jobs, text>>
  BY DEF RemoveChildAt
<1>2. nd # NoNode
  BY DEF NumChildren, IsMany, NoNode, NoVector
<1>3. /\ nd \in NodeRecords /\ (Few(nd) \/ Lots(nd)) /\ nd.self # Null
      /\ NodeMemory(nd) \subseteq 1..Last /\ memory \in Memories
  BY <1>2, NodeOwned, Typed
<1>4. node'[n] = s /\ \A k \in Nodes \ {n} : node'[k] = node[k]
  BY <1>1, Typed DEF Shorter
<1>5. NumChildren(nd) > 0
  <2>1. NumChildren(nd) \in Int
    BY <1>3, KidsAre DEF Vectors
  <2> QED
    BY <2>1
<1>6. i \in 1..NumChildren(nd)
  OBVIOUS
<1>7. /\ (Few(s) \/ Lots(s)) /\ NodeMemory(s) = NodeMemory(nd)
  BY <1>3, <1>5, ShorterNode
<1>8. s.self = nd.self
  BY <1>3 DEF Shorter, NodeRecords
<1> HIDE DEF nd, s
<1>9. /\ OnlyIn(memory, memory', NodeMemory(s))
      /\ Children(memory', s) = Jobs!RemoveAt(Children(memory, nd), i)
  BY <1>1, <1>3, <1>6, <1>7, ChildRemoved DEF s
<1>10. IInv'
  BY RemovesChild
<1>11. Within(factory')
  BY <1>1 DEF Ready
<1>12. /\ Ready' /\ StackBar' = StackBar /\ JobsBar' = JobsBar /\ TextBar' = TextBar
       /\ NodeBar' = [NodeBar EXCEPT ![n] = Children(memory', s)]
  <2>1. node[n] # NoNode /\ s.self = node[n].self
    BY <1>2, <1>8 DEF nd
  <2> QED
    BY <1>1, <1>4, <1>7, <1>9, <1>10, <1>11, <2>1, ChildrenChanged
<1>13. NodeBar[n] # None /\ NodeBar[n] = Children(memory, nd)
       /\ Len(NodeBar[n]) = NumChildren(nd)
  BY <1>2, NodeBarIs DEF nd
<1>14. NodeBar' = [NodeBar EXCEPT ![n] = Jobs!RemoveAt(NodeBar[n], i)]
  BY <1>9, <1>12, <1>13
<1>15. Jobs!RemoveChildAt(n, i)
  BY <1>12, <1>13, <1>14
     DEF Jobs!RemoveChildAt, Jobs!SetChildren, StackBar, JobsBar, NodeBar, TextBar
<1> QED
  BY <1>6, <1>12, <1>13, <1>15

LEMMA ReverseChildrenRefines ==
  ASSUME IInv, Ready, NEW n \in Nodes, NEW i \in 1..NumChildren(node[n]), ReverseChildren(n, i)
  PROVE  /\ Ready' /\ Jobs!ReverseChildren(n, i)
         /\ NodeBar[n] # None /\ i \in 1..Len(NodeBar[n])
<1> DEFINE nd == node[n]
<1>1. /\ memory' = Reversed(memory, nd, i)
      /\ UNCHANGED <<factory, stack, jobs, node, text>>
  BY DEF ReverseChildren
<1>2. nd # NoNode
  BY DEF NumChildren, IsMany, NoNode, NoVector
<1>3. /\ nd \in NodeRecords /\ (Few(nd) \/ Lots(nd)) /\ nd.self # Null
      /\ NodeMemory(nd) \subseteq 1..Last /\ memory \in Memories
  BY <1>2, NodeOwned, Typed
<1>4. node'[n] = nd /\ \A k \in Nodes \ {n} : node'[k] = node[k]
  BY <1>1
<1>5. i \in 1..NumChildren(nd)
  OBVIOUS
<1> HIDE DEF nd
<1>6. /\ OnlyIn(memory, memory', NodeMemory(nd))
      /\ Children(memory', nd) = TurnedFrom(Children(memory, nd), i)
  BY <1>1, <1>3, <1>5, ChildrenReversed
<1>7. IInv'
  BY ReversesChildren
<1>8. Within(factory')
  BY <1>1 DEF Ready
<1>9. /\ Ready' /\ StackBar' = StackBar /\ JobsBar' = JobsBar /\ TextBar' = TextBar
      /\ NodeBar' = [NodeBar EXCEPT ![n] = Children(memory', nd)]
  <2>1. node[n] # NoNode /\ nd.self = node[n].self
    BY <1>2 DEF nd
  <2> QED
    BY <1>1, <1>3, <1>4, <1>6, <1>7, <1>8, <2>1, ChildrenChanged
<1>10. NodeBar[n] # None /\ NodeBar[n] = Children(memory, nd)
       /\ Len(NodeBar[n]) = NumChildren(nd)
  BY <1>2, NodeBarIs DEF nd
<1>11. NodeBar' = [NodeBar EXCEPT ![n] = TurnedFrom(NodeBar[n], i)]
  BY <1>6, <1>9, <1>10
<1>12. Jobs!ReverseChildren(n, i)
  BY <1>9, <1>10, <1>11
     DEF Jobs!ReverseChildren, Jobs!SetChildren, TurnedFrom,
         StackBar, JobsBar, NodeBar, TextBar
<1> QED
  BY <1>5, <1>9, <1>10, <1>12

LEMMA AppendRefines ==
  ASSUME IInv, Ready, NEW t \in Texts, NEW xs \in Seq(CellValues), NEW extra \in Seq(CellValues),
         NEW growth \in Nat, Len(xs) + Len(extra) <= growth, AppendWith(t, xs, extra, growth)
  PROVE  Ready' /\ Jobs!AppendText(t, xs)
<1>1. PICK r \in AppendChars(factory, memory, text[t], xs, extra, growth) :
        factory' = r.factory /\ memory' = r.memory /\ text' = [text EXCEPT ![t] = r.vector]
  BY DEF AppendWith
<1>2. UNCHANGED <<stack, jobs, node>>
  BY DEF AppendWith
<1> DEFINE o == <<"text", t>>
           v == text[t]
           W == Array(text'[t], 1)
<1>3. o \in Owners /\ Held[o] = Array(v, 1) /\ Held'[o] = W
  BY Holdings, HoldingsAfter
<1>4. text'[t] = r.vector /\ \A k \in Texts \ {t} : text'[k] = text[k]
  BY <1>1, Typed
<1>5. /\ Within(factory') /\ Filled(text'[t])
      /\ OnlyIn(memory, memory', W)
      /\ Contents(memory', text'[t], 1) = Contents(memory, v, 1) \o xs
  <2>1. /\ GoodFactory(factory) /\ Within(factory) /\ memory \in Memories
        /\ v \in Vectors /\ Filled(v)
    BY Typed DEF Ready
  <2>2. Array(v, 1) \subseteq Used(factory)
    BY <1>3, Typed DEF Apart
  <2> HIDE DEF v
  <2>3. r \in AppendChars(factory, memory, v, xs, extra, growth)
    BY DEF v
  <2>4. /\ Within(r.factory) /\ Filled(r.vector)
        /\ OnlyIn(memory, r.memory, Array(r.vector, 1))
        /\ Contents(r.memory, r.vector, 1) = Contents(memory, v, 1) \o xs
    BY <2>1, <2>2, <2>3, CharsAppended
  <2> QED
    BY <1>1, <1>4, <2>4
<1>6. Ready'
  BY <1>2, <1>4, <1>5 DEF Ready
<1>7. IInv'
  BY Appends
<1>8. \A p \in Owners \ {o} : Held'[p] = Held[p]
  <2>1. \A k \in Texts : o # <<"text", k>> => Array(text'[k], 1) = Array(text[k], 1)
    BY <1>4
  <2> QED
    BY <1>2, <2>1, SameHeld
<1>9. /\ StackBar' = StackBar /\ JobsBar' = JobsBar /\ NodeBar' = NodeBar
      /\ \A k \in Texts \ {t} : TextBar'[k] = TextBar[k]
  <2> DEFINE O == {o}
  <2>1. O \subseteq Owners /\ \A q \in W : \E p \in O : q \in Held'[p]
    BY <1>3
  <2>2. \A p \in Owners \ O : Held'[p] = Held[p]
    BY <1>8
  <2>3. /\ <<"stack", 0>> \notin O /\ \A j \in 1..Len(jobs) : <<"saved", j>> \notin O
        /\ \A n \in Nodes : <<"node", n>> \notin O /\ <<"children", n>> \notin O
        /\ \A k \in Texts \ {t} : <<"text", k>> \notin O
    OBVIOUS
  <2> HIDE DEF O, W
  <2>4. /\ StackBar' = StackBar /\ JobsBar' = JobsBar
        /\ \A n \in Nodes : NodeBar'[n] = NodeBar[n]
        /\ \A k \in Texts \ {t} : TextBar'[k] = TextBar[k]
    BY <1>2, <1>4, <1>5, <1>7, <2>1, <2>2, <2>3, OtherLists
  <2> QED
    BY <2>4, SameNodes
<1>10. TextBar'[t] = TextBar[t] \o xs
  BY <1>5 DEF TextBar
<1>11. TextBar' = [TextBar EXCEPT ![t] = TextBar[t] \o xs]
  BY <1>9, <1>10, TextChanged
<1>12. Jobs!AppendText(t, xs)
  BY <1>9, <1>11 DEF Jobs!AppendText, StackBar, JobsBar, NodeBar, TextBar
<1> QED
  BY <1>6, <1>12

(***************************************************************************)
(* The refinement.                                                         *)
(***************************************************************************)
LEMMA FirstReady == Init => Ready
<1> SUFFICES ASSUME Init PROVE Ready
  OBVIOUS
<1> PICK size \in StackSizes :
      factory = [cur |-> IF size = 0 THEN Null ELSE StackSpace,
                 end |-> IF size = 0 THEN Null ELSE StackSpace + size,
                 provided |-> size, slabs |-> << >>, slabSize |-> FirstSlab]
  BY DEF Init
<1>1. /\ size \in Nat /\ StackSpace + size - 1 <= Last
      /\ StackSpace \in Nat /\ StackSpace > 0 /\ Last \in Nat
  BY SizesAssumption
<1>2. factory.provided = size /\ Len(factory.slabs) = 0
  OBVIOUS
<1>3. Within(factory)
  <2>1. Cells(StackSpace, size) \subseteq 1..Last
    BY <1>1 DEF Cells
  <2>2. Owned(factory) = Cells(StackSpace, size)
    BY <1>2 DEF Owned
  <2> QED
    BY <2>1, <2>2 DEF Within
<1>4. Filled(NoVector) /\ GoodNode(NoNode)
  BY DEF Filled, NoVector, GoodNode
<1> QED
  BY <1>3, <1>4 DEF Ready, Init

LEMMA FirstLists == Init => Jobs!Init
<1> SUFFICES ASSUME Init PROVE Jobs!Init
  OBVIOUS
<1>1. /\ jobs = << >> /\ stack = NoVector /\ node = [n \in Nodes |-> NoNode]
      /\ text = [t \in Texts |-> NoVector]
  BY DEF Init
<1>2. \A m, s : Contents(m, NoVector, s) = << >>
  <2>1. NoVector.num = 0
    BY DEF NoVector
  <2> QED
    BY <2>1, NoElements
<1>3. StackBar = << >> /\ TextBar = [t \in Texts |-> << >>]
  BY <1>1, <1>2 DEF StackBar, TextBar
<1>4. Len(jobs) = 0
  BY <1>1
<1>5. JobsBar = << >>
  BY <1>4 DEF JobsBar
<1>6. NodeBar = [n \in Nodes |-> None]
  BY <1>1 DEF NodeBar
<1> QED
  BY <1>3, <1>5, <1>6 DEF Jobs!Init, StackBar, JobsBar, NodeBar, TextBar

LEMMA StringsAre ==
  ASSUME NEW xs \in Strings
  PROVE  xs \in Seq(CellValues) /\ Len(xs) \in Nat /\ xs \in Jobs!Strings
<1> PICK k \in 1..MaxString : xs \in [1..k -> Values]
  BY DEF Strings
<1>1. xs \in Seq(CellValues)
  BY DEF CellValues
<1> QED
  BY <1>1 DEF Strings, Jobs!Strings

\* A step of the demangler is one of DemangleJobs.
LEMMA StepRefines ==
  ASSUME IInv, Ready, Next
  PROVE  Ready' /\ Jobs!Next
<1>1. CASE Begin
  BY <1>1, BeginRefines DEF Jobs!Next
<1>2. CASE End
  BY <1>2, EndRefines DEF Jobs!Next
<1>3. CASE Clear
  BY <1>3, ClearRefines DEF Jobs!Next
<1>4. CASE Pop
  BY <1>4, PopRefines DEF Jobs!Next
<1>5. ASSUME NEW x \in Values, Push(x) PROVE Ready' /\ Jobs!Next
  <2>1. Ready' /\ Jobs!Push(x)
    BY <1>5, PushRefines
  <2> QED
    BY <2>1 DEF Jobs!Next
<1>6. ASSUME NEW n \in Nodes, CreateNode(n) PROVE Ready' /\ Jobs!Next
  <2>1. Ready' /\ Jobs!CreateNode(n)
    BY <1>6, CreateNodeRefines
  <2> QED
    BY <2>1 DEF Jobs!Next
<1>7. ASSUME NEW n \in Nodes, NEW x \in Values, AddChild(n, x) PROVE Ready' /\ Jobs!Next
  <2>1. Ready' /\ Jobs!AddChild(n, x)
    BY <1>7, AddChildRefines
  <2> QED
    BY <2>1 DEF Jobs!Next
<1>8. ASSUME NEW n \in Nodes, NEW i \in 1..NumChildren(node[n]),
             RemoveChildAt(n, i) \/ ReverseChildren(n, i)
      PROVE  Ready' /\ Jobs!Next
  <2>1. /\ Ready' /\ (Jobs!RemoveChildAt(n, i) \/ Jobs!ReverseChildren(n, i))
        /\ NodeBar[n] # None /\ i \in 1..Len(NodeBar[n])
    <3>1. CASE RemoveChildAt(n, i)
      BY <3>1, RemoveChildAtRefines
    <3>2. CASE ReverseChildren(n, i)
      BY <3>2, ReverseChildrenRefines
    <3> QED
      BY <1>8, <3>1, <3>2
  <2> QED
    BY <2>1 DEF Jobs!Next, NodeBar
<1>9. ASSUME NEW t \in Texts, NEW xs \in Strings, AppendString(t, xs)
      PROVE  Ready' /\ Jobs!Next
  <2>1. /\ xs \in Seq(CellValues) /\ Len(xs) \in Nat /\ xs \in Jobs!Strings
        /\ << >> \in Seq(CellValues) /\ Len(<< >>) = 0
    BY StringsAre
  <2>2. Len(xs) + Len(<< >>) <= Len(xs)
    BY <2>1
  <2>3. AppendWith(t, xs, << >>, Len(xs))
    BY <1>9 DEF AppendString
  <2>4. Ready' /\ Jobs!AppendText(t, xs)
    BY <2>1, <2>2, <2>3, AppendRefines
  <2> QED
    BY <2>1, <2>4 DEF Jobs!Next
<1>10. ASSUME NEW t \in Texts, NEW xs \in Numbers, AppendNumber(t, xs)
       PROVE  Ready' /\ Jobs!Next
  <2>1. xs \in Strings /\ Len(xs) < MaxPrintSize /\ MaxPrintSize \in Nat
    BY Sizes DEF Numbers
  <2>2. xs \in Seq(CellValues) /\ Len(xs) \in Nat /\ xs \in Jobs!Strings
    BY <2>1, StringsAre
  <2>3. <<Null>> \in Seq(CellValues) /\ Len(<<Null>>) = 1
    BY DEF CellValues
  <2>4. Len(xs) + Len(<<Null>>) <= MaxPrintSize
    BY <2>1, <2>2, <2>3
  <2>5. AppendWith(t, xs, <<Null>>, MaxPrintSize)
    BY <1>10 DEF AppendNumber
  <2>6. Ready' /\ Jobs!AppendText(t, xs)
    BY <2>1, <2>2, <2>3, <2>4, <2>5, AppendRefines
  <2> QED
    BY <2>2, <2>6 DEF Jobs!Next
<1> QED
  BY <1>1, <1>2, <1>3, <1>4, <1>5, <1>6, <1>7, <1>8, <1>9, <1>10 DEF Next

\* Every list has room for its elements, and a node has its children either
\* in itself or in an array, in every state: what the lists above rest on
\* (Demangler.h:245-250, 443-456; Demangler.cpp:340-418).
THEOREM ReadyAlways == Spec => []Ready
<1>1. Init => IInv /\ Ready
  BY Initially, FirstReady
<1>2. IInv /\ Ready /\ [Next]_vars => (IInv /\ Ready)'
  <2> SUFFICES ASSUME IInv, Ready, [Next]_vars PROVE (IInv /\ Ready)'
    OBVIOUS
  <2>1. IInv'
    BY Steps
  <2>2. CASE UNCHANGED vars
    BY <2>1, <2>2 DEF vars, Ready
  <2>3. CASE Next
    BY <2>1, <2>3, StepRefines
  <2> QED
    BY <2>2, <2>3
<1> QED
  BY <1>1, <1>2, PTL DEF Spec

\* Whatever is allocated, grown, moved, saved and restored in between, every
\* list of nodes, of children and of characters is the one its own operations
\* made (Demangler.h:168-207, 441-456; Demangler.cpp:340-418, 481-543).
THEOREM Refinement == Spec => ImplementsJobs
<1>1. Init => Jobs!Init
  BY FirstLists
<1>2. ASSUME IInv, Ready, [Next]_vars
      PROVE  [Jobs!Next]_(Jobs!vars)
  <2>1. CASE UNCHANGED vars
    BY <2>1 DEF vars, Jobs!vars
  <2>2. CASE Next
    BY <1>2, <2>2, StepRefines
  <2> QED
    BY <1>2, <2>1, <2>2
<1> QED
  BY <1>1, <1>2, Invariance, ReadyAlways, PTL DEF Spec, ImplementsJobs, Jobs!Spec
=============================================================================

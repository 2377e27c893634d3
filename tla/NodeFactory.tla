----------------------------- MODULE NodeFactory -----------------------------
(***************************************************************************)
(* The memory of the Swift demangler (Demangling/Demangler.h: NodeFactory, *)
(* Vector, CharVector, Demangler::DemangleInitRAII; Demangler.cpp: Node).  *)
(* Everything a demangler makes is carved off the front of one free range, *)
(* which is memory of its owner's first and then the last of a chain of    *)
(* slabs, each twice the one before. Nothing is given back before clear(); *)
(* an array that is full grows in place where it ends at the free range,   *)
(* and moves otherwise.                                                    *)
(*                                                                         *)
(* An address is a number and a cell of memory holds a character; a        *)
(* pointer takes Word cells, all with the same value. The bounds 16, 4,    *)
(* 21 and 100 * sizeof(Node) of the code are constants. Of the two vectors *)
(* of a job, NodeStack and Substitutions, the first stands for both, and   *)
(* borrowing from another factory, which nothing here does, is left out.   *)
(***************************************************************************)
EXTENDS Integers, Sequences, FiniteSets, Functions

CONSTANTS
    Nodes, Texts, Values, MaxString, None,  \* as in DemangleJobs
    MaxJobs,            \* bound: jobs in one another
    MaxElements,        \* bound: elements of all lists
    Last,               \* the last address
    Places,             \* where malloc may put a block
    StackSpace,         \* the address of the memory provided first
    StackSizes,         \* its size; 0 when there is none
    Word,               \* size and alignment of a pointer
    Header,             \* size of the header of a slab
    NodeSize,           \* size of a node, two pointers at least
    FirstSlab,          \* the slab size to begin with
    InitialCapacity,    \* of the lists of a job
    LeastGrowth,        \* of an array that moves
    MaxPrintSize,       \* room for any number, its end marker included
    Junk                \* what memory holds that nothing wrote to

Null == 0

ASSUME SizesAssumption ==
    /\ {Last, LeastGrowth} \subseteq Nat
    /\ {Word, Header, FirstSlab, StackSpace, InitialCapacity, MaxPrintSize}
         \subseteq Nat \ {0}
    /\ NodeSize \in Nat /\ NodeSize >= 2 * Word
    /\ StackSizes \subseteq Nat
    /\ Places \subseteq 1..Last
    /\ \A size \in StackSizes : StackSpace + size - 1 <= Last
ASSUME ValuesAssumption ==
    /\ {MaxString, MaxJobs, MaxElements} \subseteq Nat
    /\ Junk \notin Values /\ Null \notin Values /\ Junk # Null
ASSUME NoneAssumption == None \notin Seq(Values \cup {Null, Junk})

VARIABLES
    factory,    \* cur and end of the free range, the slabs, the last last
    memory,     \* what each address holds
    stack,      \* the vector of the running job
    jobs,       \* those saved of the jobs it interrupted
    node,       \* each node: where it is, and its children
    text        \* the character vectors

vars == <<factory, memory, stack, jobs, node, text>>

(***************************************************************************)
(* Allocation. An operation that may have to malloc has a result for each  *)
(* place that malloc may choose.                                           *)
(***************************************************************************)
Larger(m, n) == IF m > n THEN m ELSE n
Align(p, a) == ((p + a - 1) \div a) * a
Cells(p, n) == p..(p + n - 1)

SlabRange(slab) == Cells(slab.at, Header + slab.size)
Owned(f) ==
    Cells(StackSpace, f.provided)
        \cup UNION {SlabRange(f.slabs[i]) : i \in 1..Len(f.slabs)}
Malloc(f, n) ==
    {p \in Places : p + n - 1 <= Last /\ Cells(p, n) \cap Owned(f) = {}}

Fits(f, n, a) == f.cur # Null /\ Align(f.cur, a) + n <= f.end
Carved(f, n, a) == [at |-> Align(f.cur, a),
                    factory |-> [f EXCEPT !.cur = Align(f.cur, a) + n]]

\* Mutant: a slab is as large as what it is for.
SlabSizeNeeded(f, n, a) == n + a
SlabSize(f, n, a) == Larger(2 * f.slabSize, n + a)
NewSlab(f, size, p) ==
    [f EXCEPT !.cur = p + Header,
              !.end = p + Header + size,
              !.slabs = Append(@, [at |-> p, size |-> size]),
              !.slabSize = size]

Allocate(f, n, a) ==
    IF Fits(f, n, a) THEN {Carved(f, n, a)}
    ELSE LET size == SlabSize(f, n, a) IN
         {Carved(NewSlab(f, size, p), n, a) : p \in Malloc(f, Header + size)}

(***************************************************************************)
(* Reading and writing; s is the size of an element.                       *)
(***************************************************************************)
At(m, q) == IF q \in DOMAIN m THEN m[q] ELSE Junk
ReadAt(m, p, s) ==
    IF \A q \in Cells(p, s) : At(m, q) = At(m, p) THEN At(m, p) ELSE Junk
WriteAt(m, p, s, x) ==
    [q \in DOMAIN m |-> IF q \in Cells(p, s) THEN x ELSE m[q]]
WriteAll(m, p, xs) ==
    [q \in DOMAIN m |-> IF q \in Cells(p, Len(xs)) THEN xs[q - p + 1] ELSE m[q]]
Copy(m, from, to, n) ==
    [q \in DOMAIN m |-> IF q \in Cells(to, n) THEN At(m, from + (q - to)) ELSE m[q]]

(***************************************************************************)
(* Vectors: where the elements are, how many there are, and room for how   *)
(* many. The results of an operation have the factory, memory and vector.  *)
(***************************************************************************)
NoVector == [at |-> Null, num |-> 0, cap |-> 0]
Contents(m, v, s) == [i \in 1..v.num |-> ReadAt(m, v.at + (i - 1) * s, s)]
Array(v, s) == Cells(v.at, v.cap * s)

Made(f, m, v) == [factory |-> f, memory |-> m, vector |-> v]

\* Mutants: room is not looked for; an array anywhere grows in place.
InPlaceUnchecked(f, v, growth, s) == v.at + v.cap * s = f.cur
InPlaceAnywhere(f, v, growth, s) == f.cur + growth * s <= f.end
InPlace(f, v, growth, s) == v.at + v.cap * s = f.cur /\ f.cur + growth * s <= f.end
Growth(v, growth) == Larger(Larger(growth, LeastGrowth), 2 * v.cap)

Reallocate(f, m, v, growth, s) ==
    IF InPlace(f, v, growth, s)
    THEN {Made([f EXCEPT !.cur = @ + growth * s], m, [v EXCEPT !.cap = @ + growth])}
    ELSE LET cap == v.cap + Growth(v, growth) IN
         {Made(r.factory, Copy(m, v.at, r.at, v.cap * s),
               [v EXCEPT !.at = r.at, !.cap = cap]) : r \in Allocate(f, cap * s, s)}

\* The vector with room for n elements more.
WithRoom(f, m, v, n, growth, s) ==
    IF v.num + n > v.cap THEN Reallocate(f, m, v, growth, s) ELSE {Made(f, m, v)}

PushBack(f, m, v, x, s) ==
    {Made(r.factory, WriteAt(r.memory, r.vector.at + v.num * s, s, x),
          [r.vector EXCEPT !.num = v.num + 1]) : r \in WithRoom(f, m, v, 1, 1, s)}

\* Characters xs are appended; those of extra come behind the end.
AppendChars(f, m, v, xs, extra, growth) ==
    {Made(r.factory, WriteAll(r.memory, r.vector.at + v.num, xs \o extra),
          [r.vector EXCEPT !.num = v.num + Len(xs)]) :
        r \in WithRoom(f, m, v, growth, growth, 1)}

(***************************************************************************)
(* The children of a node: up to two are in the node itself, three and     *)
(* more in an array. The array's address, number and capacity are where    *)
(* the two were.                                                           *)
(***************************************************************************)
NoNode == [self |-> Null, array |-> NoVector, inline |-> 0]
IsMany(nd) == nd.array.at # Null
NumChildren(nd) == IF IsMany(nd) THEN nd.array.num ELSE nd.inline
ChildAddress(nd, i) == (IF IsMany(nd) THEN nd.array.at ELSE nd.self) + (i - 1) * Word
Children(m, nd) ==
    [i \in 1..NumChildren(nd) |-> ReadAt(m, ChildAddress(nd, i), Word)]

Child(m, nd, i) == ReadAt(m, ChildAddress(nd, i), Word)
SetChild(m, nd, i, x) == WriteAt(m, ChildAddress(nd, i), Word, x)

\* The first child clears the place of the second.
InlineChild(f, m, nd, x) ==
    LET cleared == IF nd.inline = 0 THEN WriteAt(m, nd.self + Word, Word, Null) ELSE m
    IN {[factory |-> f, memory |-> SetChild(cleared, nd, nd.inline + 1, x),
         node |-> [nd EXCEPT !.inline = @ + 1]]}

\* Mutant: both others are read from where the array took their place.
ThirdChildLate(f, m, nd, x) ==
    {LET header == WriteAt(r.memory, nd.self, 2 * Word, Junk)
         many == [nd EXCEPT !.array = [r.vector EXCEPT !.num = 3], !.inline = 0]
         two == SetChild(SetChild(header, many, 1, Child(header, nd, 1)),
                         many, 2, Child(header, nd, 2))
     IN [factory |-> r.factory, memory |-> SetChild(two, many, 3, x), node |-> many] :
        r \in Reallocate(f, m, NoVector, 3, Word)}

\* The third child: both others are read before the array takes their place.
ThirdChild(f, m, nd, x) ==
    {LET header == WriteAt(r.memory, nd.self, 2 * Word, Junk)
         many == [nd EXCEPT !.array = [r.vector EXCEPT !.num = 3], !.inline = 0]
         two == SetChild(SetChild(header, many, 1, Child(m, nd, 1)), many, 2, Child(m, nd, 2))
     IN [factory |-> r.factory, memory |-> SetChild(two, many, 3, x), node |-> many] :
        r \in Reallocate(f, m, NoVector, 3, Word)}

FurtherChild(f, m, nd, x) ==
    {[factory |-> r.factory, memory |-> r.memory, node |-> [nd EXCEPT !.array = r.vector]] :
        r \in PushBack(f, m, nd.array, x, Word)}

WithChild(f, m, nd, x) ==
    CASE IsMany(nd) -> FurtherChild(f, m, nd, x)
      [] ~IsMany(nd) /\ nd.inline = 2 -> ThirdChild(f, m, nd, x)
      [] OTHER -> InlineChild(f, m, nd, x)

\* The children behind one move forward.
WithoutChild(m, nd, i) ==
    LET n == NumChildren(nd)
        from == ChildAddress(nd, i + 1)
    IN Copy(m, from, from - Word, (n - i) * Word)

Reversed(m, nd, i) ==
    LET n == NumChildren(nd)
        first == ChildAddress(nd, i)
        Mirror(q) == LET k == (q - first) \div Word
                     IN first + (n - i - k) * Word + ((q - first) % Word)
    IN IF n > 1 /\ (IsMany(nd) \/ i = 1)
       THEN [q \in DOMAIN m |-> IF q \in Cells(first, (n - i + 1) * Word)
                                THEN At(m, Mirror(q)) ELSE m[q]]
       ELSE m

(***************************************************************************)
(* The demangler.                                                          *)
(***************************************************************************)
Blank == [q \in 1..Last |-> Junk]

Init ==
    /\ \E size \in StackSizes :
         factory = [cur |-> IF size = 0 THEN Null ELSE StackSpace,
                    end |-> IF size = 0 THEN Null ELSE StackSpace + size,
                    provided |-> size, slabs |-> << >>, slabSize |-> FirstSlab]
    /\ memory = Blank
    /\ stack = NoVector
    /\ jobs = << >>
    /\ node = [n \in Nodes |-> NoNode]
    /\ text = [t \in Texts |-> NoVector]

\* Bound: the elements of all lists together.
HasRoom(k) ==
    stack.num + SumFunction([j \in DOMAIN jobs |-> jobs[j].num])
      + SumFunction([n \in Nodes |-> NumChildren(node[n])])
      + SumFunction([t \in Texts |-> text[t].num]) + k <= MaxElements

Begin ==
    /\ Len(jobs) < MaxJobs
    /\ \E r \in Allocate(factory, InitialCapacity * Word, Word) :
         /\ factory' = r.factory
         /\ stack' = [at |-> r.at, num |-> 0, cap |-> InitialCapacity]
    /\ jobs' = Append(jobs, stack)
    /\ UNCHANGED <<memory, node, text>>

End ==
    /\ jobs # << >>
    /\ stack' = jobs[Len(jobs)]
    /\ jobs' = SubSeq(jobs, 1, Len(jobs) - 1)
    /\ UNCHANGED <<factory, memory, node, text>>

Push(x) ==
    /\ jobs # << >> /\ HasRoom(1)
    /\ \E r \in PushBack(factory, memory, stack, x, Word) :
         /\ factory' = r.factory
         /\ memory' = r.memory
         /\ stack' = r.vector
    /\ UNCHANGED <<jobs, node, text>>

Pop ==
    /\ stack.num > 0
    /\ stack' = [stack EXCEPT !.num = @ - 1]
    /\ UNCHANGED <<factory, memory, jobs, node, text>>

CreateNode(n) ==
    /\ node[n] = NoNode
    /\ \E r \in Allocate(factory, NodeSize, Word) :
         /\ factory' = r.factory
         /\ node' = [node EXCEPT ![n].self = r.at]
    /\ UNCHANGED <<memory, stack, jobs, text>>

AddChild(n, x) ==
    /\ node[n] # NoNode /\ HasRoom(1)
    /\ \E r \in WithChild(factory, memory, node[n], x) :
         /\ factory' = r.factory
         /\ memory' = r.memory
         /\ node' = [node EXCEPT ![n] = r.node]
    /\ UNCHANGED <<stack, jobs, text>>

RemoveChildAt(n, i) ==
    /\ memory' = WithoutChild(memory, node[n], i)
    /\ node' = IF IsMany(node[n]) THEN [node EXCEPT ![n].array.num = @ - 1]
               ELSE [node EXCEPT ![n].inline = @ - 1]
    /\ UNCHANGED <<factory, stack, jobs, text>>

ReverseChildren(n, i) ==
    /\ memory' = Reversed(memory, node[n], i)
    /\ UNCHANGED <<factory, stack, jobs, node, text>>

AppendWith(t, xs, extra, growth) ==
    /\ HasRoom(Len(xs))
    /\ \E r \in AppendChars(factory, memory, text[t], xs, extra, growth) :
         /\ factory' = r.factory
         /\ memory' = r.memory
         /\ text' = [text EXCEPT ![t] = r.vector]
    /\ UNCHANGED <<stack, jobs, node>>

AppendString(t, xs) == AppendWith(t, xs, << >>, Len(xs))
\* snprintf writes an end marker behind the digits, within the room there is.
AppendNumber(t, xs) == AppendWith(t, xs, <<Null>>, MaxPrintSize)

\* Demangler::clear: the last slab is kept and is the free range again, and
\* what there was is gone; memory provided by the owner is not used again.
Recycled ==
    LET slab == factory.slabs[Len(factory.slabs)] IN
    IF factory.slabs = << >> THEN factory
    ELSE [factory EXCEPT !.cur = slab.at + Header, !.slabs = <<slab>>]

Clear ==
    /\ jobs = << >>
    /\ factory' = Recycled
    /\ memory' = Blank
    /\ stack' = NoVector
    /\ node' = [n \in Nodes |-> NoNode]
    /\ text' = [t \in Texts |-> NoVector]
    /\ UNCHANGED jobs

Strings == UNION {[1..n -> Values] : n \in 1..MaxString}
Numbers == {xs \in Strings : Len(xs) < MaxPrintSize}

Next ==
    \/ Begin \/ End \/ Clear \/ Pop
    \/ \E x \in Values : Push(x)
    \/ \E n \in Nodes :
         \/ CreateNode(n)
         \/ \E x \in Values : AddChild(n, x)
         \/ \E i \in 1..NumChildren(node[n]) : RemoveChildAt(n, i) \/ ReverseChildren(n, i)
    \/ \E t \in Texts :
         \/ \E xs \in Strings : AppendString(t, xs)
         \/ \E xs \in Numbers : AppendNumber(t, xs)

Spec == Init /\ [][Next]_vars

(***************************************************************************)
(* Properties.                                                             *)
(***************************************************************************)
\* The types of the variables (Demangler.h:39-74, 245-250, 443-450).
TypeOK ==
    /\ factory.cur \in 0..Last + 1 /\ factory.end \in 0..Last + 1
    /\ memory \in [1..Last -> Values \cup {Null, Junk}]
    /\ Len(jobs) <= MaxJobs

\* What the demangler holds: arrays, those of the jobs it interrupted
\* included, and nodes; and the memory that each takes.
Owners ==
    {<<"stack", 0>>} \cup ({"saved"} \X (1..Len(jobs)))
      \cup ({"node", "children"} \X Nodes) \cup ({"text"} \X Texts)

Held ==
    [o \in Owners |->
       CASE o[1] = "stack" -> Array(stack, Word)
         [] o[1] = "saved" -> Array(jobs[o[2]], Word)
         [] o[1] = "node" ->
              IF node[o[2]].self = Null THEN {} ELSE Cells(node[o[2]].self, NodeSize)
         [] o[1] = "children" -> Array(node[o[2]].array, Word)
         [] o[1] = "text" -> Array(text[o[2]], 1)]

\* Memory of the factory that it does not give out any more.
FreeRange(f) == f.cur..(f.end - 1)
Used(f) == Owned(f) \ FreeRange(f)

\* Everything the demangler holds is in memory it owns, apart from anything
\* else it holds and from what it gives out next (Demangler.h:133-207).
Apart ==
    /\ \A o \in Owners : Held[o] \subseteq Used(factory)
    /\ \A o, p \in Owners : o # p => Held[o] \cap Held[p] = {}

\* Before(slabs)[i]: the size of the first i slabs together.
Before(slabs) ==
    LET before[i \in 0..Len(slabs)] == IF i = 0 THEN 0 ELSE before[i - 1] + slabs[i].size
    IN before

\* "The size of the last slab is at least as big as all previous slabs
\* combined", on which clear() relies to keep only that one
\* (Demangler.cpp:442-449).
LastSlabSuffices ==
    LET slabs == factory.slabs
        n == Len(slabs)
    IN n > 0 => /\ slabs[n].size >= Before(slabs)[n - 1]
                /\ slabs[n].size = factory.slabSize
                /\ factory.end = slabs[n].at + Header + slabs[n].size

(***************************************************************************)
(* The lists that the memory holds are those of DemangleJobs.              *)
(***************************************************************************)
Jobs == INSTANCE DemangleJobs WITH
    stack <- Contents(memory, stack, Word),
    jobs <- [j \in 1..Len(jobs) |-> Contents(memory, jobs[j], Word)],
    node <- [n \in Nodes |-> IF node[n] = NoNode THEN None ELSE Children(memory, node[n])],
    text <- [t \in Texts |-> Contents(memory, text[t], 1)]

\* Whatever is allocated, grown, moved, saved and restored in between, every
\* list is the one its own operations made (Demangler.h:168-207, 441-456;
\* Demangler.cpp:340-418, 481-543).
ImplementsJobs == Jobs!Spec
=============================================================================

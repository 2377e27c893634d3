----------------------------- MODULE PyBindings -----------------------------
(***************************************************************************)
(* The Python objects of the bindings (bindings/python/src) and the C++    *)
(* objects they refer to. parse() and decode_type() give Python a tree of  *)
(* C++ objects to own: the Metadata, or the vector of types; every other   *)
(* object refers into a tree, and each accessor says with its policy what  *)
(* the new object keeps alive.                                             *)
(*                                                                         *)
(* Python counts references: an object goes away with the last variable or *)
(* object that keeps it, and an owner takes its tree along. A for          *)
(* statement holds the object that __iter__ returns in a variable of its   *)
(* own, and the expression it was given only until __iter__ returned.      *)
(***************************************************************************)
EXTENDS Naturals, FiniteSets

CONSTANTS
    Ids,        \* the Python objects, at one time
    Vars,       \* the variables of the program, those of for included
    Trees,      \* the trees of C++ objects, at one time
    Roots,      \* the trees it asks for: "metadata", "types"
    Careful,    \* it keeps owners itself where the bindings do not
    Null

ASSUME RootsAssumption == Roots \subseteq {"metadata", "types"}
VARIABLES
    object,     \* the object of each id, or Null
    holds,      \* the id that each variable holds, or Null
    alive,      \* the trees that have not been freed
    loose       \* those the program refers to without keeping them

vars == <<object, holds, alive, loose>>

(* The accessors: the object they are called on, the one they return, and  *)
(* what keeps it. "internal" keeps the first; "keep" is keep_alive<0, 1>;  *)
(* "refer" is a new object, or a pointer to one, that keeps nothing; "own" *)
(* gives a tree of its own. Each label stands for all objects of its type. *)
A(from, to, policy) == [from |-> from, to |-> to, policy |-> policy]

(* Of an iterator over elements: __iter__, and __getitem__ or __next__.    *)
IteratorAccessors(list, element) ==
    {A(list, list, "refer"), A(list, element, "internal")}

MetadataAccessors ==
    {A("metadata", "classes", "refer"), A("class", "super", "internal"),
     A("class", "ivars", "refer"), A("ivar", "pointer", "own")}
        \cup IteratorAccessors("classes", "class")
        \cup IteratorAccessors("ivars", "ivar")

TypesAccessors ==
    {A("types", "items", "keep"), A("types", "pointer", "refer"),
     A("pointer", "struct", "internal"), A("struct", "attributes", "refer"),
     A("attribute", "field", "internal")}
        \cup IteratorAccessors("items", "pointer")
        \cup IteratorAccessors("attributes", "attribute")

Accessors == MetadataAccessors \cup TypesAccessors
Iterators == {"classes", "ivars", "items", "attributes"}

(* Of each object: its type, the tree it refers into, whether it will free *)
(* that, and the object it keeps.                                          *)
Labels == {"metadata", "types"} \cup {accessor.to : accessor \in Accessors}
Things == [is : Labels, tree : Trees, owner : BOOLEAN, keeps : Ids \cup {Null}]
ASSUME NullAssumption == Null \notin Ids /\ Null \notin Things

Owner(tree, is) == [is |-> is, tree |-> tree, owner |-> TRUE, keeps |-> Null]
Reference(tree, is, keeps) ==
    [is |-> is, tree |-> tree, owner |-> FALSE, keeps |-> keeps]

Objects == {i \in Ids : object[i] # Null}

(* What stays when the variables hold what h says: the objects in every    *)
(* set that has those and is closed under keeping.                         *)
ClosedUnder(o, S) == \A i \in S : o[i] # Null /\ o[i].keeps # Null => o[i].keeps \in S
KeptDirectly(o, h) == {i \in Ids :
    /\ o[i] # Null
    /\ i \in {h[x] : x \in Vars} \/ \E x \in Vars :
        h[x] # Null /\ o[h[x]] # Null /\ o[h[x]].keeps = i}
Kept(o, h) == {i \in Ids :
    /\ o[i] # Null
    /\ \A S \in SUBSET Ids :
        {h[x] : x \in Vars} \ {Null} \subseteq S /\ ClosedUnder(o, S) => i \in S}

(* A careful program has a variable for the owner of a tree it refers to   *)
(* loosely, as metadata in the examples, until it needs the tree no more.  *)
Discipline(o, h, trees) == \A t \in trees :
    \/ \E x \in Vars : h[x] # Null /\ o[h[x]].tree = t /\ o[h[x]].owner
    \/ \A x \in Vars : h[x] # Null => o[h[x]].tree # t

(* Afterwards the objects that nothing keeps are gone, with their trees.   *)
Become(o, h, trees, referred) ==
    LET kept == Kept(o, h)
        freed == {o[i].tree : i \in {j \in Ids \ kept :
                                        o[j] # Null /\ o[j].owner}}
    IN
    /\ Careful => Discipline(o, h, loose \cup referred)
    /\ object' = [i \in Ids |-> IF i \in kept THEN o[i] ELSE Null]
    /\ holds' = h
    /\ alive' = trees \ freed
    /\ loose' = (loose \cup referred) \ freed

FreshId == CHOOSE i \in Ids : object[i] = Null
FreshTrees == {t \in Trees \ alive : \A i \in Objects : object[i].tree # t}

Bind(x, new, trees, referred) ==
    /\ Objects # Ids
    /\ Become([object EXCEPT ![FreshId] = new],
              [holds EXCEPT ![x] = FreshId], alive \cup trees, referred)

Init ==
    /\ object = [i \in Ids |-> Null]
    /\ holds = [x \in Vars |-> Null]
    /\ alive = {}
    /\ loose = {}

(* x = parse(path), or x = decode_type(encoded).                           *)
Create(x) == \E root \in Roots, tree \in FreshTrees :
    Bind(x, Owner(tree, root), {tree}, {})

(* y = x.accessor. An object that refers to freed memory cannot be asked.  *)
CanCall(x, accessor) ==
    /\ holds[x] # Null
    /\ object[holds[x]].is = accessor.from
    /\ object[holds[x]].tree \in alive

(* nanobind returns the object it has for a C++ object, if there is one;   *)
(* iterators are new every time.                                           *)
Known(tree, is) == {i \in Objects :
    object[i].tree = tree /\ object[i].is = is /\ is \notin Iterators}
KeepsInternal(accessor, from) ==
    IF accessor.policy = "internal" THEN from ELSE Null
KeepsNew(accessor, from) ==
    IF accessor.policy \in {"internal", "keep"} THEN from ELSE Null
Get(x, y, accessor) ==
    LET tree == object[holds[x]].tree
        new == Reference(tree, accessor.to, KeepsNew(accessor, holds[x]))
        referred == IF accessor.policy = "refer" THEN {tree} ELSE {}
    IN
    /\ CanCall(x, accessor)
    /\ accessor.policy # "own"
    /\ \/ Known(tree, accessor.to) = {} /\ Bind(y, new, {}, referred)
       \/ \E i \in Known(tree, accessor.to) :
            Become(object, [holds EXCEPT ![y] = i], alive, referred)

(* IVar::type decodes the type anew and gives it away.                     *)
GetReferred(x, y, accessor) ==
    /\ CanCall(x, accessor)
    /\ accessor.policy = "own"
    /\ \E tree \in FreshTrees :
        Bind(y, Reference(tree, accessor.to, Null), {tree}, {})
GetOwned(x, y, accessor) ==
    /\ CanCall(x, accessor)
    /\ accessor.policy = "own"
    /\ \E tree \in FreshTrees : Bind(y, Owner(tree, accessor.to), {tree}, {})

(* The variable is left, goes out of scope or was that of an expression.   *)
Drop(x) ==
    /\ holds[x] # Null
    /\ Become(object, [holds EXCEPT ![x] = Null], alive, {})

Next ==
    \/ \E x \in Vars : Create(x) \/ Drop(x)
    \/ \E x, y \in Vars, accessor \in Accessors :
        Get(x, y, accessor) \/ GetOwned(x, y, accessor)

Spec == Init /\ [][Next]_vars
-----------------------------------------------------------------------------
(* Values of the variables; the objects that are held or kept exist.       *)
TypeOK ==
    /\ object \in [Ids -> Things \cup {Null}]
    /\ holds \in [Vars -> Objects \cup {Null}]
    /\ alive \subseteq Trees /\ loose \subseteq alive
    /\ \A i \in Objects : object[i].keeps \in Objects \cup {Null}

(* An object of Python never refers to memory that was freed: keep_alive   *)
(* and reference_internal (types_encoding.cpp:168-210, iterator.hpp:30-48) *)
(* keep what it refers to, or the program does.                            *)
NoDangling == \A i \in Objects : object[i].tree \in alive

(* Everything C++ made for Python has an owner there that will free it,    *)
(* the types that IVar::type gives away too (init.cpp:41).                 *)
NoLeak == \A t \in alive : \E i \in Objects :
    object[i].owner /\ object[i].tree = t

(* The iterators over the types of a string keep those alive, as items()   *)
(* has it (types_encoding.cpp:210), in a for statement too.                *)
ItemsKeepTypes == \A i \in Objects :
    object[i].is = "items" => object[i].tree \in alive
=============================================================================

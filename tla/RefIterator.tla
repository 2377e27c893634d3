---------------------------- MODULE RefIterator ----------------------------
(***************************************************************************)
(* ref_iterator (include/iCDump/iterators.hpp) and the Python type that    *)
(* init_iterator (bindings/python/src/iterator.hpp) makes of it. An        *)
(* iterator object is a reference to a container, a position it_ in the    *)
(* buffer of a vector, and the distance from the beginning that copies and *)
(* comparisons use. A program has names for some objects; every running    *)
(* for statement of Python has one of its own.                             *)
(*                                                                         *)
(* Moving an iterator out of the range of its container, or reading it at  *)
(* the end, is undefined in C++: a caller does neither. Swapping takes the *)
(* buffers of the two vectors, since the container is held by reference.   *)
(***************************************************************************)
EXTENDS Integers, Sequences

CONSTANTS
    Containers,     \* the vectors of the metadata
    Elements,       \* Elements[c]: what vector c, and then its buffer, holds
    Views,          \* the iterator objects the program has names for
    Loops,          \* the iterator objects of its for statements
    AssignAcross,   \* TRUE: it also assigns between views of two containers
    Null, Stop      \* no object; the exception that ends an iteration

ASSUME ElementsAssumption == Elements \in [Containers -> Seq(Containers \X Nat)]
ASSUME NamesAssumption == Views \cap Loops = {}
ASSUME NullAssumption ==
    /\ Null \notin [of : Containers, it : Containers \X Nat, distance : Nat]
    /\ Null \notin [of : Containers, at : Nat]

VARIABLES
    buffer,         \* buffer[c]: the buffer vector c has
    views,          \* views[v]: the iterator object v, or Null
    seen,           \* seen[l]: what the loop l got so far
    got             \* what the last operation returned, or Null

vars == <<buffer, views, seen, got>>
Names == Views \cup Loops

Alive == {v \in Names : views[v] # Null}
Size(c) == Len(Elements[buffer[c]])
begin(c) == <<buffer[c], 0>>
advance(it, n) == <<it[1], it[2] + n>>
Element(it) == Elements[it[1]][it[2] + 1]

(* An object on container c, advanced from its beginning.                  *)
Placed(c, n) == [of |-> c, it |-> advance(begin(c), n), distance |-> n]
copyAtBegin(view) == Placed(view.of, 0)
copy(view) == Placed(view.of, view.distance)
end(view) == Placed(view.of, Size(view.of))
Equal(view, other) ==
    Size(view.of) = Size(other.of) /\ view.distance = other.distance

(* The movement of an object within the range of its container.            *)
Moved(view, n) ==
    [view EXCEPT !.it = advance(view.it, n), !.distance = view.distance + n]
CanMove(view, n) == view.distance + n \in 0 .. Size(view.of)

Init ==
    /\ buffer = [c \in Containers |-> c]
    /\ views = [v \in Names |-> Null]
    /\ seen = [l \in Loops |-> <<>>]
    /\ got = Null

Set(v, view, value) ==
    /\ views' = [views EXCEPT ![v] = view]
    /\ got' = value
    /\ UNCHANGED <<buffer, seen>>

(* An accessor such as Metadata::classes, begin, end, and the copies of a  *)
(* view, with or without a movement of operator+ or operator-.             *)
Open(v, c) == Set(v, Placed(c, 0), Null)
Begin(v, w) == Set(v, Placed(views[w].of, 0), Null)
End(v, w) == Set(v, end(views[w]), Null)
Copy(v, w) == \E n \in -Size(views[w].of) .. Size(views[w].of) :
    /\ CanMove(copy(views[w]), n)
    /\ Set(v, Moved(copy(views[w]), n), Null)

Increment(v) == CanMove(views[v], 1) /\ Set(v, Moved(views[v], 1), Null)
DecrementAlways(v) == Set(v, Moved(views[v], -1), Null)
Decrement(v) ==
    Set(v, IF views[v].it # begin(views[v].of) THEN Moved(views[v], -1)
                                               ELSE views[v], Null)
Move(v) == \E n \in -Size(views[v].of) .. Size(views[v].of) :
    CanMove(views[v], n) /\ Set(v, Moved(views[v], n), Null)

Dereference(v) ==
    /\ views[v].distance < Size(views[v].of)
    /\ Set(v, views[v], Element(views[v].it))

(* operator[] moves the object to the element and back to where it was.    *)
Restored(view) == [view EXCEPT !.it = advance(begin(view.of), view.it[2])]
IndexMoves(v) == \E n \in 0 .. Size(views[v].of) - 1 :
    LET it == advance(begin(views[v].of), n) IN
    Set(v, [views[v] EXCEPT !.it = it], Element(it))
Index(v) == \E n \in 0 .. Size(views[v].of) - 1 :
    /\ views[v].it[1] = buffer[views[v].of]
    /\ Set(v, Restored(views[v]), Element(advance(begin(views[v].of), n)))

(* The assignment operator takes a copy and swaps it with the object.      *)
Swapped(view, other) ==
    [view EXCEPT !.it = other.it, !.distance = other.distance]
SwapBuffers(c, d) == [buffer EXCEPT ![c] = buffer[d], ![d] = buffer[c]]
Assign(v, w) ==
    /\ views[v].of = views[w].of \/ AssignAcross
    /\ buffer' = SwapBuffers(views[v].of, views[w].of)
    /\ views' = [views EXCEPT ![v] = Swapped(views[v], copy(views[w]))]
    /\ got' = Null
    /\ UNCHANGED seen

(* A for statement calls __iter__ of a view and then __next__ of what it   *)
(* got, until that raises StopIteration and the object goes away.          *)
ForFromHere(l, v) ==
    /\ views[l] = Null
    /\ views' = [views EXCEPT ![l] = copy(views[v])]
    /\ seen' = [seen EXCEPT ![l] = <<>>]
    /\ got' = Null
    /\ UNCHANGED buffer
For(l, v) ==
    /\ views[l] = Null
    /\ views' = [views EXCEPT ![l] = Placed(views[v].of, 0)]
    /\ seen' = [seen EXCEPT ![l] = <<>>]
    /\ got' = Null
    /\ UNCHANGED buffer

(* The post-increment moves the object and returns a copy made before.     *)
Advance(v) ==
    LET value == Element(copy(views[v]).it) IN
    /\ ~Equal(views[v], end(views[v]))
    /\ views' = [views EXCEPT ![v] = Moved(views[v], 1)]
    /\ got' = value
    /\ seen' = IF v \in Loops THEN [seen EXCEPT ![v] = Append(@, value)]
                              ELSE seen
    /\ UNCHANGED buffer

FinishNever(v) ==
    Equal(views[v], end(views[v])) /\ Set(v, views[v], Stop)
Finish(v) ==
    /\ Equal(views[v], end(views[v]))
    /\ Set(v, IF v \in Loops THEN Null ELSE views[v], Stop)

(* __next__ runs until the loop is left: the interpreter comes back to a   *)
(* loop once its body is done.                                             *)
PyNext(v) == views[v] # Null /\ (Advance(v) \/ Finish(v))

Next ==
    \/ \E v \in Views, c \in Containers : Open(v, c)
    \/ \E v \in Views, w \in Alive \cap Views :
        Begin(v, w) \/ End(v, w) \/ Copy(v, w)
    \/ \E v \in Alive \cap Views :
        Increment(v) \/ Decrement(v) \/ Move(v) \/ Dereference(v) \/ Index(v)
    \/ \E v, w \in Alive \cap Views : Assign(v, w)
    \/ \E l \in Loops, v \in Alive \cap Views : For(l, v)
    \/ \E v \in Names : PyNext(v)

Safety == Init /\ [][Next]_vars
Spec == Safety /\ \A l \in Loops : WF_vars(PyNext(l))
-----------------------------------------------------------------------------
(* Values of the variables, and a view never leaves its container.         *)
TypeOK ==
    /\ buffer \in [Containers -> Containers]
    /\ \A v \in Alive :
        /\ views[v].of \in Containers
        /\ views[v].distance \in 0 .. Size(views[v].of)
        /\ views[v].it \in Containers \X (0 .. views[v].distance)

(* The position and the distance of an iterator agree, and the position is *)
(* in the buffer its container has: copies, comparisons and the end of a   *)
(* loop use one, and reads the other (iterators.hpp:54-60, 193-195).       *)
Coherent == \A v \in Alive :
    views[v].it = advance(begin(views[v].of), views[v].distance)

(* A for statement has got the elements before its position, in their      *)
(* order and once each, whatever other loops and look-ups on the same view *)
(* ran in its body (iterator.hpp:37-47).                                   *)
LoopInOrder == \A l \in Loops \cap Alive :
    seen[l] = SubSeq(Elements[views[l].of], 1, views[l].distance)

(* Every for statement ends (iterator.hpp:42-47).                          *)
LoopsEnd == \A l \in Loops : views[l] # Null ~> views[l] = Null

(* An iterator is a container and an index, as the abstract module has it. *)
AbstractView(v) ==
    IF views[v] = Null THEN Null
    ELSE [of |-> views[v].of, at |-> views[v].distance]
View == INSTANCE ContainerView WITH
    views <- [v \in Names |-> AbstractView(v)]
ImplementsView == View!Spec
=============================================================================

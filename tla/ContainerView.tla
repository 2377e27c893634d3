--------------------------- MODULE ContainerView ---------------------------
(***************************************************************************)
(* What an iterator over a container promises to C++ and Python callers: a *)
(* view is a container and an index into it, no operation on a view        *)
(* changes a container or another view, and a Python loop gets the         *)
(* elements of the container in their order, once each.                    *)
(***************************************************************************)
EXTENDS Integers, Sequences

CONSTANTS
    Containers,     \* the vectors of the metadata
    Elements,       \* Elements[c]: the elements of container c
    Views,          \* the iterator objects the program has names for
    Loops,          \* the iterator objects of its for statements
    Null, Stop      \* no object; the end of an iteration

VARIABLES
    views,          \* views[v]: the container and the index of v, or Null
    got             \* what the last operation returned, or Null

vars == <<views, got>>

Size(c) == Len(Elements[c])
At(c, i) == [of |-> c, at |-> i]
Alive == {v \in Views \cup Loops : views[v] # Null}

Init ==
    /\ views = [v \in Views \cup Loops |-> Null]
    /\ got = Null

Set(v, view, value) ==
    /\ views' = [views EXCEPT ![v] = view]
    /\ got' = value

(* A view is made at an element or at the end of a container, or moved to  *)
(* another one of the container it has.                                    *)
Place(v) == \E c \in Containers : \E i \in 0 .. Size(c) :
    Set(v, At(c, i), Null)

(* An element is read, by the index of the view or by one that is given,   *)
(* and no view moves.                                                      *)
Read(v) == \E i \in 0 .. Size(views[v].of) - 1 :
    Set(v, views[v], Elements[views[v].of][i + 1])

For(l) == \E c \in Containers :
    views[l] = Null /\ Set(l, At(c, 0), Null)

(* The step of a loop that gets an element, and the one that ends it.      *)
Advance(v) ==
    LET view == views[v] IN
    /\ view.at < Size(view.of)
    /\ Set(v, At(view.of, view.at + 1), Elements[view.of][view.at + 1])

Finish(v) ==
    /\ views[v].at = Size(views[v].of)
    /\ Set(v, IF v \in Loops THEN Null ELSE views[v], Stop)

Next ==
    \/ \E v \in Views : Place(v)
    \/ \E l \in Loops : For(l)
    \/ \E v \in Alive : Read(v) \/ Advance(v) \/ Finish(v)

Spec == Init /\ [][Next]_vars
=============================================================================

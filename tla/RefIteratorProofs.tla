------------------------- MODULE RefIteratorProofs -------------------------
(***************************************************************************)
(* Proofs about RefIterator, for all containers and programs that do not   *)
(* assign between views of two containers. Every operation has one of five *)
(* shapes, and each of them keeps the invariant and is a step of           *)
(* ContainerView.                                                          *)
(***************************************************************************)
EXTENDS RefIterator, SequenceTheorems, TLAPS

(* The iterator object that stands for element n of container c.           *)
Pos(c, n) == [of |-> c, it |-> <<c, n>>, distance |-> n]
Held(view) == \E c \in Containers : \E n \in 0 .. Len(Elements[c]) :
    view = Pos(c, n)

Inv ==
    /\ buffer = [c \in Containers |-> c]
    /\ views = [x \in Names |-> views[x]]
    /\ \A x \in Names : views[x] = Null \/ Held(views[x])
    /\ seen = [l \in Loops |-> seen[l]]
    /\ LoopInOrder

(* The shapes of the steps: a step changes at most one object.             *)
To(x, view, value) ==
    /\ views' = [views EXCEPT ![x] = view]
    /\ got' = value
    /\ UNCHANGED buffer

Placing(x) == \E c \in Containers : \E n \in 0 .. Len(Elements[c]) :
    To(x, Pos(c, n), Null) /\ UNCHANGED seen
Reading(x) == \E n \in 0 .. Len(Elements[views[x].of]) - 1 :
    To(x, views[x], Elements[views[x].of][n + 1]) /\ UNCHANGED seen
Starting(l) == \E c \in Containers :
    /\ views[l] = Null
    /\ To(l, Pos(c, 0), Null)
    /\ seen' = [seen EXCEPT ![l] = <<>>]
Advancing(x) == \E c \in Containers : \E n \in 0 .. Len(Elements[c]) - 1 :
    /\ views[x] = Pos(c, n)
    /\ To(x, Pos(c, n + 1), Elements[c][n + 1])
    /\ seen' = IF x \in Loops
                 THEN [seen EXCEPT ![x] = Append(@, Elements[c][n + 1])]
                 ELSE seen
Finishing(x) == \E c \in Containers :
    /\ views[x] = Pos(c, Len(Elements[c]))
    /\ To(x, IF x \in Loops THEN Null ELSE views[x], Stop)
    /\ UNCHANGED seen

Shape ==
    \/ \E x \in Views : Placing(x)
    \/ \E l \in Loops : Starting(l)
    \/ \E x \in Alive : Reading(x) \/ Advancing(x) \/ Finishing(x)

-----------------------------------------------------------------------------
(***************************************************************************)
(* The objects a program reaches.                                          *)
(***************************************************************************)
LEMMA LenNat == \A c \in Containers : Len(Elements[c]) \in Nat
BY ElementsAssumption

LEMMA PosNotNull ==
  ASSUME NEW c \in Containers, NEW n \in Nat
  PROVE  Pos(c, n) # Null
BY NullAssumption DEF Pos

LEMMA Position ==
  ASSUME Inv, NEW x \in Alive
  PROVE  \E c \in Containers : \E n \in 0 .. Len(Elements[c]) :
            /\ views[x] = Pos(c, n)
            /\ views[x].of = c /\ views[x].distance = n /\ views[x].it = <<c, n>>
            /\ Size(c) = Len(Elements[c])
<1>1. PICK c \in Containers : \E n \in 0 .. Len(Elements[c]) :
        views[x] = Pos(c, n)
  BY DEF Inv, Held, Alive
<1>2. PICK n \in 0 .. Len(Elements[c]) : views[x] = Pos(c, n)
  BY <1>1
<1> QED
  BY <1>2 DEF Pos, Size, Inv

LEMMA PlacedIsPos ==
  ASSUME Inv, NEW c \in Containers, NEW n \in Int
  PROVE  Placed(c, n) = Pos(c, n)
BY DEF Placed, begin, advance, Pos, Inv

LEMMA MovedIsPos ==
  ASSUME NEW c \in Containers, NEW n \in Int, NEW k \in Int
  PROVE  Moved(Pos(c, n), k) = Pos(c, n + k)
<1>1. advance(<<c, n>>, k) = <<c, n + k>>
  BY DEF advance
<1>2. Pos(c, n).it = <<c, n>> /\ Pos(c, n).distance = n
  BY DEF Pos
<1>3. Moved(Pos(c, n), k)
        = [Pos(c, n) EXCEPT !.it = <<c, n + k>>, !.distance = n + k]
  BY <1>1, <1>2 DEF Moved
<1> QED
  BY <1>3 DEF Pos

-----------------------------------------------------------------------------
(***************************************************************************)
(* The shape of every operation.                                           *)
(***************************************************************************)
LEMMA SetIsTo ==
  ASSUME NEW x, NEW view, NEW value, Set(x, view, value)
  PROVE  To(x, view, value) /\ UNCHANGED seen
BY DEF Set, To

LEMMA PlacesAtPos ==
  ASSUME Inv, NEW x \in Views, NEW c \in Containers,
         NEW n \in 0 .. Len(Elements[c]), Set(x, Pos(c, n), Null)
  PROVE  Placing(x)
BY SetIsTo DEF Placing

LEMMA OpenShape ==
  ASSUME Inv, NEW x \in Views, NEW c \in Containers, Open(x, c)
  PROVE  Placing(x)
<1>1. Placed(c, 0) = Pos(c, 0)
  BY PlacedIsPos
<1>2. 0 \in 0 .. Len(Elements[c])
  BY LenNat
<1> QED
  BY <1>1, <1>2, PlacesAtPos DEF Open

LEMMA CopyingShape ==
  ASSUME Inv, NEW x \in Views, NEW y \in Alive,
         Begin(x, y) \/ End(x, y) \/ Copy(x, y)
  PROVE  Placing(x)
<1>1. PICK c \in Containers : \E n \in 0 .. Len(Elements[c]) :
        /\ views[y] = Pos(c, n)
        /\ views[y].of = c /\ views[y].distance = n /\ views[y].it = <<c, n>>
        /\ Size(c) = Len(Elements[c])
  BY Position
<1>2. PICK n \in 0 .. Len(Elements[c]) :
        /\ views[y].of = c /\ views[y].distance = n
        /\ Size(c) = Len(Elements[c])
  BY <1>1
<1>3. Len(Elements[c]) \in Nat
  BY LenNat
<1>4. CASE Begin(x, y)
  <2>1. Placed(c, 0) = Pos(c, 0) /\ 0 \in 0 .. Len(Elements[c])
    BY <1>3, PlacedIsPos
  <2> QED
    BY <1>2, <1>4, <2>1, PlacesAtPos DEF Begin
<1>5. CASE End(x, y)
  <2>1. /\ Placed(c, Len(Elements[c])) = Pos(c, Len(Elements[c]))
        /\ Len(Elements[c]) \in 0 .. Len(Elements[c])
    BY <1>3, PlacedIsPos
  <2> QED
    BY <1>2, <1>5, <2>1, PlacesAtPos DEF End, end
<1>6. CASE Copy(x, y)
  <2>1. copy(views[y]) = Pos(c, n)
    BY <1>2, PlacedIsPos DEF copy
  <2>2. Pos(c, n).of = c /\ Pos(c, n).distance = n
    BY DEF Pos
  <2>3. PICK k \in -Len(Elements[c]) .. Len(Elements[c]) :
          /\ n + k \in 0 .. Len(Elements[c])
          /\ Set(x, Moved(Pos(c, n), k), Null)
    BY <1>2, <1>6, <2>1, <2>2 DEF Copy, CanMove
  <2>4. Moved(Pos(c, n), k) = Pos(c, n + k)
    BY <1>3, <2>3, MovedIsPos
  <2> QED
    BY <2>3, <2>4, PlacesAtPos
<1> QED
  BY <1>4, <1>5, <1>6

LEMMA MovingShape ==
  ASSUME Inv, NEW x \in Alive \cap Views,
         Increment(x) \/ Decrement(x) \/ Move(x)
  PROVE  Placing(x)
<1>1. PICK c \in Containers : \E n \in 0 .. Len(Elements[c]) :
        /\ views[x] = Pos(c, n)
        /\ views[x].of = c /\ views[x].distance = n /\ views[x].it = <<c, n>>
        /\ Size(c) = Len(Elements[c])
  BY Position
<1>2. PICK n \in 0 .. Len(Elements[c]) :
        /\ views[x] = Pos(c, n)
        /\ views[x].of = c /\ views[x].distance = n /\ views[x].it = <<c, n>>
        /\ Size(c) = Len(Elements[c])
  BY <1>1
<1>3. Len(Elements[c]) \in Nat
  BY LenNat
<1>4. ASSUME NEW k \in Int, CanMove(views[x], k),
             Set(x, Moved(views[x], k), Null)
      PROVE  Placing(x)
  <2>1. n + k \in 0 .. Len(Elements[c])
    BY <1>2, <1>4 DEF CanMove
  <2>2. Moved(views[x], k) = Pos(c, n + k)
    BY <1>2, <1>3, <1>4, MovedIsPos
  <2> QED
    BY <1>4, <2>1, <2>2, PlacesAtPos
<1>5. CASE Increment(x)
  BY <1>4, <1>5 DEF Increment
<1>6. CASE Decrement(x)
  <2>1. begin(c) = <<c, 0>>
    BY DEF begin, Inv
  <2>2. CASE n = 0
    BY <1>2, <1>6, <2>1, <2>2, PlacesAtPos DEF Decrement
  <2>3. CASE n # 0
    <3>1. CanMove(views[x], -1)
      BY <1>2, <1>3, <2>3 DEF CanMove
    <3>2. views[x].it # begin(views[x].of)
      BY <1>2, <2>1, <2>3
    <3> QED
      BY <1>4, <1>6, <3>1, <3>2 DEF Decrement
  <2> QED
    BY <2>2, <2>3
<1>7. CASE Move(x)
  <2>1. PICK k \in -Size(views[x].of) .. Size(views[x].of) :
          CanMove(views[x], k) /\ Set(x, Moved(views[x], k), Null)
    BY <1>7 DEF Move
  <2> QED
    BY <1>2, <1>3, <1>4, <2>1
<1> QED
  BY <1>5, <1>6, <1>7

LEMMA ReadingShape ==
  ASSUME Inv, NEW x \in Alive \cap Views, Dereference(x) \/ Index(x)
  PROVE  Reading(x)
<1>1. PICK c \in Containers : \E n \in 0 .. Len(Elements[c]) :
        /\ views[x] = Pos(c, n)
        /\ views[x].of = c /\ views[x].distance = n /\ views[x].it = <<c, n>>
        /\ Size(c) = Len(Elements[c])
  BY Position
<1>2. PICK n \in 0 .. Len(Elements[c]) :
        /\ views[x] = Pos(c, n)
        /\ views[x].of = c /\ views[x].distance = n /\ views[x].it = <<c, n>>
        /\ Size(c) = Len(Elements[c])
  BY <1>1
<1>3. Len(Elements[c]) \in Nat
  BY LenNat
<1>4. begin(c) = <<c, 0>>
  BY DEF begin, Inv
<1>5. CASE Dereference(x)
  <2>1. n \in 0 .. Len(Elements[c]) - 1
    BY <1>2, <1>3, <1>5 DEF Dereference
  <2>2. Element(views[x].it) = Elements[c][n + 1]
    BY <1>2 DEF Element
  <2>3. To(x, views[x], Elements[views[x].of][n + 1]) /\ UNCHANGED seen
    BY <1>2, <1>5, <2>2, SetIsTo DEF Dereference
  <2> QED
    BY <1>2, <2>1, <2>3 DEF Reading
<1>6. CASE Index(x)
  <2>1. PICK k \in 0 .. Len(Elements[c]) - 1 :
          Set(x, Restored(views[x]), Element(advance(begin(c), k)))
    BY <1>2, <1>6 DEF Index
  <2>2. advance(begin(c), k) = <<c, k>> /\ advance(begin(c), n) = <<c, n>>
    BY <1>3, <1>4, <2>1 DEF advance
  <2>3. Element(advance(begin(c), k)) = Elements[c][k + 1]
    BY <2>2 DEF Element
  <2>4. Restored(views[x]) = views[x]
    BY <1>2, <2>2 DEF Restored, Pos
  <2>5. To(x, views[x], Elements[views[x].of][k + 1]) /\ UNCHANGED seen
    BY <1>2, <2>1, <2>3, <2>4, SetIsTo
  <2> QED
    BY <1>2, <2>1, <2>5 DEF Reading
<1> QED
  BY <1>5, <1>6

LEMMA SwappedIsPos ==
  ASSUME NEW c \in Containers, NEW n \in Int, NEW k \in Int
  PROVE  Swapped(Pos(c, k), Pos(c, n)) = Pos(c, n)
<1>1. Pos(c, n).it = <<c, n>> /\ Pos(c, n).distance = n
  BY DEF Pos
<1>2. Swapped(Pos(c, k), Pos(c, n))
        = [Pos(c, k) EXCEPT !.it = <<c, n>>, !.distance = n]
  BY <1>1 DEF Swapped
<1> QED
  BY <1>2 DEF Pos

LEMMA AssignShape ==
  ASSUME Inv, ~AssignAcross,
         NEW x \in Alive \cap Views, NEW y \in Alive \cap Views, Assign(x, y)
  PROVE  Placing(x)
<1>1. PICK c \in Containers : \E n \in 0 .. Len(Elements[c]) :
        /\ views[y] = Pos(c, n)
        /\ views[y].of = c /\ views[y].distance = n /\ views[y].it = <<c, n>>
        /\ Size(c) = Len(Elements[c])
  BY Position
<1>2. PICK n \in 0 .. Len(Elements[c]) :
        views[y].of = c /\ views[y].distance = n
  BY <1>1
<1>3. PICK k \in Nat : views[x] = Pos(c, k)
  <2>1. PICK d \in Containers : \E k \in 0 .. Len(Elements[d]) :
          views[x] = Pos(d, k) /\ views[x].of = d
    BY Position
  <2>2. d = c
    BY <1>2, <2>1 DEF Assign
  <2> QED
    BY <2>1, <2>2
<1>4. views[x].of = c
  BY <1>3 DEF Pos
<1>5. UNCHANGED buffer
  BY <1>2, <1>4 DEF Assign, SwapBuffers, Inv
<1>6. copy(views[y]) = Pos(c, n)
  BY <1>2, PlacedIsPos DEF copy
<1>7. Swapped(views[x], Pos(c, n)) = Pos(c, n)
  BY <1>3, SwappedIsPos
<1>8. views' = [views EXCEPT ![x] = Pos(c, n)]
  BY <1>6, <1>7 DEF Assign
<1> QED
  BY <1>2, <1>5, <1>8 DEF Assign, Placing, To

LEMMA ForShape ==
  ASSUME Inv, NEW l \in Loops, NEW y \in Alive \cap Views, For(l, y)
  PROVE  Starting(l)
<1>1. PICK c \in Containers : views[y].of = c
  BY Position
<1>2. Placed(c, 0) = Pos(c, 0)
  BY PlacedIsPos
<1> QED
  BY <1>1, <1>2 DEF For, Starting, To

LEMMA NextShape ==
  ASSUME Inv, NEW x \in Names, PyNext(x)
  PROVE  Advancing(x) \/ Finishing(x)
<1>1. x \in Alive
  BY DEF PyNext, Alive
<1>2. PICK c \in Containers : \E n \in 0 .. Len(Elements[c]) :
        /\ views[x] = Pos(c, n)
        /\ views[x].of = c /\ views[x].distance = n /\ views[x].it = <<c, n>>
        /\ Size(c) = Len(Elements[c])
  BY <1>1, Position
<1>3. PICK n \in 0 .. Len(Elements[c]) :
        /\ views[x] = Pos(c, n)
        /\ views[x].of = c /\ views[x].distance = n
        /\ Size(c) = Len(Elements[c])
  BY <1>2
<1>4. Len(Elements[c]) \in Nat
  BY LenNat
<1>5. end(views[x]).of = c /\ end(views[x]).distance = Len(Elements[c])
  <2>1. end(views[x]) = Pos(c, Len(Elements[c]))
    BY <1>3, <1>4, PlacedIsPos DEF end
  <2> QED
    BY <2>1 DEF Pos
<1>6. Equal(views[x], end(views[x])) <=> n = Len(Elements[c])
  BY <1>3, <1>5 DEF Equal
<1>7. CASE Advance(x)
  <2>1. n \in 0 .. Len(Elements[c]) - 1
    BY <1>3, <1>4, <1>6, <1>7 DEF Advance
  <2>2. Element(copy(views[x]).it) = Elements[c][n + 1]
    <3>1. copy(views[x]) = Pos(c, n)
      BY <1>3, PlacedIsPos DEF copy
    <3> QED
      BY <3>1 DEF Pos, Element
  <2>3. Moved(views[x], 1) = Pos(c, n + 1)
    BY <1>3, MovedIsPos
  <2> QED
    BY <1>3, <1>7, <2>1, <2>2, <2>3 DEF Advance, Advancing, To
<1>8. CASE Finish(x)
  <2>1. views[x] = Pos(c, Len(Elements[c]))
    BY <1>3, <1>6, <1>8 DEF Finish
  <2>2. To(x, IF x \in Loops THEN Null ELSE views[x], Stop) /\ UNCHANGED seen
    BY <1>8, SetIsTo DEF Finish
  <2> QED
    BY <2>1, <2>2 DEF Finishing
<1> QED
  BY <1>7, <1>8 DEF PyNext

LEMMA StepShape ==
  ASSUME Inv, ~AssignAcross, Next
  PROVE  Shape
<1>1. ASSUME NEW x \in Views, NEW c \in Containers, Open(x, c)
      PROVE  Shape
  BY <1>1, OpenShape DEF Shape
<1>2. ASSUME NEW x \in Views, NEW y \in Alive \cap Views,
             Begin(x, y) \/ End(x, y) \/ Copy(x, y)
      PROVE  Shape
  BY <1>2, CopyingShape DEF Shape
<1>3. ASSUME NEW x \in Alive \cap Views,
             \/ Increment(x) \/ Decrement(x) \/ Move(x)
             \/ Dereference(x) \/ Index(x)
      PROVE  Shape
  BY <1>3, MovingShape, ReadingShape DEF Shape
<1>4. ASSUME NEW x \in Alive \cap Views, NEW y \in Alive \cap Views,
             Assign(x, y)
      PROVE  Shape
  BY <1>4, AssignShape DEF Shape
<1>5. ASSUME NEW l \in Loops, NEW y \in Alive \cap Views, For(l, y)
      PROVE  Shape
  BY <1>5, ForShape DEF Shape
<1>6. ASSUME NEW x \in Names, PyNext(x)
      PROVE  Shape
  BY <1>6, NextShape DEF Shape, PyNext, Alive
<1> QED
  BY <1>1, <1>2, <1>3, <1>4, <1>5, <1>6 DEF Next

-----------------------------------------------------------------------------
(***************************************************************************)
(* The invariant.                                                          *)
(***************************************************************************)
LEMMA NothingSeen == \A c \in Containers : SubSeq(Elements[c], 1, 0) = <<>>
BY ElementsAssumption, SubSeqEmpty

LEMMA OneMoreSeen ==
  ASSUME NEW c \in Containers, NEW n \in 0 .. Len(Elements[c]) - 1
  PROVE  Append(SubSeq(Elements[c], 1, n), Elements[c][n + 1])
            = SubSeq(Elements[c], 1, n + 1)
<1> DEFINE Values == Containers \X Nat
<1> DEFINE s == Elements[c]
<1>1. s \in Seq(Values) /\ Len(s) \in Nat
  BY ElementsAssumption
<1>2. n + 1 \in 1 .. Len(s) /\ n = (n + 1) - 1
  BY <1>1
<1>3. SubSeq(s, 1, n) \in Seq(Values)
  BY <1>1, <1>2, SubSeqProperties
<1>4. SubSeq(s, 1, n + 1) = SubSeq(s, 1, n) \o << s[n + 1] >>
  BY <1>1, <1>2, SubSeqRecursiveSecond
<1>5. s[n + 1] \in Values
  BY <1>1, <1>2
<1> HIDE DEF s, Values
<1>6. Append(SubSeq(s, 1, n), s[n + 1]) = SubSeq(s, 1, n) \o << s[n + 1] >>
  BY <1>3, <1>5
<1> QED
  BY <1>4, <1>6 DEF s

LEMMA InitInv == Init => Inv
<1> SUFFICES ASSUME Init PROVE Inv
  OBVIOUS
<1>1. Loops \cap Alive = {}
  BY DEF Init, Alive, Names
<1> QED
  BY <1>1 DEF Init, Inv, LoopInOrder

(* What an object that is not the one a step is about keeps.               *)
LEMMA ToKeeps ==
  ASSUME Inv, NEW x \in Names, NEW view, NEW value, To(x, view, value)
  PROVE  /\ buffer' = [c \in Containers |-> c]
         /\ views' = [y \in Names |-> views'[y]]
         /\ views'[x] = view
         /\ \A y \in Names \ {x} : views'[y] = views[y]
         /\ (view = Null \/ Held(view))
              => \A y \in Names : views'[y] = Null \/ Held(views'[y])
BY DEF Inv, To

LEMMA LoopInOrderKept ==
  ASSUME Inv, NEW x \in Names, NEW view, NEW value, To(x, view, value),
         seen' = [l \in Loops |-> seen'[l]],
         \A l \in Loops \ {x} : seen'[l] = seen[l],
         x \in Loops /\ view # Null
            => seen'[x] = SubSeq(Elements[view.of], 1, view.distance)
  PROVE  LoopInOrder'
<1> SUFFICES ASSUME NEW l \in Loops, views'[l] # Null
             PROVE  seen'[l]
                      = SubSeq(Elements[views'[l].of], 1, views'[l].distance)
  BY DEF LoopInOrder, Alive
<1>1. l \in Names
  BY DEF Names
<1>2. CASE l = x
  BY <1>2, ToKeeps
<1>3. CASE l # x
  <2>1. views'[l] = views[l] /\ seen'[l] = seen[l]
    BY <1>1, <1>3, ToKeeps
  <2>2. l \in Loops \cap Alive
    BY <1>1, <2>1 DEF Alive
  <2> QED
    BY <2>1, <2>2 DEF Inv, LoopInOrder
<1> QED
  BY <1>2, <1>3

LEMMA NextInv ==
  ASSUME Inv, ~AssignAcross, Next
  PROVE  Inv'
<1>0. Shape
  BY StepShape
<1>1. ASSUME NEW x \in Views, Placing(x)
      PROVE  Inv'
  <2>1. PICK c \in Containers : \E n \in 0 .. Len(Elements[c]) :
          To(x, Pos(c, n), Null) /\ UNCHANGED seen
    BY <1>1 DEF Placing
  <2>2. PICK n \in 0 .. Len(Elements[c]) :
          To(x, Pos(c, n), Null) /\ UNCHANGED seen
    BY <2>1
  <2>3. x \in Names /\ x \notin Loops
    BY NamesAssumption DEF Names
  <2>4. Held(Pos(c, n))
    BY DEF Held
  <2>5. LoopInOrder'
    BY <2>2, <2>3, LoopInOrderKept DEF Inv
  <2> QED
    BY <2>2, <2>3, <2>4, <2>5, ToKeeps DEF Inv
<1>2. ASSUME NEW l \in Loops, Starting(l)
      PROVE  Inv'
  <2>1. PICK c \in Containers :
          To(l, Pos(c, 0), Null) /\ seen' = [seen EXCEPT ![l] = <<>>]
    BY <1>2 DEF Starting
  <2>2. l \in Names /\ 0 \in 0 .. Len(Elements[c])
    BY LenNat DEF Names
  <2>3. Held(Pos(c, 0))
    BY <2>2 DEF Held
  <2>4. /\ seen' = [y \in Loops |-> seen'[y]]
        /\ seen'[l] = <<>>
        /\ \A y \in Loops \ {l} : seen'[y] = seen[y]
    BY <2>1 DEF Inv
  <2>5. seen'[l] = SubSeq(Elements[Pos(c, 0).of], 1, Pos(c, 0).distance)
    BY <2>4, NothingSeen DEF Pos
  <2>6. LoopInOrder'
    BY <2>1, <2>2, <2>4, <2>5, LoopInOrderKept
  <2> QED
    BY <2>1, <2>2, <2>3, <2>4, <2>6, ToKeeps DEF Inv
<1>3. ASSUME NEW x \in Alive, Reading(x)
      PROVE  Inv'
  <2>1. PICK value : To(x, views[x], value) /\ UNCHANGED seen
    BY <1>3 DEF Reading
  <2>2. x \in Names /\ (views[x] = Null \/ Held(views[x]))
    BY DEF Alive, Inv
  <2>3. x \in Loops =>
          seen'[x] = SubSeq(Elements[views[x].of], 1, views[x].distance)
    BY <2>1 DEF Inv, LoopInOrder
  <2>4. LoopInOrder'
    BY <2>1, <2>2, <2>3, LoopInOrderKept DEF Inv
  <2> QED
    BY <2>1, <2>2, <2>4, ToKeeps DEF Inv
<1>4. ASSUME NEW x \in Alive, Advancing(x)
      PROVE  Inv'
  <2>1. PICK c \in Containers : \E n \in 0 .. Len(Elements[c]) - 1 :
          /\ views[x] = Pos(c, n)
          /\ To(x, Pos(c, n + 1), Elements[c][n + 1])
          /\ seen' = IF x \in Loops
                       THEN [seen EXCEPT ![x] = Append(@, Elements[c][n + 1])]
                       ELSE seen
    BY <1>4 DEF Advancing
  <2>2. PICK n \in 0 .. Len(Elements[c]) - 1 :
          /\ views[x] = Pos(c, n)
          /\ To(x, Pos(c, n + 1), Elements[c][n + 1])
          /\ seen' = IF x \in Loops
                       THEN [seen EXCEPT ![x] = Append(@, Elements[c][n + 1])]
                       ELSE seen
    BY <2>1
  <2>3. x \in Names /\ n + 1 \in 0 .. Len(Elements[c])
    BY LenNat DEF Alive
  <2>4. Held(Pos(c, n + 1))
    BY <2>3 DEF Held
  <2>5. /\ seen' = [y \in Loops |-> seen'[y]]
        /\ \A y \in Loops \ {x} : seen'[y] = seen[y]
        /\ x \in Loops => seen'[x] = Append(seen[x], Elements[c][n + 1])
    BY <2>2 DEF Inv
  <2>6. x \in Loops => seen'[x] = SubSeq(Elements[c], 1, n + 1)
    <3>1. views[x].of = c /\ views[x].distance = n
      BY <2>2 DEF Pos
    <3>2. x \in Loops => seen[x] = SubSeq(Elements[c], 1, n)
      BY <3>1 DEF Inv, LoopInOrder
    <3> QED
      BY <2>5, <3>2, OneMoreSeen
  <2>7. Pos(c, n + 1).of = c /\ Pos(c, n + 1).distance = n + 1
    BY DEF Pos
  <2>8. LoopInOrder'
    BY <2>2, <2>3, <2>5, <2>6, <2>7, LoopInOrderKept
  <2> QED
    BY <2>2, <2>3, <2>4, <2>5, <2>8, ToKeeps DEF Inv
<1>5. ASSUME NEW x \in Alive, Finishing(x)
      PROVE  Inv'
  <2>1. To(x, IF x \in Loops THEN Null ELSE views[x], Stop) /\ UNCHANGED seen
    BY <1>5 DEF Finishing
  <2>2. x \in Names /\ (views[x] = Null \/ Held(views[x]))
    BY DEF Alive, Inv
  <2>3. LoopInOrder'
    BY <2>1, <2>2, LoopInOrderKept DEF Inv
  <2> QED
    BY <2>1, <2>2, <2>3, ToKeeps DEF Inv
<1> QED
  BY <1>0, <1>1, <1>2, <1>3, <1>4, <1>5 DEF Shape

LEMMA InvAlways ==
  ASSUME ~AssignAcross
  PROVE  Safety => []Inv
<1>1. ASSUME Inv, [Next]_vars
      PROVE  Inv'
  <2>1. CASE UNCHANGED vars
    BY <1>1, <2>1 DEF vars, Inv, Held, LoopInOrder, Alive
  <2> QED
    BY <1>1, <2>1, NextInv
<1> QED
  BY <1>1, InitInv, PTL DEF Safety

-----------------------------------------------------------------------------
(***************************************************************************)
(* The theorems.                                                           *)
(***************************************************************************)
LEMMA InvFacts ==
  ASSUME Inv
  PROVE  TypeOK /\ Coherent
<1>1. buffer \in [Containers -> Containers]
  BY DEF Inv
<1>2. ASSUME NEW x \in Alive
      PROVE  /\ views[x].of \in Containers
             /\ views[x].distance \in 0 .. Size(views[x].of)
             /\ views[x].it \in Containers \X (0 .. views[x].distance)
             /\ views[x].it = advance(begin(views[x].of), views[x].distance)
  <2>1. PICK c \in Containers : \E n \in 0 .. Len(Elements[c]) :
          /\ views[x] = Pos(c, n)
          /\ views[x].of = c /\ views[x].distance = n /\ views[x].it = <<c, n>>
          /\ Size(c) = Len(Elements[c])
    BY Position
  <2>2. PICK n \in 0 .. Len(Elements[c]) :
          /\ views[x].of = c /\ views[x].distance = n /\ views[x].it = <<c, n>>
          /\ Size(c) = Len(Elements[c])
    BY <2>1
  <2>3. advance(begin(c), n) = <<c, n>>
    BY LenNat DEF advance, begin, Inv
  <2>4. n \in 0 .. n
    BY LenNat
  <2> QED
    BY <2>2, <2>3, <2>4
<1> QED
  BY <1>1, <1>2 DEF TypeOK, Coherent

(* The variables have their types, and whatever a program does with an     *)
(* iterator object it stays within its container (iterators.hpp:36-203).   *)
THEOREM TypeCorrect ==
  ASSUME ~AssignAcross
  PROVE  Safety => []TypeOK
<1>1. Safety => []Inv
  BY InvAlways
<1> QED
  BY <1>1, InvFacts, PTL

(* The position and the distance of an iterator object always agree, for   *)
(* every container and any mix of the operations of iterators.hpp:47-203.  *)
THEOREM Coherence ==
  ASSUME ~AssignAcross
  PROVE  Safety => []Coherent
<1>1. Safety => []Inv
  BY InvAlways
<1> QED
  BY <1>1, InvFacts, PTL

(* A Python loop over a view gets its elements in order, once each         *)
(* (iterator.hpp:37-48).                                                   *)
THEOREM LoopsInOrder ==
  ASSUME ~AssignAcross
  PROVE  Safety => []LoopInOrder
<1>1. Safety => []Inv
  BY InvAlways
<1>2. Inv => LoopInOrder
  BY DEF Inv
<1> QED
  BY <1>1, <1>2, PTL

LEMMA ToSets ==
  ASSUME Inv, NEW x \in Names, NEW view, NEW value, To(x, view, value),
         NEW abstract, abstract = IF view = Null THEN Null ELSE
                                  [of |-> view.of, at |-> view.distance]
  PROVE  View!Set(x, abstract, value)
<1>1. \A y \in Names \ {x} : AbstractView(y)' = AbstractView(y)
  BY ToKeeps DEF AbstractView
<1>2. AbstractView(x)' = abstract
  BY ToKeeps DEF AbstractView
<1>3. [y \in Names |-> AbstractView(y)]'
        = [[y \in Names |-> AbstractView(y)] EXCEPT ![x] = abstract]
  BY <1>1, <1>2
<1> QED
  BY <1>3 DEF View!Set, To

LEMMA AbstractPos ==
  ASSUME NEW c \in Containers, NEW n \in Nat
  PROVE  (IF Pos(c, n) = Null THEN Null
          ELSE [of |-> Pos(c, n).of, at |-> Pos(c, n).distance])
            = [of |-> c, at |-> n]
<1>1. Pos(c, n).of = c /\ Pos(c, n).distance = n
  BY DEF Pos
<1> QED
  BY <1>1, PosNotNull

LEMMA AbstractAlive ==
  ASSUME Inv, NEW x \in Alive
  PROVE  /\ x \in View!Alive
         /\ \E c \in Containers : \E n \in 0 .. Len(Elements[c]) :
              views[x] = Pos(c, n) /\ views[x].of = c
              /\ AbstractView(x) = [of |-> c, at |-> n]
<1>1. PICK c \in Containers : \E n \in 0 .. Len(Elements[c]) :
        views[x] = Pos(c, n)
  BY Position
<1>2. PICK n \in 0 .. Len(Elements[c]) : views[x] = Pos(c, n)
  BY <1>1
<1>3. n \in Nat
  BY LenNat
<1>4. views[x].of = c /\ views[x].distance = n
  BY <1>2 DEF Pos
<1>5. AbstractView(x) = [of |-> c, at |-> n]
  BY <1>2, <1>3, AbstractPos DEF AbstractView
<1>6. AbstractView(x) # Null
  BY <1>3, <1>5, NullAssumption
<1>7. x \in Names
  BY DEF Alive
<1> QED
  BY <1>2, <1>4, <1>5, <1>6, <1>7 DEF View!Alive, Names

LEMMA StepImplements ==
  ASSUME Inv, ~AssignAcross, Next
  PROVE  View!Next
<1>0. Shape
  BY StepShape
<1>1. ASSUME NEW x \in Views, Placing(x)
      PROVE  View!Next
  <2>1. PICK c \in Containers : \E n \in 0 .. Len(Elements[c]) :
          To(x, Pos(c, n), Null)
    BY <1>1 DEF Placing
  <2>2. PICK n \in 0 .. Len(Elements[c]) : To(x, Pos(c, n), Null)
    BY <2>1
  <2>3. x \in Names /\ n \in Nat
    BY LenNat DEF Names
  <2>4. View!Set(x, [of |-> c, at |-> n], Null)
    BY <2>2, <2>3, AbstractPos, ToSets
  <2> QED
    BY <2>2, <2>4 DEF View!Next, View!Place, View!At, View!Size
<1>2. ASSUME NEW l \in Loops, Starting(l)
      PROVE  View!Next
  <2>1. PICK c \in Containers : views[l] = Null /\ To(l, Pos(c, 0), Null)
    BY <1>2 DEF Starting
  <2>2. l \in Names /\ AbstractView(l) = Null
    BY <2>1 DEF Names, AbstractView
  <2>3. View!Set(l, [of |-> c, at |-> 0], Null)
    BY <2>1, <2>2, AbstractPos, ToSets
  <2> QED
    BY <2>2, <2>3 DEF View!Next, View!For, View!At, Names
<1>3. ASSUME NEW x \in Alive, Reading(x)
      PROVE  View!Next
  <2>1. x \in Names
    BY DEF Alive
  <2>2. PICK c \in Containers : \E n \in 0 .. Len(Elements[c]) :
          views[x] = Pos(c, n) /\ views[x].of = c
          /\ AbstractView(x) = [of |-> c, at |-> n]
    BY AbstractAlive
  <2>3. PICK k \in 0 .. Len(Elements[c]) - 1 :
          To(x, views[x], Elements[c][k + 1])
    BY <1>3, <2>2 DEF Reading
  <2>4. View!Set(x, AbstractView(x), Elements[c][k + 1])
    BY <2>1, <2>3, ToSets DEF AbstractView
  <2>5. AbstractView(x).of = c
    BY <2>2
  <2>6. View!Read(x)
    BY <2>1, <2>3, <2>4, <2>5 DEF View!Read, View!Size
  <2> QED
    BY <2>6, AbstractAlive DEF View!Next
<1>4. ASSUME NEW x \in Alive, Advancing(x)
      PROVE  View!Next
  <2>1. PICK c \in Containers : \E n \in 0 .. Len(Elements[c]) - 1 :
          views[x] = Pos(c, n) /\ To(x, Pos(c, n + 1), Elements[c][n + 1])
    BY <1>4 DEF Advancing
  <2>2. PICK n \in 0 .. Len(Elements[c]) - 1 :
          views[x] = Pos(c, n) /\ To(x, Pos(c, n + 1), Elements[c][n + 1])
    BY <2>1
  <2>3. x \in Names /\ n \in Nat /\ n + 1 \in Nat /\ n < Len(Elements[c])
    BY LenNat DEF Alive
  <2>4. AbstractView(x) = [of |-> c, at |-> n]
    BY <2>2, <2>3, AbstractPos DEF AbstractView
  <2>5. View!Set(x, [of |-> c, at |-> n + 1], Elements[c][n + 1])
    <3> DEFINE abstract == [of |-> c, at |-> n + 1]
    <3>1. abstract = IF Pos(c, n + 1) = Null THEN Null
                     ELSE [of |-> Pos(c, n + 1).of,
                           at |-> Pos(c, n + 1).distance]
      BY <2>3, AbstractPos
    <3> HIDE DEF abstract
    <3>2. View!Set(x, abstract, Elements[c][n + 1])
      BY <2>2, <2>3, <3>1, ToSets
    <3> QED
      BY <3>2 DEF abstract
  <2>6. View!Advance(x)
    BY <2>3, <2>4, <2>5 DEF View!Advance, View!At, View!Size
  <2> QED
    BY <2>6, AbstractAlive DEF View!Next
<1>5. ASSUME NEW x \in Alive, Finishing(x)
      PROVE  View!Next
  <2>1. PICK c \in Containers :
          /\ views[x] = Pos(c, Len(Elements[c]))
          /\ To(x, IF x \in Loops THEN Null ELSE views[x], Stop)
    BY <1>5 DEF Finishing
  <2>2. x \in Names /\ Len(Elements[c]) \in Nat
    BY LenNat DEF Alive
  <2>3. AbstractView(x) = [of |-> c, at |-> Len(Elements[c])]
    BY <2>1, <2>2, AbstractPos DEF AbstractView
  <2>4. View!Set(x, IF x \in Loops THEN Null ELSE AbstractView(x), Stop)
    BY <2>1, <2>2, ToSets DEF AbstractView
  <2>5. View!Finish(x)
    BY <2>2, <2>3, <2>4 DEF View!Finish, View!Size
  <2> QED
    BY <2>5, AbstractAlive DEF View!Next
<1> QED
  BY <1>0, <1>1, <1>2, <1>3, <1>4, <1>5 DEF Shape

(* The iterators behave as indices into containers that never change: the  *)
(* copies, the swaps and the movements of operator[] are never seen.       *)
THEOREM Refinement ==
  ASSUME ~AssignAcross
  PROVE  Safety => ImplementsView
<1>1. Init => View!Init
  BY DEF Init, View!Init, AbstractView, Names
<1>2. ASSUME Inv, [Next]_vars
      PROVE  [View!Next]_(View!vars)
  <2>1. CASE UNCHANGED vars
    BY <2>1 DEF vars, View!vars, AbstractView
  <2> QED
    BY <1>2, <2>1, StepImplements
<1>3. Safety => []Inv
  BY InvAlways
<1> QED
  BY <1>1, <1>2, <1>3, PTL DEF Safety, ImplementsView, View!Spec
=============================================================================

-------------------------- MODULE PyBindingsProofs --------------------------
(***************************************************************************)
(* Proofs about PyBindings, for any number of objects, variables and trees *)
(* and a careful program. The invariant is Good: what is known of the      *)
(* objects before and after those that nothing keeps go away.              *)
(***************************************************************************)
EXTENDS PyBindings, TLAPS

Live(o) == {i \in Ids : o[i] # Null}

\* Objects o and variables h, trees a that are alive and l the program refers
\* to loosely. What an object keeps is in its tree; a tree has one owner; from
\* any object of a tree that is not loose, keeping leads to that owner.
Good(o, h, a, l) ==
    /\ o \in [Ids -> Things \cup {Null}]
    /\ h \in [Vars -> Live(o) \cup {Null}]
    /\ a \subseteq Trees /\ l \subseteq a
    /\ \A i \in Live(o) : o[i].keeps \in Live(o) \cup {Null}
    /\ \A i \in Live(o) : o[i].keeps # Null => o[o[i].keeps].tree = o[i].tree
    /\ \A i, j \in Live(o) : o[i].owner /\ o[j].owner /\ o[i].tree = o[j].tree => i = j
    /\ \A i \in Live(o) : o[i].tree \notin l =>
         \A S \in SUBSET Ids : i \in S /\ ClosedUnder(o, S) =>
           \E j \in S \cap Live(o) : o[j].owner /\ o[j].tree = o[i].tree
    /\ \A i \in Live(o) : o[i].tree \in a
    /\ \A t \in a : \E i \in Live(o) : o[i].owner /\ o[i].tree = t

IInv == Good(object, holds, alive, loose)

\* What Become makes of objects o when those in K are kept: p, without the
\* trees F.
Remains(o, p, K, F) ==
    /\ p \in [Ids -> Things \cup {Null}]
    /\ \A i \in Ids : p[i] = IF i \in K THEN o[i] ELSE Null
    /\ \A t : t \in F <=>
         \E j \in Ids \ K : o[j] # Null /\ o[j].owner /\ o[j].tree = t

\* What is kept: what variables hold, what that keeps, and nothing else.
LEMMA Keeping ==
  ASSUME NEW o, NEW h, NEW a, NEW l, Good(o, h, a, l)
  PROVE  /\ Kept(o, h) \subseteq Live(o)
         /\ \A x \in Vars : h[x] # Null => h[x] \in Kept(o, h)
         /\ \A i \in Kept(o, h) : o[i].keeps # Null => o[i].keeps \in Kept(o, h)
         /\ \A S \in SUBSET Ids :
              (\A x \in Vars : h[x] # Null => h[x] \in S) /\ ClosedUnder(o, S)
                => Kept(o, h) \subseteq S
<1>1. Kept(o, h) \subseteq Live(o)
  BY DEF Kept, Live
<1>2. ASSUME NEW x \in Vars, h[x] # Null PROVE h[x] \in Kept(o, h)
  <2>1. h[x] \in Ids /\ o[h[x]] # Null
    BY <1>2 DEF Good, Live
  <2> QED
    BY <1>2, <2>1 DEF Kept
<1>3. ASSUME NEW i \in Kept(o, h), o[i].keeps # Null PROVE o[i].keeps \in Kept(o, h)
  <2>1. o[i].keeps \in Ids /\ o[o[i].keeps] # Null /\ o[i] # Null
    BY <1>1, <1>3 DEF Good, Live
  <2>2. ASSUME NEW S \in SUBSET Ids,
               {h[x] : x \in Vars} \ {Null} \subseteq S, ClosedUnder(o, S)
        PROVE  o[i].keeps \in S
    <3>1. i \in S
      BY <2>2 DEF Kept
    <3> QED
      BY <1>3, <2>1, <2>2, <3>1 DEF ClosedUnder
  <2> QED
    BY <2>1, <2>2 DEF Kept
<1>4. ASSUME NEW S \in SUBSET Ids, \A x \in Vars : h[x] # Null => h[x] \in S,
             ClosedUnder(o, S)
      PROVE  Kept(o, h) \subseteq S
  <2>1. {h[x] : x \in Vars} \ {Null} \subseteq S
    BY <1>4
  <2> QED
    BY <1>4, <2>1 DEF Kept
<1> QED
  BY <1>1, <1>2, <1>3, <1>4

\* The objects that nothing keeps, and the trees they own, may go.
LEMMA Collecting ==
  ASSUME NEW o, NEW h, NEW a, NEW l, Good(o, h, a, l), Discipline(o, h, l),
         NEW K, K = Kept(o, h), NEW p, NEW F, Remains(o, p, K, F)
  PROVE  Good(p, h, a \ F, l \ F)
<1>0. /\ p \in [Ids -> Things \cup {Null}]
      /\ \A i \in Ids : p[i] = IF i \in K THEN o[i] ELSE Null
      /\ \A t : t \in F <=>
           \E j \in Ids \ K : o[j] # Null /\ o[j].owner /\ o[j].tree = t
  BY DEF Remains
<1>1. /\ K \subseteq Live(o)
      /\ \A x \in Vars : h[x] # Null => h[x] \in K
      /\ \A i \in K : o[i].keeps # Null => o[i].keeps \in K
      /\ \A S \in SUBSET Ids :
           (\A x \in Vars : h[x] # Null => h[x] \in S) /\ ClosedUnder(o, S)
             => K \subseteq S
  BY Keeping
<1>2. Live(p) = K /\ \A i \in K : p[i] = o[i]
  BY <1>0, <1>1 DEF Live
<1>3. K \in SUBSET Ids /\ ClosedUnder(o, K)
  BY <1>1 DEF Live, ClosedUnder
<1>4. ASSUME NEW i \in K PROVE o[i].tree \in a \ F
  <2>1. o[i].tree \in a /\ i \in Live(o)
    BY <1>1, <1>4 DEF Good
  <2> SUFFICES ASSUME o[i].tree \in F PROVE FALSE
    BY <2>1
  <2>2. PICK j \in Ids \ K : o[j] # Null /\ o[j].owner /\ o[j].tree = o[i].tree
    BY <1>0
  <2>3. j \in Live(o)
    BY <2>2 DEF Live
  <2>4. \A q \in K : ~(o[q].owner /\ o[q].tree = o[i].tree)
    BY <1>1, <2>2, <2>3 DEF Good
  <2>5. CASE o[i].tree \notin l
    <3>1. \E q \in K \cap Live(o) : o[q].owner /\ o[q].tree = o[i].tree
      BY <1>3, <1>4, <2>1, <2>5 DEF Good
    <3> QED
      BY <2>4, <3>1
  <2>6. CASE o[i].tree \in l
    <3>1. \A x \in Vars : h[x] # Null => o[h[x]].tree # o[i].tree
      BY <1>1, <2>4, <2>6 DEF Discipline
    <3> DEFINE S == {q \in Ids : q \in Live(o) => o[q].tree # o[i].tree}
    <3>2. ClosedUnder(o, S)
      <4> SUFFICES ASSUME NEW q \in S, o[q] # Null, o[q].keeps # Null
                   PROVE  o[q].keeps \in S
        BY DEF ClosedUnder
      <4>1. q \in Live(o)
        BY DEF Live
      <4>2. o[q].keeps \in Live(o) /\ o[o[q].keeps].tree = o[q].tree
        BY <4>1 DEF Good
      <4>3. o[q].tree # o[i].tree /\ o[q].keeps \in Ids
        BY <4>1, <4>2 DEF Live
      <4> QED
        BY <4>2, <4>3
    <3>3. \A x \in Vars : h[x] # Null => h[x] \in S
      BY <3>1, <1>1 DEF Live
    <3>4. S \in SUBSET Ids
      OBVIOUS
    <3> HIDE DEF S
    <3>5. i \in S
      BY <1>1, <1>4, <3>2, <3>3, <3>4
    <3> QED
      BY <2>1, <3>5 DEF S
  <2> QED
    BY <2>5, <2>6
<1>5. p \in [Ids -> Things \cup {Null}] /\ h \in [Vars -> Live(p) \cup {Null}]
  <2>1. o \in [Ids -> Things \cup {Null}] /\ h \in [Vars -> Live(o) \cup {Null}]
    BY DEF Good
  <2> QED
    BY <1>0, <1>1, <1>2, <2>1
<1>6. a \ F \subseteq Trees /\ l \ F \subseteq a \ F
  BY DEF Good
<1>7. \A i \in Live(p) : p[i].keeps \in Live(p) \cup {Null}
  BY <1>1, <1>2 DEF Good
<1>8. \A i \in Live(p) : p[i].keeps # Null => p[p[i].keeps].tree = p[i].tree
  BY <1>1, <1>2 DEF Good
<1>9. \A i, j \in Live(p) : p[i].owner /\ p[j].owner /\ p[i].tree = p[j].tree => i = j
  BY <1>1, <1>2 DEF Good
<1>10. ASSUME NEW i \in Live(p), p[i].tree \notin l \ F,
              NEW S \in SUBSET Ids, i \in S, ClosedUnder(p, S)
       PROVE  \E j \in S \cap Live(p) : p[j].owner /\ p[j].tree = p[i].tree
  <2>1. i \in K /\ i \in Live(o) /\ o[i].tree \notin l
    BY <1>1, <1>2, <1>4, <1>10
  <2>2. ClosedUnder(o, S \cap K)
    <3> SUFFICES ASSUME NEW q \in S \cap K, o[q] # Null, o[q].keeps # Null
                 PROVE  o[q].keeps \in S \cap K
      BY DEF ClosedUnder
    <3>1. p[q] # Null /\ p[q].keeps # Null /\ p[q].keeps = o[q].keeps
      BY <1>2
    <3> QED
      BY <1>1, <1>10, <3>1 DEF ClosedUnder
  <2>3. PICK j \in (S \cap K) \cap Live(o) : o[j].owner /\ o[j].tree = o[i].tree
    BY <1>3, <1>10, <2>1, <2>2 DEF Good
  <2> QED
    BY <1>2, <2>1, <2>3
<1>11. \A i \in Live(p) : p[i].tree \in a \ F
  BY <1>2, <1>4
<1>12. ASSUME NEW t \in a \ F
       PROVE  \E i \in Live(p) : p[i].owner /\ p[i].tree = t
  <2>1. PICK i \in Live(o) : o[i].owner /\ o[i].tree = t
    BY DEF Good
  <2>2. i \in K
    BY <1>0, <2>1 DEF Live
  <2> QED
    BY <1>2, <2>1, <2>2
<1> QED
  BY <1>5, <1>6, <1>7, <1>8, <1>9, <1>10, <1>11, <1>12 DEF Good

\* What Become has to be given.
LEMMA Becoming ==
  ASSUME NEW o, NEW h, NEW trees, NEW referred, Careful,
         Good(o, h, trees, loose \cup referred), Become(o, h, trees, referred)
  PROVE  IInv'
<1> DEFINE K == Kept(o, h)
           F == {o[i].tree : i \in {j \in Ids \ K : o[j] # Null /\ o[j].owner}}
<1>1. /\ Discipline(o, h, loose \cup referred)
      /\ object' = [i \in Ids |-> IF i \in K THEN o[i] ELSE Null]
      /\ holds' = h /\ alive' = trees \ F /\ loose' = (loose \cup referred) \ F
  BY DEF Become
<1>2. Remains(o, object', K, F)
  BY <1>1 DEF Remains, Good
<1>3. K = Kept(o, h)
  OBVIOUS
<1> HIDE DEF K, F
<1>4. Good(object', h, trees \ F, (loose \cup referred) \ F)
  BY <1>1, <1>2, <1>3, Collecting
<1>5. Good(object', holds', alive', loose')
  BY <1>1, <1>4
<1> QED
  BY <1>5 DEF IInv, Good, Live, ClosedUnder

\* A new object leaves the others and what leads from them as it was.
LEMMA Others ==
  ASSUME NEW o, NEW h, NEW a, NEW l, Good(o, h, a, l),
         NEW f \in Ids, o[f] = Null, NEW new \in Things,
         NEW p, p = [o EXCEPT ![f] = new]
  PROVE  /\ p \in [Ids -> Things \cup {Null}] /\ p[f] = new
         /\ Live(p) = Live(o) \cup {f}
         /\ \A i \in Live(o) : i # f /\ i \in Ids /\ p[i] = o[i]
         /\ \A S \in SUBSET Ids : ClosedUnder(p, S) => ClosedUnder(o, S \ {f})
<1>1. o \in [Ids -> Things \cup {Null}]
  BY DEF Good
<1>2. p \in [Ids -> Things \cup {Null}] /\ p[f] = new /\ new # Null
  BY <1>1, NullAssumption
<1>3. \A i \in Ids : i # f => p[i] = o[i]
  BY <1>1
<1>4. Live(p) = Live(o) \cup {f} /\ \A i \in Live(o) : i # f /\ i \in Ids /\ p[i] = o[i]
  BY <1>2, <1>3 DEF Live
<1>5. ASSUME NEW S \in SUBSET Ids, ClosedUnder(p, S)
      PROVE  ClosedUnder(o, S \ {f})
  <2> SUFFICES ASSUME NEW q \in S \ {f}, o[q] # Null, o[q].keeps # Null
               PROVE  o[q].keeps \in S \ {f}
    BY DEF ClosedUnder
  <2>1. q \in Live(o) /\ p[q] = o[q]
    BY <1>3 DEF Live
  <2>2. o[q].keeps \in Live(o) /\ f \notin Live(o)
    BY <2>1 DEF Good, Live
  <2>3. o[q].keeps \in S
    BY <1>5, <2>1 DEF ClosedUnder
  <2> QED
    BY <2>2, <2>3
<1> QED
  BY <1>2, <1>4, <1>5

\* An owner of a tree that no object refers to may come.
LEMMA AddingOwner ==
  ASSUME NEW o, NEW h, NEW a, NEW l, Good(o, h, a, l),
         NEW f \in Ids, o[f] = Null, NEW x \in Vars,
         NEW tree \in Trees, tree \notin a, NEW is \in Labels
  PROVE  Good([o EXCEPT ![f] = Owner(tree, is)], [h EXCEPT ![x] = f], a \cup {tree}, l)
<1> DEFINE new == Owner(tree, is)
           p == [o EXCEPT ![f] = new]
           g == [h EXCEPT ![x] = f]
<1>1. new \in Things /\ new.owner /\ new.tree = tree /\ new.keeps = Null
  BY DEF Owner, Things
<1> HIDE DEF new
<1>2. /\ p \in [Ids -> Things \cup {Null}] /\ p[f] = new
      /\ Live(p) = Live(o) \cup {f}
      /\ \A i \in Live(o) : i # f /\ i \in Ids /\ p[i] = o[i]
      /\ \A S \in SUBSET Ids : ClosedUnder(p, S) => ClosedUnder(o, S \ {f})
  BY <1>1, Others
<1>3. g \in [Vars -> Live(p) \cup {Null}]
  BY <1>2 DEF Good
<1> HIDE DEF p, g
<1>4. a \cup {tree} \subseteq Trees /\ l \subseteq a \cup {tree}
  BY DEF Good
<1>5. \A i \in Live(p) : p[i].keeps \in Live(p) \cup {Null}
  BY <1>1, <1>2 DEF Good
<1>6. \A i \in Live(p) : p[i].keeps # Null => p[p[i].keeps].tree = p[i].tree
  BY <1>1, <1>2 DEF Good
<1>7. \A i \in Live(o) : o[i].tree \in a
  BY DEF Good
<1>8. \A i, j \in Live(p) : p[i].owner /\ p[j].owner /\ p[i].tree = p[j].tree => i = j
  BY <1>1, <1>2, <1>7 DEF Good
<1>9. ASSUME NEW i \in Live(p), p[i].tree \notin l,
             NEW S \in SUBSET Ids, i \in S, ClosedUnder(p, S)
      PROVE  \E j \in S \cap Live(p) : p[j].owner /\ p[j].tree = p[i].tree
  <2>1. CASE i = f
    BY <1>1, <1>2, <1>9, <2>1
  <2>2. CASE i \in Live(o)
    <3>1. S \ {f} \in SUBSET Ids /\ i \in S \ {f} /\ ClosedUnder(o, S \ {f})
      BY <1>2, <1>9, <2>2
    <3>2. PICK j \in (S \ {f}) \cap Live(o) : o[j].owner /\ o[j].tree = o[i].tree
      BY <1>2, <1>9, <2>2, <3>1 DEF Good
    <3> QED
      BY <1>2, <2>2, <3>2
  <2> QED
    BY <1>2, <2>1, <2>2
<1>10. \A i \in Live(p) : p[i].tree \in a \cup {tree}
  BY <1>1, <1>2, <1>7
<1>11. \A t \in a \cup {tree} : \E i \in Live(p) : p[i].owner /\ p[i].tree = t
  BY <1>1, <1>2 DEF Good
<1>12. Good(p, g, a \cup {tree}, l)
  BY <1>2, <1>3, <1>4, <1>5, <1>6, <1>8, <1>9, <1>10, <1>11 DEF Good
<1> QED
  BY <1>12 DEF p, g, new

\* A reference may come that keeps an object of its tree, or that keeps nothing
\* in a tree that is loose from then on.
LEMMA AddingReference ==
  ASSUME NEW o, NEW h, NEW a, NEW l, Good(o, h, a, l),
         NEW f \in Ids, o[f] = Null, NEW x \in Vars,
         NEW tree \in a, NEW is \in Labels, NEW r \in SUBSET a,
         NEW keeps \in Live(o) \cup {Null},
         keeps # Null => o[keeps].tree = tree,
         keeps = Null => tree \in r
  PROVE  Good([o EXCEPT ![f] = Reference(tree, is, keeps)], [h EXCEPT ![x] = f],
              a, l \cup r)
<1> DEFINE new == Reference(tree, is, keeps)
           p == [o EXCEPT ![f] = new]
           g == [h EXCEPT ![x] = f]
<1>1. new \in Things /\ ~new.owner /\ new.tree = tree /\ new.keeps = keeps
  <2>1. tree \in Trees /\ keeps \in Ids \cup {Null}
    BY DEF Good, Live
  <2> QED
    BY <2>1 DEF Reference, Things
<1> HIDE DEF new
<1>2. /\ p \in [Ids -> Things \cup {Null}] /\ p[f] = new
      /\ Live(p) = Live(o) \cup {f}
      /\ \A i \in Live(o) : i # f /\ i \in Ids /\ p[i] = o[i]
      /\ \A S \in SUBSET Ids : ClosedUnder(p, S) => ClosedUnder(o, S \ {f})
  BY <1>1, Others
<1>3. g \in [Vars -> Live(p) \cup {Null}]
  BY <1>2 DEF Good
<1> HIDE DEF p, g
<1>4. a \subseteq Trees /\ l \cup r \subseteq a
  BY DEF Good
<1>5. \A i \in Live(p) : p[i].keeps \in Live(p) \cup {Null}
  BY <1>1, <1>2 DEF Good
<1>6. \A i \in Live(p) : p[i].keeps # Null => p[p[i].keeps].tree = p[i].tree
  <2>1. ASSUME NEW i \in Live(o), o[i].keeps # Null
        PROVE  p[p[i].keeps].tree = p[i].tree
    <3>1. o[i].keeps \in Live(o) /\ o[o[i].keeps].tree = o[i].tree
      BY <2>1 DEF Good
    <3> QED
      BY <1>2, <3>1
  <2>2. keeps # Null => keeps \in Live(o) /\ p[keeps].tree = tree
    BY <1>2
  <2> QED
    BY <1>1, <1>2, <2>1, <2>2
<1>7. \A i, j \in Live(p) : p[i].owner /\ p[j].owner /\ p[i].tree = p[j].tree => i = j
  BY <1>1, <1>2 DEF Good
<1>8. ASSUME NEW i \in Live(o), o[i].tree \notin l,
             NEW S \in SUBSET Ids, i \in S, ClosedUnder(p, S)
      PROVE  \E j \in S \cap Live(p) : p[j].owner /\ p[j].tree = o[i].tree
  <2>1. S \ {f} \in SUBSET Ids /\ i \in S \ {f} /\ ClosedUnder(o, S \ {f})
    BY <1>2, <1>8
  <2>2. PICK j \in (S \ {f}) \cap Live(o) : o[j].owner /\ o[j].tree = o[i].tree
    BY <1>8, <2>1 DEF Good
  <2> QED
    BY <1>2, <2>2
<1>9. ASSUME NEW i \in Live(p), p[i].tree \notin l \cup r,
             NEW S \in SUBSET Ids, i \in S, ClosedUnder(p, S)
      PROVE  \E j \in S \cap Live(p) : p[j].owner /\ p[j].tree = p[i].tree
  <2>1. CASE i = f
    <3>1. keeps \in Live(o) /\ o[keeps].tree = tree /\ tree \notin l
      BY <1>1, <1>2, <1>9, <2>1
    <3>2. p[f] # Null /\ p[f].keeps = keeps /\ keeps # Null
      BY <1>1, <1>2, <3>1, NullAssumption DEF Live, Good
    <3>3. keeps \in S
      BY <1>9, <2>1, <3>2 DEF ClosedUnder
    <3>4. \E j \in S \cap Live(p) : p[j].owner /\ p[j].tree = o[keeps].tree
      BY <1>8, <1>9, <3>1, <3>3
    <3> QED
      BY <1>1, <1>2, <2>1, <3>1, <3>4
  <2>2. CASE i \in Live(o)
    <3>1. o[i].tree \notin l
      BY <1>2, <1>9, <2>2
    <3>2. \E j \in S \cap Live(p) : p[j].owner /\ p[j].tree = o[i].tree
      BY <1>8, <1>9, <2>2, <3>1
    <3> QED
      BY <1>2, <2>2, <3>2
  <2> QED
    BY <1>2, <2>1, <2>2
<1>10. \A i \in Live(p) : p[i].tree \in a
  BY <1>1, <1>2 DEF Good
<1>11. \A t \in a : \E i \in Live(p) : p[i].owner /\ p[i].tree = t
  BY <1>2 DEF Good
<1>12. Good(p, g, a, l \cup r)
  BY <1>2, <1>3, <1>4, <1>5, <1>6, <1>7, <1>9, <1>10, <1>11 DEF Good
<1> QED
  BY <1>12 DEF p, g, new

LEMMA Starting == Init => IInv
<1> SUFFICES ASSUME Init PROVE IInv
  OBVIOUS
<1>1. Live(object) = {}
  BY DEF Init, Live
<1> QED
  BY <1>1 DEF Init, IInv, Good

\* Another variable may hold an object that is there, or none; and a tree may
\* be referred to loosely.
LEMMA Holding ==
  ASSUME NEW o, NEW h, NEW a, NEW l, Good(o, h, a, l),
         NEW x \in Vars, NEW i \in Live(o) \cup {Null}, NEW r \in SUBSET a
  PROVE  Good(o, [h EXCEPT ![x] = i], a, l \cup r)
BY DEF Good

LEMMA Fresh ==
  ASSUME IInv, Objects # Ids
  PROVE  FreshId \in Ids /\ object[FreshId] = Null
BY DEF Objects, FreshId

LEMMA FreshTree ==
  ASSUME NEW tree \in FreshTrees
  PROVE  tree \in Trees /\ tree \notin alive
BY DEF FreshTrees

LEMMA BindingOwner ==
  ASSUME IInv, Careful, NEW x \in Vars, NEW tree \in FreshTrees,
         NEW is \in Labels, Bind(x, Owner(tree, is), {tree}, {})
  PROVE  IInv'
<1> DEFINE o == [object EXCEPT ![FreshId] = Owner(tree, is)]
           h == [holds EXCEPT ![x] = FreshId]
<1>1. Objects # Ids /\ Become(o, h, alive \cup {tree}, {})
  BY DEF Bind
<1>2. Good(o, h, alive \cup {tree}, loose)
  BY <1>1, Fresh, FreshTree, AddingOwner DEF IInv
<1> HIDE DEF o, h
<1>3. loose \cup {} = loose
  OBVIOUS
<1>4. Good(o, h, alive \cup {tree}, loose \cup {})
  BY <1>2, <1>3
<1> QED
  BY <1>1, <1>4, Becoming

\* An accessor that gives no tree away returns an object of a known type, and
\* one that keeps nothing refers to the tree loosely.
LEMMA Policies ==
  ASSUME NEW accessor \in Accessors, accessor.policy # "own"
  PROVE  /\ accessor.to \in Labels
         /\ accessor.policy \in {"refer", "internal", "keep"}
BY DEF Labels, Accessors, MetadataAccessors, TypesAccessors, IteratorAccessors, A

LEMMA Getting ==
  ASSUME IInv, Careful, NEW x \in Vars, NEW y \in Vars, NEW accessor \in Accessors,
         Get(x, y, accessor)
  PROVE  IInv'
<1> DEFINE tree == object[holds[x]].tree
           keeps == KeepsNew(accessor, holds[x])
           referred == IF accessor.policy = "refer" THEN {tree} ELSE {}
           o == [object EXCEPT ![FreshId] = Reference(tree, accessor.to, keeps)]
           g == [holds EXCEPT ![y] = FreshId]
<1>1. /\ holds[x] \in Live(object) /\ holds[x] # Null /\ tree \in alive
      /\ accessor.policy # "own"
  <2>1. holds[x] # Null /\ tree \in alive /\ accessor.policy # "own"
    BY DEF Get, CanCall
  <2> QED
    BY <2>1 DEF IInv, Good
<1>2. accessor.to \in Labels /\ accessor.policy \in {"refer", "internal", "keep"}
  BY <1>1, Policies
<1>3. referred \in SUBSET alive
  BY <1>1
<1>4. CASE Bind(y, Reference(tree, accessor.to, keeps), {}, referred)
  <2>1. Objects # Ids /\ Become(o, g, alive \cup {}, referred)
    BY <1>4 DEF Bind
  <2>2. alive \cup {} = alive
    OBVIOUS
  <2>3. keeps \in Live(object) \cup {Null}
    BY <1>1 DEF KeepsNew
  <2>4. keeps # Null => object[keeps].tree = tree
    BY <1>1 DEF KeepsNew
  <2>5. keeps = Null => tree \in referred
    BY <1>1, <1>2 DEF KeepsNew
  <2> HIDE DEF tree, keeps, referred
  <2>6. Good(o, g, alive, loose \cup referred)
    BY <1>1, <1>2, <1>3, <2>1, <2>3, <2>4, <2>5, Fresh, AddingReference DEF IInv
  <2> HIDE DEF o, g
  <2>7. Become(o, g, alive, referred)
    BY <2>1, <2>2
  <2> QED
    BY <2>6, <2>7, Becoming
<1>5. ASSUME NEW i \in Known(tree, accessor.to),
             Become(object, [holds EXCEPT ![y] = i], alive, referred)
      PROVE  IInv'
  <2>1. i \in Live(object)
    BY DEF Known, Objects, Live
  <2> HIDE DEF referred
  <2>2. Good(object, [holds EXCEPT ![y] = i], alive, loose \cup referred)
    BY <1>3, <2>1, Holding DEF IInv
  <2> QED
    BY <1>5, <2>2, Becoming
<1> QED
  BY <1>4, <1>5 DEF Get

LEMMA Owning ==
  ASSUME IInv, Careful, NEW x \in Vars, NEW y \in Vars, NEW accessor \in Accessors,
         GetOwned(x, y, accessor)
  PROVE  IInv'
<1>1. accessor.to \in Labels
  BY DEF Labels
<1>2. PICK tree \in FreshTrees : Bind(y, Owner(tree, accessor.to), {tree}, {})
  BY DEF GetOwned
<1> QED
  BY <1>1, <1>2, BindingOwner

LEMMA Creating ==
  ASSUME IInv, Careful, NEW x \in Vars, Create(x)
  PROVE  IInv'
<1>1. PICK root \in Roots, tree \in FreshTrees : Bind(x, Owner(tree, root), {tree}, {})
  BY DEF Create
<1>2. root \in Labels
  BY RootsAssumption DEF Labels
<1> QED
  BY <1>1, <1>2, BindingOwner

LEMMA Dropping ==
  ASSUME IInv, Careful, NEW x \in Vars, Drop(x)
  PROVE  IInv'
<1>1. Good(object, [holds EXCEPT ![x] = Null], alive, loose \cup {})
  BY Holding DEF IInv
<1>2. Become(object, [holds EXCEPT ![x] = Null], alive, {})
  BY DEF Drop
<1> QED
  BY <1>1, <1>2, Becoming

\* The invariant of a careful program: an object is gone only when keeping from
\* no variable leads to it, and the owner of a tree is among what every object
\* of the tree leads to, or a variable holds it.
THEOREM Invariance == ASSUME Careful PROVE Spec => []IInv
<1>1. Init => IInv
  BY Starting
<1>2. IInv /\ [Next]_vars => IInv'
  <2> SUFFICES ASSUME IInv, [Next]_vars PROVE IInv'
    OBVIOUS
  <2>1. CASE Next
    BY <2>1, Creating, Dropping, Getting, Owning DEF Next
  <2>2. CASE UNCHANGED vars
    BY <2>2 DEF vars, IInv, Good, Live, ClosedUnder
  <2> QED
    BY <2>1, <2>2
<1> QED
  BY <1>1, <1>2, PTL DEF Spec

\* With keep_alive and reference_internal as types_encoding.cpp:168-210,
\* iterator.hpp:30-48 and init.cpp:41-187 have them, a program that keeps the
\* owners they do not keep has no object that refers to freed memory, however
\* many objects, variables and trees there are.
THEOREM NothingDangles == ASSUME Careful PROVE Spec => []NoDangling
<1>1. IInv => NoDangling
  BY DEF IInv, Good, Live, Objects, NoDangling
<1> QED
  BY <1>1, Invariance, PTL

\* Every tree that parse(), decode_type() and IVar::type (init.cpp:41) give to
\* Python has an owner there until it is freed.
THEOREM NothingLeaks == ASSUME Careful PROVE Spec => []NoLeak
<1>1. IInv => NoLeak
  BY DEF IInv, Good, Live, Objects, NoLeak
<1> QED
  BY <1>1, Invariance, PTL

\* The values of the variables; what variables hold and objects keep exists.
THEOREM Types == ASSUME Careful PROVE Spec => []TypeOK
<1>1. IInv => TypeOK
  BY DEF IInv, Good, Live, Objects, TypeOK
<1> QED
  BY <1>1, Invariance, PTL
=============================================================================

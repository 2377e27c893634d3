------------------------- MODULE AstGeneratorProofs -------------------------
(***************************************************************************)
(* Proofs about AstGenerator, for any protocols and classes with any       *)
(* members and types.  The invariant is about three things: the            *)
(* declarations of the context (Good), where generate() is (Control), and  *)
(* what was printed (Past).                                                *)
(***************************************************************************)
EXTENDS AstGenerator, FiniteSetTheorems, TLAPS

(***************************************************************************)
(* Sequences over whatever there is.                                       *)
(***************************************************************************)
LEMMA Sequence ==
  ASSUME NEW s, IsSeq(s)
  PROVE  Len(s) \in Nat /\ DOMAIN s = 1..Len(s)
BY DEF IsSeq

LEMMA Widening ==
  ASSUME NEW s, NEW T, s \in Seq(T)
  PROVE  IsSeq(s)
<1> DEFINE R == {s[k] : k \in DOMAIN s}
<1>1. Len(s) \in Nat /\ s \in [1..Len(s) -> T]
  OBVIOUS
<1>2. s \in [1..Len(s) -> R]
  BY <1>1
<1>3. s \in Seq(R)
  BY <1>1, <1>2
<1> QED
  BY <1>3 DEF IsSeq

LEMMA Single ==
  ASSUME NEW x
  PROVE  IsSeq(<<x>>)
<1>1. <<x>> \in Seq({x})
  OBVIOUS
<1> QED
  BY <1>1, Widening

LEMMA Appending ==
  ASSUME NEW s, IsSeq(s), NEW x
  PROVE  /\ IsSeq(Append(s, x)) /\ Len(Append(s, x)) = Len(s) + 1
         /\ Append(s, x)[Len(s) + 1] = x
         /\ \A k \in 1..Len(s) : Append(s, x)[k] = s[k]
<1> DEFINE R == {s[k] : k \in DOMAIN s} \cup {x}
<1>1. s \in Seq(R)
  BY DEF IsSeq
<1> HIDE DEF R
<1>2. x \in R
  BY DEF R
<1>3. Append(s, x) \in Seq(R)
  BY <1>1, <1>2
<1>4. IsSeq(Append(s, x))
  BY <1>3, Widening
<1>5. /\ Len(Append(s, x)) = Len(s) + 1 /\ Append(s, x)[Len(s) + 1] = x
      /\ \A k \in 1..Len(s) : Append(s, x)[k] = s[k]
  BY <1>1, <1>2
<1> QED
  BY <1>4, <1>5

LEMMA Joining ==
  ASSUME NEW s, IsSeq(s), NEW t, IsSeq(t)
  PROVE  /\ IsSeq(s \o t) /\ Len(s \o t) = Len(s) + Len(t)
         /\ \A k \in 1..Len(s) : (s \o t)[k] = s[k]
         /\ \A k \in 1..Len(t) : (s \o t)[Len(s) + k] = t[k]
<1> DEFINE R == {s[k] : k \in DOMAIN s} \cup {t[k] : k \in DOMAIN t}
<1>1. s \in Seq(R) /\ t \in Seq(R)
  BY DEF IsSeq
<1> HIDE DEF R
<1>2. s \o t \in Seq(R)
  BY <1>1
<1>3. IsSeq(s \o t)
  BY <1>2, Widening
<1>4. /\ Len(s \o t) = Len(s) + Len(t)
      /\ \A k \in 1..Len(s) : (s \o t)[k] = s[k]
      /\ \A k \in 1..Len(t) : (s \o t)[Len(s) + k] = t[k]
  BY <1>1
<1> QED
  BY <1>3, <1>4

(***************************************************************************)
(* The declarations.                                                       *)
(***************************************************************************)
HasFields(d) ==
  d = [kind |-> d.kind, name |-> d.name, parent |-> d.parent, members |-> d.members,
       protocols |-> d.protocols, type |-> d.type, params |-> d.params,
       instance |-> d.instance, optional |-> d.optional]
IsDecl(d) ==
  /\ HasFields(d)
  /\ IsSeq(d.members) /\ IsSeq(d.params)

\* What a declaration refers to by index, in which order it was created.
Ordered(ds, d) ==
  /\ ds[d].parent < d
  /\ \A k \in DOMAIN ds[d].members : ds[d].members[k] > d
  /\ \A k \in DOMAIN ds[d].protocols : ds[d].protocols[k] > d

\* u is the last unit; nothing before it refers to anything from it on, nothing
\* from it on to anything before it, and so it was for the units before.
Good(ds, u) ==
  /\ IsSeq(ds) /\ u \in 0..Len(ds)
  /\ \A d \in 1..Len(ds) : IsDecl(ds[d]) /\ Ordered(ds, d)
  /\ \A d \in 1..Len(ds) : ds[d].kind = "unit" => d <= u
  /\ \A d \in 1..Len(ds) : d < u => Refers(ds, d) \subseteq 0..(u - 1)
  /\ \A d \in 1..Len(ds) : d >= u => Refers(ds, d) \subseteq {0} \cup u..Len(ds)
  /\ \A d, r, w \in 1..Len(ds) :
       r \in Refers(ds, d) /\ ds[w].kind = "unit" => (w <= d <=> w <= r)

\* A type whose declaration, if it has one, is not before u.
Within(type, ds, u) == type.decl \in {0} \cup u..Len(ds)

LEMMA RefersSame ==
  ASSUME NEW ds, NEW e, NEW d, ds[d] = e[d]
  PROVE  Refers(ds, d) = Refers(e, d) /\ (Ordered(ds, d) => Ordered(e, d))
BY DEF Refers, Ordered

\* The declarations before v stay; v is the same unit or a new one.
LEMMA Growing ==
  ASSUME NEW ds, NEW u, Good(ds, u), NEW e, IsSeq(e), Len(e) >= Len(ds),
         NEW v, v = u \/ v = Len(ds) + 1, v <= Len(e),
         \A d \in 1..Len(ds) : d < v => e[d] = ds[d],
         \A d \in 1..Len(e) : d >= v =>
            /\ IsDecl(e[d]) /\ Ordered(e, d) /\ (e[d].kind = "unit" => d <= v)
            /\ Refers(e, d) \subseteq {0} \cup v..Len(e)
  PROVE  Good(e, v)
<1>1. Len(ds) \in Nat /\ Len(e) \in Nat /\ u \in 0..Len(ds) /\ v \in 0..Len(e)
  BY Sequence DEF Good
<1>2. ASSUME NEW d \in 1..Len(e), d < v
      PROVE  d \in 1..Len(ds) /\ e[d] = ds[d] /\ Refers(e, d) = Refers(ds, d)
             /\ Ordered(e, d)
  <2>1. d \in 1..Len(ds) /\ e[d] = ds[d] /\ Ordered(ds, d)
    BY <1>1, <1>2 DEF Good
  <2> QED
    BY <2>1, RefersSame
<1>3. \A d \in 1..Len(e) : IsDecl(e[d]) /\ Ordered(e, d)
  BY <1>1, <1>2 DEF Good
<1>4. \A d \in 1..Len(e) : e[d].kind = "unit" => d <= v
  BY <1>1
<1>5. ASSUME NEW d \in 1..Len(e), d < v PROVE Refers(e, d) \subseteq 0..(v - 1)
  <2>1. CASE d < u
    BY <1>1, <1>2, <1>5, <2>1 DEF Good
  <2>2. CASE d >= u
    BY <1>1, <1>2, <1>5, <2>2 DEF Good
  <2> QED
    BY <1>1, <2>1, <2>2
<1>6. ASSUME NEW d \in 1..Len(e), NEW r \in 1..Len(e), NEW w \in 1..Len(e),
             r \in Refers(e, d), e[w].kind = "unit"
      PROVE  w <= d <=> w <= r
  <2>1. w <= v
    BY <1>4, <1>6
  <2>2. CASE d >= v
    <3>1. r >= v
      BY <1>1, <1>6, <2>2
    <3> QED
      BY <1>1, <2>1, <2>2, <3>1
  <2>3. CASE d < v
    <3>1. r < v /\ r \in 1..Len(ds) /\ r \in Refers(ds, d)
      BY <1>1, <1>2, <1>5, <1>6, <2>3
    <3>2. CASE w = v
      BY <1>1, <2>3, <3>1, <3>2
    <3>3. CASE w < v
      BY <1>1, <1>2, <1>6, <2>3, <3>1, <3>3 DEF Good
    <3> QED
      BY <1>1, <2>1, <3>2, <3>3
  <2> QED
    BY <1>1, <2>2, <2>3
<1> QED
  BY <1>1, <1>3, <1>4, <1>5, <1>6 DEF Good

\* e has the declarations of ds, those before the unit u unchanged.
Extends(ds, e, u) ==
  /\ Good(e, u) /\ Len(e) >= Len(ds)
  /\ \A d \in 1..Len(ds) : d < u => e[d] = ds[d]

Put(ds, c, x) == [ds EXCEPT ![c] = x]

LEMMA Changing ==
  ASSUME NEW ds, NEW u, Good(ds, u), NEW c \in 1..Len(ds), c >= u,
         NEW x, IsDecl(x), x.kind = ds[c].kind,
         NEW e, e = Put(ds, c, x),
         Ordered(e, c), Refers(e, c) \subseteq {0} \cup u..Len(ds)
  PROVE  Extends(ds, e, u) /\ Len(e) = Len(ds)
<1>0. e = [ds EXCEPT ![c] = x]
  BY DEF Put
<1>1. IsSeq(ds) /\ Len(ds) \in Nat /\ DOMAIN ds = 1..Len(ds) /\ u \in 0..Len(ds)
  BY Sequence DEF Good
<1>2. IsSeq(e) /\ Len(e) = Len(ds)
  <2> DEFINE R == {ds[k] : k \in DOMAIN ds} \cup {x}
  <2>1. ds \in Seq(R) /\ x \in R
    BY <1>1 DEF IsSeq
  <2> HIDE DEF R
  <2>2. e \in Seq(R) /\ Len(e) = Len(ds)
    BY <1>0, <1>1, <2>1
  <2> QED
    BY <2>2, Widening
<1>3. \A d \in 1..Len(ds) : d # c => e[d] = ds[d]
  BY <1>0, <1>1
<1>4. e[c] = x
  BY <1>0, <1>1
<1>5. ASSUME NEW d \in 1..Len(e), d >= u
      PROVE  /\ IsDecl(e[d]) /\ Ordered(e, d) /\ (e[d].kind = "unit" => d <= u)
             /\ Refers(e, d) \subseteq {0} \cup u..Len(e)
  <2>1. CASE d = c
    BY <1>2, <1>4, <2>1 DEF Good
  <2>2. CASE d # c
    <3>1. e[d] = ds[d] /\ d \in 1..Len(ds)
      BY <1>2, <1>3, <2>2
    <3>2. Refers(e, d) = Refers(ds, d) /\ Ordered(e, d)
      BY <3>1, RefersSame DEF Good
    <3> QED
      BY <1>2, <1>5, <3>1, <3>2 DEF Good
  <2> QED
    BY <2>1, <2>2
<1>6. \A d \in 1..Len(ds) : d < u => e[d] = ds[d]
  BY <1>1, <1>3
<1>7. u <= Len(e) /\ Len(e) >= Len(ds)
  BY <1>1, <1>2
<1>8. Good(e, u)
  BY <1>2, <1>5, <1>6, <1>7, Growing
<1> QED
  BY <1>2, <1>6, <1>7, <1>8 DEF Extends

\* A declaration as it is created.
Created(x, ds, u) ==
  /\ IsDecl(x) /\ x.kind # "unit" /\ x.parent \in {0} \cup u..Len(ds)
  /\ x.members = << >> /\ x.protocols = << >> /\ x.params = << >>
  /\ Within(x.type, ds, u)

LEMMA Creating ==
  ASSUME NEW ds, NEW u, Good(ds, u), u # 0, NEW x, Created(x, ds, u)
  PROVE  Extends(ds, Append(ds, x), u)
<1> DEFINE e == Append(ds, x)
<1>1. IsSeq(ds) /\ Len(ds) \in Nat /\ DOMAIN ds = 1..Len(ds) /\ u \in 1..Len(ds)
  BY Sequence DEF Good
<1>2. /\ IsSeq(e) /\ Len(e) = Len(ds) + 1 /\ e[Len(ds) + 1] = x
      /\ \A k \in 1..Len(ds) : e[k] = ds[k]
  BY <1>1, Appending
<1>3. /\ IsDecl(x) /\ x.kind # "unit" /\ x.parent \in {0} \cup u..Len(ds)
      /\ x.members = << >> /\ x.protocols = << >> /\ x.params = << >>
      /\ Within(x.type, ds, u)
  BY DEF Created
<1> HIDE DEF e
<1>4. /\ Ordered(e, Len(ds) + 1)
      /\ Refers(e, Len(ds) + 1) \subseteq {0} \cup u..Len(e)
  BY <1>1, <1>2, <1>3 DEF Ordered, Refers, Within
<1>5. ASSUME NEW d \in 1..Len(e), d >= u
      PROVE  /\ IsDecl(e[d]) /\ Ordered(e, d) /\ (e[d].kind = "unit" => d <= u)
             /\ Refers(e, d) \subseteq {0} \cup u..Len(e)
  <2>1. CASE d = Len(ds) + 1
    BY <1>2, <1>3, <1>4, <2>1
  <2>2. CASE d \in 1..Len(ds)
    <3>1. e[d] = ds[d]
      BY <1>2, <2>2
    <3>2. Refers(e, d) = Refers(ds, d) /\ Ordered(e, d)
      BY <2>2, <3>1, RefersSame DEF Good
    <3> QED
      BY <1>1, <1>2, <1>5, <2>2, <3>1, <3>2 DEF Good
  <2> QED
    BY <1>1, <1>2, <2>1, <2>2
<1>6. Good(e, u)
  BY <1>1, <1>2, <1>5, Growing
<1>7. Extends(ds, e, u)
  BY <1>1, <1>2, <1>6 DEF Extends
<1> QED
  BY <1>7 DEF e

LEMMA Extending ==
  ASSUME NEW ds, NEW e, NEW f, NEW u, IsSeq(ds), Extends(ds, e, u), Extends(e, f, u)
  PROVE  Extends(ds, f, u)
<1>1. Len(ds) \in Nat /\ Len(e) \in Nat /\ Len(f) \in Nat
  BY Sequence DEF Extends, Good
<1> QED
  BY <1>1 DEF Extends

LEMMA Staying == ASSUME NEW ds, NEW u, Good(ds, u) PROVE Extends(ds, ds, u)
BY Sequence DEF Extends, Good

\* One field of a declaration is set.
SetMembers(d, v) == [d EXCEPT !.members = v]
SetParams(d, v) == [d EXCEPT !.params = v]
SetOptional(d, v) == [d EXCEPT !.optional = v]

LEMMA WithMembers ==
  ASSUME NEW d, IsDecl(d), NEW v, NEW x, x = SetMembers(d, v)
  PROVE  /\ x.members = v
         /\ x.kind = d.kind /\ x.parent = d.parent /\ x.protocols = d.protocols
         /\ x.type = d.type /\ x.params = d.params
         /\ HasFields(x)
BY DEF IsDecl, HasFields, SetMembers

LEMMA WithParams ==
  ASSUME NEW d, IsDecl(d), NEW v, NEW x, x = SetParams(d, v)
  PROVE  /\ x.params = v
         /\ x.kind = d.kind /\ x.parent = d.parent /\ x.protocols = d.protocols
         /\ x.type = d.type /\ x.members = d.members
         /\ HasFields(x)
BY DEF IsDecl, HasFields, SetParams

LEMMA WithOptional ==
  ASSUME NEW d, IsDecl(d), NEW v, NEW x, x = SetOptional(d, v)
  PROVE  /\ x.kind = d.kind /\ x.parent = d.parent /\ x.protocols = d.protocols
         /\ x.type = d.type /\ x.members = d.members /\ x.params = d.params
         /\ IsDecl(x)
BY DEF IsDecl, HasFields, SetOptional

AddTo(ds, c, m) == [ds EXCEPT ![c].members = Append(@, m)]

\* A member, created after its parent, is added to it.
LEMMA AddingMember ==
  ASSUME NEW ds, NEW u, Good(ds, u), NEW c \in 1..Len(ds), c >= u,
         NEW m \in 1..Len(ds), m > c
  PROVE  Extends(ds, AddTo(ds, c, m), u)
<1> DEFINE y == ds[c]
           v == Append(y.members, m)
           x == SetMembers(y, v)
           e == Put(ds, c, x)
<1>1. IsSeq(ds) /\ Len(ds) \in Nat /\ DOMAIN ds = 1..Len(ds) /\ u \in 0..Len(ds)
  BY Sequence DEF Good
<1>2. /\ IsDecl(y) /\ Ordered(ds, c) /\ Refers(ds, c) \subseteq {0} \cup u..Len(ds)
  BY DEF Good
<1>0. y = ds[c] /\ x = SetMembers(y, v) /\ e = Put(ds, c, x)
  OBVIOUS
<1> HIDE DEF v, x, y, e
<1>3. /\ x.members = v
      /\ x.kind = y.kind /\ x.parent = y.parent /\ x.protocols = y.protocols
      /\ x.type = y.type /\ x.params = y.params
      /\ HasFields(x)
  BY <1>0, <1>2, WithMembers
<1>4. /\ IsSeq(x.members) /\ Len(y.members) \in Nat
      /\ DOMAIN y.members = 1..Len(y.members)
      /\ DOMAIN x.members = 1..(Len(y.members) + 1)
      /\ x.members[Len(y.members) + 1] = m
      /\ \A k \in 1..Len(y.members) : x.members[k] = y.members[k]
  BY <1>0, <1>2, <1>3, Appending, Sequence DEF IsDecl, v
<1>5. IsDecl(x)
  BY <1>0, <1>2, <1>3, <1>4 DEF IsDecl
<1>6. e[c] = x
  BY <1>0, <1>1 DEF Put
<1>7. Ordered(e, c)
  <2>1. ASSUME NEW k \in DOMAIN x.members PROVE x.members[k] > c
    <3>1. CASE k = Len(y.members) + 1
      BY <1>0, <1>4, <3>1
    <3>2. CASE k \in 1..Len(y.members)
      <4>1. y.members[k] > c
        BY <1>0, <1>2, <1>4, <3>2 DEF Ordered
      <4> QED
        BY <1>0, <1>4, <3>2, <4>1
    <3> QED
      BY <1>0, <1>4, <3>1, <3>2
  <2> QED
    BY <1>0, <1>2, <1>3, <1>6, <2>1 DEF Ordered
<1>8. Refers(e, c) \subseteq {0} \cup u..Len(ds)
  <2>1. {x.members[k] : k \in DOMAIN x.members}
        \subseteq {y.members[k] : k \in DOMAIN y.members} \cup {m}
    BY <1>0, <1>4
  <2>2. Refers(e, c) \subseteq Refers(ds, c) \cup {m}
    <3>1. Refers(e, c) =
            {x.type.decl, x.parent} \cup {x.members[k] : k \in DOMAIN x.members}
            \cup {x.protocols[k] : k \in DOMAIN x.protocols}
            \cup {x.params[k].type.decl : k \in DOMAIN x.params}
      BY <1>6 DEF Refers
    <3>2. Refers(ds, c) =
            {x.type.decl, x.parent} \cup {y.members[k] : k \in DOMAIN y.members}
            \cup {x.protocols[k] : k \in DOMAIN x.protocols}
            \cup {x.params[k].type.decl : k \in DOMAIN x.params}
      BY <1>0, <1>3 DEF Refers
    <3> QED
      BY <2>1, <3>1, <3>2
  <2>3. m \in u..Len(ds)
    BY <1>0, <1>1
  <2> QED
    BY <1>0, <1>2, <2>2, <2>3
<1>9. Extends(ds, e, u)
  BY <1>0, <1>3, <1>5, <1>7, <1>8, Changing
<1> QED
  BY <1>9 DEF e, x, y, v, Put, SetMembers, AddTo

\* A parameter is added to a method.
LEMMA AddingParam ==
  ASSUME NEW ds, NEW u, Good(ds, u), NEW c \in 1..Len(ds), c >= u,
         NEW p, Within(p.type, ds, u)
  PROVE  Extends(ds, [ds EXCEPT ![c].params = Append(@, p)], u)
<1> DEFINE y == ds[c]
           v == Append(y.params, p)
           x == SetParams(y, v)
           e == Put(ds, c, x)
<1>1. IsSeq(ds) /\ Len(ds) \in Nat /\ DOMAIN ds = 1..Len(ds) /\ u \in 0..Len(ds)
  BY Sequence DEF Good
<1>2. /\ IsDecl(y) /\ Ordered(ds, c) /\ Refers(ds, c) \subseteq {0} \cup u..Len(ds)
  BY DEF Good
<1>0. y = ds[c] /\ x = SetParams(y, v) /\ e = Put(ds, c, x)
  OBVIOUS
<1> HIDE DEF v, x, y, e
<1>3. /\ x.params = v
      /\ x.kind = y.kind /\ x.parent = y.parent /\ x.protocols = y.protocols
      /\ x.type = y.type /\ x.members = y.members
      /\ HasFields(x)
  BY <1>0, <1>2, WithParams
<1>4. /\ IsSeq(x.params) /\ Len(y.params) \in Nat
      /\ DOMAIN y.params = 1..Len(y.params)
      /\ DOMAIN x.params = 1..(Len(y.params) + 1)
      /\ x.params[Len(y.params) + 1] = p
      /\ \A k \in 1..Len(y.params) : x.params[k] = y.params[k]
  BY <1>0, <1>2, <1>3, Appending, Sequence DEF IsDecl, v
<1>5. IsDecl(x)
  BY <1>0, <1>2, <1>3, <1>4 DEF IsDecl
<1>6. e[c] = x
  BY <1>0, <1>1 DEF Put
<1>7. Ordered(e, c)
  BY <1>0, <1>2, <1>3, <1>6 DEF Ordered
<1>8. Refers(e, c) \subseteq {0} \cup u..Len(ds)
  <2>1. {x.params[k].type.decl : k \in DOMAIN x.params}
        \subseteq {y.params[k].type.decl : k \in DOMAIN y.params} \cup {p.type.decl}
    <3> SUFFICES ASSUME NEW k \in DOMAIN x.params
                 PROVE  \/ x.params[k].type.decl = p.type.decl
                        \/ k \in DOMAIN y.params /\ x.params[k] = y.params[k]
      OBVIOUS
    <3>1. k \in 1..Len(y.params) \/ k = Len(y.params) + 1
      BY <1>4
    <3>2. k \in 1..Len(y.params) => k \in DOMAIN y.params /\ x.params[k] = y.params[k]
      BY <1>4
    <3>3. x.params[Len(y.params) + 1] = p
      BY <1>4
    <3> QED
      BY <3>1, <3>2, <3>3
  <2>2. Refers(e, c) \subseteq Refers(ds, c) \cup {p.type.decl}
    <3>1. /\ e[c].type = ds[c].type /\ e[c].parent = ds[c].parent
          /\ e[c].members = ds[c].members /\ e[c].protocols = ds[c].protocols
          /\ e[c].params = x.params /\ ds[c].params = y.params
      BY <1>0, <1>3, <1>6
    <3> QED
      BY <2>1, <3>1 DEF Refers
  <2> QED
    BY <1>0, <1>2, <2>2 DEF Within
<1>9. Extends(ds, e, u)
  BY <1>0, <1>3, <1>5, <1>7, <1>8, Changing
<1> QED
  BY <1>9 DEF e, x, y, v, Put, SetParams

LEMMA SettingOptional ==
  ASSUME NEW ds, NEW u, Good(ds, u), NEW c \in 1..Len(ds), c >= u, NEW b
  PROVE  Extends(ds, [ds EXCEPT ![c].optional = b], u)
         /\ Len([ds EXCEPT ![c].optional = b]) = Len(ds)
<1> DEFINE y == ds[c]
           x == SetOptional(y, b)
           e == Put(ds, c, x)
<1>1. IsSeq(ds) /\ Len(ds) \in Nat /\ DOMAIN ds = 1..Len(ds) /\ u \in 0..Len(ds)
  BY Sequence DEF Good
<1>2. /\ IsDecl(y) /\ Ordered(ds, c) /\ Refers(ds, c) \subseteq {0} \cup u..Len(ds)
  BY DEF Good
<1>0. y = ds[c] /\ x = SetOptional(y, b) /\ e = Put(ds, c, x)
  OBVIOUS
<1> HIDE DEF x, y, e
<1>3. /\ x.kind = y.kind /\ x.parent = y.parent /\ x.protocols = y.protocols
      /\ x.type = y.type /\ x.members = y.members /\ x.params = y.params
      /\ IsDecl(x)
  BY <1>0, <1>2, WithOptional
<1>4. e[c] = x
  BY <1>0, <1>1 DEF Put
<1>5. Ordered(e, c) /\ Refers(e, c) \subseteq {0} \cup u..Len(ds)
  BY <1>0, <1>2, <1>3, <1>4 DEF Ordered, Refers
<1>6. Extends(ds, e, u) /\ Len(e) = Len(ds)
  BY <1>0, <1>3, <1>5, Changing
<1> QED
  BY <1>6 DEF e, x, y, Put, SetOptional

\* What is found is in the unit of the declaration that asks.
LEMMA Searching ==
  ASSUME Good(decls, unit), unit # 0, NEW dc \in unit..Len(decls), NEW name
  PROVE  Search(dc, name) \subseteq unit..Len(decls)
<1>1. IsSeq(decls) /\ Len(decls) \in Nat /\ unit \in 1..Len(decls)
  BY Sequence DEF Good
<1>2. ASSUME NEW c \in {0} \cup unit..Len(decls)
      PROVE  /\ Named(c, name) \subseteq unit..Len(decls)
             /\ Parent(c) \in {0} \cup unit..Len(decls)
  <2>1. CASE c = 0
    BY <2>1 DEF Named, Parent
  <2>2. CASE c # 0
    <3>1. c \in 1..Len(decls) /\ c >= unit /\ c # 0
      BY <1>1, <2>2
    <3>2. /\ Refers(decls, c) \subseteq {0} \cup unit..Len(decls)
          /\ \A k \in DOMAIN decls[c].members : decls[c].members[k] > c
      BY <3>1 DEF Good, Ordered
    <3>3. \A k \in DOMAIN decls[c].members :
             decls[c].members[k] \in {0} \cup unit..Len(decls)
      BY <3>2 DEF Refers
    <3>4. \A k \in DOMAIN decls[c].members : decls[c].members[k] \in unit..Len(decls)
      BY <1>1, <3>1, <3>2, <3>3
    <3> QED
      BY <3>1, <3>2, <3>4 DEF Named, Parent, Refers
  <2> QED
    BY <2>1, <2>2
<1> QED
  BY <1>1, <1>2 DEF Search

(***************************************************************************)
(* What is printed.                                                        *)
(***************************************************************************)
\* Declarations that stay, and refer to those that stay, print as before.
LEMMA TextKept ==
  ASSUME NEW ds, NEW e, NEW c \in Nat,
         \A d \in 1..c : e[d] = ds[d] /\ Refers(ds, d) \subseteq 0..c /\ Ordered(ds, d),
         NEW w \in 1..c
  PROVE  Text(e, w) = Text(ds, w)
<1>1. ASSUME NEW q, q.decl \in 0..c
      PROVE  ShownType(e, q) = ShownType(ds, q)
  <2>1. q.decl = 0 \/ e[q.decl] = ds[q.decl]
    BY <1>1
  <2> QED
    BY <2>1 DEF ShownType
<1>2. ASSUME NEW d \in 1..c
      PROVE  /\ ds[d].type.decl \in 0..c
             /\ \A k \in DOMAIN ds[d].params : ds[d].params[k].type.decl \in 0..c
             /\ \A k \in DOMAIN ds[d].members : ds[d].members[k] \in 1..c
             /\ \A k \in DOMAIN ds[d].protocols : ds[d].protocols[k] \in 1..c
  <2>1. /\ ds[d].type.decl \in 0..c
        /\ \A k \in DOMAIN ds[d].params : ds[d].params[k].type.decl \in 0..c
        /\ \A k \in DOMAIN ds[d].members : ds[d].members[k] \in 0..c
        /\ \A k \in DOMAIN ds[d].protocols : ds[d].protocols[k] \in 0..c
    BY DEF Refers
  <2>2. /\ \A k \in DOMAIN ds[d].members : ds[d].members[k] > d
        /\ \A k \in DOMAIN ds[d].protocols : ds[d].protocols[k] > d
    BY DEF Ordered
  <2> QED
    BY <2>1, <2>2
<1>3. ASSUME NEW d \in 1..c
      PROVE  ShownMember(e, d) = ShownMember(ds, d)
  <2>1. e[d] = ds[d]
    OBVIOUS
  <2>2. ShownType(e, ds[d].type) = ShownType(ds, ds[d].type)
    BY <1>1, <1>2
  <2>3. \A k \in DOMAIN ds[d].params :
          ShownType(e, ds[d].params[k].type) = ShownType(ds, ds[d].params[k].type)
    BY <1>1, <1>2
  <2>4. [k \in DOMAIN ds[d].params |->
           [name |-> ds[d].params[k].name, type |-> ShownType(e, ds[d].params[k].type)]]
        = [k \in DOMAIN ds[d].params |->
           [name |-> ds[d].params[k].name, type |-> ShownType(ds, ds[d].params[k].type)]]
    BY <2>3
  <2> QED
    BY <2>1, <2>2, <2>4 DEF ShownMember
<1>4. ASSUME NEW d \in 1..c
      PROVE  ShownObject(e, d) = ShownObject(ds, d)
  <2>1. e[d] = ds[d]
    OBVIOUS
  <2>2. \A k \in DOMAIN ds[d].protocols : e[ds[d].protocols[k]] = ds[ds[d].protocols[k]]
    BY <1>2
  <2>3. \A k \in DOMAIN ds[d].members :
          ShownMember(e, ds[d].members[k]) = ShownMember(ds, ds[d].members[k])
    BY <1>2, <1>3
  <2>4. [k \in DOMAIN ds[d].protocols |-> e[ds[d].protocols[k]].name]
        = [k \in DOMAIN ds[d].protocols |-> ds[ds[d].protocols[k]].name]
    BY <2>2
  <2>5. [k \in DOMAIN ds[d].members |-> ShownMember(e, ds[d].members[k])]
        = [k \in DOMAIN ds[d].members |-> ShownMember(ds, ds[d].members[k])]
    BY <2>3
  <2> QED
    BY <2>1, <2>4, <2>5 DEF ShownObject
<1>5. e[w] = ds[w]
  OBVIOUS
<1>6. \A k \in DOMAIN ds[w].members :
        ShownObject(e, ds[w].members[k]) = ShownObject(ds, ds[w].members[k])
  BY <1>2, <1>4
<1> QED
  BY <1>5, <1>6 DEF Text

(***************************************************************************)
(* The invariant.                                                          *)
(***************************************************************************)
Phases == {"idle", "member", "param", "qtype", "typed", "print", "crashed"}

\* Where generate() is.
Control ==
  /\ metadata \in Metadatas /\ phase \in Phases
  /\ IsSeq(printed) /\ Len(printed) <= Len(Objects)
  /\ method \in 0..Len(decls) /\ scope \in 0..Len(decls) /\ qual.decl \in 0..Len(decls)
  /\ phase # "idle" =>
       /\ Len(printed) < Len(Objects) /\ unit # 0 /\ Container <= Len(decls)
       /\ at \in 1..(Len(Members(Obj)) + 1)
  /\ phase \in {"param", "qtype", "typed"} => at <= Len(Members(Obj))
  /\ phase \in {"idle", "member", "print"} => method = 0
  /\ phase = "param" => method # 0
  /\ method # 0 => method > Container /\ Member.kind = "method"
  /\ phase = "qtype" => scope \in Container..Len(decls)
  /\ phase = "typed" => Within(qual, decls, unit)

\* What was printed is of units that are over.
Past(ds, u) == \A k \in DOMAIN printed :
  /\ printed[k].unit \in 1..u /\ (phase # "idle" => printed[k].unit < u)
  /\ Text(ds, printed[k].unit) = printed[k].text

IInv == Control /\ Good(decls, unit) /\ Past(decls, unit)

LEMMA Sizes ==
  ASSUME metadata \in Metadatas
  PROVE  /\ IsSeq(Objects) /\ Len(Objects) \in Nat
         /\ \A k \in 1..Len(Objects) : IsObject(Objects[k])
<1> DEFINE p == metadata.protocols
           c == metadata.classes
<1>1. /\ IsSeq(p) /\ IsSeq(c)
      /\ \A k \in 1..Len(p) : IsObject(p[k])
      /\ \A k \in 1..Len(c) : IsObject(c[k])
  BY MetadatasAssumption, Sequence
<1>2. Objects = p \o c
  BY DEF Objects
<1> HIDE DEF p, c
<1>3. /\ IsSeq(Objects) /\ Len(Objects) = Len(p) + Len(c)
      /\ \A k \in 1..Len(p) : Objects[k] = p[k]
      /\ \A k \in 1..Len(c) : Objects[Len(p) + k] = c[k]
  BY <1>1, <1>2, Joining
<1>4. Len(p) \in Nat /\ Len(c) \in Nat
  BY <1>1, Sequence
<1>5. ASSUME NEW k \in 1..Len(Objects) PROVE IsObject(Objects[k])
  <2>1. k \in 1..Len(p) \/ (k - Len(p) \in 1..Len(c) /\ k = Len(p) + (k - Len(p)))
    BY <1>3, <1>4
  <2> QED
    BY <1>1, <1>3, <2>1
<1> QED
  BY <1>3, <1>4, <1>5

LEMMA MembersOf ==
  ASSUME NEW o, IsObject(o)
  PROVE  Len(Members(o)) \in Nat
<1>1. IsSeq(o.optional \o o.methods)
  BY Joining DEF IsObject
<1>2. IsSeq((o.optional \o o.methods) \o o.ivars)
  BY <1>1, Joining DEF IsObject
<1>3. IsSeq(((o.optional \o o.methods) \o o.ivars) \o o.properties)
  BY <1>2, Joining DEF IsObject
<1> QED
  BY <1>3, Sequence DEF Members

\* What the steps between Generate and PrintUnit start from.
LEMMA Present ==
  ASSUME IInv
  PROVE  /\ IsSeq(decls) /\ Len(decls) \in Nat /\ unit \in 0..Len(decls)
         /\ Len(printed) \in Nat /\ DOMAIN printed = 1..Len(printed)
         /\ Container = unit + 1
         /\ phase # "idle" => IsObject(Obj) /\ Len(Members(Obj)) \in Nat
<1>1. /\ IsSeq(decls) /\ Len(decls) \in Nat /\ unit \in 0..Len(decls)
      /\ Len(printed) \in Nat /\ DOMAIN printed = 1..Len(printed)
  BY Sequence DEF IInv, Good, Control
<1>2. ASSUME phase # "idle" PROVE IsObject(Obj) /\ Len(Members(Obj)) \in Nat
  <2>1. metadata \in Metadatas /\ Len(printed) < Len(Objects)
    BY <1>2 DEF IInv, Control
  <2>2. Len(printed) + 1 \in 1..Len(Objects)
    BY <1>1, <2>1, Sizes
  <2>3. IsObject(Obj)
    BY <2>1, <2>2, Sizes DEF Obj
  <2> QED
    BY <2>3, MembersOf
<1> QED
  BY <1>1, <1>2 DEF Container

\* A step within a unit keeps what was printed.
LEMMA InUnit ==
  ASSUME IInv, phase # "idle", phase' # "idle", unit' = unit, printed' = printed,
         Extends(decls, decls', unit)
  PROVE  /\ Good(decls, unit)' /\ Past(decls, unit)'
         /\ Len(decls') \in Nat /\ Len(decls') >= Len(decls)
<1>1. Good(decls', unit) /\ Len(decls') \in Nat /\ Len(decls') >= Len(decls)
  BY Sequence DEF Extends, Good
<1>2. ASSUME NEW k \in DOMAIN printed
      PROVE  /\ printed[k].unit \in 1..unit /\ printed[k].unit < unit
             /\ Text(decls', printed[k].unit) = printed[k].text
  <2> DEFINE w == printed[k].unit
             c == unit - 1
  <2>1. w \in 1..unit /\ w < unit /\ Text(decls, w) = printed[k].text
    BY DEF IInv, Past
  <2>2. c \in Nat /\ w \in 1..c /\ c <= Len(decls)
    BY <2>1, Present
  <2>3. \A d \in 1..c : d \in 1..Len(decls) /\ d < unit
    BY <2>2, Present
  <2>4. \A d \in 1..c :
          decls'[d] = decls[d] /\ Refers(decls, d) \subseteq 0..c /\ Ordered(decls, d)
    BY <2>3 DEF Extends, IInv, Good
  <2> HIDE DEF c, w
  <2>5. Text(decls', w) = Text(decls, w)
    BY <2>2, <2>4, TextKept
  <2> QED
    BY <2>1, <2>5 DEF w
<1>3. Good(decls, unit)'
  BY <1>1
<1>4. Past(decls, unit)'
  BY <1>2 DEF Past
<1> QED
  BY <1>1, <1>3, <1>4

LEMMA Fixed ==
  ASSUME metadata' = metadata, printed' = printed, unit' = unit
  PROVE  /\ Objects' = Objects /\ Obj' = Obj /\ Members(Obj)' = Members(Obj)
         /\ Container' = Container
         /\ at' = at => Member' = Member
BY DEF Objects, Obj, Members, Container, Member

(***************************************************************************)
(* get_qtype().                                                            *)
(***************************************************************************)
LEMMA Asking ==
  ASSUME IInv, NEW type, NEW dc \in Container..Len(decls), Ask(type, dc),
         UNCHANGED <<metadata, decls, unit, at, method, printed>>,
         phase \in {"member", "param"}, at <= Len(Members(Obj))
  PROVE  IInv'
<1>1. phase # "idle" /\ phase' # "idle" /\ unit' = unit /\ printed' = printed
      /\ Extends(decls, decls', unit)
  BY Staying DEF Ask, IInv
<1>2. Good(decls, unit)' /\ Past(decls, unit)'
  BY <1>1, InUnit
<1>3. phase' = "qtype" /\ scope' = dc /\ qual'.decl = 0
  BY DEF Ask, NoQual, Qual
<1>4. dc \in 0..Len(decls)
  BY Present
<1>5. Control'
  BY <1>1, <1>3, <1>4, Fixed DEF IInv, Control, Phases
<1> QED
  BY <1>2, <1>5 DEF IInv

LEMMA Crashing ==
  ASSUME IInv, DereferenceNull
  PROVE  IInv'
<1>1. phase # "idle" /\ phase' = "crashed" /\ unit' = unit /\ printed' = printed
      /\ Extends(decls, decls', unit)
  BY Staying DEF DereferenceNull, Asked, IInv
<1>2. Good(decls, unit)' /\ Past(decls, unit)'
  BY <1>1, InUnit
<1>3. Control'
  BY <1>1, Fixed DEF DereferenceNull, callVars, IInv, Control, Phases
<1> QED
  BY <1>2, <1>3 DEF IInv

LEMMA Wrapping ==
  ASSUME IInv, WrappedType
  PROVE  IInv'
<1>1. phase = "qtype" /\ phase' = phase /\ unit' = unit /\ printed' = printed
      /\ Extends(decls, decls', unit)
  BY Staying DEF WrappedType, Asked, IInv
<1>2. Good(decls, unit)' /\ Past(decls, unit)'
  BY <1>1, InUnit
<1>3. Control'
  BY <1>1, Fixed DEF WrappedType, IInv, Control, Phases
<1> QED
  BY <1>2, <1>3 DEF IInv

IsQual(q) == q = Qual(q.wraps, q.base, q.decl)

LEMMA Answering ==
  ASSUME IInv, phase = "qtype", NEW base, IsQual(base), Answer(base),
         Extends(decls, decls', unit), Within(base, decls', unit)
  PROVE  IInv'
<1>1. phase' \in {"crashed", "typed"} /\ unit' = unit /\ printed' = printed
  BY DEF Answer
<1>2. /\ Good(decls, unit)' /\ Past(decls, unit)'
      /\ Len(decls') \in Nat /\ Len(decls') >= Len(decls)
  BY <1>1, InUnit
<1>3. qual'.decl = base.decl
  BY DEF Answer, IsQual, Qual
<1>4. qual'.decl \in 0..Len(decls') /\ Within(qual', decls', unit')
  BY <1>1, <1>2, <1>3, Present DEF Within
<1>5. Control'
  <2> HIDE DEF Within
  <2>1. UNCHANGED <<metadata, unit, at, method, arg, scope, wraps, printed>>
    BY DEF Answer
  <2> QED
    BY <1>1, <1>2, <1>4, <2>1, Fixed, Present DEF IInv, Control, Phases
<1> QED
  BY <1>2, <1>5 DEF IInv

LEMMA CreatedPlain ==
  ASSUME NEW ds, NEW u, NEW kind, kind # "unit", NEW name, NEW parent \in {0} \cup u..Len(ds)
  PROVE  Created(Decl(kind, name, parent), ds, u)
<1>1. IsSeq(<< >>)
  BY DEF IsSeq
<1>2. Within(NoQual, ds, u)
  BY DEF Within, NoQual, Qual
<1> QED
  BY <1>1, <1>2 DEF Decl, IsDecl, HasFields, Created

\* What get_qtype() declares is in the unit of the declaration that asks.
LEMMA Declaring ==
  ASSUME IInv, phase = "qtype", NEW kind, kind # "unit", NEW name, Declare(kind, name)
  PROVE  /\ Extends(decls, decls', unit)
         /\ Len(decls') = Len(decls) + 1
<1>1. scope \in {0} \cup unit..Len(decls) /\ unit # 0
  BY Present DEF IInv, Control
<1> DEFINE x == Decl(kind, name, scope)
<1>2. Created(x, decls, unit)
  BY <1>1, CreatedPlain
<1> HIDE DEF x
<1>4. Extends(decls, Append(decls, x), unit)
  BY <1>1, <1>2, Creating DEF IInv
<1>5. decls' = Append(decls, x)
  BY DEF Declare, x
<1> QED
  BY <1>4, <1>5, Appending, Present

LEMMA AnsweringBuiltin ==
  ASSUME IInv, BuiltinType
  PROVE  IInv'
<1> DEFINE base == Qual(<< >>, IF arg.type \in {"?", "b"} THEN "v" ELSE arg.type, 0)
<1>1. phase = "qtype" /\ Answer(base) /\ decls' = decls
  BY DEF BuiltinType
<1>2. IsQual(base) /\ Within(base, decls', unit)
  BY DEF IsQual, Qual, Within
<1>3. Extends(decls, decls', unit)
  BY <1>1, Staying DEF IInv
<1> QED
  BY <1>1, <1>2, <1>3, Answering

LEMMA AnsweringRecord ==
  ASSUME IInv, RecordType
  PROVE  IInv'
<1> DEFINE found == Search(scope, arg.name)
<1>1. phase = "qtype" /\ arg.type \in Records
  BY DEF RecordType, Asked
<1>2. CASE found = {}
  <2> DEFINE base == Declared(arg.type)
  <2>1. Declare(arg.type, arg.name) /\ Answer(base)
    BY <1>2 DEF RecordType
  <2>2. Extends(decls, decls', unit) /\ Len(decls') = Len(decls) + 1
    BY <1>1, <2>1, Declaring DEF Records
  <2>3. IsQual(base) /\ base.decl = Len(decls) + 1
    BY DEF Declared, Qual, IsQual
  <2>4. Within(base, decls', unit)
    BY <2>2, <2>3, Present DEF Within
  <2> QED
    BY <1>1, <2>1, <2>2, <2>3, <2>4, Answering
<1>3. CASE found # {}
  <2>1. decls' = decls /\ Extends(decls, decls', unit)
    BY <1>3, Staying DEF RecordType, IInv
  <2>2. found \subseteq unit..Len(decls)
    BY <1>1, Searching, Present DEF IInv, Control
  <2>3. \E b : /\ Answer(b) /\ IsQual(b)
               /\ b.decl \in {0} \cup found
    <3>1. CASE Cardinality(found) > 1
      <4>1. Answer(NullQual)
        BY <1>3, <3>1 DEF RecordType
      <4> QED
        BY <4>1 DEF NullQual, Qual, IsQual
    <3>2. CASE ~(Cardinality(found) > 1)
      <4> DEFINE d == CHOOSE d \in found : TRUE
      <4>1. d \in found
        BY <1>3
      <4>2. \/ Answer(Qual(<< >>, decls[d].kind, d))
            \/ Answer(Qual(<<PointerLayer>>, "v", 0))
        BY <1>3, <3>2 DEF RecordType
      <4> HIDE DEF d, found
      <4> QED
        BY <4>1, <4>2 DEF Qual, IsQual
    <3> QED
      BY <3>1, <3>2
  <2>4. PICK b : Answer(b) /\ IsQual(b) /\ b.decl \in {0} \cup found
    BY <2>3
  <2>5. Within(b, decls', unit)
    BY <2>1, <2>2, <2>4 DEF Within
  <2> QED
    BY <1>1, <2>1, <2>4, <2>5, Answering
<1> QED
  BY <1>2, <1>3

LEMMA AnsweringObject ==
  ASSUME IInv, ObjectType
  PROVE  IInv'
<1> DEFINE name == IF arg.name = << >> THEN NSObject ELSE arg.name
           found == Search(scope, name)
           interfaces == {d \in found : decls[d].kind = "interface"}
<1>1. phase = "qtype"
  BY DEF ObjectType, Asked
<1>2. CASE found = {}
  <2> DEFINE base == [Declared("interface") EXCEPT !.wraps = <<PointerLayer>>]
  <2>1. Declare("interface", name) /\ Answer(base)
    BY <1>2 DEF ObjectType
  <2> HIDE DEF name
  <2>2. Extends(decls, decls', unit) /\ Len(decls') = Len(decls) + 1
    BY <1>1, <2>1, Declaring
  <2>3. IsQual(base) /\ base.decl = Len(decls) + 1
    BY DEF Declared, Qual, IsQual
  <2>4. Within(base, decls', unit)
    BY <2>2, <2>3, Present DEF Within
  <2> QED
    BY <1>1, <2>1, <2>2, <2>3, <2>4, Answering
<1>3. CASE found # {}
  <2>1. decls' = decls /\ Extends(decls, decls', unit)
    BY <1>3, Staying DEF ObjectType, IInv
  <2>2. found \subseteq unit..Len(decls)
    BY <1>1, Searching, Present DEF IInv, Control
  <2>3. PICK b : /\ Answer(b) /\ IsQual(b)
                 /\ b.decl \in {0} \cup found
    <3> DEFINE d == CHOOSE d \in found : TRUE
    <3>1. d \in found
      BY <1>3
    <3>2. \/ Answer(Qual(<<PointerLayer>>, "interface", d))
          \/ Answer(Qual(<<PointerLayer>>, "v", 0))
      BY <1>3 DEF ObjectType
    <3> HIDE DEF d, found
    <3> QED
      BY <3>1, <3>2 DEF Qual, IsQual
  <2>4. Within(b, decls', unit)
    BY <2>1, <2>2, <2>3 DEF Within
  <2> QED
    BY <1>1, <2>1, <2>3, <2>4, Answering
<1> QED
  BY <1>2, <1>3

(***************************************************************************)
(* decl_ivar() and decl_property().                                        *)
(***************************************************************************)
SetType(d, v) == [d EXCEPT !.type = v]
LEMMA CreatedTyped ==
  ASSUME NEW ds, NEW u, NEW d, Created(d, ds, u), NEW type, Within(type, ds, u)
  PROVE  Created(SetType(d, type), ds, u)
<1> DEFINE x == SetType(d, type)
<1>1. IsDecl(d)
  BY DEF Created
<1>2. /\ x.kind = d.kind /\ x.parent = d.parent /\ x.protocols = d.protocols
      /\ x.type = type /\ x.members = d.members /\ x.params = d.params
      /\ IsDecl(x)
  BY <1>1 DEF SetType, IsDecl, HasFields
<1> HIDE DEF x
<1>3. Created(x, ds, u)
  BY <1>2 DEF Created
<1> QED
  BY <1>3 DEF x

\* The sequence that AddMember makes, without its last step.
LEMMA Appended ==
  ASSUME NEW ds, IsSeq(ds), NEW x
  PROVE  ds \o << >> \o <<x>> = Append(ds, x)
<1> DEFINE R == {ds[k] : k \in DOMAIN ds} \cup {x}
<1>1. ds \in Seq(R) /\ x \in R
  BY DEF IsSeq
<1> HIDE DEF R
<1> QED
  BY <1>1

LEMMA AppendedTwo ==
  ASSUME NEW ds, IsSeq(ds), NEW x, NEW y
  PROVE  ds \o <<y>> \o <<x>> = Append(Append(ds, y), x)
<1> DEFINE R == {ds[k] : k \in DOMAIN ds} \cup {x, y}
           t == ds \o <<y>>
<1>1. ds \in Seq(R) /\ x \in R /\ y \in R
  BY DEF IsSeq
<1> HIDE DEF R
<1>2. t \in Seq(R) /\ t = Append(ds, y)
  BY <1>1
<1> HIDE DEF t
<1>3. t \o <<x>> = Append(t, x)
  BY <1>1, <1>2
<1> QED
  BY <1>2, <1>3 DEF t

\* A member of one declaration: m are the declarations with those created for
\* it, its own the last.
LEMMA AddingField ==
  ASSUME IInv, phase \in {"member", "typed"}, phase' = "member", method = 0,
         at <= Len(Members(Obj)), at' = at + 1,
         UNCHANGED <<metadata, unit, method, callVars, printed>>,
         NEW m, Extends(decls, m, unit), Len(m) > Len(decls),
         decls' = AddTo(m, Container, Len(m))
  PROVE  IInv'
<1>1. unit' = unit /\ printed' = printed /\ metadata' = metadata
  OBVIOUS
<1>2. Container \in 1..Len(m) /\ Container >= unit /\ Len(m) \in 1..Len(m) /\ Len(m) > Container
  <2>1. IsSeq(m)
    BY DEF Extends, Good
  <2>2. Len(m) \in Nat
    BY <2>1, Sequence
  <2>3. Len(decls) \in Nat /\ unit \in 0..Len(decls) /\ Container = unit + 1
    BY Present
  <2>4. Container <= Len(decls)
    BY DEF IInv, Control
  <2> QED
    BY <2>2, <2>3, <2>4
<1>3. Extends(m, decls', unit)
  BY <1>2, AddingMember DEF Extends
<1>4. Extends(decls, decls', unit)
  BY <1>3, Extending, Present
<1>5. /\ Good(decls, unit)' /\ Past(decls, unit)'
      /\ Len(decls') \in Nat /\ Len(decls') >= Len(decls)
  BY <1>1, <1>4, InUnit
<1>6. Control'
  BY <1>1, <1>5, Fixed, Present DEF IInv, Control, Phases, callVars
<1> QED
  BY <1>5, <1>6 DEF IInv

LEMMA AddingOne ==
  ASSUME IInv, phase \in {"member", "typed"}, method = 0, at <= Len(Members(Obj)),
         NEW x, Created(x, decls, unit), AddMember(x, << >>)
  PROVE  IInv'
<1> DEFINE m == Append(decls, x)
<1>1. Extends(decls, m, unit) /\ Len(m) = Len(decls) + 1
  BY Creating, Appending, Present DEF IInv, Control
<1>2. decls' = AddTo(m, Container, Len(decls) + 0 + 1)
  BY Appended, Present DEF AddMember, AddTo
<1>3. Len(decls) + 0 + 1 = Len(m) /\ Len(m) > Len(decls)
  BY <1>1, Present
<1>4. /\ phase' = "member" /\ at' = at + 1
      /\ UNCHANGED <<metadata, unit, method, callVars, printed>>
  BY DEF AddMember
<1> HIDE DEF m
<1> QED
  BY <1>1, <1>2, <1>3, <1>4, AddingField

LEMMA AddingTwo ==
  ASSUME IInv, phase = "member", method = 0, at <= Len(Members(Obj)),
         NEW x, NEW y, Created(y, decls, unit), Created(x, Append(decls, y), unit),
         AddMember(x, <<y>>)
  PROVE  IInv'
<1> DEFINE n == Append(decls, y)
           m == Append(n, x)
<1>1. Extends(decls, n, unit) /\ Len(n) = Len(decls) + 1 /\ IsSeq(n) /\ Good(n, unit)
  BY Creating, Appending, Present DEF IInv, Control, Extends
<1>2. Extends(n, m, unit) /\ Len(m) = Len(n) + 1
  <2> HIDE DEF n
  <2> QED
    BY <1>1, Creating, Appending, Present DEF IInv, Control, n
<1>3. decls' = AddTo(m, Container, Len(decls) + 1 + 1)
  BY AppendedTwo, Present DEF AddMember, AddTo
<1>4. Len(decls) + 1 + 1 = Len(m) /\ Len(m) > Len(decls)
  BY <1>1, <1>2, Present
<1>5. /\ phase' = "member" /\ at' = at + 1
      /\ UNCHANGED <<metadata, unit, method, callVars, printed>>
  BY DEF AddMember
<1> HIDE DEF m, n
<1>6. Extends(decls, m, unit)
  BY <1>1, <1>2, Extending, Present
<1> QED
  BY <1>3, <1>4, <1>5, <1>6, AddingField

LEMMA CreatedField ==
  ASSUME IInv, phase # "idle", NEW kind, kind # "unit", NEW ds, NEW type,
         Extends(decls, ds, unit), Within(type, ds, unit)
  PROVE  Created([Decl(kind, Member.name, Container) EXCEPT !.type = type], ds, unit)
<1>1. Container \in {0} \cup unit..Len(ds)
  BY Present, Sequence DEF IInv, Control, Extends, Good
<1>2. Created(Decl(kind, Member.name, Container), ds, unit)
  BY <1>1, CreatedPlain
<1>3. Created(SetType(Decl(kind, Member.name, Container), type), ds, unit)
  BY <1>2, CreatedTyped
<1> QED
  BY <1>3 DEF SetType

LEMMA NoDeclaration ==
  ASSUME NEW w, NEW b, NEW ds, NEW u
  PROVE  Within(Qual(w, b, 0), ds, u)
BY DEF Within, Qual

LEMMA TakingIvar ==
  ASSUME IInv, TakeIvar
  PROVE  IInv'
<1>1. /\ phase = "typed" /\ AddMember(IvarDecl(qual), << >>)
      /\ Member.kind = "ivar"
  BY DEF TakeIvar
<1>2. method = 0 /\ at <= Len(Members(Obj)) /\ Within(qual, decls, unit)
  BY <1>1 DEF IInv, Control
<1>3. Created(IvarDecl(qual), decls, unit)
  BY <1>1, <1>2, CreatedField, Staying DEF IvarDecl, IInv
<1> QED
  BY <1>1, <1>2, <1>3, AddingOne

LEMMA AtMembers ==
  ASSUME IInv, NEW kind, AtMember(kind)
  PROVE  phase = "member" /\ method = 0 /\ at <= Len(Members(Obj))
BY DEF AtMember, IInv, Control

LEMMA LeavingIvar ==
  ASSUME IInv, UnresolvedIvar
  PROVE  IInv'
<1>1. AtMember("ivar") /\ AddMember(IvarDecl(UnknownAny), << >>)
  BY DEF UnresolvedIvar
<1>2. Within(UnknownAny, decls, unit)
  BY NoDeclaration DEF UnknownAny
<1>3. Created(IvarDecl(UnknownAny), decls, unit)
  BY <1>1, <1>2, AtMembers, CreatedField, Staying DEF IvarDecl, IInv
<1> QED
  BY <1>1, <1>3, AtMembers, AddingOne

LEMMA DeclaringProperty ==
  ASSUME IInv, DeclProperty
  PROVE  IInv'
<1> DEFINE x == [Decl("property", Member.name, Container) EXCEPT !.type = Qual(<< >>, "v", 0)]
<1>1. AtMember("property") /\ AddMember(x, << >>)
  BY DEF DeclProperty
<1>2. Created(x, decls, unit)
  BY <1>1, AtMembers, CreatedField, NoDeclaration, Staying DEF IInv
<1> QED
  BY <1>1, <1>2, AtMembers, AddingOne

LEMMA DeclaringNSObject ==
  ASSUME IInv, UntypedIvar
  PROVE  IInv'
<1> DEFINE found == Search(Container, NSObject)
           interfaces == {d \in found : decls[d].kind = "interface"}
<1>1. AtMember("ivar") /\ phase = "member" /\ method = 0 /\ at <= Len(Members(Obj))
  BY AtMembers DEF UntypedIvar
<1>2. Container \in unit..Len(decls) /\ unit # 0
  BY <1>1, Present DEF IInv, Control
<1>3. CASE found = {}
  <2> DEFINE y == Decl("interface", NSObject, Container)
             n == Append(decls, y)
             q == Qual(<<PointerLayer>>, "interface", Len(decls) + 1)
  <2>1. AddMember(IvarDecl(q), <<y>>)
    BY <1>3 DEF UntypedIvar
  <2>2. Created(y, decls, unit)
    BY <1>2, CreatedPlain
  <2>3. Extends(decls, n, unit) /\ Len(n) = Len(decls) + 1
    BY <1>2, <2>2, Creating, Appending, Present DEF IInv
  <2>4. Within(q, n, unit)
    <3>1. q.decl = Len(decls) + 1
      BY DEF Qual
    <3> HIDE DEF q, n
    <3> QED
      BY <2>3, <3>1, Present DEF Within
  <2> HIDE DEF n, q
  <2>5. Created(IvarDecl(q), n, unit)
    BY <1>1, <2>3, <2>4, CreatedField DEF IvarDecl
  <2> HIDE DEF y
  <2> QED
    BY <1>1, <2>1, <2>2, <2>5, AddingTwo DEF n
<1>4. CASE found # {}
  <2>1. found \subseteq unit..Len(decls)
    BY <1>2, Searching DEF IInv
  <2>2. PICK q : AddMember(IvarDecl(q), << >>) /\ Within(q, decls, unit)
    <3>1. CASE interfaces = {}
      <4>1. AddMember(IvarDecl(Qual(<<PointerLayer>>, "unknown any", 0)), << >>)
        BY <1>4, <3>1 DEF UntypedIvar
      <4> QED
        BY <4>1, NoDeclaration
    <3>2. CASE interfaces # {}
      <4> DEFINE d == CHOOSE d \in interfaces : TRUE
      <4>1. d \in found
        BY <3>2
      <4>2. AddMember(IvarDecl(Qual(<<PointerLayer>>, "interface", d)), << >>)
        BY <1>4, <3>2 DEF UntypedIvar
      <4> HIDE DEF d, found
      <4>3. Within(Qual(<<PointerLayer>>, "interface", d), decls, unit)
        BY <2>1, <4>1 DEF Within, Qual
      <4> QED
        BY <4>2, <4>3
    <3> QED
      BY <3>1, <3>2
  <2>3. Created(IvarDecl(q), decls, unit)
    BY <1>1, <2>2, CreatedField, Staying DEF IvarDecl, IInv
  <2> QED
    BY <1>1, <2>2, <2>3, AddingOne
<1> QED
  BY <1>3, <1>4

(***************************************************************************)
(* decl_method().                                                          *)
(***************************************************************************)
SetInstance(d, v) == [d EXCEPT !.instance = v]
LEMMA CreatedInstance ==
  ASSUME NEW ds, NEW u, NEW d, Created(d, ds, u), NEW v
  PROVE  Created(SetInstance(d, v), ds, u)
<1> DEFINE x == SetInstance(d, v)
<1>1. IsDecl(d)
  BY DEF Created
<1>2. /\ x.kind = d.kind /\ x.parent = d.parent /\ x.protocols = d.protocols
      /\ x.type = d.type /\ x.members = d.members /\ x.params = d.params
      /\ IsDecl(x)
  BY <1>1 DEF SetInstance, IsDecl, HasFields
<1> HIDE DEF x
<1>3. Created(x, ds, u)
  BY <1>2 DEF Created
<1> QED
  BY <1>3 DEF x

LEMMA BeginningMethod ==
  ASSUME IInv, BeginMethod
  PROVE  IInv'
<1>1. AtMember("method") /\ phase = "member" /\ at <= Len(Members(Obj))
  BY AtMembers DEF BeginMethod
<1>2. Container \in Container..Len(decls)
  BY <1>1, Present DEF IInv, Control
<1> QED
  BY <1>1, <1>2, Asking DEF BeginMethod

LEMMA BeginningIvar ==
  ASSUME IInv, BeginIvar
  PROVE  IInv'
<1>1. AtMember("ivar") /\ phase = "member" /\ at <= Len(Members(Obj))
  BY AtMembers DEF BeginIvar
<1>2. Container \in Container..Len(decls)
  BY <1>1, Present DEF IInv, Control
<1> QED
  BY <1>1, <1>2, Asking DEF BeginIvar

LEMMA BeginningParam ==
  ASSUME IInv, BeginParam
  PROVE  IInv'
<1>1. phase = "param" /\ at <= Len(Members(Obj))
  BY DEF BeginParam, IInv, Control
<1>2. method \in Container..Len(decls)
  BY <1>1, Present DEF IInv, Control
<1> QED
  BY <1>1, <1>2, Asking DEF BeginParam

LEMMA DeclaringMethod ==
  ASSUME IInv, MethodHead
  PROVE  IInv'
<1> DEFINE x == SetInstance(SetType(Decl("method", Member.name, Container), qual),
                            Member.instance)
<1>1. /\ phase = "typed" /\ Member.kind = "method" /\ method' = Len(decls) + 1
      /\ phase' = "param" /\ UNCHANGED <<metadata, unit, at, callVars, printed>>
      /\ decls' = Append(decls, x)
  BY DEF MethodHead, SetInstance, SetType
<1>2. Container \in {0} \cup unit..Len(decls) /\ Within(qual, decls, unit) /\ unit # 0
  BY <1>1, Present DEF IInv, Control
<1>3. Created(x, decls, unit)
  BY <1>2, CreatedPlain, CreatedTyped, CreatedInstance
<1> HIDE DEF x
<1>4. Extends(decls, decls', unit) /\ Len(decls') = Len(decls) + 1
  BY <1>1, <1>2, <1>3, Creating, Appending, Present DEF IInv
<1>5. phase # "idle" /\ phase' # "idle" /\ unit' = unit /\ printed' = printed
  BY <1>1
<1>6. Good(decls, unit)' /\ Past(decls, unit)'
  BY <1>4, <1>5, InUnit
<1>7. Control'
  BY <1>1, <1>4, <1>5, Fixed, Present DEF IInv, Control, Phases, callVars
<1> QED
  BY <1>6, <1>7 DEF IInv

\* A parameter of a known type.
LEMMA TakingType ==
  ASSUME IInv, phase \in {"param", "typed"}, phase' = "param", method # 0,
         NEW type, Within(type, decls, unit), AddParam(type),
         UNCHANGED <<metadata, unit, at, method, callVars, printed>>
  PROVE  IInv'
<1> DEFINE p == [name |-> ArgName(Param, Params[Param]), type |-> type]
<1>1. decls' = [decls EXCEPT ![method].params = Append(@, p)]
  BY DEF AddParam
<1>2. p.type = type
  OBVIOUS
<1> HIDE DEF p
<1>3. method \in 1..Len(decls) /\ method >= unit
  BY Present DEF IInv, Control
<1>4. Within(p.type, decls, unit)
  BY <1>2
<1>5. Extends(decls, [decls EXCEPT ![method].params = Append(@, p)], unit)
  BY <1>3, <1>4, AddingParam DEF IInv
<1>6. Extends(decls, decls', unit)
  BY <1>1, <1>5
<1>7. phase # "idle" /\ phase' # "idle" /\ unit' = unit /\ printed' = printed
  OBVIOUS
<1>8. /\ Good(decls, unit)' /\ Past(decls, unit)'
      /\ Len(decls') \in Nat /\ Len(decls') >= Len(decls)
  BY <1>6, <1>7, InUnit
<1>9. Control'
  BY <1>7, <1>8, Fixed, Present DEF IInv, Control, Phases, callVars
<1> QED
  BY <1>8, <1>9 DEF IInv

LEMMA TakingParam ==
  ASSUME IInv, TakeParam
  PROVE  IInv'
<1>1. /\ phase = "typed" /\ method # 0 /\ AddParam(qual) /\ phase' = "param"
      /\ UNCHANGED <<metadata, unit, at, method, callVars, printed>>
  BY DEF TakeParam
<1>2. Within(qual, decls, unit)
  BY <1>1 DEF IInv, Control
<1> QED
  BY <1>1, <1>2, TakingType

LEMMA TakingSelf ==
  ASSUME IInv, SelfParam
  PROVE  IInv'
<1> DEFINE type == Qual(<<PointerLayer>>, "interface", Container)
<1>1. /\ phase = "param" /\ AddParam(type) /\ phase' = "param"
      /\ UNCHANGED <<metadata, unit, at, method, callVars, printed>>
  BY DEF SelfParam
<1>2. method # 0 /\ Container \in unit..Len(decls)
  BY <1>1, Present DEF IInv, Control
<1>3. Within(type, decls, unit)
  BY <1>2 DEF Within, Qual
<1> HIDE DEF type
<1> QED
  BY <1>1, <1>2, <1>3, TakingType

LEMMA EndingMethod ==
  ASSUME IInv, EndMethod
  PROVE  IInv'
<1> DEFINE b == at <= Len(Obj.optional)
           m == [decls EXCEPT ![method].optional = b]
<1>1. /\ phase = "param" /\ method' = 0 /\ at' = at + 1 /\ phase' = "member"
      /\ UNCHANGED <<metadata, unit, callVars, printed>>
      /\ decls' = AddTo(m, Container, method)
  BY DEF EndMethod, AddTo
<1>2. /\ method \in 1..Len(decls) /\ method >= unit /\ method > Container
      /\ Container \in 1..Len(decls) /\ Container >= unit
  BY <1>1, Present DEF IInv, Control
<1>3. Extends(decls, m, unit) /\ Len(m) = Len(decls)
  <2>1. Good(decls, unit)
    BY DEF IInv
  <2> HIDE DEF b
  <2> QED
    BY <1>2, <2>1, SettingOptional
<1> HIDE DEF m
<1>4. Extends(m, decls', unit)
  BY <1>1, <1>2, <1>3, AddingMember DEF Extends
<1>5. Extends(decls, decls', unit)
  BY <1>3, <1>4, Extending, Present
<1>6. phase # "idle" /\ phase' # "idle" /\ unit' = unit /\ printed' = printed
  BY <1>1
<1>7. /\ Good(decls, unit)' /\ Past(decls, unit)'
      /\ Len(decls') \in Nat /\ Len(decls') >= Len(decls)
  BY <1>5, <1>6, InUnit
<1>8. Control'
  BY <1>1, <1>6, <1>7, Fixed, Present DEF IInv, Control, Phases, callVars
<1> QED
  BY <1>7, <1>8 DEF IInv

(***************************************************************************)
(* generate().                                                             *)
(***************************************************************************)
LEMMA AddingObject ==
  ASSUME IInv, AddObject
  PROVE  IInv'
<1>1. /\ phase = "member" /\ phase' = "print"
      /\ UNCHANGED <<metadata, unit, at, method, callVars, printed>>
      /\ decls' = AddTo(decls, unit, Container)
  BY DEF AddObject, AddTo
<1>2. unit \in 1..Len(decls) /\ unit >= unit /\ Container \in 1..Len(decls) /\ Container > unit
  BY <1>1, Present DEF IInv, Control
<1>3. Extends(decls, decls', unit)
  BY <1>1, <1>2, AddingMember DEF IInv
<1>4. phase # "idle" /\ phase' # "idle" /\ unit' = unit /\ printed' = printed
  BY <1>1
<1>5. /\ Good(decls, unit)' /\ Past(decls, unit)'
      /\ Len(decls') \in Nat /\ Len(decls') >= Len(decls)
  BY <1>3, <1>4, InUnit
<1>6. Control'
  BY <1>1, <1>4, <1>5, Fixed, Present DEF IInv, Control, Phases, callVars
<1> QED
  BY <1>5, <1>6 DEF IInv

LEMMA Printing ==
  ASSUME IInv, PrintUnit
  PROVE  IInv'
<1> DEFINE r == [unit |-> unit, text |-> Text(decls, unit)]
<1>1. /\ phase = "print" /\ phase' = "idle" /\ printed' = Append(printed, r)
      /\ UNCHANGED <<metadata, decls, unit, at, method, callVars>>
  BY DEF PrintUnit
<1>2. r.unit = unit /\ r.text = Text(decls, unit)
  OBVIOUS
<1> HIDE DEF r
<1>3. /\ IsSeq(printed') /\ Len(printed') = Len(printed) + 1
      /\ printed'[Len(printed) + 1] = r
      /\ \A k \in 1..Len(printed) : printed'[k] = printed[k]
  BY <1>1, Appending DEF IInv, Control
<1>4. DOMAIN printed' = 1..(Len(printed) + 1)
  BY <1>3, Sequence
<1>5. Objects' = Objects
  BY <1>1 DEF Objects
<1>6. Control'
  BY <1>1, <1>3, <1>5, Present, Sizes DEF IInv, Control, Phases, callVars
<1>7. ASSUME NEW k \in 1..(Len(printed) + 1)
      PROVE  /\ printed'[k].unit \in 1..unit
             /\ Text(decls, printed'[k].unit) = printed'[k].text
  <2>1. CASE k \in 1..Len(printed)
    BY <1>3, <2>1, Present DEF IInv, Past
  <2>2. CASE k = Len(printed) + 1
    BY <1>1, <1>2, <1>3, <2>2, Present DEF IInv, Control
  <2> QED
    BY <2>1, <2>2, Present
<1>8. Past(decls, unit)'
  BY <1>1, <1>4, <1>7 DEF Past
<1>9. Good(decls, unit)'
  BY <1>1 DEF IInv
<1> QED
  BY <1>6, <1>8, <1>9 DEF IInv

SetProtocols(d, v) == [d EXCEPT !.protocols = v]
LEMMA WithProtocols ==
  ASSUME NEW d, IsDecl(d), NEW v, NEW x, x = SetProtocols(d, v)
  PROVE  /\ x.protocols = v /\ IsDecl(x)
         /\ x.kind = d.kind /\ x.parent = d.parent /\ x.params = d.params
         /\ x.type = d.type /\ x.members = d.members
BY DEF IsDecl, HasFields, SetProtocols

LEMMA Plain ==
  ASSUME NEW kind, NEW name, NEW parent, NEW d, d = Decl(kind, name, parent)
  PROVE  /\ IsDecl(d) /\ d.kind = kind /\ d.parent = parent /\ d.type = NoQual
         /\ d.members = << >> /\ d.params = << >> /\ d.protocols = << >>
<1>1. IsSeq(<< >>)
  BY DEF IsSeq
<1> QED
  BY <1>1 DEF Decl, IsDecl, HasFields

\* What decl_protocol and decl_class start with, in unit u.
IsOpened(s, u) ==
  /\ IsSeq(s) /\ Len(s) >= 1
  /\ \A k \in 1..Len(s) :
       /\ IsDecl(s[k]) /\ s[k].kind # "unit"
       /\ s[k].members = << >> /\ s[k].params = << >> /\ s[k].type = NoQual
       /\ s[k].parent = IF k = 1 THEN u ELSE u + 1
       /\ \A q \in DOMAIN s[k].protocols :
            s[k].protocols[q] \in (u + 2)..(u + Len(s))
       /\ k # 1 => s[k].protocols = << >>

LEMMA Opening ==
  ASSUME NEW u \in Nat, IsObject(Obj), NEW s, s = Opened(u)
  PROVE  IsOpened(s, u)
<1> DEFINE adopted == Obj.protocols
           object == Decl(Obj.kind, Obj.name, u)
           v == [k \in DOMAIN adopted |-> u + 1 + k]
           first == SetProtocols(object, v)
           rest == [k \in DOMAIN adopted |-> Decl("protocol", adopted[k], u + 1)]
<1>1. IsSeq(adopted) /\ Len(adopted) \in Nat /\ DOMAIN adopted = 1..Len(adopted)
      /\ Obj.kind # "unit"
  BY Sequence DEF IsObject
<1>2. s = <<first>> \o rest
  BY DEF Opened, SetProtocols
<1>3. /\ IsDecl(object) /\ object.kind = Obj.kind /\ object.parent = u
      /\ object.type = NoQual /\ object.members = << >> /\ object.params = << >>
  <2> HIDE DEF object
  <2>1. object = Decl(Obj.kind, Obj.name, u)
    BY DEF object
  <2> QED
    BY <2>1, Plain
<1> HIDE DEF v, object
<1>4. /\ IsDecl(first) /\ first.kind # "unit"
      /\ first.members = << >> /\ first.params = << >> /\ first.type = NoQual
      /\ first.parent = u /\ first.protocols = v
  <2> HIDE DEF first
  <2>1. first = SetProtocols(object, v)
    BY DEF first
  <2> QED
    BY <1>1, <1>3, <2>1, WithProtocols
<1>5. \A k \in 1..Len(adopted) :
        /\ IsDecl(rest[k]) /\ rest[k].kind # "unit"
        /\ rest[k].members = << >> /\ rest[k].params = << >> /\ rest[k].type = NoQual
        /\ rest[k].parent = u + 1 /\ rest[k].protocols = << >>
  <2> TAKE k \in 1..Len(adopted)
  <2>1. rest[k] = Decl("protocol", adopted[k], u + 1)
    BY <1>1
  <2> HIDE DEF rest
  <2> QED
    BY <2>1, Plain
<1>6. IsSeq(rest) /\ Len(rest) = Len(adopted)
  <2> DEFINE R == {rest[k] : k \in DOMAIN adopted}
  <2>1. rest \in [1..Len(adopted) -> R]
    BY <1>1
  <2>2. rest \in Seq(R) /\ Len(rest) = Len(adopted)
    BY <1>1, <2>1
  <2> QED
    BY <2>2, Widening
<1> HIDE DEF first, rest
<1>7. IsSeq(<<first>>) /\ Len(<<first>>) = 1 /\ <<first>>[1] = first
  <2>1. IsSeq(<<first>>)
    BY Single
  <2>2. Len(<<first>>) = 1 /\ <<first>>[1] = first
    OBVIOUS
  <2> QED
    BY <2>1, <2>2
<1>8. /\ IsSeq(s) /\ Len(s) = 1 + Len(adopted) /\ s[1] = first
      /\ \A k \in 1..Len(adopted) : s[1 + k] = rest[k]
  BY <1>2, <1>6, <1>7, Joining
<1>9. DOMAIN v = 1..Len(adopted) /\ \A q \in 1..Len(adopted) : v[q] = u + 1 + q
  BY <1>1 DEF v
<1> HIDE DEF adopted
<1>10. ASSUME NEW k \in 1..Len(s)
      PROVE  /\ IsDecl(s[k]) /\ s[k].kind # "unit"
             /\ s[k].members = << >> /\ s[k].params = << >> /\ s[k].type = NoQual
             /\ s[k].parent = IF k = 1 THEN u ELSE u + 1
             /\ \A q \in DOMAIN s[k].protocols :
                  s[k].protocols[q] \in (u + 2)..(u + Len(s))
             /\ k # 1 => s[k].protocols = << >>
  <2>1. CASE k = 1
    <3>1. s[k] = first
      BY <1>8, <2>1
    <3>2. \A q \in DOMAIN v : v[q] \in (u + 2)..(u + Len(s))
      BY <1>1, <1>8, <1>9
    <3> QED
      BY <1>4, <2>1, <3>1, <3>2
  <2>2. CASE k # 1
    <3>1. k - 1 \in 1..Len(adopted) /\ k = 1 + (k - 1)
      BY <1>1, <1>8, <2>2
    <3>2. s[k] = rest[k - 1]
      BY <1>8, <3>1
    <3> QED
      BY <1>5, <2>2, <3>1, <3>2
  <2> QED
    BY <2>1, <2>2
<1> QED
  BY <1>1, <1>8, <1>10 DEF IsOpened

LEMMA Generating ==
  ASSUME IInv, Generate
  PROVE  IInv'
<1> DEFINE n == Len(decls)
           root == Decl("unit", << >>, 0)
           s == Opened(n + 1)
           e == decls \o <<root>> \o s
<1>1. /\ phase = "idle" /\ phase' = "member" /\ Len(printed) < Len(Objects)
      /\ unit' = n + 1 /\ at' = 1 /\ decls' = e
      /\ UNCHANGED <<metadata, method, callVars, printed>>
  BY DEF Generate
<1>2. /\ IsSeq(decls) /\ n \in Nat /\ unit \in 0..n /\ Len(printed) \in Nat
      /\ DOMAIN printed = 1..Len(printed)
  BY Present
<1>3. IsObject(Obj)
  <2>1. metadata \in Metadatas /\ Len(printed) + 1 \in 1..Len(Objects)
    BY <1>1, <1>2, Sizes DEF IInv, Control
  <2> QED
    BY <2>1, Sizes DEF Obj
<1>4. /\ IsDecl(root) /\ root.kind = "unit" /\ root.parent = 0 /\ root.type = NoQual
      /\ root.members = << >> /\ root.params = << >> /\ root.protocols = << >>
  <2> HIDE DEF root
  <2>1. root = Decl("unit", << >>, 0)
    BY DEF root
  <2> QED
    BY <2>1, Plain
<1> HIDE DEF root
<1>5. /\ IsSeq(s) /\ Len(s) \in Nat /\ Len(s) >= 1
      /\ \A k \in 1..Len(s) :
           /\ IsDecl(s[k]) /\ s[k].kind # "unit"
           /\ s[k].members = << >> /\ s[k].params = << >> /\ s[k].type = NoQual
           /\ s[k].parent = IF k = 1 THEN n + 1 ELSE n + 2
           /\ \A q \in DOMAIN s[k].protocols :
                s[k].protocols[q] \in (n + 3)..(n + 1 + Len(s))
           /\ k # 1 => s[k].protocols = << >>
  <2> DEFINE u == n + 1
  <2>1. u \in Nat
    BY <1>2
  <2> HIDE DEF s, n, u
  <2>2. s = Opened(u)
    BY DEF s, u
  <2>3. IsOpened(s, u)
    BY <1>3, <2>1, <2>2, Opening
  <2>4. u + 1 = n + 2 /\ u + 2 = n + 3
    BY <1>2 DEF u
  <2>5. Len(s) \in Nat
    BY <2>3, Sequence DEF IsOpened
  <2> QED
    BY <2>3, <2>4, <2>5 DEF u, IsOpened
<1> HIDE DEF s
<1>6. /\ IsSeq(e) /\ Len(e) = n + 1 + Len(s) /\ e[n + 1] = root
      /\ \A k \in 1..n : e[k] = decls[k]
      /\ \A k \in 1..Len(s) : e[n + 1 + k] = s[k]
  <2> DEFINE m == Append(decls, root)
  <2>1. IsSeq(m) /\ Len(m) = n + 1 /\ m[n + 1] = root /\ \A k \in 1..n : m[k] = decls[k]
    BY <1>2, Appending
  <2>2. decls \o <<root>> = m
    <3> DEFINE R == {decls[k] : k \in DOMAIN decls} \cup {root}
    <3>1. decls \in Seq(R) /\ root \in R
      BY <1>2 DEF IsSeq
    <3> HIDE DEF R
    <3> QED
      BY <3>1
  <2>3. e = m \o s
    BY <2>2
  <2> HIDE DEF m
  <2>4. /\ IsSeq(m \o s) /\ Len(m \o s) = Len(m) + Len(s)
        /\ \A k \in 1..Len(m) : (m \o s)[k] = m[k]
        /\ \A k \in 1..Len(s) : (m \o s)[Len(m) + k] = s[k]
    <3>1. IsSeq(m) /\ IsSeq(s)
      BY <1>5, <2>1
    <3> QED
      BY <3>1, Joining
  <2> HIDE DEF e
  <2> QED
    BY <1>2, <2>1, <2>3, <2>4
<1> HIDE DEF e
<1>7. ASSUME NEW d \in 1..Len(e), d >= n + 1
      PROVE  /\ IsDecl(e[d]) /\ Ordered(e, d) /\ (e[d].kind = "unit" => d <= n + 1)
             /\ Refers(e, d) \subseteq {0} \cup (n + 1)..Len(e)
  <2>1. NoQual.decl = 0
    BY DEF NoQual, Qual
  <2>2. CASE d = n + 1
    <3>1. e[d] = root
      BY <1>6, <2>2
    <3>2. Ordered(e, d)
      BY <1>2, <1>4, <2>2, <3>1 DEF Ordered
    <3>3. Refers(e, d) \subseteq {0}
      BY <1>4, <2>1, <3>1 DEF Refers
    <3> QED
      BY <1>2, <1>4, <2>2, <3>1, <3>2, <3>3
  <2>3. CASE d # n + 1
    <3> DEFINE k == d - (n + 1)
    <3>1. k \in 1..Len(s) /\ d = n + 1 + k
      <4>1. /\ n \in Nat /\ Len(s) \in Nat /\ Len(e) = n + 1 + Len(s)
            /\ d \in 1..Len(e) /\ d >= n + 1 /\ d # n + 1
        BY <1>2, <1>5, <1>6, <1>7, <2>3
      <4> HIDE DEF n
      <4> QED
        BY <4>1
    <3> HIDE DEF k
    <3>2. e[d] = s[k]
      BY <1>6, <3>1
    <3>3. /\ IsDecl(s[k]) /\ s[k].kind # "unit"
          /\ s[k].members = << >> /\ s[k].params = << >> /\ s[k].type = NoQual
      BY <1>5, <3>1
    <3>4. s[k].parent \in (n + 1)..Len(e) /\ s[k].parent < d
      BY <1>2, <1>5, <1>6, <3>1
    <3>5. \A q \in DOMAIN s[k].protocols : s[k].protocols[q] \in (n + 3)..Len(e)
      BY <1>5, <1>6, <3>1
    <3>6. \A q \in DOMAIN s[k].protocols : s[k].protocols[q] > d
      <4>1. CASE k = 1
        BY <1>2, <3>1, <3>5, <4>1
      <4>2. CASE k # 1
        <5>1. s[k].protocols = << >>
          BY <1>5, <3>1, <4>2
        <5> QED
          BY <5>1
      <4> QED
        BY <4>1, <4>2
    <3>7. Ordered(e, d)
      BY <3>2, <3>3, <3>4, <3>6 DEF Ordered
    <3>8. Refers(e, d) \subseteq {0} \cup (n + 1)..Len(e)
      BY <1>2, <2>1, <3>2, <3>3, <3>4, <3>5 DEF Refers
    <3> QED
      BY <3>2, <3>3, <3>7, <3>8
  <2> QED
    BY <2>2, <2>3
<1>8. Good(e, n + 1)
  <2>1. /\ Good(decls, unit) /\ Len(e) >= Len(decls) /\ n + 1 = Len(decls) + 1
        /\ n + 1 <= Len(e) /\ \A d \in 1..Len(decls) : d < n + 1 => e[d] = decls[d]
    BY <1>2, <1>5, <1>6 DEF IInv
  <2> HIDE DEF n
  <2> QED
    BY <1>6, <1>7, <2>1, Growing
<1>9. ASSUME NEW k \in DOMAIN printed
      PROVE  /\ printed[k].unit \in 1..(n + 1) /\ printed[k].unit < n + 1
             /\ Text(e, printed[k].unit) = printed[k].text
  <2> DEFINE w == printed[k].unit
  <2>1. w \in 1..unit /\ Text(decls, w) = printed[k].text
    BY DEF IInv, Past
  <2>2. w \in 1..n
    BY <1>2, <2>1
  <2>3. \A d \in 1..n :
          e[d] = decls[d] /\ Refers(decls, d) \subseteq 0..n /\ Ordered(decls, d)
    BY <1>2, <1>6 DEF IInv, Good
  <2> HIDE DEF n, w
  <2>4. Text(e, w) = Text(decls, w)
    BY <1>2, <2>2, <2>3, TextKept
  <2> QED
    BY <1>2, <2>1, <2>2, <2>4 DEF w
<1>10. Good(decls, unit)'
  BY <1>1, <1>8
<1>11. Past(decls, unit)'
  BY <1>1, <1>9 DEF Past
<1>12. Objects' = Objects /\ Obj' = Obj /\ Len(Members(Obj)) \in Nat
  BY <1>1, <1>3, MembersOf DEF Objects, Obj
<1>13. Control'
  BY <1>1, <1>2, <1>5, <1>6, <1>12 DEF IInv, Control, Phases, callVars, Container
<1> QED
  BY <1>10, <1>11, <1>13 DEF IInv

(***************************************************************************)
(* The theorems.                                                           *)
(***************************************************************************)
LEMMA Starting == Init => IInv
<1> SUFFICES ASSUME Init PROVE IInv
  OBVIOUS
<1>1. IsSeq(<< >>)
  BY DEF IsSeq
<1>2. /\ metadata \in Metadatas /\ decls = << >> /\ unit = 0 /\ method = 0
      /\ phase = "idle" /\ scope = 0 /\ qual.decl = 0 /\ printed = << >>
  BY DEF Init, NoQual, Qual
<1>3. Control
  BY <1>1, <1>2, Sizes DEF Control, Phases
<1>4. Good(decls, unit)
  BY <1>1, <1>2 DEF Good
<1>5. Past(decls, unit)
  BY <1>2 DEF Past
<1> QED
  BY <1>3, <1>4, <1>5 DEF IInv

LEMMA Stepping == IInv /\ [Next]_vars => IInv'
<1> SUFFICES ASSUME IInv, [Next]_vars PROVE IInv'
  OBVIOUS
<1>1. CASE Generate \/ AddObject \/ PrintUnit
  BY <1>1, Generating, AddingObject, Printing
<1>2. CASE BeginMethod \/ MethodHead \/ SelfParam \/ BeginParam \/ TakeParam \/ EndMethod
  BY <1>2, BeginningMethod, DeclaringMethod, TakingSelf, BeginningParam, TakingParam,
     EndingMethod
<1>3. CASE BeginIvar \/ TakeIvar \/ UnresolvedIvar \/ UntypedIvar \/ DeclProperty
  BY <1>3, BeginningIvar, TakingIvar, LeavingIvar, DeclaringNSObject, DeclaringProperty
<1>4. CASE DereferenceNull \/ WrappedType \/ BuiltinType \/ RecordType \/ ObjectType
  BY <1>4, Crashing, Wrapping, AnsweringBuiltin, AnsweringRecord, AnsweringObject
<1>5. CASE UNCHANGED vars
  <2>1. /\ UNCHANGED <<metadata, decls, unit, at, method, phase, scope, qual, printed>>
    BY <1>5 DEF vars, callVars
  <2>2. Control'
    BY <2>1, Fixed DEF IInv, Control
  <2>3. Good(decls, unit)' /\ Past(decls, unit)'
    BY <2>1 DEF IInv, Past
  <2> QED
    BY <2>2, <2>3 DEF IInv
<1> QED
  BY <1>1, <1>2, <1>3, <1>4, <1>5 DEF Next

LEMMA Invariance == Spec => []IInv
BY Starting, Stepping, PTL DEF Spec

\* Whatever the protocols and classes are: a declaration of the ASTContext
\* refers to declarations, after its parent and before its members, and the
\* loops over the members (ASTGen.cpp:103-127, 339-380) end with them.
THEOREM AstTypes == Spec => []TypeOK
<1>1. IInv => TypeOK
  <2> SUFFICES ASSUME IInv PROVE TypeOK
    OBVIOUS
  <2>1. \A d \in DOMAIN decls : d \in 1..Len(decls)
    BY Present, Sequence
  <2>2. ASSUME NEW d \in DOMAIN decls
        PROVE  /\ Refers(decls, d) \subseteq 0..Len(decls) /\ decls[d].parent < d
               /\ \A k \in DOMAIN decls[d].members : decls[d].members[k] > d
    <3>1. d \in 1..Len(decls) /\ Ordered(decls, d)
      BY <2>1 DEF IInv, Good
    <3>2. Refers(decls, d) \subseteq 0..(unit - 1) \/ Refers(decls, d) \subseteq {0} \cup unit..Len(decls)
      BY <3>1, Present DEF IInv, Good
    <3> QED
      BY <3>1, <3>2, Present DEF Ordered
  <2>3. phase \notin {"idle", "crashed"} => at <= Len(Members(Obj)) + 1
    BY Present DEF IInv, Control
  <2> QED
    BY <2>2, <2>3, Present DEF TypeOK, IInv, Control, Phases
<1> QED
  BY <1>1, Invariance, PTL

\* search() (ASTGen.cpp:38-45) looks in a declaration and in those around it, so
\* that the units of all objects are apart in the one ASTContext of the process
\* (ASTGen.cpp:92, utils.cpp:60-75).
THEOREM UnitsApart == Spec => []OwnUnit
<1>1. IInv => OwnUnit
  <2> SUFFICES ASSUME IInv, NEW d \in DOMAIN decls, NEW r \in Refers(decls, d) \ {0},
                      NEW u \in DOMAIN decls, decls[u].kind = "unit"
               PROVE  u <= d <=> u <= r
    BY DEF OwnUnit
  <2>1. d \in 1..Len(decls) /\ u \in 1..Len(decls)
    BY Present, Sequence
  <2>2. Refers(decls, d) \subseteq 0..(unit - 1) \/ Refers(decls, d) \subseteq {0} \cup unit..Len(decls)
    BY <2>1, Present DEF IInv, Good
  <2>3. r \in 1..Len(decls)
    BY <2>2, Present
  <2> QED
    BY <2>1, <2>3 DEF IInv, Good
<1> QED
  BY <1>1, Invariance, PTL

\* What generate() printed of an object stays what it would print of it,
\* however many objects to_decl (Metadata.cpp:34-47) declares after it.
THEOREM PrintsStay == Spec => []Reprints
<1>1. IInv => Reprints
  BY DEF IInv, Past, Reprints
<1> QED
  BY <1>1, Invariance, PTL

(***************************************************************************)
(* What is below the pointers and arrays of a type. Inner is a recursive   *)
(* function of a number, so induction on numbers is needed: a set with 0   *)
(* and the successor of each of its members below n has all up to n, since *)
(* counting on would map it one to one into itself without 0 otherwise.    *)
(***************************************************************************)
LEMMA UpTo ==
  ASSUME NEW n \in Nat, NEW S, 0 \in S, \A k \in S : k \in 0..(n - 1) => k + 1 \in S
  PROVE  0..n \subseteq S
<1> SUFFICES ASSUME NEW j \in 0..n, j \notin S PROVE FALSE
  OBVIOUS
<1> DEFINE T == S \cap 0..j
           f == [k \in T |-> k + 1]
<1>1. IsFiniteSet(0..j) /\ T \in SUBSET (0..j)
  BY FS_Interval
<1>2. IsFiniteSet(T)
  BY <1>1, FS_Subset
<1>3. 0 \in T
  OBVIOUS
<1>4. IsFiniteSet(T \ {0}) /\ Cardinality(T \ {0}) = Cardinality(T) - 1
  BY <1>2, <1>3, FS_RemoveElement
<1>5. Cardinality(T) \in Nat
  BY <1>2, FS_CardinalityType
<1>6. ASSUME NEW k \in T PROVE k + 1 \in T \ {0}
  <2>1. k \in 0..j /\ k \in S /\ k # j
    OBVIOUS
  <2>2. k \in 0..(n - 1) /\ k + 1 \in 0..j
    BY <2>1
  <2> QED
    BY <2>1, <2>2
<1>7. f \in [T -> T \ {0}]
  BY <1>6
<1> HIDE DEF T
<1>8. Cardinality(T \ {0}) < Cardinality(T)
  BY <1>4, <1>5
<1>9. \E x, y \in T : x # y /\ f[x] = f[y]
  <2> HIDE DEF f
  <2> QED
    BY <1>2, <1>4, <1>7, <1>8, FS_PigeonHole
<1> QED
  BY <1>9 DEF T

Chain(h, t, n) == h[0] = t /\ \A i \in 1..n : h[i] = h[i - 1].subs[1].type

LEMMA ChainExists ==
  ASSUME NEW t, NEW n \in Nat
  PROVE  \E h : Chain(h, t, n)
<1> DEFINE S == {k \in 0..n : \E h : Chain(h, t, k)}
<1>1. 0 \in S
  <2> DEFINE h == [i \in 0..0 |-> t]
  <2>1. Chain(h, t, 0)
    BY DEF Chain
  <2> QED
    BY <2>1
<1>2. ASSUME NEW k \in S, k \in 0..(n - 1) PROVE k + 1 \in S
  <2>1. PICK h : Chain(h, t, k)
    OBVIOUS
  <2> DEFINE x == h[k].subs[1].type
             g == [i \in 0..(k + 1) |-> IF i = k + 1 THEN x ELSE h[i]]
  <2>2. g[0] = t /\ g[k + 1] = x /\ g[k] = h[k]
    BY <2>1 DEF Chain
  <2>3. \A i \in 1..k : g[i] = h[i] /\ g[i - 1] = h[i - 1]
    OBVIOUS
  <2> HIDE DEF g
  <2>4. \A i \in 1..k : g[i] = g[i - 1].subs[1].type
    BY <2>1, <2>3 DEF Chain
  <2>5. ASSUME NEW i \in 1..(k + 1) PROVE g[i] = g[i - 1].subs[1].type
    <3>1. CASE i = k + 1
      <4>1. i - 1 = k
        BY <3>1
      <4> QED
        BY <2>2, <3>1, <4>1
    <3>2. CASE i \in 1..k
      BY <2>4, <3>2
    <3> QED
      BY <3>1, <3>2
  <2>6. Chain(g, t, k + 1)
    BY <2>2, <2>5 DEF Chain
  <2> QED
    BY <1>2, <2>6
<1>3. 0..n \subseteq S
  <2> HIDE DEF S
  <2> QED
    BY <1>1, <1>2, UpTo
<1> QED
  BY <1>3

LEMMA ChainsAgree ==
  ASSUME NEW t, NEW n \in Nat, NEW g, Chain(g, t, n), NEW h, Chain(h, t, n)
  PROVE  g[n] = h[n]
<1> DEFINE S == {k \in 0..n : g[k] = h[k]}
<1>1. 0 \in S
  BY DEF Chain
<1>2. ASSUME NEW k \in S, k \in 0..(n - 1) PROVE k + 1 \in S
  <2>1. k + 1 \in 1..n /\ (k + 1) - 1 = k /\ k + 1 \in 0..n
    BY <1>2
  <2>2. g[k + 1] = g[k].subs[1].type /\ h[k + 1] = h[k].subs[1].type
    BY <2>1 DEF Chain
  <2> QED
    BY <2>1, <2>2
<1>3. 0..n \subseteq S
  <2> HIDE DEF S
  <2> QED
    BY <1>1, <1>2, UpTo
<1> QED
  BY <1>3

LEMMA InnerIs ==
  ASSUME NEW t
  PROVE  /\ Inner(t)[0] = t
         /\ \A n \in Nat : Inner(t)[n + 1] = Inner(t)[n].subs[1].type
<1> DEFINE C(n) == CHOOSE h : Chain(h, t, n)
           f == [n \in Nat |-> C(n)[n]]
           step(g) == [n \in Nat |-> IF n = 0 THEN t ELSE g[n - 1].subs[1].type]
<1>1. \A n \in Nat : Chain(C(n), t, n)
  BY ChainExists
<1>2. ASSUME NEW n \in Nat PROVE f[n] = IF n = 0 THEN t ELSE f[n - 1].subs[1].type
  <2>1. CASE n = 0
    BY <1>1, <2>1 DEF Chain
  <2>2. CASE n # 0
    <3>1. n - 1 \in Nat /\ n \in 1..n /\ \A i \in 1..(n - 1) : i \in 1..n
      BY <2>2
    <3>2. Chain(C(n), t, n) /\ Chain(C(n - 1), t, n - 1)
      BY <1>1, <3>1
    <3> HIDE DEF C
    <3>3. Chain(C(n), t, n - 1)
      BY <3>1, <3>2 DEF Chain
    <3>4. C(n)[n - 1] = C(n - 1)[n - 1]
      BY <3>1, <3>2, <3>3, ChainsAgree
    <3>5. C(n)[n] = C(n)[n - 1].subs[1].type
      BY <3>1, <3>2 DEF Chain
    <3> QED
      BY <2>2, <3>1, <3>4, <3>5
  <2> QED
    BY <2>1, <2>2
<1>3. f = step(f)
  <2> HIDE DEF C
  <2> QED
    BY <1>2
<1>4. Inner(t) = CHOOSE g : g = step(g)
  BY DEF Inner
<1> HIDE DEF f
<1>5. Inner(t) = step(Inner(t))
  <2> DEFINE P(g) == g = step(g)
  <2>1. P(f)
    BY <1>3
  <2> HIDE DEF P
  <2>2. P(CHOOSE g : P(g))
    BY <2>1
  <2> QED
    BY <1>4, <2>2 DEF P
<1>6. ASSUME NEW n \in Nat
      PROVE  Inner(t)[n] = IF n = 0 THEN t ELSE Inner(t)[n - 1].subs[1].type
  BY <1>5
<1> HIDE DEF step
<1>7. ASSUME NEW n \in Nat PROVE Inner(t)[n + 1] = Inner(t)[n].subs[1].type
  <2>1. n + 1 \in Nat /\ n + 1 # 0 /\ (n + 1) - 1 = n
    OBVIOUS
  <2> QED
    BY <1>6, <2>1
<1> QED
  BY <1>6, <1>7

LEMMA LayersIs ==
  ASSUME NEW t, NEW n \in Nat
  PROVE  IsSeq(Layers(t, n)) /\ Len(Layers(t, n)) = n
<1> DEFINE s == Layers(t, n)
           R == {s[k] : k \in 1..n}
<1>1. s \in [1..n -> R]
  BY DEF Layers
<1>2. s \in Seq(R) /\ Len(s) = n
  BY <1>1
<1> QED
  BY <1>2, Widening

\* One layer more.
LEMMA LayersMore ==
  ASSUME NEW t, NEW n \in Nat, Below(t, n), Wraps(Inner(t)[n])
  PROVE  /\ Below(t, n + 1)
         /\ Layers(t, n + 1)
              = Append(Layers(t, n), Layer(Inner(t)[n].type, Inner(t)[n].dim))
<1> DEFINE x == Inner(t)[n]
           a == Layers(t, n)
           b == Layers(t, n + 1)
           c == Append(a, Layer(x.type, x.dim))
<1>1. Below(t, n + 1)
  <2> SUFFICES ASSUME NEW k \in 1..(n + 1) PROVE Wraps(Inner(t)[k - 1])
    BY DEF Below
  <2>1. k \in 1..n \/ k - 1 = n
    OBVIOUS
  <2> QED
    BY <2>1 DEF Below
<1>2. IsSeq(a) /\ Len(a) = n
  BY LayersIs
<1>3. /\ IsSeq(c) /\ Len(c) = n + 1 /\ c[n + 1] = Layer(x.type, x.dim)
      /\ \A k \in 1..n : c[k] = a[k]
  BY <1>2, Appending
<1>4. IsSeq(b) /\ Len(b) = n + 1
  BY LayersIs
<1>5. /\ \A k \in 1..n : a[k] = Layer(Inner(t)[k - 1].type, Inner(t)[k - 1].dim)
      /\ \A k \in 1..(n + 1) : b[k] = Layer(Inner(t)[k - 1].type, Inner(t)[k - 1].dim)
  BY DEF Layers
<1>6. b[n + 1] = Layer(x.type, x.dim)
  <2>1. n + 1 \in 1..(n + 1) /\ (n + 1) - 1 = n
    OBVIOUS
  <2> QED
    BY <1>5, <2>1
<1> HIDE DEF a, b, c, x
<1>7. \A k \in 1..(n + 1) : b[k] = c[k]
  BY <1>3, <1>5, <1>6
<1>8. DOMAIN b = 1..(n + 1) /\ DOMAIN c = 1..(n + 1)
  BY <1>3, <1>4, Sequence
<1>9. b = c
  <2>1. b = [k \in 1..(n + 1) |-> b[k]] /\ c = [k \in 1..(n + 1) |-> c[k]]
    BY <1>3, <1>4, <1>8 DEF IsSeq
  <2> QED
    BY <1>7, <2>1
<1> QED
  BY <1>1, <1>9 DEF a, b, c, x

\* The type at the core, wrapped in what is around it.
LEMMA Wrapped ==
  ASSUME NEW t, NEW n \in Nat, Below(t, n), ~ Wraps(Inner(t)[n]),
         NEW s, s = [Core(Inner(t)[n]) EXCEPT !.wraps = Layers(t, n) \o @]
  PROVE  Says(s, t)
<1> DEFINE c == Core(Inner(t)[n])
           a == Layers(t, n)
<1>1. IsSeq(c.wraps) /\ s.wraps = a \o c.wraps
  <2>1. \E w, b, m : (w = << >> \/ w = <<PointerLayer>>) /\ c = Shown(w, b, m)
    BY DEF Core
  <2>2. PICK w, b, m : (w = << >> \/ w = <<PointerLayer>>) /\ c = Shown(w, b, m)
    BY <2>1
  <2>3. c.wraps = w /\ s.wraps = a \o w
    BY <2>2 DEF Shown
  <2>4. IsSeq(<< >>)
    BY DEF IsSeq
  <2> QED
    BY <2>2, <2>3, <2>4, Single
<1>2. IsSeq(a) /\ Len(a) = n
  BY LayersIs
<1> HIDE DEF a, c
<1>3. Len(s.wraps) = n + Len(c.wraps) /\ Len(c.wraps) \in Nat
  BY <1>1, <1>2, Joining, Sequence
<1>4. n \in 0..Len(s.wraps)
  BY <1>3
<1> QED
  BY <1>4 DEF Says

(***************************************************************************)
(* What declarations say stays as long as they do, and the names of all.   *)
(***************************************************************************)
SameNames(ds, e) ==
  Len(e) >= Len(ds) /\ \A d \in 1..Len(ds) : e[d].name = ds[d].name

LEMMA TypeStays ==
  ASSUME NEW ds, NEW e, SameNames(ds, e), Len(ds) \in Nat, NEW q, q.decl \in 0..Len(ds)
  PROVE  ShownType(e, q) = ShownType(ds, q)
<1>1. q.decl = 0 \/ e[q.decl].name = ds[q.decl].name
  BY DEF SameNames
<1> QED
  BY <1>1 DEF ShownType

LEMMA RefersWithin ==
  ASSUME NEW ds, NEW u, Good(ds, u), NEW d \in 1..Len(ds)
  PROVE  /\ Len(ds) \in Nat /\ Refers(ds, d) \subseteq 0..Len(ds)
         /\ IsSeq(ds[d].members) /\ IsSeq(ds[d].params)
<1>1. Len(ds) \in Nat /\ u \in 0..Len(ds)
  BY Sequence DEF Good
<1>2. Refers(ds, d) \subseteq 0..(u - 1) \/ Refers(ds, d) \subseteq {0} \cup u..Len(ds)
  BY <1>1 DEF Good
<1> QED
  BY <1>1, <1>2 DEF Good, IsDecl

LEMMA MemberStays ==
  ASSUME NEW ds, NEW u, Good(ds, u), NEW e, SameNames(ds, e), NEW d \in 1..Len(ds),
         e[d] = ds[d]
  PROVE  ShownMember(e, d) = ShownMember(ds, d)
<1>1. Len(ds) \in Nat /\ Refers(ds, d) \subseteq 0..Len(ds)
  BY RefersWithin
<1>2. /\ ds[d].type.decl \in 0..Len(ds)
      /\ \A k \in DOMAIN ds[d].params : ds[d].params[k].type.decl \in 0..Len(ds)
  BY <1>1 DEF Refers
<1>3. ShownType(e, ds[d].type) = ShownType(ds, ds[d].type)
  BY <1>1, <1>2, TypeStays
<1>4. \A k \in DOMAIN ds[d].params :
        ShownType(e, ds[d].params[k].type) = ShownType(ds, ds[d].params[k].type)
  BY <1>1, <1>2, TypeStays
<1> QED
  BY <1>3, <1>4 DEF ShownMember

\* The object of declaration c is o, and its protocols are those of o.
HeadSays(ds, c, o) ==
  /\ ds[c].kind = o.kind /\ ds[c].name = o.name
  /\ DOMAIN ds[c].protocols = DOMAIN o.protocols
  /\ \A q \in DOMAIN o.protocols :
       /\ ds[c].protocols[q] \in 1..Len(ds)
       /\ ds[ds[c].protocols[q]].name = o.protocols[q]

\* Its members are the first n of o.
MembersSay(ds, c, o, n) ==
  /\ Len(ds[c].members) = n
  /\ \A j \in 1..n : /\ ds[c].members[j] \in (c + 1)..Len(ds)
                     /\ SaysMember(ShownMember(ds, ds[c].members[j]), o, j)

LEMMA HeadStays ==
  ASSUME NEW ds, NEW e, SameNames(ds, e), Len(ds) \in Nat, Len(e) \in Nat,
         NEW c \in 1..Len(ds), NEW o, HeadSays(ds, c, o),
         e[c].kind = ds[c].kind, e[c].protocols = ds[c].protocols
  PROVE  HeadSays(e, c, o)
  BY DEF HeadSays, SameNames

\* Members that stay, of a declaration that has them still.
LEMMA MembersStay ==
  ASSUME NEW ds, NEW u, Good(ds, u), NEW e, SameNames(ds, e), Len(e) \in Nat,
         NEW c \in 1..Len(ds), NEW o, NEW n \in Nat, MembersSay(ds, c, o, n),
         \A j \in 1..n : e[ds[c].members[j]] = ds[ds[c].members[j]]
  PROVE  \A j \in 1..n : /\ ds[c].members[j] \in (c + 1)..Len(e)
                         /\ SaysMember(ShownMember(e, ds[c].members[j]), o, j)
<1>1. Len(ds) \in Nat /\ Len(e) >= Len(ds)
  BY RefersWithin DEF SameNames
<1> TAKE j \in 1..n
<1> DEFINE d == ds[c].members[j]
<1>2. d \in (c + 1)..Len(ds) /\ SaysMember(ShownMember(ds, d), o, j) /\ e[d] = ds[d]
  BY DEF MembersSay
<1> HIDE DEF d
<1>3. d \in 1..Len(ds) /\ d \in (c + 1)..Len(e)
  BY <1>1, <1>2
<1>4. ShownMember(e, d) = ShownMember(ds, d)
  BY <1>2, <1>3, MemberStays
<1> QED
  BY <1>2, <1>3, <1>4 DEF d

LEMMA SameMembers ==
  ASSUME NEW ds, NEW u, Good(ds, u), NEW e, SameNames(ds, e), Len(e) \in Nat,
         NEW c \in 1..Len(ds), NEW o, NEW n \in Nat, MembersSay(ds, c, o, n),
         \A j \in 1..n : e[ds[c].members[j]] = ds[ds[c].members[j]],
         e[c].members = ds[c].members
  PROVE  MembersSay(e, c, o, n)
<1>1. \A j \in 1..n : /\ ds[c].members[j] \in (c + 1)..Len(e)
                      /\ SaysMember(ShownMember(e, ds[c].members[j]), o, j)
  BY MembersStay
<1> QED
  BY <1>1 DEF MembersSay

LEMMA OneMember ==
  ASSUME NEW ds, NEW u, Good(ds, u), NEW e, SameNames(ds, e), Len(e) \in Nat,
         NEW c \in 1..Len(ds), NEW o, NEW n \in Nat, MembersSay(ds, c, o, n),
         \A j \in 1..n : e[ds[c].members[j]] = ds[ds[c].members[j]],
         NEW d \in (c + 1)..Len(e), e[c].members = Append(ds[c].members, d),
         SaysMember(ShownMember(e, d), o, n + 1)
  PROVE  MembersSay(e, c, o, n + 1)
<1> DEFINE s == ds[c].members
<1>1. IsSeq(s) /\ Len(s) = n
  BY RefersWithin DEF MembersSay
<1>2. /\ Len(e[c].members) = n + 1 /\ e[c].members[n + 1] = d
      /\ \A j \in 1..n : e[c].members[j] = s[j]
  BY <1>1, Appending
<1>3. \A j \in 1..n : s[j] \in (c + 1)..Len(e) /\ SaysMember(ShownMember(e, s[j]), o, j)
  BY MembersStay
<1> HIDE DEF s
<1>4. \A j \in 1..(n + 1) : j \in 1..n \/ j = n + 1
  OBVIOUS
<1> QED
  BY <1>2, <1>3, <1>4 DEF MembersSay

(***************************************************************************)
(* What is told of the object that is being declared.  No type in a member *)
(* may have the name of an ivar or a property before it: search() would    *)
(* find that one, and print() show void * or the type it finds instead.    *)
(***************************************************************************)
TypeNamed(t, name) ==
  \E n \in Nat : /\ Below(t, n) /\ Inner(t)[n].type \in Records \cup {"@"}
                 /\ name = NameOf(Inner(t)[n])
Untyped(m) == m.kind = "ivar" /\ ~ m.encoded
Mentions(m, name) ==
  \/ Untyped(m) /\ name = NSObject
  \/ m.kind # "property" /\ \E k \in 1..Len(m.types) : TypeNamed(m.types[k], name)
DistinctNames(o) ==
  \A i, j \in 1..Len(Members(o)) :
    i < j /\ Members(o)[i].kind # "method" => ~ Mentions(Members(o)[j], Members(o)[i].name)
OwnNames == \A k \in 1..Len(Objects) : DistinctNames(Objects[k])

\* The object o of unit u has its first n members.
Drawn(ds, u, o, n) ==
  /\ HeadSays(ds, u + 1, o) /\ MembersSay(ds, u + 1, o, n)
  /\ ds[u + 1].parent = u /\ ds[u].parent = 0

\* Declaration d is the method j of o, with some of its parameters.
MethodSays(ds, d, c, o, j) ==
  LET m == Members(o)[j]
      params == Prototype(m.types).params
      told == ShownMember(ds, d)
  IN  /\ ds[d].kind = "method" /\ ds[d].name = m.name
      /\ ds[d].parent = c /\ ds[d].members = << >> /\ ds[d].instance = m.instance
      /\ Says(told.type, Prototype(m.types).rtype)
      /\ Len(ds[d].params) <= Len(params)
      /\ \A k \in 1..Len(ds[d].params) : SaysParam(told.params[k], o, k, params[k])

ObjectTold ==
  /\ Drawn(decls, unit, Obj, at - 1)
  /\ decls[unit].members = IF phase = "print" THEN <<Container>> ELSE << >>
  /\ phase = "print" => at = Len(Members(Obj)) + 1
MethodTold ==
  method # 0 =>
    /\ MethodSays(decls, method, Container, Obj, at)
    /\ \A j \in 1..(at - 1) : decls[Container].members[j] < method

\* The type that get_qtype() was asked for, and where.
AskedType ==
  IF method # 0 THEN Params[Param]
  ELSE IF Member.kind = "method" THEN Prototype(Member.types).rtype
  ELSE Member.types[1]
Asker ==
  /\ scope = IF method = 0 THEN Container ELSE method
  /\ method = 0 => \/ Member.kind = "method"
                   \/ Member.kind = "ivar" /\ Member.encoded /\ Len(Member.types) = 1
  /\ method # 0 => Param <= Len(Params) /\ ~ (IsSelf /\ InClass)
Reached == \E n \in Nat :
  Below(AskedType, n) /\ wraps = Layers(AskedType, n) /\ arg = Inner(AskedType)[n]

Telling ==
  /\ ObjectTold /\ MethodTold
  /\ phase \in {"qtype", "typed"} => Asker
  /\ phase = "qtype" => Reached
  /\ phase = "typed" => Says(ShownType(decls, qual), AskedType)

LEMMA PrototypeIs ==
  ASSUME NEW s, IsSeq(s)
  PROVE  /\ s = << >> => Prototype(s) = [rtype |-> Null, params |-> << >>]
         /\ s # << >> => Prototype(s).rtype = s[1] /\ Len(s) >= 1
         /\ IsSeq(Prototype(s).params) /\ Len(Prototype(s).params) \in Nat
         /\ \A k \in 1..Len(Prototype(s).params) :
              k + 1 \in 1..Len(s) /\ Prototype(s).params[k] = s[k + 1]
<1> DEFINE R == {s[k] : k \in DOMAIN s}
<1>1. s \in Seq(R)
  BY DEF IsSeq
<1> HIDE DEF R
<1>2. CASE s = << >>
  <2>1. Prototype(s) = [rtype |-> Null, params |-> << >>] /\ IsSeq(<< >>)
    BY <1>2 DEF Prototype, IsSeq
  <2> QED
    BY <1>2, <2>1
<1>3. CASE s # << >>
  <2>1. Prototype(s).rtype = Head(s) /\ Prototype(s).params = Tail(s)
    BY <1>3 DEF Prototype
  <2>2. Tail(s) \in Seq(R) /\ Len(Tail(s)) = Len(s) - 1 /\ Len(s) >= 1 /\ Head(s) = s[1]
        /\ Len(s) \in Nat
    BY <1>1, <1>3
  <2>3. \A k \in 1..Len(Tail(s)) : k + 1 \in 1..Len(s) /\ Tail(s)[k] = s[k + 1]
    BY <1>1, <1>3, <2>2
  <2>4. IsSeq(Tail(s))
    BY <2>2, Widening
  <2> QED
    BY <1>3, <2>1, <2>2, <2>3, <2>4
<1> QED
  BY <1>2, <1>3

LEMMA KindsOf ==
  ASSUME metadata \in Metadatas, NEW k \in 1..Len(Objects), NEW j \in 1..Len(Members(Objects[k]))
  PROVE  LET m == Members(Objects[k])[j]
         IN  /\ m.kind \in {"method", "ivar", "property"}
             /\ m.kind # "property" => IsSeq(m.types)
<1> DEFINE p == metadata.protocols
           c == metadata.classes
           o == Objects[k]
<1>1. IsSeq(p) /\ IsSeq(c) /\ Len(p) \in Nat /\ Len(c) \in Nat
      /\ DOMAIN p = 1..Len(p) /\ DOMAIN c = 1..Len(c)
  BY MetadatasAssumption, Sequence
<1>2. Objects = p \o c
  BY DEF Objects
<1>3. /\ Len(Objects) = Len(p) + Len(c)
      /\ \A q \in 1..Len(p) : Objects[q] = p[q]
      /\ \A q \in 1..Len(c) : Objects[Len(p) + q] = c[q]
  <2> HIDE DEF p, c
  <2> QED
    BY <1>1, <1>2, Joining
<1>4. k \in 1..Len(p) \/ (k - Len(p) \in 1..Len(c) /\ k = Len(p) + (k - Len(p)))
  <2> HIDE DEF p, c, o
  <2> QED
    BY <1>1, <1>3
<1>5. (\E q \in DOMAIN p : o = p[q]) \/ (\E q \in DOMAIN c : o = c[q])
  BY <1>1, <1>3, <1>4
<1>6. IsObject(o)
  BY <1>1, <1>5, MetadatasAssumption
<1>7. DOMAIN Members(o) = 1..Len(Members(o))
  <2>1. IsSeq(o.optional \o o.methods)
    BY <1>6, Joining DEF IsObject
  <2>2. IsSeq((o.optional \o o.methods) \o o.ivars)
    BY <1>6, <2>1, Joining DEF IsObject
  <2>3. IsSeq(((o.optional \o o.methods) \o o.ivars) \o o.properties)
    BY <1>6, <2>2, Joining DEF IsObject
  <2> QED
    BY <2>3, Sequence DEF Members
<1>8. j \in DOMAIN Members(o)
  BY <1>7
<1> HIDE DEF o
<1>9. \A list \in {p, c} : \A i \in DOMAIN list : \A x \in DOMAIN Members(list[i]) :
        LET m == Members(list[i])[x]
        IN  /\ m.kind \in {"method", "ivar", "property"}
            /\ m.kind # "property" => IsSeq(m.types)
  BY TypesAssumption
<1> HIDE DEF p, c
<1>10. LET m == Members(o)[j]
       IN  /\ m.kind \in {"method", "ivar", "property"}
           /\ m.kind # "property" => IsSeq(m.types)
  BY <1>5, <1>8, <1>9
<1> QED
  BY <1>10 DEF o

LEMMA MemberIs ==
  ASSUME IInv, phase # "idle", at <= Len(Members(Obj))
  PROVE  /\ at \in 1..Len(Members(Obj)) /\ Len(printed) + 1 \in 1..Len(Objects)
         /\ Obj = Objects[Len(printed) + 1] /\ Member = Members(Obj)[at]
         /\ Member.kind \in {"method", "ivar", "property"}
         /\ Member.kind # "property" => IsSeq(Member.types)
<1>1. metadata \in Metadatas /\ Len(printed) < Len(Objects) /\ at \in 1..(Len(Members(Obj)) + 1)
  BY DEF IInv, Control
<1>2. Len(printed) \in Nat /\ Len(Members(Obj)) \in Nat
  BY Present
<1>3. at \in 1..Len(Members(Obj)) /\ Len(printed) + 1 \in 1..Len(Objects)
  BY <1>1, <1>2, Sizes
<1>4. Obj = Objects[Len(printed) + 1] /\ Member = Members(Obj)[at]
  BY DEF Obj, Member
<1> QED
  BY <1>1, <1>3, <1>4, KindsOf

\* A type that a member asks for is of a name that the member mentions.
LEMMA AskedMentioned ==
  ASSUME IInv, phase = "qtype", Asker, Reached, arg.type \in Records \cup {"@"}
  PROVE  Mentions(Member, NameOf(arg))
<1>1. at <= Len(Members(Obj))
  BY DEF IInv, Control
<1>2. /\ Member.kind \in {"method", "ivar", "property"}
      /\ Member.kind # "property" => IsSeq(Member.types)
  BY <1>1, MemberIs
<1>3. PICK n \in Nat : Below(AskedType, n) /\ arg = Inner(AskedType)[n]
  BY DEF Reached
<1>4. TypeNamed(AskedType, NameOf(arg))
  BY <1>3 DEF TypeNamed
<1>5. Member.kind # "property" /\ IsSeq(Member.types)
  BY <1>2 DEF Asker, IInv, Control
<1>6. AskedType = Null \/ \E k \in 1..Len(Member.types) : AskedType = Member.types[k]
  <2>1. CASE method # 0
    <3>1. Len(decls) \in Nat /\ method \in 1..Len(decls)
      BY <2>1, Present DEF IInv, Control
    <3>2. IsSeq(decls[method].params)
      BY <3>1, RefersWithin DEF IInv
    <3>3. Param \in Nat /\ Param >= 1
      BY <3>2, Sequence DEF Param
    <3>4. Param \in 1..Len(Params)
      BY <1>5, <2>1, <3>3, PrototypeIs DEF Asker, Params
    <3>5. AskedType = Prototype(Member.types).params[Param]
      BY <2>1 DEF AskedType, Params
    <3>6. \A k \in 1..Len(Params) : k + 1 \in 1..Len(Member.types)
                                   /\ Prototype(Member.types).params[k] = Member.types[k + 1]
      BY <1>5, PrototypeIs DEF Params
    <3> HIDE DEF Param
    <3>7. Param + 1 \in 1..Len(Member.types) /\ AskedType = Member.types[Param + 1]
      BY <3>4, <3>5, <3>6
    <3> QED
      BY <3>7
  <2>2. CASE method = 0 /\ Member.kind = "method"
    <3>1. AskedType = Prototype(Member.types).rtype
      BY <2>2 DEF AskedType
    <3>2. Len(Member.types) \in Nat
      BY <1>5, Sequence
    <3>3. CASE Member.types = << >>
      BY <1>5, <3>1, <3>3, PrototypeIs
    <3>4. CASE Member.types # << >>
      <4>1. Prototype(Member.types).rtype = Member.types[1] /\ Len(Member.types) >= 1
        BY <1>5, <3>4, PrototypeIs
      <4>2. 1 \in 1..Len(Member.types)
        BY <3>2, <4>1
      <4> QED
        BY <3>1, <4>1, <4>2
    <3> QED
      BY <3>3, <3>4
  <2>3. CASE method = 0 /\ Member.kind # "method"
    BY <2>3 DEF AskedType, Asker
  <2> QED
    BY <2>1, <2>2, <2>3
<1>7. AskedType # Null
  <2> SUFFICES ASSUME AskedType = Null PROVE FALSE
    OBVIOUS
  <2>1. ~ Wraps(Null) /\ Null.type \notin Records \cup {"@"}
    BY DEF Wraps, Null, Ty, Records
  <2>2. CASE n = 0
    BY <1>3, <2>1, <2>2, InnerIs
  <2>3. CASE n # 0
    <3>1. 1 \in 1..n /\ 1 - 1 = 0
      BY <2>3
    <3>2. Wraps(Inner(AskedType)[0])
      BY <1>3, <3>1 DEF Below
    <3> QED
      BY <2>1, <3>2, InnerIs
  <2> QED
    BY <2>2, <2>3
<1> QED
  BY <1>4, <1>5, <1>6, <1>7 DEF Mentions

LEMMA NothingFound ==
  ASSUME IInv, OwnNames, phase \notin {"idle", "print"}, at <= Len(Members(Obj)),
         ObjectTold, MethodTold,
         NEW name, Mentions(Member, name), NEW dc, dc = IF method = 0 THEN Container ELSE method
  PROVE  Search(dc, name) = {}
<1>1. /\ at \in 1..Len(Members(Obj)) /\ Len(Members(Obj)) \in Nat
      /\ Member = Members(Obj)[at] /\ DistinctNames(Obj)
  BY MemberIs, Present DEF OwnNames
<1>2. /\ Len(decls) \in Nat /\ Container = unit + 1 /\ unit # 0 /\ unit \in 1..Len(decls)
      /\ Container \in 1..Len(decls) /\ Container # 0
  BY Present DEF IInv, Control
<1>3. /\ decls[unit].members = << >> /\ decls[Container].parent = unit
      /\ decls[unit].parent = 0 /\ MembersSay(decls, Container, Obj, at - 1)
  BY <1>2 DEF ObjectTold, Drawn
<1>4. Named(unit, name) = {} /\ Named(0, name) = {}
  BY <1>3 DEF Named
<1>5. Named(Container, name) = {}
  <2> SUFFICES ASSUME NEW j \in 1..(at - 1), decls[decls[Container].members[j]].kind # "method",
                      decls[decls[Container].members[j]].name = name
               PROVE  FALSE
    <3>1. IsSeq(decls[Container].members)
      BY <1>2, RefersWithin DEF IInv
    <3>2. DOMAIN decls[Container].members = 1..(at - 1)
      BY <1>3, <3>1, Sequence DEF MembersSay
    <3> QED
      BY <3>2 DEF Named
  <2>1. SaysMember(ShownMember(decls, decls[Container].members[j]), Obj, j)
    BY <1>3 DEF MembersSay
  <2>2. Members(Obj)[j].kind # "method" /\ Members(Obj)[j].name = name
    BY <2>1 DEF SaysMember, ShownMember
  <2>3. j \in 1..Len(Members(Obj)) /\ j < at
    BY <1>1
  <2> QED
    BY <1>1, <2>2, <2>3 DEF DistinctNames
<1>6. CASE method = 0
  <2>1. dc = Container /\ Parent(dc) = unit /\ Parent(Parent(dc)) = 0
    BY <1>2, <1>3, <1>6 DEF Parent
  <2> QED
    BY <1>4, <1>5, <2>1 DEF Search
<1>7. CASE method # 0
  <2>1. decls[method].members = << >> /\ decls[method].parent = Container
    BY <1>7 DEF MethodTold, MethodSays
  <2>2. dc = method /\ Parent(dc) = Container /\ Parent(Parent(dc)) = unit
    BY <1>2, <1>3, <1>7, <2>1 DEF Parent
  <2>3. Named(method, name) = {}
    BY <2>1 DEF Named
  <2> QED
    BY <1>4, <1>5, <2>2, <2>3 DEF Search
<1> QED
  BY <1>6, <1>7

LEMMA DrawnStays ==
  ASSUME NEW ds, NEW u \in 1..Len(ds), Good(ds, u), u + 1 \in 1..Len(ds),
         NEW o, NEW n \in Nat, Drawn(ds, u, o, n),
         NEW e, SameNames(ds, e), Len(e) \in Nat,
         e[u].parent = ds[u].parent, e[u + 1].parent = ds[u + 1].parent,
         e[u + 1].kind = ds[u + 1].kind, e[u + 1].protocols = ds[u + 1].protocols,
         e[u + 1].members = ds[u + 1].members,
         \A j \in 1..n : e[ds[u + 1].members[j]] = ds[ds[u + 1].members[j]]
  PROVE  Drawn(e, u, o, n)
<1>1. Len(ds) \in Nat
  BY Sequence DEF Good
<1>2. HeadSays(e, u + 1, o)
  <2> DEFINE c == u + 1
  <2>1. /\ c \in 1..Len(ds) /\ HeadSays(ds, c, o)
        /\ e[c].kind = ds[c].kind /\ e[c].protocols = ds[c].protocols
    BY DEF Drawn
  <2> HIDE DEF c
  <2>2. HeadSays(e, c, o)
    BY <1>1, <2>1, HeadStays
  <2> QED
    BY <2>2 DEF c
<1>3. MembersSay(e, u + 1, o, n)
  <2> DEFINE c == u + 1
  <2>1. /\ c \in 1..Len(ds) /\ MembersSay(ds, c, o, n) /\ e[c].members = ds[c].members
        /\ \A j \in 1..n : e[ds[c].members[j]] = ds[ds[c].members[j]]
    BY DEF Drawn
  <2> HIDE DEF c
  <2>2. MembersSay(e, c, o, n)
    BY <1>1, <2>1, SameMembers
  <2> QED
    BY <2>2 DEF c
<1> QED
  BY <1>2, <1>3 DEF Drawn

LEMMA MethodStays ==
  ASSUME NEW ds, NEW u, Good(ds, u), NEW d \in 1..Len(ds), NEW c, NEW o, NEW j,
         MethodSays(ds, d, c, o, j), NEW e, SameNames(ds, e), e[d] = ds[d]
  PROVE  MethodSays(e, d, c, o, j)
<1>1. ShownMember(e, d) = ShownMember(ds, d)
  BY MemberStays
<1> QED
  BY <1>1 DEF MethodSays

\* e are the declarations ds, with new ones perhaps.
Keeps(ds, e) ==
  /\ Len(e) \in Nat /\ Len(e) >= Len(ds)
  /\ \A d \in 1..Len(ds) : e[d] = ds[d]

LEMMA KeptNames ==
  ASSUME NEW ds, NEW e, Keeps(ds, e)
  PROVE  SameNames(ds, e)
BY DEF Keeps, SameNames

LEMMA AppendKeeps ==
  ASSUME NEW ds, IsSeq(ds), NEW x
  PROVE  Keeps(ds, Append(ds, x)) /\ Append(ds, x)[Len(ds) + 1] = x
         /\ Len(Append(ds, x)) = Len(ds) + 1
<1>1. Len(ds) \in Nat
  BY Sequence
<1> QED
  BY <1>1, Appending DEF Keeps

\* Where the declarations of the object are.
LEMMA Places ==
  ASSUME IInv, phase # "idle"
  PROVE  /\ IsSeq(decls) /\ Len(decls) \in Nat /\ Good(decls, unit)
         /\ unit \in 1..Len(decls) /\ Container = unit + 1
         /\ Container \in 1..Len(decls) /\ unit # Container
         /\ at - 1 \in Nat /\ at \in Nat /\ (at - 1) + 1 = at
         /\ method \in 0..Len(decls) /\ (method # 0 => method > Container)
BY Present DEF IInv, Control

LEMMA MembersPlaced ==
  ASSUME IInv, phase # "idle", ObjectTold
  PROVE  /\ IsSeq(decls[Container].members) /\ Len(decls[Container].members) = at - 1
         /\ \A j \in 1..(at - 1) : decls[Container].members[j] \in (Container + 1)..Len(decls)
<1>1. Container \in 1..Len(decls) /\ Good(decls, unit) /\ Container = unit + 1
  BY Places
<1>2. MembersSay(decls, Container, Obj, at - 1)
  BY <1>1 DEF ObjectTold, Drawn
<1> QED
  BY <1>1, <1>2, RefersWithin DEF MembersSay

\* A step that creates declarations at most, and leaves those there are.
LEMMA TellingKept ==
  ASSUME IInv, phase \notin {"idle", "print"}, phase' \notin {"idle", "print"},
         ObjectTold, MethodTold, UNCHANGED <<metadata, unit, at, method, printed>>,
         Keeps(decls, decls')
  PROVE  ObjectTold' /\ MethodTold' /\ AskedType' = AskedType
         /\ (Asker /\ scope' = scope => Asker')
<1>1. /\ Objects' = Objects /\ Obj' = Obj /\ Members(Obj)' = Members(Obj)
      /\ Container' = Container /\ Member' = Member
  BY Fixed
<1>2. /\ Len(decls) \in Nat /\ Good(decls, unit)
      /\ unit \in 1..Len(decls) /\ Container = unit + 1 /\ Container \in 1..Len(decls)
      /\ at - 1 \in Nat /\ method \in 0..Len(decls)
  BY Places
<1>3. \A j \in 1..(at - 1) : decls[Container].members[j] \in 1..Len(decls)
  BY <1>2, MembersPlaced
<1>4. SameNames(decls, decls') /\ \A d \in 1..Len(decls) : decls'[d] = decls[d]
  BY KeptNames DEF Keeps
<1>5. Drawn(decls', unit, Obj, at - 1)
  <2>1. Drawn(decls, unit, Obj, at - 1) /\ Len(decls') \in Nat
    BY DEF ObjectTold, Keeps
  <2>2. decls'[unit] = decls[unit] /\ decls'[unit + 1] = decls[unit + 1]
    BY <1>2, <1>4
  <2>3. \A j \in 1..(at - 1) : decls'[decls[unit + 1].members[j]] = decls[decls[unit + 1].members[j]]
    BY <1>2, <1>3, <1>4
  <2> QED
    BY <1>2, <1>4, <2>1, <2>2, <2>3, DrawnStays
<1>6. ObjectTold'
  BY <1>1, <1>2, <1>4, <1>5 DEF ObjectTold
<1>7. MethodTold'
  <2>1. CASE method = 0
    BY <2>1 DEF MethodTold
  <2>2. CASE method # 0
    <3>1. method \in 1..Len(decls) /\ decls'[method] = decls[method]
      BY <1>2, <1>4, <2>2
    <3>2. MethodSays(decls, method, Container, Obj, at)
      BY <2>2 DEF MethodTold
    <3>3. MethodSays(decls', method, Container, Obj, at)
      BY <1>2, <1>4, <3>1, <3>2, MethodStays
    <3>4. \A j \in 1..(at - 1) : decls'[Container].members[j] < method
      BY <1>2, <1>4, <2>2 DEF MethodTold
    <3> QED
      BY <1>1, <3>3, <3>4 DEF MethodTold
  <2> QED
    BY <2>1, <2>2
<1>8. Params' = Params /\ (method # 0 => Param' = Param) /\ InClass' = InClass
  BY <1>1, <1>2, <1>4 DEF Params, Param, InClass
<1>9. AskedType' = AskedType
  BY <1>1, <1>8 DEF AskedType
<1>10. method # 0 => IsSelf' = IsSelf
  BY <1>8 DEF IsSelf
<1>11. ASSUME Asker, scope' = scope PROVE Asker'
  BY <1>1, <1>8, <1>10, <1>11 DEF Asker
<1> QED
  BY <1>6, <1>7, <1>9, <1>11

(***************************************************************************)
(* get_qtype() tells the type that it was asked for.                       *)
(***************************************************************************)
LEMMA TellAsking ==
  ASSUME IInv, Telling, phase \in {"member", "param"}, at <= Len(Members(Obj)),
         NEW type, NEW dc, Ask(type, dc), type = AskedType,
         UNCHANGED <<metadata, decls, unit, at, method, printed>>,
         dc = IF method = 0 THEN Container ELSE method,
         method = 0 => \/ Member.kind = "method"
                       \/ Member.kind = "ivar" /\ Member.encoded /\ Len(Member.types) = 1,
         method # 0 => Param <= Len(Params) /\ ~ (IsSelf /\ InClass)
  PROVE  Telling'
<1>1. /\ phase' = "qtype" /\ arg' = type /\ scope' = dc /\ wraps' = << >>
      /\ Keeps(decls, decls')
  BY Places DEF Ask, Keeps
<1>2. ObjectTold' /\ MethodTold' /\ AskedType' = AskedType
  BY <1>1, TellingKept DEF Telling
<1>3. Asker'
  <2>1. /\ Container' = Container /\ Member' = Member /\ Obj' = Obj
    BY Fixed
  <2>2. Params' = Params /\ Param' = Param /\ InClass' = InClass /\ IsSelf' = IsSelf
    BY <2>1 DEF Params, Param, InClass, IsSelf
  <2> QED
    BY <1>1, <2>1, <2>2 DEF Asker
<1>4. Reached'
  <2>1. Below(AskedType, 0) /\ Inner(AskedType)[0] = AskedType
    BY InnerIs DEF Below
  <2>2. Layers(AskedType, 0) = << >>
    BY DEF Layers
  <2>3. wraps' = Layers(AskedType, 0) /\ arg' = Inner(AskedType)[0]
    BY <1>1, <2>1, <2>2
  <2>4. \E n \in Nat : Below(AskedType, n) /\ wraps' = Layers(AskedType, n)
                       /\ arg' = Inner(AskedType)[n]
    BY <2>1, <2>3
  <2> QED
    BY <1>2, <2>4 DEF Reached
<1> QED
  BY <1>1, <1>2, <1>3, <1>4 DEF Telling

LEMMA TellWrapping ==
  ASSUME IInv, Telling, WrappedType
  PROVE  Telling'
<1>1. /\ phase = "qtype" /\ Wraps(arg) /\ phase' = phase /\ scope' = scope
      /\ wraps' = Append(wraps, Layer(arg.type, arg.dim)) /\ arg' = arg.subs[1].type
      /\ Keeps(decls, decls') /\ UNCHANGED <<metadata, unit, at, method, printed>>
  BY Places DEF WrappedType, Asked, Wraps, Keeps, IInv
<1>2. ObjectTold' /\ MethodTold' /\ AskedType' = AskedType /\ Asker'
  BY <1>1, TellingKept DEF Telling
<1>3. PICK n \in Nat : /\ Below(AskedType, n) /\ wraps = Layers(AskedType, n)
                       /\ arg = Inner(AskedType)[n]
  BY <1>1 DEF Telling, Reached
<1>4. Below(AskedType, n + 1) /\ wraps' = Layers(AskedType, n + 1)
  BY <1>1, <1>3, LayersMore
<1>5. arg' = Inner(AskedType)[n + 1] /\ n + 1 \in Nat
  BY <1>1, <1>3, InnerIs
<1>6. Reached'
  <2>1. \E k \in Nat : Below(AskedType, k) /\ wraps' = Layers(AskedType, k)
                       /\ arg' = Inner(AskedType)[k]
    BY <1>4, <1>5
  <2> QED
    BY <1>2, <2>1 DEF Reached
<1> QED
  BY <1>1, <1>2, <1>6 DEF Telling

LEMMA TellAnswering ==
  ASSUME IInv, Telling, phase = "qtype", ~ Wraps(arg), Keeps(decls, decls'),
         NEW base, IsQual(base), Answer(base), phase' = "typed",
         ShownType(decls', base) = Core(arg)
  PROVE  Telling'
<1>1. /\ phase' = "typed" /\ qual' = [base EXCEPT !.wraps = wraps \o @]
      /\ UNCHANGED <<metadata, unit, at, method, arg, scope, wraps, printed>>
  BY DEF Answer
<1>2. ObjectTold' /\ MethodTold' /\ AskedType' = AskedType /\ Asker'
  BY <1>1, TellingKept DEF Telling
<1>3. PICK n \in Nat : /\ Below(AskedType, n) /\ wraps = Layers(AskedType, n)
                       /\ arg = Inner(AskedType)[n]
  BY DEF Telling, Reached
<1>4. qual'.wraps = wraps \o base.wraps /\ qual'.base = base.base /\ qual'.decl = base.decl
  BY <1>1 DEF IsQual, Qual
<1>5. ShownType(decls', qual')
        = [ShownType(decls', base) EXCEPT !.wraps = wraps \o @]
  <2> DEFINE name(d) == IF d = 0 THEN << >> ELSE decls'[d].name
             told == ShownType(decls', base)
  <2>1. told = [wraps |-> base.wraps, base |-> base.base, name |-> name(base.decl)]
    BY DEF ShownType
  <2>2. ShownType(decls', qual')
          = [wraps |-> wraps \o base.wraps, base |-> base.base, name |-> name(base.decl)]
    BY <1>4 DEF ShownType
  <2> HIDE DEF name, told
  <2>3. [told EXCEPT !.wraps = wraps \o @]
          = [wraps |-> wraps \o base.wraps, base |-> base.base, name |-> name(base.decl)]
    <3>1. told.wraps = base.wraps
      BY <2>1
    <3> DEFINE v == wraps \o base.wraps
    <3>2. [told EXCEPT !.wraps = wraps \o @] = [told EXCEPT !.wraps = v]
      BY <3>1
    <3> HIDE DEF v
    <3>3. [told EXCEPT !.wraps = v] = [wraps |-> v, base |-> base.base, name |-> name(base.decl)]
      BY <2>1
    <3> QED
      BY <3>2, <3>3 DEF v
  <2> QED
    BY <2>2, <2>3 DEF told
<1>6. ShownType(decls', qual') = [Core(arg) EXCEPT !.wraps = wraps \o @]
  BY <1>5
<1>7. ShownType(decls', qual') =
        [Core(Inner(AskedType)[n]) EXCEPT !.wraps = Layers(AskedType, n) \o @]
  BY <1>3, <1>6
<1>8. Says(ShownType(decls', qual'), AskedType)
  <2> DEFINE s == ShownType(decls', qual')
  <2>1. s = [Core(Inner(AskedType)[n]) EXCEPT !.wraps = Layers(AskedType, n) \o @]
    BY <1>7
  <2> HIDE DEF s
  <2>2. Says(s, AskedType)
    BY <1>3, <2>1, Wrapped
  <2> QED
    BY <2>2 DEF s
<1> QED
  BY <1>1, <1>2, <1>8 DEF Telling

LEMMA TellBuiltin ==
  ASSUME IInv, Telling, BuiltinType, phase' = "typed"
  PROVE  Telling'
<1> DEFINE base == Qual(<< >>, IF arg.type \in {"?", "b"} THEN "v" ELSE arg.type, 0)
<1>1. /\ phase = "qtype" /\ arg.type \notin Records \cup {"nullptr", "pointer", "array", "@"}
      /\ Answer(base) /\ decls' = decls
  BY DEF BuiltinType
<1>2. IsQual(base)
  BY DEF IsQual, Qual
<1>3. ~ Wraps(arg) /\ Keeps(decls, decls')
  BY <1>1, Places DEF Wraps, Keeps, IInv
<1>4. ShownType(decls', base) = Core(arg)
  BY <1>1 DEF Core, ShownType, Shown, Qual
<1> HIDE DEF base
<1> QED
  BY <1>1, <1>2, <1>3, <1>4, TellAnswering

\* A declaration of a name that is not known.
LEMMA TellDeclaring ==
  ASSUME IInv, phase = "qtype", NEW kind, NEW name, Declare(kind, name)
  PROVE  Keeps(decls, decls') /\ decls'[Len(decls) + 1].name = name /\ Len(decls) + 1 # 0
<1> DEFINE x == Decl(kind, name, scope)
<1>1. decls' = Append(decls, x) /\ x.name = name
  BY DEF Declare, Decl
<1> HIDE DEF x
<1>2. IsSeq(decls) /\ Len(decls) \in Nat
  BY Places
<1> QED
  BY <1>1, <1>2, AppendKeeps

LEMMA TellRecord ==
  ASSUME IInv, OwnNames, Telling, RecordType, phase' = "typed"
  PROVE  Telling'
<1>1. phase = "qtype" /\ arg.type \in Records /\ at <= Len(Members(Obj))
  BY DEF RecordType, Asked, IInv, Control
<1>2. Mentions(Member, arg.name)
  <2>1. NameOf(arg) = arg.name
    BY <1>1 DEF NameOf, Records
  <2> QED
    BY <1>1, <2>1, AskedMentioned DEF Telling
<1>3. Search(scope, arg.name) = {}
  <2>1. scope = IF method = 0 THEN Container ELSE method
    BY <1>1 DEF Telling, Asker
  <2> QED
    BY <1>1, <1>2, <2>1, NothingFound DEF Telling
<1> DEFINE base == Declared(arg.type)
<1>4. Declare(arg.type, arg.name) /\ Answer(base)
  BY <1>3 DEF RecordType
<1>5. IsQual(base) /\ base = Qual(<< >>, arg.type, Len(decls) + 1)
  BY DEF IsQual, Declared, Qual
<1> HIDE DEF base
<1>6. /\ Keeps(decls, decls') /\ decls'[Len(decls) + 1].name = arg.name
      /\ Len(decls) + 1 # 0
  BY <1>1, <1>4, TellDeclaring
<1>7. ShownType(decls', base) = Shown(<< >>, arg.type, arg.name)
  BY <1>5, <1>6 DEF ShownType, Shown, Qual
<1>8. ~ Wraps(arg) /\ Core(arg) = Shown(<< >>, arg.type, arg.name)
  BY <1>1 DEF Core, Wraps, Records
<1> QED
  BY <1>1, <1>4, <1>5, <1>6, <1>7, <1>8, TellAnswering

LEMMA TellObject ==
  ASSUME IInv, OwnNames, Telling, ObjectType, phase' = "typed"
  PROVE  Telling'
<1> DEFINE name == IF arg.name = << >> THEN NSObject ELSE arg.name
<1>1. phase = "qtype" /\ arg.type = "@" /\ at <= Len(Members(Obj))
  BY DEF ObjectType, Asked, IInv, Control
<1>2. name = NameOf(arg)
  BY <1>1 DEF NameOf
<1>3. Search(scope, name) = {}
  <2>1. scope = IF method = 0 THEN Container ELSE method
    BY <1>1 DEF Telling, Asker
  <2>2. Mentions(Member, name)
    BY <1>1, <1>2, AskedMentioned DEF Telling
  <2> HIDE DEF name
  <2> QED
    BY <1>1, <2>1, <2>2, NothingFound DEF Telling
<1> DEFINE base == [Declared("interface") EXCEPT !.wraps = <<PointerLayer>>]
<1>4. Declare("interface", name) /\ Answer(base)
  BY <1>3 DEF ObjectType
<1>5. IsQual(base) /\ base = Qual(<<PointerLayer>>, "interface", Len(decls) + 1)
  BY DEF IsQual, Declared, Qual
<1> HIDE DEF base, name
<1>6. /\ Keeps(decls, decls') /\ decls'[Len(decls) + 1].name = name
      /\ Len(decls) + 1 # 0
  BY <1>1, <1>4, TellDeclaring
<1>7. ShownType(decls', base) = Shown(<<PointerLayer>>, "interface", name)
  BY <1>5, <1>6 DEF ShownType, Shown, Qual
<1>8. ~ Wraps(arg) /\ Core(arg) = Shown(<<PointerLayer>>, "interface", name)
  BY <1>1, <1>2 DEF Core, Wraps, Records
<1> QED
  BY <1>1, <1>4, <1>5, <1>6, <1>7, <1>8, TellAnswering

(***************************************************************************)
(* decl_method() tells the method.                                         *)
(***************************************************************************)
LEMMA TellBeginMethod ==
  ASSUME IInv, Telling, BeginMethod
  PROVE  Telling'
<1>1. AtMember("method") /\ Ask(Prototype(Member.types).rtype, Container)
      /\ UNCHANGED <<metadata, decls, unit, at, method, printed>>
  BY DEF BeginMethod
<1>2. phase = "member" /\ method = 0 /\ at <= Len(Members(Obj)) /\ Member.kind = "method"
  BY <1>1, AtMembers DEF AtMember
<1>3. AskedType = Prototype(Member.types).rtype
  BY <1>2 DEF AskedType
<1> QED
  BY <1>1, <1>2, <1>3, TellAsking

LEMMA TellBeginIvar ==
  ASSUME IInv, Telling, BeginIvar
  PROVE  Telling'
<1>1. AtMember("ivar") /\ Ask(Member.types[1], Container)
      /\ Member.encoded /\ Len(Member.types) = 1
      /\ UNCHANGED <<metadata, decls, unit, at, method, printed>>
  BY DEF BeginIvar
<1>2. phase = "member" /\ method = 0 /\ at <= Len(Members(Obj)) /\ Member.kind = "ivar"
  BY <1>1, AtMembers DEF AtMember
<1>3. AskedType = Member.types[1]
  BY <1>2 DEF AskedType
<1> QED
  BY <1>1, <1>2, <1>3, TellAsking

LEMMA TellBeginParam ==
  ASSUME IInv, Telling, BeginParam
  PROVE  Telling'
<1>1. /\ phase = "param" /\ Param <= Len(Params) /\ ~ (IsSelf /\ InClass)
      /\ Ask(Params[Param], method)
      /\ UNCHANGED <<metadata, decls, unit, at, method, printed>>
  BY DEF BeginParam
<1>2. method # 0 /\ at <= Len(Members(Obj))
  BY <1>1 DEF IInv, Control
<1>3. AskedType = Params[Param]
  BY <1>2 DEF AskedType
<1> QED
  BY <1>1, <1>2, <1>3, TellAsking

LEMMA ObjectKept ==
  ASSUME IInv, phase \notin {"idle", "print"}, phase' \notin {"idle", "print"}, ObjectTold,
         UNCHANGED <<metadata, unit, at, printed>>,
         SameNames(decls, decls'), Len(decls') \in Nat,
         decls'[unit] = decls[unit], decls'[Container] = decls[Container],
         \A j \in 1..(at - 1) :
           decls'[decls[Container].members[j]] = decls[decls[Container].members[j]]
  PROVE  ObjectTold'
<1>1. Obj' = Obj /\ Members(Obj)' = Members(Obj) /\ Container' = Container
  BY Fixed
<1>2. /\ Good(decls, unit) /\ unit \in 1..Len(decls) /\ Container = unit + 1
      /\ Container \in 1..Len(decls) /\ at - 1 \in Nat
  BY Places
<1>3. Drawn(decls, unit, Obj, at - 1) /\ decls[unit].members = << >>
  BY DEF ObjectTold
<1>4. Drawn(decls', unit, Obj, at - 1)
  BY <1>2, <1>3, DrawnStays
<1> QED
  BY <1>1, <1>3, <1>4 DEF ObjectTold

LEMMA ParamsStay ==
  ASSUME NEW ds, NEW u, Good(ds, u), NEW d \in 1..Len(ds), NEW e, SameNames(ds, e),
         e[d].type = ds[d].type, DOMAIN ds[d].params \subseteq DOMAIN e[d].params,
         \A k \in DOMAIN ds[d].params : e[d].params[k] = ds[d].params[k]
  PROVE  /\ ShownMember(e, d).type = ShownMember(ds, d).type
         /\ \A k \in DOMAIN ds[d].params :
              ShownMember(e, d).params[k] = ShownMember(ds, d).params[k]
<1>1. Len(ds) \in Nat /\ Refers(ds, d) \subseteq 0..Len(ds)
  BY RefersWithin
<1>2. /\ ds[d].type.decl \in 0..Len(ds)
      /\ \A k \in DOMAIN ds[d].params : ds[d].params[k].type.decl \in 0..Len(ds)
  BY <1>1 DEF Refers
<1>3. ShownType(e, ds[d].type) = ShownType(ds, ds[d].type)
  BY <1>1, <1>2, TypeStays
<1>4. \A k \in DOMAIN ds[d].params :
        ShownType(e, ds[d].params[k].type) = ShownType(ds, ds[d].params[k].type)
  BY <1>1, <1>2, TypeStays
<1>5. ShownMember(e, d).type = ShownMember(ds, d).type
  BY <1>3 DEF ShownMember
<1>6. ASSUME NEW k \in DOMAIN ds[d].params
      PROVE  ShownMember(e, d).params[k] = ShownMember(ds, d).params[k]
  <2>1. ShownMember(ds, d).params[k]
          = [name |-> ds[d].params[k].name, type |-> ShownType(ds, ds[d].params[k].type)]
    BY DEF ShownMember
  <2>2. ShownMember(e, d).params[k]
          = [name |-> e[d].params[k].name, type |-> ShownType(e, e[d].params[k].type)]
    BY DEF ShownMember
  <2> QED
    BY <1>4, <2>1, <2>2
<1> QED
  BY <1>5, <1>6

LEMMA TellHead ==
  ASSUME IInv, Telling, MethodHead
  PROVE  Telling'
<1> DEFINE x == [Decl("method", Member.name, Container) EXCEPT
                   !.type = qual, !.instance = Member.instance]
           d == Len(decls) + 1
<1>1. /\ phase = "typed" /\ Member.kind = "method" /\ method = 0 /\ phase' = "param"
      /\ decls' = Append(decls, x) /\ method' = d
      /\ UNCHANGED <<metadata, unit, at, callVars, printed>>
  BY DEF MethodHead
<1>2. /\ x.kind = "method" /\ x.name = Member.name /\ x.parent = Container
      /\ x.members = << >> /\ x.params = << >> /\ x.type = qual
      /\ x.instance = Member.instance
  BY DEF Decl
<1> HIDE DEF x
<1>3. /\ IsSeq(decls) /\ Len(decls) \in Nat /\ Good(decls, unit) /\ unit \in 1..Len(decls)
      /\ Container \in 1..Len(decls) /\ at - 1 \in Nat
  BY <1>1, Places
<1>4. Keeps(decls, decls') /\ decls'[d] = x
  BY <1>1, <1>3, AppendKeeps
<1>5. ObjectTold
  BY DEF Telling
<1>6. \A j \in 1..(at - 1) : decls[Container].members[j] \in 1..Len(decls)
  BY <1>1, <1>3, <1>5, MembersPlaced
<1>7. SameNames(decls, decls')
  BY <1>4, KeptNames
<1>8. ObjectTold'
  BY <1>1, <1>3, <1>4, <1>5, <1>6, <1>7, ObjectKept DEF Keeps
<1>9. Obj' = Obj /\ Container' = Container /\ Member' = Member
  BY <1>1, Fixed
<1>10. at <= Len(Members(Obj)) /\ qual.decl \in 0..Len(decls)
  BY <1>1 DEF IInv, Control
<1>11. Member = Members(Obj)[at] /\ IsSeq(Member.types)
  BY <1>1, <1>10, MemberIs
<1>12. ShownMember(decls', d).type = ShownType(decls, qual)
  <2>1. ShownType(decls', qual) = ShownType(decls, qual)
    BY <1>3, <1>7, <1>10, TypeStays
  <2> QED
    BY <1>2, <1>4, <2>1 DEF ShownMember
<1>13. Says(ShownType(decls, qual), Prototype(Member.types).rtype)
  <2>1. AskedType = Prototype(Member.types).rtype
    BY <1>1 DEF AskedType
  <2> QED
    BY <1>1, <2>1 DEF Telling
<1>14. MethodSays(decls', d, Container, Obj, at)
  <2>1. Len(decls'[d].params) = 0 /\ 0 <= Len(Prototype(Member.types).params)
    BY <1>2, <1>4, <1>11, PrototypeIs
  <2> QED
    BY <1>2, <1>4, <1>11, <1>12, <1>13, <2>1 DEF MethodSays
<1>15. \A j \in 1..(at - 1) : decls'[Container].members[j] < d
  BY <1>3, <1>4, <1>6 DEF Keeps
<1>16. MethodTold'
  BY <1>1, <1>9, <1>14, <1>15 DEF MethodTold
<1> QED
  BY <1>1, <1>8, <1>16 DEF Telling

\* A parameter that says what the method's type does.
LEMMA TellParam ==
  ASSUME IInv, Telling, phase \in {"param", "typed"}, phase' = "param", method # 0,
         UNCHANGED <<metadata, unit, at, method, printed>>,
         NEW type, type.decl \in 0..Len(decls), AddParam(type), Param <= Len(Params),
         NEW p, p = [name |-> ArgName(Param, Params[Param]), type |-> ShownType(decls, type)],
         SaysParam(p, Obj, Param, Params[Param])
  PROVE  Telling'
<1> DEFINE q == [name |-> ArgName(Param, Params[Param]), type |-> type]
           ps == decls[method].params
           x == SetParams(decls[method], Append(ps, q))
<1>1. decls' = [decls EXCEPT ![method] = x]
  BY DEF AddParam, SetParams
<1>2. /\ IsSeq(decls) /\ Len(decls) \in Nat /\ Good(decls, unit) /\ unit \in 1..Len(decls)
      /\ Container \in 1..Len(decls) /\ Container = unit + 1 /\ at - 1 \in Nat
      /\ method \in 1..Len(decls) /\ method > Container
  BY Places
<1>3. DOMAIN decls = 1..Len(decls) /\ IsDecl(decls[method]) /\ IsSeq(ps)
  BY <1>2, Sequence DEF Good, IsDecl
<1>4. /\ x.kind = decls[method].kind /\ x.name = decls[method].name
      /\ x.parent = decls[method].parent /\ x.members = decls[method].members
      /\ x.type = decls[method].type /\ x.instance = decls[method].instance
      /\ x.params = Append(ps, q)
  BY <1>3 DEF IsDecl, HasFields, SetParams
<1> HIDE DEF x
<1>5. /\ decls'[method] = x /\ Len(decls') = Len(decls)
      /\ \A d \in 1..Len(decls) : d # method => decls'[d] = decls[d]
  <2>1. DOMAIN decls' = 1..Len(decls)
    BY <1>1, <1>3
  <2>2. Len(decls') = Len(decls)
    <3> DEFINE R == {decls[k] : k \in DOMAIN decls} \cup {x}
    <3>1. decls \in Seq(R) /\ x \in R
      BY <1>2 DEF IsSeq
    <3> HIDE DEF R
    <3>2. decls' \in Seq(R)
      BY <1>1, <1>2, <3>1
    <3> QED
      BY <1>2, <2>1, <3>2
  <2> QED
    BY <1>1, <1>2, <1>3, <2>2
<1>6. SameNames(decls, decls')
  BY <1>2, <1>4, <1>5 DEF SameNames
<1>7. ObjectTold /\ MethodTold
  BY DEF Telling
<1>8. \A j \in 1..(at - 1) : /\ decls[Container].members[j] \in 1..Len(decls)
                             /\ decls[Container].members[j] < method
  BY <1>2, <1>7, MembersPlaced DEF MethodTold
<1>9. ObjectTold'
  <2>1. \A j \in 1..(at - 1) :
          decls'[decls[Container].members[j]] = decls[decls[Container].members[j]]
    BY <1>2, <1>5, <1>8
  <2>2. decls'[unit] = decls[unit] /\ decls'[Container] = decls[Container]
    BY <1>2, <1>5
  <2> QED
    BY <1>2, <1>5, <1>6, <1>7, <2>1, <2>2, ObjectKept
<1>10. Obj' = Obj /\ Container' = Container /\ Member' = Member
  BY Fixed
<1>11. MethodSays(decls, method, Container, Obj, at) /\ Member = Members(Obj)[at]
  BY <1>7 DEF MethodTold, Member
<1>12. /\ IsSeq(Append(ps, q)) /\ Len(Append(ps, q)) = Len(ps) + 1
       /\ Append(ps, q)[Len(ps) + 1] = q
       /\ \A k \in 1..Len(ps) : Append(ps, q)[k] = ps[k]
       /\ Len(ps) \in Nat /\ DOMAIN ps = 1..Len(ps) /\ DOMAIN Append(ps, q) = 1..(Len(ps) + 1)
  <2>1. /\ IsSeq(Append(ps, q)) /\ Len(Append(ps, q)) = Len(ps) + 1
        /\ Append(ps, q)[Len(ps) + 1] = q
        /\ \A k \in 1..Len(ps) : Append(ps, q)[k] = ps[k]
    BY <1>3, Appending
  <2> QED
    BY <1>3, <2>1, Sequence
<1>13. /\ ShownMember(decls', method).type = ShownMember(decls, method).type
       /\ \A k \in 1..Len(ps) :
            ShownMember(decls', method).params[k] = ShownMember(decls, method).params[k]
  <2>1. /\ decls'[method].type = decls[method].type
        /\ DOMAIN ps \subseteq DOMAIN decls'[method].params
        /\ \A k \in DOMAIN ps : decls'[method].params[k] = ps[k]
    BY <1>4, <1>5, <1>12
  <2>2. /\ ShownMember(decls', method).type = ShownMember(decls, method).type
        /\ \A k \in DOMAIN ps :
             ShownMember(decls', method).params[k] = ShownMember(decls, method).params[k]
    BY <1>2, <1>6, <2>1, ParamsStay
  <2>3. DOMAIN ps = 1..Len(ps)
    BY <1>12
  <2> DEFINE Same(k) ==
               ShownMember(decls', method).params[k] = ShownMember(decls, method).params[k]
  <2>4. \A k \in DOMAIN ps : Same(k)
    BY <2>2
  <2> HIDE DEF q, ps, Same
  <2>5. \A k \in 1..Len(ps) : Same(k)
    BY <2>3, <2>4
  <2> QED
    BY <2>2, <2>5 DEF Same
<1>14. ShownMember(decls', method).params[Param] = p /\ Param = Len(ps) + 1
  <2>1. Param = Len(ps) + 1
    BY DEF Param
  <2>2. ShownType(decls', type) = ShownType(decls, type)
    BY <1>2, <1>6, TypeStays
  <2>3. decls'[method].params[Param] = q /\ Param \in DOMAIN decls'[method].params
    <3>1. decls'[method].params = Append(ps, q)
      BY <1>4, <1>5
    <3>2. Param \in 1..(Len(ps) + 1)
      BY <1>12, <2>1
    <3> HIDE DEF q, ps
    <3> QED
      BY <1>12, <2>1, <3>1, <3>2
  <2>4. ShownMember(decls', method).params[Param]
          = [name |-> q.name, type |-> ShownType(decls', q.type)]
    BY <2>3 DEF ShownMember
  <2> QED
    BY <2>1, <2>2, <2>4
<1>15. MethodSays(decls', method, Container, Obj, at)
  <2> DEFINE params == Prototype(Member.types).params
             told == ShownMember(decls', method)
  <2>1. params = Params
    BY DEF Params
  <2>2. \A k \in 1..Len(ps) : SaysParam(told.params[k], Obj, k, params[k])
    BY <1>11, <1>13 DEF MethodSays
  <2>3. SaysParam(told.params[Len(ps) + 1], Obj, Len(ps) + 1, params[Len(ps) + 1])
    BY <1>14, <2>1
  <2>4. Len(decls'[method].params) = Len(ps) + 1 /\ Len(ps) + 1 <= Len(params)
    BY <1>4, <1>5, <1>12, <1>14, <2>1
  <2> HIDE DEF params
  <2>5. \A k \in 1..(Len(ps) + 1) : SaysParam(told.params[k], Obj, k, params[k])
    <3>1. \A k \in 1..(Len(ps) + 1) : k \in 1..Len(ps) \/ k = Len(ps) + 1
      BY <1>12
    <3> HIDE DEF told, ps
    <3> QED
      BY <2>2, <2>3, <3>1
  <2>6. Says(told.type, Prototype(Member.types).rtype)
    BY <1>11, <1>13 DEF MethodSays
  <2>7. /\ decls'[method].kind = "method" /\ decls'[method].name = Member.name
        /\ decls'[method].parent = Container /\ decls'[method].members = << >>
        /\ decls'[method].instance = Member.instance
    BY <1>4, <1>5, <1>11 DEF MethodSays
  <2> QED
    BY <1>11, <2>4, <2>5, <2>6, <2>7 DEF MethodSays, params
<1>16. \A j \in 1..(at - 1) : decls'[Container].members[j] < method
  BY <1>2, <1>5, <1>8
<1>17. MethodTold'
  BY <1>10, <1>15, <1>16 DEF MethodTold
<1> QED
  BY <1>9, <1>17 DEF Telling

LEMMA TellTakeParam ==
  ASSUME IInv, Telling, TakeParam
  PROVE  Telling'
<1>1. /\ phase = "typed" /\ method # 0 /\ AddParam(qual) /\ phase' = "param"
      /\ UNCHANGED <<metadata, unit, at, method, printed>>
  BY DEF TakeParam
<1>2. Param <= Len(Params) /\ ~ (IsSelf /\ InClass)
  BY <1>1 DEF Telling, Asker
<1>3. Says(ShownType(decls, qual), Params[Param])
  BY <1>1 DEF Telling, AskedType
<1>4. qual.decl \in 0..Len(decls)
  BY DEF IInv, Control
<1>5. SaysParam([name |-> ArgName(Param, Params[Param]), type |-> ShownType(decls, qual)],
                Obj, Param, Params[Param])
  BY <1>2, <1>3 DEF SaysParam, IsSelf, InClass
<1> QED
  BY <1>1, <1>2, <1>4, <1>5, TellParam

LEMMA TellSelf ==
  ASSUME IInv, Telling, SelfParam
  PROVE  Telling'
<1> DEFINE type == Qual(<<PointerLayer>>, "interface", Container)
<1>1. /\ phase = "param" /\ Param <= Len(Params) /\ IsSelf /\ InClass /\ AddParam(type)
      /\ UNCHANGED <<metadata, unit, at, method, phase, printed>>
  BY DEF SelfParam
<1>2. method # 0 /\ Container \in 1..Len(decls) /\ Container # 0 /\ Container = unit + 1
      /\ Len(decls) \in Nat
  BY <1>1, Places DEF IInv, Control
<1>3. type.decl = Container /\ type.decl \in 0..Len(decls)
  BY <1>2 DEF Qual
<1>4. decls[Container].name = Obj.name
  BY <1>2 DEF Telling, ObjectTold, Drawn, HeadSays
<1>5. ShownType(decls, type) = Shown(<<PointerLayer>>, "interface", Obj.name)
  BY <1>2, <1>4 DEF ShownType, Shown, Qual
<1> HIDE DEF type
<1>6. SaysParam([name |-> ArgName(Param, Params[Param]), type |-> ShownType(decls, type)],
                Obj, Param, Params[Param])
  BY <1>1, <1>5 DEF SaysParam, IsSelf, InClass
<1> QED
  BY <1>1, <1>2, <1>3, <1>6, TellParam

\* A member that says what the object's does.
LEMMA TellMember ==
  ASSUME IInv, ObjectTold, phase \notin {"idle", "print"}, phase' = "member", method' = 0,
         at' = at + 1, UNCHANGED <<metadata, unit, printed>>,
         SameNames(decls, decls'), Len(decls') \in Nat, decls'[unit] = decls[unit],
         decls'[Container].kind = decls[Container].kind,
         decls'[Container].parent = decls[Container].parent,
         decls'[Container].protocols = decls[Container].protocols,
         NEW d \in (Container + 1)..Len(decls'),
         decls'[Container].members = Append(decls[Container].members, d),
         \A j \in 1..(at - 1) :
           decls'[decls[Container].members[j]] = decls[decls[Container].members[j]],
         SaysMember(ShownMember(decls', d), Obj, at)
  PROVE  Telling'
<1>1. Obj' = Obj /\ Container' = Container
  BY Fixed
<1>2. /\ Len(decls) \in Nat /\ Good(decls, unit) /\ unit \in 1..Len(decls)
      /\ Container \in 1..Len(decls) /\ Container = unit + 1
      /\ at - 1 \in Nat /\ (at - 1) + 1 = at /\ at' - 1 = at
  BY Places
<1>3. /\ HeadSays(decls, Container, Obj) /\ MembersSay(decls, Container, Obj, at - 1)
      /\ decls[Container].parent = unit /\ decls[unit].parent = 0
      /\ decls[unit].members = << >>
  BY <1>2 DEF ObjectTold, Drawn
<1>4. HeadSays(decls', Container, Obj)
  BY <1>2, <1>3, HeadStays
<1>5. MembersSay(decls', Container, Obj, at)
  <2>1. SaysMember(ShownMember(decls', d), Obj, (at - 1) + 1)
    BY <1>2
  <2> DEFINE c == Container
             n == at - 1
  <2>3. /\ c \in 1..Len(decls) /\ n \in Nat /\ MembersSay(decls, c, Obj, n)
        /\ \A j \in 1..n : decls'[decls[c].members[j]] = decls[decls[c].members[j]]
        /\ d \in (c + 1)..Len(decls') /\ decls'[c].members = Append(decls[c].members, d)
        /\ SaysMember(ShownMember(decls', d), Obj, n + 1)
    BY <1>2, <1>3, <2>1
  <2> HIDE DEF c, n
  <2>4. MembersSay(decls', c, Obj, n + 1)
    BY <1>2, <2>3, OneMember
  <2>2. MembersSay(decls', Container, Obj, (at - 1) + 1)
    BY <2>4 DEF c, n
  <2> QED
    BY <1>2, <2>2
<1>6. Drawn(decls', unit, Obj, at)
  BY <1>2, <1>3, <1>4, <1>5 DEF Drawn
<1>7. ObjectTold'
  BY <1>1, <1>2, <1>3, <1>6 DEF ObjectTold
<1>8. MethodTold'
  BY DEF MethodTold
<1> QED
  BY <1>7, <1>8 DEF Telling

LEMMA TellEndMethod ==
  ASSUME IInv, Telling, EndMethod
  PROVE  Telling'
<1> DEFINE b == at <= Len(Obj.optional)
           s == decls[Container].members
           x == SetOptional(decls[method], b)
           y == SetMembers(decls[Container], Append(s, method))
<1>1. /\ phase = "param" /\ Param > Len(Params) /\ method' = 0 /\ at' = at + 1
      /\ phase' = "member" /\ UNCHANGED <<metadata, unit, printed>>
      /\ decls' = [decls EXCEPT ![method].optional = b, ![Container].members = Append(@, method)]
  BY DEF EndMethod
<1>2. /\ IsSeq(decls) /\ Len(decls) \in Nat /\ Good(decls, unit) /\ unit \in 1..Len(decls)
      /\ Container \in 1..Len(decls) /\ Container = unit + 1 /\ at - 1 \in Nat
      /\ method \in 1..Len(decls) /\ method > Container
  <2>1. phase # "idle" /\ method # 0
    BY <1>1 DEF IInv, Control
  <2> QED
    BY <2>1, Places
<1>3. DOMAIN decls = 1..Len(decls) /\ IsDecl(decls[method]) /\ IsDecl(decls[Container])
  BY <1>2, Sequence DEF Good
<1>4. decls' = [[decls EXCEPT ![method] = x] EXCEPT ![Container] = y]
  <2> DEFINE m == [decls EXCEPT ![method] = x]
  <2>1. decls' = [m EXCEPT ![Container].members = Append(@, method)]
    BY <1>1 DEF SetOptional
  <2>2. m[Container] = decls[Container]
    <3> HIDE DEF x
    <3> QED
      BY <1>2, <1>3
  <2> HIDE DEF m
  <2>3. [m EXCEPT ![Container].members = Append(@, method)]
          = [m EXCEPT ![Container] = SetMembers(m[Container], Append(m[Container].members, method))]
    BY DEF SetMembers
  <2>4. decls' = [m EXCEPT ![Container] = y]
    BY <2>1, <2>2, <2>3
  <2> QED
    BY <2>4 DEF m
<1>5. /\ x.kind = decls[method].kind /\ x.name = decls[method].name
      /\ x.type = decls[method].type /\ x.instance = decls[method].instance
      /\ x.params = decls[method].params /\ x.optional = b
  BY <1>3 DEF IsDecl, HasFields, SetOptional
<1>6. /\ y.kind = decls[Container].kind /\ y.name = decls[Container].name
      /\ y.parent = decls[Container].parent /\ y.protocols = decls[Container].protocols
      /\ y.members = Append(s, method)
  BY <1>3 DEF IsDecl, HasFields, SetMembers
<1> HIDE DEF x, y, b
<1>7. /\ decls'[method] = x /\ decls'[Container] = y /\ Len(decls') = Len(decls)
      /\ \A d \in 1..Len(decls) : d # method /\ d # Container => decls'[d] = decls[d]
  <2> DEFINE R == {decls[k] : k \in DOMAIN decls} \cup {x, y}
  <2>1. decls \in Seq(R) /\ x \in R /\ y \in R
    BY <1>2 DEF IsSeq
  <2> HIDE DEF R
  <2>2. decls' \in Seq(R) /\ Len(decls') = Len(decls)
    BY <1>2, <1>4, <2>1
  <2>3. decls'[method] = x /\ decls'[Container] = y
    BY <1>2, <1>3, <1>4
  <2>4. \A d \in 1..Len(decls) : d # method /\ d # Container => decls'[d] = decls[d]
    BY <1>2, <1>3, <1>4
  <2> QED
    BY <2>2, <2>3, <2>4
<1>8. SameNames(decls, decls')
  BY <1>2, <1>5, <1>6, <1>7 DEF SameNames
<1>9. ObjectTold /\ MethodTold
  BY DEF Telling
<1>10. \A j \in 1..(at - 1) : /\ s[j] \in (Container + 1)..Len(decls) /\ s[j] < method
  BY <1>1, <1>2, <1>9, MembersPlaced DEF MethodTold
<1>11. \A j \in 1..(at - 1) : decls'[s[j]] = decls[s[j]]
  BY <1>2, <1>7, <1>10
<1>12. MethodSays(decls, method, Container, Obj, at) /\ Member = Members(Obj)[at]
       /\ Member.kind = "method"
  BY <1>2, <1>9 DEF MethodTold, Member, IInv, Control
<1>13. /\ ShownMember(decls', method).type = ShownMember(decls, method).type
       /\ \A k \in DOMAIN decls[method].params :
            ShownMember(decls', method).params[k] = ShownMember(decls, method).params[k]
  BY <1>2, <1>5, <1>7, <1>8, ParamsStay
<1>14. SaysMember(ShownMember(decls', method), Obj, at)
  <2> DEFINE told == ShownMember(decls', method)
             ps == decls[method].params
             params == Prototype(Member.types).params
  <2>1. IsSeq(ps) /\ Len(ps) \in Nat /\ DOMAIN ps = 1..Len(ps)
    BY <1>3, Sequence DEF IsDecl
  <2>2. Member.kind # "property" /\ IsSeq(Member.types)
    <3>1. at <= Len(Members(Obj)) /\ phase # "idle"
      BY <1>1 DEF IInv, Control
    <3> QED
      BY <1>12, <3>1, MemberIs
  <2>3. Len(params) \in Nat /\ IsSeq(params)
    BY <2>2, PrototypeIs
  <2>4. Len(ps) = Len(params)
    <3>1. Len(ps) <= Len(params)
      BY <1>12 DEF MethodSays
    <3>2. Len(ps) + 1 > Len(params)
      BY <1>1 DEF Param, Params
    <3> HIDE DEF ps, params
    <3> QED
      BY <2>1, <2>3, <3>1, <3>2
  <2>5. IsSeq(told.params) /\ Len(told.params) = Len(ps)
    <3> DEFINE R == {told.params[k] : k \in 1..Len(ps)}
    <3>1. told.params \in [1..Len(ps) -> R]
      BY <1>5, <1>7, <2>1 DEF ShownMember
    <3>2. told.params \in Seq(R) /\ Len(told.params) = Len(ps)
      <4> HIDE DEF told, R, ps
      <4> QED
        BY <2>1, <3>1
    <3> QED
      BY <3>2, Widening
  <2>6. \A k \in 1..Len(params) : SaysParam(told.params[k], Obj, k, params[k])
    <3>1. \A k \in 1..Len(ps) :
            SaysParam(ShownMember(decls, method).params[k], Obj, k, params[k])
      BY <1>12 DEF MethodSays
    <3>2. \A k \in 1..Len(ps) : told.params[k] = ShownMember(decls, method).params[k]
      BY <1>13, <2>1
    <3> HIDE DEF told, ps, params
    <3> QED
      BY <2>4, <3>1, <3>2
  <2>7. Says(told.type, Prototype(Member.types).rtype)
    BY <1>12, <1>13 DEF MethodSays
  <2>8. /\ told.kind = "method" /\ told.name = Member.name
        /\ told.instance = Member.instance /\ told.optional = b
    BY <1>5, <1>7, <1>12 DEF ShownMember, MethodSays
  <2> HIDE DEF told
  <2>9. SaysMethod(told, Obj, at, Member)
    BY <2>4, <2>5, <2>6, <2>7, <2>8 DEF SaysMethod, b
  <2>10. SaysMember(told, Obj, at)
    BY <1>12, <2>8, <2>9 DEF SaysMember
  <2> QED
    BY <2>10 DEF told
<1>15. method \in (Container + 1)..Len(decls') /\ Len(decls') \in Nat
  BY <1>2, <1>7
<1>16. decls'[unit] = decls[unit]
  BY <1>2, <1>7
<1> QED
  BY <1>1, <1>6, <1>7, <1>8, <1>9, <1>11, <1>14, <1>15, <1>16, TellMember

(***************************************************************************)
(* decl_ivar() and decl_property() tell the ivar and the property.         *)
(***************************************************************************)
Field(kind, type) == [Decl(kind, Member.name, Container) EXCEPT !.type = type]
ShownField(kind, shown) ==
  [kind |-> kind, name |-> Member.name, type |-> shown, params |-> << >>,
   instance |-> TRUE, optional |-> FALSE]

LEMMA TellField ==
  ASSUME IInv, ObjectTold, phase \in {"member", "typed"}, method = 0,
         phase' = "member", at' = at + 1, UNCHANGED <<metadata, unit, method, printed>>,
         NEW kind, NEW type, NEW m, IsSeq(m), Keeps(decls, m), Len(m) > Len(decls),
         m[Len(m)] = Field(kind, type), type.decl \in 0..Len(m),
         decls' = AddTo(m, Container, Len(m)),
         SaysMember(ShownField(kind, ShownType(m, type)), Obj, at)
  PROVE  Telling'
<1> DEFINE d == Len(m)
           s == decls[Container].members
           y == SetMembers(m[Container], Append(s, d))
<1>1. /\ IsSeq(decls) /\ Len(decls) \in Nat /\ Good(decls, unit) /\ unit \in 1..Len(decls)
      /\ Container \in 1..Len(decls) /\ Container = unit + 1 /\ at - 1 \in Nat
  BY Places
<1>2. /\ d \in Nat /\ d > Len(decls) /\ DOMAIN m = 1..d
      /\ \A k \in 1..Len(decls) : m[k] = decls[k]
  BY Sequence DEF Keeps
<1>3. IsDecl(m[Container])
  BY <1>1, <1>2 DEF Good
<1>4. /\ y.kind = decls[Container].kind /\ y.name = decls[Container].name
      /\ y.parent = decls[Container].parent /\ y.protocols = decls[Container].protocols
      /\ y.members = Append(s, d)
  <2>1. m[Container] = decls[Container]
    BY <1>1, <1>2
  <2> QED
    BY <1>3, <2>1 DEF IsDecl, HasFields, SetMembers
<1>5. decls' = [m EXCEPT ![Container] = y]
  <2>1. m[Container].members = s
    BY <1>1, <1>2
  <2> QED
    BY <2>1 DEF AddTo, SetMembers
<1> HIDE DEF y
<1>6. /\ decls'[Container] = y /\ Len(decls') = d
      /\ \A k \in 1..d : k # Container => decls'[k] = m[k]
  <2> DEFINE R == {m[k] : k \in DOMAIN m} \cup {y}
  <2>1. m \in Seq(R) /\ y \in R
    BY DEF IsSeq
  <2> HIDE DEF R
  <2>2. Len(decls') = d
    BY <1>1, <1>2, <1>5, <2>1
  <2>3. decls'[Container] = y /\ \A k \in 1..d : k # Container => decls'[k] = m[k]
    BY <1>1, <1>2, <1>5
  <2> QED
    BY <2>2, <2>3
<1>7. SameNames(decls, decls') /\ SameNames(m, decls')
  <2>1. \A k \in 1..d : decls'[k].name = m[k].name
    BY <1>1, <1>2, <1>4, <1>6
  <2> QED
    BY <1>1, <1>2, <1>6, <2>1 DEF SameNames
<1>8. \A j \in 1..(at - 1) : s[j] \in (Container + 1)..Len(decls)
  BY <1>1, MembersPlaced
<1>9. \A j \in 1..(at - 1) : decls'[s[j]] = decls[s[j]]
  BY <1>1, <1>2, <1>6, <1>8
<1>10. ShownMember(decls', d) = ShownField(kind, ShownType(m, type))
  <2> DEFINE x == Field(kind, type)
  <2>1. decls'[d] = x
    BY <1>1, <1>2, <1>6
  <2>2. /\ x.kind = kind /\ x.name = Member.name /\ x.type = type /\ x.params = << >>
        /\ x.instance = TRUE /\ x.optional = FALSE
    BY DEF Field, Decl
  <2>3. ShownType(decls', type) = ShownType(m, type)
    BY <1>2, <1>7, TypeStays
  <2> HIDE DEF x, d
  <2>4. [k \in DOMAIN x.params |->
           [name |-> x.params[k].name, type |-> ShownType(decls', x.params[k].type)]] = << >>
    BY <2>2
  <2> QED
    BY <2>1, <2>2, <2>3, <2>4 DEF ShownMember, ShownField
<1>11. d \in (Container + 1)..Len(decls') /\ Len(decls') \in Nat
  BY <1>1, <1>2, <1>6
<1>12. decls'[unit] = decls[unit]
  BY <1>1, <1>2, <1>6
<1>13. SaysMember(ShownMember(decls', d), Obj, at)
  BY <1>10
<1> HIDE DEF d
<1> QED
  BY <1>4, <1>6, <1>7, <1>9, <1>11, <1>12, <1>13, TellMember

\* A field that needs no declaration but its own.
LEMMA TellAddingOne ==
  ASSUME IInv, ObjectTold, phase \in {"member", "typed"}, method = 0,
         NEW kind, NEW type, type.decl \in 0..Len(decls), AddMember(Field(kind, type), << >>),
         SaysMember(ShownField(kind, ShownType(decls, type)), Obj, at)
  PROVE  Telling'
<1> DEFINE m == Append(decls, Field(kind, type))
<1>1. IsSeq(decls) /\ Len(decls) \in Nat
  BY Places
<1>2. /\ Keeps(decls, m) /\ m[Len(decls) + 1] = Field(kind, type)
      /\ Len(m) = Len(decls) + 1 /\ IsSeq(m)
  BY <1>1, AppendKeeps, Appending
<1>3. decls' = AddTo(m, Container, Len(decls) + 0 + 1)
  BY <1>1, Appended DEF AddMember, AddTo
<1>4. Len(decls) + 0 + 1 = Len(m) /\ Len(m) > Len(decls) /\ type.decl \in 0..Len(m)
  BY <1>1, <1>2
<1>5. ShownType(m, type) = ShownType(decls, type)
  BY <1>1, <1>2, KeptNames, TypeStays
<1>6. /\ phase' = "member" /\ at' = at + 1
      /\ UNCHANGED <<metadata, unit, method, printed>>
  BY DEF AddMember
<1> HIDE DEF m
<1> QED
  BY <1>2, <1>3, <1>4, <1>5, <1>6, TellField

LEMMA TellTakeIvar ==
  ASSUME IInv, Telling, TakeIvar
  PROVE  Telling'
<1>1. /\ phase = "typed" /\ Member.kind = "ivar"
      /\ AddMember(Field("ivar", qual), << >>)
  BY DEF TakeIvar, IvarDecl, Field
<1>2. method = 0 /\ qual.decl \in 0..Len(decls)
  BY <1>1 DEF IInv, Control
<1>3. Member.encoded /\ Len(Member.types) = 1
  BY <1>1, <1>2 DEF Telling, Asker
<1>4. Says(ShownType(decls, qual), Member.types[1])
  BY <1>1, <1>2 DEF Telling, AskedType
<1>5. SaysMember(ShownField("ivar", ShownType(decls, qual)), Obj, at)
  BY <1>1, <1>3, <1>4 DEF SaysMember, SaysField, ShownField, Member
<1> QED
  BY <1>1, <1>2, <1>5, TellAddingOne DEF Telling

LEMMA TellUnresolved ==
  ASSUME IInv, Telling, UnresolvedIvar
  PROVE  Telling'
<1>1. /\ AtMember("ivar") /\ Member.encoded /\ Len(Member.types) # 1
      /\ AddMember(Field("ivar", UnknownAny), << >>)
  BY DEF UnresolvedIvar, IvarDecl, Field
<1>2. phase = "member" /\ method = 0 /\ Member.kind = "ivar"
  BY <1>1, AtMembers DEF AtMember
<1>3. UnknownAny.decl = 0 /\ Len(decls) \in Nat
  BY <1>2, Places DEF UnknownAny, Qual
<1>4. ShownType(decls, UnknownAny) = Shown(<< >>, "unknown any", << >>)
  BY DEF ShownType, Shown, UnknownAny, Qual
<1>5. SaysMember(ShownField("ivar", ShownType(decls, UnknownAny)), Obj, at)
  BY <1>1, <1>2, <1>4 DEF SaysMember, SaysField, ShownField, Member
<1> QED
  BY <1>1, <1>2, <1>3, <1>5, TellAddingOne DEF Telling

LEMMA TellProperty ==
  ASSUME IInv, Telling, DeclProperty
  PROVE  Telling'
<1> DEFINE type == Qual(<< >>, "v", 0)
<1>1. AtMember("property") /\ AddMember(Field("property", type), << >>)
  BY DEF DeclProperty, Field
<1>2. phase = "member" /\ method = 0 /\ Member.kind = "property"
  BY <1>1, AtMembers DEF AtMember
<1>3. type.decl \in 0..Len(decls)
  BY <1>2, Places DEF Qual
<1>4. ShownType(decls, type) = Core(Leaf("v"))
  BY DEF ShownType, Shown, Qual, Core, Leaf, Ty, Records
<1> HIDE DEF type
<1>5. SaysMember(ShownField("property", ShownType(decls, type)), Obj, at)
  BY <1>2, <1>4 DEF SaysMember, SaysField, ShownField, Member
<1> QED
  BY <1>1, <1>2, <1>3, <1>5, TellAddingOne DEF Telling

LEMMA TellUntyped ==
  ASSUME IInv, OwnNames, Telling, UntypedIvar
  PROVE  Telling'
<1>1. /\ phase = "member" /\ method = 0 /\ Member.kind = "ivar" /\ ~ Member.encoded
      /\ at <= Len(Members(Obj))
  BY AtMembers DEF AtMember, UntypedIvar
<1>2. Search(Container, NSObject) = {}
  <2>1. Mentions(Member, NSObject)
    BY <1>1 DEF Mentions, Untyped
  <2> QED
    BY <1>1, <2>1, NothingFound DEF Telling
<1> DEFINE type == Qual(<<PointerLayer>>, "interface", Len(decls) + 1)
           y == Decl("interface", NSObject, Container)
           n == Append(decls, y)
           m == Append(n, Field("ivar", type))
<1>3. AddMember(Field("ivar", type), <<y>>)
  BY <1>2 DEF UntypedIvar, IvarDecl, Field
<1>4. IsSeq(decls) /\ Len(decls) \in Nat
  BY <1>1, Places
<1>5. Keeps(decls, n) /\ n[Len(decls) + 1] = y /\ Len(n) = Len(decls) + 1 /\ IsSeq(n)
  BY <1>4, AppendKeeps, Appending
<1>6. /\ Keeps(n, m) /\ m[Len(n) + 1] = Field("ivar", type) /\ Len(m) = Len(n) + 1
      /\ IsSeq(m)
  <2> HIDE DEF n
  <2> QED
    BY <1>5, AppendKeeps, Appending
<1>7. decls' = AddTo(m, Container, Len(decls) + 1 + 1)
  BY <1>3, <1>4, AppendedTwo DEF AddMember, AddTo
<1>8. y.name = NSObject
  BY DEF Decl
<1> HIDE DEF m, n, y
<1>9. Keeps(decls, m) /\ m[Len(decls) + 1].name = NSObject
  BY <1>4, <1>5, <1>6, <1>8 DEF Keeps
<1>10. Len(decls) + 1 + 1 = Len(m) /\ Len(m) > Len(decls) /\ m[Len(m)] = Field("ivar", type)
  BY <1>4, <1>5, <1>6
<1>11. type.decl = Len(decls) + 1 /\ type.decl \in 0..Len(m) /\ type.decl # 0
  BY <1>4, <1>10 DEF Qual
<1>12. ShownType(m, type) = Core(Object(<< >>))
  <2>1. ShownType(m, type) = Shown(<<PointerLayer>>, "interface", NSObject)
    BY <1>9, <1>11 DEF ShownType, Shown, Qual
  <2>2. Core(Object(<< >>)) = Shown(<<PointerLayer>>, "interface", NSObject)
    BY DEF Core, Object, Ty, NameOf
  <2> QED
    BY <2>1, <2>2
<1>13. /\ phase' = "member" /\ at' = at + 1
       /\ UNCHANGED <<metadata, unit, method, printed>>
  BY <1>3 DEF AddMember
<1> HIDE DEF type
<1>14. SaysMember(ShownField("ivar", ShownType(m, type)), Obj, at)
  BY <1>1, <1>12 DEF SaysMember, SaysField, ShownField, Member
<1> QED
  BY <1>1, <1>6, <1>7, <1>9, <1>10, <1>11, <1>13, <1>14, TellField DEF Telling

(***************************************************************************)
(* generate() tells the object.                                            *)
(***************************************************************************)
LEMMA TellAddObject ==
  ASSUME IInv, Telling, AddObject
  PROVE  Telling'
<1> DEFINE y == SetMembers(decls[unit], Append(decls[unit].members, Container))
<1>1. /\ phase = "member" /\ at > Len(Members(Obj)) /\ phase' = "print"
      /\ decls' = [decls EXCEPT ![unit] = y]
      /\ UNCHANGED <<metadata, unit, at, method, printed>>
  BY DEF AddObject, SetMembers
<1>2. /\ IsSeq(decls) /\ Len(decls) \in Nat /\ Good(decls, unit) /\ unit \in 1..Len(decls)
      /\ Container \in 1..Len(decls) /\ Container = unit + 1 /\ at - 1 \in Nat
      /\ method = 0 /\ unit # Container
  BY <1>1, Places DEF IInv, Control
<1>3. DOMAIN decls = 1..Len(decls) /\ IsDecl(decls[unit])
  BY <1>2, Sequence DEF Good
<1>4. ObjectTold /\ Drawn(decls, unit, Obj, at - 1) /\ decls[unit].members = << >>
  BY <1>1 DEF Telling, ObjectTold
<1>5. y.name = decls[unit].name /\ y.parent = decls[unit].parent /\ y.members = <<Container>>
  <2>1. Append(<< >>, Container) = <<Container>>
    OBVIOUS
  <2> QED
    BY <1>3, <1>4, <2>1 DEF IsDecl, HasFields, SetMembers
<1> HIDE DEF y
<1>6. /\ decls'[unit] = y /\ Len(decls') = Len(decls)
      /\ \A k \in 1..Len(decls) : k # unit => decls'[k] = decls[k]
  <2> DEFINE R == {decls[k] : k \in DOMAIN decls} \cup {y}
  <2>1. decls \in Seq(R) /\ y \in R
    BY <1>2 DEF IsSeq
  <2> HIDE DEF R
  <2>2. Len(decls') = Len(decls)
    BY <1>1, <1>2, <2>1
  <2> QED
    BY <1>1, <1>2, <1>3, <2>2
<1>7. SameNames(decls, decls') /\ Len(decls') \in Nat
  BY <1>2, <1>5, <1>6 DEF SameNames
<1>8. \A j \in 1..(at - 1) : decls[Container].members[j] \in (Container + 1)..Len(decls)
  BY <1>1, <1>4, MembersPlaced
<1>9. \A j \in 1..(at - 1) :
        decls'[decls[unit + 1].members[j]] = decls[decls[unit + 1].members[j]]
  BY <1>2, <1>6, <1>8
<1>10. decls'[unit].parent = decls[unit].parent /\ decls'[unit + 1] = decls[unit + 1]
  BY <1>2, <1>5, <1>6
<1>11. Drawn(decls', unit, Obj, at - 1)
  BY <1>2, <1>4, <1>7, <1>9, <1>10, DrawnStays
<1>12. at = Len(Members(Obj)) + 1
  BY <1>1, Present DEF IInv, Control
<1>13. Obj' = Obj /\ Members(Obj)' = Members(Obj) /\ Container' = Container
  BY <1>1, Fixed
<1>14. ObjectTold'
  BY <1>1, <1>5, <1>6, <1>11, <1>12, <1>13 DEF ObjectTold
<1>15. MethodTold'
  BY <1>1, <1>2 DEF MethodTold
<1> QED
  BY <1>1, <1>14, <1>15 DEF Telling

\* What is printed of an object that has all its members.
LEMMA TellPrinted ==
  ASSUME IInv, Telling, phase = "print"
  PROVE  Len(Text(decls, unit)) = 1 /\ SaysObject(Text(decls, unit)[1], Obj)
<1> DEFINE t == Text(decls, unit)
           s == ShownObject(decls, Container)
           c == decls[Container]
           n == Len(Members(Obj))
<1>1. /\ Len(decls) \in Nat /\ Good(decls, unit) /\ Container \in 1..Len(decls)
      /\ Container = unit + 1
  BY Places
<1>2. /\ decls[unit].members = <<Container>> /\ at - 1 = n /\ n \in Nat
      /\ HeadSays(decls, Container, Obj) /\ MembersSay(decls, Container, Obj, n)
  <2>1. n \in Nat
    BY Present
  <2>2. at = n + 1 /\ Drawn(decls, unit, Obj, at - 1) /\ decls[unit].members = <<Container>>
    BY DEF Telling, ObjectTold
  <2>3. at - 1 = n
    BY <2>1, <2>2
  <2> HIDE DEF n
  <2> QED
    BY <1>1, <2>1, <2>2, <2>3 DEF Drawn
<1>3. t = [k \in 1..1 |-> s]
  <2>1. DOMAIN <<Container>> = 1..1 /\ \A k \in 1..1 : <<Container>>[k] = Container
    OBVIOUS
  <2> QED
    BY <1>2, <2>1 DEF Text
<1> HIDE DEF s, t
<1>4. t[1] = s
  BY <1>3
<1>5. Len(t) = 1
  <2>1. t = <<s>>
    BY <1>3
  <2> QED
    BY <2>1
<1>6. s.kind = Obj.kind /\ s.name = Obj.name
  BY <1>2 DEF s, ShownObject, HeadSays
<1>7. s.protocols = Obj.protocols
  <2>1. IsObject(Obj)
    BY Present
  <2>2. Obj.protocols = [q \in DOMAIN Obj.protocols |-> Obj.protocols[q]]
    BY <2>1, Sequence DEF IsObject, IsSeq
  <2>3. s.protocols = [q \in DOMAIN c.protocols |-> decls[c.protocols[q]].name]
    BY DEF s, ShownObject
  <2>4. /\ DOMAIN c.protocols = DOMAIN Obj.protocols
        /\ \A q \in DOMAIN Obj.protocols : decls[c.protocols[q]].name = Obj.protocols[q]
    BY <1>2 DEF HeadSays
  <2> HIDE DEF c
  <2> QED
    BY <2>2, <2>3, <2>4
<1>8. /\ s.members = [k \in DOMAIN c.members |-> ShownMember(decls, c.members[k])]
      /\ DOMAIN c.members = 1..n
  <2>1. IsSeq(c.members) /\ Len(c.members) = n
    BY <1>1, <1>2, RefersWithin DEF MembersSay
  <2>2. DOMAIN c.members = 1..n
    <3> HIDE DEF n, c
    <3> QED
      BY <2>1, Sequence
  <2> QED
    BY <2>2 DEF s, ShownObject
<1>9. Len(s.members) = n
  <2> DEFINE R == {s.members[k] : k \in 1..n}
  <2>1. s.members \in [1..n -> R]
    BY <1>8
  <2> HIDE DEF n, R
  <2> QED
    BY <1>2, <2>1
<1>10. \A j \in 1..n : SaysMember(s.members[j], Obj, j)
  <2>1. \A j \in 1..n : SaysMember(ShownMember(decls, c.members[j]), Obj, j)
    BY <1>2 DEF MembersSay
  <2>2. \A j \in 1..n : s.members[j] = ShownMember(decls, c.members[j])
    BY <1>8
  <2> HIDE DEF n, c
  <2> QED
    BY <2>1, <2>2
<1>11. SaysObject(s, Obj)
  BY <1>6, <1>7, <1>9, <1>10 DEF SaysObject
<1> QED
  BY <1>4, <1>5, <1>11 DEF t

LEMMA TellPrinting ==
  ASSUME IInv, Telling, Faithful, PrintUnit
  PROVE  Faithful'
<1> DEFINE r == [unit |-> unit, text |-> Text(decls, unit)]
<1>1. phase = "print" /\ printed' = Append(printed, r) /\ metadata' = metadata
  BY DEF PrintUnit
<1>2. /\ Len(r.text) = 1 /\ SaysObject(r.text[1], Objects[Len(printed) + 1])
  BY <1>1, TellPrinted DEF Obj
<1> HIDE DEF r
<1>3. IsSeq(printed) /\ Len(printed) \in Nat
  BY Sequence DEF IInv, Control
<1>4. /\ IsSeq(printed') /\ Len(printed') = Len(printed) + 1
      /\ printed'[Len(printed) + 1] = r
      /\ \A k \in 1..Len(printed) : printed'[k] = printed[k]
  BY <1>1, <1>3, Appending
<1>5. DOMAIN printed' = 1..(Len(printed) + 1) /\ DOMAIN printed = 1..Len(printed)
  BY <1>3, <1>4, Sequence
<1>6. Objects' = Objects
  BY <1>1 DEF Objects
<1>7. ASSUME NEW k \in 1..(Len(printed) + 1)
      PROVE  Len(printed'[k].text) = 1 /\ SaysObject(printed'[k].text[1], Objects[k])
  <2>1. CASE k \in 1..Len(printed)
    BY <1>4, <1>5, <2>1 DEF Faithful
  <2>2. CASE k = Len(printed) + 1
    BY <1>2, <1>4, <2>2
  <2> QED
    BY <1>3, <2>1, <2>2
<1> QED
  BY <1>5, <1>6, <1>7 DEF Faithful

\* The declaration of an object without its members yet, in unit u.
LEMMA OpenedSays ==
  ASSUME NEW u \in Nat, IsObject(Obj), NEW s, s = Opened(u)
  PROVE  /\ Len(s) = 1 + Len(Obj.protocols) /\ Len(Obj.protocols) \in Nat
         /\ DOMAIN Obj.protocols = 1..Len(Obj.protocols)
         /\ s[1].kind = Obj.kind /\ s[1].name = Obj.name /\ s[1].parent = u
         /\ s[1].members = << >>
         /\ s[1].protocols = [k \in 1..Len(Obj.protocols) |-> u + 1 + k]
         /\ \A k \in 1..Len(Obj.protocols) : s[1 + k].name = Obj.protocols[k]
<1> DEFINE adopted == Obj.protocols
           object == Decl(Obj.kind, Obj.name, u)
           first == [object EXCEPT !.protocols = [k \in DOMAIN adopted |-> u + 1 + k]]
           rest == [k \in DOMAIN adopted |-> Decl("protocol", adopted[k], u + 1)]
<1>1. IsSeq(adopted) /\ Len(adopted) \in Nat /\ DOMAIN adopted = 1..Len(adopted)
  BY Sequence DEF IsObject
<1>2. s = <<first>> \o rest
  BY DEF Opened
<1>3. /\ first.kind = Obj.kind /\ first.name = Obj.name /\ first.parent = u
      /\ first.members = << >> /\ first.protocols = [k \in 1..Len(adopted) |-> u + 1 + k]
  BY <1>1 DEF Decl
<1>4. \A k \in 1..Len(adopted) : rest[k].name = adopted[k]
  BY <1>1 DEF Decl
<1>5. IsSeq(rest) /\ Len(rest) = Len(adopted)
  <2> DEFINE R == {rest[k] : k \in DOMAIN adopted}
  <2>1. rest \in [1..Len(adopted) -> R]
    BY <1>1
  <2>2. rest \in Seq(R) /\ Len(rest) = Len(adopted)
    BY <1>1, <2>1
  <2> QED
    BY <2>2, Widening
<1> HIDE DEF first, rest
<1>6. IsSeq(<<first>>) /\ Len(<<first>>) = 1 /\ <<first>>[1] = first
  <2>1. IsSeq(<<first>>)
    BY Single
  <2> QED
    BY <2>1
<1>7. /\ Len(s) = 1 + Len(adopted) /\ s[1] = first
      /\ \A k \in 1..Len(adopted) : s[1 + k] = rest[k]
  BY <1>2, <1>5, <1>6, Joining
<1> QED
  BY <1>1, <1>3, <1>4, <1>7

LEMMA TellGenerating ==
  ASSUME IInv, Generate
  PROVE  Telling'
<1> DEFINE n == Len(decls)
           root == Decl("unit", << >>, 0)
           u == n + 1
           c == u + 1
           s == Opened(u)
           e == decls \o <<root>> \o s
           adopted == Obj.protocols
<1>1. /\ phase = "idle" /\ phase' = "member" /\ Len(printed) < Len(Objects)
      /\ unit' = u /\ at' = 1 /\ decls' = e
      /\ UNCHANGED <<metadata, method, printed>>
  BY DEF Generate
<1>2. IsSeq(decls) /\ n \in Nat /\ Len(printed) \in Nat /\ method = 0
  BY <1>1, Present DEF IInv, Control
<1>3. IsObject(Obj)
  <2>1. metadata \in Metadatas /\ Len(printed) + 1 \in 1..Len(Objects)
    BY <1>1, <1>2, Sizes DEF IInv, Control
  <2> QED
    BY <2>1, Sizes DEF Obj
<1>4. root.members = << >> /\ root.parent = 0
  BY DEF Decl
<1>5. u \in Nat /\ c \in Nat /\ c = u + 1
  BY <1>2
<1> HIDE DEF root, c
<1>6. /\ Len(s) = 1 + Len(adopted) /\ Len(adopted) \in Nat
      /\ DOMAIN adopted = 1..Len(adopted)
      /\ s[1].kind = Obj.kind /\ s[1].name = Obj.name /\ s[1].parent = u
      /\ s[1].members = << >>
      /\ s[1].protocols = [k \in 1..Len(adopted) |-> u + 1 + k]
      /\ \A k \in 1..Len(adopted) : s[1 + k].name = adopted[k]
      /\ IsSeq(s)
  <2> HIDE DEF u, s, e, n
  <2>1. s = Opened(u)
    BY DEF s
  <2>2. IsSeq(s)
    BY <1>3, <1>5, <2>1, Opening DEF IsOpened
  <2>3. /\ Len(s) = 1 + Len(Obj.protocols) /\ Len(Obj.protocols) \in Nat
        /\ DOMAIN Obj.protocols = 1..Len(Obj.protocols)
        /\ s[1].kind = Obj.kind /\ s[1].name = Obj.name /\ s[1].parent = u
        /\ s[1].members = << >>
        /\ s[1].protocols = [k \in 1..Len(Obj.protocols) |-> u + 1 + k]
        /\ \A k \in 1..Len(Obj.protocols) : s[1 + k].name = Obj.protocols[k]
    BY <1>3, <1>5, <2>1, OpenedSays
  <2>4. Obj.protocols = adopted
    OBVIOUS
  <2> HIDE DEF adopted
  <2> QED
    BY <2>2, <2>3, <2>4
<1> HIDE DEF s
<1>7. /\ Len(e) = n + 1 + Len(s) /\ e[u] = root
      /\ \A k \in 1..Len(s) : e[u + k] = s[k]
  <2> DEFINE m == Append(decls, root)
  <2>1. IsSeq(m) /\ Len(m) = n + 1 /\ m[n + 1] = root
    BY <1>2, Appending
  <2>2. decls \o <<root>> = m
    <3> DEFINE R == {decls[k] : k \in DOMAIN decls} \cup {root}
    <3>1. decls \in Seq(R) /\ root \in R
      BY <1>2 DEF IsSeq
    <3> HIDE DEF R
    <3> QED
      BY <3>1
  <2>3. e = m \o s
    BY <2>2
  <2> HIDE DEF m
  <2> HIDE DEF e, n, adopted
  <2>4. /\ Len(m \o s) = Len(m) + Len(s)
        /\ \A k \in 1..Len(m) : (m \o s)[k] = m[k]
        /\ \A k \in 1..Len(s) : (m \o s)[Len(m) + k] = s[k]
    <3>1. IsSeq(m) /\ IsSeq(s)
      BY <1>6, <2>1
    <3> QED
      BY <3>1, Joining
  <2>5. n + 1 \in 1..Len(m)
    BY <1>2, <2>1
  <2> QED
    BY <1>2, <2>1, <2>3, <2>4, <2>5
<1> HIDE DEF e, adopted, n
<1>8. e[c] = s[1]
  BY <1>5, <1>6, <1>7
<1>9. HeadSays(e, c, Obj)
  <2>1. e[c].kind = Obj.kind /\ e[c].name = Obj.name
        /\ DOMAIN e[c].protocols = 1..Len(adopted)
    BY <1>6, <1>8
  <2>2. ASSUME NEW q \in 1..Len(adopted)
        PROVE  e[c].protocols[q] \in 1..Len(e) /\ e[e[c].protocols[q]].name = adopted[q]
    <3>1. e[c].protocols[q] = u + (1 + q)
      BY <1>5, <1>6, <1>8
    <3>2. 1 + q \in 1..Len(s)
      BY <1>6
    <3>3. e[u + (1 + q)] = s[1 + q]
      BY <1>7, <3>2
    <3>4. u + (1 + q) \in 1..Len(e)
      BY <1>2, <1>6, <1>7
    <3> QED
      BY <1>6, <3>1, <3>3, <3>4
  <2> QED
    BY <1>6, <2>1, <2>2 DEF HeadSays, adopted
<1>10. MembersSay(e, c, Obj, 0)
  BY <1>6, <1>8 DEF MembersSay
<1>11. Drawn(e, u, Obj, 0) /\ e[u].members = << >>
  <2>1. e[c].parent = u /\ e[u].parent = 0 /\ e[u].members = << >>
    BY <1>4, <1>6, <1>7, <1>8
  <2> HIDE DEF u
  <2> QED
    BY <1>5, <1>9, <1>10, <2>1 DEF Drawn
<1>12. Obj' = Obj
  BY <1>1 DEF Obj, Objects
<1>13. ObjectTold'
  <2>1. at' - 1 = 0 /\ phase' # "print" /\ unit' = u /\ decls' = e
    BY <1>1
  <2> HIDE DEF u
  <2> QED
    BY <1>11, <1>12, <2>1 DEF ObjectTold
<1>14. MethodTold'
  BY <1>1, <1>2 DEF MethodTold
<1> QED
  BY <1>1, <1>13, <1>14 DEF Telling

(***************************************************************************)
(* What is told of every object is what is printed of it.                  *)
(***************************************************************************)
Told == phase \notin {"idle", "crashed"} => Telling
FaithfulInv == IInv /\ OwnNames /\ Faithful /\ Told

LEMMA SameText ==
  ASSUME metadata' = metadata, printed' = printed, OwnNames
  PROVE  (Faithful => Faithful') /\ OwnNames'
<1>1. Objects' = Objects
  BY DEF Objects
<1> QED
  BY <1>1 DEF Faithful, OwnNames, DistinctNames

LEMMA ToldStarting == Init /\ OwnNames => FaithfulInv
<1> SUFFICES ASSUME Init, OwnNames PROVE FaithfulInv
  OBVIOUS
<1>1. phase = "idle" /\ printed = << >>
  BY DEF Init
<1>2. Faithful /\ Told
  BY <1>1 DEF Faithful, Told
<1> QED
  BY <1>2, Starting DEF FaithfulInv

LEMMA ToldStepping == FaithfulInv /\ [Next]_vars => FaithfulInv'
<1> SUFFICES ASSUME FaithfulInv, [Next]_vars PROVE FaithfulInv'
  OBVIOUS
<1>1. IInv /\ OwnNames /\ Faithful /\ IInv'
  BY Stepping DEF FaithfulInv
<1>2. phase \notin {"idle", "crashed"} => Telling
  BY DEF FaithfulInv, Told
<1>3. ASSUME metadata' = metadata, printed' = printed, phase' \notin {"idle", "crashed"} => Telling'
      PROVE  FaithfulInv'
  BY <1>1, <1>3, SameText DEF FaithfulInv, Told
<1>4. CASE Generate
  BY <1>1, <1>3, <1>4, TellGenerating DEF Generate
<1>5. CASE AddObject
  BY <1>1, <1>2, <1>3, <1>5, TellAddObject DEF AddObject
<1>6. CASE PrintUnit
  <2>1. Telling /\ phase' = "idle" /\ metadata' = metadata
    BY <1>2, <1>6 DEF PrintUnit
  <2>2. Faithful'
    BY <1>1, <1>6, <2>1, TellPrinting
  <2>3. OwnNames'
    BY <1>1, <2>1 DEF OwnNames, DistinctNames, Objects
  <2> QED
    BY <1>1, <2>1, <2>2, <2>3 DEF FaithfulInv, Told
<1>7. CASE BeginMethod
  <2>1. phase = "member" /\ metadata' = metadata /\ printed' = printed
    BY <1>7 DEF BeginMethod, AtMember
  <2> QED
    BY <1>1, <1>2, <1>3, <1>7, <2>1, TellBeginMethod
<1>8. CASE MethodHead
  BY <1>1, <1>2, <1>3, <1>8, TellHead DEF MethodHead
<1>9. CASE SelfParam
  BY <1>1, <1>2, <1>3, <1>9, TellSelf DEF SelfParam
<1>10. CASE BeginParam
  BY <1>1, <1>2, <1>3, <1>10, TellBeginParam DEF BeginParam
<1>11. CASE TakeParam
  BY <1>1, <1>2, <1>3, <1>11, TellTakeParam DEF TakeParam
<1>12. CASE EndMethod
  BY <1>1, <1>2, <1>3, <1>12, TellEndMethod DEF EndMethod
<1>13. CASE BeginIvar
  <2>1. phase = "member" /\ metadata' = metadata /\ printed' = printed
    BY <1>13 DEF BeginIvar, AtMember
  <2> QED
    BY <1>1, <1>2, <1>3, <1>13, <2>1, TellBeginIvar
<1>14. CASE TakeIvar
  <2>1. phase = "typed" /\ metadata' = metadata /\ printed' = printed
    BY <1>14 DEF TakeIvar, AddMember
  <2> QED
    BY <1>1, <1>2, <1>3, <1>14, <2>1, TellTakeIvar
<1>15. CASE UnresolvedIvar
  <2>1. phase = "member" /\ metadata' = metadata /\ printed' = printed
    BY <1>15 DEF UnresolvedIvar, AtMember, AddMember
  <2> QED
    BY <1>1, <1>2, <1>3, <1>15, <2>1, TellUnresolved
<1>16. CASE UntypedIvar
  <2>1. phase = "member"
    BY <1>16 DEF UntypedIvar, AtMember
  <2>2. \E decl, new : AddMember(decl, new)
    BY <1>16 DEF UntypedIvar
  <2>3. metadata' = metadata /\ printed' = printed
    BY <2>2 DEF AddMember
  <2> QED
    BY <1>1, <1>2, <1>3, <1>16, <2>1, <2>3, TellUntyped
<1>17. CASE DeclProperty
  <2>1. phase = "member" /\ metadata' = metadata /\ printed' = printed
    BY <1>17 DEF DeclProperty, AtMember, AddMember
  <2> QED
    BY <1>1, <1>2, <1>3, <1>17, <2>1, TellProperty
<1>18. CASE DereferenceNull
  BY <1>1, <1>3, <1>18 DEF DereferenceNull
<1>19. CASE WrappedType
  BY <1>1, <1>2, <1>3, <1>19, TellWrapping DEF WrappedType, Asked
<1>20. ASSUME phase = "qtype", NEW base, Answer(base)
       PROVE  Telling /\ metadata' = metadata /\ printed' = printed
              /\ phase' \in {"crashed", "typed"}
  BY <1>2, <1>20 DEF Answer
<1>21. CASE BuiltinType
  <2>1. phase = "qtype" /\ \E base : Answer(base)
    BY <1>21 DEF BuiltinType
  <2> QED
    BY <1>1, <1>3, <1>20, <1>21, <2>1, TellBuiltin
<1>22. CASE RecordType
  <2>1. phase = "qtype" /\ \E base : Answer(base)
    BY <1>22 DEF RecordType, Asked
  <2> QED
    BY <1>1, <1>3, <1>20, <1>22, <2>1, TellRecord
<1>23. CASE ObjectType
  <2>1. phase = "qtype" /\ \E base : Answer(base)
    BY <1>23 DEF ObjectType, Asked
  <2> QED
    BY <1>1, <1>3, <1>20, <1>23, <2>1, TellObject
<1>24. CASE UNCHANGED vars
  <2>1. UNCHANGED <<metadata, decls, unit, at, method, phase, arg, scope, wraps, qual, printed>>
    BY <1>24 DEF vars, callVars
  <2>2. Telling => Telling'
    <3>1. Container' = Container /\ Obj' = Obj /\ Member' = Member /\ Members(Obj)' = Members(Obj)
      BY <2>1, Fixed
    <3>2. /\ Params' = Params /\ Param' = Param /\ InClass' = InClass
      BY <2>1, <3>1 DEF Params, Param, InClass
    <3>3. IsSelf' = IsSelf /\ AskedType' = AskedType
      BY <2>1, <3>1, <3>2 DEF IsSelf, AskedType
    <3>4. ObjectTold => ObjectTold'
      BY <2>1, <3>1 DEF ObjectTold
    <3>5. MethodTold => MethodTold'
      BY <2>1, <3>1 DEF MethodTold
    <3>6. Asker => Asker'
      BY <2>1, <3>1, <3>2, <3>3 DEF Asker
    <3>7. Reached => Reached'
      BY <2>1, <3>3 DEF Reached
    <3> QED
      BY <2>1, <3>3, <3>4, <3>5, <3>6, <3>7 DEF Telling
  <2> QED
    BY <1>2, <1>3, <2>1, <2>2
<1> QED
  BY <1>4, <1>5, <1>6, <1>7, <1>8, <1>9, <1>10, <1>11, <1>12, <1>13, <1>14, <1>15, <1>16,
     <1>17, <1>18, <1>19, <1>21, <1>22, <1>23, <1>24 DEF Next

\* Metadata::to_decl (Metadata.cpp:34-47) prints of each protocol and class what
\* its metadata says: its name and protocols, each of its methods, ivars and
\* properties (ASTGen.cpp:289-411), and their types, made by get_qtype() (130-287).
\* It does so of any metadata in which no member has a type with the name of an
\* ivar or a property before it, which search() (ASTGen.cpp:38-45) would take for
\* the type.
THEOREM PrintsFaithful == Spec /\ OwnNames => []Faithful
<1>1. FaithfulInv => Faithful
  BY DEF FaithfulInv
<1> QED
  BY <1>1, ToldStarting, ToldStepping, PTL DEF Spec
=============================================================================

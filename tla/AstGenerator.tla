---------------------------- MODULE AstGenerator ----------------------------
(***************************************************************************)
(* Metadata::to_decl and the declaration generator (ClangAST/): for each   *)
(* protocol, then for each class, generate() makes a translation unit in   *)
(* the ASTContext that the process keeps, declares the object in it member *)
(* by member and prints the unit.                                          *)
(*                                                                         *)
(* decls is that ASTContext, every declaration ever created in order of    *)
(* creation; a Decl* is an index of it.  A declaration has a parent (0:    *)
(* none) from its creation on, but its parent finds it as a member only    *)
(* after addDecl.  get_qtype() resolves the type arg as seen from the      *)
(* declaration scope; wraps are the pointers and arrays around arg.        *)
(***************************************************************************)
EXTENDS ObjCTypes, Integers, Sequences, FiniteSets

CONSTANT Metadatas  \* records of protocols and classes

IsSeq(s) == s \in Seq({s[k] : k \in DOMAIN s})
IsObject(o) ==
  /\ o.kind \in {"protocol", "interface"}
  /\ IsSeq(o.protocols)
  /\ IsSeq(o.optional) /\ IsSeq(o.methods) /\ IsSeq(o.ivars) /\ IsSeq(o.properties)

ASSUME MetadatasAssumption == \A m \in Metadatas :
  \A list \in {m.protocols, m.classes} :
    IsSeq(list) /\ \A k \in DOMAIN list : IsObject(list[k])

VARIABLES
  metadata,
  decls,    \* the ASTContext
  unit,     \* the translation unit of generate()
  at,       \* the member of the object that is declared next
  method,   \* the method whose parameters are declared, 0 if none
  phase,    \* "idle", "member", "param", "qtype", "typed", "print" or,
            \* after a null type was used, "crashed"
  arg, scope, wraps,  \* the arguments of get_qtype
  qual,     \* its result
  printed   \* the units so far, and what was printed of each

callVars == <<arg, scope, wraps, qual>>
vars == <<metadata, decls, unit, at, method, phase, callVars, printed>>

-----------------------------------------------------------------------------
(***************************************************************************)
(* Declarations and the types of declarations.                             *)
(***************************************************************************)
Qual(layers, base, decl) == [wraps |-> layers, base |-> base, decl |-> decl]
NoQual == Qual(<< >>, "none", 0)
NullQual == Qual(<< >>, "null", 0)
UnknownAny == Qual(<< >>, "unknown any", 0)
Layer(kind, dim) == [kind |-> kind, dim |-> dim]
PointerLayer == Layer("pointer", 0)

Decl(kind, name, parent) ==
  [kind |-> kind, name |-> name, parent |-> parent, members |-> << >>,
   protocols |-> << >>, type |-> NoQual, params |-> << >>,
   instance |-> TRUE, optional |-> FALSE]

Records == {"struct", "union"}
NSObject == <<"NSObject">>

\* The members of a context with a name.  Methods have selectors for names,
\* which are not searched for.
Named(dc, name) ==
  IF dc = 0 THEN {}
  ELSE {d \in {decls[dc].members[k] : k \in DOMAIN decls[dc].members} :
          decls[d].kind # "method" /\ decls[d].name = name}
Parent(d) == IF d = 0 THEN 0 ELSE decls[d].parent

\* Mutant of Search: the names of every unit are in one table.
SearchEverywhere(dc, name) ==
  {d \in DOMAIN decls : decls[d].kind \in {"interface", "ivar", "property"}
                        /\ decls[d].name = name}

\* search(): those of the innermost context that has any.  A method is in an
\* object, an object in a unit.
Search(dc, name) ==
  LET object == Named(Parent(dc), name)
  IN  IF Named(dc, name) # {} THEN Named(dc, name)
      ELSE IF object # {} THEN object ELSE Named(Parent(Parent(dc)), name)

Objects == metadata.protocols \o metadata.classes
Obj == Objects[Len(printed) + 1]
Container == unit + 1
InClass == Obj.kind = "interface"

\* The members of an object, in the order of decl_protocol and decl_class.
Members(o) == o.optional \o o.methods \o o.ivars \o o.properties
ASSUME TypesAssumption == \A m \in Metadatas :
  \A list \in {m.protocols, m.classes} : \A k \in DOMAIN list :
    \A j \in DOMAIN Members(list[k]) :
      LET member == Members(list[k])[j]
      IN  /\ member.kind \in {"method", "ivar", "property"}
          /\ member.kind # "property" => IsSeq(member.types)

Member == Members(Obj)[at]
AtMember(kind) ==
  phase = "member" /\ at <= Len(Members(Obj)) /\ Member.kind = kind
Params == Prototype(Member.types).params
Param == Len(decls[method].params) + 1

-----------------------------------------------------------------------------
Init ==
  /\ metadata \in Metadatas
  /\ decls = << >> /\ unit = 0 /\ at = 1 /\ method = 0 /\ phase = "idle"
  /\ arg = Null /\ scope = 0 /\ wraps = << >> /\ qual = NoQual
  /\ printed = << >>

(***************************************************************************)
(* get_qtype().                                                            *)
(***************************************************************************)
Ask(type, dc) ==
  /\ phase' = "qtype" /\ arg' = type /\ scope' = dc /\ wraps' = << >>
  /\ qual' = NoQual

Asked(types) == phase = "qtype" /\ arg.type \in types

\* get_qtype() has found base; a null type cannot be wrapped.
Answer(base) ==
  /\ phase' = IF base.base = "null" /\ wraps # << >> THEN "crashed" ELSE "typed"
  /\ qual' = [base EXCEPT !.wraps = wraps \o @]
  /\ UNCHANGED <<metadata, unit, at, method, arg, scope, wraps, printed>>

\* *type, of a type that could not be decoded.
DereferenceNull ==
  /\ Asked({"nullptr"})
  /\ phase' = "crashed"
  /\ UNCHANGED <<metadata, decls, unit, at, method, callVars, printed>>

\* Mutant of WrappedType: the recursive call has the same argument.
WrappedTypeAgain ==
  /\ Asked({"pointer", "array"})
  /\ UNCHANGED vars

WrappedType ==
  /\ Asked({"pointer", "array"})
  /\ wraps' = Append(wraps, Layer(arg.type, arg.dim))
  /\ arg' = arg.subs[1].type
  /\ UNCHANGED <<metadata, decls, unit, at, method, phase, scope, qual, printed>>

BuiltinType ==
  /\ phase = "qtype"
  /\ arg.type \notin Records \cup {"nullptr", "pointer", "array", "@"}
  /\ Answer(Qual(<< >>, IF arg.type \in {"?", "b"} THEN "v" ELSE arg.type, 0))
  /\ UNCHANGED decls

\* Mutant of Declare: no declaration is created.
DeclareNothing(kind, name) == UNCHANGED decls

\* A name that is not found is declared, under scope, as kind.
Declare(kind, name) == decls' = Append(decls, Decl(kind, name, scope))
Declared(kind) == Qual(<< >>, kind, Len(decls) + 1)

RecordType ==
  /\ Asked(Records)
  /\ LET found == Search(scope, arg.name)
     IN  IF found = {}
         THEN Declare(arg.type, arg.name) /\ Answer(Declared(arg.type))
         ELSE /\ UNCHANGED decls
              /\ IF Cardinality(found) > 1 THEN Answer(NullQual)
                 ELSE LET d == CHOOSE d \in found : TRUE
                      IN  IF decls[d].kind \in Records
                          THEN Answer(Qual(<< >>, decls[d].kind, d))
                          ELSE Answer(Qual(<<PointerLayer>>, "v", 0))

ObjectType ==
  /\ Asked({"@"})
  /\ LET name == IF arg.name = << >> THEN NSObject ELSE arg.name
         found == Search(scope, name)
         interfaces == {d \in found : decls[d].kind = "interface"}
     IN  IF found = {}
         THEN /\ Declare("interface", name)
              /\ Answer([Declared("interface") EXCEPT !.wraps = <<PointerLayer>>])
         ELSE /\ UNCHANGED decls
              /\ IF Cardinality(found) = 1 /\ interfaces = found
                 THEN Answer(Qual(<<PointerLayer>>, "interface", CHOOSE d \in found : TRUE))
                 ELSE Answer(Qual(<<PointerLayer>>, "v", 0))

(***************************************************************************)
(* decl_method().                                                          *)
(***************************************************************************)
BeginMethod ==
  /\ AtMember("method")
  /\ Ask(Prototype(Member.types).rtype, Container)
  /\ UNCHANGED <<metadata, decls, unit, at, method, printed>>

MethodHead ==
  /\ phase = "typed" /\ Member.kind = "method" /\ method = 0
  /\ decls' = Append(decls,
       [Decl("method", Member.name, Container) EXCEPT
          !.type = qual, !.instance = Member.instance])
  /\ method' = Len(decls) + 1
  /\ phase' = "param"
  /\ UNCHANGED <<metadata, unit, at, callVars, printed>>

ArgName(k, p) ==
  IF k = 1 /\ p.type = "@" THEN <<"self", 0>>
  ELSE IF p.type = ":" THEN <<"id", 0>> ELSE <<"arg", k - 1>>
AddParam(type) ==
  decls' = [decls EXCEPT ![method].params =
              Append(@, [name |-> ArgName(Param, Params[Param]), type |-> type])]

IsSelf == Param = 1 /\ Params[Param].type = "@"

\* Mutant of SelfParam: in a protocol, too.
SelfParamAlways ==
  /\ phase = "param" /\ Param <= Len(Params) /\ IsSelf
  /\ AddParam(Qual(<<PointerLayer>>, "interface", Container))
  /\ UNCHANGED <<metadata, unit, at, method, phase, callVars, printed>>

SelfParam ==
  /\ phase = "param" /\ Param <= Len(Params) /\ IsSelf /\ InClass
  /\ AddParam(Qual(<<PointerLayer>>, "interface", Container))
  /\ UNCHANGED <<metadata, unit, at, method, phase, callVars, printed>>

BeginParam ==
  /\ phase = "param" /\ Param <= Len(Params) /\ ~ (IsSelf /\ InClass)
  /\ Ask(Params[Param], method)
  /\ UNCHANGED <<metadata, decls, unit, at, method, printed>>

TakeParam ==
  /\ phase = "typed" /\ method # 0
  /\ AddParam(qual)
  /\ phase' = "param"
  /\ UNCHANGED <<metadata, unit, at, method, callVars, printed>>

\* setMethodParams and addDecl; decl_protocol then says of the method
\* whether it is optional.
EndMethod ==
  /\ phase = "param" /\ Param > Len(Params)
  /\ decls' = [decls EXCEPT
       ![method].optional = at <= Len(Obj.optional),
       ![Container].members = Append(@, method)]
  /\ method' = 0 /\ at' = at + 1 /\ phase' = "member"
  /\ UNCHANGED <<metadata, unit, callVars, printed>>

(***************************************************************************)
(* decl_ivar() and decl_property().                                        *)
(***************************************************************************)
\* A member of one declaration is created and added.
AddMember(decl, new) ==
  /\ decls' = [decls \o new \o <<decl>> EXCEPT
       ![Container].members = Append(@, Len(decls) + Len(new) + 1)]
  /\ at' = at + 1 /\ phase' = "member"
  /\ UNCHANGED <<metadata, unit, method, callVars, printed>>

IvarDecl(type) == [Decl("ivar", Member.name, Container) EXCEPT !.type = type]

\* IVar::type() gives a type when the string is one type.
BeginIvar ==
  /\ AtMember("ivar") /\ Member.encoded /\ Len(Member.types) = 1
  /\ Ask(Member.types[1], Container)
  /\ UNCHANGED <<metadata, decls, unit, at, method, printed>>

TakeIvar ==
  /\ phase = "typed" /\ Member.kind = "ivar"
  /\ AddMember(IvarDecl(qual), << >>)

UnresolvedIvar ==
  /\ AtMember("ivar") /\ Member.encoded /\ Len(Member.types) # 1
  /\ AddMember(IvarDecl(UnknownAny), << >>)

\* NSObjectTy(), for an ivar without a type.
UntypedIvar ==
  /\ AtMember("ivar") /\ ~ Member.encoded
  /\ LET found == Search(Container, NSObject)
         interfaces == {d \in found : decls[d].kind = "interface"}
     IN  IF found = {}
         THEN AddMember(IvarDecl(Qual(<<PointerLayer>>, "interface", Len(decls) + 1)),
                        <<Decl("interface", NSObject, Container)>>)
         ELSE AddMember(IvarDecl(
                IF interfaces = {} THEN Qual(<<PointerLayer>>, "unknown any", 0)
                ELSE Qual(<<PointerLayer>>, "interface", CHOOSE d \in interfaces : TRUE)),
                << >>)

DeclProperty ==
  /\ AtMember("property")
  /\ AddMember([Decl("property", Member.name, Container) EXCEPT
                  !.type = Qual(<< >>, "v", 0)], << >>)

(***************************************************************************)
(* generate().                                                             *)
(***************************************************************************)
\* What print() shows: a declaration by its name.
ShownType(ds, q) ==
  [wraps |-> q.wraps, base |-> q.base,
   name |-> IF q.decl = 0 THEN << >> ELSE ds[q.decl].name]
ShownMember(ds, d) ==
  [kind |-> ds[d].kind, name |-> ds[d].name, type |-> ShownType(ds, ds[d].type),
   params |-> [k \in DOMAIN ds[d].params |->
                 [name |-> ds[d].params[k].name,
                  type |-> ShownType(ds, ds[d].params[k].type)]],
   instance |-> ds[d].instance, optional |-> ds[d].optional]
ShownObject(ds, d) ==
  [kind |-> ds[d].kind, name |-> ds[d].name,
   protocols |-> [k \in DOMAIN ds[d].protocols |-> ds[ds[d].protocols[k]].name],
   members |-> [k \in DOMAIN ds[d].members |-> ShownMember(ds, ds[d].members[k])]]
Text(ds, u) == [k \in DOMAIN ds[u].members |-> ShownObject(ds, ds[u].members[k])]

\* decl_protocol and decl_class up to their first loop over members.
Opened(u) ==
  LET adopted == Obj.protocols
      object == Decl(Obj.kind, Obj.name, u)
  IN  <<[object EXCEPT !.protocols = [k \in DOMAIN adopted |-> u + 1 + k]]>>
      \o [k \in DOMAIN adopted |-> Decl("protocol", adopted[k], u + 1)]

Generate ==
  /\ phase = "idle" /\ Len(printed) < Len(Objects)
  /\ decls' = decls \o <<Decl("unit", << >>, 0)>> \o Opened(Len(decls) + 1)
  /\ unit' = Len(decls) + 1 /\ at' = 1 /\ phase' = "member"
  /\ UNCHANGED <<metadata, method, callVars, printed>>

\* Mutant of AddObject: it is added to the unit of the ASTContext.
AddObjectToContext ==
  /\ phase = "member" /\ at > Len(Members(Obj))
  /\ decls' = [decls EXCEPT ![1].members = Append(@, Container)]
  /\ phase' = "print"
  /\ UNCHANGED <<metadata, unit, at, method, callVars, printed>>

\* The object is added to the unit when it is complete.
AddObject ==
  /\ phase = "member" /\ at > Len(Members(Obj))
  /\ decls' = [decls EXCEPT ![unit].members = Append(@, Container)]
  /\ phase' = "print"
  /\ UNCHANGED <<metadata, unit, at, method, callVars, printed>>

PrintUnit ==
  /\ phase = "print"
  /\ printed' = Append(printed, [unit |-> unit, text |-> Text(decls, unit)])
  /\ phase' = "idle"
  /\ UNCHANGED <<metadata, decls, unit, at, method, callVars>>

Next ==
  \/ Generate \/ AddObject \/ PrintUnit
  \/ BeginMethod \/ MethodHead \/ SelfParam \/ BeginParam \/ TakeParam \/ EndMethod
  \/ BeginIvar \/ TakeIvar \/ UnresolvedIvar \/ UntypedIvar \/ DeclProperty
  \/ DereferenceNull \/ WrappedType \/ BuiltinType \/ RecordType \/ ObjectType

\* to_decl is a sequential call that nothing blocks.
Spec == Init /\ [][Next]_vars /\ WF_vars(Next)

-----------------------------------------------------------------------------
(***************************************************************************)
(* Properties.                                                             *)
(***************************************************************************)
Refers(ds, d) ==
  {ds[d].type.decl, ds[d].parent}
  \cup {ds[d].members[k] : k \in DOMAIN ds[d].members}
  \cup {ds[d].protocols[k] : k \in DOMAIN ds[d].protocols}
  \cup {ds[d].params[k].type.decl : k \in DOMAIN ds[d].params}

\* The types of the variables.  A declaration refers to declarations, its
\* parent was created before it and its members after it.
TypeOK ==
  /\ phase \in {"idle", "member", "param", "qtype", "typed", "print", "crashed"}
  /\ unit \in 0..Len(decls) /\ method \in 0..Len(decls) /\ scope \in 0..Len(decls)
  /\ qual.decl \in 0..Len(decls) /\ Len(printed) <= Len(Objects)
  /\ \A d \in DOMAIN decls :
       /\ Refers(decls, d) \subseteq 0..Len(decls) /\ decls[d].parent < d
       /\ \A k \in DOMAIN decls[d].members : decls[d].members[k] > d
  /\ phase \notin {"idle", "crashed"} => at <= Len(Members(Obj)) + 1

\* The ASTContext is shared by all objects that are ever declared, but no
\* declaration refers to one of another unit: what an object's names are
\* resolved to does not depend on the objects declared before.
OwnUnit ==
  \A d \in DOMAIN decls : \A r \in Refers(decls, d) \ {0} :
    \A u \in DOMAIN decls :
      decls[u].kind = "unit" => (u <= d <=> u <= r)

\* What was printed of a unit is what it would print now: no later object
\* adds to the declarations of an earlier one or changes them.
Reprints ==
  \A k \in DOMAIN printed : Text(decls, printed[k].unit) = printed[k].text

\* What is left of t below n pointers and arrays, where there are as many.
Wraps(t) == t.type \in {"pointer", "array"}
Inner(t) ==
  LET inner[n \in Nat] == IF n = 0 THEN t ELSE inner[n - 1].subs[1].type
  IN  inner
Below(t, n) == \A k \in 1..n : Wraps(Inner(t)[k - 1])
Layers(t, n) ==
  [k \in 1..n |-> Layer(Inner(t)[k - 1].type, Inner(t)[k - 1].dim)]

\* What a type says that is no pointer or array.
Shown(layers, base, name) == [wraps |-> layers, base |-> base, name |-> name]
NameOf(t) == IF t.type = "@" /\ t.name = << >> THEN NSObject ELSE t.name
Core(t) ==
  IF t.type = "@" THEN Shown(<<PointerLayer>>, "interface", NameOf(t))
  ELSE IF t.type \in Records THEN Shown(<< >>, t.type, t.name)
  ELSE Shown(<< >>, IF t.type \in {"?", "b"} THEN "v" ELSE t.type, << >>)

\* What the declaration of an object says, from the object alone.
Says(s, t) ==
  \E n \in 0..Len(s.wraps) :
    /\ Below(t, n) /\ ~ Wraps(Inner(t)[n])
    /\ s = [Core(Inner(t)[n]) EXCEPT !.wraps = Layers(t, n) \o @]

\* The receiver is an object of the class.
SaysParam(p, o, k, t) ==
  /\ p.name = ArgName(k, t)
  /\ IF k = 1 /\ t.type = "@" /\ o.kind = "interface"
     THEN p.type = Shown(<<PointerLayer>>, "interface", o.name) ELSE Says(p.type, t)

SaysMethod(s, o, j, m) ==
  LET params == Prototype(m.types).params
  IN  /\ s.instance = m.instance /\ s.optional = (j <= Len(o.optional))
      /\ Says(s.type, Prototype(m.types).rtype)
      /\ Len(s.params) = Len(params)
      /\ \A k \in 1..Len(params) : SaysParam(s.params[k], o, k, params[k])
SaysField(s, m) ==
  /\ s.params = << >> /\ s.instance = TRUE /\ s.optional = FALSE
  /\ CASE m.kind = "property" -> s.type = Core(Leaf("v"))
       [] m.kind = "ivar" /\ ~ m.encoded -> s.type = Core(Object(<< >>))
       [] m.kind = "ivar" /\ m.encoded /\ Len(m.types) = 1 -> Says(s.type, m.types[1])
       [] OTHER -> s.type = Shown(<< >>, "unknown any", << >>)
SaysMember(s, o, j) ==
  LET m == Members(o)[j]
  IN  /\ s.kind = m.kind /\ s.name = m.name
      /\ IF m.kind = "method" THEN SaysMethod(s, o, j, m) ELSE SaysField(s, m)
SaysObject(s, o) ==
  /\ s.kind = o.kind /\ s.name = o.name /\ s.protocols = o.protocols
  /\ Len(s.members) = Len(Members(o))
  /\ \A j \in 1..Len(Members(o)) : SaysMember(s.members[j], o, j)

\* Metadata::to_decl prints the protocols and then the classes, each with
\* the members it has, the types they have and nothing else, whatever was
\* declared before in the same context.
Faithful ==
  \A k \in DOMAIN printed :
    Len(printed[k].text) = 1 /\ SaysObject(printed[k].text[1], Objects[k])

\* A type that cannot be decoded is reported (Method.cpp:79, IVar.cpp:56,
\* ASTGen.cpp:405) and does not end the program.
NoNullType == phase # "crashed"
=============================================================================

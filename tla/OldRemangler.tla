---------------------------- MODULE OldRemangler ----------------------------
(***************************************************************************)
(* The writer of the old Swift mangling (Demangling/OldRemangler.cpp), for *)
(* the trees that OldDemangler reads: what the Swift runtime calls a class *)
(* in the metadata of Objective-C. A writer w is the text so far and the   *)
(* substitutions so far.                                                   *)
(***************************************************************************)
EXTENDS SwiftNodes

Writer == [text |-> << >>, subs |-> << >>]
Out(w, text) == [w EXCEPT !.text = @ \o text]
AddSubstitution(w, node) == [w EXCEPT !.subs = Append(@, node)]

Digits[n \in Nat] ==
  (IF n < 10 THEN << >> ELSE Digits[n \div 10]) \o <<ToString(n % 10)>>
OutIndex(w, i) == Out(w, IF i = 0 THEN <<"_">> ELSE Append(Digits[i - 1], "_"))
OutIdentifier(w, text) == Out(w, Digits[Len(text)] \o text)

\* The code of the module or type of the standard library that a node is.
StdCode(node) ==
  CASE node = STDLIB -> <<"s">>
    [] node \in Kinds(StdModule) -> <<"S", CodeOf(StdModule, node)>>
    [] node \in Kinds(StdType) -> <<"S", CodeOf(StdType, node)>>
    [] OTHER -> << >>

\* mangleModule and mangleNominalType: a code, a substitution, or what the
\* node is when written, which then becomes one.
Substitutable(node, w, written) ==
  LET known == {i \in DOMAIN w.subs : w.subs[i] = node} IN
  CASE StdCode(node) # << >> -> Out(w, StdCode(node))
    [] StdCode(node) = << >> /\ known # {} ->
         OutIndex(Out(w, <<"S">>), (CHOOSE i \in known : TRUE) - 1)
    [] OTHER -> AddSubstitution(written, node)

NominalKinds == Kinds(Nominal) \cup {"TypeAlias"}
BoundKinds == {BoundGeneric[kind] : kind \in DOMAIN BoundGeneric}

\* The kinds that are specialized when what they are in is.
InheritKinds ==
  NominalKinds \cup Kinds(Basic) \cup Kinds(Typed) \cup Kinds(Closure)
  \cup {"Protocol", "Destructor", "Subscript", "DefaultArgumentInitializer",
        "Getter", "Setter", "WillSet", "DidSet", "ReadAccessor", "ModifyAccessor",
        "UnsafeAddressor", "UnsafeMutableAddressor", "Static"}

RECURSIVE IsSpecialized(_), Unspecialized(_)
IsSpecialized(node) ==
  \/ node.kind \in BoundKinds
  \/ node.kind \in InheritKinds /\ IsSpecialized(node.kids[1])
  \/ node.kind = "Extension" /\ IsSpecialized(node.kids[2])

Unspecialized(node) ==
  IF ~IsSpecialized(node) THEN node
  ELSE CASE node.kind \in BoundKinds -> Unspecialized(node.kids[1].kids[1])
         [] node.kind = "Extension" -> [node EXCEPT !.kids[2] = Unspecialized(@)]
         [] OTHER -> [node EXCEPT !.kids[1] = Unspecialized(@)]

RECURSIVE Mangle(_, _), EntityContext(_, _), GenericArgs(_, _), AnyNominal(_, _)

MangleKids(kids, w) == FoldLeft(LAMBDA v, kid : Mangle(kid, v), w, kids)

ModuleName(node, w) == Substitutable(node, w, OutIdentifier(w, node.text))

\* mangleNamedEntity and its kin: a code, the context, the code of the name,
\* and the kids that are left.
EntityOf(node, code, nameCode, w) ==
  MangleKids(Tail(node.kids), Out(EntityContext(node.kids[1], Out(w, code)), nameCode))

NominalName(node, code, w) ==
  Substitutable(node, w, EntityOf(node, code, << >>, w))

AccessorOf(node, code, w) ==
  LET storage == node.kids[1]
      kids == storage.kids
      v == Out(EntityContext(kids[1], Out(w, <<"F">>)), code)
  IN IF storage.kind = "Variable" THEN MangleKids(Tail(kids), v)
     ELSE Mangle(kids[2], OutIdentifier(MangleKids(Tail(Tail(kids)), v), Subscript))

\* The bound types of all levels, the outermost first.
GenericArgs(node, w) ==
  CASE node.kind \in Kinds(Nominal) -> Out(GenericArgs(node.kids[1], w), <<"_">>)
    [] node.kind \in BoundKinds ->
         Mangle(node.kids[2], GenericArgs(node.kids[1].kids[1].kids[1], w))
    [] node.kind = "Extension" -> GenericArgs(node.kids[2], w)
    [] OTHER -> w

AnyNominal(node, w) ==
  CASE IsSpecialized(node) ->
         GenericArgs(node, AnyNominal(Unspecialized(node), Out(w, <<"G">>)))
    [] ~IsSpecialized(node) /\ node.kind = "TypeAlias" -> NominalName(node, <<"a">>, w)
    [] OTHER -> NominalName(node, <<CodeOf(Nominal, node.kind)>>, w)

EntityContext(node, w) ==
  LET kind == node.kind
      In(code, nameCode) == EntityOf(node, <<code>>, nameCode, w)
  IN CASE kind = "Module" -> ModuleName(node, w)
       [] kind \in NominalKinds \cup BoundKinds -> AnyNominal(node, w)
       [] kind = "Protocol" -> NominalName(node, <<"P">>, w)
       [] kind = "Extension" ->
            EntityContext(node.kids[2], EntityContext(node.kids[1], Out(w, <<"E">>)))
       [] kind = "Static" -> EntityContext(node.kids[1], Out(w, <<"Z">>))
       [] kind = "Initializer" -> In("I", <<"i">>)
       [] kind = "DefaultArgumentInitializer" -> In("I", <<"A">>)
       [] kind \in {"Function", "Variable"} -> In(CodeOf(Basic, kind), << >>)
       [] kind \in Kinds(Bare) -> In("F", <<CodeOf(Bare, kind)>>)
       [] kind \in Kinds(Typed) -> In("F", <<CodeOf(Typed, kind)>>)
       [] kind \in Kinds(Closure) -> In("F", <<CodeOf(Closure, kind)>>)
       [] kind \in Kinds(Accessor) -> AccessorOf(node, <<CodeOf(Accessor, kind)>>, w)
       [] OTHER -> LET c == CHOOSE c \in DOMAIN Addressor : kind \in Kinds(Addressor[c])
                   IN AccessorOf(node, <<c, CodeOf(Addressor[c], kind)>>, w)

ProtocolListOf(node, w) ==
  Out(FoldLeft(LAMBDA v, type : NominalName(type.kids[1], << >>, v),
               Out(w, <<"P">>), node.kids[1].kids), <<"_">>)

TupleText(node, w) ==
  LET isVariadic == node.kids # << >> /\ Last(node.kids).kids[1].kind = "VariadicMarker"
  IN Out(MangleKids(node.kids, Out(w, IF isVariadic THEN <<"t">> ELSE <<"T">>)), <<"_">>)

\* Any other node: its own code, then its kids.
Mangle(node, w) ==
  LET kind == node.kind
      Coded(code) == MangleKids(node.kids, Out(w, code))
  IN CASE kind = "Global" -> Coded(<<"_", "T">>)
       [] kind = "TypeMangling" -> Coded(<<"t">>)
       [] kind = "Suffix" -> Out(w, node.text)
       [] kind = "Number" -> OutIndex(w, node.index)
       [] kind \in {"Identifier", "TupleElementName"} -> OutIdentifier(w, node.text)
       [] kind = "LocalDeclName" -> Coded(<<"L">>)
       [] kind = "PrivateDeclName" -> Coded(<<"P">>)
       [] kind = "TypeList" -> Out(Coded(<< >>), <<"_">>)
       [] kind \in {"Type", "TupleElement", "ArgumentTuple", "ReturnType",
                    "VariadicMarker"} -> Coded(<< >>)
       [] kind = "ThrowsAnnotation" -> Coded(<<"z">>)
       [] kind \in Kinds(FunctionLike) -> Coded(<<CodeOf(FunctionLike, kind)>>)
       [] kind \in Kinds(Wrapper) -> Coded(<<CodeOf(Wrapper, kind)>>)
       [] kind \in Kinds(Storage) -> Coded(<<"X", CodeOf(Storage, kind)>>)
       [] kind = "ExistentialMetatype" -> Coded(<<"P", "M">>)
       [] kind = "InOut" -> Coded(<<"R">>)
       [] kind = "ProtocolList" -> ProtocolListOf(node, w)
       [] kind = "Tuple" -> TupleText(node, w)
       [] OTHER -> EntityContext(node, w)

MangledName(tree) == Mangle(tree, Writer)
=============================================================================

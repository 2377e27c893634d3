---------------------------- MODULE OldDemangler ----------------------------
(***************************************************************************)
(* The reader of the old Swift mangling (Demangling/OldDemangler.cpp),     *)
(* which gives a class of an image the name it has in Swift. A reader r is *)
(* the text that is left, the substitutions so far, what is still to be    *)
(* done, first first, and the nodes that are not in a larger one yet, last *)
(* last: the calls of the code that are open, with the nodes they hold.    *)
(*                                                                         *)
(* Of the grammar, what a class or protocol name is made of is here; left  *)
(* out are operators and punycode in names, generic signatures, archetypes *)
(* and dependent types, builtin and SIL types, the newer flags of function *)
(* types, and the symbols that are not types. The bound on the depth,      *)
(* 1024, is beyond the texts of the model.                                 *)
(***************************************************************************)
EXTENDS SwiftNodes

\* What there is to do: read something, give a node, or put nodes together.
Item(do, kind, node, n) == [do |-> do, kind |-> kind, node |-> node, n |-> n]
Do(what) == Item(what, "", Nil, 0)
As(what, kind) == Item(what, kind, Nil, 0)
Give(node) == Item("give", "", node, 0)
Make(kind, n) == Item("make", kind, Nil, n)

Peek(r) == IF r.text = << >> THEN "." ELSE Head(r.text)
PeekNext(r) == IF Len(r.text) < 2 THEN "." ELSE r.text[2]

Then(r, n, items) ==
  [r EXCEPT !.text = SubSeq(@, n + 1, Len(@)), !.todo = items \o @]
Yield(r, n, node) == Then(r, n, <<Give(node)>>)
Fail(r) == [r EXCEPT !.todo = << >>, !.done = << >>]

Top(r) == Last(r.done)
Below(r) == r.done[Len(r.done) - 1]
\* The last n nodes become one.
Replace(r, n, node) ==
  [r EXCEPT !.done = Append(SubSeq(@, 1, Len(@) - n), node)]

(***************************************************************************)
(* Numbers and names. A number is its value and the characters it takes.   *)
(***************************************************************************)
Natural(text) ==
  LET run == {n \in 1..Len(text) : \A i \in 1..n : text[i] \in DOMAIN Digit}
      n == Cardinality(run)
  IN [chars |-> n,
      value |-> FoldLeft(LAMBDA v, c : 10 * v + Digit[c], 0, SubSeq(text, 1, n))]

\* Mutant: n"_" read as n.
IndexOfSame(text) ==
  LET n == Natural(text) IN
  IF n.chars < Len(text) /\ text[n.chars + 1] = "_"
  THEN [chars |-> n.chars + 1, value |-> n.value] ELSE [chars |-> 0, value |-> 0]

\* "_" is 0 and n"_" is n + 1; no characters when it is neither.
IndexOf(text) ==
  LET n == Natural(text)
      ends == n.chars < Len(text) /\ text[n.chars + 1] = "_"
  IN CASE ~ends -> [chars |-> 0, value |-> 0]
       [] ends /\ n.chars = 0 -> [chars |-> 1, value |-> 0]
       [] OTHER -> [chars |-> n.chars + 1, value |-> n.value + 1]

Index(r) ==
  LET i == IndexOf(r.text) IN
  IF i.chars = 0 THEN Fail(r) ELSE Yield(r, i.chars, Number(i.value))

Identifier(r, kind) ==
  LET n == Natural(r.text)
      end == n.chars + n.value
  IN IF n.value > 0 /\ end <= Len(r.text)
     THEN Yield(r, end, Leaf(kind, SubSeq(r.text, n.chars + 1, end)))
     ELSE Fail(r)

Name == As("identifier", "Identifier")
DeclName(r) ==
  CASE Peek(r) = "L" -> Then(r, 1, <<Do("index"), Name, Make("LocalDeclName", 2)>>)
    [] Peek(r) = "P" -> Then(r, 1, <<Name, Name, Make("PrivateDeclName", 2)>>)
    [] OTHER -> Then(r, 0, <<Name>>)

Substitution(r) ==
  LET c == Peek(r)
      i == IndexOf(r.text)
  IN CASE c \in DOMAIN StdModule -> Yield(r, 1, StdModule[c])
       [] c \in DOMAIN StdType -> Yield(r, 1, StdType[c])
       [] OTHER -> IF i.chars > 0 /\ i.value < Len(r.subs)
                   THEN Yield(r, i.chars, r.subs[i.value + 1]) ELSE Fail(r)

Module(r) ==
  CASE Peek(r) = "s" -> Yield(r, 1, STDLIB)
    [] Peek(r) = "S" -> Then(r, 1, <<Do("substitution"), Do("ismodule")>>)
    [] OTHER -> Then(r, 0, <<As("identifier", "Module"), Do("push")>>)
IsModule(r) == IF Top(r).kind = "Module" THEN r ELSE Fail(r)

(***************************************************************************)
(* Declarations: a context, then a name. Each becomes a substitution.      *)
(***************************************************************************)
Named(kind) == <<Do("declname"), Make(kind, 2), Do("push")>>
DeclarationName(kind) == <<Do("context")>> \o Named(kind)
Push(r) == [r EXCEPT !.subs = Append(@, Top(r))]

\* "S" is the protocol or the module it is in: what it stands for tells.
ProtocolName(r) ==
  LET Wrapped(items) == Append(items, Make("Type", 1)) IN
  CASE Peek(r) = "S" -> Then(r, 1, Wrapped(<<Do("substitution"), Do("protocolsub")>>))
    [] Peek(r) = "s" -> Then(r, 1, Wrapped(<<Give(STDLIB)>> \o Named("Protocol")))
    [] OTHER -> Then(r, 0, Wrapped(DeclarationName("Protocol")))
ProtocolSub(r) ==
  CASE Top(r).kind = "Protocol" -> r
    [] Top(r).kind = "Module" -> Then(r, 0, Named("Protocol"))
    [] OTHER -> Fail(r)

NominalType(r) ==
  LET c == Peek(r) IN
  CASE c = "S" -> Then(r, 1, <<Do("substitution")>>)
    [] c = "P" -> Then(r, 1, DeclarationName("Protocol"))
    [] c \in DOMAIN Nominal -> Then(r, 1, DeclarationName(Nominal[c]))
    [] OTHER -> Fail(r)

\* Mutants: a type keeps only the one it is in; the end of the text ends a list;
\* a bound type is a substitution too.
RebuildOuter(r) == Replace(r, 2, Top(r))
TypesToEnd(r) ==
  IF Peek(r) \in {"_", "."} THEN Then(r, 1, << >>)
  ELSE Then(r, 0, <<Do("type"), Do("addchild"), Do("types")>>)
BindPushed(r) ==
  LET type == Node(BoundGeneric[Below(r).kind], <<Node("Type", <<Below(r)>>), Top(r)>>)
  IN IF Top(r).kids = << >> THEN Replace(r, 2, Below(r)) ELSE Push(Replace(r, 2, type))

\* The arguments of the outermost type come first. What is in a module, a
\* function or an extension is outermost; any other, be it a type or an entity
\* that types are local to, is built again around what it is in, which may have
\* got its arguments. A deallocator has no second child then: null is put there.
BoundGenericType == <<Do("nominal"), Do("boundargs")>>
BoundArgs(r) ==
  LET own == <<Give(Node("TypeList", << >>)), Do("types"), Do("bind")>> IN
  IF Top(r).kids = << >> THEN Fail(r)
  ELSE LET parent == Top(r).kids[1] IN
       IF parent.kind \in {"Module", "Function", "Extension"} THEN Then(r, 0, own)
       ELSE Then(r, 0, <<Give(parent), Do("boundargs"), Do("rebuild")>> \o own)
Rebuild(r) ==
  Replace(r, 2, Node(Below(r).kind, <<Top(r), Child(Below(r), 2)>>))
Types(r) ==
  IF Peek(r) = "_" THEN Then(r, 1, << >>)
  ELSE Then(r, 0, <<Do("type"), Do("addchild"), Do("types")>>)
Bind(r) ==
  CASE Top(r).kids = << >> -> Replace(r, 2, Below(r))
    [] Top(r).kids # << >> /\ Below(r).kind \in DOMAIN BoundGeneric ->
         Replace(r, 2, Node(BoundGeneric[Below(r).kind],
                            <<Node("Type", <<Below(r)>>), Top(r)>>))
    [] OTHER -> Fail(r)

(***************************************************************************)
(* Entities: what a declaration may be in besides a module and a type.     *)
(***************************************************************************)
Context(r) ==
  LET c == Peek(r) IN
  CASE c = "E" -> Then(r, 1, <<Do("module"), Do("context"), Make("Extension", 2)>>)
    [] c = "S" -> Then(r, 1, <<Do("substitution")>>)
    [] c = "s" -> Yield(r, 1, STDLIB)
    [] c = "G" -> Then(r, 1, BoundGenericType)
    [] c \in {"F", "I", "v", "P", "Z", "C", "V", "O"} -> Then(r, 0, <<Do("entity")>>)
    [] OTHER -> Then(r, 0, <<Do("module")>>)

Entity(r) ==
  LET n == IF Peek(r) = "Z" THEN 1 ELSE 0
      c == IF n = 1 THEN PeekNext(r) ELSE Peek(r)
      static == IF n = 1 THEN <<Make("Static", 1)>> ELSE << >>
  IN IF c \in DOMAIN Basic
     THEN Then(r, n + 1, <<Do("context"), As("member", Basic[c])>> \o static)
     ELSE Then(r, n, <<Do("nominal")>>)

\* An entity after its context, of the basic kind unless its name says another.
Member(r, basic) ==
  LET c == Peek(r)
      Access(kind) == <<Do("declname"), Do("type"), As("access", kind)>>
  IN CASE c \in DOMAIN Bare -> Then(r, 1, <<Make(Bare[c], 1)>>)
       [] c \in DOMAIN Typed -> Then(r, 1, <<Do("type"), Make(Typed[c], 2)>>)
       [] c \in DOMAIN Closure ->
            Then(r, 1, <<Do("index"), Do("type"), Make(Closure[c], 3)>>)
       [] c \in DOMAIN Accessor -> Then(r, 1, Access(Accessor[c]))
       [] c \in DOMAIN Addressor ->
            IF PeekNext(r) \in DOMAIN Addressor[c]
            THEN Then(r, 2, Access(Addressor[c][PeekNext(r)])) ELSE Fail(r)
       [] OTHER ->
            CASE basic # "Initializer" ->
                   Then(r, 0, <<Do("declname"), Do("type"), Make(basic, 3)>>)
              [] basic = "Initializer" /\ c = "A" ->
                   Then(r, 1, <<Do("index"), Make("DefaultArgumentInitializer", 2)>>)
              [] basic = "Initializer" /\ c = "i" -> Then(r, 1, <<Make(basic, 1)>>)
              [] OTHER -> Fail(r)

\* An accessor is around the variable, or the subscript, that it accesses.
Access(r, kind) ==
  LET context == r.done[Len(r.done) - 2]
      name == Below(r)
      type == Top(r)
      IsSubscript(n) == n.kind = "Identifier" /\ n.text = Subscript
      storage ==
        CASE IsSubscript(name) -> Node("Subscript", <<context, type>>)
          [] name.kind = "PrivateDeclName" /\ IsSubscript(name.kids[2]) ->
               Node("Subscript",
                    <<context, type, Node("PrivateDeclName", <<name.kids[1]>>)>>)
          [] OTHER -> Node("Variable", <<context, name, type>>)
  IN Replace(r, 3, Node(kind, <<storage>>))

(***************************************************************************)
(* Types.                                                                  *)
(***************************************************************************)
Protocols(r) ==
  IF Peek(r) = "_" THEN Then(r, 1, <<Make("ProtocolList", 1)>>)
  ELSE Then(r, 0, <<Do("protocol"), Do("addchild"), Do("protocols")>>)

Tuple(r, variadic) ==
  LET label == IF Peek(r) \in DOMAIN Digit
               THEN <<As("identifier", "TupleElementName"), Do("addchild")>> ELSE << >>
      n == Len(Top(r).kids)
  IN CASE Peek(r) = "_" /\ variadic = "variadic" /\ n > 0 ->
            Then(Replace(r, 1, [Top(r) EXCEPT !.kids[n].kids =
                                  <<Node("VariadicMarker", << >>)>> \o @]), 1, << >>)
       [] Peek(r) = "_" /\ ~(variadic = "variadic" /\ n > 0) -> Then(r, 1, << >>)
       [] OTHER -> Then(r, 0, <<Give(Node("TupleElement", << >>))>> \o label
                                \o <<Do("type"), Do("addchild"), Do("addchild"),
                                     As("tuple", variadic)>>)

FunctionType(r, kind) ==
  LET types == <<Do("type"), Make("ArgumentTuple", 1), Do("type"), Make("ReturnType", 1)>>
  IN IF PeekNext(r) = "z"
     THEN Then(r, 2, <<Give(Node("ThrowsAnnotation", << >>))>> \o types
                       \o <<Make(kind, 3)>>)
     ELSE Then(r, 1, types \o <<Make(kind, 2)>>)

\* demangleTypeImpl: a type without the Type node around it.
Plain(r) ==
  LET c == Peek(r) IN
  CASE c = "a" -> Then(r, 1, DeclarationName("TypeAlias"))
    [] c \in DOMAIN FunctionLike -> FunctionType(r, FunctionLike[c])
    [] c \in DOMAIN Wrapper -> Then(r, 1, <<Do("type"), Make(Wrapper[c], 1)>>)
    [] c = "G" -> Then(r, 1, BoundGenericType)
    [] c = "P" ->
         IF PeekNext(r) = "M"
         THEN Then(r, 2, <<Do("type"), Make("ExistentialMetatype", 1)>>)
         ELSE Then(r, 1, <<Give(Node("TypeList", << >>)), Do("protocols")>>)
    [] c = "R" -> Then(r, 1, <<Do("plain"), Make("InOut", 1)>>)
    [] c = "S" -> Then(r, 1, <<Do("substitution")>>)
    [] c \in {"T", "t"} ->
         Then(r, 1, <<Give(Node("Tuple", << >>)),
                      As("tuple", IF c = "t" THEN "variadic" ELSE "")>>)
    [] c = "X" -> IF PeekNext(r) \in DOMAIN Storage
                  THEN Then(r, 2, <<Do("type"), Make(Storage[PeekNext(r)], 1)>>)
                  ELSE Fail(r)
    [] c \in DOMAIN Nominal -> Then(r, 1, DeclarationName(Nominal[c]))
    [] OTHER -> Fail(r)

(***************************************************************************)
(* One thing after the other, to the end of the symbol.                    *)
(***************************************************************************)
Step(r, item) ==
  LET do == item.do IN
  CASE do = "give" -> [r EXCEPT !.done = Append(@, item.node)]
    [] do = "make" ->
         Replace(r, item.n,
                 Node(item.kind, SubSeq(r.done, Len(r.done) - item.n + 1, Len(r.done))))
    [] do = "addchild" ->
         Replace(r, 2, [Below(r) EXCEPT !.kids = Append(@, Top(r))])
    [] do = "push" -> Push(r)
    [] do = "index" -> Index(r)
    [] do = "identifier" -> Identifier(r, item.kind)
    [] do = "declname" -> DeclName(r)
    [] do = "substitution" -> Substitution(r)
    [] do = "module" -> Module(r)
    [] do = "ismodule" -> IsModule(r)
    [] do = "protocol" -> ProtocolName(r)
    [] do = "protocolsub" -> ProtocolSub(r)
    [] do = "nominal" -> NominalType(r)
    [] do = "boundargs" -> BoundArgs(r)
    [] do = "rebuild" -> Rebuild(r)
    [] do = "types" -> Types(r)
    [] do = "bind" -> Bind(r)
    [] do = "context" -> Context(r)
    [] do = "entity" -> Entity(r)
    [] do = "member" -> Member(r, item.kind)
    [] do = "access" -> Access(r, item.kind)
    [] do = "protocols" -> Protocols(r)
    [] do = "tuple" -> Tuple(r, item.kind)
    [] do = "plain" -> Plain(r)
    [] do = "type" -> Then(r, 0, <<Do("plain"), Make("Type", 1)>>)

RECURSIVE Run(_)
Run(r) ==
  IF r.todo = << >> THEN r
  ELSE Run(Step([r EXCEPT !.todo = Tail(@)], Head(r.todo)))

\* A symbol, and what is left of its text.
Global(r) ==
  IF Peek(r) = "t" THEN Then(r, 1, <<Do("type"), Make("TypeMangling", 1)>>)
  ELSE Then(r, 0, <<Do("entity")>>)

\* Mutant: what is left is dropped.
SuffixDropped(r) == << >>
Suffix(r) == IF r.text = << >> THEN << >> ELSE <<Leaf("Suffix", r.text)>>

TopLevel(text) ==
  LET Symbol(r) ==
        [subs |-> r.subs,
         node |-> IF r.done = << >> THEN Nil ELSE Node("Global", r.done \o Suffix(r))]
  IN IF IsPrefix(<<"_", "T">>, text)
     THEN Symbol(Run(Global([text |-> SubSeq(text, 3, Len(text)), subs |-> << >>,
                             todo |-> << >>, done |-> << >>])))
     ELSE [subs |-> << >>, node |-> Nil]

\* Class::demangled_name: the name itself where it is not a Swift one.
DemangledName(text) ==
  LET node == TopLevel(text).node IN IF node = Nil THEN Leaf("Name", text) ELSE node
=============================================================================

---------------------------- MODULE MCClassNames ----------------------------
(***************************************************************************)
(* Names of Swift classes for OldDemangler: a declaration grows around     *)
(* what has been declared, as it does in a Swift program, and the types it *)
(* makes are kept for the arguments of later ones.                         *)
(***************************************************************************)
EXTENDS OldRemangler

Reader == INSTANCE OldDemangler

CONSTANTS
    MaxSteps,   \* of the growth of one name and of the types in it
    MaxTypes    \* the types kept at the same time

VARIABLES
    decl,       \* the declaration: a module, a type, an entity, an extension
    types,      \* the types that were kept
    steps

vars == <<decl, types, steps>>

ModuleA == Leaf("Module", <<"m">>)
ModuleB == Leaf("Module", <<"n">>)
A == Leaf("Identifier", <<"a">>)
Long == Leaf("Identifier", [i \in 1..11 |-> "b"])
Local == Node("LocalDeclName", <<Number(1), A>>)
Private == Node("PrivateDeclName", <<Leaf("Identifier", <<"_", "d">>), A>>)
TypeOf(node) == Node("Type", <<node>>)
Symbol(type) == Node("Global", <<Node("TypeMangling", <<type>>)>>)

IsType(node) == node.kind \in NominalKinds \cup BoundKinds

\* What a type is in once the types around it are left.
RECURSIVE Home(_)
Home(node) ==
  LET parent == node.kids[1] IN
  CASE node.kind \in BoundKinds -> Home(parent.kids[1])
    [] node.kind \notin BoundKinds /\ IsType(parent) -> Home(parent)
    [] OTHER -> parent

\* Where the types with arguments are that a type is made of.
RECURSIVE BoundHomes(_)
BoundHomes(node) ==
  (IF node.kind \in BoundKinds THEN {Home(node)} ELSE {})
    \cup UNION {BoundHomes(node.kids[i]) : i \in DOMAIN node.kids}

\* Contexts at which reader and writer do not count the same lists of arguments:
\* the writer gives a type that is extended a list, which the reader does not
\* expect; the reader expects lists for an entity that is no function, and for
\* what that is in, up to a function, extension or module; the writer has none.
ExtendsType(home) == home.kind = "Extension" /\ IsType(home.kids[2])
OtherEntity(home) == home.kind \notin {"Module", "Extension", "Function"}

\* A name goes through one entity at most: the bound on how deep it goes.
RECURSIVE InEntity(_)
InEntity(node) ==
  CASE node.kind = "Module" -> FALSE
    [] node.kind = "Extension" -> InEntity(node.kids[2])
    [] IsType(node) \/ node.kind \in {"Protocol", "Type"} -> InEntity(node.kids[1])
    [] OTHER -> TRUE

Element(label, type) ==
  Node("TupleElement", IF label = << >> THEN <<type>>
                       ELSE <<Leaf("TupleElementName", label), type>>)
FunctionOf(kind, flags, elements) ==
  TypeOf(Node(kind,
    flags \o <<Node("ArgumentTuple", <<TypeOf(Node("Tuple", elements))>>),
               Node("ReturnType", <<TypeOf(Node("Tuple", << >>))>>)>>))

Entities(context) ==
  LET args == [i \in DOMAIN types |-> Element(IF i = 1 THEN << >> ELSE <<"l">>, types[i])]
      rest == [args EXCEPT ![Len(args)].kids = <<Node("VariadicMarker", << >>)>> \o @]
      plain == FunctionOf("FunctionType", << >>, args)
      block == FunctionOf("ObjCBlock", <<Node("ThrowsAnnotation", << >>)>>, rest)
      private == Node("PrivateDeclName", <<Private.kids[1]>>)
  IN {Node("Function", <<context, A, plain>>),
      Node("Static", <<Node("Function", <<context, Private, block>>)>>),
      Node("Constructor", <<context, plain>>),
      Node("ExplicitClosure", <<context, Number(0), block>>),
      Node("Getter", <<Node("Variable", <<context, A, types[1]>>)>>),
      Node("Setter", <<Node("Subscript", <<context, plain>>)>>),
      Node("UnsafeAddressor", <<Node("Subscript", <<context, plain, private>>)>>),
      Node("Deallocator", <<context>>),
      Node("Initializer", <<context>>),
      Node("DefaultArgumentInitializer", <<context, Number(2)>>)}

Init ==
  /\ decl \in {ModuleA, STDLIB}
  /\ types = <<TypeOf(StdType["i"])>>
  /\ steps = 0

Step ==
  /\ steps < MaxSteps
  /\ steps' = steps + 1

Nest ==
  /\ Step
  /\ \E kn \in {<<"Class", A>>, <<"Structure", Long>>, <<"Enum", Private>>, <<"Class", Local>>} :
       decl' = Node(kn[1], <<decl, kn[2]>>)
  /\ UNCHANGED types

\* An entity is in, and an extension is of, a declaration: a type without
\* arguments, its own or those of the types around it.
Enter ==
  /\ Step
  /\ ~InEntity(decl) /\ ~IsSpecialized(decl)
  /\ decl' \in Entities(decl)
  /\ UNCHANGED types

Extend ==
  /\ Step
  /\ \/ /\ IsType(decl) /\ ~IsSpecialized(decl)
        /\ decl' = Node("Extension", <<ModuleB, decl>>)
     \/ /\ decl.kind = "Module"
        /\ decl' = Node("Extension", <<ModuleB, Node("Protocol", <<decl, A>>)>>)
  /\ UNCHANGED types

Bind ==
  /\ Step
  /\ decl.kind \in Kinds(Nominal)
  /\ \E args \in {types, <<types[Len(types)]>>} :
       decl' = Node(BoundGeneric[decl.kind], <<TypeOf(decl), Node("TypeList", args)>>)
  /\ UNCHANGED types

Keep ==
  /\ Step
  /\ IsType(decl)
  /\ Len(types) < MaxTypes
  /\ types' = Append(types, TypeOf(decl))
  /\ decl' \in {ModuleA, STDLIB}

\* One protocol, or two that share their module, in a list.
Compose ==
  /\ Step
  /\ decl.kind = "Module"
  /\ Len(types) < MaxTypes
  /\ \E names \in {<<A>>, <<Private, A>>, <<A, A>>} :
       types' = Append(types,
         TypeOf(Node("ProtocolList", <<Node("TypeList",
           [i \in DOMAIN names |-> TypeOf(Node("Protocol", <<decl, names[i]>>))])>>)))
  /\ UNCHANGED decl

Next == Nest \/ Enter \/ Extend \/ Bind \/ Keep \/ Compose
Spec == Init /\ [][Next]_vars

(***************************************************************************)
(* Properties, of the names of the types there are.                        *)
(***************************************************************************)
Declared == {types[Len(types)]} \cup (IF IsType(decl) THEN {TypeOf(decl)} ELSE {})
Readable ==
  {type \in Declared :
     \A home \in BoundHomes(type) : ~ExtendsType(home) /\ ~OtherEntity(home)}

\* The name the runtime gives a type reads as that type, with every context,
\* argument and name in its place: what demangleTopLevel makes of what
\* mangleNodeOld writes. Left out are the types with arguments in the two
\* contexts that reader and writer disagree about, ExtendsType and OtherEntity.
RoundTrip ==
  \A type \in Readable :
    Reader!TopLevel(MangledName(Symbol(type)).text).node = Symbol(type)

\* The reader numbers the substitutions as the writer does, those that the
\* name did not use included: one too many or too few would show only in a
\* longer name, which would then be read as another one.
SubstitutionsAgree ==
  \A type \in Readable :
    LET w == MangledName(Symbol(type)) IN Reader!TopLevel(w.text).subs = w.subs

\* A name cut anywhere is none: demangled_name shows it as it is, and never as
\* the name of another class.
CutNamesShown ==
  \A type \in Readable :
    LET text == MangledName(Symbol(type)).text IN
    \A n \in 1..(Len(text) - 1) :
      Reader!DemangledName(SubSeq(text, 1, n)) = Leaf("Name", SubSeq(text, 1, n))

\* What follows a name, as the "_" that mangleNodeAsObjcCString adds, is kept
\* apart from it and not lost.
TailKept ==
  \A type \in Readable, tail \in {<<"_">>, <<"1", "a">>} :
    Reader!DemangledName(MangledName(Symbol(type)).text \o tail)
      = Node("Global", Append(Symbol(type).kids, Leaf("Suffix", tail)))

\* A generic type in an extension may lose its arguments to the suffix, and one in
\* an entity may not be read at all, but no name reads as a type of another name or
\* in another context.
ClassKept ==
  \A type \in Declared :
    LET read == Reader!TopLevel(MangledName(Symbol(type)).text).node IN
    \/ read = Nil
    \/ Unspecialized(read.kids[1].kids[1].kids[1]) = Unspecialized(type.kids[1])
=============================================================================

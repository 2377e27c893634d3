----------------------------- MODULE SwiftNodes -----------------------------
(***************************************************************************)
(* The trees that the Swift demangler builds, and the tables that the old  *)
(* mangling fixes for its reader and its writer. A text is a sequence of   *)
(* characters; the name of a type of the standard library, which no        *)
(* mangled name spells out, counts for one.                                *)
(***************************************************************************)
EXTENDS Naturals, SequencesExt

NodeWith(kind, text, index, kids) ==
  [kind |-> kind, text |-> text, index |-> index, kids |-> kids]
Node(kind, kids) == NodeWith(kind, << >>, 0, kids)
Leaf(kind, text) == NodeWith(kind, text, 0, << >>)
Number(index) == NodeWith("Number", << >>, index, << >>)
Nil == Node("null", << >>)
Child(node, i) == IF i \in DOMAIN node.kids THEN node.kids[i] ELSE Nil

Digit == [c \in {"0", "1", "2", "3", "4", "5", "6", "7", "8", "9"} |->
            CHOOSE n \in 0..9 : ToString(n) = c]

STDLIB == Leaf("Module", <<"Swift">>)
StdModule == [o |-> Leaf("Module", <<"__C">>),
              C |-> Leaf("Module", <<"__C_Synthesized">>)]
StdType ==
  LET Std(kind, name) == Node(kind, <<STDLIB, Leaf("Identifier", <<name>>)>>) IN
  [a |-> Std("Structure", "Array"), b |-> Std("Structure", "Bool"),
   c |-> Std("Structure", "UnicodeScalar"), d |-> Std("Structure", "Double"),
   f |-> Std("Structure", "Float"), i |-> Std("Structure", "Int"),
   V |-> Std("Structure", "UnsafeRawPointer"),
   v |-> Std("Structure", "UnsafeMutableRawPointer"),
   P |-> Std("Structure", "UnsafePointer"),
   p |-> Std("Structure", "UnsafeMutablePointer"),
   q |-> Std("Enum", "Optional"),
   Q |-> Std("Enum", "ImplicitlyUnwrappedOptional"),
   R |-> Std("Structure", "UnsafeBufferPointer"),
   r |-> Std("Structure", "UnsafeMutableBufferPointer"),
   S |-> Std("Structure", "String"), u |-> Std("Structure", "UInt")]

Nominal == [C |-> "Class", V |-> "Structure", O |-> "Enum"]
BoundGeneric == [Class |-> "BoundGenericClass", Structure |-> "BoundGenericStructure",
                 Enum |-> "BoundGenericEnum"]
FunctionLike ==
  [F |-> "FunctionType", f |-> "UncurriedFunctionType", b |-> "ObjCBlock",
   c |-> "CFunctionPointer", K |-> "AutoClosureType"]
Wrapper == [M |-> "Metatype", D |-> "DynamicSelf"]
Storage == [o |-> "Unowned", u |-> "Unmanaged", w |-> "Weak"]
Basic == [F |-> "Function", v |-> "Variable", I |-> "Initializer", i |-> "Subscript"]
Bare == [D |-> "Deallocator", d |-> "Destructor",
         e |-> "IVarInitializer", E |-> "IVarDestroyer"]
Typed == [C |-> "Allocator", c |-> "Constructor"]
Closure == [U |-> "ExplicitClosure", u |-> "ImplicitClosure"]
Accessor ==
  [g |-> "Getter", G |-> "GlobalGetter", s |-> "Setter", w |-> "WillSet",
   W |-> "DidSet", m |-> "MaterializeForSet", r |-> "ReadAccessor",
   M |-> "ModifyAccessor"]
Addressor ==
  [a |-> [O |-> "OwningMutableAddressor", o |-> "NativeOwningMutableAddressor",
          p |-> "NativePinningMutableAddressor", u |-> "UnsafeMutableAddressor"],
   l |-> [O |-> "OwningAddressor", o |-> "NativeOwningAddressor",
          p |-> "NativePinningAddressor", u |-> "UnsafeAddressor"]]
Subscript == <<"s", "u", "b", "s", "c", "r", "i", "p", "t">>

\* The code that a table gives for a kind.
Kinds(table) == {table[c] : c \in DOMAIN table}
CodeOf(table, kind) == CHOOSE c \in DOMAIN table : table[c] = kind
=============================================================================

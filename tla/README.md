# iCDump: verification development

iCDump reads the Objective-C metadata of a Mach-O image (classes, protocols,
methods, ivars, properties) and prints it back as Objective-C declarations.
This directory holds TLA+ models of its code, the TLC configurations that check
them and the TLAPS proofs about them. Source positions are relative to the
repository.

## 1. The system

| component | state | operations | talks to |
|---|---|---|---|
| Mach-O stream (`src/MachOStream.cpp`) | the binary | `read_at`: run-time address to virtual address to segment | LIEF; every `create()` |
| Parser (`src/ObjC/Parser.cpp`) | one shared stream cursor, `protocols_` (address to `Protocol*`), the metadata under construction | `parse`, `process_protocols`, `process_classes`, `get_or_create_protocol`, `decode_ptr` | calls `Class::create`, `Protocol::create`, which call it back |
| Objects (`src/ObjC/Class.cpp`, `Protocol.cpp`, `Method.cpp`, `IVar.cpp`, `Property.cpp`) | immutable once created | `create(parser)`; `to_string`, `to_decl` | the parser's stream; the type decoder; the declaration generator |
| Metadata (`src/ObjC/Metadata.cpp`) | owned vectors of classes and protocols, two look-up tables by name | `get_class`, `get_protocol`, `to_decl` | filled by the parser, in three places |
| Type encoding parser (`src/ObjC/TypesEncoding.cpp`) | a string iterator | `decode_type` and one function per construct, mutually recursive | `Method::prototype`, `IVar::type` |
| Declaration generator (`src/ClangAST/`) | one `ASTContext` shared by all declarations of the process | `decl_class`, `decl_protocol`, `decl_method`, `get_qtype`, `generate` | Clang; reads the objects |
| Iterators (`include/iCDump/iterators.hpp`) | a reference to a vector, a position | `begin`, `end`, `operator[]`, `+`, `-` | everything that walks a vector |
| Logger (`src/log.cpp`) | a lazily created singleton, its level | `instance`, `set_level`, `enable`, `disable`, `destroy` at exit | spdlog; called from everywhere |
| Python bindings (`bindings/python/src`) | which Python object keeps which C++ object alive | properties, iterators, `parse` | nanobind |
| Entry points, `readobjc.py` (`src/iCDump.cpp`, `bindings/python/tools`) | none | `parse` of a path or of a binary | LIEF, the parser |

| Swift demangler (`src/llvm-swift/swift/lib/Demangling`, vendored) | a slab allocator, a stack of nodes and the substitutions of the running job, the text and a position | `Class::demangled_name` asks a context for the name behind a mangled one | the declaration generator prints the result |

LIEF, Clang, spdlog and nanobind are external.

Nothing in the repository runs concurrently and nothing is persisted: `parse`,
`decode_type` and `to_decl` are sequential calls. What can go wrong is an order,
a position or a table entry that a later step relies on.

In the parser, all reads go through **one cursor**, which
mutually recursive `create()` calls move inside `LIEF::ScopedStream` scopes;
one loop (the protocols a class adopts, `Class.cpp:123-136`) reads *through* the
cursor while the calls it makes move it. Any read may fail, and each loop has
its own idea of what follows a failure. Protocols are created in two places,
cached in one and looked up in another. The type encoding parser moves **one
iterator** from mutually recursive functions over a string that may be cut short
anywhere. The declaration generator puts all it ever declares in **one
`ASTContext`** and looks names up in it. An iterator keeps **two copies of one
position**, and the Python objects made of it refer to C++ objects that something
else must keep alive. The demangler carves all it makes off **one free range**,
where arrays grow in place when they happen to be last, and a job may be
interrupted by another one in the middle of its own.

What makes each component correct:

* *stream and decoding*: a tagged, relative or run-time pointer leads to the
  structure it denotes;
* *parser*: a call reads its own structure, whatever the calls before it did or
  failed to do; an unreadable structure drops itself and nothing else; it ends;
* *metadata*: the tables own what the pointers lead to, and a name finds the
  latest object of that name;
* *type decoder*: a type string of the grammar gives its type; it ends on any
  string, and nesting is bounded by the string;
* *declaration generator*: one declaration per name, none used before it
  exists, no null type used;
* *iterators*: a view visits each element of its range once, in order;
* *bindings*: nothing is freed while a Python object can reach it;
* *demangler*: a class name reads as the class the writer of the name meant, and
  what is no such name is shown as it is; what it holds in its memory does not
  overlap, and an interrupted job finds its state as it left it;
* *logger*: one instance; the level is the last one asked for.

`PROJECT.json` lists the hazards of the code with the line where each bites.

## 2. The plan

The modules, in the order they were written:

| module | extends | holds |
|---|---|---|
| `ObjCImage` | | what the parser can read, address translation, leaf structures |
| `ObjCMetadata` | `ObjCImage` | the abstract specification of `parse` |
| `ObjCParser` | `ObjCImage` | the parser; refines `ObjCMetadata` |
| `ObjCParserProofs` | `ObjCParser`, `TLAPS` | theorems |
| `ObjCParserRefinement` | `ObjCParserProofs` | that the parser implements `ObjCMetadata` |
| `ObjCTypes` | | the types that the next two share |
| `TypesEncoding` | `ObjCTypes` | `decode_type` as a stack machine |
| `TypesGrammar` | `TypesEncoding` | the grammar of type strings and what they mean |
| `TypesEncodingProofs` | `TypesGrammar`, `TLAPS` | theorems |
| `AstGenerator` | `ObjCTypes` | `to_decl` over an `ASTContext` |
| `AstGeneratorProofs` | `AstGenerator`, `TLAPS` | theorems |
| `ContainerView` | | the abstract specification of an iterator |
| `RefIterator` | | `ref_iterator` and its Python type; refines `ContainerView` |
| `RefIteratorProofs` | `RefIterator`, `TLAPS` | theorems |
| `PyBindings` | | which Python object keeps which C++ object alive |
| `PyBindingsProofs` | `PyBindings`, `TLAPS` | theorems |
| `SwiftNodes` | | trees and the tables of the old Swift mangling |
| `OldDemangler`, `OldRemangler` | `SwiftNodes` | reader and writer of the old mangling |
| `DemangleJobs` | | the abstract specification of the demangler's memory |
| `NodeFactory` | | slabs, vectors, nodes and nested jobs; refines `DemangleJobs` |
| `NodeFactoryProofs` | `NodeFactory`, `TLAPS` | theorems |
| `NodeFactoryRefinement` | `NodeFactoryProofs` | that the lists in memory are those of `DemangleJobs` |
| `MCObjCParser`, `MCTypesEncoding`, `MCTypesGrammar`, `MCAstGenerator`, `MCRefIterator`, `MCPyBindings`, `MCClassNames`, `MCNodeFactory` | | the inputs of the runs, and the promises that are defined by recursion |

Next: the reader of the old mangling as a stack machine, like `TypesEncoding`, so that
what it makes of a name can be proved as `RoundTrip` of the type encodings is.

No module that is proved about uses a RECURSIVE operator.

## 3. The models

### ObjCImage: what the parser can read

An image is a record of addresses and typed cells, one cell per C structure of
`Types.hpp` or string. A cell is one address long and the elements of a list
follow its header, so that `setpos(first + i * sizeof(T))` is
`list + 1 + i`. An address without a cell is in no segment, and reading it
fails: that is how every error path is taken. `Decode` is `decode_ptr` (2^51 is
the constant `PtrSpan`), `VirtualAddress` is the translation in `read_at`,
`ObjCSection` the choice of the segment. `MethodAt`, `IVarAt` and `PropertyAt`
are the leaf constructors, with the small (relative) and big methods;
`ClassRoPtr` is the search for the `class_ro_t` of a class that the runtime has
realised (`Class.cpp:46-53`).

`WellTyped` and `FollowsAbi` say which images are meant: a pointer leads to a
structure of the kind that is read there or out of the image, and along `isa`
there are at most a metaclass and a root metaclass, seen from any position that
the stream can read, run-time addresses included. The field that the code
calls `super_class` is the first word of the class (`objc_object_t` is empty,
`Types.hpp`), which is its `isa`.

### ObjCParser: the code

The variable `stack` is the C++ call stack of `create()` calls. A frame has the
address and the position its caller's `ScopedStream` restores, the phase the
call is in (one per list of the structure, in the order of the code), the object
under construction, and the loop over the list it reads.

| actions | code |
|---|---|
| `ProcessEntry`, `SectionDone` | the loops of `process_protocols` and `process_classes` |
| `CreateClass`, `ClassFailed` | `Class::create` up to `Class.cpp:78`, its returns of `nullptr` |
| `ParseSuper`, `NoSuper`, `ReturnSuper` | the recursion, `Class.cpp:80-90`, methods moved and made class methods |
| `StoreClass` | `Parser.cpp:161-167`, with the end of `Class::create` |
| `CreateProtocol`, `ProtocolFailed` | `Protocol::create` up to line 46, its return of `nullptr` |
| `StoreListedProtocol` | `Parser.cpp:124-128`: cache, look-up table, vector |
| `StoreAdoptedProtocol` | `Parser.cpp:93-97`: look-up table, vector; `Class.cpp:131-132` |
| `OpenList`, `NoList`, `CloseList` | the scope and header of a list |
| `ReadElement`, `SkipElement` | `setpos`, then the element's `create()`, or its failure: `break` for the methods of a class, next element otherwise |
| `KnownProtocol`, `NewProtocolRef`, `BreakRefs` | one pass of `Class.cpp:123-136` |

A `Protocol*` or `Class*` is an index in the metadata's vector. `NewObject.at`
is the only history variable.

### ObjCMetadata: the promise

No cursor, no stack. `ProtocolAt(addr)` and `ClassAt(addr)` define an object
from the image alone, including what an unreadable part takes away: `Readable`
drops from a list what cannot be read, `ReadablePrefix` ends it there, as the loops
of the code do. What a class gets through `isa` is defined along the path that
`isa` makes (`Along`, `Steps`), by recursive functions over the numbers of steps.
A step reports one entry of a section, or a protocol that a class to come mentions.
`ObjCParser` implements it: the objects of finished entries are exactly the ones
so defined, in order, and nothing else is reported.

### ObjCTypes, TypesEncoding: the type encoding parser

A string is a sequence of characters and `it` the iterator that all functions
get by reference: a position, or the one behind the end. Every function of
`TypesEncoding.cpp` other than the mutually recursive ones is an operator
(`NameAfter`/`OptName` for `read_opt_name`, `NumberBefore` for
`read_str_number`, `Until` and `SkipAll` for their loops). The recursion is the
variable `calls`: the calls of `process()` that wait for another one, each with
what it has read so far. `phase` says whether `process()` starts ("call"), has
returned `ret` ("return"), or the innermost loop tests its condition ("loop").

| actions | code |
|---|---|
| `ProcessEnd`, `ProcessLeaf`, `ProcessUnsupported`, `ProcessBitField`, `ProcessBlock`, `ProcessObject`, `ProcessVoidPointer` | the cases of `process()` that return without another call |
| `ProcessPointer`, `PointTo` | `^`, before and after the recursive call |
| `ProcessArray`, `ProcessStructure`, `ProcessUnion` | `process_array`, `process_structure`, `process_union` up to their loop |
| `NextElement`, `TakeElement` | one pass of such a loop, before and after the call |
| `CloseElements`, `UnclosedElements` | the code behind the loop |
| `NextType`, `TakeType` | the loop of `decode_type` |

`TypesGrammar` has the other direction: which texts mean which types. A phrase is
the text of one type with that type and its elements, which are phrases again; a
signature is a string with the phrases in it. `IsPhrase` and `IsSignature` say what
the grammar of the encodings asks of them, one definition per kind of type
(`IsBitField`, `IsPointer`, `IsRecord`...), by where an element begins and ends in the
text and not by putting texts together. `Phrases` and `Signatures` are constants: any
set of phrases with all phrases that occur in them (`InsideAssumption`), so that
neither the depth nor the length is bounded and no definition is recursive.
`bars` are what makes two phrases one when they meet: a digit behind a bit field, a
quote or `?` behind an id. `RoundTrip` says that decoding the text of a signature
gives its types. `SignatureSpec` only adds which signature was chosen.

### AstGenerator: the declaration generator

`decls` is the `ASTContext`: all declarations ever created, in order of creation,
so that a `Decl*` is an index. It is never emptied. A declaration has a parent
from its creation on (the `DeclContext` passed to Clang's `Create`), but is one
of its parent's `members` only after `addDecl`; Clang's look-up finds members.
This difference is what the interesting properties are about.

| actions | code |
|---|---|
| `Generate`, `AddObject`, `PrintUnit` | `generate()` (`utils.cpp`) with the heads and ends of `decl_protocol` and `decl_class` |
| `BeginMethod`, `MethodHead`, `SelfParam`, `BeginParam`, `TakeParam`, `EndMethod` | `decl_method`, and what `decl_protocol` says of the method after it |
| `BeginIvar`, `TakeIvar`, `UnresolvedIvar`, `UntypedIvar` | `decl_ivar`, `NSObjectTy` |
| `DeclProperty` | `decl_property` |
| `WrappedType`, `BuiltinType`, `RecordType`, `ObjectType`, `DereferenceNull` | `get_qtype`: one call, or one level of its recursion |

`get_qtype` recurses through pointers and arrays only; `wraps` holds the layers
passed so far and `qual` the answer. Clang is external: of it, the model has
creation with a parent, `addDecl`, look-up by name in one context, and what
printing a declaration shows. The object's types come out of
`Prototype(types)`, which is `Method::prototype` on what `decode_type` returned.

What a declaration should say follows from the object alone: `SaysObject`, down to
`Says(s, t)`, where the printed type `s` is the `Core` of `t` below all its pointers
and arrays, in the `Layers` that they make. `Inner(t)[n]` is what is below `n` of
them: a recursive function of a number, so that proofs can be about it.

### ContainerView, RefIterator: the iterators

An iterator object is a reference to a container (`of`), a position in the
buffer of a vector (`it`) and its distance from the beginning. Copies are made
again from the distance, comparisons use it, reading uses the position. A C++
program has names for some objects (`Views`), a running Python `for` statement
(`Loops`) has one of its own.

| actions | code |
|---|---|
| `Open`, `Begin`, `End`, `Copy` | construction, `begin()`, `end()`, the copy constructor |
| `Increment`, `Decrement`, `Move`, `Dereference`, `Index` | `++`, `--`, `+=` and `-=`, `*`, `operator[]` |
| `Assign` | the assignment, which copies and swaps |
| `For`, `Advance`, `Finish` | `__iter__`, `__next__` before and at the end |

Moving out of the range or reading at the end is undefined, and a caller does
neither. `ContainerView` promises that a view is a container and an index, that
no operation changes a container, and that a loop gets the elements in order.

### PyBindings: the lifetime of C++ objects

`parse()` and `decode_type()` give Python a tree to own; `Accessors` has one
accessor for every kind of return policy and value in `init.cpp`,
`types_encoding.cpp` and `iterator.hpp`, with what the new object keeps alive.
Python counts references: `Drop`, `Bind` and `Kept` say what goes away, and an
owner takes its tree along. nanobind gives an address that it already has a
Python object for that object again (`Known`). With `Careful`, the program keeps
an owner itself where the bindings do not.

### SwiftNodes, OldDemangler, OldRemangler: the names of Swift classes

The Objective-C metadata names a Swift class in the old mangling, which
`Context::demangleSymbolAsNode` sends to `OldDemangler.cpp`. A reader is the
text that is left, the substitutions so far, what is still to be read and the
nodes that wait for a parent: the open calls of the recursive descent. `Step`
reads the next of them, and each case of it is one function of the code. A
writer is the text and the substitutions so far. Each of the two keeps its own
table of substitutions; a reference in the text is an index in it.

`MCClassNames` lets a declaration grow as in a Swift program (nested, local,
private, in an entity, an extension or a generic type, generic in any of these, a list
of protocols)
and keeps types for the arguments of later ones.

### DemangleJobs, NodeFactory: the memory of the demangler

An address is a number, a cell of memory holds a character, and a pointer takes
`Word` cells. `factory` is the free range, the slabs and the present slab size;
`stack` is the vector of nodes of the running job, `jobs` those that
`DemangleInitRAII` has put aside; a node has its address, its two inline
children or its array, and both are in the same memory, so that a write at a
wrong address destroys what was there. `Malloc` may put a slab at any of
`Places` that is free.

| actions | code |
|---|---|
| `Begin`, `End` | `DemangleInitRAII` and its destructor |
| `Push`, `Pop` | `pushNode`, `popNode` over `Vector::push_back`, `pop_back_val` |
| `CreateNode`, `AddChild`, `RemoveChildAt`, `ReverseChildren` | `createNode` and the members of `Node` |
| `AppendString`, `AppendNumber` | `CharVector::append` |
| `Clear` | `Demangler::clear`, `NodeFactory::clear`, `freeSlabs` |

The bounds 16, 4, 21 and `100 * sizeof(Node)` of the code are constants. Of the
two vectors of a job the first stands for both. `DemangleJobs` is the same
demangler without memory: lists, and a stack of lists.

## 4. The runs

**`parser`** (`MCObjCParser.cfg`). The images have two protocols, a class `A`
with its metaclass and root metaclass, and a class `B` with the name of `A` or
its own; `A` and its metaclass share a protocol list, as compilers emit it. Four
section layouts: no protocol list, a list of one protocol, a list with tagged
and relative pointers in two segments of which only the first counts, a list
with a repeated and a dangling entry. On disk with any two of the sixteen
structures of `Holes` taken away, and in memory (run-time pointers, `A` realised
or not) with any one taken away. Each error path needs one hole; two let a
failure in a metaclass meet one in a protocol or list that it shares. Depth four
(class, metaclass, root metaclass, protocol) is the deepest the ABI allows.

| property | what it says |
|---|---|
| `TypeOK` | types, and a call only goes on with structures that were read, the `class_ro_t` of a realised class included |
| `CursorOnTarget` | the shared cursor is where the running call reads next, at any depth, after any failure |
| `WellNested` | every position a scope will restore is where its caller reads on |
| `PointersValid` | a cached or adopted `Protocol*` is owned by the metadata, and the cache gives for an address the protocol read there |
| `LookupLatest` | `get_class` and `get_protocol` find the latest object of a name, whichever of the three places stored it |
| `NestingBounded` | in an image that follows the ABI the recursion along `isa` stops |
| `ImplementsMetadata` | the refinement of `ObjCMetadata` |
| `Termination` | `parse` ends whatever it fails to read |

Fairness is `WF_vars(Next)`: `parse` is one sequential call that nothing
blocks. It stops when both sections are read, so the deadlock check is off.

**`get_or_create`** (`MCGetOrCreate.cfg`, violation). `get_or_create_protocol`
does not put what it creates into `protocols_` (`Parser.cpp:93-97`); a
protocol that `__objc_protolist` does not list is created again by every class,
and by the metaclass and the class, that adopt it, and the metadata then lists
it several times. `GetOrCreate` states what the function's name says.

**`any_string`** (`MCTypesEncoding.cfg`). All strings of up to five characters
over three alphabets, most of them malformed. Each alphabet has what one group
of constructs reads: pointers, structures and quoted names; digits, specifiers,
arrays, bit fields and an unsupported type; unions and blocks. Five characters
are a construct in a construct, cut short at any place (`{?=^i`), and one more
character of each kind behind it.

| property | what it says |
|---|---|
| `TypeOK` | the shared iterator never passes the end of the string |
| `CallsNest` | the recursion is never deeper than the characters read: each waiting call has one of its own |
| `WorkDecreases` | every step lowers a measure linear in the string: no loop repeats itself without reading |
| `Termination` | `decode_type` reaches the end of every string |

**`signatures`** (`MCTypesGrammar.cfg`). Some twenty thousand well-formed strings,
put together by `MCTypesGrammar`: instance variables of phrases nested twice (a
pointer to an array of structures with two named fields), and methods with offsets.
TLC evaluates the assumptions of `TypesGrammar` for them: each is a phrase or a
signature as the grammar asks. `RoundTrip`: `decode_type`
gives the types the string is the encoding of. Two levels are enough for one
construct to end directly inside or behind another of every kind. Left out are a
quoted name behind an `id` field, where the grammar is ambiguous, and unions
without `=`.

**`array_size`** (violation). `read_str_number` keeps the last digit, so `[12i]`
is an array of 2.

**`declarations`** (`MCAstGenerator.cfg`). A protocol with an optional and a
required method, and classes `A` and `B`, with a method or two ivars over thirteen
types: every case of `get_qtype`, references of a class to itself, to one
declared before and to one declared later, structures and unions of one name. `B` is
printed twice in one context. A few objects have a type that does not decode.
Two members with a type are the least for one to find what the other declared,
and three objects for one to be printed before and after another.

| property | what it says |
|---|---|
| `TypeOK` | types; a declaration refers to existing ones, its parent came before it and its members after it |
| `OwnUnit` | no declaration refers to one of another translation unit, though all share one context |
| `Reprints` | what was printed of a unit is what it would print now |
| `Faithful` | each object is printed with the members it has and the types they have; here no type has the name of an ivar or a property, so that nothing is said of what happens then (section 7) |
| `Termination` | `to_decl` prints every object, or stops at a null type when there is one, and only then |

**`null_type`** (violation). `decl_method` dereferences the null return type of a
method whose string does not decode.

**`iterators`** (`MCRefIterator.cfg`). Two views and two `for` statements over
two containers of two elements, whose iterators compare equal, and an empty one.
The loops run side by side or one in the other, over one view or two.

| property | what it says |
|---|---|
| `TypeOK` | a view stays in the range of its container |
| `Coherent` | position and distance agree, so that copies, comparisons and reads mean one place |
| `LoopInOrder` | a loop has got the elements before its position, in order, once each, whatever else ran in its body |
| `ImplementsView` | the refinement of `ContainerView` |
| `LoopsEnd` | every `for` statement ends |

Fairness is `WF` of `__next__` for each loop: the interpreter comes back to a
loop once its body is done, and nothing is assumed of the rest of the program.
`AssignAcross` is `FALSE`: an assignment between views of two containers
exchanges the containers themselves (`iterators.hpp:69-71`), which nothing in the
repository does.

**`python_objects`** (`MCPyBindings.cfg`). Two trees, five Python objects and
three variables, one of them that of a `for` statement; ids and trees are
symmetric. The program is `Careful`: it keeps the Metadata itself while it uses the
iterators that do not (`init.cpp:121`), so that `NoDangling` is about what the
bindings keep (`items()`, elements, what `IVar::type` gives away) and not about those
iterators, of which nothing in the repository says that they keep it. Two trees let one be freed while the other is
used, and five objects are an owner, an iterator over it, what the iterator
returned, and two more of another tree.

| property | what it says |
|---|---|
| `TypeOK` | what an object keeps exists, and variables hold objects |
| `NoDangling` | no Python object refers into a tree that was freed, if the program is `Careful` |
| `NoLeak` | a tree that is alive has a Python object that will free it |

**`items_loop`** (`MCItemsLoop.cfg`, violation). In `for t in
decode_type(s).items()` the iterator that `items()` returns keeps the types
alive (`types_encoding.cpp:210`), but `__iter__` returns a copy that does not
(`iterator.hpp:37`), and the first one goes away before the loop starts.

**`class_names`** (`MCClassNames.cfg`). Every declaration of up to four steps of
growth with up to two types kept: a type, kept, then an entity whose type mentions
it, and a type in that; or a generic type in a type, and its arguments. A
substitution that one part of a name makes is then used by another.

| property | what it says |
|---|---|
| `RoundTrip` | reading what the writer wrote gives the tree again |
| `SubstitutionsAgree` | reader and writer number the same substitutions, also those the name did not use |
| `CutNamesShown` | a name cut anywhere is shown as it is, never as another class |
| `TailKept` | what follows a name is kept apart from it |
| `ClassKept` | no name reads as a type of another name or in another context, even where `RoundTrip` excludes it |

`Readable`, which the first four are about, leaves out the names with a generic type
(one that has arguments) in two contexts, at which reader and writer do not count the
same lists of arguments:

* `ExtendsType`, an extension of another type: the writer gives the extended type a
  list (`OldRemangler.cpp:2170`) that the reader does not expect
  (`OldDemangler.cpp:1031-1033`);
* `OtherEntity`, an entity other than a function (a closure, an accessor, an
  initializer, a static function, a deallocator): the reader goes on to the entity and
  what that is in and wants a list for each, the writer writes lists for types only
  (`OldRemangler.cpp:2175`). With `RoundTrip` over all of `Declared`, TLC shows it in
  three steps: an initializer, a class in it, the class with arguments. The reader
  takes the list of the class for one of the initializer, which cannot have arguments,
  and fails, so that the name is shown as it is.

Both are generated, and `ClassKept` is about them too. What is not generated is an
entity in, or an extension of, a type that has arguments: a declaration is in a
declaration, whose arguments are not known yet (`Enter`, `Extend`). An entity that
has one child, such as a deallocator, is rebuilt with a null for the second
(`Child`): that is the build without assertions, the other stops at
`Demangler.cpp:341`.

**`node_memory`** (`MCNodeFactory.cfg`). Jobs nested twice, a node, a text, three
elements in all lists together, pointers of two cells, with and without memory
provided, slabs of at most three places. Three elements are a node that goes
from inline children to an array, and an array that is moved with another one
behind it; two values show a mix-up. In 24 cells a second slab follows a first
one, and clearing keeps one of two. The run has a `VIEW`: two states that
differ only in cells which no list uses count as one. Reading never goes there,
so that what the properties say and what can follow is the same.

| property | what it says |
|---|---|
| `TypeOK` | the free range is within the addresses, memory holds values, null or what was never written |
| `Apart` | what the demangler holds, the stacks of interrupted jobs included, is in memory it owns and does not overlap, nor is it given out again |
| `LastSlabSuffices` | what the comment at `Demangler.cpp:442` relies on and what the assertion at 449 says |
| `ImplementsJobs` | the refinement of `DemangleJobs`: every list is the one its own operations made |

The fairness of `any_string` and `declarations` is `WF_vars(Next)`, for the
reason given for `parser`, and the deadlock check is off there because each of
these calls ends; in `class_names` growth ends at its bound. The safety runs
need no fairness. Each property of a passing run has a mutant of the code (the
definitions marked "Mutant of") that breaks it under the same configuration.

## 5. The proofs

`ObjCParserProofs` proves, for every set of images that satisfies `IsImage` and
every value of the constants:

* `TypeCorrect`: `Spec => []TypeOK`;
* `CursorCorrect`: `Spec => []CursorOnTarget`;
* `NestingCorrect`: `Spec => []WellNested`.

The assumptions are those of the modules: `PtrSpan` is positive, `Empty` a
string, the images records of the right shape. Nothing is assumed of what the
pointers lead to: `WellTyped` is not used, and `FollowsAbi` is only the premise
of `NestingBounded`.

The invariant is `IInv == TypeOK /\ WellNested /\ CursorOnTarget`. None of the
last two is inductive alone. When a call returns, the cursor becomes
`Top.saved`; that this is where the caller reads on is `WellNested`, which says
of each frame below the top what `CursorOnTarget` says of the top. When a call
starts, the position it saves is the present cursor, and `CursorOnTarget` makes
`WellNested` true of the new frame. `TypeOK` makes the arithmetic on positions
meaningful and keeps the fields that `Nested` compares well defined. The proof
has one lemma per action, grouped by what the action does to the stack (push,
pop, change of the top frame), and lemmas on the stack operators.

Its second part goes on from `IInv`, under the same assumptions:

* `PointersCorrect`: `Spec => []PointersValid`;
* `LookUpsCorrect`: `Spec => []LookupLatest`;
* `NestingStops`: `Spec => []NestingBounded`.

`LookupLatest` is inductive: an object is appended and its name mapped to the
new index (`PutIndexes`). The other two rest on `OInv`, which says of each
running call that its object remembers the address `create()` was called at
(so that the key under which a protocol is cached is the right one), that its
object holds only protocols of the metadata, and that a class `create()` goes
on with was readable, each class on the stack being the isa of the one below
it and another one. Here the cursor matters again: `CursorOnTarget` is what makes
the class that is read the one at that address. Five calls would be four classes
along isa; the third one is then the isa of a metaclass, so its own isa, and has
made no call for it.

`ObjCParserRefinement` proves, under the same assumptions,

* `Refinement`: `Spec => ImplementsMetadata`;
* `ProgressHolds`: `Spec => []RInv`, the invariant it needs besides `IInv` and `OInv`.

`RInv` relates each running `create()` to what it is about to return. `Part` is
what a list denotes as far as it has been read: nothing before its phase
(`Extent`), the first `i` elements while its loop runs, all of it afterwards.
Every member of the object under construction is the `Part` of its list, or the
concatenation of two; the methods of a class start with what its super class
gives it (`Inherited`). Neither a member nor the loop's bound determines the
other: the loop over the methods of a class ends at the first unreadable one,
which is why `LoopProgress` compares `i` and `n` with the length of the readable
prefix. A class on the stack has counted a protocol pointer whose call has not
returned (`Adopted`, `CallsRef`). `SuperProgress` says that the super class was
read to its end, so that the path along `isa` is finite: on images where it is
not, the parser calls itself for ever and reports nothing more, and the theorem
holds of that too. `CacheProgress` says that what the first loop is done
with is cached where it could be read, so that a class that adopts a protocol
that is not cached adopts one `__objc_protolist` does not report; `EntryProgress`
which section entry the bottom call is for.

One lemma per action shows that `RInv` stays. Then a step is one of
three: it is done with a protocol entry (`ListedReported`), it stores an adopted
protocol (`AdoptedReported`), it is done with a class entry (`ClassReported`), and
every other step changes nothing that `ObjCMetadata` sees. `ProtocolRead` and
`ClassRead` say that an object that is returned is the one that
`ObjCMetadata` defines, and that the protocols it mentions are reported; that an adopted
protocol is mentioned by the class of the entry, however many calls below, goes
down the stack class by class (`LowerClass`, `AdoptedMentioned`). What a recursive
function of a number is (`Among`, `Along`, `Steps`, `MethodsOf`) is proved by counting
(`UpTo`), as below for `Before`: `Repetition` says that a step repeated n times, or
for ever, is a function and the only one.

`TypesEncodingProofs` proves, for every set of strings over any characters
(`EncodingsAssumption` is all that the first three need), well formed or not and of
any length:

* `TypesTypeCorrect`: `Spec => []TypeOK`;
* `CallsCorrect`: `Spec => []CallsNest`;
* `WorkCorrect`: `Spec => WorkDecreases`;

and for every set of strings of the grammar of `TypesGrammar`, whatever their length
and nesting:

* `RoundTripHolds`: `SignatureSpec => []RoundTrip`, if every size in them has one
  digit (`ShortSizes`). The code needs that: `array_size` shows what becomes of two.

The eighteen actions have five shapes, one lemma each: `process()` returns
further on, it enters a construct whose opening character it has read, a loop
goes on, a construct is left, `decode_type` takes or asks for a type. What the
proof needs of a waiting call is in `Waiting`: it is at work on a construct
opened before the iterator, and behind those of the calls around it. The
iterator only grows, which keeps that true of the calls below the top; a new call
is at a position the iterator has just passed, which makes it true of the top.
`TypeOK /\ CallsNest` is inductive. The measure is
`6 * (characters left) + 2 * (waiting calls) + Rank`: reading a character pays
for entering a construct, leaving one lowers the second term, and the steps that
do neither go down in `Rank`. Since it is at least 0 and starts linear in the
string, `decode_type` takes a number of steps linear in the length of the
string, and its recursion is no deeper than the string is long.

`RoundTripHolds` needs no induction over phrases: the state of the parser is one.
A job is to read a phrase at a place of the string, with the number of its elements
that are read. In the inductive invariant, `Decodes`, there is a signature `s`,
the number of its types that are done, and a job for each waiting call of `process()`
and one for the running call, such that `Collected` (the types so far are those of
the types that are done, without the unsupported ones) and the iterator is where
the phase has it: at the first character of the last job's phrase or at the digits and
specifiers before it (`Calling`), right behind it with its type in `ret`
(`Returning`), at its next element or closing character (`Looping`), or between
two types (`Ready`). Of each waiting call, `Framed` says that its frame holds the name,
the size and the elements of its job's phrase, and `Inner` that the next job is the
element it waits for. A step moves to the next such state: `CallStep` by the kind of
phrase (`ReadSimple`, `ReadPointer`, `ReadArray`, `ReadRecord`: process() takes the
branch of that kind and no other, and stops where the phrase ends), `ElementStep`,
`CloseStep`, `TakeStep` and `PointStep` for the elements, `NextTypeStep`,
`TakeTypeStep` and `OffsetStep` for `decode_type`. What they need of texts is that
the text of a phrase is found in the string as it is in the phrase (`JobText`,
`PartIsJob`), and that no phrase begins with a character that could end the one
before it (`Beginning`, `ElementEnds`). At the end nothing is left to be done, and the
types collected are all (`DecodesAll`).

`AstGeneratorProofs` proves, for any protocols and classes with any members and
types (`MetadatasAssumption` says that the lists are sequences and an object is
a protocol or a class, `TypesAssumption` that a member is a method, an ivar or a
property and that a method or an ivar has a list of types, nothing of the types):

* `UnitsApart`: `Spec => []OwnUnit`;
* `PrintsStay`: `Spec => []Reprints`;
* `AstTypes`: `Spec => []TypeOK`;
* `PrintsFaithful`: `Spec /\ OwnNames => []Faithful`. `OwnNames` says that no member
  has a type with the name of an ivar or a property before it in the same object.
  The code needs it: behind an ivar of that name, the type would be printed as
  `void *` (`ASTGen.cpp:198`), and the theorem says nothing of such objects.

None of the first three is inductive: a look-up could find a declaration of another unit
if the declaration that asks, or the one whose method's parameters are being
declared, was in one. The invariant has three parts. `Good`: `unit` is the last
unit; what was declared before it refers to nothing from it on, what was
declared from it on refers to nothing before it. `Control`: at each phase, what
get_qtype was asked for and what it found are in the present unit, and `method`
is a method only while one is being declared. `Past`: what was printed is of
units that are over. A step between `Generate` and `PrintUnit` extends the
declarations (`Extends`): it leaves those of the earlier units as they are,
which is all that their text depends on (`TextKept`). `Creating`, `AddingMember`,
`AddingParam` and `SettingOptional` are the ways in which the code extends them,
`Searching` says that what a look-up finds is in the unit of who asks.

`PrintsFaithful` adds `Telling` to that, of the object that is being declared: its
declaration has its name, its protocols and the members before `at`, each of which
says what the object's does (`ObjectTold`); so does the method that is being
declared, of the parameters it has (`MethodTold`); get_qtype() has passed the first
`n` layers of the type it was asked for and is at what is below them (`Reached`), or
its answer says that type. From these, a name that the member mentions is found
nowhere (`NothingFound`): a structure that is declared is in no context, the unit has
no member before it is printed, a method has none, and the members of the object are
methods, which are not searched for, or ivars and properties, which `OwnNames` is
about. So get_qtype() declares what it needs and answers with it (`TellRecord`,
`TellObject`). A step leaves what the declarations before it say (`TypeStays`,
`MemberStays`, `DrawnStays`), as it changes no name. That `Inner` is what its
definition says, and that there is one more layer to `Layers` with each pointer
(`InnerIs`, `LayersMore`), takes an induction over numbers, which is done by counting
(`UpTo`).

`RefIteratorProofs` proves, for any containers, names and loops, and a program
that does not assign between views of two containers (`~AssignAcross`, the only
assumption besides those on the constants):

* `TypeCorrect`: `Safety => []TypeOK`;
* `Coherence`: `Safety => []Coherent`;
* `LoopsInOrder`: `Safety => []LoopInOrder`;
* `Refinement`: `Safety => ImplementsView`.

`Safety` is `Spec` without its fairness.

The invariant adds to the types that a container still has its own buffer and
that a position is the one its distance gives; the assignment is where it would
break. Every operation has one of five shapes (an object placed, copied, moved, a
loop's step or end), each of which keeps the invariant and is a step of
`ContainerView`.

`NodeFactoryProofs` proves, for any sizes of slabs, nodes and words, any choice
`malloc` makes, any number of nested jobs, nodes and texts
(`SizesAssumption`, `ValuesAssumption`):

* `MemoryApart`: `Spec => []Apart`;
* `TypeCorrect`: `Spec => []TypeOK`;
* `SlabKept`: `Spec => []LastSlabSuffices`.

The invariant `IInv` adds to `Apart` the shape of the factory: the free range is
memory the factory owns and ends where its last slab does. Without it, `Apart`
is not inductive: it says that what is held is outside of the free range, and a
free range that ran into other memory would give that out. The memory in use
(what is owned without the free range) only grows until `clear()`; `Allocation`
says that what is allocated was not in use before, `Reallocation` that an array
that grows has what it had or memory that was not in use. So each step gives to
one owner at most and every other keeps what it has (`Kept`), or takes over
what an owner had, when a job starts or ends (`Moved`).

`LastSlabSuffices` has a sum over the slabs, `Before`, a recursive function of a
number. What such a function is for every number is proved without the library's
induction theorems: `UpTo` says that a set with 0 and the successor of each of
its members below n has all numbers up to n, by the pigeonhole principle
(`FS_PigeonHole`). From it, the function exists and its equation holds
(`Sum`, `SumExists`), and the sums of two lists of slabs agree as far as the
slabs do.

`NodeFactoryRefinement` proves, under the same assumptions and
`NoneAssumption` (what stands for no node is not a list),

* `Refinement`: `Spec => ImplementsJobs`;
* `ReadyAlways`: `Spec => []Ready`, the invariant it needs besides `IInv`.

`Ready` says that all memory is within the addresses, that no list has more
elements than room, and that a node is not there, or has its children either in
itself or in an array. A step is proved in two parts. First, what it makes of
its own list: `PushBackAppends`, `CharsAppended`, `ChildAdded` (a child in the
node, the third one, whose array takes the place of the first two, and one
more in the array), `ChildRemoved`, `ChildrenReversed`. These rest on where
the cells of an element are (`ElementCells`, `ElementsApart`): writing one element
leaves the others, copying the array elsewhere reads as the same list
(`ContentsMoved`), and reversing cell by cell within elements reverses the
elements (`ElementsTurned`). Second, that it changes no other list: what a step
writes is in memory its own list has afterwards (`OnlyIn`), what the others hold
is apart from that (`Apart` after the step, from `IInv`), and a list is a function of
the cells it holds (`Untouched`, `OtherLists`). Begin and End move the
running job's list to the saved ones and back.

`PyBindingsProofs` proves, for any number of objects, variables and trees and a
program that keeps the owners the bindings do not keep (`Careful`):

* `NothingDangles`: `Spec => []NoDangling`;
* `NothingLeaks`: `Spec => []NoLeak`;
* `Types`: `Spec => []TypeOK`.

`NoDangling` alone is not inductive: an owner may go and take the tree of
another object along. The invariant `Good` says why it does not. A tree has one
owner; what an object keeps is in its own tree; and from an object of a tree
that is not referred to loosely, keeping leads to the owner: every set closed
under keeping that has the object has the owner. What is kept after a step is
such a set (`Keeping`), so an owner that goes leaves no object of its tree
(`Collecting`); for a tree that is referred to loosely, a variable holds the
owner, or none holds an object of the tree and all of them go. `Good` is stated of any objects and
variables, so that a step is in two parts: it makes an object or changes a
variable (`AddingOwner`, `AddingReference`, `Holding`), and what nothing keeps
goes (`Becoming`).

Model-checked only:

* everything about the old mangling: reader, writer and their trees are
  recursive;
* `RoundTrip` of the type encodings only as far as that every phrase put together by
  `MCTypesGrammar` is one (`PhrasesAssumption`): TLC evaluates that; the theorem is about
  whatever satisfies it;
* every `Termination`: it needs fairness. For the type encoding parser
  `WorkCorrect` is the safety half of it.

## 6. Not modelled

* The members that no code reads back: `instance_start`, `instance_size`,
  `reserved`, method addresses; flags other than `META` and `IS_SMALL`.
* Sizes and overlaps of structures: a cell has one address. `read_at` does not
  compare the size with the segment (`MachOStream.cpp:44-46`), so a structure
  that crosses the end of its segment is read past it; no cell does here.
* Of a realised class, the pointer to its `class_rw_t` is followed in the
  parser's own address space (`Types.hpp:228-231`); the model takes it to be
  valid when the image is in memory.
* `isa` cycles: `FollowsAbi` excludes them, and `Class::create` has no other
  protection.
* Text: logging and the `to_string` functions. One of them matters to memory
  safety and not to the result: the log message at `TypesEncoding.cpp:108` reads
  `*it` of a string that ended inside a structure.
* The fields of a record in the printed declarations: `get_qtype` does not look
  at them. `pretty_struct` only formats a name.
* `generate(Property)`, which prints an empty unit, and the `ASTGen` singleton's
  creation and destruction at exit: to a caller there is one `ASTContext` all along.
* Clang's own rules for redeclarations and selectors.
* Iterators: the order comparisons, which only read the distance. Undefined uses.
* Bindings: nanobind and the interpreter are external; the text of `repr` and
  the exceptions.
* Of the vendored Swift code: generic signatures, archetypes, operators, SIL and
  what is not a type in the old mangling; the printing of trees; the newer
  mangling, which the metadata does not use for class names; memory borrowed from
  another factory, which nothing here does. All the rest of `src/llvm-swift`, about
  100 000 lines of headers and libraries of the Swift compiler and LLVM, is never
  called by iCDump: the share of the lines that the models cover is small because
  of it, while of iCDump's own source, what is not text or logging is modelled.
* Logger, entry points, `readobjc.py`, examples and the build: no state that a
  property could relate (see the next section for what was seen there).

## 7. Seen while modelling

These are no runs, because nothing in the repository says what else should
happen, or because the code at hand never gets there.

* `process` gives a `BlockTy` for `@?`, where the comment at
  `TypesEncoding.cpp:263` says `void*`; a type that cannot be decoded is dropped
  (313), so that the receiver becomes the return type of `D16@0:8`
  (`Method.cpp:82-84`).
* Two members of one structure type declare it twice (`ASTGen.cpp:187`); an
  instance variable with the name of a structure is found instead of it
  (`ASTGen.cpp:198`).
* `parse` does not look at `arch` (`iCDump.cpp:37-44`); `enable()` after
  `disable()` sets the level to warn (`log.cpp:105-107`); `readobjc.py:37-38`
  prints that the output was saved before it is written.
* `removeChildAt` on two inline children leaves the second in place, so that a
  later `addChild` would meet the assertion at `Demangler.cpp:349` in a debug build;
  `Vector::free` keeps the number of elements, which is 0 outside of a job;
  `DemangleInitRAII` puts the number of words of the outer job aside and not the
  words (`Demangler.cpp:522-524`); `append(int)` has no room for the smallest `int` (`Demangler.cpp:490`).
* The comment at `OldDemangler.cpp:1090` says that each level of nominal type nesting
  has its own list of arguments; the reader also wants one for an entity that a type is
  local to, unless it is a function (1031-1033), and none for a type that is extended
  (see `class_names`).
* In the old mangling, the flags of a function type are read in another order
  than they are written, and `Builtin.SILToken` is read and not written.

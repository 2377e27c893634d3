------------------------------ MODULE ObjCParser ------------------------------
(***************************************************************************)
(* ObjC::Parser::parse: the Objective-C metadata of one image, read        *)
(* through one shared stream cursor.                                       *)
(*                                                                         *)
(* process_protocols and process_classes loop over a section; Class and    *)
(* Protocol objects are built by recursive create() calls that move the    *)
(* cursor inside LIEF::ScopedStream scopes.  The C++ call stack is the     *)
(* variable stack, top last; a frame is one call of create():              *)
(*   fn, at     whose create(), and the address it was called at           *)
(*   saved      the position that the caller's ScopedStream restores       *)
(*   ph         what it does next: the list field it reads, or "create",   *)
(*              "super_class", "return"                                    *)
(*   isa, raw   the isa pointer; where the class_ro_t or protocol_t is     *)
(*   obj        the object under construction                              *)
(*   open, list, back, i, n                                                *)
(*              the loop over the list that ph names: whether it runs, its *)
(*              header, the position its ScopedStream restores, its index  *)
(*              and its bound                                              *)
(***************************************************************************)
EXTENDS ObjCImage

CONSTANT Images  \* the images the parser may be given

ASSUME ImagesAssumption == \A im \in Images : IsImage(im)

VARIABLES
  img,              \* bin_: the image being parsed
  stage,            \* the loop that runs: "protocols", "classes", "done"
  idx,              \* the section entry that loop reads next
  pos,              \* stream_->pos()
  stack,            \* the create() calls in progress
  cache,            \* Parser::protocols_: address -> Protocol*
  protocols,        \* Metadata::protocols_; a Protocol* is an index in it
  protocol_lookup,  \* Metadata::protocol_lookup_: name -> Protocol*
  classes,          \* Metadata::classes_; a Class* is an index in it
  classes_lookup    \* Metadata::classes_lookup_: name -> Class*

metadata == <<protocols, protocol_lookup, classes, classes_lookup>>
vars == <<img, stage, idx, pos, stack, cache, metadata>>

Home == 0   \* where a new stream's cursor is
Null == 0   \* nullptr

\* Mutant of Put: emplace, which keeps the first.
PutIfAbsent(f, x, y) ==
  [z \in DOMAIN f \cup {x} |-> IF z \in DOMAIN f THEN f[z] ELSE y]

\* f with x mapped to y: operator[] of an unordered_map.
Put(f, x, y) == [z \in DOMAIN f \cup {x} |-> IF z = x THEN y ELSE f[z]]

-----------------------------------------------------------------------------
(***************************************************************************)
(* Objects and frames.                                                     *)
(***************************************************************************)
\* A Class or a Protocol.  name is Protocol::mangled_name_ and methods is
\* Protocol::required_methods_; a member the C++ class lacks stays empty.
NewObject(name, at, is_meta) ==
  [name |-> name, is_meta |-> is_meta,
   at |-> at,  \* history: where it was read
   methods |-> << >>, opt_methods |-> << >>, protocols |-> << >>,
   ivars |-> << >>, properties |-> << >>]

\* The lists of a class_ro_t and of a protocol_t, by the field that points to
\* them: the kind of list, the member its elements go to, the code that follows.
MethodFields == {"base_method_list", "instance_methods", "class_methods",
                 "optional_instance_methods", "optional_class_methods"}
PropertyFields == {"base_properties", "instance_properties"}
ListFields == MethodFields \cup PropertyFields \cup {"base_protocols", "ivars"}
Phases == ListFields \cup {"create", "super_class", "return"}

ListKind(field) ==
  IF field \in MethodFields THEN "method_list"
  ELSE IF field \in PropertyFields THEN "property_list"
  ELSE IF field = "ivars" THEN "ivar_list" ELSE "protocol_list"

MemberOf(field) ==
  IF field \in {"optional_instance_methods", "optional_class_methods"}
  THEN "opt_methods"
  ELSE IF field \in MethodFields THEN "methods"
  ELSE IF field \in PropertyFields THEN "properties" ELSE "ivars"

After ==
  [super_class |-> "base_method_list", base_method_list |-> "base_protocols",
   base_protocols |-> "ivars", ivars |-> "base_properties",
   base_properties |-> "return",
   instance_methods |-> "class_methods",
   class_methods |-> "optional_instance_methods",
   optional_instance_methods |-> "optional_class_methods",
   optional_class_methods |-> "instance_properties",
   instance_properties |-> "return"]

Depth == Len(stack)
Top == stack[Depth]
Caller == stack[Depth - 1]
Running(fn) == stack # << >> /\ Top.fn = fn

Pop(s) == SubSeq(s, 1, Len(s) - 1)
SetTop(s, frame) == [s EXCEPT ![Len(s)] = frame]

\* Mutant of Go: the scope of one list is still open when the next is read.
StayOpen(frame, ph) == [frame EXCEPT !.ph = ph]

\* The frame goes on with the code of ph; a list's scope ends.
Go(frame, ph) == [frame EXCEPT !.ph = ph, !.open = FALSE]

\* create() entered inside ScopedStream scoped(stream, addr).
Call(fn, addr, cursor) ==
  [fn |-> fn, at |-> addr, saved |-> cursor, ph |-> "create",
   isa |-> Null, raw |-> Null, obj |-> NewObject(Empty, addr, FALSE),
   open |-> FALSE, list |-> Null, back |-> Null, i |-> 0, n |-> 0]

-----------------------------------------------------------------------------
Init ==
  /\ img \in Images
  /\ stage = "protocols" /\ idx = 1 /\ pos = Home /\ stack = << >>
  /\ cache = << >>
  /\ protocols = << >> /\ protocol_lookup = << >>
  /\ classes = << >> /\ classes_lookup = << >>

(***************************************************************************)
(* process_protocols and process_classes.                                  *)
(***************************************************************************)
Section ==
  ObjCSection(IF stage = "protocols" THEN img.protolist ELSE img.classlist)

ProcessEntry ==
  /\ stage # "done" /\ stack = << >> /\ idx <= Len(Section)
  /\ LET location == Decode(img, Section[idx])
         fn == IF stage = "protocols" THEN "Protocol" ELSE "Class"
     IN  stack' = << Call(fn, location, pos) >> /\ pos' = location
  /\ idx' = idx + 1
  /\ UNCHANGED <<img, stage, cache, metadata>>

SectionDone ==
  /\ stage # "done" /\ stack = << >> /\ idx > Len(Section)
  /\ stage' = IF stage = "protocols" THEN "classes" ELSE "done"
  /\ idx' = 1
  /\ UNCHANGED <<img, pos, stack, cache, metadata>>

(***************************************************************************)
(* Class::create.                                                          *)
(***************************************************************************)
CreateClass ==
  /\ Running("Class") /\ Top.ph = "create" /\ ClassReadable(img, pos)
  /\ LET ro == ClassRoPtr(img, Cell(img, pos))
         raw == Cell(img, ro)
         name == StringAt(img, Decode(img, raw.name))
     IN  stack' = SetTop(stack,
           [Top EXCEPT !.ph = "super_class", !.raw = ro,
                       !.isa = Cell(img, pos).isa,
                       !.obj = NewObject(name, Top.at, raw.is_meta)])
  /\ UNCHANGED <<img, stage, idx, pos, cache, metadata>>

\* create() returns nullptr.  The entry is dropped, or the calling create()
\* goes on without the methods of its super class.
ClassFailed ==
  /\ Running("Class") /\ Top.ph = "create" /\ ~ ClassReadable(img, pos)
  /\ stack' = IF Depth = 1 THEN << >>
              ELSE SetTop(Pop(stack), Go(Caller, After["super_class"]))
  /\ pos' = Top.saved
  /\ UNCHANGED <<img, stage, idx, cache, metadata>>

\* Mutant of HasSuper: no check that a root metaclass is its own isa.
FollowEveryIsa == Top.isa # Null

\* cls_obj->super_class is the isa pointer; a root metaclass is its own isa.
HasSuper == Top.isa # Null /\ Decode(img, Top.isa) # pos

ParseSuper ==
  /\ Running("Class") /\ Top.ph = "super_class" /\ HasSuper
  /\ LET addr == Decode(img, Top.isa)
     IN  stack' = Append(stack, Call("Class", addr, pos)) /\ pos' = addr
  /\ UNCHANGED <<img, stage, idx, cache, metadata>>

NoSuper ==
  /\ Running("Class") /\ Top.ph = "super_class" /\ ~ HasSuper
  /\ stack' = SetTop(stack, Go(Top, After["super_class"]))
  /\ UNCHANGED <<img, stage, idx, pos, cache, metadata>>

\* m->is_instance_ = false; cls->methods_.push_back(std::move(m))
TakeMethods(frame, methods) ==
  [frame EXCEPT !.obj.methods =
     @ \o [m \in DOMAIN methods |-> [methods[m] EXCEPT !.is_instance = FALSE]]]

ReturnSuper ==
  /\ Running("Class") /\ Top.ph = "return" /\ Depth > 1
  /\ stack' = SetTop(Pop(stack), TakeMethods(Go(Caller, After["super_class"]),
                                             Top.obj.methods))
  /\ pos' = Top.saved
  /\ UNCHANGED <<img, stage, idx, cache, metadata>>

\* process_classes stores the class.
StoreClass ==
  /\ Running("Class") /\ Top.ph = "return" /\ Depth = 1
  /\ classes_lookup' = Put(classes_lookup, Top.obj.name, Len(classes) + 1)
  /\ classes' = Append(classes, Top.obj)
  /\ stack' = << >> /\ pos' = Top.saved
  /\ UNCHANGED <<img, stage, idx, cache, protocols, protocol_lookup>>

(***************************************************************************)
(* Protocol::create, get_or_create_protocol.                               *)
(***************************************************************************)
CreateProtocol ==
  /\ Running("Protocol") /\ Top.ph = "create" /\ Has(img, "protocol", pos)
  /\ LET name == StringAt(img, Decode(img, Cell(img, pos).mangled_name))
     IN  stack' = SetTop(stack,
           [Top EXCEPT !.ph = "instance_methods", !.raw = pos,
                       !.obj = NewObject(name, Top.at, FALSE)])
  /\ UNCHANGED <<img, stage, idx, pos, cache, metadata>>

\* Mutant of ProtocolFailed: setpos() where the code has a ScopedStream.
ProtocolFailedUnscoped ==
  /\ Running("Protocol") /\ Top.ph = "create" /\ ~ Has(img, "protocol", pos)
  /\ stack' = Pop(stack)
  /\ UNCHANGED <<img, stage, idx, pos, cache, metadata>>

\* create() returns nullptr: the entry, or the class's reference, is dropped.
ProtocolFailed ==
  /\ Running("Protocol") /\ Top.ph = "create" /\ ~ Has(img, "protocol", pos)
  /\ stack' = Pop(stack) /\ pos' = Top.saved
  /\ UNCHANGED <<img, stage, idx, cache, metadata>>

StoreProtocol ==
  /\ protocol_lookup' = Put(protocol_lookup, Top.obj.name, Len(protocols) + 1)
  /\ protocols' = Append(protocols, Top.obj)
  /\ pos' = Top.saved
  /\ UNCHANGED <<img, stage, idx, classes, classes_lookup>>

\* Mutant of StoreListedProtocol: the key is the pointer as the section has it.
StoreUnderRawPointer ==
  /\ Running("Protocol") /\ Top.ph = "return" /\ Depth = 1
  /\ StoreProtocol
  /\ cache' = Put(cache, Section[idx - 1], Len(protocols) + 1)
  /\ stack' = << >>

\* The end of the loop body of process_protocols.
StoreListedProtocol ==
  /\ Running("Protocol") /\ Top.ph = "return" /\ Depth = 1
  /\ StoreProtocol
  /\ cache' = Put(cache, Top.at, Len(protocols) + 1)
  /\ stack' = << >>

\* cls->protocols_.push_back(proto)
Adopt(frame, proto) == [frame EXCEPT !.obj.protocols = Append(@, proto)]

\* The end of get_or_create_protocol, and the class that called it adopts.
StoreAdoptedProtocol ==
  /\ Running("Protocol") /\ Top.ph = "return" /\ Depth > 1
  /\ StoreProtocol
  /\ stack' = SetTop(Pop(stack), Adopt(Caller, Len(protocols) + 1))
  /\ UNCHANGED cache

(***************************************************************************)
(* The lists of a class_ro_t or a protocol_t.                              *)
(***************************************************************************)
BeforeList == stack # << >> /\ Top.ph \in ListFields /\ ~ Top.open
ListPtr == Cell(img, Top.raw)[Top.ph]
ListReadable == ListPtr # Null /\ Has(img, ListKind(Top.ph), Decode(img, ListPtr))

OpenList ==
  /\ BeforeList /\ ListReadable
  /\ LET list == Decode(img, ListPtr)
     IN  /\ stack' = SetTop(stack,
              [Top EXCEPT !.open = TRUE, !.list = list, !.back = pos,
                          !.i = 0, !.n = Cell(img, list).count])
         /\ pos' = list + 1
  /\ UNCHANGED <<img, stage, idx, cache, metadata>>

NoList ==
  /\ BeforeList /\ ~ ListReadable
  /\ stack' = SetTop(stack, Go(Top, After[Top.ph]))
  /\ UNCHANGED <<img, stage, idx, pos, cache, metadata>>

CloseList ==
  /\ stack # << >> /\ Top.open /\ Top.i >= Top.n
  /\ stack' = SetTop(stack, Go(Top, After[Top.ph]))
  /\ pos' = Top.back
  /\ UNCHANGED <<img, stage, idx, cache, metadata>>

InLoop == stack # << >> /\ Top.open /\ Top.i < Top.n

IsSmallList == Cell(img, Top.list).small

ElementKind ==
  IF Top.ph \in MethodFields THEN MethodKind(IsSmallList)
  ELSE IF Top.ph \in PropertyFields THEN "property" ELSE "ivar"

\* The flag the loop gives to the methods of a list.
IsInstance ==
  IF Top.ph = "base_method_list" THEN ~ Top.obj.is_meta
  ELSE Top.ph \in {"instance_methods", "optional_instance_methods"}

Element(addr) ==
  IF Top.ph \in MethodFields THEN MethodAt(img, IsSmallList, addr, IsInstance)
  ELSE IF Top.ph \in PropertyFields THEN PropertyAt(img, addr)
  ELSE IVarAt(img, addr)

\* stream.setpos(first + i * sizeof(element)), then create().
InElements == InLoop /\ Top.ph # "base_protocols"
ElementAddr == Top.list + 1 + Top.i

ReadElement ==
  /\ InElements /\ Has(img, ElementKind, ElementAddr)
  /\ pos' = ElementAddr
  /\ stack' = SetTop(stack,
       [Top EXCEPT !.obj[MemberOf(Top.ph)] = Append(@, Element(ElementAddr)),
                   !.i = @ + 1])
  /\ UNCHANGED <<img, stage, idx, cache, metadata>>

\* Mutants of AfterFailure: every loop goes on; the loop reads i again.
GoOn(frame) == [frame EXCEPT !.i = @ + 1]
Retry(frame) == frame

\* An unreadable element ends the method list of a class; every other loop
\* goes on with the next element.
AfterFailure(frame) ==
  IF frame.ph = "base_method_list" THEN [frame EXCEPT !.n = frame.i]
  ELSE [frame EXCEPT !.i = @ + 1]

SkipElement ==
  /\ InElements /\ ~ Has(img, ElementKind, ElementAddr)
  /\ pos' = ElementAddr
  /\ stack' = SetTop(stack, AfterFailure(Top))
  /\ UNCHANGED <<img, stage, idx, cache, metadata>>

(***************************************************************************)
(* The base_protocols loop reads its pointers one after the other through  *)
(* the cursor, while get_or_create_protocol moves the same cursor.         *)
(***************************************************************************)
InRefs == InLoop /\ Top.ph = "base_protocols"
RefAddr == Decode(img, Cell(img, pos).value)
NextRef == [Top EXCEPT !.i = @ + 1]

KnownProtocol ==
  /\ InRefs /\ Has(img, "pointer", pos) /\ RefAddr \in DOMAIN cache
  /\ stack' = SetTop(stack, Adopt(NextRef, cache[RefAddr]))
  /\ pos' = pos + 1
  /\ UNCHANGED <<img, stage, idx, cache, metadata>>

\* Mutant of NewProtocolRef: the pointer is peeked at, not read.
PeekProtocolRef ==
  /\ InRefs /\ Has(img, "pointer", pos) /\ RefAddr \notin DOMAIN cache
  /\ stack' = Append(SetTop(stack, NextRef), Call("Protocol", RefAddr, pos))
  /\ pos' = RefAddr
  /\ UNCHANGED <<img, stage, idx, cache, metadata>>

NewProtocolRef ==
  /\ InRefs /\ Has(img, "pointer", pos) /\ RefAddr \notin DOMAIN cache
  /\ stack' = Append(SetTop(stack, NextRef),
                     Call("Protocol", RefAddr, pos + 1))
  /\ pos' = RefAddr
  /\ UNCHANGED <<img, stage, idx, cache, metadata>>

BreakRefs ==
  /\ InRefs /\ ~ Has(img, "pointer", pos)
  /\ stack' = SetTop(stack, [Top EXCEPT !.n = Top.i])
  /\ UNCHANGED <<img, stage, idx, pos, cache, metadata>>

Next ==
  \/ ProcessEntry \/ SectionDone
  \/ CreateClass \/ ClassFailed \/ ParseSuper \/ NoSuper \/ ReturnSuper
  \/ StoreClass
  \/ CreateProtocol \/ ProtocolFailed \/ StoreListedProtocol
  \/ StoreAdoptedProtocol
  \/ OpenList \/ NoList \/ CloseList \/ ReadElement \/ SkipElement
  \/ KnownProtocol \/ NewProtocolRef \/ BreakRefs

\* The parser is one thread that runs to completion.
Spec == Init /\ [][Next]_vars /\ WF_vars(Next)

-----------------------------------------------------------------------------
(***************************************************************************)
(* Properties.                                                             *)
(***************************************************************************)
Objects ==
  [name: STRING, is_meta: BOOLEAN, at: Nat,
   methods: Seq(Methods), opt_methods: Seq(Methods), protocols: Seq(Nat),
   ivars: Seq(IVars), properties: Seq(Properties)]

Frames ==
  [fn: {"Class", "Protocol"}, at: Nat, saved: Nat, ph: Phases,
   isa: Nat, raw: Nat, obj: Objects,
   open: BOOLEAN, list: Nat, back: Nat, i: Nat, n: Nat]

ClassFields == {"base_method_list", "base_protocols", "ivars", "base_properties"}
ProtocolFields == ListFields \ ClassFields

\* The structures a frame reads through raw and list are readable.
FrameReads(im, f) ==
  /\ f.fn = "Class" => f.ph \notin ProtocolFields
  /\ f.fn = "Protocol" => f.ph \notin ClassFields \cup {"super_class"}
  /\ f.ph \in ClassFields \cup {"super_class"} => Has(im, "class_ro", f.raw)
  /\ f.ph \in ProtocolFields => Has(im, "protocol", f.raw)
  /\ f.open => f.ph \in ListFields /\ Has(im, ListKind(f.ph), f.list)

FramesOK(im, s) ==
  s \in Seq(Frames) /\ \A k \in DOMAIN s : FrameReads(im, s[k])

TablesOK ==
  /\ stage \in {"protocols", "classes", "done"} /\ idx \in Nat \ {0}
  /\ protocols \in Seq(Objects) /\ classes \in Seq(Objects)
  /\ cache \in [DOMAIN cache -> Nat]
  /\ protocol_lookup \in [DOMAIN protocol_lookup -> Nat]
  /\ classes_lookup \in [DOMAIN classes_lookup -> Nat]

\* The types of the variables; a call only goes on with structures that were
\* read: the class_ro_t of a realised class, the protocol_t, the open list.
TypeOK == IsImage(img) /\ pos \in Nat /\ FramesOK(img, stack) /\ TablesOK

(***************************************************************************)
(* Where the cursor must be while frame f runs: on the structure create()  *)
(* was called for, or on the next pointer of the base_protocols list.  The *)
(* other loops set the cursor themselves before each element.              *)
(***************************************************************************)
CursorOf(f) == IF f.open THEN f.list + 1 + f.i ELSE f.at
Relies(f) == f.open => f.ph = "base_protocols"

\* Class::create and Protocol::create share parser.stream(): however deep the
\* calls they make, the cursor is back on the structure or the protocol
\* pointer that the running call reads next, and between two entries of a
\* section it is where the stream started.
CursorOnTarget ==
  IF stack = << >> THEN pos = Home
  ELSE Relies(Top) => pos = CursorOf(Top)

\* Frame g is a call that the code frame f is in makes.
MayCall(f, g) ==
  /\ f.fn = "Class" /\ g.saved = CursorOf(f)
  /\ IF g.fn = "Class" THEN f.ph = "super_class"
     ELSE f.ph = "base_protocols" /\ f.open

Nested(s) ==
  /\ s # << >> => s[1].saved = Home
  /\ \A k \in DOMAIN s : s[k].open => s[k].back = s[k].at
  /\ \A k \in 1..(Len(s) - 1) : MayCall(s[k], s[k + 1])

\* Each call runs inside the code of the call below it that makes such calls,
\* and every position a ScopedStream will restore is where that code reads on:
\* the position get_or_create_protocol restores is the next pointer of the
\* list, not the one just read.
WellNested == Nested(stack)

\* The objects Class and Protocol pointers may sit in.
Holders ==
  {classes[k] : k \in DOMAIN classes} \cup {stack[k].obj : k \in DOMAIN stack}

\* Every Protocol* that the parser caches or a class adopts is a protocol the
\* metadata owns, and the cache gives for an address the protocol read there
\* (protocols_ is filled by process_protocols and read, two calls deeper, by
\* get_or_create_protocol).
PointersValid ==
  /\ \A addr \in DOMAIN cache :
       cache[addr] \in DOMAIN protocols /\ protocols[cache[addr]].at = addr
  /\ \A c \in Holders :
       \A k \in DOMAIN c.protocols : c.protocols[k] \in DOMAIN protocols

\* lookup finds, by the name of each object, that object or a later one of
\* the same name, and nothing else.
Indexes(lookup, objects) ==
  /\ \A name \in DOMAIN lookup :
       lookup[name] \in DOMAIN objects /\ objects[lookup[name]].name = name
  /\ \A k \in DOMAIN objects :
       objects[k].name \in DOMAIN lookup /\ lookup[objects[k].name] >= k

\* Metadata::get_class and get_protocol answer with the latest object of a
\* name, whichever of the three places that store one added it.
LookupLatest ==
  /\ Indexes(protocol_lookup, protocols)
  /\ Indexes(classes_lookup, classes)

\* Class::create calls itself for the isa without a limit of its own.  In an
\* image that follows the ABI it is in at most a class, its metaclass, the
\* root metaclass and one of their protocols.
NestingBounded == FollowsAbi(img) => Depth <= 4

\* Two references to one protocol give one Protocol object: what the name of
\* get_or_create_protocol says of it.
GetOrCreate ==
  \A c, d \in Holders : \A j \in DOMAIN c.protocols, k \in DOMAIN d.protocols :
    protocols[c.protocols[j]].at = protocols[d.protocols[k]].at
      => c.protocols[j] = d.protocols[k]

\* The parser reaches the end of both sections whatever it fails to read.
Termination == <>(stage = "done")

(***************************************************************************)
(* Refinement.  The entry a running call belongs to is not reported yet; a *)
(* class's Protocol* stands for the address the protocol was read at.      *)
(***************************************************************************)
Pending(sections, current) ==
  LET s == ObjCSection(sections)
      first == IF ~ current THEN IF stage \in {"protocols", "classes"}
                                 THEN 1 ELSE Len(s) + 1
               ELSE IF stack = << >> THEN idx ELSE idx - 1
  IN  [k \in 1..(Len(s) + 1 - first) |-> Decode(img, s[first + k - 1])]

ListedLeft ==
  IF stage = "protocols" THEN Pending(img.protolist, TRUE) ELSE << >>
TodoLeft == Pending(img.classlist, stage = "classes")

ByLocation(c) ==
  [c EXCEPT !.protocols = [k \in DOMAIN @ |-> protocols[@[k]].at]]

Promise == INSTANCE ObjCMetadata WITH
  listed <- ListedLeft, todo <- TodoLeft,
  classes <- [k \in DOMAIN classes |-> ByLocation(classes[k])]

\* parse() reports what ObjCMetadata promises: each readable entry once, in
\* order, with exactly the members its structures denote, whatever part of
\* this or of another entry cannot be read.
ImplementsMetadata == Promise!Spec
=============================================================================

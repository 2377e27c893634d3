------------------------------ MODULE ObjCImage ------------------------------
(***************************************************************************)
(* The Mach-O image as the Objective-C parser sees it: pointers to decode, *)
(* addresses to translate, typed cells to peek at and section tables.      *)
(*                                                                         *)
(* An image is a record                                                    *)
(*   imagebase, membase   Binary::imagebase(), memory_base_address()       *)
(*   mem                  what the segments map: address -> cell           *)
(*   protolist, classlist the __objc_protolist / __objc_classlist sections *)
(*                        of the segments that have one: segment -> Seq    *)
(*                                                                         *)
(* A cell stands for one C structure of Types.hpp (or one C string); its   *)
(* size is one address.  The elements of a list follow its header.  An     *)
(* address outside DOMAIN mem is in no segment: reading it fails.          *)
(***************************************************************************)
EXTENDS Integers, Sequences

CONSTANTS
  PtrSpan,  \* 2^51: the bits of a raw pointer that decode_ptr keeps
  Empty     \* the empty std::string

ASSUME PtrSpanAssumption == PtrSpan \in Nat \ {0}
ASSUME EmptyAssumption == Empty \in STRING

(***************************************************************************)
(* The structures of Types.hpp, a pointer or a count being a natural.  Of  *)
(* the flags, small is method_list_t::IS_SMALL and is_meta Class::META.    *)
(* The name and types of a small method are offsets from the method.       *)
(***************************************************************************)
Cells ==
  [kind: {"class"}, isa: Nat, bits: Nat, rw_ro: Nat]
  \cup [kind: {"class_ro"}, is_meta: BOOLEAN, name: Nat,
        base_method_list: Nat, base_protocols: Nat, ivars: Nat,
        base_properties: Nat]
  \cup [kind: {"protocol"}, mangled_name: Nat, instance_methods: Nat,
        class_methods: Nat, optional_instance_methods: Nat,
        optional_class_methods: Nat, instance_properties: Nat]
  \cup [kind: {"method_list"}, small: BOOLEAN, count: Nat]
  \cup [kind: {"protocol_list", "ivar_list", "property_list"}, count: Nat]
  \cup [kind: {"small_method"}, name: Int, types: Int]
  \cup [kind: {"big_method"}, name: Nat, types: Nat]
  \cup [kind: {"pointer"}, value: Nat]
  \cup [kind: {"ivar"}, name: Nat, type: Nat]
  \cup [kind: {"property"}, name: Nat, attributes: Nat]
  \cup [kind: {"string"}, value: STRING]

IsImage(img) ==
  /\ img.imagebase \in Nat /\ img.membase \in Nat
  /\ \A a \in DOMAIN img.mem : img.mem[a] \in Cells
  /\ \A seg \in DOMAIN img.protolist : img.protolist[seg] \in Seq(Nat)
  /\ \A seg \in DOMAIN img.classlist : img.classlist[seg] \in Seq(Nat)

(***************************************************************************)
(* Parser::decode_ptr.  The bits above PtrSpan hold pointer tags; an       *)
(* offset below the image base is rebased.                                 *)
(***************************************************************************)
Decode(img, ptr) ==
  LET decoded == ptr % PtrSpan
  IN  IF img.imagebase > 0 /\ decoded < img.imagebase
      THEN decoded + img.imagebase
      ELSE decoded

\* MachOStream::read_at: the virtual address a stream position stands for.
\* In an image taken from memory the position is a run-time address.
VirtualAddress(img, offset) ==
  IF img.membase > 0 /\ offset > img.membase
  THEN offset - img.membase + img.imagebase
  ELSE offset

\* BinaryStream::peek<T>(addr) succeeds, and the structure it yields.
Has(img, kind, addr) ==
  LET va == VirtualAddress(img, addr)
  IN  va \in DOMAIN img.mem /\ img.mem[va].kind = kind

Cell(img, addr) == img.mem[VirtualAddress(img, addr)]

\* peek_string_at into a std::string that stays empty when the read fails.
StringAt(img, addr) ==
  IF Has(img, "string", addr) THEN Cell(img, addr).value ELSE Empty

\* get_objc_section: the first of the three data segments that has one.
ObjCSection(sections) ==
  IF "__DATA" \in DOMAIN sections THEN sections["__DATA"]
  ELSE IF "__DATA_CONST" \in DOMAIN sections THEN sections["__DATA_CONST"]
  ELSE IF "__DATA_DIRTY" \in DOMAIN sections THEN sections["__DATA_DIRTY"]
  ELSE << >>

-----------------------------------------------------------------------------
(***************************************************************************)
(* The leaf structures.  Each constructor peeks at the cursor and leaves   *)
(* it where it is; a string that cannot be read stays empty.               *)
(***************************************************************************)
Methods == [name: STRING, mangled_type: STRING, is_instance: BOOLEAN]
IVars == [name: STRING, mangled_type: STRING]
Properties == [name: STRING, attributes: STRING]

MethodKind(small) == IF small THEN "small_method" ELSE "big_method"

(***************************************************************************)
(* Method::create at a readable position pos.  The name of a small method  *)
(* is a relative offset to a selector reference, itself a pointer to the   *)
(* string; its type string is at a relative offset.  A big method holds    *)
(* raw pointers.                                                           *)
(***************************************************************************)
MethodName(img, small, pos) ==
  LET raw == Cell(img, pos)
  IN  IF ~ small THEN StringAt(img, Decode(img, raw.name))
      ELSE IF Has(img, "pointer", pos + raw.name)
      THEN StringAt(img, Decode(img, Cell(img, pos + raw.name).value))
      ELSE Empty

MethodTypes(img, small, pos) ==
  LET raw == Cell(img, pos)
  IN  StringAt(img, IF small THEN pos + raw.types ELSE Decode(img, raw.types))

MethodAt(img, small, pos, is_instance) ==
  [name |-> MethodName(img, small, pos),
   mangled_type |-> MethodTypes(img, small, pos),
   is_instance |-> is_instance]

\* IVar::create at a readable position.
IVarAt(img, pos) ==
  [name |-> StringAt(img, Decode(img, Cell(img, pos).name)),
   mangled_type |-> StringAt(img, Decode(img, Cell(img, pos).type))]

\* Property::create at a readable position.
PropertyAt(img, pos) ==
  [name |-> StringAt(img, Decode(img, Cell(img, pos).name)),
   attributes |-> StringAt(img, Decode(img, Cell(img, pos).attributes))]

(***************************************************************************)
(* Class::create: the class_ro_t of the objc_class_t cls.  When the read   *)
(* fails in an image taken from memory the class may be realised, and the  *)
(* class_ro_t is the one its class_rw_t (cls.rw_ro) points to.  cls.bits   *)
(* has the flag bits of FAST_DATA_MASK removed.                            *)
(***************************************************************************)
ClassRoPtr(img, cls) ==
  IF ~ Has(img, "class_ro", Decode(img, cls.bits)) /\ img.membase > 0
  THEN cls.rw_ro
  ELSE Decode(img, cls.bits)

\* Class::create does not return nullptr: class, class_ro_t and name are read.
ClassReadable(img, addr) ==
  /\ Has(img, "class", addr)
  /\ LET ro == ClassRoPtr(img, Cell(img, addr))
     IN  /\ Has(img, "class_ro", ro)
         /\ Has(img, "string", Decode(img, Cell(img, ro).name))

-----------------------------------------------------------------------------
(***************************************************************************)
(* The images the models speak of are well typed: a pointer leads to a     *)
(* structure of the kind the parser reads there, or out of the image.      *)
(***************************************************************************)
Targets ==
  {<<"class", "isa", "class">>, <<"class", "bits", "class_ro">>,
   <<"class_ro", "name", "string">>,
   <<"class_ro", "base_method_list", "method_list">>,
   <<"class_ro", "base_protocols", "protocol_list">>,
   <<"class_ro", "ivars", "ivar_list">>,
   <<"class_ro", "base_properties", "property_list">>,
   <<"protocol", "mangled_name", "string">>,
   <<"protocol", "instance_methods", "method_list">>,
   <<"protocol", "class_methods", "method_list">>,
   <<"protocol", "optional_instance_methods", "method_list">>,
   <<"protocol", "optional_class_methods", "method_list">>,
   <<"protocol", "instance_properties", "property_list">>,
   <<"big_method", "name", "string">>, <<"big_method", "types", "string">>,
   <<"ivar", "name", "string">>, <<"ivar", "type", "string">>,
   <<"property", "name", "string">>, <<"property", "attributes", "string">>}

ElementKinds ==
  [protocol_list |-> "pointer", ivar_list |-> "ivar", property_list |-> "property"]

WellTyped(img) ==
  LET Leads(addr, kind) ==
        VirtualAddress(img, addr) \in DOMAIN img.mem => Has(img, kind, addr)
  IN  \A a \in DOMAIN img.mem : LET cell == img.mem[a] IN
        /\ \A t \in Targets :
             cell.kind = t[1] /\ cell[t[2]] # 0 => Leads(Decode(img, cell[t[2]]), t[3])
        /\ cell.kind = "method_list" =>
             \A k \in 1..cell.count : Leads(a + k, MethodKind(cell.small))
        /\ cell.kind \in DOMAIN ElementKinds =>
             \A k \in 1..cell.count : Leads(a + k, ElementKinds[cell.kind])

-----------------------------------------------------------------------------
(***************************************************************************)
(* What the Objective-C ABI says of the classes of an image: the isa of a  *)
(* class is its metaclass, that of a metaclass is the root metaclass, and  *)
(* the root metaclass is its own isa.  Any isa may lead out of the image.  *)
(***************************************************************************)
IsMeta(img, addr) == Cell(img, ClassRoPtr(img, Cell(img, addr))).is_meta
IsaOf(img, addr) == Decode(img, Cell(img, addr).isa)
HasIsa(img, addr) == Cell(img, addr).isa # 0 /\ ClassReadable(img, IsaOf(img, addr))

ClassFollowsAbi(img, addr) ==
  ClassReadable(img, addr) /\ HasIsa(img, addr) =>
    LET isa == IsaOf(img, addr)
    IN  /\ IsMeta(img, isa)
        /\ IsMeta(img, addr) => IsaOf(img, isa) = isa

\* The stream positions from which a cell can be read: its virtual address,
\* or its run-time address in an image taken from memory.
Positions(img) ==
  DOMAIN img.mem \cup {a - img.imagebase + img.membase : a \in DOMAIN img.mem}

FollowsAbi(img) == \A addr \in Positions(img) : ClassFollowsAbi(img, addr)
=============================================================================

---------------------------- MODULE MCObjCParser ----------------------------
(***************************************************************************)
(* Images for ObjCParser: two protocols P and Q, a class A with its        *)
(* metaclass and its root metaclass, and a class B.  The compiler gives A  *)
(* and its metaclass one base_protocols list.  Each image takes away at    *)
(* most MaxHoles of the structures in Holes: what a pointer or a section   *)
(* then leads to is in no segment.                                         *)
(***************************************************************************)
EXTENDS ObjCParser, FiniteSets, TLC

CONSTANT MaxHoles

Base == 100  \* imagebase
Slide == 400 \* of an image in memory: run-time address - virtual address

Tagged(addr) == addr + PtrSpan  \* a pointer with tag bits
Offset(addr) == addr - Base     \* a pointer stored as an offset from the base

Class(isa, bits) ==
  [kind |-> "class", isa |-> isa, bits |-> bits, rw_ro |-> 0]
ClassRo(is_meta, name, methods, refs, ivars, properties) ==
  [kind |-> "class_ro", is_meta |-> is_meta, name |-> name,
   base_method_list |-> methods, base_protocols |-> refs, ivars |-> ivars,
   base_properties |-> properties]
Protocol(name, inst, cls, optinst, optcls, properties) ==
  [kind |-> "protocol", mangled_name |-> name, instance_methods |-> inst,
   class_methods |-> cls, optional_instance_methods |-> optinst,
   optional_class_methods |-> optcls, instance_properties |-> properties]
MethodList(small, count) ==
  [kind |-> "method_list", small |-> small, count |-> count]
List(kind, count) == [kind |-> kind, count |-> count]
Str(s) == [kind |-> "string", value |-> s]
Pointer(addr) == [kind |-> "pointer", value |-> addr]
SmallMethod(name, types) ==
  [kind |-> "small_method", name |-> name, types |-> types]
BigMethod(name, types) ==
  [kind |-> "big_method", name |-> name, types |-> types]

\* name_B is the address of B's name: 192 is A's.
Memory(name_B) ==
  110 :> Protocol(Tagged(190), 120, 122, 0, 125, 127) @@
  111 :> Protocol(Offset(191), 0, 0, 125, 0, 0) @@
  120 :> MethodList(TRUE, 1) @@ 121 :> SmallMethod(75, 74) @@
  122 :> MethodList(FALSE, 2) @@
  123 :> BigMethod(194, 195) @@ 124 :> BigMethod(195, 194) @@
  125 :> MethodList(TRUE, 1) @@ 126 :> SmallMethod(70, 69) @@
  127 :> List("property_list", 2) @@
  128 :> [kind |-> "property", name |-> 194, attributes |-> 195] @@
  129 :> [kind |-> "property", name |-> 195, attributes |-> 195] @@
  130 :> Class(Tagged(131), 134) @@ 131 :> Class(132, Offset(135)) @@
  132 :> Class(Offset(132), 136) @@ 133 :> Class(0, 137) @@
  134 :> ClassRo(FALSE, 192, 140, 150, 160, 127) @@
  135 :> ClassRo(TRUE, 192, 143, 150, 0, 0) @@
  136 :> ClassRo(TRUE, 193, 145, 0, 0, 0) @@
  137 :> ClassRo(FALSE, name_B, 0, 155, 0, 0) @@
  140 :> MethodList(FALSE, 2) @@
  141 :> BigMethod(194, 195) @@ 142 :> BigMethod(195, 195) @@
  143 :> MethodList(TRUE, 1) @@ 144 :> SmallMethod(52, 51) @@
  145 :> MethodList(FALSE, 1) @@ 146 :> BigMethod(195, 194) @@
  150 :> List("protocol_list", 2) @@
  151 :> Pointer(110) @@ 152 :> Pointer(Tagged(111)) @@
  155 :> List("protocol_list", 1) @@ 156 :> Pointer(110) @@
  160 :> List("ivar_list", 2) @@
  161 :> [kind |-> "ivar", name |-> 194, type |-> 195] @@
  162 :> [kind |-> "ivar", name |-> 195, type |-> 195] @@
  190 :> Str("P") @@ 191 :> Str("Q") @@ 192 :> Str("A") @@ 193 :> Str("B") @@
  194 :> Str("m") @@ 195 :> Str("t") @@ 196 :> Pointer(194)

Holes == {110, 111, 121, 124, 128, 131, 132, 135, 141, 145, 150, 151, 161,
          190, 192, 196}

Without(mem, holes) == [a \in DOMAIN mem \ holes |-> mem[a]]

\* The sections.  Only the first segment that has one is read.
Protolists ==
  {("__DATA" :> << >>), ("__DATA_CONST" :> <<110>>),
   ("__DATA" :> <<Tagged(111), Offset(110)>> @@ "__DATA_DIRTY" :> <<110>>),
   ("__DATA_DIRTY" :> <<111, 999, 111>>)}

OnDisk(holes, protolist, name_B) ==
  [imagebase |-> Base, membase |-> 0, mem |-> Without(Memory(name_B), holes),
   protolist |-> protolist, classlist |-> ("__DATA" :> <<Tagged(130), 33>>)]

\* The same image taken from memory: pointers are run-time addresses, and
\* the bits of a realised class lead to its class_rw_t, in no segment.
PointerFields(kind) == {t[2] : t \in {t \in Targets : t[1] = kind}}
Slid(cell) ==
  IF cell.kind = "pointer" THEN [cell EXCEPT !.value = (@ % PtrSpan) + Slide]
  ELSE [f \in DOMAIN cell |->
          IF f \in PointerFields(cell.kind) /\ cell[f] # 0
          THEN Decode([imagebase |-> Base], cell[f]) + Slide ELSE cell[f]]
Realised(mem, cls) ==
  [mem EXCEPT ![cls].rw_ro = mem[cls].bits, ![cls].bits = 990]

InMemory(holes, protolist, realised) ==
  LET mem == [a \in DOMAIN Memory(193) |-> Slid(Memory(193)[a])]
  IN  [imagebase |-> Base, membase |-> Base + Slide,
       mem |-> Without(IF realised THEN Realised(mem, 130) ELSE mem, holes),
       protolist |-> [seg \in DOMAIN protolist |->
                       [k \in DOMAIN protolist[seg] |->
                          Decode([imagebase |-> Base], protolist[seg][k]) + Slide]],
       classlist |-> ("__DATA_CONST" :> <<530, 533>>)]

FewHoles == {holes \in SUBSET Holes : Cardinality(holes) <= MaxHoles}

MCImages ==
  {OnDisk(holes, protolist, name_B) :
     holes \in FewHoles, protolist \in Protolists, name_B \in {192, 193}}
  \cup {InMemory(holes, protolist, realised) :
          holes \in {{}} \cup {{a} : a \in Holes}, protolist \in Protolists,
          realised \in BOOLEAN}

ASSUME ImagesWellTyped == \A im \in MCImages : WellTyped(im)

\* Every image follows the ABI, so that NestingBounded says something.
ASSUME ImagesFollowAbi == \A im \in MCImages : FollowsAbi(im)
=============================================================================

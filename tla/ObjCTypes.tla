------------------------------ MODULE ObjCTypes ------------------------------
(***************************************************************************)
(* The types of Objective-C (TypesEncoding.hpp), which decode_type makes   *)
(* out of strings and the declaration generator turns into declarations.   *)
(* Names are sequences, the empty one for no name.  subs is what a         *)
(* PointerTy or an ArrayTy is made of, or the attributes of a StructTy or  *)
(* UnionTy; each has a name and a type.                                    *)
(***************************************************************************)
EXTENDS Sequences

Ty(type, name, dim, subs) ==
  [type |-> type, name |-> name, dim |-> dim, subs |-> subs]
Attr(name, type) == [name |-> name, type |-> type]

Null == Ty("nullptr", << >>, 0, << >>)
Leaf(c) == Ty(c, << >>, 0, << >>)
Object(name) == Ty("@", name, 0, << >>)
Block == Leaf("@?")
BitField(size) == Ty("b", << >>, size, << >>)
Pointer(sub) == Ty("pointer", << >>, 0, <<Attr(<< >>, sub)>>)
Array(dim, sub) == Ty("array", << >>, dim, <<Attr(<< >>, sub)>>)

\* Method::prototype, from the types of the method's string.
Prototype(types) ==
  IF types = << >> THEN [rtype |-> Null, params |-> << >>]
  ELSE [rtype |-> Head(types), params |-> Tail(types)]
=============================================================================

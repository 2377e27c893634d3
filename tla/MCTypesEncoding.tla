--------------------------- MODULE MCTypesEncoding ---------------------------
(***************************************************************************)
(* Strings for TypesEncoding: all short strings over three alphabets, most *)
(* of them malformed.  The first has pointers, structures and quoted       *)
(* names, the second digits, a specifier, objects, arrays, bit fields and  *)
(* a type that process() does not support ("D"), the third unions and     *)
(* blocks.                                                                 *)
(***************************************************************************)
EXTENDS TypesEncoding

CONSTANT MaxLength  \* of a string

Alphabets ==
  {{"i", "^", "?", Quote, "{", "=", "}"},
   {"4", "r", "@", "D", "[", "]", "b"},
   {"@", "?", Quote, "(", "=", ")"}}

AnyString ==
  UNION {[1..n -> alphabet] : n \in 0..MaxLength, alphabet \in Alphabets}
=============================================================================

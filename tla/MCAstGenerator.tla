--------------------------- MODULE MCAstGenerator ---------------------------
(***************************************************************************)
(* Metadata for AstGenerator: a protocol, a class that adopts it and a     *)
(* class that the members of both may refer to.                            *)
(***************************************************************************)
EXTENDS AstGenerator

\* get_qtype looks into pointers and arrays, not into records.
RECURSIVE Decodes(_)
Decodes(t) == t # Null /\ (t.type \in {"pointer", "array"} => Decodes(t.subs[1].type))
MemberDecodes(m) ==
  CASE m.kind = "method" ->
         m.types # << >> /\ \A k \in DOMAIN m.types : Decodes(m.types[k])
    [] m.kind = "ivar" -> Len(m.types) = 1 => Decodes(m.types[1])
    [] m.kind = "property" -> TRUE

\* to_decl ends.  It declares every object, unless a method without a
\* decodable return type, or an array of what could not be decoded, ends the
\* program first.
Termination ==
  <>(IF \A k \in DOMAIN Objects : \A j \in DOMAIN Members(Objects[k]) :
          MemberDecodes(Members(Objects[k])[j])
     THEN Len(printed) = Len(Objects) ELSE phase = "crashed")

-----------------------------------------------------------------------------
(***************************************************************************)
(* Objects.                                                                *)
(***************************************************************************)
Meth(name, instance, types) ==
  [kind |-> "method", name |-> name, instance |-> instance, types |-> types]
Ivar(name, encoded, types) ==
  [kind |-> "ivar", name |-> name, encoded |-> encoded, types |-> types]
Prop(name) == [kind |-> "property", name |-> name]

Obj0(kind, name) ==
  [kind |-> kind, name |-> name, protocols |-> << >>, optional |-> << >>,
   methods |-> << >>, ivars |-> << >>, properties |-> << >>]

Record(fn, name) == Ty(fn, name, 0, <<Attr(<< >>, Leaf("i"))>>)
Id == Object(<< >>)
S == Record("struct", <<"S">>)

Types ==
  {Leaf("i"), Leaf(":"), Leaf("?"), BitField(3), Block, Id, Object(<<"A">>),
   Object(<<"B">>), S, Record("union", <<"S">>), Pointer(S), Array(4, Pointer(Leaf("i"))),
   Pointer(Pointer(Object(<<"B">>)))}

\* Return type, receiver, selector and an argument; a method with no argument
\* has just a return type in some encodings.
Methods(types) ==
  {Meth(<<"m">>, instance, <<r, Id, Leaf(":"), p>>) :
     instance \in BOOLEAN, r \in types, p \in types}
  \cup {Meth(<<"m">>, TRUE, <<Leaf("v")>>), Meth(<<"m">>, TRUE, <<Leaf("v"), Leaf(":")>>)}

Fields(types) ==
  {<<Ivar(<<"x">>, TRUE, <<t>>), Ivar(<<"y">>, TRUE, <<u>>)>> : t \in types, u \in types}
  \cup {<<Ivar(<<"x">>, FALSE, << >>), Ivar(<<"y">>, FALSE, << >>)>>,
        <<Ivar(<<"x">>, TRUE, << >>), Ivar(<<"y">>, TRUE, <<Leaf("i"), Leaf("i")>>)>>}

PlainMethod == Meth(<<"n">>, TRUE, <<S, Id, Leaf(":")>>)
Protocol_(optional, required) ==
  [Obj0("protocol", <<"P">>) EXCEPT
     !.optional = optional, !.methods = required, !.properties = <<Prop(<<"p">>)>>]
ClassA(methods, ivars) ==
  [Obj0("interface", <<"A">>) EXCEPT
     !.protocols = <<<<"P">>, <<"Q">>>>, !.methods = methods, !.ivars = ivars,
     !.properties = <<Prop(<<"x">>)>>]
ClassB == [Obj0("interface", <<"B">>) EXCEPT
             !.methods = <<PlainMethod>>,
             !.ivars = <<Ivar(<<"a">>, TRUE, <<Object(<<"A">>)>>)>>]

Meta(protocols, classes) == [protocols |-> protocols, classes |-> classes]

\* Types that decode, and no ivar with the name of a type.
Decodable ==
  {Meta(<<Protocol_(<<m>>, <<PlainMethod>>)>>, <<ClassB>>) : m \in Methods(Types)}
  \cup {Meta(<< >>, <<ClassB, ClassA(<<m>>, << >>), ClassB>>) : m \in Methods(Types)}
  \cup {Meta(<<Protocol_(<< >>, <<PlainMethod>>)>>, <<ClassA(<<PlainMethod>>, f), ClassB>>) :
          f \in Fields(Types)}

\* A method whose types cannot be decoded, an array of such a type.
Undecodable ==
  {Meta(<< >>, <<ClassA(<<Meth(<<"m">>, TRUE, types)>>, << >>)>>) :
     types \in {<< >>, <<Array(4, Null)>>, <<Leaf("v"), Id, Leaf(":"), Array(4, Null)>>}}
  \cup {Meta(<< >>, <<ClassB, ClassA(<< >>, <<Ivar(<<"x">>, TRUE, <<Array(4, Null)>>)>>)>>)}

Generated == Decodable \cup Undecodable
=============================================================================

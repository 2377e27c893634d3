---------------------------- MODULE ObjCMetadata ----------------------------
(***************************************************************************)
(* What ObjC::Parser::parse promises: the metadata holds the readable      *)
(* entries of __objc_protolist, then those of __objc_classlist, in order,  *)
(* each one exactly the object its section entry denotes, whatever else in *)
(* the image cannot be read.  There is no cursor and no call stack here:   *)
(* ProtocolAt and ClassAt define an object from an image alone.            *)
(***************************************************************************)
EXTENDS ObjCImage

VARIABLES
  img,        \* the image
  listed,     \* the entries of __objc_protolist still to report
  todo,       \* the entries of __objc_classlist still to report
  protocols,  \* the protocols reported so far
  classes     \* the classes reported so far; a class refers to the protocols
              \* it adopts by their locations

vars == <<img, listed, todo, protocols, classes>>

(***************************************************************************)
(* Lists.  ptr is the raw pointer to the header, or 0.                     *)
(***************************************************************************)
ElementsOf(im, kind, ptr) ==
  LET head == Decode(im, ptr)
  IN  IF ptr # 0 /\ Has(im, kind, head)
      THEN [k \in 1..Cell(im, head).count |-> head + k]
      ELSE << >>

\* How many of s can be read before the first that cannot.
ReadableLength(im, kind, s) ==
  CHOOSE n \in 0..Len(s) :
    /\ \A k \in 1..n : Has(im, kind, s[k])
    /\ n < Len(s) => ~ Has(im, kind, s[n + 1])

ReadablePrefix(im, kind, s) == SubSeq(s, 1, ReadableLength(im, kind, s))

\* Those of the first n of s that can be read.
Among(im, kind, s) ==
  LET among[n \in 0..Len(s)] ==
        IF n = 0 THEN << >>
        ELSE IF Has(im, kind, s[n]) THEN Append(among[n - 1], s[n])
        ELSE among[n - 1]
  IN  among

Readable(im, kind, s) == Among(im, kind, s)[Len(s)]

IsSmall(im, ptr) == Cell(im, Decode(im, ptr)).small

MethodsAt(im, ptr, s, is_instance) ==
  [k \in DOMAIN s |-> MethodAt(im, IsSmall(im, ptr), s[k], is_instance)]

PropertiesOf(im, ptr) ==
  LET s == Readable(im, "property", ElementsOf(im, "property_list", ptr))
  IN  [k \in DOMAIN s |-> PropertyAt(im, s[k])]

(***************************************************************************)
(* Protocols.                                                              *)
(***************************************************************************)
ProtocolMethods(im, ptr, is_instance) ==
  LET all == ElementsOf(im, "method_list", ptr)
  IN  IF all = << >> THEN << >>
      ELSE MethodsAt(im, ptr, Readable(im, MethodKind(IsSmall(im, ptr)), all),
                     is_instance)

ProtocolAt(im, addr) ==
  LET raw == Cell(im, addr)
  IN  [name |-> StringAt(im, Decode(im, raw.mangled_name)), is_meta |-> FALSE,
       at |-> addr,
       methods |-> ProtocolMethods(im, raw.instance_methods, TRUE)
                   \o ProtocolMethods(im, raw.class_methods, FALSE),
       opt_methods |-> ProtocolMethods(im, raw.optional_instance_methods, TRUE)
                       \o ProtocolMethods(im, raw.optional_class_methods, FALSE),
       protocols |-> << >>, ivars |-> << >>,
       properties |-> PropertiesOf(im, raw.instance_properties)]

(***************************************************************************)
(* Classes.  The isa of a class is its metaclass and that of a root        *)
(* metaclass is itself.                                                    *)
(***************************************************************************)
Ro(im, addr) == Cell(im, ClassRoPtr(im, Cell(im, addr)))
HasSuper(im, addr) == HasIsa(im, addr) /\ IsaOf(im, addr) # addr

\* The class n steps along isa from addr, or the last one before that.
Along(im, addr) ==
  LET along[n \in Nat] ==
        IF n = 0 THEN addr
        ELSE IF HasSuper(im, along[n - 1]) THEN IsaOf(im, along[n - 1])
        ELSE along[n - 1]
  IN  along

\* How many steps there are, where there is a last one.
Steps(im, addr) ==
  LET steps[n \in Nat] ==
        IF HasSuper(im, Along(im, addr)[n]) THEN steps[n + 1] ELSE n
  IN  steps[0]

OwnMethods(im, addr) ==
  LET ptr == Ro(im, addr).base_method_list
      all == ElementsOf(im, "method_list", ptr)
  IN  IF all = << >> THEN << >>
      ELSE MethodsAt(im, ptr,
                     ReadablePrefix(im, MethodKind(IsSmall(im, ptr)), all),
                     ~ Ro(im, addr).is_meta)

\* What a class gets from the class that is its isa.
AsClassMethods(methods) ==
  [k \in DOMAIN methods |-> [methods[k] EXCEPT !.is_instance = FALSE]]

\* The class methods, those of the classes along isa, come first.
MethodsOf(im, addr) ==
  LET last == Steps(im, addr)
      methods[n \in 0..last] ==  \* of the class n steps before the last one
        LET own == OwnMethods(im, Along(im, addr)[last - n])
        IN  IF n = 0 THEN own ELSE AsClassMethods(methods[n - 1]) \o own
  IN  methods[last]

Adopts(im, addr) ==
  LET refs == ReadablePrefix(im, "pointer",
                ElementsOf(im, "protocol_list", Ro(im, addr).base_protocols))
  IN  Readable(im, "protocol",
               [k \in DOMAIN refs |-> Decode(im, Cell(im, refs[k]).value)])

IvarsOf(im, addr) ==
  LET s == Readable(im, "ivar", ElementsOf(im, "ivar_list", Ro(im, addr).ivars))
  IN  [k \in DOMAIN s |-> IVarAt(im, s[k])]

ClassAt(im, addr) ==
  [name |-> StringAt(im, Decode(im, Ro(im, addr).name)),
   is_meta |-> Ro(im, addr).is_meta,
   at |-> addr,
   methods |-> MethodsOf(im, addr),
   opt_methods |-> << >>,
   protocols |-> Adopts(im, addr),
   ivars |-> IvarsOf(im, addr),
   properties |-> PropertiesOf(im, Ro(im, addr).base_properties)]

\* What reading a class comes across: its own and its metaclasses' protocols.
Mentioned(im, addr) ==
  UNION {{Adopts(im, a)[k] : k \in DOMAIN Adopts(im, a)} :
           a \in {Along(im, addr)[n] : n \in 0..Steps(im, addr)}}

-----------------------------------------------------------------------------
Locations(im, sections) ==
  LET s == ObjCSection(sections)
  IN  [k \in DOMAIN s |-> Decode(im, s[k])]

Init ==
  /\ listed = Locations(img, img.protolist) /\ todo = Locations(img, img.classlist)
  /\ protocols = << >> /\ classes = << >>

Reported == {protocols[k].at : k \in DOMAIN protocols}

ReportProtocol ==
  /\ listed # << >>
  /\ listed' = Tail(listed)
  /\ protocols' = IF Has(img, "protocol", Head(listed))
                  THEN Append(protocols, ProtocolAt(img, Head(listed)))
                  ELSE protocols
  /\ UNCHANGED <<img, todo, classes>>

\* A protocol of the next class that __objc_protolist does not report.
ReportAdopted ==
  /\ listed = << >> /\ todo # << >> /\ ClassReadable(img, Head(todo))
  /\ \E addr \in Mentioned(img, Head(todo)) :
        /\ \A k \in DOMAIN Locations(img, img.protolist) :
             Locations(img, img.protolist)[k] # addr
        /\ protocols' = Append(protocols, ProtocolAt(img, addr))
  /\ UNCHANGED <<img, listed, todo, classes>>

ReportClass ==
  /\ listed = << >> /\ todo # << >>
  /\ todo' = Tail(todo)
  /\ IF ClassReadable(img, Head(todo))
     THEN /\ Mentioned(img, Head(todo)) \subseteq Reported
          /\ classes' = Append(classes, ClassAt(img, Head(todo)))
     ELSE UNCHANGED classes
  /\ UNCHANGED <<img, listed, protocols>>

Next == ReportProtocol \/ ReportAdopted \/ ReportClass

Spec == Init /\ [][Next]_vars
=============================================================================

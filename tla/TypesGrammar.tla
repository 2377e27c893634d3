---------------------------- MODULE TypesGrammar ----------------------------
(***************************************************************************)
(* What strings of types mean: the Objective-C grammar of type encodings,  *)
(* and what decode_type (TypesEncoding) makes of a string of the grammar.  *)
(*                                                                         *)
(* A phrase is the text of one type, nested at will:                       *)
(*   quals   its specifiers                                                *)
(*   text    the text behind them                                          *)
(*   type    the type that it stands for                                   *)
(*   bars    the characters that must not follow it, as they would be read *)
(*           as more of it                                                 *)
(*   fn      the construct, "none" for a type without elements             *)
(*   parts   the elements: from is where an element begins in text, name   *)
(*           and all, and at where its phrase does; name is a field's name *)
(* A signature is the string of an instance variable or a method: phrases  *)
(* with offsets before, between and behind them.                           *)
(***************************************************************************)
EXTENDS TypesEncoding

CONSTANTS
  Sizes,      \* sizes of arrays and bit fields: [text, value]
  Phrases,    \* the phrases, all that are part of another among them
  Signatures  \* the signatures: [text, parts, types]

-----------------------------------------------------------------------------
(***************************************************************************)
(* Texts in texts.                                                         *)
(***************************************************************************)
Has(t, k, c) == k \in DOMAIN t /\ t[k] = c

\* The text s is in t, from k on.
Occurs(s, t, k) == \A i \in DOMAIN s : Has(t, k + i - 1, s[i])

Quoted(name, t, k) ==
  /\ name \in Seq(STRING) /\ \A i \in DOMAIN name : name[i] # Quote
  /\ Has(t, k, Quote) /\ Occurs(name, t, k + 1) /\ Has(t, k + Len(name) + 1, Quote)

Width(p) == Len(p.quals) + Len(p.text)

\* The phrase p is in t, from k on.
Stands(p, t, k) ==
  /\ Occurs(p.quals, t, k) /\ Occurs(p.text, t, k + Len(p.quals))
  /\ \A c \in p.bars : ~ Has(t, k + Width(p), c)

-----------------------------------------------------------------------------
(***************************************************************************)
(* Phrases.                                                                *)
(***************************************************************************)
\* Characters that no type begins with.
Marks == {Quote, "?", "=", "]", "}", ")"}

IsSize(n) ==
  /\ n.text \in Seq(Digits) /\ n.text # << >>
  /\ Len(n.text) = 1 => n.value = DigitValue(n.text[1])

IsLeaf(p) == \E c \in Leaves : p.text = <<c>> /\ p.type = Leaf(c)
IsUnsupported(p) ==
  Len(p.text) = 1 /\ p.text[1] \notin Supported /\ p.type = Null
IsBitField(p) ==
  \E n \in Sizes :
    /\ p.text[1] = "b" /\ Len(p.text) = Len(n.text) + 1 /\ Occurs(n.text, p.text, 2)
    /\ p.type = BitField(n.value) /\ Digits \subseteq p.bars
IsBlock(p) == p.text = <<"@", "?">> /\ p.type = Block
IsId(p) == p.text = <<"@">> /\ p.type = Object(<< >>) /\ {Quote, "?"} \subseteq p.bars
IsNamedObject(p) ==
  /\ p.type = Object(p.type.name) /\ p.text[1] = "@"
  /\ Quoted(p.type.name, p.text, 2) /\ Len(p.text) = Len(p.type.name) + 3
IsVoidPointer(p) == p.text = <<"^", "?">> /\ p.type = Pointer(Leaf("v"))

IsSimple(p) ==
  /\ p.fn = "none"
  /\ \/ IsLeaf(p) \/ IsUnsupported(p) \/ IsBitField(p) \/ IsBlock(p) \/ IsId(p)
     \/ IsNamedObject(p) \/ IsVoidPointer(p)

\* Where the k-th part begins; behind the last one the construct closes.
Close(p) == IF p.fn = "pointer" THEN Len(p.text) + 1 ELSE Len(p.text)
From(p, k) == IF k \in DOMAIN p.parts THEN p.parts[k].from ELSE Close(p)

IsPart(part, t) ==
  /\ {part.from, part.at} \subseteq Nat \ {0}
  /\ \/ part.name = << >> /\ part.at = part.from
     \/ Quoted(part.name, t, part.from) /\ part.at = part.from + Len(part.name) + 2
  /\ Stands(part.phrase, t, part.at)

HasParts(p) ==
  /\ DOMAIN p.parts = 1..Len(p.parts) /\ Len(p.parts) \in Nat
  /\ p.parts \in Seq({p.parts[k] : k \in DOMAIN p.parts})
  /\ \A k \in DOMAIN p.parts :
       /\ IsPart(p.parts[k], p.text)
       /\ p.parts[k].at + Width(p.parts[k].phrase) = From(p, k + 1)

OnePart(p) == Len(p.parts) = 1 /\ p.parts[1].at = p.parts[1].from /\ p.parts[1].name = << >>
Attributes(p) ==
  [k \in DOMAIN p.parts |-> Attr(p.parts[k].name, p.parts[k].phrase.type)]

\* A pointer to an unsupported type is unsupported.
IsPointer(p) ==
  /\ p.fn = "pointer" /\ OnePart(p) /\ From(p, 1) = 2
  /\ LET sub == p.parts[1].phrase
     IN  /\ sub.bars \subseteq p.bars
         /\ p.type = IF sub.type = Null THEN Null ELSE Pointer(sub.type)
IsArray(p) ==
  /\ p.fn = "array" /\ OnePart(p)
  /\ \E n \in Sizes :
       /\ Occurs(n.text, p.text, 2) /\ From(p, 1) = Len(n.text) + 2
       /\ p.type = Ty("array", << >>, n.value, Attributes(p))

\* "?" stands for no name.  A structure may consist of its name.
IsRecord(p) ==
  LET name == p.type.name
      start == IF Has(p.text, 2, "?") THEN 3 ELSE 2
      stop == start + Len(name)
  IN  /\ p.fn \in {"struct", "union"} /\ p.type = Ty(p.fn, name, 0, Attributes(p))
      /\ name \in Seq(STRING) /\ Occurs(name, p.text, start)
      /\ \A i \in DOMAIN name : name[i] \notin {"=", Closing[p.fn]}
      /\ \/ Has(p.text, stop, "=") /\ From(p, 1) = stop + 1
         \/ p.fn = "struct" /\ p.parts = << >> /\ From(p, 1) = stop

IsConstruct(p) ==
  /\ IsPointer(p) \/ IsArray(p) \/ IsRecord(p)
  /\ HasParts(p) /\ p.text[1] = Opening[p.fn]
  /\ p.fn # "pointer" => Has(p.text, Close(p), Closing[p.fn])

IsPhrase(p) ==
  /\ p.quals \in Seq(Specifiers) /\ p.text \in Seq(STRING) /\ p.text # << >>
  /\ p.text[1] \notin Digits \cup Specifiers \cup Marks
  /\ IsSimple(p) \/ IsConstruct(p)

(***************************************************************************)
(* Signatures.                                                             *)
(***************************************************************************)
\* How many of the first k types are supported.
KeptOf(s, k) == Cardinality({j \in 1..k : s.parts[j].phrase.type # Null})

\* Where the k-th type begins, with the offset of the one before it.
Begins(s, k) ==
  IF k = 1 THEN 1 ELSE s.parts[k - 1].at + Width(s.parts[k - 1].phrase)

\* An unsupported type drops out, and nothing else.
IsSignature(s) ==
  LET n == Len(s.parts)
      At(k) == IF k \in DOMAIN s.parts THEN s.parts[k].at ELSE Len(s.text) + 1
  IN  /\ n \in Nat /\ DOMAIN s.parts = 1..n
      /\ \A k \in 1..n :
           /\ s.parts[k].at \in Nat \ {0}
           /\ Stands(s.parts[k].phrase, s.text, s.parts[k].at)
      /\ \A k \in 1..(n + 1) :
           Begins(s, k) <= At(k) /\ \A j \in Begins(s, k)..(At(k) - 1) : s.text[j] \in Digits
      /\ Len(s.types) = KeptOf(s, n)
      /\ s.types \in Seq({s.types[k] : k \in DOMAIN s.types})
      /\ \A k \in 1..n :
           s.parts[k].phrase.type # Null => s.types[KeptOf(s, k)] = s.parts[k].phrase.type

\* The phrases that a phrase or signature x is made of.
Inside(x) == {x.parts[k].phrase : k \in DOMAIN x.parts}

ASSUME SizesAssumption == \A n \in Sizes : IsSize(n)
ASSUME PhrasesAssumption == \A p \in Phrases : IsPhrase(p)
ASSUME SignaturesAssumption == \A s \in Signatures : IsSignature(s)
ASSUME InsideAssumption ==
  /\ (UNION {Inside(p) : p \in Phrases}) \subseteq Phrases
  /\ (UNION {Inside(s) : s \in Signatures}) \subseteq Phrases

\* The sizes that read_str_number reads right: it keeps the last digit only.
ShortSizes == \A n \in Sizes : Len(n.text) = 1

-----------------------------------------------------------------------------
VARIABLE meant  \* the types of the signature that encoded is the text of

SignatureInit ==
  \E s \in Signatures : encoded = s.text /\ meant = s.types /\ Init
SignatureNext == Next /\ UNCHANGED meant
SignatureSpec == SignatureInit /\ [][SignatureNext]_<<vars, meant>>

\* decode_type gives a well-formed string its types, at any nesting of
\* pointers, arrays, structures and unions and behind any specifiers, offsets
\* and names; a type that is not supported drops itself, and the pointers to
\* it, and nothing else.
RoundTrip == Done => types = meant
=============================================================================

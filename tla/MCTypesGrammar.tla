--------------------------- MODULE MCTypesGrammar ---------------------------
(***************************************************************************)
(* Phrases nested twice, and signatures made of them, for TypesGrammar.    *)
(***************************************************************************)
EXTENDS TypesGrammar, SequencesExt

Simple(text, type, bars) ==
  [quals |-> << >>, text |-> text, type |-> type, bars |-> bars,
   fn |-> "none", parts |-> << >>]
SelfPhrase(c) == Simple(<<c>>, Leaf(c), {})

\* "D" (long double) is a type that process() does not support.
Id == Simple(<<"@">>, Object(<< >>), {Quote, "?"})
Basic ==
  {SelfPhrase("i"), SelfPhrase(":"), SelfPhrase("#"), Id,
   Simple(<<"@", Quote, "X", Quote>>, Object(<<"X">>), {}),
   Simple(<<"@", "?">>, Block, {}),
   Simple(<<"^", "?">>, Pointer(Leaf("v")), {}),
   Simple(<<"D">>, Null, {})}
BitFields == {Simple(<<"b">> \o n.text, BitField(n.value), Digits) : n \in Sizes}

Field(p) == [name |-> << >>, phrase |-> p]
NamedField(p) == [name |-> <<"f">>, phrase |-> p]
Label(f) == IF f.name = << >> THEN << >> ELSE <<Quote>> \o f.name \o <<Quote>>
Written(f) == Label(f) \o f.phrase.quals \o f.phrase.text

\* The construct fn of the elements fs, behind head.
Construct(fn, head, fs, type, bars) ==
  LET Lay(p, f) ==
        [text |-> p.text \o Written(f),
         parts |-> Append(p.parts,
           [from |-> Len(p.text) + 1, name |-> f.name,
            at |-> Len(p.text) + Len(Label(f)) + 1, phrase |-> f.phrase])]
      laid == FoldLeft(Lay, [text |-> <<Opening[fn]>> \o head, parts |-> << >>], fs)
  IN  [quals |-> << >>, type |-> type, bars |-> bars, fn |-> fn, parts |-> laid.parts,
       text |-> laid.text \o IF fn = "pointer" THEN << >> ELSE <<Closing[fn]>>]

PointerTo(p) ==
  Construct("pointer", << >>, <<Field(p)>>,
            IF p.type = Null THEN Null ELSE Pointer(p.type), p.bars)
ConstOf(p) == [p EXCEPT !.quals = <<"r">> \o @]
ArrayOf(n, p) == Construct("array", n.text, <<Field(p)>>, Array(n.value, p.type), {})
RecordOf(fn, name, fs) ==
  Construct(fn, (IF name = << >> THEN <<"?">> ELSE name) \o <<"=">>, fs,
            Ty(fn, name, 0, [k \in DOMAIN fs |-> Attr(fs[k].name, fs[k].phrase.type)]), {})
Opaque == Construct("struct", <<"S">>, << >>, Ty("struct", <<"S">>, 0, << >>), {})

\* Records of one field, and of two that can follow each other: a quoted name
\* behind an id is the class of the id.
Records(ps, firsts, seconds) ==
  {RecordOf(fn, name, fs) :
     fn \in {"struct", "union"}, name \in {<< >>, <<"S">>},
     fs \in {<<Field(p)>> : p \in ps} \cup {<<NamedField(p)>> : p \in ps}
            \cup {<<Field(p), Field(q)>> : p \in firsts, q \in seconds}
            \cup {<<NamedField(p), NamedField(q)>> :
                    p \in {f \in firsts : Quote \notin f.bars}, q \in seconds}}

Compound(ps) ==
  {PointerTo(p) : p \in ps} \cup {ConstOf(p) : p \in ps}
  \cup {ArrayOf(n, p) : n \in Sizes, p \in ps}

Level0 == Basic \cup {Opaque}
Level1 == Compound(Level0)
          \cup Records(Level0 \cup BitFields, Level0 \cup BitFields, Basic)
Level2 == Compound(Level1) \cup Records(Level1, BitFields, Level1)
AllPhrases == BitFields \cup Level0 \cup Level1 \cup Level2

\* The string of an instance variable is one phrase, that of a method a
\* return type, the size of the frame and each parameter with its offset.
Slot(at, p) == [at |-> at, phrase |-> p]
One(p) ==
  [text |-> p.quals \o p.text, parts |-> <<Slot(1, p)>>,
   types |-> SelectSeq(<<p.type>>, LAMBDA t : t # Null)]
Method(r, p) ==
  LET second == Width(r) + 3
      third == second + Width(p) + 1
  IN  [text |-> r.quals \o r.text \o <<"1", "6">> \o p.quals \o p.text \o <<"0", ":", "8">>,
       parts |-> <<Slot(1, r), Slot(second, p), Slot(third, SelfPhrase(":"))>>,
       types |-> SelectSeq(<<r.type, p.type, Leaf(":")>>, LAMBDA t : t # Null)]

SomeSignatures ==
  {One(p) : p \in AllPhrases} \cup {Method(r, p) : r \in Level0 \cup Level1, p \in Level0}

Texts == {s.text : s \in SomeSignatures}

-----------------------------------------------------------------------------
OneDigit == {[text |-> <<"4">>, value |-> 4]}
TwoDigits == {[text |-> <<"1", "2">>, value |-> 12]}
=============================================================================

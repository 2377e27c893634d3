---------------------------- MODULE TypesEncoding ----------------------------
(***************************************************************************)
(* decode_type (TypesEncoding.cpp): the types that an Objective-C type     *)
(* string encodes, by recursive descent.                                   *)
(*                                                                         *)
(* encoded is the string and it the iterator that all functions share, a   *)
(* position of encoded or the one after its end.  process() calls itself   *)
(* for a pointer and, in a loop, for an array, a structure and a union:    *)
(* calls holds these unfinished calls, innermost last, and decode_type is  *)
(* at work below them.  A frame is                                         *)
(*   fn           the construct: "pointer", "array", "struct", "union"     *)
(*   at           where its opening character is                           *)
(*   name, dim    what was read of its head                                *)
(*   field        the name read for the element that is being processed    *)
(*   subs         the elements so far                                      *)
(***************************************************************************)
EXTENDS ObjCTypes, Integers, Sequences, FiniteSetsExt

CONSTANT Encodings  \* the strings that may be decoded

ASSUME EncodingsAssumption == Encodings \subseteq Seq(STRING)

VARIABLES
  encoded,  \* the string, a sequence of characters
  it,       \* the iterator
  calls,    \* the calls of process() that wait for a call of process()
  phase,    \* "call": process() starts; "return": it has returned ret;
            \* "loop": the innermost loop tests its condition
  ret,      \* what process() returned
  types     \* the types that decode_type has collected

vars == <<encoded, it, calls, phase, ret, types>>

-----------------------------------------------------------------------------
(***************************************************************************)
(* Characters.                                                             *)
(***************************************************************************)
Digits == {"0", "1", "2", "3", "4", "5", "6", "7", "8", "9"}
DigitsInOrder == <<"0", "1", "2", "3", "4", "5", "6", "7", "8", "9">>
DigitValue(c) == (CHOOSE k \in 1..10 : DigitsInOrder[k] = c) - 1

\* process_specifier
Specifiers == {"r", "n", "N", "o", "O", "R", "V", "A", "j"}

\* The types of one character.
Leaves == {"c", "i", "s", "l", "q", "C", "I", "S", "L", "Q", "f", "d", "B",
           "v", "*", "#", ":", "?"}

Quote == "\""
Opening == [pointer |-> "^", array |-> "[", struct |-> "{", union |-> "("]
Closing == [array |-> "]", struct |-> "}", union |-> ")"]

\* Mutant of NameEnds: a structure has an "=" too.
NameEndsAlike == [struct |-> {"="}, union |-> {"="}]

\* Where the name of a structure or union ends: only a structure may have no
\* "=".
NameEnds == [struct |-> {"=", "}"}, union |-> {"="}]

Supported ==
  Leaves \cup {"b", "@"} \cup {Opening[fn] : fn \in DOMAIN Opening}

-----------------------------------------------------------------------------
(***************************************************************************)
(* Reading.  Every comparison with *it follows one with std::end.          *)
(***************************************************************************)
AtEnd(k) == k > Len(encoded)
Is(k, c) == ~ AtEnd(k) /\ encoded[k] = c

\* while (it != end && *it is not one of stops) ++it
Until(k, stops) ==
  Min({j \in k..Len(encoded) : encoded[j] \in stops} \cup {Len(encoded) + 1})

\* while (it != end && *it is one of chars) ++it
SkipAll(k, chars) ==
  Until(k, {encoded[j] : j \in DOMAIN encoded} \ chars)

\* Mutant of NameAfter: the closing quote is skipped without looking.
NameAfterQuote(k) == IF Is(k, Quote) THEN Until(k + 1, {Quote}) + 1 ELSE k

\* read_opt_name from k: where it leaves the iterator, and the name.
NameAfter(k) ==
  IF ~ Is(k, Quote) THEN k
  ELSE LET close == Until(k + 1, {Quote})
       IN  IF AtEnd(close) THEN close ELSE close + 1
OptName(k) ==
  IF Is(k, Quote) THEN SubSeq(encoded, k + 1, Until(k + 1, {Quote}) - 1)
  ELSE << >>

\* read_str_number and strtoull, for the digits before position to: each
\* digit replaces the one before it.
NumberBefore(to) == DigitValue(encoded[to - 1])

\* process: the digits of an offset, then the specifiers, are skipped.
TypeAt == SkipAll(SkipAll(it, Digits), Specifiers)

Depth == Len(calls)
Top == calls[Depth]
Pop(s) == SubSeq(s, 1, Len(s) - 1)
SetTop(s, frame) == [s EXCEPT ![Len(s)] = frame]

Frame(fn, at, name, dim) ==
  [fn |-> fn, at |-> at, name |-> name, dim |-> dim,
   field |-> << >>, subs |-> << >>]

-----------------------------------------------------------------------------
Init ==
  /\ encoded \in Encodings
  /\ it = 1 /\ calls = << >> /\ phase = "loop" /\ ret = Null /\ types = << >>

(***************************************************************************)
(* process().                                                              *)
(***************************************************************************)
Process(c) == phase = "call" /\ Is(TypeAt, c)

\* process() returns type and leaves the iterator at k.
Return(k, type) ==
  /\ phase' = "return" /\ it' = k /\ ret' = type
  /\ UNCHANGED <<encoded, calls, types>>

\* process() goes on, at k, inside the construct of frame.
Enter(frame, k, next) ==
  /\ phase' = next /\ it' = k /\ calls' = Append(calls, frame)
  /\ UNCHANGED <<encoded, ret, types>>

ProcessEnd == phase = "call" /\ AtEnd(TypeAt) /\ Return(TypeAt, Null)

ProcessLeaf ==
  /\ phase = "call" /\ ~ AtEnd(TypeAt) /\ encoded[TypeAt] \in Leaves
  /\ Return(TypeAt + 1, Leaf(encoded[TypeAt]))

\* Mutant of ProcessUnsupported: the character is looked at, not read.
PeekUnsupported ==
  /\ phase = "call" /\ ~ AtEnd(TypeAt) /\ encoded[TypeAt] \notin Supported
  /\ Return(TypeAt, Null)

ProcessUnsupported ==
  /\ phase = "call" /\ ~ AtEnd(TypeAt) /\ encoded[TypeAt] \notin Supported
  /\ Return(TypeAt + 1, Null)

ProcessBitField ==
  /\ Process("b")
  /\ LET next == SkipAll(TypeAt + 1, Digits)
     IN  Return(next, IF next = TypeAt + 1 THEN Null
                      ELSE BitField(NumberBefore(next)))

ProcessBlock ==
  /\ Process("@") /\ Is(TypeAt + 1, "?")
  /\ Return(TypeAt + 2, Block)

ProcessObject ==
  /\ Process("@") /\ ~ Is(TypeAt + 1, "?")
  /\ Return(NameAfter(TypeAt + 1), Object(OptName(TypeAt + 1)))

ProcessVoidPointer ==
  /\ Process("^") /\ Is(TypeAt + 1, "?")
  /\ Return(TypeAt + 2, Pointer(Leaf("v")))

\* Mutant of ProcessPointer: the recursive call starts at the pointer again.
ProcessPointerAgain ==
  /\ Process("^") /\ ~ Is(TypeAt + 1, "?") /\ Depth < Len(encoded)
  /\ Enter(Frame("pointer", TypeAt, << >>, 0), TypeAt, "call")

ProcessPointer ==
  /\ Process("^") /\ ~ Is(TypeAt + 1, "?")
  /\ Enter(Frame("pointer", TypeAt, << >>, 0), TypeAt + 1, "call")

\* process_array
ProcessArray ==
  /\ Process("[")
  /\ LET next == SkipAll(TypeAt + 1, Digits)
     IN  IF next = TypeAt + 1 THEN Return(next, Null)
         ELSE Enter(Frame("array", TypeAt, << >>, NumberBefore(next)), next, "loop")

\* process_structure, process_union, called behind the opening character.  A
\* structure may end with its name ("^{MyStruct}"), both behind the "=".
ProcessRecord(fn) ==
  /\ Process(Opening[fn])
  /\ LET start == IF Is(TypeAt + 1, "?") THEN TypeAt + 2 ELSE TypeAt + 1
         stop == Until(start, NameEnds[fn])
         name == SubSeq(encoded, start, stop - 1)
         fields == IF Is(stop, "=") THEN stop + 1 ELSE stop
     IN  IF Is(fields, Closing[fn])
         THEN Return(fields + 1, Ty(fn, name, 0, << >>))
         ELSE Enter(Frame(fn, TypeAt, name, 0), fields, "loop")

ProcessStructure == ProcessRecord("struct")
ProcessUnion == ProcessRecord("union")

(***************************************************************************)
(* The loops over the elements of an array, a structure or a union.        *)
(***************************************************************************)
InLoop == phase = "loop" /\ calls # << >>

NextElement ==
  /\ InLoop /\ ~ AtEnd(it) /\ encoded[it] # Closing[Top.fn]
  /\ LET named == Top.fn # "array"
     IN  /\ it' = IF named THEN NameAfter(it) ELSE it
         /\ calls' = SetTop(calls,
              [Top EXCEPT !.field = IF named THEN OptName(it) ELSE << >>])
  /\ phase' = "call"
  /\ UNCHANGED <<encoded, ret, types>>

\* Mutant of TakeElement: the loop tries again what could not be decoded.
TakeOrRetry ==
  /\ phase = "return" /\ calls # << >> /\ Top.fn # "pointer"
  /\ LET sub == IF ret = Null THEN << >> ELSE <<Attr(Top.field, ret)>>
     IN  calls' = SetTop(calls,
           [Top EXCEPT !.subs = IF Top.fn = "array" THEN sub ELSE @ \o sub])
  /\ phase' = IF ret = Null THEN "call" ELSE "loop"
  /\ UNCHANGED <<encoded, it, ret, types>>

\* An array keeps the last of its elements, a structure or union them all,
\* those that could not be decoded too.
TakeElement ==
  /\ phase = "return" /\ calls # << >> /\ Top.fn # "pointer"
  /\ LET sub == <<Attr(Top.field, ret)>>
     IN  calls' = SetTop(calls,
           [Top EXCEPT !.subs = IF Top.fn = "array" THEN sub ELSE @ \o sub])
  /\ phase' = "loop"
  /\ UNCHANGED <<encoded, it, ret, types>>

\* The construct at the top ends, at k, with type.
Leave(k, type) ==
  /\ phase' = "return" /\ it' = k /\ ret' = type /\ calls' = Pop(calls)
  /\ UNCHANGED <<encoded, types>>

CloseElements ==
  /\ InLoop /\ Is(it, Closing[Top.fn])
  /\ Leave(it + 1,
       IF Top.fn = "array" /\ Top.subs = << >> THEN Array(Top.dim, Null)
       ELSE Ty(Top.fn, Top.name, Top.dim, Top.subs))

UnclosedElements == InLoop /\ AtEnd(it) /\ Leave(it, Null)

PointTo ==
  /\ phase = "return" /\ calls # << >> /\ Top.fn = "pointer"
  /\ Leave(it, IF ret = Null THEN Null ELSE Pointer(ret))

(***************************************************************************)
(* decode_type().                                                          *)
(***************************************************************************)
NextType ==
  /\ phase = "loop" /\ calls = << >> /\ ~ AtEnd(it)
  /\ it' = IF encoded[it] \in Specifiers THEN it + 1 ELSE it
  /\ phase' = "call"
  /\ UNCHANGED <<encoded, calls, ret, types>>

TakeType ==
  /\ phase = "return" /\ calls = << >>
  /\ types' = IF ret = Null THEN types ELSE Append(types, ret)
  /\ phase' = "loop"
  /\ UNCHANGED <<encoded, it, calls, ret>>

Done == phase = "loop" /\ calls = << >> /\ AtEnd(it)

Next ==
  \/ ProcessEnd \/ ProcessLeaf \/ ProcessUnsupported \/ ProcessBitField
  \/ ProcessBlock \/ ProcessObject \/ ProcessVoidPointer \/ ProcessPointer
  \/ ProcessArray \/ ProcessStructure \/ ProcessUnion
  \/ NextElement \/ TakeElement \/ CloseElements \/ UnclosedElements
  \/ PointTo \/ NextType \/ TakeType

\* decode_type is a sequential call that nothing blocks.
Spec == Init /\ [][Next]_vars /\ WF_vars(Next)

-----------------------------------------------------------------------------
(***************************************************************************)
(* Properties.                                                             *)
(***************************************************************************)
Fns == DOMAIN Opening

\* A call that waits is inside a construct that was opened before the
\* iterator, on the character that opens its kind.
FrameOK(f) ==
  /\ f = [fn |-> f.fn, at |-> f.at, name |-> f.name, dim |-> f.dim,
          field |-> f.field, subs |-> f.subs]
  /\ f.fn \in Fns /\ f.at \in 1..(it - 1) /\ encoded[f.at] = Opening[f.fn]

\* The types of the variables.  The iterator never passes the end, and only
\* the constructs that have a loop test the end of one.
TypeOK ==
  /\ encoded \in Seq(STRING) /\ it \in 1..(Len(encoded) + 1)
  /\ phase \in {"call", "return", "loop"}
  /\ calls \in Seq({calls[k] : k \in DOMAIN calls})
  /\ \A k \in DOMAIN calls : FrameOK(calls[k])
  /\ InLoop => Top.fn \in DOMAIN Closing

\* The recursion of process() is never deeper than the part of the string
\* that is read: each waiting call has read a character of its own, and the
\* calls nest as the constructs of the string do.
CallsNest ==
  /\ \A k \in DOMAIN calls : k <= calls[k].at
  /\ \A j, k \in DOMAIN calls : j < k => calls[j].at < calls[k].at

\* Every step of decode_type moves the iterator, ends a call or is one of
\* three on the way there: on any string, well formed or not, no loop of
\* decode_type, process_array, process_structure or process_union repeats
\* itself, and the work is linear in the string.
Rank ==
  IF phase = "call" THEN IF AtEnd(it) THEN 4 ELSE 1
  ELSE IF phase = "return" THEN 3 ELSE 2
Work == 6 * (Len(encoded) + 1 - it) + 2 * Depth + Rank
WorkDecreases == [][Work' < Work]_vars

\* decode_type reaches the end of every string.
Termination == <>Done
=============================================================================

----------------------------- MODULE CJsonText -----------------------------
(***************************************************************************)
(* c/bincoding/cJSON.c, the text: what cJSON_Print and                     *)
(* cJSON_PrintUnformatted write, how much memory they ask for it, and what *)
(* cJSON_Parse makes of it.                                                *)
(*                                                                         *)
(* A text is a sequence of tokens: the characters that mean something to   *)
(* the parser one by one, the literals and the numbers whole.  An item is  *)
(* a record, its children a sequence; the list they are linked in is the   *)
(* matter of CJsonItems.                                                   *)
(*                                                                         *)
(* A number is a double, told by what print_number looks at:               *)
(*   int     what it is as an int,                                         *)
(*   neg     whether it has a sign,                                        *)
(*   digits  how many digits it has before the point, none below 1,        *)
(*   places  the place of its first digit behind the point that is not 0,  *)
(*           0 for a whole number.                                         *)
(***************************************************************************)
EXTENDS Integers, Sequences, SequencesExt, TLC

CONSTANTS Ints,      \* the numbers that are an int
          Doubles,   \* the other numbers
          NoString   \* the null pointer, where a string may be

\* None of them is as near to INT_MAX, or to DBL_EPSILON, as to need its digits.
ASSUME DoublesAssumption == \A x \in Doubles : x.digits # 10 /\ x.places # 16

IntNumber(n) == [int |-> n, neg |-> n < 0, places |-> 0,
                 digits |-> Len(ToString(n)) - (IF n < 0 THEN 1 ELSE 0)]

Numbers == {IntNumber(n) : n \in Ints} \cup Doubles

\* The test for a whole number allows for DBL_EPSILON, 2.2e-16.
NearWhole(x) == x.places \notin 1 .. 16

\* The format print_number chooses: "%.0f" is for what is out of the range of int.
Format(x) == CASE NearWhole(x) /\ x.digits <= 10 -> "d"
               [] NearWhole(x) /\ x.digits > 10 -> "0f"
               [] ~ NearWhole(x) /\ (x.digits >= 10 \/ (x.digits = 0 /\ x.places > 6)) -> "e"
               [] OTHER -> "f"

\* The token of a number; the numbers that are written alike share it.
NumberToken(x) == IF Format(x) = "d" THEN ToString(x.int) ELSE ToString(x)

NumberTokens == {NumberToken(x) : x \in Numbers}

NumberOf == [token \in NumberTokens |-> CHOOSE x \in Numbers : NumberToken(x) = token]

\* The characters of a number's text: -d.dddddde+dd, or six digits behind the point.
Characters(x) ==
  LET sign == IF x.neg THEN 1 ELSE 0
  IN  CASE Format(x) = "d"  -> Len(ToString(x.int))
        [] Format(x) = "0f" -> sign + x.digits
        [] Format(x) = "e"  -> sign + 12
        [] Format(x) = "f"  -> sign + (IF x.digits = 0 THEN 1 ELSE x.digits) + 7

\* The number the text denotes: what "%e" and "%f" leave out is gone.
Written(x) == CASE Format(x) = "d" -> IntNumber(x.int)
                [] Format(x) = "e" /\ x.digits > 0 -> [x EXCEPT !.places = 0]
                [] Format(x) = "f" /\ x.places > 6 -> IntNumber(x.int)
                [] OTHER -> x

\* Characters: "n" is the letter, "newline" the control character; "bell" is one
\* of the control characters that have no escape.
Escape == [quote |-> "quote", bs |-> "bs", newline |-> "n"]

Escapable == DOMAIN Escape
Control   == {"newline", "bell"}
Blank     == {"newline", "tab", "space"}
Literals  == {"null", "true", "false"}

Width(token) == IF token \in Literals THEN Len(token)
                ELSE IF token \in NumberTokens THEN Characters(NumberOf[token]) ELSE 1

Size(text) == FoldLeft(LAMBDA n, token : n + Width(token), 0, text)

Item(type, num, str, kids) ==
  [type |-> type, name |-> NoString, num |-> num, str |-> str, kids |-> kids]

Zero == IntNumber(0)

Constant(type) == Item(type, Zero, NoString, <<>>)
Number(x)      == Item("number", x, NoString, <<>>)
String(s)      == Item("string", Zero, s, <<>>)
Array(kids)    == Item("array", Zero, NoString, kids)
Object(kids)   == Item("object", Zero, NoString, kids)

Named(name, item) == [item EXCEPT !.name = name]
-----------------------------------------------------------------------------
(* Printing.                                                               *)

\* Mutant: the backslash is written as it is.
PrintChar_OnlyQuotes(c) == CASE c \in Escapable \ {"bs"} -> <<"bs", Escape[c]>>
                             [] c \in Control \ Escapable -> <<>>
                             [] OTHER -> <<c>>

\* A control character without an escape is left out.
PrintChar(c) == CASE c \in Escapable -> <<"bs", Escape[c]>>
                  [] c \in Control \ Escapable -> <<>>
                  [] OTHER -> <<c>>

\* print_string_ptr; the null pointer gives an empty text, without quotes.
PrintString(s) ==
  IF s = NoString THEN <<>>
  ELSE <<"quote">> \o FlattenSeq([i \in DOMAIN s |-> PrintChar(s[i])]) \o <<"quote">>

StringMemory(s) ==
  IF s = NoString THEN 1
  ELSE FoldLeft(LAMBDA n, c : n + (IF c \in Control \cup Escapable THEN 2 ELSE 1), 3, s)

Tabs(n) == [i \in 1 .. n |-> "tab"]

RECURSIVE PrintValue(_, _, _)

PrintEntry(item, i, depth, fmt, array) ==
  LET value == PrintValue(item.kids[i], depth + 1, fmt)
      name  == PrintString(item.kids[i].name)
      last  == i = Len(item.kids)
      comma == IF last THEN <<>> ELSE <<",">>
  IN  IF array
      THEN value \o comma \o (IF fmt /\ ~ last THEN <<"space">> ELSE <<>>)
      ELSE IF fmt
      THEN Tabs(depth + 1) \o name \o <<":", "tab">> \o value \o comma \o <<"newline">>
      ELSE name \o <<":">> \o value \o comma

PrintEntries(item, depth, fmt, array) ==
  FlattenSeq([i \in DOMAIN item.kids |-> PrintEntry(item, i, depth, fmt, array)])

PrintValue(item, depth, fmt) ==
  CASE item.type \in Literals -> <<item.type>>
    [] item.type = "number"   -> <<NumberToken(item.num)>>
    [] item.type = "string"   -> PrintString(item.str)
    [] item.type = "array"    -> <<"[">> \o PrintEntries(item, depth, fmt, TRUE) \o <<"]">>
    [] item.type = "object"   -> <<"{">> \o (IF fmt THEN <<"newline">> ELSE <<>>)
                                 \o PrintEntries(item, depth, fmt, FALSE)
                                 \o (IF fmt THEN Tabs(depth) ELSE <<>>) \o <<"}">>

\* Mutant: a formatted object is not given room for the tabs of its members.
EntryMemory_NoTabs(fmt, depth, array) ==
  2 + (IF ~ fmt THEN 0 ELSE IF array THEN 1 ELSE 2)

EntryMemory(fmt, depth, array) ==
  2 + (IF ~ fmt THEN 0 ELSE IF array THEN 1 ELSE 2 + depth)

\* Mutant: the int branch's memory is asked for whatever the format is.
NumberMemory_AsInt(x) == 21

NumberMemory(x) == IF Format(x) = "d" THEN 21 ELSE 64

\* The memory print_value asks for the text of an item alone.
Memory(item, depth, fmt) ==
  LET array == item.type = "array"
      d == depth + 1
      entry(kid) == Size(PrintValue(kid, d, fmt)) + EntryMemory(fmt, d, array)
                    + (IF array THEN 0 ELSE Size(PrintString(kid.name)))
  IN  CASE item.type \in Literals -> Len(item.type) + 1
        [] item.type = "number"   -> NumberMemory(item.num)
        [] item.type = "string"   -> StringMemory(item.str)
        [] item.type \in {"array", "object"} ->
             FoldLeft(LAMBDA n, kid : n + entry(kid),
                      IF array THEN 5 ELSE 7 + (IF fmt THEN d ELSE 0), item.kids)

\* The text, and every text inside it, fits in the memory asked for it, with the
\* zero at its end.
RECURSIVE Fits(_, _, _)
Fits(item, depth, fmt) ==
  /\ Size(PrintValue(item, depth, fmt)) + 1 <= Memory(item, depth, fmt)
  /\ \A i \in DOMAIN item.kids :
       /\ Fits(item.kids[i], depth + 1, fmt)
       /\ Size(PrintString(item.kids[i].name)) + 1 <= StringMemory(item.kids[i].name)
-----------------------------------------------------------------------------
(* Parsing.  A parser returns the item and what is left of the text, or    *)
(* Failure; a text that has ended has the head "end".                      *)

Failure == [item |-> Constant("null"), rest |-> <<>>, ok |-> FALSE]

Parsed(item, rest) == [item |-> item, rest |-> rest, ok |-> TRUE]

At(s) == IF s = <<>> THEN "end" ELSE s[1]

After(s) == IF s = <<>> THEN <<>> ELSE Tail(s)

RECURSIVE Skip(_)
Skip(s) == IF At(s) \in Blank THEN Skip(Tail(s)) ELSE s

Unescape(c) == IF \E e \in Escapable : Escape[e] = c
               THEN CHOOSE e \in Escapable : Escape[e] = c ELSE c

\* The characters up to the closing quote, a control character or the end.
RECURSIVE ParseChars(_, _)
ParseChars(s, out) ==
  CASE At(s) = "quote" -> Parsed(String(out), Tail(s))
    [] At(s) = "bs" -> ParseChars(After(Tail(s)), Append(out, Unescape(At(Tail(s)))))
    [] At(s) \in Control \cup {"end"} -> Parsed(String(out), s)
    [] OTHER -> ParseChars(Tail(s), Append(out, s[1]))

ParseString(s) == IF At(s) = "quote" THEN ParseChars(Tail(s), <<>>) ELSE Failure

RECURSIVE ParseValue(_), ParseEntries(_, _, _)

\* The entries of an array or an object, from where an entry must be.
ParseEntries(s, array, kids) ==
  LET name  == ParseString(Skip(s))
      colon == Skip(name.rest)
      value == IF array THEN ParseValue(Skip(s))
               ELSE IF name.ok /\ At(colon) = ":" THEN ParseValue(Skip(Tail(colon)))
               ELSE Failure
      all   == Append(kids, IF array THEN value.item ELSE Named(name.item.str, value.item))
      next  == Skip(value.rest)
  IN  CASE ~ value.ok -> Failure
        [] value.ok /\ At(next) = "," -> ParseEntries(Tail(next), array, all)
        [] value.ok /\ At(next) = (IF array THEN "]" ELSE "}") ->
             Parsed(IF array THEN Array(all) ELSE Object(all), Tail(next))
        [] OTHER -> Failure

ParseValue(s) ==
  LET inside == Skip(After(s))
  IN  CASE At(s) \in Literals -> Parsed(Constant(At(s)), Tail(s))
        [] At(s) = "quote" -> ParseString(s)
        [] At(s) \in NumberTokens ->
             Parsed(Number(Written(NumberOf[At(s)])), Tail(s))
        [] At(s) = "[" -> IF At(inside) = "]" THEN Parsed(Array(<<>>), Tail(inside))
                                              ELSE ParseEntries(inside, TRUE, <<>>)
        [] At(s) = "{" -> IF At(inside) = "}" THEN Parsed(Object(<<>>), Tail(inside))
                                              ELSE ParseEntries(inside, FALSE, <<>>)
        [] OTHER -> Failure

Parse(text) == ParseValue(Skip(text))
-----------------------------------------------------------------------------
\* What printing keeps of a string and of an item, its number's digits included.
Kept(s) == IF s = NoString THEN s ELSE SelectSeq(s, LAMBDA c : c \notin Control \ Escapable)

RECURSIVE KeptItem(_)
KeptItem(item) == [item EXCEPT !.name = Kept(@), !.str = Kept(@), !.num = Written(@),
                               !.kids = [i \in DOMAIN @ |-> KeptItem(@[i])]]
=============================================================================

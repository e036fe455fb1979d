------------------------------ MODULE Profile ------------------------------
(***************************************************************************)
(* c/bincoding/bincoding.c: a profile, with a picture in base64, is        *)
(* encoded as a JSON document by one program and decoded and shown as HTML *)
(* by the same or by another one.  The value a get returns is not          *)
(* terminated by a zero, and its length is not used: cJSON_Parse goes on   *)
(* into whatever memory follows.                                           *)
(*                                                                         *)
(* Other callers of cJSON print any other item, formatted or not, and      *)
(* parse it again.                                                         *)
(***************************************************************************)
EXTENDS CJsonText

CONSTANTS Names,      \* the names of profiles, sequences of characters or NoString
          MaxAvatar,  \* bound: bytes of a picture
          Others,     \* items that are not profiles
          Tails       \* what can be in memory after a value

ASSUME AvatarAssumption == MaxAvatar \in Nat

\* An avatar is represented by its length; there is none of length 0.
Profiles == [name : Names, age : Ints, avatar : 0 .. MaxAvatar]
None     == [name |-> NoString, age |-> 0, avatar |-> 0]
Crash    == [None EXCEPT !.avatar = MaxAvatar + 1]

VARIABLES item,      \* history: what was printed last
          text,      \* its text; of a profile, the document 'profile-0001'
          profile,   \* history: the profile it encodes, None for another item
          back,      \* what that text was parsed to; an empty object until then
          shown      \* the profile last shown of it; None until then

vars == <<item, text, profile, back, shown>>

Init == /\ item = Object(<<>>) /\ text = <<>> /\ profile = None
        /\ back = Object(<<>>) /\ shown = None
-----------------------------------------------------------------------------
\* Three bytes become four characters, the last of them padding.
Base64(n) == LET len == 4 * ((n + 2) \div 3)
                 pad == (3 - (n % 3)) % 3
             IN  [i \in 1 .. len |-> IF i > len - pad THEN "=" ELSE "b"]

Unbase64(s) == (3 * Len(s)) \div 4 - Len(SelectSeq(s, LAMBDA c : c = "="))

Key == [name |-> <<"n", "k">>, age |-> <<"a", "k">>, avatar |-> <<"v", "k">>]

Member(present, key, value) == IF present THEN <<Named(key, value)>> ELSE <<>>

\* Mutant: only ages above zero are written.
EncodeProfile_Positive(p) ==
  Object(Member(p.name # NoString, Key.name, String(p.name))
         \o Member(p.age > 0, Key.age, Number(IntNumber(p.age)))
         \o Member(p.avatar > 0, Key.avatar, String(Base64(p.avatar))))

\* encode_profile: what is missing or zero is no member.
EncodeProfile(p) ==
  Object(Member(p.name # NoString, Key.name, String(p.name))
         \o Member(p.age # 0, Key.age, Number(IntNumber(p.age)))
         \o Member(p.avatar > 0, Key.avatar, String(Base64(p.avatar))))

\* cJSON_GetObjectItem, and the test of the type; otherwise is what stands for
\* a member that is missing or of another type.
Get(object, key, otherwise) ==
  LET found == SelectSeq(object.kids, LAMBDA kid : kid.name = key)
  IN  IF found # <<>> /\ Head(found).type = otherwise.type THEN Head(found) ELSE otherwise

DecodeProfile(object) ==
  [name   |-> Get(object, Key.name, String(NoString)).str,
   age    |-> Get(object, Key.age, Number(Zero)).num.int,
   avatar |-> Unbase64(Get(object, Key.avatar, String(<<>>)).str)]

\* The numbers of an item and of the items in it.
RECURSIVE NumbersOf(_)
NumbersOf(v) == {v.num} \cup UNION {NumbersOf(v.kids[i]) : i \in DOMAIN v.kids}

\* sprintf has no room for the text of a number: the program writes the text all the
\* same, or does not get so far.
Overruns(v) == \E x \in NumbersOf(v) : Characters(x) >= NumberMemory(x)

PrintItem(v, fmt) == /\ item' = v
                     /\ \/ text' = PrintValue(v, 0, fmt)
                        \/ Overruns(v) /\ text' = <<>>
                     /\ back' = Object(<<>>)
                     /\ shown' = None

\* A store that fails ends the program and leaves the document.
StoreProfile(p) == PrintItem(EncodeProfile(p), FALSE) /\ profile' = p

PrintOther(v, fmt) == PrintItem(v, fmt) /\ profile' = None

\* get_callback; a document that is missing ends the program.  What decode_profile
\* returns is used without being looked at: the program crashes when it is null.
ShowProfile(tail) ==
  LET json == Parse(text \o tail)
  IN  /\ profile # None
      /\ back' = json.item
      /\ shown' = IF json.ok THEN DecodeProfile(json.item) ELSE Crash
      /\ UNCHANGED <<item, text, profile>>

ParseOther == /\ text # <<>> /\ profile = None
              /\ back' = Parse(text).item
              /\ UNCHANGED <<item, text, profile, shown>>

Next == \/ \E p \in Profiles : StoreProfile(p)
        \/ \E tail \in Tails : ShowProfile(tail)
        \/ \E v \in Others, fmt \in BOOLEAN : PrintOther(v, fmt)
        \/ ParseOther

Spec == Init /\ [][Next]_vars
-----------------------------------------------------------------------------
(* Properties.                                                             *)

\* Every text and every text inside it, with the zero at its end, fits in the
\* memory print_array, print_object, print_string_ptr and print_number ask for,
\* with one exception, and then it does not: "%.0f" writes all the digits of a
\* whole number out of the range of int, and 64 bytes hold 63 of them, the sign
\* included (lines 271-274).
TextFitsItsMemory ==
  \A fmt \in BOOLEAN :
    Fits(item, 0, fmt) <=>
      \A x \in NumbersOf(item) : x.places = 0 => x.digits + (IF x.neg THEN 1 ELSE 0) <= 63

\* What is printed is parsed to what it was, formatted or not, but for control
\* characters that have no escape, which print_string_ptr leaves out, and for the
\* digits that print_number leaves out.
ParsesWhatItPrints == back \in {Object(<<>>), KeptItem(item)}

\* The page shows the profile that was stored last, its picture to the byte,
\* whatever is in memory after the value that get_callback parses: what
\* encode_profile has made can always be parsed.
ShowsWhatWasStored == shown \in {None, [profile EXCEPT !.name = Kept(@)]}
=============================================================================

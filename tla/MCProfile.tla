----------------------------- MODULE MCProfile -----------------------------
(***************************************************************************)
(* The instance of Profile that is model-checked: names with every kind of *)
(* character, numbers of every format and length, items nested three deep. *)
(***************************************************************************)
EXTENDS Profile

SomeInts == {-2147483647 - 1, -1, 0, 7}

\* An int is that of the x86: the smallest for a number that is out of range.
Double(int, neg, digits, places) ==
  [int |-> int, neg |-> neg, digits |-> digits, places |-> places]

IntMin == -2147483647 - 1

\* 0.5, -999999999.00000002, 5e-7, 1e-17, 123456789012.5; whole numbers of 12, 63
\* and 309 digits, and a negative one of 63.
SomeDoubles ==
  {Double(0, FALSE, 0, 1), Double(-999999999, TRUE, 9, 8), Double(0, FALSE, 0, 7),
   Double(0, FALSE, 0, 17), Double(IntMin, FALSE, 12, 1), Double(IntMin, FALSE, 12, 0),
   Double(IntMin, FALSE, 63, 0), Double(IntMin, TRUE, 63, 0), Double(IntMin, FALSE, 309, 0)}

SomeNames == {NoString, <<>>, <<"n">>, <<"bs", "n">>, <<"quote", "bell", "newline">>}

Strings == {<<>>, <<"bs">>, <<"quote", "n", "bell">>}

Scalars == {Constant(t) : t \in Literals} \cup {Number(x) : x \in Numbers}
           \cup {String(s) : s \in Strings}

Pair(a, b) == {Array(<<a, b>>), Object(<<Named(<<>>, a), Named(<<"quote">>, b)>>)}

Flat == UNION {Pair(a, b) : a \in {Number(IntNumber(-1)), String(<<"bs">>)}, b \in Scalars}
        \cup {Array(<<>>), Object(<<>>)} \cup {Array(<<a>>) : a \in Scalars}

SomeItems == Scalars \cup Flat \cup {Array(<<a>>) : a \in Flat}
             \cup UNION {Pair(a, Object(<<Named(<<"n">>, a)>>)) : a \in Flat}

\* The end of an earlier, longer document, and what is not JSON.
SomeTails == {<<>>, <<"quote", "}">>, <<",", "quote">>, <<"bell">>, <<"7", "]">>}
=============================================================================

----------------------------- MODULE JsonGrammar -----------------------------
(***************************************************************************)
(* The grammar the parser of LeptJson is meant for: JSON without objects   *)
(* and \u, and with no blank in a string.  A language is a set of texts.   *)
(***************************************************************************)
EXTENDS LeptJson

\* The '\0' is none of the characters that the parser looks for.
ASSUME EndAssumption ==
  End \notin {" ", "^", "[", "]", ",", "true", "tru", "quote", "backslash", "/",
              "-", "0", "1", ".", "e"}

Texts == Seq(Symbols)

\* A text of A followed by one of B.
A ** B ==
  {s \in Texts : \E n \in 0..Len(s) :
     SubSeq(s, 1, n) \in A /\ SubSeq(s, n + 1, Len(s)) \in B}

\* One of A, the character c, and one of B.
Separated(A, c, B) ==
  {s \in Texts : \E n \in 1..Len(s) :
     s[n] = c /\ SubSeq(s, 1, n - 1) \in A /\ SubSeq(s, n + 1, Len(s)) \in B}

\* One of A between the characters c and d.
Enclosed(c, A, d) ==
  {s \in Texts :
     /\ Len(s) > 1 /\ s[1] = c /\ s[Len(s)] = d
     /\ SubSeq(s, 2, Len(s) - 1) \in A}

Letters(S) == {<<c>> : c \in S}
Letter(c) == Letters({c})
Maybe(A) == {<<>>} \cup A

Blank == Seq({" "})

Padded(A) ==
  {s \in Texts : \E i \in 0..Len(s), j \in 0..Len(s) :
     /\ SubSeq(s, 1, i) \in Blank /\ SubSeq(s, j + 1, Len(s)) \in Blank
     /\ i <= j /\ SubSeq(s, i + 1, j) \in A}

Numeral == Letters(Digits) ** Seq(Digits)
Whole == Letter("0") \cup (Letter("1") ** Seq(Digits))
Fraction == Letter(".") ** Numeral
Exponent == Letter("e") ** (Maybe(Letter("-")) ** Numeral)
Number == Maybe(Letter("-")) ** (Whole ** (Maybe(Fraction) ** Maybe(Exponent)))

Plain == Symbols \ (Low \cup {"quote", "backslash"})
Char == Letters(Plain) \cup (Letter("backslash") ** Letters(Escapes))

\* The texts of fewer than n characters.
Chars[n \in Nat] == IF n = 0 THEN {} ELSE {<<>>} \cup (Char ** Chars[n - 1])

Body == {s \in Texts : s \in Chars[Len(s) + 1]}

\* What an array of these lists, and the list of one value more.
Value(lists) ==
  {<<"true">>} \cup Enclosed("[", Blank \cup lists, "]")
    \cup Enclosed("quote", Body, "quote") \cup Number

Lists(lists) ==
  LET element == Padded(Value(lists)) IN element \cup Separated(element, ",", lists)

\* The lists of values that take fewer than n steps to write down.
Listed[n \in Nat] == IF n = 0 THEN {} ELSE Lists(Listed[n - 1])

List == {s \in Texts : s \in Listed[Len(s) + 1]}

Json == Padded(Value(List))

\* A way to finish any beginning of a text, if there is one.
Endings ==
  Texts \cap {end \o [i \in 1..n |-> "]"] :
                end \in {<<>>, <<"1">>, <<"quote">>, <<"quote", "quote">>}, n \in 0..Len(text)}

\* What has been read is not in the grammar, and neither is it with an ending.
Hopeless ==
  IF json = End THEN text \notin Json ELSE \A end \in Endings : text \o end \notin Json

\* The parser accepts a text exactly if it is in the grammar.  It rejects only what
\* no further text could have made right (leptjson.c:57, 110, 285, 353), and then
\* the value is null (test.c:33, 60).  lept_parse accepts a value and complains of
\* what comes after it if that is not the end.
AcceptsJson ==
  pc = "done" =>
    CASE ret = "OK" -> text \in Json
      [] ret = "ROOT_NOT_SINGULAR" -> Front(text) \in Json /\ Hopeless
      [] OTHER -> v = Null /\ Hopeless
=============================================================================

----------------------------- MODULE MCLeptJson -----------------------------
(***************************************************************************)
(* The parser of LeptJson compared with its grammar, and the values it     *)
(* builds with the trees that the texts stand for.                         *)
(***************************************************************************)
EXTENDS JsonGrammar

RECURSIVE Trim(_)
Trim(s) ==
  IF s # <<>> /\ Head(s) = " " THEN Trim(Tail(s))
  ELSE IF s # <<>> /\ Last(s) = " " THEN Trim(Front(s)) ELSE s

\* The values a text stands for, as trees of types: none, or one.
RECURSIVE Trees(_), Elements(_)
Trees(written) ==
  LET s == Trim(written) IN
  IF s = <<"true">> THEN {<<"true">>}
  ELSE IF s \in Number THEN {<<"number">>}
  ELSE IF s \in Enclosed("quote", Body, "quote") THEN {<<"string">>}
  ELSE IF s \in Enclosed("[", Texts, "]")
  THEN LET in == Trim(Front(Tail(s))) IN
       {<<"array">> \o l : l \in IF in = <<>> THEN {<<>>} ELSE Elements(in)}
  ELSE {}

Elements(s) ==
  {<<t>> : t \in Trees(s)}
  \cup UNION {{<<t>> \o l : t \in Trees(SubSeq(s, 1, i - 1)),
                            l \in Elements(SubSeq(s, i + 1, Len(s)))} :
              i \in {j \in DOMAIN s : s[j] = ","}}

RECURSIVE Shape(_)
Shape(x) ==
  <<x.type>> \o [i \in DOMAIN x.elems |-> Shape(x.elems[i])]

\* The value that lept_parse builds has the text's elements in their order, at
\* every depth, and the text has no other reading (leptjson.c:388).
BuildsTree ==
  pc = "done" /\ ret \in {"OK", "ROOT_NOT_SINGULAR"} =>
    Trees(IF ret = "OK" THEN text ELSE Front(text)) = {Shape(v)}
=============================================================================

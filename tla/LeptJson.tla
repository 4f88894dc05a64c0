------------------------------- MODULE LeptJson -------------------------------
(***************************************************************************)
(* The JSON parser of src/leptjson/leptjson.c and the calls on a value.    *)
(*                                                                         *)
(* The parser reads its text one character at a time and never goes back,  *)
(* so the text is made up as it is read: json is the character at c->json. *)
(* The calls of lept_parse_array in progress are the frames, each with the *)
(* number of elements it has pushed on the context's stack.                *)
(*                                                                         *)
(* Characters stand for their kind: "1" for 1 to 9, "c" for a letter, "^"  *)
(* for one below the space, " " for all white space, "e" for e and E.      *)
(* "true" is a whole literal and "tru" one that goes wrong after its first *)
(* letter; in a string each counts as one character, and the t after a     *)
(* backslash as an escape.  '{' is like any letter: nothing calls          *)
(* lept_parse_object.                                                      *)
(*                                                                         *)
(* A value keeps the set of heap blocks it points at, its elements'        *)
(* included.  lept_free leaves them there: malloc returns no block that a  *)
(* value still points at, so that a second free of it shows.               *)
(***************************************************************************)
EXTENDS Integers, Sequences, SequencesExt

CONSTANTS Symbols,       \* the characters a text is made of
          End,           \* model value: the '\0' that ends it
          MaxAny, Later, \* bound: after MaxAny characters, only those of Later
          MaxLen,        \* bound: characters of a text
          MaxParses,     \* bound: calls of lept_parse
          ValueSize,     \* sizeof(lept_value)
          StackSize,     \* LEPT_PARSE_STACK_SIZE
          Garbage        \* what an uninitialized size_t holds

ASSUME LeptJsonAssumption ==
  /\ End \notin Symbols /\ Later \subseteq Symbols
  /\ MaxAny \in Nat /\ MaxLen \in Nat /\ MaxParses \in Nat
  /\ ValueSize \in Nat \ {0} /\ StackSize \in Nat \ {0, 1}
  /\ Garbage \subseteq Nat /\ Garbage # {}

VARIABLES pc, json,
          text,          \* history: the text so far
          frames,        \* the arrays being parsed: their element counts
          top, size,     \* of the context
          stack, items,  \* its stack's block, 0 for NULL, and the values there
          head,          \* parse_string_raw's head
          e,             \* the value being returned
          ret,
          v,             \* the caller's value
          status,        \* of v: "raw" before the first lept_init, then "set"
          freed,         \* history: the blocks of v that lept_free has freed
          live,          \* the heap blocks allocated
          before,        \* history: live when lept_parse was called
          parses         \* calls of lept_parse so far

context == <<frames, top, size, stack, items, head>>
input == <<json, text>>
value == <<v, status, freed>>
vars == <<pc, input, context, e, ret, value, live, before, parses>>

-----------------------------------------------------------------------------
Scalar(type) == [type |-> type, blocks |-> {}, elems |-> <<>>, len |-> 0]
Null == Scalar("null")

\* malloc: a block that is not in use.
Fresh(used) == CHOOSE b \in 1..(Cardinality(used) + 1) : b \notin used

OwnedBy(values) == UNION {values[i].blocks : i \in DOMAIN values}

Digits == {"0", "1"}
Low == {" ", "^"}
Escapes == {"quote", "backslash", "/", "true", "tru"}

\* lept_parse_number: from a state, over a character, to the next.
NumberGoes ==
  {<<"number", "-", "minus">>, <<"zero", ".", "point">>, <<"int", ".", "point">>,
   <<"exp", "-", "exp sign">>}
  \cup {"number", "minus"} \X {"0"} \X {"zero"}
  \cup {"number", "minus"} \X {"1"} \X {"int"}
  \cup {"zero", "int", "frac"} \X {"e"} \X {"exp"}
  \cup {"int"} \X Digits \X {"int"}
  \cup {"point", "frac"} \X Digits \X {"frac"}
  \cup {"exp", "exp sign", "exp digits"} \X Digits \X {"exp digits"}

NumberStates == {g[1] : g \in NumberGoes}
NumberEnds == {"zero", "int", "frac", "exp digits"}

Init ==
  /\ pc = "idle" /\ json = End /\ text = <<>>
  /\ frames = <<>> /\ top = 0 /\ size = 0 /\ stack = 0 /\ items = <<>> /\ head = 0
  /\ e = Null /\ ret = "OK"
  /\ v = Null /\ status = "raw" /\ freed = {}
  /\ live = {} /\ before = {} /\ parses = 0

-----------------------------------------------------------------------------
\* c->json++: the next character of the text, or its end.
Read(ch) ==
  /\ json' = ch
  /\ text' = IF ch = End THEN text ELSE Append(text, ch)

Offered ==
  IF Len(text) < MaxAny THEN Symbols ELSE IF Len(text) < MaxLen THEN Later ELSE {}

Advance == \E ch \in Offered \cup {End} : Read(ch)

\* The size after the loop that grows it by half.
Grown(need) ==
  LET from == IF size = 0 THEN StackSize ELSE size
      next[n \in Nat] == IF top + need >= n THEN next[n + n \div 2] ELSE n
  IN  IF top + need >= size THEN next[from] ELSE size

\* lept_contex_push of `need' bytes: the first one allocates the stack.
Push(need) ==
  /\ size' = Grown(need)
  /\ top' = top + need
  /\ stack' = IF stack = 0 THEN Fresh(live) ELSE stack
  /\ live' = live \cup {stack'}

\* lept_contex_pop.
Popped(bytes) == top - bytes

\* A return other than LEPT_PARSE_OK.  The arrays around it return at once, with
\* the value of a comparison: 1, which is LEPT_PARSE_EXPECT_VALUE
\* (leptjson.c:371).
Fail(code, inside) ==
  /\ pc' = "done"
  /\ ret' = IF inside = <<>> THEN code ELSE "EXPECT_VALUE"
  /\ frames' = <<>>

Parse ==
  /\ pc = "idle" /\ parses < MaxParses
  /\ parses' = parses + 1
  /\ pc' = "value"
  /\ \E ch \in Symbols \cup {End} :
       json' = ch /\ text' = IF ch = End THEN <<>> ELSE <<ch>>
  /\ frames' = <<>> /\ top' = 0 /\ size' = 0 /\ stack' = 0
  /\ items' = <<>> /\ head' = 0
  /\ v' = Null /\ status' = "set" /\ freed' = {} /\ e' = Null /\ ret' = "OK"
  /\ before' = live
  /\ UNCHANGED live

SkipWhitespace ==
  /\ pc \in {"value", "open", "after", "trailing"}
  /\ json = " "
  /\ Advance
  /\ UNCHANGED <<pc, context, e, ret, value, live, before, parses>>

\* lept_parse_value, and lept_parse_literal, which looks at the letters before
\* it moves over them.
ParseLiteral ==
  /\ pc = "value" /\ json = "true"
  /\ e' = Scalar("true")
  /\ pc' = "return"
  /\ Advance
  /\ UNCHANGED <<context, ret, value, live, before, parses>>

ParseNothing ==
  /\ pc = "value"
  /\ \/ json = "tru" /\ Fail("INVALID_VALUE", frames)
     \/ json = End /\ Fail("EXPECT_VALUE", frames)
  /\ UNCHANGED <<input, top, size, stack, items, head, e, value, live, before, parses>>

ParseNumber ==
  /\ \/ pc = "value" /\ json \notin {" ", "true", "tru", "quote", "[", End}
     \/ pc \in NumberStates \ {"number"}
  /\ LET state == IF pc = "value" THEN "number" ELSE pc IN
     \/ /\ \E g \in NumberGoes : g[1] = state /\ g[2] = json /\ pc' = g[3]
        /\ Advance
        /\ UNCHANGED <<frames, e, ret>>
     \/ /\ \A g \in NumberGoes : ~(g[1] = state /\ g[2] = json)
        /\ IF state \in NumberEnds
           THEN e' = Scalar("number") /\ pc' = "return" /\ UNCHANGED <<frames, ret>>
           ELSE Fail("INVALID_VALUE", frames) /\ UNCHANGED e
        /\ UNCHANGED input
  /\ UNCHANGED <<top, size, stack, items, head, value, live, before, parses>>

-----------------------------------------------------------------------------
StringBegins ==
  /\ pc = "value" /\ json = "quote"
  /\ head' = top
  /\ pc' = "string"
  /\ Advance
  /\ UNCHANGED <<frames, top, size, stack, items, e, ret, value, live, before, parses>>

StringChar ==
  /\ pc = "string" /\ json \notin Low \cup {"quote", "backslash", End}
  /\ Push(1)
  /\ Advance
  /\ UNCHANGED <<pc, frames, items, head, e, ret, value, before, parses>>

StringEscape ==
  /\ pc = "string" /\ json = "backslash"
  /\ pc' = "escape"
  /\ Advance
  /\ UNCHANGED <<context, e, ret, value, live, before, parses>>

\* The break leaves the inner switch only: the backslash is pushed as well.
Escape ==
  /\ pc = "escape" /\ json \in Escapes
  /\ Push(2)
  /\ pc' = "string"
  /\ Advance
  /\ UNCHANGED <<frames, items, head, e, ret, value, before, parses>>

\* Mutant of StringBad: what the string has pushed stays on the stack.
StringBadKept ==
  /\ \/ pc = "escape" /\ json \notin Escapes /\ Fail("INVALID_STRING_ESCAPE", frames)
     \/ pc = "string" /\ json \in Low /\ Fail("INVALID_STRING_ESCAPE", frames)
     \/ pc = "string" /\ json = End /\ Fail("MISS_QUOTATION_MARK", frames)
  /\ UNCHANGED <<input, top, size, stack, items, head, e, value, live, before, parses>>

StringBad ==
  /\ \/ pc = "escape" /\ json \notin Escapes /\ Fail("INVALID_STRING_ESCAPE", frames)
     \/ pc = "string" /\ json \in Low /\ Fail("INVALID_STRING_ESCAPE", frames)
     \/ pc = "string" /\ json = End /\ Fail("MISS_QUOTATION_MARK", frames)
  /\ top' = head
  /\ UNCHANGED <<input, size, stack, items, head, e, value, live, before, parses>>

\* The length is assigned to the parameter and lept_parse_string copies
\* an uninitialized number of bytes: any length, or a crash.
StringEnds ==
  /\ pc = "string" /\ json = "quote"
  /\ top' = Popped(top - head)
  /\ \/ /\ pc' = "return"
        /\ \E n \in Garbage :
             e' = [type |-> "string", blocks |-> {Fresh(live)},
                   elems |-> <<>>, len |-> n]
        /\ live' = live \cup {Fresh(live)}
     \/ pc' = "crashed" /\ UNCHANGED <<e, live>>
  /\ Advance
  /\ UNCHANGED <<frames, size, stack, items, head, ret, value, before, parses>>

-----------------------------------------------------------------------------
ArrayBegins ==
  /\ pc = "value" /\ json = "["
  /\ frames' = Append(frames, 0)
  /\ pc' = "open"
  /\ Advance
  /\ UNCHANGED <<top, size, stack, items, head, e, ret, value, live, before, parses>>

Empty ==
  /\ pc = "open" /\ json = "]"
  /\ frames' = Front(frames)
  /\ e' = Scalar("array")
  /\ pc' = "return"
  /\ Advance
  /\ UNCHANGED <<top, size, stack, items, head, ret, value, live, before, parses>>

FirstElement ==
  /\ pc = "open" /\ json \notin {" ", "]"}
  /\ pc' = "value"
  /\ UNCHANGED <<input, context, e, ret, value, live, before, parses>>

\* The value is the caller's, or an element: it is pushed for its array.
ReturnValue ==
  /\ pc = "return"
  /\ \/ /\ frames = <<>>
        /\ v' = e /\ pc' = "trailing"
        /\ UNCHANGED <<context, live>>
     \/ /\ frames # <<>>
        /\ Push(ValueSize)
        /\ items' = Append(items, e)
        /\ frames' = [frames EXCEPT ![Len(frames)] = @ + 1]
        /\ pc' = "after"
        /\ UNCHANGED <<head, v>>
  /\ e' = Null
  /\ UNCHANGED <<input, ret, status, freed, before, parses>>

Comma ==
  /\ pc = "after" /\ json = ","
  /\ pc' = "value"
  /\ Advance
  /\ UNCHANGED <<context, e, ret, value, live, before, parses>>

\* Mutant of ArrayEnds: the elements are copied from the bottom of the stack.
ArrayEndsBottom ==
  /\ pc = "after" /\ json = "]"
  /\ LET n == Last(frames)
         elems == SubSeq(items, 1, n)
     IN  /\ e' = [type |-> "array", blocks |-> {Fresh(live)} \cup OwnedBy(elems),
                  elems |-> elems, len |-> n]
         /\ items' = SubSeq(items, 1, Len(items) - n)
         /\ top' = Popped(n * ValueSize)
  /\ frames' = Front(frames)
  /\ live' = live \cup {Fresh(live)}
  /\ pc' = "return"
  /\ Advance
  /\ UNCHANGED <<size, stack, head, ret, value, before, parses>>

\* The elements go from the stack to a block of their own.
ArrayEnds ==
  /\ pc = "after" /\ json = "]"
  /\ LET n == Last(frames)
         elems == SubSeq(items, Len(items) - n + 1, Len(items))
     IN  /\ e' = [type |-> "array", blocks |-> {Fresh(live)} \cup OwnedBy(elems),
                  elems |-> elems, len |-> n]
         /\ items' = SubSeq(items, 1, Len(items) - n)
         /\ top' = Popped(n * ValueSize)
  /\ frames' = Front(frames)
  /\ live' = live \cup {Fresh(live)}
  /\ pc' = "return"
  /\ Advance
  /\ UNCHANGED <<size, stack, head, ret, value, before, parses>>

\* Mutant of ArrayBad: the elements are taken off the stack and not freed.
ArrayBadPopped ==
  /\ pc = "after" /\ json \notin {" ", ",", "]"}
  /\ Fail("MISS_COMMA_OR_SQUARE_BRACKET", Front(frames))
  /\ top' = top - Last(frames) * ValueSize
  /\ items' = SubSeq(items, 1, Len(items) - Last(frames))
  /\ UNCHANGED <<input, size, stack, head, e, value, live, before, parses>>

\* The elements stay on the stack.
ArrayBad ==
  /\ pc = "after" /\ json \notin {" ", ",", "]"}
  /\ Fail("MISS_COMMA_OR_SQUARE_BRACKET", Front(frames))
  /\ UNCHANGED <<input, top, size, stack, items, head, e, value, live, before, parses>>

\* Mutant of Trailing: what follows the value is not looked at.
TrailingAny ==
  /\ pc = "trailing" /\ json # " "
  /\ pc' = "done"
  /\ UNCHANGED <<input, context, e, ret, value, live, before, parses>>

Trailing ==
  /\ pc = "trailing" /\ json # " "
  /\ pc' = "done"
  /\ ret' = IF json = End THEN "OK" ELSE "ROOT_NOT_SINGULAR"
  /\ UNCHANGED <<input, context, e, value, live, before, parses>>

\* lept_parse returns: its context is gone, with the stack's block.
ReturnToCaller ==
  /\ pc = "done"
  /\ pc' = "idle"
  /\ json' = End /\ text' = <<>>
  /\ frames' = <<>> /\ top' = 0 /\ size' = 0 /\ stack' = 0
  /\ items' = <<>> /\ head' = 0
  /\ UNCHANGED <<e, ret, value, live, before, parses>>

-----------------------------------------------------------------------------
\* The caller's calls on v, or on an element of it.
Targets == 0..Len(v.elems)
Old(i) == IF i = 0 THEN v ELSE v.elems[i]

With(i, new) ==
  IF i = 0 THEN new
  ELSE [v EXCEPT !.elems[i] = new, !.blocks = (@ \ Old(i).blocks) \cup new.blocks]

\* It points, or an element of it does, at a block that is not allocated any more.
Dangling(i) == ~(Old(i).blocks \subseteq live)

\* lept_free of such a value, by itself or in a setter: the program stops there.
FreeAgain(i) ==
  /\ Dangling(i)
  /\ pc' = "freed twice"
  /\ UNCHANGED <<v, freed, live>>

\* The macro lept_init.  On a value that owns blocks it would lose them: the caller
\* has it on a new value, and on one it has freed.
InitValue ==
  /\ pc = "idle"
  /\ \E i \in Targets :
       /\ status = "raw" \/ Dangling(i)
       /\ v' = With(i, Null)
       /\ freed' = freed \ Old(i).blocks
  /\ status' = "set"
  /\ UNCHANGED <<pc, input, context, e, ret, live, before, parses>>

SetString ==
  /\ pc = "idle" /\ status = "set"
  /\ \E i \in Targets, n \in Garbage :
       \/ FreeAgain(i)
       \/ /\ ~Dangling(i)
          /\ LET b == Fresh(live \cup v.blocks) IN
             /\ v' = With(i, [type |-> "string", blocks |-> {b}, elems |-> <<>>, len |-> n])
             /\ live' = (live \ Old(i).blocks) \cup {b}
          /\ UNCHANGED <<pc, freed>>
  /\ UNCHANGED <<input, context, e, ret, status, before, parses>>

\* Mutant of SetScalar: the type is not assigned, and the value keeps its pointer.
SetScalarUntyped(type) ==
  /\ pc = "idle" /\ status = "set"
  /\ \E i \in Targets :
       \/ FreeAgain(i)
       \/ /\ ~Dangling(i)
          /\ live' = live \ Old(i).blocks
          /\ UNCHANGED <<v, pc, freed>>
  /\ UNCHANGED <<input, context, e, ret, status, before, parses>>

SetScalar(type) ==
  /\ pc = "idle" /\ status = "set"
  /\ \E i \in Targets :
       \/ FreeAgain(i)
       \/ /\ ~Dangling(i)
          /\ live' = live \ Old(i).blocks
          /\ v' = With(i, Scalar(type))
          /\ UNCHANGED <<pc, freed>>
  /\ UNCHANGED <<input, context, e, ret, status, before, parses>>

SetNumber == SetScalar("number")
SetBoolean == \E type \in {"true", "false"} : SetScalar(type)

\* lept_free leaves the type and the pointer; the elements are gone with the block
\* they were in.
Free ==
  /\ pc = "idle" /\ status = "set"
  /\ \E i \in Targets :
       \/ FreeAgain(i)
       \/ /\ ~Dangling(i)
          /\ live' = live \ Old(i).blocks
          /\ v' = IF i = 0 THEN [v EXCEPT !.elems = <<>>] ELSE v
          /\ freed' = freed \cup Old(i).blocks
          /\ UNCHANGED pc
  /\ UNCHANGED <<input, context, e, ret, status, before, parses>>

\* The macro lept_set_null is lept_free and nothing else.
SetNull == Free

\* The two ways the program stops: every other state has a step.
Crashed == pc \in {"crashed", "freed twice"} /\ UNCHANGED vars

-----------------------------------------------------------------------------
\* A caller that sets its value, to null with lept_set_null.
SetNullNext ==
  \/ Parse \/ SkipWhitespace \/ ParseLiteral \/ ParseNothing \/ ParseNumber
  \/ StringBegins \/ StringChar \/ StringEscape \/ Escape \/ StringBad \/ StringEnds
  \/ ArrayBegins \/ Empty \/ FirstElement \/ ReturnValue \/ Comma
  \/ ArrayEnds \/ ArrayBad \/ Trailing \/ ReturnToCaller
  \/ InitValue \/ SetString \/ SetNumber \/ SetBoolean \/ SetNull
  \/ Crashed

\* A caller that also frees it.
Next == SetNullNext \/ Free

Spec == Init /\ [][Next]_vars
SetNullSpec == Init /\ [][SetNullNext]_vars

-----------------------------------------------------------------------------
Parsing == pc \notin {"idle", "done", "crashed", "freed twice"}
Pushed == FoldSeq(+, 0, frames)
InString == pc \in {"string", "escape"}

\* The context's stack holds exactly the elements of the arrays being parsed,
\* whatever strings and arrays have come and gone inside them, and a parse that
\* succeeds leaves it empty; it never reaches past what was allocated.
StackExact ==
  /\ IF InString THEN head = ValueSize * Len(items) /\ top >= head
                 ELSE top = ValueSize * Len(items)
  /\ Parsing => Len(items) = Pushed
  /\ pc = "done" /\ ret \in {"OK", "ROOT_NOT_SINGULAR"} => items = <<>>
  /\ top > 0 => top < size

\* No two values point at the same block, whatever has been parsed, set and freed,
\* and all they point at is allocated, but for what lept_free has freed and left
\* there: no call frees another block twice, or one in use.
OwnedOnce ==
  LET held == items \o <<e>> \o <<v>>
      Apart(s) == \A i, j \in DOMAIN s : i # j => s[i].blocks \cap s[j].blocks = {}
  IN  /\ Apart(held) /\ Apart(v.elems)
      /\ OwnedBy(v.elems) \subseteq v.blocks
      /\ OwnedBy(items) \cup e.blocks \cup (v.blocks \ freed) \subseteq live
      /\ stack # 0 => stack \in live
      /\ stack \notin OwnedBy(held)
      /\ pc = "freed twice" => freed # {}

\* No block is freed twice: after lept_set_null (leptjson.h:57) the value is null, as
\* the name says, and may be set or freed again.
FreedOnce == pc # "freed twice"

\* What a parse allocates is the value, the stack and, after an error, the
\* elements left on the stack; the last two are never freed.
AllAccounted ==
  pc = "done" =>
    live = before \cup v.blocks \cup OwnedBy(items)
             \cup (IF stack = 0 THEN {} ELSE {stack})
=============================================================================

------------------------------ MODULE JsonText ------------------------------
(***************************************************************************)
(* JSON: its values, the JsonWriter that is driven call by call, and the   *)
(* parser that reads the tokens back.                                      *)
(*   src/src/serialization/json/writer.h, and simdjson                     *)
(***************************************************************************)
EXTENDS Integers, Sequences, SequencesExt

CONSTANTS
    Texts,          \* what a string or a key of a document can be: UTF-8
    MaxDepth        \* how deep a document that the parser accepts is nested

ASSUME JsonAssumption == MaxDepth \in Nat

\* JSON values are pairs of a type and the value proper: "num", "str", "bool",
\* "arr" with a sequence of values, "obj" with a sequence of fields, each of
\* them a pair of a key and a value.
Num(n) == <<"num", n>>
Str(s) == <<"str", s>>
Arr(items) == <<"arr", items>>
Nums(numbers) == Arr([i \in DOMAIN numbers |-> Num(numbers[i])])

Type(v) == v[1]

Numbers == {"num"} \X Int
Strings == {"str"} \X Texts
Flags == {"bool"} \X BOOLEAN
Scalars == Numbers \cup Strings \cup Flags

JsonUpTo[depth \in 0 .. MaxDepth] ==
    IF depth = 0 THEN Scalars
    ELSE Scalars \cup ({"arr"} \X Seq(JsonUpTo[depth - 1]))
                 \cup ({"obj"} \X Seq(Texts \X JsonUpTo[depth - 1]))

\* What the parser can return: what is nested deeper, and a string that is not
\* UTF-8, it refuses with the whole document.
IsValue(v) == \E depth \in 0 .. MaxDepth : v \in JsonUpTo[depth]

\* The fields with a key, by their places, and the value of the first of them.
Found(v, key) == {i \in DOMAIN v[2] : v[2][i][1] = key}

First(v, key) == v[2][CHOOSE i \in Found(v, key) : \A j \in Found(v, key) : i <= j][2]

\* The elements of a list, one after the other, change a state.  The state
\* before a step is bound by the set of the one next state, for which TLC
\* evaluates it first: steps nested in each other would exhaust its stack.
Each(Step(_, _), state, list) ==
    LET after[n \in 0 .. Len(list)] ==
            IF n = 0 THEN state
            ELSE CHOOSE next \in {Step(before, list[n]) : before \in {after[n - 1]}} : TRUE
    IN  after[Len(list)]

-----------------------------------------------------------------------------
(* JsonWriter: a stack of contexts and the text written so far. *)

NewWriter == [stack |-> <<>>, json |-> <<>>, assertsHold |-> TRUE]

Put(w, token) == [w EXCEPT !.json = Append(@, token)]

Assuming(w, holds) == [w EXCEPT !.assertsHold = @ /\ holds]

Top(w) == Last(w.stack)

\* MUTANT of BeginValue: the context never learns that it has a first value.
BeginValueFirst(w) == w

\* begin_value: a comma, unless this is the first entry of its context.
BeginValue(w) ==
    IF w.stack = <<>> THEN w
    ELSE IF Top(w).first THEN [w EXCEPT !.stack[Len(w.stack)].first = FALSE]
    ELSE Put(w, <<",">>)

PrepareValue(w) ==
    IF w.stack = <<>> THEN w
    ELSE IF Top(w).type = "obj"
         THEN [Assuming(w, Top(w).expecting) EXCEPT !.stack[Len(w.stack)].expecting = FALSE]
         ELSE BeginValue(w)

Open(w, type) ==
    [Put(PrepareValue(w), <<"open", type>>) EXCEPT
        !.stack = Append(@, [type |-> type, first |-> TRUE, expecting |-> FALSE])]

Close(w, type) ==
    LET matches == w.stack # <<>> /\ Top(w).type = type /\ ~Top(w).expecting
    IN  [Put(Assuming(w, matches), <<"close", type>>) EXCEPT !.stack = Front(@)]

WriteKey(w, key) ==
    LET fits == w.stack # <<>> /\ Top(w).type = "obj" /\ ~Top(w).expecting
        named == Put(BeginValue(Assuming(w, fits)), <<"key", key>>)
    IN  [named EXCEPT !.stack[Len(named.stack)].expecting = TRUE]

WriteVal(w, v) == Put(PrepareValue(w), <<"val", v>>)

\* The elements of an array, written by Item.
WriteArray(Item(_, _), w, items) == Close(Each(Item, Open(w, "arr"), items), "arr")

WriteKeyVal(w, key, v) == WriteVal(WriteKey(w, key), v)

-----------------------------------------------------------------------------
(* The JSON parser: the values whose entries are still being read, the      *)
(* innermost last; the text is the only entry of the first of them.         *)

Frame(type) == [type |-> type, items |-> <<>>, key |-> <<>>, comma |-> FALSE]

NewParser == [stack |-> <<Frame("arr")>>, ok |-> TRUE]

Expect(p, holds) == [p EXCEPT !.ok = @ /\ holds]

\* A new entry fits here: the first one, or one after a comma.
HasRoom(frame) == frame.key = <<>> /\ (frame.comma <=> frame.items # <<>>)

AcceptValue(p, v) ==
    LET n == Len(p.stack)
        top == p.stack[n]
    IN  IF top.type = "arr"
        THEN [Expect(p, HasRoom(top)) EXCEPT !.stack[n].items = Append(@, v),
                                             !.stack[n].comma = FALSE]
        ELSE [Expect(p, top.key # <<>>) EXCEPT
                 !.stack[n].items = Append(@, <<top.key[1], v>>), !.stack[n].key = <<>>]

Consume(p, token) ==
    LET n == Len(p.stack)
        top == p.stack[n]
    IN  CASE token[1] = "," -> [Expect(p, top.items # <<>> /\ ~top.comma /\ top.key = <<>>)
                                   EXCEPT !.stack[n].comma = TRUE]
          [] token[1] = "key" -> [Expect(p, top.type = "obj" /\ HasRoom(top))
                                   EXCEPT !.stack[n].key = <<token[2]>>, !.stack[n].comma = FALSE]
          [] token[1] = "open" -> [p EXCEPT !.stack = Append(@, Frame(token[2]))]
          [] token[1] = "close" ->
                AcceptValue([Expect(p, top.type = token[2] /\ ~top.comma /\ top.key = <<>>)
                            EXCEPT !.stack = Front(@)], <<token[2], top.items>>)
          [] token[1] = "val" -> AcceptValue(p, token[2])

\* The parser stops where the text is no JSON.
ParseNext(p, token) == IF p.ok THEN Consume(p, token) ELSE p

Parsed(json) == Each(ParseNext, NewParser, json)

IsJson(p) == p.ok /\ Len(p.stack) = 1 /\ Len(p.stack[1].items) = 1

\* What is no JSON, is nested too deep or holds a string that is not UTF-8, is
\* no document.
NoDocument == <<"none", "none">>

RootOf(p) ==
    IF IsJson(p) /\ IsValue(p.stack[1].items[1]) THEN p.stack[1].items[1] ELSE NoDocument
=============================================================================

------------------------------ MODULE MCSelect ------------------------------
(***************************************************************************)
(* Constants for checking Select: two tables with a column name in common, *)
(* one statement for each way through the function, and statements whose   *)
(* WHERE is read by Parser from the words of a client.                     *)
(***************************************************************************)
EXTENDS Select, Parser

CONSTANTS
    Readings,       \* of each condition, what it is read as and the rows it holds for
    Unread          \* the conditions that are refused

MCNumber(digits) == digits

MCColumnName == {"id", "v", "w", "nosuch", "*"}

MCColumns == [tb \in Tables |->
    IF tb = "t" THEN <<[name |-> "id", type |-> "INT"], [name |-> "v", type |-> "VARCHAR"]>>
    ELSE <<[name |-> "v", type |-> "VARCHAR"], [name |-> "w", type |-> "INT"]>>]

I(n) == [kind |-> "INT", data |-> n]
S(n) == [kind |-> "TEXT", data |-> n]

\* Rows of "t": two texts, a NULL beside the text 'NULL' (S(2)), equal and
\* different numbers.
A == <<I(2), S(1)>>
B == <<I(1), S(2)>>
C == <<I(1), NULL>>
D == <<NULL, S(1)>>
E == <<I(0), S(3)>>

MCContents == [tb \in Tables |->
    IF tb = "t"
    THEN {<<>>, <<C>>} \cup ({A, B, D} \X {A, C, E})
         \cup {<<A, B, A>>, <<B, A, C>>, <<B, C, D, A>>, <<D, E, A, B>>}
    ELSE {<<>>, <<<<S(1), I(1)>>>>, <<<<S(1), NULL>>, <<NULL, I(0)>>>>,
          <<<<S(2), I(2)>>, <<S(2), I(1)>>>>}]

Base == [table |-> "t", joins |-> <<>>, where |-> <<>>, items |-> <<>>, groupBy |-> <<>>,
         orderBy |-> <<>>, limit |-> -1, offset |-> 0]

Item(f, arg)  == [agg |-> f, arg |-> arg]
Col(name)     == Item("NONE", name)
Asc(name)     == [column |-> name, ascending |-> TRUE]
Desc(name)    == [column |-> name, ascending |-> FALSE]
On(tb, l, r)  == [table |-> tb, leftCol |-> l, rightCol |-> r]
Is(name, op, x) == Leaf(name, op, x)

Shapes ==
    {Base,
     [Base EXCEPT !.table = "u"],
     [Base EXCEPT !.orderBy = <<Desc("id"), Asc("v")>>, !.limit = 2, !.offset = 1],
     [Base EXCEPT !.items = <<Col("v"), Col("id"), Col("v")>>, !.orderBy = <<Asc("id")>>],
     [Base EXCEPT !.items = <<Col("v"), Col("id")>>, !.orderBy = <<Desc("v")>>, !.limit = 3, !.offset = 2],
     [Base EXCEPT !.items = <<Col("v"), Col("nosuch")>>],
     [Base EXCEPT !.items = <<Col("v")>>, !.orderBy = <<Asc("nosuch")>>],
     [Base EXCEPT !.items = <<Col("v")>>, !.orderBy = <<Asc("id")>>],
     [Base EXCEPT !.where = <<Is("id", "EQ", I(1)), Is("nosuch", "EQ", I(1)), And>>],
     [Base EXCEPT !.where = <<Is("id", "GT", I(0)), Is("nosuch", "EQ", I(1)), Or>>],
     [Base EXCEPT !.where = <<Is("id", "LE", I(1)), Is("v", "LT", S(3)), And, Not>>],
     [Base EXCEPT !.where = <<Is("id", "NEQ", I(1)), Is("v", "GE", S(2)), Or>>,
                  !.items = <<Item("COUNT", "*"), Item("MAX", "v"), Col("id")>>],
     [Base EXCEPT !.items = <<Item("AVG", "id"), Item("SUM", "id"), Item("MIN", "v")>>],
     [Base EXCEPT !.items = <<Item("COUNT", "id"), Item("SUM", "*")>>],
     [Base EXCEPT !.items = <<Col("v"), Item("COUNT", "*"), Item("SUM", "id"), Item("MIN", "id")>>,
                  !.groupBy = <<"v">>, !.orderBy = <<Asc("v")>>, !.limit = 1, !.offset = 1],
     [Base EXCEPT !.items = <<Item("AVG", "id"), Col("nosuch")>>, !.groupBy = <<"v", "id">>],
     [Base EXCEPT !.groupBy = <<"id">>, !.orderBy = <<Asc("v")>>],
     \* Groups of NULL, of numbers and of the text 'NULL'.
     [Base EXCEPT !.items = <<Col("id"), Item("COUNT", "*"), Col("v")>>, !.groupBy = <<"id", "v">>],
     [Base EXCEPT !.items = <<Col("id"), Item("SUM", "id")>>, !.groupBy = <<"id">>],
     [Base EXCEPT !.items = <<Col("id")>>, !.groupBy = <<"nosuch">>],
     [Base EXCEPT !.joins = <<On("u", "id", "w")>>],
     [Base EXCEPT !.joins = <<On("u", "id", "v")>>, !.items = <<Item("COUNT", "*")>>],
     [Base EXCEPT !.joins = <<On("u", "v", "v")>>, !.items = <<Col("w"), Col("v")>>,
                  !.orderBy = <<Desc("w")>>, !.where = <<Is("id", "LT", I(2)), Not>>],
     [Base EXCEPT !.joins = <<On("u", "id", "id")>>],
     [Base EXCEPT !.joins = <<On("t", "id", "id")>>, !.groupBy = <<"v">>,
                  !.items = <<Item("COUNT", "*"), Item("MIN", "id")>>],
     [Base EXCEPT !.joins = <<On("u", "id", "w"), On("t", "w", "id")>>],
     [Base EXCEPT !.joins = <<On("u", "id", "w"), On("u", "id", "w")>>,
                  !.items = <<Item("COUNT", "*"), Item("MAX", "w")>>]}

-----------------------------------------------------------------------------
(* Conditions as clients write them, in words: x is a comparison, another  *)
(* one at each place.                                                      *)

Token(type) == [type |-> type, value |-> type]
Ident(name) == [type |-> "IDENTIFIER", value |-> name]

ComparisonText == <<
    <<Ident("id"), Token("="), [type |-> "LIT_INTEGER", value |-> 1]>>,
    <<Ident("v"), Token("<"), [type |-> "LIT_STRING", value |-> 2]>>,
    <<Ident("id"), Token("<="), [type |-> "LIT_INTEGER", value |-> 1]>> >>

\* The comparison that the x at this place is.
Nth3(words, i) == ComparisonText[1 + Cardinality({j \in 1 .. i - 1 : words[j] = "x"})]

Tokens(words) ==
    FlattenSeq([i \in DOMAIN words |-> IF words[i] = "x" THEN Nth3(words, i) ELSE <<Token(words[i])>>])

SelectText(words) ==
    <<Token("SELECT"), Token("*"), Token("FROM"), Ident("t"), Token("WHERE")>>
    \o Tokens(words) \o <<Token("LIMIT"), [type |-> "LIT_INTEGER", value |-> 9], Token(";")>>

Simple  == {<<"x">>, <<"NOT", "x">>}
Two     == {a \o <<op>> \o b : a \in Simple, op \in {"AND", "OR"}, b \in Simple}
Three   == {a \o <<op>> \o b : a \in Simple, op \in {"AND", "OR"}, b \in Two}
Grouped == {pre \o <<"(", "x", op, "x", ")">> : pre \in {<<>>, <<"NOT">>}, op \in {"AND", "OR"}}
Beside  == {g \o <<op>> \o a : g \in Grouped, op \in {"AND", "OR"}, a \in Simple}
           \cup {a \o <<op>> \o g : g \in Grouped, op \in {"AND", "OR"}, a \in Simple}
Nested  == {<<"NOT", "(", "NOT", "x", ")">>, <<"(", "(", "x", ")", "OR", "x", ")">>}
Wrong   == {<<"NOT", "NOT", "x">>, <<"x", "x">>, <<"(", "x">>, <<"x", "AND">>, <<"x", ")">>,
            <<"x", "OR", "OR", "x">>, <<"(", ")">>, <<"x", "AND", "x", "x", "OR">>}

Conditions3 == Simple \cup Two \cup Three \cup Grouped \cup Beside \cup Nested \cup Wrong

Texts == {[words |-> words, stmt |-> parse(SelectText(words))] : words \in Conditions3}

Read == {text \in Texts : text.stmt.pos # 0}

MCStatements == Shapes \cup {text.stmt.val : text \in Read}

-----------------------------------------------------------------------------
(* What such words mean: a condition is split at its last OR outside       *)
(* parentheses, else at its last AND.                                      *)

Depth(words, i, j) ==
    Cardinality({k \in i .. j : words[k] = "("}) - Cardinality({k \in i .. j : words[k] = ")"})

\* The last of these words between i and j outside parentheses; 0 if there is none.
LastOutside(words, i, j, word) ==
    Max({0} \cup {k \in i .. j : words[k] = word /\ Depth(words, i, k) = 0})

\* Whether the words from i to j are a condition.
IsCondition(words, first, last) ==
    LET is[i \in 1 .. Len(words) + 1, j \in 0 .. Len(words), primary \in BOOLEAN] ==
            LET or  == LastOutside(words, i, j, "OR")
                and == LastOutside(words, i, j, "AND")
                cut == IF or # 0 THEN or ELSE and
            IN  /\ i <= j
                /\ IF cut # 0 THEN ~primary /\ is[i, cut - 1, FALSE] /\ is[cut + 1, j, FALSE]
                   ELSE IF words[i] = "NOT" THEN ~primary /\ is[i + 1, j, TRUE]
                   ELSE IF i = j THEN words[i] = "x"
                   ELSE words[i] = "(" /\ words[j] = ")" /\ is[i + 1, j - 1, FALSE]
    IN  is[first, last, FALSE]

Holds(words, last, row) ==
    LET holds[i \in 1 .. Len(words) + 1, j \in 0 .. Len(words)] ==
            LET or  == LastOutside(words, i, j, "OR")
                and == LastOutside(words, i, j, "AND")
                x   == Nth3(words, i)
                c   == IF x[1].value = "id" THEN 1 ELSE 2
            IN  IF or # 0 THEN holds[i, or - 1] \/ holds[or + 1, j]
                ELSE IF and # 0 THEN holds[i, and - 1] /\ holds[and + 1, j]
                ELSE IF words[i] = "NOT" THEN ~holds[i + 1, j]
                ELSE IF words[i] = "(" THEN holds[i + 1, j - 1]
                ELSE compareValues(row[c], parseCompareOp(x[2].type),
                                   IF c = 1 THEN I(x[3].value) ELSE S(x[3].value))
    IN  holds[1, last]

\* The longest condition these words begin with.
Prefix(words) == Max({0} \cup {j \in DOMAIN words : IsCondition(words, 1, j)})

HoldsFor(words) == {row \in {A, B, C, D, E} : Holds(words, Prefix(words), row)}

ReadingTable == {[statement |-> text.stmt.val, rows |-> HoldsFor(text.words)] : text \in Read}

Refused == {text \in Texts : text.stmt.pos = 0 /\ Prefix(text.words) = Len(text.words)}

\* TLC keeps the value of a definition, but not that of a constant it stands for.
MCReadings == ReadingTable
MCUnread   == Refused

(* From the words of a client to the rows of his answer: every condition   *)
(* is read, OR binds less than AND and AND less than NOT, parentheses      *)
(* first; words that follow a condition change nothing                     *)
(* (Parser.cpp:40-44, 352-405, Statements.cpp:69-79).                      *)
RowsMeanTheText ==
    /\ Unread = {}
    /\ pc = "project" =>
          \A reading \in Readings :
              reading.statement = stmt =>
                  filtered = Keep(joinedRows, {i \in DOMAIN joinedRows : joinedRows[i] \in reading.rows})

-----------------------------------------------------------------------------
(* A statement with HAVING, and what README.md:61 promises of it.          *)

HavingText ==
    <<Token("SELECT"), Ident("v"), Token(","), Token("COUNT"), Token("("), Token("*"), Token(")"),
      Token("FROM"), Ident("t"), Token("GROUP"), Token("BY"), Ident("v"),
      Token("HAVING"), Ident("v"), Token("<"), [type |-> "LIT_STRING", value |-> 2], Token(";")>>

HavingRead         == parse(HavingText)
MCHavingStatements == {HavingRead.val}

\* Every group answered is one for which HAVING holds.
HavingKeepsGroups ==
    pc = "answered" =>
        \A i \in DOMAIN result.rows : compareValues(result.rows[i][1], "LT", S(2))
=============================================================================

------------------------------ MODULE MCSession ------------------------------
(***************************************************************************)
(* Sessions of a terminal and of a program beside it, from what is typed   *)
(* to the statement that is run: Cli over Protocol, with the texts of both *)
(* read by Lexer and Parser.                                               *)
(***************************************************************************)
EXTENDS Cli, Lexer, Parser, Wire

CONSTANTS
    cli, app,
    Tokens,         \* of each text that may be sent
    Meant,          \* of each session typed tidily, the tokens of its statements
    Responses,      \* what the library reads from each answer
    Misread         \* statements that are not read as they are heard

MCDigit  == {"1", "2", "9"}
MCLetter == Keyword \cup {"t", "u", "id", "v", "n", "a", "select", "INTEGER", "WHER", "LONG", "quit", "help"}
MCUpper  == [w \in MCLetter |-> IF w = "select" THEN "SELECT" ELSE w]
MCNumber(digits) ==
    CASE digits = <<"1">> -> 1 [] digits = <<"2">> -> 2 [] digits = <<"1", ".", "2">> -> 1
      [] digits = <<"9", "9">> -> 99

-----------------------------------------------------------------------------
(* What is meant: statements as the words they consist of.                 *)

\* A text that is hard to write.
Hard == <<"a", ";", "'", "\\", "n", "\n", "-", "-">>

MeantToken(word) ==
    CASE word = "'hard'" -> [type |-> "LIT_STRING", value |-> Hard]
      [] word = "'n'"    -> [type |-> "LIT_STRING", value |-> <<"n">>]
      [] word = "99"     -> [type |-> "LIT_INTEGER", value |-> <<"9", "9">>]
      [] word = "1.2"    -> [type |-> "LIT_FLOAT", value |-> <<"1", ".", "2">>]
      [] word \in MCDigit -> [type |-> "LIT_INTEGER", value |-> <<word>>]
      [] word \in MCLetter -> [type |-> KeywordType(MCUpper[word]), value |-> <<word>>]
      [] OTHER -> [type |-> word, value |-> <<word>>]

MeantAll(words) == [i \in DOMAIN words |-> MeantToken(words[i])]

\* How it is written: quotes and backslashes behind a backslash.
SpelledChar(c) == CASE c \in {"'", "\\"} -> <<"\\", c>> [] c = "\n" -> <<"\\", "n">> [] OTHER -> <<c>>

\* Operators of two characters are two.
Spelled(word) ==
    LET token == MeantToken(word)
    IN  CASE token.type = "LIT_STRING" ->
               <<"'">> \o FlattenSeq([i \in DOMAIN token.value |-> SpelledChar(token.value[i])]) \o <<"'">>
          [] word \in Range(WithEquals) ->
               <<CHOOSE c \in DOMAIN WithEquals : WithEquals[c] = word, "=">>
          [] OTHER -> token.value

Line(words) ==
    FlattenSeq([i \in DOMAIN words |-> (IF i = 1 THEN <<>> ELSE <<" ">>) \o Spelled(words[i])])

SelectHard == <<"SELECT", "*", "FROM", "t", "WHERE", "v", "=", "'hard'", ";">>
Delete1    == <<"DELETE", "FROM", "t", "WHERE", "id", "!=", "1", ";">>

\* Statements for every way through the parser.
Written == {
    <<"select", "id", ",", "COUNT", "(", "*", ")", ",", "SUM", "(", "id", ")", "FROM", "t", "INNER",
      "JOIN", "u", "ON", "id", "=", "v", "JOIN", "u", "ON", "v", "=", "USER", "LIMIT", "2", "OFFSET",
      "1", ";">>,
    <<"SELECT", "id", "FROM", "t", "WHERE", "id", "<", "1.2", "OR", "NOT", "(", "v", ">", "NULL", ")",
      "GROUP", "BY", "id", ",", "v", "ORDER", "BY", "v", "DESC", ",", "id", "ASC", ",", "u", ";">>,
    <<"SELECT", "MIN", "(", "id", ")", ",", "AVG", "(", "v", ")", "FROM", "t", "WHERE", "v", "=", "TRUE",
      "AND", "id", "<=", "2", "AND", "id", ">=", "1", "LIMIT", "1", ";">>,
    <<"INSERT", "INTO", "t", "VALUES", "(", "1", ",", "'hard'", ")", ",", "(", "2", ",", "FALSE", ")", ";">>,
    <<"INSERT", "INTO", "t", "(", "v", ",", "id", ")", "VALUES", "(", "'n'", ",", "2", ")", ";">>,
    <<"UPDATE", "t", "SET", "v", "=", "'n'", ",", "id", "=", "2", "WHERE", "id", "=", "1", ";">>,
    <<"CREATE", "TABLE", "t", "(", "id", "INT", ",", "v", "VARCHAR", "(", "2", ")", ",",
      "u", "VARCHAR", ")", ";">>,
    <<"CREATE", "DATABASE", "u", ";">>, <<"DROP", "DATABASE", "u", ";">>,
    <<"DROP", "TABLE", "t", ";">>, <<"USE", "u", ";">>,
    <<"CREATE", "USER", "u", "WITH", "PASSWORD", "'n'", "ROLE", "READONLY", ";">>,
    <<"CREATE", "USER", "u", ";">>, <<"DROP", "USER", "u", ";">>, <<"SHOW", "USERS", ";">>,
    <<"AUTH", "u", "'n'", ";">>,
    <<"GRANT", "SELECT", ",", "UPDATE", "ON", "*", "TO", "u", ";">>,
    <<"REVOKE", "INSERT", "DELETE", "ON", "t", "FROM", "u", ";">> }

\* Words that do not continue the statement before them, and a whole statement too.
Following == {<<"WHER", "id", "=", "1", ";">>, <<"id", "=", "2", ";">>, <<";", "DROP", "TABLE", "t", ";">>}

Cuttable ==
    {<<"DELETE", "FROM", "t">>, <<"UPDATE", "t", "SET", "v", "=", "'n'">>, <<"USE", "u">>,
     <<"SELECT", "*", "FROM", "t", "WHERE", "id", "=", "1">>}

\* In the last one the rights are not in their order.
NotRead == {
    <<"LIMIT", "1", ";">>, <<"CREATE", "TABLE", "t", "(", "id", "FROM", ")", ";">>,
    <<"INSERT", "INTO", "t", "VALUES", "(", "99", ")", ";">>,
    <<"GRANT", "UPDATE", ",", "SELECT", "ON", "t", "TO", "u", ";">> }

\* typed: the statements, by their words; lines: what is entered.
Typing(typed, lines) == [typed |-> typed, lines |-> lines]

ScriptOf(hard, delete) ==
    {Typing(<<SelectHard, Delete1>>, <<hard, HelpLine, delete, QuitLine>>),
     \* A statement on several lines; the words of the client are words of it there.
     Typing(<<<<"SELECT", "quit", "FROM", "t", ";">>, Delete1>>,
            <<<<>>, <<"SELECT">>, <<>>, QuitLine, <<"FROM", " ", "t">>, <<";">>, <<";">>, delete>>),
     \* Two statements on a line, and the beginning of a third.
     Typing(<<>>, <<delete \o <<" ">> \o hard \o <<" ", "DELETE", " ", "FROM">>, <<"t", ";">>>>),
     \* The last semicolon is in a string.
     Typing(<<>>, <<SubSeq(hard, 1, Len(hard) - 1), <<";">>>>),
     \* A comment above a statement, and one behind it.
     Typing(<<>>, <<<<"-", "-", " ", "a">>, delete>>),
     Typing(<<>>, <<delete \o <<" ", "-", "-", " ", "a">>, hard>>),
     Typing(<<<<"LONG", ";">>, Delete1>>, <<<<"LONG", ";">>, delete>>),
     Typing(<<>>, <<QuitLine, delete>>)}

Script == ScriptOf(Line(SelectHard), Line(Delete1))

-----------------------------------------------------------------------------

Empty   == <<>>
TooLong == <<"LONG", ";">>

\* What rfind leaves of the lines of a script that are joined.
Requests(lines) ==
    LET text(i, j) == FlattenSeq([k \in 1 .. j - i + 1 |->
                                    (IF k = 1 THEN <<>> ELSE <<" ">>) \o lines[i + k - 1]])
    IN  {SubSeq(text(i, j), 1, rfind(text(i, j))) : i, j \in DOMAIN lines}

Asked == {Line(<<"SELECT", "*", "FROM", "t", ";">>), Empty}

Texts == UNION {Requests(s.lines) : s \in Script} \cup Asked

SizeOf == [r \in Texts |-> CASE r = Empty -> "empty" [] r = TooLong -> "tooLong" [] OTHER -> "fits"]

Cell(kind, text) == [kind |-> kind, text |-> text]
HardText == <<"\"", "\\", "n", ",", "]", "\n", "CTRL", "'">>

\* Rows, counts, messages and errors that are easily mistaken for one another.
ResultOf(r) ==
    CASE r = Empty -> ErrorResult(<<>>)
      [] r \in Asked -> QueryResult(TRUE, <<>>, <<<<"error">>, <<"COUNT", "(", "*", ")">>>>, <<>>, "0")
      [] r[1] = "SELECT" ->
           QueryResult(TRUE, <<>>, <<<<"id">>, <<"message">>>>,
                       <<<<Cell("TEXT", HardText), Cell("NULL", <<"null">>)>>,
                         <<Cell("TEXT", <<>>), Cell("INT", <<"1">>)>>>>, "0")
      [] r = <<"DELETE", " ", "FROM", ";">> -> QueryResult(TRUE, <<"message">>, <<>>, <<>>, "1")
      [] r[1] = "DELETE" -> QueryResult(TRUE, <<"error">>, <<>>, <<>>, "0")
      [] OTHER -> ErrorResult(HardText)

ResultsOf == [r \in Texts |-> {ResultOf(r)}]

ResponsesOf == [status \in {0, 1} |->
    [json \in {Json(ResultOf(r)) : r \in Texts} |-> parseResponse(status, json)]]

Sessions  == {s.lines : s \in Script}
MCSession == Sessions
MCSize    == SizeOf
MCAnswers == ResultsOf
MCDecoded(status, json) == Responses[status][json]
MCAsks    == [c \in Client |-> IF c = app THEN Asked ELSE {}]

\* The program comes when there is no terminal.
NoTerminal == [t \in Terminal |-> [at |-> "ended", lines |-> <<>>, buffer |-> <<>>, read |-> <<>>]]

\* One connection is lost, or the server stops and can no longer be connected to.
OneFault ==
    /\ Cardinality({s \in Socket : conn'[s].cut}) <= (IF serving' THEN 1 ELSE 0)
    /\ serving' => \A c \in Client : client[c].fd = NoSocket \/ ~ConnectFails(c)

MCInit == CliInit \/ (Init /\ terminal = NoTerminal)
MCNext == CliNext /\ OneFault /\ (terminal = NoTerminal \/ UNCHANGED client[app])
MCSpec == MCInit /\ [][MCNext]_cliVars /\ Fairness

-----------------------------------------------------------------------------
(* A semicolon ends its line, unless it is in a string, and the line ends  *)
(* its strings and has no comment.                                         *)

Quoted1(line, i) ==
    Cardinality({j \in 1 .. i - 1 : line[j] = "'" /\ ~(j > 1 /\ line[j - 1] = "\\")}) % 2 = 1

TidyLine(line) ==
    /\ \A i \in DOMAIN line : /\ line[i] = ";" => i = Len(line) \/ Quoted1(line, i)
                             /\ line[i] = "-" => Quoted1(line, i)
    /\ (\E i \in DOMAIN line : line[i] = ";") => line[Len(line)] = ";"

TidyLines(lines) == \A i \in DOMAIN lines : TidyLine(lines[i])

MeantBy(s) == [k \in DOMAIN s.typed |-> MeantAll(s.typed[k])]

MeantOf  == [lines \in {s.lines : s \in {s \in Script : TidyLines(s.lines)}} |->
    MeantBy(CHOOSE s \in Script : s.lines = lines)]
TokensOf == [r \in Texts |-> tokenize(r).val]

CallsOf(c) == SelectSeq(calls, LAMBDA call : call.by = c)

(* Whoever types tidily is served statement by statement: the texts sent   *)
(* are the statements he has completed, each once and in their order,      *)
(* token for token as they were meant (client/main.cpp:119-168,            *)
(* Lexer.cpp:106-242).                                                     *)
StatementsAsTyped ==
    LET lines == terminal[cli].read \o terminal[cli].lines
        sent  == CallsOf(cli)
    IN  lines \in DOMAIN Meant =>
            /\ \A k \in DOMAIN sent : Tokens[sent[k].request] = Meant[lines][k]
            /\ terminal[cli].lines \in {<<>>, <<QuitLine>>} => Len(sent) = Len(Meant[lines])

-----------------------------------------------------------------------------
(* The words that a statement of the executor stands for.                  *)

Key(words) == [i \in DOMAIN words |-> <<words[i]>>]

DigitsOf(n) == CHOOSE digits \in {<<"1">>, <<"2">>} : MCNumber(digits) = n

ValueWord(v) ==
    CASE v = NULL        -> <<"NULL">>
      [] v.kind = "TEXT"  -> <<"LIT_STRING">> \o v.data
      [] v.kind = "INT"   -> <<"LIT_INTEGER">> \o DigitsOf(v.data)
      [] v.kind = "FLOAT" -> <<"LIT_FLOAT", "1", ".", "2">>
      [] v.kind = "BOOL"  -> IF v.data = 1 THEN <<"TRUE">> ELSE <<"FALSE">>

NumberWord(n) == ValueWord(Literal("INT", n))

Flat(items, Words(_)) == FlattenSeq([i \in DOMAIN items |-> Words(items[i])])

\* A clause that says nothing is left out.
Clause(words, items, Words(_)) == IF items = <<>> THEN <<>> ELSE Key(words) \o Flat(items, Words)

NodeWords(node) ==
    IF node \in {And, Or, Not} THEN <<>>
    ELSE <<node.name, <<CHOOSE sign \in CompareToken : parseCompareOp(sign) = node.op>>,
           ValueWord(node.value)>>

NameWords(name)   == <<name>>
ItemWords(item)   == IF item.agg = "NONE" THEN <<item.arg>>
                     ELSE <<<<item.agg>>, IF item.arg = "*" THEN <<"*">> ELSE item.arg>>
JoinWords(join)   == Key(<<"JOIN">>) \o <<join.table>> \o Key(<<"ON">>) \o
                     <<join.leftCol, <<"=">>, join.rightCol>>
OrderWords(clause) == <<clause.column>> \o (IF clause.ascending THEN <<>> ELSE Key(<<"DESC">>))
RowWords(row)     == [i \in DOMAIN row |-> ValueWord(row[i])]
SetWords(pair)    == <<pair[1], <<"=">>, ValueWord(pair[2])>>
ColumnWords(col)  == <<col.name, <<col.type>>>> \o
                     (IF col.param = 0 THEN <<>> ELSE <<NumberWord(col.param)>>)
RightWords(rights) == Key(SelectSeq(Rights, LAMBDA right : right \in rights))

SelectWords(s) ==
    (IF s.items = <<>> THEN Key(<<"SELECT", "*">>) ELSE Clause(<<"SELECT">>, s.items, ItemWords))
    \o Key(<<"FROM">>) \o <<s.table>> \o Flat(s.joins, JoinWords)
    \o Clause(<<"WHERE">>, s.where, NodeWords) \o Clause(<<"GROUP", "BY">>, s.groupBy, NameWords)
    \o Clause(<<"ORDER", "BY">>, s.orderBy, OrderWords)
    \o (IF s.limit = -1 THEN <<>> ELSE Key(<<"LIMIT">>) \o <<NumberWord(s.limit)>>)
    \o (IF s.offset = 0 THEN <<>> ELSE Key(<<"OFFSET">>) \o <<NumberWord(s.offset)>>)

StatementWords(s) ==
    IF "items" \in DOMAIN s THEN SelectWords(s)
    ELSE CASE s.op = "INSERT" -> Key(<<"INSERT", "INTO">>) \o <<s.table>> \o s.columns
                                 \o Key(<<"VALUES">>) \o Flat(s.values, RowWords)
           [] s.op = "UPDATE" -> Key(<<"UPDATE">>) \o <<s.table>> \o Clause(<<"SET">>, s.assignments, SetWords)
                                 \o Clause(<<"WHERE">>, s.where, NodeWords)
           [] s.op = "DELETE" -> Key(<<"DELETE", "FROM">>) \o <<s.table>>
                                 \o Clause(<<"WHERE">>, s.where, NodeWords)
           [] s.op = "USE"    -> Key(<<"USE">>) \o <<s.db>>
           [] s.op \in {"CREATE", "DROP"} -> Key(<<s.op, s.kind>>) \o <<s.name>>
           [] s.op = "CREATE TABLE" -> Key(<<"CREATE", "TABLE">>) \o <<s.table>> \o Flat(s.columns, ColumnWords)
           [] s.op = "CREATE USER" ->
                Key(<<"CREATE", "USER">>) \o <<s.username>>
                \o (IF s.password = "" THEN <<>> ELSE <<<<"LIT_STRING">> \o s.password>>)
                \o (IF s.role = "READWRITE" THEN <<>> ELSE Key(<<s.role>>))
           [] s.op \in {"GRANT", "REVOKE"} ->
                Key(<<s.op>>) \o RightWords(s.rights) \o Key(<<"ON">>)
                \o <<IF s.table = "*" THEN <<"*">> ELSE s.table>>
                \o Key(<<IF s.op = "GRANT" THEN "TO" ELSE "FROM">>) \o <<s.username>>
           [] s.op = "AUTH" -> Key(<<"AUTH">>) \o <<s.username, <<"LIT_STRING">> \o s.password>>
           [] s.op = "SHOW USERS" -> Key(<<"SHOW", "USERS">>)

\* Words that only hold others together.
Glue == {"INNER", "ASC", ",", "(", ")", "AND", "OR", "NOT", "WITH", "PASSWORD", "ROLE", ";"}

Heard(words) ==
    LET Kept   == {i \in DOMAIN words : words[i] \notin Glue}
        tokens == MeantAll(words)
        Word(token) == IF token.type \in {"LIT_STRING", "LIT_INTEGER", "LIT_FLOAT"}
                       THEN <<token.type>> \o token.value
                       ELSE IF token.value[1] \in MCLetter THEN <<MCUpper[token.value[1]]>>
                       ELSE token.value
        kept == SelectSeq([i \in DOMAIN words |-> i], LAMBDA i : i \in Kept)
    IN  [k \in DOMAIN kept |-> Word(tokens[kept[k]])]

Continued(words) == {words \o more : more \in Following}

\* A text and how it is heard.  Words that do not continue a statement are
\* passed over, as if the text ended before them.
Heardings ==
    {<<words, Heard(words)>> : words \in (Written \cup UNION {Range(s.typed) : s \in Script}) \ {TooLong}}
    \cup {<<words, <<>>>> : words \in NotRead \cup {TooLong}}
    \cup UNION {{<<text, Heard(words)>> : text \in Continued(words)} : words \in Cuttable}

Accepted(stmt)  == IF stmt.pos = 0 THEN <<>> ELSE StatementWords(stmt.val)
Parsed(tokens)  == IF tokens.pos = 0 THEN <<>> ELSE Accepted(parse(tokens.val))
ReadWords(words) == Parsed(tokenize(Line(words)))

MisreadTexts == {pair \in Heardings : ReadWords(pair[1]) # pair[2]}

\* TLC keeps the value of a definition, but not that of a constant it stands for.
MCTokens    == TokensOf
MCMeant     == MeantOf
MCResponses == ResponsesOf
MCMisread   == MisreadTexts

(* Of what is written to a server nothing is lost, moved or added on the   *)
(* way to the executor: the statement it gets consists of the words of the *)
(* text, in their order.  Words that do not continue the statement are the *)
(* exception: they are passed over, as if the text ended before them       *)
(* (Parser.cpp:40-491, Lexer.cpp:106-242).                                 *)
StatementsAsWritten == serving => Misread = {}
=============================================================================

-------------------------------- MODULE Wire --------------------------------
(***************************************************************************)
(* The answer of the server as text, and what the client library reads     *)
(* from it: the JSON functions of Server.cpp and Client.cpp.               *)
(*                                                                         *)
(* A text is a sequence of characters; a word of the format that cannot be *)
(* split, like the key "rows" or a number, counts as one.  CTRL stands for *)
(* a control character without an escape of its own.  A cell of a row has  *)
(* the kind of its value and the text the value prints as.                 *)
(***************************************************************************)
EXTENDS Integers, SequencesExt

\* What Executor::execute returns.
QueryResult(success, message, columns, rows, affectedRows) ==
    [success |-> success, message |-> message, columns |-> columns, rows |-> rows,
     affectedRows |-> affectedRows]

ErrorResult(message) == QueryResult(FALSE, message, <<>>, <<>>, "0")

-----------------------------------------------------------------------------
(* Server.cpp: writing.                                                    *)

\* Mutant: a backslash is not escaped.
EscapedQuoteOnly(c) ==
    CASE c = "\"" -> <<"\\", "\"">>
      [] c = "\n" -> <<"\\", "n">> [] c = "\r" -> <<"\\", "r">> [] c = "\t" -> <<"\\", "t">>
      [] c = "CTRL" -> <<"\\", "u", "0001">>
      [] OTHER -> <<c>>

Escaped(c) ==
    CASE c \in {"\"", "\\"} -> <<"\\", c>>
      [] c = "\n" -> <<"\\", "n">> [] c = "\r" -> <<"\\", "r">> [] c = "\t" -> <<"\\", "t">>
      [] c = "CTRL" -> <<"\\", "u", "0001">>
      [] OTHER -> <<c>>

escapeJson(text) == FlattenSeq([i \in DOMAIN text |-> Escaped(text[i])])

Quoted(text)     == <<"\"">> \o escapeJson(text) \o <<"\"">>
Member(key, val) == <<"\"", key, "\"", ":">> \o val

Array(items) ==
    <<"[">> \o FlattenSeq([i \in DOMAIN items |-> (IF i = 1 THEN <<>> ELSE <<",">>) \o items[i]])
    \o <<"]">>

valueToJson(cell) == IF cell.kind = "TEXT" THEN Quoted(cell.text) ELSE cell.text

rowToJson(row) == Array([c \in DOMAIN row |-> valueToJson(row[c])])

buildSelectJson(r) ==
    <<"{">> \o Member("columns", Array([c \in DOMAIN r.columns |-> Quoted(r.columns[c])]))
    \o <<",">> \o Member("rows", Array([i \in DOMAIN r.rows |-> rowToJson(r.rows[i])]))
    \o <<",">> \o Member("count", <<"9">>) \o <<"}">>

buildAffectedJson(n)      == <<"{">> \o Member("affected", <<n>>) \o <<"}">>
buildMessageJson(message) == <<"{">> \o Member("message", Quoted(message)) \o <<"}">>
buildErrorJson(error)     == <<"{">> \o Member("error", Quoted(error)) \o <<"}">>

\* The end of processQuery.
Json(r) ==
    IF ~r.success THEN buildErrorJson(r.message)
    ELSE IF r.columns # <<>> THEN buildSelectJson(r)
    ELSE IF r.affectedRows # "0" \/ r.message = <<>> THEN buildAffectedJson(r.affectedRows)
    ELSE buildMessageJson(r.message)

\* hasError looks at the first key.
Status(json) == IF json[3] = "error" THEN 1 ELSE 0

-----------------------------------------------------------------------------
(* Client.cpp: reading.  As there, reading never fails: it yields what it  *)
(* has found, and the position behind it.                                  *)

Char(s, p) == IF p \in DOMAIN s THEN s[p] ELSE "END"

Unescaped(c) == CASE c = "n" -> "\n" [] c = "r" -> "\r" [] c = "t" -> "\t" [] OTHER -> c

parseJsonString(s, quote) ==
    LET at[p \in 1 .. Len(s) + 2] ==
            LET escape == Char(s, p) = "\\" /\ p < Len(s)
                char   == IF escape THEN Unescaped(s[p + 1]) ELSE s[p]
            IN  IF Char(s, p) \in {"\"", "END"} THEN [pos |-> p + 1, val |-> <<>>]
                ELSE [at[IF escape THEN p + 2 ELSE p + 1] EXCEPT !.val = <<char>> \o @]
    IN  IF Char(s, quote) = "\"" THEN at[quote + 1] ELSE [pos |-> quote, val |-> <<>>]

parseJsonValue(s, first) ==
    LET ends == {p \in first .. Len(s) : s[p] \in {",", "]", "}"}}
        end  == IF ends = {} THEN Len(s) + 1 ELSE Min(ends)
    IN  IF Char(s, first) = "\"" THEN parseJsonString(s, first)
        ELSE [pos |-> end, val |-> SubSeq(s, first, end - 1)]

\* "[", items and commas, "]".
parseArray(s, open, Item(_, _)) ==
    LET at[p \in 1 .. Len(s) + 1] ==
            LET item == Item(s, p)
            IN  CASE Char(s, p) = ","              -> at[p + 1]
                  [] Char(s, p) \in {"]", "END"}   -> [pos |-> p + 1, val |-> <<>>]
                  [] OTHER -> [at[item.pos] EXCEPT !.val = <<item.val>> \o @]
    IN  IF Char(s, open) = "[" THEN at[open + 1] ELSE [pos |-> open, val |-> <<>>]

parseRow(s, p) == parseArray(s, p, parseJsonValue)

\* Each key with its value, in the order of the text.
parseMembers(s) ==
    LET at[p \in 1 .. Len(s) + 1] ==
            LET name  == parseJsonString(s, p)
                key   == IF name.val = <<>> THEN "" ELSE name.val[1]
                start == IF Char(s, name.pos) = ":" THEN name.pos + 1 ELSE name.pos
                value == CASE key = "columns"            -> parseArray(s, start, parseJsonString)
                           [] key = "rows"               -> parseArray(s, start, parseRow)
                           [] key \in {"error", "message"} -> parseJsonString(s, start)
                           [] OTHER                      -> parseJsonValue(s, start)
            IN  CASE Char(s, p) \in {"}", "END"} -> <<>>
                  [] Char(s, p) = ","            -> at[p + 1]
                  [] OTHER -> <<[key |-> key, val |-> value.val]>> \o at[value.pos]
    IN  at[2]

ClientResult(success, message, columns, rows, affectedRows) ==
    [success |-> success, message |-> message, columns |-> columns, rows |-> rows,
     affectedRows |-> affectedRows]

parseResponse(status, json) ==
    LET members == parseMembers(json)
        Has(key) == \E i \in DOMAIN members : members[i].key = key
        Get(key, absent) ==
            IF Has(key) THEN members[CHOOSE i \in DOMAIN members : members[i].key = key].val
            ELSE absent
    IN  ClientResult(status = 0 /\ ~Has("error"),
                     Get("error", Get("message", <<>>)), Get("columns", <<>>),
                     Get("rows", <<>>), Get("affected", <<"0">>)[1])

-----------------------------------------------------------------------------
(* What a client should read.                                              *)

\* A control character arrives as its number: the client knows no \u.
ShownChar(c)  == IF c = "CTRL" THEN <<"u", "0001">> ELSE <<c>>
Shown(text)   == FlattenSeq([i \in DOMAIN text |-> ShownChar(text[i])])
ShownRow(row) == [c \in DOMAIN row |-> IF row[c].kind = "TEXT" THEN Shown(row[c].text) ELSE row[c].text]

\* A count hides the message beside it, and a header hides both.
ShownResult(r) ==
    LET select   == r.success /\ r.columns # <<>>
        affected == r.success /\ ~select /\ (r.affectedRows # "0" \/ r.message = <<>>)
    IN  ClientResult(r.success, IF select \/ affected THEN <<>> ELSE Shown(r.message),
                     IF select THEN [c \in DOMAIN r.columns |-> Shown(r.columns[c])] ELSE <<>>,
                     IF select THEN [i \in DOMAIN r.rows |-> ShownRow(r.rows[i])] ELSE <<>>,
                     IF affected THEN r.affectedRows ELSE "0")
=============================================================================
